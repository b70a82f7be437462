--------------------------- MODULE ServiceRequests ---------------------------
(***************************************************************************)
(* The HTTP clients of a service: the registry of devices and modules            *)
(* (iothub_registrymanager.c), configurations (iothub_deviceconfiguration.c),       *)
(* twins (iothub_devicetwin.c) and methods (iothub_devicemethod.c).                  *)
(*                                                                         *)
(* Every call builds a body, sends one request, waits for its answer, and reads       *)
(* it.  The hub is external: it acts and answers, or the answer is lost before or     *)
(* after it acted.  Other services write meanwhile.                                    *)
(***************************************************************************)
EXTENDS Naturals, Integers, Sequences, FiniteSets

CONSTANTS
  MaxCalls,     \* bound: calls of the application
  MaxOthers     \* bound: writes of other services

VARIABLES
  registry,        \* the hub's identities
  configurations,  \* the hub's configuration
  twin,            \* version of the hub's twin
  invoked,         \* how often the device's method ran
  call,            \* the call in progress, NoCall when there is none
  answer,          \* what the hub answered: its status, what it held before and after, what it sent
  held,            \* what the application read last, and whether others have written since
  told,            \* the result of the last call, with the call and its answer
  calls, others

requestVars == <<registry, configurations, twin, invoked, call, answer, held, told, calls, others>>
hubVars == <<registry, configurations, twin, invoked>>

Identities == {"device", "module"}
Auths == {"sas", "selfSigned", "certificateAuthority"}
Absent == [exists |-> FALSE]
NoCall == [op |-> "none"]
NoAnswer == [status |-> 0]

RequestInit ==
  /\ registry = [id \in Identities |-> Absent] /\ configurations = Absent /\ twin = 0 /\ invoked = 0
  /\ call = NoCall /\ answer = NoAnswer /\ held = NoCall /\ told = NoCall /\ calls = 0 /\ others = 0

-----------------------------------------------------------------------------
(* What is written into a request and read from an answer *)

\* Keys, thumbprints or neither, by the authentication; the capabilities only of a device.
constructDeviceOrModuleJson(id, info) ==
  [exists |-> TRUE, auth |-> info.auth, status |-> info.status,
   key |-> IF info.auth = "certificateAuthority" THEN "none" ELSE info.key,
   edge |-> id = "device" /\ info.edge, managedBy |-> info.managedBy]

\* Mutant: the thumbprint is read as a key, so that there is none.
ReadsKeysOnly(json) == [json EXCEPT !.key = IF json.auth = "sas" THEN @ ELSE "none"]

parseDeviceOrModuleJsonObject(json) == json

\* A structure holds part of this: the first one has no capabilities, none but a module's is managed.
InStructure(structure, info) ==
  [info EXCEPT !.edge = structure = "deviceEx" /\ @, !.managedBy = IF structure = "module" THEN @ ELSE "none"]

\* The time of the update is written under the name of the creation.
createConfigurationPayloadJson(c) ==
  [c EXCEPT !.created = IF c.updated # 0 THEN c.updated ELSE @]

\* Mutant: the target condition is not read.
ForgetsTarget(json) == [json EXCEPT !.priority = 0, !.targetCondition = "none"]

\* The priority is looked for as a string, and is never found.
parseDeviceConfigurationJsonObject(json) == [json EXCEPT !.priority = 0]

-----------------------------------------------------------------------------
(* The calls, up to the request *)

Starts(c) ==
  /\ call = NoCall /\ calls < MaxCalls /\ calls' = calls + 1
  /\ call' = c /\ answer' = NoAnswer /\ told' = NoCall
  /\ UNCHANGED <<hubVars, held, others>>

StructureOf(id) == IF id = "module" THEN {"module"} ELSE {"device", "deviceEx"}

\* A new identity is enabled.
IoTHubRegistryManager_CreateDeviceOrModule ==
  \E id \in Identities, auth \in Auths, edge \in BOOLEAN, managedBy \in {"none", "hub"} : \E structure \in StructureOf(id) :
    Starts([op |-> "create", id |-> id, structure |-> structure,
            body |-> constructDeviceOrModuleJson(id, InStructure(structure,
              [exists |-> TRUE, auth |-> auth, key |-> "k", status |-> "enabled", edge |-> edge, managedBy |-> managedBy]))])

IoTHubRegistryManager_GetDeviceOrModule ==
  \E id \in Identities : \E structure \in StructureOf(id) : Starts([op |-> "get", id |-> id, structure |-> structure])

Other(status) == IF status = "enabled" THEN "disabled" ELSE "enabled"

\* The application changes the status of what it has read.
IoTHubRegistryManager_UpdateDeviceOrModule ==
  /\ held.op = "get"
  /\ Starts([op |-> "update", id |-> held.id, structure |-> held.structure, fresh |-> held.fresh,
             body |-> constructDeviceOrModuleJson(held.id, [held.info EXCEPT !.status = Other(@)])])

IoTHubRegistryManager_DeleteDevice == \E id \in Identities : Starts([op |-> "delete", id |-> id])

\* All devices, or the modules of a device.
IoTHubRegistryManager_GetModuleOrDeviceList == \E id \in Identities : Starts([op |-> "list", id |-> id, structure |-> id])

IoTHubDeviceConfiguration_AddConfiguration ==
  \E priority \in {1, 2} :
    Starts([op |-> "add", body |-> createConfigurationPayloadJson(
      [exists |-> TRUE, priority |-> priority, created |-> 0, updated |-> 0, content |-> "c", targetCondition |-> "t"])])

IoTHubDeviceConfiguration_GetConfiguration == Starts([op |-> "read"])

\* The application changes the content of what it has read.
IoTHubDeviceConfiguration_UpdateConfiguration ==
  /\ held.op = "read"
  /\ Starts([op |-> "replace", fresh |-> held.fresh, body |-> createConfigurationPayloadJson([held.info EXCEPT !.content = "other"])])

IoTHubDeviceConfiguration_DeleteConfiguration == Starts([op |-> "remove"])
IoTHubDeviceConfiguration_GetConfigurations == Starts([op |-> "readAll"])

\* Content for one device only: it becomes a part of its twin.
IoTHubDeviceConfiguration_ApplyConfigurationContentToDeviceOrModule == Starts([op |-> "apply"])

IoTHubRegistryManager_GetStatistics == Starts([op |-> "statistics", id |-> "device"])
IoTHubDeviceTwin_GetDeviceOrModuleTwin == Starts([op |-> "readTwin"])
IoTHubDeviceTwin_UpdateDeviceOrModuleTwin == Starts([op |-> "patch"])
IoTHubDeviceMethod_DeviceOrModuleInvoke == Starts([op |-> "invoke"])

-----------------------------------------------------------------------------
(* The hub *)

Sees(status, before, after, sent) == [status |-> status, before |-> before, after |-> after, sent |-> sent, fresh |-> TRUE]

Stored(x) == IF x.exists THEN <<x>> ELSE <<>>

ActsOnIdentity ==
  /\ call.op \in {"create", "get", "update", "delete", "list", "statistics"} /\ UNCHANGED <<configurations, twin, invoked>>
  /\ LET old == registry[call.id]
         Puts(x) == registry' = [registry EXCEPT ![call.id] = x] /\ answer' = Sees(IF x.exists THEN 200 ELSE 204, old, x, x)
         Says(status) == UNCHANGED registry /\ answer' = Sees(status, old, old, old)
     IN CASE call.op = "create" -> IF old.exists THEN Says(409) ELSE Puts(call.body)
          [] call.op = "update" -> IF old.exists THEN Puts(call.body) ELSE Says(404)
          [] call.op = "delete" -> IF old.exists THEN Puts(Absent) ELSE Says(404)
          [] call.op = "statistics" -> Says(200)
          [] call.op = "get" -> \E status \in {200, 404} : (old.exists => status = 200) /\ Says(status)
          [] call.op = "list" -> UNCHANGED registry /\ answer' = Sees(200, old, old, Stored(old))

\* The hub stamps what is added and changed.
ActsOnConfiguration ==
  /\ call.op \in {"add", "read", "readAll", "replace", "remove"} /\ UNCHANGED <<registry, twin, invoked>>
  /\ LET old == configurations
         Puts(x, status) == configurations' = x /\ answer' = Sees(status, old, x, x)
         Says(status) == UNCHANGED configurations /\ answer' = Sees(status, old, old, old)
     IN CASE call.op = "add" -> IF old.exists THEN Says(409) ELSE Puts([call.body EXCEPT !.created = 1], 200)
          [] call.op = "replace" -> IF old.exists THEN Puts([call.body EXCEPT !.updated = 2], 200) ELSE Says(404)
          [] call.op = "remove" -> IF old.exists THEN Puts(Absent, 204) ELSE Says(404)
          [] call.op = "read" -> Says(IF old.exists THEN 200 ELSE 404)
          [] call.op = "readAll" -> UNCHANGED configurations /\ answer' = Sees(200, old, old, Stored(old))

ActsOnDevice ==
  /\ UNCHANGED <<registry, configurations>>
  /\ \/ /\ call.op \in {"patch", "apply"} /\ twin' = twin + 1 /\ UNCHANGED invoked
        /\ \E status \in {200, 204} : (call.op = "patch" => status = 200) /\ answer' = Sees(status, twin, twin', twin')
     \/ call.op = "readTwin" /\ UNCHANGED <<twin, invoked>> /\ answer' = Sees(200, twin, twin, twin)
     \/ /\ call.op = "invoke" /\ UNCHANGED twin
        /\ \/ invoked' = invoked + 1 /\ answer' = Sees(200, invoked, invoked', invoked')
           \/ UNCHANGED invoked /\ \E status \in {404, 504} : answer' = Sees(status, invoked, invoked, invoked)

HubActs == ActsOnIdentity \/ ActsOnConfiguration \/ ActsOnDevice

Lost == [status |-> -1]

\* An answer is lost on its way, or what it holds cannot be read.
HubAnswers ==
  /\ call # NoCall /\ answer = NoAnswer
  /\ \/ HubActs
     \/ answer' = Lost /\ UNCHANGED hubVars
  /\ UNCHANGED <<call, held, told, calls, others>>

AnswerLost ==
  /\ call # NoCall /\ answer # NoAnswer /\ answer # Lost /\ "garbled" \notin DOMAIN answer
  /\ answer' \in {Lost, [status |-> answer.status, before |-> answer.before, after |-> answer.after, garbled |-> TRUE]}
  /\ UNCHANGED <<hubVars, call, held, told, calls, others>>

\* Another service writes; the client's requests match any version.
OtherWrites ==
  /\ others < MaxOthers /\ others' = others + 1
  /\ \/ \E id \in Identities : registry[id].exists /\ registry' = [registry EXCEPT ![id].auth = "sas", ![id].key = "other"]
        /\ UNCHANGED <<configurations, twin, invoked>>
     \/ configurations.exists /\ configurations' = [configurations EXCEPT !.priority = 3] /\ UNCHANGED <<registry, twin, invoked>>
  /\ held' = IF held = NoCall THEN held ELSE [held EXCEPT !.fresh = FALSE]
  /\ call' = IF answer = NoAnswer /\ "fresh" \in DOMAIN call THEN [call EXCEPT !.fresh = FALSE] ELSE call
  /\ answer' = IF "fresh" \in DOMAIN answer THEN [answer EXCEPT !.fresh = FALSE] ELSE answer
  /\ UNCHANGED <<told, calls>>

-----------------------------------------------------------------------------
(* The answer *)

\* Mutant: only an error of the hub itself is one.
AnyBelow500(op, status) == IF status < 500 THEN "OK" ELSE "HTTP_STATUS_ERROR"

sendHttpRequestCRUD(op, status) ==
  CASE status <= 300 -> "OK"
    [] status = 409 /\ op = "create" -> "DEVICE_EXIST"
    [] status = 404 /\ op = "get" -> "DEVICE_NOT_EXIST"
    [] OTHER -> "HTTP_STATUS_ERROR"

sendHttpRequestDeviceConfiguration(op, status) ==
  IF status \in (CASE op = "remove" -> {204} [] op = "apply" -> {200, 204} [] OTHER -> {200}) THEN "OK" ELSE "ERROR"

sendHttpRequestTwin(status) == IF status = 200 THEN "OK" ELSE "ERROR"
sendHttpRequestDeviceMethod(status) == IF status = 200 THEN "OK" ELSE "ERROR"

StatusResult(op, status) ==
  CASE op \in {"create", "get", "update", "delete", "list", "statistics"} -> sendHttpRequestCRUD(op, status)
    [] op \in {"add", "read", "readAll", "replace", "remove", "apply"} -> sendHttpRequestDeviceConfiguration(op, status)
    [] op \in {"patch", "readTwin"} -> sendHttpRequestTwin(status)
    [] op = "invoke" -> sendHttpRequestDeviceMethod(status)

\* These answers are read.  The twin is handed on as it is.
Reads(op) == op \in {"create", "get", "list", "statistics", "add", "read", "readAll", "invoke"}

\* A module that cannot be got for any reason does not exist.
IoTHubRegistryManager_GetModule(result) ==
  IF call.op = "get" /\ call.id = "module" /\ result # "OK" THEN "DEVICE_NOT_EXIST" ELSE result

\* An identity without its name is none: the hub may say so with an empty answer.
SaysNone == call.op = "get" /\ answer # Lost /\ "garbled" \notin DOMAIN answer /\ ~answer.sent.exists

Result ==
  IoTHubRegistryManager_GetModule(
    CASE answer = Lost -> "HTTPAPI_ERROR"
      [] StatusResult(call.op, answer.status) = "OK" /\ "garbled" \in DOMAIN answer /\ Reads(call.op) -> "JSON_ERROR"
      [] StatusResult(call.op, answer.status) = "OK" /\ SaysNone -> "DEVICE_NOT_EXIST"
      [] OTHER -> StatusResult(call.op, answer.status))

Parsed ==
  CASE call.op = "get" -> InStructure(call.structure, parseDeviceOrModuleJsonObject(answer.sent))
    [] call.op = "read" -> parseDeviceConfigurationJsonObject(answer.sent)

\* A list is read as a whole, or what was read of it is given up.
parseDeviceOrModuleListJson(sent) == [i \in DOMAIN sent |-> InStructure(call.structure, parseDeviceOrModuleJsonObject(sent[i]))]
parseDeviceConfigurationListJson(sent) == [i \in DOMAIN sent |-> parseDeviceConfigurationJsonObject(sent[i])]

Listed ==
  CASE Result = "OK" /\ call.op = "list" -> parseDeviceOrModuleListJson(answer.sent)
    [] Result = "OK" /\ call.op = "readAll" -> parseDeviceConfigurationListJson(answer.sent)
    [] OTHER -> <<>>

\* What the application has read grows stale with its own writes too.
WritesBody == call.op \notin {"get", "list", "statistics", "read", "readAll", "readTwin"}

CallReturns ==
  /\ call # NoCall /\ answer # NoAnswer /\ call' = NoCall
  /\ told' = [op |-> "told", call |-> call, answer |-> answer, result |-> Result, items |-> Listed]
  /\ held' = IF Result = "OK" /\ call.op = "get" THEN [op |-> "get", id |-> call.id, structure |-> call.structure, info |-> Parsed, fresh |-> answer.fresh]
             ELSE IF Result = "OK" /\ call.op = "read" THEN [op |-> "read", info |-> Parsed, fresh |-> answer.fresh]
             ELSE IF held # NoCall /\ WritesBody THEN [held EXCEPT !.fresh = FALSE] ELSE held
  /\ UNCHANGED <<hubVars, answer, calls, others>>

RequestNext ==
  \/ IoTHubRegistryManager_CreateDeviceOrModule \/ IoTHubRegistryManager_GetDeviceOrModule
  \/ IoTHubRegistryManager_UpdateDeviceOrModule \/ IoTHubRegistryManager_DeleteDevice
  \/ IoTHubRegistryManager_GetModuleOrDeviceList
  \/ IoTHubDeviceConfiguration_AddConfiguration \/ IoTHubDeviceConfiguration_GetConfiguration
  \/ IoTHubDeviceConfiguration_UpdateConfiguration \/ IoTHubDeviceConfiguration_DeleteConfiguration
  \/ IoTHubDeviceConfiguration_GetConfigurations \/ IoTHubDeviceConfiguration_ApplyConfigurationContentToDeviceOrModule
  \/ IoTHubRegistryManager_GetStatistics \/ IoTHubDeviceTwin_GetDeviceOrModuleTwin
  \/ IoTHubDeviceTwin_UpdateDeviceOrModuleTwin \/ IoTHubDeviceMethod_DeviceOrModuleInvoke
  \/ HubAnswers \/ AnswerLost \/ OtherWrites \/ CallReturns

RequestSpec == RequestInit /\ [][RequestNext]_requestVars

-----------------------------------------------------------------------------
(* Properties *)

\* A call that returns OK was answered by the hub, which did what it asked; a device is said to exist, or not to,
\* only when the hub said so.  (Of a module every failure says that it does not exist: see the README.)
ResultsTrue ==
  told # NoCall =>
    LET c == told.call  a == told.answer IN
    /\ told.result = "OK" => /\ a # Lost
                             /\ c.op \in {"create", "update", "add", "replace"} => a.after.exists
                             /\ c.op \in {"delete", "remove"} => a.before.exists /\ ~a.after.exists
                             /\ c.op \in {"get", "read"} => a.before.exists
                             /\ c.op \in {"list", "readAll"} => Len(told.items) = IF a.before.exists THEN 1 ELSE 0
                             /\ c.op \in {"patch", "apply", "invoke"} => a.after = a.before + 1
    /\ told.result = "DEVICE_EXIST" => a.before.exists
    /\ told.result = "DEVICE_NOT_EXIST" /\ c.id = "device" => ~a.before.exists

Touches(op) == call.op = op /\ "fresh" \in DOMAIN call /\ call.fresh /\ answer.status = 200

\* An application that reads an identity, changes its status and writes it back changes nothing else, whatever the
\* authentication is, unless it uses the structure without capabilities, which takes them away; of a configuration
\* the content and the target survive.  (The priority and the time of creation do not: see the README.)
UpdateKeepsRest ==
  /\ Touches("update") =>
       answer.after = [answer.before EXCEPT !.status = Other(@), !.edge = call.structure # "device" /\ @]
  /\ Touches("replace") =>
       /\ answer.after.targetCondition = answer.before.targetCondition
       /\ answer.after.content = "other"

\* The registry, device method, twin and configuration clients say what the hub did, and write back what
\* they read.
RequestsSound == ResultsTrue /\ UpdateKeepsRest
=============================================================================
