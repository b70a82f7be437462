---------------------------- MODULE ClientConfig ----------------------------
(***************************************************************************)
(* The configuration of a client from a connection string, from the          *)
(* environment of an Edge module or from the address of a hub,                *)
(* iothub_client_core_ll.c, and the check of it when the MQTT transport is     *)
(* created, iothubtransport_mqtt_common.c.                                      *)
(*                                                                         *)
(* A connection string is a sequence of pairs.  The value of a pair is "ok",    *)
(* "bad" (not accepted for that name: a host without a dot, x509=maybe, or a     *)
(* copy that cannot be allocated) or "empty".                                     *)
(***************************************************************************)
EXTENDS Naturals, Sequences, FiniteSets

CONSTANTS MaxPairs    \* bound: pairs of a connection string

ASSUME ConfigAssumption == MaxPairs \in Nat

VARIABLES
  source,     \* "none", or how the client is being made
  given,      \* the connection string, the environment or the address
  config,     \* what was understood: the names that have a value
  made,       \* the client: "no", "refused", "destroyed" or "made"
  trusted     \* certificates are set that the client trusts

configVars == <<source, given, config, made, trusted>>

Names == {"HostName", "DeviceId", "SharedAccessKey", "SharedAccessSignature", "x509",
          "UseProvisioning", "GatewayHostName", "ModuleId", "Other"}
Pairs == [name : Names, value : {"ok"}] \cup [name : {"HostName", "x509"}, value : {"bad"}]
           \cup [name : {"GatewayHostName", "DeviceId"}, value : {"empty"}]
ConnectionStrings ==
  UNION {{s \in [1..n -> Pairs] : \A i, j \in 1..n : i # j => s[i].name # s[j].name} : n \in 0..MaxPairs}

Nothing == [read |-> {}, stopped |-> FALSE, skip |-> FALSE]

ConfigInit == source = "none" /\ given = <<>> /\ config = {} /\ made = "no" /\ trusted = FALSE

-----------------------------------------------------------------------------
(* A connection string *)

\* One pair: an empty value takes the next pair as its value; a bad one ends the reading, and what was
\* read so far is the configuration.  Of a host without a dot the name is kept, not the suffix.
ReadsPair(r, pair, last) ==
  IF r.stopped THEN r
  ELSE IF r.skip THEN [r EXCEPT !.skip = FALSE]
  ELSE CASE pair.value = "ok" -> [r EXCEPT !.read = @ \cup {pair.name}]
         [] pair.value = "bad" -> [r EXCEPT !.stopped = TRUE, !.read = @ \cup (IF pair.name = "HostName" THEN {"iotHubName"} ELSE {})]
         [] pair.value = "empty" -> IF last THEN [r EXCEPT !.stopped = TRUE]
                                    ELSE [r EXCEPT !.skip = TRUE, !.read = @ \cup {pair.name}]

ReadsString(s) ==
  LET after[n \in 0..Len(s)] == IF n = 0 THEN Nothing ELSE ReadsPair(after[n - 1], s[n], n = Len(s))
  IN  after[Len(s)].read

\* Mutant: one credential is enough, also when a certificate or provisioning is to be used.
AnyCredential(c) == {"HostName", "DeviceId"} \subseteq c /\ c \cap {"SharedAccessKey", "SharedAccessSignature", "x509", "UseProvisioning"} # {}

\* Exactly one of key and token, or neither with a certificate or provisioning.
Acceptable(c) ==
  /\ {"HostName", "DeviceId"} \subseteq c
  /\ IF c \cap {"x509", "UseProvisioning"} = {}
     THEN ("SharedAccessSignature" \in c) # ("SharedAccessKey" \in c)
     ELSE c \cap {"SharedAccessSignature", "SharedAccessKey"} = {}

\* IoTHubTransport_MQTT_Common_Create, with names that are neither empty nor too long.
IoTHubTransport_MQTT_Common_Create(c) ==
  {"HostName", "DeviceId"} \subseteq c /\ ~({"SharedAccessKey", "SharedAccessSignature"} \subseteq c)

\* The client is made from what was read; any step of its creation may fail.
Creates(c) == \E done \in BOOLEAN : made' = IF done THEN "made" ELSE "refused"

IoTHubClientCore_LL_CreateFromConnectionString ==
  /\ source = "none" /\ source' = "string"
  /\ \E s \in ConnectionStrings :
       /\ given' = s /\ config' = ReadsString(s)
       /\ IF Acceptable(ReadsString(s)) THEN Creates(ReadsString(s)) ELSE made' = "refused"
  /\ trusted' = FALSE

-----------------------------------------------------------------------------
(* The environment of an Edge module: the variables that are set *)

\* "sas" stands for the one scheme that is supported, "dotted" for a host name with a suffix.
Variables == {"EdgeHubConnectionString", "EdgeModuleCACertificateFile", "IOTEDGE_AUTHSCHEME", "sas",
              "IOTEDGE_DEVICEID", "IOTEDGE_MODULEID", "IOTEDGE_IOTHUBHOSTNAME", "dotted", "IOTEDGE_GATEWAYHOSTNAME"}
FromString == {"EdgeHubConnectionString", "EdgeModuleCACertificateFile"}

\* Mutant: the identity of the module is not asked for.
RetrievesAnonymous(env) ==
  IF "EdgeHubConnectionString" \in env THEN "EdgeModuleCACertificateFile" \in env
  ELSE Variables \ (FromString \cup {"IOTEDGE_DEVICEID", "IOTEDGE_MODULEID"}) \subseteq env

retrieve_edge_environment_variabes(env) ==
  IF "EdgeHubConnectionString" \in env THEN "EdgeModuleCACertificateFile" \in env
  ELSE Variables \ FromString \subseteq env

\* What the variables are used for.
NameOf == [v \in {"IOTEDGE_DEVICEID", "IOTEDGE_MODULEID", "IOTEDGE_IOTHUBHOSTNAME", "IOTEDGE_GATEWAYHOSTNAME"} |->
             CASE v = "IOTEDGE_DEVICEID" -> "DeviceId" [] v = "IOTEDGE_MODULEID" -> "ModuleId"
               [] v = "IOTEDGE_IOTHUBHOSTNAME" -> "HostName" [] v = "IOTEDGE_GATEWAYHOSTNAME" -> "GatewayHostName"]

\* A client that cannot be told which certificates to trust is destroyed again.
IoTHubClientCore_LL_CreateFromEnvironment ==
  /\ source = "none" /\ source' = "environment"
  /\ \E env \in SUBSET Variables : \E created, bundle, option \in BOOLEAN :
       /\ given' = env
       /\ config' = IF ~retrieve_edge_environment_variabes(env) THEN {}
                    ELSE IF "EdgeHubConnectionString" \in env THEN {"HostName", "DeviceId", "SharedAccessKey", "ModuleId"}
                    ELSE {"UseProvisioning"} \cup {NameOf[v] : v \in env \cap DOMAIN NameOf}
       /\ made' = IF ~(retrieve_edge_environment_variabes(env) /\ created) THEN "refused"
                  ELSE IF bundle /\ option THEN "made" ELSE "destroyed"
       /\ trusted' = (made' = "made" /\ option)

-----------------------------------------------------------------------------
(* The address of a hub, of a provisioned device: where its dots split it *)

\* given: the positions of the dots; config: the split that is used, as <<"name", dot>> and <<"suffix", dot>>,
\* or <<"freed", dot>> for a name whose memory was released.
Dots == 2

\* Mutant: a name without a suffix is used as it is.
SplitsHalf(c, dot, nameOk, suffixOk) == IF nameOk THEN {<<"name", dot>>, <<"suffix", 1>>} ELSE c

\* At a dot, when no suffix is found yet: copies may fail, and then the next dot is tried.
SplitsAt(c, dot, nameOk, suffixOk) ==
  IF \E d \in 1..Dots : <<"suffix", d>> \in c THEN c
  ELSE IF ~nameOk THEN c
  ELSE IF suffixOk THEN {<<"name", dot>>, <<"suffix", dot>>}
  ELSE {<<"freed", dot>>}

SplitsAddress(dots, oks) ==
  LET split[n \in 0..dots] == IF n = 0 THEN {} ELSE SplitsAt(split[n - 1], n, oks[n][1], oks[n][2]) IN split[dots]

IoTHubClientCore_LL_CreateFromDeviceAuth ==
  /\ source = "none" /\ source' = "address"
  /\ \E dots \in 0..Dots : \E oks \in [1..Dots -> BOOLEAN \X BOOLEAN] :
       /\ given' = [i \in 1..dots |-> i]
       /\ config' = SplitsAddress(dots, oks)
  /\ IF \E d \in 1..Dots : <<"suffix", d>> \in config' THEN Creates(config') ELSE made' = "refused"
  /\ trusted' = FALSE

-----------------------------------------------------------------------------
\* The call returns.
ConfigDone ==
  /\ source # "none" /\ source' = "none"
  /\ given' = <<>> /\ config' = {} /\ made' = "no" /\ trusted' = FALSE

ConfigNext ==
  \/ IoTHubClientCore_LL_CreateFromConnectionString
  \/ IoTHubClientCore_LL_CreateFromEnvironment
  \/ IoTHubClientCore_LL_CreateFromDeviceAuth
  \/ ConfigDone

ConfigSpec == ConfigInit /\ [][ConfigNext]_configVars

-----------------------------------------------------------------------------
(* Properties *)

Written(s) == {s[i].name : i \in DOMAIN s}

\* The order of pairs does not matter when each has a proper value: what was written was read,
\* and a client is made of it only with exactly one way to authenticate, which its transport accepts.
\* Pairs after one that is bad or empty may be lost, but a client is never made of less than it needs.
ConnectionStringRead ==
  source = "string" =>
    /\ (\A i \in DOMAIN given : given[i].value = "ok") => config = Written(given)
    /\ made = "made" =>
         /\ IoTHubTransport_MQTT_Common_Create(config)
         /\ config \subseteq Written(given)
         /\ Cardinality(config \cap {"SharedAccessKey", "SharedAccessSignature"})
              = (IF config \cap {"x509", "UseProvisioning"} = {} THEN 1 ELSE 0)

\* A module of Edge never runs without the certificates it has to trust.
EdgeIsTrusted == (source = "environment" /\ made = "made") => trusted /\ {"HostName", "DeviceId", "ModuleId"} \subseteq config

\* The name and the suffix of a hub are the two sides of one dot, and none was released, also when
\* memory was short in between.
HubNameWhole ==
  (source = "address" /\ made = "made") => \E d \in 1..Dots : config = {<<"name", d>>, <<"suffix", d>>}

\* Whatever a client is made from, it is made of all it needs and nothing else.
ConfigurationWhole == ConnectionStringRead /\ EdgeIsTrusted /\ HubNameWhole
=============================================================================
