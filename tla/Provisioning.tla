----------------------------- MODULE Provisioning -----------------------------
(***************************************************************************)
(* The provisioning of a device: prov_device_client.c and                      *)
(* prov_device_ll_client.c, with the secrets of prov_auth_client.c, over one of   *)
(* the transports prov_transport_mqtt_common.c, prov_transport_amqp_common.c       *)
(* and prov_transport_http_client.c.                                                *)
(*                                                                         *)
(* Prov_Device_LL_DoWork is three steps, taken one after the other under the lock    *)
(* of the worker: what the network brings, what the transport does about its state,    *)
(* and the client's own state machine.  The callbacks of the transport are functions    *)
(* from the client's record to its next value.                                           *)
(***************************************************************************)
EXTENDS Naturals, Integers, Sequences, FiniteSets, SequencesExt

CONSTANTS
  ProvTimeout,       \* the value of PROV_OPTION_TIMEOUT, in ticks
  Throttle,          \* PROV_GET_THROTTLE_TIME, in ticks
  LongRetry,         \* a retry-after of the service that is longer
  MaxRegistrations,  \* bound: registrations accepted
  MaxReplies         \* bound: answers of the service

VARIABLES
  carrier,     \* "MQTT", "AMQP" or "HTTP": the transport, "none" before Create
  hsm_type,    \* "TPM", "X509" or "KEY"
  prov,        \* PROV_INSTANCE_INFO
  tr,          \* the transport's state
  sinceSend,   \* ticks since last_send_time_ms: negative when that lies ahead
  sinceMark,   \* ticks since timeout_value
  turn,        \* "idle", or the step of DoWork that is next: "transport" or "client"
  worker,      \* the thread: "none", "works", "stops" or "joined"
  requests,    \* what the service has not answered yet
  replies,     \* how many answers it gave
  accepted,    \* registrations accepted
  answers,     \* what the registration callback was told, each with its registration
  assigned,    \* the registrations the service said are assigned
  askedOwn     \* every status request named the operation of its own registration

provVars == <<carrier, hsm_type, prov, tr, sinceSend, sinceMark, turn, worker, requests, replies, accepted, answers, assigned, askedOwn>>
provFixed == <<carrier, hsm_type, worker>>
provTimes == <<sinceSend, sinceMark>>

NotMade == [state |-> "none"]
NoTransport == [link |-> "none"]
Payloads == {"assigning", "assigned", "unassigned", "failed", "disabled", "malformed"}
ErrorOf == [failed |-> "UNAUTHORIZED", disabled |-> "DISABLED", malformed |-> "PARSING"]
Running == prov.state \notin {"none", "READY"}

ProvInit ==
  /\ carrier = "none" /\ hsm_type = "none" /\ prov = NotMade /\ tr = NoTransport
  /\ sinceSend = 0 /\ sinceMark = 0 /\ turn = "idle" /\ worker = "none"
  /\ requests = <<>> /\ replies = 0 /\ accepted = 0 /\ answers = <<>> /\ assigned = {} /\ askedOwn = TRUE

-----------------------------------------------------------------------------
(* The callbacks of the transport, as functions of the client *)

Told(result) == answers' = Append(answers, [reg |-> accepted, result |-> result])

\* The reason survives: it is never reset.
on_transport_error(p, reason) == [p EXCEPT !.error_reason = reason]

on_transport_status(p, status, retry) ==
  LET told == [p EXCEPT !.retry_after = retry] IN
  CASE status = "CONNECTED" -> [told EXCEPT !.is_connected = TRUE]
    [] status = "ASSIGNING" -> [told EXCEPT !.state = "STATUS_SEND"]
    [] status = "TRANSIENT" /\ p.state = "REGISTER_SENT" -> [told EXCEPT !.state = "REGISTER_SEND"]
    [] status = "TRANSIENT" /\ p.state = "STATUS_SENT" -> [told EXCEPT !.state = "STATUS_SEND"]
    [] OTHER -> told

Failed(p, reason) == [p EXCEPT !.state = "ERROR", !.error_reason = IF @ = "OK" THEN reason ELSE @]

\* The transport is closed (see Closed) and what belongs to this registration is forgotten.
cleanup_prov_info(p) == [p EXCEPT !.transport_open = FALSE, !.is_connected = FALSE, !.registration_id = FALSE]

-----------------------------------------------------------------------------
(* The transports *)

\* A connection is made when the transport works first, over HTTP at once.
prov_transport_common_mqtt_open(t) == [t EXCEPT !.link = "DISCONNECTED"]
prov_transport_common_amqp_open(t) == [t EXCEPT !.link = "DISCONNECTED"]
prov_transport_http_open(t) == [t EXCEPT !.link = "CONNECTING"]

Opened(t) ==
  CASE carrier = "MQTT" -> prov_transport_common_mqtt_open(t)
    [] carrier = "AMQP" -> prov_transport_common_amqp_open(t)
    [] carrier = "HTTP" -> prov_transport_http_open(t)

\* Everything of the connection goes; the state, the operation id and the last payload stay.
prov_transport_common_mqtt_close(t) == [t EXCEPT !.link = "IDLE"]
prov_transport_common_amqp_close(t) == [t EXCEPT !.link = "IDLE", !.opened = {}]
prov_transport_http_close(t) == [t EXCEPT !.link = "IDLE"]

\* Mutant: the link outlives the registration.
LeavesLink(t) == [t EXCEPT !.opened = {}]

Closed(t) ==
  CASE carrier = "MQTT" -> prov_transport_common_mqtt_close(t)
    [] carrier = "AMQP" -> prov_transport_common_amqp_close(t)
    [] carrier = "HTTP" -> prov_transport_http_close(t)

\* Mutant: an old operation id does not matter to a new registration.
AcceptsAgain(t) == t.state \notin {"REG_SEND", "ERROR"}

\* Only HTTP takes a new registration while it knows an operation.
prov_transport_common_mqtt_register_device(t) == t.state \notin {"REG_SEND", "ERROR"} /\ t.operation = 0
prov_transport_common_amqp_register_device(t) == t.state \notin {"REG_SEND", "ERROR"} /\ t.operation = 0
prov_transport_http_register_device(t) == t.state # "ERROR"

Refuses(t) ==
  CASE carrier = "MQTT" -> ~prov_transport_common_mqtt_register_device(t)
    [] carrier = "AMQP" -> ~prov_transport_common_amqp_register_device(t)
    [] carrier = "HTTP" -> ~prov_transport_http_register_device(t)

\* The message is made of the registration id, which an application may have made the client forget.
Sends(kind) == prov.registration_id /\ requests' = Append(requests, [kind |-> kind, reg |-> accepted])

TransportError(t) == [t EXCEPT !.state = "ERROR", !.link = IF carrier = "HTTP" THEN @ ELSE "ERROR"]

-----------------------------------------------------------------------------
(* What the network brings, in the dowork of the underlying client *)

Brings(p, t) == prov' = p /\ tr' = t /\ UNCHANGED <<requests, replies, assigned>>

Quiet == Brings(prov, tr)

\* While MQTT is about to subscribe the link is only marked afterwards.
Breaks ==
  /\ tr.link \notin {"IDLE", "DISCONNECTED", "ERROR"}
  /\ Brings(prov, IF carrier = "MQTT" /\ tr.link = "CONNECTED" THEN [tr EXCEPT !.state = "ERROR"] ELSE TransportError(tr))

\* The CONNACK and the SUBACK of MQTT.
mqtt_operation_complete_callback ==
  /\ carrier = "MQTT"
  /\ \/ tr.link = "CONNECTING" /\ Brings(prov, [tr EXCEPT !.link = "CONNECTED"])
     \/ tr.link = "CONNECTING" /\ Brings(on_transport_error(prov, "DEV_AUTH_ERROR"), TransportError(tr))
     \/ tr.link = "SUBSCRIBING" /\ Brings(prov, [tr EXCEPT !.link = "SUBSCRIBED"])
     \/ tr.link = "SUBSCRIBING" /\ Brings(prov, TransportError(tr))

\* One link of AMQP opens: with both the client is connected.
LinkOpens ==
  /\ carrier = "AMQP" /\ tr.link = "CONNECTING"
  /\ \E end \in {"sender", "receiver"} \ tr.opened :
       LET opens == [tr EXCEPT !.opened = @ \union {end}] IN
       IF Cardinality(opens.opened) = 2
       THEN Brings(on_transport_status(prov, "CONNECTED", tr.retry_after), [opens EXCEPT !.link = "CONNECTED"])
       ELSE Brings(prov, opens)

on_http_connected ==
  /\ carrier = "HTTP" /\ tr.link = "CONNECTING"
  /\ \/ Brings(on_transport_status(prov, "CONNECTED", tr.retry_after), [tr EXCEPT !.link = "CONNECTED"])
     \/ Brings(prov, TransportError(tr))

Received(t) == [t EXCEPT !.state = IF @ = "REG_SENT" THEN "REG_RECV" ELSE "STATUS_RECV"]

\* The payload of an answer is kept for the step of the transport.
Takes(i, retry) ==
  \E payload \in Payloads :
    /\ tr' = [Received(tr) EXCEPT !.payload = payload, !.about = requests[i].reg, !.retry_after = retry]
    /\ assigned' = IF payload = "assigned" THEN assigned \union {requests[i].reg} ELSE assigned

\* An overloaded service (429 and above) asks to try again, which AMQP cannot tell.
Overloaded(retry) == tr' = [tr EXCEPT !.state = "TRANSIENT", !.retry_after = retry] /\ UNCHANGED assigned

mqtt_notification_callback(i, retry) == carrier = "MQTT" /\ (Takes(i, retry) \/ Overloaded(retry))

on_message_recv_callback(i, retry) == carrier = "AMQP" /\ Takes(i, retry)

\* An answer without content leaves the payload of the one before.
on_http_reply_recv(i, retry) ==
  /\ carrier = "HTTP"
  /\ Takes(i, retry) \/ Overloaded(retry) \/ (tr' = [Received(tr) EXCEPT !.retry_after = retry] /\ UNCHANGED assigned)

AnswerComes ==
  /\ tr.link \in {"SUBSCRIBED", "CONNECTED"} /\ replies < MaxReplies /\ UNCHANGED prov
  /\ \E i \in 1..Len(requests), retry \in {Throttle, LongRetry} :
       /\ requests' = RemoveAt(requests, i) /\ replies' = replies + 1
       /\ mqtt_notification_callback(i, retry) \/ on_message_recv_callback(i, retry) \/ on_http_reply_recv(i, retry)

\* A client whose registration has failed does not let its transport work.
Network ==
  /\ turn = "idle" /\ worker = "works"
  /\ IF prov.state = "ERROR" THEN Quiet
     ELSE Quiet \/ Breaks \/ mqtt_operation_complete_callback \/ LinkOpens \/ on_http_connected \/ AnswerComes
  /\ turn' = IF carrier = "MQTT" /\ tr'.link # tr.link /\ tr'.link = "CONNECTED" THEN "client" ELSE "transport"
  /\ UNCHANGED <<provFixed, provTimes, accepted, answers, askedOwn>>

-----------------------------------------------------------------------------
(* What the transport does about its state *)

Does(p, t) == prov' = p /\ tr' = t /\ UNCHANGED <<requests, answers, askedOwn>>

\* A token is signed by a TPM or a symmetric key, for the registration id: without one the program crashes here.
prov_auth_construct_sas_token == hsm_type # "X509"
prov_transport_challenge_callback == prov.registration_id /\ prov_auth_construct_sas_token

CannotConnect == Does(prov, TransportError(tr))
Connects == Does(prov, [tr EXCEPT !.link = "CONNECTING"])

\* With a symmetric key the password is a token; a certificate and its key have to fit.
create_connection ==
  /\ carrier = "MQTT" /\ tr.link = "DISCONNECTED"
  /\ \/ (hsm_type = "KEY" => prov_transport_challenge_callback) /\ Connects
     \/ CannotConnect
     \/ hsm_type = "X509" /\ Does(on_transport_error(prov, "KEY_ERROR"), TransportError(tr))

\* SASL is by the TPM or by a token.
create_sasl_handler ==
  /\ carrier = "AMQP" /\ tr.link = "DISCONNECTED"
  /\ \/ (hsm_type = "KEY" => prov_transport_challenge_callback) /\ Connects
     \/ CannotConnect

\* MQTT is connected for the client before the topic is.
subscribe_to_topic ==
  /\ carrier = "MQTT" /\ tr.link = "CONNECTED"
  /\ \/ Does(on_transport_status(prov, "CONNECTED", tr.retry_after), [tr EXCEPT !.link = "SUBSCRIBING"])
     \/ Does(prov, TransportError(tr))

send_registration_info ==
  /\ tr.state = "REG_SEND"
  /\ \/ Sends("register") /\ tr' = [tr EXCEPT !.state = "REG_SENT"] /\ UNCHANGED <<prov, answers, askedOwn>>
     \/ Does(prov, TransportError(tr))

send_operation_status_message ==
  /\ tr.state = "STATUS_SEND"
  /\ \/ /\ Sends("status") /\ tr' = [tr EXCEPT !.state = "STATUS_SENT"] /\ askedOwn' = (askedOwn /\ tr.operation = accepted)
        /\ UNCHANGED <<prov, answers>>
     \/ Does(prov, TransportError(tr))

\* The key of a TPM is imported first; then the application is told, and the transport closed under its own feet.
RegistrationDone ==
  \/ /\ Told("OK") /\ prov' = [cleanup_prov_info(prov) EXCEPT !.state = "READY"] /\ requests' = <<>>
     /\ tr' = [Closed(tr) EXCEPT !.state = "IDLE"] /\ UNCHANGED askedOwn
  \/ hsm_type = "TPM" /\ Does([prov EXCEPT !.state = "ERROR", !.error_reason = "KEY_ERROR"], [tr EXCEPT !.state = "IDLE"])

\* Only HTTP answers a challenge; whether the answer could be sent is not looked at.
Challenged ==
  \/ Does(prov, TransportError(tr))
  \/ /\ carrier = "HTTP" /\ prov_transport_challenge_callback /\ tr' = [tr EXCEPT !.state = "REG_SENT"]
     /\ (Sends("challenge") \/ UNCHANGED requests) /\ UNCHANGED <<prov, answers, askedOwn>>

\* The first operation id is kept, a later one is not looked at.
KeepsOperation(t) == [t EXCEPT !.state = "IDLE", !.operation = IF @ = 0 THEN t.about ELSE @]

prov_transport_process_json_reply ==
  /\ tr.state \in {"REG_RECV", "STATUS_RECV"}
  /\ CASE tr.payload = "assigning" -> Does(on_transport_status(prov, "ASSIGNING", tr.retry_after), KeepsOperation(tr))
       [] tr.payload = "assigned" -> RegistrationDone
       [] tr.payload = "unassigned" -> Challenged
       [] tr.payload = "none" -> Does(prov, TransportError(tr))
       [] OTHER -> Does(on_transport_error(prov, ErrorOf[tr.payload]), TransportError(tr))

TriesAgain ==
  /\ tr.state = "TRANSIENT"
  /\ Does(on_transport_status(prov, "TRANSIENT", tr.retry_after), [tr EXCEPT !.state = "IDLE"])

on_transport_registration_data ==
  /\ tr.state = "ERROR"
  /\ Does(Failed(prov, "TRANSPORT"), [tr EXCEPT !.state = "IDLE", !.link = IF carrier = "HTTP" THEN @ ELSE "IDLE"])

Acts ==
  \/ send_registration_info \/ send_operation_status_message \/ prov_transport_process_json_reply
  \/ TriesAgain \/ on_transport_registration_data
  \/ tr.state \in {"IDLE", "REG_SENT", "STATUS_SENT"} /\ Does(prov, tr)

prov_transport_common_mqtt_dowork ==
  /\ carrier = "MQTT"
  /\ \/ create_connection
     \/ subscribe_to_topic
     \/ tr.link \in {"SUBSCRIBED", "ERROR"} /\ Acts
     \/ tr.link \in {"IDLE", "CONNECTING", "SUBSCRIBING"} /\ Does(prov, tr)

prov_transport_common_amqp_dowork ==
  /\ carrier = "AMQP"
  /\ \/ create_sasl_handler
     \/ tr.link \in {"CONNECTED", "ERROR"} /\ Acts
     \/ tr.link \in {"IDLE", "CONNECTING"} /\ Does(prov, tr)

prov_transport_http_dowork ==
  carrier = "HTTP" /\ IF tr.link = "CONNECTED" \/ tr.state = "ERROR" THEN Acts ELSE Does(prov, tr)

TransportWorks ==
  /\ turn = "transport" /\ turn' = "client"
  /\ IF prov.state = "ERROR" THEN Does(prov, tr)
     ELSE prov_transport_common_mqtt_dowork \/ prov_transport_common_amqp_dowork \/ prov_transport_http_dowork
  /\ UNCHANGED <<provFixed, provTimes, replies, accepted, assigned>>

-----------------------------------------------------------------------------
(* The client's own state machine *)

\* In unsigned arithmetic a send that lies ahead is long ago.
Due == sinceSend < 0 \/ sinceSend > prov.retry_after
TimedOut == prov.timeout > 0 /\ sinceMark > prov.timeout
Sent == prov.state \in {"REGISTER_SENT", "STATUS_SENT"}

\* Mutant: a client that never gets connected does not give up.
TimesOutConnected == Sent /\ prov.is_connected /\ TimedOut

TimesOut == (IF prov.is_connected THEN Sent ELSE Running /\ prov.state # "ERROR") /\ TimedOut

RegistersNow ==
  /\ prov.is_connected /\ prov.state = "REGISTER_SEND" /\ Due /\ sinceSend' = 0
  /\ IF Refuses(tr) THEN prov' = Failed(prov, "TRANSPORT") /\ UNCHANGED <<tr, sinceMark>>
     ELSE /\ prov' = [prov EXCEPT !.state = "REGISTER_SENT"] /\ sinceMark' = 0
          /\ tr' = [tr EXCEPT !.state = "REG_SEND"]
  /\ UNCHANGED <<requests, answers, askedOwn>>

\* The request is sent when the transport works next.
prov_transport_common_mqtt_get_operation_status ==
  /\ carrier = "MQTT" /\ tr.operation # 0 /\ tr.state # "ERROR"
  /\ tr' = [tr EXCEPT !.state = "STATUS_SEND"] /\ UNCHANGED <<requests, askedOwn>>

prov_transport_common_amqp_get_operation_status ==
  /\ carrier = "AMQP" /\ tr.operation # 0 /\ tr.state # "ERROR"
  /\ tr' = [tr EXCEPT !.state = "STATUS_SEND"] /\ UNCHANGED <<requests, askedOwn>>

\* HTTP sends it at once.
prov_transport_http_get_operation_status ==
  /\ carrier = "HTTP" /\ tr.operation # 0 /\ tr' = [tr EXCEPT !.state = "STATUS_SENT"]
  /\ askedOwn' = (askedOwn /\ tr.operation = accepted)
  /\ requests' = Append(requests, [kind |-> "status", reg |-> accepted])

AsksStatus ==
  /\ prov.is_connected /\ prov.state = "STATUS_SEND" /\ Due /\ sinceSend' = 0 /\ UNCHANGED answers
  /\ \/ /\ prov' = [prov EXCEPT !.state = "STATUS_SENT"] /\ sinceMark' = 0
        /\ \/ prov_transport_common_mqtt_get_operation_status
           \/ prov_transport_common_amqp_get_operation_status
           \/ prov_transport_http_get_operation_status
     \/ /\ tr.operation = 0 \/ carrier = "HTTP" \/ tr.state = "ERROR"
        /\ prov' = Failed(prov, "TRANSPORT") /\ UNCHANGED <<tr, sinceMark, requests, askedOwn>>

GivesUp ==
  /\ TimesOut /\ prov' = [prov EXCEPT !.state = "ERROR", !.error_reason = "TIMEOUT"]
  /\ UNCHANGED <<tr, provTimes, requests, answers, askedOwn>>

\* The application is told why, and then the client is ready for the next registration.
TellsError ==
  /\ prov.state = "ERROR" /\ Told(prov.error_reason)
  /\ prov' = [cleanup_prov_info(prov) EXCEPT !.state = "READY"]
  /\ IF prov.transport_open THEN tr' = Closed(tr) /\ requests' = <<>> ELSE UNCHANGED <<tr, requests>>
  /\ UNCHANGED <<provTimes, askedOwn>>

Waits ==
  /\ prov.state # "ERROR" /\ ~TimesOut
  /\ (prov.is_connected /\ prov.state \in {"REGISTER_SEND", "STATUS_SEND"}) => ~Due
  /\ UNCHANGED <<prov, tr, provTimes, requests, answers, askedOwn>>

ClientWorks ==
  /\ turn = "client" /\ turn' = "idle"
  /\ RegistersNow \/ AsksStatus \/ GivesUp \/ TellsError \/ Waits
  /\ UNCHANGED <<provFixed, replies, accepted, assigned>>

-----------------------------------------------------------------------------
(* The application *)

\* MQTT cannot authenticate by TPM.  The first send is a throttle time ahead.
Prov_Device_LL_Create ==
  /\ prov = NotMade /\ carrier = "none"
  /\ carrier' \in {"MQTT", "AMQP", "HTTP"} /\ hsm_type' \in {"TPM", "X509", "KEY"}
  /\ ~(carrier' = "MQTT" /\ hsm_type' = "TPM")
  /\ prov' = [state |-> "READY", is_connected |-> FALSE, transport_open |-> FALSE, registration_id |-> FALSE,
              user_supplied |-> FALSE, auth_id |-> FALSE, error_reason |-> "OK", timeout |-> 0, retry_after |-> Throttle]
  /\ tr' = [link |-> "IDLE", opened |-> {}, state |-> "IDLE", operation |-> 0, payload |-> "none", about |-> 0,
            retry_after |-> Throttle]
  /\ sinceSend' = -Throttle
  /\ UNCHANGED <<worker, sinceMark, turn, requests, replies, accepted, answers, assigned, askedOwn>>

Made == prov # NotMade /\ turn = "idle" /\ worker \in {"none", "works"}

Asks(p) == prov' = p /\ UNCHANGED <<carrier, hsm_type, provTimes, turn, requests, replies, answers, assigned, askedOwn>>

\* The id an application has not given is loaded from the security module, once; a call that fails gives it back,
\* even when the id belongs to the registration that runs.
prov_auth_get_registration_id == [prov EXCEPT !.registration_id = TRUE, !.auth_id = TRUE]

\* The client of the lower layer alone has no thread.
prov_StartWorkerThreadIfNeeded == worker' \in {worker, "works"}

Prov_Device_LL_Register_Device ==
  /\ Made
  /\ \/ Asks([prov_auth_get_registration_id EXCEPT !.registration_id = prov.user_supplied]) /\ UNCHANGED <<tr, accepted, worker>>
     \/ /\ prov.state = "READY" /\ accepted < MaxRegistrations /\ accepted' = accepted + 1
        /\ Asks([prov_auth_get_registration_id EXCEPT !.state = "REGISTER_SEND", !.transport_open = TRUE])
        /\ tr' = Opened(tr)
        /\ prov_StartWorkerThreadIfNeeded

\* The security module takes an id only while it has none.
prov_auth_set_registration_id == ~prov.auth_id

Prov_Device_LL_SetOption ==
  /\ Made
  /\ \/ prov.timeout = 0 /\ Asks([prov EXCEPT !.timeout = ProvTimeout])
     \/ prov.state = "READY" /\ prov_auth_set_registration_id
        /\ Asks([prov EXCEPT !.registration_id = TRUE, !.user_supplied = TRUE, !.auth_id = TRUE])
  /\ UNCHANGED <<tr, accepted, worker>>

\* The thread is told to stop and waited for.
Prov_Device_Destroy ==
  /\ Made /\ worker' = (IF worker = "works" THEN "stops" ELSE "joined")
  /\ UNCHANGED <<carrier, hsm_type, prov, tr, provTimes, turn, requests, replies, accepted, answers, assigned, askedOwn>>

ScheduleWork_Thread ==
  /\ worker = "stops" /\ turn = "idle" /\ worker' = "joined" /\ UNCHANGED <<prov, tr>>
  /\ UNCHANGED <<carrier, hsm_type, provTimes, turn, requests, replies, accepted, answers, assigned, askedOwn>>

Prov_Device_LL_Destroy ==
  /\ worker = "joined" /\ prov # NotMade /\ prov' = NotMade /\ tr' = NoTransport /\ requests' = <<>>
  /\ UNCHANGED <<carrier, hsm_type, provTimes, turn, worker, replies, accepted, answers, assigned, askedOwn>>

\* Time passes, of interest up to the longest wait.
ProvTick ==
  /\ prov # NotMade /\ (sinceSend <= LongRetry \/ sinceMark <= ProvTimeout)
  /\ sinceSend' = (IF sinceSend <= LongRetry THEN sinceSend + 1 ELSE sinceSend)
  /\ sinceMark' = (IF sinceMark <= ProvTimeout THEN sinceMark + 1 ELSE sinceMark)
  /\ UNCHANGED <<carrier, hsm_type, prov, tr, turn, worker, requests, replies, accepted, answers, assigned, askedOwn>>

ProvDoWork == Network \/ TransportWorks \/ ClientWorks

ProvNext ==
  \/ Prov_Device_LL_Create \/ Prov_Device_LL_Register_Device \/ Prov_Device_LL_SetOption
  \/ Prov_Device_Destroy \/ ScheduleWork_Thread \/ Prov_Device_LL_Destroy
  \/ ProvTick \/ ProvDoWork

ProvSpec == ProvInit /\ [][ProvNext]_provVars

\* The thread of the client runs on, and time passes.
ProvFairness == WF_provVars(ProvDoWork) /\ WF_provVars(ProvTick)
ProvFairSpec == ProvSpec /\ ProvFairness

-----------------------------------------------------------------------------
(* Properties *)

\* Every registration that was accepted is answered once, and none twice: the callback is called exactly for the
\* registrations that ended, in their order.  (Over HTTP a bad answer that comes together with the timeout is
\* told after the timeout again: see the README.)
AnsweredOnce ==
  carrier # "HTTP" /\ prov # NotMade =>
    /\ Len(answers) = accepted - (IF Running THEN 1 ELSE 0)
    /\ \A i \in 1..Len(answers) : answers[i].reg = i

\* A device that is told OK was assigned by the service in answer to this registration.  (HTTP takes an answer
\* without content for the one before it.)
OkAssigned == carrier # "HTTP" => \A i \in 1..Len(answers) : answers[i].result = "OK" => answers[i].reg \in assigned

\* The status the client asks for is that of its own operation.  (HTTP asks for the first one's.)
OwnOperation == carrier # "HTTP" => askedOwn

\* A registration is answered once, truthfully and about its own operation: what Prov_Device_LL_DoWork
\* and the callbacks of the transport make of answers, timeouts and errors that come together.
ProvisioningHonest == AnsweredOnce /\ OkAssigned /\ OwnOperation

\* With a timeout set, a registration ends while the thread of the client works.
RegistrationEnds == (Running /\ prov.timeout > 0) ~> (~Running \/ worker # "works")
=============================================================================
