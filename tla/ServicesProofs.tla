---------------------------- MODULE ServicesProofs ----------------------------
(***************************************************************************)
(* Proofs about the clients of services: provisioning (Provisioning), the       *)
(* authentication by TPM it may use (TpmSasl), messages to devices                *)
(* (ServiceMessaging), requests (ServiceRequests) and enrollments                  *)
(* (EnrollmentService), for any times, sizes and bounds.                            *)
(***************************************************************************)
EXTENDS Provisioning, TpmSasl, ServiceMessaging, ServiceRequests, EnrollmentService,
        SequenceFacts, FiniteSetTheorems

-----------------------------------------------------------------------------
(* Provisioning *)

Reasons == {"OK", "DEV_AUTH_ERROR", "KEY_ERROR", "UNAUTHORIZED", "DISABLED", "PARSING", "TRANSPORT", "TIMEOUT"}
ClientStates == {"READY", "REGISTER_SEND", "REGISTER_SENT", "STATUS_SEND", "STATUS_SENT", "ERROR"}
TransportStates == {"IDLE", "REG_SEND", "REG_SENT", "REG_RECV", "STATUS_SEND", "STATUS_SENT", "STATUS_RECV", "TRANSIENT", "ERROR"}
Links == {"IDLE", "DISCONNECTED", "CONNECTING", "CONNECTED", "SUBSCRIBING", "SUBSCRIBED", "ERROR"}

ClientRecord ==
  [state : ClientStates, is_connected : BOOLEAN, transport_open : BOOLEAN, registration_id : BOOLEAN,
   user_supplied : BOOLEAN, auth_id : BOOLEAN, error_reason : Reasons, timeout : {0, ProvTimeout},
   retry_after : {Throttle, LongRetry}]

TransportRecord ==
  [link : Links, opened : SUBSET {"sender", "receiver"}, state : TransportStates, operation : Nat,
   payload : Payloads \cup {"none"}, about : Nat, retry_after : {Throttle, LongRetry}]

RequestRecord == [kind : {"register", "status", "challenge"}, reg : {accepted}]

ProvTypeOK ==
  /\ prov \in ClientRecord /\ tr \in TransportRecord
  /\ requests \in Seq(RequestRecord)

\* The transport acts on its state.
Ready ==
  \/ tr.link = "ERROR"
  \/ carrier = "MQTT" /\ tr.link = "SUBSCRIBED"
  \/ carrier = "AMQP" /\ tr.link = "CONNECTED"

\* Only a registration that runs has a transport, and only its requests are not answered yet.
RunningInv ==
  /\ prov.transport_open <=> Running
  /\ tr.link # "IDLE" => Running
  /\ requests # <<>> => Running /\ tr.operation \in {0, accepted} /\ (Ready \/ prov.state = "ERROR")

\* The transport is about to ask for its own operation, and keeps no other once it has sent a request.
OperationInv ==
  /\ tr.state = "REG_SEND" => tr.operation = 0
  /\ tr.state = "STATUS_SEND" => prov.state = "STATUS_SENT" /\ turn # "client"
  /\ prov.state \in {"STATUS_SEND", "STATUS_SENT"} => tr.operation = accepted /\ Ready

\* An answer is one of this registration, and is looked at in the step after.
ReplyInv ==
  tr.state \in {"REG_RECV", "STATUS_RECV"} =>
    /\ turn = "transport" /\ Ready /\ prov.state # "ERROR" /\ tr.about = accepted /\ tr.operation \in {0, accepted}
    /\ tr.payload = "assigned" => accepted \in assigned

ReasonInv == prov.state = "ERROR" => prov.error_reason # "OK"

AnswersInv ==
  /\ Len(answers) = accepted - (IF Running THEN 1 ELSE 0)
  /\ \A i \in 1..Len(answers) : answers[i].reg = i

\* DoWork is in its thread, and the thread has a client.
ThreadInv ==
  /\ worker \in {"none", "works", "stops", "joined"} /\ turn \in {"idle", "transport", "client"}
  /\ turn # "idle" => worker = "works"
  /\ worker \in {"works", "stops"} => prov # NotMade

ToldInv ==
  /\ accepted \in Nat /\ answers \in Seq([reg : Nat, result : Reasons])
  /\ \A i \in 1..Len(answers) : answers[i].result = "OK" => answers[i].reg \in assigned
  /\ askedOwn

MadeInv == ProvTypeOK /\ RunningInv /\ OperationInv /\ ReplyInv /\ ReasonInv /\ AnswersInv

\* Before Create nothing was accepted; afterwards the client is whole until it is destroyed.  Nothing is claimed
\* of HTTP, see AnsweredOnce.
ProvInv ==
  \/ carrier = "HTTP"
  \/ /\ carrier = "none" /\ prov = NotMade /\ worker = "none" /\ turn = "idle"
     /\ requests = <<>> /\ accepted = 0 /\ answers = <<>> /\ askedOwn
  \/ carrier \in {"MQTT", "AMQP"} /\ ThreadInv /\ ToldInv /\ (prov # NotMade => MadeInv)

\* A client that was made has a state of its own.
LEMMA MadeHasState ==
  ASSUME ProvTypeOK
  PROVE  /\ prov # NotMade /\ prov.state \in ClientStates /\ prov.state # "none"
         /\ Running <=> prov.state # "READY"
BY DEF ProvTypeOK, ClientRecord, ClientStates, NotMade, Running

\* A step that keeps the registration, whatever it does to the link, to the requests and to the states: what it
\* sends and what it asks for is of this registration, and no answer waits after it.
LEMMA Steady ==
  ASSUME MadeInv, carrier' = carrier, accepted' = accepted, answers' = answers,
         prov' \in ClientRecord, tr' \in TransportRecord, requests' \in Seq(RequestRecord),
         Running' <=> Running, prov'.transport_open = prov.transport_open,
         prov.state = "ERROR" => prov'.state = "ERROR", prov'.state = "ERROR" => prov'.error_reason # "OK",
         tr'.operation = tr.operation, tr'.state \notin {"REG_RECV", "STATUS_RECV"},
         tr'.state = "REG_SEND" => tr.operation = 0,
         tr'.state = "STATUS_SEND" => prov'.state = "STATUS_SENT" /\ turn' # "client",
         prov'.state \in {"STATUS_SEND", "STATUS_SENT"} => prov.state \in {"STATUS_SEND", "STATUS_SENT"},
         tr'.link # "IDLE" => tr.link # "IDLE",
         Ready => Ready' \/ prov'.state = "ERROR",
         requests' # requests => Ready /\ Running /\ (requests = <<>> => tr.operation \in {0, accepted})
  PROVE  MadeInv'
<1>1. ProvTypeOK'
  BY DEF ProvTypeOK, RequestRecord
<1>2. RunningInv'
  <2>1. requests' # <<>> => Running /\ tr.operation \in {0, accepted} /\ (Ready \/ prov.state = "ERROR")
    BY DEF MadeInv, RunningInv
  <2>2. (prov'.transport_open <=> Running') /\ (tr'.link # "IDLE" => Running')
    BY DEF MadeInv, RunningInv
  <2> QED
    BY <2>1, <2>2 DEF RunningInv
<1>3. OperationInv'
  BY DEF MadeInv, OperationInv
<1>4. ReplyInv' /\ ReasonInv'
  BY DEF ReplyInv, ReasonInv
<1>5. AnswersInv'
  BY DEF MadeInv, AnswersInv
<1> QED
  BY <1>1, <1>2, <1>3, <1>4, <1>5 DEF MadeInv

\* What stays in the record of a transport when its link or its state is set.
LEMMA LinkFields ==
  ASSUME tr \in TransportRecord, NEW link \in Links
  PROVE  /\ [tr EXCEPT !.link = link] \in TransportRecord
         /\ [tr EXCEPT !.link = link].link = link /\ [tr EXCEPT !.link = link].state = tr.state
         /\ [tr EXCEPT !.link = link].operation = tr.operation
BY DEF TransportRecord

\* The same when its state is set: the link and the operation stay.
LEMMA StateFields ==
  ASSUME tr \in TransportRecord, NEW state \in TransportStates
  PROVE  /\ [tr EXCEPT !.state = state] \in TransportRecord
         /\ [tr EXCEPT !.state = state].link = tr.link /\ [tr EXCEPT !.state = state].state = state
         /\ [tr EXCEPT !.state = state].operation = tr.operation
BY DEF TransportRecord

\* What stays in the record of a client when its state or its reason is set.
LEMMA ClientFields ==
  ASSUME prov \in ClientRecord, NEW state \in ClientStates
  PROVE  /\ [prov EXCEPT !.state = state] \in ClientRecord
         /\ [prov EXCEPT !.state = state].state = state
         /\ [prov EXCEPT !.state = state].transport_open = prov.transport_open
         /\ [prov EXCEPT !.state = state].error_reason = prov.error_reason
BY DEF ClientRecord

\* The same when an error of the transport sets the reason: state and transport_open stay.
LEMMA ReasonFields ==
  ASSUME prov \in ClientRecord, NEW reason \in Reasons
  PROVE  /\ on_transport_error(prov, reason) \in ClientRecord
         /\ on_transport_error(prov, reason).state = prov.state
         /\ on_transport_error(prov, reason).transport_open = prov.transport_open
         /\ on_transport_error(prov, reason).error_reason = reason
BY DEF ClientRecord, on_transport_error

\* An error of the transport marks its state and its link.
LEMMA TransportErrorFields ==
  ASSUME tr \in TransportRecord, carrier \in {"MQTT", "AMQP"}
  PROVE  /\ TransportError(tr) \in TransportRecord /\ TransportError(tr).link = "ERROR"
         /\ TransportError(tr).state = "ERROR" /\ TransportError(tr).operation = tr.operation
BY DEF TransportError, TransportRecord, Links, TransportStates

\* A failure leaves a reason.
LEMMA FailedFields ==
  ASSUME prov \in ClientRecord, NEW reason \in Reasons \ {"OK"}
  PROVE  /\ Failed(prov, reason) \in ClientRecord /\ Failed(prov, reason).state = "ERROR"
         /\ Failed(prov, reason).error_reason # "OK"
         /\ Failed(prov, reason).transport_open = prov.transport_open
BY DEF Failed, ClientRecord, ClientStates

\* Being connected, and how long to wait, change nothing else; other answers move the state.
LEMMA StatusFields ==
  ASSUME prov \in ClientRecord, tr \in TransportRecord, NEW status \in {"CONNECTED", "ASSIGNING", "TRANSIENT"}
  PROVE  LET p == on_transport_status(prov, status, tr.retry_after) IN
         /\ p \in ClientRecord /\ p.transport_open = prov.transport_open /\ p.error_reason = prov.error_reason
         /\ status = "CONNECTED" => p.state = prov.state
         /\ status = "ASSIGNING" => p.state = "STATUS_SEND"
         /\ status = "TRANSIENT" => p.state = IF prov.state = "REGISTER_SENT" THEN "REGISTER_SEND"
                                              ELSE IF prov.state = "STATUS_SENT" THEN "STATUS_SEND" ELSE prov.state
<1>1. prov.state \in ClientStates /\ tr.retry_after \in {Throttle, LongRetry}
  BY DEF ClientRecord, TransportRecord
<1> DEFINE heard == [prov EXCEPT !.retry_after = tr.retry_after]
<1>2. /\ heard \in ClientRecord /\ heard.transport_open = prov.transport_open /\ heard.error_reason = prov.error_reason
      /\ heard.state = prov.state
  BY <1>1 DEF ClientRecord
<1> HIDE DEF heard
<1>3. CASE status = "CONNECTED"
  <2>1. on_transport_status(prov, status, tr.retry_after) = [heard EXCEPT !.is_connected = TRUE]
    BY <1>3 DEF on_transport_status, heard
  <2> QED
    BY <1>2, <1>3, <2>1 DEF ClientRecord
<1>4. CASE status = "ASSIGNING"
  <2>1. on_transport_status(prov, status, tr.retry_after) = [heard EXCEPT !.state = "STATUS_SEND"]
    BY <1>4 DEF on_transport_status, heard
  <2> QED
    BY <1>2, <1>4, <2>1 DEF ClientRecord, ClientStates
<1>5. CASE status = "TRANSIENT"
  <2>1. on_transport_status(prov, status, tr.retry_after) =
          IF prov.state = "REGISTER_SENT" THEN [heard EXCEPT !.state = "REGISTER_SEND"]
          ELSE IF prov.state = "STATUS_SENT" THEN [heard EXCEPT !.state = "STATUS_SEND"] ELSE heard
    BY <1>5 DEF on_transport_status, heard
  <2> QED
    BY <1>2, <1>5, <2>1 DEF ClientRecord, ClientStates
<1> QED
  BY <1>3, <1>4, <1>5

\* What the network brings breaks or makes the link, or answers one of the requests of this registration.
LEMMA NetworkInv ==
  ASSUME carrier \in {"MQTT", "AMQP"}, ThreadInv, ToldInv, MadeInv, Network
  PROVE  carrier' = carrier /\ ThreadInv' /\ ToldInv' /\ MadeInv'
<1>1. /\ turn = "idle" /\ worker = "works" /\ prov # NotMade
      /\ carrier' = carrier /\ worker' = worker /\ accepted' = accepted /\ answers' = answers /\ askedOwn' = askedOwn
      /\ turn' = IF carrier = "MQTT" /\ tr'.link # tr.link /\ tr'.link = "CONNECTED" THEN "client" ELSE "transport"
  BY MadeHasState DEF Network, provFixed, MadeInv
<1>2. /\ prov \in ClientRecord /\ tr \in TransportRecord /\ requests \in Seq(RequestRecord)
      /\ prov.state = "ERROR" => prov.error_reason # "OK"
      /\ tr.state \notin {"REG_RECV", "STATUS_RECV"}
      /\ tr.state = "REG_SEND" => tr.operation = 0
      /\ tr.state = "STATUS_SEND" => prov.state = "STATUS_SENT"
      /\ prov.state = "STATUS_SENT" => Ready
  BY <1>1 DEF MadeInv, ProvTypeOK, ReasonInv, OperationInv, ReplyInv
<1>3. ThreadInv' /\ (assigned \subseteq assigned' => ToldInv')
  <2>1. ASSUME prov' # NotMade PROVE ThreadInv'
    BY <1>1, <2>1 DEF ThreadInv
  <2>2. ASSUME assigned \subseteq assigned' PROVE ToldInv'
    BY <1>1, <2>2 DEF ToldInv
  <2>3. prov' # NotMade
    <3>1. ASSUME NEW p, NEW t, p \in ClientRecord, Brings(p, t) PROVE prov' # NotMade
      BY <3>1 DEF Brings, ClientRecord, ClientStates, NotMade
    <3>2. on_transport_error(prov, "DEV_AUTH_ERROR") \in ClientRecord
      BY <1>2, ReasonFields DEF Reasons
    <3>3. on_transport_status(prov, "CONNECTED", tr.retry_after) \in ClientRecord
      BY <1>2, StatusFields
    <3>4. CASE AnswerComes
      BY <1>1, <3>4 DEF AnswerComes
    <3>5. CASE \E p \in ClientRecord : \E t : Brings(p, t)
      BY <3>1, <3>5
    <3>6. Quiet \/ Breaks \/ mqtt_operation_complete_callback \/ LinkOpens => \E p \in ClientRecord : \E t : Brings(p, t)
      BY <1>2, <3>2, <3>3 DEF Quiet, Breaks, mqtt_operation_complete_callback, LinkOpens
    <3>7. ~on_http_connected
      BY DEF on_http_connected
    <3> QED
      BY <3>4, <3>5, <3>6, <3>7 DEF Network
  <2> QED
    BY <2>1, <2>2, <2>3
<1>4. ASSUME NEW p \in ClientRecord, NEW t \in TransportRecord, Brings(p, t),
             p.state = prov.state, p.transport_open = prov.transport_open, p.error_reason \in {prov.error_reason} \cup (Reasons \ {"OK"}),
             t.operation = tr.operation, t.state \in {tr.state, "ERROR"}, t.link # "IDLE" => tr.link # "IDLE",
             Ready => (t.link = tr.link \/ t.link = "ERROR"),
             turn' # "client" \/ ~Ready
      PROVE  MadeInv' /\ assigned \subseteq assigned'
  <2>1. prov' = p /\ tr' = t /\ requests' = requests /\ assigned' = assigned
    BY <1>4 DEF Brings
  <2>2. prov'.state = prov.state /\ prov.state # "none"
    BY <1>4, <2>1, MadeHasState DEF MadeInv
  <2>3. Running' <=> Running
    BY <2>2 DEF Running
  <2>4. Ready => Ready'
    BY <1>1, <1>4, <2>1 DEF Ready
  <2>5. tr'.state = "STATUS_SEND" => prov'.state = "STATUS_SENT" /\ turn' # "client"
    BY <1>2, <1>4, <2>1
  <2>6. prov'.state = "ERROR" => prov'.error_reason # "OK"
    BY <1>2, <1>4, <2>1
  <2>7. MadeInv'
    BY <1>1, <1>2, <1>4, <2>1, <2>2, <2>3, <2>4, <2>5, <2>6, Steady
  <2> QED
    BY <2>1, <2>7
<1>5. CASE Quiet
  <2>1. Brings(prov, tr) /\ tr'.link = tr.link
    BY <1>5 DEF Quiet, Brings
  <2> QED
    BY <1>1, <1>2, <1>3, <1>4, <2>1
<1>6. CASE Breaks
  <2>1. PICK t \in {[tr EXCEPT !.state = "ERROR"], TransportError(tr)} : Brings(prov, t) /\ tr.link # "IDLE"
    <3>1. tr.link # "IDLE"
      BY <1>6 DEF Breaks
    <3>2. Brings(prov, [tr EXCEPT !.state = "ERROR"]) \/ Brings(prov, TransportError(tr))
      BY <1>6, Zenon DEF Breaks
    <3> QED
      BY <3>1, <3>2
  <2>2. t \in TransportRecord /\ t.state = "ERROR" /\ t.operation = tr.operation /\ t.link \in {tr.link, "ERROR"}
    <3>1. "ERROR" \in TransportStates
      BY DEF TransportStates
    <3> QED
      BY <1>2, <2>1, <3>1, StateFields, TransportErrorFields
  <2>3. turn' # "client"
    BY <1>1, <2>1, <2>2 DEF Brings
  <2>4. t.link # "IDLE" => tr.link # "IDLE"
    BY <2>1
  <2>5. Ready => (t.link = tr.link \/ t.link = "ERROR")
    BY <2>2
  <2>6. MadeInv' /\ assigned \subseteq assigned'
    BY <1>2, <1>4, <2>1, <2>2, <2>3, <2>4, <2>5
  <2> QED
    BY <1>1, <1>3, <2>6
<1>7. CASE mqtt_operation_complete_callback
  <2>1. carrier = "MQTT" /\ tr.link \in {"CONNECTING", "SUBSCRIBING"} /\ ~Ready
    BY <1>7 DEF mqtt_operation_complete_callback, Ready
  <2>2. PICK p \in {prov, on_transport_error(prov, "DEV_AUTH_ERROR")},
             t \in {[tr EXCEPT !.link = "CONNECTED"], [tr EXCEPT !.link = "SUBSCRIBED"], TransportError(tr)} : Brings(p, t)
    <3>1. \/ Brings(prov, [tr EXCEPT !.link = "CONNECTED"])
          \/ Brings(on_transport_error(prov, "DEV_AUTH_ERROR"), TransportError(tr))
          \/ Brings(prov, [tr EXCEPT !.link = "SUBSCRIBED"])
          \/ Brings(prov, TransportError(tr))
      BY <1>7, Zenon DEF mqtt_operation_complete_callback
    <3> QED
      BY <3>1, Zenon
  <2>3. t \in TransportRecord /\ t.state \in {tr.state, "ERROR"} /\ t.operation = tr.operation /\ t.link # "IDLE"
    <3>1. "CONNECTED" \in Links /\ "SUBSCRIBED" \in Links
      BY DEF Links
    <3>2. t = [tr EXCEPT !.link = "CONNECTED"] \/ t = [tr EXCEPT !.link = "SUBSCRIBED"] \/ t = TransportError(tr)
      BY <2>2
    <3> QED
      BY <1>2, <3>1, <3>2, LinkFields, TransportErrorFields
  <2>4. /\ p \in ClientRecord /\ p.state = prov.state /\ p.transport_open = prov.transport_open
        /\ p.error_reason \in {prov.error_reason} \cup (Reasons \ {"OK"})
    <3>1. "DEV_AUTH_ERROR" \in Reasons \ {"OK"}
      BY DEF Reasons
    <3> QED
      BY <1>2, <2>2, <3>1, ReasonFields
  <2>5. MadeInv' /\ assigned \subseteq assigned'
    BY <1>4, <2>1, <2>2, <2>3, <2>4
  <2> QED
    BY <1>1, <1>3, <2>5
<1>8. CASE LinkOpens
  <2>1. PICK end \in {"sender", "receiver"} \ tr.opened :
          LET wider == [tr EXCEPT !.opened = @ \union {end}] IN
          IF Cardinality(wider.opened) = 2
          THEN Brings(on_transport_status(prov, "CONNECTED", tr.retry_after), [wider EXCEPT !.link = "CONNECTED"])
          ELSE Brings(prov, wider)
    BY <1>8 DEF LinkOpens
  <2> DEFINE wider == [tr EXCEPT !.opened = @ \union {end}]
  <2>2. /\ wider \in TransportRecord /\ wider.link = tr.link /\ wider.state = tr.state /\ wider.operation = tr.operation
        /\ [wider EXCEPT !.link = "CONNECTED"] \in TransportRecord /\ [wider EXCEPT !.link = "CONNECTED"].link = "CONNECTED"
        /\ [wider EXCEPT !.link = "CONNECTED"].state = tr.state /\ [wider EXCEPT !.link = "CONNECTED"].operation = tr.operation
    BY <1>2 DEF TransportRecord, Links
  <2>3. tr.link = "CONNECTING" /\ carrier = "AMQP" /\ ~Ready
    BY <1>8 DEF LinkOpens, Ready
  <2>4. PICK p \in {prov, on_transport_status(prov, "CONNECTED", tr.retry_after)}, t \in {wider, [wider EXCEPT !.link = "CONNECTED"]} :
          Brings(p, t)
    BY <2>1
  <2>5. /\ p \in ClientRecord /\ p.state = prov.state /\ p.transport_open = prov.transport_open
        /\ p.error_reason = prov.error_reason
    BY <1>2, <2>4, StatusFields
  <2> HIDE DEF wider
  <2>6. t \in TransportRecord /\ t.state = tr.state /\ t.operation = tr.operation
    BY <2>2, <2>4
  <2>7. MadeInv' /\ assigned \subseteq assigned'
    BY <1>4, <2>3, <2>4, <2>5, <2>6
  <2> QED
    BY <1>1, <1>3, <2>7
<1>9. CASE AnswerComes /\ prov.state # "ERROR"
  <2>1. PICK i \in 1..Len(requests), retry \in {Throttle, LongRetry} :
          /\ requests' = RemoveAt(requests, i)
          /\ mqtt_notification_callback(i, retry) \/ on_message_recv_callback(i, retry) \/ on_http_reply_recv(i, retry)
    BY <1>9 DEF AnswerComes
  <2>2. /\ prov' = prov /\ tr.link \in {"SUBSCRIBED", "CONNECTED"}
        /\ requests' \in Seq(RequestRecord) /\ requests[i] \in RequestRecord /\ requests # <<>>
    BY <1>2, <1>9, <2>1, RemoveAtElements, ElementOfSeq, EmptySeq DEF AnswerComes
  <2>3. requests[i].reg = accepted
    BY <2>2 DEF RequestRecord
  <2>4. Running /\ tr.operation \in {0, accepted} /\ Ready
    BY <1>9, <2>2 DEF MadeInv, RunningInv
  <2>5. Running' <=> Running
    BY <2>2 DEF Running
  <2>6. CASE Overloaded(retry)
    <3>1. tr' \in TransportRecord /\ tr'.state = "TRANSIENT" /\ tr'.link = tr.link /\ tr'.operation = tr.operation /\ assigned' = assigned
      BY <1>2, <2>6 DEF Overloaded, TransportRecord, TransportStates
    <3>2. Ready'
      BY <1>1, <2>4, <3>1 DEF Ready
    <3>3. MadeInv'
      BY <1>1, <1>2, <2>2, <2>4, <2>5, <3>1, <3>2, Steady
    <3> QED
      BY <1>1, <1>3, <3>1, <3>3
  <2>7. CASE Takes(i, retry)
    <3>1. PICK payload \in Payloads :
            /\ tr' = [Received(tr) EXCEPT !.payload = payload, !.about = requests[i].reg, !.retry_after = retry]
            /\ assigned' = IF payload = "assigned" THEN assigned \union {requests[i].reg} ELSE assigned
      BY <2>7 DEF Takes
    <3>2. /\ tr' \in TransportRecord /\ tr'.state \in {"REG_RECV", "STATUS_RECV"} /\ tr'.link = tr.link
          /\ tr'.operation = tr.operation /\ tr'.about = accepted /\ tr'.payload = payload
      <4>1. accepted \in Nat
        BY DEF ToldInv
      <4> QED
        BY <1>2, <2>3, <3>1, <4>1 DEF Received, TransportRecord, TransportStates
    <3>3. Ready' /\ turn' = "transport" /\ (tr'.payload = "assigned" => accepted \in assigned') /\ assigned \subseteq assigned'
      BY <1>1, <2>3, <2>4, <3>1, <3>2 DEF Ready
    <3>4. ProvTypeOK'
      BY <1>1, <1>2, <2>2, <3>2 DEF ProvTypeOK, RequestRecord
    <3>5. RunningInv'
      BY <1>1, <2>2, <2>4, <2>5, <3>2, <3>3 DEF MadeInv, RunningInv
    <3>6. OperationInv'
      BY <1>1, <2>2, <3>2, <3>3 DEF MadeInv, OperationInv
    <3>7. ReplyInv' /\ ReasonInv'
      BY <1>1, <1>2, <1>9, <2>2, <2>4, <3>2, <3>3 DEF ReplyInv, ReasonInv
    <3>8. AnswersInv'
      BY <1>1, <2>5 DEF MadeInv, AnswersInv
    <3> QED
      BY <1>1, <1>3, <3>3, <3>4, <3>5, <3>6, <3>7, <3>8 DEF MadeInv
  <2> QED
    BY <2>1, <2>6, <2>7 DEF mqtt_notification_callback, on_message_recv_callback, on_http_reply_recv
<1> QED
  BY <1>5, <1>6, <1>7, <1>8, <1>9 DEF Network, on_http_connected

\* A transport that is closed keeps its state and its operation.
LEMMA ClosedFields ==
  ASSUME tr \in TransportRecord, carrier \in {"MQTT", "AMQP"}
  PROVE  /\ Closed(tr) \in TransportRecord /\ Closed(tr).link = "IDLE" /\ Closed(tr).state = tr.state
         /\ Closed(tr).operation = tr.operation
         /\ [Closed(tr) EXCEPT !.state = "IDLE"] \in TransportRecord /\ [Closed(tr) EXCEPT !.state = "IDLE"].link = "IDLE"
         /\ [Closed(tr) EXCEPT !.state = "IDLE"].state = "IDLE"
         /\ [Closed(tr) EXCEPT !.state = "IDLE"].operation = tr.operation
<1>1. "IDLE" \in Links /\ "IDLE" \in TransportStates
  BY DEF Links, TransportStates
<1>2. CASE carrier = "MQTT"
  <2>1. Closed(tr) = [tr EXCEPT !.link = "IDLE"]
    BY <1>2 DEF Closed, prov_transport_common_mqtt_close
  <2> QED
    BY <1>1, <2>1 DEF TransportRecord
<1>3. CASE carrier = "AMQP"
  <2>1. Closed(tr) = [tr EXCEPT !.link = "IDLE", !.opened = {}]
    BY <1>3 DEF Closed, prov_transport_common_amqp_close
  <2> QED
    BY <1>1, <2>1 DEF TransportRecord
<1> QED
  BY <1>2, <1>3

\* The end of a registration: its callback is called, and nothing of it stays.
LEMMA RegistrationEndsInv ==
  ASSUME MadeInv, ToldInv, Running, NEW result \in Reasons, Told(result),
         result = "OK" => accepted \in assigned,
         prov' = [cleanup_prov_info(prov) EXCEPT !.state = "READY"], requests' = <<>>,
         tr' \in TransportRecord, tr'.link = "IDLE", tr'.operation = tr.operation,
         tr'.state \notin {"REG_RECV", "STATUS_RECV", "STATUS_SEND"}, tr'.state = "REG_SEND" => tr.operation = 0,
         accepted' = accepted, assigned' = assigned, askedOwn' = askedOwn, carrier' = carrier
  PROVE  MadeInv' /\ ToldInv' /\ prov' # NotMade
<1>1. /\ prov \in ClientRecord /\ accepted \in Nat /\ answers \in Seq([reg : Nat, result : Reasons])
      /\ Len(answers) = accepted - 1 /\ Len(answers) \in Nat
      /\ \A i \in 1..Len(answers) : answers[i].reg = i /\ (answers[i].result = "OK" => answers[i].reg \in assigned)
  BY DEF MadeInv, ProvTypeOK, AnswersInv, ToldInv
<1>2. prov' \in ClientRecord /\ prov'.state = "READY" /\ prov'.transport_open = FALSE
  BY <1>1 DEF cleanup_prov_info, ClientRecord, ClientStates
<1>3. ~Running'
  BY <1>2 DEF Running
<1> DEFINE last == [reg |-> accepted, result |-> result]
<1>4. last \in [reg : Nat, result : Reasons] /\ last.reg = accepted /\ last.result = result
  BY <1>1
<1>5. answers' = Append(answers, last)
  BY DEF Told
<1> HIDE DEF last
<1>6. /\ answers' \in Seq([reg : Nat, result : Reasons]) /\ Len(answers') = accepted
      /\ \A i \in 1..Len(answers) : answers'[i] = answers[i]
      /\ answers'[accepted] = last
  <2>1. Len(answers) + 1 = accepted
    BY <1>1
  <2> QED
    BY <1>1, <1>4, <1>5, <2>1, AppendProperties
<1>7. \A i \in 1..Len(answers') : answers'[i].reg = i /\ (answers'[i].result = "OK" => answers'[i].reg \in assigned)
  <2>1. ASSUME NEW i \in 1..accepted PROVE answers'[i].reg = i /\ (answers'[i].result = "OK" => answers'[i].reg \in assigned)
    <3>1. i \in 1..Len(answers) \/ i = accepted
      BY <1>1, <2>1
    <3> QED
      BY <1>1, <1>4, <1>6, <3>1
  <2> QED
    BY <1>6, <2>1
<1>8. ProvTypeOK'
  BY <1>2 DEF ProvTypeOK
<1>9. RunningInv' /\ ReplyInv' /\ ReasonInv'
  BY <1>2, <1>3 DEF RunningInv, ReplyInv, ReasonInv
<1>10. OperationInv'
  BY <1>2 DEF OperationInv
<1>11. AnswersInv'
  BY <1>1, <1>3, <1>6, <1>7 DEF AnswersInv
<1>12. ToldInv'
  BY <1>1, <1>6, <1>7 DEF ToldInv
<1> QED
  BY <1>2, <1>8, <1>9, <1>10, <1>11, <1>12, MadeHasState DEF MadeInv, NotMade

\* The transport acts on its state only when it is ready; what it reads is the answer to this registration.
LEMMA TransportWorksInv ==
  ASSUME carrier \in {"MQTT", "AMQP"}, ThreadInv, ToldInv, MadeInv, TransportWorks
  PROVE  carrier' = carrier /\ ThreadInv' /\ ToldInv' /\ MadeInv'
<1>1. /\ turn = "transport" /\ turn' = "client" /\ worker = "works" /\ worker' = worker /\ carrier' = carrier
      /\ accepted' = accepted /\ assigned' = assigned /\ accepted \in Nat
  BY DEF TransportWorks, provFixed, ThreadInv, ToldInv
<1>2. /\ prov \in ClientRecord /\ tr \in TransportRecord /\ requests \in Seq(RequestRecord)
      /\ prov # NotMade /\ prov.state \in ClientStates /\ prov.state # "none"
      /\ prov.state = "ERROR" => prov.error_reason # "OK"
      /\ tr.state = "REG_SEND" => tr.operation = 0
      /\ tr.state = "STATUS_SEND" => prov.state = "STATUS_SENT"
      /\ prov.state \in {"STATUS_SEND", "STATUS_SENT"} => Ready /\ tr.operation = accepted
      /\ tr.link # "IDLE" => Running
      /\ tr.state \in {"REG_RECV", "STATUS_RECV"} =>
           /\ Ready /\ prov.state # "ERROR" /\ tr.about = accepted /\ tr.operation \in {0, accepted}
           /\ tr.payload = "assigned" => accepted \in assigned
  BY MadeHasState DEF MadeInv, ProvTypeOK, ReasonInv, OperationInv, ReplyInv, RunningInv
<1>3. Ready => Running
  BY <1>2 DEF Ready
<1>4. ASSUME prov' # NotMade PROVE ThreadInv'
  BY <1>1, <1>4 DEF ThreadInv
<1>5. ASSUME answers' = answers, askedOwn' = askedOwn PROVE ToldInv'
  BY <1>1, <1>5 DEF ToldInv
<1>6. ASSUME NEW p \in ClientRecord, NEW t \in TransportRecord, prov' = p, tr' = t, answers' = answers, askedOwn' = askedOwn,
             requests' \in Seq(RequestRecord), requests' # requests => Ready /\ (requests = <<>> => tr.operation \in {0, accepted}),
             p.state = prov.state \/ p.state = "ERROR", p.state = "ERROR" => p.error_reason # "OK" /\ Running,
             p.transport_open = prov.transport_open,
             t.operation = tr.operation, t.state \notin {"REG_RECV", "STATUS_RECV", "STATUS_SEND"},
             t.state = "REG_SEND" => tr.state = "REG_SEND", t.link # "IDLE" => tr.link # "IDLE",
             Ready => t.link \in {tr.link, "ERROR"} \/ p.state = "ERROR"
      PROVE  MadeInv' /\ ThreadInv' /\ ToldInv'
  <2>1. prov' # NotMade /\ prov'.state # "none"
    BY <1>6 DEF ClientRecord, ClientStates, NotMade
  <2>2. Running' <=> Running
    BY <1>2, <1>6, <2>1 DEF Running
  <2>3. Ready => Ready' \/ prov'.state = "ERROR"
    BY <1>1, <1>6 DEF Ready
  <2>4. requests' # requests => Ready /\ Running /\ (requests = <<>> => tr.operation \in {0, accepted})
    BY <1>3, <1>6
  <2>5. MadeInv'
    BY <1>1, <1>2, <1>6, <2>1, <2>2, <2>3, <2>4, Steady
  <2> QED
    BY <1>4, <1>5, <1>6, <2>1, <2>5
<1>7. ASSUME NEW t \in TransportRecord, Does(prov, t), prov.state = "ERROR" => Running,
             t.operation = tr.operation, t.state \notin {"REG_RECV", "STATUS_RECV", "STATUS_SEND"},
             t.state = "REG_SEND" => tr.state = "REG_SEND", t.link # "IDLE" => tr.link # "IDLE",
             Ready => t.link \in {tr.link, "ERROR"}
      PROVE  MadeInv' /\ ThreadInv' /\ ToldInv'
  <2>1. prov' = prov /\ tr' = t /\ requests' = requests /\ answers' = answers /\ askedOwn' = askedOwn
    BY <1>7 DEF Does
  <2> QED
    BY <1>2, <1>6, <1>7, <2>1
<1>8. prov.state = "ERROR" => Running
  BY DEF Running
<1>9. ASSUME Does(prov, TransportError(tr)), tr.link # "IDLE" PROVE MadeInv' /\ ThreadInv' /\ ToldInv'
  <2>1. /\ TransportError(tr) \in TransportRecord /\ TransportError(tr).link = "ERROR"
        /\ TransportError(tr).state = "ERROR" /\ TransportError(tr).operation = tr.operation
    BY <1>2, TransportErrorFields
  <2> QED
    BY <1>7, <1>8, <1>9, <2>1
<1>10. ASSUME ~Ready \/ tr.state \in {"IDLE", "REG_SENT", "STATUS_SENT"} \/ prov.state = "ERROR"
       PROVE  tr.state \notin {"REG_RECV", "STATUS_RECV", "STATUS_SEND"}
  BY <1>2, <1>10
<1>11. CASE Does(prov, tr) /\ (~Ready \/ tr.state \in {"IDLE", "REG_SENT", "STATUS_SENT"} \/ prov.state = "ERROR")
  BY <1>1, <1>2, <1>7, <1>8, <1>10, <1>11
<1>12. ASSUME Does(prov, [tr EXCEPT !.link = "CONNECTING"]), tr.link = "DISCONNECTED" PROVE MadeInv' /\ ThreadInv' /\ ToldInv'
  <2> DEFINE t == [tr EXCEPT !.link = "CONNECTING"]
  <2>1. t \in TransportRecord /\ t.link = "CONNECTING" /\ t.state = tr.state /\ t.operation = tr.operation
    <3>1. "CONNECTING" \in Links
      BY DEF Links
    <3> QED
      BY <1>2, <3>1, LinkFields
  <2>2. ~Ready
    BY <1>12 DEF Ready
  <2>3. Does(prov, t)
    BY <1>12
  <2> HIDE DEF t
  <2> QED
    BY <1>7, <1>8, <1>10, <1>12, <2>1, <2>2, <2>3
<1>13. CASE create_connection \/ create_sasl_handler
  <2>1. tr.link = "DISCONNECTED"
    BY <1>13 DEF create_connection, create_sasl_handler
  <2>2. CASE Connects
    BY <1>1, <1>12, <2>1, <2>2 DEF Connects
  <2>3. CASE CannotConnect
    BY <1>1, <1>9, <2>1, <2>3 DEF CannotConnect
  <2>4. CASE Does(on_transport_error(prov, "KEY_ERROR"), TransportError(tr))
    <3>1. "KEY_ERROR" \in Reasons \ {"OK"} /\ Running
      BY <1>2, <2>1 DEF Reasons
    <3>2. /\ TransportError(tr) \in TransportRecord /\ TransportError(tr).link = "ERROR"
          /\ TransportError(tr).state = "ERROR" /\ TransportError(tr).operation = tr.operation
      BY <1>2, TransportErrorFields
    <3> DEFINE p == on_transport_error(prov, "KEY_ERROR")
    <3>3. p \in ClientRecord /\ p.state = prov.state /\ p.transport_open = prov.transport_open /\ p.error_reason = "KEY_ERROR"
      BY <1>2, <3>1, ReasonFields
    <3>4. prov' = p /\ tr' = TransportError(tr) /\ requests' = requests /\ answers' = answers /\ askedOwn' = askedOwn
      BY <2>4 DEF Does
    <3> HIDE DEF p
    <3> QED
      BY <1>1, <1>2, <1>6, <2>1, <3>1, <3>2, <3>3, <3>4
  <2> QED
    BY <1>13, <2>2, <2>3, <2>4, Zenon DEF create_connection, create_sasl_handler
<1>14. CASE subscribe_to_topic
  <2>1. carrier = "MQTT" /\ tr.link = "CONNECTED" /\ ~Ready
    BY <1>14 DEF subscribe_to_topic, Ready
  <2>2. CASE Does(prov, TransportError(tr))
    BY <1>1, <1>9, <2>1, <2>2
  <2>3. CASE Does(on_transport_status(prov, "CONNECTED", tr.retry_after), [tr EXCEPT !.link = "SUBSCRIBING"])
    <3> DEFINE t == [tr EXCEPT !.link = "SUBSCRIBING"]
               p == on_transport_status(prov, "CONNECTED", tr.retry_after)
    <3>1. t \in TransportRecord /\ t.link = "SUBSCRIBING" /\ t.state = tr.state /\ t.operation = tr.operation
      <4>1. "SUBSCRIBING" \in Links
        BY DEF Links
      <4> QED
        BY <1>2, <4>1, LinkFields
    <3>2. p \in ClientRecord /\ p.state = prov.state /\ p.transport_open = prov.transport_open /\ p.error_reason = prov.error_reason
      BY <1>2, StatusFields
    <3>3. prov' = p /\ tr' = t /\ requests' = requests /\ answers' = answers /\ askedOwn' = askedOwn
      BY <2>3 DEF Does
    <3>4. t.state \notin {"REG_RECV", "STATUS_RECV", "STATUS_SEND"}
      BY <1>10, <2>1, <3>1
    <3> HIDE DEF p, t
    <3> QED
      BY <1>1, <1>2, <1>6, <1>8, <2>1, <3>1, <3>2, <3>3, <3>4
  <2> QED
    BY <1>14, <2>2, <2>3, Zenon DEF subscribe_to_topic
<1>15. ASSUME Ready, prov.state # "ERROR", Acts PROVE MadeInv' /\ ThreadInv' /\ ToldInv'
  <2>0. tr.link # "IDLE" /\ Running
    BY <1>3, <1>15 DEF Ready
  <2>1. CASE send_registration_info
    <3>1. CASE Does(prov, TransportError(tr))
      BY <1>9, <2>0, <3>1
    <3>2. CASE Sends("register") /\ tr' = [tr EXCEPT !.state = "REG_SENT"] /\ UNCHANGED <<prov, answers, askedOwn>>
      <4>1. requests' \in Seq(RequestRecord)
        <5>1. [kind |-> "register", reg |-> accepted] \in RequestRecord
          BY DEF RequestRecord
        <5> QED
          BY <1>2, <3>2, <5>1, AppendProperties DEF Sends
      <4> DEFINE t == [tr EXCEPT !.state = "REG_SENT"]
      <4>2. t \in TransportRecord /\ t.link = tr.link /\ t.state = "REG_SENT" /\ t.operation = tr.operation
        <5>1. "REG_SENT" \in TransportStates
          BY DEF TransportStates
        <5> QED
          BY <1>2, <5>1, StateFields
      <4>3. tr.operation = 0
        BY <1>2, <2>1 DEF send_registration_info
      <4>4. prov' = prov /\ tr' = t /\ answers' = answers /\ askedOwn' = askedOwn
        BY <3>2
      <4> HIDE DEF t
      <4> QED
        BY <1>2, <1>6, <1>15, <2>0, <4>1, <4>2, <4>3, <4>4
    <3> QED
      BY <2>1, <3>1, <3>2, Zenon DEF send_registration_info
  <2>2. CASE send_operation_status_message
    <3>0. prov.state = "STATUS_SENT" /\ tr.operation = accepted
      BY <1>2, <2>2 DEF send_operation_status_message
    <3>1. CASE Does(prov, TransportError(tr))
      BY <1>9, <2>0, <3>1
    <3>2. CASE /\ Sends("status") /\ tr' = [tr EXCEPT !.state = "STATUS_SENT"]
               /\ askedOwn' = (askedOwn /\ tr.operation = accepted) /\ UNCHANGED <<prov, answers>>
      <4>1. requests' \in Seq(RequestRecord)
        <5>1. [kind |-> "status", reg |-> accepted] \in RequestRecord
          BY DEF RequestRecord
        <5> QED
          BY <1>2, <3>2, <5>1, AppendProperties DEF Sends
      <4> DEFINE t == [tr EXCEPT !.state = "STATUS_SENT"]
      <4>2. t \in TransportRecord /\ t.link = tr.link /\ t.state = "STATUS_SENT" /\ t.operation = tr.operation
        <5>1. "STATUS_SENT" \in TransportStates
          BY DEF TransportStates
        <5> QED
          BY <1>2, <5>1, StateFields
      <4>3. askedOwn' /\ ToldInv'
        <5>1. askedOwn'
          BY <3>0, <3>2 DEF ToldInv
        <5> QED
          BY <1>1, <3>2, <5>1 DEF ToldInv
      <4>4. prov' = prov /\ tr' = t /\ answers' = answers
        BY <3>2
      <4> HIDE DEF t
      <4>5. Running' <=> Running
        BY <4>4 DEF Running
      <4>6. Ready'
        BY <1>1, <1>15, <4>2, <4>4 DEF Ready
      <4>7. MadeInv'
        BY <1>1, <1>2, <1>15, <2>0, <3>0, <4>1, <4>2, <4>4, <4>5, <4>6, Steady
      <4> QED
        BY <1>2, <1>4, <4>3, <4>4, <4>7
    <3> QED
      BY <2>2, <3>1, <3>2, Zenon DEF send_operation_status_message
  <2>3. CASE prov_transport_process_json_reply
    <3>0. /\ tr.about = accepted /\ tr.operation \in {0, accepted} /\ tr.state \in {"REG_RECV", "STATUS_RECV"}
          /\ tr.payload \in Payloads \cup {"none"} /\ (tr.payload = "assigned" => accepted \in assigned)
      BY <1>2, <2>3 DEF prov_transport_process_json_reply, TransportRecord
    <3>1. CASE tr.payload = "assigning"
      <4> DEFINE t == KeepsOperation(tr)
                 p == on_transport_status(prov, "ASSIGNING", tr.retry_after)
      <4>1. prov' = p /\ tr' = t /\ requests' = requests /\ answers' = answers /\ askedOwn' = askedOwn
        BY <2>3, <3>1 DEF prov_transport_process_json_reply, Does
      <4>2. t \in TransportRecord /\ t.link = tr.link /\ t.state = "IDLE" /\ t.operation = accepted
        BY <1>1, <1>2, <3>0 DEF KeepsOperation, TransportRecord, TransportStates
      <4>3. p \in ClientRecord /\ p.state = "STATUS_SEND" /\ p.transport_open = prov.transport_open
        BY <1>2, StatusFields
      <4> HIDE DEF p, t
      <4>4. Running' /\ Ready' /\ prov' # NotMade
        BY <1>1, <1>15, <4>1, <4>2, <4>3 DEF Running, Ready, NotMade
      <4>5. ProvTypeOK'
        BY <1>1, <1>2, <4>1, <4>2, <4>3 DEF ProvTypeOK, RequestRecord
      <4>6. RunningInv'
        BY <1>1, <1>15, <2>0, <4>1, <4>2, <4>3, <4>4 DEF MadeInv, RunningInv
      <4>7. OperationInv' /\ ReplyInv' /\ ReasonInv'
        BY <1>1, <4>1, <4>2, <4>3, <4>4 DEF OperationInv, ReplyInv, ReasonInv
      <4>8. AnswersInv'
        BY <1>1, <2>0, <4>1, <4>4 DEF MadeInv, AnswersInv
      <4> QED
        BY <1>4, <1>5, <4>1, <4>4, <4>5, <4>6, <4>7, <4>8 DEF MadeInv
    <3>2. CASE tr.payload = "assigned"
      <4>0. RegistrationDone
        BY <2>3, <3>2 DEF prov_transport_process_json_reply
      <4>1. CASE /\ Told("OK") /\ prov' = [cleanup_prov_info(prov) EXCEPT !.state = "READY"] /\ requests' = <<>>
                 /\ tr' = [Closed(tr) EXCEPT !.state = "IDLE"] /\ UNCHANGED askedOwn
        <5>1. "OK" \in Reasons
          BY DEF Reasons
        <5>2. tr' \in TransportRecord /\ tr'.link = "IDLE" /\ tr'.state = "IDLE" /\ tr'.operation = tr.operation
          BY <1>2, <4>1, ClosedFields
        <5>3. MadeInv' /\ ToldInv' /\ prov' # NotMade
          BY <1>1, <2>0, <3>0, <3>2, <4>1, <5>1, <5>2, RegistrationEndsInv
        <5> QED
          BY <1>4, <5>3
      <4>2. CASE Does([prov EXCEPT !.state = "ERROR", !.error_reason = "KEY_ERROR"], [tr EXCEPT !.state = "IDLE"])
        <5> DEFINE p == [prov EXCEPT !.state = "ERROR", !.error_reason = "KEY_ERROR"]
                   t == [tr EXCEPT !.state = "IDLE"]
        <5>1. p \in ClientRecord /\ p.state = "ERROR" /\ p.error_reason # "OK" /\ p.transport_open = prov.transport_open
          BY <1>2 DEF ClientRecord, ClientStates, Reasons
        <5>2. t \in TransportRecord /\ t.link = tr.link /\ t.state = "IDLE" /\ t.operation = tr.operation
          <6>1. "IDLE" \in TransportStates
            BY DEF TransportStates
          <6> QED
            BY <1>2, <6>1, StateFields
        <5>3. prov' = p /\ tr' = t /\ requests' = requests /\ answers' = answers /\ askedOwn' = askedOwn
          BY <4>2 DEF Does
        <5> HIDE DEF p, t
        <5> QED
          BY <1>2, <1>6, <2>0, <5>1, <5>2, <5>3
      <4> QED
        BY <4>0, <4>1, <4>2, Zenon DEF RegistrationDone
    <3>3. CASE tr.payload \in {"unassigned", "none"}
      <4>1. Does(prov, TransportError(tr))
        BY <2>3, <3>3 DEF prov_transport_process_json_reply, Challenged
      <4> QED
        BY <1>9, <2>0, <4>1
    <3>4. CASE tr.payload \in {"failed", "disabled", "malformed"}
      <4>1. Does(on_transport_error(prov, ErrorOf[tr.payload]), TransportError(tr))
        BY <2>3, <3>4 DEF prov_transport_process_json_reply
      <4>2. ErrorOf[tr.payload] \in Reasons \ {"OK"}
        BY <3>4 DEF ErrorOf, Reasons
      <4> DEFINE p == on_transport_error(prov, ErrorOf[tr.payload])
                 t == TransportError(tr)
      <4>3. /\ p \in ClientRecord /\ p.state = prov.state /\ p.transport_open = prov.transport_open
            /\ p.error_reason # "OK"
        BY <1>2, <4>2, ReasonFields
      <4>4. t \in TransportRecord /\ t.link = "ERROR" /\ t.state = "ERROR" /\ t.operation = tr.operation
        BY <1>2, TransportErrorFields
      <4>5. prov' = p /\ tr' = t /\ requests' = requests /\ answers' = answers /\ askedOwn' = askedOwn
        BY <4>1 DEF Does
      <4> HIDE DEF p, t
      <4> QED
        BY <1>2, <1>6, <2>0, <4>3, <4>4, <4>5
    <3> QED
      BY <3>0, <3>1, <3>2, <3>3, <3>4 DEF Payloads
  <2>4. CASE TriesAgain
    <3> DEFINE t == [tr EXCEPT !.state = "IDLE"]
               p == on_transport_status(prov, "TRANSIENT", tr.retry_after)
    <3>1. prov' = p /\ tr' = t /\ requests' = requests /\ answers' = answers /\ askedOwn' = askedOwn
      BY <2>4 DEF TriesAgain, Does
    <3>2. t \in TransportRecord /\ t.link = tr.link /\ t.state = "IDLE" /\ t.operation = tr.operation
      <4>1. "IDLE" \in TransportStates
        BY DEF TransportStates
      <4> QED
        BY <1>2, <4>1, StateFields
    <3>3. /\ p \in ClientRecord /\ p.transport_open = prov.transport_open /\ p.error_reason = prov.error_reason
          /\ p.state = IF prov.state = "REGISTER_SENT" THEN "REGISTER_SEND"
                       ELSE IF prov.state = "STATUS_SENT" THEN "STATUS_SEND" ELSE prov.state
      BY <1>2, StatusFields
    <3> HIDE DEF p, t
    <3>4. (Running' <=> Running) /\ prov' # NotMade
      BY <1>2, <3>1, <3>3 DEF Running, NotMade
    <3>5. Ready'
      BY <1>1, <1>15, <3>1, <3>2 DEF Ready
    <3>6. prov'.state \in {"STATUS_SEND", "STATUS_SENT"} => prov.state \in {"STATUS_SEND", "STATUS_SENT"}
      BY <3>1, <3>3
    <3>7. prov'.state # "ERROR"
      BY <1>15, <3>1, <3>3
    <3>8. MadeInv'
      BY <1>1, <1>2, <1>15, <3>1, <3>2, <3>3, <3>4, <3>5, <3>6, <3>7, Steady
    <3> QED
      BY <1>4, <1>5, <3>1, <3>4, <3>8
  <2>5. CASE on_transport_registration_data
    <3> DEFINE p == Failed(prov, "TRANSPORT")
               t == [tr EXCEPT !.state = "IDLE", !.link = "IDLE"]
    <3>1. p \in ClientRecord /\ p.state = "ERROR" /\ p.error_reason # "OK" /\ p.transport_open = prov.transport_open
      <4>1. "TRANSPORT" \in Reasons \ {"OK"}
        BY DEF Reasons
      <4> QED
        BY <1>2, <4>1, FailedFields
    <3>2. t \in TransportRecord /\ t.link = "IDLE" /\ t.state = "IDLE" /\ t.operation = tr.operation
      BY <1>2 DEF TransportRecord, Links, TransportStates
    <3>3. prov' = p /\ tr' = t /\ requests' = requests /\ answers' = answers /\ askedOwn' = askedOwn
      BY <2>5 DEF on_transport_registration_data, Does
    <3> HIDE DEF p, t
    <3> QED
      BY <1>2, <1>6, <2>0, <3>1, <3>2, <3>3
  <2>6. CASE tr.state \in {"IDLE", "REG_SENT", "STATUS_SENT"} /\ Does(prov, tr)
    BY <1>11, <2>6
  <2> QED
    BY <1>15, <2>1, <2>2, <2>3, <2>4, <2>5, <2>6 DEF Acts
<1>16. CASE prov.state = "ERROR"
  <2>1. Does(prov, tr)
    BY <1>16 DEF TransportWorks
  <2> QED
    BY <1>1, <1>11, <1>16, <2>1
<1>17. CASE prov.state # "ERROR" /\ carrier = "MQTT"
  <2>1. \/ create_connection \/ subscribe_to_topic \/ (tr.link \in {"SUBSCRIBED", "ERROR"} /\ Acts)
        \/ (tr.link \in {"IDLE", "CONNECTING", "SUBSCRIBING"} /\ Does(prov, tr))
    BY <1>17 DEF TransportWorks, prov_transport_common_mqtt_dowork, prov_transport_common_amqp_dowork, prov_transport_http_dowork
  <2>2. tr.link \in {"SUBSCRIBED", "ERROR"} => Ready
    BY <1>17 DEF Ready
  <2>3. tr.link \in {"IDLE", "CONNECTING", "SUBSCRIBING"} => ~Ready
    BY <1>17 DEF Ready
  <2> QED
    BY <1>1, <1>11, <1>13, <1>14, <1>15, <1>17, <2>1, <2>2, <2>3
<1>18. CASE prov.state # "ERROR" /\ carrier = "AMQP"
  <2>1. create_sasl_handler \/ (tr.link \in {"CONNECTED", "ERROR"} /\ Acts) \/ (tr.link \in {"IDLE", "CONNECTING"} /\ Does(prov, tr))
    BY <1>18 DEF TransportWorks, prov_transport_common_mqtt_dowork, prov_transport_common_amqp_dowork, prov_transport_http_dowork
  <2>2. tr.link \in {"CONNECTED", "ERROR"} => Ready
    BY <1>18 DEF Ready
  <2>3. tr.link \in {"IDLE", "CONNECTING"} => ~Ready
    BY <1>18 DEF Ready
  <2> QED
    BY <1>1, <1>11, <1>13, <1>15, <1>18, <2>1, <2>2, <2>3
<1> QED
  BY <1>16, <1>17, <1>18

\* The client moves a registration on or ends it; it asks for a status only of an operation that is its own.
LEMMA ClientWorksInv ==
  ASSUME carrier \in {"MQTT", "AMQP"}, ThreadInv, ToldInv, MadeInv, ClientWorks
  PROVE  carrier' = carrier /\ ThreadInv' /\ ToldInv' /\ MadeInv'
<1>1. /\ turn = "client" /\ turn' = "idle" /\ worker' = worker /\ carrier' = carrier
      /\ accepted' = accepted /\ assigned' = assigned
  BY DEF ClientWorks, provFixed
<1>2. /\ prov \in ClientRecord /\ tr \in TransportRecord /\ requests \in Seq(RequestRecord)
      /\ prov # NotMade /\ prov.state \in ClientStates /\ prov.state # "none"
      /\ prov.state = "ERROR" => prov.error_reason # "OK"
      /\ tr.state \notin {"REG_RECV", "STATUS_RECV", "STATUS_SEND"}
      /\ tr.state = "REG_SEND" => tr.operation = 0
      /\ prov.state \in {"STATUS_SEND", "STATUS_SENT"} => Ready /\ tr.operation = accepted
      /\ (prov.transport_open <=> Running)
  BY <1>1, MadeHasState DEF MadeInv, ProvTypeOK, ReasonInv, OperationInv, ReplyInv, RunningInv
<1>3. ASSUME prov' # NotMade PROVE ThreadInv'
  BY <1>1, <1>3 DEF ThreadInv
<1>4. ASSUME answers' = answers, askedOwn' = askedOwn PROVE ToldInv'
  BY <1>1, <1>4 DEF ToldInv
<1>5. ASSUME prov' \in ClientRecord, prov'.transport_open = prov.transport_open, prov.state # "ERROR", Running,
             prov'.state \in {"REGISTER_SENT", "STATUS_SENT", "ERROR"}, prov'.state = "ERROR" => prov'.error_reason # "OK",
             prov'.state = "STATUS_SENT" => prov.state = "STATUS_SEND",
             tr' \in TransportRecord, tr'.link = tr.link, tr'.operation = tr.operation,
             \/ tr'.state = tr.state
             \/ tr'.state = "REG_SEND" /\ tr.operation = 0
             \/ tr'.state = "STATUS_SEND" /\ prov'.state = "STATUS_SENT",
             requests' = requests, answers' = answers, askedOwn' = askedOwn
      PROVE  MadeInv' /\ ThreadInv' /\ ToldInv'
  <2>1. prov' # NotMade /\ Running'
    BY <1>5 DEF Running, NotMade
  <2>2. Ready => Ready'
    BY <1>1, <1>5 DEF Ready
  <2>3. tr'.state \notin {"REG_RECV", "STATUS_RECV"} /\ (tr'.state = "REG_SEND" => tr.operation = 0)
    BY <1>2, <1>5
  <2>4. tr'.state = "STATUS_SEND" => prov'.state = "STATUS_SENT" /\ turn' # "client"
    BY <1>1, <1>2, <1>5
  <2>5. prov'.state \in {"STATUS_SEND", "STATUS_SENT"} => prov.state \in {"STATUS_SEND", "STATUS_SENT"}
    BY <1>5
  <2>6. MadeInv'
    BY <1>1, <1>2, <1>5, <2>1, <2>2, <2>3, <2>4, <2>5, Steady
  <2> QED
    BY <1>3, <1>4, <1>5, <2>1, <2>6
<1>6. ASSUME prov' = Failed(prov, "TRANSPORT"), prov.state # "ERROR", Running,
             UNCHANGED <<tr, requests, answers, askedOwn>>
      PROVE  MadeInv' /\ ThreadInv' /\ ToldInv'
  <2>1. "TRANSPORT" \in Reasons \ {"OK"}
    BY DEF Reasons
  <2>2. prov' \in ClientRecord /\ prov'.state = "ERROR" /\ prov'.error_reason # "OK" /\ prov'.transport_open = prov.transport_open
    BY <1>2, <1>6, <2>1, FailedFields
  <2> QED
    BY <1>2, <1>5, <1>6, <2>2
<1>7. CASE RegistersNow
  <2>1. prov.state = "REGISTER_SEND" /\ Running /\ UNCHANGED <<requests, answers, askedOwn>>
    BY <1>7 DEF RegistersNow, Running
  <2>2. CASE Refuses(tr)
    <3>1. prov' = Failed(prov, "TRANSPORT") /\ tr' = tr
      BY <1>7, <2>2 DEF RegistersNow
    <3> QED
      BY <1>1, <1>6, <2>1, <3>1
  <2>3. CASE ~Refuses(tr)
    <3> DEFINE p == [prov EXCEPT !.state = "REGISTER_SENT"]
               t == [tr EXCEPT !.state = "REG_SEND"]
    <3>1. prov' = p /\ tr' = t
      BY <1>7, <2>3 DEF RegistersNow
    <3>2. tr.operation = 0
      BY <2>3 DEF Refuses, prov_transport_common_mqtt_register_device, prov_transport_common_amqp_register_device
    <3>3. "REGISTER_SENT" \in ClientStates /\ "REG_SEND" \in TransportStates
      BY DEF ClientStates, TransportStates
    <3>4. p \in ClientRecord /\ p.state = "REGISTER_SENT" /\ p.transport_open = prov.transport_open
      BY <1>2, <3>3, ClientFields
    <3>5. t \in TransportRecord /\ t.link = tr.link /\ t.state = "REG_SEND" /\ t.operation = tr.operation
      BY <1>2, <3>3, StateFields
    <3> HIDE DEF p, t
    <3> QED
      BY <1>1, <1>5, <2>1, <3>1, <3>2, <3>4, <3>5
  <2> QED
    BY <2>2, <2>3
<1>8. CASE AsksStatus
  <2>1. prov.state = "STATUS_SEND" /\ Running /\ answers' = answers
    BY <1>8 DEF AsksStatus, Running
  <2>2. CASE prov' = Failed(prov, "TRANSPORT") /\ UNCHANGED <<tr, sinceMark, requests, askedOwn>>
    BY <1>1, <1>6, <2>1, <2>2
  <2>3. CASE /\ prov' = [prov EXCEPT !.state = "STATUS_SENT"]
             /\ tr' = [tr EXCEPT !.state = "STATUS_SEND"] /\ UNCHANGED <<requests, askedOwn>>
    <3> DEFINE p == [prov EXCEPT !.state = "STATUS_SENT"]
               t == [tr EXCEPT !.state = "STATUS_SEND"]
    <3>1. prov' = p /\ tr' = t /\ requests' = requests /\ askedOwn' = askedOwn
      BY <2>3
    <3>3. "STATUS_SENT" \in ClientStates /\ "STATUS_SEND" \in TransportStates
      BY DEF ClientStates, TransportStates
    <3>4. p \in ClientRecord /\ p.state = "STATUS_SENT" /\ p.transport_open = prov.transport_open
      BY <1>2, <3>3, ClientFields
    <3>5. t \in TransportRecord /\ t.link = tr.link /\ t.state = "STATUS_SEND" /\ t.operation = tr.operation
      BY <1>2, <3>3, StateFields
    <3> HIDE DEF p, t
    <3> QED
      BY <1>1, <1>5, <2>1, <3>1, <3>4, <3>5
  <2> QED
    BY <1>8, <2>2, <2>3 DEF AsksStatus, prov_transport_common_mqtt_get_operation_status,
       prov_transport_common_amqp_get_operation_status, prov_transport_http_get_operation_status
<1>9. CASE GivesUp \/ Waits
  <2>1. tr' = tr /\ requests' = requests /\ answers' = answers /\ askedOwn' = askedOwn
    BY <1>9 DEF GivesUp, Waits
  <2>2. CASE GivesUp
    <3>1. prov' = [prov EXCEPT !.state = "ERROR", !.error_reason = "TIMEOUT"] /\ Running /\ prov.state # "ERROR"
      BY <1>2, <2>2 DEF GivesUp, TimesOut, Sent, Running
    <3>2. prov' \in ClientRecord /\ prov'.state = "ERROR" /\ prov'.error_reason # "OK" /\ prov'.transport_open = prov.transport_open
      BY <1>2, <3>1 DEF ClientRecord, ClientStates, Reasons
    <3> QED
      BY <1>1, <1>2, <1>5, <2>1, <3>1, <3>2
  <2>3. CASE Waits
    <3>1. prov' = prov
      BY <2>3 DEF Waits
    <3>2. (Running' <=> Running) /\ (Ready <=> Ready')
      BY <1>1, <2>1, <3>1 DEF Running, Ready
    <3>3. MadeInv'
      BY <1>1, <1>2, <2>1, <3>1, <3>2, Steady
    <3> QED
      BY <1>1, <1>2, <1>3, <1>4, <2>1, <3>1, <3>3
  <2> QED
    BY <1>9, <2>2, <2>3
<1>10. CASE TellsError
  <2>1. /\ prov.state = "ERROR" /\ Told(prov.error_reason) /\ askedOwn' = askedOwn /\ Running
        /\ prov' = [cleanup_prov_info(prov) EXCEPT !.state = "READY"]
    BY <1>10 DEF TellsError, Running
  <2>2. tr' = Closed(tr) /\ requests' = <<>>
    BY <1>2, <1>10, <2>1 DEF TellsError
  <2>3. prov.error_reason \in Reasons \ {"OK"}
    BY <1>2, <2>1 DEF ClientRecord
  <2>4. tr' \in TransportRecord /\ tr'.link = "IDLE" /\ tr'.state = tr.state /\ tr'.operation = tr.operation
    BY <1>2, <2>2, ClosedFields
  <2>5. MadeInv' /\ ToldInv' /\ prov' # NotMade
    BY <1>1, <1>2, <2>1, <2>2, <2>3, <2>4, RegistrationEndsInv
  <2> QED
    BY <1>1, <1>3, <2>5
<1> QED
  BY <1>7, <1>8, <1>9, <1>10 DEF ClientWorks

\* The application gives the client an id, a timeout or its next registration, which nothing of an earlier one
\* can be taken for.
LEMMA ApplicationInv ==
  ASSUME carrier \in {"MQTT", "AMQP"}, ThreadInv, ToldInv, MadeInv,
         Prov_Device_LL_Register_Device \/ Prov_Device_LL_SetOption
  PROVE  carrier' = carrier /\ ThreadInv' /\ ToldInv' /\ MadeInv'
<1>1. /\ carrier' = carrier /\ turn = "idle" /\ turn' = turn /\ requests' = requests /\ answers' = answers
      /\ assigned' = assigned /\ askedOwn' = askedOwn /\ worker' \in {worker, "works"}
  BY DEF Prov_Device_LL_Register_Device, Prov_Device_LL_SetOption, Asks, Made, prov_StartWorkerThreadIfNeeded
<1>2. /\ prov \in ClientRecord /\ tr \in TransportRecord /\ requests \in Seq(RequestRecord)
      /\ prov # NotMade /\ prov.state \in ClientStates /\ prov.state # "none"
      /\ prov.state = "ERROR" => prov.error_reason # "OK"
      /\ tr.state \notin {"REG_RECV", "STATUS_RECV"}
      /\ tr.state = "REG_SEND" => tr.operation = 0
      /\ tr.state = "STATUS_SEND" => prov.state = "STATUS_SENT"
      /\ accepted \in Nat
  BY <1>1, MadeHasState DEF MadeInv, ProvTypeOK, ReasonInv, OperationInv, ReplyInv, ToldInv
<1>3. ASSUME prov' # NotMade PROVE ThreadInv'
  BY <1>1, <1>3 DEF ThreadInv
<1>4. prov_auth_get_registration_id \in ClientRecord /\ prov_auth_get_registration_id.state = prov.state
      /\ prov_auth_get_registration_id.transport_open = prov.transport_open
      /\ prov_auth_get_registration_id.error_reason = prov.error_reason
  BY <1>2 DEF prov_auth_get_registration_id, ClientRecord
<1>5. CASE /\ accepted < MaxRegistrations /\ prov.state = "READY" /\ accepted' = accepted + 1 /\ tr' = Opened(tr)
           /\ prov' = [prov_auth_get_registration_id EXCEPT !.state = "REGISTER_SEND", !.transport_open = TRUE]
  <2>1. prov' \in ClientRecord /\ prov'.state = "REGISTER_SEND" /\ prov'.transport_open = TRUE
    BY <1>4, <1>5 DEF ClientRecord, ClientStates
  <2>2. tr' \in TransportRecord /\ tr'.state = tr.state /\ tr'.operation = tr.operation
    <3>1. tr' = [tr EXCEPT !.link = "DISCONNECTED"]
      BY <1>5 DEF Opened, prov_transport_common_mqtt_open, prov_transport_common_amqp_open
    <3>2. "DISCONNECTED" \in Links
      BY DEF Links
    <3> QED
      BY <1>2, <3>1, <3>2, LinkFields
  <2>3. ~Running /\ Running' /\ prov' # NotMade
    BY <1>5, <2>1 DEF Running, NotMade
  <2>4. requests = <<>>
    BY <2>3 DEF MadeInv, RunningInv
  <2>5. ProvTypeOK' /\ RunningInv'
    BY <1>1, <2>1, <2>2, <2>3, <2>4 DEF ProvTypeOK, RunningInv
  <2>6. OperationInv' /\ ReplyInv' /\ ReasonInv'
    BY <1>2, <1>5, <2>1, <2>2 DEF OperationInv, ReplyInv, ReasonInv
  <2>7. AnswersInv'
    BY <1>1, <1>2, <1>5, <2>3 DEF MadeInv, AnswersInv
  <2>8. ToldInv'
    BY <1>1, <1>2, <1>5 DEF ToldInv
  <2> QED
    BY <1>1, <1>3, <2>3, <2>5, <2>6, <2>7, <2>8 DEF MadeInv
<1>6. CASE /\ prov' \in ClientRecord /\ prov'.state = prov.state /\ prov'.transport_open = prov.transport_open
           /\ prov'.error_reason = prov.error_reason /\ tr' = tr /\ accepted' = accepted
  <2>1. (Running' <=> Running) /\ (Ready <=> Ready') /\ prov' # NotMade
    BY <1>1, <1>2, <1>6 DEF Running, Ready, NotMade
  <2>2. MadeInv'
    BY <1>1, <1>2, <1>6, <2>1, Steady
  <2>3. ToldInv'
    BY <1>1, <1>6 DEF ToldInv
  <2> QED
    BY <1>1, <1>3, <2>1, <2>2, <2>3
<1>7. CASE Prov_Device_LL_SetOption
  <2>1. prov' = [prov EXCEPT !.timeout = ProvTimeout] \/ prov' = [prov EXCEPT !.registration_id = TRUE, !.user_supplied = TRUE, !.auth_id = TRUE]
    BY <1>7 DEF Prov_Device_LL_SetOption, Asks
  <2>2. /\ prov' \in ClientRecord /\ prov'.state = prov.state /\ prov'.transport_open = prov.transport_open
        /\ prov'.error_reason = prov.error_reason
    BY <1>2, <2>1 DEF ClientRecord
  <2> QED
    BY <1>6, <1>7, <2>2 DEF Prov_Device_LL_SetOption
<1>8. CASE Prov_Device_LL_Register_Device
  <2>1. CASE Asks([prov_auth_get_registration_id EXCEPT !.registration_id = prov.user_supplied]) /\ UNCHANGED <<tr, accepted, worker>>
    <3>1. prov' = [prov_auth_get_registration_id EXCEPT !.registration_id = prov.user_supplied]
      BY <2>1 DEF Asks
    <3>2. prov.user_supplied \in BOOLEAN
      BY <1>2 DEF ClientRecord
    <3>3. /\ prov' \in ClientRecord /\ prov'.state = prov.state /\ prov'.transport_open = prov.transport_open
          /\ prov'.error_reason = prov.error_reason
      BY <1>4, <3>1, <3>2 DEF ClientRecord
    <3> QED
      BY <1>6, <2>1, <3>3
  <2> QED
    BY <1>5, <1>8, <2>1 DEF Prov_Device_LL_Register_Device, Asks
<1> QED
  BY <1>7, <1>8

\* A client that does not exist, or that the program is ending, tells nobody anything.
LEMMA OtherStepsInv ==
  ASSUME carrier \in {"MQTT", "AMQP"}, ThreadInv, ToldInv, prov # NotMade => MadeInv,
         \/ Prov_Device_LL_Create \/ Prov_Device_Destroy \/ ScheduleWork_Thread \/ Prov_Device_LL_Destroy
         \/ ProvTick \/ UNCHANGED provVars
  PROVE  carrier' = carrier /\ ThreadInv' /\ ToldInv' /\ (prov' # NotMade => MadeInv')
<1>0. ~Prov_Device_LL_Create
  BY DEF Prov_Device_LL_Create
<1>1. carrier' = carrier /\ turn' = turn /\ accepted' = accepted /\ answers' = answers /\ assigned' = assigned /\ askedOwn' = askedOwn
  BY <1>0 DEF Prov_Device_Destroy, ScheduleWork_Thread, Prov_Device_LL_Destroy, ProvTick, provVars
<1>2. ToldInv'
  BY <1>1 DEF ToldInv
<1>3. CASE Prov_Device_LL_Destroy
  <2>1. worker = "joined" /\ worker' = worker /\ prov' = NotMade
    BY <1>3 DEF Prov_Device_LL_Destroy
  <2> QED
    BY <1>1, <1>2, <2>1 DEF ThreadInv
<1>4. CASE Prov_Device_Destroy \/ ScheduleWork_Thread \/ ProvTick \/ UNCHANGED provVars
  <2>1. prov' = prov /\ tr' = tr /\ requests' = requests
    BY <1>4 DEF Prov_Device_Destroy, ScheduleWork_Thread, ProvTick, provVars
  <2>2. ThreadInv'
    <3>1. CASE worker' = worker
      BY <1>1, <2>1, <3>1 DEF ThreadInv
    <3>2. CASE worker' # worker
      <4>1. turn = "idle" /\ worker' \in {"stops", "joined"} /\ (worker' = "stops" => worker = "works")
        BY <1>4, <3>2 DEF Prov_Device_Destroy, ScheduleWork_Thread, ProvTick, provVars, Made
      <4> QED
        BY <1>1, <2>1, <4>1 DEF ThreadInv
    <3> QED
      BY <3>1, <3>2
  <2>3. ASSUME prov' # NotMade PROVE MadeInv'
    <3>1. MadeInv
      BY <2>1, <2>3
    <3>2. (Running' <=> Running) /\ (Ready <=> Ready')
      BY <1>1, <2>1 DEF Running, Ready
    <3>3. ProvTypeOK' /\ RunningInv'
      BY <1>1, <2>1, <3>1, <3>2 DEF MadeInv, ProvTypeOK, RunningInv, RequestRecord
    <3>4. OperationInv' /\ ReplyInv' /\ ReasonInv'
      BY <1>1, <2>1, <3>1, <3>2 DEF MadeInv, OperationInv, ReplyInv, ReasonInv
    <3>5. AnswersInv'
      BY <1>1, <3>1, <3>2 DEF MadeInv, AnswersInv
    <3> QED
      BY <3>3, <3>4, <3>5 DEF MadeInv
  <2> QED
    BY <1>1, <1>2, <2>2, <2>3
<1> QED
  BY <1>0, <1>3, <1>4

\* A client is made ready, with nothing accepted.
LEMMA CreateInv ==
  ASSUME carrier = "none", ProvInv, Prov_Device_LL_Create, carrier' # "HTTP"
  PROVE  carrier' \in {"MQTT", "AMQP"} /\ ThreadInv' /\ ToldInv' /\ MadeInv'
<1>1. /\ worker = "none" /\ turn = "idle" /\ requests = <<>> /\ accepted = 0 /\ answers = <<>> /\ askedOwn
  BY DEF ProvInv
<1>2. /\ carrier' \in {"MQTT", "AMQP"}
      /\ prov' = [state |-> "READY", is_connected |-> FALSE, transport_open |-> FALSE, registration_id |-> FALSE,
                  user_supplied |-> FALSE, auth_id |-> FALSE, error_reason |-> "OK", timeout |-> 0, retry_after |-> Throttle]
      /\ tr' = [link |-> "IDLE", opened |-> {}, state |-> "IDLE", operation |-> 0, payload |-> "none", about |-> 0,
                retry_after |-> Throttle]
      /\ UNCHANGED <<worker, turn, requests, accepted, answers, assigned, askedOwn>>
  BY DEF Prov_Device_LL_Create
<1>3. prov' \in ClientRecord /\ prov'.state = "READY" /\ prov'.transport_open = FALSE
  BY <1>2 DEF ClientRecord, ClientStates, Reasons
<1>4. tr' \in TransportRecord /\ tr'.link = "IDLE" /\ tr'.state = "IDLE"
  BY <1>2 DEF TransportRecord, TransportStates, Links, Payloads
<1>5. ~Running' /\ prov' # NotMade
  BY <1>3 DEF Running, NotMade
<1>6. ThreadInv'
  BY <1>1, <1>2, <1>5 DEF ThreadInv
<1>7. ToldInv'
  BY <1>1, <1>2 DEF ToldInv
<1>8. ProvTypeOK' /\ RunningInv' /\ OperationInv' /\ ReplyInv' /\ ReasonInv'
  BY <1>1, <1>2, <1>3, <1>4, <1>5 DEF ProvTypeOK, RunningInv, OperationInv, ReplyInv, ReasonInv
<1>9. AnswersInv'
  <2>1. answers' = <<>> /\ accepted' = 0
    BY <1>1, <1>2
  <2>2. Len(answers') = 0
    BY <2>1
  <2>3. Len(answers') = accepted' - 0 /\ \A i \in 1..Len(answers') : FALSE
    BY <2>1, <2>2
  <2> QED
    BY <1>5, <2>3, Zenon DEF AnswersInv
<1> QED
  BY <1>2, <1>6, <1>7, <1>8, <1>9 DEF MadeInv

\* For any timeouts, waits and numbers of registrations and answers: a registration over MQTT or AMQP is answered
\* once, in its turn, is told OK only if the service assigned it, and asks only for its own operation
\* (Prov_Device_LL_DoWork and the callbacks of its transports).
THEOREM ProvisioningIsHonest == ProvSpec => []ProvisioningHonest
<1>1. ProvInit => ProvInv
  BY DEF ProvInit, ProvInv
<1>2. ProvInv /\ [ProvNext]_provVars => ProvInv'
  <2> SUFFICES ASSUME ProvInv, [ProvNext]_provVars PROVE ProvInv'
    OBVIOUS
  <2>1. CASE carrier = "HTTP"
    <3>1. carrier' = "HTTP"
      <4>1. ProvDoWork => carrier' = carrier
        BY DEF ProvDoWork, Network, TransportWorks, ClientWorks, provFixed
      <4>2. Prov_Device_LL_Register_Device \/ Prov_Device_LL_SetOption => carrier' = carrier
        BY DEF Prov_Device_LL_Register_Device, Prov_Device_LL_SetOption, Asks
      <4>3. Prov_Device_Destroy \/ ScheduleWork_Thread \/ Prov_Device_LL_Destroy \/ ProvTick \/ UNCHANGED provVars => carrier' = carrier
        BY DEF Prov_Device_Destroy, ScheduleWork_Thread, Prov_Device_LL_Destroy, ProvTick, provVars
      <4>4. ~Prov_Device_LL_Create
        BY <2>1 DEF Prov_Device_LL_Create
      <4> QED
        BY <2>1, <4>1, <4>2, <4>3, <4>4 DEF ProvNext
    <3> QED
      BY <3>1 DEF ProvInv
  <2>2. CASE carrier = "none"
    <3>1. prov = NotMade /\ worker = "none" /\ turn = "idle"
      BY <2>2 DEF ProvInv
    <3>2. CASE Prov_Device_LL_Create
      BY <2>2, <3>2, CreateInv DEF ProvInv
    <3>3. CASE UNCHANGED provVars
      BY <2>2, <3>3 DEF ProvInv, provVars
    <3>4. ~ProvDoWork
      BY <3>1 DEF ProvDoWork, Network, TransportWorks, ClientWorks
    <3>5. ~Prov_Device_LL_Register_Device /\ ~Prov_Device_LL_SetOption /\ ~Prov_Device_Destroy
      BY <3>1 DEF Prov_Device_LL_Register_Device, Prov_Device_LL_SetOption, Prov_Device_Destroy, Made
    <3>6. ~ScheduleWork_Thread /\ ~Prov_Device_LL_Destroy /\ ~ProvTick
      BY <3>1 DEF ScheduleWork_Thread, Prov_Device_LL_Destroy, ProvTick
    <3> QED
      BY <3>2, <3>3, <3>4, <3>5, <3>6 DEF ProvNext
  <2>3. CASE carrier \in {"MQTT", "AMQP"}
    <3>1. ThreadInv /\ ToldInv /\ (prov # NotMade => MadeInv)
      BY <2>3 DEF ProvInv
    <3>2. CASE ProvDoWork
      <4>1. prov # NotMade
        <5>1. turn # "idle" \/ worker = "works"
          BY <3>2 DEF ProvDoWork, Network, TransportWorks, ClientWorks
        <5> QED
          BY <3>1, <5>1 DEF ThreadInv
      <4>2. carrier' = carrier /\ ThreadInv' /\ ToldInv' /\ MadeInv'
        BY <2>3, <3>1, <3>2, <4>1, NetworkInv, TransportWorksInv, ClientWorksInv DEF ProvDoWork
      <4> QED
        BY <2>3, <4>2 DEF ProvInv
    <3>3. CASE Prov_Device_LL_Register_Device \/ Prov_Device_LL_SetOption
      <4>1. prov # NotMade
        BY <3>3 DEF Prov_Device_LL_Register_Device, Prov_Device_LL_SetOption, Made
      <4>2. carrier' = carrier /\ ThreadInv' /\ ToldInv' /\ MadeInv'
        BY <2>3, <3>1, <3>3, <4>1, ApplicationInv
      <4> QED
        BY <2>3, <4>2 DEF ProvInv
    <3>4. CASE \/ Prov_Device_LL_Create \/ Prov_Device_Destroy \/ ScheduleWork_Thread \/ Prov_Device_LL_Destroy
               \/ ProvTick \/ UNCHANGED provVars
      <4>1. carrier' = carrier /\ ThreadInv' /\ ToldInv' /\ (prov' # NotMade => MadeInv')
        BY <2>3, <3>1, <3>4, OtherStepsInv
      <4> QED
        BY <2>3, <4>1 DEF ProvInv
    <3> QED
      BY <3>2, <3>3, <3>4 DEF ProvNext
  <2> QED
    BY <2>1, <2>2, <2>3 DEF ProvInv
<1>3. ProvInv => ProvisioningHonest
  <2> SUFFICES ASSUME ProvInv PROVE ProvisioningHonest
    OBVIOUS
  <2>1. AnsweredOnce
    BY DEF ProvInv, AnsweredOnce, MadeInv, AnswersInv
  <2>2. OkAssigned /\ OwnOperation
    <3>1. CASE carrier = "HTTP"
      BY <3>1 DEF OkAssigned, OwnOperation
    <3>2. CASE carrier = "none"
      <4>1. answers = <<>> /\ askedOwn
        BY <3>2 DEF ProvInv
      <4>2. Len(answers) = 0
        BY <4>1
      <4> QED
        BY <4>1, <4>2 DEF OkAssigned, OwnOperation
    <3>3. CASE carrier \in {"MQTT", "AMQP"}
      BY <3>3 DEF ProvInv, ToldInv, OkAssigned, OwnOperation
    <3> QED
      BY <3>1, <3>2, <3>3 DEF ProvInv
  <2> QED
    BY <2>1, <2>2 DEF ProvisioningHonest
<1> QED
  BY <1>1, <1>2, <1>3, PTL DEF ProvSpec

-----------------------------------------------------------------------------
(* Authentication by TPM *)

\* A remainder that changes nothing.
LEMMA SmallRemainder ==
  ASSUME NEW n \in Nat \ {0}, NEW k \in 0..(n - 1)
  PROVE  k % n = k
OBVIOUS

\* Positions that follow each other make one run.
LEMMA PositionsConcat ==
  ASSUME NEW m \in Nat, NEW n \in Nat
  PROVE  /\ Positions(0, m) \in Seq(Nat) /\ Len(Positions(0, m)) = m
         /\ Positions(0, m) \o Positions(m, n) = Positions(0, m + n)
<1> DEFINE a == Positions(0, m)
           b == Positions(m, n)
           c == Positions(0, m + n)
<1>1. a \in Seq(Nat) /\ Len(a) = m /\ \A i \in 1..m : a[i] = 0 + i - 1
  <2>1. a \in [1..m -> Nat] /\ \A i \in 1..m : a[i] = 0 + i - 1
    BY DEF Positions
  <2> HIDE DEF a
  <2> QED
    BY <2>1, FunctionIsSequence
<1>2. b \in Seq(Nat) /\ Len(b) = n /\ \A i \in 1..n : b[i] = m + i - 1
  <2>1. b \in [1..n -> Nat] /\ \A i \in 1..n : b[i] = m + i - 1
    BY DEF Positions
  <2> HIDE DEF b
  <2> QED
    BY <2>1, FunctionIsSequence
<1>3. m + n \in Nat /\ c \in Seq(Nat) /\ Len(c) = m + n /\ \A i \in 1..(m + n) : c[i] = 0 + i - 1
  <2>1. m + n \in Nat /\ c \in [1..(m + n) -> Nat] /\ \A i \in 1..(m + n) : c[i] = 0 + i - 1
    BY DEF Positions
  <2> HIDE DEF c
  <2> QED
    BY <2>1, FunctionIsSequence
<1> HIDE DEF a, b, c
<1> DEFINE d == a \o b
<1>4. d \in Seq(Nat) /\ Len(d) = m + n /\ \A i \in 1..(m + n) : d[i] = IF i <= m THEN a[i] ELSE b[i - m]
  BY <1>1, <1>2, ConcatProperties
<1> HIDE DEF d
<1>5. ASSUME NEW i \in 1..(m + n) PROVE d[i] = c[i]
  <2>1. CASE i <= m
    <3>1. i \in 1..m
      BY <2>1
    <3>2. a[i] = 0 + i - 1
      BY <1>1, <3>1
    <3> QED
      BY <1>3, <1>4, <2>1, <3>2
  <2>2. CASE ~(i <= m)
    <3>1. i - m \in 1..n
      BY <2>2
    <3>2. b[i - m] = m + (i - m) - 1
      BY <1>2, <3>1
    <3>3. d[i] = b[i - m]
      BY <1>4, <2>2
    <3>4. b[i - m] = i - 1
      BY <3>2
    <3>5. c[i] = i - 1
      BY <1>3
    <3> QED
      BY <3>3, <3>4, <3>5
  <2> QED
    BY <2>1, <2>2
<1>6. d = c
  BY <1>3, <1>4, <1>5, SeqEqual
<1> QED
  BY <1>1, <1>6 DEF a, c, d, b

SaslStages == {"new", "keys", "nonce", "token", "noToken", "failed"}

SaslTypeOK ==
  /\ keyLens \in [ids : Nat, ek : Nat, srk : Nat] /\ nonceLen \in Nat
  /\ data_offset \in Int /\ ctrl_seq_num \in Nat /\ nonce \in Seq(Nat)
  /\ gotKeys \in [ek : Seq(Int), srk : Seq(Int)] /\ misnumbered \in BOOLEAN /\ saslStage \in SaslStages

\* A mechanism that is new has done nothing; one that sends has keys.
SaslNewInv ==
  /\ saslStage = "new" => /\ data_offset = 0 /\ ctrl_seq_num = 0 /\ nonce = <<>> /\ misnumbered = FALSE
                          /\ gotKeys.ek = <<>> /\ gotKeys.srk = <<>> /\ lastFrame = WholeFrame
  /\ keyLens.ek > 0 => keyLens.srk > 0 /\ nonceLen > 0
  /\ saslStage # "new" => keyLens.ek > 0

\* What was sent of the storage root key is its beginning, up to the offset; it is all of it when no frame is left.
SaslKeysInv ==
  saslStage # "new" /\ EkFits =>
    /\ gotKeys.ek = Positions(0, keyLens.ek)
    /\ saslStage = "keys" => nonce = <<>> /\ misnumbered = FALSE
    /\ saslStage = "keys" /\ SrkFits =>
         /\ data_offset = 0 /\ ctrl_seq_num = 0 /\ lastFrame.stage # "continue"
         /\ gotKeys.srk \in {<<>>, Positions(0, keyLens.srk)}
    /\ saslStage = "keys" /\ ~SrkFits =>
         /\ data_offset \in 0..keyLens.srk /\ gotKeys.srk = Positions(0, data_offset)
         /\ lastFrame.stage = "continue" => data_offset < keyLens.srk
         /\ lastFrame.stage # "continue" /\ gotKeys.srk # <<>> => data_offset = keyLens.srk
    /\ saslStage # "keys" => gotKeys.srk = Positions(0, keyLens.srk)

\* As many segments were taken as the counter says, each of them with the number of its place.
SaslNonceInv ==
  EkFits /\ SrkFits =>
    /\ saslStage = "nonce" => ctrl_seq_num = Len(nonce)
    /\ saslStage \in {"nonce", "token"} /\ nonceLen <= SEQUENCES => \A i \in 1..Len(nonce) : nonce[i] = i - 1
    /\ saslStage = "token" /\ nonceLen <= SEQUENCES => Len(nonce) = nonceLen
    /\ saslStage = "failed" => misnumbered \/ nonceLen > SEQUENCES

SaslInv == SaslTypeOK /\ SaslNewInv /\ SaslKeysInv /\ SaslNonceInv

\* However many positions are asked for, even none, they are numbers.
LEMMA PositionsType ==
  ASSUME NEW m \in Int, NEW n \in Int
  PROVE  Positions(m, n) \in Seq(Int) /\ (n <= 0 => Positions(m, n) = <<>>)
<1> DEFINE p == Positions(m, n)
           k == IF n <= 0 THEN 0 ELSE n
<1>1. k \in Nat /\ 1..n = 1..k
  OBVIOUS
<1>2. p \in [1..n -> Int]
  BY DEF Positions
<1> HIDE DEF p
<1>3. p \in [1..k -> Int]
  BY <1>1, <1>2
<1>4. k \in Nat
  BY <1>1
<1>5. n <= 0 => k = 0
  OBVIOUS
<1> HIDE DEF k
<1>6. p \in Seq(Int) /\ Len(p) = k
  BY <1>3, <1>4, FunctionIsSequence
<1>7. n <= 0 => p = <<>>
  BY <1>5, <1>6, EmptySeq
<1> QED
  BY <1>6, <1>7 DEF p

\* The positions of a whole key, sent to a service that has nothing of it yet.
LEMMA PositionsWhole ==
  ASSUME NEW n \in Nat
  PROVE  /\ Positions(0, n) \in Seq(Int) /\ <<>> \o Positions(0, n) = Positions(0, n)
         /\ Positions(0, 0) = <<>>
<1>1. 0 \in Int /\ n \in Int
  OBVIOUS
<1>2. Positions(0, n) \in Seq(Int)
  BY <1>1, PositionsType
<1>3. Positions(0, 0) = <<>>
  BY <1>1, PositionsType
<1> QED
  BY <1>2, <1>3, ConcatEmptySeq

\* What is appended to one key leaves the other alone.
LEMMA AppendsPart ==
  ASSUME SaslTypeOK, NEW key \in {"ek", "srk"}, NEW m \in Int, NEW n \in Int,
         gotKeys' = [gotKeys EXCEPT ![key] = @ \o Positions(m, n)]
  PROVE  /\ gotKeys' \in [ek : Seq(Int), srk : Seq(Int)]
         /\ gotKeys'[key] = gotKeys[key] \o Positions(m, n)
         /\ key = "ek" => gotKeys'.srk = gotKeys.srk
         /\ key = "srk" => gotKeys'.ek = gotKeys.ek
<1>1. gotKeys \in [ek : Seq(Int), srk : Seq(Int)] /\ gotKeys[key] \in Seq(Int)
  BY DEF SaslTypeOK
<1>2. Positions(m, n) \in Seq(Int)
  BY PositionsType
<1>3. gotKeys[key] \o Positions(m, n) \in Seq(Int)
  BY <1>1, <1>2, ConcatProperties
<1> DEFINE whole == gotKeys[key] \o Positions(m, n)
<1>4. gotKeys' = [gotKeys EXCEPT ![key] = whole] /\ whole \in Seq(Int)
  BY <1>3
<1> HIDE DEF whole
<1>5. gotKeys' \in [ek : Seq(Int), srk : Seq(Int)] /\ gotKeys'[key] = whole
  BY <1>1, <1>4
<1>6. (key = "ek" => gotKeys'.srk = gotKeys.srk) /\ (key = "srk" => gotKeys'.ek = gotKeys.ek)
  BY <1>1, <1>4
<1> QED
  BY <1>5, <1>6 DEF whole

\* What sending a part of a key appends to what the service has of it.
LEMMA SendsPart ==
  ASSUME SaslTypeOK, NEW key \in {"ek", "srk"}, NEW ids \in Nat, construct_send_data(key, ids)
  PROVE  /\ gotKeys' \in [ek : Seq(Int), srk : Seq(Int)] /\ data_offset' \in Int /\ ctrl_seq_num' \in Nat
         /\ key = "ek" => gotKeys'.srk = gotKeys.srk
         /\ key = "srk" => gotKeys'.ek = gotKeys.ek
         /\ ~(keyLens[key] + ids > MAX_FRAME_DATA_LEN) =>
              /\ gotKeys'[key] = gotKeys[key] \o Positions(0, keyLens[key])
              /\ lastFrame' = WholeFrame /\ data_offset' = data_offset /\ ctrl_seq_num' = ctrl_seq_num
<1>1. keyLens[key] \in Nat /\ data_offset \in Int /\ ctrl_seq_num \in Nat /\ MAX_FRAME_DATA_LEN \in Nat /\ 0 \in Int
  BY SaslAssumption DEF SaslTypeOK
<1>2. CASE keyLens[key] + ids > MAX_FRAME_DATA_LEN
  <2> DEFINE front == IF ids > 0 /\ data_offset < ids THEN ids ELSE 0
             part == FrameLength(key, ids) - 1 - front
  <2>1. part \in Int
    BY <1>1 DEF FrameLength
  <2>2. /\ gotKeys' = [gotKeys EXCEPT ![key] = @ \o Positions(data_offset, part)]
        /\ data_offset' = data_offset + part /\ ctrl_seq_num' = ctrl_seq_num + 1
    BY <1>2 DEF construct_send_data
  <2> HIDE DEF part, front
  <2>3. data_offset' \in Int /\ ctrl_seq_num' \in Nat
    BY <1>1, <2>1, <2>2
  <2>4. /\ gotKeys' \in [ek : Seq(Int), srk : Seq(Int)]
        /\ key = "ek" => gotKeys'.srk = gotKeys.srk
        /\ key = "srk" => gotKeys'.ek = gotKeys.ek
    BY <1>1, <2>1, <2>2, AppendsPart
  <2> QED
    BY <1>2, <2>3, <2>4
<1>3. CASE ~(keyLens[key] + ids > MAX_FRAME_DATA_LEN)
  <2>1. /\ gotKeys' = [gotKeys EXCEPT ![key] = @ \o Positions(0, keyLens[key])]
        /\ lastFrame' = WholeFrame /\ data_offset' = data_offset /\ ctrl_seq_num' = ctrl_seq_num
    BY <1>3 DEF construct_send_data
  <2>2. keyLens[key] \in Int
    BY <1>1
  <2>3. /\ gotKeys' \in [ek : Seq(Int), srk : Seq(Int)]
        /\ gotKeys'[key] = gotKeys[key] \o Positions(0, keyLens[key])
        /\ key = "ek" => gotKeys'.srk = gotKeys.srk
        /\ key = "srk" => gotKeys'.ek = gotKeys.ek
    BY <1>1, <2>1, <2>2, AppendsPart
  <2> QED
    BY <1>1, <2>1, <2>3
<1> QED
  BY <1>2, <1>3

\* The first frame is the endorsement key when that fits.
LEMMA InitBytesInv ==
  ASSUME SaslInv, prov_sasltpm_get_init_bytes
  PROVE  SaslInv'
<1>1. /\ saslStage = "new" /\ keyLens.ek > 0 /\ saslStage' = "keys" /\ construct_send_data("ek", keyLens.ids)
      /\ keyLens' = keyLens /\ nonce' = nonce /\ nonceLen' = nonceLen /\ misnumbered' = misnumbered
  BY DEF prov_sasltpm_get_init_bytes
<1>2. SaslTypeOK /\ SaslNewInv /\ keyLens.ids \in Nat /\ keyLens.ek \in Nat /\ keyLens.srk \in Nat /\ MAX_FRAME_DATA_LEN \in Nat
  BY SaslAssumption DEF SaslInv, SaslTypeOK
<1>3. /\ gotKeys' \in [ek : Seq(Int), srk : Seq(Int)] /\ data_offset' \in Int /\ ctrl_seq_num' \in Nat
      /\ gotKeys'.srk = gotKeys.srk
      /\ ~(keyLens.ek + keyLens.ids > MAX_FRAME_DATA_LEN) =>
              /\ gotKeys'.ek = gotKeys.ek \o Positions(0, keyLens.ek)
              /\ lastFrame' = WholeFrame /\ data_offset' = data_offset /\ ctrl_seq_num' = ctrl_seq_num
  BY <1>1, <1>2, SendsPart
<1>4. SaslTypeOK'
  BY <1>1, <1>2, <1>3 DEF SaslTypeOK, SaslStages
<1>5. SaslNewInv'
  BY <1>1, <1>2 DEF SaslNewInv
<1>6. SaslKeysInv'
  <2> SUFFICES ASSUME EkFits' PROVE SaslKeysInv'
    BY DEF SaslKeysInv
  <2>1. ~(keyLens.ek + keyLens.ids > MAX_FRAME_DATA_LEN)
    BY <1>1, <1>2 DEF EkFits
  <2>2. data_offset = 0 /\ ctrl_seq_num = 0 /\ nonce = <<>> /\ misnumbered = FALSE /\ gotKeys.ek = <<>> /\ gotKeys.srk = <<>>
    BY <1>1, <1>2 DEF SaslNewInv
  <2>3. gotKeys'.ek = Positions(0, keyLens.ek)
    <3>1. <<>> \o Positions(0, keyLens.ek) = Positions(0, keyLens.ek)
      BY <1>2, PositionsWhole
    <3> QED
      BY <1>3, <2>1, <2>2, <3>1
  <2>4. gotKeys'.srk = <<>> /\ Positions(0, 0) = <<>>
    BY <1>3, <2>2, PositionsWhole
  <2>5. lastFrame'.stage = "whole" /\ data_offset' = 0 /\ ctrl_seq_num' = 0
    BY <1>3, <2>1, <2>2 DEF WholeFrame
  <2> QED
    BY <1>1, <1>2, <2>2, <2>3, <2>4, <2>5 DEF SaslKeysInv
<1>7. SaslNonceInv'
  BY <1>1 DEF SaslNonceInv
<1> QED
  BY <1>4, <1>5, <1>6, <1>7 DEF SaslInv

\* Each frame is the next part of the storage root key.
LEMMA StorageKeyInv ==
  ASSUME SaslInv, SendsStorageKey
  PROVE  SaslInv'
<1>1. /\ saslStage = "keys" /\ saslStage' = "keys" /\ construct_send_data("srk", 0)
      /\ gotKeys.srk = <<>> \/ lastFrame.stage = "continue"
      /\ keyLens' = keyLens /\ nonce' = nonce /\ nonceLen' = nonceLen /\ misnumbered' = misnumbered
  BY DEF SendsStorageKey
<1>2. /\ SaslTypeOK /\ SaslNewInv /\ keyLens.ids \in Nat /\ keyLens.ek \in Nat /\ keyLens.srk \in Nat /\ keyLens.srk > 0
      /\ MAX_FRAME_DATA_LEN \in Nat /\ MAX_FRAME_DATA_LEN >= 2 /\ ctrl_seq_num \in Nat
  <2>1. SaslTypeOK /\ SaslNewInv
    BY DEF SaslInv
  <2>2. keyLens.ids \in Nat /\ keyLens.ek \in Nat /\ keyLens.srk \in Nat /\ ctrl_seq_num \in Nat
    BY <2>1 DEF SaslTypeOK
  <2>3. keyLens.srk > 0
    BY <1>1, <2>1 DEF SaslNewInv
  <2>4. MAX_FRAME_DATA_LEN \in Nat /\ MAX_FRAME_DATA_LEN >= 2
    BY SaslAssumption
  <2> QED
    BY <2>1, <2>2, <2>3, <2>4
<1>3. /\ gotKeys' \in [ek : Seq(Int), srk : Seq(Int)] /\ data_offset' \in Int /\ ctrl_seq_num' \in Nat
      /\ gotKeys'.ek = gotKeys.ek
      /\ ~(keyLens.srk + 0 > MAX_FRAME_DATA_LEN) =>
              /\ gotKeys'.srk = gotKeys.srk \o Positions(0, keyLens.srk)
              /\ lastFrame' = WholeFrame /\ data_offset' = data_offset /\ ctrl_seq_num' = ctrl_seq_num
  BY <1>1, <1>2, SendsPart
<1>4. SaslTypeOK'
  BY <1>1, <1>2, <1>3 DEF SaslTypeOK, SaslStages
<1>5. SaslNewInv'
  BY <1>1, <1>2 DEF SaslNewInv
<1>6. SaslKeysInv'
  <2> SUFFICES ASSUME EkFits' PROVE SaslKeysInv'
    BY DEF SaslKeysInv
  <2>1. EkFits /\ (SrkFits' <=> SrkFits)
    BY <1>1 DEF EkFits, SrkFits
  <2>2. gotKeys.ek = Positions(0, keyLens.ek) /\ nonce = <<>> /\ misnumbered = FALSE
    BY <1>1, <2>1 DEF SaslInv, SaslKeysInv
  <2>3. CASE SrkFits
    <3>1. data_offset = 0 /\ ctrl_seq_num = 0 /\ gotKeys.srk = <<>>
      BY <1>1, <2>1, <2>3 DEF SaslInv, SaslKeysInv
    <3>2. ~(keyLens.srk + 0 > MAX_FRAME_DATA_LEN)
      BY <1>2, <2>3 DEF SrkFits
    <3>3. gotKeys'.srk = Positions(0, keyLens.srk)
      <4>1. <<>> \o Positions(0, keyLens.srk) = Positions(0, keyLens.srk)
        BY <1>2, PositionsWhole
      <4> QED
        BY <1>3, <3>1, <3>2, <4>1
    <3>4. lastFrame'.stage = "whole" /\ data_offset' = 0 /\ ctrl_seq_num' = 0
      BY <1>3, <3>1, <3>2 DEF WholeFrame
    <3> QED
      BY <1>1, <1>3, <2>1, <2>2, <2>3, <3>3, <3>4 DEF SaslKeysInv
  <2>4. CASE ~SrkFits
    <3>1. /\ data_offset \in 0..keyLens.srk /\ gotKeys.srk = Positions(0, data_offset)
          /\ lastFrame.stage = "continue" => data_offset < keyLens.srk
      BY <1>1, <2>1, <2>4 DEF SaslInv, SaslKeysInv
    <3>2. data_offset \in Nat /\ data_offset < keyLens.srk
      <4>1. ASSUME gotKeys.srk = <<>> PROVE data_offset = 0
        <5>1. data_offset \in Nat
          BY <1>2, <3>1
        <5>2. Len(gotKeys.srk) = data_offset
          BY <3>1, <5>1, PositionsConcat
        <5>3. Len(gotKeys.srk) = 0
          BY <4>1
        <5> QED
          BY <5>2, <5>3
      <4> QED
        BY <1>1, <1>2, <3>1, <4>1
    <3> DEFINE left == keyLens.srk - data_offset
               part == (IF left <= MAX_FRAME_DATA_LEN THEN left + 1 ELSE MAX_FRAME_DATA_LEN) - 1
    <3>3. keyLens.srk + 0 > MAX_FRAME_DATA_LEN /\ keyLens["srk"] + 0 - data_offset = left /\ left \in Nat
      BY <1>2, <2>4, <3>2 DEF SrkFits
    <3>4. /\ part \in Nat /\ part <= left
          /\ left <= MAX_FRAME_DATA_LEN => part = left
          /\ ~(left <= MAX_FRAME_DATA_LEN) => part < left
      BY <1>2, <3>3
    <3>5. FrameLength("srk", 0) - 1 - (IF 0 > 0 /\ data_offset < 0 THEN 0 ELSE 0) = part
      BY <1>2, <3>2 DEF FrameLength
    <3>6. /\ gotKeys' = [gotKeys EXCEPT !["srk"] = @ \o Positions(data_offset, part)]
          /\ lastFrame'.stage = IF left <= MAX_FRAME_DATA_LEN THEN "last" ELSE "continue"
          /\ data_offset' = data_offset + part
      <4>1. LET front == IF 0 > 0 /\ data_offset < 0 THEN 0 ELSE 0
                some == FrameLength("srk", 0) - 1 - front
            IN /\ gotKeys' = [gotKeys EXCEPT !["srk"] = @ \o Positions(data_offset, some)]
               /\ lastFrame' = [stage |-> IF keyLens["srk"] + 0 - data_offset <= MAX_FRAME_DATA_LEN THEN "last" ELSE "continue",
                                seq |-> ctrl_seq_num]
               /\ data_offset' = data_offset + some
        BY <1>1, <3>3 DEF construct_send_data
      <4> HIDE DEF part, left
      <4> QED
        BY <3>3, <3>5, <4>1
    <3> HIDE DEF part
    <3>7. /\ data_offset' \in 0..keyLens.srk
          /\ left <= MAX_FRAME_DATA_LEN => data_offset' = keyLens.srk
          /\ ~(left <= MAX_FRAME_DATA_LEN) => data_offset' < keyLens.srk
      <4>1. data_offset' = data_offset + part /\ left = keyLens.srk - data_offset
        BY <3>6
      <4> HIDE DEF left
      <4> QED
        BY <1>2, <3>2, <3>3, <3>4, <4>1
    <3>8. gotKeys'.srk = Positions(0, data_offset')
      <4>1. part \in Int /\ data_offset \in Int
        BY <3>2, <3>4
      <4>2. gotKeys'["srk"] = gotKeys["srk"] \o Positions(data_offset, part)
        BY <1>2, <3>6, <4>1, AppendsPart
      <4> QED
        BY <3>1, <3>2, <3>4, <3>6, <4>2, PositionsConcat
    <3> HIDE DEF left
    <3> QED
      BY <1>1, <1>3, <2>1, <2>2, <2>4, <3>6, <3>7, <3>8 DEF SaslKeysInv
  <2> QED
    BY <2>3, <2>4
<1>7. SaslNonceInv'
  BY <1>1 DEF SaslNonceInv
<1> QED
  BY <1>4, <1>5, <1>6, <1>7 DEF SaslInv

\* What a mechanism without keys has.
LEMMA NothingSent ==
  /\ <<>> \in Seq(Nat) /\ <<>> \in Seq(Int)
  /\ [ids |-> 0, ek |-> 0, srk |-> 0] \in [ids : Nat, ek : Nat, srk : Nat]
  /\ [ek |-> <<>>, srk |-> <<>>] \in [ek : Seq(Int), srk : Seq(Int)]
<1>1. <<>> \in Seq(Nat) /\ <<>> \in Seq(Int)
  OBVIOUS
<1>2. [ids |-> 0, ek |-> 0, srk |-> 0] \in [ids : Nat, ek : Nat, srk : Nat]
  OBVIOUS
<1> DEFINE e == <<>>
           S == Seq(Int)
<1>3. e \in S
  BY <1>1
<1> HIDE DEF e, S
<1>4. [ek |-> e, srk |-> e] \in [ek : S, srk : S]
  BY <1>3
<1> QED
  BY <1>1, <1>2, <1>4 DEF e, S

\* A mechanism is created with keys, and destroyed without them.
LEMMA CreatedInv ==
  ASSUME SaslInv, prov_sasltpm_create \/ prov_sasltpm_destroy
  PROVE  SaslInv'
<1>1. CASE prov_sasltpm_create
  <2>1. /\ saslStage = "new" /\ saslStage' = "new"
        /\ keyLens' \in [ids : 1..2, ek : 1..MaxKey, srk : 1..MaxKey] /\ nonceLen' \in 1..MaxSegments
        /\ data_offset' = data_offset /\ ctrl_seq_num' = ctrl_seq_num /\ nonce' = nonce /\ gotKeys' = gotKeys
        /\ lastFrame' = lastFrame /\ misnumbered' = misnumbered
    BY <1>1 DEF prov_sasltpm_create
  <2>2. keyLens' \in [ids : Nat, ek : Nat, srk : Nat] /\ keyLens'.srk > 0 /\ nonceLen' \in Nat /\ nonceLen' > 0
    BY <2>1, SaslAssumption
  <2>3. SaslTypeOK'
    BY <2>1, <2>2 DEF SaslInv, SaslTypeOK
  <2>4. SaslNewInv'
    BY <2>1, <2>2 DEF SaslInv, SaslNewInv
  <2>5. SaslKeysInv'
    BY <2>1 DEF SaslKeysInv
  <2>6. SaslNonceInv'
    BY <2>1 DEF SaslNonceInv
  <2> QED
    BY <2>3, <2>4, <2>5, <2>6 DEF SaslInv
<1>2. CASE prov_sasltpm_destroy
  <2>1. /\ saslStage' = "new" /\ keyLens' = [ids |-> 0, ek |-> 0, srk |-> 0] /\ data_offset' = 0 /\ ctrl_seq_num' = 0
        /\ nonce' = <<>> /\ gotKeys' = [ek |-> <<>>, srk |-> <<>>] /\ lastFrame' = WholeFrame /\ nonceLen' = 0
        /\ misnumbered' = FALSE
    BY <1>2 DEF prov_sasltpm_destroy
  <2>3. SaslTypeOK'
    <3>1. keyLens' \in [ids : Nat, ek : Nat, srk : Nat] /\ nonce' \in Seq(Nat) /\ gotKeys' \in [ek : Seq(Int), srk : Seq(Int)]
      BY <2>1, NothingSent, Zenon
    <3>2. nonceLen' = 0 /\ data_offset' = 0 /\ ctrl_seq_num' = 0 /\ misnumbered' = FALSE /\ saslStage' = "new"
      BY <2>1, Zenon
    <3>3. nonceLen' \in Nat /\ data_offset' \in Int /\ ctrl_seq_num' \in Nat
      BY <3>2
    <3>4. misnumbered' \in BOOLEAN /\ saslStage' \in SaslStages
      BY <3>2, Zenon DEF SaslStages
    <3> QED
      BY <3>1, <3>3, <3>4 DEF SaslTypeOK
  <2>4. SaslNewInv'
    BY <2>1 DEF SaslNewInv
  <2>5. SaslKeysInv'
    BY <2>1 DEF SaslKeysInv
  <2>6. SaslNonceInv'
    BY <2>1 DEF SaslNonceInv
  <2> QED
    BY <2>3, <2>4, <2>5, <2>6 DEF SaslInv
<1> QED
  BY <1>1, <1>2

\* When no frame is left, the service has the storage root key.
LEMMA KeysSentInv ==
  ASSUME SaslInv, KeysSent
  PROVE  SaslInv'
<1>1. /\ saslStage = "keys" /\ saslStage' = "nonce" /\ gotKeys.srk # <<>> /\ lastFrame.stage # "continue"
      /\ keyLens' = keyLens /\ data_offset' = data_offset /\ ctrl_seq_num' = ctrl_seq_num /\ nonce' = nonce
      /\ gotKeys' = gotKeys /\ lastFrame' = lastFrame /\ nonceLen' = nonceLen /\ misnumbered' = misnumbered
  BY DEF KeysSent
<1>2. SaslTypeOK'
  BY <1>1 DEF SaslInv, SaslTypeOK, SaslStages
<1>3. SaslNewInv'
  BY <1>1 DEF SaslInv, SaslNewInv
<1>4. SaslKeysInv'
  <2> SUFFICES ASSUME EkFits' PROVE SaslKeysInv'
    BY DEF SaslKeysInv
  <2>1. EkFits /\ gotKeys.ek = Positions(0, keyLens.ek)
    BY <1>1 DEF SaslInv, SaslKeysInv, EkFits
  <2>2. gotKeys.srk = Positions(0, keyLens.srk)
    BY <1>1, <2>1 DEF SaslInv, SaslKeysInv
  <2> QED
    BY <1>1, <2>1, <2>2 DEF SaslKeysInv
<1>5. SaslNonceInv'
  <2> SUFFICES ASSUME EkFits', SrkFits' PROVE SaslNonceInv'
    BY DEF SaslNonceInv
  <2>1. nonce = <<>> /\ ctrl_seq_num = 0
    BY <1>1 DEF SaslInv, SaslKeysInv, EkFits, SrkFits
  <2> QED
    BY <1>1, <2>1 DEF SaslNonceInv
<1> QED
  BY <1>2, <1>3, <1>4, <1>5 DEF SaslInv

\* A segment is taken only with the number it is due to have: while the numbers do not wrap around, in its place.
LEMMA ChallengeInv ==
  ASSUME SaslInv, prov_sasltpm_challenge
  PROVE  SaslInv'
<1>1. PICK place \in 0..(nonceLen - 1) :
        /\ nonce' = Append(nonce, place) /\ misnumbered' = (misnumbered \/ place # Len(nonce))
        /\ IF ~validate_sequence_num(place) THEN saslStage' = "failed" /\ UNCHANGED ctrl_seq_num
           ELSE IF place = nonceLen - 1 THEN saslStage' = "token" /\ ctrl_seq_num' = 0
           ELSE ctrl_seq_num' = ctrl_seq_num + 1 /\ UNCHANGED saslStage
  BY DEF prov_sasltpm_challenge
<1>2. /\ saslStage = "nonce" /\ keyLens' = keyLens /\ data_offset' = data_offset /\ gotKeys' = gotKeys
      /\ lastFrame' = lastFrame /\ nonceLen' = nonceLen
  BY DEF prov_sasltpm_challenge
<1>3. SaslTypeOK /\ SaslNewInv /\ SaslKeysInv /\ SaslNonceInv /\ nonce \in Seq(Nat) /\ nonceLen \in Nat /\ place \in Nat
      /\ ctrl_seq_num \in Nat /\ misnumbered \in BOOLEAN
  BY DEF SaslInv, SaslTypeOK
<1>4. /\ nonce' \in Seq(Nat) /\ Len(nonce') = Len(nonce) + 1 /\ Len(nonce) \in Nat
      /\ \A i \in 1..Len(nonce) : nonce'[i] = nonce[i]
      /\ nonce'[Len(nonce) + 1] = place
  BY <1>1, <1>3, AppendProperties, LenProperties
<1>5. saslStage' \in {"nonce", "token", "failed"} /\ ctrl_seq_num' \in Nat
  BY <1>1, <1>2, <1>3
<1>6. SaslTypeOK'
  BY <1>1, <1>2, <1>3, <1>4, <1>5 DEF SaslTypeOK, SaslStages
<1>7. SaslNewInv'
  BY <1>2, <1>3, <1>5 DEF SaslNewInv
<1>8. SaslKeysInv'
  BY <1>2, <1>3, <1>5 DEF SaslKeysInv, EkFits
<1>9. SaslNonceInv'
  <2> SUFFICES ASSUME EkFits', SrkFits' PROVE SaslNonceInv'
    BY DEF SaslNonceInv
  <2>1. EkFits /\ SrkFits
    BY <1>2 DEF EkFits, SrkFits
  <2>2. /\ ctrl_seq_num = Len(nonce)
        /\ nonceLen <= SEQUENCES => \A i \in 1..Len(nonce) : nonce[i] = i - 1
    BY <1>2, <1>3, <2>1 DEF SaslNonceInv
  <2>3. ASSUME nonceLen <= SEQUENCES PROVE place % SEQUENCES = place
    <3>1. SEQUENCES \in Nat \ {0} /\ place \in 0..(SEQUENCES - 1)
      BY <1>3, <2>3, SaslAssumption
    <3> QED
      BY <3>1, SmallRemainder
  <2>4. CASE ~validate_sequence_num(place)
    <3>1. saslStage' = "failed"
      BY <1>1, <2>4
    <3>2. misnumbered' \/ nonceLen > SEQUENCES
      <4>1. CASE nonceLen <= SEQUENCES
        <5>1. place # Len(nonce)
          BY <2>2, <2>3, <2>4, <4>1 DEF validate_sequence_num
        <5> QED
          BY <1>1, <5>1
      <4>2. CASE ~(nonceLen <= SEQUENCES)
        BY <1>3, <4>2, SaslAssumption
      <4> QED
        BY <4>1, <4>2
    <3> QED
      BY <1>2, <3>1, <3>2 DEF SaslNonceInv
  <2>5. CASE validate_sequence_num(place)
    <3>1. ASSUME nonceLen <= SEQUENCES
          PROVE  place = Len(nonce) /\ \A i \in 1..Len(nonce') : nonce'[i] = i - 1
      <4>1. place = Len(nonce)
        BY <2>2, <2>3, <2>5, <3>1 DEF validate_sequence_num
      <4>2. ASSUME NEW i \in 1..Len(nonce') PROVE nonce'[i] = i - 1
        <5>1. CASE i \in 1..Len(nonce)
          BY <1>4, <2>2, <3>1, <5>1
        <5>2. CASE i = Len(nonce) + 1
          BY <1>4, <4>1, <5>2
        <5> QED
          BY <1>4, <5>1, <5>2
      <4> QED
        BY <4>1, <4>2
    <3>2. CASE place = nonceLen - 1
      <4>1. saslStage' = "token"
        BY <1>1, <2>5, <3>2
      <4>2. nonceLen <= SEQUENCES => Len(nonce') = nonceLen
        BY <1>3, <1>4, <3>1, <3>2
      <4> QED
        BY <1>2, <3>1, <4>1, <4>2 DEF SaslNonceInv
    <3>3. CASE place # nonceLen - 1
      <4>1. saslStage' = "nonce" /\ ctrl_seq_num' = Len(nonce')
        BY <1>1, <1>2, <1>4, <2>2, <2>5, <3>3
      <4> QED
        BY <1>2, <3>1, <4>1 DEF SaslNonceInv
    <3> QED
      BY <3>2, <3>3
  <2> QED
    BY <2>4, <2>5
<1> QED
  BY <1>6, <1>7, <1>8, <1>9 DEF SaslInv

\* The mechanism keeps its invariant.
LEMMA SaslInvariant == SaslSpec => []SaslInv
<1>1. SaslInit => SaslInv
  <2> SUFFICES ASSUME SaslInit PROVE SaslInv
    OBVIOUS
  <2>1. /\ keyLens = [ids |-> 0, ek |-> 0, srk |-> 0] /\ data_offset = 0 /\ ctrl_seq_num = 0 /\ nonce = <<>>
        /\ gotKeys = [ek |-> <<>>, srk |-> <<>>] /\ lastFrame = WholeFrame /\ nonceLen = 0
        /\ misnumbered = FALSE /\ saslStage = "new"
    BY DEF SaslInit
  <2>3. SaslTypeOK
    <3>1. keyLens \in [ids : Nat, ek : Nat, srk : Nat] /\ nonce \in Seq(Nat) /\ gotKeys \in [ek : Seq(Int), srk : Seq(Int)]
      BY <2>1, NothingSent, Zenon
    <3>2. nonceLen = 0 /\ data_offset = 0 /\ ctrl_seq_num = 0 /\ misnumbered = FALSE /\ saslStage = "new"
      BY <2>1, Zenon
    <3>3. nonceLen \in Nat /\ data_offset \in Int /\ ctrl_seq_num \in Nat
      BY <3>2
    <3>4. misnumbered \in BOOLEAN /\ saslStage \in SaslStages
      BY <3>2, Zenon DEF SaslStages
    <3> QED
      BY <3>1, <3>3, <3>4 DEF SaslTypeOK
  <2>4. SaslNewInv
    BY <2>1 DEF SaslNewInv
  <2>5. SaslKeysInv /\ SaslNonceInv
    BY <2>1 DEF SaslKeysInv, SaslNonceInv
  <2> QED
    BY <2>3, <2>4, <2>5 DEF SaslInv
<1>2. SaslInv /\ [SaslNext]_saslVars => SaslInv'
  <2> SUFFICES ASSUME SaslInv, [SaslNext]_saslVars PROVE SaslInv'
    OBVIOUS
  <2>1. CASE TokenFails
    <3>1. /\ saslStage = "token" /\ saslStage' = "noToken" /\ keyLens' = keyLens /\ data_offset' = data_offset
          /\ ctrl_seq_num' = ctrl_seq_num /\ nonce' = nonce /\ gotKeys' = gotKeys /\ lastFrame' = lastFrame
          /\ nonceLen' = nonceLen /\ misnumbered' = misnumbered
      BY <2>1 DEF TokenFails
    <3>2. SaslTypeOK'
      BY <3>1 DEF SaslInv, SaslTypeOK, SaslStages
    <3>3. SaslNewInv'
      BY <3>1 DEF SaslInv, SaslNewInv
    <3>4. SaslKeysInv'
      BY <3>1 DEF SaslInv, SaslKeysInv, EkFits
    <3>5. SaslNonceInv'
      BY <3>1 DEF SaslNonceInv
    <3> QED
      BY <3>2, <3>3, <3>4, <3>5 DEF SaslInv
  <2>2. CASE UNCHANGED saslVars
    <3>1. /\ saslStage' = saslStage /\ keyLens' = keyLens /\ data_offset' = data_offset
          /\ ctrl_seq_num' = ctrl_seq_num /\ nonce' = nonce /\ gotKeys' = gotKeys /\ lastFrame' = lastFrame
          /\ nonceLen' = nonceLen /\ misnumbered' = misnumbered
      BY <2>2 DEF saslVars
    <3>2. SaslTypeOK' /\ SaslNewInv'
      BY <3>1 DEF SaslInv, SaslTypeOK, SaslNewInv
    <3>3. SaslKeysInv'
      BY <3>1 DEF SaslInv, SaslKeysInv, EkFits, SrkFits
    <3>4. SaslNonceInv'
      BY <3>1 DEF SaslInv, SaslNonceInv, EkFits, SrkFits
    <3> QED
      BY <3>2, <3>3, <3>4 DEF SaslInv
  <2> QED
    BY <2>1, <2>2, CreatedInv, InitBytesInv, StorageKeyInv, KeysSentInv, ChallengeInv DEF SaslNext
<1> QED
  BY <1>1, <1>2, PTL DEF SaslSpec

\* However the service cuts the nonce and whatever segments it sends, the mechanism of prov_sasl_tpm.c gives it both
\* keys whole, signs only a nonce that came whole, and turns no segment away that was sent in its place (of keys
\* that fit as the property says).
THEOREM TpmIsAuthenticated == SaslSpec => []TpmAuthenticates
<1>1. SaslInv => TpmAuthenticates
  <2> SUFFICES ASSUME SaslInv PROVE TpmAuthenticates
    OBVIOUS
  <2>1. KeysWhole
    <3> SUFFICES ASSUME saslStage \in {"nonce", "token"}, EkFits
                 PROVE  gotKeys = [ek |-> Positions(0, keyLens.ek), srk |-> Positions(0, keyLens.srk)]
      BY DEF KeysWhole
    <3>1. gotKeys.ek = Positions(0, keyLens.ek) /\ gotKeys.srk = Positions(0, keyLens.srk)
      BY DEF SaslInv, SaslKeysInv
    <3>2. gotKeys \in [ek : Seq(Int), srk : Seq(Int)]
      BY DEF SaslInv, SaslTypeOK
    <3> QED
      BY <3>1, <3>2
  <2>2. NonceWhole
    <3> SUFFICES ASSUME saslStage = "token", EkFits, SrkFits, nonceLen <= SEQUENCES
                 PROVE  nonce = Positions(0, nonceLen)
      BY DEF NonceWhole
    <3>1. nonce \in Seq(Nat) /\ nonceLen \in Nat
      BY DEF SaslInv, SaslTypeOK
    <3>2. Len(nonce) = nonceLen /\ \A i \in 1..Len(nonce) : nonce[i] = i - 1
      BY DEF SaslInv, SaslNonceInv
    <3>3. /\ Positions(0, nonceLen) \in Seq(Nat) /\ Len(Positions(0, nonceLen)) = nonceLen
          /\ \A i \in 1..nonceLen : Positions(0, nonceLen)[i] = i - 1
      <4>1. \A i \in 1..nonceLen : Positions(0, nonceLen)[i] = i - 1
        BY <3>1 DEF Positions
      <4> QED
        BY <3>1, <4>1, PositionsConcat
    <3> QED
      BY <3>1, <3>2, <3>3, SeqEqual
  <2>3. HonestAccepted
    BY DEF HonestAccepted, SaslInv, SaslNonceInv
  <2> QED
    BY <2>1, <2>2, <2>3 DEF TpmAuthenticates
<1> QED
  BY <1>1, SaslInvariant, PTL

-----------------------------------------------------------------------------
(* Messages of a service *)

\* What the application is told of a send, and what it gets of a feedback batch.
TellsOfSend == [send : Nat, of : Nat, sent : SendOutcomes, result : {"OK", "ERROR"}]
TellsOfFeedback ==
  [batch : Seq(Records), lost : BOOLEAN, settled : {"accepted", "rejected"}, told : Seq(Records \cup {"unknown"})]

SmTypeOK ==
  /\ stage \in {"none", "made", "opened", "closing", "gone", "undefined"} /\ sends \in Nat
  /\ callback_data \in [send : Nat, open : BOOLEAN, feedback : BOOLEAN]
  /\ outstanding \in SUBSET (1..sends) /\ outcomes \in Seq(TellsOfSend) /\ feedback \in Seq(TellsOfFeedback)

\* What is in flight is the latest message alone, or was in flight together with it, or with one that was refused:
\* the callback of the latest is called for all.
InFlightInv ==
  /\ outstanding # {} => stage \in {"opened", "closing"} /\ callback_data.send \in {0, sends}
  /\ \/ outstanding = {}
     \/ outstanding = {sends} /\ callback_data.send = sends
     \/ sends \in crossed /\ outstanding \subseteq crossed

\* Each message that was alone is told of once when it is no longer in flight, and with the result it had.
OutcomesInv ==
  /\ \A i \in DOMAIN outcomes : outcomes[i].send <= sends
  /\ \A i \in DOMAIN outcomes : (outcomes[i].result = "OK") = (outcomes[i].sent = "OK")
  /\ \A id \in (1..sends) \ crossed : Cardinality(ToldOf(id)) = (IF id \in outstanding THEN 0 ELSE 1)

\* Only a client that is opened or closing counts as open or has links.
LinksInv == stage \notin {"opened", "closing"} => ~isOpened /\ \A e \in LinkEnds : linkOf[e] = "idle"

\* The worker runs only if a send asked for it.
SmWorkerInv == workerThread = "running" => asked

SmInv == SmTypeOK /\ InFlightInv /\ OutcomesInv /\ FeedbackWhole /\ SmWorkerInv /\ LinksInv

\* The tells of a send, after the application was told more.
LEMMA ToldMore ==
  ASSUME outcomes \in Seq(TellsOfSend), NEW t \in Seq(TellsOfSend), outcomes' = outcomes \o t, NEW id
  PROVE  /\ (\A i \in 1..Len(t) : t[i].send # id) => ToldOf(id)' = ToldOf(id)
         /\ Len(t) = 1 /\ t[1].send = id => Cardinality(ToldOf(id)') = Cardinality(ToldOf(id)) + 1
<1> DEFINE n == Len(outcomes)
           a == ToldOf(id)
           b == ToldOf(id)'
<1>1. /\ n \in Nat /\ Len(t) \in Nat /\ DOMAIN outcomes = 1..n /\ DOMAIN outcomes' = 1..(n + Len(t))
      /\ \A j \in 1..n : outcomes'[j] = outcomes[j]
      /\ \A j \in 1..Len(t) : n + j \in 1..(n + Len(t)) /\ outcomes'[n + j] = t[j]
  BY ConcatElements
<1>2. a = {i \in 1..n : outcomes[i].send = id} /\ b = {i \in 1..(n + Len(t)) : outcomes'[i].send = id}
  BY <1>1 DEF ToldOf
<1>3. IsFiniteSet(a) /\ n + 1 \notin a
  <2>1. IsFiniteSet(1..n)
    BY <1>1, FS_Interval
  <2>2. a \in SUBSET (1..n)
    BY <1>2
  <2>3. IsFiniteSet(a)
    BY <2>1, <2>2, FS_Subset
  <2> HIDE DEF n, a
  <2>4. n + 1 \notin 1..n
    BY <1>1
  <2> QED
    BY <2>2, <2>3, <2>4
<1> HIDE DEF a, b, n
<1>4. ASSUME NEW j \in 1..(n + Len(t)), j \notin 1..n PROVE j - n \in 1..Len(t) /\ outcomes'[j] = t[j - n]
  <2>1. j - n \in 1..Len(t) /\ n + (j - n) = j
    BY <1>1, <1>4
  <2> QED
    BY <1>1, <2>1
<1>5. 1..n \subseteq 1..(n + Len(t))
  BY <1>1
<1>6. ASSUME \A i \in 1..Len(t) : t[i].send # id PROVE b = a
  BY <1>1, <1>2, <1>4, <1>5, <1>6
<1>7. ASSUME Len(t) = 1, t[1].send = id PROVE Cardinality(b) = Cardinality(a) + 1
  <2>1. n + 1 \in 1..(n + Len(t)) /\ outcomes'[n + 1] = t[1]
    BY <1>1, <1>7
  <2>2. ASSUME NEW j \in 1..(n + Len(t)), j \notin 1..n PROVE j = n + 1
    BY <1>1, <1>7, <2>2
  <2>3. b = a \cup {n + 1}
    BY <1>1, <1>2, <1>5, <1>7, <2>1, <2>2
  <2> QED
    BY <1>3, <2>3, FS_AddElement
<1> QED
  BY <1>6, <1>7 DEF a, b

\* Steps that leave the messages alone.
LEMMA SmSteady ==
  ASSUME SmInv, sends' = sends, outstanding' = outstanding, crossed' = crossed, outcomes' = outcomes,
         outstanding # {} => stage' \in {"opened", "closing"} /\ callback_data'.send = callback_data.send
  PROVE  InFlightInv' /\ OutcomesInv'
<1>1. InFlightInv'
  BY DEF SmInv, InFlightInv
<1>2. \A id : ToldOf(id)' = ToldOf(id)
  BY DEF ToldOf
<1>3. OutcomesInv'
  BY <1>2 DEF SmInv, OutcomesInv
<1> QED
  BY <1>1, <1>3

\* A message that is sent.
LEMMA SendInv ==
  ASSUME SmInv, IoTHubMessaging_LL_Send
  PROVE  InFlightInv' /\ OutcomesInv' /\ callback_data' \in [send : Nat, open : BOOLEAN, feedback : BOOLEAN]
         /\ sends' \in Nat /\ outstanding' \in SUBSET (1..sends')
<1>0. stage \in {"made", "opened", "closing"} /\ stage' = stage /\ outcomes' = outcomes /\ isOpened
  BY DEF IoTHubMessaging_LL_Send, IoTHubMessaging_SendAsync
<1>1. /\ stage \in {"opened", "closing"} /\ stage' = stage /\ sends' = sends + 1 /\ outcomes' = outcomes
      /\ callback_data' = [callback_data EXCEPT !.send = sends'] /\ outstanding' = outstanding \cup {sends'}
      /\ crossed' = IF outstanding = {} THEN crossed ELSE crossed \cup outstanding'
  BY <1>0 DEF IoTHubMessaging_LL_Send, SmInv, LinksInv
<1>2. sends \in Nat /\ outstanding \subseteq 1..sends /\ outcomes \in Seq(TellsOfSend)
      /\ callback_data \in [send : Nat, open : BOOLEAN, feedback : BOOLEAN]
  BY DEF SmInv, SmTypeOK
<1>3. sends' \in Nat /\ sends' \notin 1..sends /\ 1..sends' = (1..sends) \cup {sends'}
  BY <1>1, <1>2
<1>4. callback_data' \in [send : Nat, open : BOOLEAN, feedback : BOOLEAN] /\ callback_data'.send = sends'
  BY <1>1, <1>2, <1>3
<1>5. \A id : ToldOf(id)' = ToldOf(id)
  BY <1>1 DEF ToldOf
<1>6. InFlightInv'
  BY <1>1, <1>4 DEF InFlightInv
<1>7. OutcomesInv'
  <2>1. \A i \in DOMAIN outcomes' : outcomes'[i].send <= sends'
    <3> SUFFICES ASSUME NEW i \in DOMAIN outcomes PROVE outcomes[i].send <= sends + 1
      BY <1>1
    <3>1. outcomes[i].send <= sends /\ outcomes[i] \in TellsOfSend
      BY <1>2 DEF SmInv, OutcomesInv
    <3>2. outcomes[i].send \in Nat
      BY <3>1 DEF TellsOfSend
    <3> QED
      BY <1>2, <3>1, <3>2
  <2>2. \A i \in DOMAIN outcomes' : (outcomes'[i].result = "OK") = (outcomes'[i].sent = "OK")
    BY <1>1 DEF SmInv, OutcomesInv
  <2>3. ASSUME NEW id \in (1..sends') \ crossed'
        PROVE  Cardinality(ToldOf(id)') = (IF id \in outstanding' THEN 0 ELSE 1)
    <3>1. CASE id = sends'
      <4>1. ASSUME NEW i \in DOMAIN outcomes PROVE outcomes[i].send # sends'
        <5>1. outcomes[i].send <= sends /\ outcomes[i] \in TellsOfSend
          BY <1>2 DEF SmInv, OutcomesInv
        <5>2. outcomes[i].send \in Nat
          BY <5>1 DEF TellsOfSend
        <5> QED
          BY <1>1, <1>2, <5>1, <5>2
      <4>2. ToldOf(id) = {}
        BY <3>1, <4>1 DEF ToldOf
      <4> QED
        BY <1>1, <1>5, <3>1, <4>2, FS_EmptySet
    <3>2. CASE id # sends'
      <4>1. id \in 1..sends /\ id \notin crossed
        BY <1>1, <1>3, <3>2
      <4>2. id \notin outstanding
        BY <1>1
      <4>3. Cardinality(ToldOf(id)) = 1
        BY <4>1, <4>2 DEF SmInv, OutcomesInv
      <4> QED
        BY <1>1, <1>5, <3>2, <4>2, <4>3
    <3> QED
      BY <3>1, <3>2
  <2> QED
    BY <2>1, <2>2, <2>3 DEF OutcomesInv
<1> QED
  BY <1>1, <1>2, <1>3, <1>4, <1>6, <1>7

\* The callback of the latest message is called for those that end, be it one or all of them.
LEMMA EndsInv ==
  ASSUME SmInv, NEW t \in Seq(TellsOfSend), outcomes' = outcomes \o t,
         \A i \in 1..Len(t) : t[i].send = callback_data.send /\ ((t[i].result = "OK") = (t[i].sent = "OK")),
         sends' = sends, crossed' = crossed, callback_data' = callback_data,
         \/ stage' = stage /\ \E id \in outstanding : outstanding' = outstanding \ {id} /\ Len(t) = 1
         \/ outstanding' = {} /\ Len(t) = Cardinality(outstanding)
  PROVE  InFlightInv' /\ OutcomesInv' /\ outcomes' \in Seq(TellsOfSend)
<1>1. outcomes \in Seq(TellsOfSend) /\ sends \in Nat
  BY DEF SmInv, SmTypeOK
<1>0. \A i \in 1..Len(t) : t[i].send \in {0, sends}
  <2>1. outstanding = {} => Len(t) = 0
    BY FS_EmptySet
  <2>2. CASE outstanding = {}
    BY <2>1, <2>2
  <2>3. CASE outstanding # {}
    BY <2>3 DEF SmInv, InFlightInv
  <2> QED
    BY <2>2, <2>3
<1>2. /\ outcomes' \in Seq(TellsOfSend) /\ DOMAIN outcomes' = 1..(Len(outcomes) + Len(t))
      /\ DOMAIN outcomes = 1..Len(outcomes) /\ Len(outcomes) \in Nat /\ Len(t) \in Nat
      /\ \A j \in 1..Len(outcomes) : outcomes'[j] = outcomes[j]
      /\ \A j \in 1..Len(t) : outcomes'[Len(outcomes) + j] = t[j]
  BY <1>1, ConcatElements
<1>3. InFlightInv'
  <2>1. CASE outstanding' = {}
    BY <2>1 DEF InFlightInv
  <2>2. CASE outstanding' # {}
    <3>1. /\ stage' = stage /\ outstanding' \subseteq outstanding /\ outstanding # {}
          /\ \E id \in outstanding : outstanding' = outstanding \ {id}
      BY <2>2
    <3>2. sends \in crossed /\ outstanding \subseteq crossed
      BY <2>2, <3>1 DEF SmInv, InFlightInv
    <3> QED
      BY <3>1, <3>2 DEF SmInv, InFlightInv
  <2> QED
    BY <2>1, <2>2
<1>4. ASSUME NEW j \in DOMAIN outcomes'
      PROVE  outcomes'[j].send <= sends' /\ ((outcomes'[j].result = "OK") = (outcomes'[j].sent = "OK"))
  <2>1. CASE j \in 1..Len(outcomes)
    <3>1. j \in DOMAIN outcomes /\ outcomes'[j] = outcomes[j]
      BY <1>2, <2>1
    <3> QED
      BY <3>1 DEF SmInv, OutcomesInv
  <2>2. CASE j \notin 1..Len(outcomes)
    <3> DEFINE n == Len(outcomes)
               m == Len(t)
    <3>1. n \in Nat /\ m \in Nat /\ j \in 1..(n + m) /\ j \notin 1..n
      BY <1>2, <2>2
    <3>2. \A i \in 1..m : outcomes'[n + i] = t[i]
      BY <1>2
    <3> HIDE DEF n, m
    <3>3. j - n \in 1..m /\ n + (j - n) = j
      BY <3>1
    <3>4. outcomes'[j] = t[j - n]
      BY <3>2, <3>3
    <3>5. t[j - n].send \in {0, sends} /\ ((t[j - n].result = "OK") = (t[j - n].sent = "OK"))
      BY <1>0, <3>3 DEF m
    <3> QED
      BY <1>1, <3>4, <3>5
  <2> QED
    BY <2>1, <2>2
<1>5. ASSUME NEW id \in (1..sends') \ crossed'
      PROVE  Cardinality(ToldOf(id)') = (IF id \in outstanding' THEN 0 ELSE 1)
  <2>1. Cardinality(ToldOf(id)) = (IF id \in outstanding THEN 0 ELSE 1)
    BY DEF SmInv, OutcomesInv
  <2>2. CASE outstanding = {}
    <3>1. outstanding' = {} /\ Len(t) = 0
      BY <2>2, FS_EmptySet
    <3>2. \A i \in 1..Len(t) : t[i].send # id
      BY <3>1
    <3>3. ToldOf(id)' = ToldOf(id)
      BY <1>1, <3>2, ToldMore
    <3> QED
      BY <2>1, <2>2, <3>1, <3>3
  <2>3. CASE outstanding = {sends} /\ callback_data.send = sends
    <3>1. outstanding' = {} /\ Len(t) = 1
      BY <2>3, FS_Singleton
    <3>2. CASE id = sends
      <4>1. t[1].send = id
        BY <2>3, <3>1, <3>2
      <4>2. Cardinality(ToldOf(id)') = Cardinality(ToldOf(id)) + 1
        BY <1>1, <3>1, <4>1, ToldMore
      <4> QED
        BY <2>1, <2>3, <3>1, <3>2, <4>2
    <3>3. CASE id # sends
      <4>1. \A i \in 1..Len(t) : t[i].send # id
        BY <2>3, <3>3
      <4>2. ToldOf(id)' = ToldOf(id)
        BY <1>1, <4>1, ToldMore
      <4> QED
        BY <2>1, <2>3, <3>1, <3>3, <4>2
    <3> QED
      BY <3>2, <3>3
  <2>4. CASE sends \in crossed /\ outstanding \subseteq crossed
    <3>1. id # 0 /\ id # sends /\ id \notin outstanding /\ id \notin outstanding'
      BY <1>1, <2>4
    <3>2. \A i \in 1..Len(t) : t[i].send # id
      BY <1>0, <3>1
    <3>3. ToldOf(id)' = ToldOf(id)
      BY <1>1, <3>2, ToldMore
    <3> QED
      BY <2>1, <3>1, <3>3
  <2> QED
    BY <2>2, <2>3, <2>4 DEF SmInv, InFlightInv
<1>6. OutcomesInv'
  BY <1>4, <1>5 DEF OutcomesInv
<1> QED
  BY <1>2, <1>3, <1>6

\* Feedback is read as a whole.
LEMMA FeedbackInv ==
  ASSUME SmInv, IoTHubMessaging_LL_FeedbackMessageReceived
  PROVE  FeedbackWhole' /\ feedback' \in Seq(TellsOfFeedback)
<1>1. PICK n \in 0..2 : \E batch \in [1..n -> Records], k \in 0..n, read \in BOOLEAN :
        \E kept \in [1..k -> 1..n] : InOrder(kept) /\ feedback' = Append(feedback, FeedbackRead(batch, kept, read))
  BY DEF IoTHubMessaging_LL_FeedbackMessageReceived
<1>2. PICK batch \in [1..n -> Records], k \in 0..n, read \in BOOLEAN :
        \E kept \in [1..k -> 1..n] : InOrder(kept) /\ feedback' = Append(feedback, FeedbackRead(batch, kept, read))
  BY <1>1
<1>0. PICK kept \in [1..k -> 1..n] : InOrder(kept) /\ feedback' = Append(feedback, FeedbackRead(batch, kept, read))
  BY <1>2
<1> DEFINE statuses == [i \in DOMAIN kept |-> StatusOf(batch[kept[i]])]
           T == Records \cup {"unknown"}
           whole == TellsBatch(batch) /\ read
           what == IF whole /\ callback_data.feedback THEN statuses ELSE <<>>
           how == IF whole THEN "accepted" ELSE "rejected"
           less == whole /\ DOMAIN kept # DOMAIN batch
           f == FeedbackRead(batch, kept, read)
<1>20. f = [batch |-> batch, lost |-> less, settled |-> how, told |-> what]
  BY DEF FeedbackRead
<1>3. n \in Nat /\ batch \in Seq(Records) /\ Len(batch) = n /\ DOMAIN batch = 1..n
  <2>1. n \in Nat
    OBVIOUS
  <2> QED
    BY <2>1, FunctionIsSequence
<1>4. statuses \in Seq(T) /\ Len(statuses) = k /\ DOMAIN kept = 1..k /\ k \in Nat
  <2>1. k \in Nat /\ DOMAIN kept = 1..k /\ \A i \in 1..k : kept[i] \in 1..n
    BY <1>3
  <2>2. statuses \in [1..k -> T]
    BY <1>3, <2>1 DEF StatusOf
  <2> HIDE DEF statuses, T
  <2> QED
    BY <2>1, <2>2, FunctionIsSequence
<1>5. what \in Seq(T) /\ (what # <<>> => whole /\ what = statuses)
  <2> HIDE DEF statuses, T
  <2> QED
    BY <1>4
<1>6. how \in {"accepted", "rejected"} /\ (whole => how = "accepted") /\ (~whole => how = "rejected")
  OBVIOUS
<1>7. feedback' = Append(feedback, f)
  BY <1>0
<1>21. less \in BOOLEAN /\ (whole => less \/ k = n)
  <2>1. whole /\ ~less => 1..k = 1..n
    BY <1>3, <1>4
  <2>2. 1..k = 1..n => k = n
    BY <1>3, <1>4
  <2> QED
    BY <2>1, <2>2
<1>22. TellsBatch(batch) \/ ~whole
  OBVIOUS
<1> HIDE DEF what, how, statuses, less, whole, f
<1>8. f \in TellsOfFeedback
  BY <1>3, <1>5, <1>6, <1>20, <1>21 DEF TellsOfFeedback
<1>9. f.batch = batch /\ f.told = what /\ f.settled = how /\ f.lost = less
  BY <1>20
<1>10. f.told # <<>> => f.settled = "accepted" /\ (f.lost \/ Len(f.told) = Len(f.batch))
  BY <1>3, <1>4, <1>5, <1>6, <1>9, <1>21
<1>11. \A x \in DOMAIN f.batch : f.batch[x] = "malformed" => f.settled = "rejected"
  BY <1>6, <1>9, <1>22 DEF TellsBatch
<1>12. feedback \in Seq(TellsOfFeedback)
  BY DEF SmInv, SmTypeOK
<1>13. /\ feedback' \in Seq(TellsOfFeedback) /\ Len(feedback') = Len(feedback) + 1 /\ Len(feedback) \in Nat
       /\ DOMAIN feedback = 1..Len(feedback) /\ DOMAIN feedback' = 1..Len(feedback')
       /\ \A i \in 1..Len(feedback) : feedback'[i] = feedback[i]
       /\ feedback'[Len(feedback) + 1] = f
  BY <1>7, <1>8, <1>12, AppendProperties, LenProperties
<1>14. ASSUME NEW i \in DOMAIN feedback'
       PROVE  /\ feedback'[i].told # <<>> =>
                    /\ feedback'[i].settled = "accepted"
                    /\ feedback'[i].lost \/ Len(feedback'[i].told) = Len(feedback'[i].batch)
              /\ \A x \in DOMAIN feedback'[i].batch : feedback'[i].batch[x] = "malformed" => feedback'[i].settled = "rejected"
  <2>1. CASE i \in 1..Len(feedback)
    <3>1. i \in DOMAIN feedback /\ feedback'[i] = feedback[i]
      BY <1>13, <2>1
    <3>2. /\ feedback[i].told # <<>> =>
                /\ feedback[i].settled = "accepted"
                /\ feedback[i].lost \/ Len(feedback[i].told) = Len(feedback[i].batch)
          /\ \A x \in DOMAIN feedback[i].batch : feedback[i].batch[x] = "malformed" => feedback[i].settled = "rejected"
      BY <3>1 DEF SmInv, FeedbackWhole
    <3> QED
      BY <3>1, <3>2, Zenon
  <2>2. CASE i \notin 1..Len(feedback)
    <3>1. i = Len(feedback) + 1
      BY <1>13, <2>2
    <3>2. feedback'[i] = f
      BY <1>13, <3>1
    <3> QED
      BY <1>10, <1>11, <3>2, Zenon
  <2> QED
    BY <2>1, <2>2
<1>15. FeedbackWhole'
  BY <1>14, Zenon DEF FeedbackWhole
<1> QED
  BY <1>13, <1>15

\* What the sender and the receiver tell the client leaves its messages alone, or ends one of them.
LEMMA DoWorkInv ==
  ASSUME SmInv, IoTHubMessaging_LL_DoWork
  PROVE  SmInv'
<1>1. workerThread = "running" /\ stage' = stage /\ sends' = sends /\ workerThread' = workerThread /\ asked' = asked
  BY DEF IoTHubMessaging_LL_DoWork, Works, smApp
<1>0. ASSUME UNCHANGED <<linkOf, isOpened>> PROVE LinksInv'
  BY <1>0, <1>1 DEF SmInv, LinksInv
<1>7. ASSUME NEW e \in LinkEnds, NEW state, LinkStateChanged(e, state) PROVE LinksInv'
  BY <1>1, <1>7 DEF LinkStateChanged, SmInv, LinksInv
<1>8. LinksInv'
  <2>1. IoTHubMessaging_LL_SenderStateChanged \/ IoTHubMessaging_LL_ReceiverStateChanged => LinksInv'
    BY <1>7 DEF IoTHubMessaging_LL_SenderStateChanged, IoTHubMessaging_LL_ReceiverStateChanged, LinkEnds
  <2>2. SendCompletes \/ IoTHubMessaging_LL_FeedbackMessageReceived => UNCHANGED <<linkOf, isOpened>>
    BY DEF SendCompletes, IoTHubMessaging_LL_FeedbackMessageReceived
  <2> QED
    BY <1>0, <2>1, <2>2 DEF IoTHubMessaging_LL_DoWork
<1>2. SmWorkerInv' /\ LinksInv'
  BY <1>1, <1>8 DEF SmInv, SmWorkerInv
<1>3. CASE IoTHubMessaging_LL_SenderStateChanged \/ IoTHubMessaging_LL_ReceiverStateChanged
  <2>1. callback_data' = callback_data /\ outstanding' = outstanding /\ crossed' = crossed /\ outcomes' = outcomes
        /\ feedback' = feedback
    BY <1>3 DEF IoTHubMessaging_LL_SenderStateChanged, IoTHubMessaging_LL_ReceiverStateChanged, LinkStateChanged
  <2>2. InFlightInv' /\ OutcomesInv'
    <3>1. outstanding # {} => stage' \in {"opened", "closing"} /\ callback_data'.send = callback_data.send
      BY <1>1, <2>1 DEF SmInv, InFlightInv
    <3> QED
      BY <1>1, <2>1, <3>1, SmSteady
  <2>3. SmTypeOK'
    BY <1>1, <2>1 DEF SmInv, SmTypeOK
  <2>4. FeedbackWhole'
    BY <2>1 DEF SmInv, FeedbackWhole
  <2> QED
    BY <1>2, <2>2, <2>3, <2>4 DEF SmInv
<1>4. CASE SendCompletes
  <2>1. PICK id \in outstanding : \E sent \in SendOutcomes :
          outstanding' = outstanding \ {id} /\ outcomes' = IoTHubMessaging_LL_SendMessageComplete(id, sent)
    BY <1>4 DEF SendCompletes
  <2>2. PICK sent \in SendOutcomes :
          outstanding' = outstanding \ {id} /\ outcomes' = IoTHubMessaging_LL_SendMessageComplete(id, sent)
    BY <2>1
  <2>3. callback_data' = callback_data /\ crossed' = crossed /\ feedback' = feedback
    BY <1>4 DEF SendCompletes
  <2> DEFINE o == [send |-> callback_data.send, of |-> id, sent |-> sent, result |-> ResultOf(sent)]
             t == <<o>>
  <2>4. callback_data.send \in Nat /\ sends \in Nat /\ id \in Nat /\ outcomes \in Seq(TellsOfSend)
    BY <2>1 DEF SmInv, SmTypeOK
  <2>5. o \in TellsOfSend /\ o.send = callback_data.send /\ ((o.result = "OK") = (o.sent = "OK"))
    BY <2>4 DEF TellsOfSend, ResultOf
  <2>6. outcomes' = Append(outcomes, o)
    BY <2>2 DEF IoTHubMessaging_LL_SendMessageComplete
  <2> HIDE DEF o
  <2>7. t \in Seq(TellsOfSend) /\ Len(t) = 1 /\ t[1] = o
    BY <2>5
  <2>8. outcomes' = outcomes \o t
    BY <2>4, <2>5, <2>6, AppendIsConcat
  <2>9. \A i \in 1..Len(t) : t[i].send = callback_data.send /\ ((t[i].result = "OK") = (t[i].sent = "OK"))
    <3>1. \A i \in 1..Len(t) : t[i] = o
      BY <2>7
    <3> QED
      BY <2>5, <3>1, Zenon
  <2> HIDE DEF t
  <2>10. InFlightInv' /\ OutcomesInv' /\ outcomes' \in Seq(TellsOfSend)
    <3>1. \E x \in outstanding : outstanding' = outstanding \ {x} /\ Len(t) = 1
      BY <2>2, <2>7
    <3> QED
      BY <1>1, <2>3, <2>7, <2>8, <2>9, <3>1, EndsInv
  <2>11. SmTypeOK'
    <3>1. outstanding' \in SUBSET (1..sends')
      BY <1>1, <2>2 DEF SmInv, SmTypeOK
    <3> QED
      BY <1>1, <2>3, <2>10, <3>1 DEF SmInv, SmTypeOK
  <2>12. FeedbackWhole'
    BY <2>3 DEF SmInv, FeedbackWhole
  <2> QED
    BY <1>2, <2>10, <2>11, <2>12 DEF SmInv
<1>5. CASE IoTHubMessaging_LL_FeedbackMessageReceived
  <2>1. callback_data' = callback_data /\ outstanding' = outstanding /\ crossed' = crossed /\ outcomes' = outcomes
    BY <1>5 DEF IoTHubMessaging_LL_FeedbackMessageReceived
  <2>2. InFlightInv' /\ OutcomesInv'
    <3>1. outstanding # {} => stage' \in {"opened", "closing"} /\ callback_data'.send = callback_data.send
      BY <1>1, <2>1 DEF SmInv, InFlightInv
    <3> QED
      BY <1>1, <2>1, <3>1, SmSteady
  <2>3. FeedbackWhole' /\ feedback' \in Seq(TellsOfFeedback)
    BY <1>5, FeedbackInv
  <2>4. SmTypeOK'
    BY <1>1, <2>1, <2>3 DEF SmInv, SmTypeOK
  <2> QED
    BY <1>2, <2>2, <2>3, <2>4 DEF SmInv
<1> QED
  BY <1>3, <1>4, <1>5 DEF IoTHubMessaging_LL_DoWork

\* The application's calls but Send, and the end of its client.
LEMMA MessagingAppInv ==
  ASSUME SmInv,
         \/ IoTHubMessaging_LL_Create \/ IoTHubMessaging_LL_SetFeedbackMessageCallback \/ WorksOnDestroyed
         \/ IoTHubMessaging_Close \/ IoTHubMessaging_Destroy
  PROVE  SmInv'
<1>1. sends' = sends /\ outstanding' = outstanding /\ crossed' = crossed /\ outcomes' = outcomes /\ feedback' = feedback
         /\ linkOf' = linkOf /\ isOpened' = isOpened /\ workerThread' = workerThread /\ asked' = asked
  BY DEF IoTHubMessaging_LL_Create, IoTHubMessaging_LL_SetFeedbackMessageCallback, WorksOnDestroyed, Works,
         IoTHubMessaging_Close, IoTHubMessaging_Destroy, smApp
<1>2. callback_data \in [send : Nat, open : BOOLEAN, feedback : BOOLEAN]
  BY DEF SmInv, SmTypeOK
<1>3. NoCallbacks \in [send : Nat, open : BOOLEAN, feedback : BOOLEAN]
  BY DEF NoCallbacks
<1>4. /\ outstanding # {} => stage' \in {"opened", "closing"} /\ callback_data'.send = callback_data.send
      /\ stage' \in {"none", "made", "opened", "closing", "gone", "undefined"}
      /\ callback_data' \in [send : Nat, open : BOOLEAN, feedback : BOOLEAN]
      /\ stage' \in {"opened", "closing"} \/ (stage' \notin {"opened", "closing"} /\ stage \notin {"opened", "closing"})
  <2>1. CASE IoTHubMessaging_LL_Create
    BY <1>3, <2>1 DEF IoTHubMessaging_LL_Create, SmInv, InFlightInv
  <2>2. CASE IoTHubMessaging_LL_SetFeedbackMessageCallback
    <3>1. /\ callback_data' = [callback_data EXCEPT !.feedback = TRUE] /\ stage' = stage /\ stage \in {"made", "opened"}
      BY <2>2 DEF IoTHubMessaging_LL_SetFeedbackMessageCallback
    <3>2. callback_data' \in [send : Nat, open : BOOLEAN, feedback : BOOLEAN] /\ callback_data'.send = callback_data.send
      BY <1>2, <3>1
    <3> QED
      BY <3>1, <3>2 DEF SmInv, SmTypeOK, InFlightInv
  <2>3. CASE WorksOnDestroyed
    <3>1. stage = "made" /\ stage' = "undefined" /\ callback_data' = callback_data
      BY <2>3 DEF WorksOnDestroyed
    <3> QED
      BY <1>2, <3>1 DEF SmInv, InFlightInv
  <2>4. CASE IoTHubMessaging_Close
    <3>1. stage' = "closing" /\ callback_data' = callback_data
      BY <2>4 DEF IoTHubMessaging_Close
    <3> QED
      BY <1>2, <3>1
  <2>5. CASE IoTHubMessaging_Destroy
    <3>1. stage = "made" /\ stage' = "gone" /\ callback_data' = NoCallbacks
      BY <2>5 DEF IoTHubMessaging_Destroy
    <3> QED
      BY <1>3, <3>1 DEF SmInv, InFlightInv
  <2> QED
    BY <2>1, <2>2, <2>3, <2>4, <2>5
<1>5. InFlightInv' /\ OutcomesInv'
  BY <1>1, <1>4, SmSteady
<1>6. SmTypeOK'
  BY <1>1, <1>4 DEF SmInv, SmTypeOK
<1>7. FeedbackWhole' /\ SmWorkerInv'
  BY <1>1 DEF SmInv, FeedbackWhole, SmWorkerInv
<1>8. LinksInv'
  BY <1>1, <1>4 DEF SmInv, LinksInv
<1> QED
  BY <1>5, <1>6, <1>7, <1>8 DEF SmInv

\* A message that is refused leaves those in flight crossed if it was the sender that refused it.
LEMMA RefusedInv ==
  ASSUME SmInv, SendRefused
  PROVE  SmInv'
<1>1. /\ stage' = stage /\ isOpened' = isOpened /\ linkOf' = linkOf /\ outcomes' = outcomes /\ feedback' = feedback
      /\ outstanding' = outstanding /\ sends' = sends /\ asked'
  BY DEF SendRefused, IoTHubMessaging_SendAsync
<1>2. \/ callback_data' = callback_data /\ crossed' = crossed
      \/ callback_data' = [callback_data EXCEPT !.send = 0] /\ crossed' = crossed \cup outstanding
  BY DEF SendRefused
<1>3. callback_data \in [send : Nat, open : BOOLEAN, feedback : BOOLEAN]
  BY DEF SmInv, SmTypeOK
<1>4. /\ callback_data' \in [send : Nat, open : BOOLEAN, feedback : BOOLEAN] /\ crossed \subseteq crossed'
      /\ callback_data'.send = callback_data.send \/ callback_data'.send = 0
      /\ crossed' = crossed => callback_data'.send = callback_data.send \/ outstanding \subseteq crossed
      /\ crossed' # crossed => outstanding \subseteq crossed'
  BY <1>2, <1>3
<1>5. SmTypeOK' /\ FeedbackWhole' /\ SmWorkerInv' /\ LinksInv'
  BY <1>1, <1>4 DEF SmInv, SmTypeOK, FeedbackWhole, SmWorkerInv, LinksInv
<1>6. InFlightInv'
  BY <1>1, <1>4 DEF SmInv, InFlightInv
<1>7. \A id : ToldOf(id)' = ToldOf(id)
  BY <1>1 DEF ToldOf
<1>8. (1..sends') \ crossed' \subseteq (1..sends) \ crossed
  BY <1>1, <1>4
<1>9. OutcomesInv'
  BY <1>1, <1>7, <1>8 DEF SmInv, OutcomesInv
<1> QED
  BY <1>5, <1>6, <1>9 DEF SmInv

\* A client that is opened anew drops what the old sender held.
LEMMA OpenInv ==
  ASSUME SmInv, IoTHubMessaging_LL_Open
  PROVE  SmInv'
<1>1. /\ stage \in {"made", "opened"} /\ stage' = "opened" /\ sends' = sends /\ outcomes' = outcomes /\ feedback' = feedback
      /\ callback_data' = [callback_data EXCEPT !.open = TRUE] /\ crossed' = crossed \cup outstanding /\ outstanding' = {}
  BY DEF IoTHubMessaging_LL_Open
<1>2. SmTypeOK'
  <2>1. callback_data' \in [send : Nat, open : BOOLEAN, feedback : BOOLEAN]
    BY <1>1 DEF SmInv, SmTypeOK
  <2> QED
    BY <1>1, <2>1 DEF SmInv, SmTypeOK
<1>3. InFlightInv'
  BY <1>1 DEF InFlightInv
<1>4. \A id : ToldOf(id)' = ToldOf(id)
  BY <1>1 DEF ToldOf
<1>5. OutcomesInv'
  <2>1. ASSUME NEW id \in (1..sends') \ crossed'
        PROVE  Cardinality(ToldOf(id)') = (IF id \in outstanding' THEN 0 ELSE 1)
    <3>1. id \in (1..sends) \ crossed /\ id \notin outstanding
      BY <1>1
    <3>2. Cardinality(ToldOf(id)) = 1
      BY <3>1 DEF SmInv, OutcomesInv
    <3> QED
      BY <1>1, <1>4, <3>2
  <2>2. \A i \in DOMAIN outcomes' : outcomes'[i].send <= sends'
    BY <1>1 DEF SmInv, OutcomesInv
  <2>3. \A i \in DOMAIN outcomes' : (outcomes'[i].result = "OK") = (outcomes'[i].sent = "OK")
    BY <1>1 DEF SmInv, OutcomesInv
  <2> QED
    BY <2>1, <2>2, <2>3 DEF OutcomesInv
<1>6. FeedbackWhole' /\ SmWorkerInv' /\ LinksInv'
  <2>1. workerThread' = workerThread /\ asked' = asked
    BY DEF IoTHubMessaging_LL_Open
  <2> QED
    BY <1>1, <2>1 DEF SmInv, FeedbackWhole, SmWorkerInv, LinksInv
<1> QED
  BY <1>2, <1>3, <1>5, <1>6 DEF SmInv

\* Close waits for the worker, and cancels what is still in flight.
LEMMA MessagingCloseInv ==
  ASSUME SmInv, IoTHubMessaging_LL_Close
  PROVE  SmInv'
<1>1. /\ stage' = "made" /\ Joins /\ outstanding' = {} /\ callback_data' = callback_data /\ crossed' = crossed
      /\ sends' = sends /\ feedback' = feedback
  BY DEF IoTHubMessaging_LL_Close
<1>2. PICK order \in [1..Cardinality(outstanding) -> outstanding] :
        InOrder(order) /\ outcomes' = outcomes \o CancelledIn(order)
  BY DEF IoTHubMessaging_LL_Close
<1>3. sends \in Nat /\ outstanding \subseteq 1..sends /\ callback_data.send \in Nat
  BY DEF SmInv, SmTypeOK
<1>4. IsFiniteSet(outstanding) /\ Cardinality(outstanding) \in Nat
  <2>1. IsFiniteSet(1..sends)
    BY <1>3, FS_Interval
  <2> QED
    BY <1>3, <2>1, FS_Subset, FS_CardinalityType
<1> DEFINE n == Cardinality(outstanding)
           t == CancelledIn(order)
           c == [i \in 1..n |-> [send |-> callback_data.send, of |-> order[i], sent |-> "CANCELLED", result |-> "ERROR"]]
<1>5. t = c
  <2>1. DOMAIN order = 1..n
    BY <1>2
  <2>2. ResultOf("CANCELLED") = "ERROR"
    BY DEF ResultOf
  <2> HIDE DEF n
  <2> QED
    BY <2>1, <2>2, Zenon DEF CancelledIn
<1>6. c \in [1..n -> TellsOfSend] /\ \A i \in 1..n : c[i].send = callback_data.send /\ c[i].result = "ERROR" /\ c[i].sent = "CANCELLED"
  <2>1. order \in [1..n -> outstanding]
    OBVIOUS
  <2> HIDE DEF n, t, c
  <2>2. \A i \in 1..n : order[i] \in Nat
    <3>1. outstanding \subseteq Nat
      BY <1>3
    <3>2. \A i \in 1..n : order[i] \in outstanding
      BY <2>1, Zenon
    <3> QED
      BY <3>1, <3>2, Zenon
  <2> USE DEF c
  <2> QED
    BY <1>3, <2>2 DEF TellsOfSend, SendOutcomes
<1> HIDE DEF c, n, t
<1>7. n \in Nat
  BY <1>4 DEF n
<1>8. t \in Seq(TellsOfSend) /\ Len(t) = n
  BY <1>5, <1>6, <1>7, FunctionIsSequence
<1>9. ASSUME NEW i \in 1..Len(t) PROVE t[i].send = callback_data.send /\ ((t[i].result = "OK") = (t[i].sent = "OK"))
  <2>1. i \in 1..n /\ t[i] = c[i]
    BY <1>5, <1>8
  <2> QED
    BY <1>6, <2>1
<1>10. outcomes' = outcomes \o t /\ Len(t) = Cardinality(outstanding)
  BY <1>2, <1>8 DEF t, n
<1>11. InFlightInv' /\ OutcomesInv' /\ outcomes' \in Seq(TellsOfSend)
  BY <1>1, <1>8, <1>9, <1>10, EndsInv
<1>12. SmTypeOK'
  BY <1>1, <1>11 DEF SmInv, SmTypeOK
<1>13. FeedbackWhole'
  BY <1>1 DEF SmInv, FeedbackWhole
<1>14. SmWorkerInv' /\ LinksInv'
  <2>1. isOpened' = FALSE /\ linkOf' = [e \in LinkEnds |-> "idle"]
    BY DEF IoTHubMessaging_LL_Close
  <2> QED
    BY <1>1, <2>1 DEF Joins, SmWorkerInv, LinksInv
<1> QED
  BY <1>11, <1>12, <1>13, <1>14 DEF SmInv

\* The client keeps its invariant.
LEMMA MessagingInvariant == MessagingSpec => []SmInv
<1>1. MessagingInit => SmInv
  <2> SUFFICES ASSUME MessagingInit PROVE SmInv
    OBVIOUS
  <2>1. stage = "none" /\ sends = 0 /\ callback_data = NoCallbacks /\ outstanding = {} /\ workerThread = "NULL"
    BY DEF MessagingInit
  <2>2. outcomes = <<>> /\ feedback = <<>>
    BY DEF MessagingInit
  <2>3. outcomes \in Seq(TellsOfSend) /\ feedback \in Seq(TellsOfFeedback) /\ DOMAIN outcomes = {} /\ DOMAIN feedback = {}
    BY <2>2
  <2>4. SmTypeOK
    <3>1. callback_data \in [send : Nat, open : BOOLEAN, feedback : BOOLEAN]
      BY <2>1 DEF NoCallbacks
    <3> QED
      BY <2>1, <2>3, <3>1 DEF SmTypeOK
  <2>5. InFlightInv /\ SmWorkerInv /\ LinksInv
    BY <2>1 DEF InFlightInv, SmWorkerInv, LinksInv, MessagingInit
  <2>6. 1..sends = {}
    BY <2>1
  <2>7. OutcomesInv
    BY <2>3, <2>6 DEF OutcomesInv
  <2>8. FeedbackWhole
    BY <2>3 DEF FeedbackWhole
  <2> QED
    BY <2>4, <2>5, <2>7, <2>8 DEF SmInv
<1>2. SmInv /\ [MessagingNext]_smVars => SmInv'
  <2> SUFFICES ASSUME SmInv, [MessagingNext]_smVars PROVE SmInv'
    OBVIOUS
  <2>1. CASE IoTHubMessaging_LL_Send
    <3>1. stage' = stage /\ outcomes' = outcomes /\ feedback' = feedback /\ linkOf' = linkOf /\ isOpened' = isOpened /\ asked'
      BY <2>1 DEF IoTHubMessaging_LL_Send, IoTHubMessaging_SendAsync
    <3>2. SmTypeOK' /\ InFlightInv' /\ OutcomesInv'
      BY <2>1, <3>1, SendInv DEF SmInv, SmTypeOK
    <3>3. FeedbackWhole' /\ SmWorkerInv' /\ LinksInv'
      BY <3>1 DEF SmInv, FeedbackWhole, SmWorkerInv, LinksInv
    <3> QED
      BY <3>2, <3>3 DEF SmInv
  <2>2. CASE UNCHANGED smVars
    <3>1. stage' = stage /\ callback_data' = callback_data /\ outstanding' = outstanding /\ crossed' = crossed
          /\ sends' = sends /\ outcomes' = outcomes /\ feedback' = feedback /\ workerThread' = workerThread
          /\ asked' = asked /\ linkOf' = linkOf /\ isOpened' = isOpened
      BY <2>2 DEF smVars
    <3>2. outstanding # {} => stage' \in {"opened", "closing"} /\ callback_data'.send = callback_data.send
      BY <3>1 DEF SmInv, InFlightInv
    <3>3. InFlightInv' /\ OutcomesInv'
      BY <3>1, <3>2, SmSteady
    <3>4. SmTypeOK' /\ FeedbackWhole' /\ SmWorkerInv' /\ LinksInv'
      BY <3>1 DEF SmInv, SmTypeOK, FeedbackWhole, SmWorkerInv, LinksInv
    <3> QED
      BY <3>3, <3>4 DEF SmInv
  <2> QED
    BY <2>1, <2>2, MessagingAppInv, RefusedInv, OpenInv, DoWorkInv, MessagingCloseInv DEF MessagingNext
<1> QED
  BY <1>1, <1>2, PTL DEF MessagingSpec

\* The messages of a service, iothub_messaging_ll.c: a message that was alone in flight is told of once and truly,
\* feedback is told as a whole or rejected, unless memory ran out for a record, and a client that was closed after
\* its last call of SendAsync is destroyed without a worker, however sends, outcomes, losses of
\* the links, Open, Close and Destroy follow each other.
THEOREM MessagingIsSound == MessagingSpec => []MessagingSound
<1>1. SmInv => MessagingSound
  <2> SUFFICES ASSUME SmInv PROVE MessagingSound
    OBVIOUS
  <2>1. SendsTold
    BY DEF SmInv, OutcomesInv, InFlightInv, SendsTold
  <2>2. FeedbackWhole /\ WorkerEnds
    BY DEF SmInv, SmWorkerInv, WorkerEnds
  <2> QED
    BY <2>1, <2>2 DEF MessagingSound
<1> QED
  BY <1>1, MessagingInvariant, PTL

-----------------------------------------------------------------------------
(* The clients of the registry, the configurations, the twins and the methods *)

Identity ==
  [exists : {TRUE}, auth : Auths, status : {"enabled", "disabled"}, key : {"none", "k", "other"},
   edge : BOOLEAN, managedBy : {"none", "hub"}]

\* What is written for an identity, and what is read of it: no key without a use, capabilities only of a device,
\* a manager only of a module.
IdentityOf(id) ==
  {x \in Identity : /\ x.auth = "certificateAuthority" => x.key = "none"
                    /\ id = "module" => ~x.edge
                    /\ id = "device" => x.managedBy = "none"}

Configuration ==
  [exists : {TRUE}, priority : 0..3, created : 0..2, updated : 0..2, content : {"c", "other"}, targetCondition : {"t"}]

Structures == {"device", "deviceEx", "module"}

CallRecord ==
  UNION {[op : {"none", "read", "remove", "readAll", "apply", "readTwin", "patch", "invoke"}],
         [op : {"get", "list"}, id : Identities, structure : Structures],
         [op : {"delete", "statistics"}, id : Identities],
         [op : {"create"}, id : Identities, structure : Structures, body : Identity],
         [op : {"update"}, id : Identities, structure : Structures, fresh : BOOLEAN, body : Identity],
         [op : {"add"}, body : Configuration],
         [op : {"replace"}, fresh : BOOLEAN, body : Configuration]}

HeldRecord ==
  UNION {[op : {"none"}], [op : {"read"}, info : Configuration, fresh : BOOLEAN],
         [op : {"get"}, id : Identities, structure : Structures, info : Identity, fresh : BOOLEAN]}

\* The record r is an answer, or one that cannot be read.
IsAnswer(r) ==
  "sent" \in DOMAIN r /\ r = [status |-> r.status, before |-> r.before, after |-> r.after, sent |-> r.sent, fresh |-> r.fresh]
IsGarbled(r) ==
  "garbled" \in DOMAIN r /\ r = [status |-> r.status, before |-> r.before, after |-> r.after, garbled |-> TRUE]

RequestTypeOK ==
  /\ registry = [id \in Identities |-> registry[id]]
  /\ \A id \in Identities : registry[id] = Absent \/ registry[id] \in IdentityOf(id)
  /\ configurations = Absent \/ configurations \in Configuration
  /\ twin \in Nat /\ invoked \in Nat
  /\ call \in CallRecord /\ held \in HeldRecord
  /\ call.op \in {"create", "update"} => call.body \in IdentityOf(call.id)
  /\ call.op \in {"get", "list"} => call.structure \in StructureOf(call.id) \cup {call.id}
  /\ call.op = "replace" => call.body.content = "other"
  /\ held.op = "get" => held.structure \in StructureOf(held.id) /\ held.info \in IdentityOf(held.id)
  /\ answer = NoAnswer \/ answer = Lost \/ (IsAnswer(answer) /\ answer.fresh \in BOOLEAN) \/ IsGarbled(answer)

\* What the update of an identity is, of what was read while nobody else wrote.
Rewritten(x, structure) == [x EXCEPT !.status = Other(@), !.edge = structure # "device" /\ @]

\* What the hub did for a call c that it answered with a.
Did(c, a) ==
  /\ c.op = "create" => (a.status = 200 /\ a.after.exists) \/ (a.status = 409 /\ a.before.exists)
  /\ c.op = "update" => \/ a.status = 404
                        \/ /\ a.status = 200 /\ a.after.exists
                           /\ c.fresh => a.after = Rewritten(a.before, c.structure)
  /\ c.op \in {"delete", "remove"} => a.status = 404 \/ (a.status = 204 /\ a.before.exists /\ ~a.after.exists)
  /\ c.op = "get" => a.status = 200 \/ (a.status = 404 /\ ~a.before.exists)
  /\ c.op = "add" => (a.status = 200 /\ a.after.exists) \/ a.status = 409
  /\ c.op = "replace" => \/ a.status = 404
                         \/ /\ a.status = 200 /\ a.after.exists /\ a.after.content = "other"
                            /\ a.after.targetCondition = a.before.targetCondition
  /\ c.op = "read" => (a.status = 200 /\ a.before.exists) \/ a.status = 404
  /\ c.op \in {"list", "readAll", "statistics", "readTwin"} => a.status = 200
  /\ c.op \in {"patch", "apply"} => a.status \in {200, 204} /\ a.after = a.before + 1
  /\ c.op = "invoke" => a.status \in {404, 504} \/ (a.status = 200 /\ a.after = a.before + 1)

\* What it sent.
Carries(c, a) ==
  /\ c.op = "get" /\ a.status = 200 => a.sent = a.before /\ (a.sent.exists => a.sent \in IdentityOf(c.id))
  /\ c.op = "read" /\ a.status = 200 => a.sent \in Configuration
  /\ c.op \in {"list", "readAll"} => a.sent = Stored(a.before) /\ a.before.exists \in BOOLEAN

AnsweredInv ==
  call # NoCall /\ answer # NoAnswer /\ answer # Lost =>
    Did(call, answer) /\ (IsAnswer(answer) => Carries(call, answer))

\* What was read is what the hub has while it counts as fresh: in the application's hands, ...
HeldFresh ==
  held.op = "get" /\ held.fresh /\ (call = NoCall \/ answer = NoAnswer \/ ~WritesBody) =>
    registry[held.id].exists /\ held.info = InStructure(held.structure, registry[held.id])

\* ... on its way to the application, ...
SentFresh ==
  call.op = "get" /\ IsAnswer(answer) /\ answer.fresh /\ answer.status = 200 /\ answer.sent.exists =>
    registry[call.id].exists /\ answer.sent = registry[call.id]

\* ... and on its way to the hub.
UpdateFresh ==
  call.op = "update" /\ call.fresh /\ answer = NoAnswer =>
    registry[call.id].exists /\ call.body = Rewritten(registry[call.id], call.structure)

RequestInv == RequestTypeOK /\ AnsweredInv /\ HeldFresh /\ SentFresh /\ UpdateFresh /\ ResultsTrue

\* constructDeviceOrModuleJson writes what an identity may be: of any information an application gives in a
\* structure, and of what it read with its status changed.
LEMMA WrittenIdentity ==
  ASSUME NEW id \in Identities, NEW structure \in StructureOf(id), NEW x \in Identity
  PROVE  constructDeviceOrModuleJson(id, InStructure(structure, x)) \in IdentityOf(id)
<1>1. id \in {"device", "module"} /\ structure \in Structures /\ (id = "device" => structure # "module")
  BY DEF Identities, StructureOf, Structures
<1> DEFINE y == InStructure(structure, x)
<1>2. y.auth = x.auth /\ y.status = x.status /\ y.key = x.key /\ y.edge \in BOOLEAN /\ y.managedBy \in {"none", "hub"}
      /\ (id = "device" => y.managedBy = "none")
  BY <1>1 DEF InStructure, Identity
<1> HIDE DEF y
<1> DEFINE z == constructDeviceOrModuleJson(id, y)
<1>3. z = [exists |-> TRUE, auth |-> y.auth, status |-> y.status,
           key |-> IF y.auth = "certificateAuthority" THEN "none" ELSE y.key,
           edge |-> id = "device" /\ y.edge, managedBy |-> y.managedBy]
  BY DEF constructDeviceOrModuleJson
<1>4. z \in Identity
  BY <1>2, <1>3 DEF Identity
<1>5. z.auth = "certificateAuthority" => z.key = "none"
  BY <1>3
<1>6. id = "module" => ~z.edge
  <2>1. z.edge = (id = "device" /\ y.edge)
    BY DEF constructDeviceOrModuleJson
  <2> QED
    BY <2>1
<1>7. id = "device" => z.managedBy = "none"
  BY <1>2, <1>3
<1> HIDE DEF z
<1>8. z \in IdentityOf(id)
  BY <1>4, <1>5, <1>6, <1>7 DEF IdentityOf
<1> QED
  BY <1>8 DEF y, z

\* Identities with the same fields are the same.
LEMMA SameIdentity ==
  ASSUME NEW x \in Identity, NEW y \in Identity, x.auth = y.auth, x.status = y.status, x.key = y.key,
         x.edge = y.edge, x.managedBy = y.managedBy
  PROVE  x = y
<1>1. x = [exists |-> TRUE, auth |-> x.auth, status |-> x.status, key |-> x.key, edge |-> x.edge, managedBy |-> x.managedBy]
  BY DEF Identity
<1>2. y = [exists |-> TRUE, auth |-> y.auth, status |-> y.status, key |-> y.key, edge |-> y.edge, managedBy |-> y.managedBy]
  BY DEF Identity
<1> QED
  BY <1>1, <1>2

\* What is read of an identity in a structure of its kind is one; written back with another status, it is the
\* identity with the other status and the capabilities its structure has.
LEMMA ReadIdentity ==
  ASSUME NEW id \in Identities, NEW structure \in StructureOf(id), NEW x \in IdentityOf(id)
  PROVE  /\ InStructure(structure, x) \in IdentityOf(id)
         /\ constructDeviceOrModuleJson(id, [InStructure(structure, x) EXCEPT !.status = Other(@)])
              = Rewritten(x, structure)
<1>1. structure \in Structures /\ (id = "device" <=> structure # "module") /\ (id = "module" <=> id # "device")
  BY DEF Identities, StructureOf, Structures
<1>2. x \in Identity /\ (x.auth = "certificateAuthority" => x.key = "none") /\ (id = "module" => ~x.edge)
      /\ (id = "device" => x.managedBy = "none")
  BY DEF IdentityOf
<1> DEFINE y == InStructure(structure, x)
<1>3. y \in Identity
  BY <1>2 DEF InStructure, Identity
<1>4. y.auth = x.auth /\ y.status = x.status /\ y.key = x.key
  BY <1>2 DEF InStructure, Identity
<1>5. y.edge = (structure = "deviceEx" /\ x.edge)
  BY <1>2 DEF InStructure, Identity
<1>6. y.managedBy = x.managedBy
  BY <1>1, <1>2 DEF InStructure, Identity
<1> HIDE DEF y
<1>7. id = "module" => ~y.edge
  BY <1>2, <1>5
<1>8. y \in IdentityOf(id)
  BY <1>2, <1>3, <1>4, <1>6, <1>7 DEF IdentityOf
<1> DEFINE w == [y EXCEPT !.status = Other(@)]
<1>9. w \in Identity /\ w.auth = x.auth /\ w.status = Other(x.status) /\ w.key = x.key /\ w.edge = y.edge
      /\ w.managedBy = x.managedBy
  BY <1>3, <1>4, <1>6 DEF Identity, Other
<1> HIDE DEF w
<1> DEFINE z == constructDeviceOrModuleJson(id, w)
<1>10. z \in Identity
  BY <1>9 DEF constructDeviceOrModuleJson, Identity
<1>11. z.auth = x.auth /\ z.status = Other(x.status) /\ z.key = x.key /\ z.managedBy = x.managedBy
  BY <1>2, <1>9 DEF constructDeviceOrModuleJson
<1>12. z.edge = (id = "device" /\ w.edge)
  BY DEF constructDeviceOrModuleJson
<1> HIDE DEF z
<1> DEFINE r == Rewritten(x, structure)
<1>13. r \in Identity
  BY <1>2 DEF Rewritten, Identity, Other
<1>14. r.auth = x.auth /\ r.status = Other(x.status) /\ r.key = x.key /\ r.managedBy = x.managedBy
  BY <1>2 DEF Rewritten, Identity
<1>15. r.edge = (structure # "device" /\ x.edge)
  BY <1>2 DEF Rewritten, Identity
<1> HIDE DEF r
<1>16. x.edge \in BOOLEAN
  BY <1>2 DEF Identity
<1>17. z.edge = r.edge
  <2>1. CASE structure = "device"
    BY <2>1, <1>5, <1>9, <1>12, <1>15
  <2>2. CASE structure = "deviceEx"
    BY <2>2, <1>1, <1>5, <1>9, <1>12, <1>15, <1>16
  <2>3. CASE structure = "module"
    BY <2>3, <1>1, <1>2, <1>5, <1>9, <1>12, <1>15, <1>16
  <2> QED
    BY <1>1, <2>1, <2>2, <2>3 DEF Structures
<1>18. z = r
  BY <1>10, <1>11, <1>13, <1>14, <1>17, SameIdentity
<1> QED
  BY <1>8, <1>18 DEF y, z, r, w

\* An update of what was read is an identity again.
LEMMA ChangedIdentity ==
  ASSUME NEW id \in Identities, NEW x \in IdentityOf(id)
  PROVE  constructDeviceOrModuleJson(id, [x EXCEPT !.status = Other(@)]) \in IdentityOf(id)
<1>1. id \in {"device", "module"}
  BY DEF Identities
<1>2. x \in Identity /\ (id = "device" => x.managedBy = "none")
  BY DEF IdentityOf
<1> DEFINE y == [x EXCEPT !.status = Other(@)]
<1>3. y.auth = x.auth /\ y.status \in {"enabled", "disabled"} /\ y.key = x.key /\ y.edge = x.edge /\ y.managedBy = x.managedBy
  BY <1>2 DEF Identity, Other
<1> HIDE DEF y
<1>4. constructDeviceOrModuleJson(id, y) \in Identity
  BY <1>2, <1>3 DEF constructDeviceOrModuleJson, Identity
<1>5. constructDeviceOrModuleJson(id, y) \in IdentityOf(id)
  BY <1>1, <1>2, <1>3, <1>4 DEF constructDeviceOrModuleJson, IdentityOf
<1> QED
  BY <1>5 DEF y

\* The configurations that are written and read are ones.
LEMMA ConfigurationsStay ==
  ASSUME NEW c \in Configuration
  PROVE  /\ createConfigurationPayloadJson([c EXCEPT !.content = "other"]) \in Configuration
         /\ createConfigurationPayloadJson([c EXCEPT !.content = "other"]).content = "other"
         /\ parseDeviceConfigurationJsonObject(c) \in Configuration
         /\ [c EXCEPT !.created = 1] \in Configuration /\ [c EXCEPT !.updated = 2] \in Configuration
         /\ [c EXCEPT !.updated = 2].content = c.content
         /\ [c EXCEPT !.priority = 3] \in Configuration
<1>1. c = [exists |-> TRUE, priority |-> c.priority, created |-> c.created, updated |-> c.updated, content |-> c.content,
           targetCondition |-> c.targetCondition]
      /\ c.priority \in 0..3 /\ c.created \in 0..2 /\ c.updated \in 0..2 /\ c.content \in {"c", "other"}
      /\ c.targetCondition \in {"t"}
  BY DEF Configuration
<1> DEFINE d == [c EXCEPT !.content = "other"]
<1>2. d \in Configuration /\ d.content = "other"
  BY <1>1 DEF Configuration
<1>3. createConfigurationPayloadJson(d) = [d EXCEPT !.created = IF d.updated # 0 THEN d.updated ELSE d.created]
  BY DEF createConfigurationPayloadJson
<1>4. createConfigurationPayloadJson(d) \in Configuration /\ createConfigurationPayloadJson(d).content = "other"
  BY <1>2, <1>3, ZenonT(40) DEF Configuration
<1> HIDE DEF d
<1>5. [c EXCEPT !.priority = 0] \in Configuration /\ [c EXCEPT !.priority = 3] \in Configuration
  BY 0 \in 0..3, 3 \in 0..3 DEF Configuration
<1>7. [c EXCEPT !.created = 1] \in Configuration
  BY 1 \in 0..2 DEF Configuration
<1>8. [c EXCEPT !.updated = 2] \in Configuration /\ [c EXCEPT !.updated = 2].content = c.content
  BY 2 \in 0..2 DEF Configuration
<1> QED
  BY <1>4, <1>5, <1>7, <1>8 DEF parseDeviceConfigurationJsonObject, d

\* What the forms of calls and answers tell apart.
LEMMA CallForms ==
  ASSUME call \in CallRecord
  PROVE  /\ call = NoCall <=> call.op = "none"
         /\ "fresh" \in DOMAIN call <=> call.op \in {"update", "replace"}
         /\ call.op \in {"get", "list", "delete", "statistics", "create", "update"} => call.id \in Identities
         /\ call.op \in {"get", "list", "create", "update"} => call.structure \in Structures
         /\ call.op \in {"create", "update"} => call.body \in Identity
         /\ call.op \in {"update", "replace"} => call.fresh \in BOOLEAN
         /\ call.op \in {"add", "replace"} => call.body \in Configuration
BY DEF CallRecord, NoCall

\* An answer is there in one of four forms.
LEMMA AnswerForms ==
  /\ ~IsAnswer(NoAnswer) /\ ~IsGarbled(NoAnswer) /\ ~IsAnswer(Lost) /\ ~IsGarbled(Lost) /\ NoAnswer # Lost
  /\ IsAnswer(answer) => answer # NoAnswer /\ answer # Lost /\ "garbled" \notin DOMAIN answer
  /\ IsGarbled(answer) => answer # NoAnswer /\ answer # Lost /\ ~IsAnswer(answer)
<1>1. /\ DOMAIN NoAnswer = {"status"} /\ DOMAIN Lost = {"status"} /\ NoAnswer.status = 0 /\ Lost.status = -1
  BY DEF NoAnswer, Lost
<1>2. NoAnswer # Lost
  BY <1>1
<1>3. IsAnswer(answer) => DOMAIN answer = {"status", "before", "after", "sent", "fresh"}
  BY DEF IsAnswer
<1>4. IsGarbled(answer) => DOMAIN answer = {"status", "before", "after", "garbled"}
  BY DEF IsGarbled
<1> QED
  BY <1>1, <1>2, <1>3, <1>4 DEF IsAnswer, IsGarbled

\* A call that begins keeps the invariant when it is of the forms a call has.
LEMMA BeginsInv ==
  ASSUME RequestInv, NEW c \in CallRecord, Starts(c), c.op # "none",
         c.op \in {"create", "update"} => c.body \in IdentityOf(c.id),
         c.op \in {"get", "list"} => c.structure \in StructureOf(c.id) \cup {c.id},
         c.op = "replace" => c.body.content = "other",
         c.op = "update" /\ c.fresh => registry[c.id].exists /\ c.body = Rewritten(registry[c.id], c.structure)
  PROVE  RequestInv'
<1>1. call = NoCall /\ call' = c /\ answer' = NoAnswer /\ told' = NoCall /\ held' = held
      /\ registry' = registry /\ configurations' = configurations /\ twin' = twin /\ invoked' = invoked
  BY DEF Starts, hubVars
<1>2. RequestTypeOK'
  BY <1>1 DEF RequestInv, RequestTypeOK
<1>3. AnsweredInv'
  BY <1>1 DEF AnsweredInv
<1>4. HeldFresh'
  BY <1>1 DEF RequestInv, HeldFresh
<1>5. SentFresh'
  BY <1>1, AnswerForms DEF SentFresh
<1>6. UpdateFresh'
  BY <1>1 DEF UpdateFresh
<1>7. ResultsTrue'
  BY <1>1 DEF ResultsTrue
<1> QED
  BY <1>2, <1>3, <1>4, <1>5, <1>6, <1>7 DEF RequestInv

\* The calls of the registry.
LEMMA RegistryCallsInv ==
  ASSUME RequestInv,
         \/ IoTHubRegistryManager_CreateDeviceOrModule \/ IoTHubRegistryManager_GetDeviceOrModule
         \/ IoTHubRegistryManager_UpdateDeviceOrModule \/ IoTHubRegistryManager_DeleteDevice
         \/ IoTHubRegistryManager_GetModuleOrDeviceList \/ IoTHubRegistryManager_GetStatistics
  PROVE  RequestInv'
<1>1. CASE IoTHubRegistryManager_CreateDeviceOrModule
  <2>1. PICK id \in Identities, auth \in Auths, edge \in BOOLEAN, managedBy \in {"none", "hub"} :
          \E structure \in StructureOf(id) :
            Starts([op |-> "create", id |-> id, structure |-> structure,
              body |-> constructDeviceOrModuleJson(id, InStructure(structure,
                [exists |-> TRUE, auth |-> auth, key |-> "k", status |-> "enabled", edge |-> edge, managedBy |-> managedBy]))])
    BY <1>1 DEF IoTHubRegistryManager_CreateDeviceOrModule
  <2> DEFINE x == [exists |-> TRUE, auth |-> auth, key |-> "k", status |-> "enabled", edge |-> edge, managedBy |-> managedBy]
  <2>2. PICK structure \in StructureOf(id) :
          Starts([op |-> "create", id |-> id, structure |-> structure,
            body |-> constructDeviceOrModuleJson(id, InStructure(structure, x))])
    BY <2>1
  <2>3. x \in Identity
    BY DEF Identity
  <2> HIDE DEF x
  <2> DEFINE y == constructDeviceOrModuleJson(id, InStructure(structure, x))
  <2>4. y \in IdentityOf(id) /\ y \in Identity
    BY <2>3, WrittenIdentity DEF IdentityOf
  <2>5. Starts([op |-> "create", id |-> id, structure |-> structure, body |-> y])
    BY <2>2
  <2> HIDE DEF y
  <2> DEFINE c == [op |-> "create", id |-> id, structure |-> structure, body |-> y]
  <2>6. structure \in Structures
    BY DEF StructureOf, Structures
  <2>7. c \in CallRecord /\ c.op = "create" /\ c.body = y /\ c.id = id
    BY <2>4, <2>6 DEF CallRecord
  <2> HIDE DEF c
  <2> QED
    BY <2>4, <2>5, <2>7, BeginsInv DEF c
<1>2. CASE IoTHubRegistryManager_GetDeviceOrModule
  <2>1. PICK id \in Identities : \E structure \in StructureOf(id) : Starts([op |-> "get", id |-> id, structure |-> structure])
    BY <1>2 DEF IoTHubRegistryManager_GetDeviceOrModule
  <2>2. PICK structure \in StructureOf(id) : Starts([op |-> "get", id |-> id, structure |-> structure])
    BY <2>1
  <2> DEFINE c == [op |-> "get", id |-> id, structure |-> structure]
  <2>3. structure \in Structures
    BY DEF StructureOf, Structures
  <2>4. c \in CallRecord /\ c.op = "get" /\ c.id = id /\ c.structure = structure
    BY <2>3 DEF CallRecord
  <2>5. Starts(c)
    BY <2>2
  <2> HIDE DEF c
  <2> QED
    BY <2>4, <2>5, BeginsInv
<1>3. CASE IoTHubRegistryManager_UpdateDeviceOrModule
  <2> DEFINE y == constructDeviceOrModuleJson(held.id, [held.info EXCEPT !.status = Other(@)])
             c == [op |-> "update", id |-> held.id, structure |-> held.structure, fresh |-> held.fresh, body |-> y]
  <2>1. held.op = "get" /\ Starts(c)
    BY <1>3 DEF IoTHubRegistryManager_UpdateDeviceOrModule
  <2>2. held.id \in Identities /\ held.structure \in Structures /\ held.fresh \in BOOLEAN
    BY <2>1 DEF RequestInv, RequestTypeOK, HeldRecord
  <2>3. held.structure \in StructureOf(held.id) /\ held.info \in IdentityOf(held.id)
    BY <2>1 DEF RequestInv, RequestTypeOK
  <2>4. y \in IdentityOf(held.id) /\ y \in Identity
    BY <2>2, <2>3, ChangedIdentity DEF IdentityOf
  <2>5. call = NoCall
    BY <2>1 DEF Starts
  <2>6. held.fresh => registry[held.id].exists /\ y = Rewritten(registry[held.id], held.structure)
    <3> SUFFICES ASSUME held.fresh PROVE registry[held.id].exists /\ y = Rewritten(registry[held.id], held.structure)
      OBVIOUS
    <3>1. registry[held.id].exists /\ held.info = InStructure(held.structure, registry[held.id])
      BY <2>1, <2>5 DEF RequestInv, HeldFresh
    <3>2. registry[held.id] \in IdentityOf(held.id)
      BY <2>2, <3>1 DEF RequestInv, RequestTypeOK, Absent
    <3> QED
      BY <2>2, <2>3, <3>1, <3>2, ReadIdentity
  <2> HIDE DEF y
  <2>7. c \in CallRecord /\ c.op = "update" /\ c.id = held.id /\ c.structure = held.structure /\ c.fresh = held.fresh /\ c.body = y
    BY <2>2, <2>4 DEF CallRecord
  <2> HIDE DEF c
  <2> QED
    BY <2>1, <2>4, <2>6, <2>7, BeginsInv
<1>4. CASE IoTHubRegistryManager_DeleteDevice
  <2>1. PICK id \in Identities : Starts([op |-> "delete", id |-> id])
    BY <1>4 DEF IoTHubRegistryManager_DeleteDevice
  <2>2. [op |-> "delete", id |-> id] \in CallRecord
    BY DEF CallRecord
  <2> QED
    BY <2>1, <2>2, BeginsInv
<1>5. CASE IoTHubRegistryManager_GetModuleOrDeviceList
  <2>1. PICK id \in Identities : Starts([op |-> "list", id |-> id, structure |-> id])
    BY <1>5 DEF IoTHubRegistryManager_GetModuleOrDeviceList
  <2>2. [op |-> "list", id |-> id, structure |-> id] \in CallRecord
    BY DEF CallRecord, Identities, Structures
  <2> QED
    BY <2>1, <2>2, BeginsInv
<1>6. CASE IoTHubRegistryManager_GetStatistics
  <2>1. Starts([op |-> "statistics", id |-> "device"])
    BY <1>6 DEF IoTHubRegistryManager_GetStatistics
  <2>2. [op |-> "statistics", id |-> "device"] \in CallRecord
    BY DEF CallRecord, Identities
  <2> QED
    BY <2>1, <2>2, BeginsInv
<1> QED
  BY <1>1, <1>2, <1>3, <1>4, <1>5, <1>6

\* The calls of the configurations, the twins and the methods.
LEMMA OtherCallsInv ==
  ASSUME RequestInv,
         \/ IoTHubDeviceConfiguration_AddConfiguration \/ IoTHubDeviceConfiguration_GetConfiguration
         \/ IoTHubDeviceConfiguration_UpdateConfiguration \/ IoTHubDeviceConfiguration_DeleteConfiguration
         \/ IoTHubDeviceConfiguration_GetConfigurations
         \/ IoTHubDeviceConfiguration_ApplyConfigurationContentToDeviceOrModule
         \/ IoTHubDeviceTwin_GetDeviceOrModuleTwin \/ IoTHubDeviceTwin_UpdateDeviceOrModuleTwin
         \/ IoTHubDeviceMethod_DeviceOrModuleInvoke
  PROVE  RequestInv'
<1>1. CASE IoTHubDeviceConfiguration_AddConfiguration
  <2>1. PICK priority \in {1, 2} :
          Starts([op |-> "add", body |-> createConfigurationPayloadJson(
            [exists |-> TRUE, priority |-> priority, created |-> 0, updated |-> 0, content |-> "c", targetCondition |-> "t"])])
    BY <1>1 DEF IoTHubDeviceConfiguration_AddConfiguration
  <2> DEFINE x == [exists |-> TRUE, priority |-> priority, created |-> 0, updated |-> 0, content |-> "c", targetCondition |-> "t"]
             y == createConfigurationPayloadJson(x)
  <2>2. x \in Configuration /\ x.updated = 0
    BY 0 \in 0..2, priority \in 0..3 DEF Configuration
  <2>5. y \in Configuration
    <3> HIDE DEF x
    <3> QED
      BY <2>2, 0 \in 0..2 DEF createConfigurationPayloadJson, Configuration
  <2>3. Starts([op |-> "add", body |-> y])
    BY <2>1
  <2> HIDE DEF y
  <2>4. [op |-> "add", body |-> y] \in CallRecord
    BY <2>5 DEF CallRecord
  <2> QED
    BY <2>3, <2>4, BeginsInv
<1>2. CASE IoTHubDeviceConfiguration_UpdateConfiguration
  <2> DEFINE y == createConfigurationPayloadJson([held.info EXCEPT !.content = "other"])
  <2>1. held.op = "read" /\ Starts([op |-> "replace", fresh |-> held.fresh, body |-> y])
    BY <1>2 DEF IoTHubDeviceConfiguration_UpdateConfiguration
  <2>2. held.info \in Configuration /\ held.fresh \in BOOLEAN
    BY <2>1 DEF RequestInv, RequestTypeOK, HeldRecord
  <2>3. y \in Configuration /\ y.content = "other"
    BY <2>2, ConfigurationsStay
  <2> HIDE DEF y
  <2>4. [op |-> "replace", fresh |-> held.fresh, body |-> y] \in CallRecord
    BY <2>2, <2>3 DEF CallRecord
  <2> QED
    BY <2>1, <2>3, <2>4, BeginsInv
<1>3. ASSUME NEW op \in {"read", "remove", "readAll", "apply", "readTwin", "patch", "invoke"}, Starts([op |-> op])
      PROVE  RequestInv'
  <2>1. [op |-> op] \in CallRecord
    BY DEF CallRecord
  <2> QED
    BY <1>3, <2>1, BeginsInv
<1> QED
  BY <1>1, <1>2, <1>3 DEF IoTHubDeviceConfiguration_GetConfiguration, IoTHubDeviceConfiguration_DeleteConfiguration,
     IoTHubDeviceConfiguration_GetConfigurations, IoTHubDeviceConfiguration_ApplyConfigurationContentToDeviceOrModule,
     IoTHubDeviceTwin_GetDeviceOrModuleTwin, IoTHubDeviceTwin_UpdateDeviceOrModuleTwin, IoTHubDeviceMethod_DeviceOrModuleInvoke

\* What the hub acts on is an identity, or nothing.
LEMMA HubsIdentity ==
  ASSUME RequestInv, NEW id \in Identities
  PROVE  /\ registry[id].exists \in BOOLEAN
         /\ registry[id].exists => registry[id] \in IdentityOf(id)
         /\ registry[id] = Absent <=> ~registry[id].exists
<1>1. registry[id] = Absent \/ registry[id] \in IdentityOf(id)
  BY DEF RequestInv, RequestTypeOK
<1>2. Absent.exists = FALSE
  BY DEF Absent
<1>3. ASSUME NEW x \in IdentityOf(id) PROVE x.exists = TRUE
  BY DEF IdentityOf, Identity
<1> QED
  BY <1>1, <1>2, <1>3

\* The hub answers, so that what it did and sent is as the call asks, and what was read stays.
LEMMA ActsInv ==
  ASSUME RequestInv, call # NoCall, answer = NoAnswer,
         NEW status, NEW before, NEW after, NEW sent, answer' = Sees(status, before, after, sent),
         call' = call, held' = held, told' = told,
         Did(call, answer'), Carries(call, answer'),
         call.op = "get" /\ status = 200 => sent = registry[call.id],
         registry' = [id \in Identities |-> registry'[id]],
         \A id \in Identities : registry'[id] = Absent \/ registry'[id] \in IdentityOf(id),
         ~WritesBody => registry' = registry,
         configurations' = Absent \/ configurations' \in Configuration, twin' \in Nat, invoked' \in Nat
  PROVE  RequestInv'
<1>1. IsAnswer(answer') /\ answer'.fresh = TRUE /\ answer'.status = status /\ answer'.sent = sent
  BY DEF Sees, IsAnswer
<1>2. RequestTypeOK'
  BY <1>1 DEF RequestInv, RequestTypeOK
<1>3. AnsweredInv'
  BY DEF AnsweredInv
<1>4. answer' # NoAnswer
  BY <1>1, AnswerForms DEF IsAnswer, NoAnswer
<1>5. WritesBody' = WritesBody
  BY DEF WritesBody
<1>6. HeldFresh'
  BY <1>4, <1>5 DEF RequestInv, HeldFresh
<1>7. SentFresh'
  <2>1. call.op = "get" => ~WritesBody
    BY DEF WritesBody
  <2> QED
    BY <1>1, <2>1 DEF SentFresh
<1>8. UpdateFresh'
  BY <1>4 DEF UpdateFresh
<1>9. ResultsTrue'
  BY DEF RequestInv, ResultsTrue
<1> QED
  BY <1>2, <1>3, <1>6, <1>7, <1>8, <1>9 DEF RequestInv

\* The hub acts on an identity.
LEMMA IdentityActs ==
  ASSUME RequestInv, call # NoCall, answer = NoAnswer, ActsOnIdentity, call' = call, held' = held, told' = told
  PROVE  RequestInv'
<1> DEFINE old == registry[call.id]
<1>1. call.op \in {"create", "get", "update", "delete", "list", "statistics"}
      /\ configurations' = configurations /\ twin' = twin /\ invoked' = invoked
  BY DEF ActsOnIdentity
<1>2. call \in CallRecord
  BY DEF RequestInv, RequestTypeOK
<1>3. call.id \in Identities
  BY <1>1, <1>2, CallForms
<1>4. /\ old.exists \in BOOLEAN /\ (old.exists => old \in IdentityOf(call.id)) /\ (old = Absent <=> ~old.exists)
  BY <1>3, HubsIdentity
<1>5. /\ registry = [id \in Identities |-> registry[id]]
      /\ \A id \in Identities : registry[id] = Absent \/ registry[id] \in IdentityOf(id)
      /\ (configurations = Absent \/ configurations \in Configuration) /\ twin \in Nat /\ invoked \in Nat
  BY DEF RequestInv, RequestTypeOK
<1>6. ASSUME NEW status, UNCHANGED registry, answer' = Sees(status, old, old, old), call.op # "list",
             Did(call, answer')
      PROVE  RequestInv'
  <2>1. answer'.status = status /\ answer'.sent = old /\ answer'.before = old
    BY <1>6 DEF Sees
  <2>2. Carries(call, answer')
    BY <1>1, <1>4, <1>6, <2>1 DEF Carries
  <2> QED
    BY <1>1, <1>5, <1>6, <2>2, ActsInv
<1>7. ASSUME NEW x, registry' = [registry EXCEPT ![call.id] = x],
             answer' = Sees(IF x.exists THEN 200 ELSE 204, old, x, x), call.op \in {"create", "update", "delete"},
             Did(call, answer'), x = Absent \/ x \in IdentityOf(call.id)
      PROVE  RequestInv'
  <2>1. Carries(call, answer')
    BY <1>7 DEF Carries
  <2>2. registry' = [id \in Identities |-> IF id = call.id THEN x ELSE registry[id]]
    BY <1>5, <1>7
  <2>3. registry' = [id \in Identities |-> registry'[id]]
        /\ \A id \in Identities : registry'[id] = Absent \/ registry'[id] \in IdentityOf(id)
    BY <1>5, <1>7, <2>2
  <2>4. WritesBody
    BY <1>7 DEF WritesBody
  <2> QED
    BY <1>1, <1>5, <1>7, <2>1, <2>3, <2>4, ActsInv
<1>8. CASE call.op = "create"
  <2>1. call.body \in IdentityOf(call.id) /\ call.body.exists = TRUE
    BY <1>8 DEF RequestInv, RequestTypeOK, IdentityOf, Identity
  <2>2. CASE old.exists
    <3>1. UNCHANGED registry /\ answer' = Sees(409, old, old, old)
      BY <1>8, <2>2 DEF ActsOnIdentity
    <3>2. answer'.status = 409 /\ answer'.before = old
      BY <3>1 DEF Sees
    <3>3. Did(call, answer')
      BY <1>8, <2>2, <3>2 DEF Did
    <3> QED
      BY <1>6, <1>8, <3>1, <3>3
  <2>3. CASE ~old.exists
    <3>1. registry' = [registry EXCEPT ![call.id] = call.body]
          /\ answer' = Sees(IF call.body.exists THEN 200 ELSE 204, old, call.body, call.body)
      BY <1>8, <2>3 DEF ActsOnIdentity
    <3>2. answer'.status = 200 /\ answer'.after = call.body
      BY <2>1, <3>1 DEF Sees
    <3>3. Did(call, answer')
      BY <1>8, <2>1, <3>2 DEF Did
    <3> QED
      BY <1>7, <1>8, <2>1, <3>1, <3>3
  <2> QED
    BY <2>2, <2>3
<1>9. CASE call.op = "update"
  <2>1. call.body \in IdentityOf(call.id) /\ call.body.exists = TRUE
    BY <1>9 DEF RequestInv, RequestTypeOK, IdentityOf, Identity
  <2>2. CASE old.exists
    <3>1. registry' = [registry EXCEPT ![call.id] = call.body]
          /\ answer' = Sees(IF call.body.exists THEN 200 ELSE 204, old, call.body, call.body)
      BY <1>9, <2>2 DEF ActsOnIdentity
    <3>2. answer'.status = 200 /\ answer'.after = call.body /\ answer'.before = old
      BY <2>1, <3>1 DEF Sees
    <3>3. call.fresh => call.body = Rewritten(old, call.structure)
      BY <1>9 DEF RequestInv, UpdateFresh
    <3>4. Did(call, answer')
      BY <1>9, <2>1, <3>2, <3>3 DEF Did
    <3> QED
      BY <1>7, <1>9, <2>1, <3>1, <3>4
  <2>3. CASE ~old.exists
    <3>1. UNCHANGED registry /\ answer' = Sees(404, old, old, old)
      BY <1>9, <2>3 DEF ActsOnIdentity
    <3>2. answer'.status = 404
      BY <3>1 DEF Sees
    <3>3. Did(call, answer')
      BY <1>9, <3>2 DEF Did
    <3> QED
      BY <1>6, <1>9, <3>1, <3>3
  <2> QED
    BY <2>2, <2>3
<1>10. CASE call.op = "delete"
  <2>1. CASE old.exists
    <3>1. registry' = [registry EXCEPT ![call.id] = Absent]
          /\ answer' = Sees(IF Absent.exists THEN 200 ELSE 204, old, Absent, Absent)
      BY <1>10, <2>1 DEF ActsOnIdentity
    <3>2. answer'.status = 204 /\ answer'.before = old /\ ~answer'.after.exists
      BY <3>1 DEF Sees, Absent
    <3>3. Did(call, answer')
      BY <1>10, <2>1, <3>2 DEF Did
    <3> QED
      BY <1>7, <1>10, <3>1, <3>3
  <2>2. CASE ~old.exists
    <3>1. UNCHANGED registry /\ answer' = Sees(404, old, old, old)
      BY <1>10, <2>2 DEF ActsOnIdentity
    <3>2. answer'.status = 404
      BY <3>1 DEF Sees
    <3>3. Did(call, answer')
      BY <1>10, <3>2 DEF Did
    <3> QED
      BY <1>6, <1>10, <3>1, <3>3
  <2> QED
    BY <2>1, <2>2
<1>11. CASE call.op = "statistics"
  <2>1. UNCHANGED registry /\ answer' = Sees(200, old, old, old)
    BY <1>11 DEF ActsOnIdentity
  <2>2. answer'.status = 200
    BY <2>1 DEF Sees
  <2>3. Did(call, answer')
    BY <1>11, <2>2 DEF Did
  <2> QED
    BY <1>6, <1>11, <2>1, <2>3
<1>12. CASE call.op = "get"
  <2>1. PICK status \in {200, 404} :
          (old.exists => status = 200) /\ UNCHANGED registry /\ answer' = Sees(status, old, old, old)
    BY <1>12 DEF ActsOnIdentity
  <2>2. answer'.status = status /\ answer'.before = old
    BY <2>1 DEF Sees
  <2>3. Did(call, answer')
    BY <1>12, <2>1, <2>2 DEF Did
  <2> QED
    BY <1>6, <1>12, <2>1, <2>3
<1>13. CASE call.op = "list"
  <2>1. UNCHANGED registry /\ answer' = Sees(200, old, old, Stored(old))
    BY <1>13 DEF ActsOnIdentity
  <2>2. answer'.status = 200 /\ answer'.before = old /\ answer'.sent = Stored(old)
    BY <2>1 DEF Sees
  <2>3. Did(call, answer')
    BY <1>13, <2>2 DEF Did
  <2>4. Carries(call, answer')
    BY <1>13, <1>4, <2>2 DEF Carries
  <2> QED
    BY <1>1, <1>5, <1>13, <2>1, <2>3, <2>4, ActsInv
<1> QED
  BY <1>1, <1>8, <1>9, <1>10, <1>11, <1>12, <1>13

\* The hub acts on its configuration.
LEMMA ConfigurationActs ==
  ASSUME RequestInv, call # NoCall, answer = NoAnswer, ActsOnConfiguration, call' = call, held' = held, told' = told
  PROVE  RequestInv'
<1> DEFINE old == configurations
<1>1. call.op \in {"add", "read", "readAll", "replace", "remove"} /\ registry' = registry /\ twin' = twin /\ invoked' = invoked
  BY DEF ActsOnConfiguration
<1>2. /\ registry = [id \in Identities |-> registry[id]]
      /\ \A id \in Identities : registry[id] = Absent \/ registry[id] \in IdentityOf(id)
      /\ (old = Absent \/ old \in Configuration) /\ twin \in Nat /\ invoked \in Nat /\ call \in CallRecord
  BY DEF RequestInv, RequestTypeOK
<1>3. old.exists \in BOOLEAN /\ (old.exists => old \in Configuration)
  <2>1. CASE old = Absent
    <3>1. old.exists = FALSE
      BY <2>1 DEF Absent
    <3> QED
      BY <3>1
  <2>2. CASE old \in Configuration
    <3>1. old.exists = TRUE
      BY <2>2 DEF Configuration
    <3> QED
      BY <2>2, <3>1
  <2> QED
    BY <1>2, <2>1, <2>2
<1>4. call.op \in {"add", "replace"} => call.body \in Configuration
  BY <1>2, CallForms
<1>5. ASSUME NEW status, UNCHANGED configurations, answer' = Sees(status, old, old, old), call.op # "readAll",
             Did(call, answer'), call.op = "read" /\ status = 200 => old.exists
      PROVE  RequestInv'
  <2>1. answer'.status = status /\ answer'.sent = old
    BY <1>5 DEF Sees
  <2>2. Carries(call, answer')
    BY <1>1, <1>3, <1>5, <2>1 DEF Carries
  <2> QED
    BY <1>1, <1>2, <1>5, <2>2, ActsInv
<1>6. ASSUME NEW x, NEW status, configurations' = x, answer' = Sees(status, old, x, x),
             call.op \in {"add", "replace", "remove"}, Did(call, answer'), x = Absent \/ x \in Configuration
      PROVE  RequestInv'
  <2>1. Carries(call, answer')
    BY <1>6 DEF Carries
  <2> QED
    BY <1>1, <1>2, <1>6, <2>1, ActsInv
<1>7. CASE call.op = "add"
  <2>1. CASE old.exists
    <3>1. UNCHANGED configurations /\ answer' = Sees(409, old, old, old)
      BY <1>7, <2>1 DEF ActsOnConfiguration
    <3>2. Did(call, answer')
      BY <1>7, <3>1 DEF Did, Sees
    <3> QED
      BY <1>5, <1>7, <3>1, <3>2
  <2>2. CASE ~old.exists
    <3> DEFINE x == [call.body EXCEPT !.created = 1]
    <3>1. configurations' = x /\ answer' = Sees(200, old, x, x)
      BY <1>7, <2>2 DEF ActsOnConfiguration
    <3>2. x \in Configuration /\ x.exists
      BY <1>4, <1>7, ConfigurationsStay DEF Configuration
    <3> HIDE DEF x
    <3>3. Did(call, answer')
      BY <1>7, <3>1, <3>2 DEF Did, Sees
    <3> QED
      BY <1>6, <1>7, <3>1, <3>2, <3>3
  <2> QED
    BY <2>1, <2>2
<1>8. CASE call.op = "replace"
  <2>1. CASE old.exists
    <3> DEFINE x == [call.body EXCEPT !.updated = 2]
    <3>1. configurations' = x /\ answer' = Sees(200, old, x, x)
      BY <1>8, <2>1 DEF ActsOnConfiguration
    <3>2. call.body.content = "other"
      BY <1>8 DEF RequestInv, RequestTypeOK
    <3>3. x \in Configuration /\ x.exists /\ x.content = "other"
      BY <1>4, <1>8, <3>2, ConfigurationsStay DEF Configuration
    <3>4. x.targetCondition = old.targetCondition
      BY <1>3, <2>1, <3>3 DEF Configuration
    <3> HIDE DEF x
    <3>5. Did(call, answer')
      BY <1>8, <3>1, <3>3, <3>4 DEF Did, Sees
    <3> QED
      BY <1>6, <1>8, <3>1, <3>3, <3>5
  <2>2. CASE ~old.exists
    <3>1. UNCHANGED configurations /\ answer' = Sees(404, old, old, old)
      BY <1>8, <2>2 DEF ActsOnConfiguration
    <3>2. Did(call, answer')
      BY <1>8, <3>1 DEF Did, Sees
    <3> QED
      BY <1>5, <1>8, <3>1, <3>2
  <2> QED
    BY <2>1, <2>2
<1>9. CASE call.op = "remove"
  <2>1. CASE old.exists
    <3>1. configurations' = Absent /\ answer' = Sees(204, old, Absent, Absent)
      BY <1>9, <2>1 DEF ActsOnConfiguration
    <3>2. Did(call, answer')
      BY <1>9, <2>1, <3>1 DEF Did, Sees, Absent
    <3> QED
      BY <1>6, <1>9, <3>1, <3>2
  <2>2. CASE ~old.exists
    <3>1. UNCHANGED configurations /\ answer' = Sees(404, old, old, old)
      BY <1>9, <2>2 DEF ActsOnConfiguration
    <3>2. Did(call, answer')
      BY <1>9, <3>1 DEF Did, Sees
    <3> QED
      BY <1>5, <1>9, <3>1, <3>2
  <2> QED
    BY <2>1, <2>2
<1>10. CASE call.op = "read"
  <2> DEFINE status == IF old.exists THEN 200 ELSE 404
  <2>1. UNCHANGED configurations /\ answer' = Sees(status, old, old, old)
    BY <1>10 DEF ActsOnConfiguration
  <2>2. Did(call, answer')
    BY <1>10, <2>1 DEF Did, Sees
  <2>3. status = 200 => old.exists
    OBVIOUS
  <2> HIDE DEF status
  <2> QED
    BY <1>5, <1>10, <2>1, <2>2, <2>3
<1>11. CASE call.op = "readAll"
  <2>1. UNCHANGED configurations /\ answer' = Sees(200, old, old, Stored(old))
    BY <1>11 DEF ActsOnConfiguration
  <2>2. Did(call, answer')
    BY <1>11, <2>1 DEF Did, Sees
  <2>3. answer'.before = old /\ answer'.sent = Stored(old)
    BY <2>1 DEF Sees
  <2>4. Carries(call, answer')
    BY <1>3, <1>11, <2>3 DEF Carries
  <2> QED
    BY <1>1, <1>2, <1>11, <2>1, <2>2, <2>4, ActsInv
<1> QED
  BY <1>1, <1>7, <1>8, <1>9, <1>10, <1>11

\* The hub acts on a twin, or has a device run a method.
LEMMA DeviceActs ==
  ASSUME RequestInv, call # NoCall, answer = NoAnswer, ActsOnDevice, call' = call, held' = held, told' = told
  PROVE  RequestInv'
<1>1. registry' = registry /\ configurations' = configurations
  BY DEF ActsOnDevice
<1>2. /\ registry = [id \in Identities |-> registry[id]]
      /\ \A id \in Identities : registry[id] = Absent \/ registry[id] \in IdentityOf(id)
      /\ (configurations = Absent \/ configurations \in Configuration) /\ twin \in Nat /\ invoked \in Nat
  BY DEF RequestInv, RequestTypeOK
<1>3. ASSUME NEW status, NEW n, NEW m, answer' = Sees(status, n, m, m),
             call.op \in {"patch", "apply", "readTwin", "invoke"}, Did(call, answer'), twin' \in Nat, invoked' \in Nat
      PROVE  RequestInv'
  <2>1. Carries(call, answer')
    BY <1>3 DEF Carries
  <2> QED
    BY <1>1, <1>2, <1>3, <2>1, ActsInv
<1>4. CASE call.op \in {"patch", "apply"} /\ twin' = twin + 1 /\ UNCHANGED invoked
           /\ \E status \in {200, 204} : (call.op = "patch" => status = 200) /\ answer' = Sees(status, twin, twin', twin')
  <2>1. PICK status \in {200, 204} : answer' = Sees(status, twin, twin', twin')
    BY <1>4
  <2>2. Did(call, answer')
    BY <1>4, <2>1 DEF Did, Sees
  <2> QED
    BY <1>2, <1>3, <1>4, <2>1, <2>2
<1>5. CASE call.op = "readTwin" /\ UNCHANGED <<twin, invoked>> /\ answer' = Sees(200, twin, twin, twin)
  <2>1. Did(call, answer')
    BY <1>5 DEF Did, Sees
  <2> QED
    BY <1>2, <1>3, <1>5, <2>1
<1>6. CASE call.op = "invoke" /\ UNCHANGED twin /\ invoked' = invoked + 1 /\ answer' = Sees(200, invoked, invoked', invoked')
  <2>1. Did(call, answer')
    BY <1>6 DEF Did, Sees
  <2> QED
    BY <1>2, <1>3, <1>6, <2>1
<1>7. CASE call.op = "invoke" /\ UNCHANGED twin /\ UNCHANGED invoked
           /\ \E status \in {404, 504} : answer' = Sees(status, invoked, invoked, invoked)
  <2>1. PICK status \in {404, 504} : answer' = Sees(status, invoked, invoked, invoked)
    BY <1>7
  <2>2. Did(call, answer')
    BY <1>7, <2>1 DEF Did, Sees
  <2> QED
    BY <1>2, <1>3, <1>7, <2>1, <2>2
<1> QED
  BY <1>4, <1>5, <1>6, <1>7 DEF ActsOnDevice

\* What was done for a call does not change with how it is told.
LEMMA DidSame ==
  ASSUME NEW c, NEW a, NEW b, Did(c, a), b.status = a.status, b.before = a.before, b.after = a.after
  PROVE  Did(c, b)
BY DEF Did

\* An answer that is lost or cannot be read tells less.
LEMMA LosesInv ==
  ASSUME RequestInv, call # NoCall, UNCHANGED <<hubVars, call, held, told>>,
         \/ answer' = Lost
         \/ /\ answer # NoAnswer /\ answer # Lost
            /\ answer' = [status |-> answer.status, before |-> answer.before, after |-> answer.after, garbled |-> TRUE]
  PROVE  RequestInv'
<1>1. UNCHANGED <<registry, configurations, twin, invoked, call, held, told>>
  BY DEF hubVars
<1>2. answer' = Lost \/ (IsGarbled(answer') /\ answer'.status = answer.status /\ answer'.before = answer.before
                         /\ answer'.after = answer.after)
  BY DEF IsGarbled
<1>3. ~IsAnswer(answer') /\ answer' # NoAnswer
  <2>1. "sent" \notin DOMAIN answer'
    BY DEF Lost
  <2>2. answer' = Lost => answer' # NoAnswer
    BY AnswerForms
  <2>3. IsGarbled(answer') => answer' # NoAnswer
    BY AnswerForms
  <2> QED
    BY <1>2, <2>1, <2>2, <2>3 DEF IsAnswer
<1>4. RequestTypeOK'
  BY <1>1, <1>2 DEF RequestInv, RequestTypeOK
<1>5. AnsweredInv'
  <2> SUFFICES ASSUME answer' # Lost PROVE Did(call, answer')
    BY <1>1, <1>3 DEF AnsweredInv
  <2>1. answer # NoAnswer /\ answer # Lost
    OBVIOUS
  <2>2. Did(call, answer)
    BY <2>1 DEF RequestInv, AnsweredInv
  <2> QED
    BY <1>2, <2>2, DidSame
<1>6. HeldFresh'
  <2>1. WritesBody' = WritesBody
    BY <1>1 DEF WritesBody
  <2> QED
    BY <1>1, <1>3, <2>1 DEF RequestInv, HeldFresh
<1>7. SentFresh' /\ UpdateFresh'
  BY <1>3 DEF SentFresh, UpdateFresh
<1>8. ResultsTrue'
  BY <1>1 DEF RequestInv, ResultsTrue
<1> QED
  BY <1>4, <1>5, <1>6, <1>7, <1>8 DEF RequestInv

\* HubAnswers and AnswerLost.
LEMMA HubInv ==
  ASSUME RequestInv, HubAnswers \/ AnswerLost
  PROVE  RequestInv'
<1>1. CASE HubAnswers
  <2>1. call # NoCall /\ answer = NoAnswer /\ call' = call /\ held' = held /\ told' = told
    BY <1>1 DEF HubAnswers
  <2>2. CASE HubActs
    BY <2>1, <2>2, IdentityActs, ConfigurationActs, DeviceActs DEF HubActs
  <2>3. CASE answer' = Lost /\ UNCHANGED hubVars
    BY <2>1, <2>3, LosesInv
  <2> QED
    BY <1>1, <2>2, <2>3 DEF HubAnswers
<1>2. CASE AnswerLost
  BY <1>2, LosesInv DEF AnswerLost
<1> QED
  BY <1>1, <1>2

\* Another service writes: what was read, is read or is to be written is not fresh any more.
LEMMA OthersInv ==
  ASSUME RequestInv, OtherWrites
  PROVE  RequestInv'
<1>1. /\ held' = IF held = NoCall THEN held ELSE [held EXCEPT !.fresh = FALSE]
      /\ call' = IF answer = NoAnswer /\ "fresh" \in DOMAIN call THEN [call EXCEPT !.fresh = FALSE] ELSE call
      /\ answer' = IF "fresh" \in DOMAIN answer THEN [answer EXCEPT !.fresh = FALSE] ELSE answer
      /\ told' = told
  BY DEF OtherWrites
<1>2. /\ registry = [id \in Identities |-> registry[id]]
      /\ \A id \in Identities : registry[id] = Absent \/ registry[id] \in IdentityOf(id)
      /\ (configurations = Absent \/ configurations \in Configuration) /\ twin \in Nat /\ invoked \in Nat
      /\ call \in CallRecord /\ held \in HeldRecord
  BY DEF RequestInv, RequestTypeOK
<1>3. held' \in HeldRecord /\ held'.op = held.op /\ (held.op = "get" => held'.fresh = FALSE)
      /\ (held.op = "get" => held'.id = held.id /\ held'.structure = held.structure /\ held'.info = held.info)
  <2>1. CASE held = NoCall
    BY <1>1, <1>2, <2>1 DEF NoCall
  <2>2. CASE held # NoCall
    <3>1. held' = [held EXCEPT !.fresh = FALSE]
      BY <1>1, <2>2
    <3>2. CASE held \in [op : {"none"}]
      BY <2>2, <3>2 DEF NoCall
    <3>3. CASE held \in [op : {"read"}, info : Configuration, fresh : BOOLEAN]
      BY <3>1, <3>3 DEF HeldRecord
    <3>4. CASE held \in [op : {"get"}, id : Identities, structure : Structures, info : Identity, fresh : BOOLEAN]
      BY <3>1, <3>4 DEF HeldRecord
    <3> QED
      BY <1>2, <3>2, <3>3, <3>4 DEF HeldRecord
  <2> QED
    BY <2>1, <2>2
<1>4. /\ call' \in CallRecord /\ call'.op = call.op
      /\ call.op \in {"create", "update"} => call'.body = call.body /\ call'.id = call.id /\ call'.structure = call.structure
      /\ call.op \in {"get", "list"} => call'.structure = call.structure /\ call'.id = call.id
      /\ call.op = "replace" => call'.body = call.body
      /\ call.op = "update" /\ answer = NoAnswer => call'.fresh = FALSE
      /\ answer # NoAnswer => call' = call
  <2>1. CASE answer = NoAnswer /\ call.op = "update"
    <3>1. call \in [op : {"update"}, id : Identities, structure : Structures, fresh : BOOLEAN, body : Identity]
      BY <1>2, <2>1 DEF CallRecord
    <3>2. call' = [call EXCEPT !.fresh = FALSE]
      BY <1>1, <2>1, <3>1
    <3> QED
      BY <2>1, <3>1, <3>2 DEF CallRecord
  <2>2. CASE answer = NoAnswer /\ call.op = "replace"
    <3>1. call \in [op : {"replace"}, fresh : BOOLEAN, body : Configuration]
      BY <1>2, <2>2 DEF CallRecord
    <3>2. call' = [call EXCEPT !.fresh = FALSE]
      BY <1>1, <2>2, <3>1
    <3> QED
      BY <2>2, <3>1, <3>2 DEF CallRecord
  <2>3. CASE answer # NoAnswer \/ call.op \notin {"update", "replace"}
    <3>1. call' = call
      BY <1>1, <1>2, <2>3, CallForms
    <3> QED
      BY <1>2, <2>3, <3>1
  <2> QED
    BY <2>1, <2>2, <2>3
<1>5. \/ answer' = answer /\ ~IsAnswer(answer)
      \/ /\ IsAnswer(answer) /\ IsAnswer(answer') /\ answer'.fresh = FALSE
         /\ answer'.status = answer.status /\ answer'.before = answer.before /\ answer'.after = answer.after
         /\ answer'.sent = answer.sent
  <2>1. CASE IsAnswer(answer)
    <3>1. answer = [status |-> answer.status, before |-> answer.before, after |-> answer.after, sent |-> answer.sent,
                    fresh |-> answer.fresh]
      BY <2>1 DEF IsAnswer
    <3>2. DOMAIN answer = {"status", "before", "after", "sent", "fresh"}
      BY <3>1
    <3>3. answer' = [answer EXCEPT !.fresh = FALSE]
      BY <1>1, <3>2
    <3> DEFINE b == [status |-> answer.status, before |-> answer.before, after |-> answer.after, sent |-> answer.sent,
                     fresh |-> FALSE]
    <3>4. answer' = b
      BY <3>1, <3>2, <3>3
    <3> QED
      BY <2>1, <3>4 DEF IsAnswer
  <2>2. CASE answer = NoAnswer \/ answer = Lost
    BY <1>1, <2>2, AnswerForms DEF NoAnswer, Lost
  <2>3. CASE IsGarbled(answer)
    <3>1. DOMAIN answer = {"status", "before", "after", "garbled"}
      BY <2>3 DEF IsGarbled
    <3> QED
      BY <1>1, <2>3, <3>1, AnswerForms
  <2> QED
    BY <2>1, <2>2, <2>3 DEF RequestInv, RequestTypeOK
<1>6. answer' = NoAnswer <=> answer = NoAnswer
  <2>1. IsAnswer(answer') => answer' # NoAnswer
    BY AnswerForms
  <2> QED
    BY <1>5, <2>1, AnswerForms
<1>7. /\ registry' = [id \in Identities |-> registry'[id]]
      /\ \A id \in Identities : registry'[id] = Absent \/ registry'[id] \in IdentityOf(id)
      /\ (configurations' = Absent \/ configurations' \in Configuration) /\ twin' \in Nat /\ invoked' \in Nat
  <2>1. CASE /\ \E id \in Identities : registry[id].exists /\ registry' = [registry EXCEPT ![id].auth = "sas", ![id].key = "other"]
             /\ UNCHANGED <<configurations, twin, invoked>>
    <3>1. PICK id \in Identities : registry[id].exists /\ registry' = [registry EXCEPT ![id].auth = "sas", ![id].key = "other"]
      BY <2>1
    <3> DEFINE old == registry[id]
               x == [[old EXCEPT !.auth = "sas"] EXCEPT !.key = "other"]
    <3>2. old \in IdentityOf(id)
      BY <3>1, HubsIdentity
    <3>3. x \in IdentityOf(id)
      <4>1. old \in Identity /\ (id = "module" => ~old.edge) /\ (id = "device" => old.managedBy = "none")
        BY <3>2 DEF IdentityOf
      <4> HIDE DEF old
      <4>2. x \in Identity /\ x.auth = "sas" /\ x.edge = old.edge /\ x.managedBy = old.managedBy
        BY <4>1 DEF Identity, Auths
      <4> HIDE DEF x
      <4> QED
        BY <4>1, <4>2 DEF IdentityOf
    <3>4. registry' = [registry EXCEPT ![id] = x]
      BY <1>2, <3>1
    <3> HIDE DEF x
    <3>5. registry' = [i \in Identities |-> IF i = id THEN x ELSE registry[i]]
      BY <1>2, <3>4
    <3> QED
      BY <1>2, <2>1, <3>3, <3>5
  <2>2. CASE configurations.exists /\ configurations' = [configurations EXCEPT !.priority = 3] /\ UNCHANGED <<registry, twin, invoked>>
    <3>1. configurations \in Configuration
      BY <1>2, <2>2 DEF Absent
    <3> QED
      BY <1>2, <2>2, <3>1, ConfigurationsStay
  <2> QED
    BY <2>1, <2>2 DEF OtherWrites
<1>8. RequestTypeOK'
  <2>1. call'.op \in {"create", "update"} => call'.body \in IdentityOf(call'.id)
    BY <1>4 DEF RequestInv, RequestTypeOK
  <2>2. call'.op \in {"get", "list"} => call'.structure \in StructureOf(call'.id) \cup {call'.id}
    BY <1>4 DEF RequestInv, RequestTypeOK
  <2>3. call'.op = "replace" => call'.body.content = "other"
    BY <1>4 DEF RequestInv, RequestTypeOK
  <2>4. held'.op = "get" => held'.structure \in StructureOf(held'.id) /\ held'.info \in IdentityOf(held'.id)
    BY <1>3 DEF RequestInv, RequestTypeOK
  <2>5. answer' = NoAnswer \/ answer' = Lost \/ (IsAnswer(answer') /\ answer'.fresh \in BOOLEAN) \/ IsGarbled(answer')
    BY <1>5 DEF RequestInv, RequestTypeOK
  <2> QED
    BY <1>3, <1>4, <1>7, <2>1, <2>2, <2>3, <2>4, <2>5 DEF RequestTypeOK
<1>9. AnsweredInv'
  <2> SUFFICES ASSUME call' # NoCall, answer' # NoAnswer, answer' # Lost
               PROVE  Did(call', answer') /\ (IsAnswer(answer') => Carries(call', answer'))
    BY DEF AnsweredInv
  <2>1. answer # NoAnswer /\ call' = call
    BY <1>4, <1>6
  <2>2. answer # Lost
    BY <1>5, AnswerForms
  <2>3. Did(call, answer) /\ (IsAnswer(answer) => Carries(call, answer))
    BY <2>1, <2>2 DEF RequestInv, AnsweredInv
  <2>4. CASE answer' = answer
    BY <2>1, <2>3, <2>4
  <2>5. CASE IsAnswer(answer) /\ answer'.status = answer.status /\ answer'.before = answer.before
             /\ answer'.after = answer.after /\ answer'.sent = answer.sent
    <3>1. Did(call, answer')
      BY <2>3, <2>5, DidSame
    <3>2. Carries(call, answer')
      BY <2>3, <2>5 DEF Carries
    <3> QED
      BY <2>1, <3>1, <3>2
  <2> QED
    BY <1>5, <2>4, <2>5
<1>10. HeldFresh'
  BY <1>3 DEF HeldFresh
<1>11. SentFresh'
  BY <1>5 DEF SentFresh
<1>12. UpdateFresh'
  BY <1>4, <1>6 DEF UpdateFresh
<1>13. ResultsTrue'
  BY <1>1 DEF RequestInv, ResultsTrue
<1> QED
  BY <1>8, <1>9, <1>10, <1>11, <1>12, <1>13 DEF RequestInv

\* Which results the statuses that the hub sends give.
LEMMA StatusTold ==
  ASSUME NEW op, NEW status \in {200, 204, 404, 409, 504},
         op \in {"create", "get", "update", "delete", "list", "statistics", "add", "read", "readAll", "replace", "remove",
                 "apply", "patch", "readTwin", "invoke"}
  PROVE  /\ StatusResult(op, status) = "OK" => status \in {200, 204}
         /\ StatusResult(op, status) = "OK" /\ op = "invoke" => status = 200
         /\ StatusResult(op, status) = "DEVICE_EXIST" => op = "create" /\ status = 409
         /\ StatusResult(op, status) = "DEVICE_NOT_EXIST" => op = "get" /\ status = 404
<1>1. CASE op \in {"create", "get", "update", "delete", "list", "statistics"}
  <2>1. StatusResult(op, status) = sendHttpRequestCRUD(op, status)
    BY <1>1 DEF StatusResult
  <2> QED
    BY <1>1, <2>1 DEF sendHttpRequestCRUD
<1>2. CASE op \in {"add", "read", "readAll", "replace", "remove", "apply"}
  <2>1. StatusResult(op, status) = sendHttpRequestDeviceConfiguration(op, status)
    BY <1>2 DEF StatusResult
  <2> QED
    BY <1>2, <2>1 DEF sendHttpRequestDeviceConfiguration
<1>3. CASE op \in {"patch", "readTwin", "invoke"}
  BY <1>3 DEF StatusResult, sendHttpRequestTwin, sendHttpRequestDeviceMethod
<1> QED
  BY <1>1, <1>2, <1>3

\* What a result says of the answer.
LEMMA ResultSays ==
  ASSUME RequestInv, call # NoCall, answer # NoAnswer
  PROVE  /\ Result = "OK" => /\ answer # Lost /\ answer.status \in {200, 204} /\ Did(call, answer)
                             /\ call.op = "invoke" => answer.status = 200
                             /\ Reads(call.op) => IsAnswer(answer) /\ Carries(call, answer)
                             /\ call.op = "get" => answer.sent.exists /\ answer.status = 200 /\ answer.before.exists
         /\ Result = "DEVICE_EXIST" => answer # Lost /\ Did(call, answer) /\ call.op = "create" /\ answer.status = 409
         /\ Result = "DEVICE_NOT_EXIST" /\ ~(call.op = "get" /\ call.id = "module") =>
              answer # Lost /\ call.op = "get" /\ ~answer.before.exists
<1> DEFINE first == CASE answer = Lost -> "HTTPAPI_ERROR"
                      [] StatusResult(call.op, answer.status) = "OK" /\ "garbled" \in DOMAIN answer /\ Reads(call.op) -> "JSON_ERROR"
                      [] StatusResult(call.op, answer.status) = "OK" /\ SaysNone -> "DEVICE_NOT_EXIST"
                      [] OTHER -> StatusResult(call.op, answer.status)
<1>1. Result = IF call.op = "get" /\ call.id = "module" /\ first # "OK" THEN "DEVICE_NOT_EXIST" ELSE first
  BY DEF Result, IoTHubRegistryManager_GetModule
<1>2. answer = Lost => first = "HTTPAPI_ERROR"
  <2>1. "garbled" \notin DOMAIN Lost
    BY DEF Lost
  <2>2. answer = Lost => ~SaysNone
    BY DEF SaysNone
  <2> QED
    BY <2>1, <2>2
<1>3. answer # Lost => \/ first = "JSON_ERROR"
                       \/ /\ first = StatusResult(call.op, answer.status)
                          /\ ~(first = "OK" /\ "garbled" \in DOMAIN answer /\ Reads(call.op))
                          /\ ~(first = "OK" /\ SaysNone)
                       \/ first = "DEVICE_NOT_EXIST" /\ StatusResult(call.op, answer.status) = "OK" /\ SaysNone
  <2>1. SaysNone => "garbled" \notin DOMAIN answer
    BY DEF SaysNone
  <2> QED
    BY <2>1
<1> HIDE DEF first
<1>4. CASE answer = Lost
  BY <1>1, <1>2, <1>4
<1>5. CASE answer # Lost
  <2>1. Did(call, answer) /\ (IsAnswer(answer) => Carries(call, answer))
    BY <1>5 DEF RequestInv, AnsweredInv
  <2>2. IsAnswer(answer) \/ IsGarbled(answer)
    BY <1>5 DEF RequestInv, RequestTypeOK
  <2>3. call.op \in {"create", "get", "update", "delete", "list", "statistics", "add", "read", "readAll", "replace",
                     "remove", "apply", "patch", "readTwin", "invoke"}
    <3>1. call \in CallRecord
      BY DEF RequestInv, RequestTypeOK
    <3> QED
      BY <3>1 DEF CallRecord, NoCall
  <2>4. answer.status \in {200, 204, 404, 409, 504}
    BY <2>1, <2>3 DEF Did
  <2>5. /\ first = "OK" => answer.status \in {200, 204} /\ (call.op = "invoke" => answer.status = 200)
        /\ first = "DEVICE_EXIST" => call.op = "create" /\ answer.status = 409
        /\ first = "DEVICE_NOT_EXIST" =>
             call.op = "get" /\ (answer.status = 404 \/ (answer.status \in {200, 204} /\ SaysNone))
    BY <1>3, <1>5, <2>3, <2>4, StatusTold DEF SaysNone
  <2>6. first = "OK" /\ Reads(call.op) => IsAnswer(answer)
    BY <1>3, <1>5, <2>2 DEF IsGarbled
  <2>7. ASSUME first = "DEVICE_NOT_EXIST" PROVE ~answer.before.exists
    <3>1. CASE answer.status = 404
      BY <2>1, <2>5, <2>7, <3>1 DEF Did
    <3>2. CASE answer.status \in {200, 204} /\ SaysNone
      <4>1. IsAnswer(answer) /\ ~answer.sent.exists
        BY <2>2, <3>2 DEF IsGarbled, SaysNone
      <4>2. answer.status = 200 /\ call.op = "get"
        BY <2>1, <2>5, <2>7, <3>2 DEF Did
      <4> QED
        BY <2>1, <4>1, <4>2 DEF Carries
    <3> QED
      BY <2>5, <2>7, <3>1, <3>2
  <2>8. ASSUME first = "OK", call.op = "get"
        PROVE  answer.sent.exists /\ answer.status = 200 /\ answer.before.exists
    <3>1. Reads(call.op)
      BY <2>8 DEF Reads
    <3>2. IsAnswer(answer) /\ answer.status = 200
      BY <2>1, <2>5, <2>6, <2>8, <3>1 DEF Did
    <3>3. ~SaysNone
      BY <1>3, <1>5, <2>8
    <3>4. "garbled" \notin DOMAIN answer
      BY <1>3, <1>5, <2>8, <3>1
    <3>5. answer.sent.exists
      BY <1>5, <2>8, <3>3, <3>4 DEF SaysNone
    <3> QED
      BY <2>1, <2>8, <3>2, <3>5 DEF Carries
  <2> QED
    BY <1>1, <1>5, <2>1, <2>5, <2>6, <2>7, <2>8
<1> QED
  BY <1>4, <1>5

\* A list has as many items as the hub sent.
LEMMA ListedLength ==
  ASSUME NEW x, x.exists \in BOOLEAN, NEW items,
         items = parseDeviceOrModuleListJson(Stored(x)) \/ items = parseDeviceConfigurationListJson(Stored(x))
  PROVE  Len(items) = IF x.exists THEN 1 ELSE 0
<1>1. DOMAIN Stored(x) = 1..(IF x.exists THEN 1 ELSE 0)
  <2>1. CASE x.exists
    BY <2>1 DEF Stored
  <2>2. CASE ~x.exists
    BY <2>2 DEF Stored
  <2> QED
    BY <2>1, <2>2
<1>2. items = [i \in DOMAIN Stored(x) |-> items[i]]
  BY DEF parseDeviceOrModuleListJson, parseDeviceConfigurationListJson
<1> DEFINE n == IF x.exists THEN 1 ELSE 0
           all == {items[i] : i \in 1..n}
<1>3. n \in Nat
  OBVIOUS
<1>4. items = [i \in 1..n |-> items[i]]
  BY <1>1, <1>2
<1>5. items \in [1..n -> all]
  BY <1>4
<1> HIDE DEF n, all
<1>6. Len(items) = n
  BY <1>3, <1>5, FunctionIsSequence
<1> QED
  BY <1>6 DEF n

\* A call that returns is told as the hub answered it.
LEMMA ReturnsTrue ==
  ASSUME RequestInv, CallReturns
  PROVE  ResultsTrue'
<1>1. call # NoCall /\ answer # NoAnswer
      /\ told' = [op |-> "told", call |-> call, answer |-> answer, result |-> Result, items |-> Listed]
  BY DEF CallReturns
<1>2. told'.call = call /\ told'.answer = answer /\ told'.result = Result /\ told'.items = Listed
  BY <1>1
<1>3. Result = "OK" =>
        /\ answer # Lost
        /\ call.op \in {"create", "update", "add", "replace"} => answer.after.exists
        /\ call.op \in {"delete", "remove"} => answer.before.exists /\ ~answer.after.exists
        /\ call.op \in {"get", "read"} => answer.before.exists
        /\ call.op \in {"patch", "apply", "invoke"} => answer.after = answer.before + 1
  <2> SUFFICES ASSUME Result = "OK"
               PROVE  /\ answer # Lost
                      /\ call.op \in {"create", "update", "add", "replace"} => answer.after.exists
                      /\ call.op \in {"delete", "remove"} => answer.before.exists /\ ~answer.after.exists
                      /\ call.op \in {"get", "read"} => answer.before.exists
                      /\ call.op \in {"patch", "apply", "invoke"} => answer.after = answer.before + 1
    OBVIOUS
  <2>1. /\ answer # Lost /\ answer.status \in {200, 204} /\ Did(call, answer) /\ (call.op = "invoke" => answer.status = 200)
        /\ call.op = "get" => answer.before.exists
    BY <1>1, ResultSays
  <2> QED
    BY <2>1 DEF Did
<1>4. Result = "OK" /\ call.op \in {"list", "readAll"} => Len(Listed) = IF answer.before.exists THEN 1 ELSE 0
  <2> SUFFICES ASSUME Result = "OK", call.op \in {"list", "readAll"}
               PROVE  Len(Listed) = IF answer.before.exists THEN 1 ELSE 0
    OBVIOUS
  <2>1. Reads(call.op)
    BY DEF Reads
  <2>2. Carries(call, answer)
    BY <1>1, <2>1, ResultSays
  <2>3. answer.sent = Stored(answer.before) /\ answer.before.exists \in BOOLEAN
    BY <2>2 DEF Carries
  <2>4. \/ Listed = parseDeviceOrModuleListJson(answer.sent)
        \/ Listed = parseDeviceConfigurationListJson(answer.sent)
    BY DEF Listed
  <2> QED
    BY <2>3, <2>4, ListedLength
<1>5. Result = "DEVICE_EXIST" => answer.before.exists
  BY <1>1, ResultSays DEF Did
<1>6. Result = "DEVICE_NOT_EXIST" /\ call.id = "device" => ~answer.before.exists
  <2> SUFFICES ASSUME Result = "DEVICE_NOT_EXIST", call.id = "device" PROVE ~answer.before.exists
    OBVIOUS
  <2>1. ~(call.op = "get" /\ call.id = "module")
    OBVIOUS
  <2> QED
    BY <1>1, <2>1, ResultSays
<1> QED
  BY <1>2, <1>3, <1>4, <1>5, <1>6 DEF ResultsTrue

\* A call that returns leaves what it read, or what was read before.
LEMMA ReturnsInv ==
  ASSUME RequestInv, CallReturns
  PROVE  RequestInv'
<1>1. /\ call # NoCall /\ answer # NoAnswer /\ call' = NoCall /\ answer' = answer
      /\ registry' = registry /\ configurations' = configurations /\ twin' = twin /\ invoked' = invoked
      /\ held' = IF Result = "OK" /\ call.op = "get"
                 THEN [op |-> "get", id |-> call.id, structure |-> call.structure, info |-> Parsed, fresh |-> answer.fresh]
                 ELSE IF Result = "OK" /\ call.op = "read" THEN [op |-> "read", info |-> Parsed, fresh |-> answer.fresh]
                 ELSE IF held # NoCall /\ WritesBody THEN [held EXCEPT !.fresh = FALSE] ELSE held
  BY DEF CallReturns, hubVars
<1>2. call \in CallRecord /\ held \in HeldRecord
  BY DEF RequestInv, RequestTypeOK
<1>3. NoCall \in CallRecord /\ NoCall.op = "none"
  BY DEF CallRecord, NoCall
<1>4. AnsweredInv' /\ SentFresh' /\ UpdateFresh'
  BY <1>1, <1>3 DEF AnsweredInv, SentFresh, UpdateFresh
<1>5. /\ held' \in HeldRecord
      /\ held'.op = "get" => /\ held'.structure \in StructureOf(held'.id) /\ held'.info \in IdentityOf(held'.id)
                             /\ held'.fresh => /\ registry[held'.id].exists
                                               /\ held'.info = InStructure(held'.structure, registry[held'.id])
  <2>1. CASE Result = "OK" /\ call.op = "get"
    <3>1. Reads(call.op)
      BY <2>1 DEF Reads
    <3>2. IsAnswer(answer) /\ Carries(call, answer) /\ Did(call, answer) /\ answer # Lost /\ answer.status \in {200, 204}
      BY <1>1, <2>1, <3>1, ResultSays
    <3>3. answer.status = 200
      BY <2>1, <3>2 DEF Did
    <3>4. answer.sent \in IdentityOf(call.id) /\ answer.sent.exists
      BY <1>1, <2>1, <3>2, <3>3, ResultSays DEF Carries
    <3>5. call.id \in Identities /\ call.structure \in StructureOf(call.id)
      BY <2>1, <1>2, CallForms DEF RequestInv, RequestTypeOK, StructureOf, Identities
    <3>6. Parsed = InStructure(call.structure, answer.sent)
      BY <2>1 DEF Parsed, parseDeviceOrModuleJsonObject
    <3>7. Parsed \in IdentityOf(call.id) /\ Parsed \in Identity
      BY <3>4, <3>5, <3>6, ReadIdentity DEF IdentityOf
    <3>8. answer.fresh \in BOOLEAN
      BY <3>2, <1>1, AnswerForms DEF RequestInv, RequestTypeOK
    <3>9. answer.fresh => registry[call.id].exists /\ answer.sent = registry[call.id]
      BY <2>1, <3>2, <3>3, <3>4 DEF RequestInv, SentFresh
    <3>10. held' = [op |-> "get", id |-> call.id, structure |-> call.structure, info |-> Parsed, fresh |-> answer.fresh]
      BY <1>1, <2>1
    <3>11. call.structure \in Structures
      BY <3>5 DEF StructureOf, Structures
    <3>12. held' \in HeldRecord
      BY <3>5, <3>7, <3>8, <3>10, <3>11 DEF HeldRecord
    <3> QED
      BY <3>5, <3>6, <3>7, <3>9, <3>10, <3>12
  <2>2. CASE Result = "OK" /\ call.op = "read"
    <3>1. Reads(call.op)
      BY <2>2 DEF Reads
    <3>2. IsAnswer(answer) /\ Carries(call, answer) /\ Did(call, answer) /\ answer # Lost /\ answer.status \in {200, 204}
      BY <1>1, <2>2, <3>1, ResultSays
    <3>3. answer.status = 200
      BY <2>2, <3>2 DEF Did
    <3>4. answer.sent \in Configuration
      BY <2>2, <3>2, <3>3 DEF Carries
    <3>5. Parsed = parseDeviceConfigurationJsonObject(answer.sent)
      BY <2>2 DEF Parsed
    <3>6. Parsed \in Configuration
      BY <3>4, <3>5, ConfigurationsStay
    <3>7. answer.fresh \in BOOLEAN
      BY <3>2, <1>1, AnswerForms DEF RequestInv, RequestTypeOK
    <3>8. held' = [op |-> "read", info |-> Parsed, fresh |-> answer.fresh]
      BY <1>1, <2>2
    <3> QED
      BY <3>6, <3>7, <3>8 DEF HeldRecord
  <2>3. CASE ~(Result = "OK" /\ call.op \in {"get", "read"}) /\ held # NoCall /\ WritesBody
    <3>1. held' = [held EXCEPT !.fresh = FALSE]
      BY <1>1, <2>3
    <3>2. CASE held \in [op : {"none"}]
      BY <2>3, <3>2 DEF NoCall
    <3>3. CASE held \in [op : {"read"}, info : Configuration, fresh : BOOLEAN]
      BY <3>1, <3>3 DEF HeldRecord
    <3>4. CASE held \in [op : {"get"}, id : Identities, structure : Structures, info : Identity, fresh : BOOLEAN]
      <4>1. held' \in HeldRecord /\ held'.fresh = FALSE /\ held'.id = held.id /\ held'.structure = held.structure
            /\ held'.info = held.info
        BY <3>1, <3>4 DEF HeldRecord
      <4> QED
        BY <3>4, <4>1 DEF RequestInv, RequestTypeOK
    <3> QED
      BY <1>2, <3>2, <3>3, <3>4 DEF HeldRecord
  <2>4. CASE ~(Result = "OK" /\ call.op \in {"get", "read"}) /\ ~(held # NoCall /\ WritesBody)
    <3>1. held' = held
      BY <1>1, <2>4
    <3>2. held.op = "get" => ~WritesBody
      BY <2>4 DEF NoCall
    <3>3. HeldFresh /\ RequestTypeOK
      BY DEF RequestInv
    <3> QED
      BY <3>1, <3>2, <3>3 DEF HeldFresh, RequestTypeOK
  <2> QED
    BY <2>1, <2>2, <2>3, <2>4
<1>6. HeldFresh'
  BY <1>1, <1>5 DEF HeldFresh
<1>7. RequestTypeOK'
  BY <1>1, <1>3, <1>5 DEF RequestInv, RequestTypeOK
<1> QED
  BY <1>4, <1>6, <1>7, ReturnsTrue DEF RequestInv

\* The clients of the registry, the configurations, the twins and the methods, iothub_registrymanager.c and its
\* sisters: a result that is OK was answered by a hub that did what was asked, a device is said to be there or not only
\* when it was, and an identity or a configuration that is read, changed and written back while nobody else writes
\* keeps the rest of what it was, in whichever order calls, other writers and lost answers come.
THEOREM RequestsAreSound == RequestSpec => []RequestsSound
<1>1. RequestInit => RequestInv
  <2> SUFFICES ASSUME RequestInit PROVE RequestInv
    OBVIOUS
  <2>1. registry = [id \in Identities |-> Absent] /\ configurations = Absent /\ twin = 0 /\ invoked = 0
        /\ call = NoCall /\ answer = NoAnswer /\ held = NoCall /\ told = NoCall
    BY DEF RequestInit
  <2>2. NoCall \in CallRecord /\ NoCall \in HeldRecord /\ NoCall.op = "none"
    BY DEF CallRecord, HeldRecord, NoCall
  <2>3. RequestTypeOK
    BY <2>1, <2>2 DEF RequestTypeOK
  <2> QED
    BY <2>1, <2>2, <2>3 DEF RequestInv, AnsweredInv, HeldFresh, SentFresh, UpdateFresh, ResultsTrue
<1>2. RequestInv /\ [RequestNext]_requestVars => RequestInv'
  <2> SUFFICES ASSUME RequestInv, [RequestNext]_requestVars PROVE RequestInv'
    OBVIOUS
  <2>1. CASE UNCHANGED requestVars
    <3>1. UNCHANGED <<registry, configurations, twin, invoked, call, answer, held, told>>
      BY <2>1 DEF requestVars
    <3>2. WritesBody' = WritesBody
      BY <3>1 DEF WritesBody
    <3>3. RequestTypeOK' /\ AnsweredInv'
      BY <3>1 DEF RequestInv, RequestTypeOK, AnsweredInv
    <3>4. HeldFresh' /\ SentFresh' /\ UpdateFresh'
      BY <3>1, <3>2 DEF RequestInv, HeldFresh, SentFresh, UpdateFresh
    <3>5. ResultsTrue'
      BY <3>1 DEF RequestInv, ResultsTrue
    <3> QED
      BY <3>3, <3>4, <3>5 DEF RequestInv
  <2>2. CASE RequestNext
    BY <2>2, RegistryCallsInv, OtherCallsInv, HubInv, OthersInv, ReturnsInv DEF RequestNext
  <2> QED
    BY <2>1, <2>2
<1>3. RequestInv => RequestsSound
  <2> SUFFICES ASSUME RequestInv PROVE RequestsSound
    OBVIOUS
  <2>1. Touches("update") =>
          answer.after = [answer.before EXCEPT !.status = Other(@), !.edge = call.structure # "device" /\ @]
    <3> SUFFICES ASSUME Touches("update") PROVE answer.after = Rewritten(answer.before, call.structure)
      BY DEF Rewritten
    <3>1. call.op = "update" /\ call.fresh /\ answer.status = 200
      BY DEF Touches
    <3>2. Did(call, answer)
      BY <3>1 DEF RequestInv, AnsweredInv, NoCall, NoAnswer, Lost
    <3> QED
      BY <3>1, <3>2 DEF Did
  <2>2. Touches("replace") =>
          answer.after.targetCondition = answer.before.targetCondition /\ answer.after.content = "other"
    <3> SUFFICES ASSUME Touches("replace")
                 PROVE  answer.after.targetCondition = answer.before.targetCondition /\ answer.after.content = "other"
      OBVIOUS
    <3>1. call.op = "replace" /\ answer.status = 200
      BY DEF Touches
    <3>2. Did(call, answer)
      BY <3>1 DEF RequestInv, AnsweredInv, NoCall, NoAnswer, Lost
    <3> QED
      BY <3>1, <3>2 DEF Did
  <2> QED
    BY <2>1, <2>2 DEF RequestsSound, UpdateKeepsRest, RequestInv
<1> QED
  BY <1>1, <1>2, <1>3, PTL DEF RequestSpec

-----------------------------------------------------------------------------
(* Enrollments *)

Ids == Individuals \cup Groups
Total == Cardinality(Individuals)

\* JSON that is about an id.
Names(json, id) ==
  IF "enrollmentGroupId" \in DOMAIN json THEN json.enrollmentGroupId = id
  ELSE "registrationId" \in DOMAIN json /\ json.registrationId = id

\* The record x of the service is that of an id, and its JSON has its version.
RecordOf(x, id) ==
  /\ x = [version |-> x.version, json |-> x.json]
  /\ "etag" \in DOMAIN x.json /\ x.json.etag = x.version /\ Names(x.json, id)

IsEnrollment(e) ==
  e = [id |-> e.id, attestation |-> e.attestation, status |-> e.status, twin |-> e.twin, etag |-> e.etag,
       capabilities |-> e.capabilities]

EnrollmentTypeOK ==
  /\ stored = [id \in Ids |-> stored[id]]
  /\ \A id \in Ids : stored[id] = Nothing \/ RecordOf(stored[id], id)
  /\ http_state \in {"DISCONNECTED", "REQUEST_SENT", "REQUEST_RECV", "ERROR"}
  /\ live \in Int /\ cont_token \in 0..Total /\ page \in Seq(Individuals) /\ present \subseteq Individuals

\* The enrollment in hand has the version it was read at, and is one of the service's or a new one.
HandInv == handle # Nothing => IsEnrollment(handle) /\ handle.etag = seen /\ handle.id \in Ids

\* A request is of the enrollment in hand, or reads one into empty hands, or reads the next page.
AskedInv ==
  /\ request = Nothing => http_state = "DISCONNECTED" /\ response = Nothing
  /\ request # Nothing => request.op \in {"put", "delete", "bulk", "get", "query"}
  /\ request.op \in {"put", "delete", "bulk"} => handle # Nothing /\ request.id = handle.id /\ request.etag = handle.etag
  /\ request.op \in {"put", "bulk"} => Names(request.json, request.id)
  /\ request.op = "get" => handle = Nothing /\ request.id \in Ids
  /\ request.op = "query" => request.token = cont_token

IsPage(r) == r = [code |-> r.code, before |-> r.before, after |-> r.after, whole |-> r.whole, body |-> r.body, token |-> r.token]
IsReply(r) ==
  r = [code |-> r.code, before |-> r.before, after |-> r.after, body |-> r.body, whole |-> r.whole, errors |-> r.errors]

\* A page that was asked for after a position of the order, and the enrollments there before, at and after it.
PageOf(r, upTo, there) ==
  /\ r.token \in 0..Total
  /\ \/ /\ r.body = <<>> /\ r.token = 0
        /\ \A k \in 1..Total : Order[k] \in there => k <= upTo
     \/ \E first \in 1..Total : /\ r.body = <<Order[first]>> /\ first > upTo /\ r.token \in {0, first}
                                /\ \A k \in 1..Total : Order[k] \in there =>
                                     k <= upTo \/ k = first \/ (k > first /\ r.token = first)

\* An answer that is no error says that the version that was asked for was met, and which record there is now.
RepliedInv ==
  /\ http_state = "REQUEST_RECV" => response # Nothing /\ response.code \in 200..299
  /\ http_state = "DISCONNECTED" => response = Nothing
  /\ response # Nothing =>
       /\ request.op # "query" => IsReply(response)
       /\ request.op \in {"put", "delete", "bulk"} /\ response.code \in 200..299 =>
            (request.op = "bulk" /\ response.errors) \/ request.etag = 0 \/ response.before.version = request.etag
       /\ request.op \in {"put", "get"} /\ response.code \in 200..299 =>
            response.body = response.after /\ RecordOf(response.after, request.id)
       /\ request.op = "query" => IsPage(response) /\ PageOf(response, request.token, present)

\* The pages read up to a position of the order hold the present enrollments up to there, none of them twice.
PagesUpTo(n) ==
  /\ \A i, j \in DOMAIN page : page[i] = page[j] => i = j
  /\ \A i \in DOMAIN page : \E k \in 1..n : page[i] = Order[k]
  /\ \A k \in 1..n : Order[k] \in present => \E i \in DOMAIN page : page[i] = Order[k]

PagingInv ==
  /\ \A id \in present : stored[id] # Nothing
  /\ (cont_token # 0 \/ request.op = "query") /\ ~skipped => PagesUpTo(cont_token)
  /\ Is("query") /\ cont_token = 0 /\ ~skipped => PagesUpTo(Total)

EnrollmentInv ==
  EnrollmentTypeOK /\ HandInv /\ AskedInv /\ RepliedInv /\ PagingInv /\ NoWriteLost /\ MechanismsOwned

\* The service lists its enrollments in an order that meets each of them once.
LEMMA OrderMeetsAll ==
  /\ Total \in Nat /\ Order \in [1..Total -> Individuals]
  /\ \A i, j \in 1..Total : Order[i] = Order[j] => i = j
  /\ \A id \in Individuals : \E k \in 1..Total : Order[k] = id
<1>1. IsFiniteSet(Individuals)
  BY EnrollmentsAssumption
<1>2. Total \in Nat /\ ExistsBijection(1..Total, Individuals)
  BY <1>1, FS_CardinalityType DEF Total
<1>3. PICK f \in [1..Total -> Individuals] : \A i, j \in 1..Total : f[i] = f[j] => i = j
  BY <1>2 DEF ExistsBijection, Bijection, Injection, IsInjective
<1> DEFINE Once(o) == \A i, j \in DOMAIN o : o[i] = o[j] => i = j
           Orders == [1..Total -> Individuals]
<1>4. f \in Orders /\ Once(f)
  BY <1>3
<1>5. Order = CHOOSE o \in Orders : Once(o)
  BY DEF Order, Total
<1>6. Order \in [1..Total -> Individuals] /\ \A i, j \in DOMAIN Order : Order[i] = Order[j] => i = j
  <2>1. Order \in Orders /\ Once(Order)
    <3> HIDE DEF Orders, Once
    <3> QED
      BY <1>4, <1>5
  <2> QED
    BY <2>1
<1>7. Order \in Injection(1..Total, Individuals)
  BY <1>6 DEF Injection, IsInjective
<1>8. IsFiniteSet(1..Total) /\ Cardinality(1..Total) = Total
  BY <1>2, FS_Interval
<1>9. Order \in Surjection(1..Total, Individuals)
  BY <1>1, <1>7, <1>8, FS_Injection DEF Total
<1> QED
  BY <1>2, <1>6, <1>9 DEF Surjection

\* A record and an enrollment are there.
LEMMA RecordsAre ==
  /\ \A x, id : RecordOf(x, id) => x # Nothing
  /\ \A e : IsEnrollment(e) => e # Nothing
<1>1. DOMAIN Nothing = {"op", "version"}
  BY DEF Nothing
<1>2. ASSUME NEW x, NEW id, RecordOf(x, id) PROVE x # Nothing
  <2>1. DOMAIN x = {"version", "json"}
    BY <1>2 DEF RecordOf
  <2> QED
    BY <1>1, <2>1
<1>3. ASSUME NEW e, IsEnrollment(e) PROVE e # Nothing
  <2>1. DOMAIN e = {"id", "attestation", "status", "twin", "etag", "capabilities"}
    BY <1>3 DEF IsEnrollment
  <2> QED
    BY <1>1, <2>1
<1> QED
  BY <1>2, <1>3

\* individualEnrollment_toJson and enrollmentGroup_toJson write the id under its own name.
LEMMA WrittenNames ==
  ASSUME NEW e
  PROVE  Names(serializeToJson(e), e.id)
<1>1. DOMAIN Optional(e) \subseteq {"initialTwin", "etag"}
  BY DEF Optional, Join, One
<1>2. DOMAIN Field("iotEdge", e.capabilities) \subseteq {"iotEdge"}
  BY DEF Field, One
<1> DEFINE group == [enrollmentGroupId |-> e.id, attestation |-> attestationMechanism_toJson(e.attestation),
                     provisioningStatus |-> e.status]
           single == [registrationId |-> e.id, attestation |-> attestationMechanism_toJson(e.attestation),
                      provisioningStatus |-> e.status]
           rest == Join(Optional(e), Field("iotEdge", e.capabilities))
<1>3. DOMAIN rest \subseteq {"initialTwin", "etag", "iotEdge"}
  BY <1>1, <1>2 DEF Join
<1> HIDE DEF rest
<1>4. Names(Join(group, Optional(e)), e.id)
  BY DEF Names, Join
<1>5. Names(Join(single, rest), e.id)
  BY <1>3 DEF Names, Join
<1> QED
  BY <1>4, <1>5 DEF serializeToJson, individualEnrollment_toJson, enrollmentGroup_toJson, rest

\* What the service keeps of the JSON it is sent is about the same id, at the version it gives it.
LEMMA KeptNames ==
  ASSUME NEW json, NEW id, NEW version, Names(json, id)
  PROVE  RecordOf([version |-> version, json |-> Join(One("etag", version), Kept(json))], id)
<1> DEFINE kept == Kept(json)
<1>1. Names(kept, id)
  <2>1. CASE json.attestation.type = "tpm"
    BY <2>1 DEF Kept
  <2>2. CASE json.attestation.type # "tpm"
    <3> DEFINE Certificates(x) == [k \in DOMAIN x |-> IF k = "caReferences" THEN x[k] ELSE [w \in DOMAIN x[k] |-> Known(x[k][w])]]
               c == [json.attestation EXCEPT !.x509 = Certificates(@)]
    <3>1. kept = [json EXCEPT !.attestation = c]
      BY <2>2 DEF Kept
    <3> HIDE DEF c
    <3>2. DOMAIN kept = DOMAIN json /\ \A k \in DOMAIN json : k # "attestation" => kept[k] = json[k]
      BY <3>1
    <3> HIDE DEF kept
    <3> QED
      BY <3>2 DEF Names
  <2> QED
    BY <2>1, <2>2
<1> HIDE DEF kept
<1> DEFINE whole == Join(One("etag", version), kept)
<1>2. "etag" \in DOMAIN whole /\ whole.etag = version /\ Names(whole, id)
  BY <1>1 DEF Names, Join, One
<1> HIDE DEF whole
<1>3. RecordOf([version |-> version, json |-> whole], id)
  BY <1>2 DEF RecordOf
<1> QED
  BY <1>3 DEF whole, kept

\* An enrollment with the edge capability is about the same id.
LEMMA EdgeNames ==
  ASSUME NEW json, NEW id, Names(json, id)
  PROVE  Names(Join(One("iotEdge", "edgeOn"), json), id)
BY DEF Names, Join, One

\* What is read of a record is an enrollment of its id with its version.
LEMMA ReadRecord ==
  ASSUME NEW x, NEW id, RecordOf(x, id)
  PROVE  /\ IsEnrollment(deserializeFromJson(x.json))
         /\ deserializeFromJson(x.json).id = id /\ deserializeFromJson(x.json).etag = x.version
<1> DEFINE json == x.json
           who == IF "enrollmentGroupId" \in DOMAIN json THEN json.enrollmentGroupId ELSE json.registrationId
           e == Common(json, who)
<1>1. "etag" \in DOMAIN json /\ json.etag = x.version /\ who = id
  BY DEF RecordOf, Names
<1>2. deserializeFromJson(json) = e
  BY DEF deserializeFromJson, enrollmentGroup_fromJson, individualEnrollment_fromJson
<1> HIDE DEF json, who
<1>3. IsEnrollment(e) /\ e.id = who /\ e.etag = json.etag
  BY <1>1 DEF Common, IsEnrollment
<1> QED
  BY <1>1, <1>2, <1>3 DEF json

\* The application's hands hold another enrollment, or another mechanism.
LEMMA HandsInv ==
  ASSUME EnrollmentInv, request = Nothing,
         UNCHANGED <<stored, http_state, request, response, outcome, queryVars>>,
         HandInv', live' \in Int, MechanismsOwned'
  PROVE  EnrollmentInv'
<1>1. UNCHANGED <<stored, http_state, request, response, outcome, cont_token, page, present, skipped>>
  BY DEF queryVars
<1>2. Nothing.op = "none"
  BY DEF Nothing
<1>3. EnrollmentTypeOK'
  BY <1>1 DEF EnrollmentInv, EnrollmentTypeOK
<1>4. AskedInv'
  BY <1>1, <1>2 DEF EnrollmentInv, AskedInv
<1>5. RepliedInv'
  <2>1. response' = Nothing /\ http_state' = "DISCONNECTED"
    BY <1>1 DEF EnrollmentInv, AskedInv
  <2> QED
    BY <2>1 DEF RepliedInv
<1>6. PagingInv'
  BY <1>1 DEF EnrollmentInv, PagingInv, PagesUpTo, Is
<1>7. NoWriteLost'
  BY <1>1 DEF EnrollmentInv, NoWriteLost, Is
<1> QED
  BY <1>3, <1>4, <1>5, <1>6, <1>7 DEF EnrollmentInv

\* The application makes, gives away, changes and destroys mechanisms and enrollments.
LEMMA HandsActInv ==
  ASSUME EnrollmentInv,
         \/ attestationMechanism_create \/ enrollment_create \/ setAttestationMechanism \/ setInitialTwin
         \/ setProvisioningStatus \/ enrollment_destroy
  PROVE  EnrollmentInv'
<1>1. live \in Int /\ live = Exists(mechanism) + Exists(handle) /\ HandInv
  BY DEF EnrollmentInv, EnrollmentTypeOK, MechanismsOwned
<1>2. handle # Nothing => IsEnrollment(handle) /\ handle.etag = seen /\ handle.id \in Ids
  BY <1>1 DEF HandInv
<1>3. Exists(Nothing) = 0 /\ \A x : x # Nothing => Exists(x) = 1
  BY DEF Exists
<1>4. CASE attestationMechanism_create
  <2>1. request = Nothing /\ mechanism = Nothing /\ live' = live + 1 /\ handle' = handle /\ seen' = seen
        /\ UNCHANGED <<stored, http_state, request, response, outcome, queryVars>>
    BY <1>4 DEF attestationMechanism_create, Idle
  <2>2. PICK a \in Attestations : mechanism' = x509Attestation_create(a.type, a.secondary)
    BY <1>4 DEF attestationMechanism_create
  <2>3. DOMAIN mechanism' = {"type", "certificates"}
    BY <2>2 DEF x509Attestation_create
  <2>4. mechanism' # Nothing
    BY <2>3 DEF Nothing
  <2>5. HandInv'
    BY <1>1, <2>1 DEF HandInv
  <2>6. MechanismsOwned' /\ live' \in Int
    BY <1>1, <1>3, <2>1, <2>4 DEF MechanismsOwned, Exists
  <2> QED
    BY <2>1, <2>5, <2>6, HandsInv
<1>5. CASE enrollment_create
  <2>1. request = Nothing /\ mechanism # Nothing /\ handle = Nothing /\ mechanism' = Nothing /\ seen' = 0 /\ live' = live
        /\ UNCHANGED <<stored, http_state, request, response, outcome, queryVars>>
    BY <1>5 DEF enrollment_create, Idle
  <2>2. PICK id \in Own :
          handle' = [id |-> id, attestation |-> mechanism, status |-> "enabled", twin |-> Nothing, etag |-> 0,
                     capabilities |-> IF id \in Groups THEN None ELSE "edgeOff"]
    BY <1>5 DEF enrollment_create
  <2>3. id \in Ids
    BY EnrollmentsAssumption DEF Ids
  <2>4. IsEnrollment(handle') /\ handle'.etag = 0 /\ handle'.id = id
    BY <2>2 DEF IsEnrollment
  <2>5. HandInv'
    BY <2>1, <2>3, <2>4 DEF HandInv
  <2>6. MechanismsOwned' /\ live' \in Int
    BY <1>1, <1>3, <2>1, <2>4, RecordsAre DEF MechanismsOwned, Exists
  <2> QED
    BY <2>1, <2>5, <2>6, HandsInv
<1>6. ASSUME NEW f \in {"attestation", "twin", "status"}, NEW v, request = Nothing, handle # Nothing, seen' = seen,
             handle' = [handle EXCEPT ![f] = v],
             UNCHANGED <<stored, http_state, request, response, outcome, queryVars>>,
             (mechanism' = mechanism /\ live' = live) \/ (mechanism # Nothing /\ mechanism' = Nothing /\ live' = live - 1)
      PROVE  EnrollmentInv'
  <2>1. IsEnrollment(handle) /\ handle.etag = seen /\ handle.id \in Ids
    BY <1>2, <1>6
  <2>2. DOMAIN handle = {"id", "attestation", "status", "twin", "etag", "capabilities"}
    BY <2>1 DEF IsEnrollment
  <2>3. handle'.id = handle.id /\ handle'.etag = handle.etag /\ DOMAIN handle' = DOMAIN handle
    BY <1>6, <2>2
  <2>4. IsEnrollment(handle')
    <3>1. handle' = [k \in {"id", "attestation", "status", "twin", "etag", "capabilities"} |-> handle'[k]]
      BY <1>6, <2>2
    <3> QED
      BY <3>1 DEF IsEnrollment
  <2>5. HandInv'
    BY <1>6, <2>1, <2>3, <2>4 DEF HandInv
  <2>6. Exists(handle') = 1 /\ Exists(handle) = 1
    BY <1>3, <1>6, <2>4, RecordsAre
  <2>7. MechanismsOwned' /\ live' \in Int
    <3>1. live' = Exists(mechanism') + Exists(handle')
      BY <1>1, <1>3, <1>6, <2>6 DEF Exists
    <3> QED
      BY <1>1, <1>6, <3>1 DEF MechanismsOwned
  <2> QED
    BY <1>6, <2>5, <2>7, HandsInv
<1>7. CASE setAttestationMechanism
  BY <1>6, <1>7 DEF setAttestationMechanism, attestationMechanism_destroy, Edits, Idle
<1>8. CASE setInitialTwin
  <2>1. request = Nothing /\ handle # Nothing /\ seen' = seen /\ mechanism' = mechanism /\ live' = live
        /\ UNCHANGED <<stored, http_state, request, response, outcome, queryVars>>
    BY <1>8 DEF setInitialTwin, Edits, Idle
  <2>2. PICK tags, desired \in {None, "v"} :
          LET twin_ == initialTwin_create(tags, desired) IN
          \/ handle' = [handle EXCEPT !.twin = twin_]
          \/ handle' = [handle EXCEPT !.twin = initialTwin_setTags(twin_, None)]
          \/ handle' = [handle EXCEPT !.twin = initialTwin_setDesiredProperties(twin_, None)]
    BY <1>8 DEF setInitialTwin
  <2>3. \E v : handle' = [handle EXCEPT !.twin = v]
    BY <2>2
  <2>4. PICK v : handle' = [handle EXCEPT !["twin"] = v]
    BY <2>3
  <2> QED
    BY <1>6, <2>1, <2>4
<1>9. CASE setProvisioningStatus
  BY <1>6, <1>9 DEF setProvisioningStatus, Edits, Idle
<1>10. CASE enrollment_destroy
  <2>1. request = Nothing /\ handle # Nothing /\ handle' = Nothing /\ live' = live - 1 /\ mechanism' = mechanism
        /\ UNCHANGED <<stored, http_state, request, response, outcome, queryVars>>
    BY <1>10 DEF enrollment_destroy, attestationMechanism_destroy, Idle
  <2>2. HandInv'
    BY <2>1 DEF HandInv
  <2>3. MechanismsOwned' /\ live' \in Int
    BY <1>1, <1>3, <2>1 DEF MechanismsOwned, Exists
  <2> QED
    BY <2>1, <2>2, <2>3, HandsInv
<1> QED
  BY <1>4, <1>5, <1>7, <1>8, <1>9, <1>10

\* A call is sent.
LEMMA AsksInv ==
  ASSUME EnrollmentInv, NEW r, Requests(r), r # Nothing, r.op \in {"put", "delete", "bulk", "get", "query"},
         r.op \in {"put", "delete", "bulk"} => handle # Nothing /\ r.id = handle.id /\ r.etag = handle.etag,
         r.op \in {"put", "bulk"} => Names(r.json, r.id),
         r.op = "get" => handle = Nothing /\ r.id \in Ids,
         r.op = "query" => r.token = cont_token,
         cont_token' = cont_token, page' \in Seq(Individuals), present' \subseteq Individuals,
         \A id \in present' : stored[id] # Nothing,
         (cont_token # 0 \/ r.op = "query") /\ ~skipped' => PagesUpTo(cont_token)'
  PROVE  EnrollmentInv'
<1>1. request = Nothing /\ request' = r /\ outcome' = Nothing
      /\ UNCHANGED <<stored, mechanism, handle, live, seen, http_state, response>>
  BY DEF Requests, Idle, heldVars
<1>2. http_state = "DISCONNECTED" /\ response = Nothing
  BY <1>1 DEF EnrollmentInv, AskedInv
<1>3. EnrollmentTypeOK'
  BY <1>1 DEF EnrollmentInv, EnrollmentTypeOK
<1>4. HandInv' /\ MechanismsOwned'
  BY <1>1 DEF EnrollmentInv, HandInv, MechanismsOwned
<1>5. AskedInv'
  BY <1>1 DEF AskedInv
<1>6. RepliedInv'
  BY <1>1, <1>2 DEF RepliedInv
<1>7. PagingInv' /\ NoWriteLost'
  BY <1>1 DEF PagingInv, NoWriteLost, Is
<1> QED
  BY <1>3, <1>4, <1>5, <1>6, <1>7 DEF EnrollmentInv

\* The calls of the application.
LEMMA AskingInv ==
  ASSUME EnrollmentInv,
         \/ prov_sc_create_or_update_record \/ prov_sc_delete_record_by_param \/ prov_sc_get_record
         \/ prov_sc_run_bulk_operation \/ prov_sc_query_records
  PROVE  EnrollmentInv'
<1>1. DOMAIN Nothing = {"op", "version"} /\ Nothing.op = "none"
  BY DEF Nothing
<1>2. /\ \A id \in present : stored[id] # Nothing
      /\ cont_token # 0 /\ ~skipped => PagesUpTo(cont_token)
      /\ page \in Seq(Individuals) /\ present \subseteq Individuals
  BY DEF EnrollmentInv, PagingInv, EnrollmentTypeOK
<1>3. ASSUME UNCHANGED queryVars
      PROVE  /\ \A id \in present' : stored[id] # Nothing
             /\ cont_token # 0 /\ ~skipped' => PagesUpTo(cont_token)'
             /\ page' \in Seq(Individuals) /\ present' \subseteq Individuals /\ cont_token' = cont_token
  <2>1. UNCHANGED <<cont_token, page, present, skipped>>
    BY <1>3 DEF queryVars
  <2> QED
    BY <1>2, <2>1 DEF PagesUpTo
<1>4. CASE prov_sc_create_or_update_record
  <2> DEFINE json == serializeToJson(handle)
             r == [op |-> "put", id |-> handle.id, etag |-> handle.etag, json |-> json]
  <2>1. handle # Nothing /\ Requests(r) /\ UNCHANGED queryVars
    BY <1>4 DEF prov_sc_create_or_update_record, construct_http_headers
  <2>2. Names(json, handle.id)
    BY WrittenNames
  <2> HIDE DEF json
  <2>3. r.op = "put" /\ r.id = handle.id /\ r.etag = handle.etag /\ r.json = json /\ r # Nothing
    BY <1>1
  <2> HIDE DEF r
  <2> QED
    BY <1>3, <2>1, <2>2, <2>3, AsksInv
<1>5. CASE prov_sc_delete_record_by_param
  <2> DEFINE r == [op |-> "delete", id |-> handle.id, etag |-> handle.etag]
  <2>1. handle # Nothing /\ Requests(r) /\ UNCHANGED queryVars
    BY <1>5 DEF prov_sc_delete_record_by_param, construct_http_headers
  <2>2. r.op = "delete" /\ r.id = handle.id /\ r.etag = handle.etag /\ r # Nothing
    BY <1>1
  <2> HIDE DEF r
  <2> QED
    BY <1>3, <2>1, <2>2, AsksInv
<1>6. CASE prov_sc_get_record
  <2>1. PICK id \in Own : handle = Nothing /\ Requests([op |-> "get", id |-> id]) /\ UNCHANGED queryVars
    BY <1>6 DEF prov_sc_get_record
  <2> DEFINE r == [op |-> "get", id |-> id]
  <2>2. id \in Ids
    BY EnrollmentsAssumption DEF Ids
  <2>3. r.op = "get" /\ r.id = id /\ r # Nothing
    BY <1>1
  <2>4. Requests(r)
    BY <2>1
  <2> HIDE DEF r
  <2> QED
    BY <1>3, <2>1, <2>2, <2>3, <2>4, AsksInv
<1>7. CASE prov_sc_run_bulk_operation
  <2> DEFINE json == serializeToJson(handle)
  <2>1. PICK mode \in {"update", "delete"} :
          handle # Nothing /\ UNCHANGED queryVars
          /\ Requests([op |-> "bulk", mode |-> mode, id |-> handle.id, etag |-> handle.etag, json |-> json])
    BY <1>7 DEF prov_sc_run_bulk_operation
  <2>2. Names(json, handle.id)
    BY WrittenNames
  <2> HIDE DEF json
  <2> DEFINE r == [op |-> "bulk", mode |-> mode, id |-> handle.id, etag |-> handle.etag, json |-> json]
  <2>3. r.op = "bulk" /\ r.id = handle.id /\ r.etag = handle.etag /\ r.json = json /\ r # Nothing
    BY <1>1
  <2>4. Requests(r)
    BY <2>1
  <2> HIDE DEF r
  <2> QED
    BY <1>3, <2>1, <2>2, <2>3, <2>4, AsksInv
<1>8. CASE prov_sc_query_records
  <2> DEFINE r == [op |-> "query", token |-> cont_token]
  <2>1. Requests(r) /\ cont_token' = cont_token
    BY <1>8 DEF prov_sc_query_records, add_query_headers
  <2>2. r.op = "query" /\ r.token = cont_token /\ r # Nothing
    BY <1>1
  <2> HIDE DEF r
  <2>3. CASE cont_token = 0
    <3>1. page' = <<>> /\ present' = {id \in Individuals : stored[id] # Nothing}
      BY <1>8, <2>3 DEF prov_sc_query_records
    <3>2. DOMAIN page' = {} /\ page' \in Seq(Individuals)
      BY <3>1
    <3>3. PagesUpTo(cont_token)'
      BY <2>1, <2>3, <3>2 DEF PagesUpTo
    <3> QED
      BY <2>1, <2>2, <3>1, <3>2, <3>3, AsksInv
  <2>4. CASE cont_token # 0
    <3>1. UNCHANGED queryVars
      BY <1>8, <2>1, <2>4 DEF prov_sc_query_records, queryVars
    <3> QED
      BY <1>3, <2>1, <2>2, <2>4, <3>1, AsksInv
  <2> QED
    BY <2>3, <2>4
<1> QED
  BY <1>4, <1>5, <1>6, <1>7, <1>8

\* The service's records stay records, and what is present is there, when one is written or deleted.
LEMMA WritesKeeps ==
  ASSUME EnrollmentInv, NEW id \in Ids, NEW x, Writes(id, x), x = Nothing \/ RecordOf(x, id)
  PROVE  /\ stored' = [i \in Ids |-> stored'[i]] /\ stored'[id] = x
         /\ \A i \in Ids : stored'[i] = Nothing \/ RecordOf(stored'[i], i)
         /\ present' \subseteq present /\ \A i \in present' : stored'[i] # Nothing
         /\ cont_token' = cont_token /\ page' = page /\ skipped' = skipped
<1>1. stored' = [stored EXCEPT ![id] = x] /\ present' = (IF x = Nothing THEN present \ {id} ELSE present)
      /\ cont_token' = cont_token /\ page' = page /\ skipped' = skipped
  BY DEF Writes
<1>2. stored = [i \in Ids |-> stored[i]] /\ (\A i \in Ids : stored[i] = Nothing \/ RecordOf(stored[i], i))
      /\ present \subseteq Ids /\ \A i \in present : stored[i] # Nothing
  BY DEF EnrollmentInv, EnrollmentTypeOK, PagingInv, Ids
<1>3. stored' = [i \in Ids |-> IF i = id THEN x ELSE stored[i]]
  BY <1>1, <1>2
<1> QED
  BY <1>1, <1>2, <1>3

\* Fewer present enrollments make no page short.
LEMMA FewerPresent ==
  ASSUME NEW n, PagesUpTo(n), present' \subseteq present, page' = page
  PROVE  PagesUpTo(n)'
BY DEF PagesUpTo

\* Another service writes between the client's calls.
LEMMA ForeignInv ==
  ASSUME EnrollmentInv, ForeignWrite
  PROVE  EnrollmentInv'
<1>1. http_state = "DISCONNECTED" /\ UNCHANGED <<mechanism, handle, live, seen, http_state, request, response, outcome>>
  BY DEF ForeignWrite, heldVars
<1>2. response = Nothing
  BY <1>1 DEF EnrollmentInv, RepliedInv
<1>3. \E id \in Ids : \E x : Writes(id, x) /\ (x = Nothing \/ RecordOf(x, id))
  <2>1. PICK id \in Individuals :
          \/ Puts(id, Foreign(id), Version(foreign'))
          \/ stored[id] # Nothing /\ Puts(id, Join(One("iotEdge", "edgeOn"), stored[id].json), Version(foreign'))
          \/ Writes(id, Nothing)
    BY DEF ForeignWrite
  <2>2. id \in Ids
    BY DEF Ids
  <2>4. Names(Foreign(id), id)
    BY DEF Names, Foreign
  <2>5. stored[id] # Nothing => Names(Join(One("iotEdge", "edgeOn"), stored[id].json), id)
    <3> SUFFICES ASSUME stored[id] # Nothing PROVE Names(Join(One("iotEdge", "edgeOn"), stored[id].json), id)
      OBVIOUS
    <3>1. Names(stored[id].json, id)
      BY <2>2 DEF EnrollmentInv, EnrollmentTypeOK, RecordOf
    <3> QED
      BY <3>1, EdgeNames
  <2>6. CASE Puts(id, Foreign(id), Version(foreign'))
    <3>1. \E x : Writes(id, x) /\ (x = Nothing \/ RecordOf(x, id))
      <4> DEFINE v == Version(foreign')
                 x == [version |-> v, json |-> Join(One("etag", v), Kept(Foreign(id)))]
      <4>1. Writes(id, x)
        BY <2>6 DEF Puts
      <4>2. RecordOf(x, id)
        <5> HIDE DEF v
        <5> QED
          BY <2>4, KeptNames
      <4> HIDE DEF x
      <4> QED
        BY <4>1, <4>2
    <3> QED
      BY <2>2, <3>1
  <2>7. CASE stored[id] # Nothing /\ Puts(id, Join(One("iotEdge", "edgeOn"), stored[id].json), Version(foreign'))
    <3> DEFINE v == Version(foreign')
               json == Join(One("iotEdge", "edgeOn"), stored[id].json)
               x == [version |-> v, json |-> Join(One("etag", v), Kept(json))]
    <3>1. Writes(id, x)
      BY <2>7 DEF Puts
    <3>2. Names(json, id)
      BY <2>5, <2>7
    <3>3. RecordOf(x, id)
      <4> HIDE DEF v, json
      <4> QED
        BY <3>2, KeptNames
    <3> HIDE DEF x
    <3> QED
      BY <2>2, <3>1, <3>3
  <2>8. CASE Writes(id, Nothing)
    BY <2>2, <2>8
  <2> QED
    BY <2>1, <2>6, <2>7, <2>8
<1>4. PICK id \in Ids : \E x : Writes(id, x) /\ (x = Nothing \/ RecordOf(x, id))
  BY <1>3
<1>5. PICK x : Writes(id, x) /\ (x = Nothing \/ RecordOf(x, id))
  BY <1>4
<1>6. /\ stored' = [i \in Ids |-> stored'[i]]
      /\ \A i \in Ids : stored'[i] = Nothing \/ RecordOf(stored'[i], i)
      /\ present' \subseteq present /\ \A i \in present' : stored'[i] # Nothing
      /\ cont_token' = cont_token /\ page' = page /\ skipped' = skipped
  BY <1>5, WritesKeeps
<1>7. EnrollmentTypeOK'
  BY <1>1, <1>6 DEF EnrollmentInv, EnrollmentTypeOK
<1>8. HandInv' /\ MechanismsOwned' /\ AskedInv'
  BY <1>1, <1>6 DEF EnrollmentInv, HandInv, MechanismsOwned, AskedInv
<1>9. RepliedInv'
  BY <1>1, <1>2 DEF RepliedInv
<1>10. PagingInv'
  BY <1>1, <1>6, FewerPresent DEF EnrollmentInv, PagingInv, Is
<1>11. NoWriteLost'
  BY <1>1 DEF EnrollmentInv, NoWriteLost, Is
<1> QED
  BY <1>7, <1>8, <1>9, <1>10, <1>11 DEF EnrollmentInv

\* Two elements are two.
LEMMA PairCardinality ==
  ASSUME NEW a, NEW b
  PROVE  IsFiniteSet({a, b}) /\ (a # b => Cardinality({a, b}) = 2)
<1>1. IsFiniteSet({a}) /\ Cardinality({a}) = 1
  BY FS_Singleton
<1>2. {a, b} = {a} \cup {b}
  OBVIOUS
<1> QED
  BY <1>1, <1>2, FS_AddElement

\* The service's answer to a call about one enrollment.
LEMMA AnswersOneInv ==
  ASSUME EnrollmentInv, request # Nothing, http_state = "REQUEST_SENT", request.op # "query", IsReply(response'),
         UNCHANGED <<heldVars, http_state, request, outcome>>,
         UNCHANGED <<stored, queryVars>> \/ \E x : Writes(request.id, x) /\ (x = Nothing \/ RecordOf(x, request.id)),
         request.op \in {"put", "delete", "bulk"} /\ response'.code \in 200..299 =>
           (request.op = "bulk" /\ response'.errors) \/ request.etag = 0 \/ response'.before.version = request.etag,
         request.op \in {"put", "get"} /\ response'.code \in 200..299 =>
           response'.body = response'.after /\ RecordOf(response'.after, request.id)
  PROVE  EnrollmentInv'
<1>1. UNCHANGED <<mechanism, handle, live, seen, http_state, request, outcome>>
  BY DEF heldVars
<1>2. request.op \in {"put", "delete", "bulk", "get"}
  BY DEF EnrollmentInv, AskedInv
<1>3. request.id \in Ids
  BY <1>2 DEF EnrollmentInv, AskedInv, HandInv
<1>4. /\ stored' = [i \in Ids |-> stored'[i]]
      /\ \A i \in Ids : stored'[i] = Nothing \/ RecordOf(stored'[i], i)
      /\ present' \subseteq present /\ \A i \in present' : stored'[i] # Nothing
      /\ cont_token' = cont_token /\ page' = page /\ skipped' = skipped
  <2>1. CASE UNCHANGED <<stored, queryVars>>
    BY <2>1 DEF EnrollmentInv, EnrollmentTypeOK, PagingInv, queryVars
  <2>2. CASE \E x : Writes(request.id, x) /\ (x = Nothing \/ RecordOf(x, request.id))
    <3>1. PICK x : Writes(request.id, x) /\ (x = Nothing \/ RecordOf(x, request.id))
      BY <2>2
    <3> QED
      BY <1>3, <3>1, WritesKeeps
  <2> QED
    BY <2>1, <2>2
<1>5. EnrollmentTypeOK'
  BY <1>1, <1>4 DEF EnrollmentInv, EnrollmentTypeOK
<1>6. HandInv' /\ MechanismsOwned'
  BY <1>1 DEF EnrollmentInv, HandInv, MechanismsOwned
<1>7. AskedInv'
  BY <1>1, <1>4 DEF EnrollmentInv, AskedInv
<1>8. RepliedInv'
  BY <1>1, <1>2 DEF RepliedInv
<1>9. PagingInv'
  BY <1>1, <1>4, FewerPresent DEF EnrollmentInv, PagingInv, Is
<1>10. NoWriteLost'
  BY <1>1 DEF EnrollmentInv, NoWriteLost, Is
<1> QED
  BY <1>5, <1>6, <1>7, <1>8, <1>9, <1>10 DEF EnrollmentInv

\* The service's answer to a query.
LEMMA ListsInv ==
  ASSUME EnrollmentInv, request # Nothing, http_state = "REQUEST_SENT", ServiceLists,
         UNCHANGED <<heldVars, http_state, request, outcome>>
  PROVE  EnrollmentInv'
<1>1. request.op = "query" /\ UNCHANGED <<mechanism, handle, live, seen, http_state, request, outcome>>
      /\ UNCHANGED <<stored, cont_token, page, present, skipped>>
  BY DEF ServiceLists, heldVars, queryVars
<1> DEFINE more == {i \in DOMAIN Order : i > request.token /\ stored[Order[i]] # Nothing}
           first == CHOOSE i \in more : \A j \in more : i <= j
           body == IF more = {} THEN <<>> ELSE <<Order[first]>>
           token == IF Cardinality(more) > 1 THEN first ELSE 0
<1>2. response' = [code |-> 200, before |-> Nothing, after |-> Nothing, whole |-> "all", body |-> body, token |-> token]
  BY DEF ServiceLists
<1>3. Total \in Nat /\ DOMAIN Order = 1..Total /\ request.token \in 0..Total
  BY <1>1, OrderMeetsAll DEF EnrollmentInv, EnrollmentTypeOK, AskedInv
<1>4. more \subseteq 1..Total
  BY <1>3
<1>5. \A k \in 1..Total : Order[k] \in present => k <= request.token \/ k \in more
  BY <1>1, <1>3 DEF EnrollmentInv, PagingInv
<1>6. response'.body = body /\ response'.token = token /\ IsPage(response')
  <2> HIDE DEF body, token
  <2> QED
    BY <1>2 DEF IsPage
<1>7. PageOf(response', request.token, present)
  <2>1. CASE more = {}
    <3>1. Cardinality(more) = 0
      BY <2>1, FS_EmptySet
    <3>2. body = <<>> /\ token = 0
      BY <2>1, <3>1
    <3> HIDE DEF body, token
    <3>3. \A k \in 1..Total : Order[k] \in present => k <= request.token
      BY <1>5, <2>1
    <3> HIDE DEF more
    <3> QED
      BY <1>1, <1>3, <1>6, <3>2, <3>3 DEF PageOf
  <2>2. CASE more # {}
    <3>1. \E i \in more : \A j \in more : i <= j
      <4> HIDE DEF more
      <4>1. more \subseteq Nat
        BY <1>3, <1>4
      <4> QED
        BY <1>3, <2>2, <4>1, LeastNatural
    <3>2. first \in more /\ \A j \in more : first <= j
      <4> HIDE DEF more
      <4> QED
        BY <3>1
    <3>3. first \in 1..Total /\ first > request.token
      BY <1>3, <3>2
    <3>4. body = <<Order[first]>>
      BY <2>2
    <3>5. token \in {0, first}
      OBVIOUS
    <3>6. token = 0 => \A j \in more : j = first
      <4> SUFFICES ASSUME token = 0, NEW j \in more PROVE j = first
        OBVIOUS
      <4>1. IsFiniteSet(more)
        <5>1. IsFiniteSet(1..Total)
          BY <1>3, FS_Interval
        <5> HIDE DEF more
        <5> QED
          BY <1>4, <5>1, FS_Subset
      <4> HIDE DEF more, first
      <4>2. first # 0
        BY <1>3, <3>3
      <4>3. ~(Cardinality(more) > 1)
        BY <4>2
      <4>4. Cardinality(more) \in Nat
        BY <4>1, FS_CardinalityType
      <4>5. Cardinality(more) <= 1
        BY <4>3, <4>4
      <4>6. IsFiniteSet({first, j}) /\ (j # first => Cardinality({first, j}) = 2)
        BY PairCardinality
      <4>7. {first, j} \subseteq more
        BY <3>2
      <4>8. Cardinality({first, j}) <= Cardinality(more)
        BY <4>1, <4>7, FS_Subset
      <4> QED
        BY <4>4, <4>5, <4>6, <4>8
    <3> HIDE DEF more, first, body, token
    <3>7. \A k \in 1..Total : Order[k] \in present =>
            k <= request.token \/ k = first \/ (k > first /\ token = first)
      BY <1>4, <1>5, <3>2, <3>3, <3>5, <3>6
    <3>8. token \in 0..Total
      BY <1>3, <3>3, <3>5
    <3> QED
      BY <1>1, <1>6, <3>3, <3>4, <3>5, <3>7, <3>8 DEF PageOf
  <2> QED
    BY <2>1, <2>2
<1> HIDE DEF more, first, body, token
<1>8. EnrollmentTypeOK' /\ HandInv' /\ MechanismsOwned'
  BY <1>1 DEF EnrollmentInv, EnrollmentTypeOK, HandInv, MechanismsOwned
<1>9. AskedInv'
  BY <1>1 DEF EnrollmentInv, AskedInv
<1>10. RepliedInv'
  BY <1>1, <1>6, <1>7 DEF RepliedInv
<1>11. PagingInv' /\ NoWriteLost'
  BY <1>1 DEF EnrollmentInv, PagingInv, PagesUpTo, NoWriteLost, Is
<1> QED
  BY <1>8, <1>9, <1>10, <1>11 DEF EnrollmentInv

\* The service acts on a call, and answers it.
LEMMA ServiceInv ==
  ASSUME EnrollmentInv, ServiceActs
  PROVE  EnrollmentInv'
<1>1. http_state = "REQUEST_SENT" /\ UNCHANGED <<heldVars, http_state, request, outcome>>
  BY DEF ServiceActs
<1>2. request # Nothing
  BY <1>1 DEF EnrollmentInv, AskedInv
<1>3. request.op \in {"put", "delete", "bulk", "get"} => request.id \in Ids
  BY DEF EnrollmentInv, AskedInv, HandInv
<1>4. stored = [i \in Ids |-> stored[i]] /\ \A i \in Ids : stored[i] = Nothing \/ RecordOf(stored[i], i)
  BY DEF EnrollmentInv, EnrollmentTypeOK
<1>5. ASSUME NEW code, NEW before, NEW after, Answers(code, before, after)
      PROVE  /\ IsReply(response') /\ response'.code = code /\ response'.before = before /\ response'.after = after
             /\ response'.body = after
  BY <1>5 DEF Answers, IsReply
<1>6. CASE ServicePuts
  <2>1. request.op \in {"put", "bulk"}
    BY <1>6 DEF ServicePuts
  <2>2. CASE RefusesEnrollment
    <3>1. UNCHANGED <<stored, queryVars>> /\ Answers(412, stored[request.id], stored[request.id])
      BY <1>6, <2>2 DEF ServicePuts
    <3>2. IsReply(response') /\ response'.code = 412
      BY <3>1 DEF Answers, IsReply
    <3> QED
      BY <1>1, <1>2, <2>1, <3>1, <3>2, AnswersOneInv
  <2>3. CASE ~RefusesEnrollment
    <3> DEFINE v == Version(foreign)
               x == [version |-> v, json |-> Join(One("etag", v), Kept(request.json))]
    <3>1. Writes(request.id, x) /\ Answers(200, stored[request.id], stored'[request.id])
      BY <1>6, <2>3 DEF ServicePuts, Puts
    <3>2. Names(request.json, request.id)
      BY <2>1 DEF EnrollmentInv, AskedInv
    <3>3. RecordOf(x, request.id)
      <4> HIDE DEF v
      <4> QED
        BY <3>2, KeptNames
    <3> HIDE DEF x
    <3>4. stored'[request.id] = x
      BY <1>3, <2>1, <3>1, <3>3, WritesKeeps
    <3>5. IsReply(response') /\ response'.code = 200 /\ response'.before = stored[request.id] /\ response'.after = x
          /\ response'.body = x
      BY <3>1, <3>4 DEF Answers, IsReply
    <3>6. request.etag = 0 \/ stored[request.id].version = request.etag
      BY <2>3 DEF RefusesEnrollment
    <3> QED
      BY <1>1, <1>2, <2>1, <3>1, <3>3, <3>5, <3>6, AnswersOneInv
  <2> QED
    BY <2>2, <2>3
<1>7. CASE ServiceDeletes
  <2>1. request.op \in {"delete", "bulk"}
    BY <1>7 DEF ServiceDeletes
  <2>2. CASE RefusesEnrollment \/ stored[request.id] = Nothing
    <3>1. UNCHANGED <<stored, queryVars>> /\ Answers(404, stored[request.id], stored[request.id])
      BY <1>7, <2>2 DEF ServiceDeletes
    <3>2. IsReply(response') /\ response'.code = 404
      BY <3>1 DEF Answers, IsReply
    <3> QED
      BY <1>1, <1>2, <2>1, <3>1, <3>2, AnswersOneInv
  <2>3. CASE ~(RefusesEnrollment \/ stored[request.id] = Nothing)
    <3>1. Writes(request.id, Nothing) /\ Answers(200, stored[request.id], Nothing)
      BY <1>7, <2>3 DEF ServiceDeletes
    <3>2. IsReply(response') /\ response'.before = stored[request.id]
      BY <3>1 DEF Answers, IsReply
    <3>3. request.etag = 0 \/ stored[request.id].version = request.etag
      BY <2>3 DEF RefusesEnrollment
    <3> QED
      BY <1>1, <1>2, <2>1, <3>1, <3>2, <3>3, AnswersOneInv
  <2> QED
    BY <2>2, <2>3
<1>8. CASE ServiceRefusesBulk
  <2>1. request.op = "bulk" /\ UNCHANGED <<stored, queryVars>>
        /\ response' = [code |-> 200, before |-> stored[request.id], after |-> stored[request.id], body |-> Nothing,
                        whole |-> "all", errors |-> TRUE]
    BY <1>8 DEF ServiceRefusesBulk
  <2>2. IsReply(response') /\ response'.errors
    BY <2>1 DEF IsReply
  <2> QED
    BY <1>1, <1>2, <2>1, <2>2, AnswersOneInv
<1>9. CASE ServiceGets
  <2>1. request.op = "get" /\ UNCHANGED <<stored, queryVars>>
        /\ Answers(IF stored[request.id] = Nothing THEN 404 ELSE 200, stored[request.id], stored[request.id])
    BY <1>9 DEF ServiceGets
  <2>2. /\ IsReply(response') /\ response'.code = (IF stored[request.id] = Nothing THEN 404 ELSE 200)
        /\ response'.body = stored[request.id] /\ response'.after = stored[request.id]
    BY <2>1 DEF Answers, IsReply
  <2>3. response'.code \in 200..299 => RecordOf(stored[request.id], request.id)
    BY <1>3, <1>4, <2>1, <2>2
  <2> QED
    BY <1>1, <1>2, <2>1, <2>2, <2>3, AnswersOneInv
<1>10. CASE ServiceLists
  BY <1>1, <1>2, <1>10, ListsInv
<1> QED
  BY <1>6, <1>7, <1>8, <1>9, <1>10 DEF ServiceActs

\* The request is sent or fails, and its answer arrives or does not.
LEMMA ConnectionInv ==
  ASSUME EnrollmentInv, on_enrollment_connected \/ on_enrollment_reply_recv \/ on_http_error
  PROVE  EnrollmentInv'
<1>1. UNCHANGED <<stored, mechanism, handle, live, seen, request, outcome, cont_token, page, present, skipped>>
  BY DEF on_enrollment_connected, on_enrollment_reply_recv, on_http_error, heldVars, queryVars
<1>2. request # Nothing /\ http_state' \in {"REQUEST_SENT", "REQUEST_RECV", "ERROR"}
  BY DEF EnrollmentInv, AskedInv, on_enrollment_connected, on_enrollment_reply_recv, on_http_error
<1>3. EnrollmentTypeOK' /\ HandInv' /\ AskedInv' /\ MechanismsOwned'
  BY <1>1, <1>2 DEF EnrollmentInv, EnrollmentTypeOK, HandInv, AskedInv, MechanismsOwned
<1>4. RepliedInv'
  <2>1. CASE on_enrollment_connected
    <3>1. response' = Nothing /\ http_state' # "REQUEST_RECV"
      BY <2>1 DEF EnrollmentInv, RepliedInv, on_enrollment_connected
    <3> QED
      BY <1>2, <3>1 DEF RepliedInv
  <2>2. CASE on_http_error
    <3>1. response' = response /\ http_state' = "ERROR"
      BY <2>2 DEF on_http_error
    <3> QED
      BY <1>1, <3>1 DEF EnrollmentInv, RepliedInv
  <2>3. CASE on_enrollment_reply_recv
    <3>1. response # Nothing /\ http_state' = IF response.code \in 200..299 THEN "REQUEST_RECV" ELSE "ERROR"
      BY <2>3 DEF on_enrollment_reply_recv
    <3>2. \E w : response' = [response EXCEPT !.whole = w]
      BY <2>3 DEF on_enrollment_reply_recv
    <3>3. PICK w : response' = [response EXCEPT !.whole = w]
      BY <3>2
    <3>4. CASE request.op = "query"
      <4>1. IsPage(response) /\ PageOf(response, request.token, present)
        BY <3>1, <3>4 DEF EnrollmentInv, RepliedInv
      <4>2. IsPage(response') /\ response'.token = response.token /\ response'.body = response.body
            /\ response'.code = response.code
        BY <3>3, <4>1 DEF IsPage
      <4>3. DOMAIN response' = {"code", "before", "after", "whole", "body", "token"}
        BY <4>2 DEF IsPage
      <4>4. response' # Nothing
        BY <4>3 DEF Nothing
      <4>5. PageOf(response', request.token, present)
        BY <4>1, <4>2 DEF PageOf
      <4> QED
        BY <1>1, <1>2, <3>1, <3>4, <4>2, <4>4, <4>5 DEF RepliedInv
    <3>5. CASE request.op # "query"
      <4>1. IsReply(response)
        BY <3>1, <3>5 DEF EnrollmentInv, RepliedInv
      <4>2. /\ IsReply(response') /\ response'.code = response.code /\ response'.before = response.before
            /\ response'.after = response.after /\ response'.body = response.body /\ response'.errors = response.errors
        BY <3>3, <4>1 DEF IsReply
      <4>3. DOMAIN response' = {"code", "before", "after", "body", "whole", "errors"}
        BY <4>2 DEF IsReply
      <4>4. response' # Nothing
        BY <4>3 DEF Nothing
      <4> QED
        BY <1>1, <1>2, <3>1, <3>5, <4>2, <4>4 DEF EnrollmentInv, RepliedInv
    <3> QED
      BY <3>4, <3>5
  <2> QED
    BY <2>1, <2>2, <2>3
<1>5. PagingInv' /\ NoWriteLost'
  BY <1>1 DEF EnrollmentInv, PagingInv, PagesUpTo, NoWriteLost, Is
<1> QED
  BY <1>3, <1>4, <1>5 DEF EnrollmentInv

\* A call ends.
LEMMA CallEndsInv ==
  ASSUME EnrollmentInv, NEW result, Ends(result),
         result = "OK" => http_state = "REQUEST_RECV" /\ ~(request.op = "bulk" /\ response.errors),
         HandInv', live' \in Int, MechanismsOwned',
         cont_token' \in 0..Total, page' \in Seq(Individuals), present' = present,
         cont_token' # 0 /\ ~skipped' => PagesUpTo(cont_token)',
         request.op = "query" /\ result = "OK" /\ cont_token' = 0 /\ ~skipped' => PagesUpTo(Total)'
  PROVE  EnrollmentInv'
<1>1. stored' = stored /\ mechanism' = mechanism /\ response' = Nothing /\ request' = Nothing /\ http_state' = "DISCONNECTED"
  BY DEF Ends, clear_response
<1>2. Nothing.op = "none"
  BY DEF Nothing
<1>3. request # Nothing
  BY DEF Ends, EnrollmentInv, AskedInv
<1>4. EnrollmentTypeOK' /\ AskedInv' /\ RepliedInv'
  BY <1>1, <1>2 DEF EnrollmentInv, EnrollmentTypeOK, AskedInv, RepliedInv
<1> DEFINE found == IF response = Nothing THEN 0 ELSE response.before.version
<1>5. outcome' = [op |-> request.op, result |-> result, found |-> found, seen |-> seen]
  BY DEF Ends
<1>6. outcome'.op = request.op /\ outcome'.result = result /\ outcome'.found = found /\ outcome'.seen = seen
  <2> HIDE DEF found
  <2> QED
    BY <1>5
<1>7. NoWriteLost'
  <2>1. SUFFICES ASSUME request.op \in {"put", "bulk", "delete"}, result = "OK", seen # 0 PROVE found = seen
    <3> HIDE DEF found
    <3> QED
      BY <1>6 DEF NoWriteLost, Is
  <2>2. response # Nothing /\ response.code \in 200..299
    BY <2>1 DEF EnrollmentInv, RepliedInv
  <2>3. request.etag = seen
    BY <1>3, <2>1 DEF EnrollmentInv, AskedInv, HandInv
  <2>4. response.before.version = request.etag
    BY <2>1, <2>2, <2>3 DEF EnrollmentInv, RepliedInv
  <2> QED
    BY <2>2, <2>3, <2>4
<1>8. PagingInv'
  <2>1. \A id \in present' : stored'[id] # Nothing
    BY <1>1 DEF EnrollmentInv, PagingInv
  <2> HIDE DEF found
  <2> QED
    BY <1>1, <1>2, <1>6, <2>1 DEF PagingInv, Is
<1> QED
  BY <1>4, <1>7, <1>8 DEF EnrollmentInv

\* The enrollment of a page after those of the pages before it.
LEMMA NextPage ==
  ASSUME page \in Seq(Individuals), NEW upTo \in 0..Total, NEW first \in 1..Total, first > upTo, NEW n \in first..Total,
         PagesUpTo(upTo), page' = page \o <<Order[first]>>, present' = present,
         \A k \in 1..n : Order[k] \in present => k <= upTo \/ k = first
  PROVE  PagesUpTo(n)' /\ page' \in Seq(Individuals)
<1>1. Total \in Nat /\ Order \in [1..Total -> Individuals] /\ \A i, j \in 1..Total : Order[i] = Order[j] => i = j
  BY OrderMeetsAll
<1>2. Len(page) \in Nat /\ DOMAIN page = 1..Len(page)
  OBVIOUS
<1>3. Order[first] \in Individuals
  BY <1>1
<1>4. /\ page' \in Seq(Individuals) /\ DOMAIN page' = 1..(Len(page) + 1) /\ page'[Len(page) + 1] = Order[first]
      /\ \A i \in DOMAIN page : page'[i] = page[i]
  BY <1>2, <1>3
<1>5. \A i \in DOMAIN page : page[i] # Order[first]
  <2> SUFFICES ASSUME NEW i \in DOMAIN page PROVE page[i] # Order[first]
    OBVIOUS
  <2>1. PICK k \in 1..upTo : page[i] = Order[k]
    BY DEF PagesUpTo
  <2> QED
    BY <1>1, <2>1
<1>6. \A i, j \in DOMAIN page' : page'[i] = page'[j] => i = j
  <2> SUFFICES ASSUME NEW i \in DOMAIN page', NEW j \in DOMAIN page', page'[i] = page'[j] PROVE i = j
    OBVIOUS
  <2>1. (i \in DOMAIN page \/ i = Len(page) + 1) /\ (j \in DOMAIN page \/ j = Len(page) + 1)
    BY <1>2, <1>4
  <2> QED
    BY <1>4, <1>5, <2>1 DEF PagesUpTo
<1>7. \A i \in DOMAIN page' : \E k \in 1..n : page'[i] = Order[k]
  <2> SUFFICES ASSUME NEW i \in DOMAIN page' PROVE \E k \in 1..n : page'[i] = Order[k]
    OBVIOUS
  <2>1. CASE i \in DOMAIN page
    <3>1. PICK k \in 1..upTo : page[i] = Order[k]
      BY <2>1 DEF PagesUpTo
    <3>2. k \in 1..n
      BY <1>1
    <3> QED
      BY <1>4, <2>1, <3>1, <3>2
  <2>2. CASE i = Len(page) + 1
    <3>1. first \in 1..n
      BY <1>1
    <3> QED
      BY <1>4, <2>2, <3>1
  <2> QED
    BY <1>2, <1>4, <2>1, <2>2
<1>8. ASSUME NEW k \in 1..n, Order[k] \in present PROVE \E i \in DOMAIN page' : page'[i] = Order[k]
  <2>1. CASE k = first
    BY <1>2, <1>4, <2>1
  <2>2. CASE k <= upTo
    <3>1. k \in 1..upTo
      BY <2>2
    <3>2. PICK i \in DOMAIN page : page[i] = Order[k]
      BY <1>8, <3>1 DEF PagesUpTo
    <3> QED
      BY <1>2, <1>4, <3>2
  <2> QED
    BY <1>8, <2>1, <2>2
<1> QED
  BY <1>4, <1>6, <1>7, <1>8 DEF PagesUpTo

\* A query ends: its page is added to those before.
LEMMA QueriedInv ==
  ASSUME EnrollmentInv, Queried
  PROVE  EnrollmentInv'
<1> DEFINE result == IF Succeeds /\ Readable THEN "OK" ELSE "FAILURE"
<1>1. request.op = "query" /\ Ends(result) /\ UNCHANGED <<present, handle, seen, live, mechanism>>
  BY DEF Queried, Ends
<1>2. result = "OK" <=> Succeeds /\ Readable
  OBVIOUS
<1> HIDE DEF result
<1>3. HandInv' /\ MechanismsOwned' /\ live' \in Int
  BY <1>1 DEF EnrollmentInv, EnrollmentTypeOK, HandInv, MechanismsOwned
<1>4. request # Nothing /\ request.token = cont_token /\ cont_token \in 0..Total /\ page \in Seq(Individuals)
  BY <1>1 DEF Ends, EnrollmentInv, AskedInv, EnrollmentTypeOK
<1>5. ~skipped => PagesUpTo(cont_token)
  BY <1>1 DEF EnrollmentInv, PagingInv
<1>6. Total \in Nat
  BY OrderMeetsAll
<1>7. CASE ~Succeeds
  <2>1. cont_token' = cont_token /\ page' = page /\ skipped' = skipped
    BY <1>7 DEF Queried
  <2>2. ~skipped' => PagesUpTo(cont_token)'
    BY <1>1, <1>5, <2>1, FewerPresent
  <2> QED
    BY <1>1, <1>2, <1>3, <1>4, <1>7, <2>1, <2>2, CallEndsInv
<1>8. CASE Succeeds
  <2>1. response # Nothing /\ http_state = "REQUEST_RECV"
    BY <1>8 DEF Succeeds, EnrollmentInv, RepliedInv
  <2>2. PageOf(response, cont_token, present)
    BY <1>1, <1>4, <2>1 DEF EnrollmentInv, RepliedInv
  <2>3. cont_token' = (IF response.whole = "noHeaders" THEN 0 ELSE response.token)
        /\ page' = (IF Readable THEN page \o response.body ELSE page) /\ (skipped' <=> skipped \/ ~Readable)
    BY <1>8 DEF Queried, get_response_headers
  <2>4. cont_token' \in 0..Total
    BY <1>6, <2>2, <2>3 DEF PageOf
  <2>5. CASE ~Readable
    BY <1>1, <1>2, <1>3, <1>4, <2>1, <2>3, <2>4, <2>5, CallEndsInv
  <2>6. CASE Readable
    <3>1. cont_token' = response.token /\ page' = page \o response.body /\ (skipped' <=> skipped)
      BY <2>3, <2>6 DEF Readable
    <3>2. CASE response.body = <<>> /\ response.token = 0 /\ \A k \in 1..Total : Order[k] \in present => k <= cont_token
      <4>1. page' = page
        BY <1>4, <3>1, <3>2
      <4>2. ~skipped' => PagesUpTo(Total)'
        BY <1>1, <1>4, <1>5, <1>6, <3>1, <3>2, <4>1 DEF PagesUpTo
      <4> QED
        BY <1>1, <1>2, <1>3, <1>4, <2>1, <2>4, <3>1, <3>2, <4>1, <4>2, CallEndsInv
    <3>3. CASE \E first \in 1..Total :
                 /\ response.body = <<Order[first]>> /\ first > cont_token /\ response.token \in {0, first}
                 /\ \A k \in 1..Total : Order[k] \in present =>
                      k <= cont_token \/ k = first \/ (k > first /\ response.token = first)
      <4>1. PICK first \in 1..Total :
              /\ response.body = <<Order[first]>> /\ first > cont_token /\ response.token \in {0, first}
              /\ \A k \in 1..Total : Order[k] \in present =>
                   k <= cont_token \/ k = first \/ (k > first /\ response.token = first)
        BY <3>3
      <4>2. Order[first] \in Individuals /\ page' = page \o <<Order[first]>>
        BY <3>1, <4>1, OrderMeetsAll
      <4>3. page' \in Seq(Individuals)
        BY <1>4, <4>2
      <4>4. ~skipped' /\ cont_token' # 0 => PagesUpTo(first)'
        <5> SUFFICES ASSUME ~skipped', cont_token' # 0 PROVE PagesUpTo(first)'
          OBVIOUS
        <5>1. PagesUpTo(cont_token)
          BY <1>5, <3>1
        <5>2. \A k \in 1..first : Order[k] \in present => k <= cont_token \/ k = first
          BY <1>6, <4>1
        <5>3. first \in first..Total
          BY <1>6
        <5> QED
          BY <1>1, <1>4, <4>1, <4>2, <5>1, <5>2, <5>3, NextPage
      <4>5. ~skipped' /\ cont_token' = 0 => PagesUpTo(Total)'
        <5> SUFFICES ASSUME ~skipped', cont_token' = 0 PROVE PagesUpTo(Total)'
          OBVIOUS
        <5>1. PagesUpTo(cont_token)
          BY <1>5, <3>1
        <5>2. \A k \in 1..Total : Order[k] \in present => k <= cont_token \/ k = first
          BY <1>6, <3>1, <4>1
        <5>3. Total \in first..Total
          BY <1>6
        <5> QED
          BY <1>1, <1>4, <4>1, <4>2, <5>1, <5>2, <5>3, NextPage
      <4>6. cont_token' # 0 => cont_token' = first
        BY <3>1, <4>1
      <4>7. cont_token' # 0 /\ ~skipped' => PagesUpTo(cont_token)'
        BY <4>4, <4>6 DEF PagesUpTo
      <4> QED
        BY <1>1, <1>2, <1>3, <2>1, <2>4, <4>3, <4>5, <4>7, CallEndsInv
    <3> QED
      BY <2>2, <3>2, <3>3 DEF PageOf
  <2> QED
    BY <2>5, <2>6
<1> QED
  BY <1>7, <1>8

\* The other calls end.
LEMMA EndingsInv ==
  ASSUME EnrollmentInv, Updated \/ Deleted \/ Got \/ BulkRan
  PROVE  EnrollmentInv'
<1>1. mechanism' = mechanism /\ stored' = stored /\ UNCHANGED <<cont_token, page, present, skipped>> /\ request # Nothing
  BY DEF Updated, Deleted, Got, BulkRan, Ends, queryVars, EnrollmentInv, AskedInv
<1>2. /\ live \in Int /\ live = Exists(mechanism) + Exists(handle) /\ HandInv
      /\ cont_token \in 0..Total /\ page \in Seq(Individuals) /\ (cont_token # 0 /\ ~skipped => PagesUpTo(cont_token))
  BY DEF EnrollmentInv, EnrollmentTypeOK, MechanismsOwned, PagingInv
<1>3. cont_token' \in 0..Total /\ page' \in Seq(Individuals) /\ present' = present
      /\ (cont_token' # 0 /\ ~skipped' => PagesUpTo(cont_token)')
  BY <1>1, <1>2 DEF PagesUpTo
<1>4. Exists(Nothing) = 0 /\ \A x : x # Nothing => Exists(x) = 1
  BY DEF Exists
<1>5. request.op \in {"put", "get"} /\ Succeeds =>
        response.body = response.after /\ RecordOf(response.after, request.id) /\ request.id \in Ids
  BY <1>1 DEF Succeeds, EnrollmentInv, RepliedInv, AskedInv, HandInv
<1> DEFINE read == deserializeFromJson(response.body.json)
<1>6. request.op \in {"put", "get"} /\ Succeeds =>
        IsEnrollment(read) /\ read.id \in Ids /\ read.etag = response.after.version /\ read # Nothing
  <2> SUFFICES ASSUME request.op \in {"put", "get"}, Succeeds
               PROVE  IsEnrollment(read) /\ read.id \in Ids /\ read.etag = response.after.version /\ read # Nothing
    OBVIOUS
  <2>1. RecordOf(response.after, request.id) /\ request.id \in Ids /\ read = deserializeFromJson(response.after.json)
    BY <1>5
  <2> HIDE DEF read
  <2>2. IsEnrollment(read) /\ read.id = request.id /\ read.etag = response.after.version
    BY <2>1, ReadRecord
  <2> QED
    BY <2>1, <2>2, RecordsAre
<1> HIDE DEF read
<1>7. ASSUME NEW result, Ends(result), request.op # "query",
             result = "OK" => Succeeds /\ ~(request.op = "bulk" /\ response.errors),
             handle' = handle, seen' = seen, live' = live
      PROVE  EnrollmentInv'
  <2>1. HandInv' /\ MechanismsOwned' /\ live' \in Int
    BY <1>1, <1>2, <1>7 DEF HandInv, MechanismsOwned
  <2> QED
    BY <1>3, <1>7, <2>1, CallEndsInv DEF Succeeds
<1>8. ASSUME NEW result, Ends(result), request.op \in {"put", "get"}, Succeeds,
             handle' = read, seen' = response.after.version, live' = live + 1 - Exists(handle)
      PROVE  EnrollmentInv'
  <2>1. HandInv'
    BY <1>6, <1>8 DEF HandInv
  <2>2. MechanismsOwned' /\ live' \in Int
    <3>1. Exists(handle') = 1 /\ Exists(mechanism) \in {0, 1} /\ Exists(handle) \in {0, 1}
      BY <1>4, <1>6, <1>8 DEF Exists
    <3>2. Exists(mechanism)' = Exists(mechanism)
      BY <1>1 DEF Exists
    <3>3. live' = Exists(mechanism)' + Exists(handle')
      BY <1>2, <1>8, <3>1, <3>2
    <3> QED
      BY <1>2, <1>8, <3>1, <3>3 DEF MechanismsOwned, Exists
  <2>3. ~(request.op = "bulk" /\ response.errors)
    BY <1>8
  <2> QED
    BY <1>3, <1>8, <2>1, <2>2, <2>3, CallEndsInv DEF Succeeds
<1>9. CASE Updated
  <2> DEFINE result == IF Succeeds /\ Readable THEN "OK" ELSE "FAILURE"
  <2>1. request.op = "put" /\ Ends(result) /\ handle # Nothing
    BY <1>1, <1>9 DEF Updated, EnrollmentInv, AskedInv
  <2>2. result = "OK" <=> Succeeds /\ Readable
    OBVIOUS
  <2> HIDE DEF result
  <2>3. CASE Succeeds /\ Readable
    <3>1. handle' = read /\ seen' = response.after.version /\ live' = live
      BY <1>9, <2>3 DEF Updated, read
    <3>2. live' = live + 1 - Exists(handle)
      BY <1>2, <1>4, <2>1, <3>1
    <3> QED
      BY <1>8, <2>1, <2>3, <3>1, <3>2
  <2>4. CASE Succeeds /\ ~Readable
    <3>1. handle' = Nothing /\ seen' = 0 /\ live' = live - 1
      BY <1>9, <2>4 DEF Updated, attestationMechanism_destroy
    <3>2. HandInv'
      BY <3>1 DEF HandInv
    <3>3. MechanismsOwned' /\ live' \in Int
      <4>1. live' = Exists(mechanism') + Exists(handle')
        <5>1. Exists(handle) = 1 /\ Exists(handle') = 0 /\ Exists(mechanism') = Exists(mechanism)
          BY <1>1, <1>4, <2>1, <3>1
        <5>2. Exists(mechanism) \in {0, 1}
          BY DEF Exists
        <5> QED
          BY <1>2, <3>1, <5>1, <5>2
      <4> QED
        BY <1>2, <3>1, <4>1 DEF MechanismsOwned
    <3>4. result # "OK"
      BY <2>2, <2>4
    <3> QED
      BY <1>3, <2>1, <3>2, <3>3, <3>4, CallEndsInv
  <2>5. CASE ~Succeeds
    <3>1. handle' = handle /\ seen' = seen /\ live' = live
      BY <1>9, <2>5 DEF Updated
    <3> QED
      BY <1>7, <2>1, <2>2, <2>5, <3>1
  <2> QED
    BY <2>3, <2>4, <2>5
<1>10. CASE Deleted
  <2>1. request.op = "delete" /\ Ends(IF Succeeds THEN "OK" ELSE "FAILURE") /\ handle' = handle /\ seen' = seen /\ live' = live
    BY <1>10 DEF Deleted
  <2> QED
    BY <1>7, <2>1
<1>11. CASE BulkRan
  <2> DEFINE result == IF ~(Succeeds /\ Readable) THEN "FAILURE" ELSE IF response.errors THEN "ERRORS" ELSE "OK"
  <2>1. request.op = "bulk" /\ Ends(result) /\ handle' = handle /\ seen' = seen /\ live' = live
    BY <1>11 DEF BulkRan
  <2>2. result = "OK" => Succeeds /\ ~response.errors
    OBVIOUS
  <2> HIDE DEF result
  <2> QED
    BY <1>7, <2>1, <2>2
<1>12. CASE Got
  <2> DEFINE result == IF Succeeds /\ Readable THEN "OK" ELSE "FAILURE"
  <2>1. request.op = "get" /\ Ends(result) /\ handle = Nothing
    BY <1>1, <1>12 DEF Got, EnrollmentInv, AskedInv
  <2>2. result = "OK" <=> Succeeds /\ Readable
    OBVIOUS
  <2> HIDE DEF result
  <2>3. CASE Succeeds /\ Readable
    <3>1. handle' = read /\ seen' = response.after.version /\ live' = live + 1
      BY <1>12, <2>3 DEF Got, read
    <3>2. live' = live + 1 - Exists(handle)
      BY <1>2, <1>4, <2>1, <3>1
    <3> QED
      BY <1>8, <2>1, <2>3, <3>1, <3>2
  <2>4. CASE ~(Succeeds /\ Readable)
    <3>1. handle' = handle /\ seen' = seen /\ live' = live
      BY <1>12, <2>4 DEF Got
    <3> QED
      BY <1>7, <2>1, <2>2, <2>4, <3>1
  <2> QED
    BY <2>3, <2>4
<1> QED
  BY <1>9, <1>10, <1>11, <1>12

\* Nothing was asked yet.
LEMMA EnrollmentInitInv ==
  ASSUME EnrollmentInit
  PROVE  EnrollmentInv
<1>1. Nothing.op = "none" /\ Exists(Nothing) = 0 /\ Total \in Nat
  BY OrderMeetsAll DEF Nothing, Exists
<1>2. stored = [id \in Ids |-> stored[id]] /\ \A id \in Ids : stored[id] = Nothing \/ RecordOf(stored[id], id)
  <2> DEFINE kept(i) == [version |-> 1, json |-> Join(One("etag", 1), Kept(Foreign(i)))]
  <2>1. stored = [i \in Ids |-> IF i \in Groups THEN Nothing ELSE kept(i)]
    BY DEF EnrollmentInit, Ids
  <2>2. ASSUME NEW id PROVE RecordOf(kept(id), id)
    <3>1. Names(Foreign(id), id)
      BY DEF Names, Foreign
    <3> QED
      BY <3>1, KeptNames
  <2> HIDE DEF kept
  <2> QED
    BY <2>1, <2>2
<1>3. EnrollmentTypeOK
  <2>1. http_state = "DISCONNECTED" /\ live = 0 /\ cont_token = 0 /\ page = <<>> /\ present = {}
    BY DEF EnrollmentInit
  <2>2. page \in Seq(Individuals) /\ cont_token \in 0..Total
    BY <1>1, <2>1
  <2> QED
    BY <1>2, <2>1, <2>2 DEF EnrollmentTypeOK
<1>4. HandInv /\ AskedInv /\ RepliedInv /\ MechanismsOwned
  BY <1>1 DEF EnrollmentInit, HandInv, AskedInv, RepliedInv, MechanismsOwned
<1>5. PagingInv /\ NoWriteLost
  BY <1>1 DEF EnrollmentInit, PagingInv, NoWriteLost, Is
<1> QED
  BY <1>3, <1>4, <1>5 DEF EnrollmentInv

\* Pages that hold the present enrollments, each once, count each of them once.
LEMMA PagesCount ==
  ASSUME EnrollmentInv
  PROVE  PagesWhole
<1> SUFFICES ASSUME Is("query"), cont_token = 0, ~skipped, NEW id \in Individuals
             PROVE  Count(id) <= 1 /\ (id \in present => Count(id) = 1)
  BY DEF PagesWhole
<1>1. PagesUpTo(Total)
  BY DEF EnrollmentInv, PagingInv
<1> DEFINE met == {i \in DOMAIN page : page[i] = id}
<1>2. Count(id) = Cardinality(met)
  BY DEF Count
<1>3. CASE met = {}
  <2>1. Count(id) = 0
    BY <1>2, <1>3, FS_EmptySet
  <2>2. id \notin present
    <3>1. PICK k \in 1..Total : Order[k] = id
      BY OrderMeetsAll
    <3> QED
      BY <1>1, <1>3, <3>1 DEF PagesUpTo
  <2> QED
    BY <2>1, <2>2
<1>4. CASE met # {}
  <2>1. PICK i \in met : TRUE
    BY <1>4
  <2>2. met = {i}
    BY <1>1, <2>1 DEF PagesUpTo
  <2>3. Count(id) = 1
    BY <1>2, <2>2, FS_Singleton
  <2> QED
    BY <2>3
<1> QED
  BY <1>3, <1>4

\* Nothing happens, and everything stays.
LEMMA EnrollmentsRest ==
  ASSUME EnrollmentInv, UNCHANGED enrollmentVars
  PROVE  EnrollmentInv'
<1>1. EnrollmentTypeOK'
  BY DEF enrollmentVars, EnrollmentInv, EnrollmentTypeOK
<1>2. HandInv'
  BY DEF enrollmentVars, EnrollmentInv, HandInv
<1>3. AskedInv'
  BY DEF enrollmentVars, EnrollmentInv, AskedInv
<1>4. RepliedInv'
  BY DEF enrollmentVars, EnrollmentInv, RepliedInv
<1>5. PagingInv'
  BY DEF enrollmentVars, EnrollmentInv, PagingInv, PagesUpTo, Is
<1>6. NoWriteLost'
  BY DEF enrollmentVars, EnrollmentInv, NoWriteLost, Is
<1>7. MechanismsOwned'
  BY DEF enrollmentVars, EnrollmentInv, MechanismsOwned
<1> QED
  BY <1>1, <1>2, <1>3, <1>4, <1>5, <1>6, <1>7 DEF EnrollmentInv

\* Whoever else writes, and however the requests end: an update, a deletion or a bulk operation that returns 0
\* met the version that was read; each mechanism is owned once; pages that were all read hold every enrollment.
THEOREM EnrollmentsAreSound == EnrollmentSpec => []EnrollmentsSound
<1>1. EnrollmentInit => EnrollmentInv
  BY EnrollmentInitInv
<1>2. EnrollmentInv /\ [EnrollmentNext]_enrollmentVars => EnrollmentInv'
  <2>1. ASSUME EnrollmentInv, EnrollmentNext PROVE EnrollmentInv'
    BY <2>1, HandsActInv, AskingInv, ServiceInv, ForeignInv, ConnectionInv, EndingsInv, QueriedInv DEF EnrollmentNext
  <2>2. ASSUME EnrollmentInv, UNCHANGED enrollmentVars PROVE EnrollmentInv'
    BY <2>2, EnrollmentsRest
  <2> QED
    BY <2>1, <2>2
<1>3. EnrollmentInv => EnrollmentsSound
  BY PagesCount DEF EnrollmentInv, EnrollmentsSound
<1> QED
  BY <1>1, <1>2, <1>3, PTL DEF EnrollmentSpec

\* A certificate, and what it says.
IsCertificate(c) == c = [certificate |-> c.certificate, info |-> c.info]
Text(c) == IF c = Nothing THEN None ELSE IF c.certificate # None THEN c.certificate ELSE c.info

Kinds == {"tpm", "client", "signing", "caReferences"}

\* The certificates of a client or a signer are such; references and keys are as they are.
CertificatesOK(a) ==
  a.type \in {"client", "signing"} =>
    /\ IsCertificate(a.certificates.primary)
    /\ a.certificates.secondary = Nothing \/ IsCertificate(a.certificates.secondary)

\* What the service keeps of an attestation mechanism.
KeptCertificates(j) == [w \in DOMAIN j |-> Known(j[w])]
KeptAttestation(j) ==
  IF j.type = "tpm" THEN j
  ELSE [j EXCEPT !.x509 = [k \in DOMAIN j.x509 |-> IF k = "caReferences" THEN j.x509[k] ELSE KeptCertificates(j.x509[k])]]

\* A certificate is no Nothing.
LEMMA CertificateIs ==
  ASSUME NEW c, IsCertificate(c)
  PROVE  c # Nothing
<1>1. DOMAIN c = {"certificate", "info"}
  BY DEF IsCertificate
<1> QED
  BY <1>1 DEF Nothing

\* A certificate comes back as its information, which says the same.
LEMMA CertificateReturns ==
  ASSUME NEW c, IsCertificate(c)
  PROVE  LET r == x509CertificateWithInfo_fromJson(Known(x509CertificateWithInfo_toJson(c)))
         IN IsCertificate(r) /\ Text(r) = Text(c)
<1> DEFINE j == x509CertificateWithInfo_toJson(c)
           r == x509CertificateWithInfo_fromJson(Known(j))
<1>1. r = [certificate |-> copy_json_string_field(Known(j), "certificate"), info |-> copy_json_string_field(Known(j), "info")]
  BY DEF x509CertificateWithInfo_fromJson
<1>2. j = Join(Field("certificate", c.certificate), Field("info", c.info))
  BY DEF x509CertificateWithInfo_toJson
<1>3. Text(c) = IF c.certificate # None THEN c.certificate ELSE c.info
  BY CertificateIs DEF Text
<1> HIDE DEF j, r
<1>4. IsCertificate(r)
  <2>1. r.certificate = copy_json_string_field(Known(j), "certificate") /\ r.info = copy_json_string_field(Known(j), "info")
    BY <1>1
  <2> QED
    BY <1>1, <2>1 DEF IsCertificate
<1>5. Text(r) = IF r.certificate # None THEN r.certificate ELSE r.info
  BY <1>4, CertificateIs DEF Text
<1>6. CASE c.certificate # None
  <2>1. "certificate" \in DOMAIN j /\ j.certificate = c.certificate
    BY <1>2, <1>6 DEF Join, Field, One
  <2>2. Known(j) = [info |-> c.certificate]
    BY <2>1 DEF Known
  <2>3. DOMAIN Known(j) = {"info"} /\ Known(j).info = c.certificate
    BY <2>2
  <2>4. r.certificate = None /\ r.info = c.certificate
    BY <1>1, <2>3 DEF copy_json_string_field
  <2> QED
    BY <1>3, <1>4, <1>5, <1>6, <2>4 DEF r, j
<1>7. CASE c.certificate = None
  <2>1. DOMAIN Field("certificate", c.certificate) = {}
    BY <1>7 DEF Field
  <2>2. "certificate" \notin DOMAIN j
    BY <1>2, <2>1 DEF Join, Field, One
  <2>3. Known(j) = j
    BY <2>2 DEF Known
  <2>4. r.certificate = None /\ r.info = copy_json_string_field(j, "info")
    BY <1>1, <2>2, <2>3 DEF copy_json_string_field
  <2>5. copy_json_string_field(j, "info") = c.info
    BY <1>2, <2>1 DEF copy_json_string_field, Join, Field, One
  <2> QED
    BY <1>3, <1>4, <1>5, <1>7, <2>4, <2>5 DEF r, j
<1> QED
  BY <1>6, <1>7

\* Both certificates of a client or a signer come back.
LEMMA CertificatesReturn ==
  ASSUME NEW c, IsCertificate(c.primary), c.secondary = Nothing \/ IsCertificate(c.secondary)
  PROVE  LET r == x509Certificates_fromJson(KeptCertificates(x509Certificates_toJson(c)))
         IN /\ IsCertificate(r.primary) /\ (r.secondary = Nothing \/ IsCertificate(r.secondary))
            /\ Text(r.primary) = Text(c.primary) /\ Text(r.secondary) = Text(c.secondary)
<1> DEFINE p == x509CertificateWithInfo_toJson(c.primary)
           s == x509CertificateWithInfo_toJson(c.secondary)
           j == x509Certificates_toJson(c)
           k == KeptCertificates(j)
           r == x509Certificates_fromJson(k)
<1>1. j = Join(One("primary", p), IF c.secondary = Nothing THEN <<>> ELSE One("secondary", s))
  BY DEF x509Certificates_toJson
<1>2. r = [primary |-> x509CertificateWithInfo_fromJson(k.primary),
           secondary |-> IF "secondary" \in DOMAIN k THEN x509CertificateWithInfo_fromJson(k.secondary) ELSE Nothing]
  BY DEF x509Certificates_fromJson
<1>3. IsCertificate(x509CertificateWithInfo_fromJson(Known(p))) /\ Text(x509CertificateWithInfo_fromJson(Known(p))) = Text(c.primary)
  BY CertificateReturns
<1>4. c.secondary # Nothing =>
        IsCertificate(x509CertificateWithInfo_fromJson(Known(s))) /\ Text(x509CertificateWithInfo_fromJson(Known(s))) = Text(c.secondary)
  BY CertificateReturns
<1>5. DOMAIN k = DOMAIN j /\ \A w \in DOMAIN j : k[w] = Known(j[w])
  BY DEF KeptCertificates
<1> HIDE DEF p, s, j, k, r
<1>6. "primary" \in DOMAIN j /\ j.primary = p
  BY <1>1 DEF Join, One
<1>7. k.primary = Known(p)
  BY <1>5, <1>6
<1>8. CASE c.secondary = Nothing
  <2>1. "secondary" \notin DOMAIN j
    BY <1>1, <1>8 DEF Join, One
  <2>2. r.primary = x509CertificateWithInfo_fromJson(Known(p)) /\ r.secondary = Nothing
    BY <1>2, <1>5, <1>7, <2>1
  <2> QED
    BY <1>3, <1>8, <2>2 DEF r, k, j
<1>9. CASE c.secondary # Nothing
  <2>1. "secondary" \in DOMAIN j /\ j.secondary = s
    BY <1>1, <1>9 DEF Join, One
  <2>2. k.secondary = Known(s) /\ "secondary" \in DOMAIN k
    BY <1>5, <2>1
  <2>3. r.primary = x509CertificateWithInfo_fromJson(Known(p)) /\ r.secondary = x509CertificateWithInfo_fromJson(Known(s))
    BY <1>2, <1>7, <2>2
  <2> QED
    BY <1>3, <1>4, <1>9, <2>3 DEF r, k, j
<1> QED
  BY <1>8, <1>9

\* What a mechanism attests is what its two certificates say.
LEMMA MeaningIs ==
  ASSUME NEW a
  PROVE  /\ a.type \in {"tpm", "caReferences"} => Meaning(a) = <<a.type, a.certificates.primary, a.certificates.secondary>>
         /\ a.type \in {"client", "signing"} =>
              Meaning(a) = <<a.type, Text(a.certificates.primary), Text(a.certificates.secondary)>>
BY DEF Meaning, Text

\* A field that was written reads back; one that was not is none.
LEMMA FieldsReturn ==
  ASSUME NEW k1, NEW k2, k1 # k2, NEW x, NEW y
  PROVE  LET j == Join(Field(k1, x), Field(k2, y)) IN
         copy_json_string_field(j, k1) = x /\ copy_json_string_field(j, k2) = y
<1>1. /\ DOMAIN Field(k1, x) = (IF x = None THEN {} ELSE {k1}) /\ DOMAIN Field(k2, y) = (IF y = None THEN {} ELSE {k2})
      /\ x # None => Field(k1, x)[k1] = x
      /\ y # None => Field(k2, y)[k2] = y
  BY DEF Field, One
<1> QED
  BY <1>1 DEF Join, copy_json_string_field

\* An attestation mechanism comes back with the same meaning.
LEMMA MechanismReturns ==
  ASSUME NEW a, a.type \in Kinds, CertificatesOK(a)
  PROVE  LET j == KeptAttestation(attestationMechanism_toJson(a)) IN Meaning(attestationMechanism_fromJson(j)) = Meaning(a)
<1> DEFINE j == KeptAttestation(attestationMechanism_toJson(a))
           r == attestationMechanism_fromJson(j)
<1>1. CASE a.type = "tpm"
  <2> DEFINE t == tpmAttestation_toJson(a)
             w == [type |-> a.type, tpm |-> t]
  <2>1. j = w
    BY <1>1 DEF attestationMechanism_toJson, KeptAttestation
  <2>2. j.type = "tpm" /\ j.tpm = t
    <3> HIDE DEF t, j
    <3> QED
      BY <1>1, <2>1
  <2>3. r = tpmAttestation_fromJson(t)
    <3> HIDE DEF t, j
    <3> QED
      BY <2>2 DEF attestationMechanism_fromJson
  <2>4. copy_json_string_field(t, "endorsementKey") = a.certificates.primary
        /\ copy_json_string_field(t, "storageRootKey") = a.certificates.secondary
    BY FieldsReturn DEF tpmAttestation_toJson
  <2> HIDE DEF t, r
  <2>5. r.type = "tpm" /\ r.certificates.primary = a.certificates.primary /\ r.certificates.secondary = a.certificates.secondary
    BY <2>3, <2>4 DEF tpmAttestation_fromJson
  <2> QED
    BY <1>1, <2>5, MeaningIs DEF r
<1>2. CASE a.type = "caReferences"
  <2> DEFINE c == x509CAReferences_toJson(a.certificates)
             x == One("caReferences", c)
             w == [type |-> "x509", x509 |-> x]
  <2>1. j = KeptAttestation(w)
    BY <1>2 DEF attestationMechanism_toJson, x509Attestation_toJson
  <2>2. x["caReferences"] = c /\ DOMAIN x = {"caReferences"}
    BY DEF One
  <2>3. w.type = "x509" /\ w.x509 = x /\ DOMAIN w = {"type", "x509"}
    OBVIOUS
  <2> HIDE DEF c, x, w, j
  <2>4. j.type = "x509" /\ j.x509 = [k \in DOMAIN x |-> IF k = "caReferences" THEN x[k] ELSE KeptCertificates(x[k])]
    BY <2>1, <2>3 DEF KeptAttestation
  <2>5. DOMAIN j.x509 = {"caReferences"} /\ j.x509.caReferences = c
    BY <2>2, <2>4
  <2>6. r = x509Attestation_fromJson(j.x509)
    BY <2>4 DEF attestationMechanism_fromJson
  <2> HIDE DEF r
  <2>7. r = [type |-> "caReferences", certificates |-> x509CAReferences_fromJson(c)]
    BY <2>5, <2>6 DEF x509Attestation_fromJson
  <2>8. x509CAReferences_fromJson(c) = [primary |-> a.certificates.primary, secondary |-> a.certificates.secondary]
    <3>1. copy_json_string_field(c, "primary") = a.certificates.primary
          /\ copy_json_string_field(c, "secondary") = a.certificates.secondary
      BY FieldsReturn DEF x509CAReferences_toJson, c
    <3> QED
      BY <3>1 DEF x509CAReferences_fromJson
  <2>9. r.type = a.type /\ r.certificates.primary = a.certificates.primary /\ r.certificates.secondary = a.certificates.secondary
    BY <1>2, <2>7, <2>8
  <2> QED
    BY <1>2, <2>9, MeaningIs DEF r, j
<1>3. CASE a.type \in {"client", "signing"}
  <2> DEFINE key == IF a.type = "client" THEN "clientCertificates" ELSE "signingCertificates"
             c == x509Certificates_toJson(a.certificates)
             x == One(key, c)
             w == [type |-> "x509", x509 |-> x]
             back == x509Certificates_fromJson(KeptCertificates(c))
  <2>1. j = KeptAttestation(w)
    BY <1>3 DEF attestationMechanism_toJson, x509Attestation_toJson
  <2>2. x[key] = c /\ DOMAIN x = {key} /\ key # "caReferences"
    BY DEF One
  <2>3. w.type = "x509" /\ w.x509 = x /\ DOMAIN w = {"type", "x509"}
    OBVIOUS
  <2>4. /\ Text(back.primary) = Text(a.certificates.primary) /\ Text(back.secondary) = Text(a.certificates.secondary)
    BY <1>3, CertificatesReturn DEF CertificatesOK
  <2> HIDE DEF c, x, w, j
  <2>5. j.type = "x509" /\ j.x509 = [k \in DOMAIN x |-> IF k = "caReferences" THEN x[k] ELSE KeptCertificates(x[k])]
    BY <2>1, <2>3 DEF KeptAttestation
  <2>6. DOMAIN j.x509 = {key} /\ j.x509[key] = KeptCertificates(c)
    BY <2>2, <2>5
  <2>7. r = x509Attestation_fromJson(j.x509)
    BY <2>5 DEF attestationMechanism_fromJson
  <2> HIDE DEF r, back
  <2>8. r = [type |-> a.type, certificates |-> back]
    BY <1>3, <2>6, <2>7 DEF x509Attestation_fromJson, back
  <2>9. r.type = a.type /\ r.certificates = back
    BY <2>8
  <2>10. Meaning(r) = <<a.type, Text(back.primary), Text(back.secondary)>>
    BY <1>3, <2>9, MeaningIs
  <2>11. Meaning(a) = <<a.type, Text(a.certificates.primary), Text(a.certificates.secondary)>>
    BY <1>3, MeaningIs
  <2> QED
    BY <2>4, <2>10, <2>11 DEF r, j
<1> QED
  BY <1>1, <1>2, <1>3 DEF Kinds

TwinOK(twin_) == twin_ = Nothing \/ twin_ = [tags |-> twin_.tags, desired |-> twin_.desired]

\* An enrollment that can be written: only devices of their own have the edge capability.
EnrollmentOK(e) ==
  /\ e.attestation.type \in Kinds /\ CertificatesOK(e.attestation) /\ TwinOK(e.twin)
  /\ e.id \in Groups => e.capabilities = None

\* JSON that can be read: there is an attestation mechanism of a kind that is known.
ReadableJson(json, id) ==
  /\ "attestation" \in DOMAIN json
  /\ LET j == json.attestation IN
     /\ "type" \in DOMAIN j
     /\ \/ j.type = "tpm"
        \/ "x509" \in DOMAIN j /\ \E k \in {"clientCertificates", "signingCertificates", "caReferences"} : DOMAIN j.x509 = {k}
  /\ id \in Groups => "iotEdge" \notin DOMAIN json

\* What the service stores of JSON at a version.
StoredJson(json, version) == Join(One("etag", version), Kept(json))

\* The service keeps everything but certificates, of which it keeps what is in them.
LEMMA KeptIs ==
  ASSUME NEW json, "attestation" \in DOMAIN json, NEW version
  PROVE  LET kept == StoredJson(json, version) IN
         /\ DOMAIN kept = DOMAIN json \cup {"etag"}
         /\ \A k \in DOMAIN json : k \notin {"attestation", "etag"} => kept[k] = json[k]
         /\ kept.attestation = KeptAttestation(json.attestation)
<1> DEFINE kept == Kept(json)
<1>1. /\ DOMAIN kept = DOMAIN json
      /\ \A k \in DOMAIN json : k # "attestation" => kept[k] = json[k]
      /\ kept.attestation = KeptAttestation(json.attestation)
  <2>1. CASE json.attestation.type = "tpm"
    BY <2>1 DEF Kept, KeptAttestation
  <2>2. CASE json.attestation.type # "tpm"
    <3> DEFINE c == KeptAttestation(json.attestation)
    <3>1. kept = [json EXCEPT !.attestation = c]
      BY <2>2 DEF Kept, KeptAttestation, KeptCertificates
    <3> HIDE DEF c
    <3>2. DOMAIN kept = DOMAIN json /\ kept.attestation = c /\ \A k \in DOMAIN json : k # "attestation" => kept[k] = json[k]
      BY <3>1
    <3> QED
      BY <3>2 DEF c
  <2> QED
    BY <2>1, <2>2
<1>2. StoredJson(json, version) = Join(One("etag", version), kept)
  BY DEF StoredJson
<1> HIDE DEF kept
<1> QED
  BY <1>1, <1>2 DEF Join, One

\* What is written of an enrollment.
LEMMA WrittenIs ==
  ASSUME NEW e, e.id \in Groups => e.capabilities = None
  PROVE  LET j == serializeToJson(e) IN
         /\ {"attestation", "provisioningStatus"} \subseteq DOMAIN j /\ j.provisioningStatus = e.status
         /\ j.attestation = attestationMechanism_toJson(e.attestation)
         /\ ("initialTwin" \in DOMAIN j <=> e.twin # Nothing) /\ (e.twin # Nothing => j.initialTwin = initialTwin_toJson(e.twin))
         /\ ("iotEdge" \in DOMAIN j <=> e.capabilities # None) /\ (e.capabilities # None => j.iotEdge = e.capabilities)
         /\ IF e.id \in Groups THEN "enrollmentGroupId" \in DOMAIN j /\ j.enrollmentGroupId = e.id
            ELSE "enrollmentGroupId" \notin DOMAIN j /\ "registrationId" \in DOMAIN j /\ j.registrationId = e.id
<1> DEFINE j == serializeToJson(e)
           t == initialTwin_toJson(e.twin)
           m == attestationMechanism_toJson(e.attestation)
           o == Optional(e)
           f == Field("iotEdge", e.capabilities)
<1>1. /\ DOMAIN o \subseteq {"initialTwin", "etag"}
      /\ "initialTwin" \in DOMAIN o <=> e.twin # Nothing
      /\ e.twin # Nothing => o.initialTwin = t
  <2> HIDE DEF t
  <2>1. o = Join(IF e.twin = Nothing THEN <<>> ELSE One("initialTwin", t), IF e.etag = 0 THEN <<>> ELSE One("etag", e.etag))
    BY DEF Optional, t
  <2>2. DOMAIN (IF e.twin = Nothing THEN <<>> ELSE One("initialTwin", t)) = (IF e.twin = Nothing THEN {} ELSE {"initialTwin"})
    BY DEF One
  <2>3. DOMAIN (IF e.etag = 0 THEN <<>> ELSE One("etag", e.etag)) \subseteq {"etag"}
    BY DEF One
  <2> HIDE DEF o
  <2> QED
    BY <2>1, <2>2, <2>3 DEF Join, One
<1>2. DOMAIN f = (IF e.capabilities = None THEN {} ELSE {"iotEdge"}) /\ (e.capabilities # None => f.iotEdge = e.capabilities)
  BY DEF Field, One
<1> DEFINE g == [enrollmentGroupId |-> e.id, attestation |-> m, provisioningStatus |-> e.status]
           i == [registrationId |-> e.id, attestation |-> m, provisioningStatus |-> e.status]
<1>3. j = IF e.id \in Groups THEN Join(g, o) ELSE Join(i, Join(o, f))
  BY DEF serializeToJson, enrollmentGroup_toJson, individualEnrollment_toJson
<1>4. DOMAIN g = {"enrollmentGroupId", "attestation", "provisioningStatus"}
      /\ g.enrollmentGroupId = e.id /\ g.attestation = m /\ g.provisioningStatus = e.status
  BY DEF g
<1>5. DOMAIN i = {"registrationId", "attestation", "provisioningStatus"}
      /\ i.registrationId = e.id /\ i.attestation = m /\ i.provisioningStatus = e.status
  BY DEF i
<1> HIDE DEF j, t, m, o, f, g, i
<1>6. CASE e.id \in Groups
  <2>1. j = Join(g, o) /\ e.capabilities = None
    BY <1>3, <1>6
  <2> QED
    BY <1>1, <1>4, <1>6, <2>1 DEF Join, j, t, m
<1>7. CASE e.id \notin Groups
  <2> DEFINE rest == Join(o, f)
  <2>1. j = Join(i, rest)
    BY <1>3, <1>7
  <2>2. /\ DOMAIN rest = DOMAIN o \cup DOMAIN f
        /\ "initialTwin" \in DOMAIN o => rest.initialTwin = o.initialTwin
        /\ "iotEdge" \in DOMAIN f => rest.iotEdge = f.iotEdge
    BY <1>1, <1>2 DEF Join
  <2> HIDE DEF rest
  <2>3. /\ "initialTwin" \in DOMAIN j <=> e.twin # Nothing
        /\ e.twin # Nothing => j.initialTwin = t
    BY <1>1, <1>2, <1>5, <2>1, <2>2 DEF Join
  <2>4. /\ "iotEdge" \in DOMAIN j <=> e.capabilities # None
        /\ e.capabilities # None => j.iotEdge = e.capabilities
    BY <1>1, <1>2, <1>5, <2>1, <2>2 DEF Join
  <2>5. /\ {"attestation", "provisioningStatus", "registrationId"} \subseteq DOMAIN j /\ "enrollmentGroupId" \notin DOMAIN j
        /\ j.provisioningStatus = e.status /\ j.attestation = m /\ j.registrationId = e.id
    BY <1>1, <1>2, <1>5, <2>1, <2>2 DEF Join
  <2> QED
    BY <1>7, <2>3, <2>4, <2>5 DEF j, t, m
<1> QED
  BY <1>6, <1>7

\* An initial twin comes back.
LEMMA TwinReturns ==
  ASSUME NEW t, t = [tags |-> t.tags, desired |-> t.desired]
  PROVE  initialTwin_fromJson(initialTwin_toJson(t)) = t
<1> DEFINE j == initialTwin_toJson(t)
           f == Field("tags", t.tags)
           d == Field("desired", t.desired)
           p == IF t.desired = None THEN <<>> ELSE One("properties", d)
<1>1. j = Join(f, p)
  BY DEF initialTwin_toJson, twinCollection_toJson, twinProperties_toJson
<1>2. DOMAIN f = (IF t.tags = None THEN {} ELSE {"tags"}) /\ (t.tags # None => f.tags = t.tags)
  BY DEF Field, One
<1>3. t.desired # None => "desired" \in DOMAIN d /\ d.desired = t.desired
  BY DEF Field, One
<1>4. DOMAIN p = (IF t.desired = None THEN {} ELSE {"properties"}) /\ (t.desired # None => p.properties = d)
  BY DEF One
<1> HIDE DEF j, f, d, p
<1>5. copy_json_string_field(j, "tags") = t.tags
  BY <1>1, <1>2, <1>4 DEF copy_json_string_field, Join
<1>6. twinProperties_fromJson(j) = t.desired
  BY <1>1, <1>2, <1>3, <1>4 DEF twinProperties_fromJson, copy_json_string_field, Join
<1> QED
  BY <1>5, <1>6 DEF initialTwin_fromJson, j

\* An enrollment that is written, stored and read is the one that was written.
LEMMA EnrollmentReturns ==
  ASSUME NEW e, EnrollmentOK(e), NEW version
  PROVE  LET r == deserializeFromJson(StoredJson(serializeToJson(e), version)) IN
         /\ Meaning(r.attestation) = Meaning(e.attestation)
         /\ r.id = e.id /\ r.twin = e.twin /\ r.status = e.status /\ r.capabilities = e.capabilities
<1> DEFINE j == serializeToJson(e)
           s == StoredJson(j, version)
           r == deserializeFromJson(s)
<1>1. /\ {"attestation", "provisioningStatus"} \subseteq DOMAIN j /\ j.provisioningStatus = e.status
      /\ j.attestation = attestationMechanism_toJson(e.attestation)
      /\ ("initialTwin" \in DOMAIN j <=> e.twin # Nothing) /\ (e.twin # Nothing => j.initialTwin = initialTwin_toJson(e.twin))
      /\ ("iotEdge" \in DOMAIN j <=> e.capabilities # None) /\ (e.capabilities # None => j.iotEdge = e.capabilities)
      /\ IF e.id \in Groups THEN "enrollmentGroupId" \in DOMAIN j /\ j.enrollmentGroupId = e.id
         ELSE "enrollmentGroupId" \notin DOMAIN j /\ "registrationId" \in DOMAIN j /\ j.registrationId = e.id
  BY WrittenIs DEF EnrollmentOK
<1> HIDE DEF j
<1>2. /\ DOMAIN s = DOMAIN j \cup {"etag"}
      /\ \A k \in DOMAIN j : k \notin {"attestation", "etag"} => s[k] = j[k]
      /\ s.attestation = KeptAttestation(j.attestation)
  BY <1>1, KeptIs
<1> HIDE DEF s
<1>3. r = Common(s, e.id)
  BY <1>1, <1>2 DEF deserializeFromJson, enrollmentGroup_fromJson, individualEnrollment_fromJson
<1> HIDE DEF r
<1>4. /\ r.id = e.id /\ r.attestation = attestationMechanism_fromJson(s.attestation) /\ r.status = s.provisioningStatus
      /\ r.twin = (IF "initialTwin" \in DOMAIN s THEN initialTwin_fromJson(s.initialTwin) ELSE Nothing)
      /\ r.capabilities = copy_json_string_field(s, "iotEdge")
  BY <1>3 DEF Common
<1>5. r.status = e.status
  BY <1>1, <1>2, <1>4
<1>6. r.twin = e.twin
  <2>1. CASE e.twin = Nothing
    BY <1>1, <1>2, <1>4, <2>1
  <2>2. CASE e.twin # Nothing
    <3>1. r.twin = initialTwin_fromJson(initialTwin_toJson(e.twin))
      BY <1>1, <1>2, <1>4, <2>2
    <3> QED
      BY <2>2, <3>1, TwinReturns DEF EnrollmentOK, TwinOK
  <2> QED
    BY <2>1, <2>2
<1>7. r.capabilities = e.capabilities
  BY <1>1, <1>2, <1>4 DEF copy_json_string_field
<1>8. Meaning(r.attestation) = Meaning(e.attestation)
  BY <1>1, <1>2, <1>4, MechanismReturns DEF EnrollmentOK
<1> QED
  BY <1>4, <1>5, <1>6, <1>7, <1>8 DEF r, s, j

\* What can be read is read as an enrollment that can be written.
LEMMA ReadIsOK ==
  ASSUME NEW json, NEW id, ReadableJson(json, id), Names(json, id)
  PROVE  EnrollmentOK(deserializeFromJson(json))
<1> DEFINE r == deserializeFromJson(json)
           a == attestationMechanism_fromJson(json.attestation)
<1>1. r = Common(json, id)
  BY DEF Names, deserializeFromJson, enrollmentGroup_fromJson, individualEnrollment_fromJson
<1>2. a.type \in Kinds /\ CertificatesOK(a)
  <2>1. ASSUME NEW c PROVE CertificatesOK([type |-> "client", certificates |-> x509Certificates_fromJson(c)])
                           /\ CertificatesOK([type |-> "signing", certificates |-> x509Certificates_fromJson(c)])
    <3> DEFINE b == x509Certificates_fromJson(c)
    <3>1. \A j : IsCertificate(x509CertificateWithInfo_fromJson(j))
      BY DEF IsCertificate, x509CertificateWithInfo_fromJson
    <3>2. IsCertificate(b.primary) /\ (b.secondary = Nothing \/ IsCertificate(b.secondary))
      BY <3>1 DEF x509Certificates_fromJson
    <3> HIDE DEF b
    <3>3. /\ [type |-> "client", certificates |-> b].certificates = b
          /\ [type |-> "signing", certificates |-> b].certificates = b
      OBVIOUS
    <3>4. CertificatesOK([type |-> "client", certificates |-> b]) /\ CertificatesOK([type |-> "signing", certificates |-> b])
      BY <3>2, <3>3 DEF CertificatesOK
    <3> QED
      BY <3>4 DEF b
  <2> DEFINE j == json.attestation
  <2>2. CASE j.type = "tpm"
    <3>1. a.type = "tpm"
      BY <2>2 DEF attestationMechanism_fromJson, tpmAttestation_fromJson
    <3> QED
      BY <3>1 DEF Kinds, CertificatesOK
  <2>3. CASE j.type # "tpm"
    <3>1. a = x509Attestation_fromJson(j.x509)
      BY <2>3 DEF attestationMechanism_fromJson
    <3>2. \/ DOMAIN j.x509 = {"clientCertificates"} \/ DOMAIN j.x509 = {"signingCertificates"}
          \/ DOMAIN j.x509 = {"caReferences"}
      BY <2>3 DEF ReadableJson
    <3> HIDE DEF j, a
    <3>3. CASE DOMAIN j.x509 = {"clientCertificates"}
      <4>1. a = [type |-> "client", certificates |-> x509Certificates_fromJson(j.x509.clientCertificates)]
        BY <3>1, <3>3 DEF x509Attestation_fromJson
      <4>2. a.type = "client"
        BY <4>1
      <4> QED
        BY <2>1, <4>1, <4>2 DEF Kinds, a
    <3>4. CASE DOMAIN j.x509 = {"signingCertificates"}
      <4>1. a = [type |-> "signing", certificates |-> x509Certificates_fromJson(j.x509.signingCertificates)]
        BY <3>1, <3>4 DEF x509Attestation_fromJson
      <4>2. a.type = "signing"
        BY <4>1
      <4> QED
        BY <2>1, <4>1, <4>2 DEF Kinds, a
    <3>5. CASE DOMAIN j.x509 = {"caReferences"}
      <4>1. a = [type |-> "caReferences", certificates |-> x509CAReferences_fromJson(j.x509.caReferences)]
        BY <3>1, <3>5 DEF x509Attestation_fromJson
      <4>2. a.type = "caReferences"
        BY <4>1
      <4> QED
        BY <4>2 DEF Kinds, CertificatesOK, a
    <3> QED
      BY <3>2, <3>3, <3>4, <3>5
  <2> QED
    BY <2>2, <2>3
<1> HIDE DEF r, a
<1>3. r.id = id /\ r.attestation = a
      /\ r.twin = (IF "initialTwin" \in DOMAIN json THEN initialTwin_fromJson(json.initialTwin) ELSE Nothing)
      /\ r.capabilities = copy_json_string_field(json, "iotEdge")
  BY <1>1 DEF Common, a
<1>4. \A j : TwinOK(initialTwin_fromJson(j))
  BY DEF TwinOK, initialTwin_fromJson
<1>5. TwinOK(r.twin)
  BY <1>3, <1>4 DEF TwinOK
<1>6. r.id \in Groups => r.capabilities = None
  BY <1>3 DEF ReadableJson, copy_json_string_field
<1> QED
  BY <1>2, <1>3, <1>5, <1>6 DEF EnrollmentOK, r

\* What is stored can be read when what was sent can.
LEMMA StoredReadable ==
  ASSUME NEW json, NEW id, ReadableJson(json, id), NEW version
  PROVE  ReadableJson(StoredJson(json, version), id)
<1> DEFINE s == StoredJson(json, version)
           j == json.attestation
           k == KeptAttestation(j)
<1>1. "attestation" \in DOMAIN json
  BY DEF ReadableJson
<1>2. DOMAIN s = DOMAIN json \cup {"etag"} /\ s.attestation = k
  BY <1>1, KeptIs
<1> HIDE DEF s
<1>3. "type" \in DOMAIN k /\ (k.type = "tpm" \/ ("x509" \in DOMAIN k /\ \E c \in {"clientCertificates", "signingCertificates", "caReferences"} : DOMAIN k.x509 = {c}))
  <2>1. CASE j.type = "tpm"
    BY <2>1 DEF KeptAttestation, ReadableJson
  <2>2. CASE j.type # "tpm"
    <3> DEFINE x == [c \in DOMAIN j.x509 |-> IF c = "caReferences" THEN j.x509[c] ELSE KeptCertificates(j.x509[c])]
    <3>1. k = [j EXCEPT !.x509 = x]
      BY <2>2 DEF KeptAttestation
    <3>2. DOMAIN x = DOMAIN j.x509
      OBVIOUS
    <3>3. "type" \in DOMAIN j /\ "x509" \in DOMAIN j
          /\ \E c \in {"clientCertificates", "signingCertificates", "caReferences"} : DOMAIN j.x509 = {c}
      BY <2>2 DEF ReadableJson
    <3> HIDE DEF x, k, j
    <3>4. DOMAIN k = DOMAIN j /\ k.x509 = x
      BY <3>1, <3>3
    <3> QED
      BY <3>2, <3>3, <3>4
  <2> QED
    BY <2>1, <2>2
<1> HIDE DEF k, j
<1> QED
  BY <1>1, <1>2, <1>3 DEF ReadableJson, s

\* What is written can be read.
LEMMA WrittenReadable ==
  ASSUME NEW e, EnrollmentOK(e)
  PROVE  ReadableJson(serializeToJson(e), e.id)
<1> DEFINE j == serializeToJson(e)
           a == e.attestation
           m == attestationMechanism_toJson(a)
<1>1. "attestation" \in DOMAIN j /\ j.attestation = m /\ (e.id \in Groups => "iotEdge" \notin DOMAIN j)
  BY WrittenIs DEF EnrollmentOK
<1>2. "type" \in DOMAIN m /\ (m.type = "tpm" \/ ("x509" \in DOMAIN m /\ \E c \in {"clientCertificates", "signingCertificates", "caReferences"} : DOMAIN m.x509 = {c}))
  <2> HIDE DEF a
  <2>1. CASE a.type = "tpm"
    BY <2>1 DEF attestationMechanism_toJson
  <2>2. CASE a.type # "tpm"
    <3> DEFINE x == x509Attestation_toJson(a)
    <3>1. m = [type |-> "x509", x509 |-> x]
      BY <2>2 DEF attestationMechanism_toJson
    <3>2. \E c \in {"clientCertificates", "signingCertificates", "caReferences"} : DOMAIN x = {c}
      <4>1. a.type \in {"client", "signing", "caReferences"}
        BY <2>2 DEF EnrollmentOK, Kinds, a
      <4> QED
        BY <4>1 DEF x509Attestation_toJson, One
    <3> HIDE DEF x, m
    <3> QED
      BY <3>1, <3>2
  <2> QED
    BY <2>1, <2>2
<1> HIDE DEF j, m
<1> QED
  BY <1>1, <1>2 DEF ReadableJson, j

\* What other services write can be read, of an individual enrollment.
LEMMA ForeignReadable ==
  ASSUME NEW id, id \notin Groups
  PROVE  /\ ReadableJson(Foreign(id), id)
         /\ \A json : ReadableJson(json, id) => ReadableJson(Join(One("iotEdge", "edgeOn"), json), id)
<1> DEFINE a == x509Attestation_create("client", None)
           m == attestationMechanism_toJson(a)
           x == x509Attestation_toJson(a)
<1>1. a.type = "client"
  BY DEF x509Attestation_create
<1> HIDE DEF a
<1>2. DOMAIN x = {"clientCertificates"}
  BY <1>1 DEF x509Attestation_toJson, One
<1> HIDE DEF x
<1>3. m = [type |-> "x509", x509 |-> x]
  BY <1>1 DEF attestationMechanism_toJson, x
<1> HIDE DEF m
<1>4. "type" \in DOMAIN m /\ "x509" \in DOMAIN m /\ DOMAIN m.x509 = {"clientCertificates"}
  BY <1>2, <1>3
<1>5. "attestation" \in DOMAIN Foreign(id) /\ Foreign(id).attestation = m
  BY DEF Foreign, m, a
<1>6. ReadableJson(Foreign(id), id)
  BY <1>4, <1>5 DEF ReadableJson
<1>7. ASSUME NEW json, ReadableJson(json, id) PROVE ReadableJson(Join(One("iotEdge", "edgeOn"), json), id)
  <2> DEFINE j == Join(One("iotEdge", "edgeOn"), json)
  <2>1. "attestation" \in DOMAIN j /\ j.attestation = json.attestation
    BY <1>7 DEF ReadableJson, Join, One
  <2> HIDE DEF j
  <2>2. ReadableJson(j, id)
    BY <1>7, <2>1 DEF ReadableJson
  <2> QED
    BY <2>2 DEF j
<1> QED
  BY <1>6, <1>7

\* What the application holds can be written, what the service stores can be read, and an update is of the
\* enrollment in hand until it ends.
ComesBackInv ==
  /\ mechanism # Nothing => CertificatesOK(mechanism)
  /\ handle # Nothing => EnrollmentOK(handle)
  /\ \A id \in Ids : stored[id] # Nothing => ReadableJson(stored[id].json, id)
  /\ request # Nothing => outcome = Nothing
  /\ request.op \in {"put", "bulk"} => request.json = serializeToJson(handle)
  /\ response # Nothing /\ response.code \in 200..299 =>
       /\ request.op = "put" => response.after.json = StoredJson(request.json, response.after.version)
       /\ request.op = "get" => ReadableJson(response.after.json, request.id)

\* A mechanism that is made is one that can be written.
LEMMA MadeIsOK ==
  ASSUME NEW type, NEW secondary
  PROVE  CertificatesOK(x509Attestation_create(type, secondary)) /\ x509Attestation_create(type, secondary).type = type
<1> DEFINE m == x509Attestation_create(type, secondary)
           Whole(c) == IF c = None THEN Nothing ELSE [certificate |-> c, info |-> None]
<1>1. m.type = type
  BY DEF x509Attestation_create
<1>2. CASE type \in {"client", "signing"}
  <2>1. m.certificates = [primary |-> Whole("c1"), secondary |-> Whole(secondary)]
    BY <1>2 DEF x509Attestation_create
  <2>2. IsCertificate(Whole("c1")) /\ (Whole(secondary) = Nothing \/ IsCertificate(Whole(secondary)))
    BY DEF IsCertificate, None
  <2> HIDE DEF m, Whole
  <2> QED
    BY <1>1, <2>1, <2>2 DEF CertificatesOK, m
<1>3. CASE type \notin {"client", "signing"}
  <2> HIDE DEF m
  <2> QED
    BY <1>1, <1>3 DEF CertificatesOK, m
<1> QED
  BY <1>2, <1>3, <1>1

\* The application changes what it holds.
LEMMA HeldComesBack ==
  ASSUME EnrollmentInv, ComesBackInv,
         \/ attestationMechanism_create \/ enrollment_create \/ setAttestationMechanism \/ setInitialTwin
         \/ setProvisioningStatus \/ enrollment_destroy
  PROVE  ComesBackInv'
<1>1. request = Nothing /\ UNCHANGED <<stored, request, response, outcome>>
  BY DEF attestationMechanism_create, enrollment_create, setAttestationMechanism, setInitialTwin, setProvisioningStatus,
         enrollment_destroy, Edits, Idle
<1>2. response = Nothing /\ Nothing.op = "none"
  BY <1>1 DEF EnrollmentInv, AskedInv, Nothing
<1>3. SUFFICES (mechanism' # Nothing => CertificatesOK(mechanism')) /\ (handle' # Nothing => EnrollmentOK(handle'))
  BY <1>1, <1>2 DEF ComesBackInv
<1>4. /\ mechanism # Nothing => CertificatesOK(mechanism)
      /\ handle # Nothing => EnrollmentOK(handle) /\ IsEnrollment(handle)
  BY DEF ComesBackInv, EnrollmentInv, HandInv
<1>5. \A a, id : attestationMechanism_isValid(a, id) => a.type \in Kinds
  BY DEF attestationMechanism_isValid, Kinds
<1>6. CASE attestationMechanism_create
  <2>1. handle' = handle
    BY <1>6 DEF attestationMechanism_create
  <2>2. PICK a \in Attestations : mechanism' = x509Attestation_create(a.type, a.secondary)
    BY <1>6 DEF attestationMechanism_create
  <2> QED
    BY <1>4, <2>1, <2>2, MadeIsOK
<1>7. CASE enrollment_create
  <2>1. mechanism # Nothing /\ mechanism' = Nothing
    BY <1>7 DEF enrollment_create
  <2>2. PICK id \in Own :
          /\ attestationMechanism_isValid(mechanism, id)
          /\ handle' = [id |-> id, attestation |-> mechanism, status |-> "enabled", twin |-> Nothing, etag |-> 0,
                        capabilities |-> IF id \in Groups THEN None ELSE "edgeOff"]
    BY <1>7 DEF enrollment_create
  <2>3. handle'.id = id /\ handle'.attestation = mechanism /\ handle'.twin = Nothing /\ (id \in Groups => handle'.capabilities = None)
    BY <2>2
  <2> QED
    BY <1>4, <1>5, <2>1, <2>2, <2>3 DEF EnrollmentOK, TwinOK
<1>8. ASSUME NEW f \in {"attestation", "twin", "status"}, NEW v, handle # Nothing, handle' = [handle EXCEPT ![f] = v]
      PROVE  /\ DOMAIN handle' = {"id", "attestation", "status", "twin", "etag", "capabilities"}
             /\ handle'[f] = v /\ \A g \in DOMAIN handle' : g # f => handle'[g] = handle[g]
  <2>1. DOMAIN handle = {"id", "attestation", "status", "twin", "etag", "capabilities"}
    BY <1>4, <1>8 DEF IsEnrollment
  <2> QED
    BY <1>8, <2>1
<1>9. CASE setAttestationMechanism
  <2>1. mechanism # Nothing /\ handle # Nothing /\ mechanism' = Nothing /\ attestationMechanism_isValid(mechanism, handle.id)
        /\ handle' = [handle EXCEPT !["attestation"] = mechanism]
    BY <1>9 DEF setAttestationMechanism, Edits
  <2>2. handle'.attestation = mechanism /\ handle'.id = handle.id /\ handle'.twin = handle.twin
        /\ handle'.capabilities = handle.capabilities
    BY <1>8, <2>1
  <2> QED
    BY <1>4, <1>5, <2>1, <2>2 DEF EnrollmentOK
<1>10. CASE setInitialTwin
  <2>1. handle # Nothing /\ mechanism' = mechanism
    BY <1>10 DEF setInitialTwin, Edits
  <2>2. PICK tags, desired \in {None, "v"} :
          LET twin_ == initialTwin_create(tags, desired) IN
          \/ handle' = [handle EXCEPT !.twin = twin_]
          \/ twin_ # Nothing /\ handle' = [handle EXCEPT !.twin = initialTwin_setTags(twin_, None)]
          \/ twin_ # Nothing /\ handle' = [handle EXCEPT !.twin = initialTwin_setDesiredProperties(twin_, None)]
    BY <1>10 DEF setInitialTwin
  <2> DEFINE t == initialTwin_create(tags, desired)
  <2>3. t = Nothing \/ t = [tags |-> tags, desired |-> desired]
    BY DEF initialTwin_create
  <2>4. TwinOK(t)
    BY <2>3 DEF TwinOK
  <2>5. t # Nothing => TwinOK(initialTwin_setTags(t, None)) /\ TwinOK(initialTwin_setDesiredProperties(t, None))
    <3> SUFFICES ASSUME t = [tags |-> tags, desired |-> desired]
                 PROVE  TwinOK(initialTwin_setTags(t, None)) /\ TwinOK(initialTwin_setDesiredProperties(t, None))
      BY <2>3
    <3> HIDE DEF t
    <3>1. initialTwin_setTags(t, None) = [tags |-> None, desired |-> desired]
      BY DEF initialTwin_setTags
    <3>2. initialTwin_setDesiredProperties(t, None) = [tags |-> tags, desired |-> None]
      BY DEF initialTwin_setDesiredProperties
    <3> QED
      BY <3>1, <3>2 DEF TwinOK
  <2> HIDE DEF t
  <2>6. \E v : TwinOK(v) /\ handle' = [handle EXCEPT !["twin"] = v]
    BY <2>2, <2>4, <2>5 DEF t
  <2>7. PICK v : TwinOK(v) /\ handle' = [handle EXCEPT !["twin"] = v]
    BY <2>6
  <2>8. handle'.twin = v /\ handle'.id = handle.id /\ handle'.attestation = handle.attestation
        /\ handle'.capabilities = handle.capabilities
    BY <1>8, <2>1, <2>7
  <2> QED
    BY <1>4, <2>1, <2>7, <2>8 DEF EnrollmentOK
<1>11. CASE setProvisioningStatus
  <2>1. handle # Nothing /\ mechanism' = mechanism /\ handle' = [handle EXCEPT !["status"] = "disabled"]
    BY <1>11 DEF setProvisioningStatus, Edits
  <2>2. handle'.twin = handle.twin /\ handle'.id = handle.id /\ handle'.attestation = handle.attestation
        /\ handle'.capabilities = handle.capabilities
    BY <1>8, <2>1
  <2> QED
    BY <1>4, <2>1, <2>2 DEF EnrollmentOK
<1>12. CASE enrollment_destroy
  BY <1>4, <1>12 DEF enrollment_destroy
<1> QED
  BY <1>6, <1>7, <1>9, <1>10, <1>11, <1>12

\* A call is sent with what the application holds.
LEMMA AskedComesBack ==
  ASSUME EnrollmentInv, ComesBackInv,
         \/ prov_sc_create_or_update_record \/ prov_sc_delete_record_by_param \/ prov_sc_get_record
         \/ prov_sc_run_bulk_operation \/ prov_sc_query_records
  PROVE  ComesBackInv'
<1>1. \E r : Requests(r) /\ (r.op \in {"put", "bulk"} => r.json = serializeToJson(handle))
  <2> DEFINE json == serializeToJson(handle)
  <2>1. CASE prov_sc_create_or_update_record
    <3> DEFINE r == [op |-> "put", id |-> handle.id, etag |-> construct_http_headers(handle.etag), json |-> json]
    <3>1. Requests(r)
      BY <2>1 DEF prov_sc_create_or_update_record
    <3>2. r.json = json
      OBVIOUS
    <3> HIDE DEF r
    <3> QED
      BY <3>1, <3>2
  <2>2. CASE prov_sc_run_bulk_operation
    <3>1. PICK mode \in {"update", "delete"} :
            Requests([op |-> "bulk", mode |-> mode, id |-> handle.id, etag |-> handle.etag, json |-> json])
      BY <2>2 DEF prov_sc_run_bulk_operation
    <3> DEFINE r == [op |-> "bulk", mode |-> mode, id |-> handle.id, etag |-> handle.etag, json |-> json]
    <3>2. Requests(r) /\ r.json = json
      BY <3>1
    <3> HIDE DEF r
    <3> QED
      BY <3>2
  <2>3. CASE prov_sc_delete_record_by_param
    <3> DEFINE r == [op |-> "delete", id |-> handle.id, etag |-> construct_http_headers(handle.etag)]
    <3>1. Requests(r) /\ r.op = "delete"
      BY <2>3 DEF prov_sc_delete_record_by_param
    <3> HIDE DEF r
    <3> QED
      BY <3>1
  <2>4. CASE prov_sc_get_record
    <3>1. PICK id \in Own : Requests([op |-> "get", id |-> id])
      BY <2>4 DEF prov_sc_get_record
    <3> DEFINE r == [op |-> "get", id |-> id]
    <3>2. Requests(r) /\ r.op = "get"
      BY <3>1
    <3> HIDE DEF r
    <3> QED
      BY <3>2
  <2>5. CASE prov_sc_query_records
    <3> DEFINE r == [op |-> "query", token |-> add_query_headers(cont_token)]
    <3>1. Requests(r) /\ r.op = "query"
      BY <2>5 DEF prov_sc_query_records
    <3> HIDE DEF r
    <3> QED
      BY <3>1
  <2> QED
    BY <2>1, <2>2, <2>3, <2>4, <2>5
<1>2. PICK r : Requests(r) /\ (r.op \in {"put", "bulk"} => r.json = serializeToJson(handle))
  BY <1>1
<1>3. request = Nothing /\ request' = r /\ outcome' = Nothing /\ UNCHANGED <<stored, mechanism, handle, response>>
  BY <1>2 DEF Requests, Idle, heldVars
<1>4. response = Nothing
  BY <1>3 DEF EnrollmentInv, AskedInv
<1> QED
  BY <1>2, <1>3, <1>4 DEF ComesBackInv

\* A write of JSON that can be read leaves records that can be read.
LEMMA WritesReadable ==
  ASSUME EnrollmentInv, ComesBackInv, NEW id \in Ids, NEW x, Writes(id, x),
         x = Nothing \/ (RecordOf(x, id) /\ ReadableJson(x.json, id))
  PROVE  \A i \in Ids : stored'[i] # Nothing => ReadableJson(stored'[i].json, i)
<1>1. stored = [i \in Ids |-> stored[i]]
  BY DEF EnrollmentInv, EnrollmentTypeOK
<1>2. stored' = [i \in Ids |-> IF i = id THEN x ELSE stored[i]]
  BY <1>1 DEF Writes
<1> QED
  BY <1>2 DEF ComesBackInv

\* Another service writes.
LEMMA ForeignComesBack ==
  ASSUME EnrollmentInv, ComesBackInv, ForeignWrite
  PROVE  ComesBackInv'
<1>1. UNCHANGED <<mechanism, handle, request, response, outcome>> /\ http_state = "DISCONNECTED"
  BY DEF ForeignWrite, heldVars
<1>2. response = Nothing
  BY <1>1 DEF EnrollmentInv, RepliedInv
<1>3. PICK id \in Individuals :
        \/ Puts(id, Foreign(id), Version(foreign'))
        \/ stored[id] # Nothing /\ Puts(id, Join(One("iotEdge", "edgeOn"), stored[id].json), Version(foreign'))
        \/ Writes(id, Nothing)
  BY DEF ForeignWrite
<1>4. id \in Ids /\ id \notin Groups
  BY EnrollmentsAssumption DEF Ids
<1>5. ASSUME NEW json, Names(json, id), ReadableJson(json, id), Puts(id, json, Version(foreign'))
      PROVE  \A i \in Ids : stored'[i] # Nothing => ReadableJson(stored'[i].json, i)
  <2> DEFINE v == Version(foreign')
             s == StoredJson(json, v)
             x == [version |-> v, json |-> s]
  <2>1. Writes(id, x)
    BY <1>5 DEF Puts, StoredJson
  <2>2. RecordOf(x, id)
    <3> HIDE DEF v
    <3> QED
      BY <1>5, KeptNames DEF StoredJson
  <2>3. ReadableJson(s, id)
    BY <1>5, StoredReadable
  <2> HIDE DEF s
  <2>4. x.json = s
    OBVIOUS
  <2> HIDE DEF x
  <2> QED
    BY <1>4, <2>1, <2>2, <2>3, <2>4, WritesReadable
<1>6. \A i \in Ids : stored'[i] # Nothing => ReadableJson(stored'[i].json, i)
  <2>1. CASE Puts(id, Foreign(id), Version(foreign'))
    <3>1. Names(Foreign(id), id) /\ ReadableJson(Foreign(id), id)
      <4>1. Names(Foreign(id), id)
        BY DEF Names, Foreign
      <4> QED
        BY <1>4, <4>1, ForeignReadable
    <3> QED
      BY <1>5, <2>1, <3>1
  <2>2. CASE stored[id] # Nothing /\ Puts(id, Join(One("iotEdge", "edgeOn"), stored[id].json), Version(foreign'))
    <3>1. Names(stored[id].json, id) /\ ReadableJson(stored[id].json, id)
      BY <1>4, <2>2 DEF EnrollmentInv, EnrollmentTypeOK, RecordOf, ComesBackInv
    <3> DEFINE json == Join(One("iotEdge", "edgeOn"), stored[id].json)
    <3>2. Names(json, id) /\ ReadableJson(json, id)
      BY <1>4, <3>1, EdgeNames, ForeignReadable
    <3> HIDE DEF json
    <3> QED
      BY <1>5, <2>2, <3>2 DEF json
  <2>3. CASE Writes(id, Nothing)
    BY <1>4, <2>3, WritesReadable
  <2> QED
    BY <1>3, <2>1, <2>2, <2>3
<1> QED
  BY <1>1, <1>2, <1>6 DEF ComesBackInv

\* The service stores what it was sent, and answers with it.
LEMMA ServedComesBack ==
  ASSUME EnrollmentInv, ComesBackInv, ServiceActs
  PROVE  ComesBackInv'
<1>1. http_state = "REQUEST_SENT" /\ UNCHANGED <<mechanism, handle, request, outcome>>
  BY DEF ServiceActs, heldVars
<1>2. request # Nothing
  BY <1>1 DEF EnrollmentInv, AskedInv
<1>3. request.op \in {"put", "delete", "bulk", "get"} => request.id \in Ids
  BY DEF EnrollmentInv, AskedInv, HandInv
<1>4. ASSUME \A id \in Ids : stored'[id] # Nothing => ReadableJson(stored'[id].json, id),
             request.op = "put" /\ response'.code \in 200..299 =>
               response'.after.json = StoredJson(request.json, response'.after.version),
             request.op = "get" /\ response'.code \in 200..299 => ReadableJson(response'.after.json, request.id)
      PROVE  ComesBackInv'
  BY <1>1, <1>4 DEF ComesBackInv
<1>5. stored' = stored => \A id \in Ids : stored'[id] # Nothing => ReadableJson(stored'[id].json, id)
  BY DEF ComesBackInv
<1>6. CASE ServicePuts
  <2>1. request.op \in {"put", "bulk"}
    BY <1>6 DEF ServicePuts
  <2>2. CASE RefusesEnrollment
    <3>1. stored' = stored /\ Answers(412, stored[request.id], stored[request.id])
      BY <1>6, <2>2 DEF ServicePuts
    <3>2. response'.code = 412
      BY <3>1 DEF Answers
    <3> QED
      BY <1>4, <1>5, <3>1, <3>2
  <2>3. CASE ~RefusesEnrollment
    <3> DEFINE v == Version(foreign)
               s == StoredJson(request.json, v)
               x == [version |-> v, json |-> s]
    <3>1. Writes(request.id, x) /\ Answers(200, stored[request.id], stored'[request.id])
      BY <1>6, <2>3 DEF ServicePuts, Puts, StoredJson
    <3>2. Names(request.json, request.id) /\ handle # Nothing /\ request.id = handle.id
      BY <2>1 DEF EnrollmentInv, AskedInv
    <3>3. request.json = serializeToJson(handle) /\ EnrollmentOK(handle)
      BY <1>2, <2>1, <3>2 DEF ComesBackInv
    <3>4. RecordOf(x, request.id)
      <4> HIDE DEF v
      <4> QED
        BY <3>2, KeptNames DEF StoredJson
    <3>5. ReadableJson(s, request.id)
      BY <3>2, <3>3, WrittenReadable, StoredReadable
    <3> HIDE DEF s, v
    <3>6. x.json = s /\ x.version = v
      OBVIOUS
    <3> HIDE DEF x
    <3>7. \A i \in Ids : stored'[i] # Nothing => ReadableJson(stored'[i].json, i)
      BY <1>3, <2>1, <3>1, <3>4, <3>5, <3>6, WritesReadable
    <3>8. stored'[request.id] = x
      BY <1>3, <2>1, <3>1, <3>4, WritesKeeps
    <3>9. response'.after = x
      BY <3>1, <3>8 DEF Answers
    <3>10. response'.after.json = StoredJson(request.json, response'.after.version)
      BY <3>6, <3>9 DEF s
    <3> QED
      BY <1>4, <2>1, <3>7, <3>10
  <2> QED
    BY <2>2, <2>3
<1>7. CASE ServiceDeletes
  <2>1. request.op \in {"delete", "bulk"}
    BY <1>7 DEF ServiceDeletes
  <2>2. stored' = stored \/ Writes(request.id, Nothing)
    BY <1>7 DEF ServiceDeletes
  <2>3. \A id \in Ids : stored'[id] # Nothing => ReadableJson(stored'[id].json, id)
    BY <1>3, <1>5, <2>1, <2>2, WritesReadable
  <2> QED
    BY <1>4, <2>1, <2>3
<1>8. CASE ServiceRefusesBulk
  BY <1>4, <1>5, <1>8 DEF ServiceRefusesBulk
<1>9. CASE ServiceGets
  <2>1. request.op = "get" /\ stored' = stored
        /\ Answers(IF stored[request.id] = Nothing THEN 404 ELSE 200, stored[request.id], stored[request.id])
    BY <1>9 DEF ServiceGets
  <2>2. response'.after = stored[request.id] /\ response'.code = (IF stored[request.id] = Nothing THEN 404 ELSE 200)
    BY <2>1 DEF Answers
  <2>3. response'.code \in 200..299 => ReadableJson(response'.after.json, request.id)
    BY <1>3, <1>5, <2>1, <2>2 DEF ComesBackInv
  <2> QED
    BY <1>4, <1>5, <2>1, <2>3
<1>10. CASE ServiceLists
  BY <1>4, <1>5, <1>10 DEF ServiceLists
<1> QED
  BY <1>6, <1>7, <1>8, <1>9, <1>10 DEF ServiceActs

\* The answer arrives as it is, or not at all.
LEMMA ArrivedComesBack ==
  ASSUME EnrollmentInv, ComesBackInv, on_enrollment_connected \/ on_enrollment_reply_recv \/ on_http_error
  PROVE  ComesBackInv'
<1>1. UNCHANGED <<stored, mechanism, handle, request, outcome>>
  BY DEF on_enrollment_connected, on_enrollment_reply_recv, on_http_error, heldVars
<1>2. request # Nothing
  BY DEF EnrollmentInv, AskedInv, on_enrollment_connected, on_enrollment_reply_recv, on_http_error
<1>3. response' = response \/ (response # Nothing /\ \E w : response' = [response EXCEPT !.whole = w])
  BY DEF on_enrollment_connected, on_enrollment_reply_recv, on_http_error
<1>4. response' # Nothing /\ request.op # "query" =>
        response # Nothing /\ response'.code = response.code /\ response'.after = response.after
  <2>1. CASE response' = response
    BY <2>1
  <2>2. CASE response # Nothing /\ \E w : response' = [response EXCEPT !.whole = w]
    <3>1. PICK w : response' = [response EXCEPT !.whole = w]
      BY <2>2
    <3>2. request.op # "query" => IsReply(response)
      BY <2>2 DEF EnrollmentInv, RepliedInv
    <3> QED
      BY <2>2, <3>1, <3>2 DEF IsReply
  <2> QED
    BY <1>3, <2>1, <2>2
<1> QED
  BY <1>1, <1>2, <1>4 DEF ComesBackInv

\* A call ends, with what was read in hand.
LEMMA EndedComesBack ==
  ASSUME EnrollmentInv, ComesBackInv, Updated \/ Deleted \/ Got \/ BulkRan \/ Queried
  PROVE  ComesBackInv'
<1>1. stored' = stored /\ mechanism' = mechanism /\ request' = Nothing /\ response' = Nothing /\ request # Nothing
  BY DEF Updated, Deleted, Got, BulkRan, Queried, Ends, clear_response, EnrollmentInv, AskedInv
<1>2. Nothing.op = "none"
  BY DEF Nothing
<1>3. SUFFICES ASSUME handle' # Nothing, handle' # handle PROVE EnrollmentOK(handle')
  BY <1>1, <1>2 DEF ComesBackInv
<1>4. request.op \in {"put", "get"} /\ Succeeds /\ handle' = deserializeFromJson(response.body.json)
  BY <1>3 DEF Updated, Deleted, Got, BulkRan, Queried
<1>5. response # Nothing /\ response.code \in 200..299 /\ response.body = response.after /\ RecordOf(response.after, request.id)
  BY <1>1, <1>4 DEF Succeeds, EnrollmentInv, RepliedInv
<1>6. ReadableJson(response.after.json, request.id)
  <2>1. CASE request.op = "get"
    BY <1>5, <2>1 DEF ComesBackInv
  <2>2. CASE request.op = "put"
    <3>1. request.id = handle.id /\ handle # Nothing
      BY <2>2 DEF EnrollmentInv, AskedInv
    <3>2. request.json = serializeToJson(handle) /\ EnrollmentOK(handle)
          /\ response.after.json = StoredJson(request.json, response.after.version)
      BY <1>5, <2>2, <3>1 DEF ComesBackInv
    <3> QED
      BY <3>1, <3>2, WrittenReadable, StoredReadable
  <2> QED
    BY <1>4, <2>1, <2>2
<1>7. Names(response.after.json, request.id)
  BY <1>5 DEF RecordOf
<1> QED
  BY <1>4, <1>5, <1>6, <1>7, ReadIsOK

\* An update that returns 0 has what it wrote.
LEMMA UpdatedComesBack ==
  ASSUME EnrollmentInv, ComesBackInv, Updated, outcome'.result = "OK"
  PROVE  /\ Meaning(handle'.attestation) = Meaning(handle.attestation)
         /\ \A f \in {"id", "twin", "status", "capabilities"} : handle'[f] = handle[f]
<1> DEFINE result == IF Succeeds /\ Readable THEN "OK" ELSE "FAILURE"
<1>1. request.op = "put" /\ Ends(result)
  BY DEF Updated
<1>2. outcome'.result = result
  <2> HIDE DEF result
  <2> QED
    BY <1>1 DEF Ends
<1>3. Succeeds /\ Readable
  BY <1>2
<1>4. request # Nothing /\ http_state = "REQUEST_RECV"
  BY <1>1, <1>3 DEF Succeeds, EnrollmentInv, AskedInv, Ends
<1>5. handle # Nothing /\ response # Nothing /\ response.code \in 200..299 /\ response.body = response.after
  BY <1>1, <1>4 DEF EnrollmentInv, AskedInv, RepliedInv
<1>6. response.after.json = StoredJson(serializeToJson(handle), response.after.version) /\ EnrollmentOK(handle)
  BY <1>1, <1>4, <1>5 DEF ComesBackInv
<1>7. handle' = deserializeFromJson(response.body.json)
  BY <1>3 DEF Updated
<1> HIDE DEF result
<1> QED
  BY <1>5, <1>6, <1>7, EnrollmentReturns

\* An enrollment that was written, stored and read again is the one that was written, whatever its attestation,
\* its certificates and its initial twin, whoever made it, and however often it comes and goes.
THEOREM WrittenEnrollmentReturns == EnrollmentSpec => WrittenComesBack
<1>1. EnrollmentInit => EnrollmentInv /\ ComesBackInv
  <2> SUFFICES ASSUME EnrollmentInit PROVE ComesBackInv
    BY EnrollmentInitInv
  <2>1. \A id \in Ids : stored[id] # Nothing => ReadableJson(stored[id].json, id)
    <3> SUFFICES ASSUME NEW id \in Ids, id \notin Groups PROVE ReadableJson(stored[id].json, id)
      BY DEF EnrollmentInit, Ids
    <3> DEFINE s == StoredJson(Foreign(id), 1)
    <3>1. stored[id] = [version |-> 1, json |-> s]
      BY DEF EnrollmentInit, Ids, StoredJson
    <3>2. ReadableJson(s, id)
      BY ForeignReadable, StoredReadable
    <3> HIDE DEF s
    <3> QED
      BY <3>1, <3>2
  <2>2. Nothing.op = "none"
    BY DEF Nothing
  <2>3. mechanism = Nothing /\ handle = Nothing /\ request = Nothing /\ response = Nothing
    BY DEF EnrollmentInit
  <2> QED
    BY <2>1, <2>2, <2>3 DEF ComesBackInv
<1>2. EnrollmentInv /\ ComesBackInv /\ [EnrollmentNext]_enrollmentVars => EnrollmentInv' /\ ComesBackInv'
  <2>1. ASSUME EnrollmentInv, ComesBackInv, EnrollmentNext PROVE EnrollmentInv' /\ ComesBackInv'
    <3>1. EnrollmentInv'
      BY <2>1, HandsActInv, AskingInv, ServiceInv, ForeignInv, ConnectionInv, EndingsInv, QueriedInv DEF EnrollmentNext
    <3>2. ComesBackInv'
      BY <2>1, HeldComesBack, AskedComesBack, ServedComesBack, ForeignComesBack, ArrivedComesBack, EndedComesBack
      DEF EnrollmentNext
    <3> QED
      BY <3>1, <3>2
  <2>2. ASSUME EnrollmentInv, ComesBackInv, UNCHANGED enrollmentVars PROVE EnrollmentInv' /\ ComesBackInv'
    <3>1. EnrollmentInv'
      BY <2>2, EnrollmentsRest
    <3>2. ComesBackInv'
      BY <2>2 DEF enrollmentVars, ComesBackInv
    <3> QED
      BY <3>1, <3>2
  <2> QED
    BY <2>1, <2>2
<1> DEFINE Returns ==
      (request # Nothing /\ request.op = "put" /\ outcome' # Nothing /\ outcome'.result = "OK") =>
        /\ Meaning(handle'.attestation) = Meaning(handle.attestation)
        /\ \A f \in {"id", "twin", "status", "capabilities"} : handle'[f] = handle[f]
<1>3. EnrollmentInv /\ ComesBackInv /\ [EnrollmentNext]_enrollmentVars => [Returns]_enrollmentVars
  <2> SUFFICES ASSUME EnrollmentInv, ComesBackInv, EnrollmentNext, request # Nothing, request.op = "put",
                      outcome' # Nothing, outcome'.result = "OK"
               PROVE  /\ Meaning(handle'.attestation) = Meaning(handle.attestation)
                      /\ \A f \in {"id", "twin", "status", "capabilities"} : handle'[f] = handle[f]
    OBVIOUS
  <2>1. outcome = Nothing
    BY DEF ComesBackInv
  <2>2. ~Idle
    BY DEF Idle
  <2>3. Updated
    BY <2>1, <2>2 DEF EnrollmentNext, attestationMechanism_create, enrollment_create, setAttestationMechanism, setInitialTwin,
      setProvisioningStatus, enrollment_destroy, Edits, prov_sc_create_or_update_record, prov_sc_delete_record_by_param,
      prov_sc_get_record, prov_sc_run_bulk_operation, prov_sc_query_records, Requests, ServiceActs, ForeignWrite,
      on_enrollment_connected, on_enrollment_reply_recv, on_http_error, Deleted, Got, BulkRan, Queried
  <2> QED
    BY <2>3, UpdatedComesBack
<1> QED
  BY <1>1, <1>2, <1>3, PTL DEF EnrollmentSpec, WrittenComesBack
=============================================================================
