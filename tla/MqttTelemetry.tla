--------------------------- MODULE MqttTelemetry ---------------------------
(***************************************************************************)
(* Telemetry of iothubtransport_mqtt_common.c on top of MqttConnection:     *)
(* publishing what waits in waitingToSend, PUBACKs, and the walk of          *)
(* ProcessPendingTelemetryMessages over telemetry_waitingForAck, which       *)
(* resends a message or gives it up and disconnects.  The walk saves its     *)
(* next entry before it disconnects, and DisconnectFromClient runs           *)
(* mqtt_client_dowork, whose PUBACKs free entries.                           *)
(***************************************************************************)
EXTENDS MqttConnection, SequencesExt

CONSTANTS
  Messages,
  PacketIds       \* USHRT_MAX, scaled down: the packet ids are 1 .. PacketIds - 1

MAX_SEND_RECOUNT_LIMIT == 2

ASSUME TelemetryAssumption ==
  /\ {"end", "freed"} \cap Messages = {}
  /\ PacketIds \in Nat /\ PacketIds > 2

VARIABLES
  waitingToSend,
  telemetry_waitingForAck,   \* entries [msg, packet_id, retryCount, overdue]
  packetId,
  walk,         \* the entry the walk is at: its message, "end", or "freed"
  pubacks,      \* external: PUBLISH packets the hub will acknowledge, in order
  result,       \* history: what the application was told of each message
  publishes,    \* history: how often each message was published
  received      \* history: messages the hub has acknowledged

telVars == <<waitingToSend, telemetry_waitingForAck, packetId, walk, pubacks, result,
             publishes, received>>
hubVars == <<pubacks, publishes, received>>

Results == {"OK", "ERROR", "MESSAGE_TIMEOUT", "BECAUSE_DESTROY"}

Awaiting == {telemetry_waitingForAck[i].msg : i \in DOMAIN telemetry_waitingForAck}
\* The position of message m in the list.
At(m) == CHOOSE i \in DOMAIN telemetry_waitingForAck : telemetry_waitingForAck[i].msg = m

PacketIdNeverWraps == packetId + 1 \* mutant: runs past the largest id
getNextPacketId == IF packetId + 1 >= PacketIds THEN 1 ELSE packetId + 1

\* The messages of S are confirmed with r; a second confirmation shows as "twice".
notifyApplicationOfSendMessageComplete(S, r) ==
  result' = [m \in Messages |-> IF m \notin S THEN result[m]
                                ELSE IF result[m] = "none" THEN r ELSE "twice"]

-----------------------------------------------------------------------------

\* IoTHubClientCore_LL_SendEventAsync appends to the list the transport sends from.
SendEvent(m) ==
  /\ ApplicationRuns
  /\ m \notin ToSet(waitingToSend) \cup Awaiting
  /\ result[m] = "none"
  /\ waitingToSend' = Append(waitingToSend, m)
  /\ UNCHANGED <<connVars, telemetry_waitingForAck, packetId, walk, hubVars, result>>

\* mqtt_client_publish of message m succeeds: the hub will acknowledge it.
publishTelemetryMsg(m, id) ==
  /\ link = "up"
  /\ publishes' = [publishes EXCEPT ![m] = @ + 1]
  /\ pubacks' = Append(pubacks, [id |-> id, msg |-> m])
  /\ UNCHANGED received

\* One turn of ProcessPublishStateDoWork: the payload cannot be read, publishing fails,
\* or the message goes on to wait for its PUBACK.
ProcessPublishStateDoWork ==
  LET m == Head(waitingToSend) IN
  /\ pc = "state"
  /\ mqttClientStatus # "PENDING_CLOSE"
  /\ currPacketState = "PUBLISH"
  /\ waitingToSend # <<>>
  /\ waitingToSend' = Tail(waitingToSend)
  /\ \/ /\ packetId' \in {packetId, getNextPacketId}
        /\ notifyApplicationOfSendMessageComplete({m}, "ERROR")
        /\ UNCHANGED <<telemetry_waitingForAck, hubVars>>
     \/ /\ packetId' = getNextPacketId
        /\ publishTelemetryMsg(m, packetId')
        /\ telemetry_waitingForAck' =
             Append(telemetry_waitingForAck,
                    [msg |-> m, packet_id |-> packetId', retryCount |-> 1, overdue |-> FALSE])
        /\ UNCHANGED result
  /\ UNCHANGED <<connVars, walk>>

PubackInOrder == \* mutant: takes PUBACKs to come in the order of the list
  /\ NetworkRuns /\ link = "up" /\ pubacks # <<>> /\ telemetry_waitingForAck # <<>>
  /\ notifyApplicationOfSendMessageComplete({Head(telemetry_waitingForAck).msg}, "OK")
  /\ telemetry_waitingForAck' = Tail(telemetry_waitingForAck)
  /\ received' = received \cup {Head(pubacks).msg}
  /\ pubacks' = Tail(pubacks)
  /\ UNCHANGED <<connVars, waitingToSend, packetId, walk, publishes>>

\* What remains of a list when a walk over it removes entries: the others, in their order.
Remain(others, order) ==
  /\ others = {order[i] : i \in DOMAIN order}
  /\ \A i, j \in DOMAIN order : i < j => order[i] < order[j]

\* mqttOperationCompleteCallback, MQTT_CLIENT_ON_PUBLISH_ACK: every entry with the id.
Puback ==
  LET acked_entries == {i \in DOMAIN telemetry_waitingForAck :
                          telemetry_waitingForAck[i].packet_id = Head(pubacks).id}
      others == DOMAIN telemetry_waitingForAck \ acked_entries IN
  /\ NetworkRuns
  /\ link = "up"
  /\ pubacks # <<>>
  /\ \E order \in [1 .. Cardinality(others) -> others] :
       /\ Remain(others, order)
       /\ telemetry_waitingForAck' =
            [i \in 1 .. Cardinality(others) |-> telemetry_waitingForAck[order[i]]]
  /\ notifyApplicationOfSendMessageComplete(
       {telemetry_waitingForAck[i].msg : i \in acked_entries}, "OK")
  /\ received' = received \cup {Head(pubacks).msg}
  /\ pubacks' = Tail(pubacks)
  /\ UNCHANGED <<connVars, waitingToSend, packetId, walk, publishes>>

-----------------------------------------------------------------------------
(* ProcessPendingTelemetryMessages: one turn of its walk *)

FirstEntry == IF telemetry_waitingForAck = <<>> THEN "end" ELSE telemetry_waitingForAck[1].msg
\* nextListEntry.Flink, read before the current entry is processed.
NextEntry ==
  IF At(walk) = Len(telemetry_waitingForAck) THEN "end"
  ELSE telemetry_waitingForAck[At(walk) + 1].msg

Walking == pc = "pending" /\ walk \in Awaiting
Current == telemetry_waitingForAck[At(walk)]

NotOverdue ==
  /\ Walking
  /\ ~Current.overdue
  /\ walk' = NextEntry
  /\ UNCHANGED <<connVars, waitingToSend, telemetry_waitingForAck, packetId, hubVars, result>>

\* The retries are used up: the message fails and the connection is closed.
GiveUp ==
  /\ Walking
  /\ Current.overdue
  /\ Current.retryCount >= MAX_SEND_RECOUNT_LIMIT
  /\ notifyApplicationOfSendMessageComplete({walk}, "MESSAGE_TIMEOUT")
  /\ telemetry_waitingForAck' = RemoveAt(telemetry_waitingForAck, At(walk))
  /\ walk' = NextEntry
  /\ TelemetryTimesOut
  /\ pubacks' = IF link' = "up" THEN pubacks ELSE <<>>
  /\ UNCHANGED <<waitingToSend, packetId, publishes, received>>

ResendMayRepeat == Current.retryCount <= MAX_SEND_RECOUNT_LIMIT \* mutant: off by one
MayResend == Current.retryCount < MAX_SEND_RECOUNT_LIMIT

\* While the transport publishes, the message is published again with its packet id.
Resend ==
  /\ Walking
  /\ Current.overdue
  /\ MayResend
  /\ currPacketState = "PUBLISH"
  /\ walk' = NextEntry
  /\ \/ /\ publishTelemetryMsg(walk, Current.packet_id)
        /\ telemetry_waitingForAck' =
             [telemetry_waitingForAck EXCEPT ![At(walk)].retryCount = @ + 1,
                                             ![At(walk)].overdue = FALSE]
        /\ UNCHANGED result
     \/ /\ notifyApplicationOfSendMessageComplete({walk}, "ERROR")
        /\ telemetry_waitingForAck' = RemoveAt(telemetry_waitingForAck, At(walk))
        /\ UNCHANGED hubVars
  /\ UNCHANGED <<connVars, waitingToSend, packetId>>

PostponeForever == \* mutant: the wait is not counted as a retry
  /\ Walking /\ Current.overdue /\ MayResend /\ currPacketState # "PUBLISH"
  /\ walk' = NextEntry
  /\ telemetry_waitingForAck' = [telemetry_waitingForAck EXCEPT ![At(walk)].overdue = FALSE]
  /\ UNCHANGED <<connVars, waitingToSend, packetId, hubVars, result>>

\* Otherwise the wait counts as a retry.
Postpone ==
  /\ Walking
  /\ Current.overdue
  /\ MayResend
  /\ currPacketState # "PUBLISH"
  /\ walk' = NextEntry
  /\ telemetry_waitingForAck' =
       [telemetry_waitingForAck EXCEPT ![At(walk)].retryCount = @ + 1,
                                       ![At(walk)].overdue = FALSE]
  /\ UNCHANGED <<connVars, waitingToSend, packetId, hubVars, result>>

ProcessPendingTelemetryMessages == NotOverdue \/ GiveUp \/ Resend \/ Postpone

WalkEnds ==
  /\ walk = "end"
  /\ PendingDone
  /\ UNCHANGED telVars

-----------------------------------------------------------------------------
(* Steps of the connection, and what they mean for telemetry *)

\* A walk begins at the first entry, and goes on at the saved one after a disconnection.
StartsWalk ==
  walk' = IF pc' # "pending" \/ pc = "pending" THEN walk
          ELSE IF pc = "waiting" THEN (IF walk \in Awaiting \cup {"end"} THEN walk ELSE "freed")
          ELSE FirstEntry

\* PUBACKs of a connection that is gone do not arrive; SUBSCRIBEs and twin requests
\* take packet ids.
ConnectionStep ==
  /\ \/ \E t \in UserTopics : Subscribe(t) \/ Unsubscribe(t)
     \/ UpdateMqttConnectionStateIfNeeded
     \/ StateWork /\ (currPacketState = "PUBLISH" => waitingToSend = <<>>)
     \/ Network \/ NetworkDone \/ FinishDisconnect
     \/ SetKeepAlive
  /\ pc' # "destroyed"
  /\ StartsWalk
  /\ packetId' \in IF pc = "state" /\ topic # {} THEN {packetId, getNextPacketId} ELSE {packetId}
  /\ pubacks' = IF link' = "up" THEN pubacks ELSE <<>>
  /\ UNCHANGED <<waitingToSend, telemetry_waitingForAck, result, publishes, received>>

StartDestroy ==
  /\ Destroy
  /\ pc' = "waiting"
  /\ UNCHANGED telVars

DestroyForgets == \* mutant: the list is freed without confirmations
  /\ Destroy \/ FinishDisconnect
  /\ pc' = "destroyed"
  /\ telemetry_waitingForAck' = <<>>
  /\ UNCHANGED <<waitingToSend, packetId, walk, hubVars, result>>

\* IoTHubTransport_MQTT_Common_Destroy, once disconnected.
DestroyTelemetry ==
  /\ Destroy \/ FinishDisconnect
  /\ pc' = "destroyed"
  /\ notifyApplicationOfSendMessageComplete(Awaiting, "BECAUSE_DESTROY")
  /\ telemetry_waitingForAck' = <<>>
  /\ UNCHANGED <<waitingToSend, packetId, walk, hubVars>>

\* More than RESEND_TIMEOUT_VALUE_MIN seconds pass.  A walk reads the clock once, so
\* nothing becomes overdue during it.
MinutePasses ==
  /\ pc \notin {"pending", "destroyed"}
  /\ after # "telemetry"
  /\ telemetry_waitingForAck' = [i \in DOMAIN telemetry_waitingForAck |->
                                   [telemetry_waitingForAck[i] EXCEPT !.overdue = TRUE]]
  /\ UNCHANGED <<connVars, waitingToSend, packetId, walk, hubVars, result>>

TelInit ==
  /\ ConnInit
  /\ waitingToSend = <<>>
  /\ telemetry_waitingForAck = <<>>
  /\ packetId = 1
  /\ walk = "end"
  /\ pubacks = <<>>
  /\ result = [m \in Messages |-> "none"]
  /\ publishes = [m \in Messages |-> 0]
  /\ received = {}

TelNext ==
  \/ \E m \in Messages : SendEvent(m)
  \/ ProcessPublishStateDoWork
  \/ Puback
  \/ ProcessPendingTelemetryMessages
  \/ WalkEnds
  \/ ConnectionStep
  \/ StartDestroy
  \/ DestroyTelemetry
  \/ MinutePasses

tvars == <<connVars, telVars>>

TelSpec == TelInit /\ [][TelNext]_tvars

\* The application keeps calling DoWork, every call returns, and time passes.
TelFairSpec ==
  /\ TelSpec
  /\ WF_tvars(ConnectionStep /\ pc = "idle" /\ pc' # "idle")
  /\ WF_tvars((ConnectionStep \/ DestroyTelemetry) /\ pc # "idle" /\ pc' # pc)
  /\ WF_tvars(ProcessPublishStateDoWork)
  /\ WF_tvars(ProcessPendingTelemetryMessages \/ WalkEnds)
  /\ SF_tvars(MinutePasses)

-----------------------------------------------------------------------------
(* Properties *)

\* Types; packet ids stay within their 16 bits and are never 0 (getNextPacketId).
TelTypeOK ==
  /\ waitingToSend \in Seq(Messages)
  /\ telemetry_waitingForAck \in
       Seq([msg : Messages, packet_id : 1 .. PacketIds - 1,
            retryCount : Nat, overdue : BOOLEAN])
  /\ packetId \in 1 .. PacketIds - 1
  /\ walk \in Messages \cup {"end", "freed"}
  /\ pubacks \in Seq([id : 1 .. PacketIds - 1, msg : Messages])
  /\ result \in [Messages -> Results \cup {"none", "twice"}]
  /\ publishes \in [Messages -> Nat]
  /\ received \subseteq Messages

\* A message the application hears OK for has been acknowledged by the hub, however often
\* it was published and on whichever connection (as long as packet ids are not reused
\* while a message waits).
OkMeansReceived == \A m \in Messages : result[m] = "OK" => m \in received

\* No message is published more often than MAX_SEND_RECOUNT_LIMIT, across
\* reconnections, resends and failures.
PublishesBounded == \A m \in Messages : publishes[m] <= MAX_SEND_RECOUNT_LIMIT

\* The lists, seen as the abstract specification: each message is accepted, then settled
\* once; "twice" is no outcome.
deliveryStatus ==
  [m \in Messages |-> IF m \in ToSet(waitingToSend) \cup Awaiting THEN "held"
                      ELSE IF result[m] = "none" THEN "new" ELSE result[m]]

D == INSTANCE Delivery WITH Outcomes <- Results, status <- deliveryStatus

\* The transport settles every message it took exactly once, whatever publishes,
\* acknowledgements, resends, timeouts, reconnections and Destroy do.
SettledOnce == D!Spec

\* A published message does not wait for ever, whether or not the hub answers and the
\* connection comes back.
PublishedSettles ==
  \A m \in Messages :
    m \in Awaiting ~> m \notin Awaiting \/ walk = "freed"

\* SRS_IOTHUB_TRANSPORT_MQTT_COMMON_07_033: DoWork iterates through the messages waiting
\* for acknowledgement; so what the walk goes on with is an entry of the list.
WalkStaysInList == pc = "pending" => walk \in Awaiting \cup {"end"}

\* What the lists of unsent and unacknowledged messages, the PUBACKs under way and the results
\* told to the application have to do with each other.
TelSound == TelTypeOK /\ OkMeansReceived /\ PublishesBounded

\* A message the transport took is settled once, and in the end if it was published.
MessagesSettle == SettledOnce /\ PublishedSettles
=============================================================================
