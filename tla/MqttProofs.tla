------------------------------ MODULE MqttProofs ------------------------------
(***************************************************************************)
(* Proofs about the MQTT transport for any topics, messages, requests, reasons *)
(* to disconnect and bounds.  Of MqttConnection: the transport works only on a   *)
(* live connection and says so, and no subscription of the application is       *)
(* forgotten.  Of MqttTwin: every twin request ends once, and a reported state   *)
(* is only sent where its answer can come back.  Of MqttTelemetry: a message is  *)
(* settled once, published a bounded number of times, and reported as received   *)
(* only if it was, while packet ids do not come round.                           *)
(***************************************************************************)
EXTENDS MqttTelemetry, MqttTwin, SequenceFacts, FiniteSetTheorems

Working == {"CONNACK", "SUBSCRIBE", "SUBACK", "PUBLISH"}

\* mqttClientStatus is CONNECTED exactly while uMQTT is connected; the application was
\* told, and the hub has not rejected the client for good.
Linked ==
  /\ link = "up" <=> mqttClientStatus = "CONNECTED"
  /\ mqttClientStatus = "CONNECTED" => isRecoverableError /\ told = "AUTHENTICATED"
  /\ pc = "waiting" => link \in {"up", "down"} /\ isRecoverableError

\* A renewed SAS token leaves the packet state UNKNOWN, and a subscription then sets it
\* to SUBSCRIBE, without a connection; but the next thing to happen is a connection.
Renewed ==
  /\ link = "down"
  /\ mqttClientStatus = "NOT_CONNECTED"
  /\ isRecoverableError

\* A packet state of work belongs to a live connection, to one that is being closed, or
\* was left by a subscription after a renewal, and then the stage of work is not reached.
Placed ==
  /\ currPacketState = "UNKNOWN" => Renewed
  /\ currPacketState \in Working =>
       \/ link = "up"
       \/ pc = "waiting"
       \/ currPacketState = "SUBSCRIBE" /\ Renewed /\ pc \in {"idle", "pending"}

ConnInv == ConnTypeOK /\ Linked /\ Placed

\* A new transport, not connected and without topics, satisfies the invariant.
LEMMA InitInv == ConnInit => ConnInv
<1> SUFFICES ASSUME ConnInit PROVE ConnInv
  OBVIOUS
<1>1. subscribing \in Seq([topics : SUBSET Topics, twin : BOOLEAN])
  BY DEF ConnInit
<1>2. ConnTypeOK
  BY <1>1 DEF ConnInit, ConnTypeOK, Statuses, PacketStates
<1>3. Linked /\ Placed
  BY DEF ConnInit, Linked, Placed, Working
<1> QED
  BY <1>2, <1>3 DEF ConnInv

\* Every step keeps the connection and the packet state in line.
LEMMA StepPlaced ==
  ASSUME ConnInv, ConnNext
  PROVE  Linked' /\ Placed'
<1> USE DEF ConnInv, Linked, Placed, Working, Renewed
<1>0. /\ currPacketState \in PacketStates
      /\ mqttClientStatus \in Statuses
      /\ isRecoverableError \in BOOLEAN
      /\ link \in {"down", "opening", "up", "refused", "closing"}
  BY DEF ConnTypeOK
<1>s. ASSUME NEW t \in UserTopics, Subscribe(t) PROVE Linked' /\ Placed'
  BY <1>0, <1>s DEF Subscribe, ApplicationRuns, NetworkRuns,
     changeStateToSubscribeIfAllowed, statusVars, linkVars, PacketStates
<1>u. ASSUME NEW t \in UserTopics, Unsubscribe(t) PROVE Linked' /\ Placed'
  BY <1>u DEF Unsubscribe, statusVars
<1>1. CASE Connect
  BY <1>0, <1>1 DEF Connect, PacketStates, Statuses
<1>2. CASE ConnectFails
  BY <1>0, <1>2 DEF ConnectFails, PacketStates, Statuses, statusVars, topicVars, linkVars
<1>3. CASE RetryLater
  BY <1>0, <1>3 DEF RetryLater, PacketStates, Statuses, statusVars, topicVars, linkVars
<1>4. CASE StopRetrying
  BY <1>0, <1>4 DEF StopRetrying, PacketStates, Statuses, statusVars, topicVars, linkVars
<1>5. CASE ExecuteDisconnect
  BY <1>0, <1>5 DEF ExecuteDisconnect, PacketStates, Statuses, DisconnectAtOnce,
     Disconnected, statusVars, topicVars, linkVars
<1>6. CASE ConnectTimesOut
  BY <1>0, <1>6 DEF ConnectTimesOut, PacketStates, Statuses, Disconnected, statusVars,
     topicVars, linkVars
<1>7. CASE SasTokenExpires
  BY <1>0, <1>7 DEF SasTokenExpires, PacketStates, Statuses, StartDisconnect, statusVars,
     topicVars, linkVars
<1>8. CASE ClockFails
  BY <1>0, <1>8 DEF ClockFails, PacketStates, Statuses, statusVars, topicVars, linkVars
<1>9. CASE NothingToUpdate
  BY <1>0, <1>9 DEF NothingToUpdate, PacketStates, Statuses, statusVars, topicVars, linkVars
<1>10. CASE PendingClose
  BY <1>0, <1>10 DEF PendingClose, PacketStates, Statuses, statusVars, topicVars, linkVars
<1>11. CASE SendSubscribe
  BY <1>0, <1>11 DEF SendSubscribe, PacketStates, Statuses, statusVars, topicVars, linkVars
<1>12. CASE NothingToSubscribe
  BY <1>0, <1>12 DEF NothingToSubscribe, PacketStates, Statuses, statusVars, topicVars,
     linkVars
<1>13. CASE ProcessSubackDoWork
  BY <1>0, <1>13 DEF ProcessSubackDoWork, PacketStates, Statuses, statusVars, topicVars,
     linkVars
<1>14. CASE PublishStateWork
  BY <1>0, <1>14 DEF PublishStateWork, PacketStates, Statuses, statusVars, topicVars,
     linkVars
<1>15. CASE NoStateWork
  BY <1>0, <1>15 DEF NoStateWork, PacketStates, Statuses, statusVars, topicVars, linkVars
<1>16. CASE ConnackAccepted
  BY <1>0, <1>16 DEF ConnackAccepted, PacketStates, Statuses, NetworkRuns, statusVars,
     topicVars, linkVars
<1>17. CASE ConnackRefused
  BY <1>0, <1>17 DEF ConnackRefused, PacketStates, Statuses, NetworkRuns, statusVars,
     topicVars, linkVars
<1>18. CASE Suback
  BY <1>0, <1>18 DEF Suback, PacketStates, Statuses, NetworkRuns, statusVars, topicVars,
     linkVars
<1>19. CASE OnDisconnect
  BY <1>0, <1>19 DEF OnDisconnect, PacketStates, Statuses, NetworkRuns, statusVars,
     topicVars, linkVars
<1>20. CASE processErrorCallback
  BY <1>0, <1>20 DEF processErrorCallback, PacketStates, Statuses, NetworkRuns,
     ResubscribeAll, statusVars, topicVars, linkVars
<1>21. CASE subscribeToNotifyStateIfNeeded
  BY <1>0, <1>21 DEF subscribeToNotifyStateIfNeeded, PacketStates, Statuses, NetworkRuns,
     changeStateToSubscribeIfAllowed, statusVars, topicVars, linkVars
<1>22. CASE NetworkDone
  BY <1>0, <1>22 DEF NetworkDone, PacketStates, Statuses, statusVars, topicVars, linkVars
<1>23. CASE FinishDisconnect
  BY <1>0, <1>23 DEF FinishDisconnect, PacketStates, Statuses, Disconnected,
     ResubscribeAll, Unacknowledged, statusVars, topicVars, linkVars
<1>24. CASE TelemetryTimesOut
  BY <1>0, <1>24 DEF TelemetryTimesOut, PacketStates, Statuses, StartDisconnect,
     DisconnectAtOnce, Disconnected, statusVars, topicVars, linkVars
<1>25. CASE PendingDone
  BY <1>0, <1>25 DEF PendingDone, PacketStates, Statuses, statusVars, topicVars, linkVars
<1>26. CASE SetKeepAlive
  BY <1>0, <1>26 DEF SetKeepAlive, PacketStates, Statuses, StartDisconnect,
     DisconnectAtOnce, Disconnected, statusVars, topicVars, linkVars
<1>27. CASE Destroy
  BY <1>0, <1>27 DEF Destroy, PacketStates, Statuses, StartDisconnect, DisconnectAtOnce,
     Disconnected, statusVars, topicVars, linkVars
<1> QED
  BY <1>s, <1>u, <1>1, <1>2, <1>3, <1>4, <1>5, <1>6, <1>7, <1>8, <1>9, <1>10, <1>11, <1>12,
     <1>13, <1>14, <1>15, <1>16, <1>17, <1>18, <1>19, <1>20, <1>21, <1>22, <1>23, <1>24,
     <1>25, <1>26, <1>27
  DEF ConnNext, UpdateMqttConnectionStateIfNeeded, StateWork, Network

Packets == [topics : SUBSET Topics, twin : BOOLEAN]
PacketsOK == subscribing \in Seq(Packets)

\* The type of everything but the packets under way.
PlainOK ==
  /\ mqttClientStatus \in Statuses
  /\ currPacketState \in PacketStates
  /\ isRecoverableError \in BOOLEAN /\ isRetryExpiredCallbackCalled \in BOOLEAN
  /\ twin_resp_sub_recv \in BOOLEAN /\ device_twin_get_sent \in BOOLEAN
  /\ topic \subseteq Topics
  /\ topics_ToSubscribe \subseteq topic
  /\ pc \in {"idle", "state", "network", "waiting", "pending", "destroyed"}
  /\ after \in {"none", "sas", "keepalive", "telemetry", "destroy"}
  /\ link \in {"down", "opening", "up", "refused", "closing"}
  /\ session \subseteq Topics /\ lost \subseteq Topics /\ refused \subseteq Topics
  /\ told \in {"none", "AUTHENTICATED", "UNAUTHENTICATED"}

\* A packet under way has a set of topics and a flag.
LEMMA PacketParts ==
  ASSUME PacketsOK, NEW i \in DOMAIN subscribing
  PROVE  /\ subscribing[i] \in Packets
         /\ subscribing[i].topics \subseteq Topics
         /\ subscribing[i].twin \in BOOLEAN
<1>1. subscribing[i] \in Packets
  BY DEF PacketsOK
<1>2. \A p \in Packets : p.topics \in SUBSET Topics /\ p.twin \in BOOLEAN
  BY DEF Packets
<1> QED
  BY <1>1, <1>2

\* The type invariant is these two parts.
LEMMA TypeSplits == ConnTypeOK <=> PacketsOK /\ PlainOK
BY DEF ConnTypeOK, PacketsOK, PlainOK, Packets

\* The packets under way keep their type.
LEMMA StepPackets ==
  ASSUME PacketsOK, PlainOK, ConnNext
  PROVE  PacketsOK'
<1>0. subscribing \in Seq(Packets) /\ topic \subseteq Topics
  BY DEF PacketsOK, PlainOK
<1>1. subscribing' = subscribing => PacketsOK'
  BY DEF PacketsOK
<1>2. subscribing' = <<>> => PacketsOK'
  BY DEF PacketsOK
<1>3. ASSUME NEW t \in UserTopics, Unsubscribe(t) PROVE PacketsOK'
  <2> DEFINE gone == IF t = "GET_STATE" THEN {"GET_STATE", "NOTIFY_STATE"} ELSE {t}
  <2> DEFINE cut == [i \in DOMAIN subscribing |-> [subscribing[i] EXCEPT !.topics = @ \
     gone]]
  <2>1. subscribing' = subscribing \/ subscribing' = cut
    BY <1>3 DEF Unsubscribe
  <2>2. \A i \in DOMAIN subscribing : [subscribing[i] EXCEPT !.topics = @ \ gone] \in
     Packets
    <3> TAKE i \in DOMAIN subscribing
    <3>1. subscribing[i] \in Packets
      BY PacketParts
    <3>2. \A p \in Packets : [p EXCEPT !.topics = @ \ gone] \in Packets
      BY DEF Packets
    <3> QED
      BY <3>1, <3>2
  <2>3. cut \in Seq(Packets)
    BY <1>0, <2>2
  <2> QED
    BY <1>1, <2>1, <2>3 DEF PacketsOK
<1>4. CASE SendSubscribe
  <2> DEFINE marked == topics_ToSubscribe \cap topic
  <2> DEFINE twin == "GET_STATE" \in marked
  <2> DEFINE older == [i \in DOMAIN subscribing |-> [subscribing[i] EXCEPT !.twin = @ /\
     ~twin]]
  <2>1. subscribing' = subscribing \/ subscribing' = Append(older, [topics |-> marked, twin
     |-> twin])
    BY <1>4 DEF SendSubscribe
  <2>2. \A i \in DOMAIN subscribing : [subscribing[i] EXCEPT !.twin = @ /\ ~twin] \in
     Packets
    <3> TAKE i \in DOMAIN subscribing
    <3>1. subscribing[i] \in Packets
      BY PacketParts
    <3>2. \A p \in Packets, b \in BOOLEAN : [p EXCEPT !.twin = @ /\ b] \in Packets
      BY DEF Packets
    <3>3. (~twin) \in BOOLEAN
      OBVIOUS
    <3> QED
      BY <3>1, <3>2, <3>3
  <2>3. older \in Seq(Packets)
    BY <1>0, <2>2
  <2>4. [topics |-> marked, twin |-> twin] \in Packets
    BY <1>0 DEF Packets
  <2>5. Append(older, [topics |-> marked, twin |-> twin]) \in Seq(Packets)
    BY <2>3, <2>4
  <2> QED
    BY <1>1, <2>1, <2>5 DEF PacketsOK
<1>5. CASE Suback
  BY <1>0, <1>5 DEF Suback, PacketsOK
<1>6. CASE \/ Connect \/ ConnectTimesOut \/ ExecuteDisconnect \/ FinishDisconnect
           \/ processErrorCallback \/ TelemetryTimesOut \/ SetKeepAlive \/ Destroy
  <2>1. subscribing' = <<>> \/ subscribing' = subscribing
    BY <1>6 DEF Connect, ConnectTimesOut, ExecuteDisconnect, FinishDisconnect,
       processErrorCallback, TelemetryTimesOut, SetKeepAlive, Destroy, StartDisconnect,
       DisconnectAtOnce, Disconnected, linkVars
  <2> QED
    BY <1>1, <1>2, <2>1
<1>7. ASSUME NEW t \in UserTopics, Subscribe(t) PROVE PacketsOK'
  BY <1>1, <1>7 DEF Subscribe, linkVars
<1>8. CASE \/ ConnectFails \/ RetryLater \/ StopRetrying \/ SasTokenExpires
           \/ ClockFails \/ NothingToUpdate \/ PendingClose \/ NothingToSubscribe
           \/ ProcessSubackDoWork \/ PublishStateWork \/ NoStateWork \/ ConnackAccepted
           \/ ConnackRefused \/ OnDisconnect \/ subscribeToNotifyStateIfNeeded \/
              NetworkDone
           \/ PendingDone
  <2>1. subscribing' = subscribing
    BY <1>8 DEF ConnectFails, RetryLater, StopRetrying, SasTokenExpires,
       ClockFails, NothingToUpdate, PendingClose, NothingToSubscribe,
       ProcessSubackDoWork, PublishStateWork, NoStateWork, ConnackAccepted,
       ConnackRefused, OnDisconnect, subscribeToNotifyStateIfNeeded, NetworkDone,
       PendingDone,
       StartDisconnect, linkVars
  <2> QED
    BY <1>1, <2>1
<1> QED
  BY <1>3, <1>4, <1>5, <1>6, <1>7, <1>8
  DEF ConnNext, UpdateMqttConnectionStateIfNeeded, StateWork, Network

\* Every step keeps the other types.
LEMMA StepPlain ==
  ASSUME PacketsOK, PlainOK, ConnNext
  PROVE  PlainOK'
<1> USE DEF PlainOK
<1>0. UserTopics \subseteq Topics
  BY TopicsAssumption
<1>p. \A i \in DOMAIN subscribing : subscribing[i].topics \subseteq Topics
  BY PacketParts
<1>h. subscribing # <<>> => Head(subscribing).topics \subseteq Topics /\
   Head(subscribing).twin \in BOOLEAN
  <2> SUFFICES ASSUME subscribing # <<>>
      PROVE  Head(subscribing).topics \subseteq Topics /\ Head(subscribing).twin \in BOOLEAN
    OBVIOUS
  <2>1. 1 \in DOMAIN subscribing /\ Head(subscribing) = subscribing[1]
    BY DEF PacketsOK
  <2> QED
    BY <2>1, PacketParts
<1>l. Unacknowledged \subseteq Topics
  BY <1>p DEF Unacknowledged
<1>s. ASSUME NEW t \in UserTopics, Subscribe(t) PROVE PlainOK'
  BY <1>0, <1>s DEF Subscribe, changeStateToSubscribeIfAllowed, statusVars, linkVars,
     PacketStates
<1>u. ASSUME NEW t \in UserTopics, Unsubscribe(t) PROVE PlainOK'
  BY <1>u DEF Unsubscribe, statusVars
<1>1. CASE Connect
  BY <1>1 DEF Connect, PacketStates, Statuses, topicVars
<1>2. CASE ConnectFails
  BY <1>2 DEF ConnectFails, PacketStates, Statuses, statusVars, topicVars, linkVars
<1>3. CASE RetryLater
  BY <1>3 DEF RetryLater, PacketStates, Statuses, statusVars, topicVars, linkVars
<1>4. CASE StopRetrying
  BY <1>4 DEF StopRetrying, PacketStates, Statuses, statusVars, topicVars, linkVars
<1>5. CASE ExecuteDisconnect
  BY <1>5, ZenonT(40) DEF ExecuteDisconnect, PacketStates, Statuses, DisconnectAtOnce, Disconnected,
     statusVars, topicVars, linkVars
<1>6. CASE ConnectTimesOut
  BY <1>6 DEF ConnectTimesOut, PacketStates, Statuses, Disconnected, statusVars, topicVars,
     linkVars
<1>7. CASE SasTokenExpires
  BY <1>7 DEF SasTokenExpires, PacketStates, Statuses, StartDisconnect, statusVars,
     topicVars, linkVars
<1>8. CASE ClockFails
  BY <1>8 DEF ClockFails, PacketStates, Statuses, statusVars, topicVars, linkVars
<1>9. CASE NothingToUpdate
  BY <1>9 DEF NothingToUpdate, PacketStates, Statuses, statusVars, topicVars, linkVars
<1>10. CASE PendingClose
  BY <1>10 DEF PendingClose, PacketStates, Statuses, statusVars, topicVars, linkVars
<1>11. CASE SendSubscribe
  BY <1>11 DEF SendSubscribe, PacketStates, Statuses, statusVars, topicVars, linkVars
<1>12. CASE NothingToSubscribe
  BY <1>12 DEF NothingToSubscribe, PacketStates, Statuses, statusVars, topicVars, linkVars
<1>13. CASE ProcessSubackDoWork
  <2>1. device_twin_get_sent' \in BOOLEAN
    BY <1>13 DEF ProcessSubackDoWork
  <2>2. /\ currPacketState' = "PUBLISH" /\ pc' = "network"
        /\ UNCHANGED <<statusVars, topicVars, linkVars, after>>
    BY <1>13 DEF ProcessSubackDoWork
  <2> QED
    BY <2>1, <2>2 DEF PacketStates, statusVars, topicVars, linkVars
<1>14. CASE PublishStateWork
  BY <1>14 DEF PublishStateWork, PacketStates, Statuses, statusVars, topicVars, linkVars
<1>15. CASE NoStateWork
  BY <1>15 DEF NoStateWork, PacketStates, Statuses, statusVars, topicVars, linkVars
<1>16. CASE ConnackAccepted
  BY <1>16 DEF ConnackAccepted, PacketStates, Statuses, NetworkRuns, statusVars, topicVars,
     linkVars
<1>17. CASE ConnackRefused
  BY <1>17 DEF ConnackRefused, PacketStates, Statuses, NetworkRuns, statusVars, topicVars,
     linkVars
<1>18. CASE Suback
  BY <1>18, <1>h DEF Suback, PacketStates, Statuses, NetworkRuns, statusVars, topicVars,
     linkVars
<1>19. CASE OnDisconnect
  BY <1>19 DEF OnDisconnect, PacketStates, Statuses, NetworkRuns, statusVars, topicVars,
     linkVars
<1>20. CASE processErrorCallback
  BY <1>20 DEF processErrorCallback, PacketStates, Statuses, NetworkRuns, ResubscribeAll,
     statusVars, topicVars, linkVars
<1>21. CASE subscribeToNotifyStateIfNeeded
  BY <1>21 DEF subscribeToNotifyStateIfNeeded, PacketStates, Statuses, NetworkRuns,
     changeStateToSubscribeIfAllowed, statusVars, topicVars, linkVars, Topics
<1>22. CASE NetworkDone
  BY <1>22 DEF NetworkDone, PacketStates, Statuses, statusVars, topicVars, linkVars
<1>23. CASE FinishDisconnect
  BY <1>23, <1>l DEF FinishDisconnect, PacketStates, Statuses, Disconnected,
     ResubscribeAll, statusVars, topicVars, linkVars
<1>24. CASE TelemetryTimesOut
  BY <1>24 DEF TelemetryTimesOut, PacketStates, Statuses, StartDisconnect,
     DisconnectAtOnce, Disconnected, statusVars, topicVars, linkVars
<1>25. CASE PendingDone
  BY <1>25 DEF PendingDone, PacketStates, Statuses, statusVars, topicVars, linkVars
<1>26. CASE SetKeepAlive
  BY <1>26 DEF SetKeepAlive, PacketStates, Statuses, StartDisconnect, DisconnectAtOnce,
     Disconnected, statusVars, topicVars, linkVars
<1>27. CASE Destroy
  BY <1>27 DEF Destroy, PacketStates, Statuses, StartDisconnect, DisconnectAtOnce,
     Disconnected, statusVars, topicVars, linkVars
<1> QED
  BY <1>s, <1>u, <1>1, <1>2, <1>3, <1>4, <1>5, <1>6, <1>7, <1>8, <1>9, <1>10, <1>11, <1>12,
     <1>13, <1>14, <1>15, <1>16, <1>17, <1>18, <1>19, <1>20, <1>21, <1>22, <1>23, <1>24,
     <1>25, <1>26, <1>27
  DEF ConnNext, UpdateMqttConnectionStateIfNeeded, StateWork, Network

\* Every step, and none, keeps the invariant.
LEMMA StepInv == ConnInv /\ [ConnNext]_connVars => ConnInv'
<1> SUFFICES ASSUME ConnInv, [ConnNext]_connVars PROVE ConnInv'
  OBVIOUS
<1>1. CASE ConnNext
  <2>1. PacketsOK /\ PlainOK
    BY TypeSplits DEF ConnInv
  <2>2. PacketsOK' /\ PlainOK'
    BY <1>1, <2>1, StepPackets, StepPlain
  <2>3. ConnTypeOK'
    BY <2>2 DEF ConnTypeOK, PacketsOK, PlainOK, Packets
  <2> QED
    BY <1>1, <2>3, StepPlaced DEF ConnInv
<1>2. CASE UNCHANGED connVars
  BY <1>2 DEF connVars, ConnInv, ConnTypeOK, Linked, Placed, Renewed
<1> QED
  BY <1>1, <1>2

\* The invariant holds in every reachable state of the transport's connection.
THEOREM ConnInvariant == ConnSpec => []ConnInv
BY InitInv, StepInv, PTL DEF ConnSpec

\* The state keeps its type; only topics whose string exists are ever marked for
\* subscription.
THEOREM ConnTypeCorrect == ConnSpec => []ConnTypeOK
<1>1. ConnInv => ConnTypeOK
  BY DEF ConnInv
<1> QED
  BY <1>1, ConnInvariant, PTL

\* The stages of DoWork, which look at currPacketState only, never subscribe or publish
\* without a connection.
THEOREM WorksOnlyConnected == ConnSpec => []WorksConnected
<1>1. ConnInv => WorksConnected
  BY DEF ConnInv, Linked, Placed, Working, WorksConnected
<1> QED
  BY <1>1, ConnInvariant, PTL

\* A connected transport has told the application so, and nothing else since.
THEOREM ConnectedIsTold == ConnSpec => []ConnectedTold
<1>1. ConnInv => ConnectedTold
  BY DEF ConnInv, Linked, ConnectedTold
<1> QED
  BY <1>1, ConnInvariant, PTL

\* Status, link and packet state of the connection agree, for any topics and any reasons to
\* disconnect.
THEOREM ConnIsSound == ConnSpec => []ConnSound
<1>1. ConnTypeOK /\ WorksConnected /\ ConnectedTold <=> ConnSound
  BY DEF ConnSound
<1> QED
  BY ConnTypeCorrect, WorksOnlyConnected, ConnectedIsTold, <1>1, PTL

-----------------------------------------------------------------------------
(* Subscriptions *)

\* Packets under way belong to a connection, or to one that is being closed.
PacketsPlaced == subscribing # <<>> => link = "up" \/ pc = "waiting"

\* Destroying the transport has closed its connection.
DestroyedClosed == pc = "destroyed" => link # "up"

\* Every topic of the application waits for its SUBSCRIBE, is in one under way, is known to
\* the hub, was refused by it, or was in one that a keepalive change or a message timeout
\* dropped.
TopicsKept ==
  pc # "destroyed" => topic \subseteq topics_ToSubscribe \cup Unacknowledged \cup session
                                     \cup lost \cup refused

RestoreInv == PacketsPlaced /\ DestroyedClosed /\ TopicsKept

\* What the packets under way hold when none, one more or one less of them is.
LEMMA UnacknowledgedFacts ==
  ASSUME PacketsOK
  PROVE  /\ subscribing = <<>> => Unacknowledged = {}
         /\ subscribing # <<>> =>
              Unacknowledged \subseteq Head(subscribing).topics
                \cup UNION {Tail(subscribing)[i].topics : i \in DOMAIN Tail(subscribing)}
<1>0. subscribing \in Seq(Packets)
  BY DEF PacketsOK
<1>1. subscribing = <<>> => Unacknowledged = {}
  BY DEF Unacknowledged
<1>2. ASSUME subscribing # <<>>, NEW i \in DOMAIN subscribing, i # 1
      PROVE  i - 1 \in DOMAIN Tail(subscribing) /\ Tail(subscribing)[i - 1] = subscribing[i]
  BY <1>0, <1>2
<1>3. ASSUME subscribing # <<>>
      PROVE  Head(subscribing) = subscribing[1]
  BY <1>0, <1>3
<1>4. ASSUME subscribing # <<>>, NEW t \in Unacknowledged
      PROVE  t \in Head(subscribing).topics
               \cup UNION {Tail(subscribing)[i].topics : i \in DOMAIN Tail(subscribing)}
  <2>1. PICK i \in DOMAIN subscribing : t \in subscribing[i].topics
    BY <1>4 DEF Unacknowledged
  <2>2. CASE i = 1
    BY <1>3, <1>4, <2>1, <2>2
  <2>3. CASE i # 1
    BY <1>2, <1>4, <2>1, <2>3
  <2> QED
    BY <2>2, <2>3
<1> QED
  BY <1>1, <1>4

\* A SUBSCRIBE that takes the marked topics leaves those under way where they are.
LEMMA SendKeepsTopics ==
  ASSUME PacketsOK, PlainOK, TopicsKept, SendSubscribe
  PROVE  TopicsKept'
<1> DEFINE marked == topics_ToSubscribe \cap topic
           twin == "GET_STATE" \in marked
           older == [i \in DOMAIN subscribing |-> [subscribing[i] EXCEPT !.twin = @ /\ ~twin]]
           new == [topics |-> marked, twin |-> twin]
<1>0. subscribing \in Seq(Packets) /\ topics_ToSubscribe \subseteq topic
  BY DEF PacketsOK, PlainOK
<1>1. /\ pc = "state" /\ pc' = "network"
      /\ topic' = topic /\ session' = session /\ lost' = lost /\ refused' = refused
  BY DEF SendSubscribe
<1>2. \/ subscribing' = Append(older, new) /\ topics_ToSubscribe' = topics_ToSubscribe \ marked
      \/ subscribing' = subscribing /\ topics_ToSubscribe' = topics_ToSubscribe
  BY DEF SendSubscribe
<1>3. CASE subscribing' = subscribing /\ topics_ToSubscribe' = topics_ToSubscribe
  <2>1. Unacknowledged' = Unacknowledged
    BY <1>3 DEF Unacknowledged
  <2> QED
    BY <1>1, <1>3, <2>1 DEF TopicsKept
<1>4. CASE subscribing' = Append(older, new) /\ topics_ToSubscribe' = topics_ToSubscribe \ marked
  <2>1. \A i \in DOMAIN subscribing :
          older[i] = [subscribing[i] EXCEPT !.twin = @ /\ ~twin] /\ subscribing[i] \in Packets
    BY PacketParts
  <2>2. \A q \in Packets, b \in BOOLEAN : [q EXCEPT !.twin = @ /\ b].topics = q.topics
    BY DEF Packets
  <2>3. \A i \in DOMAIN subscribing : older[i].topics = subscribing[i].topics
    BY <2>1, <2>2
  <2>4. older \in Seq({older[i] : i \in DOMAIN subscribing}) /\ Len(older) = Len(subscribing)
    BY <1>0
  <2> HIDE DEF older, new
  <2>5. /\ DOMAIN Append(older, new) = 1..(Len(subscribing) + 1)
        /\ \A i \in DOMAIN subscribing : Append(older, new)[i] = older[i]
        /\ Append(older, new)[Len(subscribing) + 1] = new
    BY <1>0, <2>4
  <2>6. Unacknowledged \subseteq Unacknowledged'
    <3> SUFFICES ASSUME NEW t \in Unacknowledged PROVE t \in Unacknowledged'
      OBVIOUS
    <3>1. PICK i \in DOMAIN subscribing : t \in subscribing[i].topics
      BY DEF Unacknowledged
    <3>2. i \in DOMAIN subscribing' /\ subscribing'[i] = older[i]
      BY <1>0, <1>4, <2>5
    <3> QED
      BY <2>3, <3>1, <3>2 DEF Unacknowledged
  <2>7. marked \subseteq Unacknowledged'
    <3>1. Len(subscribing) + 1 \in DOMAIN subscribing' /\ subscribing'[Len(subscribing) + 1] = new
      BY <1>0, <1>4, <2>5
    <3>2. new.topics = marked
      BY DEF new
    <3> QED
      BY <3>1, <3>2 DEF Unacknowledged
  <2> QED
    BY <1>0, <1>1, <1>4, <2>6, <2>7 DEF TopicsKept
<1> QED
  BY <1>2, <1>3, <1>4

\* Unsubscribing takes the topic, and nothing else, from everywhere.
LEMMA UnsubscribeKeepsTopics ==
  ASSUME PacketsOK, TopicsKept, NEW t \in UserTopics, Unsubscribe(t)
  PROVE  TopicsKept'
<1> DEFINE gone == IF t = "GET_STATE" THEN {"GET_STATE", "NOTIFY_STATE"} ELSE {t}
           cut == [i \in DOMAIN subscribing |-> [subscribing[i] EXCEPT !.topics = @ \ gone]]
<1>1. /\ pc' = pc /\ topic' = topic \ gone
      /\ topics_ToSubscribe' = topics_ToSubscribe \ gone /\ lost' = lost \ gone
      /\ refused' = refused
  BY DEF Unsubscribe
<1>2. \/ session' = session /\ subscribing' = subscribing
      \/ session' = session \ gone /\ subscribing' = cut
  BY DEF Unsubscribe
<1> HIDE DEF gone
<1>3. Unacknowledged \ gone \subseteq Unacknowledged'
  <2>1. CASE subscribing' = subscribing
    BY <2>1 DEF Unacknowledged
  <2>2. CASE subscribing' = cut
    <3> SUFFICES ASSUME NEW u \in Unacknowledged, u \notin gone PROVE u \in Unacknowledged'
      OBVIOUS
    <3>1. PICK i \in DOMAIN subscribing : u \in subscribing[i].topics
      BY DEF Unacknowledged
    <3>2. subscribing[i] \in Packets
      BY PacketParts
    <3>3. i \in DOMAIN subscribing' /\ subscribing'[i].topics = subscribing[i].topics \ gone
      <4>1. \A q \in Packets : [q EXCEPT !.topics = @ \ gone].topics = q.topics \ gone
        BY DEF Packets
      <4> QED
        BY <2>2, <3>2, <4>1
    <3> QED
      BY <3>1, <3>3 DEF Unacknowledged
  <2> QED
    BY <1>2, <2>1, <2>2
<1> QED
  BY <1>1, <1>2, <1>3 DEF TopicsKept

\* A transport is destroyed without a connection.
LEMMA StepDestroyed ==
  ASSUME PlainOK, Linked, ConnNext
  PROVE  DestroyedClosed'
<1> USE DEF DestroyedClosed
<1>1. CASE FinishDisconnect \/ Destroy
  BY <1>1 DEF FinishDisconnect, Destroy, StartDisconnect, DisconnectAtOnce, Disconnected,
     Linked, linkVars
<1>2. ASSUME NEW t \in UserTopics, Subscribe(t) \/ Unsubscribe(t) PROVE DestroyedClosed'
  BY <1>2 DEF Subscribe, Unsubscribe, ApplicationRuns, NetworkRuns
<1>3. CASE UpdateMqttConnectionStateIfNeeded
  BY <1>3 DEF UpdateMqttConnectionStateIfNeeded, Connect, ConnectFails, RetryLater,
     StopRetrying, ExecuteDisconnect, ConnectTimesOut, SasTokenExpires, ClockFails,
     NothingToUpdate, StartDisconnect
<1>4. CASE StateWork
  BY <1>4 DEF StateWork, PendingClose, SendSubscribe, NothingToSubscribe, ProcessSubackDoWork,
     PublishStateWork, NoStateWork
<1>5. CASE Network \/ NetworkDone
  BY <1>5 DEF Network, NetworkDone, ConnackAccepted, ConnackRefused, Suback, OnDisconnect,
     processErrorCallback, subscribeToNotifyStateIfNeeded, NetworkRuns
<1>6. CASE TelemetryTimesOut \/ PendingDone \/ SetKeepAlive
  BY <1>6 DEF TelemetryTimesOut, PendingDone, SetKeepAlive, StartDisconnect
<1> QED
  BY <1>1, <1>2, <1>3, <1>4, <1>5, <1>6 DEF ConnNext

\* Every step keeps the topics.
LEMMA StepRestore ==
  ASSUME PacketsOK, PlainOK, Linked, PacketsPlaced, TopicsKept, ConnNext
  PROVE  PacketsPlaced' /\ TopicsKept'
<1>0. /\ subscribing \in Seq(Packets) /\ topics_ToSubscribe \subseteq topic
      /\ link = "up" <=> mqttClientStatus = "CONNECTED"
  BY DEF PacketsOK, PlainOK, Linked
<1>1. subscribing = <<>> => Unacknowledged = {}
  BY UnacknowledgedFacts
<1>2. subscribing' = subscribing => Unacknowledged' = Unacknowledged
  BY DEF Unacknowledged
<1>s. ASSUME NEW t \in UserTopics, Subscribe(t) PROVE PacketsPlaced' /\ TopicsKept'
  <2>1. UNCHANGED <<subscribing, session, lost, refused, link, pc>>
    BY <1>s DEF Subscribe, linkVars
  <2>2. /\ topic' = topic \cup {t}
        /\ topics_ToSubscribe \subseteq topics_ToSubscribe'
        /\ t \in topics_ToSubscribe' \/ t \in topic
    BY <1>s DEF Subscribe
  <2> QED
    BY <1>2, <2>1, <2>2 DEF PacketsPlaced, TopicsKept
<1>u. ASSUME NEW t \in UserTopics, Unsubscribe(t) PROVE PacketsPlaced' /\ TopicsKept'
  <2>1. PacketsPlaced'
    <3>1. link' = link /\ pc' = pc
      BY <1>u DEF Unsubscribe
    <3>2. subscribing = <<>> => subscribing' = <<>>
      BY <1>0, <1>u DEF Unsubscribe
    <3> QED
      BY <3>1, <3>2 DEF PacketsPlaced
  <2> QED
    BY <1>u, <2>1, UnsubscribeKeepsTopics
<1>3. CASE \/ ConnectFails \/ RetryLater \/ StopRetrying \/ ClockFails \/ NothingToUpdate
           \/ NothingToSubscribe \/ ProcessSubackDoWork \/ PublishStateWork \/ NoStateWork
           \/ ConnackRefused \/ NetworkDone \/ PendingDone \/ ConnackAccepted
  <2>1. UNCHANGED <<topic, topics_ToSubscribe, subscribing, session, lost, refused>>
    BY <1>3 DEF ConnectFails, RetryLater, StopRetrying, ClockFails, NothingToUpdate,
       NothingToSubscribe, ProcessSubackDoWork, PublishStateWork, NoStateWork, ConnackRefused,
       NetworkDone, PendingDone, ConnackAccepted, topicVars, linkVars
  <2>2. pc' # "destroyed" /\ pc # "destroyed"
    BY <1>3 DEF ConnectFails, RetryLater, StopRetrying, ClockFails, NothingToUpdate,
       NothingToSubscribe, ProcessSubackDoWork, PublishStateWork, NoStateWork, ConnackRefused,
       NetworkDone, PendingDone, ConnackAccepted, NetworkRuns
  <2>3. \/ link' = link /\ (pc = "waiting" => pc' = "waiting")
        \/ subscribing = <<>>
        \/ pc' = "waiting"
    BY <1>0, <1>3 DEF ConnectFails, RetryLater, StopRetrying, ClockFails, NothingToUpdate,
       NothingToSubscribe, ProcessSubackDoWork, PublishStateWork, NoStateWork, ConnackRefused,
       NetworkDone, PendingDone, ConnackAccepted, NetworkRuns, PacketsPlaced, linkVars
  <2> QED
    BY <1>2, <2>1, <2>2, <2>3 DEF PacketsPlaced, TopicsKept
<1>4. CASE SasTokenExpires
  BY <1>2, <1>4 DEF SasTokenExpires, StartDisconnect, topicVars, linkVars, PacketsPlaced,
     TopicsKept
<1>5. ASSUME DisconnectAtOnce, pc # "waiting", pc # "destroyed", UNCHANGED topicVars,
             pc' # "waiting" \/ subscribing' = <<>>
      PROVE  PacketsPlaced' /\ TopicsKept'
  <2>1. subscribing = <<>> /\ subscribing' = <<>>
    BY <1>0, <1>5 DEF DisconnectAtOnce, Disconnected, PacketsPlaced, linkVars
  <2>2. UNCHANGED <<topic, topics_ToSubscribe, session, lost, refused>>
    BY <1>5 DEF DisconnectAtOnce, Disconnected, linkVars, topicVars
  <2> QED
    BY <1>2, <1>5, <2>1, <2>2 DEF PacketsPlaced, TopicsKept
<1>6. CASE ExecuteDisconnect
  BY <1>5, <1>6 DEF ExecuteDisconnect
<1>7. CASE Connect \/ ConnectTimesOut
  <2>1. subscribing = <<>> /\ subscribing' = <<>>
    BY <1>0, <1>7 DEF Connect, ConnectTimesOut, Disconnected, PacketsPlaced
  <2>2. /\ UNCHANGED <<topic, topics_ToSubscribe, session, lost, refused>>
        /\ pc # "destroyed"
    BY <1>7 DEF Connect, ConnectTimesOut, Disconnected, topicVars
  <2> QED
    BY <1>2, <2>1, <2>2 DEF PacketsPlaced, TopicsKept
<1>8. CASE PendingClose
  <2>1. subscribing = <<>>
    BY <1>0, <1>8 DEF PendingClose, PacketsPlaced
  <2>2. UNCHANGED <<topic, topics_ToSubscribe, session, lost, refused, subscribing>> /\ pc # "destroyed"
    BY <1>8 DEF PendingClose, topicVars
  <2> QED
    BY <1>2, <2>1, <2>2 DEF PacketsPlaced, TopicsKept
<1>9. CASE SendSubscribe
  <2>1. PacketsPlaced'
    BY <1>9 DEF SendSubscribe, PacketsPlaced
  <2> QED
    BY <1>9, <2>1, SendKeepsTopics
<1>10. CASE Suback
  <2>1. /\ link = "up" /\ link' = "up" /\ pc' = pc /\ pc # "destroyed"
        /\ UNCHANGED <<topic, topics_ToSubscribe>>
        /\ subscribing # <<>> /\ subscribing' = Tail(subscribing)
        /\ session \cup Head(subscribing).topics \cup refused \subseteq session' \cup refused'
        /\ lost' = lost \ Head(subscribing).topics
    BY <1>10 DEF Suback, NetworkRuns
  <2>2. Unacknowledged \subseteq Head(subscribing).topics \cup Unacknowledged'
    BY <2>1, UnacknowledgedFacts DEF Unacknowledged
  <2> QED
    BY <2>1, <2>2 DEF PacketsPlaced, TopicsKept
<1>11. CASE OnDisconnect
  <2>1. /\ UNCHANGED <<topic, topics_ToSubscribe, session, lost, refused, subscribing, pc>>
        /\ pc = "waiting" \/ subscribing = <<>>
    BY <1>11 DEF OnDisconnect, PacketsPlaced, topicVars
  <2> QED
    BY <1>2, <2>1 DEF PacketsPlaced, TopicsKept
<1>12. CASE processErrorCallback
  <2>1. subscribing' = <<>> /\ topic' = topic /\ topic \subseteq topics_ToSubscribe'
    BY <1>12 DEF processErrorCallback, ResubscribeAll
  <2> QED
    BY <2>1 DEF PacketsPlaced, TopicsKept
<1>13. CASE subscribeToNotifyStateIfNeeded
  <2>1. /\ UNCHANGED <<subscribing, session, lost, refused, link, pc>> /\ pc # "destroyed"
        /\ topic' = topic \cup {"NOTIFY_STATE"}
        /\ topics_ToSubscribe \subseteq topics_ToSubscribe'
        /\ "NOTIFY_STATE" \in topics_ToSubscribe' \/ "NOTIFY_STATE" \in topic
    BY <1>13 DEF subscribeToNotifyStateIfNeeded, NetworkRuns, linkVars
  <2> QED
    BY <1>2, <2>1 DEF PacketsPlaced, TopicsKept
<1>14. CASE FinishDisconnect
  <2>1. /\ subscribing' = <<>> /\ session' = session /\ refused' = refused
        /\ topic' = topic /\ pc = "waiting"
    BY <1>14 DEF FinishDisconnect, Disconnected
  <2>2. \/ topic \subseteq topics_ToSubscribe'
        \/ lost' = lost \cup Unacknowledged /\ topics_ToSubscribe' = topics_ToSubscribe
        \/ pc' = "destroyed"
    BY <1>14 DEF FinishDisconnect, ResubscribeAll
  <2> QED
    BY <2>1, <2>2 DEF PacketsPlaced, TopicsKept
<1>15. CASE TelemetryTimesOut \/ SetKeepAlive \/ Destroy
  <2>1. CASE \E why \in {"telemetry", "keepalive", "destroy"} : StartDisconnect(why)
    BY <1>2, <1>15, <2>1 DEF StartDisconnect, topicVars, linkVars, PacketsPlaced, TopicsKept,
       TelemetryTimesOut, SetKeepAlive, Destroy
  <2>2. CASE DisconnectAtOnce /\ UNCHANGED topicVars
    <3>1. pc # "waiting" /\ pc # "destroyed" /\ (pc' = pc \/ pc' = "destroyed")
      BY <1>15, <2>2 DEF TelemetryTimesOut, SetKeepAlive, Destroy, StartDisconnect,
         DisconnectAtOnce
    <3> QED
      BY <1>5, <2>2, <3>1
  <2> QED
    BY <1>15, <2>1, <2>2 DEF TelemetryTimesOut, SetKeepAlive, Destroy
<1> QED
  BY <1>s, <1>u, <1>3, <1>4, <1>6, <1>7, <1>8, <1>9, <1>10, <1>11, <1>12, <1>13, <1>14, <1>15
  DEF ConnNext, UpdateMqttConnectionStateIfNeeded, StateWork, Network

\* No order of connections, errors, renewals, disconnections and calls of the application
\* forgets a subscription.
THEOREM TopicsNeverForgotten == ConnSpec => []RestoreInv
<1>1. ConnInit => RestoreInv
  BY DEF ConnInit, RestoreInv, PacketsPlaced, DestroyedClosed, TopicsKept
<1>2. ConnInv /\ RestoreInv /\ [ConnNext]_connVars => RestoreInv'
  <2> SUFFICES ASSUME ConnInv, RestoreInv, [ConnNext]_connVars PROVE RestoreInv'
    OBVIOUS
  <2>1. CASE ConnNext
    BY <2>1, StepRestore, StepDestroyed, TypeSplits DEF ConnInv, RestoreInv
  <2>2. CASE UNCHANGED connVars
    BY <2>2 DEF connVars, RestoreInv, PacketsPlaced, DestroyedClosed, TopicsKept, Unacknowledged
  <2> QED
    BY <2>1, <2>2
<1> QED
  BY <1>1, <1>2, ConnInvariant, PTL DEF ConnSpec

\* Once the transport publishes and no SUBSCRIBE is under way, the hub has every
\* subscription of the application or will get it, but for those a keepalive change or a
\* message timeout dropped and those the hub refused.
THEOREM SubscriptionsAreRestored == ConnSpec => []SubscriptionsRestored
<1>1. ConnInv /\ RestoreInv => SubscriptionsRestored
  <2> SUFFICES ASSUME ConnInv, RestoreInv, link = "up", subscribing = <<>>
      PROVE  topic \subseteq session \cup topics_ToSubscribe \cup lost \cup refused
    BY DEF SubscriptionsRestored
  <2>1. Unacknowledged = {}
    BY TypeSplits, UnacknowledgedFacts DEF ConnInv
  <2> QED
    BY <2>1 DEF RestoreInv, TopicsKept, DestroyedClosed
<1> QED
  BY <1>1, ConnInvariant, TopicsNeverForgotten, PTL

\* twin_resp_sub_recv is only set once the hub has answered the SUBSCRIBE to twin responses,
\* and the hub keeps a subscription it has granted; the SUBSCRIBE that will set it asks for
\* that topic.
TwinSubscribed ==
  /\ twin_resp_sub_recv => "GET_STATE" \in session \cup refused
  /\ \A i \in DOMAIN subscribing : subscribing[i].twin => "GET_STATE" \in subscribing[i].topics

\* Every step of the connection keeps it so.
LEMMA StepSubscribed ==
  ASSUME PacketsOK, PlainOK, TwinSubscribed, ConnNext
  PROVE  TwinSubscribed'
<1>0. subscribing \in Seq(Packets) /\ topic \subseteq Topics
  BY DEF PacketsOK, PlainOK
<1>1. ASSUME UNCHANGED <<twin_resp_sub_recv, session, refused>>,
             subscribing' = subscribing \/ subscribing' = <<>>
      PROVE  TwinSubscribed'
  BY <1>1 DEF TwinSubscribed
<1>u. ASSUME NEW t \in UserTopics, Unsubscribe(t) PROVE TwinSubscribed'
  <2>1. CASE t = "GET_STATE"
    BY <1>u, <1>1, <2>1 DEF Unsubscribe
  <2>2. CASE t # "GET_STATE"
    <3> DEFINE cut == [i \in DOMAIN subscribing |-> [subscribing[i] EXCEPT !.topics = @ \ {t}]]
    <3>1. /\ twin_resp_sub_recv' = twin_resp_sub_recv /\ refused' = refused
          /\ session' = session \/ session' = session \ {t}
          /\ subscribing' = subscribing \/ subscribing' = cut
      BY <1>u, <2>2 DEF Unsubscribe
    <3>2. \A i \in DOMAIN subscribing :
            /\ cut[i].twin = subscribing[i].twin
            /\ cut[i].topics = subscribing[i].topics \ {t}
      <4>1. \A q \in Packets : /\ [q EXCEPT !.topics = @ \ {t}].twin = q.twin
                               /\ [q EXCEPT !.topics = @ \ {t}].topics = q.topics \ {t}
        BY DEF Packets
      <4> QED
        BY <4>1, PacketParts
    <3>3. DOMAIN cut = DOMAIN subscribing
      OBVIOUS
    <3> HIDE DEF cut
    <3> QED
      BY <2>2, <3>1, <3>2, <3>3 DEF TwinSubscribed
  <2> QED
    BY <2>1, <2>2
<1>s. CASE SendSubscribe
  <2> DEFINE marked == topics_ToSubscribe \cap topic
             twin == "GET_STATE" \in marked
             older == [i \in DOMAIN subscribing |-> [subscribing[i] EXCEPT !.twin = @ /\ ~twin]]
             new == [topics |-> marked, twin |-> twin]
  <2>1. /\ UNCHANGED <<twin_resp_sub_recv, session, refused>>
        /\ subscribing' = Append(older, new) \/ subscribing' = subscribing
    BY <1>s DEF SendSubscribe
  <2>2. CASE subscribing' = subscribing
    BY <1>1, <2>1, <2>2
  <2>3. CASE subscribing' = Append(older, new)
    <3>1. \A i \in DOMAIN subscribing :
            /\ older[i].topics = subscribing[i].topics
            /\ older[i].twin => subscribing[i].twin
      <4>1. \A q \in Packets, b \in BOOLEAN : /\ [q EXCEPT !.twin = @ /\ b].topics = q.topics
                                              /\ [q EXCEPT !.twin = @ /\ b].twin => q.twin
        BY DEF Packets
      <4>2. (~twin) \in BOOLEAN
        OBVIOUS
      <4> QED
        BY <4>1, <4>2, PacketParts
    <3>2. new.topics = marked /\ new.twin = twin
      OBVIOUS
    <3>3. older \in Seq({older[i] : i \in DOMAIN subscribing}) /\ Len(older) = Len(subscribing)
      BY <1>0
    <3> HIDE DEF older, new
    <3>4. /\ DOMAIN Append(older, new) = 1..(Len(subscribing) + 1)
          /\ \A i \in DOMAIN subscribing : Append(older, new)[i] = older[i]
          /\ Append(older, new)[Len(subscribing) + 1] = new
      BY <1>0, <3>3
    <3>5. \A i \in 1..(Len(subscribing) + 1) : i \in DOMAIN subscribing \/ i = Len(subscribing) + 1
      BY <1>0
    <3> QED
      BY <2>1, <2>3, <3>1, <3>2, <3>4, <3>5 DEF TwinSubscribed
  <2> QED
    BY <2>1, <2>2, <2>3
<1>a. CASE Suback
  <2>1. /\ subscribing # <<>> /\ subscribing' = Tail(subscribing)
        /\ twin_resp_sub_recv' = (twin_resp_sub_recv \/ Head(subscribing).twin)
        /\ session \cup Head(subscribing).topics \cup refused \subseteq session' \cup refused'
    BY <1>a DEF Suback
  <2>2. /\ 1 \in DOMAIN subscribing /\ Head(subscribing) = subscribing[1]
        /\ \A i \in DOMAIN Tail(subscribing) :
             i + 1 \in DOMAIN subscribing /\ Tail(subscribing)[i] = subscribing[i + 1]
    BY <1>0, <2>1
  <2> QED
    BY <2>1, <2>2 DEF TwinSubscribed
<1>2. ASSUME NEW t \in UserTopics, Subscribe(t) PROVE TwinSubscribed'
  BY <1>1, <1>2 DEF Subscribe, linkVars
<1>3. CASE UpdateMqttConnectionStateIfNeeded
  BY <1>1, <1>3 DEF UpdateMqttConnectionStateIfNeeded, Connect, ConnectFails, RetryLater,
     StopRetrying, ExecuteDisconnect, ConnectTimesOut, SasTokenExpires, ClockFails,
     NothingToUpdate, StartDisconnect, DisconnectAtOnce, Disconnected, linkVars, topicVars
<1>4. CASE PendingClose \/ NothingToSubscribe \/ ProcessSubackDoWork \/ PublishStateWork
           \/ NoStateWork
  BY <1>1, <1>4 DEF PendingClose, NothingToSubscribe, ProcessSubackDoWork, PublishStateWork,
     NoStateWork, linkVars, topicVars
<1>5. CASE ConnackAccepted \/ ConnackRefused \/ OnDisconnect \/ processErrorCallback
           \/ subscribeToNotifyStateIfNeeded \/ NetworkDone
  BY <1>1, <1>5 DEF ConnackAccepted, ConnackRefused, OnDisconnect, processErrorCallback,
     subscribeToNotifyStateIfNeeded, NetworkDone, linkVars, topicVars
<1>6. CASE FinishDisconnect \/ TelemetryTimesOut \/ PendingDone \/ SetKeepAlive \/ Destroy
  BY <1>1, <1>6 DEF FinishDisconnect, TelemetryTimesOut, PendingDone, SetKeepAlive, Destroy,
     StartDisconnect, DisconnectAtOnce, Disconnected, linkVars, topicVars
<1> QED
  BY <1>u, <1>s, <1>a, <1>2, <1>3, <1>4, <1>5, <1>6 DEF ConnNext, StateWork, Network

\* Whatever order SUBSCRIBEs, SUBACKs, unsubscriptions and reconnections come in,
\* twin_resp_sub_recv means that the hub has the subscription to twin responses, or refused
\* it when it was last asked.
THEOREM TwinResponsesSubscribed == ConnSpec => []TwinSubscribed
<1>1. ConnInit => TwinSubscribed
  BY DEF ConnInit, TwinSubscribed
<1>2. ConnInv /\ TwinSubscribed /\ [ConnNext]_connVars => TwinSubscribed'
  <2> SUFFICES ASSUME ConnInv, TwinSubscribed, [ConnNext]_connVars PROVE TwinSubscribed'
    OBVIOUS
  <2>1. CASE ConnNext
    BY <2>1, StepSubscribed, TypeSplits DEF ConnInv
  <2>2. CASE UNCHANGED connVars
    BY <2>2 DEF connVars, TwinSubscribed
  <2> QED
    BY <2>1, <2>2
<1> QED
  BY <1>1, <1>2, ConnInvariant, PTL DEF ConnSpec

-----------------------------------------------------------------------------
(* Twin requests *)

\* Every step of the twin is a step of the connection or leaves it alone.
LEMMA TwinStepsConnection == [TwinNext]_qvars => [ConnNext]_connVars
<1> SUFFICES ASSUME [TwinNext]_qvars PROVE [ConnNext]_connVars
  OBVIOUS
<1>1. CASE UNCHANGED qvars
  BY <1>1 DEF qvars
<1>2. ASSUME \/ \E g \in Gets : GetTwinAsync(g)
             \/ \E r \in Reports : ProcessItem(r)
             \/ \E r \in Requests : LateResponse(r)
      PROVE  UNCHANGED connVars
  BY <1>2 DEF GetTwinAsync, ProcessItem, LateResponse
<1>3. ASSUME NEW r \in Requests, TwinResponse(r) PROVE [ConnNext]_connVars
  BY <1>3 DEF TwinResponse, ConnNext, Network
<1>4. CASE SendInitialGet \/ sendPendingGetTwinRequests
  BY <1>4 DEF SendInitialGet, sendPendingGetTwinRequests, ConnNext, StateWork
<1>5. CASE removeExpiredTwinRequests
  BY <1>5 DEF removeExpiredTwinRequests, ConnNext
<1>6. CASE DestroyTwin
  BY <1>6 DEF DestroyTwin, ConnNext
<1>7. CASE OtherStep
  BY <1>7 DEF OtherStep, ConnNext, StateWork, Network
<1> QED
  BY <1>1, <1>2, <1>3, <1>4, <1>5, <1>6, <1>7 DEF TwinNext

\* The twin runs on the connection as MqttConnection describes it, so all that was proved of
\* the connection holds with twin requests under way.
THEOREM TwinKeepsConnection == TwinSpec => ConnSpec
<1>1. TwinInit => ConnInit
  BY DEF TwinInit
<1> QED
  BY <1>1, TwinStepsConnection, PTL DEF TwinSpec, ConnSpec

\* No request waits in both queues, one that waits has not ended, and every step keeps it so.
LEMMA TwinStepTyped ==
  ASSUME TwinTypeOK, [TwinNext]_qvars
  PROVE  TwinTypeOK'
<1> USE TwinAssumption DEF TwinTypeOK, Held, Requests, Asked, Fates
<1>1. CASE UNCHANGED qvars
  BY <1>1 DEF qvars, twinVars
<1>2. ASSUME NEW g \in Gets, GetTwinAsync(g) PROVE TwinTypeOK'
  BY <1>2 DEF GetTwinAsync
<1>3. ASSUME NEW r \in Reports, ProcessItem(r) PROVE TwinTypeOK'
  BY <1>3 DEF ProcessItem
<1>4. CASE SendInitialGet
  <2>1. PICK i \in Initials :
          /\ i \notin Held \cup responses
          /\ ack_waiting_queue' = ack_waiting_queue \cup {i}
          /\ responses' = responses \cup {i}
    BY <1>4 DEF SendInitialGet
  <2>2. UNCHANGED <<pending_get_twin_queue, fate>>
    BY <1>4 DEF SendInitialGet
  <2> QED
    BY <2>1, <2>2
<1>5. CASE sendPendingGetTwinRequests
  BY <1>5 DEF sendPendingGetTwinRequests, Ends
<1>6. ASSUME NEW r \in Requests, TwinResponse(r) PROVE TwinTypeOK'
  <2>1. /\ UNCHANGED pending_get_twin_queue /\ responses' = responses \ {r}
        /\ r \in ack_waiting_queue /\ ack_waiting_queue' = ack_waiting_queue \ {r}
        /\ Ends({r}, "answered")
    BY <1>6 DEF TwinResponse
  <2>2. fate' \in [Asked -> Fates \cup {"none", "twice"}]
    BY <2>1 DEF Ends
  <2>3. \A q \in Asked : q # r => fate'[q] = fate[q]
    BY <2>1 DEF Ends
  <2>4. Held' = Held \ {r}
    BY <2>1
  <2> QED
    BY <2>1, <2>2, <2>3, <2>4
<1>7. ASSUME NEW r \in Requests, LateResponse(r) PROVE TwinTypeOK'
  BY <1>7 DEF LateResponse
<1>8. CASE removeExpiredTwinRequests
  BY <1>8 DEF removeExpiredTwinRequests, Ends
<1>9. CASE DestroyTwin
  BY <1>9 DEF DestroyTwin, Ends
<1>10. CASE OtherStep
  <2>1. /\ responses' \subseteq responses
        /\ UNCHANGED <<pending_get_twin_queue, ack_waiting_queue, fate>>
    BY <1>10 DEF OtherStep
  <2> QED
    BY <2>1
<1> QED
  BY <1>1, <1>2, <1>3, <1>4, <1>5, <1>6, <1>7, <1>8, <1>9, <1>10 DEF TwinNext

\* The queues and the fates of the requests keep their types; a request that has ended is in
\* no queue.
THEOREM TwinTypeCorrect == TwinSpec => []TwinTypeOK
<1>1. TwinInit => TwinTypeOK
  BY DEF TwinInit, TwinTypeOK, Held
<1>2. TwinTypeOK /\ [TwinNext]_qvars => TwinTypeOK'
  BY TwinStepTyped
<1> QED
  BY <1>1, <1>2, PTL DEF TwinSpec

\* How the fate of requests that leave the queues settles them.
LEMMA EndsSettle ==
  ASSUME TwinTypeOK, NEW S, S \subseteq Held, NEW how \in Fates, Ends(S, how),
         Held' = Held \ S
  PROVE  RequestDelivery!Settle(S \cap Asked)
<1>1. \A r \in S \cap Asked : requestStatus[r] = "held"
  BY DEF requestStatus
<1>2. [r \in S \cap Asked |-> how] \in [S \cap Asked -> Fates]
  OBVIOUS
<1>3. requestStatus' = [r \in Asked |-> IF r \in S \cap Asked THEN how ELSE requestStatus[r]]
  <2>1. ASSUME NEW r \in Asked, r \in S
        PROVE  requestStatus'[r] = how
    <3>1. fate[r] = "none" /\ fate'[r] = how /\ r \notin Held'
      BY <2>1 DEF TwinTypeOK, Ends
    <3>2. how # "none"
      BY DEF Fates
    <3> QED
      BY <3>1, <3>2 DEF requestStatus
  <2>2. ASSUME NEW r \in Asked, r \notin S
        PROVE  requestStatus'[r] = requestStatus[r]
    BY <2>2 DEF requestStatus, Ends
  <2> QED
    BY <2>1, <2>2 DEF requestStatus
<1> DEFINE f == [r \in S \cap Asked |-> how]
<1>4. requestStatus' = [r \in Asked |-> IF r \in S \cap Asked THEN f[r] ELSE requestStatus[r]]
  BY <1>3
<1> QED
  BY <1>1, <1>2, <1>4 DEF RequestDelivery!Settle

\* Each step accepts a request, settles some, or changes none of their statuses.
LEMMA TwinStepDelivers ==
  ASSUME TwinTypeOK, [TwinNext]_qvars
  PROVE  [RequestDelivery!Next]_requestStatus
<1> USE TwinAssumption
<1>0. ASSUME \A r \in Asked : r \in Held' <=> r \in Held, fate' = fate
      PROVE  UNCHANGED requestStatus
  BY <1>0 DEF requestStatus
<1>a. ASSUME NEW r \in Asked, r \notin Held, fate[r] = "none", fate' = fate,
             Held' = Held \cup {r}
      PROVE  RequestDelivery!Accept(r)
  BY <1>a DEF RequestDelivery!Accept, requestStatus
<1>s. ASSUME NEW S, S \subseteq Held, NEW how \in Fates, Ends(S, how), Held' = Held \ S
      PROVE  RequestDelivery!Next
  <2>1. S \cap Asked \in SUBSET Asked
    OBVIOUS
  <2> QED
    BY <1>s, <2>1, EndsSettle DEF RequestDelivery!Next
<1>1. CASE UNCHANGED qvars
  BY <1>1 DEF qvars, twinVars, requestStatus, Held
<1>2. ASSUME NEW g \in Gets, GetTwinAsync(g) PROVE RequestDelivery!Next
  BY <1>2, <1>a DEF GetTwinAsync, Held, Asked, RequestDelivery!Next
<1>3. ASSUME NEW r \in Reports, ProcessItem(r) PROVE RequestDelivery!Next
  BY <1>3, <1>a DEF ProcessItem, Held, Asked, RequestDelivery!Next
<1>4. CASE SendInitialGet
  <2>1. PICK i \in Initials : ack_waiting_queue' = ack_waiting_queue \cup {i}
    BY <1>4 DEF SendInitialGet
  <2>2. UNCHANGED <<pending_get_twin_queue, fate>>
    BY <1>4 DEF SendInitialGet
  <2> QED
    BY <1>0, <2>1, <2>2 DEF Held, Asked
<1>5. CASE sendPendingGetTwinRequests
  <2>1. PICK ok \in SUBSET pending_get_twin_queue :
          /\ ack_waiting_queue' = ack_waiting_queue \cup ok
          /\ Ends(pending_get_twin_queue \ ok, "dropped")
    BY <1>5 DEF sendPendingGetTwinRequests
  <2>2. pending_get_twin_queue' = {}
    BY <1>5 DEF sendPendingGetTwinRequests
  <2>3. Held' = Held \ (pending_get_twin_queue \ ok)
    BY <2>1, <2>2 DEF Held, TwinTypeOK
  <2>4. pending_get_twin_queue \ ok \subseteq Held /\ "dropped" \in Fates
    BY DEF Held, Fates
  <2> QED
    BY <1>s, <2>1, <2>3, <2>4
<1>6. ASSUME NEW r \in Requests, TwinResponse(r) PROVE RequestDelivery!Next
  <2>1. /\ UNCHANGED pending_get_twin_queue /\ r \in ack_waiting_queue
        /\ ack_waiting_queue' = ack_waiting_queue \ {r} /\ Ends({r}, "answered")
    BY <1>6 DEF TwinResponse
  <2>2. Held' = Held \ {r} /\ {r} \subseteq Held /\ "answered" \in Fates
    BY <2>1 DEF Held, TwinTypeOK, Fates
  <2> QED
    BY <1>s, <2>1, <2>2
<1>7. CASE (\E r \in Requests : LateResponse(r)) \/ OtherStep
  <2>1. UNCHANGED <<pending_get_twin_queue, ack_waiting_queue, fate>>
    BY <1>7 DEF LateResponse, OtherStep
  <2> QED
    BY <1>0, <2>1 DEF Held
<1>8. CASE removeExpiredTwinRequests
  <2>1. PICK expired \in SUBSET Held : Held' = Held \ expired /\ Ends(expired, "timeout")
    BY <1>8 DEF removeExpiredTwinRequests, Held
  <2>2. "timeout" \in Fates
    BY DEF Fates
  <2> QED
    BY <1>s, <2>1, <2>2
<1>9. CASE DestroyTwin
  <2>1. Held' = Held \ Held /\ Ends(Held, "destroyed")
    BY <1>9 DEF DestroyTwin, Held
  <2>2. "destroyed" \in Fates
    BY DEF Fates
  <2> QED
    BY <1>s, <2>1, <2>2
<1> QED
  BY <1>1, <1>2, <1>3, <1>4, <1>5, <1>6, <1>7, <1>8, <1>9 DEF TwinNext

\* Every request for the twin and every reported state that was accepted ends once: with its
\* response, its timeout, a failed PUBLISH or Destroy, and for good.
THEOREM TwinRequestsEndOnce == TwinSpec => RequestEndsOnce
<1>1. TwinInit => RequestDelivery!Init
  BY DEF TwinInit, RequestDelivery!Init, requestStatus, Held
<1>2. TwinTypeOK /\ [TwinNext]_qvars => [RequestDelivery!Next]_requestStatus
  BY TwinStepDelivers
<1>3. TwinSpec => RequestDelivery!Spec
  BY <1>1, <1>2, TwinTypeCorrect, PTL DEF TwinSpec, RequestDelivery!Spec
<1> QED
  BY <1>3 DEF RequestEndsOnce

\* A reported state is only published when the hub has the subscription that brings its
\* response, or refused it when it was last asked.
THEOREM ReportsAreAnswerable == TwinSpec => ReportsAnswerable
<1> DEFINE Answerable == \A r \in Reports : r \in responses' \ responses
                           => "GET_STATE" \in session \cup refused
<1>1. ASSUME TwinTypeOK, TwinSubscribed, [TwinNext]_qvars, NEW r \in Reports,
             r \in responses' \ responses
      PROVE  "GET_STATE" \in session \cup refused
  <2>1. PICK q \in Reports : ProcessItem(q)
    BY <1>1, TwinAssumption DEF TwinNext, TwinTypeOK, qvars, twinVars, GetTwinAsync,
       SendInitialGet, sendPendingGetTwinRequests, TwinResponse, LateResponse,
       removeExpiredTwinRequests, DestroyTwin, OtherStep
  <2> QED
    BY <1>1, <2>1 DEF ProcessItem, TwinSubscribed
<1>2. TwinTypeOK /\ TwinSubscribed /\ [TwinNext]_qvars => [Answerable]_qvars
  BY <1>1
<1>3. TwinSpec => [][Answerable]_qvars
  BY <1>2, TwinTypeCorrect, TwinKeepsConnection, TwinResponsesSubscribed, PTL DEF TwinSpec
<1> QED
  BY <1>3 DEF ReportsAnswerable

\* A twin request ends once, and a report is only sent where the answer can come back.
THEOREM TwinIsHandled == TwinSpec => TwinHandled
BY TwinRequestsEndOnce, ReportsAreAnswerable DEF TwinHandled

-----------------------------------------------------------------------------
(* Telemetry *)

Entry == [msg : Messages, packet_id : 1 .. PacketIds - 1, retryCount : Nat, overdue : BOOLEAN]
Packet == [id : 1 .. PacketIds - 1, msg : Messages]

\* A message is in one of the two lists, once, until it is settled.
MessageInv ==
  /\ \A i, j \in DOMAIN telemetry_waitingForAck :
       telemetry_waitingForAck[i].msg = telemetry_waitingForAck[j].msg => i = j
  /\ IsInjective(waitingToSend)
  /\ ToSet(waitingToSend) \cap Awaiting = {}
  /\ \A m \in ToSet(waitingToSend) \cup Awaiting : result[m] = "none"
  /\ \A m \in Messages : result[m] # "twice"

\* retryCount counts the times a message was published, and more.
PublishInv ==
  /\ \A i \in DOMAIN telemetry_waitingForAck :
       /\ publishes[telemetry_waitingForAck[i].msg] <= telemetry_waitingForAck[i].retryCount
       /\ telemetry_waitingForAck[i].retryCount <= MAX_SEND_RECOUNT_LIMIT
  /\ \A m \in Messages :
       /\ publishes[m] <= MAX_SEND_RECOUNT_LIMIT
       /\ result[m] = "none" /\ m \notin Awaiting => publishes[m] = 0

\* An entry is the only one with its packet id, and a PUBACK for that id is one for its message.
PacketInv ==
  /\ \A i, j \in DOMAIN telemetry_waitingForAck :
       telemetry_waitingForAck[i].packet_id = telemetry_waitingForAck[j].packet_id => i = j
  /\ \A k \in DOMAIN pubacks, i \in DOMAIN telemetry_waitingForAck :
       pubacks[k].id = telemetry_waitingForAck[i].packet_id
         => pubacks[k].msg = telemetry_waitingForAck[i].msg
  /\ OkMeansReceived

TelInv == TelTypeOK /\ MessageInv /\ PublishInv

\* The packet id of the next message is not that of one that still waits: ids are 16 bits and
\* are used again after a wrap, which nothing in the code prevents (getNextPacketId).
UsedIds == {telemetry_waitingForAck[i].packet_id : i \in DOMAIN telemetry_waitingForAck}
             \cup {pubacks[k].id : k \in DOMAIN pubacks}
NextIdFree ==
  currPacketState = "PUBLISH" /\ waitingToSend # <<>> => getNextPacketId \notin UsedIds

-----------------------------------------------------------------------------
(* What a step of telemetry does *)

TelStays ==
  /\ UNCHANGED <<waitingToSend, telemetry_waitingForAck, result, publishes, received>>
  /\ pubacks' = pubacks \/ pubacks' = <<>>
TelTakes(m) ==
  /\ m \notin ToSet(waitingToSend) \cup Awaiting /\ result[m] = "none"
  /\ waitingToSend' = Append(waitingToSend, m)
  /\ UNCHANGED <<telemetry_waitingForAck, result, hubVars>>
TelFails ==
  /\ waitingToSend # <<>> /\ waitingToSend' = Tail(waitingToSend)
  /\ notifyApplicationOfSendMessageComplete({Head(waitingToSend)}, "ERROR")
  /\ UNCHANGED <<telemetry_waitingForAck, hubVars>>
TelPublishes ==
  /\ currPacketState = "PUBLISH" /\ waitingToSend # <<>> /\ waitingToSend' = Tail(waitingToSend)
  /\ publishes' = [publishes EXCEPT ![Head(waitingToSend)] = @ + 1]
  /\ pubacks' = Append(pubacks, [id |-> getNextPacketId, msg |-> Head(waitingToSend)])
  /\ telemetry_waitingForAck' =
       Append(telemetry_waitingForAck, [msg |-> Head(waitingToSend), packet_id |-> getNextPacketId,
                                        retryCount |-> 1, overdue |-> FALSE])
  /\ UNCHANGED <<result, received>>
Acked == {i \in DOMAIN telemetry_waitingForAck :
            telemetry_waitingForAck[i].packet_id = Head(pubacks).id}
TelAcknowledges ==
  /\ pubacks # <<>> /\ pubacks' = Tail(pubacks)
  /\ \E order \in [1 .. Cardinality(DOMAIN telemetry_waitingForAck \ Acked)
                     -> DOMAIN telemetry_waitingForAck \ Acked] :
       /\ Remain(DOMAIN telemetry_waitingForAck \ Acked, order)
       /\ telemetry_waitingForAck' =
            [i \in 1 .. Cardinality(DOMAIN telemetry_waitingForAck \ Acked)
               |-> telemetry_waitingForAck[order[i]]]
  /\ notifyApplicationOfSendMessageComplete({telemetry_waitingForAck[i].msg : i \in Acked}, "OK")
  /\ received' = received \cup {Head(pubacks).msg}
  /\ UNCHANGED <<waitingToSend, publishes>>
TelDrops(r) ==
  /\ walk \in Awaiting
  /\ notifyApplicationOfSendMessageComplete({walk}, r)
  /\ telemetry_waitingForAck' = RemoveAt(telemetry_waitingForAck, At(walk))
  /\ pubacks' = pubacks \/ pubacks' = <<>>
  /\ UNCHANGED <<waitingToSend, publishes, received>>
TelCounts ==
  /\ walk \in Awaiting /\ Current.retryCount < MAX_SEND_RECOUNT_LIMIT
  /\ telemetry_waitingForAck' =
       [telemetry_waitingForAck EXCEPT ![At(walk)].retryCount = @ + 1, ![At(walk)].overdue = FALSE]
  /\ UNCHANGED <<waitingToSend, result, received>>
TelResends ==
  /\ publishes' = [publishes EXCEPT ![walk] = @ + 1]
  /\ pubacks' = Append(pubacks, [id |-> Current.packet_id, msg |-> walk])
TelForgets ==
  /\ notifyApplicationOfSendMessageComplete(Awaiting, "BECAUSE_DESTROY")
  /\ telemetry_waitingForAck' = <<>>
  /\ UNCHANGED <<waitingToSend, hubVars>>
TelAges ==
  /\ telemetry_waitingForAck' = [i \in DOMAIN telemetry_waitingForAck |->
                                   [telemetry_waitingForAck[i] EXCEPT !.overdue = TRUE]]
  /\ UNCHANGED <<waitingToSend, hubVars, result>>

TelMoves ==
  \/ TelStays \/ \E m \in Messages : TelTakes(m)
  \/ TelFails \/ TelPublishes \/ TelAcknowledges
  \/ TelDrops("ERROR") \/ TelDrops("MESSAGE_TIMEOUT")
  \/ TelCounts /\ (TelResends \/ UNCHANGED <<publishes, pubacks>>)
  \/ TelForgets \/ TelAges

\* Every step of telemetry is one of these.
LEMMA TelCases ==
  ASSUME [TelNext]_tvars
  PROVE  TelMoves
<1>1. CASE UNCHANGED tvars
  BY <1>1 DEF tvars, telVars, TelMoves, TelStays
<1>2. ASSUME NEW m \in Messages, SendEvent(m)
      PROVE  TelTakes(m)
  BY <1>2 DEF SendEvent, TelTakes
<1>3. CASE ProcessPublishStateDoWork
  <2>1. currPacketState = "PUBLISH" /\ waitingToSend # <<>> /\ waitingToSend' = Tail(waitingToSend)
    BY <1>3 DEF ProcessPublishStateDoWork
  <2>2. \/ /\ notifyApplicationOfSendMessageComplete({Head(waitingToSend)}, "ERROR")
           /\ UNCHANGED <<telemetry_waitingForAck, hubVars>>
        \/ TelPublishes
    BY <1>3, <2>1 DEF ProcessPublishStateDoWork, publishTelemetryMsg, TelPublishes
  <2> QED
    BY <2>1, <2>2 DEF TelFails, TelMoves
<1>4. CASE Puback
  BY <1>4 DEF Puback, TelAcknowledges, Acked, TelMoves
<1>5. CASE ProcessPendingTelemetryMessages
  <2>1. CASE NotOverdue
    BY <2>1 DEF NotOverdue, hubVars, TelStays, TelMoves
  <2>2. CASE GiveUp
    BY <2>2 DEF GiveUp, Walking, TelDrops, TelMoves
  <2>3. CASE Resend
    BY <2>3 DEF Resend, Walking, MayResend, publishTelemetryMsg, hubVars, TelDrops, TelCounts,
       TelResends, TelMoves
  <2>4. CASE Postpone
    BY <2>4 DEF Postpone, Walking, MayResend, hubVars, TelCounts, TelMoves
  <2> QED
    BY <1>5, <2>1, <2>2, <2>3, <2>4 DEF ProcessPendingTelemetryMessages
<1>6. CASE WalkEnds \/ ConnectionStep \/ StartDestroy
  BY <1>6 DEF WalkEnds, ConnectionStep, StartDestroy, telVars, TelStays, TelMoves
<1>7. CASE DestroyTelemetry
  BY <1>7 DEF DestroyTelemetry, TelForgets, TelMoves
<1>8. CASE MinutePasses
  BY <1>8 DEF MinutePasses, TelAges, TelMoves
<1> QED
  BY <1>1, <1>2, <1>3, <1>4, <1>5, <1>6, <1>7, <1>8 DEF TelNext, TelMoves

-----------------------------------------------------------------------------
(* The lists of telemetry *)

\* The entry the walk is at.
LEMMA WalkIsAt ==
  ASSUME telemetry_waitingForAck \in Seq(Entry), walk \in Awaiting
  PROVE  /\ At(walk) \in 1..Len(telemetry_waitingForAck)
         /\ telemetry_waitingForAck[At(walk)].msg = walk
BY DEF Awaiting, At

\* Elements of the lists have the types of their elements.
LEMMA TelElements ==
  ASSUME TelTypeOK
  PROVE  /\ Len(telemetry_waitingForAck) \in Nat
         /\ DOMAIN telemetry_waitingForAck = 1..Len(telemetry_waitingForAck)
         /\ \A i \in 1..Len(telemetry_waitingForAck) :
              /\ telemetry_waitingForAck[i] \in Entry
              /\ telemetry_waitingForAck[i].msg \in Messages
              /\ telemetry_waitingForAck[i].packet_id \in 1 .. PacketIds - 1
              /\ telemetry_waitingForAck[i].retryCount \in Nat
         /\ Len(pubacks) \in Nat /\ DOMAIN pubacks = 1..Len(pubacks)
         /\ \A k \in 1..Len(pubacks) : pubacks[k].id \in 1 .. PacketIds - 1 /\ pubacks[k].msg \in Messages
         /\ telemetry_waitingForAck \in Seq(Entry) /\ pubacks \in Seq(Packet)
         /\ waitingToSend \in Seq(Messages)
<1>1. /\ telemetry_waitingForAck \in Seq(Entry) /\ pubacks \in Seq(Packet)
      /\ waitingToSend \in Seq(Messages)
  BY DEF TelTypeOK, Entry, Packet
<1>2. /\ \A i \in 1..Len(telemetry_waitingForAck) : telemetry_waitingForAck[i] \in Entry
      /\ \A k \in 1..Len(pubacks) : pubacks[k] \in Packet
  BY <1>1, ElementOfSeq
<1>3. /\ Len(telemetry_waitingForAck) \in Nat
      /\ DOMAIN telemetry_waitingForAck = 1..Len(telemetry_waitingForAck)
      /\ Len(pubacks) \in Nat /\ DOMAIN pubacks = 1..Len(pubacks)
  BY <1>1, LenProperties
<1> QED
  BY <1>1, <1>2, <1>3 DEF Entry, Packet

\* The set of the elements of a list, in the words of SequencesExt and of Functions.
LEMMA ToSetIsRange ==
  ASSUME NEW S, NEW s \in Seq(S)
  PROVE  ToSet(s) = Range(s) /\ ToSet(s) \subseteq S
BY LenProperties, ElementOfSeq DEF ToSet, Range

\* Counting a retry of entry k changes nothing else that matters.
LEMMA EntryCounted ==
  ASSUME NEW s \in Seq(Entry), NEW k \in 1..Len(s), NEW t,
         t = [s EXCEPT ![k].retryCount = @ + 1, ![k].overdue = FALSE]
  PROVE  /\ t \in Seq(Entry) /\ DOMAIN t = DOMAIN s
         /\ \A i \in DOMAIN s : t[i].msg = s[i].msg /\ t[i].packet_id = s[i].packet_id
         /\ \A i \in DOMAIN s : i # k => t[i].retryCount = s[i].retryCount
         /\ t[k].retryCount = s[k].retryCount + 1
<1>1. DOMAIN s = 1..Len(s) /\ Len(s) \in Nat /\ s[k] \in Entry
      /\ \A i \in 1..Len(s) : s[i] \in Entry
  BY LenProperties, ElementOfSeq
<1> DEFINE e == [msg |-> s[k].msg, packet_id |-> s[k].packet_id, retryCount |-> s[k].retryCount + 1,
                 overdue |-> FALSE]
<1>2. e \in Entry
  BY <1>1 DEF Entry
<1>3. t[k] = e
  BY <1>1 DEF Entry
<1>4. DOMAIN t = 1..Len(s) /\ \A i \in 1..Len(s) : i # k => t[i] = s[i]
  BY <1>1
<1>5. e.msg = s[k].msg /\ e.packet_id = s[k].packet_id /\ e.retryCount = s[k].retryCount + 1
  OBVIOUS
<1> HIDE DEF e
<1>6. t \in [1..Len(s) -> Entry]
  <2>1. \A i \in 1..Len(s) : t[i] \in Entry
    BY <1>1, <1>2, <1>3, <1>4
  <2>2. t = [i \in 1..Len(s) |-> t[i]]
    BY <1>1
  <2> QED
    BY <2>1, <2>2
<1>7. t \in Seq(Entry)
  BY <1>1, <1>6, FunctionIsSequence
<1> QED
  BY <1>1, <1>3, <1>4, <1>5, <1>7

\* Time changes only whether an entry is overdue.
LEMMA EntriesAge ==
  ASSUME NEW s \in Seq(Entry), NEW t, t = [i \in DOMAIN s |-> [s[i] EXCEPT !.overdue = TRUE]]
  PROVE  /\ t \in Seq(Entry) /\ DOMAIN t = DOMAIN s
         /\ \A i \in DOMAIN s : /\ t[i].msg = s[i].msg /\ t[i].packet_id = s[i].packet_id
                                /\ t[i].retryCount = s[i].retryCount
<1>1. DOMAIN s = 1..Len(s) /\ Len(s) \in Nat /\ \A i \in 1..Len(s) : s[i] \in Entry
  BY LenProperties, ElementOfSeq
<1>2. \A i \in 1..Len(s) : /\ t[i] = [s[i] EXCEPT !.overdue = TRUE]
                           /\ t[i].msg = s[i].msg /\ t[i].packet_id = s[i].packet_id
                           /\ t[i].retryCount = s[i].retryCount /\ t[i] \in Entry
  BY <1>1 DEF Entry
<1>3. t \in [1..Len(s) -> Entry]
  BY <1>1, <1>2
<1>4. t \in Seq(Entry) /\ DOMAIN t = 1..Len(s)
  BY <1>1, <1>3, FunctionIsSequence
<1> QED
  BY <1>1, <1>2, <1>4

\* No place of a list remains twice.
LEMMA OrderApart ==
  ASSUME NEW K, K \subseteq Nat, NEW order, DOMAIN order \subseteq Nat, Remain(K, order),
         NEW i \in DOMAIN order, NEW j \in DOMAIN order, order[i] = order[j]
  PROVE  i = j
<1>1. order[i] \in Nat /\ order[j] \in Nat /\ i \in Nat /\ j \in Nat
  BY DEF Remain
<1>2. ~(i < j) /\ ~(j < i)
  BY <1>1 DEF Remain
<1> QED
  BY <1>1, <1>2

\* What remains of a list is a list of its entries, each at most once.
LEMMA EntriesRemain ==
  ASSUME NEW s \in Seq(Entry), NEW K, K \subseteq DOMAIN s,
         NEW order \in [1 .. Cardinality(K) -> K], Remain(K, order),
         NEW t \in [1 .. Cardinality(K) -> Entry],
         \A i \in 1 .. Cardinality(K) : t[i] = s[order[i]]
  PROVE  /\ t \in Seq(Entry) /\ DOMAIN t = DOMAIN order
         /\ \A i \in DOMAIN order : order[i] \in K /\ t[i] = s[order[i]]
         /\ \A i, j \in DOMAIN order : order[i] = order[j] => i = j
         /\ \A k \in K : \E i \in DOMAIN order : order[i] = k
<1> DEFINE n == Cardinality(K)
<1>1. DOMAIN s = 1..Len(s) /\ Len(s) \in Nat /\ \A i \in 1..Len(s) : s[i] \in Entry
  BY LenProperties, ElementOfSeq
<1>2. n \in Nat
  <2>1. IsFiniteSet(1..Len(s))
    BY <1>1, FS_Interval
  <2>2. IsFiniteSet(K)
    BY <1>1, <2>1, FS_Subset
  <2> QED
    BY <2>2, FS_CardinalityType
<1>3. DOMAIN order = 1..n /\ \A i \in 1..n : order[i] \in K /\ t[i] = s[order[i]]
  OBVIOUS
<1>r. /\ \A i, j \in DOMAIN order : i < j => order[i] < order[j]
      /\ \A k \in K : \E i \in DOMAIN order : order[i] = k
  BY DEF Remain
<1> HIDE DEF n
<1>4. t \in [1..n -> Entry]
  BY DEF n
<1>5. t \in Seq(Entry) /\ DOMAIN t = 1..n
  BY <1>2, <1>4, FunctionIsSequence
<1>6. \A i, j \in 1..n : order[i] = order[j] => i = j
  <2>1. DOMAIN order \subseteq Nat /\ K \subseteq Nat
    BY <1>1, <1>2, <1>3
  <2> QED
    BY <1>3, <2>1, OrderApart
<1>7. \A k \in K : \E i \in 1..n : order[i] = k
  BY <1>3, <1>r
<1> QED
  BY <1>3, <1>5, <1>6, <1>7

-----------------------------------------------------------------------------
(* Types of telemetry *)

\* Packet ids stay in their range, and the walk is at a message, at the end or lost.
LEMMA IdsAndWalk ==
  ASSUME TelTypeOK, [TelNext]_tvars
  PROVE  /\ packetId' \in 1 .. PacketIds - 1 /\ walk' \in Messages \cup {"end", "freed"}
         /\ getNextPacketId \in 1 .. PacketIds - 1
<1>1. packetId \in 1 .. PacketIds - 1 /\ walk \in Messages \cup {"end", "freed"}
  BY DEF TelTypeOK
<1>2. getNextPacketId \in 1 .. PacketIds - 1
  BY <1>1, TelemetryAssumption DEF getNextPacketId
<1>3. /\ telemetry_waitingForAck = <<>> \/ telemetry_waitingForAck[1].msg \in Messages
      /\ walk \in Awaiting => \/ At(walk) = Len(telemetry_waitingForAck)
                              \/ telemetry_waitingForAck[At(walk) + 1].msg \in Messages
  <2>1. telemetry_waitingForAck = <<>> \/ 1 \in 1..Len(telemetry_waitingForAck)
    BY TelElements, EmptySeq
  <2>2. ASSUME walk \in Awaiting, At(walk) # Len(telemetry_waitingForAck)
        PROVE  At(walk) + 1 \in 1..Len(telemetry_waitingForAck)
    BY <2>2, TelElements, WalkIsAt
  <2> QED
    BY <2>1, <2>2, TelElements
<1>4. FirstEntry \in Messages \cup {"end"} /\ (walk \in Awaiting => NextEntry \in Messages \cup {"end"})
  BY <1>3 DEF FirstEntry, NextEntry
<1>5. CASE UNCHANGED tvars \/ (\E m \in Messages : SendEvent(m)) \/ WalkEnds \/ StartDestroy
          \/ Puback \/ DestroyTelemetry \/ MinutePasses
  <2>1. UNCHANGED <<packetId, walk>>
    BY <1>5 DEF tvars, telVars, SendEvent, WalkEnds, StartDestroy, Puback, DestroyTelemetry, MinutePasses
  <2> QED
    BY <1>1, <1>2, <2>1
<1>6. CASE ProcessPublishStateDoWork
  <2>1. packetId' \in {packetId, getNextPacketId} /\ walk' = walk
    BY <1>6 DEF ProcessPublishStateDoWork
  <2> QED
    BY <1>1, <1>2, <2>1
<1>7. CASE ProcessPendingTelemetryMessages
  <2>1. walk \in Awaiting /\ walk' = NextEntry /\ packetId' = packetId
    BY <1>7 DEF ProcessPendingTelemetryMessages, NotOverdue, GiveUp, Resend, Postpone, Walking
  <2> QED
    BY <1>1, <1>2, <1>4, <2>1
<1>8. CASE ConnectionStep
  <2>1. packetId' \in {packetId, getNextPacketId} /\ walk' \in {walk, "freed", FirstEntry}
    BY <1>8 DEF ConnectionStep, StartsWalk
  <2> QED
    BY <1>1, <1>2, <1>4, <2>1
<1> QED
  BY <1>5, <1>6, <1>7, <1>8 DEF TelNext

\* What a confirmation does to the results.
LEMMA ResultsAre ==
  ASSUME TelTypeOK, NEW S, NEW r \in Results, notifyApplicationOfSendMessageComplete(S, r)
  PROVE  /\ result' \in [Messages -> Results \cup {"none", "twice"}]
         /\ \A m \in Messages : result'[m] = IF m \notin S THEN result[m]
                                             ELSE IF result[m] = "none" THEN r ELSE "twice"
BY DEF TelTypeOK, notifyApplicationOfSendMessageComplete

\* The types of telemetry are kept by every step.
LEMMA TelTyped ==
  ASSUME TelTypeOK, [TelNext]_tvars
  PROVE  TelTypeOK'
<1>0. {"ERROR", "OK", "MESSAGE_TIMEOUT", "BECAUSE_DESTROY"} \subseteq Results
  BY DEF Results
<1>e. pubacks' = pubacks \/ pubacks' = <<>> => pubacks' \in Seq(Packet)
  BY TelElements, EmptySeq
<1>1. /\ result \in [Messages -> Results \cup {"none", "twice"}]
      /\ publishes \in [Messages -> Nat] /\ received \subseteq Messages
  BY DEF TelTypeOK
<1> DEFINE ListsTyped == /\ waitingToSend' \in Seq(Messages) /\ telemetry_waitingForAck' \in Seq(Entry)
                         /\ pubacks' \in Seq(Packet)
           OthersTyped == /\ result' \in [Messages -> Results \cup {"none", "twice"}]
                          /\ publishes' \in [Messages -> Nat] /\ received' \subseteq Messages
<1>2. ASSUME ListsTyped, OthersTyped
      PROVE  TelTypeOK'
  BY <1>2, IdsAndWalk DEF TelTypeOK, Entry, Packet
<1>3. ASSUME waitingToSend # <<>>
      PROVE  Head(waitingToSend) \in Messages /\ Tail(waitingToSend) \in Seq(Messages)
  BY <1>3, TelElements, HeadTailProperties
<1>4. CASE TelStays
  <2>1. ListsTyped
    BY <1>4, <1>e, TelElements DEF TelStays
  <2>2. OthersTyped
    BY <1>1, <1>4 DEF TelStays
  <2> QED
    BY <1>2, <2>1, <2>2
<1>5. ASSUME NEW m \in Messages, TelTakes(m)
      PROVE  TelTypeOK'
  <2>1. ListsTyped
    BY <1>5, TelElements, AppendProperties DEF TelTakes, hubVars
  <2>2. OthersTyped
    BY <1>1, <1>5 DEF TelTakes, hubVars
  <2> QED
    BY <1>2, <2>1, <2>2
<1>6. CASE TelFails
  <2>1. ListsTyped
    BY <1>3, <1>6, TelElements DEF TelFails, hubVars
  <2>2. OthersTyped
    BY <1>0, <1>1, <1>6, ResultsAre DEF TelFails, hubVars
  <2> QED
    BY <1>2, <2>1, <2>2
<1>7. CASE TelPublishes
  <2>1. Head(waitingToSend) \in Messages /\ waitingToSend' \in Seq(Messages)
    BY <1>3, <1>7 DEF TelPublishes
  <2>2. /\ [id |-> getNextPacketId, msg |-> Head(waitingToSend)] \in Packet
        /\ [msg |-> Head(waitingToSend), packet_id |-> getNextPacketId, retryCount |-> 1,
            overdue |-> FALSE] \in Entry
    BY <2>1, IdsAndWalk DEF Packet, Entry
  <2>3. pubacks' \in Seq(Packet) /\ telemetry_waitingForAck' \in Seq(Entry)
    BY <1>7, <2>2, TelElements, AppendProperties DEF TelPublishes
  <2>4. OthersTyped
    BY <1>1, <1>7, <2>1 DEF TelPublishes
  <2> QED
    BY <1>2, <2>1, <2>3, <2>4
<1>8. CASE TelAcknowledges
  <2>1. pubacks # <<>> /\ pubacks' = Tail(pubacks) /\ waitingToSend' = waitingToSend
    BY <1>8 DEF TelAcknowledges
  <2>2. Head(pubacks) \in Packet /\ Tail(pubacks) \in Seq(Packet)
    BY <2>1, TelElements, HeadTailProperties
  <2>3. telemetry_waitingForAck' \in Seq(Entry)
    <3>1. DOMAIN telemetry_waitingForAck \ Acked \subseteq DOMAIN telemetry_waitingForAck
      OBVIOUS
    <3> DEFINE K == DOMAIN telemetry_waitingForAck \ Acked
    <3>2. PICK order \in [1 .. Cardinality(K) -> K] :
            /\ Remain(K, order)
            /\ telemetry_waitingForAck' = [i \in 1 .. Cardinality(K) |-> telemetry_waitingForAck[order[i]]]
      BY <1>8 DEF TelAcknowledges
    <3> HIDE DEF K
    <3>3. K \subseteq DOMAIN telemetry_waitingForAck
      BY <3>1 DEF K
    <3>4. /\ telemetry_waitingForAck \in Seq(Entry)
          /\ \A i \in DOMAIN telemetry_waitingForAck : telemetry_waitingForAck[i] \in Entry
      BY TelElements
    <3>5. /\ telemetry_waitingForAck' \in [1 .. Cardinality(K) -> Entry]
          /\ \A i \in 1 .. Cardinality(K) : telemetry_waitingForAck'[i] = telemetry_waitingForAck[order[i]]
      BY <3>2, <3>3, <3>4
    <3> QED
      BY <3>2, <3>3, <3>4, <3>5, EntriesRemain
  <2>4. OthersTyped
    <3>1. received' \subseteq Messages
      BY <1>1, <1>8, <2>2 DEF TelAcknowledges, Packet
    <3>2. result' \in [Messages -> Results \cup {"none", "twice"}]
      BY <1>0, <1>8, ResultsAre DEF TelAcknowledges
    <3> QED
      BY <1>1, <1>8, <3>1, <3>2 DEF TelAcknowledges
  <2> QED
    BY <1>2, <2>1, <2>2, <2>3, <2>4, TelElements
<1>9. ASSUME NEW r \in Results, TelDrops(r)
      PROVE  TelTypeOK'
  <2>1. telemetry_waitingForAck' \in Seq(Entry)
    BY <1>9, TelElements, WalkIsAt, RemoveAtElements DEF TelDrops
  <2>2. OthersTyped
    BY <1>1, <1>9, ResultsAre DEF TelDrops
  <2>3. ListsTyped
    BY <1>9, <1>e, <2>1, TelElements DEF TelDrops
  <2> QED
    BY <1>2, <2>2, <2>3
<1>10. CASE TelCounts /\ (TelResends \/ UNCHANGED <<publishes, pubacks>>)
  <2>1. walk \in Messages
    BY <1>10, TelElements, WalkIsAt DEF TelCounts
  <2>2. telemetry_waitingForAck' \in Seq(Entry)
    BY <1>10, TelElements, WalkIsAt, EntryCounted DEF TelCounts
  <2>3. pubacks' \in Seq(Packet) /\ publishes' \in [Messages -> Nat]
    <3>1. CASE TelResends
      <4>1. [id |-> Current.packet_id, msg |-> walk] \in Packet
        BY <1>10, <2>1, TelElements, WalkIsAt DEF TelCounts, Current, Packet
      <4> QED
        BY <1>1, <2>1, <3>1, <4>1, TelElements, AppendProperties DEF TelResends
    <3>2. CASE UNCHANGED <<publishes, pubacks>>
      BY <1>1, <3>2, TelElements
    <3> QED
      BY <1>10, <3>1, <3>2
  <2>4. waitingToSend' \in Seq(Messages) /\ UNCHANGED <<result, received>>
    BY <1>10, TelElements DEF TelCounts
  <2> QED
    BY <1>1, <1>2, <2>2, <2>3, <2>4
<1>11. CASE TelForgets
  <2>1. <<>> \in Seq(Entry)
    BY EmptySeq
  <2>2. ListsTyped
    BY <1>11, <2>1, TelElements DEF TelForgets, hubVars
  <2>3. OthersTyped
    BY <1>0, <1>1, <1>11, ResultsAre DEF TelForgets, hubVars
  <2> QED
    BY <1>2, <2>2, <2>3
<1>12. CASE TelAges
  <2>1. telemetry_waitingForAck' \in Seq(Entry)
    BY <1>12, TelElements, EntriesAge DEF TelAges
  <2> QED
    BY <1>1, <1>2, <1>12, <2>1, TelElements DEF TelAges, hubVars
<1> QED
  BY <1>0, <1>4, <1>5, <1>6, <1>7, <1>8, <1>9, <1>10, <1>11, <1>12, TelCases DEF TelMoves

-----------------------------------------------------------------------------
(* Messages of telemetry *)

\* The list of entries after the messages of gone have left it: the others, each once.
EntriesLeft(gone) ==
  \E f \in [DOMAIN telemetry_waitingForAck' -> DOMAIN telemetry_waitingForAck] :
    /\ \A i, j \in DOMAIN telemetry_waitingForAck' : f[i] = f[j] => i = j
    /\ \A i \in DOMAIN telemetry_waitingForAck' :
         /\ telemetry_waitingForAck'[i].msg = telemetry_waitingForAck[f[i]].msg
         /\ telemetry_waitingForAck'[i].packet_id = telemetry_waitingForAck[f[i]].packet_id
         /\ telemetry_waitingForAck'[i].msg \notin gone
    /\ \A k \in DOMAIN telemetry_waitingForAck :
         \/ telemetry_waitingForAck[k].msg \in gone
         \/ \E i \in DOMAIN telemetry_waitingForAck' : f[i] = k

\* What has left is not awaited, and the entries stay apart by message and by packet id.
LEMMA LeftEntries ==
  ASSUME MessageInv, NEW gone, EntriesLeft(gone)
  PROVE  /\ Awaiting' = Awaiting \ gone
         /\ \A i, j \in DOMAIN telemetry_waitingForAck' :
              telemetry_waitingForAck'[i].msg = telemetry_waitingForAck'[j].msg => i = j
         /\ \A i \in DOMAIN telemetry_waitingForAck' : \E k \in DOMAIN telemetry_waitingForAck :
              /\ telemetry_waitingForAck'[i].msg = telemetry_waitingForAck[k].msg
              /\ telemetry_waitingForAck'[i].packet_id = telemetry_waitingForAck[k].packet_id
         /\ (\A i, j \in DOMAIN telemetry_waitingForAck :
               telemetry_waitingForAck[i].packet_id = telemetry_waitingForAck[j].packet_id => i = j)
            => (\A i, j \in DOMAIN telemetry_waitingForAck' :
                  telemetry_waitingForAck'[i].packet_id = telemetry_waitingForAck'[j].packet_id => i = j)
<1> DEFINE E == telemetry_waitingForAck
           N == telemetry_waitingForAck'
<1>1. PICK f \in [DOMAIN N -> DOMAIN E] :
        /\ \A i, j \in DOMAIN N : f[i] = f[j] => i = j
        /\ \A i \in DOMAIN N : /\ N[i].msg = E[f[i]].msg /\ N[i].packet_id = E[f[i]].packet_id
                               /\ N[i].msg \notin gone
        /\ \A k \in DOMAIN E : E[k].msg \in gone \/ \E i \in DOMAIN N : f[i] = k
  BY DEF EntriesLeft
<1>2. \A i, j \in DOMAIN E : E[i].msg = E[j].msg => i = j
  BY DEF MessageInv
<1>3. Awaiting' = {N[i].msg : i \in DOMAIN N} /\ Awaiting = {E[k].msg : k \in DOMAIN E}
  BY DEF Awaiting
<1> HIDE DEF E, N
<1>4. \A i \in DOMAIN N : f[i] \in DOMAIN E
  BY <1>1
<1>5. ASSUME NEW m PROVE m \in Awaiting' <=> m \in Awaiting \ gone
  <2>1. ASSUME m \in Awaiting' PROVE m \in Awaiting \ gone
    <3>1. PICK i \in DOMAIN N : m = N[i].msg
      BY <1>3, <2>1
    <3>2. m = E[f[i]].msg /\ f[i] \in DOMAIN E /\ m \notin gone
      BY <1>1, <1>4, <3>1
    <3> QED
      BY <1>3, <3>2
  <2>2. ASSUME m \in Awaiting, m \notin gone PROVE m \in Awaiting'
    <3>1. PICK k \in DOMAIN E : m = E[k].msg
      BY <1>3, <2>2
    <3>2. PICK i \in DOMAIN N : f[i] = k
      BY <1>1, <2>2, <3>1
    <3>3. m = N[i].msg
      BY <1>1, <3>1, <3>2
    <3> QED
      BY <1>3, <3>3
  <2> QED
    BY <2>1, <2>2
<1>6. \A i, j \in DOMAIN N : N[i].msg = N[j].msg => i = j
  <2> SUFFICES ASSUME NEW i \in DOMAIN N, NEW j \in DOMAIN N, N[i].msg = N[j].msg
               PROVE  i = j
    OBVIOUS
  <2>1. E[f[i]].msg = E[f[j]].msg
    BY <1>1
  <2>2. f[i] = f[j]
    BY <1>2, <1>4, <2>1
  <2> QED
    BY <1>1, <2>2
<1>7. ASSUME \A i, j \in DOMAIN E : E[i].packet_id = E[j].packet_id => i = j,
             NEW i \in DOMAIN N, NEW j \in DOMAIN N, N[i].packet_id = N[j].packet_id
      PROVE  i = j
  <2>1. E[f[i]].packet_id = E[f[j]].packet_id
    BY <1>1, <1>7
  <2>2. f[i] = f[j]
    BY <1>4, <1>7, <2>1
  <2> QED
    BY <1>1, <2>2
<1>8. \A i \in DOMAIN N : \E k \in DOMAIN E : N[i].msg = E[k].msg /\ N[i].packet_id = E[k].packet_id
  BY <1>1, <1>4
<1> QED
  BY <1>5, <1>6, <1>7, <1>8 DEF E, N

\* Nothing leaves a list whose entries keep their messages and packet ids.
LEMMA SameEntries ==
  ASSUME DOMAIN telemetry_waitingForAck' = DOMAIN telemetry_waitingForAck,
         \A i \in DOMAIN telemetry_waitingForAck :
           /\ telemetry_waitingForAck'[i].msg = telemetry_waitingForAck[i].msg
           /\ telemetry_waitingForAck'[i].packet_id = telemetry_waitingForAck[i].packet_id
  PROVE  EntriesLeft({})
<1> DEFINE f == [i \in DOMAIN telemetry_waitingForAck |-> i]
<1>1. /\ f \in [DOMAIN telemetry_waitingForAck' -> DOMAIN telemetry_waitingForAck]
      /\ \A i \in DOMAIN telemetry_waitingForAck : f[i] = i
  OBVIOUS
<1> HIDE DEF f
<1> QED
  BY <1>1 DEF EntriesLeft

\* Removing the entry the walk is at removes its message.
LEMMA DroppedEntry ==
  ASSUME TelTypeOK, MessageInv, walk \in Awaiting,
         telemetry_waitingForAck' = RemoveAt(telemetry_waitingForAck, At(walk))
  PROVE  EntriesLeft({walk})
<1> DEFINE E == telemetry_waitingForAck
           N == telemetry_waitingForAck'
           k == At(walk)
           n == Len(E)
           f == [i \in 1..(n - 1) |-> IF i < k THEN i ELSE i + 1]
<1>1. E \in Seq(Entry) /\ DOMAIN E = 1..n /\ n \in Nat /\ k \in 1..n /\ E[k].msg = walk
  BY TelElements, WalkIsAt
<1>0. N = RemoveAt(E, k) /\ n = Len(E)
  OBVIOUS
<1>4. \A i, j \in 1..n : E[i].msg = E[j].msg => i = j
  BY <1>1 DEF MessageInv
<1> HIDE DEF E, N, k, n
<1>2. N \in Seq(Entry) /\ Len(N) = n - 1 /\ \A i \in 1..(n - 1) : N[i] = IF i < k THEN E[i] ELSE E[i + 1]
  BY <1>0, <1>1, RemoveAtElements
<1>3. DOMAIN N = 1..(n - 1)
  BY <1>2, LenProperties
<1>5. /\ f \in [1..(n - 1) -> 1..n]
      /\ \A i \in 1..(n - 1) : f[i] = IF i < k THEN i ELSE i + 1
      /\ \A i, j \in 1..(n - 1) : f[i] = f[j] => i = j
      /\ \A i \in 1..(n - 1) : f[i] \in 1..n /\ f[i] # k
  BY <1>1
<1>6. ASSUME NEW j \in 1..n, j # k PROVE \E i \in 1..(n - 1) : f[i] = j
  <2>1. CASE j < k
    <3>1. j \in 1..(n - 1)
      BY <1>1, <2>1
    <3> QED
      BY <1>5, <2>1, <3>1
  <2>2. CASE j > k
    <3>1. j - 1 \in 1..(n - 1) /\ ~(j - 1 < k) /\ j - 1 + 1 = j
      BY <1>1, <2>2
    <3> QED
      BY <1>5, <3>1
  <2> QED
    BY <1>1, <1>6, <2>1, <2>2
<1> HIDE DEF f
<1>7. \A i \in 1..(n - 1) : N[i] = E[f[i]]
  BY <1>2, <1>5
<1>8. \A i \in 1..(n - 1) : N[i].msg # walk
  BY <1>1, <1>4, <1>5, <1>7
<1>9. f \in [DOMAIN N -> DOMAIN E] /\ \A i, j \in DOMAIN N : f[i] = f[j] => i = j
  BY <1>1, <1>3, <1>5
<1>10. \A i \in DOMAIN N : /\ N[i].msg = E[f[i]].msg /\ N[i].packet_id = E[f[i]].packet_id
                          /\ N[i].msg \notin {walk}
  BY <1>3, <1>7, <1>8
<1>11. \A j \in DOMAIN E : E[j].msg \in {walk} \/ \E i \in DOMAIN N : f[i] = j
  BY <1>1, <1>3, <1>6
<1> QED
  BY <1>9, <1>10, <1>11 DEF EntriesLeft, E, N

\* A PUBACK removes the messages of the entries with its id.
LEMMA AckedEntries ==
  ASSUME TelTypeOK, MessageInv, TelAcknowledges
  PROVE  EntriesLeft({telemetry_waitingForAck[i].msg : i \in Acked})
<1> DEFINE E == telemetry_waitingForAck
           N == telemetry_waitingForAck'
           K == DOMAIN E \ Acked
           gone == {E[i].msg : i \in Acked}
<1>1. PICK order \in [1 .. Cardinality(K) -> K] :
        Remain(K, order) /\ N = [i \in 1 .. Cardinality(K) |-> E[order[i]]]
  BY DEF TelAcknowledges
<1>2. E \in Seq(Entry) /\ Acked \subseteq DOMAIN E /\ K \subseteq DOMAIN E
      /\ \A i \in DOMAIN E : E[i] \in Entry
  BY TelElements DEF Acked
<1>3. \A i, j \in DOMAIN E : E[i].msg = E[j].msg => i = j
  BY DEF MessageInv
<1>4. /\ \A k \in DOMAIN E : k \in K \/ k \in Acked
      /\ \A k \in K : k \notin Acked
      /\ \A k \in Acked : E[k].msg \in gone
      /\ \A m \in gone : \E k \in Acked : m = E[k].msg
  OBVIOUS
<1> HIDE DEF E, N, K, gone
<1>5. N \in [1 .. Cardinality(K) -> Entry] /\ \A i \in 1 .. Cardinality(K) : N[i] = E[order[i]]
  BY <1>1, <1>2
<1>r. K \subseteq DOMAIN E /\ Remain(K, order) /\ order \in [1 .. Cardinality(K) -> K]
  BY <1>1, <1>2
<1>6. /\ DOMAIN N = DOMAIN order
      /\ \A i \in DOMAIN order : order[i] \in K /\ N[i] = E[order[i]]
      /\ \A i, j \in DOMAIN order : order[i] = order[j] => i = j
      /\ \A k \in K : \E i \in DOMAIN order : order[i] = k
  <2>1. DOMAIN N = DOMAIN order
    BY <1>2, <1>5, <1>r, EntriesRemain
  <2>2. \A i \in DOMAIN order : order[i] \in K /\ N[i] = E[order[i]]
    BY <1>2, <1>5, <1>r, EntriesRemain
  <2>3. \A i, j \in DOMAIN order : order[i] = order[j] => i = j
    <3>1. DOMAIN order \subseteq Nat /\ K \subseteq Nat
      BY <1>1, <1>2, LenProperties
    <3> QED
      BY <1>r, <3>1, OrderApart
  <2>4. \A k \in K : \E i \in DOMAIN order : order[i] = k
    BY <1>r DEF Remain
  <2> QED
    BY <2>1, <2>2, <2>3, <2>4
<1>7. \A i \in DOMAIN order : N[i].msg \notin gone
  BY <1>2, <1>3, <1>4, <1>6
<1>8. order \in [DOMAIN N -> DOMAIN E]
  BY <1>1, <1>2, <1>6
<1>9. \A k \in DOMAIN E : E[k].msg \in gone \/ \E i \in DOMAIN N : order[i] = k
  BY <1>4, <1>6
<1> QED
  BY <1>6, <1>7, <1>8, <1>9 DEF EntriesLeft, E, N, gone

TelHeld == ToSet(waitingToSend) \cup Awaiting

\* What a step does to the messages that are held, and to what the application was told.
TelDelivers ==
  \/ \E m \in Messages : /\ m \notin TelHeld /\ result[m] = "none"
                         /\ TelHeld' = TelHeld \cup {m} /\ result' = result
  \/ \E S \in SUBSET TelHeld, r \in Results :
       TelHeld' = TelHeld \ S /\ notifyApplicationOfSendMessageComplete(S, r)
  \/ TelHeld' = TelHeld /\ result' = result

\* The two lists hold no message twice, and none is in both.
ListsApart ==
  /\ \A i, j \in DOMAIN telemetry_waitingForAck :
       telemetry_waitingForAck[i].msg = telemetry_waitingForAck[j].msg => i = j
  /\ IsInjective(waitingToSend)
  /\ ToSet(waitingToSend) \cap Awaiting = {}

\* The first of the messages that wait to be sent.
LEMMA FirstToSend ==
  ASSUME TelTypeOK, IsInjective(waitingToSend), waitingToSend # <<>>
  PROVE  /\ Head(waitingToSend) \in ToSet(waitingToSend)
         /\ ToSet(Tail(waitingToSend)) = ToSet(waitingToSend) \ {Head(waitingToSend)}
         /\ IsInjective(Tail(waitingToSend))
<1>1. waitingToSend \in Seq(Messages)
  BY TelElements
<1>2. /\ 1 \in 1..Len(waitingToSend) /\ Head(waitingToSend) = waitingToSend[1]
      /\ Tail(waitingToSend) = RemoveAt(waitingToSend, 1)
  BY <1>1, TailIsRemoveAt
<1>3. /\ IsInjective(Tail(waitingToSend))
      /\ Range(Tail(waitingToSend)) = Range(waitingToSend) \ {Head(waitingToSend)}
  BY <1>1, <1>2, RemoveAtNoDuplicates
<1>4. Tail(waitingToSend) \in Seq(Messages)
  BY <1>1, HeadTailProperties
<1>5. /\ ToSet(waitingToSend) = Range(waitingToSend)
      /\ ToSet(Tail(waitingToSend)) = Range(Tail(waitingToSend))
  BY <1>1, <1>4, ToSetIsRange
<1>6. Head(waitingToSend) \in ToSet(waitingToSend)
  BY <1>1, <1>2 DEF ToSet
<1> QED
  BY <1>3, <1>5, <1>6

\* A message that is published goes from one list to the end of the other.
LEMMA PublishedEntry ==
  ASSUME TelTypeOK, MessageInv, TelPublishes
  PROVE  /\ DOMAIN telemetry_waitingForAck' = 1 .. Len(telemetry_waitingForAck) + 1
         /\ \A i \in 1 .. Len(telemetry_waitingForAck) :
              telemetry_waitingForAck'[i] = telemetry_waitingForAck[i]
         /\ telemetry_waitingForAck'[Len(telemetry_waitingForAck) + 1] =
              [msg |-> Head(waitingToSend), packet_id |-> getNextPacketId, retryCount |-> 1,
               overdue |-> FALSE]
         /\ Awaiting' = Awaiting \cup {Head(waitingToSend)}
<1> DEFINE E == telemetry_waitingForAck
           N == telemetry_waitingForAck'
           n == Len(E)
           e == [msg |-> Head(waitingToSend), packet_id |-> getNextPacketId, retryCount |-> 1,
                 overdue |-> FALSE]
<1>1. E \in Seq(Entry) /\ n \in Nat /\ DOMAIN E = 1..n /\ N = Append(E, e) /\ n = Len(E)
  BY TelElements DEF TelPublishes
<1>2. e.msg = Head(waitingToSend)
  OBVIOUS
<1>e. e \in Entry
  <2>1. Head(waitingToSend) \in Messages
    BY TelElements, HeadTailProperties DEF TelPublishes
  <2>2. getNextPacketId \in 1 .. PacketIds - 1
    BY TelemetryAssumption DEF TelTypeOK, getNextPacketId
  <2> QED
    BY <2>1, <2>2 DEF Entry
<1> HIDE DEF e, E, N, n
<1>3. DOMAIN N = 1..n + 1 /\ (\A i \in 1..n : N[i] = E[i]) /\ N[n + 1] = e
  <2>1. N \in Seq(Entry) /\ Len(N) = n + 1 /\ (\A i \in 1..n : N[i] = E[i]) /\ N[n + 1] = e
    BY <1>1, <1>e, AppendProperties
  <2> QED
    BY <2>1, LenProperties
<1>4. \A i : i \in 1..n + 1 <=> i \in 1..n \/ i = n + 1
  BY <1>1
<1>5. {N[i].msg : i \in DOMAIN N} = {E[i].msg : i \in DOMAIN E} \cup {e.msg}
  BY <1>1, <1>3, <1>4
<1> QED
  BY <1>2, <1>3, <1>5 DEF E, N, n, e, Awaiting

\* A step takes a message into the lists, settles some of them or leaves all where they are,
\* and the lists stay apart.
LEMMA TelStepDelivers ==
  ASSUME TelTypeOK, MessageInv, TelMoves
  PROVE  ListsApart' /\ TelDelivers
<1> DEFINE E == telemetry_waitingForAck
<1>l. ListsApart
  BY DEF MessageInv, ListsApart
<1>w. waitingToSend \in Seq(Messages) /\ Awaiting \subseteq Messages
  BY TelElements DEF Awaiting
<1>r. {"ERROR", "OK", "MESSAGE_TIMEOUT", "BECAUSE_DESTROY"} \subseteq Results
  BY DEF Results
<1>0. ASSUME waitingToSend' = waitingToSend, NEW gone, gone \subseteq Awaiting, EntriesLeft(gone),
             \/ result' = result /\ gone = {}
             \/ \E r \in Results : notifyApplicationOfSendMessageComplete(gone, r)
      PROVE  ListsApart' /\ TelDelivers
  <2>1. /\ Awaiting' = Awaiting \ gone
        /\ \A i, j \in DOMAIN telemetry_waitingForAck' :
             telemetry_waitingForAck'[i].msg = telemetry_waitingForAck'[j].msg => i = j
    BY <1>0, LeftEntries
  <2>2. ListsApart'
    BY <1>0, <1>l, <2>1 DEF ListsApart
  <2>3. TelHeld' = TelHeld \ gone /\ gone \in SUBSET TelHeld
    BY <1>0, <1>l, <2>1 DEF TelHeld, ListsApart
  <2> QED
    BY <1>0, <2>2, <2>3 DEF TelDelivers
<1>1. ASSUME UNCHANGED telemetry_waitingForAck
      PROVE  Awaiting' = Awaiting /\ (UNCHANGED waitingToSend => EntriesLeft({}))
  BY <1>1, SameEntries DEF Awaiting
<1>2. CASE TelStays
  BY <1>0, <1>1, <1>2 DEF TelStays
<1>3. ASSUME NEW m \in Messages, TelTakes(m) PROVE ListsApart' /\ TelDelivers
  <2>1. Awaiting' = Awaiting /\ m \notin ToSet(waitingToSend) \cup Awaiting /\ result[m] = "none"
        /\ waitingToSend' = Append(waitingToSend, m) /\ result' = result
        /\ UNCHANGED telemetry_waitingForAck
    BY <1>1, <1>3 DEF TelTakes
  <2>2. ToSet(waitingToSend) = Range(waitingToSend)
    BY <1>w, ToSetIsRange
  <2>3. /\ waitingToSend' \in Seq(Messages) /\ IsInjective(waitingToSend')
        /\ Range(waitingToSend') = ToSet(waitingToSend) \cup {m}
    BY <1>w, <1>l, <2>1, <2>2, AppendNoDuplicates DEF ListsApart
  <2>4. ToSet(waitingToSend') = ToSet(waitingToSend) \cup {m}
    BY <2>3, ToSetIsRange
  <2>5. ListsApart'
    BY <1>l, <2>1, <2>3, <2>4 DEF ListsApart
  <2>6. TelHeld' = TelHeld \cup {m} /\ m \notin TelHeld
    BY <2>1, <2>4 DEF TelHeld
  <2> QED
    BY <2>1, <2>5, <2>6 DEF TelDelivers
<1>4. CASE TelFails
  <2> DEFINE m == Head(waitingToSend)
  <2>1. Awaiting' = Awaiting /\ UNCHANGED telemetry_waitingForAck
        /\ notifyApplicationOfSendMessageComplete({m}, "ERROR")
        /\ waitingToSend # <<>> /\ waitingToSend' = Tail(waitingToSend)
    BY <1>1, <1>4 DEF TelFails
  <2>2. m \in ToSet(waitingToSend) /\ ToSet(waitingToSend') = ToSet(waitingToSend) \ {m}
        /\ IsInjective(waitingToSend')
    BY <1>l, <2>1, FirstToSend DEF ListsApart
  <2> HIDE DEF m
  <2>3. ListsApart'
    BY <1>l, <2>1, <2>2 DEF ListsApart
  <2>4. TelHeld' = TelHeld \ {m} /\ {m} \in SUBSET TelHeld
    BY <1>l, <2>1, <2>2 DEF TelHeld, ListsApart
  <2> QED
    BY <1>r, <2>1, <2>3, <2>4 DEF TelDelivers
<1>5. CASE TelPublishes
  <2> DEFINE m == Head(waitingToSend)
             n == Len(E)
             N == telemetry_waitingForAck'
  <2>1. waitingToSend # <<>> /\ waitingToSend' = Tail(waitingToSend) /\ result' = result
    BY <1>5 DEF TelPublishes
  <2>2. m \in ToSet(waitingToSend) /\ ToSet(waitingToSend') = ToSet(waitingToSend) \ {m}
        /\ IsInjective(waitingToSend')
    BY <1>l, <2>1, FirstToSend DEF ListsApart
  <2>3. /\ DOMAIN N = 1..n + 1 /\ (\A i \in 1..n : N[i] = E[i]) /\ N[n + 1].msg = m
        /\ Awaiting' = Awaiting \cup {m}
    BY <1>5, PublishedEntry
  <2>4. n \in Nat /\ DOMAIN E = 1..n
    BY TelElements
  <2>5. \A i \in DOMAIN E : E[i].msg # m
    BY <1>l, <2>2 DEF ListsApart, Awaiting
  <2>6. \A i, j \in DOMAIN E : E[i].msg = E[j].msg => i = j
    BY <1>l DEF ListsApart
  <2> HIDE DEF m, n, N, E
  <2>7. \A i : i \in 1..n + 1 <=> i \in 1..n \/ i = n + 1
    BY <2>4
  <2>8. \A i, j \in DOMAIN N : N[i].msg = N[j].msg => i = j
    BY <2>3, <2>4, <2>5, <2>6, <2>7
  <2>9. ListsApart'
    BY <1>l, <2>2, <2>3, <2>8 DEF ListsApart, N
  <2>10. TelHeld' = TelHeld
    BY <2>2, <2>3 DEF TelHeld
  <2> QED
    BY <2>1, <2>9, <2>10 DEF TelDelivers
<1>6. CASE TelAcknowledges
  <2>1. {E[i].msg : i \in Acked} \subseteq Awaiting
    BY DEF Acked, Awaiting
  <2>2. waitingToSend' = waitingToSend
        /\ notifyApplicationOfSendMessageComplete({E[i].msg : i \in Acked}, "OK")
    BY <1>6 DEF TelAcknowledges
  <2>3. EntriesLeft({E[i].msg : i \in Acked})
    BY <1>6, AckedEntries
  <2> DEFINE gone == {E[i].msg : i \in Acked}
  <2> HIDE DEF gone
  <2>4. gone \subseteq Awaiting /\ EntriesLeft(gone) /\ notifyApplicationOfSendMessageComplete(gone, "OK")
    BY <2>1, <2>2, <2>3 DEF gone
  <2> QED
    BY <1>0, <1>r, <2>2, <2>4
<1>7. ASSUME NEW r \in Results, TelDrops(r) PROVE ListsApart' /\ TelDelivers
  BY <1>0, <1>7, DroppedEntry DEF TelDrops
<1>8. CASE TelCounts /\ (TelResends \/ UNCHANGED <<publishes, pubacks>>)
  <2>1. /\ DOMAIN E' = DOMAIN E
        /\ \A i \in DOMAIN E : E'[i].msg = E[i].msg /\ E'[i].packet_id = E[i].packet_id
    BY <1>8, TelElements, WalkIsAt, EntryCounted DEF TelCounts
  <2>2. EntriesLeft({})
    BY <2>1, SameEntries
  <2> QED
    BY <1>0, <1>8, <2>2 DEF TelCounts
<1>9. CASE TelForgets
  <2>1. telemetry_waitingForAck' = <<>> /\ waitingToSend' = waitingToSend
        /\ notifyApplicationOfSendMessageComplete(Awaiting, "BECAUSE_DESTROY")
    BY <1>9 DEF TelForgets
  <2>2. DOMAIN telemetry_waitingForAck' = {} /\ Awaiting' = {}
    BY <2>1 DEF Awaiting
  <2>3. ListsApart'
    BY <1>l, <2>1, <2>2 DEF ListsApart
  <2>4. TelHeld' = TelHeld \ Awaiting /\ Awaiting \in SUBSET TelHeld
    BY <1>l, <2>1, <2>2 DEF TelHeld, ListsApart
  <2> QED
    BY <1>r, <2>1, <2>3, <2>4 DEF TelDelivers
<1>10. CASE TelAges
  <2>1. /\ DOMAIN E' = DOMAIN E
        /\ \A i \in DOMAIN E : E'[i].msg = E[i].msg /\ E'[i].packet_id = E[i].packet_id
    <3>1. DOMAIN E' = DOMAIN E /\ \A i \in DOMAIN E : E'[i] = [E[i] EXCEPT !.overdue = TRUE]
      BY <1>10 DEF TelAges
    <3>2. \A i \in DOMAIN E : E[i] \in Entry
      BY TelElements
    <3> QED
      BY <3>1, <3>2 DEF Entry
  <2>2. EntriesLeft({})
    BY <2>1, SameEntries
  <2> QED
    BY <1>0, <1>10, <2>2 DEF TelAges
<1> QED
  BY <1>r, <1>2, <1>3, <1>4, <1>5, <1>6, <1>7, <1>8, <1>9, <1>10 DEF TelMoves

\* What is held has no outcome yet, and no message has two.
LEMMA ResultsKept ==
  ASSUME TelTypeOK, MessageInv, TelMoves
  PROVE  MessageInv'
<1>1. ListsApart' /\ TelDelivers
  BY TelStepDelivers
<1>2. /\ \A m \in TelHeld : result[m] = "none" /\ m \in Messages
      /\ \A m \in Messages : result[m] # "twice"
  <2>1. TelHeld \subseteq Messages
    BY TelElements, ToSetIsRange DEF TelHeld, Awaiting
  <2> QED
    BY <2>1 DEF MessageInv, TelHeld
<1>3. /\ \A m \in TelHeld' : result'[m] = "none"
      /\ \A m \in Messages : result'[m] # "twice"
  <2>1. CASE \E m \in Messages : /\ m \notin TelHeld /\ result[m] = "none"
                                 /\ TelHeld' = TelHeld \cup {m} /\ result' = result
    BY <1>2, <2>1
  <2>2. CASE \E S \in SUBSET TelHeld, r \in Results :
               TelHeld' = TelHeld \ S /\ notifyApplicationOfSendMessageComplete(S, r)
    <3>1. PICK S \in SUBSET TelHeld : \E r \in Results :
            TelHeld' = TelHeld \ S /\ notifyApplicationOfSendMessageComplete(S, r)
      BY <2>2
    <3>2. PICK r \in Results : TelHeld' = TelHeld \ S /\ notifyApplicationOfSendMessageComplete(S, r)
      BY <3>1
    <3>3. \A m \in Messages : result'[m] = IF m \notin S THEN result[m]
                                           ELSE IF result[m] = "none" THEN r ELSE "twice"
      BY <3>2, ResultsAre
    <3>4. r # "twice"
      BY DEF Results
    <3> QED
      BY <1>2, <3>1, <3>2, <3>3, <3>4
  <2>3. CASE TelHeld' = TelHeld /\ result' = result
    BY <1>2, <2>3
  <2> QED
    BY <1>1, <2>1, <2>2, <2>3 DEF TelDelivers
<1> QED
  BY <1>1, <1>3 DEF MessageInv, ListsApart, TelHeld

-----------------------------------------------------------------------------
(* How often a message is published *)

\* The counts hold on while entries only leave the list or count up to the limit.
LEMMA PublishesKept ==
  ASSUME TelTypeOK, TelTypeOK', PublishInv, publishes' = publishes,
         \A i \in DOMAIN telemetry_waitingForAck' : \E k \in DOMAIN telemetry_waitingForAck :
           /\ telemetry_waitingForAck'[i].msg = telemetry_waitingForAck[k].msg
           /\ telemetry_waitingForAck'[i].retryCount \in
                telemetry_waitingForAck[k].retryCount .. MAX_SEND_RECOUNT_LIMIT,
         \A m \in Messages : result'[m] = "none" /\ m \notin Awaiting'
                               => result[m] = "none" /\ m \notin Awaiting
  PROVE  PublishInv'
<1>1. /\ publishes \in [Messages -> Nat]
      /\ \A k \in DOMAIN telemetry_waitingForAck :
           /\ telemetry_waitingForAck[k].retryCount \in Nat
           /\ telemetry_waitingForAck[k].msg \in Messages
  BY TelElements DEF TelTypeOK
<1>2. ASSUME NEW i \in DOMAIN telemetry_waitingForAck'
      PROVE  /\ publishes'[telemetry_waitingForAck'[i].msg] <= telemetry_waitingForAck'[i].retryCount
             /\ telemetry_waitingForAck'[i].retryCount <= MAX_SEND_RECOUNT_LIMIT
  <2>1. PICK k \in DOMAIN telemetry_waitingForAck :
          /\ telemetry_waitingForAck'[i].msg = telemetry_waitingForAck[k].msg
          /\ telemetry_waitingForAck'[i].retryCount \in
               telemetry_waitingForAck[k].retryCount .. MAX_SEND_RECOUNT_LIMIT
    BY <1>2
  <2>2. /\ publishes[telemetry_waitingForAck[k].msg] <= telemetry_waitingForAck[k].retryCount
        /\ publishes[telemetry_waitingForAck[k].msg] \in Nat
    BY <1>1 DEF PublishInv
  <2>3. publishes'[telemetry_waitingForAck'[i].msg] = publishes[telemetry_waitingForAck[k].msg]
    BY <2>1
  <2>4. MAX_SEND_RECOUNT_LIMIT \in Nat
    BY DEF MAX_SEND_RECOUNT_LIMIT
  <2> QED
    BY <1>1, <2>1, <2>2, <2>3, <2>4
<1>3. \A m \in Messages : /\ publishes'[m] <= MAX_SEND_RECOUNT_LIMIT
                          /\ result'[m] = "none" /\ m \notin Awaiting' => publishes'[m] = 0
  BY DEF PublishInv
<1> QED
  BY <1>2, <1>3 DEF PublishInv

\* What an application has not heard of after a step it had not heard of before.
LEMMA UnheardBefore ==
  ASSUME TelTypeOK, NEW S, NEW r \in Results, notifyApplicationOfSendMessageComplete(S, r),
         NEW m \in Messages, result'[m] = "none"
  PROVE  result[m] = "none" /\ m \notin S
<1>1. result'[m] = IF m \notin S THEN result[m] ELSE IF result[m] = "none" THEN r ELSE "twice"
  BY ResultsAre
<1>2. r # "none"
  BY DEF Results
<1> QED
  BY <1>1, <1>2

\* Removing an entry leaves others of the list.
LEMMA RemovedFrom ==
  ASSUME NEW s \in Seq(Entry), NEW k \in 1..Len(s), NEW i \in DOMAIN RemoveAt(s, k)
  PROVE  \E j \in DOMAIN s : RemoveAt(s, k)[i] = s[j]
<1>1. RemoveAt(s, k) \in Seq(Entry) /\ Len(RemoveAt(s, k)) = Len(s) - 1
      /\ \A j \in 1..(Len(s) - 1) : RemoveAt(s, k)[j] = IF j < k THEN s[j] ELSE s[j + 1]
  BY RemoveAtElements
<1> DEFINE n == Len(s)
           t == RemoveAt(s, k)
<1>2. i \in 1..(n - 1) /\ n \in Nat /\ DOMAIN s = 1..n
  BY <1>1, LenProperties
<1>3. t[i] = IF i < k THEN s[i] ELSE s[i + 1]
  BY <1>1, <1>2
<1> HIDE DEF n, t
<1>4. i \in 1..n /\ i + 1 \in 1..n
  BY <1>2
<1> QED
  BY <1>2, <1>3, <1>4 DEF t

\* When entries leave the list, those that remain are as they were.
LEMMA EntriesAreOld ==
  ASSUME TelTypeOK, TelAcknowledges \/ \E r \in Results : TelDrops(r),
         NEW i \in DOMAIN telemetry_waitingForAck'
  PROVE  \E k \in DOMAIN telemetry_waitingForAck :
           telemetry_waitingForAck'[i] = telemetry_waitingForAck[k]
<1> DEFINE E == telemetry_waitingForAck
           N == telemetry_waitingForAck'
<1>1. CASE TelAcknowledges
  <2> DEFINE K == DOMAIN E \ Acked
  <2>1. PICK order \in [1 .. Cardinality(K) -> K] :
          Remain(K, order) /\ N = [j \in 1 .. Cardinality(K) |-> E[order[j]]]
    BY <1>1 DEF TelAcknowledges
  <2>2. K \subseteq DOMAIN E
    OBVIOUS
  <2> HIDE DEF K, E, N
  <2> QED
    BY <2>1, <2>2 DEF E, N
<1>2. CASE \E r \in Results : TelDrops(r)
  <2>1. N = RemoveAt(E, At(walk)) /\ walk \in Awaiting
    BY <1>2 DEF TelDrops
  <2>2. E \in Seq(Entry) /\ At(walk) \in 1..Len(E)
    BY <2>1, TelElements, WalkIsAt
  <2> QED
    BY <2>1, <2>2, RemovedFrom
<1> QED
  BY <1>1, <1>2

\* An entry has counted every time its message was published, and counts no further than the
\* limit.
LEMMA CountsKept ==
  ASSUME TelTypeOK, TelTypeOK', MessageInv, PublishInv, TelMoves
  PROVE  PublishInv'
<1> DEFINE E == telemetry_waitingForAck
           N == telemetry_waitingForAck'
           Unheard == \A m \in Messages : result'[m] = "none" /\ m \notin Awaiting'
                                         => result[m] = "none" /\ m \notin Awaiting
           Entries == \A i \in DOMAIN N : \E k \in DOMAIN E :
                        N[i].msg = E[k].msg /\ N[i].retryCount \in E[k].retryCount .. MAX_SEND_RECOUNT_LIMIT
<1>r. {"ERROR", "OK", "MESSAGE_TIMEOUT", "BECAUSE_DESTROY"} \subseteq Results
  BY DEF Results
<1>c. \A k \in DOMAIN E : /\ E[k].retryCount \in Nat /\ E[k].msg \in Messages
                          /\ E[k].retryCount \in E[k].retryCount .. MAX_SEND_RECOUNT_LIMIT
  BY TelElements DEF PublishInv, MAX_SEND_RECOUNT_LIMIT
<1>p. ASSUME publishes' = publishes, Unheard, Entries PROVE PublishInv'
  BY <1>p, PublishesKept
<1>e. ASSUME UNCHANGED telemetry_waitingForAck PROVE Entries /\ Awaiting' = Awaiting
  BY <1>e, <1>c DEF Awaiting
<1>o. ASSUME TelAcknowledges \/ \E r \in Results : TelDrops(r) PROVE Entries
  <2> SUFFICES ASSUME NEW i \in DOMAIN N
               PROVE  \E k \in DOMAIN E : /\ N[i].msg = E[k].msg
                        /\ N[i].retryCount \in E[k].retryCount .. MAX_SEND_RECOUNT_LIMIT
    OBVIOUS
  <2>1. PICK k \in DOMAIN E : N[i] = E[k]
    BY <1>o, EntriesAreOld
  <2> HIDE DEF E, N
  <2> QED
    BY <1>c, <2>1
<1>1. CASE TelStays \/ \E m \in Messages : TelTakes(m)
  <2>1. UNCHANGED <<telemetry_waitingForAck, result, publishes>>
    BY <1>1 DEF TelStays, TelTakes, hubVars
  <2> QED
    BY <1>e, <1>p, <2>1
<1>2. CASE TelFails
  <2>1. UNCHANGED <<telemetry_waitingForAck, publishes>>
        /\ notifyApplicationOfSendMessageComplete({Head(waitingToSend)}, "ERROR")
    BY <1>2 DEF TelFails, hubVars
  <2>2. \A m \in Messages : result'[m] = "none" => result[m] = "none"
    BY <1>r, <2>1, UnheardBefore
  <2> QED
    BY <1>e, <1>p, <2>1, <2>2
<1>3. CASE TelAcknowledges
  <2> DEFINE gone == {E[i].msg : i \in Acked}
  <2>1. publishes' = publishes /\ notifyApplicationOfSendMessageComplete(gone, "OK")
    BY <1>3 DEF TelAcknowledges
  <2>2. Awaiting' = Awaiting \ gone
    BY <1>3, AckedEntries, LeftEntries
  <2> HIDE DEF gone
  <2>3. \A m \in Messages : result'[m] = "none" => result[m] = "none" /\ m \notin gone
    BY <1>r, <2>1, UnheardBefore
  <2>4. Unheard
    BY <2>2, <2>3
  <2>5. Entries
    BY <1>3, <1>o
  <2> QED
    BY <1>p, <2>1, <2>4, <2>5
<1>4. ASSUME NEW r \in Results, TelDrops(r) PROVE PublishInv'
  <2>1. publishes' = publishes /\ notifyApplicationOfSendMessageComplete({walk}, r)
    BY <1>4 DEF TelDrops
  <2>2. Awaiting' = Awaiting \ {walk}
    BY <1>4, DroppedEntry, LeftEntries DEF TelDrops
  <2>3. \A m \in Messages : result'[m] = "none" => result[m] = "none" /\ m \notin {walk}
    BY <1>r, <2>1, UnheardBefore
  <2>4. Unheard
    BY <2>2, <2>3
  <2>5. Entries
    BY <1>4, <1>o
  <2> QED
    BY <1>p, <2>1, <2>4, <2>5
<1>5. CASE TelForgets
  <2>1. publishes' = publishes /\ notifyApplicationOfSendMessageComplete(Awaiting, "BECAUSE_DESTROY")
        /\ N = <<>>
    BY <1>5 DEF TelForgets, hubVars
  <2>2. \A m \in Messages : result'[m] = "none" => result[m] = "none" /\ m \notin Awaiting
    BY <1>r, <2>1, UnheardBefore
  <2>3. DOMAIN N = {}
    BY <2>1
  <2> QED
    BY <1>p, <2>1, <2>2, <2>3
<1>6. CASE TelAges
  <2>1. /\ UNCHANGED <<result, publishes>>
        /\ DOMAIN N = DOMAIN E
        /\ \A i \in DOMAIN E : N[i] = [E[i] EXCEPT !.overdue = TRUE]
    BY <1>6 DEF TelAges, hubVars
  <2>2. \A i \in DOMAIN E : E[i] \in Entry
    BY TelElements
  <2>3. \A i \in DOMAIN E : N[i].msg = E[i].msg /\ N[i].packet_id = E[i].packet_id
                            /\ N[i].retryCount = E[i].retryCount
    BY <2>1, <2>2 DEF Entry
  <2>4. Entries
    BY <1>c, <2>1, <2>3
  <2>5. Awaiting' = Awaiting
    <3>1. Awaiting' = {N[i].msg : i \in DOMAIN N} /\ Awaiting = {E[i].msg : i \in DOMAIN E}
      BY DEF Awaiting
    <3> HIDE DEF E, N
    <3> QED
      BY <2>1, <2>3, <3>1
  <2> QED
    BY <1>p, <2>1, <2>4, <2>5
<1>7. CASE TelPublishes
  <2> DEFINE m == Head(waitingToSend)
             n == Len(E)
  <2>1. waitingToSend # <<>> /\ result' = result /\ publishes' = [publishes EXCEPT ![m] = @ + 1]
    BY <1>7 DEF TelPublishes
  <2>2. m \in ToSet(waitingToSend) /\ m \in Messages
    BY <2>1, FirstToSend, TelElements, HeadTailProperties DEF MessageInv
  <2>3. m \notin Awaiting /\ result[m] = "none"
    BY <2>2 DEF MessageInv
  <2>4. /\ publishes \in [Messages -> Nat] /\ publishes[m] = 0
        /\ \A l \in Messages : /\ publishes[l] <= MAX_SEND_RECOUNT_LIMIT
                               /\ result[l] = "none" /\ l \notin Awaiting => publishes[l] = 0
        /\ \A i \in DOMAIN E : /\ publishes[E[i].msg] <= E[i].retryCount
                               /\ E[i].retryCount <= MAX_SEND_RECOUNT_LIMIT
    BY <2>2, <2>3 DEF TelTypeOK, PublishInv
  <2>5. n \in Nat /\ DOMAIN E = 1..n /\ \A i \in 1..n : E[i].msg \in Messages /\ E[i].msg # m
    BY <2>3, TelElements DEF Awaiting
  <2>6. /\ DOMAIN N = 1..n + 1 /\ (\A i \in 1..n : N[i] = E[i])
        /\ N[n + 1].msg = m /\ N[n + 1].retryCount = 1
        /\ Awaiting' = Awaiting \cup {m}
    BY <1>7, PublishedEntry
  <2> HIDE DEF m, n, E, N
  <2>7. publishes'[m] = 1 /\ \A l \in Messages : l # m => publishes'[l] = publishes[l]
    BY <2>1, <2>2, <2>4
  <2>8. \A l \in Messages : /\ publishes'[l] <= MAX_SEND_RECOUNT_LIMIT
                            /\ result'[l] = "none" /\ l \notin Awaiting' => publishes'[l] = 0
    BY <2>1, <2>4, <2>6, <2>7 DEF MAX_SEND_RECOUNT_LIMIT
  <2>9. ASSUME NEW i \in DOMAIN N
        PROVE  publishes'[N[i].msg] <= N[i].retryCount /\ N[i].retryCount <= MAX_SEND_RECOUNT_LIMIT
    <3>1. CASE i = n + 1
      BY <2>6, <2>7, <3>1 DEF MAX_SEND_RECOUNT_LIMIT
    <3>2. CASE i \in 1..n
      BY <2>4, <2>5, <2>6, <2>7, <3>2
    <3> QED
      BY <2>5, <2>6, <2>9, <3>1, <3>2
  <2> QED
    BY <2>8, <2>9 DEF PublishInv, N
<1>8. CASE TelCounts /\ (TelResends \/ UNCHANGED <<publishes, pubacks>>)
  <2> DEFINE k == At(walk)
  <2>1. /\ walk \in Awaiting /\ result' = result
        /\ N = [E EXCEPT ![k].retryCount = @ + 1, ![k].overdue = FALSE]
        /\ E[k].retryCount < MAX_SEND_RECOUNT_LIMIT
    BY <1>8 DEF TelCounts, Current
  <2>2. E \in Seq(Entry) /\ k \in DOMAIN E /\ k \in 1..Len(E) /\ E[k].msg = walk
    BY <2>1, TelElements, WalkIsAt
  <2>3. /\ DOMAIN N = DOMAIN E
        /\ \A i \in DOMAIN E : N[i].msg = E[i].msg
        /\ \A i \in DOMAIN E : i # k => N[i].retryCount = E[i].retryCount
        /\ N[k].retryCount = E[k].retryCount + 1
    <3>1. /\ DOMAIN N = DOMAIN E
          /\ \A i \in DOMAIN E : N[i].msg = E[i].msg
      BY <2>1, <2>2, EntryCounted
    <3>2. \A i \in DOMAIN E : i # k => N[i].retryCount = E[i].retryCount
      BY <2>1, <2>2, EntryCounted
    <3>3. N[k].retryCount = E[k].retryCount + 1
      <4>1. E[k].retryCount \in Nat /\ E[k] \in Entry
        BY <1>c, <2>2, TelElements
      <4>2. N[k] = [[E[k] EXCEPT !.retryCount = @ + 1] EXCEPT !.overdue = FALSE]
        BY <2>1, <2>2
      <4> HIDE DEF E, N, k
      <4> QED
        BY <4>1, <4>2 DEF Entry
    <3> QED
      BY <3>1, <3>2, <3>3
  <2>4. Awaiting' = Awaiting
    <3>1. Awaiting' = {N[i].msg : i \in DOMAIN N} /\ Awaiting = {E[i].msg : i \in DOMAIN E}
      BY DEF Awaiting
    <3> HIDE DEF E, N
    <3> QED
      BY <2>3, <3>1
  <2>5. /\ publishes \in [Messages -> Nat] /\ walk \in Messages
        /\ publishes'[walk] <= publishes[walk] + 1
        /\ \A l \in Messages : l # walk => publishes'[l] = publishes[l]
    <3>1. publishes \in [Messages -> Nat] /\ walk \in Messages
      BY <1>c, <2>2 DEF TelTypeOK
    <3> QED
      BY <1>8, <3>1 DEF TelResends
  <2>6. /\ \A l \in Messages : /\ publishes[l] <= MAX_SEND_RECOUNT_LIMIT
                               /\ result[l] = "none" /\ l \notin Awaiting => publishes[l] = 0
        /\ \A i \in DOMAIN E : /\ publishes[E[i].msg] <= E[i].retryCount
                               /\ E[i].retryCount <= MAX_SEND_RECOUNT_LIMIT
    BY DEF PublishInv
  <2>7. \A i \in DOMAIN E : i # k => E[i].msg # walk
    BY <2>2 DEF MessageInv
  <2>8. publishes'[walk] \in Nat
    BY <2>5 DEF TelTypeOK
  <2> HIDE DEF E, N, k
  <2>9. publishes'[walk] <= N[k].retryCount /\ N[k].retryCount <= MAX_SEND_RECOUNT_LIMIT
    BY <1>c, <2>1, <2>2, <2>3, <2>5, <2>6, <2>8 DEF MAX_SEND_RECOUNT_LIMIT, E
  <2>10. \A l \in Messages : /\ publishes'[l] <= MAX_SEND_RECOUNT_LIMIT
                             /\ result'[l] = "none" /\ l \notin Awaiting' => publishes'[l] = 0
    <3>1. publishes'[walk] <= MAX_SEND_RECOUNT_LIMIT
      BY <1>c, <2>2, <2>3, <2>8, <2>9 DEF MAX_SEND_RECOUNT_LIMIT, E
    <3> QED
      BY <2>1, <2>4, <2>5, <2>6, <3>1
  <2>11. \A i \in DOMAIN N : /\ publishes'[N[i].msg] <= N[i].retryCount
                             /\ N[i].retryCount <= MAX_SEND_RECOUNT_LIMIT
    <3> SUFFICES ASSUME NEW i \in DOMAIN N
                 PROVE  /\ publishes'[N[i].msg] <= N[i].retryCount
                        /\ N[i].retryCount <= MAX_SEND_RECOUNT_LIMIT
      OBVIOUS
    <3>1. CASE i = k
      BY <2>2, <2>3, <2>9, <3>1
    <3>2. CASE i # k
      <4>1. i \in DOMAIN E /\ N[i].msg = E[i].msg /\ E[i].msg # walk /\ E[i].msg \in Messages
            /\ N[i].retryCount = E[i].retryCount
        BY <1>c, <2>3, <2>7, <3>2 DEF E
      <4> QED
        BY <2>5, <2>6, <4>1
    <3> QED
      BY <3>1, <3>2
  <2> QED
    BY <2>10, <2>11 DEF PublishInv, N
<1> QED
  BY <1>r, <1>1, <1>2, <1>3, <1>4, <1>5, <1>6, <1>7, <1>8 DEF TelMoves

\* The types, where each message is, and how often it was published, in every state.
LEMMA TelStepKept ==
  ASSUME TelInv, [TelNext]_tvars
  PROVE  TelInv'
<1>1. TelTypeOK /\ MessageInv /\ PublishInv /\ TelMoves
  BY TelCases DEF TelInv
<1>2. TelTypeOK'
  BY <1>1, TelTyped
<1>3. MessageInv'
  BY <1>1, ResultsKept
<1>4. PublishInv'
  BY <1>1, <1>2, CountsKept
<1> QED
  BY <1>2, <1>3, <1>4 DEF TelInv

\* Before the transport runs nothing waits and nothing was published.
LEMMA TelInitial ==
  ASSUME TelInit
  PROVE  TelInv /\ PacketInv
<1>1. /\ waitingToSend = <<>> /\ telemetry_waitingForAck = <<>> /\ pubacks = <<>>
      /\ result = [m \in Messages |-> "none"] /\ publishes = [m \in Messages |-> 0]
      /\ packetId = 1 /\ walk = "end" /\ received = {}
  BY DEF TelInit
<1>2. TelTypeOK
  <2>1. <<>> \in Seq(Messages) /\ <<>> \in Seq(Entry) /\ <<>> \in Seq(Packet)
    BY EmptySeq
  <2>2. 1 \in 1 .. PacketIds - 1
    BY TelemetryAssumption
  <2> QED
    BY <1>1, <2>1, <2>2 DEF TelTypeOK, Entry, Packet
<1>3. /\ DOMAIN telemetry_waitingForAck = {} /\ DOMAIN pubacks = {} /\ DOMAIN waitingToSend = {}
  BY <1>1
<1>4. Awaiting = {} /\ ToSet(waitingToSend) = {} /\ IsInjective(waitingToSend)
  BY <1>3 DEF Awaiting, ToSet, IsInjective
<1>5. MessageInv /\ PacketInv
  BY <1>1, <1>3, <1>4 DEF MessageInv, PacketInv, OkMeansReceived
<1>6. PublishInv
  BY <1>1, <1>3 DEF PublishInv, MAX_SEND_RECOUNT_LIMIT
<1> QED
  BY <1>2, <1>5, <1>6 DEF TelInv

\* No message is published more often than the limit, whatever reconnections, timeouts and
\* failures come between: retryCount counts every publish, and goes with the message.
THEOREM TelIsKept == TelSpec => [](TelTypeOK /\ PublishesBounded)
<1>1. TelInit => TelInv
  BY TelInitial
<1>2. TelInv /\ [TelNext]_tvars => TelInv'
  BY TelStepKept
<1>3. TelInv => TelTypeOK /\ PublishesBounded
  BY DEF TelInv, PublishInv, PublishesBounded
<1> QED
  BY <1>1, <1>2, <1>3, PTL DEF TelSpec

\* Settling messages that are held is a step of the abstract specification.
LEMMA SettlesHeld ==
  ASSUME TelTypeOK, MessageInv, NEW S \in SUBSET TelHeld, NEW r \in Results,
         TelHeld' = TelHeld \ S, notifyApplicationOfSendMessageComplete(S, r)
  PROVE  D!Next
<1>1. TelHeld \subseteq Messages
  BY TelElements, ToSetIsRange DEF TelHeld, Awaiting
<1>2. \A m \in TelHeld : result[m] = "none"
  BY DEF MessageInv, TelHeld
<1>3. \A m \in Messages : result'[m] = IF m \in S THEN r ELSE result[m]
  BY <1>2, ResultsAre
<1>4. deliveryStatus = [m \in Messages |-> IF m \in TelHeld THEN "held"
                                           ELSE IF result[m] = "none" THEN "new" ELSE result[m]]
  BY DEF deliveryStatus, TelHeld
<1>5. deliveryStatus' = [m \in Messages |-> IF m \in TelHeld' THEN "held"
                                            ELSE IF result'[m] = "none" THEN "new" ELSE result'[m]]
  BY DEF deliveryStatus, TelHeld
<1>6. r # "none"
  BY DEF Results
<1> DEFINE f == [m \in S |-> r]
<1>7. f \in [S -> Results] /\ \A m \in S : f[m] = r
  OBVIOUS
<1> HIDE DEF f
<1>8. \A m \in S : deliveryStatus[m] = "held"
  BY <1>1, <1>4
<1>9. deliveryStatus' = [m \in Messages |-> IF m \in S THEN f[m] ELSE deliveryStatus[m]]
  <2>1. \A m \in Messages :
          (IF m \in TelHeld' THEN "held" ELSE IF result'[m] = "none" THEN "new" ELSE result'[m])
            = IF m \in S THEN f[m] ELSE deliveryStatus[m]
    BY <1>3, <1>4, <1>6, <1>7
  <2> QED
    BY <1>5, <2>1
<1>10. D!Settle(S)
  BY <1>7, <1>8, <1>9 DEF D!Settle
<1> QED
  BY <1>1, <1>10 DEF D!Next

\* Each step accepts a message, settles some, or changes none of their statuses.
LEMMA TelStepSettles ==
  ASSUME TelInv, [TelNext]_tvars
  PROVE  [D!Next]_deliveryStatus
<1>1. TelTypeOK /\ MessageInv /\ TelDelivers
  BY TelCases, TelStepDelivers DEF TelInv
<1>2. deliveryStatus = [m \in Messages |-> IF m \in TelHeld THEN "held"
                                           ELSE IF result[m] = "none" THEN "new" ELSE result[m]]
  BY DEF deliveryStatus, TelHeld
<1>3. deliveryStatus' = [m \in Messages |-> IF m \in TelHeld' THEN "held"
                                            ELSE IF result'[m] = "none" THEN "new" ELSE result'[m]]
  BY DEF deliveryStatus, TelHeld
<1>4. ASSUME NEW m \in Messages, m \notin TelHeld, result[m] = "none", TelHeld' = TelHeld \cup {m},
             result' = result
      PROVE  D!Accept(m)
  <2>1. deliveryStatus[m] = "new"
    BY <1>2, <1>4
  <2>2. deliveryStatus' = [deliveryStatus EXCEPT ![m] = "held"]
    BY <1>2, <1>3, <1>4
  <2> QED
    BY <2>1, <2>2 DEF D!Accept
<1>5. CASE \E S \in SUBSET TelHeld, r \in Results :
             TelHeld' = TelHeld \ S /\ notifyApplicationOfSendMessageComplete(S, r)
  BY <1>1, <1>5, SettlesHeld
<1>6. CASE TelHeld' = TelHeld /\ result' = result
  BY <1>2, <1>3, <1>6
<1>7. CASE \E m \in Messages : /\ m \notin TelHeld /\ result[m] = "none"
                               /\ TelHeld' = TelHeld \cup {m} /\ result' = result
  BY <1>4, <1>7 DEF D!Next
<1> QED
  BY <1>1, <1>5, <1>6, <1>7 DEF TelDelivers

\* The transport settles every message it took exactly once, whatever publishes,
\* acknowledgements, resends, timeouts, reconnections and Destroy do.
THEOREM TelSettlesOnce == TelSpec => SettledOnce
<1>1. TelInit => D!Init
  <2> SUFFICES ASSUME TelInit PROVE D!Init
    OBVIOUS
  <2>1. /\ waitingToSend = <<>> /\ telemetry_waitingForAck = <<>>
        /\ result = [m \in Messages |-> "none"]
    BY DEF TelInit
  <2>2. Awaiting = {} /\ ToSet(waitingToSend) = {}
    BY <2>1 DEF Awaiting, ToSet
  <2> QED
    BY <2>1, <2>2 DEF D!Init, deliveryStatus
<1>2. TelInit => TelInv
  BY TelInitial
<1>3. TelInv /\ [TelNext]_tvars => TelInv'
  BY TelStepKept
<1>4. TelInv /\ [TelNext]_tvars => [D!Next]_deliveryStatus
  BY TelStepSettles
<1>5. TelSpec => D!Spec
  BY <1>1, <1>2, <1>3, <1>4, PTL DEF TelSpec, D!Spec
<1> QED
  BY <1>5 DEF SettledOnce

-----------------------------------------------------------------------------
(* Packet ids *)

\* As long as ids are not used again for a message while another waits with it, an entry is the
\* only one with its id, its PUBACK is its own, and so OK means that the hub has the message.
LEMMA PacketsKept ==
  ASSUME TelTypeOK, MessageInv, PacketInv, NextIdFree, TelMoves
  PROVE  PacketInv'
<1> DEFINE E == telemetry_waitingForAck
           N == telemetry_waitingForAck'
           Unique == \A i, j \in DOMAIN N : N[i].packet_id = N[j].packet_id => i = j
           Matched == \A k \in DOMAIN pubacks', i \in DOMAIN N :
                        pubacks'[k].id = N[i].packet_id => pubacks'[k].msg = N[i].msg
<1>u. \A i, j \in DOMAIN E : E[i].packet_id = E[j].packet_id => i = j
  BY DEF PacketInv
<1>m. \A k \in DOMAIN pubacks, i \in DOMAIN E :
        pubacks[k].id = E[i].packet_id => pubacks[k].msg = E[i].msg
  BY DEF PacketInv
<1>o. \A m \in Messages : result[m] = "OK" => m \in received
  BY DEF PacketInv, OkMeansReceived
<1>q. ASSUME Unique, Matched, \A m \in Messages : result'[m] = "OK" => m \in received'
      PROVE  PacketInv'
  BY <1>q DEF PacketInv, OkMeansReceived
<1>t. /\ DOMAIN E = 1..Len(E) /\ Len(E) \in Nat
      /\ pubacks \in Seq(Packet) /\ DOMAIN pubacks = 1..Len(pubacks) /\ Len(pubacks) \in Nat
  BY TelElements
<1>r. {"ERROR", "OK", "MESSAGE_TIMEOUT", "BECAUSE_DESTROY"} \subseteq Results
  BY DEF Results
<1>n. ASSUME received' = received, NEW S, NEW r \in Results \ {"OK"},
             notifyApplicationOfSendMessageComplete(S, r)
      PROVE  \A m \in Messages : result'[m] = "OK" => m \in received'
  <2>1. \A m \in Messages : result'[m] = IF m \notin S THEN result[m]
                                         ELSE IF result[m] = "none" THEN r ELSE "twice"
    BY <1>n, ResultsAre
  <2> QED
    BY <1>n, <1>o, <2>1
<1>s. ASSUME NEW gone, EntriesLeft(gone),
             \A k \in DOMAIN pubacks' : \E l \in DOMAIN pubacks : pubacks'[k] = pubacks[l]
      PROVE  Unique /\ Matched
  <2>1. Unique
    BY <1>s, <1>u, LeftEntries
  <2>2. \A i \in DOMAIN N : \E k \in DOMAIN E : N[i].msg = E[k].msg /\ N[i].packet_id = E[k].packet_id
    BY <1>s, LeftEntries
  <2> HIDE DEF E, N
  <2>3. Matched
    BY <1>m, <1>s, <2>2
  <2> QED
    BY <2>1, <2>3
<1>e. ASSUME UNCHANGED telemetry_waitingForAck PROVE EntriesLeft({})
  BY <1>e, SameEntries
<1>b. ASSUME pubacks' = pubacks \/ pubacks' = <<>>
      PROVE  \A k \in DOMAIN pubacks' : \E l \in DOMAIN pubacks : pubacks'[k] = pubacks[l]
  BY <1>b
<1>1. CASE TelStays \/ \E m \in Messages : TelTakes(m)
  <2>1. /\ UNCHANGED <<telemetry_waitingForAck, result, received>>
        /\ pubacks' = pubacks \/ pubacks' = <<>>
    BY <1>1 DEF TelStays, TelTakes, hubVars
  <2>2. Unique /\ Matched
    BY <1>b, <1>e, <1>s, <2>1
  <2> QED
    BY <1>o, <1>q, <2>1, <2>2
<1>2. CASE TelFails
  <2>1. /\ UNCHANGED <<telemetry_waitingForAck, pubacks, received>>
        /\ notifyApplicationOfSendMessageComplete({Head(waitingToSend)}, "ERROR")
    BY <1>2 DEF TelFails, hubVars
  <2>2. Unique /\ Matched
    BY <1>b, <1>e, <1>s, <2>1
  <2> QED
    BY <1>n, <1>q, <1>r, <2>1, <2>2
<1>3. CASE TelPublishes
  <2> DEFINE m == Head(waitingToSend)
             n == Len(E)
             id == getNextPacketId
             q == Len(pubacks)
             P == pubacks'
  <2>1. /\ currPacketState = "PUBLISH" /\ waitingToSend # <<>>
        /\ UNCHANGED <<result, received>>
        /\ P = Append(pubacks, [id |-> id, msg |-> m])
    BY <1>3 DEF TelPublishes
  <2>2. (\A i \in DOMAIN E : E[i].packet_id # id) /\ (\A k \in DOMAIN pubacks : pubacks[k].id # id)
    BY <2>1 DEF NextIdFree, UsedIds
  <2>3. m \in Messages /\ id \in 1 .. PacketIds - 1
    <3>1. m \in Messages
      BY <2>1, TelElements, HeadTailProperties
    <3> QED
      BY <3>1, TelemetryAssumption DEF TelTypeOK, getNextPacketId
  <2>4. [id |-> id, msg |-> m] \in Packet
    BY <2>3 DEF Packet
  <2>5. /\ DOMAIN N = 1..n + 1 /\ (\A i \in 1..n : N[i] = E[i])
        /\ N[n + 1].msg = m /\ N[n + 1].packet_id = id
    BY <1>3, PublishedEntry
  <2> DEFINE p == [id |-> id, msg |-> m]
  <2>p. p.id = id /\ p.msg = m /\ p \in Packet /\ P = Append(pubacks, p)
    BY <2>1, <2>4
  <2> HIDE DEF m, n, id, p, q, P, E, N
  <2>6. P \in Seq(Packet) /\ Len(P) = q + 1 /\ (\A k \in 1..q : P[k] = pubacks[k]) /\ P[q + 1] = p
    BY <1>t, <2>p, AppendProperties DEF q
  <2>7. DOMAIN P = 1..q + 1
    BY <2>6, LenProperties
  <2>8. /\ \A i : i \in 1..n + 1 <=> i \in 1..n \/ i = n + 1
        /\ \A i : i \in 1..q + 1 <=> i \in 1..q \/ i = q + 1
        /\ DOMAIN E = 1..n /\ DOMAIN pubacks = 1..q
    BY <1>t DEF n, q
  <2>9. Unique
    BY <1>u, <2>2, <2>5, <2>8
  <2>10. ASSUME NEW k \in DOMAIN P, NEW i \in DOMAIN N, P[k].id = N[i].packet_id
         PROVE  P[k].msg = N[i].msg
    <3>1. k \in 1..q \/ P[k] = p
      BY <2>6, <2>7, <2>8, <2>10
    <3>2. i \in 1..n \/ (N[i].msg = m /\ N[i].packet_id = id)
      BY <2>5, <2>8, <2>10
    <3>3. k \in 1..q => k \in DOMAIN pubacks /\ P[k] = pubacks[k] /\ P[k].id # id
      BY <2>2, <2>6, <2>8
    <3>4. i \in 1..n => i \in DOMAIN E /\ N[i] = E[i] /\ N[i].packet_id # id
      BY <2>2, <2>5, <2>8
    <3> QED
      BY <1>m, <2>p, <2>10, <3>1, <3>2, <3>3, <3>4
  <2>11. Matched
    BY <2>10 DEF P
  <2> QED
    BY <1>o, <1>q, <2>1, <2>9, <2>11
<1>4. CASE TelAcknowledges
  <2> DEFINE gone == {E[i].msg : i \in Acked}
             p == Head(pubacks)
  <2>1. /\ pubacks # <<>> /\ pubacks' = Tail(pubacks) /\ received' = received \cup {p.msg}
        /\ notifyApplicationOfSendMessageComplete(gone, "OK")
    BY <1>4 DEF TelAcknowledges
  <2>2. EntriesLeft(gone)
    BY <1>4, AckedEntries
  <2>3. 1 \in DOMAIN pubacks /\ p = pubacks[1]
    BY <1>t, <2>1, EmptySeq
  <2>4. \A k \in DOMAIN pubacks' : \E l \in DOMAIN pubacks : pubacks'[k] = pubacks[l]
    <3>1. /\ Tail(pubacks) \in Seq(Packet) /\ Len(Tail(pubacks)) = Len(pubacks) - 1
          /\ \A k \in 1..(Len(pubacks) - 1) : Tail(pubacks)[k] = pubacks[k + 1]
      BY <1>t, <2>1, HeadTailProperties
    <3>2. DOMAIN pubacks' = 1..(Len(pubacks) - 1)
      BY <2>1, <3>1, LenProperties
    <3>3. \A k \in 1..(Len(pubacks) - 1) : k + 1 \in DOMAIN pubacks
      BY <1>t
    <3> QED
      BY <2>1, <3>1, <3>2, <3>3
  <2>5. \A m \in gone : m = p.msg
    <3>1. \A i \in Acked : i \in DOMAIN E /\ E[i].packet_id = p.id
      BY DEF Acked
    <3> HIDE DEF E, p
    <3> QED
      BY <1>m, <2>3, <3>1
  <2> HIDE DEF gone
  <2>6. Unique /\ Matched
    BY <1>s, <2>2, <2>4
  <2>7. \A m \in Messages : result'[m] = IF m \notin gone THEN result[m]
                                         ELSE IF result[m] = "none" THEN "OK" ELSE "twice"
    BY <1>r, <2>1, ResultsAre
  <2>8. \A m \in Messages : result'[m] = "OK" => m \in received'
    BY <1>o, <2>1, <2>5, <2>7
  <2> QED
    BY <1>q, <2>6, <2>8
<1>5. ASSUME NEW r \in Results \ {"OK"}, TelDrops(r) PROVE PacketInv'
  <2>1. /\ walk \in Awaiting /\ N = RemoveAt(E, At(walk)) /\ received' = received
        /\ pubacks' = pubacks \/ pubacks' = <<>>
        /\ notifyApplicationOfSendMessageComplete({walk}, r)
    BY <1>5 DEF TelDrops
  <2>2. Unique /\ Matched
    BY <1>b, <1>s, <2>1, DroppedEntry
  <2> QED
    BY <1>n, <1>q, <1>5, <2>1, <2>2
<1>6. CASE TelForgets
  <2>1. N = <<>> /\ received' = received
        /\ notifyApplicationOfSendMessageComplete(Awaiting, "BECAUSE_DESTROY")
    BY <1>6 DEF TelForgets, hubVars
  <2>2. DOMAIN N = {}
    BY <2>1
  <2> QED
    BY <1>n, <1>q, <1>r, <2>1, <2>2
<1>7. CASE TelAges
  <2>1. /\ UNCHANGED <<result, pubacks, received>>
        /\ DOMAIN N = DOMAIN E
        /\ \A i \in DOMAIN E : N[i] = [E[i] EXCEPT !.overdue = TRUE]
    BY <1>7 DEF TelAges, hubVars
  <2>2. \A i \in DOMAIN E : E[i] \in Entry
    BY TelElements
  <2>3. \A i \in DOMAIN E : N[i].msg = E[i].msg /\ N[i].packet_id = E[i].packet_id
    BY <2>1, <2>2 DEF Entry
  <2>4. EntriesLeft({})
    BY <2>1, <2>3, SameEntries
  <2>5. Unique /\ Matched
    BY <1>b, <1>s, <2>1, <2>4
  <2> QED
    BY <1>o, <1>q, <2>1, <2>5
<1>8. CASE TelCounts /\ (TelResends \/ UNCHANGED <<publishes, pubacks>>)
  <2> DEFINE k == At(walk)
             q == Len(pubacks)
             P == pubacks'
             p == [id |-> Current.packet_id, msg |-> walk]
  <2>1. walk \in Awaiting /\ UNCHANGED <<result, received>>
    BY <1>8 DEF TelCounts
  <2>2. k \in DOMAIN E /\ E[k].msg = walk /\ Current = E[k]
    BY <2>1, TelElements, WalkIsAt DEF Current
  <2>3. /\ DOMAIN N = DOMAIN E
        /\ \A i \in DOMAIN E : N[i].msg = E[i].msg /\ N[i].packet_id = E[i].packet_id
    BY <1>8, TelElements, WalkIsAt, EntryCounted DEF TelCounts
  <2>4. EntriesLeft({})
    BY <2>3, SameEntries
  <2>5. CASE UNCHANGED <<publishes, pubacks>>
    <3>1. Unique /\ Matched
      BY <1>b, <1>s, <2>4, <2>5
    <3> QED
      BY <1>o, <1>q, <2>1, <3>1
  <2>6. CASE TelResends
    <3>1. P = Append(pubacks, p)
      BY <2>6 DEF TelResends
    <3>2. p \in Packet /\ p.id = E[k].packet_id /\ p.msg = walk
      BY <2>2, TelElements DEF Packet
    <3>3. Unique
      BY <1>u, <2>4, LeftEntries
    <3> HIDE DEF k, q, P, p, E, N
    <3>4. P \in Seq(Packet) /\ Len(P) = q + 1 /\ (\A j \in 1..q : P[j] = pubacks[j]) /\ P[q + 1] = p
      BY <1>t, <3>1, <3>2, AppendProperties DEF q
    <3>5. DOMAIN P = 1..q + 1
      BY <3>4, LenProperties
    <3>6. (\A i : i \in 1..q + 1 <=> i \in 1..q \/ i = q + 1) /\ DOMAIN pubacks = 1..q
      BY <1>t DEF q
    <3>7. ASSUME NEW j \in DOMAIN P, NEW i \in DOMAIN N, P[j].id = N[i].packet_id
          PROVE  P[j].msg = N[i].msg
      <4>1. i \in DOMAIN E /\ N[i].msg = E[i].msg /\ N[i].packet_id = E[i].packet_id
        BY <2>3
      <4>2. CASE j \in 1..q
        BY <1>m, <3>4, <3>6, <3>7, <4>1, <4>2
      <4>3. CASE P[j] = p
        BY <1>u, <2>2, <3>2, <3>7, <4>1, <4>3
      <4> QED
        BY <3>4, <3>5, <3>6, <4>2, <4>3
    <3>8. Matched
      BY <3>7 DEF P
    <3> QED
      BY <1>o, <1>q, <2>1, <3>3, <3>8
  <2> QED
    BY <1>8, <2>5, <2>6
<1>9. "ERROR" \in Results \ {"OK"} /\ "MESSAGE_TIMEOUT" \in Results \ {"OK"}
  BY <1>r
<1> QED
  BY <1>1, <1>2, <1>3, <1>4, <1>5, <1>6, <1>7, <1>8, <1>9 DEF TelMoves

\* OK means that the hub has the message, as long as no packet id comes round again while a
\* message waits with it: ids are 16 bits, and nothing in the code keeps them apart.
THEOREM TelIsSound == TelSpec /\ []NextIdFree => []TelSound
<1>1. TelInit => TelInv /\ PacketInv
  BY TelInitial
<1>2. TelInv /\ PacketInv /\ NextIdFree /\ [TelNext]_tvars => TelInv' /\ PacketInv'
  <2> SUFFICES ASSUME TelInv, PacketInv, NextIdFree, [TelNext]_tvars PROVE TelInv' /\ PacketInv'
    OBVIOUS
  <2>1. TelInv'
    BY TelStepKept
  <2>2. PacketInv'
    BY TelCases, PacketsKept DEF TelInv
  <2> QED
    BY <2>1, <2>2
<1>3. TelInv /\ PacketInv => TelSound
  BY DEF TelInv, PacketInv, PublishInv, PublishesBounded, TelSound
<1> QED
  BY <1>1, <1>2, <1>3, PTL DEF TelSpec
=============================================================================
