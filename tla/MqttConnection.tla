--------------------------- MODULE MqttConnection ---------------------------
(***************************************************************************)
(* The connection and subscription state of iothubtransport_mqtt_common.c.  *)
(* One call of IoTHubTransport_MQTT_Common_DoWork is cut into the stages    *)
(*   "state"    the work of currPacketState, once the connection was seen to *)
(*   "network"  mqtt_client_dowork, which calls back for what has arrived   *)
(*   "pending"  the timeouts of messages and twin requests                  *)
(* and "waiting" is the loop of DisconnectFromClient, which also calls       *)
(* mqtt_client_dowork.  uMQTT and the hub are external; the hub keeps the    *)
(* subscriptions of a client between connections (useCleanSession is false). *)
(* Clocks are abstracted: what is compared with a time may have run out.     *)
(***************************************************************************)
EXTENDS Integers, Sequences, FiniteSets

CONSTANTS
  UserTopics,     \* the topics the application subscribes to in this instance
  Disconnects,    \* which of "sas", "keepalive", "telemetry" disconnect
  MaxSubscribes,  \* bound on SUBSCRIBE packets awaiting their SUBACK
  Refusable       \* the topics the hub may refuse

Topics == {"TELEMETRY", "GET_STATE", "NOTIFY_STATE", "METHODS", "INPUT"}

ASSUME TopicsAssumption ==
  /\ UserTopics \subseteq Topics \ {"NOTIFY_STATE"}
  /\ Disconnects \subseteq {"sas", "keepalive", "telemetry"}
  /\ MaxSubscribes \in Nat \ {0}
  /\ Refusable \subseteq Topics

VARIABLES
  mqttClientStatus, currPacketState,
  isRecoverableError, isRetryExpiredCallbackCalled,
  topic,                \* the topic_* strings that are not NULL
  topics_ToSubscribe,
  twin_resp_sub_recv, device_twin_get_sent,
  pc, after,            \* the stage, and why DisconnectFromClient was called
  link,                 \* external: uMQTT's connection
  subscribing,          \* external: SUBSCRIBE packets without a SUBACK
  session,              \* external: subscriptions the hub keeps
  told,                 \* history: the last status told to the application
  lost,                 \* history: topics whose SUBSCRIBE was dropped by a disconnection
                        \* that did not mark them again
  refused               \* history: topics the hub refused when it was last asked for them

connVars == <<mqttClientStatus, currPacketState, isRecoverableError,
              isRetryExpiredCallbackCalled, topic, topics_ToSubscribe,
              twin_resp_sub_recv, device_twin_get_sent, pc, after, link,
              subscribing, session, told, lost, refused>>
topicVars == <<topic, topics_ToSubscribe, twin_resp_sub_recv>>
linkVars == <<link, subscribing, session, lost, refused>>
statusVars == <<mqttClientStatus, isRecoverableError, isRetryExpiredCallbackCalled, told>>

Statuses == {"NOT_CONNECTED", "CONNECTING", "CONNECTED", "PENDING_CLOSE",
             "EXECUTE_DISCONNECT"}
PacketStates == {"CONNECT", "CONNACK", "SUBSCRIBE", "SUBACK", "PUBLISH", "DISCONNECT",
                 "ERROR", "UNKNOWN"}

NetworkRuns == pc \in {"network", "waiting"} /\ link # "down"
\* The application runs between calls and inside the callbacks of the transport.
ApplicationRuns == pc = "idle" \/ NetworkRuns

-----------------------------------------------------------------------------
(* Subscriptions of the application *)

SubscribeAlways == "SUBSCRIBE" \* mutant: also while there is no connection
changeStateToSubscribeIfAllowed ==
  IF currPacketState \in {"CONNACK", "CONNECT", "DISCONNECT", "ERROR"}
  THEN currPacketState ELSE "SUBSCRIBE"

\* The first subscription to a topic makes its string and marks it; telemetry and the
\* input queue are marked every time.
Subscribe(t) ==
  /\ ApplicationRuns
  /\ topic' = topic \cup {t}
  /\ topics_ToSubscribe' = IF t \in topic /\ t \in {"GET_STATE", "METHODS"}
                           THEN topics_ToSubscribe ELSE topics_ToSubscribe \cup {t}
  /\ currPacketState' = changeStateToSubscribeIfAllowed
  /\ UNCHANGED <<statusVars, linkVars, twin_resp_sub_recv, device_twin_get_sent, pc, after>>

UnsubscribeKeepsMark(t) == \* mutant: the topic stays marked for subscription
  /\ ApplicationRuns
  /\ t \in topic
  /\ topic' = topic \ {t}
  /\ UNCHANGED <<statusVars, linkVars, currPacketState, topics_ToSubscribe,
                 twin_resp_sub_recv, device_twin_get_sent, pc, after>>

\* mqtt_client_unsubscribe is called for every topic but those of the twin.
Unsubscribe(t) ==
  LET gone == IF t = "GET_STATE" THEN {"GET_STATE", "NOTIFY_STATE"} ELSE {t} IN
  /\ ApplicationRuns
  /\ t \in topic
  /\ topic' = topic \ gone
  /\ topics_ToSubscribe' = topics_ToSubscribe \ gone
  /\ IF t = "GET_STATE" \/ link # "up"
     THEN UNCHANGED <<session, subscribing>>
     ELSE /\ session' = session \ gone
          /\ subscribing' = [i \in DOMAIN subscribing |->
                               [subscribing[i] EXCEPT !.topics = @ \ gone]]
  /\ UNCHANGED <<statusVars, currPacketState, twin_resp_sub_recv, device_twin_get_sent, pc,
                 after, link, refused>>
  /\ lost' = lost \ gone

-----------------------------------------------------------------------------
(* Disconnecting *)

\* The assignments at the end of DisconnectFromClient; packets not yet acknowledged
\* are lost.
Disconnected ==
  /\ mqttClientStatus' = "NOT_CONNECTED"
  /\ device_twin_get_sent' = FALSE
  /\ link' = "down"
  /\ subscribing' = <<>>
  /\ UNCHANGED <<session, refused>>

\* The topics of the SUBSCRIBE packets the hub has not acknowledged.
Unacknowledged == UNION {subscribing[i].topics : i \in DOMAIN subscribing}

ForgetTopics == topics_ToSubscribe \* mutant: the topics are not marked again
\* Every topic is marked for subscription again.
ResubscribeAll == topics_ToSubscribe \cup topic

\* DisconnectFromClient sends DISCONNECT and runs mqtt_client_dowork until it is sent
\* or 50 turns have passed.
StartDisconnect(why) ==
  /\ mqttClientStatus = "CONNECTED"
  /\ currPacketState # "DISCONNECT"
  /\ pc' = "waiting"
  /\ after' = why
  /\ UNCHANGED <<statusVars, topicVars, linkVars, currPacketState, device_twin_get_sent>>

\* The rest of DisconnectFromClient and of the function that called it.
FinishDisconnect ==
  /\ pc = "waiting"
  /\ Disconnected
  /\ after' = "none"
  /\ \/ /\ after = "sas"
        /\ told' = "UNAUTHENTICATED"
        /\ currPacketState' = "UNKNOWN"
        /\ topics_ToSubscribe' = ResubscribeAll
        /\ lost' = {}
        /\ pc' = "state"
        /\ UNCHANGED isRetryExpiredCallbackCalled
     \/ /\ after = "keepalive"
        /\ currPacketState' = "DISCONNECT"
        /\ lost' = lost \cup Unacknowledged
        /\ pc' = "idle"
        /\ UNCHANGED <<told, topics_ToSubscribe, isRetryExpiredCallbackCalled>>
     \/ /\ after = "telemetry"
        /\ currPacketState' = "DISCONNECT"
        /\ told' = IF isRetryExpiredCallbackCalled THEN told ELSE "UNAUTHENTICATED"
        /\ isRetryExpiredCallbackCalled' = TRUE
        /\ lost' = lost \cup Unacknowledged
        /\ pc' = "pending"
        /\ UNCHANGED topics_ToSubscribe
     \/ /\ after = "destroy"
        /\ currPacketState' = "DISCONNECT"
        /\ pc' = "destroyed"
        /\ UNCHANGED <<told, topics_ToSubscribe, isRetryExpiredCallbackCalled, lost, refused>>
  /\ UNCHANGED <<isRecoverableError, topic, twin_resp_sub_recv>>

DisconnectSkipsErrors == \* mutant: taken for disconnected after an error
  /\ mqttClientStatus # "CONNECTED"
  /\ IF currPacketState \in {"DISCONNECT", "ERROR"}
     THEN UNCHANGED <<mqttClientStatus, currPacketState, device_twin_get_sent, linkVars>>
     ELSE Disconnected /\ currPacketState' = "DISCONNECT" /\ UNCHANGED lost

\* DisconnectFromClient without a connection: nothing to wait for.
DisconnectAtOnce ==
  /\ mqttClientStatus # "CONNECTED"
  /\ IF currPacketState = "DISCONNECT"
     THEN UNCHANGED <<mqttClientStatus, currPacketState, device_twin_get_sent, linkVars>>
     ELSE Disconnected /\ currPacketState' = "DISCONNECT" /\ UNCHANGED lost

-----------------------------------------------------------------------------
(* UpdateMqttConnectionStateIfNeeded: leads to "state", or to "pending" on failure *)

ConnectWhenClean == \* mutant: only after a clean disconnection
  /\ pc = "idle" /\ mqttClientStatus = "NOT_CONNECTED" /\ isRecoverableError
  /\ currPacketState = "DISCONNECT"
  /\ mqttClientStatus' = "CONNECTING" /\ currPacketState' = "CONNECT"
  /\ isRetryExpiredCallbackCalled' = FALSE
  /\ link' = "opening" /\ subscribing' = <<>> /\ pc' = "state"
  /\ UNCHANGED <<isRecoverableError, topicVars, device_twin_get_sent, after, session, told, lost, refused>>

\* The first attempt is always made; later ones when retry_control_should_retry says
\* so or fails.
Connect ==
  /\ pc = "idle"
  /\ mqttClientStatus = "NOT_CONNECTED"
  /\ isRecoverableError
  /\ mqttClientStatus' = "CONNECTING"
  /\ currPacketState' = "CONNECT"
  /\ isRetryExpiredCallbackCalled' = FALSE
  /\ link' = "opening"
  /\ subscribing' = <<>>
  /\ pc' = "state"
  /\ UNCHANGED <<isRecoverableError, topicVars, device_twin_get_sent, after, session, told, lost, refused>>

\* The clock, the SAS token or mqtt_client_connect fails; an invalid token is told.
ConnectFails ==
  /\ pc = "idle"
  /\ mqttClientStatus = "NOT_CONNECTED"
  /\ isRecoverableError
  /\ told' \in {told, "UNAUTHENTICATED"}
  /\ pc' = "pending"
  /\ UNCHANGED <<mqttClientStatus, isRecoverableError, isRetryExpiredCallbackCalled,
                 topicVars, linkVars, currPacketState, device_twin_get_sent, after>>

RetryLater ==
  /\ pc = "idle"
  /\ mqttClientStatus = "NOT_CONNECTED"
  /\ isRecoverableError
  /\ pc' = "pending"
  /\ UNCHANGED <<statusVars, topicVars, linkVars, currPacketState, device_twin_get_sent, after>>

StopRetrying ==
  /\ pc = "idle"
  /\ mqttClientStatus = "NOT_CONNECTED"
  /\ isRecoverableError
  /\ told' = IF isRetryExpiredCallbackCalled THEN told ELSE "UNAUTHENTICATED"
  /\ isRetryExpiredCallbackCalled' = TRUE
  /\ pc' = "pending"
  /\ UNCHANGED <<mqttClientStatus, isRecoverableError, topicVars, linkVars, currPacketState,
                 device_twin_get_sent, after>>

ExecuteDisconnect ==
  /\ pc = "idle"
  /\ mqttClientStatus = "EXECUTE_DISCONNECT"
  /\ DisconnectAtOnce
  /\ pc' = "state"
  /\ UNCHANGED <<isRecoverableError, isRetryExpiredCallbackCalled, told, topicVars, after>>

\* No CONNACK within connect_timeout_in_sec.
ConnectTimesOut ==
  /\ pc = "idle"
  /\ mqttClientStatus = "CONNECTING"
  /\ Disconnected
  /\ currPacketState' = "DISCONNECT"
  /\ pc' = "pending"
  /\ UNCHANGED <<isRecoverableError, isRetryExpiredCallbackCalled, told, topicVars, after, lost>>

SasTokenExpires ==
  /\ pc = "idle"
  /\ "sas" \in Disconnects
  /\ StartDisconnect("sas")

\* The timeouts cannot be checked because the clock cannot be read.
ClockFails ==
  /\ pc = "idle"
  /\ mqttClientStatus \in {"CONNECTING", "CONNECTED"}
  /\ pc' = "pending"
  /\ UNCHANGED <<statusVars, topicVars, linkVars, currPacketState, device_twin_get_sent, after>>

\* The connection needs nothing; also when the hub has rejected the client for good.
NothingToUpdate ==
  /\ pc = "idle"
  /\ \/ mqttClientStatus \in {"CONNECTING", "CONNECTED", "PENDING_CLOSE"}
     \/ mqttClientStatus = "NOT_CONNECTED" /\ ~isRecoverableError
  /\ pc' = "state"
  /\ UNCHANGED <<statusVars, topicVars, linkVars, currPacketState, device_twin_get_sent, after>>

UpdateMqttConnectionStateIfNeeded ==
  \/ Connect \/ ConnectFails \/ RetryLater \/ StopRetrying \/ ExecuteDisconnect
  \/ ConnectTimesOut \/ SasTokenExpires \/ ClockFails \/ NothingToUpdate

-----------------------------------------------------------------------------
(* The work of currPacketState *)

\* mqtt_client_disconnect; a rejected connection is closed.
PendingClose ==
  /\ pc = "state"
  /\ mqttClientStatus = "PENDING_CLOSE"
  /\ mqttClientStatus' = "NOT_CONNECTED"
  /\ link' = IF link = "down" THEN link ELSE "closing"
  /\ pc' = "network"
  /\ UNCHANGED <<isRecoverableError, isRetryExpiredCallbackCalled, told, topicVars,
                 currPacketState, device_twin_get_sent, after, subscribing, session, lost, refused>>

\* SubscribeToMqttProtocol: all marked topics go out in one SUBSCRIBE.  Its packet id
\* becomes twin_resp_packet_id when it has the topic of twin responses.
SendSubscribe ==
  LET marked == topics_ToSubscribe \cap topic
      twin == "GET_STATE" \in marked
      older == [i \in DOMAIN subscribing |->
                  [subscribing[i] EXCEPT !.twin = @ /\ ~twin]] IN
  /\ pc = "state"
  /\ mqttClientStatus # "PENDING_CLOSE"
  /\ currPacketState \in {"CONNACK", "SUBSCRIBE"}
  /\ topics_ToSubscribe # {}
  /\ \/ /\ link = "up" /\ marked # {} /\ Len(subscribing) < MaxSubscribes
        /\ subscribing' = Append(older, [topics |-> marked, twin |-> twin])
        /\ topics_ToSubscribe' = topics_ToSubscribe \ marked
     \/ UNCHANGED <<subscribing, topics_ToSubscribe>>     \* mqtt_client_subscribe fails
  /\ currPacketState' = "SUBSCRIBE"
  /\ pc' = "network"
  /\ UNCHANGED <<statusVars, topic, twin_resp_sub_recv, device_twin_get_sent, after, link,
                 session, lost, refused>>

NothingToSubscribe ==
  /\ pc = "state"
  /\ mqttClientStatus # "PENDING_CLOSE"
  /\ currPacketState \in {"CONNACK", "SUBSCRIBE"}
  /\ topics_ToSubscribe = {}
  /\ currPacketState' = "PUBLISH"
  /\ pc' = "network"
  /\ UNCHANGED <<statusVars, topicVars, linkVars, device_twin_get_sent, after>>

\* ProcessSubackDoWork: the first GET of the twin document; publishing may fail.
ProcessSubackDoWork ==
  /\ pc = "state"
  /\ mqttClientStatus # "PENDING_CLOSE"
  /\ currPacketState = "SUBACK"
  /\ \/ /\ topic \cap {"GET_STATE", "NOTIFY_STATE"} # {}
        /\ ~device_twin_get_sent
        /\ device_twin_get_sent' = TRUE
     \/ UNCHANGED device_twin_get_sent
  /\ currPacketState' = "PUBLISH"
  /\ pc' = "network"
  /\ UNCHANGED <<statusVars, topicVars, linkVars, after>>

\* ProcessPublishStateDoWork leaves the connection alone, but requests of the
\* application for the twin document set device_twin_get_sent.
PublishStateWork ==
  /\ pc = "state"
  /\ mqttClientStatus # "PENDING_CLOSE"
  /\ currPacketState = "PUBLISH"
  /\ device_twin_get_sent' \in {device_twin_get_sent, device_twin_get_sent \/ twin_resp_sub_recv}
  /\ pc' = "network"
  /\ UNCHANGED <<statusVars, topicVars, linkVars, currPacketState, after>>

NoStateWork ==
  /\ pc = "state"
  /\ mqttClientStatus # "PENDING_CLOSE"
  /\ currPacketState \notin {"CONNACK", "SUBSCRIBE", "SUBACK", "PUBLISH"}
  /\ pc' = "network"
  /\ UNCHANGED <<statusVars, topicVars, linkVars, currPacketState, device_twin_get_sent, after>>

StateWork == PendingClose \/ SendSubscribe \/ NothingToSubscribe \/ ProcessSubackDoWork
               \/ PublishStateWork \/ NoStateWork

-----------------------------------------------------------------------------
(* mqtt_client_dowork: the callbacks of uMQTT *)

ConnackNotTold == \* mutant: connection_status_cb is not called
  /\ NetworkRuns /\ link = "opening"
  /\ link' = "up" /\ currPacketState' = "CONNACK" /\ mqttClientStatus' = "CONNECTED"
  /\ isRecoverableError' = TRUE
  /\ UNCHANGED <<told, isRetryExpiredCallbackCalled, topicVars, device_twin_get_sent, pc,
                 after, subscribing, session, lost, refused>>

\* mqttOperationCompleteCallback, MQTT_CLIENT_ON_CONNACK
ConnackAccepted ==
  /\ NetworkRuns
  /\ link = "opening"
  /\ link' = "up"
  /\ currPacketState' = "CONNACK"
  /\ mqttClientStatus' = "CONNECTED"
  /\ isRecoverableError' = TRUE
  /\ told' = "AUTHENTICATED"
  /\ UNCHANGED <<isRetryExpiredCallbackCalled, topicVars, device_twin_get_sent, pc, after,
                 subscribing, session, lost, refused>>

\* The hub is unavailable or the client not authorized: told, and tried again.
\* Bad credentials are told and final, a bad protocol version is final and not told,
\* an unknown code is neither.
ConnackRefused ==
  /\ NetworkRuns
  /\ link = "opening"
  /\ link' = "refused"
  /\ \E final, tell \in BOOLEAN :
       /\ isRecoverableError' = (isRecoverableError /\ ~final)
       /\ told' = IF tell THEN "UNAUTHENTICATED" ELSE told
  /\ mqttClientStatus' = "PENDING_CLOSE"
  /\ currPacketState' = "ERROR"
  /\ UNCHANGED <<isRetryExpiredCallbackCalled, topicVars, device_twin_get_sent, pc, after,
                 subscribing, session, lost, refused>>

\* mqttOperationCompleteCallback, MQTT_CLIENT_ON_SUBSCRIBE_ACK.  A topic the hub refuses
\* (DELIVER_FAILURE) is only logged: the packet is taken for acknowledged, the topic is not
\* marked again, and twin responses are taken for subscribed.
Suback ==
  /\ NetworkRuns
  /\ link = "up"
  /\ subscribing # <<>>
  /\ currPacketState' = "SUBACK"
  /\ twin_resp_sub_recv' = (twin_resp_sub_recv \/ Head(subscribing).twin)
  /\ \E denied \in SUBSET (Head(subscribing).topics \cap Refusable) :
       /\ session' = (session \cup Head(subscribing).topics) \ denied
       /\ refused' = (refused \ Head(subscribing).topics) \cup denied
  /\ subscribing' = Tail(subscribing)
  /\ lost' = lost \ Head(subscribing).topics
  /\ UNCHANGED <<statusVars, topic, topics_ToSubscribe, device_twin_get_sent, pc, after, link>>

\* mqttOperationCompleteCallback, MQTT_CLIENT_ON_DISCONNECT
OnDisconnect ==
  /\ NetworkRuns
  /\ pc = "waiting" \/ link = "closing"
  /\ mqttClientStatus' = "NOT_CONNECTED"
  /\ link' = "down"
  /\ UNCHANGED <<isRecoverableError, isRetryExpiredCallbackCalled, told, topicVars,
                 currPacketState, device_twin_get_sent, pc, after, subscribing, session, lost, refused>>

\* processErrorCallback: the connection is lost.  Three kinds of error are told to the
\* application, parse, memory and unknown errors are not.
processErrorCallback ==
  /\ NetworkRuns
  /\ told' \in {told, "UNAUTHENTICATED"}
  /\ mqttClientStatus' = IF mqttClientStatus = "PENDING_CLOSE" THEN mqttClientStatus
                         ELSE "EXECUTE_DISCONNECT"
  /\ currPacketState' = "ERROR"
  /\ device_twin_get_sent' = FALSE
  /\ topics_ToSubscribe' = ResubscribeAll
  /\ link' = "down"
  /\ subscribing' = <<>>
  /\ UNCHANGED <<isRecoverableError, isRetryExpiredCallbackCalled, topic, twin_resp_sub_recv,
                 pc, after, session, refused>>
  /\ lost' = {}

\* processTwinNotification: a twin response subscribes to desired property changes.
subscribeToNotifyStateIfNeeded ==
  /\ NetworkRuns
  /\ link = "up"
  /\ "GET_STATE" \in session
  /\ topic' = topic \cup {"NOTIFY_STATE"}
  /\ topics_ToSubscribe' = IF "NOTIFY_STATE" \in topic THEN topics_ToSubscribe
                           ELSE topics_ToSubscribe \cup {"NOTIFY_STATE"}
  /\ currPacketState' = changeStateToSubscribeIfAllowed
  /\ UNCHANGED <<statusVars, linkVars, twin_resp_sub_recv, device_twin_get_sent, pc, after>>

NetworkDone ==
  /\ pc = "network"
  /\ pc' = "pending"
  /\ UNCHANGED <<statusVars, topicVars, linkVars, currPacketState, device_twin_get_sent, after>>

Network == ConnackAccepted \/ ConnackRefused \/ Suback \/ OnDisconnect
             \/ processErrorCallback \/ subscribeToNotifyStateIfNeeded

-----------------------------------------------------------------------------
(* Timeouts, options and the end *)

\* ProcessPendingTelemetryMessages gives a message up and reconnects.
TelemetryTimesOut ==
  /\ pc = "pending"
  /\ "telemetry" \in Disconnects
  /\ \/ StartDisconnect("telemetry")
     \/ /\ DisconnectAtOnce
        /\ told' = IF isRetryExpiredCallbackCalled THEN told ELSE "UNAUTHENTICATED"
        /\ isRetryExpiredCallbackCalled' = TRUE
        /\ UNCHANGED <<isRecoverableError, topicVars, pc, after>>

PendingDone ==
  /\ pc = "pending"
  /\ pc' = "idle"
  /\ UNCHANGED <<statusVars, topicVars, linkVars, currPacketState, device_twin_get_sent, after>>

\* IoTHubTransport_MQTT_Common_SetOption with a new keepalive.
SetKeepAlive ==
  /\ pc = "idle"
  /\ "keepalive" \in Disconnects
  /\ mqttClientStatus # "NOT_CONNECTED"
  /\ \/ StartDisconnect("keepalive")
     \/ /\ DisconnectAtOnce
        /\ UNCHANGED <<isRecoverableError, isRetryExpiredCallbackCalled, told, topicVars, pc,
                       after>>

\* IoTHubTransport_MQTT_Common_Destroy
Destroy ==
  /\ pc = "idle"
  /\ \/ StartDisconnect("destroy")
     \/ /\ DisconnectAtOnce
        /\ pc' = "destroyed"
        /\ UNCHANGED <<isRecoverableError, isRetryExpiredCallbackCalled, told, topicVars, after>>

ConnInit ==
  /\ mqttClientStatus = "NOT_CONNECTED"
  /\ currPacketState = "CONNECT"
  /\ isRecoverableError = TRUE
  /\ isRetryExpiredCallbackCalled = FALSE
  /\ topic = {}
  /\ topics_ToSubscribe = {}
  /\ twin_resp_sub_recv = FALSE
  /\ device_twin_get_sent = FALSE
  /\ pc = "idle"
  /\ after = "none"
  /\ link = "down"
  /\ subscribing = <<>>
  /\ session = {}
  /\ told = "none"
  /\ lost = {}
  /\ refused = {}

ConnNext ==
  \/ \E t \in UserTopics : Subscribe(t) \/ Unsubscribe(t)
  \/ UpdateMqttConnectionStateIfNeeded
  \/ StateWork
  \/ Network \/ NetworkDone \/ FinishDisconnect
  \/ TelemetryTimesOut \/ PendingDone
  \/ SetKeepAlive \/ Destroy

ConnSpec == ConnInit /\ [][ConnNext]_connVars

\* The application keeps calling DoWork, every call returns, and the retry policy does
\* not postpone the connection for ever (RetryControl).
ConnFairSpec ==
  /\ ConnSpec
  /\ WF_connVars(UpdateMqttConnectionStateIfNeeded)
  /\ WF_connVars(StateWork \/ NetworkDone \/ FinishDisconnect \/ PendingDone)
  /\ SF_connVars(Connect)

-----------------------------------------------------------------------------
(* Properties *)

\* Types; and only topics whose string exists are marked for subscription.
ConnTypeOK ==
  /\ mqttClientStatus \in Statuses
  /\ currPacketState \in PacketStates
  /\ {isRecoverableError, isRetryExpiredCallbackCalled, twin_resp_sub_recv,
      device_twin_get_sent} \subseteq BOOLEAN
  /\ topic \subseteq Topics
  /\ topics_ToSubscribe \subseteq topic
  /\ pc \in {"idle", "state", "network", "waiting", "pending", "destroyed"}
  /\ after \in {"none", "sas", "keepalive", "telemetry", "destroy"}
  /\ link \in {"down", "opening", "up", "refused", "closing"}
  /\ subscribing \in Seq([topics : SUBSET Topics, twin : BOOLEAN])
  /\ session \subseteq Topics /\ lost \subseteq Topics /\ refused \subseteq Topics
  /\ told \in {"none", "AUTHENTICATED", "UNAUTHENTICATED"}

\* Nothing is subscribed or published without a connection, although the stages look
\* at currPacketState and not at the connection: no order of refusals, errors,
\* renewals, timeouts and application calls leaves a working packet state behind.
WorksConnected ==
  /\ pc = "state" /\ currPacketState \in {"CONNACK", "SUBSCRIBE", "SUBACK", "PUBLISH"}
       => link = "up" /\ mqttClientStatus = "CONNECTED"
  /\ currPacketState = "PUBLISH" /\ pc # "waiting" => link = "up"

\* While the transport is connected the application's last word is AUTHENTICATED.
ConnectedTold == mqttClientStatus = "CONNECTED" => told = "AUTHENTICATED"

\* Once the transport publishes, the hub has every subscription of the application or
\* will get it, also after errors and token renewals in the middle of subscribing:
\* only a SUBSCRIBE dropped by a keepalive change or a message timeout is not repeated, and
\* a topic the hub refused is not asked for again before the next loss of the connection.
SubscriptionsRestored ==
  currPacketState = "PUBLISH" /\ link = "up" /\ subscribing = <<>>
    => topic \subseteq session \cup topics_ToSubscribe \cup lost \cup refused

\* doc/connection_and_messaging_reliability.md: subscriptions made by the user are
\* reestablished automatically after a connection loss, whatever ended the connection.
AllSubscriptionsRestored ==
  currPacketState = "PUBLISH" /\ link = "up" /\ subscribing = <<>>
    => topic \subseteq session \cup topics_ToSubscribe

\* A lost or rejected connection is closed, whatever state it was lost in.
LossHandled ==
  mqttClientStatus \in {"EXECUTE_DISCONNECT", "PENDING_CLOSE"}
    ~> mqttClientStatus = "NOT_CONNECTED" \/ pc = "destroyed"

\* Unless the hub rejected the client for good, a closed connection is opened again.
Reconnects ==
  mqttClientStatus = "NOT_CONNECTED" /\ isRecoverableError
    ~> mqttClientStatus = "CONNECTING" \/ pc = "destroyed"

\* SRS_IOTHUB_TRANSPORT_MQTT_COMMON_07_016: Subscribe sets a flag to enable
\* mqtt_client_subscribe to be called; so no flagged topic is left when the transport
\* has gone on to publish.
NoTopicStranded == pc = "idle" /\ currPacketState = "PUBLISH" => topics_ToSubscribe = {}

\* What holds of the status, the link and the packet state of the connection at every return
\* from uMQTT and between the stages of DoWork.
ConnSound == ConnTypeOK /\ WorksConnected /\ ConnectedTold

\* The transport closes a connection that fails and opens the next one.
Recovers == LossHandled /\ Reconnects
=============================================================================
