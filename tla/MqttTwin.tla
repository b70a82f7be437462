------------------------------ MODULE MqttTwin ------------------------------
(***************************************************************************)
(* The twin of iothubtransport_mqtt_common.c on top of MqttConnection: the   *)
(* GET the transport sends by itself after a SUBACK, GETs the application     *)
(* asks for, reported states, and the responses, timeouts and Destroy that    *)
(* end them.  A request is matched with its response by packet id; requests   *)
(* under way have different ids here, so the id is the request itself, and as *)
(* every operation goes through the whole of a queue the queues are sets.     *)
(***************************************************************************)
EXTENDS MqttConnection

CONSTANTS
  Gets,       \* requests of the application for the twin document
  Reports,    \* reported states
  Initials    \* the GETs of the transport that may be under way at a time

ASSUME TwinAssumption ==
  /\ Gets \cap Reports = {} /\ Gets \cap Initials = {} /\ Reports \cap Initials = {}

VARIABLES
  pending_get_twin_queue,
  ack_waiting_queue,
  responses,    \* external: responses of the hub under way
  fate          \* history: how each request of the application ended

twinVars == <<pending_get_twin_queue, ack_waiting_queue, responses, fate>>
qvars == <<connVars, twinVars>>

Asked == Gets \cup Reports
Requests == Asked \cup Initials
Fates == {"answered", "timeout", "destroyed", "dropped"}
Held == pending_get_twin_queue \cup ack_waiting_queue

\* The requests of S end: a callback is called for those of the application, except
\* when the PUBLISH failed ("dropped").
Ends(S, how) ==
  fate' = [r \in Asked |-> IF r \notin S THEN fate[r]
                               ELSE IF fate[r] = "none" THEN how ELSE "twice"]

-----------------------------------------------------------------------------

\* IoTHubTransport_MQTT_Common_GetTwinAsync
GetTwinAsync(g) ==
  /\ ApplicationRuns
  /\ g \notin Held /\ fate[g] = "none"
  /\ pending_get_twin_queue' = pending_get_twin_queue \cup {g}
  /\ UNCHANGED <<connVars, ack_waiting_queue, responses, fate>>

ProcessItemUnsubscribed(r) == \* mutant: does not wait for the SUBACK
  /\ pc = "idle" /\ r \notin Held /\ fate[r] = "none" /\ currPacketState = "PUBLISH"
  /\ ack_waiting_queue' = ack_waiting_queue \cup {r}
  /\ responses' = responses \cup {r}
  /\ UNCHANGED <<connVars, pending_get_twin_queue, fate>>

\* IoTHubTransport_MQTT_Common_ProcessItem takes a reported state; it keeps nothing of one
\* it cannot publish, and the client core decides what becomes of it.
ProcessItem(r) ==
  /\ pc = "idle"
  /\ r \notin Held /\ fate[r] = "none"
  /\ currPacketState = "PUBLISH"
  /\ twin_resp_sub_recv
  /\ link = "up"
  /\ ack_waiting_queue' = ack_waiting_queue \cup {r}
  /\ responses' = responses \cup {r}
  /\ UNCHANGED <<connVars, pending_get_twin_queue, fate>>

\* ProcessSubackDoWork when it publishes the GET of the transport.
SendInitialGet ==
  /\ ProcessSubackDoWork
  /\ ~device_twin_get_sent /\ device_twin_get_sent'
  /\ \E i \in Initials :
       /\ i \notin Held \cup responses
       /\ ack_waiting_queue' = ack_waiting_queue \cup {i}
       /\ responses' = responses \cup {i}
  /\ UNCHANGED <<pending_get_twin_queue, fate>>

SendPendingKeepsFailed == \* mutant: a request whose PUBLISH fails is freed in the queue
  /\ PublishStateWork
  /\ twin_resp_sub_recv
  /\ \E ok \in SUBSET pending_get_twin_queue :
       /\ ack_waiting_queue' = ack_waiting_queue \cup ok
       /\ responses' = responses \cup ok
       /\ Ends(pending_get_twin_queue \ ok, "dropped")
       /\ device_twin_get_sent' = (device_twin_get_sent \/ ok # {})
       /\ pending_get_twin_queue' = pending_get_twin_queue \ ok

\* sendPendingGetTwinRequests: a request whose PUBLISH fails is freed.
sendPendingGetTwinRequests ==
  /\ PublishStateWork
  /\ twin_resp_sub_recv
  /\ \E ok \in SUBSET pending_get_twin_queue :
       /\ ack_waiting_queue' = ack_waiting_queue \cup ok
       /\ responses' = responses \cup ok
       /\ Ends(pending_get_twin_queue \ ok, "dropped")
       /\ device_twin_get_sent' = (device_twin_get_sent \/ ok # {})
  /\ pending_get_twin_queue' = {}

-----------------------------------------------------------------------------

TwinResponseRepeats(r) == \* mutant: the entry is not removed
  /\ NetworkRuns /\ link = "up" /\ r \in responses /\ r \in ack_waiting_queue
  /\ responses' = responses \ {r}
  /\ Ends({r}, "answered")
  /\ IF r \in Gets THEN UNCHANGED connVars ELSE subscribeToNotifyStateIfNeeded
  /\ UNCHANGED <<pending_get_twin_queue, ack_waiting_queue>>

\* processTwinNotification: the response of a request that waits for it.  Without the
\* subscription of the twin's responses the hub delivers none.
TwinResponse(r) ==
  /\ NetworkRuns
  /\ link = "up"
  /\ "GET_STATE" \in session
  /\ r \in responses
  /\ r \in ack_waiting_queue
  /\ responses' = responses \ {r}
  /\ ack_waiting_queue' = ack_waiting_queue \ {r}
  /\ Ends({r}, "answered")
  /\ IF r \in Gets THEN UNCHANGED connVars ELSE subscribeToNotifyStateIfNeeded
  /\ UNCHANGED pending_get_twin_queue

\* A response to a request that is gone is ignored.
LateResponse(r) ==
  /\ NetworkRuns
  /\ link = "up"
  /\ "GET_STATE" \in session
  /\ r \in responses \ ack_waiting_queue
  /\ responses' = responses \ {r}
  /\ UNCHANGED <<connVars, pending_get_twin_queue, ack_waiting_queue, fate>>

ExpireSent == \* mutant: requests that were never sent do not expire
  /\ PendingDone
  /\ \E expired \in SUBSET ack_waiting_queue :
       /\ Ends(expired, "timeout")
       /\ ack_waiting_queue' = ack_waiting_queue \ expired
  /\ UNCHANGED <<pending_get_twin_queue, responses>>

\* removeExpiredTwinRequests, and the end of DoWork: any of the requests may be a minute
\* old, the limit of a GET, or five, the limit of a reported state.
removeExpiredTwinRequests ==
  /\ PendingDone
  /\ \E expired \in SUBSET Held :
       /\ Ends(expired, "timeout")
       /\ pending_get_twin_queue' = pending_get_twin_queue \ expired
       /\ ack_waiting_queue' = ack_waiting_queue \ expired
  /\ UNCHANGED responses

\* IoTHubTransport_MQTT_Common_Destroy, once disconnected.
DestroyTwin ==
  /\ Destroy \/ FinishDisconnect
  /\ pc' = "destroyed"
  /\ Ends(Held, "destroyed")
  /\ pending_get_twin_queue' = {}
  /\ ack_waiting_queue' = {}
  /\ responses' = {}

\* Steps of the connection that leave the requests alone; responses of a connection
\* that is gone do not arrive.
OtherStep ==
  /\ \/ \E t \in UserTopics : Subscribe(t) \/ Unsubscribe(t)
     \/ UpdateMqttConnectionStateIfNeeded
     \/ PendingClose \/ SendSubscribe \/ NothingToSubscribe \/ NoStateWork
     \/ ProcessSubackDoWork /\ UNCHANGED device_twin_get_sent
     \/ PublishStateWork /\ UNCHANGED device_twin_get_sent /\ ~twin_resp_sub_recv
     \/ ConnackAccepted \/ ConnackRefused \/ Suback \/ OnDisconnect \/ processErrorCallback
     \/ NetworkDone \/ FinishDisconnect
     \/ TelemetryTimesOut \/ SetKeepAlive
     \/ PendingDone          \* the clock cannot be read: nothing expires
     \/ Destroy /\ pc' = "waiting"
  /\ pc' # "destroyed"
  /\ responses' = IF link' = "up" THEN responses ELSE {}
  /\ UNCHANGED <<pending_get_twin_queue, ack_waiting_queue, fate>>

TwinInit ==
  /\ ConnInit
  /\ pending_get_twin_queue = {}
  /\ ack_waiting_queue = {}
  /\ responses = {}
  /\ fate = [r \in Asked |-> "none"]

TwinNext ==
  \/ \E g \in Gets : GetTwinAsync(g)
  \/ \E r \in Reports : ProcessItem(r)
  \/ SendInitialGet
  \/ sendPendingGetTwinRequests
  \/ \E r \in Requests : TwinResponse(r) \/ LateResponse(r)
  \/ removeExpiredTwinRequests
  \/ DestroyTwin
  \/ OtherStep

TwinSpec == TwinInit /\ [][TwinNext]_qvars

\* The application keeps calling DoWork, every call returns, and the clock does not fail
\* for ever: a request that stays is found too old at one of the checks.
TwinFairSpec ==
  /\ TwinSpec
  /\ WF_qvars((OtherStep \/ SendInitialGet \/ sendPendingGetTwinRequests \/ DestroyTwin)
              /\ pc' # pc)
  /\ \A r \in Asked : SF_qvars(removeExpiredTwinRequests /\ r \in Held \ Held')

-----------------------------------------------------------------------------
(* Properties *)

\* Types; and no request that has ended is still in a queue.
TwinTypeOK ==
  /\ pending_get_twin_queue \subseteq Gets
  /\ ack_waiting_queue \subseteq Requests
  /\ pending_get_twin_queue \cap ack_waiting_queue = {}
  /\ \A r \in Held \cap Asked : fate[r] = "none"
  /\ responses \subseteq Requests
  /\ fate \in [Asked -> Fates \cup {"none", "twice"}]

requestStatus ==
  [r \in Asked |-> IF r \in Held THEN "held"
                    ELSE IF fate[r] = "none" THEN "new" ELSE fate[r]]

RequestDelivery == INSTANCE Delivery WITH Messages <- Asked, Outcomes <- Fates, status <- requestStatus

\* Every request that was accepted ends once: by its response, its timeout, a failed
\* PUBLISH or Destroy, whatever the connection does in between.
RequestEndsOnce == RequestDelivery!Spec

\* A reported state is only published when the hub has the subscription that brings the
\* response, although twin_resp_sub_recv outlives connections and Unsubscribe; only where
\* the hub refused that subscription is a report sent whose response cannot come, because
\* a refusal sets twin_resp_sub_recv as well.
ReportsAnswerable ==
  [][\A r \in Reports : r \in responses' \ responses
       => "GET_STATE" \in session \cup refused]_qvars

\* No request waits for ever, whether or not it was sent and the hub answers.
RequestsEnd == \A r \in Asked : r \in Held ~> r \notin Held

\* The comment in Unsubscribe_DeviceTwin (07_050): it "shall unsubscribe from the
\* topic_NotifyState"; so that topic exists only while the twin is subscribed to.
NotifyNeedsTwin == "NOTIFY_STATE" \in topic => "GET_STATE" \in topic

\* A twin request ends once, and a report is only sent where the answer can come back, but
\* for a refused subscription.
TwinHandled == RequestEndsOnce /\ ReportsAnswerable
=============================================================================
