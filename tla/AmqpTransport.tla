---------------------------- MODULE AmqpTransport ----------------------------
(***************************************************************************)
(* The AMQP transport, iothubtransport_amqp_common.c with                      *)
(* iothubtransport_amqp_connection.c: it connects, works its device, and after *)
(* failures stops the device, drops the connection and connects again, when    *)
(* its retry control (RetryControl) says so.  One device is registered; as the *)
(* share of faulty devices that makes the transport reconnect is 0, more of    *)
(* them only make it reconnect more often.                                     *)
(***************************************************************************)
EXTENDS AmqpDevice

ASSUME AmqpAssumption == MaxFailures \in Nat \ {0} /\ MaxPuts \in Nat \ {0}

VARIABLES
  connection,  \* amqp_connection_state, or "none"
  preferred,   \* preferred_authentication_mode
  device       \* the registered device, or NoDevice

transportVars == <<transportState, calm, connection, preferred, device>>

NoDevice == [mode |-> "none"]
Registered == device # NoDevice

-----------------------------------------------------------------------------
(* Methods: two links of their own, iothubtransportamqp_methods.c *)

iothubtransportamqp_methods_unsubscribe(d) == [d EXCEPT !.methods = "NOT"]

\* Fails when the links are there already.
iothubtransportamqp_methods_subscribe(d) ==
  IF d.methods # "NOT" THEN {} ELSE {[d EXCEPT !.methods = "SUBSCRIBED"]}

\* The sets of outcomes with and without success.
subscribe_methods(d) ==
  IF d.subscribed_for_methods THEN [done |-> {d}, failed |-> {}]
  ELSE LET done == iothubtransportamqp_methods_subscribe(d) IN
         [done |-> {[s EXCEPT !.subscribed_for_methods = TRUE] : s \in done},
          failed |-> IF done = {} THEN {d} ELSE Faults({d})]

on_methods_unsubscribed(d) ==
  [iothubtransportamqp_methods_unsubscribe(d) EXCEPT !.subscribed_for_methods = FALSE]

-----------------------------------------------------------------------------
(* Calls of the layer above *)

Calls(new) ==
  /\ device' = new
  /\ UNCHANGED <<transportState, calm, connection, preferred>>

is_device_credential_acceptable(mode) == preferred \in {"NOT_SET", mode}

IoTHubTransport_AMQP_Common_Register ==
  /\ ~Registered /\ transportState # "BEING_DESTROYED"
  /\ \E mode \in {"CBS", "X509"} :
       /\ is_device_credential_acceptable(mode)
       /\ device' = amqp_device_create(mode) /\ preferred' = mode
  /\ UNCHANGED <<transportState, calm, connection>>

IoTHubTransport_AMQP_Common_Unregister == Registered /\ Calls(NoDevice)

IoTHubTransport_AMQP_Common_Subscribe_DeviceMethod ==
  /\ Registered
  /\ Calls([device EXCEPT !.subscribe_methods_needed = TRUE, !.subscribed_for_methods = FALSE])

IoTHubTransport_AMQP_Common_Unsubscribe_DeviceMethod ==
  /\ Registered /\ device.subscribe_methods_needed
  /\ Calls([iothubtransportamqp_methods_unsubscribe(device) EXCEPT
              !.subscribe_methods_needed = FALSE, !.subscribed_for_methods = FALSE])

\* Begins to reconnect again when it had been given up.
IoTHubTransport_AMQP_Common_SetRetryPolicy ==
  /\ transportState = "NO_MORE_RETRIES" /\ transportState' = "RECONNECTION_REQUIRED"
  /\ UNCHANGED <<calm, connection, preferred, device>>

IoTHubTransport_AMQP_Common_Destroy ==
  /\ transportState # "BEING_DESTROYED"
  /\ transportState' = "BEING_DESTROYED" /\ device' = NoDevice /\ connection' = "none"
  /\ UNCHANGED <<calm, preferred>>

-----------------------------------------------------------------------------
(* Reconnection *)

\* mutant: the failures of sends are counted on.
PreparesCounting(d) ==
  LET first == [iothubtransportamqp_methods_unsubscribe(d) EXCEPT !.subscribed_for_methods = FALSE] IN
    {[s EXCEPT !.number_of_previous_failures = 0] : s \in amqp_device_stop(first)}

\* mutant: a device is not stopped, as its links end with the connection.
PreparesRunning(d) ==
  {[iothubtransportamqp_methods_unsubscribe(d) EXCEPT
      !.subscribed_for_methods = FALSE, !.number_of_previous_failures = 0,
      !.number_of_send_event_complete_failures = 0]}

prepare_device_for_connection_retry(d) ==
  LET first == [iothubtransportamqp_methods_unsubscribe(d) EXCEPT !.subscribed_for_methods = FALSE] IN
    {[s EXCEPT !.number_of_previous_failures = 0, !.number_of_send_event_complete_failures = 0] :
       s \in IF d.seen # "STOPPED" THEN amqp_device_stop(first) ELSE {first}}

\* uAMQP: a token on its way fails or is forgotten, and the authorization is gone.
amqp_connection_destroy(d) ==
  LET gone(x) == [x EXCEPT !.puts = 0, !.authorized = FALSE] IN
    {gone(d)} \cup IF d.puts = 0 THEN {}
                   ELSE {gone(on_cbs_put_token_complete_callback(d, FALSE))}

prepare_for_connection_retry ==
  /\ transportState = "RECONNECTION_REQUIRED"
  /\ device' \in IF Registered
                 THEN UNION {amqp_connection_destroy(s) : s \in prepare_device_for_connection_retry(device)}
                 ELSE {device}
  /\ connection' = "none" /\ transportState' = "READY_FOR_RECONNECTION"
  /\ UNCHANGED <<calm, preferred>>

RetriesExpire ==
  /\ ~calm /\ transportState = "RECONNECTION_REQUIRED"
  /\ transportState' = "NO_MORE_RETRIES"
  /\ device' = IF Registered THEN [device EXCEPT !.told = FALSE] ELSE device
  /\ UNCHANGED <<calm, connection, preferred>>

Working == transportState \notin {"NO_MORE_RETRIES", "RECONNECTION_REQUIRED", "BEING_DESTROYED"}

establish_amqp_connection ==
  /\ Working /\ Registered /\ connection = "none"
  /\ \/ /\ connection' = "CLOSED"
        /\ transportState' = IF transportState = "READY_FOR_RECONNECTION" THEN "RECONNECTING"
                             ELSE "CONNECTING"
     \/ ~calm /\ transportState' = "RECONNECTION_REQUIRED" /\ UNCHANGED connection
  /\ UNCHANGED <<calm, preferred, device>>

-----------------------------------------------------------------------------
(* The device's share of DoWork *)

AsFailed(d) == [d EXCEPT !.number_of_previous_failures =
                  IF @ < MaxFailures THEN @ + 1 ELSE MaxFailures]

\* The transport gives up a device that takes too long; only it sees the error.
WaitsForDevice(d) ==
  [done |-> {d}, failed |-> Faults({[d EXCEPT !.seen = "ERROR_AUTH"]})]

\* Stops a failed device, which starts again later, unless it failed too often.
RecoversDevice(d) ==
  LET counted == AsFailed(d)
      stopped == IF counted.number_of_previous_failures >= MaxFailures THEN {}
                 ELSE amqp_device_delayed_stop(counted) IN
    [done |-> stopped, failed |-> IF stopped = {} THEN {counted} ELSE {}]

\* Subscribes to methods, then sends what waits.
ServesDevice(d) ==
  LET s == IF d.subscribe_methods_needed THEN subscribe_methods(d) ELSE [done |-> {d}, failed |-> {}] IN
    [done |-> {[x EXCEPT !.number_of_previous_failures = 0] : x \in s.done},
     failed |-> {AsFailed(x) : x \in s.failed \cup Faults(s.done)}]

IoTHubTransport_AMQP_Common_Device_DoWork(d, elapsed) ==
  LET r == CASE d.seen = "STARTED" -> ServesDevice(d)
             [] d.seen = "STOPPED" -> [done |-> {amqp_device_start_async(d)}, failed |-> {}]
             [] d.seen \in {"STARTING", "STOPPING"} -> WaitsForDevice(d)
             [] OTHER -> RecoversDevice(d)
      worked(S) == UNION {amqp_device_do_work(x, elapsed) : x \in S} IN
    [done |-> worked(r.done), failed |-> worked(r.failed)]

\* IoTHubTransport_AMQP_Common_DoWork with an open connection; too many failures of the
\* device end it.
DeviceWorks(elapsed) ==
  /\ Working /\ Registered /\ connection = "OPENED"
  /\ IF device.number_of_send_event_complete_failures >= MaxFailures
     THEN transportState' = "RECONNECTION_REQUIRED" /\ UNCHANGED device
     ELSE LET r == IoTHubTransport_AMQP_Common_Device_DoWork(device, elapsed) IN
            \/ device' \in r.done /\ UNCHANGED transportState
            \/ /\ device' \in r.failed
               /\ transportState' = IF device'.number_of_previous_failures >= MaxFailures
                                    THEN "RECONNECTION_REQUIRED" ELSE transportState
  /\ UNCHANGED <<calm, connection, preferred>>

-----------------------------------------------------------------------------
(* uAMQP, called by amqp_connection_do_work, and the service *)

\* The application is not told when the peer closes the connection.
on_amqp_connection_state_changed ==
  /\ Working /\ connection # "none"
  /\ \/ /\ connection = "CLOSED" /\ connection' = "OPENED" /\ transportState' = "CONNECTED"
        /\ UNCHANGED device
     \/ /\ ~calm /\ connection' = "ERROR" /\ transportState' = "RECONNECTION_REQUIRED"
        /\ device' = IF Registered THEN [device EXCEPT !.told = FALSE] ELSE device
     \/ /\ ~calm /\ connection = "OPENED" /\ connection' = "CLOSED"
        /\ transportState' = "RECONNECTION_REQUIRED"
        /\ UNCHANGED device
  /\ UNCHANGED <<calm, preferred>>

Uamqp(new) ==
  /\ Working /\ Registered /\ connection = "OPENED" /\ device' \in new
  /\ UNCHANGED <<transportState, calm, connection, preferred>>

TokenAnswered ==
  /\ Registered /\ device.puts > 0
  /\ Uamqp({on_cbs_put_token_complete_callback(device, ok) : ok \in {TRUE} \cup Faults({FALSE})})
LinksOpen == Registered /\ Uamqp(MessengersChange(device))
MethodLinksClose ==
  Registered /\ ~calm /\ device.methods = "SUBSCRIBED" /\ Uamqp({on_methods_unsubscribed(device)})

\* on_event_send_complete, of an event the device had taken.
EventCompletes ==
  /\ Registered /\ device.msgr = "STARTED"
  /\ Uamqp({[device EXCEPT !.number_of_send_event_complete_failures =
               IF ok THEN 0 ELSE IF @ < MaxFailures THEN @ + 1 ELSE @] :
              ok \in {TRUE} \cup Faults({FALSE})})

Calms == ~calm /\ calm' = TRUE /\ UNCHANGED <<transportState, connection, preferred, device>>

-----------------------------------------------------------------------------

\* IoTHubTransport_AMQP_Common_Create
AmqpTransportInit ==
  /\ transportState = "NOT_CONNECTED" /\ calm = FALSE /\ connection = "none"
  /\ preferred = "NOT_SET" /\ device = NoDevice

AmqpTransportNext ==
  \/ IoTHubTransport_AMQP_Common_Register \/ IoTHubTransport_AMQP_Common_Unregister
  \/ IoTHubTransport_AMQP_Common_Subscribe_DeviceMethod
  \/ IoTHubTransport_AMQP_Common_Unsubscribe_DeviceMethod
  \/ IoTHubTransport_AMQP_Common_SetRetryPolicy \/ IoTHubTransport_AMQP_Common_Destroy
  \/ prepare_for_connection_retry \/ RetriesExpire \/ establish_amqp_connection
  \/ \E elapsed \in BOOLEAN : DeviceWorks(elapsed)
  \/ on_amqp_connection_state_changed \/ TokenAnswered \/ LinksOpen \/ MethodLinksClose
  \/ EventCompletes \/ Calms

\* The application keeps calling DoWork; time passes, so that a wait is over at some time;
\* uAMQP and the service answer; and a retry control that does not stop says now at some time.
AmqpTransportFairness ==
  /\ WF_transportVars(DeviceWorks(TRUE))
  /\ WF_transportVars(establish_amqp_connection)
  /\ WF_transportVars(prepare_for_connection_retry)
  /\ WF_transportVars(on_amqp_connection_state_changed)
  /\ WF_transportVars(TokenAnswered) /\ WF_transportVars(LinksOpen)

AmqpTransportSpec == AmqpTransportInit /\ [][AmqpTransportNext]_transportVars /\ AmqpTransportFairness

-----------------------------------------------------------------------------
(* Properties *)

\* Messengers attach their links only on a connection on which the service has accepted the
\* token of the device, unless authentication was once stopped while a token was on its way:
\* the late answer starts it again, and the next connection is taken as authorized.
LinksAuthorized ==
  Registered /\ ~device.late
    /\ (device.msgr \in {"STARTING", "STARTED"} \/ device.twin \in {"STARTING", "STARTED"})
    => device.authorized

\* The application knows that a device works: every reconnection ends with a status of its own.
StartedTold == Registered /\ transportState = "CONNECTED" /\ device.seen = "STARTED" => device.told

\* Once nothing fails any more a registered device is started, unless retries had expired.
DeviceRecovers ==
  calm ~> \/ ~Registered \/ device.state = "STARTED"
          \/ transportState \in {"NO_MORE_RETRIES", "BEING_DESTROYED"}

\* When nothing fails, subscribing again never costs the connection.
ResubscribeKeepsConnection ==
  [][calm /\ Registered /\ transportState = "CONNECTED" /\ device.seen = "STARTED"
     /\ device.number_of_send_event_complete_failures = 0
       => transportState' # "RECONNECTION_REQUIRED"]_transportVars

\* What the transport, the connection and the state machine of the device agree on.
TransportSound == LinksAuthorized /\ StartedTold
=============================================================================
