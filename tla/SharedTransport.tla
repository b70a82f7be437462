--------------------------- MODULE SharedTransport ---------------------------
(***************************************************************************)
(* Creating and destroying clients, iothub_client_core_ll.c, with a transport *)
(* of their own or on one they share, and whom the shared transport calls back. *)
(*                                                                         *)
(* initialize_iothub_client acquires resources one by one; when a step fails,   *)
(* the branch of that step releases what the earlier ones acquired.  Before it   *)
(* is certain that the client can be created, the transport it is to share is     *)
(* told to call it back.                                                           *)
(***************************************************************************)
EXTENDS Naturals, Sequences, FiniteSets, SequencesExt

CONSTANTS SharedClients   \* clients the application may create, once each

VARIABLES
  protocol,     \* of the shared transport: "MQTT" or "AMQP"
  stage,        \* where each client is: "no", a step of its creation, "made", "ended", "refused"
  isShared,     \* clients on the shared transport
  owned,        \* the resources of each client that are not released
  transport_ctx,\* the client the shared transport calls back
  registered_devices, \* clients registered at the shared transport
  deviceCtx,    \* AMQP: the client each registered device calls back
  twinSubscribed,     \* devices that receive updates of their twin
  requestContexts,    \* reports and requests for twins on their way: whose, and who is called back
  heldMessages,       \* devices with a message given to their client and not answered
  unfreed,            \* devices whose message was answered without being freed
  tellings      \* the calls of the last step: what, about whose device, to which client

sharedVars == <<protocol, stage, isShared, owned, transport_ctx, registered_devices, deviceCtx,
                twinSubscribed, requestContexts, heldMessages, unfreed, tellings>>
\* What nothing but the traffic of a device changes.
traffic == <<requestContexts, heldMessages, unfreed>>

Made == {c \in SharedClients : stage[c] = "made"}
\* No creation is under way: the calls of the client and of the transport exclude each other.
Quiet == \A c \in SharedClients : stage[c] \in {"no", "made", "ended", "refused"}

SharedInit ==
  /\ protocol \in {"MQTT", "AMQP"}
  /\ stage = [c \in SharedClients |-> "no"] /\ isShared = {}
  /\ owned = [c \in SharedClients |-> {}]
  /\ transport_ctx = "none" /\ registered_devices = {}
  /\ deviceCtx = [c \in SharedClients |-> "none"]
  /\ twinSubscribed = {} /\ requestContexts = {} /\ heldMessages = {} /\ unfreed = {} /\ tellings = {}

-----------------------------------------------------------------------------
(* Creation *)

\* The steps of initialize_iothub_client, in order, and the resource each acquires.
Steps == <<"auth", "transport", "blob", "edge", "ticks", "platform", "product_info", "device", "retry">>
Acquires(step) == CASE step \in {"platform", "retry"} -> {}
                    [] OTHER -> {step}

AlwaysReleased == {"auth", "memory"}
\* Mutant: the branch of a refused registration forgets the clock.
ReleasesNoTicks(step) ==
  IF step = "device" THEN AlwaysReleased \cup {"transport", "blob", "edge", "product_info"}
  ELSE AlwaysReleased \cup {"transport", "blob", "edge", "ticks", "product_info", "device"}

\* What the branch of a step that fails releases.
ReleasesOf(step) ==
  CASE step = "auth" -> {"memory"}
    [] step = "transport" -> AlwaysReleased
    [] step = "blob" -> AlwaysReleased \cup {"transport"}
    [] step = "edge" -> AlwaysReleased \cup {"transport", "blob"}
    [] step = "ticks" -> AlwaysReleased \cup {"transport", "blob", "edge"}
    [] step \in {"platform", "product_info"} -> AlwaysReleased \cup {"transport", "blob", "edge", "ticks"}
    [] step = "device" -> AlwaysReleased \cup {"transport", "blob", "edge", "ticks", "product_info"}
    [] step = "retry" -> AlwaysReleased \cup {"transport", "blob", "edge", "ticks", "product_info", "device"}

Begins(c) ==
  /\ Quiet /\ stage[c] = "no"
  /\ stage' = [stage EXCEPT ![c] = "auth"]
  /\ owned' = [owned EXCEPT ![c] = {"memory"}]
  /\ tellings' = {}
  /\ UNCHANGED <<protocol, transport_ctx, registered_devices, deviceCtx, twinSubscribed, traffic>>

\* A transport of its own; also from a connection string, the environment or a provisioned device.
IoTHubClientCore_LL_CreateImpl(c) == Begins(c) /\ UNCHANGED isShared
IoTHubClientCore_LL_CreateWithTransport(c) == Begins(c) /\ isShared' = isShared \cup {c}

SetCallbackContext(c) == transport_ctx' = c

\* Mutant: a device keeps no context of its own, but that of the client created last.
DeviceCtxOfTransport(c) == transport_ctx

\* The client that a message, method request or confirmation of device c calls back.
DeviceCtx(c) == IF protocol = "MQTT" THEN transport_ctx ELSE deviceCtx[c]

\* MQTT: one device, the one the transport was made for.  AMQP: any device that is not registered.
IoTHubTransport_MQTT_Common_Register(c) ==
  registered_devices = {} /\ registered_devices' = {c} /\ UNCHANGED deviceCtx
IoTHubTransport_AMQP_Common_Register(c) ==
  /\ c \notin registered_devices
  /\ registered_devices' = registered_devices \cup {c}
  /\ deviceCtx' = [deviceCtx EXCEPT ![c] = transport_ctx]
Registers(c) == IF protocol = "MQTT" THEN IoTHubTransport_MQTT_Common_Register(c)
                ELSE IoTHubTransport_AMQP_Common_Register(c)
Unregisters(c) == registered_devices' = registered_devices \ {c} /\ UNCHANGED deviceCtx

NextStep(step) == IF step = "retry" THEN "made" ELSE Steps[CHOOSE i \in 2..Len(Steps) : Steps[i - 1] = step]

\* A shared transport is not destroyed with a client that could not be created.
StepFails(c) ==
  /\ owned' = [owned EXCEPT ![c] = @ \ ReleasesOf(stage[c])]
  /\ stage' = [stage EXCEPT ![c] = "refused"]
  /\ IF c \in isShared /\ stage[c] = "retry" THEN Unregisters(c) ELSE UNCHANGED <<registered_devices, deviceCtx>>

StepSucceeds(c) ==
  /\ owned' = [owned EXCEPT ![c] = @ \cup (IF c \in isShared /\ stage[c] = "transport" THEN {} ELSE Acquires(stage[c]))]
  /\ stage' = [stage EXCEPT ![c] = NextStep(@)]
  /\ IF c \in isShared /\ stage[c] = "device" THEN Registers(c) ELSE UNCHANGED <<registered_devices, deviceCtx>>

\* One step, which may fail, also later steps of the same call.
initialize_iothub_client(c) ==
  /\ stage[c] \in Range(Steps)
  /\ StepSucceeds(c) \/ StepFails(c)
  /\ IF c \in isShared /\ stage[c] = "transport"
     THEN \/ SetCallbackContext(c)
          \/ stage'[c] = "refused" /\ UNCHANGED transport_ctx
     ELSE UNCHANGED transport_ctx
  /\ UNCHANGED <<protocol, isShared, twinSubscribed, traffic, tellings>>

-----------------------------------------------------------------------------
(* The end of a client *)

\* The reports of a device that ends are called back as they are, and so are the requests for its
\* twin that were not sent yet.
IoTHubTransport_AMQP_Common_Unregister(c) ==
  /\ Unregisters(c)
  /\ twinSubscribed' = twinSubscribed \ {c}
  /\ requestContexts' = {r \in requestContexts : r.of # c}
  /\ \E unsent \in BOOLEAN :
       tellings' = {[what |-> r.what, of |-> c, to |-> r.ctx] :
                      r \in {q \in requestContexts : q.of = c /\ (q.what = "got" => unsent)}}
  /\ UNCHANGED <<heldMessages, unfreed>>

IoTHubClientCore_LL_Destroy(c) ==
  /\ Quiet /\ stage[c] = "made"
  /\ stage' = [stage EXCEPT ![c] = "ended"]
  /\ owned' = [owned EXCEPT ![c] = {}]
  /\ IF c \in isShared THEN IoTHubTransport_AMQP_Common_Unregister(c)
     ELSE UNCHANGED <<registered_devices, deviceCtx, twinSubscribed, traffic>> /\ tellings' = {}
  /\ UNCHANGED <<protocol, isShared, transport_ctx>>

-----------------------------------------------------------------------------
(* The shared transport at work: c is the client of a registered device *)

Working(c) == Quiet /\ c \in registered_devices
KeepsClients == UNCHANGED <<protocol, stage, isShared, owned, transport_ctx, registered_devices, deviceCtx>>
Tells(what, c, to) ==
  /\ tellings' = {[what |-> what, of |-> c, to |-> to]} /\ KeepsClients

\* The message is released at once, and freed, when it cannot be described or the client refuses it.
on_message_received(c) ==
  /\ Working(c) /\ c \notin heldMessages
  /\ Tells("message", c, DeviceCtx(c))
  /\ heldMessages' \in {heldMessages, heldMessages \cup {c}}
  /\ UNCHANGED <<twinSubscribed, requestContexts, unfreed>>
\* Over AMQP a message whose disposition cannot be sent is not freed, but forgotten.
SendMessageDisposition(c) ==
  /\ Working(c) /\ c \in heldMessages
  /\ heldMessages' = heldMessages \ {c}
  /\ unfreed' \in {unfreed, IF protocol = "AMQP" THEN unfreed \cup {c} ELSE unfreed}
  /\ tellings' = {} /\ KeepsClients /\ UNCHANGED <<twinSubscribed, requestContexts>>
on_method_request_received(c) == Working(c) /\ Tells("method", c, DeviceCtx(c)) /\ UNCHANGED <<twinSubscribed, traffic>>
on_event_send_complete(c) == Working(c) /\ Tells("sent", c, DeviceCtx(c)) /\ UNCHANGED <<twinSubscribed, traffic>>

\* Twins: with AMQP only while a single device is registered.
OneDevice(c) == Working(c) /\ (protocol = "AMQP" => Cardinality(registered_devices) = 1)
IoTHubTransport_AMQP_Common_Subscribe_DeviceTwin(c) ==
  /\ OneDevice(c) /\ twinSubscribed' = twinSubscribed \cup {c}
  /\ tellings' = {} /\ KeepsClients /\ UNCHANGED traffic
IoTHubTransport_AMQP_Common_Unsubscribe_DeviceTwin(c) ==
  /\ OneDevice(c) /\ twinSubscribed' = twinSubscribed \ {c}
  /\ tellings' = {} /\ KeepsClients /\ UNCHANGED traffic

\* The callback is that of the transport at this moment, not that of the device.
on_device_twin_update_received_callback(c) ==
  Working(c) /\ c \in twinSubscribed /\ Tells("twin", c, transport_ctx) /\ UNCHANGED <<twinSubscribed, traffic>>
Requests(c, what, ctx) ==
  /\ requestContexts' = requestContexts \cup {[of |-> c, ctx |-> ctx, what |-> what]}
  /\ tellings' = {} /\ KeepsClients /\ UNCHANGED <<twinSubscribed, heldMessages, unfreed>>
IoTHubTransport_AMQP_Common_ProcessItem(c) == Working(c) /\ c \in twinSubscribed /\ Requests(c, "report", transport_ctx)
\* The caller passes the callback and its context.
IoTHubTransport_AMQP_Common_GetTwinAsync(c) == OneDevice(c) /\ Requests(c, "got", c)
Completes(c, what) ==
  /\ Working(c)
  /\ \E r \in {q \in requestContexts : q.of = c /\ q.what = what} :
       Tells(what, c, r.ctx) /\ requestContexts' = requestContexts \ {r}
  /\ UNCHANGED <<twinSubscribed, heldMessages, unfreed>>
on_device_send_twin_update_complete_callback(c) == Completes(c, "report")
on_device_get_twin_completed_callback(c) == Completes(c, "got")

\* The error of the connection is told to one client.
on_amqp_connection_error(c) ==
  Working(c) /\ Tells("no network", c, transport_ctx) /\ UNCHANGED <<twinSubscribed, traffic>>

SharedNext ==
  \E c \in SharedClients :
    \/ IoTHubClientCore_LL_CreateImpl(c) \/ IoTHubClientCore_LL_CreateWithTransport(c)
    \/ initialize_iothub_client(c) \/ IoTHubClientCore_LL_Destroy(c)
    \/ on_message_received(c) \/ SendMessageDisposition(c)
    \/ on_method_request_received(c) \/ on_event_send_complete(c)
    \/ IoTHubTransport_AMQP_Common_Subscribe_DeviceTwin(c) \/ IoTHubTransport_AMQP_Common_Unsubscribe_DeviceTwin(c)
    \/ on_device_twin_update_received_callback(c) \/ IoTHubTransport_AMQP_Common_ProcessItem(c)
    \/ IoTHubTransport_AMQP_Common_GetTwinAsync(c) \/ on_device_get_twin_completed_callback(c)
    \/ on_device_send_twin_update_complete_callback(c) \/ on_amqp_connection_error(c)

SharedSpec == SharedInit /\ [][SharedNext]_sharedVars

-----------------------------------------------------------------------------
(* Properties *)

\* A client that could not be created, whichever step failed, and one that was destroyed leave
\* nothing behind, and one that was created has everything.
NothingLeaks ==
  \A c \in SharedClients :
    /\ stage[c] \in {"refused", "ended"} => owned[c] = {} /\ c \notin registered_devices
    /\ stage[c] = "made" => owned[c] = {"memory", "auth", "blob", "edge", "ticks", "product_info", "device"}
                                         \cup (IF c \in isShared THEN {} ELSE {"transport"})

\* Over AMQP, the messages, method requests, confirmations and requested twins of a device reach the client that
\* owns it, in whatever order clients come, fail to come and go.
DevicesReachOwner ==
  protocol = "AMQP" => \A t \in tellings : t.what \in {"message", "method", "sent", "got"} => t.to = t.of

\* An update of a twin goes to the client whose twin it is.
TwinsReachOwner == \A t \in tellings : t.what = "twin" => t.to = t.of

\* Clients that share a transport leave nothing behind and do not get what is another's.
SharedSound == NothingLeaks /\ DevicesReachOwner
=============================================================================
