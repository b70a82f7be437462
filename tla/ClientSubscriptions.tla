------------------------- MODULE ClientSubscriptions -------------------------
(***************************************************************************)
(* What a client receives over MQTT: messages, inputs of a module, direct     *)
(* methods and the device twin.  iothub_client_core_ll.c keeps the callbacks    *)
(* of the application, iothubtransport_mqtt_common.c the topics and the memory  *)
(* of what was received until somebody ends it.                                 *)
(*                                                                         *)
(* Everything runs in one thread, inside DoWork or a call of the application;  *)
(* a callback may itself call the client.  Calls that are refused change        *)
(* nothing and are left out.                                                     *)
(***************************************************************************)
EXTENDS Naturals, Sequences, FiniteSets

CONSTANTS
  Inputs,        \* names of inputs
  DefaultInput,  \* the handler set with a NULL name
  MaxReceived    \* bound on what arrives

ASSUME SubscriptionsAssumption == MaxReceived \in Nat /\ DefaultInput \in Inputs

VARIABLES
  messageCallback, methodCallback,  \* CALLBACK_TYPE: "NONE", "SYNC" or "ASYNC"
  event_callbacks,                  \* the handler of each input that has one
  deviceTwinCallback,               \* is it set?
  complete_twin_update_encountered,
  subscribedTopics,                 \* topics with a name and a bit in topics_ToSubscribe
  inCallback,                       \* the received item whose callback runs, or 0
  received,                         \* what arrived: its kind, and who has it
  frees,                            \* how often each item was freed
  mishandled,                       \* items the code leaks or frees twice
  twinFirst                         \* the first twin update the application was told, or "NOTHING"

subVars == <<messageCallback, methodCallback, event_callbacks, deviceTwinCallback,
             complete_twin_update_encountered, subscribedTopics, inCallback, received, frees,
             mishandled, twinFirst>>
callbackVars == <<messageCallback, methodCallback, event_callbacks, deviceTwinCallback,
                  complete_twin_update_encountered, subscribedTopics>>
itemVars == <<inCallback, received, frees, mishandled>>

CallbackTypes == {"NONE", "SYNC", "ASYNC"}
Kinds == {"METHOD", "MESSAGE"} \cup Inputs
Owners == CallbackTypes \cup {"HELD", "ENDED"}

SubInit ==
  /\ messageCallback = "NONE" /\ methodCallback = "NONE" /\ event_callbacks = <<>>
  /\ deviceTwinCallback = FALSE /\ complete_twin_update_encountered = FALSE
  /\ subscribedTopics = {} /\ inCallback = 0
  /\ received = <<>> /\ frees = <<>> /\ mishandled = {} /\ twinFirst = "NOTHING"

-----------------------------------------------------------------------------
(* The transport: topics.  ok says whether the name of the topic could be built. *)

\* The name is built again at each call; a failure loses the old one.
IoTHubTransport_MQTT_Common_Subscribe(ok) ==
  subscribedTopics' = IF ok THEN subscribedTopics \cup {"MESSAGE"} ELSE subscribedTopics \ {"MESSAGE"}

\* The others are built once.
Subscribes(topic, ok) ==
  /\ ok \/ topic \notin subscribedTopics
  /\ subscribedTopics' = IF ok THEN subscribedTopics \cup {topic} ELSE subscribedTopics
IoTHubTransport_MQTT_Common_Subscribe_DeviceMethod(ok) == Subscribes("METHOD", ok)
IoTHubTransport_MQTT_Common_Subscribe_DeviceTwin(ok) == Subscribes("TWIN", ok)
IoTHubTransport_MQTT_Common_Subscribe_InputQueue(ok) == Subscribes("INPUTS", ok)

IoTHubTransport_MQTT_Common_Unsubscribe == subscribedTopics' = subscribedTopics \ {"MESSAGE"}
IoTHubTransport_MQTT_Common_Unsubscribe_DeviceMethod == subscribedTopics' = subscribedTopics \ {"METHOD"}
IoTHubTransport_MQTT_Common_Unsubscribe_DeviceTwin == subscribedTopics' = subscribedTopics \ {"TWIN"}

\* Called with the wrong handle by remove_event_unsubscribe_if_needed: what it reads there is
\* not a topic of this transport, so the topic stays (or goes, if the memory happens to look like it).
IoTHubTransport_MQTT_Common_Unsubscribe_InputQueue ==
  subscribedTopics' \in {subscribedTopics, subscribedTopics \ {"INPUTS"}}

-----------------------------------------------------------------------------
(* The application sets and clears its callbacks, also from inside a callback *)

\* Mutant: a refused subscription does not clear the callback.
SetsUnsubscribed(mine) ==
  /\ \/ /\ messageCallback = mine
        /\ IoTHubTransport_MQTT_Common_Unsubscribe /\ messageCallback' = "NONE"
     \/ /\ messageCallback \in {"NONE", mine}
        /\ \E ok \in BOOLEAN : IoTHubTransport_MQTT_Common_Subscribe(ok)
        /\ messageCallback' = mine
  /\ UNCHANGED <<methodCallback, event_callbacks, deviceTwinCallback, complete_twin_update_encountered,
                 itemVars, twinFirst>>

\* The two calls of a kind exclude each other until the callback is cleared.
SetsMessageCallback(mine) ==
  /\ \/ /\ messageCallback = mine
        /\ IoTHubTransport_MQTT_Common_Unsubscribe /\ messageCallback' = "NONE"
     \/ /\ messageCallback \in {"NONE", mine}
        /\ \E ok \in BOOLEAN : /\ IoTHubTransport_MQTT_Common_Subscribe(ok)
                               /\ messageCallback' = IF ok THEN mine ELSE "NONE"
  /\ UNCHANGED <<methodCallback, event_callbacks, deviceTwinCallback, complete_twin_update_encountered,
                 itemVars, twinFirst>>
IoTHubClientCore_LL_SetMessageCallback == SetsMessageCallback("SYNC")
IoTHubClientCore_LL_SetMessageCallback_Ex == SetsMessageCallback("ASYNC")

VerifyMethodCallbackType(desired, unsubscribing) ==
  methodCallback \in (IF unsubscribing THEN {desired} ELSE {"NONE", desired})
ResetMethodCallbackData == methodCallback' = "NONE"

SetsMethodCallback(mine) ==
  /\ \/ /\ VerifyMethodCallbackType(mine, TRUE)
        /\ IoTHubTransport_MQTT_Common_Unsubscribe_DeviceMethod /\ ResetMethodCallbackData
     \/ /\ VerifyMethodCallbackType(mine, FALSE)
        /\ \/ /\ IoTHubTransport_MQTT_Common_Subscribe_DeviceMethod(TRUE) /\ methodCallback' = mine
           \/ /\ IoTHubTransport_MQTT_Common_Subscribe_DeviceMethod(FALSE) /\ ResetMethodCallbackData
  /\ UNCHANGED <<messageCallback, event_callbacks, deviceTwinCallback, complete_twin_update_encountered,
                 itemVars, twinFirst>>
IoTHubClientCore_LL_SetDeviceMethodCallback == SetsMethodCallback("SYNC")
IoTHubClientCore_LL_SetDeviceMethodCallback_Ex == SetsMethodCallback("ASYNC")

\* A refused subscription keeps the callback that was set before.
IoTHubClientCore_LL_SetDeviceTwinCallback ==
  /\ \/ IoTHubTransport_MQTT_Common_Unsubscribe_DeviceTwin /\ deviceTwinCallback' = FALSE
     \/ \E ok \in BOOLEAN : /\ IoTHubTransport_MQTT_Common_Subscribe_DeviceTwin(ok)
                            /\ deviceTwinCallback' = (ok \/ deviceTwinCallback)
  /\ UNCHANGED <<messageCallback, methodCallback, event_callbacks, complete_twin_update_encountered,
                 itemVars, twinFirst>>

\* Sets the flag when the request is accepted; its answer goes to a callback of its own.
IoTHubClientCore_LL_GetTwinAsync ==
  /\ \/ /\ IoTHubTransport_MQTT_Common_Subscribe_DeviceTwin(FALSE)
        /\ UNCHANGED complete_twin_update_encountered
     \/ /\ IoTHubTransport_MQTT_Common_Subscribe_DeviceTwin(TRUE)
        /\ complete_twin_update_encountered' \in {TRUE, complete_twin_update_encountered}
  /\ UNCHANGED <<messageCallback, methodCallback, event_callbacks, deviceTwinCallback, itemVars, twinFirst>>

\* Also subscribes, and keeps nothing here when it fails.
IoTHubClientCore_LL_SendReportedState ==
  /\ \E ok \in BOOLEAN : IoTHubTransport_MQTT_Common_Subscribe_DeviceTwin(ok)
  /\ UNCHANGED <<messageCallback, methodCallback, event_callbacks, deviceTwinCallback,
                 complete_twin_update_encountered, itemVars, twinFirst>>

-----------------------------------------------------------------------------
(* Handlers of inputs *)

is_event_equal(n, input) == n = input
Found(input) == {n \in DOMAIN event_callbacks : is_event_equal(n, input)}
\* An entry whose memory was freed while it is in the list: what happens next is undefined.
EntriesLive == \A n \in DOMAIN event_callbacks : event_callbacks[n] # "FREED"

delete_event(n) == [event_callbacks EXCEPT ![n] = "FREED"]
delete_event_callback_list == event_callbacks' = <<>>
WithHandler(n, type) == [i \in DOMAIN event_callbacks \cup {n} |-> IF i = n THEN type ELSE event_callbacks[i]]
Without(n) == [i \in DOMAIN event_callbacks \ {n} |-> event_callbacks[i]]

\* added: the handler is in the list.  Memory for the context of an asynchronous handler may be
\* missing: a new entry is then dropped, an old one freed where it is.
create_event_handler_callback(n, type, added) ==
  \/ added /\ event_callbacks' = WithHandler(n, type)
  \/ ~added /\ Found(n) = {} /\ UNCHANGED event_callbacks
  \/ ~added /\ Found(n) # {} /\ type = "ASYNC" /\ event_callbacks' = delete_event(n)

remove_event_unsubscribe_if_needed(n) ==
  /\ Found(n) # {}
  /\ event_callbacks' = Without(n)
  /\ IF Cardinality(DOMAIN event_callbacks) = 1
     THEN IoTHubTransport_MQTT_Common_Unsubscribe_InputQueue
     ELSE UNCHANGED subscribedTopics

\* The topic is subscribed with the first handler, and all handlers go if that fails.
IoTHubClientCore_LL_SetInputMessageCallbackImpl(n, type) ==
  /\ EntriesLive
  /\ \/ remove_event_unsubscribe_if_needed(n)
     \/ create_event_handler_callback(n, type, FALSE) /\ UNCHANGED subscribedTopics
     \/ /\ DOMAIN event_callbacks # {}
        /\ create_event_handler_callback(n, type, TRUE) /\ UNCHANGED subscribedTopics
     \/ /\ DOMAIN event_callbacks = {}
        /\ \/ create_event_handler_callback(n, type, TRUE) /\ IoTHubTransport_MQTT_Common_Subscribe_InputQueue(TRUE)
           \/ delete_event_callback_list /\ IoTHubTransport_MQTT_Common_Subscribe_InputQueue(FALSE)
  /\ UNCHANGED <<messageCallback, methodCallback, deviceTwinCallback, complete_twin_update_encountered,
                 itemVars, twinFirst>>
IoTHubClientCore_LL_SetInputMessageCallback(n) == IoTHubClientCore_LL_SetInputMessageCallbackImpl(n, "SYNC")
IoTHubClientCore_LL_SetInputMessageCallbackEx(n) == IoTHubClientCore_LL_SetInputMessageCallbackImpl(n, "ASYNC")

-----------------------------------------------------------------------------
(* Something arrives.  at: the callback that runs for it, "HELD" by the application, "ENDED" *)

Arrives(kind, at, freed, lost) ==
  /\ inCallback = 0 /\ Len(received) < MaxReceived
  /\ received' = Append(received, [kind |-> kind, at |-> at])
  /\ frees' = Append(frees, freed)
  /\ mishandled' = IF lost THEN mishandled \cup {Len(received) + 1} ELSE mishandled
  /\ inCallback' = IF at \in {"SYNC", "ASYNC"} THEN Len(received) + 1 ELSE 0

\* Without a callback the answer is 0, "taken": nobody frees the request.
IoTHubClientCore_LL_DeviceMethodComplete ==
  IF methodCallback = "NONE" THEN Arrives("METHOD", "ENDED", 0, TRUE)
                             ELSE Arrives("METHOD", methodCallback, 0, FALSE)

\* A topic without a request id, or no memory: the request is freed and not heard of.
retrievDeviceMethodRidInfo == Arrives("METHOD", "ENDED", 1, FALSE)
processDeviceMethodNotification == retrievDeviceMethodRidInfo \/ IoTHubClientCore_LL_DeviceMethodComplete

\* Without a callback the answer is false, "not taken", and the transport frees the message.
Delivered(kind, type) == Arrives(kind, IF type = "NONE" THEN "ENDED" ELSE type, IF type = "NONE" THEN 1 ELSE 0, FALSE)
invoke_message_callback == Delivered("MESSAGE", messageCallback)

\* The handler of the input, or else the default handler.
HandlerOf(input) ==
  IF Found(input) # {} THEN event_callbacks[input]
  ELSE IF Found(DefaultInput) # {} THEN event_callbacks[DefaultInput] ELSE "NONE"
IoTHubClientCore_LL_MessageCallbackFromInput(input) == EntriesLive /\ Delivered(input, HandlerOf(input))

\* Properties or an input name that cannot be read from the topic: the message stays allocated.
addInputNamePropertyToMsg(input) == Arrives(input, "ENDED", 0, TRUE)
processIncomingMessageNotification(kind) ==
  \/ addInputNamePropertyToMsg(kind)
  \/ kind = "MESSAGE" /\ invoke_message_callback
  \/ kind \in Inputs /\ IoTHubClientCore_LL_MessageCallbackFromInput(kind)

\* The topic decides.  A message for an input is a message when inputs are not subscribed.
retrieveTopicType(kind) == IF kind \in Inputs /\ "INPUTS" \notin subscribedTopics THEN "MESSAGE" ELSE kind
mqttNotificationCallback(kind) ==
  /\ IF retrieveTopicType(kind) = "METHOD" THEN processDeviceMethodNotification
     ELSE processIncomingMessageNotification(retrieveTopicType(kind))
  /\ UNCHANGED <<callbackVars, twinFirst>>

\* Tells the application, a partial update only after the flag was set.
IoTHubClientCore_LL_RetrievePropertyComplete(state) ==
  LET encountered == complete_twin_update_encountered \/ (deviceTwinCallback /\ state = "COMPLETE") IN
  /\ complete_twin_update_encountered' = encountered
  /\ twinFirst' = IF twinFirst = "NOTHING" /\ deviceTwinCallback /\ encountered THEN state ELSE twinFirst

TwinUpdateArrives ==
  /\ inCallback = 0 /\ "TWIN" \in subscribedTopics
  /\ \E state \in {"COMPLETE", "PARTIAL"} : IoTHubClientCore_LL_RetrievePropertyComplete(state)
  /\ UNCHANGED <<messageCallback, methodCallback, event_callbacks, deviceTwinCallback, subscribedTopics, itemVars>>

-----------------------------------------------------------------------------
(* What was received ends *)

Answerable(i) == received[i].at \in {"ASYNC", "HELD"} /\ frees[i] = 0
Frees(i, n) == frees' = [frees EXCEPT ![i] = @ + n]
\* The callback that runs returns; the item is then where.
Leaves(where) == inCallback' = 0 /\ received' = [received EXCEPT ![inCallback].at = where]

\* Published or not, the request is freed.
IoTHubTransport_MQTT_Common_DeviceMethod_Response(i) == Frees(i, 1)
IoTHubTransport_MQTT_Common_SendMessageDisposition(i) == Frees(i, 1)

\* An asynchronous callback took the item; the application answers once, inside the callback or later.
AnswersMessage(i) ==
  /\ Answerable(i)
  /\ received' = IF received[i].at = "HELD" THEN [received EXCEPT ![i].at = "ENDED"] ELSE received
  /\ UNCHANGED <<callbackVars, inCallback, mishandled, twinFirst>>
IoTHubClientCore_LL_DeviceMethodResponse(i) ==
  received[i].kind = "METHOD" /\ IoTHubTransport_MQTT_Common_DeviceMethod_Response(i) /\ AnswersMessage(i)
IoTHubClientCore_LL_SendMessageDisposition(i) ==
  received[i].kind # "METHOD" /\ IoTHubTransport_MQTT_Common_SendMessageDisposition(i) /\ AnswersMessage(i)

\* A synchronous method: without a response the caller frees the request; with one, the response
\* frees it, and the caller again if it could not be published.
SyncMethodReturns ==
  /\ received[inCallback] = [kind |-> "METHOD", at |-> "SYNC"]
  /\ \E response, published \in BOOLEAN :
       /\ published => response
       /\ Frees(inCallback, (IF response THEN 1 ELSE 0) + (IF published THEN 0 ELSE 1))
       /\ mishandled' = IF response /\ ~published THEN mishandled \cup {inCallback} ELSE mishandled
  /\ Leaves("ENDED")

\* A synchronous message: its disposition is what the callback returns.
SyncMessageReturns ==
  /\ received[inCallback].kind # "METHOD" /\ received[inCallback].at = "SYNC"
  /\ IoTHubTransport_MQTT_Common_SendMessageDisposition(inCallback)
  /\ Leaves("ENDED") /\ UNCHANGED mishandled

\* Mutant: the transport frees what the callback took.
ReturnsFreeing ==
  /\ received[inCallback].at = "ASYNC"
  /\ \E taken \in BOOLEAN :
       /\ frees[inCallback] > 0 => taken
       /\ Frees(inCallback, 1)
       /\ Leaves(IF taken /\ frees[inCallback] = 0 THEN "HELD" ELSE "ENDED")
  /\ UNCHANGED mishandled

\* An asynchronous callback returns whether it took the item; if it did not, the transport frees
\* it.  One that has already answered says it did.
AsyncReturns ==
  /\ received[inCallback].at = "ASYNC"
  /\ \E taken \in BOOLEAN :
       /\ frees[inCallback] > 0 => taken
       /\ Frees(inCallback, IF taken THEN 0 ELSE 1)
       /\ Leaves(IF taken /\ frees[inCallback] = 0 THEN "HELD" ELSE "ENDED")
  /\ UNCHANGED mishandled

CallbackReturns ==
  /\ inCallback # 0
  /\ SyncMethodReturns \/ SyncMessageReturns \/ AsyncReturns
  /\ UNCHANGED <<callbackVars, twinFirst>>

SubNext ==
  \/ IoTHubClientCore_LL_SetMessageCallback \/ IoTHubClientCore_LL_SetMessageCallback_Ex
  \/ IoTHubClientCore_LL_SetDeviceMethodCallback \/ IoTHubClientCore_LL_SetDeviceMethodCallback_Ex
  \/ IoTHubClientCore_LL_SetDeviceTwinCallback \/ IoTHubClientCore_LL_GetTwinAsync
  \/ IoTHubClientCore_LL_SendReportedState
  \/ \E n \in Inputs : \/ IoTHubClientCore_LL_SetInputMessageCallback(n)
                       \/ IoTHubClientCore_LL_SetInputMessageCallbackEx(n)
  \/ \E kind \in Kinds : mqttNotificationCallback(kind)
  \/ TwinUpdateArrives
  \/ \E i \in DOMAIN received : \/ IoTHubClientCore_LL_DeviceMethodResponse(i)
                                \/ IoTHubClientCore_LL_SendMessageDisposition(i)
  \/ CallbackReturns

SubSpec == SubInit /\ [][SubNext]_subVars

-----------------------------------------------------------------------------
(* Properties *)

\* Who sets a callback is subscribed: whatever fails or is set again, the client never has a
\* callback for something the transport does not ask the service for (unless a handler of an
\* input was freed in its list).
CallbacksSubscribed ==
  /\ messageCallback # "NONE" => "MESSAGE" \in subscribedTopics
  /\ methodCallback # "NONE" => "METHOD" \in subscribedTopics
  /\ deviceTwinCallback => "TWIN" \in subscribedTopics
  /\ DOMAIN event_callbacks # {} => "INPUTS" \in subscribedTopics

\* A message or method request is freed exactly once, when it ends, whichever of the application,
\* the client and the transport ends it, and never while the application still may answer it; but
\* for those the code mishandles: a method nobody listens to any more and a message with a topic
\* that cannot be read are leaked, a synchronous response that is not published frees twice.
FreedWhenEnded ==
  \A i \in DOMAIN received \ mishandled :
    IF received[i].at = "ENDED" THEN frees[i] = 1
    ELSE frees[i] = 0 \/ (received[i].at = "ASYNC" /\ frees[i] = 1)

\* The first update of the twin a callback hears is a complete one.
CompleteFirst == twinFirst # "PARTIAL"

\* Callbacks are set where the service sends, and what arrives is freed once.
SubscriptionsSound == CallbacksSubscribed /\ FreedWhenEnded
=============================================================================
