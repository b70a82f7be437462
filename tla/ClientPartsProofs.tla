-------------------------- MODULE ClientPartsProofs --------------------------
(***************************************************************************)
(* Proofs about the parts of a client that work on their own: what it        *)
(* receives (ClientSubscriptions), the transport it shares                    *)
(* (SharedTransport), the HTTP transport (HttpTransport), uploads              *)
(* (UploadToBlob), what a client is made of, options, and the properties of       *)
(* messages in topics, for any clients, inputs, sizes and bounds.                 *)
(***************************************************************************)
EXTENDS ClientSubscriptions, SharedTransport, HttpTransport, UploadToBlob,
        ClientConfig, ClientOptions, MqttProperties, SequenceFacts, FiniteSetTheorems

-----------------------------------------------------------------------------
(* What a client receives *)

CallbacksOK ==
  /\ messageCallback \in CallbackTypes /\ methodCallback \in CallbackTypes
  /\ deviceTwinCallback \in BOOLEAN
  /\ \A n \in DOMAIN event_callbacks : event_callbacks[n] \in {"SYNC", "ASYNC", "FREED"}
  /\ IsFiniteSet(DOMAIN event_callbacks)

ItemsOK ==
  /\ received \in Seq([kind : Kinds, at : Owners])
  /\ frees \in Seq(Nat) /\ Len(frees) = Len(received)
  /\ inCallback \in 0..Len(received)

\* What the code reads of a callback or of an item was written by it: with that, both claims of
\* SubscriptionsSound are inductive.
SubInv == CallbacksOK /\ ItemsOK /\ CallbacksSubscribed /\ FreedWhenEnded

SubSettings ==
  \/ IoTHubClientCore_LL_SetMessageCallback \/ IoTHubClientCore_LL_SetMessageCallback_Ex
  \/ IoTHubClientCore_LL_SetDeviceMethodCallback \/ IoTHubClientCore_LL_SetDeviceMethodCallback_Ex
  \/ IoTHubClientCore_LL_SetDeviceTwinCallback \/ IoTHubClientCore_LL_GetTwinAsync
  \/ IoTHubClientCore_LL_SendReportedState

\* Setting, clearing and using a callback of messages, methods or the twin keeps the callback and
\* its topic together.
LEMMA SettingsSubscribed ==
  ASSUME CallbacksOK, CallbacksSubscribed, SubSettings
  PROVE  CallbacksOK' /\ CallbacksSubscribed' /\ UNCHANGED itemVars
<1> USE DEF CallbacksOK, CallbacksSubscribed, CallbackTypes
<1>1. ASSUME NEW mine \in {"SYNC", "ASYNC"}, SetsMessageCallback(mine)
      PROVE  CallbacksOK' /\ CallbacksSubscribed' /\ UNCHANGED itemVars
  BY <1>1 DEF SetsMessageCallback, IoTHubTransport_MQTT_Common_Subscribe, IoTHubTransport_MQTT_Common_Unsubscribe
<1>2. ASSUME NEW mine \in {"SYNC", "ASYNC"}, SetsMethodCallback(mine)
      PROVE  CallbacksOK' /\ CallbacksSubscribed' /\ UNCHANGED itemVars
  BY <1>2 DEF SetsMethodCallback, VerifyMethodCallbackType, ResetMethodCallbackData, Subscribes,
              IoTHubTransport_MQTT_Common_Subscribe_DeviceMethod, IoTHubTransport_MQTT_Common_Unsubscribe_DeviceMethod
<1>3. CASE IoTHubClientCore_LL_SetDeviceTwinCallback
  BY <1>3 DEF IoTHubClientCore_LL_SetDeviceTwinCallback, Subscribes,
              IoTHubTransport_MQTT_Common_Subscribe_DeviceTwin, IoTHubTransport_MQTT_Common_Unsubscribe_DeviceTwin
<1>4. CASE IoTHubClientCore_LL_GetTwinAsync
  BY <1>4 DEF IoTHubClientCore_LL_GetTwinAsync, Subscribes, IoTHubTransport_MQTT_Common_Subscribe_DeviceTwin
<1>5. CASE IoTHubClientCore_LL_SendReportedState
  BY <1>5 DEF IoTHubClientCore_LL_SendReportedState, Subscribes, IoTHubTransport_MQTT_Common_Subscribe_DeviceTwin
<1> QED
  BY <1>1, <1>2, <1>3, <1>4, <1>5
     DEF SubSettings, IoTHubClientCore_LL_SetMessageCallback, IoTHubClientCore_LL_SetMessageCallback_Ex,
         IoTHubClientCore_LL_SetDeviceMethodCallback, IoTHubClientCore_LL_SetDeviceMethodCallback_Ex

\* The topic of inputs goes only with the last handler, and a list of handlers that could not be
\* subscribed goes as a whole.
LEMMA InputsSubscribed ==
  ASSUME CallbacksOK, CallbacksSubscribed, NEW n, NEW type \in {"SYNC", "ASYNC"},
         IoTHubClientCore_LL_SetInputMessageCallbackImpl(n, type)
  PROVE  CallbacksOK' /\ CallbacksSubscribed' /\ UNCHANGED itemVars
<1>1. IsFiniteSet(DOMAIN event_callbacks) /\ IsFiniteSet(DOMAIN event_callbacks \cup {n})
      /\ IsFiniteSet(DOMAIN event_callbacks \ {n}) /\ IsFiniteSet({})
  BY FS_AddElement, FS_RemoveElement, FS_EmptySet DEF CallbacksOK
<1>2. /\ UNCHANGED itemVars
      /\ UNCHANGED <<messageCallback, methodCallback, deviceTwinCallback>>
  BY DEF IoTHubClientCore_LL_SetInputMessageCallbackImpl
<1>3. CASE remove_event_unsubscribe_if_needed(n)
  <2>1. n \in DOMAIN event_callbacks /\ event_callbacks' = [i \in DOMAIN event_callbacks \ {n} |-> event_callbacks[i]]
    BY <1>3 DEF remove_event_unsubscribe_if_needed, Found, is_event_equal, Without
  <2>2. Cardinality(DOMAIN event_callbacks) = 1 => DOMAIN event_callbacks \ {n} = {}
    <3>1. Cardinality(DOMAIN event_callbacks \ {n}) = Cardinality(DOMAIN event_callbacks) - 1
      BY <1>1, <2>1, FS_RemoveElement
    <3> QED
      BY <3>1, <1>1, FS_EmptySet
  <2>3. /\ subscribedTopics' \in {subscribedTopics, subscribedTopics \ {"INPUTS"}}
        /\ subscribedTopics' # subscribedTopics => Cardinality(DOMAIN event_callbacks) = 1
    BY <1>3 DEF remove_event_unsubscribe_if_needed, IoTHubTransport_MQTT_Common_Unsubscribe_InputQueue
  <2> QED
    BY <1>1, <1>2, <2>1, <2>2, <2>3 DEF CallbacksOK, CallbacksSubscribed
<1>4. ASSUME NEW added \in BOOLEAN, create_event_handler_callback(n, type, added)
      PROVE  /\ \A m \in DOMAIN event_callbacks' : event_callbacks'[m] \in {"SYNC", "ASYNC", "FREED"}
             /\ IsFiniteSet(DOMAIN event_callbacks')
             /\ ~added => DOMAIN event_callbacks' = DOMAIN event_callbacks
  BY <1>1, <1>4 DEF create_event_handler_callback, WithHandler, delete_event, CallbacksOK
<1>5. CASE create_event_handler_callback(n, type, FALSE) /\ UNCHANGED subscribedTopics
  BY <1>2, <1>4, <1>5 DEF CallbacksOK, CallbacksSubscribed
<1>6. CASE /\ DOMAIN event_callbacks # {}
           /\ create_event_handler_callback(n, type, TRUE) /\ UNCHANGED subscribedTopics
  BY <1>2, <1>4, <1>6 DEF CallbacksOK, CallbacksSubscribed
<1>7. CASE create_event_handler_callback(n, type, TRUE) /\ IoTHubTransport_MQTT_Common_Subscribe_InputQueue(TRUE)
  BY <1>2, <1>4, <1>7 DEF CallbacksOK, CallbacksSubscribed, IoTHubTransport_MQTT_Common_Subscribe_InputQueue, Subscribes
<1>8. CASE delete_event_callback_list /\ IoTHubTransport_MQTT_Common_Subscribe_InputQueue(FALSE)
  BY <1>1, <1>2, <1>8
     DEF CallbacksOK, CallbacksSubscribed, IoTHubTransport_MQTT_Common_Subscribe_InputQueue, Subscribes, delete_event_callback_list
<1> QED
  BY <1>3, <1>5, <1>6, <1>7, <1>8 DEF IoTHubClientCore_LL_SetInputMessageCallbackImpl

\* What arrives has one owner, which frees it, unless the code leaks it.
LEMMA ArrivesFreed ==
  ASSUME ItemsOK, FreedWhenEnded, NEW kind \in Kinds, NEW at \in Owners, NEW freed \in {0, 1},
         received' = Append(received, [kind |-> kind, at |-> at]), frees' = Append(frees, freed),
         inCallback' \in {0, Len(received) + 1},
         \/ mishandled' = mishandled \cup {Len(received) + 1}
         \/ mishandled' = mishandled /\ (freed = IF at = "ENDED" THEN 1 ELSE 0)
  PROVE  ItemsOK' /\ FreedWhenEnded'
<1> DEFINE item == [kind |-> kind, at |-> at]
<1>1. /\ received \in Seq([kind : Kinds, at : Owners]) /\ item \in [kind : Kinds, at : Owners]
      /\ frees \in Seq(Nat) /\ Len(frees) = Len(received) /\ freed \in Nat
  BY DEF ItemsOK
<1> DEFINE r == Append(received, item)
           f == Append(frees, freed)
<1>2. /\ r \in Seq([kind : Kinds, at : Owners]) /\ Len(r) = Len(received) + 1 /\ DOMAIN r = 1..Len(received) + 1
      /\ DOMAIN received = 1..Len(received) /\ Len(received) \in Nat
      /\ \A i \in 1..Len(received) : r[i] = received[i]
      /\ r[Len(received) + 1].at = at
  BY <1>1
<1>3. /\ f \in Seq(Nat) /\ Len(f) = Len(received) + 1
      /\ \A i \in 1..Len(received) : f[i] = frees[i]
      /\ f[Len(received) + 1] = freed
  BY <1>1
<1>4. received' = r /\ frees' = f
  OBVIOUS
<1> HIDE DEF r, f
<1>5. ItemsOK'
  BY <1>2, <1>3, <1>4 DEF ItemsOK
<1>6. FreedWhenEnded'
  BY <1>2, <1>3, <1>4 DEF FreedWhenEnded
<1> QED
  BY <1>5, <1>6

\* An arrival of any kind leaves the callbacks alone and is accounted for.
LEMMA NotificationFreed ==
  ASSUME SubscriptionsAssumption, CallbacksOK, ItemsOK, FreedWhenEnded, NEW kind \in Kinds, mqttNotificationCallback(kind)
  PROVE  ItemsOK' /\ FreedWhenEnded' /\ UNCHANGED callbackVars
<1>1. UNCHANGED callbackVars
  BY DEF mqttNotificationCallback
<1> DEFINE k == retrieveTopicType(kind)
<1>2. k \in Kinds
  BY DEF retrieveTopicType, Kinds
<1>3. ASSUME NEW type \in CallbackTypes, Delivered(k, type)
      PROVE  ItemsOK' /\ FreedWhenEnded'
  <2> DEFINE at == IF type = "NONE" THEN "ENDED" ELSE type
             freed == IF type = "NONE" THEN 1 ELSE 0
  <2>1. at \in Owners /\ freed \in {0, 1} /\ freed = (IF at = "ENDED" THEN 1 ELSE 0)
    BY DEF CallbackTypes, Owners
  <2>2. Arrives(k, at, freed, FALSE)
    BY <1>3 DEF Delivered
  <2> HIDE DEF at, freed, k
  <2> QED
    BY <1>2, <2>1, <2>2, ArrivesFreed DEF Arrives
<1>4. CASE k = "METHOD"
  <2>1. processDeviceMethodNotification
    BY <1>4 DEF mqttNotificationCallback
  <2>2. "METHOD" \in Kinds /\ "ENDED" \in Owners /\ methodCallback \in Owners /\ methodCallback # "ENDED"
    BY DEF Kinds, Owners, CallbacksOK, CallbackTypes
  <2>3. CASE retrievDeviceMethodRidInfo
    BY <1>1, <2>2, <2>3, ArrivesFreed DEF retrievDeviceMethodRidInfo, Arrives
  <2>4. CASE Arrives("METHOD", "ENDED", 0, TRUE)
    BY <1>1, <2>2, <2>4, ArrivesFreed DEF Arrives
  <2>5. CASE Arrives("METHOD", methodCallback, 0, FALSE)
    BY <1>1, <2>2, <2>5, ArrivesFreed DEF Arrives
  <2> QED
    BY <2>1, <2>3, <2>4, <2>5 DEF processDeviceMethodNotification, IoTHubClientCore_LL_DeviceMethodComplete
<1>5. CASE k # "METHOD"
  <2>1. processIncomingMessageNotification(k)
    BY <1>5 DEF mqttNotificationCallback
  <2>2. CASE addInputNamePropertyToMsg(k)
    <3>1. "ENDED" \in Owners /\ Arrives(k, "ENDED", 0, TRUE)
      BY <2>2 DEF Owners, addInputNamePropertyToMsg
    <3> HIDE DEF k
    <3> QED
      BY <1>1, <1>2, <3>1, ArrivesFreed DEF Arrives
  <2>3. CASE k = "MESSAGE" /\ invoke_message_callback
    BY <1>1, <1>3, <2>3 DEF invoke_message_callback, CallbacksOK
  <2>4. CASE IoTHubClientCore_LL_MessageCallbackFromInput(k)
    <3>1. HandlerOf(k) \in CallbackTypes
      BY <2>4 DEF IoTHubClientCore_LL_MessageCallbackFromInput, EntriesLive, HandlerOf, Found, is_event_equal, CallbacksOK, CallbackTypes
    <3> QED
      BY <1>1, <1>3, <2>4, <3>1 DEF IoTHubClientCore_LL_MessageCallbackFromInput
  <2> QED
    BY <2>1, <2>2, <2>3, <2>4 DEF processIncomingMessageNotification
<1> QED
  BY <1>1, <1>4, <1>5

\* What may be said of an item that is at a place and was freed so often.
FreedWell(at, count) ==
  IF at = "ENDED" THEN count = 1 ELSE count = 0 \/ (at = "ASYNC" /\ count = 1)

\* The items and their frees, one by one.
LEMMA ItemFacts ==
  ASSUME ItemsOK
  PROVE  /\ DOMAIN received = 1..Len(received) /\ DOMAIN frees = 1..Len(received) /\ Len(received) \in Nat
         /\ inCallback \in 0..Len(received)
         /\ \A i \in 1..Len(received) : received[i] \in [kind : Kinds, at : Owners] /\ frees[i] \in Nat
<1> DEFINE S == [kind : Kinds, at : Owners]
<1>1. received \in Seq(S) /\ frees \in Seq(Nat) /\ Len(frees) = Len(received) /\ inCallback \in 0..Len(received)
  BY DEF ItemsOK
<1> HIDE DEF S
<1>2. DOMAIN received = 1..Len(received) /\ DOMAIN frees = 1..Len(received) /\ Len(received) \in Nat
  BY <1>1
<1>3. \A i \in 1..Len(received) : received[i] \in S
  BY <1>1
<1>4. \A i \in 1..Len(received) : frees[i] \in Nat
  BY <1>1
<1> QED
  BY <1>1, <1>2, <1>3, <1>4 DEF S

\* One item moves and is freed some more times; the others stay as they are.
LEMMA ItemMoves ==
  ASSUME ItemsOK, FreedWhenEnded, NEW i \in DOMAIN received, NEW n \in Nat, NEW where \in Owners,
         frees' = [frees EXCEPT ![i] = @ + n], received' = [received EXCEPT ![i].at = where],
         inCallback' \in {0, inCallback},
         mishandled' \in {mishandled, mishandled \cup {i}},
         i \in mishandled' \/ FreedWell(where, frees[i] + n)
  PROVE  ItemsOK' /\ FreedWhenEnded'
<1> DEFINE S == [kind : Kinds, at : Owners]
           item == [received[i] EXCEPT !.at = where]
           count == frees[i] + n
<1>1. received \in Seq(S) /\ frees \in Seq(Nat) /\ Len(frees) = Len(received)
  BY DEF ItemsOK
<1>2. /\ i \in 1..Len(received) /\ Len(received) \in Nat /\ DOMAIN received = 1..Len(received) /\ DOMAIN frees = 1..Len(received)
      /\ inCallback' \in 0..Len(received)
      /\ frees[i] \in Nat /\ received[i] \in [kind : Kinds, at : Owners]
  BY ItemFacts
<1>3. item \in S /\ item.at = where /\ count \in Nat
  BY <1>2
<1>4. received' = [received EXCEPT ![i] = item] /\ frees' = [frees EXCEPT ![i] = count]
  OBVIOUS
<1> HIDE DEF S, item, count
<1>5. received' \in Seq(S) /\ Len(received') = Len(received) /\ DOMAIN received' = 1..Len(received)
      /\ received'[i] = item /\ \A j \in 1..Len(received) : j # i => received'[j] = received[j]
  <2> DEFINE r == [received EXCEPT ![i] = item]
  <2>1. r \in Seq(S) /\ Len(r) = Len(received) /\ DOMAIN r = 1..Len(received)
        /\ r[i] = item /\ \A j \in 1..Len(received) : j # i => r[j] = received[j]
    BY <1>1, <1>2, <1>3, ExceptSeq
  <2>2. received' = r
    BY <1>4
  <2> HIDE DEF r
  <2> QED
    BY <2>1, <2>2
<1>6. frees' \in Seq(Nat) /\ Len(frees') = Len(received)
      /\ frees'[i] = count /\ \A j \in 1..Len(received) : j # i => frees'[j] = frees[j]
  <2>1. frees' = [frees EXCEPT ![i] = count]
    BY <1>4
  <2> QED
    BY <1>1, <1>2, <1>3, <2>1, ExceptSeq
<1>7. ItemsOK'
  BY <1>2, <1>5, <1>6 DEF ItemsOK, S
<1>8. ASSUME NEW j \in DOMAIN received' \ mishandled' PROVE FreedWell(received'[j].at, frees'[j])
  <2>1. j \in 1..Len(received) /\ j \notin mishandled' /\ j \notin mishandled
    BY <1>5
  <2>2. CASE j = i
    BY <1>3, <1>5, <1>6, <2>1, <2>2 DEF count
  <2>3. CASE j # i
    BY <1>2, <1>5, <1>6, <2>1, <2>3 DEF FreedWhenEnded, FreedWell
  <2> QED
    BY <2>2, <2>3
<1> QED
  BY <1>7, <1>8 DEF FreedWhenEnded, FreedWell

\* The application, the client and the transport free what one of them ends.
LEMMA EndsFreed ==
  ASSUME ItemsOK, FreedWhenEnded,
         \/ \E i \in DOMAIN received : IoTHubClientCore_LL_DeviceMethodResponse(i) \/ IoTHubClientCore_LL_SendMessageDisposition(i)
         \/ CallbackReturns
  PROVE  ItemsOK' /\ FreedWhenEnded' /\ UNCHANGED callbackVars
<1>1. /\ DOMAIN received = 1..Len(received) /\ Len(received) \in Nat /\ inCallback \in 0..Len(received)
      /\ \A i \in 1..Len(received) : received[i] \in [kind : Kinds, at : Owners] /\ frees[i] \in Nat
  BY ItemFacts
<1>3. ASSUME NEW i \in DOMAIN received, Answerable(i), Frees(i, 1), AnswersMessage(i)
      PROVE  ItemsOK' /\ FreedWhenEnded' /\ UNCHANGED callbackVars
  <2>1. received[i] \in [kind : Kinds, at : Owners] /\ frees[i] = 0 /\ received[i].at \in {"ASYNC", "HELD"}
    BY <1>1, <1>3 DEF Answerable
  <2> DEFINE where == IF received[i].at = "HELD" THEN "ENDED" ELSE received[i].at
  <2>2. received' = [received EXCEPT ![i].at = where] /\ where \in {"ENDED", "ASYNC"}
    <3>1. where \in {"ENDED", "ASYNC"}
      BY <2>1
    <3>2. received[i] = [received[i] EXCEPT !.at = received[i].at]
      BY <2>1
    <3>3. received = [received EXCEPT ![i] = received[i]]
      BY ItemsOK DEF ItemsOK
    <3>4. received' = IF received[i].at = "HELD" THEN [received EXCEPT ![i].at = "ENDED"] ELSE received
      BY <1>3 DEF AnswersMessage
    <3> QED
      BY <3>1, <3>2, <3>3, <3>4
  <2>3. where \in Owners
    BY <2>2 DEF Owners, CallbackTypes
  <2> HIDE DEF where
  <2>4. UNCHANGED <<callbackVars, inCallback, mishandled>> /\ frees' = [frees EXCEPT ![i] = @ + 1]
    BY <1>3 DEF AnswersMessage, Frees
  <2>5. FreedWell(where, frees[i] + 1)
    BY <2>1, <2>2 DEF FreedWell
  <2>6. ItemsOK' /\ FreedWhenEnded'
    BY <2>2, <2>3, <2>4, <2>5, ItemMoves
  <2> QED
    BY <2>4, <2>6
<1>4. CASE CallbackReturns
  <2>1. inCallback \in DOMAIN received /\ UNCHANGED callbackVars
    BY <1>1, <1>4 DEF CallbackReturns
  <2>2. received[inCallback] \in [kind : Kinds, at : Owners] /\ frees[inCallback] \in Nat
        /\ {"ENDED", "HELD"} \subseteq Owners
    BY <1>1, <2>1 DEF Owners
  <2>3. inCallback \in mishandled \/ FreedWell(received[inCallback].at, frees[inCallback])
    BY <2>1 DEF FreedWhenEnded, FreedWell
  <2>4. CASE SyncMethodReturns
    <3>1. PICK response, published \in BOOLEAN :
            /\ published => response
            /\ Frees(inCallback, (IF response THEN 1 ELSE 0) + (IF published THEN 0 ELSE 1))
            /\ mishandled' = IF response /\ ~published THEN mishandled \cup {inCallback} ELSE mishandled
      BY <2>4 DEF SyncMethodReturns
    <3> DEFINE n == (IF response THEN 1 ELSE 0) + (IF published THEN 0 ELSE 1)
    <3>2. n \in Nat /\ (~(response /\ ~published) => n = 1) /\ frees' = [frees EXCEPT ![inCallback] = @ + n]
      BY <3>1 DEF Frees
    <3>3. received[inCallback].at = "SYNC" /\ received' = [received EXCEPT ![inCallback].at = "ENDED"] /\ inCallback' = 0
      BY <2>4 DEF SyncMethodReturns, Leaves
    <3>4. inCallback \in mishandled' \/ FreedWell("ENDED", frees[inCallback] + n)
      BY <2>2, <2>3, <3>1, <3>2, <3>3 DEF FreedWell
    <3> HIDE DEF n
    <3>5. ItemsOK' /\ FreedWhenEnded'
      BY <2>1, <2>2, <3>1, <3>2, <3>3, <3>4, ItemMoves
    <3> QED
      BY <2>1, <3>5
  <2>5. CASE SyncMessageReturns
    <3>1. /\ received[inCallback].at = "SYNC" /\ received' = [received EXCEPT ![inCallback].at = "ENDED"] /\ inCallback' = 0
          /\ frees' = [frees EXCEPT ![inCallback] = @ + 1] /\ UNCHANGED mishandled
      BY <2>5 DEF SyncMessageReturns, Leaves, Frees, IoTHubTransport_MQTT_Common_SendMessageDisposition
    <3>2. inCallback \in mishandled' \/ FreedWell("ENDED", frees[inCallback] + 1)
      BY <2>2, <2>3, <3>1 DEF FreedWell
    <3>3. ItemsOK' /\ FreedWhenEnded'
      BY <2>1, <2>2, <3>1, <3>2, ItemMoves
    <3> QED
      BY <2>1, <3>3
  <2>6. CASE AsyncReturns
    <3>1. PICK taken \in BOOLEAN :
            /\ frees[inCallback] > 0 => taken
            /\ Frees(inCallback, IF taken THEN 0 ELSE 1)
            /\ Leaves(IF taken /\ frees[inCallback] = 0 THEN "HELD" ELSE "ENDED")
      BY <2>6 DEF AsyncReturns
    <3> DEFINE n == IF taken THEN 0 ELSE 1
               where == IF taken /\ frees[inCallback] = 0 THEN "HELD" ELSE "ENDED"
    <3>2. /\ n \in Nat /\ where \in {"HELD", "ENDED"} /\ inCallback' = 0 /\ UNCHANGED mishandled
          /\ frees' = [frees EXCEPT ![inCallback] = @ + n] /\ received' = [received EXCEPT ![inCallback].at = where]
          /\ received[inCallback].at = "ASYNC"
      BY <2>6, <3>1 DEF AsyncReturns, Frees, Leaves
    <3>3. inCallback \in mishandled' \/ FreedWell(where, frees[inCallback] + n)
      BY <2>2, <2>3, <3>1, <3>2 DEF FreedWell
    <3>4. where \in Owners
      BY <2>2, <3>2
    <3> HIDE DEF n, where
    <3>5. ItemsOK' /\ FreedWhenEnded'
      BY <2>1, <3>2, <3>3, <3>4, ItemMoves
    <3> QED
      BY <2>1, <3>5
  <2> QED
    BY <1>4, <2>1, <2>4, <2>5, <2>6 DEF CallbackReturns
<1> QED
  BY <1>3, <1>4 DEF IoTHubClientCore_LL_DeviceMethodResponse, IoTHubClientCore_LL_SendMessageDisposition, AnswersMessage,
                    IoTHubTransport_MQTT_Common_DeviceMethod_Response, IoTHubTransport_MQTT_Common_SendMessageDisposition

\* Every step keeps callbacks with their topics and items with their owners.
LEMMA SubStep == SubInv /\ [SubNext]_subVars => SubInv'
<1> SUFFICES ASSUME SubInv, [SubNext]_subVars PROVE SubInv'
  OBVIOUS
<1> USE DEF SubInv
<1>1. UNCHANGED itemVars => ItemsOK' /\ FreedWhenEnded'
  BY DEF ItemsOK, FreedWhenEnded, itemVars
<1>2. UNCHANGED callbackVars => CallbacksOK' /\ CallbacksSubscribed'
  BY DEF CallbacksOK, CallbacksSubscribed, callbackVars
<1>3. CASE SubSettings
  BY <1>1, <1>3, SettingsSubscribed
<1>4. ASSUME NEW n \in Inputs,
             IoTHubClientCore_LL_SetInputMessageCallback(n) \/ IoTHubClientCore_LL_SetInputMessageCallbackEx(n)
      PROVE  SubInv'
  BY <1>1, <1>4, InputsSubscribed DEF IoTHubClientCore_LL_SetInputMessageCallback, IoTHubClientCore_LL_SetInputMessageCallbackEx
<1>5. ASSUME NEW kind \in Kinds, mqttNotificationCallback(kind) PROVE SubInv'
  BY <1>2, <1>5, NotificationFreed, SubscriptionsAssumption
<1>6. CASE TwinUpdateArrives
  BY <1>1, <1>6 DEF TwinUpdateArrives, CallbacksOK, CallbacksSubscribed
<1>7. CASE \/ \E i \in DOMAIN received : IoTHubClientCore_LL_DeviceMethodResponse(i) \/ IoTHubClientCore_LL_SendMessageDisposition(i)
           \/ CallbackReturns
  BY <1>2, <1>7, EndsFreed
<1>8. CASE UNCHANGED subVars
  BY <1>1, <1>2, <1>8 DEF subVars, itemVars, callbackVars
<1> QED
  BY <1>3, <1>4, <1>5, <1>6, <1>7, <1>8 DEF SubNext, SubSettings

\* Of SetMessageCallback, SetDeviceMethodCallback, SetInputMessageCallback, the notifications and
\* the answers of iothub_client_core_ll.c and iothubtransport_mqtt_common.c: a callback that is set
\* is subscribed, and what arrives is freed once, in any interleaving, for any inputs.
THEOREM SubscriptionsAreSound == SubSpec => []SubscriptionsSound
<1>1. SubInit => SubInv
  <2> SUFFICES ASSUME SubInit PROVE SubInv
    OBVIOUS
  <2>1. received = <<>> /\ frees = <<>> /\ Len(received) = 0 /\ DOMAIN received = {} /\ inCallback = 0 /\ Len(frees) = 0
    BY DEF SubInit
  <2>2. <<>> \in Seq([kind : Kinds, at : Owners]) /\ <<>> \in Seq(Nat)
    OBVIOUS
  <2>3. ItemsOK /\ FreedWhenEnded
    BY <2>1, <2>2 DEF ItemsOK, FreedWhenEnded
  <2>4. DOMAIN event_callbacks = {}
    BY DEF SubInit
  <2>5. CallbacksOK /\ CallbacksSubscribed
    BY <2>4, FS_EmptySet DEF SubInit, CallbacksOK, CallbacksSubscribed, CallbackTypes
  <2> QED
    BY <2>3, <2>5 DEF SubInv
<1>2. SubInv => SubscriptionsSound
  BY DEF SubInv, SubscriptionsSound
<1> QED
  BY <1>1, <1>2, SubStep, PTL DEF SubSpec

-----------------------------------------------------------------------------
(* The transport that clients share *)

StepSet == {"auth", "transport", "blob", "edge", "ticks", "platform", "product_info", "device", "retry"}
Stages == StepSet \cup {"no", "made", "ended", "refused"}
Resources == {"memory", "auth", "transport", "blob", "edge", "ticks", "product_info", "device"}
OwnTransport(c) == IF c \in isShared THEN {} ELSE {"transport"}

\* What a client owns when a step of its creation begins, and when it is made.
OwnedAt(c, step) ==
  {"memory"}
    \cup (IF step = "auth" THEN {} ELSE {"auth"})
    \cup (IF step \in {"auth", "transport"} THEN {} ELSE OwnTransport(c))
    \cup (IF step \in {"auth", "transport", "blob"} THEN {} ELSE {"blob"})
    \cup (IF step \in {"auth", "transport", "blob", "edge"} THEN {} ELSE {"edge"})
    \cup (IF step \in {"auth", "transport", "blob", "edge", "ticks"} THEN {} ELSE {"ticks"})
    \cup (IF step \in {"device", "retry", "made"} THEN {"product_info"} ELSE {})
    \cup (IF step \in {"retry", "made"} THEN {"device"} ELSE {})

SharedTypeOK ==
  /\ stage \in [SharedClients -> Stages]
  /\ owned \in [SharedClients -> SUBSET Resources]
  /\ deviceCtx \in [SharedClients -> SharedClients \cup {"none"}]

\* Every stage of a creation has its resources, and only the last ones may be registered.
Accounts ==
  \A c \in SharedClients :
    /\ stage[c] \in StepSet \cup {"made"} => owned[c] = OwnedAt(c, stage[c])
    /\ stage[c] \in {"refused", "ended"} => owned[c] = {}
    /\ c \in registered_devices => c \in isShared /\ stage[c] \in {"retry", "made"}

\* One client is created at a time; from the step of its transport on the shared transport calls
\* that client back, and it is what a device registered by it remembers.
Contexts ==
  /\ \A c, d \in SharedClients : stage[c] \in StepSet /\ stage[d] \in StepSet => c = d
  /\ \A c \in SharedClients :
       c \in isShared /\ stage[c] \in StepSet \ {"auth", "transport"} => transport_ctx = c
  /\ protocol = "AMQP" => \A c \in registered_devices : deviceCtx[c] = c
  /\ \A r \in requestContexts : r.what = "report" \/ (r.what = "got" /\ r.ctx = r.of)

SharedInv ==
  SharedTypeOK /\ registered_devices \subseteq SharedClients /\ Accounts /\ Contexts /\ DevicesReachOwner

\* The steps of a creation follow each other as listed.
LEMMA StepsFollow ==
  /\ Range(Steps) = StepSet
  /\ NextStep("auth") = "transport" /\ NextStep("transport") = "blob" /\ NextStep("blob") = "edge"
  /\ NextStep("edge") = "ticks" /\ NextStep("ticks") = "platform" /\ NextStep("platform") = "product_info"
  /\ NextStep("product_info") = "device" /\ NextStep("device") = "retry" /\ NextStep("retry") = "made"
<1>1. Len(Steps) = 9 /\ DOMAIN Steps = 1..9
  BY DEF Steps
<1>2. /\ Steps[1] = "auth" /\ Steps[2] = "transport" /\ Steps[3] = "blob" /\ Steps[4] = "edge" /\ Steps[5] = "ticks"
      /\ Steps[6] = "platform" /\ Steps[7] = "product_info" /\ Steps[8] = "device" /\ Steps[9] = "retry"
  BY DEF Steps
<1>3. \A i \in 1..9 : i \in {1, 2, 3, 4, 5, 6, 7, 8, 9}
  OBVIOUS
<1>4. Range(Steps) = StepSet
  BY <1>1, <1>2, <1>3 DEF Range, StepSet
<1>5. ASSUME NEW i \in 2..9, NEW j \in 2..9, Steps[i - 1] = Steps[j - 1] PROVE i = j
  BY <1>2, <1>3, <1>5
<1>6. ASSUME NEW i \in 2..9 PROVE NextStep(Steps[i - 1]) = Steps[i]
  <2>1. Steps[i - 1] # "retry"
    BY <1>2, <1>3
  <2> DEFINE k == CHOOSE j \in 2..Len(Steps) : Steps[j - 1] = Steps[i - 1]
  <2>2. k \in 2..9 /\ Steps[k - 1] = Steps[i - 1]
    BY <1>1
  <2>3. k = i
    BY <1>5, <2>2
  <2> HIDE DEF k
  <2> QED
    BY <2>1, <2>3 DEF NextStep, k
<1>7. /\ NextStep(Steps[1]) = Steps[2] /\ NextStep(Steps[2]) = Steps[3] /\ NextStep(Steps[3]) = Steps[4]
      /\ NextStep(Steps[4]) = Steps[5] /\ NextStep(Steps[5]) = Steps[6] /\ NextStep(Steps[6]) = Steps[7]
      /\ NextStep(Steps[7]) = Steps[8] /\ NextStep(Steps[8]) = Steps[9]
  <2>1. \A i \in 1..8 : NextStep(Steps[i]) = Steps[i + 1]
    <3> SUFFICES ASSUME NEW i \in 1..8 PROVE NextStep(Steps[i]) = Steps[i + 1]
      OBVIOUS
    <3>1. i + 1 \in 2..9 /\ (i + 1) - 1 = i
      OBVIOUS
    <3> QED
      BY <1>6, <3>1
  <2> QED
    BY <2>1
<1> QED
  BY <1>2, <1>4, <1>7 DEF NextStep

\* A step of a creation that succeeds acquires its resource, one that fails leaves nothing behind.
LEMMA CreationAccounts ==
  ASSUME SharedInv, NEW c \in SharedClients, initialize_iothub_client(c)
  PROVE  SharedInv'
<1> USE DEF SharedInv
<1>1. /\ stage[c] \in StepSet /\ (StepSucceeds(c) \/ StepFails(c))
      /\ UNCHANGED <<protocol, isShared, requestContexts, tellings>>
  BY StepsFollow DEF initialize_iothub_client, traffic
<1>2. CASE StepFails(c)
  <2>1. /\ owned' = [owned EXCEPT ![c] = {}] /\ stage' = [stage EXCEPT ![c] = "refused"]
        /\ UNCHANGED deviceCtx
        /\ registered_devices' \subseteq registered_devices /\ c \notin registered_devices'
    <3>1. owned[c] \ ReleasesOf(stage[c]) = {}
      BY <1>1 DEF Accounts, OwnedAt, OwnTransport, ReleasesOf, AlwaysReleased, StepSet
    <3>2. c \in registered_devices => c \in isShared /\ stage[c] = "retry"
      BY <1>1 DEF Accounts, StepSet
    <3> QED
      BY <1>2, <3>1, <3>2 DEF StepFails, Unregisters
  <2>2. SharedTypeOK' /\ registered_devices' \subseteq SharedClients
    BY <2>1 DEF SharedTypeOK, Stages
  <2>3. /\ stage'[c] = "refused" /\ owned'[c] = {}
        /\ \A d \in SharedClients : d # c => stage'[d] = stage[d] /\ owned'[d] = owned[d]
    BY <2>1 DEF SharedTypeOK
  <2>4. Accounts'
    BY <1>1, <2>1, <2>3 DEF Accounts, OwnedAt, OwnTransport, StepSet
  <2>5. Contexts'
    BY <1>1, <2>1, <2>3 DEF Contexts, StepSet, initialize_iothub_client
  <2> QED
    BY <1>1, <2>2, <2>4, <2>5 DEF DevicesReachOwner
<1>3. CASE StepSucceeds(c)
  <2> DEFINE more == IF c \in isShared /\ stage[c] = "transport" THEN {} ELSE Acquires(stage[c])
             next == NextStep(stage[c])
  <2>1. /\ owned' = [owned EXCEPT ![c] = owned[c] \cup more]
        /\ stage' = [stage EXCEPT ![c] = next]
        /\ next \in StepSet \cup {"made"} /\ next # "refused"
        /\ OwnedAt(c, next) = OwnedAt(c, stage[c]) \cup more /\ OwnedAt(c, next) \subseteq Resources
    <3>1. OwnedAt(c, next) = OwnedAt(c, stage[c]) \cup more
      BY <1>1, StepsFollow DEF StepSet, OwnedAt, OwnTransport, Acquires
    <3>2. next \in StepSet \cup {"made"} /\ next # "refused"
      BY <1>1, StepsFollow DEF StepSet
    <3>3. OwnedAt(c, next) \subseteq Resources
      BY DEF OwnedAt, OwnTransport, Resources
    <3> QED
      BY <1>3, <3>1, <3>2, <3>3 DEF StepSucceeds
  <2>2. owned[c] \cup more = OwnedAt(c, next)
    BY <1>1, <2>1 DEF Accounts
  <2>3. /\ next \in StepSet \ {"auth", "transport"} /\ c \in isShared => transport_ctx' = c
        /\ stage[c] = "device" => next = "retry"
        /\ stage[c] = "retry" => next = "made"
        /\ c \notin isShared => transport_ctx' = transport_ctx
    <3>1. stage'[c] # "refused"
      BY <2>1 DEF SharedTypeOK
    <3> QED
      BY <1>1, <3>1, StepsFollow DEF initialize_iothub_client, SetCallbackContext, Contexts, StepSet
  <2> HIDE DEF more, next
  <2>4. /\ stage'[c] = next /\ owned'[c] = OwnedAt(c, next)
        /\ \A d \in SharedClients : d # c => stage'[d] = stage[d] /\ owned'[d] = owned[d]
    BY <2>1, <2>2 DEF SharedTypeOK
  <2>5. /\ registered_devices' \subseteq registered_devices \cup {c} /\ registered_devices \subseteq registered_devices'
        /\ c \in registered_devices' => c \in isShared /\ next \in {"retry", "made"}
        /\ deviceCtx' \in [SharedClients -> SharedClients \cup {"none"}]
        /\ protocol = "AMQP" => \A d \in registered_devices' : deviceCtx'[d] = d
    <3>1. CASE c \in isShared /\ stage[c] = "device"
      <4>1. transport_ctx = c /\ deviceCtx \in [SharedClients -> SharedClients \cup {"none"}]
        BY <1>1, <3>1 DEF Contexts, StepSet, SharedTypeOK
      <4>2. /\ registered_devices' = registered_devices \cup {c}
            /\ deviceCtx' = [deviceCtx EXCEPT ![c] = c] \/ (protocol = "MQTT" /\ UNCHANGED deviceCtx)
        BY <1>1, <1>3, <3>1, <4>1
           DEF StepSucceeds, Registers, IoTHubTransport_MQTT_Common_Register, IoTHubTransport_AMQP_Common_Register
      <4> QED
        BY <2>3, <3>1, <4>1, <4>2 DEF Contexts
    <3>2. CASE ~(c \in isShared /\ stage[c] = "device")
      <4>1. UNCHANGED <<registered_devices, deviceCtx>>
        BY <1>3, <3>2 DEF StepSucceeds
      <4>2. c \in registered_devices => c \in isShared /\ stage[c] = "retry"
        BY <1>1 DEF Accounts, StepSet
      <4> QED
        BY <2>3, <4>1, <4>2 DEF SharedTypeOK, Contexts
    <3> QED
      BY <3>1, <3>2
  <2>6. SharedTypeOK' /\ registered_devices' \subseteq SharedClients
    BY <2>1, <2>2, <2>5 DEF SharedTypeOK, Stages
  <2>7. Accounts'
    <3>2. \A d \in SharedClients : OwnTransport(d)' = OwnTransport(d)
      BY <1>1 DEF OwnTransport
    <3> QED
      BY <1>1, <2>1, <2>4, <2>5, <3>2 DEF Accounts, OwnedAt, StepSet
  <2>8. Contexts'
    BY <1>1, <2>1, <2>3, <2>4, <2>5 DEF Contexts, StepSet
  <2> QED
    BY <1>1, <2>5, <2>6, <2>7, <2>8 DEF DevicesReachOwner
<1> QED
  BY <1>1, <1>2, <1>3

\* A call of the transport reaches whom it should, whoever was created or refused in between.
LEMMA TrafficReaches ==
  ASSUME SharedInv, NEW c \in SharedClients,
         \/ on_message_received(c) \/ SendMessageDisposition(c)
         \/ on_method_request_received(c) \/ on_event_send_complete(c)
         \/ IoTHubTransport_AMQP_Common_Subscribe_DeviceTwin(c) \/ IoTHubTransport_AMQP_Common_Unsubscribe_DeviceTwin(c)
         \/ on_device_twin_update_received_callback(c) \/ IoTHubTransport_AMQP_Common_ProcessItem(c)
         \/ IoTHubTransport_AMQP_Common_GetTwinAsync(c) \/ on_device_get_twin_completed_callback(c)
         \/ on_device_send_twin_update_complete_callback(c) \/ on_amqp_connection_error(c)
  PROVE  SharedInv'
<1> USE DEF SharedInv
<1>1. c \in registered_devices /\ KeepsClients
  BY DEF on_message_received, SendMessageDisposition, on_method_request_received, on_event_send_complete,
         IoTHubTransport_AMQP_Common_Subscribe_DeviceTwin, IoTHubTransport_AMQP_Common_Unsubscribe_DeviceTwin,
         on_device_twin_update_received_callback, IoTHubTransport_AMQP_Common_ProcessItem,
         IoTHubTransport_AMQP_Common_GetTwinAsync, on_device_get_twin_completed_callback,
         on_device_send_twin_update_complete_callback, on_amqp_connection_error, Working, OneDevice, Tells, Requests, Completes
<1>2. /\ SharedTypeOK' /\ (registered_devices \subseteq SharedClients)' /\ Accounts'
      /\ \A r \in requestContexts' : r \in requestContexts \/ r.what = "report" \/ (r.what = "got" /\ r.ctx = r.of)
      => Contexts'
  BY <1>1 DEF Contexts, KeepsClients
<1>3. SharedTypeOK' /\ (registered_devices \subseteq SharedClients)' /\ Accounts'
  BY <1>1 DEF KeepsClients, SharedTypeOK, Accounts, OwnedAt, OwnTransport
<1>4. protocol = "AMQP" => DeviceCtx(c) = c
  BY <1>1 DEF DeviceCtx, Contexts
<1>5. CASE \/ on_message_received(c) \/ SendMessageDisposition(c)
           \/ on_method_request_received(c) \/ on_event_send_complete(c)
           \/ IoTHubTransport_AMQP_Common_Subscribe_DeviceTwin(c) \/ IoTHubTransport_AMQP_Common_Unsubscribe_DeviceTwin(c)
           \/ on_device_twin_update_received_callback(c) \/ on_amqp_connection_error(c)
  <2>1. UNCHANGED requestContexts /\ protocol' = protocol
    BY <1>1, <1>5
       DEF on_message_received, SendMessageDisposition, on_method_request_received, on_event_send_complete,
           IoTHubTransport_AMQP_Common_Subscribe_DeviceTwin, IoTHubTransport_AMQP_Common_Unsubscribe_DeviceTwin,
           on_device_twin_update_received_callback, on_amqp_connection_error, traffic, KeepsClients
  <2>2. \/ tellings' = {}
        \/ \E what \in {"message", "method", "sent"} : tellings' = {[what |-> what, of |-> c, to |-> DeviceCtx(c)]}
        \/ \E what \in {"twin", "no network"} : tellings' = {[what |-> what, of |-> c, to |-> transport_ctx]}
    BY <1>5
       DEF on_message_received, SendMessageDisposition, on_method_request_received, on_event_send_complete,
           IoTHubTransport_AMQP_Common_Subscribe_DeviceTwin, IoTHubTransport_AMQP_Common_Unsubscribe_DeviceTwin,
           on_device_twin_update_received_callback, on_amqp_connection_error, Tells
  <2>3. ASSUME NEW t \in tellings', protocol = "AMQP", t.what \in {"message", "method", "sent", "got"} PROVE t.to = t.of
    <3>1. CASE \E what \in {"message", "method", "sent"} : tellings' = {[what |-> what, of |-> c, to |-> DeviceCtx(c)]}
      BY <1>4, <2>3, <3>1
    <3>2. CASE \E what \in {"twin", "no network"} : tellings' = {[what |-> what, of |-> c, to |-> transport_ctx]}
      <4>1. PICK what \in {"twin", "no network"} : tellings' = {[what |-> what, of |-> c, to |-> transport_ctx]}
        BY <3>2
      <4>2. t = [what |-> what, of |-> c, to |-> transport_ctx]
        BY <4>1
      <4>3. t.what \in {"twin", "no network"}
        BY <4>2
      <4> QED
        BY <2>3, <4>3
    <3> QED
      BY <2>2, <2>3, <3>1, <3>2
  <2>4. DevicesReachOwner'
    BY <2>1, <2>3 DEF DevicesReachOwner
  <2> QED
    BY <1>2, <1>3, <2>1, <2>4
<1>6. ASSUME NEW what \in {"report", "got"}, NEW ctx, what = "got" => ctx = c, Requests(c, what, ctx)
      PROVE  SharedInv'
  <2>1. requestContexts' = requestContexts \cup {[of |-> c, ctx |-> ctx, what |-> what]} /\ tellings' = {}
    BY <1>6 DEF Requests
  <2>2. DevicesReachOwner'
    BY <2>1 DEF DevicesReachOwner
  <2> QED
    BY <1>2, <1>3, <1>6, <2>1, <2>2
<1>7. ASSUME NEW what \in {"report", "got"}, Completes(c, what)
      PROVE  SharedInv'
  <2>1. PICK r \in requestContexts : r.of = c /\ r.what = what /\ tellings' = {[what |-> what, of |-> c, to |-> r.ctx]}
                                   /\ requestContexts' = requestContexts \ {r}
    BY <1>7 DEF Completes, Tells
  <2>2. DevicesReachOwner'
    BY <1>1, <2>1 DEF DevicesReachOwner, Contexts, KeepsClients
  <2> QED
    BY <1>2, <1>3, <2>1, <2>2
<1>8. CASE IoTHubTransport_AMQP_Common_ProcessItem(c)
  BY <1>6, <1>8 DEF IoTHubTransport_AMQP_Common_ProcessItem
<1>9. CASE IoTHubTransport_AMQP_Common_GetTwinAsync(c)
  BY <1>6, <1>9 DEF IoTHubTransport_AMQP_Common_GetTwinAsync
<1>10. CASE on_device_get_twin_completed_callback(c) \/ on_device_send_twin_update_complete_callback(c)
  BY <1>7, <1>10 DEF on_device_get_twin_completed_callback, on_device_send_twin_update_complete_callback
<1> QED
  BY <1>5, <1>8, <1>9, <1>10

\* A creation begins alone, and a client that ends takes its device and its requests with it.
LEMMA ClientComesAndGoes ==
  ASSUME SharedInv, NEW c \in SharedClients,
         \/ IoTHubClientCore_LL_CreateImpl(c) \/ IoTHubClientCore_LL_CreateWithTransport(c)
         \/ IoTHubClientCore_LL_Destroy(c)
  PROVE  SharedInv'
<1> USE DEF SharedInv
<1>1. \A d \in SharedClients : stage[d] \notin StepSet
  BY DEF IoTHubClientCore_LL_CreateImpl, IoTHubClientCore_LL_CreateWithTransport, IoTHubClientCore_LL_Destroy, Begins, Quiet, StepSet
<1>2. CASE IoTHubClientCore_LL_CreateImpl(c) \/ IoTHubClientCore_LL_CreateWithTransport(c)
  <2>1. /\ stage[c] = "no" /\ stage' = [stage EXCEPT ![c] = "auth"] /\ owned' = [owned EXCEPT ![c] = {"memory"}]
        /\ tellings' = {} /\ UNCHANGED <<protocol, transport_ctx, registered_devices, deviceCtx, requestContexts>>
        /\ isShared \subseteq isShared' /\ isShared' \subseteq isShared \cup {c}
    BY <1>2 DEF IoTHubClientCore_LL_CreateImpl, IoTHubClientCore_LL_CreateWithTransport, Begins, traffic
  <2>2. /\ stage'[c] = "auth" /\ owned'[c] = {"memory"}
        /\ \A d \in SharedClients : d # c => stage'[d] = stage[d] /\ owned'[d] = owned[d] /\ (d \in isShared' <=> d \in isShared)
    BY <2>1 DEF SharedTypeOK
  <2>3. SharedTypeOK'
    BY <2>1 DEF SharedTypeOK, Stages, StepSet, Resources
  <2>4. Accounts'
    <3>1. OwnedAt(c, "auth")' = {"memory"}
      BY DEF OwnedAt
    <3>2. ASSUME NEW d \in SharedClients, d # c PROVE OwnedAt(d, stage[d])' = OwnedAt(d, stage[d])
      BY <2>2, <3>2 DEF OwnedAt, OwnTransport
    <3> QED
      BY <1>1, <2>1, <2>2, <3>1, <3>2 DEF Accounts, StepSet
  <2>5. Contexts'
    BY <1>1, <2>1, <2>2 DEF Contexts, StepSet
  <2> QED
    BY <2>1, <2>3, <2>4, <2>5 DEF DevicesReachOwner
<1>3. CASE IoTHubClientCore_LL_Destroy(c)
  <2>1. /\ stage[c] = "made" /\ stage' = [stage EXCEPT ![c] = "ended"] /\ owned' = [owned EXCEPT ![c] = {}]
        /\ UNCHANGED <<protocol, isShared, transport_ctx, deviceCtx>>
    BY <1>3 DEF IoTHubClientCore_LL_Destroy, IoTHubTransport_AMQP_Common_Unregister, Unregisters
  <2>2. /\ registered_devices' \subseteq registered_devices /\ c \notin registered_devices'
        /\ requestContexts' \subseteq requestContexts
        /\ \A t \in tellings' : \E r \in requestContexts : t = [what |-> r.what, of |-> c, to |-> r.ctx] /\ r.of = c
    BY <1>3 DEF IoTHubClientCore_LL_Destroy, IoTHubTransport_AMQP_Common_Unregister, Unregisters, traffic, Accounts
  <2>3. /\ stage'[c] = "ended" /\ owned'[c] = {}
        /\ \A d \in SharedClients : d # c => stage'[d] = stage[d] /\ owned'[d] = owned[d]
    BY <2>1 DEF SharedTypeOK
  <2>4. SharedTypeOK'
    BY <2>1 DEF SharedTypeOK, Stages
  <2>5. Accounts'
    BY <2>1, <2>2, <2>3 DEF Accounts, OwnedAt, OwnTransport, StepSet
  <2>6. Contexts'
    BY <2>1, <2>2, <2>3 DEF Contexts, StepSet
  <2>7. DevicesReachOwner'
    BY <2>1, <2>2 DEF DevicesReachOwner, Contexts
  <2> QED
    BY <2>2, <2>4, <2>5, <2>6, <2>7
<1> QED
  BY <1>2, <1>3

\* Every step of a client or of the transport keeps the invariant.
LEMMA SharedStep == SharedInv /\ [SharedNext]_sharedVars => SharedInv'
<1> SUFFICES ASSUME SharedInv, [SharedNext]_sharedVars PROVE SharedInv'
  OBVIOUS
<1>1. CASE UNCHANGED sharedVars
  BY <1>1 DEF sharedVars, SharedInv, SharedTypeOK, Accounts, OwnedAt, OwnTransport, Contexts, DevicesReachOwner
<1>2. CASE SharedNext
  BY <1>2, CreationAccounts, TrafficReaches, ClientComesAndGoes DEF SharedNext
<1> QED
  BY <1>1, <1>2

\* Of initialize_iothub_client, IoTHubClientCore_LL_Destroy and the AMQP transport: a client that
\* could not be created or was destroyed leaves nothing behind and one that was made has all it
\* needs, and a device of a shared AMQP transport reaches its own client, for any set of clients.
THEOREM SharingIsSound == SharedSpec => []SharedSound
<1>1. SharedInit => SharedInv
  BY DEF SharedInit, SharedInv, SharedTypeOK, Accounts, OwnedAt, OwnTransport, Contexts, DevicesReachOwner, Stages, StepSet, Resources
<1>2. SharedInv => SharedSound
  BY DEF SharedInv, SharedSound, NothingLeaks, Accounts, OwnedAt, OwnTransport, StepSet
<1> QED
  BY <1>1, <1>2, SharedStep, PTL DEF SharedSpec

-----------------------------------------------------------------------------
(* The HTTP transport *)

EventSet == [number : Nat, body : Nat, properties : Nat]
ConfirmationSet == Nat \X {"OK", "ERROR"}

\* Messages are confirmed and wait in the order of their numbers, without a gap: a batch that failed
\* went back to its place.  What was confirmed as OK was taken by the hub.
InLine ==
  /\ sentCount = Len(confirmations) + Len(waitingToSend)
  /\ \A i \in 1..Len(confirmations) :
       /\ confirmations[i][1] = i
       /\ confirmations[i][2] = "OK" => \E j \in 1..Len(hubTook) : hubTook[j] = i
  /\ \A i \in 1..Len(waitingToSend) : waitingToSend[i].number = Len(confirmations) + i

\* Of the messages that still wait the hub took those before one it took, and took them earlier.
HubPrefix ==
  \A i \in 1..Len(hubTook) :
    /\ hubTook[i] <= sentCount
    /\ \A m \in (Len(confirmations) + 1)..hubTook[i] : \E k \in 1..i : hubTook[k] = m

EventTypeOK ==
  /\ waitingToSend \in Seq(EventSet) /\ confirmations \in Seq(ConfirmationSet)
  /\ hubTook \in Seq(Nat) /\ sentCount \in Nat

EventInv == EventTypeOK /\ InLine /\ HubPrefix /\ HubOrder

\* The numbers of the first n messages that wait, and the confirmations that tell them a result.
FirstNumbers(n) == [i \in 1..n |-> waitingToSend[i].number]
FirstTold(n, result) == [i \in 1..n |-> <<waitingToSend[i].number, result>>]

\* The first n messages that wait leave the list, told to have the result; the hub may take the
\* first taken of those that wait.
EventsMove(n, taken, result) ==
  /\ waitingToSend' = SubSeq(waitingToSend, n + 1, Len(waitingToSend))
  /\ confirmations' = confirmations \o FirstTold(n, result)
  /\ hubTook' = hubTook \o FirstNumbers(taken)
  /\ UNCHANGED sentCount

\* Lengths and elements of what the events are kept in.
LEMMA EventFacts ==
  ASSUME EventTypeOK
  PROVE  /\ Len(waitingToSend) \in Nat /\ Len(confirmations) \in Nat /\ Len(hubTook) \in Nat /\ sentCount \in Nat
         /\ \A i \in 1..Len(waitingToSend) : waitingToSend[i] \in EventSet
         /\ \A i \in 1..Len(confirmations) : confirmations[i] \in ConfirmationSet
         /\ \A i \in 1..Len(hubTook) : hubTook[i] \in Nat
<1>1. waitingToSend \in Seq(EventSet) /\ confirmations \in Seq(ConfirmationSet) /\ hubTook \in Seq(Nat) /\ sentCount \in Nat
  BY DEF EventTypeOK
<1>2. \A i \in 1..Len(waitingToSend) : waitingToSend[i] \in EventSet
  BY <1>1, ElementOfSeq
<1>3. \A i \in 1..Len(confirmations) : confirmations[i] \in ConfirmationSet
  BY <1>1, ElementOfSeq
<1>4. \A i \in 1..Len(hubTook) : hubTook[i] \in Nat
  BY <1>1, ElementOfSeq
<1> QED
  BY <1>1, <1>2, <1>3, <1>4

\* Whatever the hub takes is taken in order, and what leaves the list leaves it from its front.
LEMMA EventsMoveInv ==
  ASSUME EventInv, NEW n \in 0..Len(waitingToSend), NEW taken \in 0..Len(waitingToSend), NEW result \in {"OK", "ERROR"},
         result = "OK" => n <= taken, EventsMove(n, taken, result)
  PROVE  EventInv'
<1> DEFINE w == SubSeq(waitingToSend, n + 1, Len(waitingToSend))
           more == FirstTold(n, result)
           new == FirstNumbers(taken)
           c == confirmations \o more
           h == hubTook \o new
           L == Len(confirmations)
           H == Len(hubTook)
           W == Len(waitingToSend)
<1>1. /\ W \in Nat /\ L \in Nat /\ H \in Nat /\ sentCount \in Nat
      /\ n \in Nat /\ n <= W /\ taken \in Nat /\ taken <= W
      /\ \A i \in 1..W : waitingToSend[i] \in EventSet /\ waitingToSend[i].number = L + i
      /\ \A i \in 1..L : confirmations[i][1] = i
      /\ \A i \in 1..H : hubTook[i] \in Nat
      /\ sentCount = L + W
  BY EventFacts DEF EventInv, InLine
<1> HIDE DEF L, H, W
<1>b. W \in Nat /\ L \in Nat /\ H \in Nat /\ n \in Nat /\ n <= W /\ taken \in Nat /\ taken <= W /\ sentCount = L + W
  BY <1>1
<1>c. \A i \in 1..H : hubTook[i] \in Nat
  BY <1>1
<1>a. \A i \in 1..W : waitingToSend[i].number = L + i /\ L + i \in Nat
  BY <1>1
<1> USE DEF FirstNumbers, FirstTold
<1>2. w \in Seq(EventSet) /\ Len(w) = W - n /\ \A i \in 1..W - n : w[i].number = L + n + i
  <2>1. \A i \in n + 1 .. W : waitingToSend[i] \in EventSet
    BY <1>1
  <2>2. w \in Seq(EventSet) /\ Len(w) = (IF n + 1 <= W THEN W - (n + 1) + 1 ELSE 0) /\ \A i \in 1..W - (n + 1) + 1 : w[i] = waitingToSend[n + 1 + i - 1]
    BY <1>1, <2>1, SubSeqProperties, SMTT(30) DEF W
  <2> HIDE DEF w
  <2>3. \A i \in 1..W - n : w[i] = waitingToSend[n + i] /\ n + i \in 1..W
    BY <1>1, <2>2
  <2>4. Len(w) = W - n
    BY <1>1, <2>2
  <2>5. ASSUME NEW i \in 1..W - n PROVE w[i].number = L + n + i
    <3>1. w[i].number = L + (n + i)
      BY <1>1, <2>3
    <3> QED
      BY <1>b, <3>1
  <2> QED
    BY <2>2, <2>4, <2>5
<1>3. /\ more \in Seq(ConfirmationSet) /\ Len(more) = n
      /\ \A i \in 1..n : more[i][1] = L + i /\ more[i][2] = result
  <2>1. \A i \in 1..n : <<waitingToSend[i].number, result>> \in ConfirmationSet /\ waitingToSend[i].number = L + i
    <3>1. \A i \in 1..n : waitingToSend[i].number = L + i /\ L + i \in Nat
      BY <1>a, <1>b
    <3> QED
      BY <3>1 DEF ConfirmationSet
  <2>2. more \in [1..n -> ConfirmationSet] /\ \A i \in 1..n : more[i] = <<waitingToSend[i].number, result>>
    BY <2>1
  <2>3. more \in Seq(ConfirmationSet) /\ Len(more) = n
    BY <1>1, <2>2
  <2> QED
    BY <2>1, <2>2, <2>3
<1>4. new \in Seq(Nat) /\ Len(new) = taken /\ \A i \in 1..taken : new[i] = L + i
  <2>1. \A i \in 1..taken : waitingToSend[i].number \in Nat /\ waitingToSend[i].number = L + i
    BY <1>a, <1>b
  <2>2. new \in [1..taken -> Nat] /\ \A i \in 1..taken : new[i] = waitingToSend[i].number
    BY <2>1
  <2> HIDE DEF new
  <2>3. new \in Seq(Nat) /\ Len(new) = taken
    BY <1>b, <2>2, FunctionIsSequence
  <2> QED
    BY <2>1, <2>2, <2>3
<1> HIDE DEF w, more, new
<1>5. c \in Seq(ConfirmationSet) /\ Len(c) = L + n /\ \A i \in 1..L + n : c[i] = IF i <= L THEN confirmations[i] ELSE more[i - L]
  <2>1. confirmations \in Seq(ConfirmationSet)
    BY DEF EventInv, EventTypeOK
  <2> QED
    BY <1>3, <2>1, ConcatProperties DEF L
<1>6. h \in Seq(Nat) /\ Len(h) = H + taken /\ \A i \in 1..H + taken : h[i] = IF i <= H THEN hubTook[i] ELSE new[i - H]
  <2>1. hubTook \in Seq(Nat)
    BY DEF EventInv, EventTypeOK
  <2> QED
    BY <1>4, <2>1, ConcatProperties DEF H
<1>7. waitingToSend' = w /\ confirmations' = c /\ hubTook' = h /\ sentCount' = sentCount
  BY DEF EventsMove, w, more, new, W
<1> HIDE DEF c, h
<1>8. /\ \A i \in 1..H : h[i] = hubTook[i]
      /\ \A i \in H + 1 .. H + taken : h[i] = L + (i - H) /\ i - H \in 1..taken
      /\ \A m \in 1..taken : H + m \in H + 1 .. H + taken /\ h[H + m] = L + m
  <2>1. ASSUME NEW i \in 1..H PROVE h[i] = hubTook[i]
    <3>1. i \in 1..H + taken /\ i <= H
      BY <1>b
    <3> QED
      BY <1>6, <3>1
  <2>2. ASSUME NEW i \in H + 1 .. H + taken PROVE h[i] = new[i - H] /\ i - H \in 1..taken
    <3>1. i \in 1..H + taken /\ ~(i <= H) /\ i - H \in 1..taken
      BY <1>b
    <3> QED
      BY <1>6, <3>1
  <2>3. \A m \in 1..taken : H + m \in H + 1 .. H + taken /\ (H + m) - H = m
    BY <1>b
  <2> QED
    BY <1>4, <2>1, <2>2, <2>3
<1>9. InLine'
  <2>1. \A i \in 1..L + n : c[i][1] = i
    <3> SUFFICES ASSUME NEW i \in 1..L + n PROVE c[i][1] = i
      OBVIOUS
    <3>1. CASE i <= L
      <4>1. i \in 1..L /\ c[i] = confirmations[i]
        BY <1>b, <1>5, <3>1
      <4> QED
        BY <1>1, <4>1
    <3>2. CASE ~(i <= L)
      <4>1. i - L \in 1..n /\ c[i] = more[i - L] /\ L + (i - L) = i
        BY <1>b, <1>5, <3>2
      <4> QED
        BY <1>3, <4>1
    <3> QED
      BY <3>1, <3>2
  <2>2. ASSUME NEW i \in 1..L + n, c[i][2] = "OK" PROVE \E j \in 1..H + taken : h[j] = i
    <3>1. CASE i <= L
      <4>1. i \in 1..L /\ c[i] = confirmations[i]
        BY <1>b, <1>5, <3>1
      <4>2. PICK j \in 1..H : hubTook[j] = i
        BY <2>2, <4>1 DEF EventInv, InLine, L, H
      <4> QED
        BY <1>b, <1>8, <4>2
    <3>2. CASE ~(i <= L)
      <4>1. i - L \in 1..n /\ c[i] = more[i - L] /\ L + (i - L) = i
        BY <1>b, <1>5, <3>2
      <4>2. result = "OK" /\ i - L \in 1..taken
        BY <1>1, <1>3, <2>2, <4>1
      <4>3. h[H + (i - L)] = L + (i - L) /\ H + (i - L) \in H + 1 .. H + taken
        BY <1>8, <4>2
      <4>4. H + (i - L) \in 1..H + taken
        BY <1>b, <4>3
      <4> QED
        BY <4>1, <4>3, <4>4
    <3> QED
      BY <3>1, <3>2
  <2>3. Len(c) = L + n /\ Len(h) = H + taken /\ Len(w) = W - n /\ sentCount = (L + n) + (W - n)
    BY <1>b, <1>2, <1>5, <1>6
  <2>4. \A i \in 1..W - n : w[i].number = (L + n) + i
    BY <1>2
  <2> QED
    BY <1>7, <2>1, <2>2, <2>3, <2>4 DEF InLine
<1>10. HubPrefix'
  <2>0. Len(h) = H + taken /\ Len(c) = L + n
    BY <1>5, <1>6
  <2>3. HubPrefix' = \A i \in 1..Len(h) : h[i] <= sentCount /\ \A m \in (Len(c) + 1)..h[i] : \E k \in 1..i : h[k] = m
    BY <1>7, Zenon DEF HubPrefix
  <2> SUFFICES ASSUME NEW i \in 1..H + taken
               PROVE  h[i] <= sentCount /\ \A m \in (L + n + 1)..h[i] : \E k \in 1..i : h[k] = m
    BY <2>0, <2>3, Zenon
  <2>1. CASE i <= H
    <3>1. i \in 1..H /\ h[i] = hubTook[i] /\ hubTook[i] \in Nat
      <4>1. i \in 1..H
        BY <1>b, <2>1
      <4> QED
        BY <1>c, <1>8, <4>1
    <3>2. hubTook[i] <= sentCount /\ \A m \in (L + 1)..hubTook[i] : \E k \in 1..i : hubTook[k] = m
      BY <3>1 DEF EventInv, HubPrefix, L, H
    <3>3. ASSUME NEW m \in (L + n + 1)..h[i] PROVE \E k \in 1..i : h[k] = m
      <4>1. m \in (L + 1)..hubTook[i]
        BY <1>b, <3>1
      <4>2. PICK k \in 1..i : hubTook[k] = m
        BY <3>2, <4>1
      <4> QED
        BY <1>b, <1>8, <3>1, <4>2
    <3> QED
      BY <3>1, <3>2, <3>3
  <2>2. CASE ~(i <= H)
    <3>1. i \in H + 1 .. H + taken /\ h[i] = L + (i - H) /\ i - H \in 1..taken
      BY <1>b, <1>8, <2>2
    <3>2. ASSUME NEW m \in (L + n + 1)..h[i] PROVE \E k \in 1..i : h[k] = m
      <4>1. m - L \in 1..taken /\ L + (m - L) = m
        BY <1>b, <3>1
      <4>2. H + (m - L) \in 1..H + taken /\ h[H + (m - L)] = m
        BY <1>b, <1>8, <4>1
      <4>3. H + (m - L) \in 1..i
        BY <1>b, <3>1, <4>1
      <4> QED
        BY <4>2, <4>3
    <3> QED
      BY <1>b, <3>1, <3>2
  <2> QED
    BY <2>1, <2>2
<1>11. HubOrder'
  <2>1. ASSUME NEW i \in 1..H + taken, NEW j \in 1..H + taken, i < j, h[i] > h[j]
        PROVE  \E k \in 1..(i - 1) : h[k] = h[j]
    <3>1. CASE j <= H
      <4>1. i \in 1..H /\ j \in 1..H /\ h[i] = hubTook[i] /\ h[j] = hubTook[j]
        BY <2>1, <1>b, <1>8, <3>1
      <4>2. PICK k \in 1..(i - 1) : hubTook[k] = hubTook[j]
        BY <2>1, <4>1 DEF EventInv, HubOrder, H
      <4> QED
        BY <1>b, <1>8, <4>1, <4>2
    <3>2. CASE ~(j <= H)
      <4>1. j \in H + 1 .. H + taken /\ h[j] = L + (j - H) /\ j - H \in 1..taken
        BY <1>b, <1>8, <3>2
      <4>2. i \in 1..H /\ h[i] = hubTook[i] /\ hubTook[i] \in Nat
        <5>1. CASE i <= H
          <6>1. i \in 1..H
            BY <1>b, <5>1
          <6> QED
            BY <1>c, <1>8, <6>1
        <5>2. CASE ~(i <= H)
          <6>1. h[i] = L + (i - H)
            BY <1>b, <1>8, <5>2
          <6> QED
            BY <2>1, <1>b, <4>1, <6>1
        <5> QED
          BY <5>1, <5>2
      <4>3. h[j] \in (L + 1)..hubTook[i]
        BY <2>1, <1>b, <4>1, <4>2
      <4>4. PICK k \in 1..i : hubTook[k] = h[j]
        BY <4>2, <4>3 DEF EventInv, HubPrefix, L, H
      <4> QED
        <5>1. hubTook[k] # hubTook[i] /\ k \in 1..(i - 1) /\ k \in 1..H
          BY <1>b, <2>1, <4>1, <4>2, <4>4
        <5> QED
          BY <1>8, <4>4, <5>1
    <3> QED
      BY <3>1, <3>2
  <2>2. Len(h) = H + taken
    BY <1>6
  <2>3. \A i, j \in 1..Len(h) : i < j /\ h[i] > h[j] => \E k \in 1..(i - 1) : h[k] = h[j]
    BY <2>1, <2>2
  <2>4. hubTook' = h
    BY <1>7
  <2> QED
    BY <2>3, <2>4 DEF HubOrder
<1> QED
  BY <1>1, <1>2, <1>5, <1>6, <1>7, <1>9, <1>10, <1>11 DEF EventInv, EventTypeOK

\* The first messages of the list, as the batch that is sent and the rest that goes back behind it.
LEMMA BatchFacts ==
  ASSUME waitingToSend \in Seq(EventSet), NEW n \in 0..Len(waitingToSend), NEW result
  PROVE  /\ Len(SubSeq(waitingToSend, 1, n)) = n
         /\ Numbers(SubSeq(waitingToSend, 1, n)) = FirstNumbers(n)
         /\ [i \in 1..Len(SubSeq(waitingToSend, 1, n)) |-> <<SubSeq(waitingToSend, 1, n)[i].number, result>>]
              = FirstTold(n, result)
         /\ SubSeq(waitingToSend, 1, n) \o SubSeq(waitingToSend, n + 1, Len(waitingToSend)) = waitingToSend
         /\ SubSeq(waitingToSend, 1, Len(waitingToSend)) = waitingToSend
<1> DEFINE W == Len(waitingToSend)
           b == SubSeq(waitingToSend, 1, n)
<1>1. W \in Nat /\ n \in 0..W /\ n \in Int /\ 1 \in Int /\ \A i \in 1..W : waitingToSend[i] \in EventSet
  BY ElementOfSeq
<1>2. Len(b) = n /\ \A i \in 1..n : b[i] = waitingToSend[i]
  <2>1. \A i \in 1..n : waitingToSend[i] \in EventSet
    BY <1>1
  <2>2. Len(b) = (IF 1 <= n THEN n - 1 + 1 ELSE 0) /\ \A i \in 1..n - 1 + 1 : b[i] = waitingToSend[1 + i - 1]
    BY <1>1, <2>1, SubSeqProperties
  <2> HIDE DEF b
  <2> QED
    BY <1>1, <2>2
<1> HIDE DEF b
<1>3. Numbers(b) = FirstNumbers(n)
  BY <1>2 DEF Numbers, FirstNumbers
<1>4. [i \in 1..Len(b) |-> <<b[i].number, result>>] = FirstTold(n, result)
  BY <1>2 DEF FirstTold
<1>5. SubSeq(waitingToSend, 1, n) \o SubSeq(waitingToSend, n + 1, W) = waitingToSend
  <2>1. 1 \in 1..W + 1 /\ n \in 1 - 1 .. W /\ W \in n .. W
    BY <1>1
  <2> QED
    BY <2>1, ConcatAdjacentSubSeq, SubSeqFull
<1> QED
  BY <1>2, <1>3, <1>4, <1>5, SubSeqFull DEF b

\* Nothing is added to a sequence.
LEMMA NothingAdded ==
  ASSUME EventTypeOK, NEW result
  PROVE  /\ hubTook \o FirstNumbers(0) = hubTook
         /\ confirmations \o FirstTold(0, result) = confirmations
<1>1. FirstNumbers(0) = <<>> /\ FirstTold(0, result) = <<>>
  BY DEF FirstNumbers, FirstTold
<1> QED
  BY <1>1, ConcatEmptySeq DEF EventTypeOK

\* An application message joins the end of the list under the next number.
LEMMA SendEventInv ==
  ASSUME EventInv, SendEvent
  PROVE  EventInv'
<1>1. PICK body \in {1, MAXIMUM_MESSAGE_SIZE + 1}, properties \in {0, 1} :
        waitingToSend' = Append(waitingToSend, [number |-> sentCount + 1, body |-> body, properties |-> properties])
  BY DEF SendEvent
<1> DEFINE m == [number |-> sentCount + 1, body |-> body, properties |-> properties]
           w == Append(waitingToSend, m)
<1>2. /\ sentCount' = sentCount + 1 /\ waitingToSend' = w /\ UNCHANGED <<hubTook, confirmations>>
      /\ m \in EventSet /\ m.number = sentCount + 1
  BY <1>1, EventFacts DEF SendEvent, EventInv, EventSet, MAXIMUM_MESSAGE_SIZE
<1> HIDE DEF m
<1>3. /\ Len(waitingToSend) \in Nat /\ Len(confirmations) \in Nat /\ sentCount \in Nat
      /\ waitingToSend \in Seq(EventSet) /\ sentCount = Len(confirmations) + Len(waitingToSend)
  BY EventFacts DEF EventInv, EventTypeOK, InLine
<1>4. /\ w \in Seq(EventSet) /\ Len(w) = Len(waitingToSend) + 1
      /\ \A i \in 1..Len(waitingToSend) : w[i] = waitingToSend[i]
      /\ w[Len(waitingToSend) + 1] = m
  BY <1>2, <1>3
<1> HIDE DEF w
<1>5. \A i \in 1..Len(waitingToSend) + 1 : w[i].number = Len(confirmations) + i
  <2> SUFFICES ASSUME NEW i \in 1..Len(waitingToSend) + 1 PROVE w[i].number = Len(confirmations) + i
    OBVIOUS
  <2>1. CASE i \in 1..Len(waitingToSend)
    BY <1>4, <2>1 DEF EventInv, InLine
  <2>2. CASE i = Len(waitingToSend) + 1
    BY <1>2, <1>3, <1>4, <2>2
  <2> QED
    BY <1>3, <2>1, <2>2
<1>6. InLine'
  <2>1. sentCount + 1 = Len(confirmations) + (Len(waitingToSend) + 1)
    BY <1>3
  <2> QED
    BY <1>2, <1>4, <1>5, <2>1 DEF EventInv, InLine
<1>7. HubPrefix'
  <2>1. \A i \in 1..Len(hubTook) : hubTook[i] \in Nat /\ hubTook[i] <= sentCount
    BY EventFacts DEF EventInv, HubPrefix
  <2>2. \A i \in 1..Len(hubTook) : hubTook[i] <= sentCount + 1
    BY <1>3, <2>1
  <2> QED
    BY <1>2, <2>2 DEF EventInv, HubPrefix
<1>8. EventTypeOK' /\ HubOrder'
  BY <1>2, <1>3, <1>4 DEF EventInv, EventTypeOK, HubOrder
<1> QED
  BY <1>6, <1>7, <1>8 DEF EventInv

\* A request after which the list is as it was, whatever the hub took of it.
LEMMA NothingLeaves ==
  ASSUME EventInv, NEW taken \in 0..Len(waitingToSend), hubTook' = hubTook \o FirstNumbers(taken),
         waitingToSend' = waitingToSend, confirmations' = confirmations, sentCount' = sentCount
  PROVE  EventInv'
<1>1. waitingToSend \in Seq(EventSet) /\ EventTypeOK
  BY DEF EventInv, EventTypeOK
<1>2. Len(waitingToSend) \in Nat
  BY <1>1
<1>3. 0 \in 0..Len(waitingToSend)
  BY <1>2
<1>4. SubSeq(waitingToSend, 0 + 1, Len(waitingToSend)) = waitingToSend
  <2>1. SubSeq(waitingToSend, 1, Len(waitingToSend)) = waitingToSend
    BY <1>1, <1>3, BatchFacts
  <2> QED
    BY <2>1
<1>5. confirmations \o FirstTold(0, "ERROR") = confirmations
  BY <1>1, NothingAdded
<1>6. EventsMove(0, taken, "ERROR")
  BY <1>4, <1>5 DEF EventsMove
<1> QED
  BY <1>3, <1>6, EventsMoveInv

\* A request moves messages of the front of the list only: alone or in a batch, refused, lost or accepted.
LEMMA DoEventInv ==
  ASSUME EventInv, DoEvent
  PROVE  EventInv'
<1> DEFINE W == Len(waitingToSend)
<1>1. /\ waitingToSend \in Seq(EventSet) /\ waitingToSend # <<>> /\ W \in Nat /\ W >= 1 /\ EventTypeOK
      /\ UNCHANGED sentCount /\ (SendsBatch \/ SendsOne)
  BY EventFacts, EmptySeq DEF EventInv, EventTypeOK, DoEvent
<1>2. <<Head(waitingToSend)>> = SubSeq(waitingToSend, 1, 1) /\ Tail(waitingToSend) = SubSeq(waitingToSend, 1 + 1, W)
  <2>1. Tail(waitingToSend) = SubSeq(waitingToSend, 2, W)
    BY <1>1, TailIsSubSeq
  <2>2. SubSeq(waitingToSend, 1, 1) = <<waitingToSend[1]>>
    <3> DEFINE s == SubSeq(waitingToSend, 1, 1)
               r == <<waitingToSend[1]>>
    <3>1. waitingToSend[1] \in EventSet
      BY <1>1, ElementOfSeq
    <3>2. s \in Seq(EventSet) /\ Len(s) = 1 /\ s[1] = waitingToSend[1]
      <4>1. \A i \in 1..1 : waitingToSend[i] \in EventSet
        BY <3>1
      <4>2. s \in Seq(EventSet) /\ Len(s) = (IF 1 <= 1 THEN 1 - 1 + 1 ELSE 0) /\ \A i \in 1..1 - 1 + 1 : s[i] = waitingToSend[1 + i - 1]
        BY <4>1, SubSeqProperties
      <4> HIDE DEF s
      <4> QED
        BY <4>2
    <3>3. r \in Seq(EventSet) /\ Len(r) = 1 /\ r[1] = waitingToSend[1]
      BY <3>1
    <3> HIDE DEF s, r
    <3>4. s = r
      BY <3>2, <3>3, SeqEqual
    <3> QED
      BY <3>4 DEF s, r
  <2>3. Head(waitingToSend) = waitingToSend[1]
    BY <1>1
  <2> QED
    BY <2>1, <2>2, <2>3
<1>3. ASSUME NEW n \in 0..W, NEW outcome \in Outcomes, HubTakes(SubSeq(waitingToSend, 1, n), outcome)
      PROVE  \E taken \in {0, n} : /\ hubTook' = hubTook \o FirstNumbers(taken)
                                   /\ outcome = "accepted" => taken = n
  BY <1>1, <1>3, BatchFacts, NothingAdded DEF HubTakes, Outcomes
<1>4. ASSUME NEW n \in 0..W, NEW result, Confirms(SubSeq(waitingToSend, 1, n), result)
      PROVE  confirmations' = confirmations \o FirstTold(n, result)
  BY <1>1, <1>4, BatchFacts DEF Confirms
<1>5. ASSUME waitingToSend' = Tail(waitingToSend), Confirms(<<Head(waitingToSend)>>, "ERROR"), UNCHANGED hubTook
      PROVE  EventInv'
  <2>1. 0 \in 0..W /\ 1 \in 0..W
    BY <1>1
  <2>2. confirmations' = confirmations \o FirstTold(1, "ERROR")
    BY <1>2, <1>4, <1>5, <2>1
  <2>3. hubTook' = hubTook \o FirstNumbers(0)
    BY <1>1, <1>5, NothingAdded
  <2>4. EventsMove(1, 0, "ERROR")
    BY <1>1, <1>2, <1>5, <2>2, <2>3 DEF EventsMove
  <2> QED
    BY <2>1, <2>4, EventsMoveInv
<1>a. sentCount' = sentCount
  BY <1>1
<1>6. CASE SendsBatch
  <2>1. PICK usable \in 1..W : \E n \in {p \in 0..usable : makePayload(p, usable)} :
       LET batch == SubSeq(waitingToSend, 1, n)
           rest == SubSeq(waitingToSend, n + 1, Len(waitingToSend))
       IN IF n = 0
          THEN waitingToSend' = Tail(waitingToSend) /\ Confirms(<<Head(waitingToSend)>>, "ERROR") /\ UNCHANGED hubTook
          ELSE \E outcome \in Outcomes :
                 /\ HubTakes(batch, outcome)
                 /\ IF outcome = "accepted"
                    THEN waitingToSend' = rest /\ Confirms(batch, "OK")
                    ELSE waitingToSend' = reversePutListBackIn(batch, rest) /\ UNCHANGED confirmations
    BY <1>6 DEF SendsBatch
  <2>2. PICK n \in 0..usable :
          IF n = 0
          THEN waitingToSend' = Tail(waitingToSend) /\ Confirms(<<Head(waitingToSend)>>, "ERROR") /\ UNCHANGED hubTook
          ELSE \E outcome \in Outcomes :
                 /\ HubTakes(SubSeq(waitingToSend, 1, n), outcome)
                 /\ IF outcome = "accepted"
                    THEN waitingToSend' = SubSeq(waitingToSend, n + 1, W) /\ Confirms(SubSeq(waitingToSend, 1, n), "OK")
                    ELSE /\ waitingToSend' = SubSeq(waitingToSend, 1, n) \o SubSeq(waitingToSend, n + 1, W)
                         /\ UNCHANGED confirmations
    BY <2>1 DEF reversePutListBackIn
  <2>3. n \in 0..W /\ 0 \in 0..W
    BY <1>1
  <2>4. CASE n = 0
    BY <1>5, <2>2, <2>4
  <2>5. CASE n # 0
    <3>1. PICK outcome \in Outcomes :
            /\ HubTakes(SubSeq(waitingToSend, 1, n), outcome)
            /\ IF outcome = "accepted"
               THEN waitingToSend' = SubSeq(waitingToSend, n + 1, W) /\ Confirms(SubSeq(waitingToSend, 1, n), "OK")
               ELSE /\ waitingToSend' = SubSeq(waitingToSend, 1, n) \o SubSeq(waitingToSend, n + 1, W)
                    /\ UNCHANGED confirmations
      BY <2>2, <2>5
    <3>2. PICK taken \in {0, n} :
            /\ hubTook' = hubTook \o FirstNumbers(taken)
            /\ outcome = "accepted" => taken = n
      BY <1>3, <2>3, <3>1
    <3>3. taken \in 0..W /\ n <= n
      BY <2>3, <3>2
    <3>4. CASE outcome = "accepted"
      <4>1. confirmations' = confirmations \o FirstTold(n, "OK")
        BY <1>4, <2>3, <3>1, <3>4
      <4>2. waitingToSend' = SubSeq(waitingToSend, n + 1, W)
        BY <3>1, <3>4
      <4>3. hubTook' = hubTook \o FirstNumbers(n)
        BY <3>2, <3>4
      <4>4. EventsMove(n, n, "OK")
        BY <1>a, <4>1, <4>2, <4>3 DEF EventsMove
      <4> QED
        BY <2>3, <3>3, <4>4, EventsMoveInv
    <3>5. CASE outcome # "accepted"
      <4>1. SubSeq(waitingToSend, 1, n) \o SubSeq(waitingToSend, n + 1, W) = waitingToSend
        BY <1>1, <2>3, BatchFacts
      <4>2. waitingToSend' = waitingToSend /\ confirmations' = confirmations
        BY <3>1, <3>5, <4>1
      <4>3. hubTook' = hubTook \o FirstNumbers(taken)
        BY <3>2
      <4> QED
        BY <1>a, <3>3, <4>2, <4>3, NothingLeaves
    <3> QED
      BY <3>4, <3>5
  <2> QED
    BY <2>4, <2>5
<1>7. CASE SendsOne
  <2>1. CASE waitingToSend' = Tail(waitingToSend) /\ Confirms(<<Head(waitingToSend)>>, "ERROR") /\ UNCHANGED hubTook
    BY <1>5, <2>1
  <2>2. ASSUME NEW outcome \in Outcomes, HubTakes(<<Head(waitingToSend)>>, outcome),
               IF outcome \in {"accepted", "RECOVERYFAILED"}
               THEN waitingToSend' = Tail(waitingToSend) /\ Confirms(<<Head(waitingToSend)>>, IF outcome = "accepted" THEN "OK" ELSE "ERROR")
               ELSE UNCHANGED <<waitingToSend, confirmations>>
        PROVE  EventInv'
    <3>1. 1 \in 0..W
      BY <1>1
    <3>2. PICK taken \in {0, 1} :
            /\ hubTook' = hubTook \o FirstNumbers(taken)
            /\ outcome = "accepted" => taken = 1
      BY <1>2, <1>3, <2>2, <3>1
    <3>3. taken \in 0..W /\ 1 <= 1
      BY <3>1, <3>2
    <3>4. CASE outcome = "accepted"
      <4>1. Confirms(SubSeq(waitingToSend, 1, 1), "OK") /\ waitingToSend' = SubSeq(waitingToSend, 1 + 1, W)
        BY <1>2, <2>2, <3>4
      <4>2. confirmations' = confirmations \o FirstTold(1, "OK")
        BY <1>4, <3>1, <4>1
      <4>3. hubTook' = hubTook \o FirstNumbers(1)
        BY <3>2, <3>4
      <4>4. EventsMove(1, 1, "OK")
        BY <1>a, <4>1, <4>2, <4>3 DEF EventsMove
      <4> QED
        BY <3>1, <3>3, <4>4, EventsMoveInv
    <3>5. CASE outcome = "RECOVERYFAILED"
      <4>1. Confirms(SubSeq(waitingToSend, 1, 1), "ERROR") /\ waitingToSend' = SubSeq(waitingToSend, 1 + 1, W)
        BY <1>2, <2>2, <3>5
      <4>2. confirmations' = confirmations \o FirstTold(1, "ERROR")
        BY <1>4, <3>1, <4>1
      <4>3. EventsMove(1, taken, "ERROR")
        BY <1>a, <3>2, <4>1, <4>2 DEF EventsMove
      <4> QED
        BY <3>1, <3>3, <4>3, EventsMoveInv
    <3>6. CASE outcome \notin {"accepted", "RECOVERYFAILED"}
      <4>1. waitingToSend' = waitingToSend /\ confirmations' = confirmations
        BY <2>2, <3>6
      <4>2. hubTook' = hubTook \o FirstNumbers(taken)
        BY <3>2
      <4> QED
        BY <1>a, <3>3, <4>1, <4>2, NothingLeaves
    <3> QED
      BY <3>4, <3>5, <3>6
  <2> QED
    BY <1>7, <2>1, <2>2 DEF SendsOne
<1>8. SendsBatch \/ SendsOne
  BY DEF DoEvent
<1> QED
  BY <1>6, <1>7, <1>8

\* The other actions do not touch the events.
LEMMA EventsStay ==
  ASSUME EventInv, UNCHANGED <<waitingToSend, sentCount, hubTook, confirmations>>
  PROVE  EventInv'
<1>1. waitingToSend' = waitingToSend /\ sentCount' = sentCount /\ hubTook' = hubTook /\ confirmations' = confirmations
  OBVIOUS
<1>2. EventTypeOK'
  BY <1>1 DEF EventInv, EventTypeOK
<1>3. InLine'
  BY <1>1, Zenon DEF EventInv, InLine
<1>4. HubPrefix'
  BY <1>1, Zenon DEF EventInv, HubPrefix
<1>5. HubOrder'
  BY <1>1, Zenon DEF EventInv, HubOrder
<1> QED
  BY <1>2, <1>3, <1>4, <1>5 DEF EventInv

\* At the start there are no events.
LEMMA EventsStart == HttpInit => EventInv
<1> SUFFICES ASSUME HttpInit PROVE EventInv
  OBVIOUS
<1>1. waitingToSend = <<>> /\ sentCount = 0 /\ hubTook = <<>> /\ confirmations = <<>>
  BY DEF HttpInit
<1>2. EventTypeOK /\ Len(waitingToSend) = 0 /\ Len(hubTook) = 0 /\ Len(confirmations) = 0
  BY <1>1 DEF EventTypeOK
<1>3. InLine /\ HubPrefix /\ HubOrder
  BY <1>1, <1>2 DEF InLine, HubPrefix, HubOrder
<1> QED
  BY <1>2, <1>3 DEF EventInv

\* Every number has one place: among the confirmations, or behind them in the list.
LEMMA EventsConfirmedOnce == EventInv => HttpConfirmedOnce
<1> SUFFICES ASSUME EventInv PROVE HttpConfirmedOnce
  OBVIOUS
<1> DEFINE L == Len(confirmations)
           W == Len(waitingToSend)
<1>1. /\ L \in Nat /\ W \in Nat /\ sentCount = L + W
      /\ \A i \in 1..L : confirmations[i][1] = i /\ (confirmations[i][2] = "OK" => \E j \in 1..Len(hubTook) : hubTook[j] = i)
      /\ \A i \in 1..W : waitingToSend[i].number = L + i
  BY EventFacts DEF EventInv, InLine
<1>2. \A i \in 1..L : confirmations[i][2] = "OK" => \E j \in 1..Len(hubTook) : hubTook[j] = confirmations[i][1]
  BY <1>1
<1>3. ASSUME NEW n \in 1..sentCount
      PROVE  Cardinality({i \in 1..L : confirmations[i][1] = n}) + Cardinality({i \in 1..W : waitingToSend[i].number = n}) = 1
  <2> DEFINE told == {i \in 1..L : confirmations[i][1] = n}
             waits == {i \in 1..W : waitingToSend[i].number = n}
  <2> HIDE DEF L, W
  <2>0. L \in Nat /\ W \in Nat /\ n \in 1..L + W
    BY <1>1
  <2>1. CASE n <= L
    <3>1. \A i \in 1..L : confirmations[i][1] = n <=> i = n
      BY <1>1
    <3>2. \A i \in 1..W : waitingToSend[i].number # n
      BY <1>1, <2>0, <2>1
    <3>3. told = {n}
      BY <2>0, <2>1, <3>1
    <3>4. waits = {}
      BY <3>2
    <3>5. Cardinality({n}) = 1 /\ Cardinality({}) = 0
      BY FS_EmptySet, FS_Singleton
    <3> HIDE DEF told, waits
    <3>6. Cardinality(told) + Cardinality(waits) = 1
      BY <3>3, <3>4, <3>5
    <3> QED
      BY <3>6 DEF told, waits
  <2>2. CASE ~(n <= L)
    <3>1. \A i \in 1..L : confirmations[i][1] # n
      BY <1>1, <2>0, <2>2
    <3>2. \A i \in 1..W : waitingToSend[i].number = n <=> i = n - L
      BY <1>1, <2>0, <2>2
    <3>3. told = {}
      BY <3>1
    <3>4. waits = {n - L}
      BY <2>0, <2>2, <3>2
    <3>5. Cardinality({n - L}) = 1 /\ Cardinality({}) = 0
      BY FS_EmptySet, FS_Singleton
    <3> HIDE DEF told, waits
    <3>6. Cardinality(told) + Cardinality(waits) = 1
      BY <3>3, <3>4, <3>5
    <3> QED
      BY <3>6 DEF told, waits
  <2> QED
    BY <2>1, <2>2
<1> QED
  BY <1>2, <1>3 DEF HttpConfirmedOnce

\* What the polls rest on: the time that the next poll is measured from is that of the last dialogue.
PollInv ==
  /\ clock \in Nat /\ clock <= MaxClock /\ getMinimumPollingTime \in {0, 1}
  /\ isFirstPoll = (lastDialogue = Unknown)
  /\ lastDialogue \in Nat
  /\ lastDialogue # Unknown => lastPollTime = lastDialogue
  /\ ~polledEarly

\* What the answers rest on: the application has only messages that were fetched.
FetchInv ==
  /\ fetched \in Seq(Nat) /\ keptBack \subseteq 1..Len(fetched)
  /\ FetchedAnsweredOnce /\ ~misread

\* A poll that comes when the code lets it come is not early.
LEMMA PollsStayApart ==
  ASSUME PollInv, NEW timeNow \in {clock, Unknown},
         isFirstPoll \/ timeNow = Unknown \/ timeNow > lastPollTime + getMinimumPollingTime,
         isFirstPoll' = (timeNow = Unknown),
         lastPollTime' = IF timeNow = Unknown THEN lastPollTime ELSE timeNow,
         lastDialogue' = timeNow,
         polledEarly' = (polledEarly \/ (timeNow # Unknown /\ lastDialogue # Unknown /\ timeNow - lastDialogue <= getMinimumPollingTime)),
         clock' = clock, getMinimumPollingTime' = getMinimumPollingTime
  PROVE  PollInv'
<1>1. clock \in Nat /\ clock <= MaxClock /\ MaxClock \in Nat /\ getMinimumPollingTime \in {0, 1} /\ lastDialogue \in Nat /\ ~polledEarly
  BY HttpAssumption DEF PollInv
<1>2. Unknown \in Nat /\ clock # Unknown /\ timeNow \in Nat
  BY <1>1 DEF Unknown
<1>3. Unknown' = Unknown
  BY DEF Unknown
<1>4. ~polledEarly'
  <2> SUFFICES ASSUME timeNow # Unknown, lastDialogue # Unknown PROVE ~(timeNow - lastDialogue <= getMinimumPollingTime)
    BY <1>1
  <2>1. ~isFirstPoll /\ lastPollTime = lastDialogue
    BY DEF PollInv
  <2>2. timeNow > lastDialogue + getMinimumPollingTime
    BY <2>1
  <2> QED
    BY <1>1, <1>2, <2>2
<1> QED
  BY <1>1, <1>2, <1>3, <1>4 DEF PollInv

\* Reading stops at a header that cannot be stored: of the bad ones, a content encoding alone lets the rest be dropped.
LEMMA HeadersAreRead ==
  ASSUME NEW headers \in Headers, ~retrieve_message_properties(headers).failed,
         \A i \in 1..Len(headers) : headers[i].stored \/ headers[i].kind # "ContentEncoding"
  PROVE  retrieve_message_properties(headers).read = 1..Len(headers)
<1> DEFINE read == {i \in 1..Len(headers) : \A j \in 1..i : headers[j].stored}
<1>1. PICK n \in 0..2 : headers \in [1..n -> [kind : {"iothub-app-", "iothub-messageid", "ContentEncoding"}, stored : BOOLEAN]]
  BY DEF Headers
<1>2. Len(headers) = n /\ n \in Nat
  BY <1>1
<1>3. retrieve_message_properties(headers).read = read
  BY DEF retrieve_message_properties
<1>4. ~\E i \in 1..n : ~headers[i].stored /\ \A j \in 1..(i - 1) : j \in read
  <2>1. ~\E i \in 1..n : /\ ~headers[i].stored /\ \A j \in 1..(i - 1) : j \in read
                         /\ headers[i].kind # "ContentEncoding"
    BY <1>2 DEF retrieve_message_properties
  <2> QED
    BY <1>2, <2>1
<1>5. n >= 1 => headers[1].stored
  <2>1. 1 - 1 = 0 /\ \A j \in 1..0 : j \in read
    OBVIOUS
  <2> QED
    BY <1>2, <1>4, <2>1
<1>6. n >= 1 => 1 \in read
  BY <1>2, <1>5
<1>7. n = 2 => headers[2].stored
  <2> SUFFICES ASSUME n = 2, ~headers[2].stored PROVE FALSE
    OBVIOUS
  <2>1. \A j \in 1..(2 - 1) : j = 1
    OBVIOUS
  <2>2. 2 \in 1..n /\ \A j \in 1..(2 - 1) : j \in read
    BY <1>2, <1>6, <2>1
  <2> QED
    BY <1>4, <2>2
<1>8. \A i \in 1..n : headers[i].stored
  BY <1>2, <1>5, <1>7
<1>9. read = 1..n
  BY <1>2, <1>8
<1> QED
  BY <1>2, <1>3, <1>9

\* A fetched message has one answer, or the application has it: answered at once, kept back, or answered later.
LEMMA FetchedStaysAnswered ==
  ASSUME FetchInv, NEW readable \in BOOLEAN, NEW wanted \in BOOLEAN,
         fetched' = Append(fetched, Answers(readable, wanted)[1]),
         keptBack' = IF Answers(readable, wanted)[2] THEN keptBack \cup {Len(fetched) + 1} ELSE keptBack,
         ~misread'
  PROVE  FetchInv'
<1>1. Len(fetched) \in Nat /\ fetched \in Seq(Nat) /\ keptBack \subseteq 1..Len(fetched)
  BY DEF FetchInv
<1>2. PICK a \in {0, 1} : /\ fetched' = Append(fetched, a)
                          /\ keptBack' = IF a = 0 THEN keptBack \cup {Len(fetched) + 1} ELSE keptBack
  <2>1. CASE readable /\ wanted
    BY <2>1 DEF Answers
  <2>2. CASE ~(readable /\ wanted)
    BY <2>2 DEF Answers
  <2> QED
    BY <2>1, <2>2
<1>3. /\ fetched' \in Seq(Nat) /\ Len(fetched') = Len(fetched) + 1 /\ fetched'[Len(fetched) + 1] = a
      /\ \A m \in 1..Len(fetched) : fetched'[m] = fetched[m]
  BY <1>1, <1>2
<1>4. keptBack' \subseteq 1..Len(fetched) + 1
  <2>1. Len(fetched) \in Nat /\ keptBack \subseteq 1..Len(fetched)
    BY <1>1
  <2>2. keptBack' = keptBack \/ keptBack' = keptBack \cup {Len(fetched) + 1}
    BY <1>2
  <2>3. ASSUME NEW k \in keptBack' PROVE k \in 1..Len(fetched) + 1
    <3>1. k \in 1..Len(fetched) \/ k = Len(fetched) + 1
      BY <2>1, <2>2, <2>3
    <3> QED
      BY <2>1, <3>1
  <2> QED
    BY <2>3
<1>5. ASSUME NEW m \in 1..Len(fetched) + 1
      PROVE  fetched'[m] + (IF m \in keptBack' THEN 1 ELSE 0) = 1
  <2>1. CASE m \in 1..Len(fetched)
    <3>1. fetched[m] + (IF m \in keptBack THEN 1 ELSE 0) = 1 /\ fetched'[m] = fetched[m]
      BY <1>3, <2>1 DEF FetchInv, FetchedAnsweredOnce
    <3>2. m \in keptBack' <=> m \in keptBack
      BY <1>1, <1>2, <2>1
    <3> QED
      BY <3>1, <3>2
  <2>2. CASE m = Len(fetched) + 1
    <3>1. m \notin keptBack /\ fetched'[m] = a
      BY <1>1, <1>3, <2>2
    <3>2. m \in keptBack' <=> a = 0
      BY <1>2, <2>2, <3>1
    <3> QED
      BY <3>1, <3>2
  <2> QED
    BY <1>1, <2>1, <2>2
<1>6. FetchedAnsweredOnce'
  BY <1>3, <1>5 DEF FetchedAnsweredOnce
<1> QED
  BY <1>3, <1>4, <1>6 DEF FetchInv

\* The application answers for a message once.
LEMMA DispositionAnswersOnce ==
  ASSUME FetchInv, NEW m \in keptBack, keptBack' = keptBack \ {m}, fetched' = [fetched EXCEPT ![m] = @ + 1], misread' = misread
  PROVE  FetchInv'
<1> DEFINE f == [fetched EXCEPT ![m] = fetched[m] + 1]
<1>1. Len(fetched) \in Nat /\ fetched \in Seq(Nat) /\ keptBack \subseteq 1..Len(fetched) /\ m \in 1..Len(fetched)
  BY DEF FetchInv
<1>2. \A i \in 1..Len(fetched) : fetched[i] \in Nat
  BY <1>1, ElementOfSeq
<1>3. /\ f \in Seq(Nat) /\ Len(f) = Len(fetched)
      /\ \A i \in 1..Len(fetched) : f[i] = IF i = m THEN fetched[m] + 1 ELSE fetched[i]
  <2>1. fetched[m] + 1 \in Nat
    BY <1>1, <1>2
  <2> QED
    BY <1>1, <2>1, ExceptSeq
<1>4. fetched' = f
  OBVIOUS
<1> HIDE DEF f
<1>5. ASSUME NEW i \in 1..Len(fetched) PROVE f[i] + (IF i \in keptBack \ {m} THEN 1 ELSE 0) = 1
  <2>1. fetched[i] + (IF i \in keptBack THEN 1 ELSE 0) = 1 /\ fetched[i] \in Nat
    BY <1>2 DEF FetchInv, FetchedAnsweredOnce
  <2>2. CASE i = m
    BY <1>3, <2>1, <2>2
  <2>3. CASE i # m
    BY <1>3, <2>1, <2>3
  <2> QED
    BY <2>2, <2>3
<1>6. FetchedAnsweredOnce'
  BY <1>3, <1>4, <1>5 DEF FetchedAnsweredOnce
<1>7. keptBack' \subseteq 1..Len(fetched) /\ ~misread'
  BY <1>1 DEF FetchInv
<1> QED
  BY <1>3, <1>4, <1>6, <1>7 DEF FetchInv

\* A poll is in time, and what it brings is answered for or kept back, and read whole.
LEMMA DoMessagesInv ==
  ASSUME PollInv, FetchInv, DoMessages
  PROVE  PollInv' /\ FetchInv'
<1>1. PICK timeNow \in {clock, Unknown}, answer \in {"message", "untagged", "nothing", "error", "none"} :
       /\ isFirstPoll \/ timeNow = Unknown \/ timeNow > lastPollTime + getMinimumPollingTime
       /\ IF answer = "none" THEN UNCHANGED <<isFirstPoll, lastPollTime, lastDialogue, polledEarly>>
          ELSE /\ RecordsPoll(timeNow, answer = "message")
               /\ lastDialogue' = timeNow
               /\ polledEarly' = (polledEarly \/ (timeNow # Unknown /\ lastDialogue # Unknown
                                                  /\ timeNow - lastDialogue <= getMinimumPollingTime))
       /\ IF answer = "message"
          THEN \E created, wanted \in BOOLEAN : \E headers \in Headers :
                 LET readable == created /\ ~retrieve_message_properties(headers).failed IN
                 /\ misread' = (misread \/ (readable /\ retrieve_message_properties(headers).read # 1..Len(headers)
                                            /\ \A i \in 1..Len(headers) : headers[i].stored \/ headers[i].kind # "ContentEncoding"))
                 /\ fetched' = Append(fetched, Answers(readable, wanted)[1])
                 /\ keptBack' = IF Answers(readable, wanted)[2] THEN keptBack \cup {Len(fetched) + 1} ELSE keptBack
          ELSE UNCHANGED fetchVars
  BY DEF DoMessages
<1>2. clock' = clock /\ getMinimumPollingTime' = getMinimumPollingTime
  BY DEF DoMessages
<1>3. PollInv'
  <2>1. CASE answer = "none"
    BY <1>1, <1>2, <2>1 DEF PollInv, Unknown
  <2>2. CASE answer # "none"
    <3>1. /\ isFirstPoll' = (timeNow = Unknown)
          /\ lastPollTime' = IF timeNow = Unknown THEN lastPollTime ELSE timeNow
          /\ lastDialogue' = timeNow
          /\ polledEarly' = (polledEarly \/ (timeNow # Unknown /\ lastDialogue # Unknown
                                             /\ timeNow - lastDialogue <= getMinimumPollingTime))
      BY <1>1, <2>2 DEF RecordsPoll
    <3>2. isFirstPoll \/ timeNow = Unknown \/ timeNow > lastPollTime + getMinimumPollingTime
      BY <1>1
    <3> QED
      BY <1>2, <3>1, <3>2, PollsStayApart
  <2> QED
    BY <2>1, <2>2
<1>4. FetchInv'
  <2>1. CASE answer # "message"
    BY <1>1, <2>1 DEF FetchInv, FetchedAnsweredOnce, fetchVars
  <2>2. CASE answer = "message"
    <3>1. PICK created \in BOOLEAN, wanted \in BOOLEAN, headers \in Headers :
            LET readable == created /\ ~retrieve_message_properties(headers).failed IN
            /\ misread' = (misread \/ (readable /\ retrieve_message_properties(headers).read # 1..Len(headers)
                                       /\ \A i \in 1..Len(headers) : headers[i].stored \/ headers[i].kind # "ContentEncoding"))
            /\ fetched' = Append(fetched, Answers(readable, wanted)[1])
            /\ keptBack' = IF Answers(readable, wanted)[2] THEN keptBack \cup {Len(fetched) + 1} ELSE keptBack
      BY <1>1, <2>2
    <3> DEFINE readable == created /\ ~retrieve_message_properties(headers).failed
    <3>2. /\ misread' = (misread \/ (readable /\ retrieve_message_properties(headers).read # 1..Len(headers)
                                     /\ \A i \in 1..Len(headers) : headers[i].stored \/ headers[i].kind # "ContentEncoding"))
          /\ fetched' = Append(fetched, Answers(readable, wanted)[1])
          /\ keptBack' = IF Answers(readable, wanted)[2] THEN keptBack \cup {Len(fetched) + 1} ELSE keptBack
      BY <3>1
    <3>3. readable \in BOOLEAN /\ (readable => ~retrieve_message_properties(headers).failed)
      OBVIOUS
    <3> HIDE DEF readable
    <3>4. ~misread'
      BY <3>2, <3>3, HeadersAreRead DEF FetchInv
    <3> QED
      BY <3>2, <3>3, <3>4, FetchedStaysAnswered
  <2> QED
    BY <2>1, <2>2
<1> QED
  BY <1>3, <1>4

\* The messages that were fetched go with their device: the other parts of the two invariants are as they were.
LEMMA MessagesForgotten ==
  ASSUME FetchInv, fetched' = <<>>, keptBack' = {}, misread' = misread
  PROVE  FetchInv'
<1>1. fetched' \in Seq(Nat) /\ Len(fetched') = 0 /\ keptBack' = {} /\ ~misread'
  BY DEF FetchInv
<1>2. \A m \in 1..Len(fetched') : fetched'[m] + (IF m \in keptBack' THEN 1 ELSE 0) = 1
  BY <1>1
<1> QED
  BY <1>1, <1>2 DEF FetchInv, FetchedAnsweredOnce

\* The polls and the messages keep their invariants, whatever the transport does.
LEMMA MessageStep ==
  ASSUME PollInv, FetchInv, HttpNext
  PROVE  PollInv' /\ FetchInv'
<1>1. ASSUME UNCHANGED <<clock, getMinimumPollingTime, isFirstPoll, lastPollTime, lastDialogue, polledEarly>> PROVE PollInv'
  BY <1>1 DEF PollInv, Unknown
<1>2. ASSUME UNCHANGED <<fetched, keptBack, misread>> PROVE FetchInv'
  BY <1>2 DEF FetchInv, FetchedAnsweredOnce
<1>3. CASE IoTHubTransportHttp_Create
  <2>1. getMinimumPollingTime' \in {0, 1} /\ UNCHANGED <<clock, isFirstPoll, lastPollTime, lastDialogue, polledEarly>>
    BY <1>3 DEF IoTHubTransportHttp_Create, PollInv, pollVars
  <2>2. PollInv'
    BY <2>1 DEF PollInv, Unknown
  <2>3. UNCHANGED <<fetched, keptBack, misread>>
    BY <1>3 DEF IoTHubTransportHttp_Create, pollVars, fetchVars
  <2> QED
    BY <1>2, <2>2, <2>3
<1>4. CASE IoTHubTransportHttp_Destroy \/ IoTHubTransportHttp_Unregister
  <2>1. /\ UNCHANGED <<clock, getMinimumPollingTime, isFirstPoll, lastPollTime, lastDialogue, polledEarly>>
        /\ fetched' = <<>> /\ keptBack' = {} /\ misread' = misread
    BY <1>4 DEF IoTHubTransportHttp_Destroy, IoTHubTransportHttp_Unregister
  <2> QED
    BY <1>1, <2>1, MessagesForgotten
<1>5. CASE IoTHubTransportHttp_Register
  <2>1. /\ \/ isFirstPoll' = TRUE /\ lastDialogue' = Unknown
           \/ UNCHANGED <<isFirstPoll, lastDialogue>>
        /\ UNCHANGED <<clock, getMinimumPollingTime, lastPollTime, polledEarly>>
        /\ UNCHANGED <<fetched, keptBack, misread>>
    BY <1>5 DEF IoTHubTransportHttp_Register, fetchVars
  <2>2. Unknown \in Nat
    BY HttpAssumption DEF Unknown
  <2>3. PollInv'
    BY <2>1, <2>2 DEF PollInv, Unknown
  <2> QED
    BY <1>2, <2>1, <2>3
<1>6. CASE IoTHubTransportHttp_SetOption
  <2>1. getMinimumPollingTime' \in {0, 1} /\ UNCHANGED <<clock, isFirstPoll, lastPollTime, lastDialogue, polledEarly>>
    BY <1>6 DEF IoTHubTransportHttp_SetOption, pollVars
  <2>2. PollInv'
    BY <2>1 DEF PollInv, Unknown
  <2>3. UNCHANGED <<fetched, keptBack, misread>>
    BY <1>6 DEF IoTHubTransportHttp_SetOption, pollVars, fetchVars
  <2> QED
    BY <1>2, <2>2, <2>3
<1>7. CASE HttpEventStep
  <2>1. /\ UNCHANGED <<clock, getMinimumPollingTime, isFirstPoll, lastPollTime, lastDialogue, polledEarly>>
        /\ UNCHANGED <<fetched, keptBack, misread>>
    BY <1>7 DEF HttpEventStep, SendEvent, DoEvent, pollVars, fetchVars
  <2> QED
    BY <1>1, <1>2, <2>1
<1>8. CASE \E pull \in BOOLEAN : IoTHubTransportHttp_Subscribe(pull)
  <2>1. /\ UNCHANGED <<clock, getMinimumPollingTime, isFirstPoll, lastPollTime, lastDialogue, polledEarly>>
        /\ UNCHANGED <<fetched, keptBack, misread>>
    BY <1>8 DEF IoTHubTransportHttp_Subscribe, pollVars, fetchVars
  <2> QED
    BY <1>1, <1>2, <2>1
<1>9. CASE DoMessages
  BY <1>9, DoMessagesInv
<1>10. CASE IoTHubTransportHttp_SendMessageDisposition
  <2>1. UNCHANGED <<clock, getMinimumPollingTime, isFirstPoll, lastPollTime, lastDialogue, polledEarly>>
    BY <1>10 DEF IoTHubTransportHttp_SendMessageDisposition
  <2>2. PICK m \in keptBack : keptBack' = keptBack \ {m} /\ fetched' = [fetched EXCEPT ![m] = @ + 1]
    BY <1>10 DEF IoTHubTransportHttp_SendMessageDisposition
  <2>3. misread' = misread
    BY <1>10 DEF IoTHubTransportHttp_SendMessageDisposition
  <2>4. FetchInv'
    BY <2>2, <2>3, DispositionAnswersOnce
  <2> QED
    BY <1>1, <2>1, <2>4
<1>11. CASE HttpTick
  <2>1. clock < MaxClock /\ clock' = clock + 1 /\ UNCHANGED <<getMinimumPollingTime, isFirstPoll, lastPollTime, lastDialogue, polledEarly>>
    BY <1>11 DEF HttpTick, pollVars
  <2>2. UNCHANGED <<fetched, keptBack, misread>>
    BY <1>11 DEF HttpTick, pollVars, fetchVars
  <2>3. PollInv'
    BY <2>1, HttpAssumption DEF PollInv, Unknown
  <2> QED
    BY <1>2, <2>2, <2>3
<1> QED
  BY <1>3, <1>4, <1>5, <1>6, <1>7, <1>8, <1>9, <1>10, <1>11 DEF HttpNext, HttpDeviceStep, HttpMessageStep

\* The events keep their invariant, whatever the transport does.
LEMMA EventStep ==
  ASSUME EventInv, HttpNext
  PROVE  EventInv'
<1>1. CASE SendEvent
  BY <1>1, SendEventInv
<1>2. CASE DoEvent
  BY <1>2, DoEventInv
<1>3. CASE HttpDeviceStep \/ HttpMessageStep
  <2>1. UNCHANGED <<waitingToSend, sentCount, hubTook, confirmations>>
    <3>1. CASE HttpDeviceStep
      BY <3>1 DEF HttpDeviceStep, IoTHubTransportHttp_Create, IoTHubTransportHttp_Destroy, IoTHubTransportHttp_Register,
                  IoTHubTransportHttp_Unregister, IoTHubTransportHttp_SetOption, eventVars
    <3>2. CASE HttpMessageStep
      BY <3>2 DEF HttpMessageStep, IoTHubTransportHttp_Subscribe, DoMessages,
                  IoTHubTransportHttp_SendMessageDisposition, HttpTick, eventVars
    <3> QED
      BY <1>3, <3>1, <3>2
  <2> QED
    BY <2>1, EventsStay
<1> QED
  BY <1>1, <1>2, <1>3 DEF HttpNext, HttpEventStep

PartNames == {"deviceId", "deviceKey", "sasObject", "eventHTTPrelativePath", "messageHTTPrelativePath",
              "eventHTTPrequestHeaders", "messageHTTPrequestHeaders", "abandonHTTPrelativePathBegin"}

\* A device with a key has as many parts as it needs; of the others fewer are enough.
LEMMA KeyNeedsAllParts ==
  ASSUME NEW done \in 0..Len(PartsOf("deviceKey")), done >= Enough("deviceKey")
  PROVE  done = Len(PartsOf("deviceKey"))
<1>1. Enough("deviceKey") = Len(PartsOf("deviceKey"))
  BY DEF Enough
<1>2. PartsOf("deviceKey") \in Seq(PartNames)
  <2> DEFINE a == <<"deviceId">>
             b == <<"deviceKey">>
             c == <<"eventHTTPrelativePath", "messageHTTPrelativePath", "eventHTTPrequestHeaders",
                    "messageHTTPrequestHeaders", "abandonHTTPrelativePathBegin">>
             d == <<"sasObject">>
  <2>1. a \in Seq(PartNames) /\ b \in Seq(PartNames) /\ c \in Seq(PartNames) /\ d \in Seq(PartNames)
    BY DEF PartNames
  <2>2. PartsOf("deviceKey") = ((a \o b) \o c) \o d
    BY DEF PartsOf
  <2> HIDE DEF a, b, c, d
  <2>3. ((a \o b) \o c) \o d \in Seq(PartNames)
    BY <2>1
  <2> QED
    BY <2>2, <2>3
<1>3. Len(PartsOf("deviceKey")) \in Nat
  BY <1>2
<1> QED
  BY <1>1, <1>3

\* A refused device gives back its parts, and one that is added with a key has them all.
LEMMA DeviceStep ==
  ASSUME DevicesWhole, HttpNext
  PROVE  DevicesWhole'
<1>1. ASSUME UNCHANGED <<device, spilled>> PROVE DevicesWhole'
  BY <1>1 DEF DevicesWhole, Whole
<1>2. CASE IoTHubTransportHttp_Create
  <2>1. PICK done \in 0..Len(TransportParts) :
          /\ transport' = (done = Len(TransportParts))
          /\ spilled' = spilled \cup (IF transport' THEN {} ELSE {TransportParts[i] : i \in 1..done} \ {"hostName", "httpApiExHandle"})
    BY <1>2 DEF IoTHubTransportHttp_Create
  <2>2. Len(TransportParts) = 3 /\ TransportParts[1] = "hostName" /\ TransportParts[2] = "httpApiExHandle"
    BY DEF TransportParts
  <2>3. CASE done = 3
    BY <1>1, <1>2, <2>1, <2>2, <2>3 DEF IoTHubTransportHttp_Create
  <2>4. CASE done # 3
    <3>1. done \in 0..2
      BY <2>2, <2>4
    <3>2. \A i \in 1..done : TransportParts[i] \in {"hostName", "httpApiExHandle"}
      BY <2>2, <3>1
    <3>3. spilled' = spilled
      BY <2>1, <3>2
    <3> QED
      BY <1>1, <1>2, <3>3 DEF IoTHubTransportHttp_Create
  <2> QED
    BY <2>3, <2>4
<1>3. CASE IoTHubTransportHttp_Destroy \/ IoTHubTransportHttp_Unregister
  <2>1. spilled' = spilled /\ device' = Absent
    BY <1>3 DEF IoTHubTransportHttp_Destroy, IoTHubTransportHttp_Unregister
  <2>2. device'.auth # "deviceKey"
    BY <2>1 DEF Absent
  <2> QED
    BY <2>1, <2>2 DEF DevicesWhole
<1>4. CASE IoTHubTransportHttp_Register
  <2>0. PICK auth \in CredentialKinds : \E done \in 0..Len(PartsOf(auth)) : \E room \in BOOLEAN :
          LET created == {PartsOf(auth)[i] : i \in 1..done} IN
          IF done >= Enough(auth) /\ room
          THEN device' = [auth |-> auth, parts |-> created] /\ UNCHANGED spilled
          ELSE spilled' = spilled \cup (created \ GivesBack(auth, done)) /\ UNCHANGED device
    BY <1>4 DEF IoTHubTransportHttp_Register
  <2>1. PICK done \in 0..Len(PartsOf(auth)), room \in BOOLEAN :
          LET created == {PartsOf(auth)[i] : i \in 1..done} IN
          IF done >= Enough(auth) /\ room
          THEN device' = [auth |-> auth, parts |-> created] /\ UNCHANGED spilled
          ELSE spilled' = spilled \cup (created \ GivesBack(auth, done)) /\ UNCHANGED device
    BY <2>0
  <2>2. CASE done >= Enough(auth) /\ room
    <3>1. device' = [auth |-> auth, parts |-> {PartsOf(auth)[i] : i \in 1..done}] /\ spilled' = spilled
      BY <2>1, <2>2
    <3>2. auth = "deviceKey" => done = Len(PartsOf(auth))
      BY <2>2, KeyNeedsAllParts
    <3>3. auth = "deviceKey" => device'.parts = {PartsOf(device'.auth)[i] : i \in 1..Len(PartsOf(device'.auth))}
      BY <3>1, <3>2
    <3>4. device'.auth = auth
      BY <3>1
    <3> QED
      BY <3>1, <3>3, <3>4 DEF DevicesWhole, Whole
  <2>3. CASE ~(done >= Enough(auth) /\ room)
    <3>1. device' = device /\ spilled' = spilled \cup ({PartsOf(auth)[i] : i \in 1..done} \ GivesBack(auth, done))
      BY <2>1, <2>3
    <3>2. spilled' = spilled
      BY <3>1 DEF GivesBack
    <3> QED
      BY <1>1, <3>1, <3>2
  <2> QED
    BY <2>2, <2>3
<1>5. CASE IoTHubTransportHttp_SetOption \/ HttpEventStep \/ HttpMessageStep
  <2>1. UNCHANGED <<device, spilled>>
    BY <1>5 DEF IoTHubTransportHttp_SetOption, HttpEventStep, SendEvent, DoEvent, HttpMessageStep, IoTHubTransportHttp_Subscribe, DoMessages,
                IoTHubTransportHttp_SendMessageDisposition, HttpTick, deviceVars
  <2> QED
    BY <1>1, <2>1
<1> QED
  BY <1>2, <1>3, <1>4, <1>5 DEF HttpNext, HttpDeviceStep

\* The invariant of the HTTP transport: of its events, its polls, its messages and its devices.
HttpInv == EventInv /\ PollInv /\ FetchInv /\ DevicesWhole

\* Whatever requests fail, are lost or are answered late: every message of the application is confirmed once
\* and in order, OK only when the hub took it, the hub is polled with pauses, every message it gives has one
\* answer and all its headers, and a device is added whole or gives back what it is made of.
THEOREM HttpIsSound == HttpSpec => []HttpSound
<1>1. HttpInit => HttpInv
  <2> SUFFICES ASSUME HttpInit PROVE HttpInv
    OBVIOUS
  <2>1. PollInv
    <3>1. Unknown \in Nat /\ MaxClock \in Nat
      BY HttpAssumption DEF Unknown
    <3>2. clock = 0 /\ getMinimumPollingTime = 1 /\ isFirstPoll = TRUE /\ lastDialogue = Unknown /\ polledEarly = FALSE
      BY DEF HttpInit
    <3>3. isFirstPoll = (lastDialogue = Unknown)
      BY <3>2, Zenon
    <3> QED
      BY <3>1, <3>2, <3>3 DEF PollInv
  <2>2. fetched = <<>> /\ keptBack = {} /\ misread = FALSE
    BY DEF HttpInit
  <2>3. fetched \in Seq(Nat) /\ Len(fetched) = 0
    BY <2>2
  <2>4. FetchInv
    BY <2>2, <2>3 DEF FetchInv, FetchedAnsweredOnce
  <2>5. DevicesWhole
    BY DEF HttpInit, DevicesWhole, Absent
  <2> QED
    BY <2>1, <2>4, <2>5, EventsStart DEF HttpInv
<1>2. HttpInv /\ [HttpNext]_httpVars => HttpInv'
  <2>1. CASE HttpNext
    BY <2>1, EventStep, MessageStep, DeviceStep DEF HttpInv
  <2>2. CASE UNCHANGED httpVars
    <3>1. HttpInv => EventInv'
      BY <2>2, EventsStay DEF httpVars, eventVars, HttpInv
    <3>2. HttpInv => PollInv' /\ FetchInv' /\ DevicesWhole'
      BY <2>2 DEF httpVars, fetchVars, deviceVars, HttpInv, PollInv, Unknown, FetchInv, FetchedAnsweredOnce, DevicesWhole, Whole
    <3> QED
      BY <3>1, <3>2 DEF HttpInv
  <2> QED
    BY <2>1, <2>2
<1>3. HttpInv => HttpSound
  BY EventsConfirmedOnce DEF HttpInv, EventInv, PollInv, FetchInv, HttpSound, HttpSettled, HttpPolling, PollsApart, DeliveredWhole
<1> QED
  BY <1>1, <1>2, <1>3, PTL DEF HttpSpec

-----------------------------------------------------------------------------
(* Uploads *)

Blocks == [first : Nat, last : Nat]
Stored(blocks) == \A i \in 1..Len(blocks) : blocks[i] \in storage

\* The whole of the data is in the list, and storage has it.
Complete ==
  /\ Covers(blockIDList, dataSource.taken) /\ Stored(blockIDList)
  /\ dataSource.kind = "file" => dataSource.taken = dataSource.size

UploadTypeOK ==
  /\ blockIDList \in Seq(Blocks) /\ Len(blockIDList) <= MAX_BLOCK_COUNT
  /\ dataSource.size \in Nat /\ dataSource.taken \in Nat
  /\ DOMAIN dataSource = {"kind", "size", "taken"}
  /\ dataSource.kind = "file" => dataSource.taken <= dataSource.size
  /\ blobResult \in {"BLOB_OK", "BLOB_ABORTED", "BLOB_ERROR"}

\* What holds while an upload stands somewhere: until it ends nobody is told of it, and what would be
\* committed, or was, is complete.
UploadStages ==
  /\ uploadStage \in {"idle", "asking", "blocks", "blocksDone", "telling", "returned"}
  /\ uploadStage # "returned" => hubTold = "nothing" /\ uploadResult = "none" /\ lastCall = <<>>
  /\ uploadStage = "idle" => blockIDList = <<>>
  /\ uploadStage = "asking" => blockIDList = <<>> /\ dataSource.taken = 0
  /\ uploadStage = "blocks" => Covers(blockIDList, dataSource.taken) /\ Stored(blockIDList)
  /\ uploadStage = "blocksDone" /\ Commits => Complete
  /\ uploadStage = "telling" /\ Commits => committed = blockIDList /\ Complete

UploadInv == UploadTypeOK /\ UploadStages /\ UploadHonest

\* A list that covers some data from its beginning is not the one that stands for no list.
LEMMA CoveringIsCommitted ==
  ASSUME NEW blocks, NEW size, Covers(blocks, size)
  PROVE  blocks # NotYet
<1>1. Len(NotYet) = 1 /\ NotYet[1].first = 0
  BY DEF NotYet
<1>2. 1 \in 1..Len(NotYet)
  BY <1>1
<1>3. ~(NotYet[1].first = 1)
  BY <1>1
<1> QED
  BY <1>2, <1>3 DEF Covers

\* The next block of the data keeps the list without a gap or an overlap.
LEMMA NextBlockCovers ==
  ASSUME NEW blocks \in Seq(Blocks), NEW taken \in Nat, NEW size \in Nat, Covers(blocks, taken)
  PROVE  Covers(Append(blocks, [first |-> taken + 1, last |-> taken + size]), taken + size)
<1> DEFINE b == [first |-> taken + 1, last |-> taken + size]
           r == Append(blocks, b)
<1>1. b \in Blocks /\ b.first = taken + 1 /\ b.last = taken + size
  BY DEF Blocks
<1> HIDE DEF b
<1>2. /\ r \in Seq(Blocks) /\ Len(blocks) \in Nat /\ Len(r) = Len(blocks) + 1 /\ r[Len(blocks) + 1] = b
      /\ \A i \in 1..Len(blocks) : r[i] = blocks[i]
  BY <1>1
<1>3. r # <<>>
  BY <1>2
<1> HIDE DEF r
<1>4. ASSUME NEW i \in 1..Len(blocks) + 1
      PROVE  r[i].first = IF i = 1 THEN 1 ELSE r[i - 1].last + 1
  <2>1. CASE i \in 1..Len(blocks)
    <3>1. blocks[i].first = IF i = 1 THEN 1 ELSE blocks[i - 1].last + 1
      BY <2>1 DEF Covers
    <3>2. i # 1 => i - 1 \in 1..Len(blocks)
      BY <1>2, <2>1
    <3> QED
      BY <1>2, <2>1, <3>1, <3>2
  <2>2. CASE i = Len(blocks) + 1
    <3>1. CASE Len(blocks) = 0
      <4>1. blocks = <<>>
        BY <3>1, EmptySeq
      <4>2. taken = 0
        BY <4>1 DEF Covers
      <4> QED
        BY <1>1, <1>2, <2>2, <3>1, <4>2
    <3>2. CASE Len(blocks) # 0
      <4>1. blocks # <<>>
        BY <3>2
      <4>2. taken = blocks[Len(blocks)].last /\ Len(blocks) \in 1..Len(blocks)
        BY <1>2, <3>2, <4>1 DEF Covers
      <4>3. i - 1 = Len(blocks) /\ i # 1 /\ r[i] = b /\ r[i - 1] = blocks[Len(blocks)]
        BY <1>2, <2>2, <3>2, <4>2
      <4> QED
        BY <1>1, <4>2, <4>3
    <3> QED
      BY <3>1, <3>2
  <2> QED
    BY <1>2, <2>1, <2>2
<1>5. taken + size = IF r = <<>> THEN 0 ELSE r[Len(r)].last
  BY <1>1, <1>2, <1>3
<1>6. Covers(r, taken + size)
  BY <1>2, <1>4, <1>5 DEF Covers
<1> QED
  BY <1>6 DEF r, b

\* Steps that do not end the upload tell nobody of it.
LEMMA NotTold ==
  ASSUME UploadTypeOK', uploadStage' # "returned", hubTold' = "nothing", uploadResult' = "none", lastCall' = <<>>
  PROVE  UploadHonest'
<1>1. UploadWhole'
  BY DEF UploadWhole, UploadTypeOK
<1>2. HubAgrees' /\ LastCallOnce'
  BY DEF HubAgrees, LastCallOnce
<1> QED
  BY <1>1, <1>2 DEF UploadHonest

\* An upload that fails before a block was sent is told to its caller alone.
LEMMA FailsEarly ==
  ASSUME UploadInv, uploadStage # "returned", Returns("ERROR"), UNCHANGED <<blobVars, hubTold>>, UploadTypeOK'
  PROVE  UploadInv'
<1>1. hubTold' = "nothing" /\ uploadResult' = "ERROR" /\ uploadStage' = "returned"
  BY DEF UploadInv, UploadStages, Returns
<1>2. lastCall' = <<"ERROR">>
  BY DEF UploadInv, UploadStages, Returns
<1>3. UploadWhole'
  BY <1>1 DEF UploadWhole, UploadTypeOK
<1>4. HubAgrees' /\ LastCallOnce'
  BY <1>1, <1>2 DEF HubAgrees, LastCallOnce
<1>5. UploadStages'
  BY <1>1 DEF UploadStages
<1> QED
  BY <1>3, <1>4, <1>5 DEF UploadInv, UploadHonest

\* Making the uploader, setting its certificate and ending it leaves the upload alone.
LEMMA UploadStays ==
  ASSUME UploadInv, UNCHANGED <<uploadStage, dataSource, blockIDList, storage, httpStatus, committed, blobResult, hubTold, uploadResult, lastCall>>
  PROVE  UploadInv'
BY DEF UploadInv, UploadTypeOK, UploadStages, Commits, Complete, Covers, Stored, UploadHonest, UploadWhole, HubAgrees, LastCallOnce

\* The upload begins, and asks the hub where to store.
LEMMA BeginsInv ==
  ASSUME UploadInv, IoTHubClient_LL_UploadToBlob_Impl \/ IoTHubClient_LL_UploadToBlob_step1and2
  PROVE  UploadInv'
<1>1. CASE IoTHubClient_LL_UploadToBlob_Impl
  <2>1. PICK kind \in {"file", "application"}, size \in 0..MaxData : dataSource' = [kind |-> kind, size |-> size, taken |-> 0]
    BY <1>1 DEF IoTHubClient_LL_UploadToBlob_Impl
  <2>2. UNCHANGED <<blobVars, hubTold>> /\ uploadStage = "idle"
    BY <1>1 DEF IoTHubClient_LL_UploadToBlob_Impl
  <2>3. size \in Nat
    BY UploadAssumption
  <2>4. UploadTypeOK'
    BY <2>1, <2>2, <2>3 DEF UploadInv, UploadTypeOK, blobVars
  <2>5. CASE Returns("ERROR")
    BY <2>2, <2>4, <2>5, FailsEarly
  <2>6. CASE uploadStage' = "asking" /\ UNCHANGED <<uploadResult, lastCall>>
    <3>1. UploadHonest'
      BY <2>2, <2>4, <2>6, NotTold DEF UploadInv, UploadStages
    <3>2. UploadStages'
      BY <2>1, <2>2, <2>6 DEF UploadInv, UploadStages, blobVars
    <3> QED
      BY <2>4, <3>1, <3>2 DEF UploadInv
  <2> QED
    BY <1>1, <2>5, <2>6 DEF IoTHubClient_LL_UploadToBlob_Impl
<1>2. CASE IoTHubClient_LL_UploadToBlob_step1and2
  <2>1. UNCHANGED <<dataSource, blobVars, hubTold>> /\ uploadStage = "asking"
    BY <1>2 DEF IoTHubClient_LL_UploadToBlob_step1and2
  <2>2. UploadTypeOK'
    BY <2>1 DEF UploadInv, UploadTypeOK, blobVars
  <2>3. CASE Returns("ERROR")
    BY <2>1, <2>2, <2>3, FailsEarly
  <2>4. CASE uploadStage' = "blocks" /\ UNCHANGED <<uploadResult, lastCall>>
    <3>1. UploadHonest'
      BY <2>1, <2>2, <2>4, NotTold DEF UploadInv, UploadStages
    <3>2. blockIDList' = <<>> /\ dataSource'.taken = 0
      BY <2>1 DEF UploadInv, UploadStages, blobVars
    <3>3. Covers(blockIDList, dataSource.taken)' /\ Stored(blockIDList)'
      BY <3>2 DEF Covers, Stored
    <3>4. UploadStages'
      BY <2>1, <2>4, <3>3 DEF UploadInv, UploadStages
    <3> QED
      BY <2>2, <3>1, <3>4 DEF UploadInv
  <2> QED
    BY <1>2, <2>3, <2>4 DEF IoTHubClient_LL_UploadToBlob_step1and2
<1> QED
  BY <1>1, <1>2

\* The next block: data that ends is complete, and a block that may be missing stops the upload.
LEMMA NextBlockInv ==
  ASSUME UploadInv, InvokeUserCallbackAndSendBlobs
  PROVE  UploadInv'
<1>1. /\ uploadStage = "blocks" /\ hubTold' = "nothing" /\ uploadResult' = "none" /\ lastCall' = <<>> /\ UNCHANGED committed
      /\ Covers(blockIDList, dataSource.taken) /\ Stored(blockIDList) /\ UploadTypeOK
  BY DEF InvokeUserCallbackAndSendBlobs, UploadInv, UploadStages
<1>2. ASSUME UploadTypeOK', UploadStages' PROVE UploadInv'
  <2>1. CASE uploadStage' # "returned"
    BY <1>1, <1>2, <2>1, NotTold DEF UploadInv
  <2>2. CASE uploadStage' = "returned"
    BY <1>1, <2>2 DEF InvokeUserCallbackAndSendBlobs, Blob_UploadBlock, BlocksEnd
  <2> QED
    BY <2>1, <2>2
<1>3. CASE BlocksEnd("BLOB_ABORTED") /\ UNCHANGED <<dataSource, blockIDList, storage, httpStatus>>
  <2>1. UploadTypeOK'
    BY <1>1, <1>3 DEF UploadTypeOK, BlocksEnd
  <2>2. UploadStages'
    BY <1>1, <1>3 DEF UploadStages, BlocksEnd, Commits
  <2> QED
    BY <1>2, <2>1, <2>2
<1>4. ASSUME NEW size \in FileUpload_GetData_Callback,
             dataSource' = [dataSource EXCEPT !.taken = @ + size],
             IF size = 0
             THEN BlocksEnd("BLOB_OK") /\ UNCHANGED <<blockIDList, storage, httpStatus>>
             ELSE IF TooMuch(size)
             THEN BlocksEnd("BLOB_ERROR") /\ UNCHANGED <<blockIDList, storage, httpStatus>>
             ELSE Blob_UploadBlock([first |-> dataSource.taken + 1, last |-> dataSource.taken + size])
      PROVE  UploadInv'
  <2>1. /\ size \in Nat
        /\ dataSource.kind = "file" => /\ dataSource.taken + size <= dataSource.size
                                       /\ size = 0 => dataSource.taken = dataSource.size
    <3>1. dataSource.size \in Nat /\ dataSource.taken \in Nat /\ BLOCK_SIZE \in Nat \ {0} /\ (dataSource.kind = "file" => dataSource.taken <= dataSource.size)
      BY <1>1, UploadAssumption DEF UploadTypeOK
    <3>2. CASE dataSource.kind = "file"
      BY <1>4, <3>1, <3>2 DEF FileUpload_GetData_Callback
    <3>3. CASE dataSource.kind # "file"
      BY <1>4, <3>1, <3>3 DEF FileUpload_GetData_Callback
    <3> QED
      BY <3>2, <3>3
  <2>2. /\ dataSource'.taken = dataSource.taken + size /\ dataSource'.size = dataSource.size /\ dataSource'.kind = dataSource.kind
        /\ DOMAIN dataSource' = {"kind", "size", "taken"}
    BY <1>1, <1>4 DEF UploadTypeOK
  <2>3. dataSource.taken \in Nat /\ dataSource.size \in Nat /\ dataSource.taken + size \in Nat
    BY <1>1, <2>1 DEF UploadTypeOK
  <2>4. CASE size = 0
    <3>1. dataSource'.taken = dataSource.taken /\ (dataSource'.kind = "file" => dataSource'.taken = dataSource'.size)
      BY <2>1, <2>2, <2>3, <2>4
    <3>2. BlocksEnd("BLOB_OK") /\ UNCHANGED <<blockIDList, storage, httpStatus>>
      BY <1>4, <2>4
    <3>3. UploadTypeOK'
      BY <1>1, <2>2, <3>1, <3>2 DEF UploadTypeOK, BlocksEnd
    <3>4. Complete'
      BY <1>1, <3>1, <3>2 DEF Complete, Covers, Stored
    <3>5. UploadStages'
      BY <1>1, <3>2, <3>4 DEF UploadStages, BlocksEnd
    <3> QED
      BY <1>2, <3>3, <3>5
  <2>5. CASE size # 0 /\ TooMuch(size)
    <3>1. BlocksEnd("BLOB_ERROR") /\ UNCHANGED <<blockIDList, storage, httpStatus>>
      BY <1>4, <2>5
    <3>2. UploadTypeOK'
      BY <1>1, <2>1, <2>2, <2>3, <3>1 DEF UploadTypeOK, BlocksEnd
    <3>3. UploadStages'
      BY <1>1, <3>1 DEF UploadStages, BlocksEnd, Commits
    <3> QED
      BY <1>2, <3>2, <3>3
  <2>6. CASE size # 0 /\ ~TooMuch(size)
    <3> DEFINE block == [first |-> dataSource.taken + 1, last |-> dataSource.taken + size]
               blocks == Append(blockIDList, block)
    <3>1. block \in Blocks
      BY <2>3 DEF Blocks
    <3>2. Blob_UploadBlock(block)
      BY <1>4, <2>6
    <3>3. Covers(blocks, dataSource.taken + size)
      BY <1>1, <2>1, <2>3, NextBlockCovers DEF UploadTypeOK
    <3> HIDE DEF block
    <3>4. /\ blocks \in Seq(Blocks) /\ Len(blocks) = Len(blockIDList) + 1 /\ Len(blockIDList) \in Nat
          /\ \A i \in 1..Len(blockIDList) : blocks[i] = blockIDList[i]
          /\ blocks[Len(blockIDList) + 1] = block
      BY <1>1, <3>1 DEF UploadTypeOK
    <3>5. PICK outcome \in {"ok", "bad", "lost", "failed"} :
            /\ storage' = IF outcome \in {"ok", "lost"} THEN storage \cup {block} ELSE storage
            /\ IF outcome \in {"ok", "bad"}
               THEN /\ httpStatus' = outcome
                    /\ IF outcome = "bad" THEN BlocksEnd("BLOB_OK") ELSE UNCHANGED <<uploadStage, blobResult>>
               ELSE BlocksEnd("BLOB_ERROR") /\ UNCHANGED httpStatus
      BY <3>2 DEF Blob_UploadBlock
    <3>6. blockIDList' = blocks
      BY <3>2 DEF Blob_UploadBlock
    <3> HIDE DEF blocks
    <3>7. UploadTypeOK'
      <4>1. Len(blocks) <= MAX_BLOCK_COUNT
        BY <2>6, <3>4, UploadAssumption DEF TooMuch
      <4>2. blobResult' \in {"BLOB_OK", "BLOB_ABORTED", "BLOB_ERROR"}
        BY <1>1, <3>5 DEF BlocksEnd, UploadTypeOK
      <4> QED
        BY <1>1, <2>1, <2>2, <2>3, <3>4, <3>6, <4>1, <4>2 DEF UploadTypeOK
    <3>8. CASE outcome = "ok"
      <4>1. \A i \in 1..Len(blocks) : blocks[i] \in storage'
        <5>1. \A i \in 1..Len(blocks) : i \in 1..Len(blockIDList) \/ i = Len(blockIDList) + 1
          BY <3>4
        <5>2. \A i \in 1..Len(blockIDList) : blockIDList[i] \in storage'
          BY <1>1, <3>5 DEF Stored
        <5>3. block \in storage'
          BY <3>5, <3>8
        <5>4. ASSUME NEW i \in 1..Len(blocks) PROVE blocks[i] \in storage'
          <6>1. CASE i \in 1..Len(blockIDList)
            BY <3>4, <5>2, <6>1
          <6>2. CASE i = Len(blockIDList) + 1
            BY <3>4, <5>3, <6>2
          <6> QED
            BY <5>1, <6>1, <6>2
        <5> QED
          BY <5>4
      <4>2. Covers(blockIDList, dataSource.taken)' /\ Stored(blockIDList)'
        BY <2>2, <3>3, <3>6, <4>1 DEF Covers, Stored
      <4>3. uploadStage' = "blocks"
        BY <1>1, <3>5, <3>8
      <4>4. UploadStages'
        BY <1>1, <4>2, <4>3 DEF UploadStages
      <4> QED
        BY <1>2, <3>7, <4>4
    <3>9. CASE outcome # "ok"
      <4>1. uploadStage' = "blocksDone" /\ ~Commits'
        BY <3>5, <3>9 DEF BlocksEnd, Commits
      <4>2. UploadStages'
        BY <1>1, <4>1 DEF UploadStages
      <4> QED
        BY <1>2, <3>7, <4>2
    <3> QED
      BY <3>8, <3>9
  <2> QED
    BY <2>4, <2>5, <2>6
<1> QED
  BY <1>3, <1>4 DEF InvokeUserCallbackAndSendBlobs

\* The list is committed, or what is left of the upload is given up.
LEMMA CommitInv ==
  ASSUME UploadInv, SendBlockIdList \/ Blob_UploadMultipleBlocksFromSasUri
  PROVE  UploadInv'
<1>1. /\ uploadStage \in {"blocks", "blocksDone"} /\ uploadStage' = "telling"
      /\ UNCHANGED <<dataSource, blockIDList, storage, hubTold, uploadResult, lastCall>>
  BY DEF SendBlockIdList, Blob_UploadMultipleBlocksFromSasUri
<1>2. UploadTypeOK'
  <2>1. blobResult' = blobResult \/ blobResult' = "BLOB_ERROR"
    BY DEF SendBlockIdList, Blob_UploadMultipleBlocksFromSasUri
  <2> QED
    BY <1>1, <2>1 DEF UploadInv, UploadTypeOK
<1>3. Commits' => committed' = blockIDList' /\ Complete'
  <2>1. CASE SendBlockIdList
    <3>1. PICK outcome \in {"ok", "bad", "lost", "failed"} :
            /\ committed' = IF outcome \in {"ok", "lost"} THEN blockIDList ELSE committed
            /\ IF outcome \in {"ok", "bad"} THEN httpStatus' = outcome /\ UNCHANGED blobResult
               ELSE blobResult' = "BLOB_ERROR" /\ UNCHANGED httpStatus
      BY <2>1 DEF SendBlockIdList
    <3>2. Complete
      BY <2>1 DEF SendBlockIdList, UploadInv, UploadStages
    <3>3. Complete'
      BY <1>1, <3>2 DEF Complete, Covers, Stored
    <3>4. Commits' => outcome = "ok"
      BY <3>1 DEF Commits
    <3> QED
      BY <1>1, <3>1, <3>3, <3>4
  <2>2. CASE Blob_UploadMultipleBlocksFromSasUri
    <3>1. ~Commits'
      BY <2>2 DEF Blob_UploadMultipleBlocksFromSasUri, Commits
    <3> QED
      BY <3>1
  <2> QED
    BY <2>1, <2>2
<1>4. UploadStages'
  BY <1>1, <1>3 DEF UploadInv, UploadStages
<1>5. UploadHonest'
  BY <1>1, <1>2, NotTold DEF UploadInv, UploadStages
<1> QED
  BY <1>2, <1>4, <1>5 DEF UploadInv

\* The hub is told what became of the upload, and the caller hears the same.
LEMMA TellsInv ==
  ASSUME UploadInv, IoTHubClient_LL_UploadToBlob_step3
  PROVE  UploadInv'
<1>1. PICK told \in BOOLEAN :
        /\ hubTold' = IF told THEN Told ELSE hubTold
        /\ Returns(IF ~told THEN "ERROR"
                   ELSE CASE blobResult = "BLOB_ABORTED" -> "OK"
                          [] blobResult = "BLOB_ERROR" -> "ERROR"
                          [] OTHER -> ResultOf(httpStatus = "ok"))
  BY DEF IoTHubClient_LL_UploadToBlob_step3
<1>2. /\ uploadStage = "telling" /\ uploadStage' = "returned" /\ hubTold = "nothing"
      /\ UNCHANGED <<dataSource, blockIDList, storage, httpStatus, committed, blobResult>>
      /\ blobResult \in {"BLOB_OK", "BLOB_ABORTED", "BLOB_ERROR"}
  BY <1>1 DEF IoTHubClient_LL_UploadToBlob_step3, blobVars, Returns, UploadInv, UploadStages, UploadTypeOK
<1>3. lastCall' = <<uploadResult'>>
  BY <1>1, <1>2 DEF Returns, UploadInv, UploadStages
<1>4. /\ hubTold' = IF told THEN Told ELSE "nothing"
      /\ uploadResult' \in {"OK", "ERROR"}
      /\ told /\ blobResult # "BLOB_ABORTED" => uploadResult' = Told
      /\ ~told => uploadResult' = "ERROR"
      /\ Told = "OK" <=> Commits
  <2>1. CASE ~told
    BY <1>1, <1>2, <2>1 DEF Returns, Told, ResultOf, Commits
  <2>2. CASE told /\ blobResult = "BLOB_ABORTED"
    BY <1>1, <1>2, <2>2 DEF Returns, Told, ResultOf, Commits
  <2>3. CASE told /\ blobResult = "BLOB_ERROR"
    BY <1>1, <1>2, <2>3 DEF Returns, Told, ResultOf, Commits
  <2>4. CASE told /\ blobResult = "BLOB_OK"
    BY <1>1, <1>2, <2>4 DEF Returns, Told, ResultOf, Commits
  <2> QED
    BY <1>2, <2>1, <2>2, <2>3, <2>4
<1>5. Commits => committed' # NotYet /\ committed' = blockIDList /\ Complete
  <2>1. Commits => committed = blockIDList /\ Complete
    BY <1>2 DEF UploadInv, UploadStages
  <2> QED
    BY <1>2, <2>1, CoveringIsCommitted DEF Complete
<1>6. hubTold' = "OK" \/ (uploadResult' = "OK" /\ blobResult' # "BLOB_ABORTED") => Commits
  BY <1>2, <1>4
<1>7. UploadTypeOK'
  BY <1>2 DEF UploadInv, UploadTypeOK
<1>8. UploadWhole'
  <2>1. Commits => /\ committed' # NotYet /\ Covers(committed', dataSource'.taken)
                   /\ \A i \in 1..Len(committed') : committed'[i] \in storage'
                   /\ dataSource'.kind = "file" => dataSource'.taken = dataSource'.size
    BY <1>2, <1>5 DEF Complete, Stored
  <2> QED
    BY <1>6, <1>7, <2>1 DEF UploadWhole, Covers, UploadTypeOK
<1>9. HubAgrees' /\ LastCallOnce'
  BY <1>2, <1>3, <1>4 DEF HubAgrees, LastCallOnce
<1>10. UploadStages'
  BY <1>2 DEF UploadStages
<1> QED
  BY <1>7, <1>8, <1>9, <1>10 DEF UploadInv, UploadHonest

\* The next upload begins from nothing.
LEMMA ReturnsInv ==
  ASSUME UploadInv, UploadReturns
  PROVE  UploadInv'
<1>1. /\ uploadStage' = "idle" /\ dataSource' = NoSource /\ blockIDList' = <<>>
      /\ hubTold' = "nothing" /\ blobResult' = "BLOB_OK" /\ uploadResult' = "none" /\ lastCall' = <<>>
  BY DEF UploadReturns
<1>2. UploadTypeOK'
  <2>1. blockIDList' \in Seq(Blocks) /\ Len(blockIDList') <= MAX_BLOCK_COUNT
    BY <1>1, UploadAssumption
  <2> QED
    BY <1>1, <2>1 DEF UploadTypeOK, NoSource
<1>3. UploadStages'
  BY <1>1 DEF UploadStages
<1>4. UploadHonest'
  BY <1>1, <1>2, NotTold
<1> QED
  BY <1>2, <1>3, <1>4 DEF UploadInv

\* However many blocks there are and whichever request is refused or lost: the hub hears of a success, and
\* the caller too, only when storage committed the whole of the data, and the callback hears the end once.
THEOREM UploadsAreHonest == UploadSpec => []UploadHonest
<1>1. UploadInit => UploadInv
  <2> SUFFICES ASSUME UploadInit PROVE UploadInv
    OBVIOUS
  <2>1. /\ uploadStage = "idle" /\ dataSource = NoSource /\ blockIDList = <<>>
        /\ hubTold = "nothing" /\ blobResult = "BLOB_OK" /\ uploadResult = "none" /\ lastCall = <<>>
    BY DEF UploadInit
  <2>2. blockIDList \in Seq(Blocks) /\ Len(blockIDList) <= MAX_BLOCK_COUNT
    BY <2>1, UploadAssumption
  <2>3. UploadTypeOK
    BY <2>1, <2>2 DEF UploadTypeOK, NoSource
  <2>4. UploadStages
    BY <2>1 DEF UploadStages
  <2>5. UploadHonest
    BY <2>1, <2>2 DEF UploadHonest, UploadWhole, HubAgrees, LastCallOnce
  <2> QED
    BY <2>3, <2>4, <2>5 DEF UploadInv
<1>2. UploadInv /\ [UploadNext]_uploadVars => UploadInv'
  <2> SUFFICES ASSUME UploadInv, [UploadNext]_uploadVars PROVE UploadInv'
    OBVIOUS
  <2>1. CASE \/ IoTHubClient_LL_UploadToBlob_Create \/ IoTHubClient_LL_UploadToBlob_SetOption
             \/ IoTHubClient_LL_UploadToBlob_Destroy \/ UNCHANGED uploadVars
    <3>1. UNCHANGED <<uploadStage, dataSource, blockIDList, storage, httpStatus, committed, blobResult, hubTold, uploadResult, lastCall>>
      BY <2>1 DEF IoTHubClient_LL_UploadToBlob_Create, IoTHubClient_LL_UploadToBlob_SetOption,
                  IoTHubClient_LL_UploadToBlob_Destroy, uploadVars, blobVars
    <3> QED
      BY <3>1, UploadStays
  <2>2. CASE IoTHubClient_LL_UploadToBlob_Impl \/ IoTHubClient_LL_UploadToBlob_step1and2
    BY <2>2, BeginsInv
  <2>3. CASE InvokeUserCallbackAndSendBlobs
    BY <2>3, NextBlockInv
  <2>4. CASE SendBlockIdList \/ Blob_UploadMultipleBlocksFromSasUri
    BY <2>4, CommitInv
  <2>5. CASE IoTHubClient_LL_UploadToBlob_step3
    BY <2>5, TellsInv
  <2>6. CASE UploadReturns
    BY <2>6, ReturnsInv
  <2> QED
    BY <2>1, <2>2, <2>3, <2>4, <2>5, <2>6 DEF UploadNext
<1>3. UploadInv => UploadHonest
  BY DEF UploadInv
<1> QED
  BY <1>1, <1>2, <1>3, PTL DEF UploadSpec

-----------------------------------------------------------------------------
(* Options *)

\* A proxy and a table of timeouts have their parts; the model's name is known or not.
OptionTypeOK ==
  /\ DOMAIN http_proxy = {"host", "user", "password", "port"}
  /\ DOMAIN deviceTimeout = OptionDevices
  /\ model_id \in {"none", "model"}

OptionInv == OptionTypeOK /\ OptionsKept

IoStep ==
  \/ \E option \in IoOptions : IoTHubTransport_Common_SetOption(option)
  \/ ResetConnectionIfNecessary \/ Connects \/ Disconnects
  \/ \E proxy \in Proxies : SetsProxy(proxy)

\* Options that were accepted are in the connection, or kept for the next one, whatever is made, ended or refused.
LEMMA OptionsStaySet ==
  ASSUME OptionsSurvive, IoStep
  PROVE  OptionsSurvive'
<1>1. ASSUME NEW option \in IoOptions, IoTHubTransport_Common_SetOption(option)
      PROVE  OptionsSurvive'
  <2>1. PICK ok \in BOOLEAN, applied \in BOOLEAN, taken \in BOOLEAN, read \in BOOLEAN :
       LET done == Usable(ok, applied) /\ taken IN
       /\ IF io = NoIo /\ ok
          THEN io' = (IF saved_tls_options # NoIo /\ applied THEN saved_tls_options ELSE {}) \cup (IF done THEN {option} ELSE {})
          ELSE io' = IF done THEN io \cup {option} ELSE io
       /\ accepted' = IF done THEN accepted \cup {option} ELSE accepted
       /\ spoiled' = (spoiled \/ (io = NoIo /\ ok /\ saved_tls_options # NoIo /\ ~applied) \/ (ioTransport = "AMQP" /\ done /\ ~read))
       /\ saved_tls_options' = IF ioTransport = "AMQP" /\ done /\ read THEN io'
                               ELSE IF ioTransport = "MQTT" /\ io = NoIo /\ ok /\ applied THEN NoIo ELSE saved_tls_options
    BY <1>1 DEF IoTHubTransport_Common_SetOption
  <2>2. concern = "io" /\ concern' = concern /\ option # "none" /\ NoIo # {} /\ option \notin NoIo
    BY <1>1, OptionAssumption DEF IoTHubTransport_Common_SetOption, Keeps, NoIo
  <2> DEFINE done == Usable(ok, applied) /\ taken
  <2>3. done => io # NoIo \/ ok
    BY DEF Usable
  <2> HIDE DEF done
  <2> SUFFICES ASSUME ~spoiled'
               PROVE  accepted' \subseteq (IF io' # NoIo THEN io' ELSE IF saved_tls_options' = NoIo THEN {} ELSE saved_tls_options')
    BY DEF OptionsSurvive
  <2>4. ~spoiled /\ ~(io = NoIo /\ ok /\ saved_tls_options # NoIo /\ ~applied)
    BY <2>1
  <2>5. accepted \subseteq (IF io # NoIo THEN io ELSE IF saved_tls_options = NoIo THEN {} ELSE saved_tls_options)
    BY <2>2, <2>4 DEF OptionsSurvive
  <2>6. accepted' = IF done THEN accepted \cup {option} ELSE accepted
    BY <2>1 DEF done
  <2>7. CASE io = NoIo /\ ok
    <3>1. io' = (IF saved_tls_options # NoIo /\ applied THEN saved_tls_options ELSE {}) \cup (IF done THEN {option} ELSE {})
      BY <2>1, <2>7 DEF done
    <3>2. accepted \subseteq (IF saved_tls_options # NoIo /\ applied THEN saved_tls_options ELSE {})
      BY <2>4, <2>5, <2>7
    <3>3. accepted' \subseteq io'
      BY <2>6, <3>1, <3>2
    <3>4. io' # NoIo
      <4>1. CASE done
        BY <2>2, <3>1, <4>1
      <4>2. CASE ~done
        BY <2>2, <3>1, <4>2
      <4> QED
        BY <4>1, <4>2
    <3> QED
      BY <3>3, <3>4
  <2>8. CASE ~(io = NoIo /\ ok)
    <3>1. io' = IF done THEN io \cup {option} ELSE io
      BY <2>1, <2>8 DEF done
    <3>2. CASE io # NoIo
      <4>1. accepted' \subseteq io'
        BY <2>5, <2>6, <3>1, <3>2
      <4>2. io' # NoIo
        BY <2>2, <3>1, <3>2
      <4> QED
        BY <4>1, <4>2
    <3>3. CASE io = NoIo
      <4>1. ~done /\ ~ok
        BY <2>3, <2>8, <3>3
      <4>2. saved_tls_options' = saved_tls_options
        BY <2>1, <4>1 DEF done
      <4> QED
        BY <2>5, <2>6, <3>1, <3>3, <4>1, <4>2
    <3> QED
      BY <3>2, <3>3
  <2> QED
    BY <2>7, <2>8
<1>2. CASE ResetConnectionIfNecessary \/ Disconnects
  <2>1. PICK read \in BOOLEAN : SavesOptions(read)
    BY <1>2 DEF ResetConnectionIfNecessary, Disconnects
  <2>2. concern' = concern /\ concern = "io" /\ io # NoIo /\ io' = NoIo /\ accepted' = accepted
    BY <1>2 DEF ResetConnectionIfNecessary, Disconnects, Keeps
  <2>3. CASE read
    BY <2>1, <2>2, <2>3 DEF SavesOptions, OptionsSurvive
  <2>4. CASE ~read
    BY <2>1, <2>4 DEF SavesOptions, OptionsSurvive
  <2> QED
    BY <2>3, <2>4
<1>3. CASE Connects
  <2>1. PICK ok \in BOOLEAN, applied \in BOOLEAN : CreateTransportProviderIfNecessary(ok, applied)
    BY <1>3 DEF Connects
  <2>2. concern' = concern /\ concern = "io" /\ accepted' = accepted /\ NoIo # {}
    BY <1>3 DEF Connects, Keeps, NoIo
  <2>3. CASE UNCHANGED <<io, ioProxy, spoiled, saved_tls_options>>
    BY <2>2, <2>3 DEF OptionsSurvive
  <2>4. CASE io = NoIo /\ Makes(ok, applied)
    <3>1. CASE saved_tls_options = NoIo
      BY <2>2, <2>4, <3>1 DEF Makes, OptionsSurvive
    <3>2. CASE saved_tls_options # NoIo
      BY <2>2, <2>4, <3>2 DEF Makes, OptionsSurvive
    <3> QED
      BY <3>1, <3>2
  <2> QED
    BY <2>1, <2>3, <2>4 DEF CreateTransportProviderIfNecessary
<1>4. ASSUME NEW proxy \in Proxies, SetsProxy(proxy)
      PROVE  OptionsSurvive'
  BY <1>4 DEF SetsProxy, Keeps, OptionsSurvive
<1> QED
  BY <1>1, <1>2, <1>3, <1>4 DEF IoStep

\* The parts of the proxy come from one call, also when copying them fails half-way.
LEMMA ProxyStaysWhole ==
  ASSUME OptionTypeOK, ProxyWhole, NEW proxy \in Proxies, SetsProxy(proxy)
  PROVE  ProxyWhole' /\ DOMAIN http_proxy' = {"host", "user", "password", "port"}
<1>1. PICK copied \in 0..3 : ReplacesProxy(proxy, copied)
  BY DEF SetsProxy
<1>2. CASE copied = 3
  BY <1>1, <1>2 DEF ReplacesProxy, ProxyWhole
<1>3. CASE copied # 3
  BY <1>1, <1>3 DEF ReplacesProxy, ProxyWhole, OptionTypeOK
<1> QED
  BY <1>2, <1>3

TimeoutStep ==
  \/ \E t \in Timeouts : IoTHubTransport_AMQP_Common_Device_SetOption(t)
  \/ \E d \in OptionDevices : RegistersDevice(d) \/ UnregistersDevice(d)

\* Every device has the timeout set last, also one that comes later, unless a call said that it failed.
LEMMA DevicesStayAgreed ==
  ASSUME OptionTypeOK, DevicesAgree, TimeoutStep
  PROVE  DevicesAgree' /\ DOMAIN deviceTimeout' = OptionDevices
<1>1. ASSUME NEW t \in Timeouts, IoTHubTransport_AMQP_Common_Device_SetOption(t)
      PROVE  DevicesAgree' /\ DOMAIN deviceTimeout' = OptionDevices
  <2>1. PICK reached \in SUBSET Registered :
          /\ deviceTimeout' = [d \in OptionDevices |-> IF d \in reached THEN t ELSE deviceTimeout[d]]
          /\ timeoutFailed' = (timeoutFailed \/ reached # Registered)
    BY <1>1 DEF IoTHubTransport_AMQP_Common_Device_SetOption
  <2>2. option_timeout' = t
    BY <1>1 DEF IoTHubTransport_AMQP_Common_Device_SetOption
  <2>3. \A d \in OptionDevices : deviceTimeout'[d] = IF d \in reached THEN t ELSE deviceTimeout[d]
    BY <2>1
  <2>4. ASSUME ~timeoutFailed', NEW d \in OptionDevices, deviceTimeout'[d] # 0 PROVE deviceTimeout'[d] = t
    <3>1. reached = Registered
      BY <2>1, <2>4
    <3>2. CASE d \in reached
      BY <2>3, <3>2
    <3>3. CASE d \notin reached
      BY <2>3, <2>4, <3>1, <3>3 DEF Registered
    <3> QED
      BY <3>2, <3>3
  <2> QED
    BY <2>1, <2>2, <2>4 DEF DevicesAgree, Registered
<1>2. ASSUME NEW d \in OptionDevices, RegistersDevice(d) \/ UnregistersDevice(d)
      PROVE  DevicesAgree' /\ DOMAIN deviceTimeout' = OptionDevices
  <2>1. /\ concern = "timeouts" /\ UNCHANGED <<option_timeout, timeoutFailed, concern>>
        /\ \/ deviceTimeout' = [deviceTimeout EXCEPT ![d] = option_timeout]
           \/ deviceTimeout' = [deviceTimeout EXCEPT ![d] = 0]
    BY <1>2 DEF RegistersDevice, UnregistersDevice, replicate_device_options_to, Keeps
  <2>2. \A e \in OptionDevices : e # d => deviceTimeout'[e] = deviceTimeout[e]
    BY <2>1 DEF OptionTypeOK
  <2>3. deviceTimeout'[d] = option_timeout \/ deviceTimeout'[d] = 0
    BY <2>1 DEF OptionTypeOK
  <2>4. DOMAIN deviceTimeout' = OptionDevices
    BY <2>1 DEF OptionTypeOK
  <2> QED
    BY <2>1, <2>2, <2>3, <2>4 DEF DevicesAgree, Registered
<1> QED
  BY <1>1, <1>2 DEF TimeoutStep

\* The user name is built whole or not at all, and once.
LEMMA UserNameStaysOnce ==
  ASSUME OptionTypeOK, UserNameOnce, ConnectsAs
  PROVE  UserNameOnce'
<1>1. PICK failed \in BOOLEAN : buildConfigForUsernameStep2IfNeeded(failed)
  BY DEF ConnectsAs
<1>2. CASE userName' = userName
  BY <1>2 DEF UserNameOnce
<1>3. CASE userName' # userName
  <2>1. PICK product : userName' = <<product>> \o (IF model_id = "none" THEN <<>> ELSE <<model_id>>)
    BY <1>1, <1>3 DEF buildConfigForUsernameStep2IfNeeded
  <2> DEFINE S == {product, "model"}
             first == <<product>>
             rest == IF model_id = "none" THEN <<>> ELSE <<model_id>>
             others == {i \in DOMAIN userName' : userName'[i] # "model"}
  <2>0. userName' = first \o rest
    BY <2>1
  <2>2. first \in Seq(S) /\ Len(first) = 1 /\ rest \in Seq(S) /\ Len(rest) \in {0, 1} /\ (Len(rest) = 1 => rest[1] = "model")
    <3>1. CASE model_id = "none"
      BY <3>1
    <3>2. CASE model_id = "model"
      BY <3>2
    <3> QED
      BY <3>1, <3>2 DEF OptionTypeOK
  <2>3. others \subseteq {1}
    <3> HIDE DEF S, first, rest
    <3> DEFINE whole == first \o rest
    <3>3. whole \in Seq(S) /\ Len(whole) = Len(first) + Len(rest)
      BY <2>2, ConcatProperties
    <3>4. Len(rest) = 1 => whole[2] = rest[1]
      <4>1. SUFFICES ASSUME Len(rest) = 1 PROVE whole[2] = rest[1]
        OBVIOUS
      <4>2. 2 \in 1..(Len(first) + Len(rest)) /\ ~(2 <= Len(first)) /\ 2 - Len(first) = 1
        BY <2>2, <4>1
      <4>3. whole[2] = rest[2 - Len(first)]
        BY <2>2, <4>2, ConcatProperties
      <4> QED
        BY <4>2, <4>3
    <3>5. whole = userName'
      BY <2>0
    <3> HIDE DEF whole
    <3>1. Len(userName') = 1 + Len(rest) /\ userName' \in Seq(S) /\ (Len(rest) = 1 => userName'[2] = rest[1])
      BY <2>2, <3>3, <3>4, <3>5
    <3>2. DOMAIN userName' = 1..Len(userName')
      BY <3>1
    <3>6. ASSUME NEW i \in DOMAIN userName', userName'[i] # "model" PROVE i = 1
      <4> HIDE DEF others
      <4>1. i \in Nat /\ 1 <= i /\ i <= 1 + Len(rest)
        BY <2>2, <3>1, <3>2, <3>6
      <4>2. CASE Len(rest) = 0
        BY <4>1, <4>2
      <4>3. CASE Len(rest) = 1
        <5>1. i = 1 \/ i = 2
          BY <4>1, <4>3
        <5>2. userName'[2] = "model"
          BY <2>2, <3>1, <4>3
        <5> QED
          BY <3>6, <5>1, <5>2
      <4> QED
        BY <2>2, <4>2, <4>3
    <3> QED
      BY <3>6
  <2> HIDE DEF others
  <2>4. IsFiniteSet({1}) /\ Cardinality({1}) = 1
    BY FS_Singleton
  <2>5. Cardinality(others) <= Cardinality({1})
    BY <2>3, <2>4, FS_Subset
  <2>6. Cardinality(others) <= 1
    BY <2>4, <2>5
  <2> QED
    BY <2>6 DEF others, UserNameOnce
<1> QED
  BY <1>2, <1>3

\* Whatever options, devices and timeouts there are: what was accepted stays set over reconnections, the proxy
\* is whole, the devices agree on their timeouts, and the user name is not written twice.
THEOREM OptionsAreKept == OptionSpec => []OptionsKept
<1>1. OptionInit => OptionInv
  <2> SUFFICES ASSUME OptionInit PROVE OptionInv
    OBVIOUS
  <2>1. OptionTypeOK
    BY DEF OptionInit, OptionTypeOK, NoProxy
  <2>2. OptionsSurvive /\ ProxyWhole /\ DevicesAgree
    BY DEF OptionInit, OptionsSurvive, ProxyWhole, DevicesAgree, NoProxy, Registered
  <2>3. UserNameOnce
    <3>1. {i \in DOMAIN userName : userName[i] # "model"} = {}
      BY DEF OptionInit
    <3>2. Cardinality({}) = 0
      BY FS_EmptySet
    <3> DEFINE others == {i \in DOMAIN userName : userName[i] # "model"}
    <3>3. others = {}
      BY <3>1
    <3> HIDE DEF others
    <3>4. Cardinality(others) <= 1
      BY <3>2, <3>3
    <3> QED
      BY <3>4 DEF others, UserNameOnce
  <2> QED
    BY <2>1, <2>2, <2>3 DEF OptionInv, OptionsKept
<1>2. OptionInv /\ [OptionNext]_optionVars => OptionInv'
  <2> SUFFICES ASSUME OptionInv, [OptionNext]_optionVars PROVE OptionInv'
    OBVIOUS
  <2>0. OptionTypeOK /\ OptionsSurvive /\ ProxyWhole /\ DevicesAgree /\ UserNameOnce
    BY DEF OptionInv, OptionsKept
  <2>1. ASSUME UNCHANGED <<concern, ioVars>> PROVE OptionsSurvive' /\ ProxyWhole' /\ DOMAIN http_proxy' = DOMAIN http_proxy
    BY <2>0, <2>1 DEF ioVars, OptionsSurvive, ProxyWhole
  <2>2. ASSUME UNCHANGED <<concern, timeoutVars>> PROVE DevicesAgree' /\ DOMAIN deviceTimeout' = DOMAIN deviceTimeout
    BY <2>0, <2>2 DEF timeoutVars, DevicesAgree, Registered
  <2>3. ASSUME UNCHANGED identityVars PROVE UserNameOnce' /\ model_id' = model_id
    BY <2>0, <2>3 DEF identityVars, UserNameOnce
  <2>4. CASE IoStep
    <3>1. UNCHANGED <<concern, timeoutVars, identityVars>>
      BY <2>4 DEF IoStep, IoTHubTransport_Common_SetOption, ResetConnectionIfNecessary, Connects, Disconnects, SetsProxy, Keeps
    <3>2. OptionsSurvive'
      BY <2>0, <2>4, OptionsStaySet
    <3>3. ProxyWhole' /\ DOMAIN http_proxy' = {"host", "user", "password", "port"}
      <4>1. CASE \E proxy \in Proxies : SetsProxy(proxy)
        BY <2>0, <4>1, ProxyStaysWhole
      <4>2. CASE UNCHANGED http_proxy
        BY <2>0, <4>2 DEF ProxyWhole, OptionTypeOK
      <4> QED
        BY <2>4, <4>1, <4>2 DEF IoStep, IoTHubTransport_Common_SetOption, ResetConnectionIfNecessary, Connects, Disconnects
    <3> QED
      BY <2>0, <2>2, <2>3, <3>1, <3>2, <3>3 DEF OptionInv, OptionsKept, OptionTypeOK
  <2>5. CASE TimeoutStep
    <3>1. UNCHANGED <<concern, ioVars, identityVars>>
      BY <2>5 DEF TimeoutStep, IoTHubTransport_AMQP_Common_Device_SetOption, RegistersDevice, UnregistersDevice, Keeps
    <3>2. DevicesAgree' /\ DOMAIN deviceTimeout' = OptionDevices
      BY <2>0, <2>5, DevicesStayAgreed
    <3> QED
      BY <2>0, <2>1, <2>3, <3>1, <3>2 DEF OptionInv, OptionsKept, OptionTypeOK
  <2>6. CASE make_product_info("product") \/ SetsModelId \/ ConnectsAs
    <3>1. UNCHANGED <<concern, ioVars, timeoutVars>>
      BY <2>6 DEF make_product_info, SetsModelId, ConnectsAs, Keeps
    <3>2. UserNameOnce'
      BY <2>0, <2>6, UserNameStaysOnce DEF make_product_info, SetsModelId, UserNameOnce
    <3>3. model_id' \in {"none", "model"}
      BY <2>0, <2>6 DEF make_product_info, SetsModelId, ConnectsAs, OptionTypeOK
    <3> QED
      BY <2>0, <2>1, <2>2, <3>1, <3>2, <3>3 DEF OptionInv, OptionsKept, OptionTypeOK
  <2>7. CASE UNCHANGED <<concern, ioVars, timeoutVars, identityVars>>
    BY <2>0, <2>1, <2>2, <2>3, <2>7 DEF OptionInv, OptionsKept, OptionTypeOK
  <2>8. CASE (\E p \in 0..Hundred : SetsPercentage(p)) \/ SendsMessage
    <3>1. UNCHANGED <<concern, ioVars, timeoutVars, identityVars>>
      BY <2>8 DEF SetsPercentage, SendsMessage, Keeps
    <3> QED
      BY <2>7, <3>1
  <2>9. CASE UNCHANGED optionVars
    BY <2>7, <2>9 DEF optionVars
  <2> QED
    BY <2>4, <2>5, <2>6, <2>8, <2>9 DEF OptionNext, IoStep, TimeoutStep
<1>3. OptionInv => OptionsKept
  BY DEF OptionInv
<1> QED
  BY <1>1, <1>2, <1>3, PTL DEF OptionSpec

-----------------------------------------------------------------------------
(* The share of messages with a trace *)

\* The messages up to number x that carry a trace, counted by their share.
Share(x) == (x * percentage) \div Hundred

SamplingInv ==
  /\ percentage \in 0..Hundred /\ currentMessageNumber \in Nat
  /\ recent \in Seq(BOOLEAN) /\ Len(recent) <= Hundred
  /\ \A j \in 1..Len(recent) : recent[j] = should_add_diagnostic_info(currentMessageNumber - Len(recent) + j)

\* Whole groups of a hundred each carry their percentage.
LEMMA ShareOfHundreds ==
  ASSUME percentage \in 0..Hundred, NEW x \in Int, NEW k \in Int
  PROVE  Share(x + Hundred * k) = Share(x) + percentage * k
<1> DEFINE a == x * percentage
           h == Hundred
           q == percentage * k
<1>1. a \in Int /\ h \in Int /\ h > 0 /\ q \in Int /\ percentage \in Int /\ Hundred \in Int
  BY OptionAssumption
<1>2. (x + Hundred * k) * percentage = a + h * q
  BY <1>1
<1> HIDE DEF a, h, q
<1>3. (a + h * q) \div h = (a \div h) + q
  BY <1>1
<1> QED
  BY <1>2, <1>3 DEF Share, a, h, q

\* One more message adds one, or none.
LEMMA ShareOfOne ==
  ASSUME percentage \in 0..Hundred, NEW x \in Int
  PROVE  Share(x) \in Int /\ Share(x + 1) \in {Share(x), Share(x) + 1}
<1> DEFINE a == x * percentage
           h == Hundred
           p == percentage
<1>1. a \in Int /\ h \in Int /\ h > 0 /\ p \in Int /\ 0 <= p /\ p <= h
  BY OptionAssumption
<1>2. (x + 1) * percentage = a + p
  BY <1>1
<1> HIDE DEF a, h, p
<1>3. (a + p) \div h \in {a \div h, 1 + (a \div h)} /\ a \div h \in Int
  BY <1>1
<1> QED
  BY <1>2, <1>3 DEF Share, a, h, p

\* Whether a message carries a trace does not change by whole groups of a hundred.
LEMMA TraceRepeats ==
  ASSUME percentage \in 0..Hundred, NEW n \in Int, NEW k \in Int
  PROVE  should_add_diagnostic_info(n + Hundred * k) = should_add_diagnostic_info(n)
<1>1. Hundred \in Int /\ percentage \in Int
  BY OptionAssumption
<1> DEFINE a == n - 2
           b == n - 1
           m == n + Hundred * k
           q == percentage * k
<1>2. a \in Int /\ b \in Int /\ m - 2 = a + Hundred * k /\ m - 1 = b + Hundred * k /\ q \in Int
  BY <1>1
<1> HIDE DEF a, b, m, q
<1>3. Share(m - 2) = Share(a) + q /\ Share(m - 1) = Share(b) + q
  BY <1>2, ShareOfHundreds DEF q
<1>4. Share(a) \in Int /\ Share(b) \in Int
  BY <1>2, ShareOfOne
<1>5. (Share(a) + q < Share(b) + q) <=> (Share(a) < Share(b))
  BY <1>2, <1>4
<1>6. should_add_diagnostic_info(m) = (Share(m - 2) < Share(m - 1))
  BY DEF should_add_diagnostic_info, Share
<1>7. should_add_diagnostic_info(n) = (Share(a) < Share(b))
  BY DEF should_add_diagnostic_info, Share, a, b
<1> QED
  BY <1>3, <1>5, <1>6, <1>7 DEF m

\* A number that rises by one or not at all has risen as often as it has grown.
LEMMA RisesCounted ==
  ASSUME NEW f, NEW h \in Nat,
         \A n \in 0..h : f[n] \in Int,
         \A n \in 1..h : f[n] \in {f[n - 1], f[n - 1] + 1}
  PROVE  Cardinality({n \in 1..h : f[n - 1] < f[n]}) = f[h] - f[0]
<1> DEFINE Rises(k) == {n \in 1..k : f[n - 1] < f[n]}
           Good(k) == IsFiniteSet(Rises(k)) /\ Cardinality(Rises(k)) = f[k] - f[0]
           Bad == {k \in 0..h : ~Good(k)}
<1>1. Good(0)
  <2>1. Rises(0) = {}
    OBVIOUS
  <2>2. f[0] - f[0] = 0
    OBVIOUS
  <2> QED
    BY <2>1, <2>2, FS_EmptySet
<1>2. ASSUME NEW k \in 1..h, Good(k - 1) PROVE Good(k)
  <2>1. k - 1 \in 0..h /\ k \in 0..h /\ f[k - 1] \in Int /\ f[k] \in Int /\ f[0] \in Int /\ k \in Nat /\ k > 0
    OBVIOUS
  <2>2. f[k] \in {f[k - 1], f[k - 1] + 1}
    OBVIOUS
  <2>3. CASE f[k] = f[k - 1]
    <3>1. Rises(k) = Rises(k - 1)
      <4>1. ~(f[k - 1] < f[k])
        BY <2>1, <2>3
      <4>2. 1..k = (1..(k - 1)) \cup {k}
        BY <2>1
      <4> QED
        BY <4>1, <4>2
    <3> QED
      BY <1>2, <2>3, <3>1
  <2>4. CASE f[k] = f[k - 1] + 1
    <3>1. Rises(k) = Rises(k - 1) \cup {k}
      <4>1. f[k - 1] < f[k]
        BY <2>1, <2>4
      <4>2. 1..k = (1..(k - 1)) \cup {k}
        BY <2>1
      <4> QED
        BY <4>1, <4>2
    <3>2. k \notin Rises(k - 1)
      BY <2>1
    <3> DEFINE before == Rises(k - 1)
    <3>3. IsFiniteSet(before) /\ Cardinality(before) = f[k - 1] - f[0]
      BY <1>2
    <3> HIDE DEF Rises, before
    <3>4. IsFiniteSet(before \cup {k}) /\ Cardinality(before \cup {k}) = Cardinality(before) + 1
      BY <3>2, <3>3, FS_AddElement DEF before
    <3>5. f[k] - f[0] = (f[k - 1] - f[0]) + 1
      BY <2>1, <2>4
    <3> QED
      BY <3>1, <3>3, <3>4, <3>5 DEF before
  <2> QED
    BY <2>2, <2>3, <2>4
<1>3. Good(h)
  <2> HIDE DEF Good
  <2> SUFFICES ASSUME Bad # {} PROVE FALSE
    OBVIOUS
  <2>1. Bad \subseteq Nat
    OBVIOUS
  <2> HIDE DEF Bad
  <2>2. PICK k \in Bad : \A j \in Bad : k <= j
    BY <2>1, LeastNatural
  <2> USE DEF Bad
  <2>3. k \in 0..h /\ ~Good(k) /\ k # 0
    BY <1>1, <2>2
  <2>4. k \in 1..h /\ k - 1 \in 0..h /\ ~(k <= k - 1)
    BY <2>3
  <2>5. Good(k - 1)
    BY <2>2, <2>4
  <2> QED
    BY <1>2, <2>3, <2>4, <2>5
<1> QED
  BY <1>3

\* A hundred messages in a row, wherever they begin: the share grows by the percentage.
LEMMA SampledByShare ==
  ASSUME SamplingInv
  PROVE  SampledEvenly
<1> SUFFICES ASSUME Len(recent) = Hundred
             PROVE  Cardinality({i \in DOMAIN recent : recent[i]}) = percentage
  BY DEF SampledEvenly
<1> DEFINE c == currentMessageNumber - Hundred - 1
           f == [j \in 0..Hundred |-> Share(c + j)]
<1>1. Hundred \in Nat /\ Hundred > 0 /\ percentage \in 0..Hundred /\ currentMessageNumber \in Int
  BY OptionAssumption DEF SamplingInv
<1>2. c \in Int
  BY <1>1
<1>3. \A j \in 1..Hundred : recent[j] = should_add_diagnostic_info(currentMessageNumber - Hundred + j) /\ recent[j] \in BOOLEAN
  BY DEF SamplingInv
<1>4. \A j \in 1..Hundred : recent[j] <=> f[j - 1] < f[j]
  <2> SUFFICES ASSUME NEW j \in 1..Hundred PROVE recent[j] <=> f[j - 1] < f[j]
    OBVIOUS
  <2>1. j \in 0..Hundred /\ j - 1 \in 0..Hundred
    BY <1>1
  <2> DEFINE n == currentMessageNumber - Hundred + j
  <2>2. n - 2 = c + (j - 1) /\ n - 1 = c + j
    BY <1>1, <2>1
  <2>3. f[j - 1] = Share(n - 2) /\ f[j] = Share(n - 1)
    BY <2>1, <2>2
  <2>4. recent[j] = should_add_diagnostic_info(n)
    BY <1>3
  <2> HIDE DEF n, f
  <2> QED
    BY <2>3, <2>4 DEF should_add_diagnostic_info, Share
<1>5. \A n \in 0..Hundred : f[n] \in Int
  <2> SUFFICES ASSUME NEW n \in 0..Hundred PROVE f[n] \in Int
    OBVIOUS
  <2>1. c + n \in Int
    BY <1>1, <1>2
  <2> QED
    BY <1>1, <2>1, ShareOfOne
<1>6. \A n \in 1..Hundred : f[n] \in {f[n - 1], f[n - 1] + 1}
  <2> SUFFICES ASSUME NEW n \in 1..Hundred PROVE f[n] \in {f[n - 1], f[n - 1] + 1}
    OBVIOUS
  <2>1. n \in 0..Hundred /\ n - 1 \in 0..Hundred
    BY <1>1
  <2> DEFINE x == c + (n - 1)
  <2>2. x \in Int /\ x + 1 = c + n
    BY <1>1, <1>2, <2>1
  <2>3. f[n - 1] = Share(x) /\ f[n] = Share(x + 1)
    BY <2>1, <2>2
  <2> HIDE DEF x, f
  <2> QED
    BY <1>1, <2>2, <2>3, ShareOfOne
<1>7. f[Hundred] - f[0] = percentage
  <2>1. f[Hundred] = Share(c + Hundred) /\ f[0] = Share(c)
    BY <1>1, <1>2
  <2>2. ASSUME NEW k \in Int PROVE Share(c + Hundred * k) = Share(c) + percentage * k
    BY <1>1, <1>2, ShareOfHundreds
  <2>3. c + Hundred * 1 = c + Hundred /\ percentage * 1 = percentage
    BY <1>1
  <2> DEFINE s == Share(c)
  <2>4. s \in Int /\ percentage \in Int
    BY <1>1, <1>2, ShareOfOne
  <2>5. f[Hundred] = s + percentage /\ f[0] = s
    <3>1. Share(c + Hundred * 1) = Share(c) + percentage * 1
      BY <2>2
    <3> QED
      BY <2>1, <2>3, <3>1
  <2> HIDE DEF s, f
  <2> QED
    BY <2>4, <2>5
<1>8. {i \in DOMAIN recent : recent[i]} = {n \in 1..Hundred : f[n - 1] < f[n]}
  <2>1. DOMAIN recent = 1..Hundred
    BY DEF SamplingInv
  <2> HIDE DEF f
  <2> QED
    BY <1>4, <2>1
<1> HIDE DEF f
<1>9. Cardinality({n \in 1..Hundred : f[n - 1] < f[n]}) = f[Hundred] - f[0]
  BY <1>1, <1>5, <1>6, RisesCounted
<1> QED
  BY <1>7, <1>8, <1>9

\* The counter comes round by whole groups of a hundred.
LEMMA WrapsByHundreds ==
  ASSUME percentage \in 1..Hundred, currentMessageNumber \in Nat
  PROVE  \E k \in Int : WrapsAt(currentMessageNumber) = currentMessageNumber + Hundred * k /\ WrapsAt(currentMessageNumber) \in Nat
<1> DEFINE c == currentMessageNumber
           h == Hundred
           p == percentage
           d == p * h
<1>1. h \in Nat /\ h > 0 /\ p \in Nat /\ p > 0 /\ c \in Nat
  BY OptionAssumption
<1> HIDE DEF c, h, p
<1>2. d \in Nat /\ d > 0
  BY <1>1
<1>3. CASE c = MaxMessageNumber
  <2> DEFINE q == c \div d
             k == 0 - p * q
  <2> HIDE DEF d
  <2>1. c = q * d + (c % d) /\ q \in Int /\ c % d \in Nat
    BY <1>1, <1>2
  <2>2. WrapsAt(c) = c % d
    BY <1>3 DEF WrapsAt, d, p, h
  <2> HIDE DEF q
  <2>3. k \in Int
    BY <1>1, <2>1
  <2>4. q * d = h * (p * q)
    BY <1>1, <2>1 DEF d
  <2>5. h * k = 0 - h * (p * q)
    <3> DEFINE e == p * q
    <3>1. e \in Int
      BY <1>1, <2>1
    <3> HIDE DEF e
    <3>2. h * (0 - e) = 0 - h * e
      BY <1>1, <3>1
    <3> QED
      BY <3>2 DEF e
  <2>6. h * (p * q) \in Int /\ h * k \in Int
    BY <1>1, <2>1, <2>3
  <2>7. c % d = c + h * k
    <3> DEFINE e == h * (p * q)
               r == c % d
               g == h * k
    <3>1. c = e + r /\ g = 0 - e /\ e \in Int /\ r \in Nat
      BY <2>1, <2>4, <2>5, <2>6
    <3> HIDE DEF e, r, g
    <3>2. r = c + g
      BY <1>1, <3>1
    <3> QED
      BY <3>2 DEF r, g
  <2> HIDE DEF k
  <2> QED
    BY <2>1, <2>2, <2>3, <2>7 DEF c, h
<1>4. CASE c # MaxMessageNumber
  <2>1. c = c + h * 0
    BY <1>1
  <2> QED
    BY <1>1, <1>4, <2>1 DEF WrapsAt, c, h
<1> QED
  BY <1>3, <1>4

\* A message more, and when the list is full the first one less.
LEMMA SendsMessageInv ==
  ASSUME SamplingInv, SendsMessage
  PROVE  SamplingInv'
<1> DEFINE h == Hundred
           c == currentMessageNumber
           w == WrapsAt(currentMessageNumber)
           new == should_add_diagnostic_info(currentMessageNumber')
           all == Append(recent, new)
           n == Len(recent)
<1>1. /\ h \in Nat /\ h > 0 /\ percentage \in 0..h /\ percentage \in 1..h /\ percentage' = percentage
      /\ c \in Nat /\ recent \in Seq(BOOLEAN) /\ n \in Nat /\ n <= h
  BY OptionAssumption DEF SamplingInv, SendsMessage
<1>2. currentMessageNumber' = w + 1
  BY DEF SendsMessage
<1>3. recent' = IF Len(all) > Hundred THEN Tail(all) ELSE all
  BY DEF SendsMessage, should_add_diagnostic_info
<1>4. PICK k \in Int : w = c + h * k /\ w \in Nat
  BY <1>1, WrapsByHundreds
<1>5. \A j \in 1..n : recent[j] = should_add_diagnostic_info(c - n + j)
  BY DEF SamplingInv
<1>6. ASSUME recent' \in Seq(BOOLEAN), Len(recent') <= h, currentMessageNumber' \in Nat,
             \A j \in 1..Len(recent') :
               recent'[j] = should_add_diagnostic_info(currentMessageNumber' - Len(recent') + j)
      PROVE  SamplingInv'
  <2>1. percentage' \in 0..Hundred
    BY <1>1
  <2> QED
    BY <1>1, <1>6, <2>1 DEF SamplingInv, should_add_diagnostic_info
<1>7. new \in BOOLEAN
  BY DEF should_add_diagnostic_info
<1> HIDE DEF w, new, h, c
<1>8. /\ all \in Seq(BOOLEAN) /\ Len(all) = n + 1
      /\ \A j \in 1..n : all[j] = recent[j]
      /\ all[n + 1] = new
  BY <1>1, <1>7
<1> HIDE DEF all
<1>9. \A j \in 1..(n + 1) : all[j] = should_add_diagnostic_info(w - n + j)
  <2> SUFFICES ASSUME NEW j \in 1..(n + 1) PROVE all[j] = should_add_diagnostic_info(w - n + j)
    OBVIOUS
  <2>1. CASE j = n + 1
    <3>1. w - n + j = w + 1
      BY <1>1, <1>4, <2>1
    <3> QED
      BY <1>2, <1>8, <2>1, <3>1 DEF new
  <2>2. CASE j # n + 1
    <3> DEFINE m == c - n + j
    <3>1. j \in 1..n /\ m \in Int
      BY <1>1, <2>2
    <3>2. w - n + j = m + h * k
      <4> DEFINE e == h * k
      <4>1. e \in Int
        BY <1>1
      <4> HIDE DEF e
      <4>2. w = c + e
        BY <1>4 DEF e
      <4>3. w - n + j = m + e
        BY <1>1, <3>1, <4>1, <4>2
      <4> QED
        BY <4>3 DEF e
    <3>3. all[j] = should_add_diagnostic_info(m)
      BY <1>5, <1>8, <3>1
    <3> HIDE DEF m
    <3>4. should_add_diagnostic_info(m + h * k) = should_add_diagnostic_info(m)
      BY <1>1, <3>1, TraceRepeats DEF h
    <3> QED
      BY <3>2, <3>3, <3>4
  <2> QED
    BY <2>1, <2>2
<1>10. currentMessageNumber' \in Nat
  BY <1>2, <1>4
<1>11. CASE Len(all) > Hundred
  <2>1. n = h /\ Len(all) = h + 1
    BY <1>1, <1>8, <1>11 DEF h
  <2>2. /\ recent' \in Seq(BOOLEAN) /\ Len(recent') = h
        /\ \A j \in 1..h : recent'[j] = all[j + 1]
    <3>1. recent' = Tail(all) /\ all # <<>>
      BY <1>1, <1>3, <1>8, <1>11, <2>1
    <3>2. /\ Tail(all) \in Seq(BOOLEAN) /\ Len(Tail(all)) = Len(all) - 1
          /\ \A j \in 1..(Len(all) - 1) : Tail(all)[j] = all[j + 1]
      BY <1>8, <3>1, HeadTailProperties
    <3>3. Len(all) - 1 = h
      BY <1>1, <2>1
    <3> QED
      BY <3>1, <3>2, <3>3
  <2>3. ASSUME NEW j \in 1..h
        PROVE  recent'[j] = should_add_diagnostic_info(currentMessageNumber' - Len(recent') + j)
    <3>1. j + 1 \in 1..(n + 1)
      BY <1>1, <2>1
    <3>2. recent'[j] = all[j + 1]
      BY <2>2
    <3>3. currentMessageNumber' - Len(recent') + j = w - n + (j + 1)
      BY <1>1, <1>2, <1>4, <2>1, <2>2
    <3>4. all[j + 1] = should_add_diagnostic_info(w - n + (j + 1))
      BY <1>9, <3>1
    <3> QED
      BY <3>2, <3>3, <3>4
  <2>4. Len(recent') <= h /\ 1..Len(recent') = 1..h
    BY <1>1, <2>2
  <2>5. \A j \in 1..Len(recent') : recent'[j] = should_add_diagnostic_info(currentMessageNumber' - Len(recent') + j)
    BY <2>3, <2>4
  <2> QED
    BY <1>6, <1>10, <2>2, <2>4, <2>5
<1>12. CASE ~(Len(all) > Hundred)
  <2>1. recent' = all /\ Len(recent') = n + 1 /\ n + 1 <= h
    BY <1>1, <1>3, <1>8, <1>12 DEF h
  <2>2. ASSUME NEW j \in 1..(n + 1)
        PROVE  recent'[j] = should_add_diagnostic_info(currentMessageNumber' - Len(recent') + j)
    <3>1. w - n + j = currentMessageNumber' - Len(recent') + j
      BY <1>1, <1>2, <1>4, <2>1
    <3>2. all[j] = should_add_diagnostic_info(w - n + j)
      BY <1>9
    <3> QED
      BY <2>1, <3>1, <3>2
  <2>3. recent' \in Seq(BOOLEAN) /\ Len(recent') <= h /\ 1..Len(recent') = 1..(n + 1)
    BY <1>8, <2>1
  <2>4. \A j \in 1..Len(recent') : recent'[j] = should_add_diagnostic_info(currentMessageNumber' - Len(recent') + j)
    BY <2>2, <2>3
  <2> QED
    BY <1>6, <1>10, <2>3, <2>4
<1> QED
  BY <1>11, <1>12

\* The sampling is touched by no other concern.
LEMMA SamplingStep ==
  ASSUME SamplingInv, [OptionNext]_optionVars
  PROVE  SamplingInv'
<1>1. CASE UNCHANGED samplingVars
  BY <1>1 DEF samplingVars, SamplingInv, should_add_diagnostic_info
<1>2. ASSUME NEW p \in 0..Hundred, SetsPercentage(p) PROVE SamplingInv'
  <2>1. percentage' = p /\ currentMessageNumber' = 0 /\ recent' = <<>>
    BY <1>2 DEF SetsPercentage
  <2>2. Len(recent') = 0 /\ recent' \in Seq(BOOLEAN) /\ 0 <= Hundred
    BY <2>1, OptionAssumption
  <2> QED
    BY <2>1, <2>2 DEF SamplingInv
<1>3. CASE SendsMessage
  BY <1>3, SendsMessageInv
<1>4. \/ UNCHANGED samplingVars \/ (\E p \in 0..Hundred : SetsPercentage(p)) \/ SendsMessage
  BY DEF OptionNext, optionVars, Keeps, IoTHubTransport_Common_SetOption, ResetConnectionIfNecessary, Connects, Disconnects,
         SetsProxy, IoTHubTransport_AMQP_Common_Device_SetOption, RegistersDevice, UnregistersDevice, make_product_info,
         SetsModelId, ConnectsAs
<1> QED
  BY <1>1, <1>2, <1>3, <1>4

\* What the application set is what is used, and of any hundred messages in a row as many carry a trace as it asked for:
\* IoTHubClient_Diagnostic_AddIfNecessary spreads them evenly also across the end of its 32-bit counter.
THEOREM OptionsAreSound == OptionSpec => []OptionsSound
<1>1. OptionInit => SamplingInv
  <2> SUFFICES ASSUME OptionInit PROVE SamplingInv
    OBVIOUS
  <2>1. percentage = 0 /\ currentMessageNumber = 0 /\ recent = <<>>
    BY DEF OptionInit
  <2>2. Len(recent) = 0 /\ recent \in Seq(BOOLEAN) /\ 0 <= Hundred /\ 0 \in 0..Hundred
    BY <2>1, OptionAssumption
  <2> QED
    BY <2>1, <2>2 DEF SamplingInv
<1>2. SamplingInv /\ [OptionNext]_optionVars => SamplingInv'
  BY SamplingStep
<1>3. SamplingInv => SampledEvenly
  BY SampledByShare
<1>4. OptionsKept /\ SampledEvenly => OptionsSound
  BY DEF OptionsSound
<1> QED
  BY <1>1, <1>2, <1>3, <1>4, OptionsAreKept, PTL DEF OptionSpec

-----------------------------------------------------------------------------
(* What a client is made of *)

\* The values the loop over the pairs of a connection string goes through.
LEMMA ReadInTurn ==
  ASSUME NEW s, Len(s) \in Nat
  PROVE  \E f : /\ f[0] = Nothing
                /\ \A n \in 1..Len(s) : f[n] = ReadsPair(f[n - 1], s[n], n = Len(s))
                /\ ReadsString(s) = f[Len(s)].read
<1> DEFINE Goes(f, k) == f = [n \in 0..k |-> IF n = 0 THEN Nothing ELSE ReadsPair(f[n - 1], s[n], n = Len(s))]
           f == CHOOSE g : Goes(g, Len(s))
           Bad == {k \in Nat : ~\E g : Goes(g, k)}
<1>1. Bad = {}
  <2> SUFFICES ASSUME Bad # {} PROVE FALSE
    OBVIOUS
  <2>1. PICK k \in Bad : \A j \in Bad : k <= j
    BY LeastNatural
  <2>2. k # 0
    <3> DEFINE g == [n \in 0..0 |-> Nothing]
    <3>1. Goes(g, 0)
      OBVIOUS
    <3> QED
      BY <3>1
  <2>3. k \in Nat /\ k - 1 \in Nat /\ k - 1 \notin Bad
    <3>1. k \in Nat /\ k - 1 \in Nat /\ ~(k <= k - 1)
      BY <2>2
    <3> QED
      BY <2>1, <3>1
  <2>4. PICK g : Goes(g, k - 1)
    BY <2>3
  <2> DEFINE h == [n \in 0..k |-> IF n < k THEN g[n] ELSE ReadsPair(g[k - 1], s[k], k = Len(s))]
  <2>5. ASSUME NEW n \in 0..k
        PROVE  h[n] = IF n = 0 THEN Nothing ELSE ReadsPair(h[n - 1], s[n], n = Len(s))
    <3>1. CASE n < k
      <4>1. n \in 0..(k - 1) /\ h[n] = g[n]
        BY <2>3, <3>1
      <4>2. g[n] = IF n = 0 THEN Nothing ELSE ReadsPair(g[n - 1], s[n], n = Len(s))
        BY <2>4, <4>1
      <4>3. n # 0 => n - 1 \in 0..k /\ n - 1 < k
        BY <2>3, <4>1
      <4> QED
        BY <4>1, <4>2, <4>3
    <3>2. CASE n = k
      <4>1. k - 1 \in 0..k /\ k - 1 < k
        BY <2>2, <2>3
      <4> QED
        BY <2>2, <2>3, <3>2, <4>1
    <3> QED
      BY <2>3, <3>1, <3>2
  <2>6. Goes(h, k)
    BY <2>5
  <2> QED
    BY <2>1, <2>6
<1>2. Goes(f, Len(s))
  BY <1>1
<1>3. ReadsString(s) = f[Len(s)].read
  BY DEF ReadsString
<1> HIDE DEF f
<1>4. f[0] = Nothing
  BY <1>2
<1>5. \A n \in 1..Len(s) : f[n] = ReadsPair(f[n - 1], s[n], n = Len(s))
  BY <1>2
<1> QED
  BY <1>3, <1>4, <1>5

Reading == [read : SUBSET (Names \cup {"iotHubName"}), stopped : BOOLEAN, skip : BOOLEAN]

\* What was read of the first n pairs: names that are written there, all of them while each has a proper value; and of
\* a host name that is not accepted only the name of the hub.
ReadOf(r, s, n) ==
  /\ r \in Reading
  /\ r.read \ {"iotHubName"} \subseteq {s[i].name : i \in 1..n}
  /\ "iotHubName" \in r.read => r.stopped /\ "HostName" \notin r.read
  /\ (\A i \in 1..n : s[i].value = "ok") => ~r.stopped /\ ~r.skip /\ r.read = {s[i].name : i \in 1..n}

\* One more pair, of a name that was not there before.
LEMMA PairRead ==
  ASSUME NEW s, NEW n \in Nat \ {0}, NEW last \in BOOLEAN,
         \A i \in 1..n : s[i] \in Pairs, \A i \in 1..(n - 1) : s[i].name # s[n].name,
         NEW r, ReadOf(r, s, n - 1)
  PROVE  ReadOf(ReadsPair(r, s[n], last), s, n)
<1> DEFINE pair == s[n]
           u == ReadsPair(r, pair, last)
           old == {s[i].name : i \in 1..(n - 1)}
           new == {s[i].name : i \in 1..n}
<1>1. 1..n = (1..(n - 1)) \cup {n} /\ n \in 1..n
  OBVIOUS
<1>2. new = old \cup {pair.name}
  BY <1>1
<1>3. pair.name \notin old
  OBVIOUS
<1>4. /\ r \in Reading /\ r.read \ {"iotHubName"} \subseteq old
      /\ "iotHubName" \in r.read => r.stopped /\ "HostName" \notin r.read
  BY DEF ReadOf
<1>5. (\A i \in 1..n : s[i].value = "ok") => ~r.stopped /\ ~r.skip /\ r.read = old /\ pair.value = "ok"
  BY <1>1 DEF ReadOf
<1>6. pair \in Pairs /\ pair.name \in Names /\ pair.name # "iotHubName"
  BY <1>1 DEF Pairs, Names
<1>7. pair.value \in {"ok", "bad", "empty"} /\ (pair.value = "bad" => pair.name \in {"HostName", "x509"})
  BY <1>6 DEF Pairs
<1> SUFFICES /\ u \in Reading /\ u.read \ {"iotHubName"} \subseteq new
             /\ "iotHubName" \in u.read => u.stopped /\ "HostName" \notin u.read
             /\ (\A i \in 1..n : s[i].value = "ok") => ~u.stopped /\ ~u.skip /\ u.read = new
  BY DEF ReadOf
<1> HIDE DEF old, new, pair
<1>8. CASE r.stopped
  BY <1>2, <1>4, <1>5, <1>8 DEF ReadsPair
<1>9. CASE ~r.stopped /\ r.skip
  <2>1. u = [r EXCEPT !.skip = FALSE]
    BY <1>9 DEF ReadsPair
  <2>2. u \in Reading /\ u.read = r.read /\ u.stopped = r.stopped
    BY <1>4, <2>1 DEF Reading
  <2> QED
    BY <1>2, <1>4, <1>5, <1>9, <2>2
<1>10. CASE ~r.stopped /\ ~r.skip /\ pair.value = "ok"
  <2>1. u = [r EXCEPT !.read = @ \cup {pair.name}]
    BY <1>10 DEF ReadsPair
  <2>2. u \in Reading /\ u.read = r.read \cup {pair.name} /\ u.stopped = r.stopped /\ u.skip = r.skip
    BY <1>4, <1>6, <2>1 DEF Reading
  <2> QED
    BY <1>2, <1>4, <1>5, <1>6, <1>10, <2>2
<1>11. CASE ~r.stopped /\ ~r.skip /\ pair.value = "bad"
  <2> DEFINE more == IF pair.name = "HostName" THEN {"iotHubName"} ELSE {}
  <2>1. u = [r EXCEPT !.stopped = TRUE, !.read = @ \cup more]
    BY <1>11 DEF ReadsPair
  <2>2. u \in Reading /\ u.read = r.read \cup more /\ u.stopped
    BY <1>4, <2>1 DEF Reading
  <2>3. "iotHubName" \in u.read => "HostName" \notin u.read
    BY <1>3, <1>4, <1>11, <2>2
  <2> QED
    BY <1>2, <1>4, <1>5, <1>11, <2>2, <2>3
<1>12. CASE ~r.stopped /\ ~r.skip /\ pair.value = "empty"
  <2>1. CASE last
    <3>1. u = [r EXCEPT !.stopped = TRUE]
      BY <1>12, <2>1 DEF ReadsPair
    <3>2. u \in Reading /\ u.read = r.read /\ u.stopped
      BY <1>4, <3>1 DEF Reading
    <3> QED
      BY <1>2, <1>4, <1>5, <1>12, <3>2
  <2>2. CASE ~last
    <3>1. u = [r EXCEPT !.skip = TRUE, !.read = @ \cup {pair.name}]
      BY <1>12, <2>2 DEF ReadsPair
    <3> DEFINE read == r.read \cup {pair.name}
    <3>2. u = [read |-> read, stopped |-> r.stopped, skip |-> TRUE]
      BY <1>4, <3>1 DEF Reading
    <3>3. read \in SUBSET (Names \cup {"iotHubName"})
      BY <1>4, <1>6 DEF Reading
    <3>4. u \in Reading /\ u.read = r.read \cup {pair.name} /\ u.stopped = r.stopped
      BY <1>4, <3>2, <3>3 DEF Reading
    <3> QED
      BY <1>2, <1>4, <1>5, <1>6, <1>12, <3>4
  <2> QED
    BY <2>1, <2>2
<1> QED
  BY <1>7, <1>8, <1>9, <1>10, <1>11, <1>12

\* A connection string of any length, read to its end.
LEMMA StringRead ==
  ASSUME NEW s \in ConnectionStrings
  PROVE  \E r : ReadOf(r, s, Len(s)) /\ ReadsString(s) = r.read /\ 1..Len(s) = DOMAIN s
<1>1. PICK m \in Nat : s \in [1..m -> Pairs] /\ \A i, j \in 1..m : i # j => s[i].name # s[j].name
  BY ConfigAssumption DEF ConnectionStrings
<1>2. s \in Seq(Pairs) /\ Len(s) = m /\ DOMAIN s = 1..m
  BY <1>1, FunctionIsSequence
<1>3. PICK f : /\ f[0] = Nothing
               /\ \A n \in 1..m : f[n] = ReadsPair(f[n - 1], s[n], n = m)
               /\ ReadsString(s) = f[m].read
  BY <1>2, ReadInTurn
<1> DEFINE Bad == {n \in 0..m : ~ReadOf(f[n], s, n)}
<1>4. ReadOf(f[0], s, 0)
  <2>1. 1..0 = {}
    OBVIOUS
  <2>2. Nothing \in Reading /\ Nothing.read = {} /\ ~Nothing.stopped /\ ~Nothing.skip
    BY DEF Nothing, Reading
  <2> QED
    BY <1>3, <2>1, <2>2 DEF ReadOf
<1>5. ASSUME NEW n \in 1..m, ReadOf(f[n - 1], s, n - 1) PROVE ReadOf(f[n], s, n)
  <2> DEFINE r == f[n - 1]
             last == n = m
  <2>1. n \in Nat \ {0} /\ last \in BOOLEAN
    OBVIOUS
  <2>2. \A i \in 1..n : i \in 1..m
    BY <1>1
  <2>3. \A i \in 1..n : s[i] \in Pairs
    BY <1>1, <2>2
  <2>4. \A i \in 1..(n - 1) : s[i].name # s[n].name
    BY <1>1
  <2>5. ReadOf(r, s, n - 1)
    BY <1>5
  <2>6. f[n] = ReadsPair(r, s[n], last)
    BY <1>3
  <2> HIDE DEF r, last
  <2>7. ReadOf(ReadsPair(r, s[n], last), s, n)
    BY <2>1, <2>3, <2>4, <2>5, PairRead
  <2> QED
    BY <2>6, <2>7
<1>6. Bad = {}
  <2> SUFFICES ASSUME Bad # {} PROVE FALSE
    OBVIOUS
  <2>1. Bad \subseteq Nat
    OBVIOUS
  <2> HIDE DEF Bad
  <2>2. PICK k \in Bad : \A j \in Bad : k <= j
    BY <2>1, LeastNatural
  <2> USE DEF Bad
  <2>3. k \in 0..m /\ ~ReadOf(f[k], s, k) /\ k # 0
    BY <1>4, <2>2
  <2>4. k \in 1..m /\ k - 1 \in 0..m /\ ~(k <= k - 1)
    BY <1>1, <2>3
  <2>5. ReadOf(f[k - 1], s, k - 1)
    BY <2>2, <2>4
  <2> QED
    BY <1>5, <2>3, <2>4, <2>5
<1>7. ReadOf(f[m], s, m)
  BY <1>1, <1>6
<1> QED
  BY <1>2, <1>3, <1>7

\* A client made from a connection string has what was written, and one way to authenticate.
LEMMA StringMakesWhole ==
  ASSUME IoTHubClientCore_LL_CreateFromConnectionString
  PROVE  ConfigurationWhole'
<1>1. PICK s \in ConnectionStrings :
        /\ given' = s /\ config' = ReadsString(s)
        /\ made' # "refused" => Acceptable(ReadsString(s))
  BY DEF IoTHubClientCore_LL_CreateFromConnectionString
<1>2. PICK r : ReadOf(r, s, Len(s)) /\ ReadsString(s) = r.read /\ 1..Len(s) = DOMAIN s
  BY StringRead
<1> DEFINE c == r.read
           written == {s[i].name : i \in 1..Len(s)}
           secrets == {"SharedAccessKey", "SharedAccessSignature"}
<1>3. Written(s) = written
  BY <1>2 DEF Written
<1>4. /\ c \subseteq Names \cup {"iotHubName"} /\ c \ {"iotHubName"} \subseteq written
      /\ "iotHubName" \in c => "HostName" \notin c
      /\ (\A i \in 1..Len(s) : s[i].value = "ok") => c = written
  BY <1>2 DEF ReadOf, Reading
<1> HIDE DEF c, written
<1>5. (\A i \in DOMAIN s : s[i].value = "ok") => c = Written(s)
  BY <1>2, <1>3, <1>4
<1>6. ASSUME made' = "made"
      PROVE  /\ IoTHubTransport_MQTT_Common_Create(c) /\ c \subseteq Written(s)
             /\ Cardinality(c \cap secrets) = (IF c \cap {"x509", "UseProvisioning"} = {} THEN 1 ELSE 0)
  <2>1. Acceptable(c)
    BY <1>1, <1>2, <1>6 DEF c
  <2>2. IoTHubTransport_MQTT_Common_Create(c)
    BY <2>1 DEF Acceptable, IoTHubTransport_MQTT_Common_Create
  <2>3. c \subseteq Written(s)
    BY <1>3, <1>4, <2>1 DEF Acceptable
  <2>4. CASE c \cap {"x509", "UseProvisioning"} = {}
    <3>1. \E x : c \cap secrets = {x}
      <4>1. CASE "SharedAccessKey" \in c
        <5>1. c \cap secrets = {"SharedAccessKey"}
          BY <2>1, <2>4, <4>1 DEF Acceptable
        <5> QED
          BY <5>1
      <4>2. CASE "SharedAccessKey" \notin c
        <5>1. c \cap secrets = {"SharedAccessSignature"}
          BY <2>1, <2>4, <4>2 DEF Acceptable
        <5> QED
          BY <5>1
      <4> QED
        BY <4>1, <4>2
    <3>2. Cardinality(c \cap secrets) = 1
      BY <3>1, FS_Singleton
    <3> QED
      BY <2>2, <2>3, <2>4, <3>2
  <2>5. CASE c \cap {"x509", "UseProvisioning"} # {}
    <3>1. c \cap secrets = {}
      BY <2>1, <2>5 DEF Acceptable
    <3>2. Cardinality(c \cap secrets) = 0
      BY <3>1, FS_EmptySet
    <3> QED
      BY <2>2, <2>3, <2>5, <3>2
  <2> QED
    BY <2>4, <2>5
<1>7. source' = "string" /\ config' = c /\ given' = s
  BY <1>1, <1>2 DEF IoTHubClientCore_LL_CreateFromConnectionString, c
<1>8. ConnectionStringRead'
  BY <1>5, <1>6, <1>7 DEF ConnectionStringRead, Written, IoTHubTransport_MQTT_Common_Create
<1>9. EdgeIsTrusted' /\ HubNameWhole'
  BY <1>7 DEF EdgeIsTrusted, HubNameWhole
<1> QED
  BY <1>8, <1>9 DEF ConfigurationWhole

\* An Edge module that was not destroyed again trusts what it has to.
LEMMA EdgeMakesWhole ==
  ASSUME IoTHubClientCore_LL_CreateFromEnvironment
  PROVE  ConfigurationWhole'
<1>1. source' = "environment"
  BY DEF IoTHubClientCore_LL_CreateFromEnvironment
<1>2. PICK env \in SUBSET Variables : \E created, bundle, option \in BOOLEAN :
        /\ config' = IF ~retrieve_edge_environment_variabes(env) THEN {}
                     ELSE IF "EdgeHubConnectionString" \in env THEN {"HostName", "DeviceId", "SharedAccessKey", "ModuleId"}
                     ELSE {"UseProvisioning"} \cup {NameOf[v] : v \in env \cap DOMAIN NameOf}
        /\ made' = IF ~(retrieve_edge_environment_variabes(env) /\ created) THEN "refused"
                   ELSE IF bundle /\ option THEN "made" ELSE "destroyed"
        /\ trusted' = (made' = "made" /\ option)
  BY DEF IoTHubClientCore_LL_CreateFromEnvironment
<1>3. ASSUME made' = "made" PROVE trusted' /\ {"HostName", "DeviceId", "ModuleId"} \subseteq config'
  <2>1. retrieve_edge_environment_variabes(env) /\ trusted'
    BY <1>2, <1>3
  <2>2. CASE "EdgeHubConnectionString" \in env
    BY <1>2, <2>1, <2>2
  <2>3. CASE "EdgeHubConnectionString" \notin env
    <3>1. {"IOTEDGE_DEVICEID", "IOTEDGE_MODULEID", "IOTEDGE_IOTHUBHOSTNAME"} \subseteq env
      BY <2>1, <2>3 DEF retrieve_edge_environment_variabes, Variables, FromString
    <3>2. /\ {"IOTEDGE_DEVICEID", "IOTEDGE_MODULEID", "IOTEDGE_IOTHUBHOSTNAME"} \subseteq DOMAIN NameOf
          /\ NameOf["IOTEDGE_DEVICEID"] = "DeviceId" /\ NameOf["IOTEDGE_MODULEID"] = "ModuleId"
          /\ NameOf["IOTEDGE_IOTHUBHOSTNAME"] = "HostName"
      BY DEF NameOf
    <3>3. config' = {"UseProvisioning"} \cup {NameOf[v] : v \in env \cap DOMAIN NameOf}
      BY <1>2, <2>1, <2>3
    <3> QED
      BY <2>1, <3>1, <3>2, <3>3
  <2> QED
    BY <2>2, <2>3
<1>4. EdgeIsTrusted'
  BY <1>3 DEF EdgeIsTrusted
<1>5. ConnectionStringRead' /\ HubNameWhole'
  BY <1>1 DEF ConnectionStringRead, HubNameWhole
<1> QED
  BY <1>4, <1>5 DEF ConfigurationWhole

\* Nothing yet, or a name and a suffix from one dot, or a name that was released.
Split(c) == c = {} \/ (\E d \in 1..Dots : c = {<<"name", d>>, <<"suffix", d>>}) \/ (\E d \in 1..Dots : c = {<<"freed", d>>})

\* At each dot the name is kept, made together with its suffix, or released.
LEMMA DotSplits ==
  ASSUME NEW c, Split(c), NEW dot \in 1..Dots, NEW nameOk, NEW suffixOk
  PROVE  Split(SplitsAt(c, dot, nameOk, suffixOk))
<1>1. SplitsAt(c, dot, nameOk, suffixOk) \in {c, {<<"name", dot>>, <<"suffix", dot>>}, {<<"freed", dot>>}}
  BY DEF SplitsAt
<1> QED
  BY <1>1 DEF Split

\* A client made from an address has a name and a suffix, the two sides of one dot.
LEMMA AddressMakesWhole ==
  ASSUME IoTHubClientCore_LL_CreateFromDeviceAuth
  PROVE  ConfigurationWhole'
<1>1. source' = "address" /\ (made' = "made" => \E d \in 1..Dots : <<"suffix", d>> \in config')
  BY DEF IoTHubClientCore_LL_CreateFromDeviceAuth
<1>2. PICK dots \in 0..Dots, oks \in [1..Dots -> BOOLEAN \X BOOLEAN] : config' = SplitsAddress(dots, oks)
  BY DEF IoTHubClientCore_LL_CreateFromDeviceAuth
<1> DEFINE Goes(f) == f = [n \in 0..dots |-> IF n = 0 THEN {} ELSE SplitsAt(f[n - 1], n, oks[n][1], oks[n][2])]
           f == CHOOSE g : Goes(g)
<1>3. dots \in {0, 1, 2} /\ 1 \in 1..Dots /\ (dots = 2 => 2 \in 1..Dots)
  BY DEF Dots
<1>4. \E g : Goes(g)
  <2> DEFINE first == SplitsAt({}, 1, oks[1][1], oks[1][2])
             second == SplitsAt(first, 2, oks[2][1], oks[2][2])
             g == [n \in 0..dots |-> IF n = 0 THEN {} ELSE IF n = 1 THEN first ELSE second]
  <2>1. g[0] = {} /\ (1 \in 0..dots => g[1] = first) /\ (2 \in 0..dots => g[2] = second)
    BY <1>3
  <2>2. ASSUME NEW n \in 0..dots
        PROVE  g[n] = IF n = 0 THEN {} ELSE SplitsAt(g[n - 1], n, oks[n][1], oks[n][2])
    <3>1. n \in {0, 1, 2} /\ (n = 2 => 1 \in 0..dots)
      BY <1>3
    <3> HIDE DEF g
    <3>2. CASE n = 0
      BY <2>1, <3>2
    <3>3. CASE n = 1
      <4>1. n - 1 = 0
        BY <3>3
      <4> QED
        BY <2>1, <3>3, <4>1
    <3>4. CASE n = 2
      <4>1. n - 1 = 1
        BY <3>4
      <4> QED
        BY <2>1, <3>1, <3>4, <4>1
    <3> QED
      BY <3>1, <3>2, <3>3, <3>4
  <2>3. Goes(g)
    BY <2>2
  <2> HIDE DEF Goes
  <2> QED
    BY <2>3
<1>5. Goes(f)
  BY <1>4
<1>6. config' = f[dots]
  <2>1. SplitsAddress(dots, oks) = f[dots]
    BY DEF SplitsAddress
  <2> QED
    BY <1>2, <2>1
<1> HIDE DEF f
<1>7. f[0] = {} /\ \A n \in 1..dots : f[n] = SplitsAt(f[n - 1], n, oks[n][1], oks[n][2])
  <2>1. 0 \in 0..dots
    BY <1>3
  <2>2. f[0] = {}
    BY <1>5, <2>1
  <2>3. ASSUME NEW n \in 1..dots PROVE f[n] = SplitsAt(f[n - 1], n, oks[n][1], oks[n][2])
    <3>1. n \in 0..dots /\ n # 0
      BY <1>3
    <3>2. \A i \in 0..dots : f[i] = IF i = 0 THEN {} ELSE SplitsAt(f[i - 1], i, oks[i][1], oks[i][2])
      BY <1>5
    <3> QED
      BY <3>1, <3>2
  <2> QED
    BY <2>2, <2>3
<1>8. Split(f[0])
  BY <1>7 DEF Split
<1>9. ASSUME NEW n \in 1..dots, Split(f[n - 1]) PROVE Split(f[n])
  <2>1. n \in 1..Dots
    BY <1>3 DEF Dots
  <2> QED
    BY <1>7, <1>9, <2>1, DotSplits
<1>10. Split(config')
  <2>1. CASE dots = 0
    BY <1>6, <1>8, <2>1
  <2>2. CASE dots = 1
    <3>1. 1 \in 1..dots /\ 1 - 1 = 0
      BY <2>2
    <3> QED
      BY <1>6, <1>8, <1>9, <2>2, <3>1
  <2>3. CASE dots = 2
    <3>1. 1 \in 1..dots /\ 1 - 1 = 0 /\ 2 \in 1..dots /\ 2 - 1 = 1
      BY <2>3
    <3>2. Split(f[1])
      BY <1>8, <1>9, <3>1
    <3> QED
      BY <1>6, <1>9, <2>3, <3>1, <3>2
  <2> QED
    BY <1>3, <2>1, <2>2, <2>3
<1>11. ASSUME made' = "made" PROVE \E d \in 1..Dots : config' = {<<"name", d>>, <<"suffix", d>>}
  <2>1. PICK d \in 1..Dots : <<"suffix", d>> \in config'
    BY <1>1, <1>11
  <2>2. \A e : <<"suffix", d>> # <<"freed", e>>
    OBVIOUS
  <2> QED
    BY <1>10, <2>1, <2>2 DEF Split
<1>12. HubNameWhole'
  BY <1>11 DEF HubNameWhole
<1>13. ConnectionStringRead' /\ EdgeIsTrusted'
  BY <1>1 DEF ConnectionStringRead, EdgeIsTrusted
<1> QED
  BY <1>12, <1>13 DEF ConfigurationWhole

\* However a client is made, from a connection string of any length, from the environment or from an address: it is
\* made of all it needs and nothing else, and the order of the pairs does not matter.
THEOREM ConfigurationIsWhole == ConfigSpec => []ConfigurationWhole
<1>1. ConfigInit => ConfigurationWhole
  BY DEF ConfigInit, ConfigurationWhole, ConnectionStringRead, EdgeIsTrusted, HubNameWhole
<1>2. ConfigurationWhole /\ [ConfigNext]_configVars => ConfigurationWhole'
  <2> SUFFICES ASSUME ConfigurationWhole, [ConfigNext]_configVars PROVE ConfigurationWhole'
    OBVIOUS
  <2>1. CASE IoTHubClientCore_LL_CreateFromConnectionString
    BY <2>1, StringMakesWhole
  <2>2. CASE IoTHubClientCore_LL_CreateFromEnvironment
    BY <2>2, EdgeMakesWhole
  <2>3. CASE IoTHubClientCore_LL_CreateFromDeviceAuth
    BY <2>3, AddressMakesWhole
  <2>4. CASE ConfigDone
    BY <2>4 DEF ConfigDone, ConfigurationWhole, ConnectionStringRead, EdgeIsTrusted, HubNameWhole
  <2>5. CASE UNCHANGED configVars
    BY <2>5 DEF configVars, ConfigurationWhole, ConnectionStringRead, EdgeIsTrusted, HubNameWhole, Written,
                IoTHubTransport_MQTT_Common_Create
  <2> QED
    BY <2>1, <2>2, <2>3, <2>4, <2>5 DEF ConfigNext
<1> QED
  BY <1>1, <1>2, PTL DEF ConfigSpec

-----------------------------------------------------------------------------
(* Messages and their topics *)

SegmentNames == {"user", "cid", "mid", "ct", "ce", "ctime", "ifid", "diagid", "diagctx", "on", "failed"}
Segments == [separated : BOOLEAN, name : SegmentNames, value : Values \cup {None}, encoded : BOOLEAN]

\* A value that could be taken for a separator is encoded, when values are.
Safe(g, urlencode) == (urlencode \/ g.name \in {"ifid", "diagctx"}) /\ g.value = "sep" => g.encoded

\* A topic as it is before the properties of a trace: all segments are counted, and a separator is before each but the first.
Counts(w, urlencode) ==
  /\ w.topic \in Seq(Segments) /\ w.index = Len(w.topic)
  /\ \A i \in 1..Len(w.topic) : w.topic[i].separated = (i > 1) /\ Safe(w.topic[i], urlencode)

\* The parts of a message of the application.
LEMMA MessageFields ==
  ASSUME NEW m \in Messages
  PROVE  /\ m.user \in Seq(Values)
         /\ m.cid \in Values \cup {None} /\ m.mid \in Values \cup {None} /\ m.ct \in Values \cup {None}
         /\ m.ce \in Values \cup {None} /\ m.ctime \in Values \cup {None} /\ m.output \in {None, "plain"}
         /\ m.security \in BOOLEAN /\ m.urlencode \in BOOLEAN /\ m.diagnostic \in {"none", "both", "half"}
<1>1. m.user \in {<<>>} \cup {<<v>> : v \in Values} \cup {<<v, w>> : v, w \in Values}
  BY DEF Messages
<1>2. m.user \in Seq(Values)
  <2>1. CASE m.user = <<>>
    BY <2>1
  <2>2. ASSUME NEW v \in Values, m.user = <<v>> PROVE m.user \in Seq(Values)
    BY <2>2
  <2>3. ASSUME NEW v \in Values, NEW w \in Values, m.user = <<v, w>> PROVE m.user \in Seq(Values)
    BY <2>3
  <2> QED
    BY <1>1, <2>1, <2>2, <2>3
<1>3. /\ m.cid \in {None} /\ m.mid \in Values \cup {None} /\ m.ct \in {None, "plain"}
      /\ m.ce \in Values \cup {None} /\ m.ctime \in {None, "plain"} /\ m.output \in {None, "plain"}
      /\ m.security \in BOOLEAN /\ m.urlencode \in BOOLEAN /\ m.diagnostic \in {"none", "both", "half"}
  BY DEF Messages
<1> QED
  BY <1>2, <1>3 DEF Values

\* The application's own properties are the first in the topic.
LEMMA UserCounts ==
  ASSUME NEW m \in Messages
  PROVE  Counts(addUserPropertiesTouMqttMessage(m), m.urlencode)
<1> DEFINE n == Len(m.user)
           t == [i \in 1..n |-> Segment(i > 1, "user", m.user[i], m.urlencode)]
<1>1. m.user \in Seq(Values) /\ n \in Nat /\ m.urlencode \in BOOLEAN
  BY MessageFields
<1>2. ASSUME NEW i \in 1..n
      PROVE  Segment(i > 1, "user", m.user[i], m.urlencode) \in Segments /\ t[i].separated = (i > 1) /\ Safe(t[i], m.urlencode)
  <2>1. m.user[i] \in Values
    BY <1>1
  <2>2. t[i] = [separated |-> i > 1, name |-> "user", value |-> m.user[i], encoded |-> m.urlencode]
    BY DEF Segment
  <2>3. (i > 1) \in BOOLEAN
    OBVIOUS
  <2> HIDE DEF t
  <2>4. t[i] \in Segments
    BY <1>1, <2>1, <2>2, <2>3 DEF Segments, SegmentNames
  <2>5. t[i].separated = (i > 1) /\ t[i].name = "user" /\ t[i].encoded = m.urlencode
    BY <2>2
  <2>6. Safe(t[i], m.urlencode)
    BY <2>5 DEF Safe
  <2> QED
    BY <2>4, <2>5, <2>6 DEF t
<1>3. t \in [1..n -> Segments]
  BY <1>2
<1>4. addUserPropertiesTouMqttMessage(m) = [topic |-> t, index |-> n]
  BY DEF addUserPropertiesTouMqttMessage, TopicWritten
<1> HIDE DEF t, n
<1>5. t \in Seq(Segments) /\ Len(t) = n
  BY <1>1, <1>3, FunctionIsSequence
<1> QED
  BY <1>2, <1>4, <1>5 DEF Counts

\* A system property is added with its separator and counted, or it has no value and nothing changes.
LEMMA SystemPropertyCounts ==
  ASSUME NEW w, NEW urlencode \in BOOLEAN, Counts(w, urlencode),
         NEW name \in SegmentNames, NEW value \in Values \cup {None}, NEW encoded \in BOOLEAN,
         (urlencode \/ name \in {"ifid", "diagctx"}) /\ value = "sep" => encoded
  PROVE  Counts(addSystemPropertyToTopicString(w, name, value, encoded), urlencode)
<1> DEFINE g == Segment(w.index > 0, name, value, encoded)
           n == Len(w.topic)
           t == Append(w.topic, g)
<1>1. w.topic \in Seq(Segments) /\ n \in Nat /\ w.index = n
  BY DEF Counts
<1>2. g \in Segments /\ Safe(g, urlencode) /\ g.separated = (n > 0)
  <2>1. (w.index > 0) \in BOOLEAN
    OBVIOUS
  <2> QED
    BY <1>1, <2>1 DEF Segment, Segments, Safe
<1> HIDE DEF g
<1>3. /\ t \in Seq(Segments) /\ Len(t) = n + 1 /\ t[n + 1] = g
      /\ \A i \in 1..n : t[i] = w.topic[i]
  BY <1>1, <1>2
<1> HIDE DEF t
<1>4. CASE value = None
  BY <1>4 DEF addSystemPropertyToTopicString
<1>5. CASE value # None
  <2>1. addSystemPropertyToTopicString(w, name, value, encoded) = [topic |-> t, index |-> n + 1]
    BY <1>1, <1>5 DEF addSystemPropertyToTopicString, TopicWritten, t, g
  <2>2. ASSUME NEW i \in 1..(n + 1) PROVE t[i].separated = (i > 1) /\ Safe(t[i], urlencode)
    <3>1. CASE i = n + 1
      BY <1>1, <1>2, <1>3, <3>1
    <3>2. CASE i # n + 1
      <4>1. i \in 1..n
        BY <1>1, <3>2
      <4> QED
        BY <1>3, <4>1 DEF Counts
    <3> QED
      BY <3>1, <3>2
  <2> QED
    BY <1>3, <2>1, <2>2 DEF Counts
<1> QED
  BY <1>4, <1>5

\* All of them, one after the other.
LEMMA SystemCounts ==
  ASSUME NEW m \in Messages, NEW w, Counts(w, m.urlencode)
  PROVE  Counts(addSystemPropertiesTouMqttMessage(w, m), m.urlencode)
<1> DEFINE e == m.urlencode
           w1 == addSystemPropertyToTopicString(w, "cid", m.cid, e)
           w2 == addSystemPropertyToTopicString(w1, "mid", m.mid, e)
           w3 == addSystemPropertyToTopicString(w2, "ct", m.ct, e)
           w4 == addSystemPropertyToTopicString(w3, "ce", m.ce, m.security \/ e)
           w5 == addSystemPropertyToTopicString(w4, "ctime", m.ctime, e)
           w6 == addSystemPropertyToTopicString(w5, "ifid", "plain", TRUE)
<1>1. /\ m.cid \in Values \cup {None} /\ m.mid \in Values \cup {None} /\ m.ct \in Values \cup {None}
      /\ m.ce \in Values \cup {None} /\ m.ctime \in Values \cup {None}
      /\ m.security \in BOOLEAN /\ e \in BOOLEAN
  BY MessageFields
<1>2. {"cid", "mid", "ct", "ce", "ctime", "ifid"} \subseteq SegmentNames /\ "plain" \in Values \cup {None}
  BY DEF SegmentNames, Values
<1>3. addSystemPropertiesTouMqttMessage(w, m) = IF m.security THEN w6 ELSE w5
  BY DEF addSystemPropertiesTouMqttMessage
<1>4. Counts(w1, e)
  BY <1>1, <1>2, SystemPropertyCounts
<1> HIDE DEF w1
<1>5. Counts(w2, e)
  BY <1>1, <1>2, <1>4, SystemPropertyCounts
<1> HIDE DEF w2
<1>6. Counts(w3, e)
  BY <1>1, <1>2, <1>5, SystemPropertyCounts
<1> HIDE DEF w3
<1>7. Counts(w4, e)
  BY <1>1, <1>2, <1>6, SystemPropertyCounts
<1> HIDE DEF w4
<1>8. Counts(w5, e)
  BY <1>1, <1>2, <1>7, SystemPropertyCounts
<1> HIDE DEF w5
<1>9. Counts(w6, e)
  BY <1>1, <1>2, <1>8, SystemPropertyCounts
<1> QED
  BY <1>3, <1>8, <1>9

\* What the segments of a topic are, whatever the message.
TopicApart(t, urlencode) ==
  \A i \in DOMAIN t :
    /\ \/ t[i].separated = (i > 1)
       \/ t[i].name = "on" /\ {t[j].name : j \in 1..(i - 1)} = {"diagid", "diagctx"}
    /\ Safe(t[i], urlencode)

\* The topic as a whole: only an output after a trace and nothing else lacks its separator.
LEMMA TopicSegments ==
  ASSUME NEW m \in Messages
  PROVE  TopicApart(addPropertiesTouMqttMessage(m), m.urlencode)
<1> DEFINE e == m.urlencode
           w == addSystemPropertiesTouMqttMessage(addUserPropertiesTouMqttMessage(m), m)
           d == addDiagnosticPropertiesTouMqttMessage(w, m)
           n == Len(w.topic)
           id == Segment(w.index > 0, "diagid", "plain", FALSE)
           ctx == Segment(TRUE, "diagctx", "sep", TRUE)
           on == Segment(d.index > 0, "on", m.output, FALSE)
           t == IF m.output = None THEN d.topic ELSE Append(d.topic, on)
<1>1. Counts(w, e)
  BY UserCounts, SystemCounts
<1>2. m.output \in {None, "plain"} /\ e \in BOOLEAN /\ m.diagnostic \in {"none", "both", "half"}
  BY MessageFields
<1>3. addPropertiesTouMqttMessage(m) = IF m.diagnostic = "half" THEN Failed ELSE t
  BY DEF addPropertiesTouMqttMessage
<1>4. d.index = w.index /\ d.topic = IF m.diagnostic = "none" THEN w.topic ELSE w.topic \o <<id, ctx>>
  BY DEF addDiagnosticPropertiesTouMqttMessage, TopicWritten
<1>5. TopicApart(Failed, e)
  <2>1. DOMAIN Failed = {1} /\ Failed[1] = [separated |-> FALSE, name |-> "failed", value |-> None, encoded |-> FALSE]
    BY DEF Failed, Segment
  <2>2. Failed[1].separated = FALSE /\ Failed[1].value # "sep"
    BY <2>1 DEF None
  <2>3. Safe(Failed[1], e)
    BY <2>2 DEF Safe
  <2>4. ASSUME NEW i \in DOMAIN Failed PROVE Failed[i].separated = (i > 1) /\ Safe(Failed[i], e)
    <3>1. i = 1
      BY <2>1
    <3>2. (i > 1) = FALSE
      BY <3>1
    <3>3. Failed[i].separated = FALSE /\ Safe(Failed[i], e)
      BY <2>2, <2>3, <3>1
    <3> QED
      BY <3>2, <3>3
  <2> QED
    BY <2>4 DEF TopicApart
<1> HIDE DEF w, d
<1>6. w.topic \in Seq(Segments) /\ n \in Nat /\ w.index = n
  BY <1>1 DEF Counts
<1>7. /\ id = [separated |-> n > 0, name |-> "diagid", value |-> "plain", encoded |-> FALSE]
      /\ ctx = [separated |-> TRUE, name |-> "diagctx", value |-> "sep", encoded |-> TRUE]
      /\ on = [separated |-> n > 0, name |-> "on", value |-> m.output, encoded |-> FALSE]
  BY <1>4, <1>6 DEF Segment
<1> HIDE DEF id, ctx, on
<1>8. (n > 0) \in BOOLEAN
  OBVIOUS
<1>9. id \in Segments /\ ctx \in Segments /\ on \in Segments
  BY <1>2, <1>7, <1>8 DEF Segments, SegmentNames, Values
<1>10. Safe(id, e) /\ Safe(ctx, e) /\ Safe(on, e)
  <2>1. m.output # "sep"
    BY <1>2 DEF None
  <2> QED
    BY <1>7, <2>1 DEF Safe
<1>11. CASE m.diagnostic = "none"
  <2>1. d.topic = w.topic
    BY <1>4, <1>11
  <2>2. \A i \in 1..n : w.topic[i].separated = (i > 1) /\ Safe(w.topic[i], e)
    BY <1>1 DEF Counts
  <2>3. CASE m.output = None
    <3>1. t = w.topic /\ DOMAIN t = 1..n
      BY <1>6, <2>1, <2>3
    <3> QED
      BY <1>3, <1>11, <2>2, <3>1 DEF TopicApart
  <2>4. CASE m.output # None
    <3>1. t = Append(w.topic, on)
      BY <2>1, <2>4
    <3> HIDE DEF t
    <3>2. DOMAIN t = 1..(n + 1) /\ t[n + 1] = on /\ \A i \in 1..n : t[i] = w.topic[i]
      BY <1>6, <1>9, <3>1
    <3>3. ASSUME NEW i \in 1..(n + 1) PROVE t[i].separated = (i > 1) /\ Safe(t[i], e)
      <4>1. CASE i = n + 1
        <5>1. (i > 1) = (n > 0)
          BY <1>6, <4>1
        <5> QED
          BY <1>7, <1>10, <3>2, <4>1, <5>1
      <4>2. CASE i # n + 1
        <5>1. i \in 1..n
          BY <1>6, <4>2
        <5> QED
          BY <2>2, <3>2, <5>1
      <4> QED
        BY <4>1, <4>2
    <3> QED
      BY <1>3, <1>11, <3>2, <3>3 DEF TopicApart
  <2> QED
    BY <2>3, <2>4
<1>12. CASE m.diagnostic = "both"
  <2> DEFINE s == w.topic \o <<id, ctx>>
  <2>1. d.topic = s
    BY <1>4, <1>12
  <2>2. \A i \in 1..n : w.topic[i].separated = (i > 1) /\ Safe(w.topic[i], e)
    BY <1>1 DEF Counts
  <2>3. /\ s \in Seq(Segments) /\ Len(s) = n + 2 /\ s[n + 1] = id /\ s[n + 2] = ctx
        /\ \A i \in 1..n : s[i] = w.topic[i]
    <3> DEFINE two == <<id, ctx>>
    <3>1. two \in Seq(Segments) /\ Len(two) = 2 /\ two[1] = id /\ two[2] = ctx
      BY <1>9
    <3> HIDE DEF two
    <3> DEFINE a == w.topic
               u == a \o two
    <3>2. a \in Seq(Segments) /\ Len(a) = n
      BY <1>6
    <3>3. s = u
      BY DEF two
    <3> HIDE DEF s, a
    <3>4. /\ u \in Seq(Segments) /\ Len(u) = n + 2
          /\ \A i \in 1..n : u[i] = w.topic[i]
          /\ \A i \in 1..2 : u[n + i] = two[i]
      <4>1. /\ u \in Seq(Segments) /\ Len(u) = Len(a) + Len(two)
            /\ \A i \in 1..Len(a) : u[i] = a[i]
            /\ \A i \in 1..Len(two) : u[Len(a) + i] = two[i]
        <5>1. a \in Seq(Segments) /\ two \in Seq(Segments)
          BY <3>1, <3>2
        <5> QED
          BY <5>1, ConcatElements
      <4> HIDE DEF u
      <4> QED
        BY <3>1, <3>2, <4>1 DEF a
    <3> HIDE DEF u
    <3>5. u[n + 1] = id /\ u[n + 2] = ctx
      BY <3>1, <3>4
    <3> QED
      BY <3>3, <3>4, <3>5
  <2> HIDE DEF s
  <2>4. ASSUME NEW i \in 1..(n + 2) PROVE s[i].separated = (i > 1) /\ Safe(s[i], e)
    <3>1. CASE i = n + 1
      <4>1. (i > 1) = (n > 0)
        BY <1>6, <3>1
      <4> QED
        BY <1>7, <1>10, <2>3, <3>1, <4>1
    <3>2. CASE i = n + 2
      <4>1. i > 1
        BY <1>6, <3>2
      <4>2. s[i] = ctx /\ ctx.separated
        BY <1>7, <2>3, <3>2
      <4> QED
        BY <1>7, <1>10, <4>1, <4>2
    <3>3. CASE i # n + 1 /\ i # n + 2
      <4>1. i \in 1..n
        BY <1>6, <3>3
      <4> QED
        BY <2>2, <2>3, <4>1
    <3> QED
      BY <3>1, <3>2, <3>3
  <2>5. CASE m.output = None
    <3>1. t = s /\ DOMAIN t = 1..(n + 2)
      BY <2>1, <2>3, <2>5
    <3> QED
      BY <1>3, <1>12, <2>4, <3>1 DEF TopicApart
  <2>6. CASE m.output # None
    <3>1. t = Append(s, on)
      BY <2>1, <2>6
    <3> HIDE DEF t
    <3>2. DOMAIN t = 1..(n + 3) /\ t[n + 3] = on /\ \A i \in 1..(n + 2) : t[i] = s[i]
      BY <1>6, <1>9, <2>3, <3>1
    <3>3. ASSUME n > 0 PROVE t[n + 3].separated = (n + 3 > 1)
      BY <1>6, <1>7, <3>2, <3>3
    <3>4. ASSUME ~(n > 0) PROVE t[n + 3].name = "on" /\ {t[j].name : j \in 1..(n + 3 - 1)} = {"diagid", "diagctx"}
      <4>1. n = 0 /\ 1..(n + 3 - 1) = {1, 2} /\ 1 \in 1..(n + 2) /\ 2 \in 1..(n + 2)
        BY <1>6, <3>4
      <4>2. t[1] = id /\ t[2] = ctx
        BY <2>3, <3>2, <4>1
      <4>3. t[1].name = "diagid" /\ t[2].name = "diagctx" /\ t[n + 3].name = "on"
        BY <1>7, <3>2, <4>2
      <4> QED
        BY <4>1, <4>3
    <3>5. ASSUME NEW i \in 1..(n + 3)
          PROVE  /\ \/ t[i].separated = (i > 1)
                    \/ t[i].name = "on" /\ {t[j].name : j \in 1..(i - 1)} = {"diagid", "diagctx"}
                 /\ Safe(t[i], e)
      <4>1. CASE i = n + 3
        BY <1>10, <3>2, <3>3, <3>4, <4>1
      <4>2. CASE i # n + 3
        <5>1. i \in 1..(n + 2)
          BY <1>6, <4>2
        <5> QED
          BY <2>4, <3>2, <5>1
      <4> QED
        BY <4>1, <4>2
    <3>6. TopicApart(t, e)
      BY <3>2, <3>5 DEF TopicApart
    <3> QED
      BY <1>3, <1>12, <3>6
  <2> QED
    BY <2>5, <2>6
<1>13. CASE m.diagnostic = "half"
  BY <1>3, <1>5, <1>13
<1> QED
  BY <1>2, <1>11, <1>12, <1>13

\* The values the loop over the properties of a topic goes through.
LEMMA ExtractedInTurn ==
  ASSUME NEW pairs, Len(pairs) \in Nat
  PROVE  \E f : /\ f[0] = [system |-> {}, application |-> {}]
                /\ \A n \in 1..Len(pairs) : f[n] = Extracts(f[n - 1], pairs[n])
                /\ extractMqttProperties(pairs) = f[Len(pairs)]
<1> DEFINE nothing == [system |-> {}, application |-> {}]
           Goes(f, k) == f = [n \in 0..k |-> IF n = 0 THEN nothing ELSE Extracts(f[n - 1], pairs[n])]
           f == CHOOSE g : Goes(g, Len(pairs))
           Bad == {k \in Nat : ~\E g : Goes(g, k)}
<1>1. Bad = {}
  <2> SUFFICES ASSUME Bad # {} PROVE FALSE
    OBVIOUS
  <2>1. PICK k \in Bad : \A j \in Bad : k <= j
    BY LeastNatural
  <2>2. k # 0
    <3> DEFINE g == [n \in 0..0 |-> nothing]
    <3>1. Goes(g, 0)
      OBVIOUS
    <3> QED
      BY <3>1
  <2>3. k \in Nat /\ k - 1 \in Nat /\ k - 1 \notin Bad
    <3>1. k \in Nat /\ k - 1 \in Nat /\ ~(k <= k - 1)
      BY <2>2
    <3> QED
      BY <2>1, <3>1
  <2>4. PICK g : Goes(g, k - 1)
    BY <2>3
  <2> DEFINE h == [n \in 0..k |-> IF n < k THEN g[n] ELSE Extracts(g[k - 1], pairs[k])]
  <2>5. ASSUME NEW n \in 0..k
        PROVE  h[n] = IF n = 0 THEN nothing ELSE Extracts(h[n - 1], pairs[n])
    <3>1. CASE n < k
      <4>1. n \in 0..(k - 1) /\ h[n] = g[n]
        BY <2>3, <3>1
      <4>2. g[n] = IF n = 0 THEN nothing ELSE Extracts(g[n - 1], pairs[n])
        BY <2>4, <4>1
      <4>3. n # 0 => n - 1 \in 0..k /\ n - 1 < k
        BY <2>3, <4>1
      <4> QED
        BY <4>1, <4>2, <4>3
    <3>2. CASE n = k
      <4>1. k - 1 \in 0..k /\ k - 1 < k
        BY <2>2, <2>3
      <4> QED
        BY <2>2, <2>3, <3>2, <4>1
    <3> QED
      BY <2>3, <3>1, <3>2
  <2>6. Goes(h, k)
    BY <2>5
  <2> QED
    BY <2>1, <2>6
<1>2. Goes(f, Len(pairs))
  BY <1>1
<1>3. extractMqttProperties(pairs) = f[Len(pairs)]
  BY DEF extractMqttProperties
<1> HIDE DEF f, nothing
<1>4. f[0] = nothing
  BY <1>2
<1>5. \A n \in 1..Len(pairs) : f[n] = Extracts(f[n - 1], pairs[n])
  BY <1>2
<1> QED
  BY <1>3, <1>4, <1>5 DEF nothing

HubPairs == (SystemNames \cup UserNames) \X {"plain"}
TriedNames == {"ctime", "cdid", "cmid", "mid", "cid", "uid", "ct", "ce"}

\* The order in which names are compared.
LEMMA TriedInOrder ==
  /\ DOMAIN Tried = 1..8 /\ Range(Tried) = TriedNames
  /\ Tried[1] = "ctime" /\ Tried[2] = "cdid" /\ Tried[3] = "cmid" /\ Tried[4] = "mid"
  /\ Tried[5] = "cid" /\ Tried[6] = "uid" /\ Tried[7] = "ct" /\ Tried[8] = "ce"
<1>1. DOMAIN Tried = 1..8
  BY DEF Tried
<1>2. /\ Tried[1] = "ctime" /\ Tried[2] = "cdid" /\ Tried[3] = "cmid" /\ Tried[4] = "mid"
      /\ Tried[5] = "cid" /\ Tried[6] = "uid" /\ Tried[7] = "ct" /\ Tried[8] = "ce"
  BY DEF Tried
<1>3. 1..8 = {1, 2, 3, 4, 5, 6, 7, 8}
  OBVIOUS
<1>4. Range(Tried) = {Tried[i] : i \in {1, 2, 3, 4, 5, 6, 7, 8}}
  BY <1>1, <1>3 DEF Range
<1>5. Range(Tried) = TriedNames
  BY <1>2, <1>4 DEF TriedNames
<1> QED
  BY <1>1, <1>2, <1>5

\* A name that others end with is found only as itself, because the long names are tried first.
LEMMA NameFound ==
  ASSUME NEW name \in TriedNames
  PROVE  FirstTried(Endings(name)) = name
<1> DEFINE names == Endings(name)
           First(i) == i \in DOMAIN Tried /\ Tried[i] \in names /\ \A j \in 1..(i - 1) : Tried[j] \notin names
           k == CHOOSE i \in DOMAIN Tried : Tried[i] \in names /\ \A j \in 1..(i - 1) : Tried[j] \notin names
<1>1. names = IF name = "cmid" THEN {"cmid", "mid"} ELSE {name}
  BY DEF Endings, TriedNames
<1> HIDE DEF names
<1>2. PICK n \in 1..8 : Tried[n] = name /\ \A j \in 1..8 : j # n => Tried[j] # name
  <2>1. \E n \in 1..8 : Tried[n] = name
    BY TriedInOrder DEF TriedNames
  <2>2. \A i, j \in 1..8 : i # j => Tried[i] # Tried[j]
    <3>1. 1..8 = {1, 2, 3, 4, 5, 6, 7, 8}
      OBVIOUS
    <3> QED
      BY <3>1, TriedInOrder
  <2> QED
    BY <2>1, <2>2
<1>3. First(n)
  <2>1. n \in DOMAIN Tried /\ Tried[n] \in names
    BY <1>1, <1>2, TriedInOrder
  <2>2. ASSUME NEW j \in 1..(n - 1) PROVE Tried[j] \notin names
    <3>1. j \in 1..8 /\ j # n /\ j < n
      BY <1>2
    <3>2. Tried[j] # name
      BY <1>2, <3>1
    <3>3. CASE name = "cmid"
      <4>1. n = 3
        BY <1>2, <3>3, TriedInOrder
      <4>2. j = 1 \/ j = 2
        BY <3>1, <4>1
      <4>3. Tried[j] # "mid"
        BY <4>2, TriedInOrder
      <4> QED
        BY <1>1, <3>2, <3>3, <4>3
    <3> QED
      BY <1>1, <3>2, <3>3
  <2> QED
    BY <2>1, <2>2
<1>4. First(k)
  BY <1>3
<1> HIDE DEF k
<1>5. Tried[k] = name
  <2>1. k \in 1..8 /\ Tried[k] \in names
    BY <1>4, TriedInOrder
  <2>2. CASE name = "cmid"
    <3>1. ASSUME Tried[k] = "mid" PROVE FALSE
      <4>1. k = 4
        <5>1. 1..8 = {1, 2, 3, 4, 5, 6, 7, 8}
          OBVIOUS
        <5> QED
          BY <2>1, <3>1, <5>1, TriedInOrder
      <4>2. 3 \in 1..(k - 1) /\ Tried[3] = "cmid"
        BY <4>1, TriedInOrder
      <4> QED
        BY <1>1, <1>4, <2>2, <4>2
    <3> QED
      BY <1>1, <2>1, <2>2, <3>1
  <2> QED
    BY <1>1, <2>1, <2>2
<1> QED
  BY <1>5 DEF FirstTried, k, names

\* What was read of the pairs seen so far is where it belongs.
Placed(r, seen) ==
  /\ r \in [system : SUBSET HubPairs, application : SUBSET HubPairs]
  /\ r.application = {p \in seen : p[1] \in UserNames}
  /\ r.system = {p \in seen : p[1] \in TriedNames}

\* One more property of a topic, also one that was read before.
LEMMA PairPlaced ==
  ASSUME NEW seen \in SUBSET HubPairs, NEW pair \in HubPairs, NEW r, Placed(r, seen)
  PROVE  Placed(Extracts(r, pair), seen \cup {pair})
<1> DEFINE name == pair[1]
           u == Extracts(r, pair)
<1>1. /\ pair = <<name, "plain">> /\ name \in SystemNames \cup UserNames /\ pair[2] = "plain"
      /\ \A p \in HubPairs : p = <<p[1], "plain">>
  BY DEF HubPairs
<1>2. /\ r \in [system : SUBSET HubPairs, application : SUBSET HubPairs]
      /\ r.application = {p \in seen : p[1] \in UserNames} /\ r.system = {p \in seen : p[1] \in TriedNames}
  BY DEF Placed
<1>3. TriedNames \subseteq SystemNames /\ SystemNames \cap UserNames = {}
  BY DEF TriedNames, SystemNames, UserNames
<1>4. \A p \in seen : p[1] = name => p = pair
  BY <1>1
<1>5. CASE name \in UserNames
  <2> DEFINE read == {p \in r.application : p[1] # name} \cup {pair}
  <2>1. u = [r EXCEPT !.application = read]
    BY <1>1, <1>3, <1>5 DEF Extracts, isSystemProperty
  <2>2. read \in SUBSET HubPairs
    BY <1>2
  <2>3. read = {p \in seen \cup {pair} : p[1] \in UserNames}
    BY <1>2, <1>4, <1>5
  <2> HIDE DEF read
  <2>4. u \in [system : SUBSET HubPairs, application : SUBSET HubPairs] /\ u.application = read /\ u.system = r.system
    BY <1>2, <2>1, <2>2
  <2>5. r.system = {p \in seen \cup {pair} : p[1] \in TriedNames}
    BY <1>2, <1>3, <1>5
  <2> QED
    BY <2>3, <2>4, <2>5 DEF Placed
<1>6. CASE name \in SystemNames /\ name \notin TriedNames
  <2>1. Endings(name) = {}
    BY <1>6 DEF Endings, SystemNames, TriedNames
  <2>2. u = r
    BY <1>6, <2>1 DEF Extracts, isSystemProperty, setMqttMessagePropertyIfPossible
  <2>3. r.system = {p \in seen \cup {pair} : p[1] \in TriedNames} /\ r.application = {p \in seen \cup {pair} : p[1] \in UserNames}
    BY <1>2, <1>3, <1>6
  <2> QED
    BY <1>2, <2>2, <2>3 DEF Placed
<1>7. CASE name \in TriedNames
  <2> DEFINE read == {p \in r.system : p[1] # name} \cup {pair}
  <2>1. FirstTried(Endings(name)) = name
    BY <1>7, NameFound
  <2>2. Endings(name) # {}
    BY <1>7 DEF Endings, TriedNames
  <2>3. u = [r EXCEPT !.system = read]
    BY <1>1, <1>3, <1>7, <2>1, <2>2 DEF Extracts, isSystemProperty, setMqttMessagePropertyIfPossible
  <2>4. read \in SUBSET HubPairs
    BY <1>2
  <2>5. read = {p \in seen \cup {pair} : p[1] \in TriedNames}
    BY <1>2, <1>4, <1>7
  <2> HIDE DEF read
  <2>6. u \in [system : SUBSET HubPairs, application : SUBSET HubPairs] /\ u.system = read /\ u.application = r.application
    BY <1>2, <2>3, <2>4
  <2>7. r.application = {p \in seen \cup {pair} : p[1] \in UserNames}
    BY <1>2, <1>3, <1>7
  <2> QED
    BY <2>5, <2>6, <2>7 DEF Placed
<1> QED
  BY <1>1, <1>5, <1>6, <1>7

\* Any number of properties, in any order and with repetitions.
LEMMA PairsPlaced ==
  ASSUME NEW pairs \in Seq(HubPairs)
  PROVE  Placed(extractMqttProperties(pairs), Range(pairs))
<1> DEFINE m == Len(pairs)
           Seen(n) == {pairs[i] : i \in 1..n}
<1>1. m \in Nat /\ DOMAIN pairs = 1..m /\ \A i \in 1..m : pairs[i] \in HubPairs
  OBVIOUS
<1>2. PICK f : /\ f[0] = [system |-> {}, application |-> {}]
               /\ \A n \in 1..m : f[n] = Extracts(f[n - 1], pairs[n])
               /\ extractMqttProperties(pairs) = f[m]
  BY <1>1, ExtractedInTurn
<1> DEFINE Bad == {n \in 0..m : ~Placed(f[n], Seen(n))}
<1>3. Placed(f[0], Seen(0))
  <2>1. 1..0 = {}
    OBVIOUS
  <2>2. Seen(0) = {}
    BY <2>1
  <2>3. f[0] \in [system : SUBSET HubPairs, application : SUBSET HubPairs] /\ f[0].system = {} /\ f[0].application = {}
    BY <1>2
  <2> QED
    BY <2>2, <2>3 DEF Placed
<1>4. ASSUME NEW n \in 1..m, Placed(f[n - 1], Seen(n - 1)) PROVE Placed(f[n], Seen(n))
  <2>1. 1..n = (1..(n - 1)) \cup {n} /\ \A i \in 1..n : i \in 1..m
    BY <1>1
  <2>2. Seen(n) = Seen(n - 1) \cup {pairs[n]} /\ Seen(n - 1) \in SUBSET HubPairs /\ pairs[n] \in HubPairs
    BY <1>1, <2>1
  <2> DEFINE r == f[n - 1]
             seen == Seen(n - 1)
             pair == pairs[n]
  <2>3. Placed(r, seen) /\ f[n] = Extracts(r, pair) /\ seen \in SUBSET HubPairs /\ pair \in HubPairs
        /\ Seen(n) = seen \cup {pair}
    BY <1>2, <1>4, <2>2
  <2> HIDE DEF r, seen, pair, Seen
  <2> QED
    BY <2>3, PairPlaced
<1> HIDE DEF Seen
<1>5. Bad = {}
  <2> SUFFICES ASSUME Bad # {} PROVE FALSE
    OBVIOUS
  <2>1. Bad \subseteq Nat
    OBVIOUS
  <2> HIDE DEF Bad
  <2>2. PICK k \in Bad : \A j \in Bad : k <= j
    BY <2>1, LeastNatural
  <2> USE DEF Bad
  <2>3. k \in 0..m /\ ~Placed(f[k], Seen(k)) /\ k # 0
    BY <1>3, <2>2
  <2>4. k \in 1..m /\ k - 1 \in 0..m /\ ~(k <= k - 1)
    BY <1>1, <2>3
  <2>5. Placed(f[k - 1], Seen(k - 1))
    BY <2>2, <2>4
  <2> QED
    BY <1>4, <2>3, <2>4, <2>5
<1>6. Placed(f[m], Seen(m))
  BY <1>1, <1>5
<1>7. Seen(m) = Range(pairs)
  BY <1>1 DEF Range, Seen
<1> QED
  BY <1>2, <1>6, <1>7

\* Of any message the properties in its topic can be told apart, and what a topic of the hub carries is found where it
\* belongs, however the names end.
THEOREM TopicsAreFaithful == TopicSpec => []TopicsFaithful
<1>1. TopicInit => TopicsFaithful
  BY DEF TopicInit, TopicsFaithful, PropertiesApart, ReadWhereSent
<1>2. TopicsFaithful /\ [TopicNext]_topicVars => TopicsFaithful'
  <2> SUFFICES ASSUME TopicsFaithful, [TopicNext]_topicVars PROVE TopicsFaithful'
    OBVIOUS
  <2>1. CASE Formats
    <3>1. PICK m \in Messages : outgoing' = m /\ segments' = addPropertiesTouMqttMessage(m)
      BY <2>1 DEF Formats
    <3>2. TopicApart(segments', outgoing'.urlencode)
      BY <3>1, TopicSegments
    <3>3. PropertiesApart'
      BY <3>2 DEF PropertiesApart, TopicApart, Safe
    <3>4. ReadWhereSent'
      BY <2>1 DEF Formats, ReadWhereSent
    <3> QED
      BY <3>3, <3>4 DEF TopicsFaithful
  <2>2. CASE Reads
    <3>1. PICK pairs \in HubTopics : incoming' = pairs /\ readout' = extractMqttProperties(pairs)
      BY <2>2 DEF Reads
    <3>2. pairs \in Seq(HubPairs)
      <4> DEFINE N == {<<n, v>> : n \in SystemNames \cup UserNames, v \in {"plain"}}
      <4>1. PICK a \in N, b \in N, c \in N : pairs = <<<<"to", "plain">>, a, b, c>>
        BY <3>1 DEF HubTopics
      <4>2. N = HubPairs
        BY DEF HubPairs
      <4>3. <<"to", "plain">> \in HubPairs
        BY DEF HubPairs, SystemNames
      <4> DEFINE d == <<"to", "plain">>
      <4>4. a \in HubPairs /\ b \in HubPairs /\ c \in HubPairs /\ d \in HubPairs /\ pairs = <<d, a, b, c>>
        BY <4>1, <4>2, <4>3
      <4> HIDE DEF d, N
      <4> QED
        BY <4>4
    <3>3. Placed(readout', Range(incoming'))
      BY <3>1, <3>2, PairsPlaced
    <3>4. ReadWhereSent'
      BY <3>3, TriedInOrder DEF ReadWhereSent, Placed
    <3>5. PropertiesApart'
      BY <2>2 DEF Reads, PropertiesApart
    <3> QED
      BY <3>4, <3>5 DEF TopicsFaithful
  <2>3. CASE TopicDone
    BY <2>3 DEF TopicDone, TopicsFaithful, PropertiesApart, ReadWhereSent
  <2>4. CASE UNCHANGED topicVars
    BY <2>4 DEF topicVars, TopicsFaithful, PropertiesApart, ReadWhereSent
  <2> QED
    BY <2>1, <2>2, <2>3, <2>4 DEF TopicNext
<1> QED
  BY <1>1, <1>2, PTL DEF TopicSpec
=============================================================================
