----------------------------- MODULE ClientCore -----------------------------
(***************************************************************************)
(* The convenience layer, iothub_client_core.c, of a client with a transport *)
(* of its own: application threads call the lower layer under LockHandle, a   *)
(* worker thread calls its DoWork under the same lock, saves the callbacks it *)
(* makes and calls them later without the lock; uploads run in threads of     *)
(* their own, which the worker or Destroy joins.                             *)
(*                                                                         *)
(* A call of the application is one step once it has the lock: everything it  *)
(* touches is guarded by it.  What is not, StartWorkerThreadIfNeeded, the      *)
(* wait of Destroy and the calls of callbacks, are steps of their own.        *)
(***************************************************************************)
EXTENDS Naturals, Sequences, FiniteSets

CONSTANTS
  Apps,         \* threads of the application
  Workers,      \* threads ThreadAPI_Create may make for ScheduleWork_Thread
  Uploads,      \* uploads and method invocations, each with its thread
  Events, Reports, Gets,   \* messages, reported states, requests for the twin
  Inbound,      \* messages, method calls and updates the lower layer receives
  MaxSets,      \* bound on the calls that set a callback or an option
  MaxItems,     \* bound on the items and inbound messages of a behaviour
  Frequencies, Timeouts    \* values of do_work_freq_ms and messageTimeout

ASSUME CoreAssumption ==
  /\ MaxSets \in Nat /\ MaxItems \in Nat
  /\ Frequencies \subseteq 1..100 /\ Timeouts \subseteq Nat

\* A thread is of one kind and a handle of one item; "free" and "none" are neither.
ASSUME HandlesAssumption ==
  /\ Apps \cap Workers = {} /\ Apps \cap Uploads = {} /\ Workers \cap Uploads = {}
  /\ "free" \notin Apps \cup Workers /\ "none" \notin Workers
  /\ Events \cap Reports = {} /\ Gets \cap (Events \cup Reports) = {}
  /\ Inbound \cap (Events \cup Reports \cup Gets) = {}

VARIABLES
  at,           \* where each thread is
  LockHandle,   \* the thread that holds it, or "free"
  ThreadHandle, \* the worker to be joined, or "none"
  StopThread,
  saved_user_callback_list,
  callbacks,    \* the batch a worker dispatches
  copies,       \* the callbacks a worker copied for that batch
  callback,     \* the registered callbacks, by kind; 0 is NULL
  context,      \* the contexts allocated for them
  llContext,    \* the wrapper and context the lower layer holds
  dangling,     \* history: kinds for which it holds a context a failed call has freed
  httpWorkerThreadInfoList,
  do_work_freq_ms, currentMessageTimeout,
  llTimeout,    \* the message timeout of the lower layer
  inLL,         \* items the lower layer has to report on
  sets,         \* calls that set something, so far
  done,         \* history: what became of each item and inbound message
  unconfirmed,  \* history: events and reports the lower layer reported on, in this order
  disorder      \* history: one was confirmed before an earlier one

coreVars == <<at, LockHandle, ThreadHandle, StopThread, saved_user_callback_list, callbacks,
              copies, callback, context, llContext, dangling, httpWorkerThreadInfoList,
              do_work_freq_ms, currentMessageTimeout, llTimeout, inLL, sets, done, unconfirmed,
              disorder>>
settings == <<callback, context, llContext, dangling, do_work_freq_ms, currentMessageTimeout,
              llTimeout, sets>>
threadVars == <<at, ThreadHandle, StopThread, httpWorkerThreadInfoList>>
dispatchVars == <<callbacks, copies>>
history == <<unconfirmed, disorder>>

Items == Events \cup Reports \cup Gets
Confirmable == Events \cup Reports
Kinds == {"message", "twin", "status", "method", "inbound", "input"}
Slots == {"message", "twin", "status", "method"}   \* contexts; both method callbacks share one
Slot(k) == IF k = "inbound" THEN "method" ELSE k
Threads == Apps \cup Workers \cup Uploads
NoCopies == [k \in Kinds |-> 0]

\* An entry of saved_user_callback_list: of is the item or inbound message, type its kind
\* ("item" for confirmations and answers), ctx the registration whose context it carries.
Saved(i, k, c) == [of |-> i, type |-> k, ctx |-> c]

-----------------------------------------------------------------------------
(* Calling the client *)

\* A thread that may now make a call: an application thread that has made sure of the
\* worker, or a callback of a worker or of an upload.
Calls(t) ==
  \/ t \in Apps /\ at[t] = "started"
  \/ t \in Workers /\ at[t] = "callback"
  \/ t \in Uploads /\ at[t] = "calling"

\* The call is over.
Returns(t) ==
  at' = [at EXCEPT ![t] = IF t \in Apps THEN "idle" ELSE IF t \in Workers THEN @ ELSE "called"]

Locked(t) == Calls(t) /\ LockHandle = "free" /\ Returns(t)

\* StartWorkerThreadIfNeeded looks at ThreadHandle without a lock, ...
StartWorkerThreadIfNeeded(a) ==
  /\ at[a] = "idle"
  /\ \A b \in Apps : at[b] \in {"idle", "starting", "started"}
  /\ at' = [at EXCEPT ![a] = IF ThreadHandle = "none" THEN "starting" ELSE "started"]
  /\ UNCHANGED <<LockHandle, ThreadHandle, StopThread, saved_user_callback_list, dispatchVars,
                 settings, httpWorkerThreadInfoList, inLL, done, history>>

\* ... and creates the thread when there was none.
CreateWorker(a) ==
  /\ at[a] = "starting"
  /\ \E w \in Workers :
       /\ at[w] = "off"
       /\ ThreadHandle' = w
       /\ at' = [at EXCEPT ![a] = "started", ![w] = "loop"]
  /\ StopThread' = FALSE
  /\ UNCHANGED <<LockHandle, saved_user_callback_list, dispatchVars, settings,
                 httpWorkerThreadInfoList, inLL, done, history>>

\* The bound MaxItems.
Room == Cardinality({i \in DOMAIN done : done[i] # "new"}) < MaxItems

\* The lower layer accepts item i.
Accepts(t, i) ==
  /\ Locked(t)
  /\ Room /\ done[i] = "new" /\ inLL' = inLL \cup {i}
  /\ done' = [done EXCEPT ![i] = "held"]
  /\ UNCHANGED <<LockHandle, ThreadHandle, StopThread, saved_user_callback_list, dispatchVars,
                 settings, httpWorkerThreadInfoList, history>>

IoTHubClientCore_SendEventAsync(t) == \E e \in Events : Accepts(t, e)
IoTHubClientCore_SendReportedState(t) == \E r \in Reports : Accepts(t, r)
IoTHubClientCore_GetTwinAsync(t) == \E g \in Gets : Accepts(t, g)

\* startHttpWorkerThread: the entry and its thread, under the lock.
startHttpWorkerThread(t, u) ==
  /\ Calls(t) /\ LockHandle = "free"
  /\ at[u] = "off"
  /\ httpWorkerThreadInfoList' = httpWorkerThreadInfoList \cup {u}
  /\ at' = [at EXCEPT ![u] = "uploading",
                      ![t] = IF t \in Apps THEN "idle" ELSE IF t \in Workers THEN @ ELSE "called"]
  /\ UNCHANGED <<LockHandle, ThreadHandle, StopThread, saved_user_callback_list, dispatchVars,
                 settings, inLL, done, history>>

\* The calls that run in a thread of their own; which of them u runs makes no difference here.
IoTHubClientCore_UploadToBlobAsync(t) == \E u \in Uploads : startHttpWorkerThread(t, u)
IoTHubClientCore_UploadMultipleBlocksToBlobAsync(t) == \E u \in Uploads : startHttpWorkerThread(t, u)
IoTHubClientCore_GenericMethodInvoke(t) == \E u \in Uploads : startHttpWorkerThread(t, u)

-----------------------------------------------------------------------------
(* Callbacks and options of the application *)

\* A call of application thread a that sets something.
Sets(a) ==
  /\ a \in Apps /\ Locked(a)
  /\ sets < MaxSets /\ sets' = sets + 1
  /\ UNCHANGED <<LockHandle, ThreadHandle, StopThread, saved_user_callback_list, dispatchVars,
                 httpWorkerThreadInfoList, inLL, done, history>>

KeepsOptions == UNCHANGED <<do_work_freq_ms, currentMessageTimeout, llTimeout>>
None == [kind |-> "none", ctx |-> 0]
Wrapper(k, c) == [kind |-> k, ctx |-> c]

\* The lower layer is given wrapper w, None to remove it, for slot s; ...
Gives(s, w) == llContext' = [llContext EXCEPT ![s] = w] /\ dangling' = dangling \ {s}

\* ... or it is not called, or fails and keeps what it has, and the context freed before is
\* not replaced: what it has of that slot, if anything, it will use after the free.
Leaves(s) ==
  /\ context' = [context EXCEPT ![s] = 0]
  /\ dangling' = IF llContext[s] = None THEN dangling ELSE dangling \cup {s}
  /\ UNCHANGED llContext

\* The transport may refuse to subscribe: the lower layer then drops the callback it has.
\* There may be no memory for the new context, and the old one has been freed.
IoTHubClientCore_SetMessageCallback(a) ==
  /\ Sets(a) /\ KeepsOptions
  /\ \/ /\ callback' = [callback EXCEPT !["message"] = 0]
        /\ context' = [context EXCEPT !["message"] = 0]
        /\ Gives("message", None)
     \/ /\ callback' = [callback EXCEPT !["message"] = sets']
        /\ \/ /\ context' = [context EXCEPT !["message"] = sets']
              /\ Gives("message", Wrapper("message", sets'))
           \/ /\ context' = [context EXCEPT !["message"] = 0]
              /\ Gives("message", None)
           \/ Leaves("message")

IoTHubClientCore_SetConnectionStatusCallback(a) ==
  /\ Sets(a) /\ KeepsOptions
  /\ \/ /\ callback' = [callback EXCEPT !["status"] = 0]
        /\ Gives("status", None)
        /\ UNCHANGED context
     \/ /\ callback' = [callback EXCEPT !["status"] = sets']
        /\ \/ /\ context' = [context EXCEPT !["status"] = sets']
              /\ Gives("status", Wrapper("status", sets'))
           \/ Leaves("status")

\* Here a refused subscription, too, leaves the lower layer with the context just freed.
IoTHubClientCore_SetDeviceTwinCallback(a) ==
  /\ Sets(a) /\ KeepsOptions
  /\ \/ /\ callback' = [callback EXCEPT !["twin"] = 0]
        /\ Gives("twin", None)
        /\ UNCHANGED context
     \/ /\ callback' = [callback EXCEPT !["twin"] = sets']
        /\ \/ /\ context' = [context EXCEPT !["twin"] = sets']
              /\ Gives("twin", Wrapper("twin", sets'))
           \/ Leaves("twin")

\* mutant: a second callback is registered with a new context and the lower layer keeps the old one.
SetsMethodKeeps(a, k) ==
  /\ Sets(a) /\ KeepsOptions
  /\ context' = [context EXCEPT !["method"] = sets']
  /\ Gives("method", IF llContext["method"] = None THEN Wrapper(k, sets') ELSE llContext["method"])
  /\ callback' = [callback EXCEPT ![k] = sets']

\* Both ways to set a method callback: k is "method" or "inbound".  Removing one, a refused
\* subscription and want of memory leave the pointer to the application's function as it is.
SetsMethod(a, k) ==
  /\ Sets(a) /\ KeepsOptions
  /\ \/ /\ context' = [context EXCEPT !["method"] = 0]
        /\ Gives("method", None)
        /\ UNCHANGED callback
     \/ Leaves("method") /\ UNCHANGED callback
     \/ /\ context' = [context EXCEPT !["method"] = sets']
        /\ Gives("method", Wrapper(k, sets'))
        /\ callback' = [callback EXCEPT ![k] = sets']

IoTHubClientCore_SetDeviceMethodCallback(a) == SetsMethod(a, "method")
IoTHubClientCore_SetDeviceMethodCallback_Ex(a) == SetsMethod(a, "inbound")

\* The context is copied into the lower layer and lives as long as the registration there.
IoTHubClientCore_SetInputMessageCallback(a) ==
  /\ Sets(a) /\ KeepsOptions
  /\ Gives("input", Wrapper("input", sets'))
  /\ UNCHANGED <<callback, context>>

\* currentMessageTimeout takes the value before it is compared.
IoTHubClientCore_SetOption(a) ==
  /\ Sets(a)
  /\ UNCHANGED <<callback, context, llContext, dangling>>
  /\ \/ \E f \in Frequencies :
          /\ do_work_freq_ms' = IF currentMessageTimeout = 0 \/ f < currentMessageTimeout
                                THEN f ELSE do_work_freq_ms
          /\ UNCHANGED <<currentMessageTimeout, llTimeout>>
     \/ \E ms \in Timeouts :
          /\ currentMessageTimeout' = ms
          /\ llTimeout' = IF do_work_freq_ms < ms THEN ms ELSE llTimeout
          /\ UNCHANGED do_work_freq_ms

-----------------------------------------------------------------------------
(* ScheduleWork_Thread *)

\* The lock, and StopThread under it.
WorkerLocks(w) ==
  /\ at[w] = "loop" /\ LockHandle = "free"
  /\ IF StopThread THEN at' = [at EXCEPT ![w] = "ended"] /\ UNCHANGED LockHandle
                   ELSE at' = [at EXCEPT ![w] = "work"] /\ LockHandle' = w
  /\ UNCHANGED <<ThreadHandle, StopThread, saved_user_callback_list, dispatchVars, settings,
                 httpWorkerThreadInfoList, inLL, done, history>>

\* mutant: new callbacks are put in front of the saved ones.
SavesReportFirst(i) ==
  /\ i \in inLL /\ inLL' = inLL \ {i}
  /\ saved_user_callback_list' = <<Saved(i, "item", 0)>> \o saved_user_callback_list
  /\ unconfirmed' = IF i \in Confirmable THEN Append(unconfirmed, i) ELSE unconfirmed
  /\ UNCHANGED disorder
  /\ UNCHANGED <<threadVars, LockHandle, dispatchVars, settings, done>>

\* Inside IoTHubClientCore_LL_DoWork and IoTHubClientCore_LL_Destroy the lower layer
\* reports on an item: a wrapper saves the callback of the application.
SavesReport(i) ==
  /\ i \in inLL /\ inLL' = inLL \ {i}
  /\ saved_user_callback_list' = Append(saved_user_callback_list, Saved(i, "item", 0))
  /\ unconfirmed' = IF i \in Confirmable THEN Append(unconfirmed, i) ELSE unconfirmed
  /\ UNCHANGED disorder
  /\ UNCHANGED <<threadVars, LockHandle, dispatchVars, settings, done>>

iothub_ll_event_confirm_callback(w) == at[w] = "work" /\ \E i \in Events : SavesReport(i)
iothub_ll_reported_state_callback(w) == at[w] = "work" /\ \E i \in Reports : SavesReport(i)
iothub_ll_get_device_twin_async_callback(w) == at[w] = "work" /\ \E i \in Gets : SavesReport(i)

\* The lower layer receives something for which a wrapper of kind k is registered.
SavesInbound(w, k) ==
  /\ at[w] = "work"
  /\ llContext[Slot(k)].kind = k
  /\ \E i \in Inbound :
       /\ Room /\ done[i] = "new"
       /\ done' = [done EXCEPT ![i] = "held"]
       /\ saved_user_callback_list' =
            Append(saved_user_callback_list, Saved(i, k, llContext[Slot(k)].ctx))
  /\ UNCHANGED <<threadVars, LockHandle, dispatchVars, settings, inLL, history>>

iothub_ll_message_callback(w) == SavesInbound(w, "message")
iothub_ll_inputmessage_callback(w) == SavesInbound(w, "input")
iothub_ll_device_method_callback(w) == SavesInbound(w, "method")
iothub_ll_inbound_device_method_callback(w) == SavesInbound(w, "inbound")
iothub_ll_connection_status_callback(w) == SavesInbound(w, "status")
iothub_ll_device_twin_callback(w) == SavesInbound(w, "twin")

\* The threads garbageCollectorImpl joins and forgets.
Collectable == {u \in httpWorkerThreadInfoList : at[u] = "marked"}

\* mutant: VECTOR_move without emptying the saved list.
EndOfWorkCopies(w) ==
  /\ at[w] = "work"
  /\ httpWorkerThreadInfoList' = httpWorkerThreadInfoList \ Collectable
  /\ callbacks' = [callbacks EXCEPT ![w] = saved_user_callback_list]
  /\ UNCHANGED saved_user_callback_list
  /\ LockHandle' = "free"
  /\ at' = [at EXCEPT ![w] = "copy"]
  /\ UNCHANGED <<ThreadHandle, StopThread, copies, settings, inLL, done, history>>

\* The end of the locked part: garbageCollectorImpl, VECTOR_move, Unlock.
EndOfWork(w) ==
  /\ at[w] = "work"
  /\ httpWorkerThreadInfoList' = httpWorkerThreadInfoList \ Collectable
  /\ callbacks' = [callbacks EXCEPT ![w] = saved_user_callback_list]
  /\ saved_user_callback_list' = <<>>
  /\ LockHandle' = "free"
  /\ at' = [at EXCEPT ![w] = "copy"]
  /\ UNCHANGED <<ThreadHandle, StopThread, copies, settings, inLL, done, history>>

\* dispatch_user_callbacks copies the registrations under the lock, ...
CopyCallbacks(w) ==
  /\ at[w] = "copy" /\ LockHandle = "free"
  /\ copies' = [copies EXCEPT ![w] = [k \in Kinds |->
       IF k = "message" /\ context[k] = 0 THEN 0
       ELSE IF k = "input" THEN 1 ELSE callback[k]]]
  /\ at' = [at EXCEPT ![w] = "dispatch"]
  /\ UNCHANGED <<LockHandle, ThreadHandle, StopThread, saved_user_callback_list, callbacks,
                 settings, httpWorkerThreadInfoList, inLL, done, history>>

\* The callback of item i is called, in its turn or not; only confirmations count.
Confirms(i) ==
  IF i \notin Confirmable THEN UNCHANGED history
  ELSE IF unconfirmed # <<>> /\ i = Head(unconfirmed)
       THEN unconfirmed' = Tail(unconfirmed) /\ UNCHANGED disorder
       ELSE disorder' = TRUE /\ UNCHANGED unconfirmed

\* ... and calls the callback of one entry after the other without it; an entry whose
\* callback is gone is passed over.
dispatch_user_callbacks(w) ==
  /\ at[w] = "dispatch" /\ callbacks[w] # <<>>
  /\ LET cb == Head(callbacks[w]) IN
       IF cb.type = "item" \/ copies[w][cb.type] # 0
       THEN /\ at' = [at EXCEPT ![w] = "callback"]
            /\ UNCHANGED callbacks
            /\ IF cb.type = "item"
               THEN /\ Confirms(cb.of)
                    /\ done' = [done EXCEPT ![cb.of] = IF @ = "held" THEN "told" ELSE "twice"]
               ELSE UNCHANGED <<history, done>>
       ELSE /\ callbacks' = [callbacks EXCEPT ![w] = Tail(@)]
            /\ done' = [done EXCEPT ![cb.of] = "dropped"]
            /\ UNCHANGED <<at, history>>
  /\ UNCHANGED <<LockHandle, ThreadHandle, StopThread, saved_user_callback_list, copies,
                 settings, httpWorkerThreadInfoList, inLL>>

\* The callback has returned.  A message gets its disposition and a method its response,
\* under the lock; a method whose context is gone cannot be answered.
CallbackReturns(w) ==
  /\ at[w] = "callback"
  /\ LET cb == Head(callbacks[w])
         locks == cb.type \in {"message", "input", "method"} IN
       /\ locks => LockHandle = "free"
       /\ IF cb.type = "item" THEN UNCHANGED done
          ELSE done' = [done EXCEPT ![cb.of] = "told"]
  /\ callbacks' = [callbacks EXCEPT ![w] = Tail(@)]
  /\ at' = [at EXCEPT ![w] = "dispatch"]
  /\ UNCHANGED <<LockHandle, ThreadHandle, StopThread, saved_user_callback_list, copies,
                 settings, httpWorkerThreadInfoList, inLL, history>>

\* The batch is done; the thread sleeps and starts over.
EndOfBatch(w) ==
  /\ at[w] = "dispatch" /\ callbacks[w] = <<>>
  /\ at' = [at EXCEPT ![w] = "loop"]
  /\ copies' = [copies EXCEPT ![w] = NoCopies]
  /\ UNCHANGED <<LockHandle, ThreadHandle, StopThread, saved_user_callback_list, callbacks,
                 settings, httpWorkerThreadInfoList, inLL, done, history>>

-----------------------------------------------------------------------------
(* Upload threads *)

UploadGoes(u, from, to) ==
  /\ at[u] = from
  /\ at' = [at EXCEPT ![u] = to]
  /\ UNCHANGED <<LockHandle, ThreadHandle, StopThread, saved_user_callback_list, dispatchVars,
                 settings, httpWorkerThreadInfoList, inLL, done, history>>

\* The upload itself takes no lock; then the callback of the application runs and may call
\* the client.
uploadingThread(u) == UploadGoes(u, "uploading", "called") \/ UploadGoes(u, "uploading", "calling")
uploadMultipleBlock_thread(u) == UploadGoes(u, "uploading", "called") \/ UploadGoes(u, "uploading", "calling")
uploadMethodInvoke_thread(u) == UploadGoes(u, "uploading", "called") \/ UploadGoes(u, "uploading", "calling")

markThreadReadyToBeGarbageCollected(u) == UploadGoes(u, "called", "marked")

-----------------------------------------------------------------------------
(* IoTHubClientCore_Destroy *)

Destroying == \E a \in Apps : at[a] \in {"join", "relock", "drain", "final"}
Freed == \E a \in Apps : at[a] = "freed"

\* mutant: the worker is not told to stop.
DestroyForgetsStop(a) ==
  /\ \A b \in Apps : at[b] = "idle"
  /\ LockHandle = "free"
  /\ at' = [at EXCEPT ![a] = IF ThreadHandle = "none" THEN "relock" ELSE "join"]
  /\ UNCHANGED <<StopThread, LockHandle, ThreadHandle, saved_user_callback_list, dispatchVars, settings,
                 httpWorkerThreadInfoList, inLL, done, history>>

\* Signals the worker.  The application makes no call of its own from here on.
DestroySignals(a) ==
  /\ \A b \in Apps : at[b] = "idle"
  /\ LockHandle = "free"
  /\ StopThread' = (StopThread \/ ThreadHandle # "none")
  /\ at' = [at EXCEPT ![a] = IF ThreadHandle = "none" THEN "relock" ELSE "join"]
  /\ UNCHANGED <<LockHandle, ThreadHandle, saved_user_callback_list, dispatchVars, settings,
                 httpWorkerThreadInfoList, inLL, done, history>>

DestroyJoins(a) ==
  /\ at[a] = "join" /\ at[ThreadHandle] = "ended"
  /\ at' = [at EXCEPT ![a] = "relock"]
  /\ UNCHANGED <<LockHandle, ThreadHandle, StopThread, saved_user_callback_list, dispatchVars,
                 settings, httpWorkerThreadInfoList, inLL, done, history>>

DestroyLocks(a) ==
  /\ at[a] = "relock" /\ LockHandle = "free"
  /\ LockHandle' = a
  /\ at' = [at EXCEPT ![a] = "drain"]
  /\ UNCHANGED <<ThreadHandle, StopThread, saved_user_callback_list, dispatchVars, settings,
                 httpWorkerThreadInfoList, inLL, done, history>>

\* mutant: Destroy does not wait for uploads that are not marked.
DestroyForgetsUploads(a) ==
  /\ at[a] = "drain" /\ httpWorkerThreadInfoList # {}
  /\ httpWorkerThreadInfoList' = {}
  /\ UNCHANGED <<at, LockHandle, ThreadHandle, StopThread, saved_user_callback_list,
                 dispatchVars, settings, inLL, done, history>>

\* Waits for the uploads, with the lock held.
DestroyCollects(a) ==
  /\ at[a] = "drain" /\ Collectable # {}
  /\ httpWorkerThreadInfoList' = httpWorkerThreadInfoList \ Collectable
  /\ UNCHANGED <<at, LockHandle, ThreadHandle, StopThread, saved_user_callback_list,
                 dispatchVars, settings, inLL, done, history>>

\* IoTHubClientCore_LL_Destroy reports on everything it still has.
LLDestroys(a) ==
  /\ at[a] = "drain" /\ httpWorkerThreadInfoList = {}
  /\ \E i \in inLL : SavesReport(i)

DestroyUnlocks(a) ==
  /\ at[a] = "drain" /\ httpWorkerThreadInfoList = {} /\ inLL = {}
  /\ LockHandle' = "free"
  /\ at' = [at EXCEPT ![a] = "final"]
  /\ UNCHANGED <<ThreadHandle, StopThread, saved_user_callback_list, dispatchVars, settings,
                 httpWorkerThreadInfoList, inLL, done, history>>

\* mutant: the confirmations still saved are freed and not called.
DestroyDropsSaved(a) ==
  /\ at[a] = "final" /\ saved_user_callback_list # <<>>
  /\ done' = [done EXCEPT ![Head(saved_user_callback_list).of] = "dropped"]
  /\ saved_user_callback_list' = Tail(saved_user_callback_list)
  /\ UNCHANGED <<threadVars, LockHandle, dispatchVars, settings, inLL, history>>

\* The callbacks still saved, one after the other: one that confirms an event or a reported
\* state is called, any other is freed.
DestroyDispatches(a) ==
  /\ at[a] = "final" /\ saved_user_callback_list # <<>>
  /\ LET i == Head(saved_user_callback_list).of IN
       /\ Confirms(i)
       /\ done' = [done EXCEPT ![i] = IF i \notin Confirmable THEN "dropped"
                                      ELSE IF @ = "held" THEN "told" ELSE "twice"]
  /\ saved_user_callback_list' = Tail(saved_user_callback_list)
  /\ UNCHANGED <<threadVars, LockHandle, dispatchVars, settings, inLL>>

\* Then everything is freed.
DestroyFrees(a) ==
  /\ at[a] = "final" /\ saved_user_callback_list = <<>>
  /\ at' = [at EXCEPT ![a] = "freed"]
  /\ UNCHANGED <<LockHandle, ThreadHandle, StopThread, saved_user_callback_list, dispatchVars,
                 settings, httpWorkerThreadInfoList, inLL, done, history>>

-----------------------------------------------------------------------------

\* create_iothub_instance
CoreInit ==
  /\ at = [t \in Threads |-> IF t \in Apps THEN "idle" ELSE "off"]
  /\ LockHandle = "free"
  /\ ThreadHandle = "none" /\ StopThread = FALSE
  /\ saved_user_callback_list = <<>>
  /\ callbacks = [w \in Workers |-> <<>>]
  /\ copies = [w \in Workers |-> NoCopies]
  /\ callback = NoCopies
  /\ context = [k \in Slots |-> 0]
  /\ llContext = [k \in Slots \cup {"input"} |-> None] /\ dangling = {}
  /\ httpWorkerThreadInfoList = {}
  /\ do_work_freq_ms = 1 /\ currentMessageTimeout = 0 /\ llTimeout = 0
  /\ inLL = {} /\ sets = 0
  /\ done = [i \in Items \cup Inbound |-> "new"]
  /\ unconfirmed = <<>> /\ disorder = FALSE

AppStep(t) ==
  \/ IoTHubClientCore_SendEventAsync(t)
  \/ IoTHubClientCore_SendReportedState(t)
  \/ IoTHubClientCore_GetTwinAsync(t)
  \/ IoTHubClientCore_UploadToBlobAsync(t)
  \/ IoTHubClientCore_UploadMultipleBlocksToBlobAsync(t)
  \/ IoTHubClientCore_GenericMethodInvoke(t)

SetStep(a) ==
  \/ IoTHubClientCore_SetMessageCallback(a)
  \/ IoTHubClientCore_SetConnectionStatusCallback(a)
  \/ IoTHubClientCore_SetDeviceTwinCallback(a)
  \/ IoTHubClientCore_SetDeviceMethodCallback(a)
  \/ IoTHubClientCore_SetDeviceMethodCallback_Ex(a)
  \/ IoTHubClientCore_SetInputMessageCallback(a)
  \/ IoTHubClientCore_SetOption(a)

WorkStep(w) ==
  \/ iothub_ll_event_confirm_callback(w)
  \/ iothub_ll_reported_state_callback(w)
  \/ iothub_ll_get_device_twin_async_callback(w)
  \/ iothub_ll_message_callback(w)
  \/ iothub_ll_inputmessage_callback(w)
  \/ iothub_ll_device_method_callback(w)
  \/ iothub_ll_inbound_device_method_callback(w)
  \/ iothub_ll_connection_status_callback(w)
  \/ iothub_ll_device_twin_callback(w)

WorkerStep(w) ==
  WorkerLocks(w) \/ EndOfWork(w) \/ CopyCallbacks(w) \/ dispatch_user_callbacks(w)
    \/ CallbackReturns(w) \/ EndOfBatch(w)

UploadStep(u) ==
  uploadingThread(u) \/ uploadMultipleBlock_thread(u) \/ uploadMethodInvoke_thread(u)
    \/ markThreadReadyToBeGarbageCollected(u)

DestroyStep(a) ==
  DestroyJoins(a) \/ DestroyLocks(a) \/ DestroyCollects(a) \/ LLDestroys(a)
    \/ DestroyUnlocks(a) \/ DestroyDispatches(a) \/ DestroyFrees(a)

CoreNext ==
  \/ \E a \in Apps : \/ StartWorkerThreadIfNeeded(a) \/ CreateWorker(a) \/ SetStep(a)
                     \/ DestroySignals(a) \/ DestroyStep(a)
  \/ \E t \in Threads : AppStep(t)
  \/ \E w \in Workers : WorkStep(w) \/ WorkerStep(w)
  \/ \E u \in Uploads : UploadStep(u)

CoreSpec == CoreInit /\ [][CoreNext]_coreVars

\* Threads are scheduled, callbacks and uploads return; LockHandle is free again after a
\* finite time whoever holds it, and weak fairness is enough to get it: calls of the
\* application hold it within one step only.
CoreFairness ==
  /\ \A w \in Workers : WF_coreVars(WorkerStep(w))
  /\ \A u \in Uploads : WF_coreVars(UploadStep(u))
  /\ \A a \in Apps : WF_coreVars(DestroyStep(a))

CoreFairSpec == CoreSpec /\ CoreFairness

-----------------------------------------------------------------------------
(* Properties *)

\* Types, and the lock belongs to a thread that is in its locked part.
CoreTypeOK ==
  /\ LockHandle \in Workers \cup Apps \cup {"free"}
  /\ \A w \in Workers : LockHandle = w <=> at[w] = "work"
  /\ \A a \in Apps : LockHandle = a <=> at[a] = "drain"
  /\ ThreadHandle \in Workers \cup {"none"}
  /\ StopThread \in BOOLEAN
  /\ httpWorkerThreadInfoList \subseteq Uploads
  /\ inLL \subseteq Items
  /\ done \in [Items \cup Inbound -> {"new", "held", "told", "dropped", "twice"}]

\* Every message, reported state and request for the twin that was accepted is answered to
\* the application once, by the worker or by Destroy, whichever thread reports it when.
itemStatus == [i \in Items |-> done[i]]
CD == INSTANCE Delivery WITH Messages <- Items, Outcomes <- {"told", "dropped"},
                             status <- itemStatus
AnsweredOnce == CD!Spec

\* After Destroy every message and reported state was confirmed, also those the lower
\* layer still had, and those whose callback was saved and not yet called.
AllConfirmed == Freed => \A i \in Confirmable : done[i] \in {"new", "told"}

\* Confirmations reach the application in the order the lower layer made them, across
\* batches, callbacks that send again, and Destroy.
ConfirmedInOrder == ~disorder

\* Once Destroy has freed the client no thread that uses it is left.
NothingLeftBehind ==
  Freed => /\ LockHandle = "free"
           /\ \A w \in Workers : at[w] \in {"off", "ended"}
           /\ \A u \in Uploads : at[u] \in {"off", "marked"}

\* Whatever the order of the calls, the lower layer holds a wrapper only with the context the
\* client keeps for it, except after a call that freed the old one and failed (Leaves): then
\* it holds one that is freed, and the client has none.
ContextsLive ==
  \A k \in Slots : llContext[k] # None =>
                    context[k] = IF k \in dangling THEN 0 ELSE llContext[k].ctx

\* What the application may take for granted, and what the code does not keep (in no run):
\* the lower layer never holds a context that was freed.
NoneDangling == dangling = {}

\* Destroy ends, unless the callback of an upload calls the client: Destroy waits for the
\* upload with the lock held.
DestroyReturns == Destroying ~> (Freed \/ \E u \in Uploads : at[u] = "calling")

\* Whatever the lower layer reports is told to the application in the end.
ReportsReachApp == \A e \in Events : (done[e] = "held" /\ e \notin inLL) ~> done[e] = "told"
=============================================================================
