---------------------------- MODULE AmqpTelemetry ----------------------------
(***************************************************************************)
(* The telemetry messenger of the AMQP transport,                             *)
(* iothubtransport_amqp_telemetry_messenger.c: events wait, are packed into   *)
(* batches that fit the link, and are handed to the message sender of uAMQP,   *)
(* one task per batch; a task calls back every caller of its batch when uAMQP  *)
(* is done or when it timed out, and a stop puts unfinished ones back.         *)
(*                                                                         *)
(* Everything runs in the thread that calls the transport: calls of the       *)
(* device, telemetry_messenger_do_work, and the connection's own work, in      *)
(* which uAMQP calls back (turn).                                             *)
(***************************************************************************)
EXTENDS Naturals, Sequences, FiniteSets, SequencesExt

CONSTANTS
  TelEvents,     \* events, numbered in the order they are accepted
  MaxBatch,      \* how many of them fit into one batch
  RetryLimit,    \* event_send_retry_limit
  MaxStarts,     \* bound on the calls of telemetry_messenger_start
  FreedIntact    \* does a list item still hold its successor after it was freed?

ASSUME TelemetryAssumption ==
  /\ IsFiniteSet(TelEvents) /\ TelEvents = 1..Cardinality(TelEvents) /\ MaxBatch \in Nat \ {0}
  /\ RetryLimit \in Nat /\ MaxStarts \in Nat /\ FreedIntact \in BOOLEAN

VARIABLES
  turn,             \* who runs: "api", "send" (inside do_work), "destroy" (inside destroy) or "pump" (uAMQP)
  msgrState,        \* state of the messenger; "gone" after destroy
  message_sender,   \* its current state, or "none"
  message_receiver,
  receive_messages,
  waiting_to_send,
  in_progress_list, \* of tasks [id, callers, bodies, sent, timedOut]
  uamqp,            \* ids of the tasks uAMQP has to complete
  pending,          \* send_pending_events_state: id of the task being filled, or 0
  event_send_error_count,
  starts,
  told,             \* history: what the caller of each event was told; "lost": freed before it was
  received          \* history: events the service accepted

telVars == <<turn, msgrState, message_sender, message_receiver, receive_messages,
             waiting_to_send, in_progress_list, uamqp, pending, event_send_error_count, starts,
             told, received>>
linkVars == <<message_sender, message_receiver>>
listVars == <<waiting_to_send, in_progress_list, uamqp, told, received>>

Tasks == Range(in_progress_list)
TaskIds == {t.id : t \in Tasks}
TaskWith(id) == CHOOSE t \in Tasks : t.id = id
NewId == CHOOSE n \in 1..(Cardinality(TaskIds) + 1) : n \notin TaskIds

\* Calls back the callers in S, or loses them: whoever was called before is called twice.
Tell(status, S, result) ==
  [e \in DOMAIN status |-> IF e \notin S THEN status[e]
                           ELSE IF status[e] = "held" THEN result ELSE "twice"]

Replace(id, t) == [n \in DOMAIN in_progress_list |->
                     IF in_progress_list[n].id = id THEN t ELSE in_progress_list[n]]
Without(list, ids) ==
  FlattenSeq([n \in DOMAIN list |-> IF list[n].id \in ids THEN <<>> ELSE <<list[n]>>])

-----------------------------------------------------------------------------
(* Calls of the device *)

telemetry_messenger_send_async ==
  /\ turn = "api" /\ msgrState # "gone"
  /\ \E e \in TelEvents :
       /\ told[e] = "new" /\ \A d \in TelEvents : d < e => told[d] # "new"
       /\ told' = [told EXCEPT ![e] = "held"]
       /\ waiting_to_send' = Append(waiting_to_send, e)
  /\ UNCHANGED <<turn, msgrState, linkVars, receive_messages, in_progress_list, uamqp, pending,
                 event_send_error_count, starts, received>>

Subscribes(b) ==
  /\ turn = "api" /\ msgrState # "gone" /\ receive_messages # b
  /\ receive_messages' = b
  /\ UNCHANGED <<turn, msgrState, linkVars, listVars, pending, event_send_error_count, starts>>

telemetry_messenger_subscribe_for_messages == Subscribes(TRUE)
telemetry_messenger_unsubscribe_for_messages == Subscribes(FALSE)

telemetry_messenger_start ==
  /\ turn = "api" /\ msgrState = "STOPPED" /\ starts < MaxStarts
  /\ msgrState' = "STARTING" /\ starts' = starts + 1
  /\ UNCHANGED <<turn, linkVars, receive_messages, listVars, pending, event_send_error_count>>

\* remove_timed_out_events asks for the item after the one it has just freed: if that is
\* lost, the walk ends early.  The possible results.
remove_timed_out_events(list) ==
  LET timedOut == {n \in DOMAIN list : list[n].timedOut}
      upTo(k) == Without(list, {list[n].id : n \in {m \in timedOut : m <= k}})
  IN IF FreedIntact \/ timedOut = {} THEN {upTo(Len(list))} ELSE {upTo(k) : k \in timedOut}

\* mutant: what waited goes first.
MoveEventsBehind(list) ==
  waiting_to_send \o FlattenSeq([n \in DOMAIN list |-> list[n].callers])

\* copy_events_from_in_progress_to_waiting_list: callers of all tasks, then who waited.
move_events_to_wait_to_send_list(list) ==
  FlattenSeq([n \in DOMAIN list |-> list[n].callers]) \o waiting_to_send

\* destroy_event_sender: uAMQP may first complete some of what it has, with an error, which
\* is ignored if the sender was in an error state.
Aborted(ids) == IF message_sender = "ERROR" THEN {} ELSE ids

\* The callers of tasks that were not called back.
CallersIn(list) == UNION {Range(t.callers) : t \in {u \in Range(list) : ~u.timedOut}}

Moves(list, answered) ==
  /\ waiting_to_send' = move_events_to_wait_to_send_list(list) /\ in_progress_list' = <<>>
  /\ told' = answered /\ msgrState' = "STOPPED"

\* Without a new list of those who wait, the tasks stay; later, when one cannot be added or
\* the new list of tasks is missing, the tasks are freed, and their callers with them.
MoveFails(list, answered) ==
  /\ list # <<>> /\ UNCHANGED waiting_to_send /\ msgrState' = "ERROR"
  /\ \/ in_progress_list' = list /\ told' = answered
     \/ in_progress_list' = <<>> /\ told' = Tell(answered, CallersIn(list), "lost")

\* The body of telemetry_messenger_stop.
Stops ==
  /\ turn = "api" /\ msgrState \notin {"STOPPED", "gone"}
  /\ message_sender' = "none" /\ message_receiver' = "none" /\ uamqp' = {}
  /\ \E ids \in SUBSET uamqp :
       LET aborted == {t \in Tasks : t.id \in Aborted(ids) /\ ~t.timedOut}
           answered == Tell(told, UNION {Range(t.callers) : t \in aborted}, "failed") IN
         \E list \in remove_timed_out_events(Without(in_progress_list, Aborted(ids))) :
           Moves(list, answered) \/ MoveFails(list, answered)
  /\ UNCHANGED <<receive_messages, pending, event_send_error_count, starts, received>>

\* A messenger in state ERROR can be stopped again.
telemetry_messenger_stop == Stops /\ UNCHANGED turn

\* A messenger that was not stopped is stopped first, as well as it can.
telemetry_messenger_destroy == Stops /\ turn' = "destroy"

\* What is left is called back with MESSENGER_DESTROYED.
DestroysLists ==
  /\ turn = "destroy" \/ (turn = "api" /\ msgrState = "STOPPED")
  /\ told' = Tell(told, Range(waiting_to_send)
                          \cup UNION {Range(t.callers) : t \in Tasks}, "failed")
  /\ waiting_to_send' = <<>> /\ in_progress_list' = <<>>
  /\ msgrState' = "gone" /\ turn' = "api"
  /\ UNCHANGED <<linkVars, receive_messages, uamqp, pending, event_send_error_count, starts,
                 received>>

-----------------------------------------------------------------------------
(* telemetry_messenger_do_work; the device does not call it in state STOPPED or ERROR *)

\* process_state_changes; late: an OPENING link has taken too long.
process_state_changes(late) ==
  CASE msgrState = "STARTED" /\ message_sender # "OPEN" -> "ERROR"
    [] msgrState = "STARTED" /\ message_sender = "OPEN" ->
         IF message_receiver \in {"ERROR", "IDLE"} \/ (message_receiver = "OPENING" /\ late)
         THEN "ERROR" ELSE "STARTED"
    [] msgrState = "STARTING" /\ message_sender = "OPEN" -> "STARTED"
    [] msgrState = "STARTING" /\ message_sender = "OPENING" /\ late -> "ERROR"
    [] msgrState = "STARTING" /\ message_sender \in {"ERROR", "CLOSING", "IDLE"} -> "ERROR"
    [] OTHER -> msgrState

SkipsWork ==
  /\ turn = "api" /\ msgrState \in {"STOPPED", "ERROR", "gone"}
  /\ turn' = "pump"
  /\ UNCHANGED <<msgrState, linkVars, receive_messages, listVars, pending, event_send_error_count,
                 starts>>

\* Not started: creates the sender if there is none.
create_event_sender ==
  /\ turn = "api" /\ msgrState \in {"STARTING", "STARTED"}
  /\ \E late \in BOOLEAN : LET next == process_state_changes(late) IN
       /\ next # "STARTED"
       /\ IF next = "STARTING" /\ message_sender = "none"
          THEN \/ message_sender' = "IDLE" /\ msgrState' = next
               \/ UNCHANGED message_sender /\ msgrState' = "ERROR"
          ELSE UNCHANGED message_sender /\ msgrState' = next
  /\ turn' = "pump"
  /\ UNCHANGED <<message_receiver, receive_messages, listVars, pending, event_send_error_count,
                 starts>>

\* process_event_send_timeouts: tasks sent first time out first.  A task that could not be
\* sent has no time to compare with, which is a failure.
Unsent(list) == \E t \in Range(list) : ~t.sent /\ ~t.timedOut

process_event_send_timeouts(n) ==
  [m \in DOMAIN in_progress_list |->
     IF m <= n /\ in_progress_list[m].sent
     THEN [in_progress_list[m] EXCEPT !.timedOut = TRUE] ELSE in_progress_list[m]]

create_message_receiver ==
  receive_messages /\ message_receiver = "none" /\ message_receiver' \in {"none", "IDLE"}
destroy_message_receiver == ~receive_messages /\ message_receiver' = "none"

\* Started: the receiver follows the subscription, tasks time out, and sending begins.
WorksSending ==
  /\ turn = "api" /\ msgrState \in {"STARTING", "STARTED"}
  /\ \E late \in BOOLEAN : process_state_changes(late) = "STARTED"
  /\ \/ create_message_receiver
     \/ destroy_message_receiver
     \/ receive_messages /\ message_receiver # "none" /\ UNCHANGED message_receiver
  /\ \E n \in 0..Len(in_progress_list) :
       LET list == process_event_send_timeouts(n)
           now == {m \in DOMAIN list : list[m].timedOut /\ ~in_progress_list[m].timedOut} IN
         /\ in_progress_list' = list
         /\ told' = Tell(told, UNION {Range(list[m].callers) : m \in now}, "failed")
         /\ IF Unsent(in_progress_list)
            THEN msgrState' = "ERROR" /\ turn' = "pump"
            ELSE msgrState' = "STARTED" /\ turn' = "send"
  /\ UNCHANGED <<message_sender, receive_messages, waiting_to_send, uamqp, pending,
                 event_send_error_count, starts, received>>

-----------------------------------------------------------------------------
(* send_pending_events: one event after the other *)

\* The end of do_work after send_pending_events.
SendReturns(ok) ==
  /\ turn' = "pump" /\ pending' = 0
  /\ event_send_error_count' = IF ok \/ RetryLimit = 0 THEN 0 ELSE event_send_error_count + 1
  /\ msgrState' = IF ~ok /\ RetryLimit > 0 /\ event_send_error_count' >= RetryLimit
                  THEN "ERROR" ELSE msgrState
  /\ UNCHANGED <<linkVars, receive_messages, starts, received>>

SendContinues ==
  UNCHANGED <<turn, msgrState, linkVars, receive_messages, event_send_error_count, starts, received>>

NewTask(id) == [id |-> id, callers |-> <<>>, bodies |-> {}, sent |-> FALSE, timedOut |-> FALSE]

\* Failures around the first task: its event is told, and the loop ends.
create_send_pending_events_state ==
  /\ turn = "send" /\ waiting_to_send # <<>>
  /\ waiting_to_send' = Tail(waiting_to_send)
  /\ LET gone == IF pending = 0 THEN {} ELSE Range(TaskWith(pending).callers) IN
       /\ told' = Tell(told, gone \cup {Head(waiting_to_send)}, "failed")
       /\ in_progress_list' = Without(in_progress_list, {pending})
  /\ UNCHANGED uamqp
  /\ SendReturns(FALSE)

\* An event that cannot be encoded, or is too large alone, is told and passed over.  The
\* task is there by now.
invoke_callback_on_error ==
  /\ turn = "send" /\ waiting_to_send # <<>>
  /\ told' = Tell(told, {Head(waiting_to_send)}, "failed")
  /\ waiting_to_send' = Tail(waiting_to_send)
  /\ IF pending = 0
     THEN pending' = NewId /\ in_progress_list' = Append(in_progress_list, NewTask(NewId))
     ELSE UNCHANGED <<pending, in_progress_list>>
  /\ UNCHANGED uamqp
  /\ SendContinues

\* The event goes into the task being filled, and its encoding into the message, which
\* still has room.
AddsToBatch ==
  /\ turn = "send" /\ waiting_to_send # <<>>
  /\ LET e == Head(waiting_to_send)
         id == IF pending = 0 THEN NewId ELSE pending
         t == IF pending = 0 THEN NewTask(id) ELSE TaskWith(pending)
         u == [t EXCEPT !.callers = Append(@, e), !.bodies = @ \cup {e}] IN
       /\ Cardinality(t.bodies) < MaxBatch
       /\ waiting_to_send' = Tail(waiting_to_send)
       /\ pending' = id
       /\ in_progress_list' = IF pending = 0 THEN Append(in_progress_list, u) ELSE Replace(id, u)
  /\ UNCHANGED <<uamqp, told>>
  /\ SendContinues

\* mutant: the full batch is handed over and its task is not kept.
SplitsBatchDropping ==
  /\ turn = "send" /\ waiting_to_send # <<>> /\ pending # 0
  /\ Cardinality(TaskWith(pending).bodies) >= MaxBatch
  /\ uamqp' = uamqp \cup {pending}
  /\ in_progress_list' = Without(in_progress_list, {pending})
  /\ pending' = 0
  /\ UNCHANGED <<waiting_to_send, told>>
  /\ SendContinues

\* No room: the caller has joined the task all the same; the full message is sent, and the
\* encoding becomes the first of the next.
SplitsBatch ==
  /\ turn = "send" /\ waiting_to_send # <<>> /\ pending # 0
  /\ LET e == Head(waiting_to_send)
         t == TaskWith(pending)
         full == [t EXCEPT !.callers = Append(@, e), !.sent = TRUE] IN
       /\ Cardinality(t.bodies) >= MaxBatch
       /\ waiting_to_send' = Tail(waiting_to_send)
       /\ uamqp' = uamqp \cup {pending}
       /\ pending' = NewId
       /\ in_progress_list' = Append(Replace(pending, full), [NewTask(NewId) EXCEPT !.bodies = {e}])
  /\ UNCHANGED told
  /\ SendContinues

\* messagesender_send_async or the new task fails: nobody is told, as the state was reset.
SplitFails ==
  /\ turn = "send" /\ waiting_to_send # <<>> /\ pending # 0
  /\ Cardinality(TaskWith(pending).bodies) >= MaxBatch
  /\ waiting_to_send' = Tail(waiting_to_send)
  /\ \E sent \in BOOLEAN :
       /\ in_progress_list' = Replace(pending, [TaskWith(pending) EXCEPT
                                !.callers = Append(@, Head(waiting_to_send)), !.sent = sent])
       /\ uamqp' = IF sent THEN uamqp \cup {pending} ELSE uamqp
  /\ UNCHANGED told
  /\ SendReturns(FALSE)

\* message_add_body_amqp_data fails: all callers of the task are told.
BodyFails ==
  /\ turn = "send" /\ waiting_to_send # <<>> /\ pending # 0
  /\ Cardinality(TaskWith(pending).bodies) < MaxBatch
  /\ told' = Tell(told, Range(TaskWith(pending).callers) \cup {Head(waiting_to_send)}, "failed")
  /\ waiting_to_send' = Tail(waiting_to_send)
  /\ in_progress_list' = Without(in_progress_list, {pending})
  /\ UNCHANGED uamqp
  /\ SendReturns(FALSE)

\* No event is left: the last message is sent if it has any.
send_batched_message_and_reset_state ==
  /\ turn = "send" /\ waiting_to_send = <<>>
  /\ IF pending = 0 THEN UNCHANGED <<in_progress_list, uamqp>> /\ SendReturns(TRUE)
     ELSE IF TaskWith(pending).bodies = {}
     THEN in_progress_list' = Without(in_progress_list, {pending}) /\ UNCHANGED uamqp
            /\ SendReturns(TRUE)
     ELSE \/ /\ in_progress_list' = Replace(pending, [TaskWith(pending) EXCEPT !.sent = TRUE])
             /\ uamqp' = uamqp \cup {pending} /\ SendReturns(TRUE)
          \/ UNCHANGED <<in_progress_list, uamqp>> /\ SendReturns(FALSE)
  /\ UNCHANGED <<waiting_to_send, told>>

-----------------------------------------------------------------------------
(* uAMQP *)

on_event_sender_state_changed_callback ==
  /\ turn = "pump" /\ message_sender # "none"
  /\ message_sender' \in (CASE message_sender = "IDLE" -> {"OPENING"}
                            [] message_sender = "OPENING" -> {"OPEN", "ERROR"}
                            [] message_sender = "OPEN" -> {"ERROR", "CLOSING"}
                            [] OTHER -> {message_sender})
  /\ UNCHANGED <<turn, msgrState, message_receiver, receive_messages, listVars, pending,
                 event_send_error_count, starts>>

on_message_receiver_state_changed_callback ==
  /\ turn = "pump" /\ message_receiver # "none"
  /\ message_receiver' \in (CASE message_receiver = "IDLE" -> {"OPENING"}
                              [] message_receiver = "OPENING" -> {"OPEN", "ERROR"}
                              [] OTHER -> {message_receiver})
  /\ UNCHANGED <<turn, msgrState, message_sender, receive_messages, listVars, pending,
                 event_send_error_count, starts>>

\* mutant: callers of a task that timed out are called again.
CompletesAgain ==
  /\ turn = "pump" /\ message_sender # "none"
  /\ \E id \in uamqp, result \in {"ok", "failed"} :
       LET t == TaskWith(id) IN
         /\ uamqp' = uamqp \ {id}
         /\ told' = Tell(told, Range(t.callers), result)
         /\ received' = IF result = "ok" THEN received \cup t.bodies ELSE received
         /\ in_progress_list' = Without(in_progress_list, {id})
  /\ UNCHANGED <<turn, msgrState, linkVars, receive_messages, waiting_to_send, pending,
                 event_send_error_count, starts>>

\* A batch is settled.  In the sender's error state nothing is done with the task.
internal_on_event_send_complete_callback ==
  /\ turn = "pump" /\ message_sender # "none"
  /\ \E id \in uamqp, result \in {"ok", "failed"} :
       LET t == TaskWith(id) IN
         /\ uamqp' = uamqp \ {id}
         /\ received' = IF result = "ok" THEN received \cup t.bodies ELSE received
         /\ IF message_sender = "ERROR" THEN UNCHANGED <<told, in_progress_list>>
            ELSE /\ told' = IF t.timedOut THEN told ELSE Tell(told, Range(t.callers), result)
                 /\ in_progress_list' = Without(in_progress_list, {id})
  /\ UNCHANGED <<turn, msgrState, linkVars, receive_messages, waiting_to_send, pending,
                 event_send_error_count, starts>>

EndOfPump ==
  /\ turn = "pump" /\ turn' = "api"
  /\ UNCHANGED <<msgrState, linkVars, receive_messages, listVars, pending, event_send_error_count,
                 starts>>

-----------------------------------------------------------------------------

\* telemetry_messenger_create
TelInit ==
  /\ turn = "api" /\ msgrState = "STOPPED"
  /\ message_sender = "none" /\ message_receiver = "none" /\ receive_messages = FALSE
  /\ waiting_to_send = <<>> /\ in_progress_list = <<>> /\ uamqp = {} /\ pending = 0
  /\ event_send_error_count = 0 /\ starts = 0
  /\ told = [e \in TelEvents |-> "new"] /\ received = {}

Sending ==
  \/ create_send_pending_events_state \/ invoke_callback_on_error \/ AddsToBatch
  \/ SplitsBatch \/ SplitFails \/ BodyFails \/ send_batched_message_and_reset_state

TelNext ==
  \/ telemetry_messenger_send_async
  \/ telemetry_messenger_subscribe_for_messages \/ telemetry_messenger_unsubscribe_for_messages
  \/ telemetry_messenger_start \/ telemetry_messenger_stop \/ telemetry_messenger_destroy
  \/ DestroysLists
  \/ SkipsWork \/ create_event_sender \/ WorksSending
  \/ Sending
  \/ on_event_sender_state_changed_callback \/ on_message_receiver_state_changed_callback
  \/ internal_on_event_send_complete_callback
  \/ EndOfPump

TelSpec == TelInit /\ [][TelNext]_telVars

-----------------------------------------------------------------------------
(* Properties *)

\* The callers the messenger still owes an answer, oldest first: those of the tasks that
\* have not timed out, then those that wait.
Owed == FlattenSeq([n \in DOMAIN in_progress_list |->
          IF in_progress_list[n].timedOut THEN <<>> ELSE in_progress_list[n].callers])
        \o waiting_to_send

\* Every event is owed an answer or was answered, once: none is lost or called back twice
\* by splits, failed sends, timeouts, late completions, restarts or destroy, but for those
\* a stop loses that could not move them.
EachCallerOnce ==
  /\ \A e \in TelEvents : told[e] # "twice"
  /\ Range(Owed) = {e \in TelEvents : told[e] = "held"}
  /\ IsInjective(Owed)

\* And the answers are owed in the order in which the events were sent, so that a restart
\* does not reorder telemetry.
OwedInOrder == \A i, j \in DOMAIN Owed : i < j => Owed[i] < Owed[j]

\* uAMQP never completes a task that was freed, and never keeps one after its sender.
TasksOutliveSends == uamqp \subseteq TaskIds /\ (message_sender = "none" => uamqp = {})

\* An event is reported as sent only when the service accepted it.
OkMeansSent == \A e \in TelEvents : told[e] = "ok" => e \in received

\* No caller is lost.  A stop that fails to move what was in progress loses them all.
NobodyLost == \A e \in TelEvents : told[e] # "lost"

\* What holds of the events, the tasks and the sends of uAMQP between any two callbacks.
EventsSound == EachCallerOnce /\ OwedInOrder /\ TasksOutliveSends
=============================================================================
