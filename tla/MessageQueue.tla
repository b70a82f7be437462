---------------------------- MODULE MessageQueue ----------------------------
(***************************************************************************)
(* The MESSAGE_QUEUE of iothub_client/src/message_queue.c: the queue the    *)
(* AMQP messenger keeps its outgoing messages in.  A message is added to    *)
(* `pending`, moved to `in_progress` when message_queue_do_work hands it to *)
(* on_process_message_callback, and leaves the queue when its               *)
(* on_message_processing_completed_callback fires: because processing       *)
(* completed, because it timed out, or because the queue was flushed.       *)
(*                                                                          *)
(* The queue is single threaded.  message_queue_do_work is cut at every     *)
(* point where it calls out (a completion callback, or the processing       *)
(* callback), because the callee may call back in: `phase` and `cursor` are *)
(* its program counter and its list_item.                                   *)
(*                                                                          *)
(* time_t values are kept as ages: enqueue_age[m] is                        *)
(* get_difftime(now, enqueue_time) and processing_age[m] is                 *)
(* get_difftime(now, processing_start_time).  Ages saturate at AgeCap, which *)
(* is at least every timeout, so no comparison with a timeout is affected.  *)
(* The clock never goes backwards.                                          *)
(***************************************************************************)
EXTENDS Naturals, Sequences, SequencesExt

CONSTANTS
  Messages,        \* message handles; each is queued at most once
  EnqueuedTimes,   \* values of max_message_enqueued_time_secs (0 disables it)
  ProcessingTimes, \* values of max_message_processing_time_secs (0 disables it)
  RetryCounts,     \* values of max_retry_count
  FaultsHappen,    \* whether malloc and get_time can fail
  AgeCap,          \* ages saturate here
  Reports,         \* results the processor may report
  MaxAttempts      \* bound on number_of_attempts when messages are moved back

ASSUME QueueAssumption ==
  /\ EnqueuedTimes \subseteq Nat
  /\ ProcessingTimes \subseteq Nat
  /\ RetryCounts \subseteq Nat
  /\ FaultsHappen \in BOOLEAN
  /\ AgeCap \in Nat
  /\ Reports \subseteq {"SUCCESS", "ERROR", "RETRYABLE_ERROR"}
  /\ MaxAttempts \in Nat
  /\ \A t \in EnqueuedTimes \cup ProcessingTimes : t <= AgeCap

VARIABLES
  pending,                          \* list of messages waiting to be processed
  in_progress,                      \* list of messages being processed
  enqueue_age,                      \* mq_item->enqueue_time, as an age
  processing_age,                   \* mq_item->processing_start_time, as an age
  number_of_attempts,               \* mq_item->number_of_attempts
  max_message_enqueued_time_secs,
  max_message_processing_time_secs,
  max_retry_count,
  phase,                            \* where message_queue_do_work stands
  cursor,                           \* its list_item in in_progress
  order,                            \* history: the messages added, in order
  fired,                            \* history: completion callbacks per message
  outcome,                          \* history: the last result reported
  owed                              \* completions the processor still owes

lists   == <<pending, in_progress>>
items   == <<enqueue_age, processing_age, number_of_attempts>>
config  == <<max_message_enqueued_time_secs, max_message_processing_time_secs,
             max_retry_count>>
work    == <<phase, cursor>>
history == <<order, fired, outcome, owed>>
vars    == <<pending, in_progress, enqueue_age, processing_age,
             number_of_attempts, max_message_enqueued_time_secs,
             max_message_processing_time_secs, max_retry_count, phase, cursor,
             order, fired, outcome, owed>>

\* MESSAGE_QUEUE_RESULT as a callback can see it: RETRYABLE_ERROR is internal.
Outcomes == {"none", "SUCCESS", "ERROR", "TIMEOUT", "CANCELLED"}

\* After "undefined" the program works on freed memory and is not followed.
Phases == {"idle", "pending_timeouts", "enqueued_timeouts",
           "processing_timeouts", "dispatch", "destroyed", "undefined"}

Queued == Range(pending) \cup Range(in_progress)

\* The message whose list item was freed and then read: its callback may be any or none.
Misread == {m \in Messages : outcome[m] = "unknown"}

-----------------------------------------------------------------------------
(* Helpers *)

Older(age) == IF age < AgeCap THEN age + 1 ELSE AgeCap

EnqueuedExpired(m) ==
  /\ max_message_enqueued_time_secs > 0
  /\ enqueue_age[m] >= max_message_enqueued_time_secs

ProcessingExpired(m) ==
  /\ max_message_processing_time_secs > 0
  /\ processing_age[m] >= max_message_processing_time_secs

FireUntranslated(m, result) == \* mutant: the internal result escapes
  /\ fired' = [fired EXCEPT ![m] = @ + 1]
  /\ outcome' = [outcome EXCEPT ![m] = result]

\* fire_message_callback: RETRYABLE_ERROR is reported as ERROR.
fire_message_callback(m, result) ==
  /\ fired' = [fired EXCEPT ![m] = @ + 1]
  /\ outcome' = [outcome EXCEPT
                   ![m] = IF result = "RETRYABLE_ERROR" THEN "ERROR" ELSE result]

\* free(mq_item): the fields of a freed item read 0.
FreeItems(S) ==
  /\ enqueue_age' = [m \in Messages |-> IF m \in S THEN 0 ELSE enqueue_age[m]]
  /\ processing_age' = [m \in Messages |-> IF m \in S THEN 0 ELSE processing_age[m]]
  /\ number_of_attempts' =
       [m \in Messages |-> IF m \in S THEN 0 ELSE number_of_attempts[m]]

\* dequeue_message_and_fire_callback on the i-th item of each of the two lists.
DequeuePending(i, result) ==
  /\ pending' = RemoveAt(pending, i)
  /\ fire_message_callback(pending[i], result)
  /\ FreeItems({pending[i]})
  /\ UNCHANGED in_progress

DequeueInProgress(i, result) ==
  /\ in_progress' = RemoveAt(in_progress, i)
  /\ fire_message_callback(in_progress[i], result)
  /\ FreeItems({in_progress[i]})
  /\ UNCHANGED pending

should_retry_sending(m, result) ==
  /\ result = "RETRYABLE_ERROR"
  /\ number_of_attempts[m] <= max_retry_count

-----------------------------------------------------------------------------
(* message_queue_add: a fault (malloc, get_time, list node) queues nothing  *)
(* and is a stuttering step.  May be called from a callback of do_work.     *)

AddInFront(m) == \* mutant: the list is filled from its head
  /\ phase \notin {"destroyed", "undefined"}
  /\ m \notin Range(order)
  /\ pending' = <<m>> \o pending
  /\ enqueue_age' = [enqueue_age EXCEPT ![m] = 0]
  /\ order' = Append(order, m)
  /\ UNCHANGED <<in_progress, processing_age, number_of_attempts, config, work,
                 fired, outcome, owed>>

message_queue_add(m) ==
  /\ phase \notin {"destroyed", "undefined"}
  /\ m \notin Range(order)
  /\ pending' = Append(pending, m)
  /\ enqueue_age' = [enqueue_age EXCEPT ![m] = 0]
  /\ order' = Append(order, m)
  /\ UNCHANGED <<in_progress, processing_age, number_of_attempts, config, work,
                 fired, outcome, owed>>

-----------------------------------------------------------------------------
(* The processor reports a result: on_process_message_completed_callback.   *)
(* It may do so from inside on_process_message_callback or at any later     *)
(* time; a report for a message that is not in progress is ignored.         *)

ProcessorReports(m) ==
  /\ phase \in {"idle", "dispatch"}
  /\ owed[m] > 0
  /\ owed' = [owed EXCEPT ![m] = @ - 1]

CompletedUnknown(m) ==
  /\ ProcessorReports(m)
  /\ m \notin Range(in_progress)
  /\ UNCHANGED <<lists, items, config, work, order, fired, outcome>>

RetryWithoutRemove(i, result) == \* mutant: the item stays in progress too
  /\ i \in DOMAIN in_progress
  /\ ProcessorReports(in_progress[i])
  /\ should_retry_sending(in_progress[i], result)
  /\ pending' = Append(pending, in_progress[i])
  /\ UNCHANGED <<in_progress, items, config, work, order, fired, outcome>>

RetryNotPending(i, result) == \* mutant: the item is left in progress, only its report is spent
  /\ i \in DOMAIN in_progress
  /\ ProcessorReports(in_progress[i])
  /\ should_retry_sending(in_progress[i], result)
  /\ UNCHANGED <<lists, items, config, work, order, fired, outcome>>

\* retry_sending_message
CompletedRetry(i, result) ==
  /\ i \in DOMAIN in_progress
  /\ ProcessorReports(in_progress[i])
  /\ should_retry_sending(in_progress[i], result)
  /\ in_progress' = RemoveAt(in_progress, i)
  /\ pending' = Append(pending, in_progress[i])
  /\ UNCHANGED <<items, config, work, order, fired, outcome>>

RetryFails(i, result) ==
  /\ FaultsHappen
  /\ i \in DOMAIN in_progress
  /\ ProcessorReports(in_progress[i])
  /\ should_retry_sending(in_progress[i], result)
  /\ UNCHANGED <<config, cursor, order>>

RetryFailsQuietly(i, result) == \* mutant: the failed retry is neither queued nor reported
  /\ RetryFails(i, result)
  /\ in_progress' = RemoveAt(in_progress, i)
  /\ UNCHANGED <<pending, items, phase, fired, outcome>>

\* retry_sending_message takes the item out of in_progress and cannot add it to pending. Then
\* dequeue_message_and_fire_callback reads the list item that was freed: it still holds its
\* message, or anything.
CompletedRetryFails(i, result) ==
  /\ RetryFails(i, result)
  /\ \/ DequeueInProgress(i, result) /\ UNCHANGED phase
     \/ /\ in_progress' = RemoveAt(in_progress, i)
        /\ outcome' = [outcome EXCEPT ![in_progress[i]] = "unknown"]
        /\ phase' = "undefined"
        /\ UNCHANGED <<pending, items, fired>>

CompletedFinal(i, result) ==
  /\ i \in DOMAIN in_progress
  /\ ProcessorReports(in_progress[i])
  /\ ~should_retry_sending(in_progress[i], result)
  /\ DequeueInProgress(i, result)
  /\ UNCHANGED <<config, work, order>>

on_process_message_completed_callback(result) ==
  \/ \E m \in Messages : CompletedUnknown(m)
  \/ \E i \in DOMAIN in_progress : CompletedRetry(i, result)
  \/ \E i \in DOMAIN in_progress : CompletedRetryFails(i, result)
  \/ \E i \in DOMAIN in_progress : CompletedFinal(i, result)

-----------------------------------------------------------------------------
(* message_queue_do_work: process_timeouts, then process_pending_messages.  *)

TimeoutsOfProcessingOnly == \* mutant: no timeouts at all without a processing timeout
  /\ phase = "idle"
  /\ phase' = IF max_message_processing_time_secs > 0 THEN "pending_timeouts" ELSE "dispatch"
  /\ cursor' = 1
  /\ UNCHANGED <<lists, items, config, history>>

\* When get_time fails the timeouts are skipped.
message_queue_do_work ==
  /\ phase = "idle"
  /\ \/ phase' = "pending_timeouts"
     \/ FaultsHappen /\ phase' = "dispatch"
  /\ cursor' = 1
  /\ UNCHANGED <<lists, items, config, history>>

\* First loop of process_timeouts: stops at the first item not expired.
PendingTimeouts ==
  /\ phase = "pending_timeouts"
  /\ \/ /\ pending # <<>>
        /\ EnqueuedExpired(pending[1])
        /\ DequeuePending(1, "TIMEOUT")
        /\ UNCHANGED phase
     \/ /\ ~(pending # <<>> /\ EnqueuedExpired(pending[1]))
        /\ phase' = "enqueued_timeouts"
        /\ UNCHANGED <<lists, items, fired, outcome>>
  /\ UNCHANGED <<config, cursor, order, owed>>

SkipEnqueuedTimeouts == \* mutant: only pending is checked for the enqueue timeout
  /\ phase = "enqueued_timeouts"
  /\ phase' = "processing_timeouts"
  /\ UNCHANGED <<lists, items, fired, outcome, cursor, config, order, owed>>

\* Second loop: every item in progress is checked against its enqueue time.
EnqueuedTimeouts ==
  /\ phase = "enqueued_timeouts"
  /\ \/ /\ cursor \in DOMAIN in_progress
        /\ EnqueuedExpired(in_progress[cursor])
        /\ DequeueInProgress(cursor, "TIMEOUT")
        /\ UNCHANGED <<phase, cursor>>
     \/ /\ cursor \in DOMAIN in_progress
        /\ ~EnqueuedExpired(in_progress[cursor])
        /\ cursor' = cursor + 1
        /\ UNCHANGED <<lists, items, fired, outcome, phase>>
     \/ /\ cursor \notin DOMAIN in_progress
        /\ phase' = "processing_timeouts"
        /\ UNCHANGED <<lists, items, fired, outcome, cursor>>
  /\ UNCHANGED <<config, order, owed>>

\* Third loop: processing time, stops at the first item not expired.
ProcessingTimeouts ==
  /\ phase = "processing_timeouts"
  /\ \/ /\ in_progress # <<>>
        /\ ProcessingExpired(in_progress[1])
        /\ DequeueInProgress(1, "TIMEOUT")
        /\ UNCHANGED phase
     \/ /\ ~(in_progress # <<>> /\ ProcessingExpired(in_progress[1]))
        /\ phase' = "dispatch"
        /\ UNCHANGED <<lists, items, fired, outcome>>
  /\ UNCHANGED <<config, cursor, order, owed>>

\* The head of pending is moved and handed to on_process_message_callback.
HandOver ==
  /\ phase = "dispatch"
  /\ pending # <<>>
  /\ pending' = Tail(pending)
  /\ in_progress' = Append(in_progress, Head(pending))
  /\ owed' = [owed EXCEPT ![Head(pending)] = @ + 1]
  /\ UNCHANGED <<enqueue_age, config, work, order, fired, outcome>>

DispatchKeepsStart == \* mutant: a retry keeps its first processing_start_time
  /\ HandOver
  /\ number_of_attempts' = [number_of_attempts EXCEPT ![Head(pending)] = @ + 1]
  /\ UNCHANGED processing_age

DispatchUncounted == \* mutant: number_of_attempts is not incremented
  /\ HandOver
  /\ processing_age' = [processing_age EXCEPT ![Head(pending)] = 0]
  /\ UNCHANGED number_of_attempts

\* One turn of process_pending_messages on the head of pending.
Dispatch ==
  /\ HandOver
  /\ processing_age' = [processing_age EXCEPT ![Head(pending)] = 0]
  /\ number_of_attempts' = [number_of_attempts EXCEPT ![Head(pending)] = @ + 1]

\* get_time or the list node allocation fails: the message is given up.
DispatchFails ==
  /\ phase = "dispatch"
  /\ pending # <<>>
  /\ FaultsHappen
  /\ DequeuePending(1, "ERROR")
  /\ UNCHANGED <<config, work, order, owed>>

DispatchDone ==
  /\ phase = "dispatch"
  /\ pending = <<>>
  /\ phase' = "idle"
  /\ UNCHANGED <<lists, items, config, cursor, history>>

DoWorkStep ==
  PendingTimeouts \/ EnqueuedTimeouts \/ ProcessingTimeouts
    \/ Dispatch \/ DispatchFails \/ DispatchDone

-----------------------------------------------------------------------------
(* Flushing, moving back, destroying, and the option setters *)

\* message_queue_remove_all
RemoveAll ==
  /\ pending' = <<>>
  /\ in_progress' = <<>>
  /\ fired' = [m \in Messages |-> IF m \in Queued THEN fired[m] + 1 ELSE fired[m]]
  /\ outcome' = [m \in Messages |-> IF m \in Queued THEN "CANCELLED" ELSE outcome[m]]
  /\ FreeItems(Queued)

message_queue_remove_all ==
  /\ phase = "idle"
  /\ RemoveAll
  /\ UNCHANGED <<config, work, order, owed>>

\* Everything pending goes behind everything in progress, and all of it back to
\* pending; when a list node cannot be allocated the whole queue is flushed.
message_queue_move_all_back_to_pending ==
  /\ phase = "idle"
  /\ \A m \in Range(in_progress) : number_of_attempts[m] < MaxAttempts
  /\ \/ /\ pending' = in_progress \o pending
        /\ in_progress' = <<>>
        /\ UNCHANGED <<items, fired, outcome>>
     \/ /\ FaultsHappen
        /\ Queued # {}
        /\ RemoveAll
  /\ UNCHANGED <<config, work, order, owed>>

message_queue_destroy ==
  /\ phase = "idle"
  /\ RemoveAll
  /\ phase' = "destroyed"
  /\ UNCHANGED <<config, cursor, order, owed>>

message_queue_set_option ==
  /\ phase = "idle"
  /\ \/ /\ max_message_enqueued_time_secs' \in EnqueuedTimes
        /\ UNCHANGED <<max_message_processing_time_secs, max_retry_count>>
     \/ /\ max_message_processing_time_secs' \in ProcessingTimes
        /\ UNCHANGED <<max_message_enqueued_time_secs, max_retry_count>>
     \/ /\ max_retry_count' \in RetryCounts
        /\ UNCHANGED <<max_message_enqueued_time_secs,
                       max_message_processing_time_secs>>
  /\ UNCHANGED <<lists, items, work, history>>

\* Time passes.  The scan of process_timeouts works on one reading of the clock.
Tick ==
  /\ phase \in {"idle", "dispatch"}
  /\ enqueue_age' = [m \in Messages |->
                       IF m \in Queued THEN Older(enqueue_age[m]) ELSE enqueue_age[m]]
  /\ processing_age' = [m \in Messages |->
                          IF m \in Range(in_progress) THEN Older(processing_age[m])
                          ELSE processing_age[m]]
  /\ UNCHANGED <<lists, number_of_attempts, config, work, history>>

-----------------------------------------------------------------------------

\* message_queue_create
Init ==
  /\ pending = <<>>
  /\ in_progress = <<>>
  /\ enqueue_age = [m \in Messages |-> 0]
  /\ processing_age = [m \in Messages |-> 0]
  /\ number_of_attempts = [m \in Messages |-> 0]
  /\ max_message_enqueued_time_secs \in EnqueuedTimes
  /\ max_message_processing_time_secs \in ProcessingTimes
  /\ max_retry_count \in RetryCounts
  /\ phase = "idle"
  /\ cursor = 1
  /\ order = <<>>
  /\ fired = [m \in Messages |-> 0]
  /\ outcome = [m \in Messages |-> "none"]
  /\ owed = [m \in Messages |-> 0]

Next ==
  \/ \E m \in Messages : message_queue_add(m)
  \/ \E result \in Reports : on_process_message_completed_callback(result)
  \/ message_queue_do_work
  \/ DoWorkStep
  \/ message_queue_remove_all
  \/ message_queue_move_all_back_to_pending
  \/ message_queue_destroy
  \/ message_queue_set_option
  \/ Tick

Spec == Init /\ [][Next]_vars

\* The owner calls message_queue_do_work periodically, every call runs to its
\* end, get_time does not fail for ever, and time passes (it is not read during a
\* scan, hence the strong fairness).  Nothing is assumed of the processor.
Fairness ==
  /\ WF_vars(message_queue_do_work)
  /\ SF_vars(message_queue_do_work /\ phase' = "pending_timeouts")
  /\ WF_vars(DoWorkStep)
  /\ SF_vars(Tick)

FairSpec == Spec /\ Fairness

-----------------------------------------------------------------------------
(* Properties *)

\* The types of the two lists, the items, the options and the place in do_work.
TypeOK ==
  /\ pending \in Seq(Messages)
  /\ in_progress \in Seq(Messages)
  /\ enqueue_age \in [Messages -> 0..AgeCap]
  /\ processing_age \in [Messages -> 0..AgeCap]
  /\ number_of_attempts \in [Messages -> Nat]
  /\ max_message_enqueued_time_secs \in EnqueuedTimes
  /\ max_message_processing_time_secs \in ProcessingTimes
  /\ max_retry_count \in RetryCounts
  /\ phase \in Phases
  /\ cursor \in Nat \ {0}
  /\ order \in Seq(Messages)
  /\ fired \in [Messages -> Nat]
  /\ outcome \in [Messages -> Outcomes \cup {"unknown"}]
  /\ owed \in [Messages -> Nat]

\* No message is listed twice, in one list or across the two.
ListedOnce ==
  /\ IsInjective(pending)
  /\ IsInjective(in_progress)
  /\ Range(pending) \cap Range(in_progress) = {}

\* A message that message_queue_add accepted is in the queue and its callback has
\* not fired, or it has left the queue and its callback fired exactly once, however
\* completions, retries, retries that fail, timeouts, moves and flushes interleave
\* (dequeue_message_and_fire_callback, retry_sending_message).  The one exception is a message
\* whose freed list item was read and no longer held it; the program stops being followed there.
CompletedExactlyOnce ==
  /\ ListedOnce
  /\ Queued \subseteq Range(order)
  /\ \A m \in Messages :
       fired[m] = IF m \in Range(order) \ (Queued \cup Misread) THEN 1 ELSE 0
  /\ Misread # {} => phase = "undefined"

\* in_progress is ordered by processing start time: what the early break of the
\* last loop of process_timeouts relies on.
InProgressOrdered ==
  \A i, j \in DOMAIN in_progress :
    i < j => processing_age[in_progress[i]] >= processing_age[in_progress[j]]

\* When process_timeouts returns, nothing that has been in progress or in the
\* queue for too long is still in progress, although the last loop stops at the
\* first item that has not expired.
InProgressSwept ==
  [][phase = "processing_timeouts" /\ phase' = "dispatch" =>
       \A m \in Range(in_progress) : ~EnqueuedExpired(m) /\ ~ProcessingExpired(m)]_vars

\* First attempts are made in the order in which messages were added: moving the
\* list in progress back in front of pending never lets a message overtake
\* another one that was added before it and was never tried.
FirstAttemptsInOrder ==
  [][\A i, j \in DOMAIN order :
       i < j /\ number_of_attempts[order[j]] = 0 /\ number_of_attempts'[order[j]] = 1
         => number_of_attempts[order[i]] > 0 \/ fired[order[i]] > 0]_vars

\* The processor still owes a report for every message in progress: no stale
\* report, retry or move leaves an item in progress that nobody will complete.
InProgressOwed == \A m \in Range(in_progress) : owed[m] > 0

\* With an enqueue timeout configured every message accepted is completed, whatever
\* the processor does.
EveryMessageCompletes ==
  \A m \in Messages :
    m \in Range(order) ~> \/ fired[m] = 1 \/ max_message_enqueued_time_secs = 0
                         \/ phase = "undefined"

\* message_queue_do_work returns: the loop over pending ends although the processor
\* may put messages back into pending from inside the callback.
DoWorkReturns == phase = "dispatch" ~> phase \in {"idle", "undefined"}

\* Requirement 09_049 (message_queue.c:127) without an exception: a message that is not put back
\* is reported.  Violated where its freed list item is read.
AcceptedIsReported ==
  \A m \in Range(order) : m \in Queued \/ fired[m] = 1

\* The comment in the first loop of process_timeouts: pending is ordered by enqueue
\* time.  A retried message is appended to pending with its old enqueue time.
PendingOrderedByEnqueueTime ==
  \A i, j \in DOMAIN pending :
    i < j => enqueue_age[pending[i]] >= enqueue_age[pending[j]]

\* What holds of the queue between any two steps of message_queue_add, do_work, a report of the
\* processor, move_all_back_to_pending, remove_all and their callbacks.
QueueSound == TypeOK /\ CompletedExactlyOnce /\ InProgressOrdered /\ InProgressOwed

\* What no step of process_timeouts and of process_pending_messages may do.
QueueOrdered == InProgressSwept /\ FirstAttemptsInOrder

\* What do_work must get to in the end, for the messages and for its own loop.
QueueDrains == EveryMessageCompletes /\ DoWorkReturns
=============================================================================
