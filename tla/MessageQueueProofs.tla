------------------------- MODULE MessageQueueProofs -------------------------
(***************************************************************************)
(* Proofs about MessageQueue for any set of messages, any timeouts and any  *)
(* retry counts: the inductive invariant QueueInv, and from it that every   *)
(* message is completed exactly once, that the early break of the last loop *)
(* of process_timeouts misses nothing, and that first attempts are made in   *)
(* order; and that the queue delivers as Delivery says.                      *)
(***************************************************************************)
EXTENDS MessageQueue, SequenceFacts

\* The queue while no freed list item was read: TypeOK with every result known.
Typed ==
  /\ pending \in Seq(Messages)
  /\ in_progress \in Seq(Messages)
  /\ enqueue_age \in [Messages -> 0..AgeCap]
  /\ processing_age \in [Messages -> 0..AgeCap]
  /\ number_of_attempts \in [Messages -> Nat]
  /\ max_message_enqueued_time_secs \in EnqueuedTimes
  /\ max_message_processing_time_secs \in ProcessingTimes
  /\ max_retry_count \in RetryCounts
  /\ phase \in Phases
  /\ cursor \in Nat \ {0}
  /\ order \in Seq(Messages)
  /\ fired \in [Messages -> Nat]
  /\ outcome \in [Messages -> Outcomes]
  /\ owed \in [Messages -> Nat]

\* CompletedExactlyOnce without its exception.
Counted ==
  /\ ListedOnce
  /\ Queued \subseteq Range(order)
  /\ \A m \in Messages : fired[m] = IF m \in Range(order) \ Queued THEN 1 ELSE 0

\* The strengthening: the exactly-once accounting needs that no message is listed
\* twice, and the timeout scan needs that in_progress is ordered by start time.
RunInv == Typed /\ Counted /\ InProgressOrdered /\ InProgressOwed

\* Where a freed list item was read, what holds of the queue holds for the last time.
HaltInv == phase = "undefined" /\ QueueSound

QueueInv == RunInv \/ HaltInv


\* The clock only makes ages grow, up to AgeCap, and keeps their order.
LEMMA OlderFacts ==
  ASSUME NEW a \in 0..AgeCap, NEW b \in 0..AgeCap
  PROVE  /\ Older(a) \in 0..AgeCap
         /\ a >= b => Older(a) >= Older(b)
BY QueueAssumption DEF Older

\* The empty queue satisfies the invariant.
LEMMA InitInv == Init => RunInv
<1> SUFFICES ASSUME Init PROVE RunInv
  OBVIOUS
<1>1. Typed
  BY QueueAssumption DEF Init, Typed, Phases, Outcomes
<1>2. Queued = {} /\ Range(order) = {} /\ Range(in_progress) = {} /\ Range(pending) = {}
  BY DEF Init, Queued, Range
<1>3. Counted
  BY <1>2 DEF Init, Counted, ListedOnce, IsInjective
<1>4. InProgressOrdered /\ InProgressOwed
  BY <1>2 DEF Init, InProgressOrdered, InProgressOwed
<1> QED
  BY <1>1, <1>3, <1>4 DEF RunInv

\* What fire_message_callback and free do to one message, whatever list it leaves.
LEMMA FireAndFree ==
  ASSUME Typed, NEW m \in Messages,
         NEW result \in {"SUCCESS", "ERROR", "RETRYABLE_ERROR", "TIMEOUT"},
         fire_message_callback(m, result), FreeItems({m})
  PROVE  /\ fired' \in [Messages -> Nat] /\ fired'[m] = fired[m] + 1
         /\ \A n \in Messages : n # m => fired'[n] = fired[n]
         /\ outcome' \in [Messages -> Outcomes]
         /\ enqueue_age' \in [Messages -> 0..AgeCap]
         /\ processing_age' \in [Messages -> 0..AgeCap]
         /\ number_of_attempts' \in [Messages -> Nat]
         /\ \A n \in Messages : n # m => processing_age'[n] = processing_age[n]
<1>1. fired' \in [Messages -> Nat] /\ fired'[m] = fired[m] + 1
      /\ \A n \in Messages : n # m => fired'[n] = fired[n]
  BY DEF Typed, fire_message_callback
<1>2. outcome' \in [Messages -> Outcomes]
  BY DEF Typed, fire_message_callback, Outcomes
<1>3. enqueue_age' \in [Messages -> 0..AgeCap] /\ processing_age' \in [Messages -> 0..AgeCap]
  BY QueueAssumption DEF Typed, FreeItems
<1>4. number_of_attempts' \in [Messages -> Nat]
  BY DEF Typed, FreeItems
<1>5. \A n \in Messages : n # m => processing_age'[n] = processing_age[n]
  BY DEF Typed, FreeItems
<1> QED
  BY <1>1, <1>2, <1>3, <1>4, <1>5

\* The parts of the state that dequeuing an item leaves to its caller.
CallerTypeOK ==
  /\ max_message_enqueued_time_secs \in EnqueuedTimes
  /\ max_message_processing_time_secs \in ProcessingTimes
  /\ max_retry_count \in RetryCounts
  /\ phase \in Phases
  /\ cursor \in Nat \ {0}
  /\ owed \in [Messages -> Nat]

\* Removing the i-th item of in_progress keeps in_progress ordered by start time.
LEMMA RemovalKeepsOrder ==
  ASSUME Typed, ListedOnce, InProgressOrdered, NEW i \in 1..Len(in_progress),
         in_progress' = RemoveAt(in_progress, i),
         \A m \in Messages : m # in_progress[i] => processing_age'[m] = processing_age[m]
  PROVE  InProgressOrdered'
<1> DEFINE r == RemoveAt(in_progress, i)
<1>0. in_progress \in Seq(Messages) /\ DOMAIN in_progress = 1..Len(in_progress)
      /\ Len(in_progress) \in Nat /\ i \in Nat /\ IsInjective(in_progress)
  BY DEF Typed, ListedOnce
<1>1. /\ r \in Seq(Messages) /\ Len(r) = Len(in_progress) - 1
      /\ \A j \in 1..(Len(in_progress) - 1) :
           r[j] = IF j < i THEN in_progress[j] ELSE in_progress[j + 1]
  BY <1>0, RemoveAtElements
<1>2. Range(r) = Range(in_progress) \ {in_progress[i]}
  BY <1>0, RemoveAtNoDuplicates
<1> HIDE DEF r
<1>3. DOMAIN r = 1..(Len(in_progress) - 1)
  BY <1>0, <1>1
<1>4. \A j \in DOMAIN r : r[j] \in Messages /\ r[j] # in_progress[i]
  <2> TAKE j \in DOMAIN r
  <2>1. r[j] \in Range(r)
    BY DEF Range
  <2>2. r[j] \in Messages
    BY <1>1, <1>3, <1>0
  <2> QED
    BY <1>2, <2>1, <2>2
<1>5. \A j \in DOMAIN r : processing_age'[r[j]] = processing_age[r[j]]
  BY <1>4
<1>6. ASSUME NEW j \in DOMAIN r, NEW k \in DOMAIN r, j < k
      PROVE  processing_age[r[j]] >= processing_age[r[k]]
  <2> DEFINE J == IF j < i THEN j ELSE j + 1
             K == IF k < i THEN k ELSE k + 1
  <2>1. J \in DOMAIN in_progress /\ K \in DOMAIN in_progress /\ J < K
    BY <1>0, <1>3, <1>6
  <2>2. r[j] = in_progress[J] /\ r[k] = in_progress[K]
    BY <1>1, <1>3
  <2> QED
    BY <2>1, <2>2 DEF InProgressOrdered
<1>7. in_progress' = r
  BY DEF r
<1> QED
  BY <1>5, <1>6, <1>7 DEF InProgressOrdered

\* dequeue_message_and_fire_callback on in_progress preserves the invariant.
LEMMA DequeueInProgressInv ==
  ASSUME RunInv, NEW i \in 1..Len(in_progress),
         NEW result \in {"SUCCESS", "ERROR", "RETRYABLE_ERROR", "TIMEOUT"},
         DequeueInProgress(i, result), order' = order, CallerTypeOK',
         \A m \in Messages : m # in_progress[i] => owed'[m] = owed[m]
  PROVE  RunInv'
<1> DEFINE m == in_progress[i]
<1>0. Typed /\ Counted /\ ListedOnce /\ InProgressOrdered /\ InProgressOwed
      /\ in_progress \in Seq(Messages) /\ pending \in Seq(Messages)
  BY DEF RunInv, Counted, Typed
<1>m. m \in Messages
  BY <1>0
<1>1. /\ fired' \in [Messages -> Nat] /\ fired'[m] = fired[m] + 1
      /\ \A n \in Messages : n # m => fired'[n] = fired[n]
      /\ outcome' \in [Messages -> Outcomes]
      /\ enqueue_age' \in [Messages -> 0..AgeCap]
      /\ processing_age' \in [Messages -> 0..AgeCap]
      /\ number_of_attempts' \in [Messages -> Nat]
      /\ \A n \in Messages : n # m => processing_age'[n] = processing_age[n]
  BY <1>0, <1>m, FireAndFree DEF DequeueInProgress
<1>2. /\ in_progress' \in Seq(Messages) /\ IsInjective(in_progress')
      /\ Range(in_progress') = Range(in_progress) \ {m}
  BY <1>0, RemoveAtElements, RemoveAtNoDuplicates DEF DequeueInProgress, ListedOnce
<1>3. m \in Range(in_progress) /\ m \notin Range(pending) /\ pending' = pending
  BY <1>0 DEF DequeueInProgress, ListedOnce, Range
<1>4. Typed'
  BY <1>0, <1>1, <1>2, <1>3 DEF Typed, CallerTypeOK
<1>5. Counted'
  <2>1. ListedOnce'
    BY <1>0, <1>2, <1>3 DEF ListedOnce
  <2>2. Queued' = Queued \ {m} /\ m \in Queued
    BY <1>2, <1>3 DEF Queued
  <2>3. fired[m] = 0 /\ m \in Range(order)
    BY <1>0, <2>2 DEF Counted
  <2>4. \A n \in Messages : fired'[n] = IF n \in Range(order) \ Queued' THEN 1 ELSE 0
    <3>1. \A n \in Messages : fired[n] = IF n \in Range(order) \ Queued THEN 1 ELSE 0
      BY <1>0 DEF Counted
    <3>2. fired'[m] = 1 /\ m \in Range(order) /\ m \notin Queued'
      BY <1>1, <2>2, <2>3
    <3>3. \A n \in Messages : n # m => fired'[n] = fired[n] /\ (n \in Queued' <=> n \in Queued)
      BY <1>1, <2>2
    <3> QED
      BY <3>1, <3>2, <3>3
  <2> QED
    BY <1>0, <2>1, <2>2, <2>4 DEF Counted
<1>6. InProgressOrdered'
  BY <1>0, <1>1, RemovalKeepsOrder DEF DequeueInProgress
<1>n. Range(in_progress) \subseteq Messages
  BY <1>0 DEF Range
<1>7. InProgressOwed'
  BY <1>0, <1>2, <1>n DEF InProgressOwed
<1> QED
  BY <1>4, <1>5, <1>6, <1>7 DEF RunInv

\* dequeue_message_and_fire_callback on the head of pending does, too.
LEMMA DequeuePendingInv ==
  ASSUME RunInv, pending # <<>>,
         NEW result \in {"SUCCESS", "ERROR", "RETRYABLE_ERROR", "TIMEOUT"},
         DequeuePending(1, result), order' = order, owed' = owed, CallerTypeOK'
  PROVE  RunInv'
<1> DEFINE m == pending[1]
<1>0. Typed /\ Counted /\ ListedOnce /\ InProgressOrdered /\ InProgressOwed
      /\ in_progress \in Seq(Messages) /\ pending \in Seq(Messages)
      /\ 1 \in 1..Len(pending) /\ m \in Messages
  BY SMTT(30) DEF RunInv, Counted, Typed
<1>1. /\ fired' \in [Messages -> Nat] /\ fired'[m] = fired[m] + 1
      /\ \A n \in Messages : n # m => fired'[n] = fired[n]
      /\ outcome' \in [Messages -> Outcomes]
      /\ enqueue_age' \in [Messages -> 0..AgeCap]
      /\ processing_age' \in [Messages -> 0..AgeCap]
      /\ number_of_attempts' \in [Messages -> Nat]
      /\ \A n \in Messages : n # m => processing_age'[n] = processing_age[n]
  BY <1>0, FireAndFree DEF DequeuePending
<1>2. /\ pending' \in Seq(Messages) /\ IsInjective(pending')
      /\ Range(pending') = Range(pending) \ {m}
  BY <1>0, RemoveAtElements, RemoveAtNoDuplicates DEF DequeuePending, ListedOnce
<1>3. m \in Range(pending) /\ m \notin Range(in_progress) /\ in_progress' = in_progress
  <2>1. m \in Range(pending)
    BY <1>0 DEF Range
  <2>2. m \notin Range(in_progress)
    BY <1>0, <2>1 DEF ListedOnce
  <2> QED
    BY <2>1, <2>2 DEF DequeuePending
<1>4. Typed'
  BY <1>0, <1>1, <1>2, <1>3 DEF Typed, CallerTypeOK
<1>5. Counted'
  <2>1. ListedOnce'
    BY <1>0, <1>2, <1>3 DEF ListedOnce
  <2>2. Queued' = Queued \ {m} /\ m \in Queued
    BY <1>2, <1>3 DEF Queued
  <2>3. fired[m] = 0 /\ m \in Range(order)
    BY <1>0, <2>2 DEF Counted
  <2>4. \A n \in Messages : fired'[n] = IF n \in Range(order) \ Queued' THEN 1 ELSE 0
    <3>1. \A n \in Messages : fired[n] = IF n \in Range(order) \ Queued THEN 1 ELSE 0
      BY <1>0 DEF Counted
    <3>2. fired'[m] = 1 /\ m \in Range(order) /\ m \notin Queued'
      BY <1>1, <2>2, <2>3
    <3>3. \A n \in Messages : n # m => fired'[n] = fired[n] /\ (n \in Queued' <=> n \in Queued)
      BY <1>1, <2>2
    <3> QED
      BY <3>1, <3>2, <3>3
  <2> QED
    BY <1>0, <2>1, <2>2, <2>4 DEF Counted
<1>6. InProgressOrdered'
  <2>1. \A j \in DOMAIN in_progress : in_progress[j] \in Messages /\ in_progress[j] # m
    BY <1>0, <1>3 DEF Range
  <2> QED
    BY <1>0, <1>1, <1>3, <2>1 DEF InProgressOrdered
<1>7. InProgressOwed'
  BY <1>0, <1>3 DEF InProgressOwed
<1> QED
  BY <1>4, <1>5, <1>6, <1>7 DEF RunInv

\* message_queue_add preserves the invariant.
LEMMA AddInv ==
  ASSUME RunInv, NEW m \in Messages, message_queue_add(m)
  PROVE  RunInv'
<1>0. Typed /\ Counted /\ ListedOnce /\ InProgressOrdered /\ InProgressOwed
      /\ pending \in Seq(Messages) /\ order \in Seq(Messages)
  BY DEF RunInv, Counted, Typed
<1>1. m \notin Queued /\ m \notin Range(pending) /\ m \notin Range(in_progress)
  BY <1>0 DEF Counted, Queued, message_queue_add
<1>2. /\ pending' \in Seq(Messages) /\ Range(pending') = Range(pending) \cup {m}
      /\ IsInjective(pending')
  BY <1>0, <1>1, AppendNoDuplicates DEF ListedOnce, message_queue_add
<1>3. order' \in Seq(Messages) /\ Range(order') = Range(order) \cup {m}
  BY <1>0, AppendNoDuplicates DEF message_queue_add
<1>4. in_progress' = in_progress /\ processing_age' = processing_age /\ owed' = owed
      /\ fired' = fired
  BY DEF message_queue_add
<1>5. Typed'
  BY <1>0, <1>2, <1>3, QueueAssumption, SMTT(30) DEF Typed, message_queue_add, config, work
<1>6. Counted'
  <2>1. ListedOnce'
    BY <1>0, <1>1, <1>2, <1>4 DEF ListedOnce
  <2>2. Queued' = Queued \cup {m} /\ fired[m] = 0
    BY <1>0, <1>1, <1>2, <1>4 DEF Queued, Counted, message_queue_add
  <2>3. ASSUME NEW n \in Messages
        PROVE  fired'[n] = IF n \in Range(order') \ Queued' THEN 1 ELSE 0
    BY <1>0, <1>3, <1>4, <2>2 DEF Counted
  <2> QED
    BY <1>0, <1>3, <2>1, <2>2, <2>3 DEF Counted
<1>7. InProgressOrdered' /\ InProgressOwed'
  BY <1>0, <1>4 DEF InProgressOrdered, InProgressOwed
<1> QED
  BY <1>5, <1>6, <1>7 DEF RunInv

\* Moving messages between the lists, without losing or repeating one and without
\* firing a callback, keeps the accounting.
LEMMA MoveKeepsAccounts ==
  ASSUME Counted, ListedOnce', Queued' = Queued, order' = order,
         fired' = fired
  PROVE  Counted'
BY DEF Counted

\* A retry moves the item from in_progress to the end of pending.
LEMMA CompletedRetryInv ==
  ASSUME RunInv, NEW i \in DOMAIN in_progress, NEW result, CompletedRetry(i, result)
  PROVE  RunInv'
<1> DEFINE m == in_progress[i]
<1>0. Typed /\ Counted /\ ListedOnce /\ InProgressOrdered /\ InProgressOwed
      /\ pending \in Seq(Messages) /\ in_progress \in Seq(Messages)
      /\ IsInjective(in_progress) /\ IsInjective(pending)
      /\ owed \in [Messages -> Nat]
  BY DEF RunInv, Counted, Typed, ListedOnce
<1>1. i \in 1..Len(in_progress) /\ m \in Messages
  BY <1>0
<1>2. /\ in_progress' \in Seq(Messages) /\ IsInjective(in_progress')
      /\ Range(in_progress') = Range(in_progress) \ {m}
  BY <1>0, <1>1, RemoveAtElements, RemoveAtNoDuplicates DEF CompletedRetry
<1>3. m \in Range(in_progress) /\ m \notin Range(pending)
  BY <1>0, <1>1 DEF ListedOnce, Range
<1>4. /\ pending' \in Seq(Messages) /\ Range(pending') = Range(pending) \cup {m}
      /\ IsInjective(pending')
  BY <1>0, <1>1, <1>3, AppendNoDuplicates DEF CompletedRetry
<1>5. /\ owed' \in [Messages -> Nat]
      /\ \A n \in Messages : n # m => owed'[n] = owed[n]
  <2>1. owed[m] > 0 /\ owed' = [owed EXCEPT ![m] = @ - 1]
    BY DEF CompletedRetry, ProcessorReports
  <2>2. owed[m] - 1 \in Nat
    BY <1>0, <1>1, <2>1
  <2> QED
    BY <1>0, <1>1, <2>1, <2>2
<1>6. Typed'
  BY <1>0, <1>2, <1>4, <1>5 DEF Typed, CompletedRetry, items, config, work
<1>7. Counted'
  <2>1. ListedOnce'
    BY <1>0, <1>2, <1>3, <1>4 DEF ListedOnce
  <2>2. Queued' = Queued
    BY <1>2, <1>3, <1>4 DEF Queued
  <2> QED
    BY <1>0, <2>1, <2>2, MoveKeepsAccounts DEF CompletedRetry
<1>8. InProgressOrdered'
  <2>1. in_progress' = RemoveAt(in_progress, i) /\ processing_age' = processing_age
    BY DEF CompletedRetry, items
  <2> QED
    BY <1>0, <1>1, <2>1, RemovalKeepsOrder
<1>9. InProgressOwed'
  <2>1. Range(in_progress) \subseteq Messages
    BY <1>0 DEF Range
  <2> QED
    BY <1>0, <1>2, <1>5, <2>1 DEF InProgressOwed
<1> QED
  BY <1>6, <1>7, <1>8, <1>9 DEF RunInv

\* A final result dequeues the item.
LEMMA CompletedFinalInv ==
  ASSUME RunInv, NEW i \in DOMAIN in_progress, NEW result \in Reports,
         CompletedFinal(i, result)
  PROVE  RunInv'
<1>0. Typed /\ in_progress \in Seq(Messages) /\ owed \in [Messages -> Nat]
  BY DEF RunInv, Typed
<1>1. i \in 1..Len(in_progress) /\ in_progress[i] \in Messages
  BY <1>0
<1>2. owed[in_progress[i]] > 0 /\ owed' = [owed EXCEPT ![in_progress[i]] = @ - 1]
  BY DEF CompletedFinal, ProcessorReports
<1>3. owed[in_progress[i]] - 1 \in Nat
  BY <1>0, <1>1, <1>2
<1>4. /\ owed' \in [Messages -> Nat]
      /\ \A n \in Messages : n # in_progress[i] => owed'[n] = owed[n]
  BY <1>0, <1>1, <1>2, <1>3
<1>5. CallerTypeOK'
  BY <1>0, <1>4 DEF CallerTypeOK, Typed, CompletedFinal, config, work
<1>6. result \in {"SUCCESS", "ERROR", "RETRYABLE_ERROR", "TIMEOUT"}
  BY QueueAssumption
<1>7. DequeueInProgress(i, result) /\ order' = order
  BY DEF CompletedFinal
<1> QED
  BY <1>1, <1>4, <1>5, <1>6, <1>7, DequeueInProgressInv

\* A retry that fails reports its message, or reads the freed list item and finds anything.
LEMMA RetryFailsInv ==
  ASSUME RunInv, NEW i \in DOMAIN in_progress, NEW result \in Reports,
         CompletedRetryFails(i, result)
  PROVE  RunInv' \/ HaltInv'
<1> DEFINE m == in_progress[i]
<1>0. /\ Typed /\ Counted /\ ListedOnce /\ InProgressOrdered /\ InProgressOwed
      /\ in_progress \in Seq(Messages) /\ pending \in Seq(Messages) /\ owed \in [Messages -> Nat]
      /\ outcome \in [Messages -> Outcomes] /\ IsInjective(in_progress)
  BY DEF RunInv, Typed, Counted, ListedOnce
<1>1. i \in 1..Len(in_progress) /\ m \in Messages
  BY <1>0
<1>2. owed[m] > 0 /\ owed' = [owed EXCEPT ![m] = @ - 1]
  BY DEF CompletedRetryFails, RetryFails, ProcessorReports
<1>3. owed[m] - 1 \in Nat
  BY <1>0, <1>1, <1>2
<1>4. owed' \in [Messages -> Nat] /\ \A n \in Messages : n # m => owed'[n] = owed[n]
  BY <1>0, <1>1, <1>2, <1>3
<1>5. /\ max_message_enqueued_time_secs' = max_message_enqueued_time_secs
      /\ max_message_processing_time_secs' = max_message_processing_time_secs
      /\ max_retry_count' = max_retry_count /\ cursor' = cursor /\ order' = order
  BY DEF CompletedRetryFails, RetryFails, config
<1>6. CASE DequeueInProgress(i, result) /\ UNCHANGED phase
  <2>1. CallerTypeOK'
    BY <1>0, <1>4, <1>5, <1>6 DEF CallerTypeOK, Typed
  <2>2. result \in {"SUCCESS", "ERROR", "RETRYABLE_ERROR", "TIMEOUT"}
    BY QueueAssumption
  <2> QED
    BY <1>1, <1>4, <1>5, <1>6, <2>1, <2>2, DequeueInProgressInv
<1>7. CASE /\ in_progress' = RemoveAt(in_progress, i)
           /\ outcome' = [outcome EXCEPT ![m] = "unknown"]
           /\ phase' = "undefined"
           /\ UNCHANGED <<pending, items, fired>>
  <2>1. /\ in_progress' \in Seq(Messages) /\ IsInjective(in_progress')
        /\ Range(in_progress') = Range(in_progress) \ {m}
    BY <1>0, <1>1, <1>7, RemoveAtElements, RemoveAtNoDuplicates
  <2>2. /\ pending' = pending /\ fired' = fired /\ enqueue_age' = enqueue_age
        /\ processing_age' = processing_age /\ number_of_attempts' = number_of_attempts
    BY <1>7 DEF items
  <2>3. outcome' \in [Messages -> Outcomes \cup {"unknown"}]
    BY <1>0, <1>7
  <2>4. phase' \in Phases
    BY <1>7 DEF Phases
  <2>5. TypeOK'
    BY <1>0, <1>4, <1>5, <2>1, <2>2, <2>3, <2>4 DEF TypeOK, Typed
  <2>6. m \in Range(in_progress) /\ m \notin Range(pending)
    BY <1>0, <1>1 DEF ListedOnce, Range
  <2>7. CompletedExactlyOnce'
    <3>1. ListedOnce'
      BY <1>0, <2>1, <2>2 DEF ListedOnce
    <3>2. Queued' = Queued \ {m} /\ m \in Queued
      BY <2>1, <2>2, <2>6 DEF Queued
    <3>3. Misread' = {m}
      <4>1. outcome'[m] = "unknown" /\ \A n \in Messages : n # m => outcome'[n] \in Outcomes
        BY <1>0, <1>1, <1>7
      <4>2. "unknown" \notin Outcomes
        BY DEF Outcomes
      <4> QED
        BY <1>1, <4>1, <4>2 DEF Misread
    <3>4. Queued' \cup Misread' = Queued
      BY <3>2, <3>3
    <3>5. /\ Queued \subseteq Range(order)
          /\ \A n \in Messages : fired[n] = IF n \in Range(order) \ Queued THEN 1 ELSE 0
      BY <1>0 DEF Counted
    <3>6. Queued' \subseteq Range(order)
      BY <3>2, <3>5
    <3> QED
      BY <1>5, <1>7, <2>2, <3>1, <3>4, <3>5, <3>6 DEF CompletedExactlyOnce
  <2>8. InProgressOrdered'
    BY <1>0, <1>1, <1>7, <2>2, RemovalKeepsOrder
  <2>9. InProgressOwed'
    <3>1. Range(in_progress) \subseteq Messages
      BY <1>0 DEF Range
    <3> QED
      BY <1>0, <1>4, <2>1, <3>1 DEF InProgressOwed
  <2> QED
    BY <1>7, <2>5, <2>7, <2>8, <2>9 DEF HaltInv, QueueSound
<1> QED
  BY <1>6, <1>7 DEF CompletedRetryFails

\* One turn of process_pending_messages: the head of pending goes to the end of
\* in_progress as the youngest item there, and is owed a report.
LEMMA DispatchInv ==
  ASSUME RunInv, Dispatch
  PROVE  RunInv'
<1> DEFINE m == Head(pending)
<1>0. Typed /\ Counted /\ ListedOnce /\ InProgressOrdered /\ InProgressOwed
      /\ pending \in Seq(Messages) /\ in_progress \in Seq(Messages)
      /\ IsInjective(in_progress) /\ IsInjective(pending)
      /\ owed \in [Messages -> Nat] /\ processing_age \in [Messages -> 0..AgeCap]
      /\ number_of_attempts \in [Messages -> Nat]
  BY DEF RunInv, Counted, Typed, ListedOnce
<1>1. /\ pending # <<>> /\ pending' = Tail(pending)
      /\ in_progress' = Append(in_progress, m)
      /\ owed' = [owed EXCEPT ![m] = @ + 1]
      /\ processing_age' = [processing_age EXCEPT ![m] = 0]
      /\ number_of_attempts' = [number_of_attempts EXCEPT ![m] = @ + 1]
      /\ enqueue_age' = enqueue_age /\ order' = order /\ fired' = fired
      /\ outcome' = outcome /\ phase' = phase /\ cursor' = cursor
      /\ max_message_enqueued_time_secs' = max_message_enqueued_time_secs
      /\ max_message_processing_time_secs' = max_message_processing_time_secs
      /\ max_retry_count' = max_retry_count
  BY DEF Dispatch, HandOver, config, work
<1>2. /\ m = pending[1] /\ 1 \in 1..Len(pending) /\ m \in Messages
      /\ Tail(pending) = RemoveAt(pending, 1)
  BY <1>0, <1>1, TailIsRemoveAt
<1> HIDE DEF m
<1>3. /\ pending' \in Seq(Messages) /\ IsInjective(pending')
      /\ Range(pending') = Range(pending) \ {m}
  <2>1. /\ RemoveAt(pending, 1) \in Seq(Messages) /\ IsInjective(RemoveAt(pending, 1))
        /\ Range(RemoveAt(pending, 1)) = Range(pending) \ {pending[1]}
    BY <1>0, <1>2, RemoveAtElements, RemoveAtNoDuplicates
  <2> QED
    BY <1>1, <1>2, <2>1
<1>4. m \in Range(pending) /\ m \notin Range(in_progress)
  <2>1. 1 \in DOMAIN pending
    BY <1>0, <1>2
  <2>2. m \in Range(pending)
    BY <1>2, <2>1 DEF Range
  <2> QED
    BY <1>0, <2>2 DEF ListedOnce
<1>5. /\ in_progress' \in Seq(Messages)
      /\ Range(in_progress') = Range(in_progress) \cup {m}
      /\ IsInjective(in_progress')
  BY <1>0, <1>1, <1>2, <1>4, AppendNoDuplicates
<1>6. /\ owed' \in [Messages -> Nat] /\ owed'[m] > 0
      /\ \A n \in Messages : n # m => owed'[n] = owed[n]
  <2>1. owed \in [Messages -> Nat] /\ m \in Messages /\ owed[m] + 1 \in Nat \ {0}
    BY <1>0, <1>2
  <2>2. owed' = [owed EXCEPT ![m] = owed[m] + 1]
    BY <1>1
  <2> QED
    BY <2>1, <2>2
<1>7. /\ processing_age' \in [Messages -> 0..AgeCap] /\ processing_age'[m] = 0
      /\ \A n \in Messages : n # m => processing_age'[n] = processing_age[n]
  BY <1>0, <1>1, <1>2, QueueAssumption
<1>8. number_of_attempts' \in [Messages -> Nat]
  BY <1>0, <1>1, <1>2
<1>9. Typed'
  BY <1>0, <1>1, <1>3, <1>5, <1>6, <1>7, <1>8 DEF Typed
<1>10. Counted'
  <2>1. ListedOnce'
    BY <1>0, <1>3, <1>4, <1>5 DEF ListedOnce
  <2>2. Queued' = Queued
    BY <1>3, <1>4, <1>5 DEF Queued
  <2> QED
    BY <1>0, <1>1, <2>1, <2>2, MoveKeepsAccounts
<1>11. InProgressOrdered'
  <2>1. /\ Len(in_progress') = Len(in_progress) + 1
        /\ \A j \in 1..Len(in_progress) : in_progress'[j] = in_progress[j]
        /\ in_progress'[Len(in_progress) + 1] = m
    BY <1>0, <1>1, <1>2, AppendProperties
  <2>2. DOMAIN in_progress' = 1..(Len(in_progress) + 1) /\ Len(in_progress) \in Nat
        /\ DOMAIN in_progress = 1..Len(in_progress)
    BY <1>0, <1>5, <2>1
  <2>3. \A j \in DOMAIN in_progress :
          in_progress[j] \in Messages /\ in_progress[j] # m
    <3> TAKE j \in DOMAIN in_progress
    <3>1. in_progress[j] \in Range(in_progress)
      BY DEF Range
    <3>2. in_progress[j] \in Messages
      BY <1>0, <2>2
    <3> QED
      BY <1>4, <3>1, <3>2
  <2>4. ASSUME NEW j \in DOMAIN in_progress', NEW k \in DOMAIN in_progress', j < k
        PROVE  processing_age'[in_progress'[j]] >= processing_age'[in_progress'[k]]
    <3>1. j \in DOMAIN in_progress /\ in_progress'[j] = in_progress[j]
      BY <2>1, <2>2, <2>4
    <3>2. CASE k \in DOMAIN in_progress
      <4>1. in_progress'[k] = in_progress[k]
        BY <2>1, <2>2, <3>2
      <4>2. processing_age[in_progress[j]] >= processing_age[in_progress[k]]
        BY <1>0, <2>4, <3>1, <3>2 DEF InProgressOrdered
      <4> QED
        BY <1>7, <2>3, <3>1, <3>2, <4>1, <4>2
    <3>3. CASE k = Len(in_progress) + 1
      <4>1. processing_age'[in_progress'[k]] = 0
        BY <1>7, <2>1, <3>3
      <4>2. processing_age'[in_progress'[j]] \in 0..AgeCap
        BY <1>7, <2>3, <3>1
      <4> QED
        BY <4>1, <4>2, QueueAssumption
    <3> QED
      BY <2>2, <3>2, <3>3
  <2> QED
    BY <2>4 DEF InProgressOrdered
<1>12. InProgressOwed'
  <2>1. Range(in_progress) \subseteq Messages
    BY <1>0 DEF Range
  <2> QED
    BY <1>0, <1>5, <1>6, <2>1 DEF InProgressOwed
<1> QED
  BY <1>9, <1>10, <1>11, <1>12 DEF RunInv

\* Flushing both lists fires the callback of everything that was queued.
LEMMA RemoveAllInv ==
  ASSUME RunInv, RemoveAll, order' = order, CallerTypeOK'
  PROVE  RunInv'
<1>0. Typed /\ Counted /\ ListedOnce
  BY DEF RunInv, Counted
<1>1. pending' = <<>> /\ in_progress' = <<>>
  BY DEF RemoveAll
<1>2. Range(pending') = {} /\ Range(in_progress') = {} /\ Queued' = {}
      /\ DOMAIN in_progress' = {}
  BY <1>1 DEF Range, Queued
<1>3. fired' \in [Messages -> Nat] /\ outcome' \in [Messages -> Outcomes]
  BY <1>0 DEF Typed, RemoveAll, Outcomes
<1>4. /\ enqueue_age' \in [Messages -> 0..AgeCap]
      /\ processing_age' \in [Messages -> 0..AgeCap]
      /\ number_of_attempts' \in [Messages -> Nat]
  BY <1>0, QueueAssumption DEF Typed, RemoveAll, FreeItems
<1>5. Typed'
  BY <1>0, <1>1, <1>3, <1>4 DEF Typed, CallerTypeOK
<1>6. Counted'
  <2>1. ListedOnce'
    BY <1>1, <1>2 DEF ListedOnce, IsInjective
  <2>2. ASSUME NEW n \in Messages
        PROVE  fired'[n] = IF n \in Range(order) THEN 1 ELSE 0
    <3>1. fired[n] = IF n \in Range(order) \ Queued THEN 1 ELSE 0
      BY <1>0 DEF Counted
    <3>2. fired'[n] = IF n \in Queued THEN fired[n] + 1 ELSE fired[n]
      BY DEF RemoveAll
    <3>3. n \in Queued => n \in Range(order)
      BY <1>0 DEF Counted
    <3> QED
      BY <3>1, <3>2, <3>3
  <2> QED
    BY <1>2, <2>1, <2>2 DEF Counted
<1>7. InProgressOrdered' /\ InProgressOwed'
  BY <1>2 DEF InProgressOrdered, InProgressOwed
<1> QED
  BY <1>5, <1>6, <1>7 DEF RunInv

\* Everything goes back to pending, or the whole queue is flushed.
LEMMA MoveAllBackInv ==
  ASSUME RunInv, message_queue_move_all_back_to_pending
  PROVE  RunInv'
<1>0. Typed /\ Counted /\ ListedOnce
      /\ pending \in Seq(Messages) /\ in_progress \in Seq(Messages)
      /\ IsInjective(in_progress) /\ IsInjective(pending)
      /\ Range(in_progress) \cap Range(pending) = {}
  BY DEF RunInv, Counted, Typed, ListedOnce
<1>1. CASE pending' = in_progress \o pending /\ in_progress' = <<>>
           /\ UNCHANGED <<items, fired, outcome>>
  <2>1. /\ pending' \in Seq(Messages) /\ IsInjective(pending')
        /\ Range(pending') = Range(in_progress) \cup Range(pending)
    BY <1>0, <1>1, ConcatNoDuplicates
  <2>2. Range(in_progress') = {} /\ DOMAIN in_progress' = {}
    BY <1>1 DEF Range
  <2>3. Typed'
    BY <1>0, <1>1, <2>1 DEF Typed, message_queue_move_all_back_to_pending,
                            items, config, work
  <2>4. ListedOnce'
    BY <1>1, <2>1, <2>2 DEF ListedOnce, IsInjective
  <2>5. Queued' = Queued
    BY <2>1, <2>2 DEF Queued
  <2>6. Counted'
    BY <1>0, <1>1, <2>4, <2>5, MoveKeepsAccounts
       DEF message_queue_move_all_back_to_pending
  <2>7. InProgressOrdered' /\ InProgressOwed'
    BY <2>2 DEF InProgressOrdered, InProgressOwed
  <2> QED
    BY <2>3, <2>6, <2>7 DEF RunInv
<1>2. CASE RemoveAll
  <2>1. CallerTypeOK' /\ order' = order
    BY <1>0 DEF CallerTypeOK, Typed, message_queue_move_all_back_to_pending,
                config, work
  <2> QED
    BY <1>2, <2>1, RemoveAllInv
<1> QED
  BY <1>1, <1>2 DEF message_queue_move_all_back_to_pending

\* The clock: all items in progress age together.
LEMMA TickInv ==
  ASSUME RunInv, Tick
  PROVE  RunInv'
<1>0. Typed /\ Counted /\ InProgressOrdered /\ InProgressOwed
      /\ in_progress \in Seq(Messages)
      /\ processing_age \in [Messages -> 0..AgeCap]
      /\ enqueue_age \in [Messages -> 0..AgeCap]
  BY DEF RunInv, Typed
<1>1. /\ pending' = pending /\ in_progress' = in_progress /\ order' = order
      /\ fired' = fired /\ owed' = owed /\ outcome' = outcome /\ phase' = phase
      /\ cursor' = cursor /\ number_of_attempts' = number_of_attempts
      /\ UNCHANGED config
  BY DEF Tick, lists, config, work, history
<1>2. \A m \in Messages : Older(enqueue_age[m]) \in 0..AgeCap
                          /\ Older(processing_age[m]) \in 0..AgeCap
  BY <1>0, OlderFacts
<1>3. enqueue_age' \in [Messages -> 0..AgeCap]
      /\ processing_age' \in [Messages -> 0..AgeCap]
  BY <1>0, <1>2 DEF Tick
<1>4. Typed'
  BY <1>0, <1>1, <1>3 DEF Typed, config
<1>5. Counted' /\ InProgressOwed'
  BY <1>0, <1>1 DEF Counted, ListedOnce, Queued, InProgressOwed
<1>6. InProgressOrdered'
  <2>1. ASSUME NEW j \in DOMAIN in_progress
        PROVE  /\ processing_age[in_progress[j]] \in 0..AgeCap
               /\ processing_age'[in_progress[j]] = Older(processing_age[in_progress[j]])
    <3>1. in_progress[j] \in Messages /\ in_progress[j] \in Range(in_progress)
      BY <1>0 DEF Range
    <3> QED
      BY <1>0, <3>1 DEF Tick
  <2>2. ASSUME NEW j \in DOMAIN in_progress, NEW k \in DOMAIN in_progress, j < k
        PROVE  processing_age'[in_progress[j]] >= processing_age'[in_progress[k]]
    <3>1. processing_age[in_progress[j]] >= processing_age[in_progress[k]]
      BY <1>0, <2>2 DEF InProgressOrdered
    <3> QED
      BY <2>1, <3>1, OlderFacts
  <2> QED
    BY <1>1, <2>2 DEF InProgressOrdered
<1> QED
  BY <1>4, <1>5, <1>6 DEF RunInv

\* A step that only moves the program counter, the options or owed reports of
\* messages that are not in progress.
LEMMA ControlStepInv ==
  ASSUME RunInv, CallerTypeOK', UNCHANGED <<lists, items, order, fired, outcome>>,
         \A m \in Messages : m \in Range(in_progress) => owed'[m] = owed[m]
  PROVE  RunInv'
<1>0. Typed /\ Counted /\ InProgressOrdered /\ InProgressOwed
      /\ in_progress \in Seq(Messages)
  BY DEF RunInv, Typed
<1>1. /\ pending' = pending /\ in_progress' = in_progress /\ order' = order
      /\ fired' = fired /\ outcome' = outcome
      /\ enqueue_age' = enqueue_age /\ processing_age' = processing_age
      /\ number_of_attempts' = number_of_attempts
  BY DEF lists, items
<1>2. Typed'
  BY <1>0, <1>1 DEF Typed, CallerTypeOK
<1>3. Counted' /\ InProgressOrdered'
  BY <1>0, <1>1 DEF Counted, ListedOnce, Queued, InProgressOrdered
<1>4. InProgressOwed'
  <2>1. Range(in_progress) \subseteq Messages
    BY <1>0 DEF Range
  <2> QED
    BY <1>0, <1>1, <2>1 DEF InProgressOwed
<1> QED
  BY <1>2, <1>3, <1>4 DEF RunInv

\* Steps of a queue that works as it should, until a freed list item is read.
LEMMA RunNextInv ==
  ASSUME RunInv, [Next]_vars
  PROVE  RunInv' \/ HaltInv'
<1>0. Typed /\ CallerTypeOK /\ in_progress \in Seq(Messages)
      /\ owed \in [Messages -> Nat] /\ pending \in Seq(Messages)
  BY DEF RunInv, Typed, CallerTypeOK
<1>1. ASSUME NEW m \in Messages, message_queue_add(m) PROVE RunInv'
  BY <1>1, AddInv
<1>2. ASSUME NEW m \in Messages, CompletedUnknown(m) PROVE RunInv'
  <2>1. owed[m] > 0 /\ owed' = [owed EXCEPT ![m] = @ - 1] /\ m \notin Range(in_progress)
    BY <1>2 DEF CompletedUnknown, ProcessorReports
  <2>2. owed[m] - 1 \in Nat
    BY <1>0, <2>1
  <2>3. /\ owed' \in [Messages -> Nat]
        /\ \A n \in Messages : n \in Range(in_progress) => owed'[n] = owed[n]
    BY <1>0, <2>1, <2>2
  <2>4. CallerTypeOK' /\ UNCHANGED <<lists, items, order, fired, outcome>>
    BY <1>0, <1>2, <2>3 DEF CallerTypeOK, CompletedUnknown, config, work
  <2> QED
    BY <2>3, <2>4, ControlStepInv
<1>3. ASSUME NEW result \in Reports, NEW i \in DOMAIN in_progress,
             CompletedRetry(i, result)
      PROVE  RunInv'
  BY <1>3, CompletedRetryInv
<1>a. ASSUME NEW result \in Reports, NEW i \in DOMAIN in_progress,
             CompletedRetryFails(i, result)
      PROVE  RunInv' \/ HaltInv'
  BY <1>a, RetryFailsInv
<1>4. ASSUME NEW result \in Reports, NEW i \in DOMAIN in_progress,
             CompletedFinal(i, result)
      PROVE  RunInv'
  BY <1>4, CompletedFinalInv
<1>5. CASE message_queue_do_work
  <2>1. CallerTypeOK' /\ UNCHANGED <<lists, items, order, fired, outcome>> /\ owed' = owed
    BY <1>0, <1>5 DEF CallerTypeOK, message_queue_do_work, config, history, Phases
  <2> QED
    BY <2>1, ControlStepInv
<1>6. CASE PendingTimeouts
  <2>1. CASE pending # <<>> /\ DequeuePending(1, "TIMEOUT") /\ UNCHANGED phase
    <3>1. CallerTypeOK' /\ order' = order /\ owed' = owed
      BY <1>0, <1>6, <2>1 DEF CallerTypeOK, PendingTimeouts, config
    <3> QED
      BY <2>1, <3>1, DequeuePendingInv
  <2>2. CASE phase' = "enqueued_timeouts" /\ UNCHANGED <<lists, items, fired, outcome>>
    <3>1. CallerTypeOK' /\ order' = order /\ owed' = owed
      BY <1>0, <1>6, <2>2 DEF CallerTypeOK, PendingTimeouts, config, Phases
    <3> QED
      BY <2>2, <3>1, ControlStepInv
  <2> QED
    BY <1>6, <2>1, <2>2 DEF PendingTimeouts
<1>7. CASE EnqueuedTimeouts
  <2>1. CASE cursor \in DOMAIN in_progress /\ DequeueInProgress(cursor, "TIMEOUT")
             /\ UNCHANGED <<phase, cursor>>
    <3>1. CallerTypeOK' /\ order' = order /\ owed' = owed
      BY <1>0, <1>7, <2>1 DEF CallerTypeOK, EnqueuedTimeouts, config
    <3>2. cursor \in 1..Len(in_progress)
      BY <1>0, <2>1
    <3> QED
      BY <2>1, <3>1, <3>2, DequeueInProgressInv
  <2>2. CASE (cursor' = cursor + 1 \/ cursor' = cursor)
             /\ (phase' = phase \/ phase' = "processing_timeouts")
             /\ UNCHANGED <<lists, items, fired, outcome>>
    <3>1. CallerTypeOK' /\ order' = order /\ owed' = owed
      BY <1>0, <1>7, <2>2 DEF CallerTypeOK, EnqueuedTimeouts, config, Phases
    <3> QED
      BY <2>2, <3>1, ControlStepInv
  <2> QED
    BY <1>7, <2>1, <2>2 DEF EnqueuedTimeouts
<1>8. CASE ProcessingTimeouts
  <2>1. CASE in_progress # <<>> /\ DequeueInProgress(1, "TIMEOUT") /\ UNCHANGED phase
    <3>1. CallerTypeOK' /\ order' = order /\ owed' = owed
      BY <1>0, <1>8, <2>1 DEF CallerTypeOK, ProcessingTimeouts, config
    <3>2. 1 \in 1..Len(in_progress)
      BY <1>0, <2>1, TailIsRemoveAt
    <3> QED
      BY <2>1, <3>1, <3>2, DequeueInProgressInv
  <2>2. CASE phase' = "dispatch" /\ UNCHANGED <<lists, items, fired, outcome>>
    <3>1. CallerTypeOK' /\ order' = order /\ owed' = owed
      BY <1>0, <1>8, <2>2 DEF CallerTypeOK, ProcessingTimeouts, config, Phases
    <3> QED
      BY <2>2, <3>1, ControlStepInv
  <2> QED
    BY <1>8, <2>1, <2>2 DEF ProcessingTimeouts
<1>9. CASE Dispatch
  BY <1>9, DispatchInv
<1>10. CASE DispatchFails
  <2>1. CallerTypeOK' /\ order' = order /\ owed' = owed
    BY <1>0, <1>10 DEF CallerTypeOK, DispatchFails, config, work
  <2>2. pending # <<>> /\ DequeuePending(1, "ERROR")
    BY <1>10 DEF DispatchFails
  <2> QED
    BY <2>1, <2>2, DequeuePendingInv
<1>11. CASE DispatchDone
  <2>1. CallerTypeOK' /\ UNCHANGED <<lists, items, order, fired, outcome>> /\ owed' = owed
    BY <1>0, <1>11 DEF CallerTypeOK, DispatchDone, config, history, Phases
  <2> QED
    BY <2>1, ControlStepInv
<1>12. CASE message_queue_remove_all
  <2>1. CallerTypeOK' /\ order' = order /\ RemoveAll
    BY <1>0, <1>12 DEF CallerTypeOK, message_queue_remove_all, config, work
  <2> QED
    BY <2>1, RemoveAllInv
<1>13. CASE message_queue_move_all_back_to_pending
  BY <1>13, MoveAllBackInv
<1>14. CASE message_queue_destroy
  <2>1. CallerTypeOK' /\ order' = order /\ RemoveAll
    BY <1>0, <1>14 DEF CallerTypeOK, message_queue_destroy, config, Phases
  <2> QED
    BY <2>1, RemoveAllInv
<1>15. CASE message_queue_set_option
  <2>1. CallerTypeOK' /\ UNCHANGED <<lists, items, order, fired, outcome>> /\ owed' = owed
    BY <1>0, <1>15 DEF CallerTypeOK, message_queue_set_option, work, history
  <2> QED
    BY <2>1, ControlStepInv
<1>16. CASE Tick
  BY <1>16, TickInv
<1>17. CASE UNCHANGED vars
  <2>1. CallerTypeOK' /\ UNCHANGED <<lists, items, order, fired, outcome>> /\ owed' = owed
    BY <1>0, <1>17 DEF CallerTypeOK, vars, lists, items
  <2> QED
    BY <2>1, ControlStepInv
<1> QED
  BY <1>1, <1>2, <1>3, <1>a, <1>4, <1>5, <1>6, <1>7, <1>8, <1>9, <1>10, <1>11, <1>12, <1>13,
     <1>14, <1>15, <1>16, <1>17
     DEF Next, DoWorkStep, on_process_message_completed_callback

\* Nothing happens after a freed list item was read.
LEMMA UndefinedStops ==
  ASSUME phase = "undefined", [Next]_vars
  PROVE  UNCHANGED vars
BY DEF Next, DoWorkStep, vars, message_queue_add, message_queue_do_work,
   on_process_message_completed_callback, CompletedUnknown, CompletedRetry, CompletedRetryFails,
   RetryFails, CompletedFinal, ProcessorReports, PendingTimeouts, EnqueuedTimeouts,
   ProcessingTimeouts, Dispatch, HandOver, DispatchFails, DispatchDone, message_queue_remove_all,
   message_queue_move_all_back_to_pending, message_queue_destroy, message_queue_set_option, Tick

\* While every result is known, the queue is sound as it is stated.
LEMMA RunIsSound ==
  ASSUME RunInv
  PROVE  QueueSound
<1>1. Typed /\ Counted /\ InProgressOrdered /\ InProgressOwed
  BY DEF RunInv
<1>2. TypeOK
  BY <1>1 DEF Typed, TypeOK
<1>3. Misread = {}
  BY <1>1 DEF Typed, Outcomes, Misread
<1>4. CompletedExactlyOnce
  BY <1>1, <1>3 DEF Counted, CompletedExactlyOnce
<1> QED
  BY <1>1, <1>2, <1>4 DEF QueueSound

\* Every step of the queue preserves the invariant.
LEMMA NextInv ==
  ASSUME QueueInv, [Next]_vars
  PROVE  QueueInv'
<1>1. CASE RunInv
  BY <1>1, RunNextInv DEF QueueInv
<1>2. CASE HaltInv
  <2>1. phase = "undefined" /\ QueueSound
    BY <1>2 DEF HaltInv
  <2>2. UNCHANGED vars
    BY <2>1, UndefinedStops
  <2>3. QueueSound'
    BY <2>1, <2>2 DEF vars, QueueSound, TypeOK, CompletedExactlyOnce, ListedOnce, Queued, Misread,
       InProgressOrdered, InProgressOwed
  <2> QED
    BY <2>1, <2>2, <2>3 DEF HaltInv, QueueInv, vars
<1> QED
  BY <1>1, <1>2 DEF QueueInv

\* QueueInv holds in every reachable state, for any messages, options and bounds.
THEOREM QueueInvariant == Spec => []QueueInv
<1>1. QueueInv /\ [Next]_vars => QueueInv'
  BY NextInv
<1>2. Init => QueueInv
  BY InitInv DEF QueueInv
<1> QED
  BY <1>1, <1>2, PTL DEF Spec

\* What holds of the queue between any two steps, for any messages, options and bounds.
THEOREM QueueIsSound == Spec => []QueueSound
<1>1. QueueInv => QueueSound
  BY RunIsSound DEF QueueInv, HaltInv
<1> QED
  BY QueueInvariant, <1>1, PTL

\* in_progress is ordered by processing start time.
THEOREM InProgressInOrder == Spec => []InProgressOrdered
<1>1. QueueSound => InProgressOrdered
  BY DEF QueueSound
<1> QED
  BY QueueIsSound, <1>1, PTL

\* The type invariant of the queue.
THEOREM TypeCorrect == Spec => []TypeOK
<1>1. QueueSound => TypeOK
  BY DEF QueueSound
<1> QED
  BY QueueIsSound, <1>1, PTL

\* Every message that message_queue_add accepted is queued and not yet reported, or
\* gone and reported exactly once.
THEOREM ExactlyOnce == Spec => []CompletedExactlyOnce
<1>1. QueueSound => CompletedExactlyOnce
  BY DEF QueueSound
<1> QED
  BY QueueIsSound, <1>1, PTL

\* The processor owes a report for every message in progress.
THEOREM NothingStranded == Spec => []InProgressOwed
<1>1. QueueSound => InProgressOwed
  BY DEF QueueSound
<1> QED
  BY QueueIsSound, <1>1, PTL

-----------------------------------------------------------------------------
(* The scan of process_timeouts *)

\* What the scan has established: the items of in_progress before the cursor have
\* not been in the queue for too long, and after the second loop none has.
Scanned ==
  /\ phase = "pending_timeouts" => cursor = 1
  /\ phase = "enqueued_timeouts" =>
       \A j \in DOMAIN in_progress : j < cursor => ~EnqueuedExpired(in_progress[j])
  /\ phase = "processing_timeouts" =>
       \A m \in Range(in_progress) : ~EnqueuedExpired(m)

\* Scanned is preserved: a completion callback may add messages during the scan,
\* but nothing in progress ages or joins until the scan is over.
LEMMA ScanInv ==
  ASSUME RunInv, Scanned, [Next]_vars
  PROVE  Scanned'
<1>0. Typed /\ Counted /\ ListedOnce /\ in_progress \in Seq(Messages)
      /\ IsInjective(in_progress)
      /\ enqueue_age \in [Messages -> 0..AgeCap] /\ cursor \in Nat \ {0}
      /\ DOMAIN in_progress = 1..Len(in_progress) /\ Len(in_progress) \in Nat
  BY DEF RunInv, Typed, Counted, ListedOnce
<1>1. ASSUME phase' \notin {"pending_timeouts", "enqueued_timeouts", "processing_timeouts"}
      PROVE  Scanned'
  BY <1>1 DEF Scanned
<1>2. ASSUME phase' = phase, cursor' = cursor, in_progress' = in_progress,
             max_message_enqueued_time_secs' = max_message_enqueued_time_secs,
             \A m \in Range(in_progress) : enqueue_age'[m] = enqueue_age[m]
      PROVE  Scanned'
  <2>1. \A m \in Range(in_progress) : EnqueuedExpired(m)' <=> EnqueuedExpired(m)
    BY <1>2 DEF EnqueuedExpired
  <2>2. \A j \in DOMAIN in_progress : in_progress[j] \in Range(in_progress)
    BY DEF Range
  <2> QED
    BY <1>2, <2>1, <2>2 DEF Scanned, EnqueuedExpired
<1>3. ASSUME NEW i \in 1..Len(in_progress), DequeueInProgress(i, "TIMEOUT"),
             max_message_enqueued_time_secs' = max_message_enqueued_time_secs
      PROVE  /\ Range(in_progress') \subseteq Range(in_progress)
             /\ \A m \in Range(in_progress') : EnqueuedExpired(m)' <=> EnqueuedExpired(m)
             /\ \A j \in DOMAIN in_progress' :
                  j < i => j \in DOMAIN in_progress /\ in_progress'[j] = in_progress[j]
  <2>1. in_progress' = RemoveAt(in_progress, i) /\ FreeItems({in_progress[i]})
    BY <1>3 DEF DequeueInProgress
  <2>2. /\ in_progress' \in Seq(Messages)
        /\ Len(in_progress') = Len(in_progress) - 1
        /\ \A j \in 1..(Len(in_progress) - 1) :
             in_progress'[j] = IF j < i THEN in_progress[j] ELSE in_progress[j + 1]
    BY <1>0, <2>1, RemoveAtElements
  <2>3. Range(in_progress') = Range(in_progress) \ {in_progress[i]}
    BY <1>0, <2>1, RemoveAtNoDuplicates
  <2>4. DOMAIN in_progress' = 1..(Len(in_progress) - 1)
    BY <1>0, <2>2
  <2>5. Range(in_progress) \subseteq Messages
    BY <1>0 DEF Range
  <2>6. \A m \in Range(in_progress') : enqueue_age'[m] = enqueue_age[m]
    BY <2>1, <2>3, <2>5 DEF FreeItems
  <2>7. \A m \in Range(in_progress') : EnqueuedExpired(m)' <=> EnqueuedExpired(m)
    BY <1>3, <2>6 DEF EnqueuedExpired
  <2>8. \A j \in DOMAIN in_progress' :
          j < i => j \in DOMAIN in_progress /\ in_progress'[j] = in_progress[j]
    BY <1>0, <2>2, <2>4, SMTT(30)
  <2> QED
    BY <2>3, <2>7, <2>8
<1>4. ASSUME NEW m \in Messages, message_queue_add(m) PROVE Scanned'
  <2>1. m \notin Range(in_progress)
    BY <1>0, <1>4 DEF message_queue_add, Counted, Queued
  <2>2. Range(in_progress) \subseteq Messages
    BY <1>0 DEF Range
  <2>3. \A n \in Range(in_progress) : enqueue_age'[n] = enqueue_age[n]
    BY <1>0, <1>4, <2>1, <2>2 DEF message_queue_add
  <2> QED
    BY <1>2, <1>4, <2>3 DEF message_queue_add, work, config
<1>5. ASSUME NEW result \in Reports, on_process_message_completed_callback(result)
      PROVE  Scanned'
  BY <1>1, <1>5 DEF on_process_message_completed_callback, CompletedUnknown,
     CompletedRetry, CompletedRetryFails, RetryFails, CompletedFinal, ProcessorReports, work
<1>6. CASE message_queue_do_work
  BY <1>6 DEF message_queue_do_work, Scanned
<1>7. CASE PendingTimeouts
  <2>1. CASE pending # <<>> /\ DequeuePending(1, "TIMEOUT") /\ UNCHANGED phase
    BY <1>7, <2>1 DEF PendingTimeouts, Scanned
  <2>2. CASE phase' = "enqueued_timeouts" /\ UNCHANGED <<lists, items, fired, outcome>>
    <3>1. cursor' = 1 /\ in_progress' = in_progress
      BY <1>7, <2>2 DEF PendingTimeouts, Scanned, lists
    <3>2. \A j \in DOMAIN in_progress : ~(j < 1)
      BY <1>0
    <3> QED
      BY <2>2, <3>1, <3>2 DEF Scanned
  <2> QED
    BY <1>7, <2>1, <2>2 DEF PendingTimeouts
<1>8. CASE EnqueuedTimeouts
  <2>0. /\ phase = "enqueued_timeouts"
        /\ max_message_enqueued_time_secs' = max_message_enqueued_time_secs
        /\ \A j \in DOMAIN in_progress : j < cursor => ~EnqueuedExpired(in_progress[j])
    BY <1>8 DEF EnqueuedTimeouts, Scanned, config
  <2>1. CASE cursor \in DOMAIN in_progress /\ DequeueInProgress(cursor, "TIMEOUT")
             /\ UNCHANGED <<phase, cursor>>
    <3>1. /\ \A m \in Range(in_progress') : EnqueuedExpired(m)' <=> EnqueuedExpired(m)
          /\ \A j \in DOMAIN in_progress' :
               j < cursor => j \in DOMAIN in_progress /\ in_progress'[j] = in_progress[j]
      BY <1>0, <1>3, <2>0, <2>1
    <3>2. \A j \in DOMAIN in_progress' : in_progress'[j] \in Range(in_progress')
      BY DEF Range
    <3>3. \A j \in DOMAIN in_progress' : j < cursor => ~EnqueuedExpired(in_progress[j])'
      BY <2>0, <3>1, <3>2 DEF EnqueuedExpired
    <3>4. phase' = "enqueued_timeouts" /\ cursor' = cursor
      BY <2>0, <2>1
    <3> QED
      BY <3>3, <3>4 DEF Scanned
  <2>2. CASE cursor \in DOMAIN in_progress /\ ~EnqueuedExpired(in_progress[cursor])
             /\ cursor' = cursor + 1 /\ UNCHANGED <<lists, items, fired, outcome, phase>>
    <3>1. \A j \in DOMAIN in_progress :
            j < cursor + 1 => ~EnqueuedExpired(in_progress[j])
      BY <1>0, <2>0, <2>2
    <3>2. in_progress' = in_progress /\ enqueue_age' = enqueue_age
          /\ phase' = "enqueued_timeouts"
      BY <2>0, <2>2 DEF lists, items
    <3> QED
      BY <2>0, <2>2, <3>1, <3>2 DEF Scanned, EnqueuedExpired
  <2>3. CASE cursor \notin DOMAIN in_progress /\ phase' = "processing_timeouts"
             /\ UNCHANGED <<lists, items, fired, outcome, cursor>>
    <3>1. \A j \in DOMAIN in_progress : j < cursor
      BY <1>0, <2>3
    <3>2. \A m \in Range(in_progress) : ~EnqueuedExpired(m)
      BY <2>0, <3>1 DEF Range
    <3>3. in_progress' = in_progress /\ enqueue_age' = enqueue_age
      BY <2>3 DEF lists, items
    <3> QED
      BY <2>0, <2>3, <3>2, <3>3 DEF Scanned, EnqueuedExpired
  <2> QED
    BY <1>8, <2>1, <2>2, <2>3 DEF EnqueuedTimeouts
<1>9. CASE ProcessingTimeouts
  <2>1. CASE in_progress # <<>> /\ DequeueInProgress(1, "TIMEOUT") /\ UNCHANGED phase
    <3>1. 1 \in 1..Len(in_progress)
      BY <1>0, <2>1, TailIsRemoveAt
    <3>2. /\ max_message_enqueued_time_secs' = max_message_enqueued_time_secs
          /\ phase = "processing_timeouts" /\ phase' = phase
          /\ \A m \in Range(in_progress) : ~EnqueuedExpired(m)
      BY <1>9, <2>1 DEF ProcessingTimeouts, config, Scanned
    <3>3. /\ Range(in_progress') \subseteq Range(in_progress)
          /\ \A m \in Range(in_progress') : EnqueuedExpired(m)' <=> EnqueuedExpired(m)
      BY <1>3, <2>1, <3>1, <3>2
    <3>4. \A m \in Range(in_progress') : ~EnqueuedExpired(m)'
      BY <3>2, <3>3
    <3> QED
      BY <3>2, <3>4 DEF Scanned
  <2>2. CASE phase' = "dispatch"
    BY <1>1, <2>2
  <2> QED
    BY <1>9, <2>1, <2>2 DEF ProcessingTimeouts
<1>10. CASE Dispatch \/ DispatchFails \/ DispatchDone
  BY <1>1, <1>10 DEF Dispatch, HandOver, DispatchFails, DispatchDone, work
<1>11. CASE message_queue_remove_all \/ message_queue_move_all_back_to_pending
            \/ message_queue_destroy \/ message_queue_set_option \/ Tick
  BY <1>1, <1>11 DEF message_queue_remove_all, message_queue_move_all_back_to_pending,
     message_queue_destroy, message_queue_set_option, Tick, work
<1>12. CASE UNCHANGED vars
  BY <1>2, <1>12 DEF vars
<1> QED
  BY <1>4, <1>5, <1>6, <1>7, <1>8, <1>9, <1>10, <1>11, <1>12 DEF Next, DoWorkStep

\* When process_timeouts returns, nothing expired is left in progress: the break of
\* its last loop at the first item that has not expired misses nothing.
THEOREM ScanMissesNothing == Spec => InProgressSwept
<1> DEFINE Swept == phase = "processing_timeouts" /\ phase' = "dispatch" =>
                 \A m \in Range(in_progress) : ~EnqueuedExpired(m) /\ ~ProcessingExpired(m)
<1>1. Init => Scanned
  BY DEF Init, Scanned
<1>2. QueueInv /\ Scanned /\ [Next]_vars => Scanned'
  <2>1. RunInv /\ Scanned /\ [Next]_vars => Scanned'
    BY ScanInv
  <2>2. HaltInv /\ Scanned /\ [Next]_vars => Scanned'
    BY UndefinedStops DEF HaltInv, vars, Scanned
  <2> QED
    BY <2>1, <2>2 DEF QueueInv
<1>3. ASSUME RunInv, Scanned, [Next]_vars, phase = "processing_timeouts", phase' = "dispatch"
      PROVE  \A m \in Range(in_progress) : ~EnqueuedExpired(m) /\ ~ProcessingExpired(m)
  <2>1. \A m \in Range(in_progress) : ~EnqueuedExpired(m)
    BY <1>3 DEF Scanned
  <2>2. ProcessingTimeouts
    BY <1>3 DEF Next, DoWorkStep, vars, message_queue_add, message_queue_do_work,
       on_process_message_completed_callback, CompletedUnknown, CompletedRetry,
       CompletedRetryFails, RetryFails, CompletedFinal, ProcessorReports, PendingTimeouts, EnqueuedTimeouts, Dispatch,
       HandOver, DispatchFails, DispatchDone, message_queue_remove_all,
       message_queue_move_all_back_to_pending, message_queue_destroy,
       message_queue_set_option, Tick, work
  <2>3. ~(in_progress # <<>> /\ ProcessingExpired(in_progress[1]))
    BY <1>3, <2>2 DEF ProcessingTimeouts
  <2>4. Typed /\ InProgressOrdered /\ in_progress \in Seq(Messages)
        /\ processing_age \in [Messages -> 0..AgeCap]
        /\ max_message_processing_time_secs \in Nat
    BY <1>3, QueueAssumption DEF RunInv, Typed
  <2>5. ASSUME NEW j \in DOMAIN in_progress PROVE ~ProcessingExpired(in_progress[j])
    <3>1. 1 \in DOMAIN in_progress /\ j \in Nat /\ 1 <= j /\ in_progress # <<>>
          /\ in_progress[1] \in Messages /\ in_progress[j] \in Messages
      BY <2>4, <2>5
    <3>2. processing_age[in_progress[1]] >= processing_age[in_progress[j]]
      <4>1. CASE j = 1
        BY <2>4, <3>1, <4>1
      <4>2. CASE 1 < j
        BY <2>4, <3>1, <4>2 DEF InProgressOrdered
      <4> QED
        BY <3>1, <4>1, <4>2
    <3>3. processing_age[in_progress[1]] \in Nat /\ processing_age[in_progress[j]] \in Nat
      BY <2>4, <3>1, QueueAssumption
    <3> QED
      BY <2>3, <2>4, <3>1, <3>2, <3>3 DEF ProcessingExpired
  <2>6. \A m \in Range(in_progress) : ~ProcessingExpired(m)
    BY <2>5 DEF Range
  <2> QED
    BY <2>1, <2>6
<1>4. QueueInv /\ Scanned /\ [Next]_vars => [Swept]_vars
  <2>1. RunInv /\ Scanned /\ [Next]_vars => [Swept]_vars
    BY <1>3
  <2>2. HaltInv /\ [Next]_vars => [Swept]_vars
    BY UndefinedStops DEF HaltInv
  <2> QED
    BY <2>1, <2>2 DEF QueueInv
<1>5. Spec => [][Swept]_vars
  BY QueueInvariant, <1>1, <1>2, <1>4, PTL DEF Spec
<1> QED
  BY <1>5 DEF InProgressSwept

-----------------------------------------------------------------------------
(* The order of first attempts *)

\* A message that is in progress was tried; those in pending that were not stand in the
\* order in which they were added.
AttemptsOrdered ==
  /\ IsInjective(order)
  /\ \A m \in Range(in_progress) : number_of_attempts[m] > 0
  /\ \A i, j \in DOMAIN pending, a, b \in DOMAIN order :
       /\ i < j /\ order[a] = pending[i] /\ order[b] = pending[j]
       /\ number_of_attempts[pending[i]] = 0 /\ number_of_attempts[pending[j]] = 0
       => a < b

\* The lists as sequences of messages: what the order of attempts needs of RunInv.
LEMMA ListFacts ==
  ASSUME RunInv
  PROVE  /\ Typed /\ Counted /\ ListedOnce
         /\ pending \in Seq(Messages) /\ in_progress \in Seq(Messages) /\ order \in Seq(Messages)
         /\ number_of_attempts \in [Messages -> Nat]
         /\ DOMAIN pending = 1..Len(pending) /\ Len(pending) \in Nat
         /\ DOMAIN in_progress = 1..Len(in_progress) /\ Len(in_progress) \in Nat
         /\ DOMAIN order = 1..Len(order) /\ Len(order) \in Nat
         /\ Range(pending) \subseteq Messages /\ Range(in_progress) \subseteq Messages
         /\ Range(pending) \subseteq Range(order)
<1>1. Typed /\ Counted /\ ListedOnce
  BY DEF RunInv, Counted
<1>2. /\ pending \in Seq(Messages) /\ in_progress \in Seq(Messages) /\ order \in Seq(Messages)
      /\ number_of_attempts \in [Messages -> Nat]
  BY <1>1 DEF Typed
<1>3. /\ DOMAIN pending = 1..Len(pending) /\ Len(pending) \in Nat
      /\ DOMAIN in_progress = 1..Len(in_progress) /\ Len(in_progress) \in Nat
      /\ DOMAIN order = 1..Len(order) /\ Len(order) \in Nat
  BY <1>2
<1>4. Range(pending) \subseteq Messages /\ Range(in_progress) \subseteq Messages
  BY <1>2 DEF Range
<1>5. Range(pending) \subseteq Range(order)
  BY <1>1 DEF Counted, Queued
<1> QED
  BY <1>1, <1>2, <1>3, <1>4, <1>5

\* A step keeps the order if the untried items of pending only move up or down together.
LEMMA ShiftKeepsAttempts ==
  ASSUME AttemptsOrdered, NEW k \in Int, order' = order,
         \A m \in Range(in_progress') : number_of_attempts'[m] > 0,
         DOMAIN pending \subseteq Int, DOMAIN pending' \subseteq Int,
         \A i \in DOMAIN pending' : number_of_attempts'[pending'[i]] = 0 =>
           /\ i + k \in DOMAIN pending /\ pending[i + k] = pending'[i]
           /\ number_of_attempts[pending'[i]] = 0
  PROVE  AttemptsOrdered'
<1>1. ASSUME NEW i \in DOMAIN pending', NEW j \in DOMAIN pending',
             NEW a \in DOMAIN order, NEW b \in DOMAIN order,
             i < j, order[a] = pending'[i], order[b] = pending'[j],
             number_of_attempts'[pending'[i]] = 0, number_of_attempts'[pending'[j]] = 0
      PROVE  a < b
  <2>1. i + k \in DOMAIN pending /\ pending[i + k] = pending'[i]
        /\ number_of_attempts[pending'[i]] = 0
    BY <1>1
  <2>2. j + k \in DOMAIN pending /\ pending[j + k] = pending'[j]
        /\ number_of_attempts[pending'[j]] = 0
    BY <1>1
  <2>3. i + k < j + k
    BY <1>1
  <2> QED
    BY <1>1, <2>1, <2>2, <2>3 DEF AttemptsOrdered
<1> QED
  BY <1>1 DEF AttemptsOrdered

\* Taking an item out of either list, or flushing both, keeps the order.
LEMMA DequeueKeepsAttempts ==
  ASSUME RunInv, AttemptsOrdered, order' = order,
         \/ pending # <<>> /\ \E result \in {"TIMEOUT", "ERROR"} : DequeuePending(1, result)
         \/ \E i \in 1..Len(in_progress),
               result \in {"SUCCESS", "ERROR", "RETRYABLE_ERROR", "TIMEOUT"} :
              DequeueInProgress(i, result)
         \/ RemoveAll
  PROVE  AttemptsOrdered'
<1>0. /\ Typed /\ Counted /\ ListedOnce
      /\ pending \in Seq(Messages) /\ in_progress \in Seq(Messages) /\ order \in Seq(Messages)
      /\ number_of_attempts \in [Messages -> Nat]
      /\ DOMAIN pending = 1..Len(pending) /\ Len(pending) \in Nat
      /\ DOMAIN in_progress = 1..Len(in_progress) /\ Len(in_progress) \in Nat
      /\ DOMAIN order = 1..Len(order) /\ Len(order) \in Nat
      /\ Range(pending) \subseteq Messages /\ Range(in_progress) \subseteq Messages
      /\ Range(pending) \subseteq Range(order)
  BY ListFacts
<1>z. DOMAIN pending \subseteq Int /\ 1 \in Int /\ 0 \in Int
  BY <1>0
<1>1. ASSUME pending # <<>>, NEW result \in {"TIMEOUT", "ERROR"}, DequeuePending(1, result)
      PROVE  AttemptsOrdered'
  <2>1. /\ pending' = RemoveAt(pending, 1) /\ in_progress' = in_progress
        /\ FreeItems({pending[1]}) /\ 1 \in 1..Len(pending)
    BY <1>0, <1>1 DEF DequeuePending
  <2>2. /\ pending' \in Seq(Messages) /\ Len(pending') = Len(pending) - 1
        /\ \A j \in 1..(Len(pending) - 1) : pending'[j] = pending[j + 1]
        /\ Range(pending') = Range(pending) \ {pending[1]}
    <3>1. /\ RemoveAt(pending, 1) \in Seq(Messages) /\ Len(RemoveAt(pending, 1)) = Len(pending) - 1
          /\ \A j \in 1..(Len(pending) - 1) :
               RemoveAt(pending, 1)[j] = IF j < 1 THEN pending[j] ELSE pending[j + 1]
      BY <1>0, <2>1, RemoveAtElements, Zenon
    <3>2. Range(RemoveAt(pending, 1)) = Range(pending) \ {pending[1]}
      BY <1>0, <2>1, RemoveAtNoDuplicates DEF ListedOnce
    <3>3. \A j \in 1..(Len(pending) - 1) : ~(j < 1)
      BY <1>0
    <3> QED
      BY <2>1, <3>1, <3>2, <3>3
  <2>3. DOMAIN pending' = 1..(Len(pending) - 1) /\ DOMAIN pending' \subseteq Int
    BY <1>0, <2>2
  <2>4. pending[1] \in Range(pending)
    BY <1>0, <2>1 DEF Range
  <2>5. \A m \in Messages : m # pending[1] => number_of_attempts'[m] = number_of_attempts[m]
    BY <2>1 DEF FreeItems
  <2>6. \A m \in Range(in_progress') : number_of_attempts'[m] > 0
    BY <1>0, <2>1, <2>4, <2>5 DEF ListedOnce, AttemptsOrdered
  <2>7. \A j \in DOMAIN pending' :
          /\ j + 1 \in DOMAIN pending /\ pending[j + 1] = pending'[j]
          /\ pending'[j] \in Messages /\ pending'[j] # pending[1]
    <3> TAKE j \in DOMAIN pending'
    <3>1. pending'[j] \in Range(pending')
      BY DEF Range
    <3>2. j \in 1..(Len(pending) - 1) /\ j + 1 \in 1..Len(pending)
      BY <1>0, <2>3
    <3> QED
      BY <1>0, <2>2, <3>1, <3>2
  <2>8. \A j \in DOMAIN pending' : number_of_attempts'[pending'[j]] = 0 =>
          /\ j + 1 \in DOMAIN pending /\ pending[j + 1] = pending'[j]
          /\ number_of_attempts[pending'[j]] = 0
    BY <2>5, <2>7
  <2> QED
    BY <1>z, <2>3, <2>6, <2>8, ShiftKeepsAttempts
<1>2. ASSUME NEW i \in 1..Len(in_progress),
             NEW result \in {"SUCCESS", "ERROR", "RETRYABLE_ERROR", "TIMEOUT"},
             DequeueInProgress(i, result)
      PROVE  AttemptsOrdered'
  <2>1. /\ in_progress' = RemoveAt(in_progress, i) /\ pending' = pending
        /\ FreeItems({in_progress[i]})
    BY <1>2 DEF DequeueInProgress
  <2>2. Range(in_progress') = Range(in_progress) \ {in_progress[i]}
    BY <1>0, <2>1, RemoveAtNoDuplicates DEF ListedOnce
  <2>3. in_progress[i] \in Range(in_progress)
    BY <1>0 DEF Range
  <2>4. \A m \in Messages : m # in_progress[i] => number_of_attempts'[m] = number_of_attempts[m]
    BY <2>1 DEF FreeItems
  <2>5. \A m \in Range(in_progress') : number_of_attempts'[m] > 0
    BY <1>0, <2>2, <2>4 DEF AttemptsOrdered
  <2>6. \A j \in DOMAIN pending : pending[j] \in Range(pending)
    BY DEF Range
  <2>7. \A j \in DOMAIN pending : number_of_attempts'[pending[j]] = number_of_attempts[pending[j]]
    BY <1>0, <2>3, <2>4, <2>6 DEF ListedOnce
  <2>8. \A j \in DOMAIN pending' : number_of_attempts'[pending'[j]] = 0 =>
          /\ j + 0 \in DOMAIN pending /\ pending[j + 0] = pending'[j]
          /\ number_of_attempts[pending'[j]] = 0
    <3>1. \A j \in DOMAIN pending : j + 0 = j
      BY <1>0
    <3> QED
      BY <2>1, <2>7, <3>1
  <2> QED
    BY <1>z, <2>1, <2>5, <2>8, ShiftKeepsAttempts
<1>3. CASE RemoveAll
  <2>1. pending' = <<>> /\ in_progress' = <<>>
    BY <1>3 DEF RemoveAll
  <2>2. DOMAIN pending' = {} /\ Range(in_progress') = {}
    BY <2>1 DEF Range
  <2> QED
    BY <2>2 DEF AttemptsOrdered
<1> QED
  BY <1>1, <1>2, <1>3

\* Every step keeps the untried messages of pending in the order they were added in.
LEMMA AttemptsInv ==
  ASSUME RunInv, AttemptsOrdered, [Next]_vars
  PROVE  AttemptsOrdered'
<1>0. /\ Typed /\ Counted /\ ListedOnce
      /\ pending \in Seq(Messages) /\ in_progress \in Seq(Messages) /\ order \in Seq(Messages)
      /\ number_of_attempts \in [Messages -> Nat]
      /\ DOMAIN pending = 1..Len(pending) /\ Len(pending) \in Nat
      /\ DOMAIN in_progress = 1..Len(in_progress) /\ Len(in_progress) \in Nat
      /\ DOMAIN order = 1..Len(order) /\ Len(order) \in Nat
      /\ Range(pending) \subseteq Messages /\ Range(in_progress) \subseteq Messages
      /\ Range(pending) \subseteq Range(order)
  BY ListFacts
<1>z. DOMAIN pending \subseteq Int /\ 1 \in Int /\ 0 \in Int
  BY <1>0
<1>1. ASSUME UNCHANGED <<lists, number_of_attempts, order>> PROVE AttemptsOrdered'
  BY <1>1 DEF AttemptsOrdered, lists
<1>2. ASSUME NEW m \in Messages, message_queue_add(m) PROVE AttemptsOrdered'
  <2>1. /\ m \notin Range(order) /\ pending' = Append(pending, m) /\ order' = Append(order, m)
        /\ in_progress' = in_progress /\ number_of_attempts' = number_of_attempts
    BY <1>2 DEF message_queue_add
  <2>2. IsInjective(order')
    BY <1>0, <2>1, AppendNoDuplicates DEF AttemptsOrdered
  <2>3. /\ DOMAIN pending' = 1..(Len(pending) + 1) /\ pending'[Len(pending) + 1] = m
        /\ \A i \in DOMAIN pending : pending'[i] = pending[i]
        /\ DOMAIN order' = 1..(Len(order) + 1) /\ order'[Len(order) + 1] = m
        /\ \A a \in DOMAIN order : order'[a] = order[a]
    BY <1>0, <2>1
  <2>4. ASSUME NEW i \in DOMAIN pending', NEW j \in DOMAIN pending',
               NEW a \in DOMAIN order', NEW b \in DOMAIN order',
               i < j, order'[a] = pending'[i], order'[b] = pending'[j],
               number_of_attempts'[pending'[i]] = 0, number_of_attempts'[pending'[j]] = 0
        PROVE  a < b
    <3>1. i \in DOMAIN pending /\ pending'[i] = pending[i] /\ pending[i] \in Range(order)
      <4>1. i \in DOMAIN pending
        BY <1>0, <2>3, <2>4
      <4> QED
        BY <1>0, <2>3, <4>1 DEF Range
    <3>2. a \in DOMAIN order /\ order'[a] = order[a]
      BY <1>0, <2>1, <2>3, <2>4, <3>1
    <3>3. CASE j = Len(pending) + 1
      <4>1. b \notin DOMAIN order
        BY <2>1, <2>3, <2>4, <3>3 DEF Range
      <4> QED
        BY <1>0, <2>3, <3>2, <4>1
    <3>4. CASE j \in DOMAIN pending
      <4>1. pending'[j] = pending[j] /\ pending[j] \in Range(order)
        BY <1>0, <2>3, <3>4 DEF Range
      <4>2. b \in DOMAIN order /\ order'[b] = order[b]
        BY <1>0, <2>1, <2>3, <2>4, <4>1
      <4> QED
        BY <2>1, <2>4, <3>1, <3>2, <3>4, <4>1, <4>2 DEF AttemptsOrdered
    <3> QED
      BY <1>0, <2>3, <3>3, <3>4
  <2> QED
    BY <2>1, <2>2, <2>4 DEF AttemptsOrdered
<1>3. ASSUME NEW result \in Reports, NEW i \in DOMAIN in_progress, CompletedRetry(i, result)
      PROVE  AttemptsOrdered'
  <2>1. /\ in_progress' = RemoveAt(in_progress, i) /\ pending' = Append(pending, in_progress[i])
        /\ number_of_attempts' = number_of_attempts /\ order' = order
    BY <1>3 DEF CompletedRetry, items
  <2>2. /\ Range(in_progress') = Range(in_progress) \ {in_progress[i]}
        /\ in_progress[i] \in Range(in_progress)
    BY <1>0, <2>1, RemoveAtNoDuplicates DEF ListedOnce, Range
  <2>3. number_of_attempts[in_progress[i]] > 0 /\ in_progress[i] \in Messages
    BY <1>0, <2>2 DEF AttemptsOrdered
  <2>4. /\ DOMAIN pending' = 1..(Len(pending) + 1) /\ pending'[Len(pending) + 1] = in_progress[i]
        /\ \A j \in DOMAIN pending : pending'[j] = pending[j]
    BY <1>0, <2>1, <2>3
  <2>5. \A m \in Range(in_progress') : number_of_attempts'[m] > 0
    BY <2>1, <2>2 DEF AttemptsOrdered
  <2>6. \A j \in DOMAIN pending' : number_of_attempts'[pending'[j]] = 0 =>
          /\ j + 0 \in DOMAIN pending /\ pending[j + 0] = pending'[j]
          /\ number_of_attempts[pending'[j]] = 0
    BY <1>0, <2>1, <2>3, <2>4
  <2> QED
    <3>1. DOMAIN pending' \subseteq Int
      BY <1>0, <2>4
    <3> QED
      BY <1>z, <2>1, <2>5, <2>6, <3>1, ShiftKeepsAttempts
<1>4. ASSUME NEW result \in Reports, NEW i \in DOMAIN in_progress, CompletedFinal(i, result)
      PROVE  AttemptsOrdered'
  <2>1. result \in {"SUCCESS", "ERROR", "RETRYABLE_ERROR", "TIMEOUT"}
    BY QueueAssumption
  <2> QED
    BY <1>0, <1>4, <2>1, DequeueKeepsAttempts DEF CompletedFinal
<1>a. ASSUME NEW result \in Reports, NEW i \in DOMAIN in_progress, CompletedRetryFails(i, result)
      PROVE  AttemptsOrdered'
  <2>1. result \in {"SUCCESS", "ERROR", "RETRYABLE_ERROR", "TIMEOUT"} /\ i \in 1..Len(in_progress)
    BY <1>0, QueueAssumption
  <2>2. order' = order
    BY <1>a DEF CompletedRetryFails, RetryFails
  <2>3. CASE DequeueInProgress(i, result)
    BY <2>1, <2>2, <2>3, DequeueKeepsAttempts
  <2>4. CASE in_progress' = RemoveAt(in_progress, i) /\ UNCHANGED <<pending, items>>
    <3>1. Range(in_progress') = Range(in_progress) \ {in_progress[i]}
      BY <1>0, <2>1, <2>4, RemoveAtNoDuplicates DEF ListedOnce
    <3> QED
      BY <2>2, <2>4, <3>1 DEF AttemptsOrdered, items
  <2> QED
    BY <1>a, <2>3, <2>4 DEF CompletedRetryFails
<1>5. CASE PendingTimeouts \/ DispatchFails
  <2>1. order' = order
    BY <1>5 DEF PendingTimeouts, DispatchFails
  <2>2. CASE pending # <<>> /\ \E result \in {"TIMEOUT", "ERROR"} : DequeuePending(1, result)
    BY <2>1, <2>2, DequeueKeepsAttempts
  <2>3. CASE UNCHANGED <<lists, items>>
    BY <1>1, <2>1, <2>3 DEF items
  <2> QED
    BY <1>5, <2>2, <2>3 DEF PendingTimeouts, DispatchFails
<1>6. CASE EnqueuedTimeouts
  <2>1. order' = order
    BY <1>6 DEF EnqueuedTimeouts
  <2>2. CASE cursor \in DOMAIN in_progress /\ DequeueInProgress(cursor, "TIMEOUT")
    BY <1>0, <2>1, <2>2, DequeueKeepsAttempts
  <2>3. CASE UNCHANGED <<lists, items>>
    BY <1>1, <2>1, <2>3 DEF items
  <2> QED
    BY <1>6, <2>2, <2>3 DEF EnqueuedTimeouts
<1>7. CASE ProcessingTimeouts
  <2>1. order' = order
    BY <1>7 DEF ProcessingTimeouts
  <2>2. CASE in_progress # <<>> /\ DequeueInProgress(1, "TIMEOUT")
    <3>1. 1 \in 1..Len(in_progress)
      BY <1>0, <2>2
    <3> QED
      BY <2>1, <2>2, <3>1, DequeueKeepsAttempts
  <2>3. CASE UNCHANGED <<lists, items>>
    BY <1>1, <2>1, <2>3 DEF items
  <2> QED
    BY <1>7, <2>2, <2>3 DEF ProcessingTimeouts
<1>8. CASE Dispatch
  <2> DEFINE m == Head(pending)
  <2>1. /\ pending # <<>> /\ pending' = Tail(pending) /\ in_progress' = Append(in_progress, m)
        /\ order' = order /\ m = pending[1] /\ m \in Messages /\ 1 \in 1..Len(pending)
        /\ number_of_attempts' = [number_of_attempts EXCEPT ![m] = @ + 1]
    BY <1>0, <1>8 DEF Dispatch, HandOver
  <2>2. Range(in_progress') = Range(in_progress) \cup {m}
    BY <1>0, <2>1, AppendNoDuplicates
  <2>3. \A n \in Range(in_progress') : number_of_attempts'[n] > 0
    <3>1. number_of_attempts'[m] > 0
      BY <1>0, <2>1
    <3>2. \A n \in Messages : number_of_attempts'[n] >= number_of_attempts[n]
      BY <1>0, <2>1
    <3>3. \A n \in Range(in_progress) : n \in Messages /\ number_of_attempts[n] > 0
      BY <1>0 DEF AttemptsOrdered
    <3>4. number_of_attempts' \in [Messages -> Nat]
      BY <1>0, <2>1
    <3> QED
      BY <1>0, <2>2, <3>1, <3>2, <3>3, <3>4
  <2>4. /\ DOMAIN pending' = 1..(Len(pending) - 1)
        /\ \A j \in DOMAIN pending' : j + 1 \in DOMAIN pending /\ pending'[j] = pending[j + 1]
    <3>1. /\ Len(Tail(pending)) = Len(pending) - 1 /\ Tail(pending) \in Seq(Messages)
          /\ \A j \in 1..(Len(pending) - 1) : Tail(pending)[j] = pending[j + 1]
      BY <1>0, <2>1, HeadTailProperties
    <3> QED
      BY <1>0, <2>1, <3>1
  <2>5. \A n \in Messages : number_of_attempts'[n] = 0 => number_of_attempts[n] = 0
    BY <1>0, <2>1
  <2>6. \A j \in DOMAIN pending' : number_of_attempts'[pending'[j]] = 0 =>
          /\ j + 1 \in DOMAIN pending /\ pending[j + 1] = pending'[j]
          /\ number_of_attempts[pending'[j]] = 0
    <3>1. \A j \in DOMAIN pending' : pending'[j] \in Messages
      BY <1>0, <2>4
    <3> QED
      BY <2>4, <2>5, <3>1
  <2>7. DOMAIN pending' \subseteq Int
    BY <1>0, <2>4
  <2> QED
    BY <1>z, <2>1, <2>3, <2>6, <2>7, ShiftKeepsAttempts
<1>9. CASE message_queue_remove_all \/ message_queue_destroy
  BY <1>9, DequeueKeepsAttempts DEF message_queue_remove_all, message_queue_destroy
<1>10. CASE message_queue_move_all_back_to_pending
  <2>1. CASE RemoveAll
    BY <1>10, <2>1, DequeueKeepsAttempts DEF message_queue_move_all_back_to_pending
  <2>2. CASE pending' = in_progress \o pending /\ in_progress' = <<>>
             /\ UNCHANGED <<items, fired, outcome>>
    <3>1. /\ DOMAIN pending' = 1..(Len(in_progress) + Len(pending))
          /\ \A j \in 1..Len(in_progress) : pending'[j] = in_progress[j]
          /\ \A j \in (Len(in_progress) + 1)..(Len(in_progress) + Len(pending)) :
               pending'[j] = pending[j - Len(in_progress)]
      BY <1>0, <2>2
    <3>2. Range(in_progress') = {} /\ number_of_attempts' = number_of_attempts /\ order' = order
      BY <1>10, <2>2 DEF Range, items, message_queue_move_all_back_to_pending
    <3>3. \A j \in 1..Len(in_progress) : number_of_attempts[in_progress[j]] > 0
      BY <1>0 DEF AttemptsOrdered, Range
    <3>4. - Len(in_progress) \in Int
      BY <1>0
    <3>5. \A j \in DOMAIN pending' : number_of_attempts'[pending'[j]] = 0 =>
            /\ j + (- Len(in_progress)) \in DOMAIN pending
            /\ pending[j + (- Len(in_progress))] = pending'[j]
            /\ number_of_attempts[pending'[j]] = 0
      <4> TAKE j \in DOMAIN pending'
      <4> HAVE number_of_attempts'[pending'[j]] = 0
      <4>1. j \notin 1..Len(in_progress)
        BY <1>0, <3>1, <3>2, <3>3
      <4>2. j \in (Len(in_progress) + 1)..(Len(in_progress) + Len(pending))
        BY <1>0, <3>1, <4>1
      <4>3. j + (- Len(in_progress)) = j - Len(in_progress)
            /\ j - Len(in_progress) \in 1..Len(pending)
        BY <1>0, <4>2
      <4> QED
        BY <1>0, <3>1, <3>2, <4>2, <4>3
    <3>6. DOMAIN pending \subseteq Int /\ DOMAIN pending' \subseteq Int
      BY <1>0, <3>1
    <3> QED
      BY <3>2, <3>4, <3>5, <3>6, ShiftKeepsAttempts
  <2> QED
    BY <1>10, <2>1, <2>2 DEF message_queue_move_all_back_to_pending
<1>11. CASE \/ message_queue_do_work \/ DispatchDone \/ message_queue_set_option \/ Tick
            \/ UNCHANGED vars \/ \E m \in Messages : CompletedUnknown(m)
  BY <1>1, <1>11 DEF message_queue_do_work, DispatchDone, message_queue_set_option, Tick, vars,
     CompletedUnknown, items, lists, history
<1> QED
  BY <1>2, <1>3, <1>a, <1>4, <1>5, <1>6, <1>7, <1>8, <1>9, <1>10, <1>11
     DEF Next, DoWorkStep, on_process_message_completed_callback

\* No message is tried for the first time while one added before it waits untried.
THEOREM FirstAttemptsOrdered == Spec => FirstAttemptsInOrder
<1> DEFINE InOrder == \A i, j \in DOMAIN order :
             i < j /\ number_of_attempts[order[j]] = 0 /\ number_of_attempts'[order[j]] = 1
               => number_of_attempts[order[i]] > 0 \/ fired[order[i]] > 0
<1>1. Init => AttemptsOrdered
  BY DEF Init, AttemptsOrdered, IsInjective, Range
<1>2. QueueInv /\ AttemptsOrdered /\ [Next]_vars => AttemptsOrdered'
  <2>1. RunInv /\ AttemptsOrdered /\ [Next]_vars => AttemptsOrdered'
    BY AttemptsInv
  <2>2. HaltInv /\ AttemptsOrdered /\ [Next]_vars => AttemptsOrdered'
    BY UndefinedStops DEF HaltInv, vars, AttemptsOrdered
  <2> QED
    BY <2>1, <2>2 DEF QueueInv
<1>3. ASSUME RunInv, AttemptsOrdered, [Next]_vars, NEW i \in DOMAIN order, NEW j \in DOMAIN order,
             i < j, number_of_attempts[order[j]] = 0, number_of_attempts'[order[j]] = 1,
             ~(number_of_attempts[order[i]] > 0), ~(fired[order[i]] > 0)
      PROVE  FALSE
  <2> DEFINE m == order[j]
             n == order[i]
  <2>0. /\ Counted /\ pending \in Seq(Messages) /\ order \in Seq(Messages)
        /\ number_of_attempts \in [Messages -> Nat]
        /\ DOMAIN pending = 1..Len(pending) /\ Len(pending) \in Nat
        /\ DOMAIN order = 1..Len(order) /\ Len(order) \in Nat
        /\ in_progress \in Seq(Messages)
    BY <1>3, ListFacts
  <2>1. m \in Messages /\ n \in Messages /\ i \in Nat /\ j \in Nat
    BY <2>0
  <2>2. Dispatch
    <3>1. ASSUME FreeItems({}) \/ \E S : FreeItems(S) PROVE FALSE
      BY <1>3, <2>1, <3>1 DEF FreeItems
    <3>2. number_of_attempts' # number_of_attempts
      BY <1>3
    <3> QED
      BY <1>3, <3>1, <3>2 DEF Next, DoWorkStep, vars, items, message_queue_add,
         message_queue_do_work, on_process_message_completed_callback, CompletedUnknown,
         CompletedRetry, CompletedRetryFails, CompletedFinal, PendingTimeouts, EnqueuedTimeouts,
         ProcessingTimeouts,
         DispatchFails, DispatchDone, message_queue_remove_all,
         message_queue_move_all_back_to_pending, message_queue_destroy,
         message_queue_set_option, Tick, DequeuePending, DequeueInProgress, RemoveAll
  <2>3. m = pending[1] /\ 1 \in DOMAIN pending
    <3>1. /\ pending # <<>> /\ Head(pending) = pending[1] /\ pending[1] \in Messages
          /\ number_of_attempts' = [number_of_attempts EXCEPT ![Head(pending)] = @ + 1]
      BY <2>0, <2>2 DEF Dispatch, HandOver
    <3>2. m = Head(pending)
      BY <1>3, <2>0, <2>1, <3>1
    <3> QED
      BY <2>0, <3>1, <3>2
  <2>4. number_of_attempts[n] = 0 /\ n \in Range(order)
    BY <1>3, <2>0, <2>1 DEF Range
  <2>5. n \in Queued
    BY <1>3, <2>0, <2>1, <2>4 DEF Counted
  <2>6. n \notin Range(in_progress)
    BY <1>3, <2>4 DEF AttemptsOrdered
  <2>7. PICK k \in DOMAIN pending : pending[k] = n
    BY <2>5, <2>6 DEF Queued, Range
  <2>8. k # 1
    BY <1>3, <2>0, <2>1, <2>3, <2>7 DEF AttemptsOrdered, IsInjective
  <2>9. 1 < k
    BY <2>0, <2>7, <2>8
  <2>10. j < i
    BY <1>3, <2>3, <2>4, <2>7, <2>9 DEF AttemptsOrdered
  <2> QED
    BY <1>3, <2>1, <2>10
<1>4. ASSUME RunInv, AttemptsOrdered, [Next]_vars
      PROVE  InOrder
  BY <1>3, <1>4
<1>5. QueueInv /\ AttemptsOrdered /\ [Next]_vars => [InOrder]_vars
  <2>1. RunInv /\ AttemptsOrdered /\ [Next]_vars => [InOrder]_vars
    BY <1>4
  <2>2. HaltInv /\ [Next]_vars => [InOrder]_vars
    BY UndefinedStops DEF HaltInv
  <2> QED
    BY <2>1, <2>2 DEF QueueInv
<1>6. Spec => [][InOrder]_vars
  BY QueueInvariant, <1>1, <1>2, <1>5, PTL DEF Spec
<1> QED
  BY <1>6 DEF FirstAttemptsInOrder

\* What no step of process_timeouts and of process_pending_messages may do.
THEOREM QueueIsOrdered == Spec => QueueOrdered
BY ScanMissesNothing, FirstAttemptsOrdered DEF QueueOrdered

-----------------------------------------------------------------------------
(* The queue delivers: a message that message_queue_add accepted is settled *)
(* with one outcome, once.                                                   *)

FinalOutcomes == Outcomes \ {"none"}

\* The part of the queue that its owner sees of a message.  One whose freed list item was read
\* and lost is not settled: its owner waits for it.
messageStatus ==
  [m \in Messages |-> IF m \notin Range(order) THEN "new"
                      ELSE IF m \in Queued \cup Misread THEN "held" ELSE outcome[m]]

QueueDelivery == INSTANCE Delivery WITH Outcomes <- FinalOutcomes, status <- messageStatus

QueueDelivers == QueueDelivery!Spec

\* Firing the callbacks of the messages that leave the queue settles them.
LEMMA LeavingSettles ==
  ASSUME RunInv, NEW S, S \subseteq Queued, Queued' = Queued \ S, order' = order,
         \A m \in S : outcome'[m] \in FinalOutcomes,
         \A m \in Messages \ S : outcome'[m] = outcome[m]
  PROVE  QueueDelivery!Next
<1>1. Queued \subseteq Range(order) /\ Queued \subseteq Messages
  BY ListFacts DEF Counted, Queued
<1>m. Misread = {} /\ Misread' = {}
  <2>1. outcome \in [Messages -> Outcomes] /\ "unknown" \notin Outcomes
    BY DEF RunInv, Typed, Outcomes
  <2>2. \A m \in Messages : outcome[m] # "unknown" /\ outcome'[m] # "unknown"
    BY <2>1 DEF FinalOutcomes
  <2> QED
    BY <2>2 DEF Misread
<1>2. S \in SUBSET Messages
  BY <1>1
<1>3. \A m \in S : messageStatus[m] = "held"
  BY <1>1, <1>2 DEF messageStatus
<1>4. [m \in S |-> outcome'[m]] \in [S -> FinalOutcomes]
  OBVIOUS
<1>5. messageStatus' = [m \in Messages |-> IF m \in S THEN [n \in S |-> outcome'[n]][m]
                                           ELSE messageStatus[m]]
  <2>1. ASSUME NEW m \in Messages
        PROVE  (IF m \notin Range(order') THEN "new"
                ELSE IF m \in Queued' \cup Misread' THEN "held" ELSE outcome'[m])
               = IF m \in S THEN [n \in S |-> outcome'[n]][m] ELSE messageStatus[m]
    BY <1>1, <1>m, <2>1 DEF messageStatus
  <2> QED
    BY <2>1 DEF messageStatus
<1>6. QueueDelivery!Settle(S)
  BY <1>3, <1>4, <1>5 DEF QueueDelivery!Settle
<1> QED
  BY <1>2, <1>6 DEF QueueDelivery!Next

\* dequeue_message_and_fire_callback and message_queue_remove_all settle what they remove.
LEMMA DequeueSettles ==
  ASSUME RunInv, order' = order,
         \/ pending # <<>> /\ \E result \in {"TIMEOUT", "ERROR"} : DequeuePending(1, result)
         \/ \E i \in 1..Len(in_progress),
               result \in {"SUCCESS", "ERROR", "RETRYABLE_ERROR", "TIMEOUT"} :
              DequeueInProgress(i, result)
         \/ RemoveAll
  PROVE  QueueDelivery!Next
<1>0. /\ ListedOnce /\ outcome \in [Messages -> Outcomes]
      /\ pending \in Seq(Messages) /\ in_progress \in Seq(Messages)
      /\ DOMAIN pending = 1..Len(pending) /\ Len(pending) \in Nat
      /\ DOMAIN in_progress = 1..Len(in_progress) /\ Len(in_progress) \in Nat
      /\ Range(pending) \subseteq Messages /\ Range(in_progress) \subseteq Messages
  BY ListFacts DEF Typed
<1>1. ASSUME pending # <<>>, NEW result \in {"TIMEOUT", "ERROR"}, DequeuePending(1, result)
      PROVE  QueueDelivery!Next
  <2>1. 1 \in 1..Len(pending) /\ pending[1] \in Range(pending)
    BY <1>0, <1>1 DEF Range
  <2>2. Range(pending') = Range(pending) \ {pending[1]} /\ in_progress' = in_progress
    BY <1>0, <1>1, <2>1, RemoveAtNoDuplicates DEF DequeuePending, ListedOnce
  <2>3. Queued' = Queued \ {pending[1]} /\ {pending[1]} \subseteq Queued
    BY <1>0, <2>1, <2>2 DEF Queued, ListedOnce
  <2> DEFINE S == {pending[1]}
  <2>4. (\A m \in {pending[1]} : outcome'[m] \in FinalOutcomes)
        /\ \A m \in Messages \ {pending[1]} : outcome'[m] = outcome[m]
    BY <1>0, <1>1, <2>1 DEF DequeuePending, fire_message_callback, FinalOutcomes, Outcomes
  <2>5. /\ S \subseteq Queued /\ Queued' = Queued \ S
        /\ \A m \in S : outcome'[m] \in FinalOutcomes
        /\ \A m \in Messages \ S : outcome'[m] = outcome[m]
    BY <2>3, <2>4
  <2> HIDE DEF S
  <2> QED
    BY <2>5, LeavingSettles
<1>2. ASSUME NEW i \in 1..Len(in_progress),
             NEW result \in {"SUCCESS", "ERROR", "RETRYABLE_ERROR", "TIMEOUT"},
             DequeueInProgress(i, result)
      PROVE  QueueDelivery!Next
  <2>1. in_progress[i] \in Range(in_progress)
    BY <1>0 DEF Range
  <2>2. Range(in_progress') = Range(in_progress) \ {in_progress[i]} /\ pending' = pending
    BY <1>0, <1>2, RemoveAtNoDuplicates DEF DequeueInProgress, ListedOnce
  <2>3. Queued' = Queued \ {in_progress[i]} /\ {in_progress[i]} \subseteq Queued
    BY <1>0, <2>1, <2>2 DEF Queued, ListedOnce
  <2> DEFINE S == {in_progress[i]}
  <2>4. (\A m \in {in_progress[i]} : outcome'[m] \in FinalOutcomes)
        /\ \A m \in Messages \ {in_progress[i]} : outcome'[m] = outcome[m]
    BY <1>0, <1>2, <2>1 DEF DequeueInProgress, fire_message_callback, FinalOutcomes, Outcomes
  <2>5. /\ S \subseteq Queued /\ Queued' = Queued \ S
        /\ \A m \in S : outcome'[m] \in FinalOutcomes
        /\ \A m \in Messages \ S : outcome'[m] = outcome[m]
    BY <2>3, <2>4
  <2> HIDE DEF S
  <2> QED
    BY <2>5, LeavingSettles
<1>3. CASE RemoveAll
  <2>1. Queued' = Queued \ Queued /\ Queued \subseteq Messages
    BY <1>0, <1>3 DEF RemoveAll, Queued, Range
  <2>2. /\ \A m \in Queued : outcome'[m] \in FinalOutcomes
        /\ \A m \in Messages \ Queued : outcome'[m] = outcome[m]
    BY <1>3, <2>1 DEF RemoveAll, FinalOutcomes, Outcomes
  <2> QED
    BY <2>1, <2>2, LeavingSettles
<1> QED
  BY <1>1, <1>2, <1>3

\* Each step of the queue accepts a message, settles some, or changes no status.
LEMMA StepDelivers ==
  ASSUME RunInv, [Next]_vars
  PROVE  [QueueDelivery!Next]_messageStatus
<1>0. /\ Counted /\ ListedOnce
      /\ pending \in Seq(Messages) /\ in_progress \in Seq(Messages) /\ order \in Seq(Messages)
      /\ DOMAIN pending = 1..Len(pending) /\ Len(pending) \in Nat
      /\ DOMAIN in_progress = 1..Len(in_progress) /\ Len(in_progress) \in Nat
      /\ Range(pending) \subseteq Messages /\ Range(in_progress) \subseteq Messages
  BY ListFacts
<1>1. ASSUME Queued' = Queued, order' = order, outcome' = outcome
      PROVE  UNCHANGED messageStatus
  BY <1>1 DEF messageStatus, Misread
<1>2. ASSUME NEW m \in Messages, message_queue_add(m) PROVE QueueDelivery!Next
  <2>1. /\ m \notin Range(order) /\ pending' = Append(pending, m)
        /\ order' = Append(order, m) /\ UNCHANGED <<in_progress, outcome>>
    BY <1>2 DEF message_queue_add
  <2>2. Range(order') = Range(order) \cup {m} /\ Range(pending') = Range(pending) \cup {m}
    BY <1>0, <2>1, AppendNoDuplicates
  <2>3. Queued' = Queued \cup {m}
    BY <2>1, <2>2 DEF Queued
  <2>4. QueueDelivery!Accept(m)
    BY <2>1, <2>2, <2>3 DEF QueueDelivery!Accept, messageStatus, Misread
  <2> QED
    BY <2>4 DEF QueueDelivery!Next
<1>3. ASSUME NEW result \in Reports, on_process_message_completed_callback(result)
      PROVE  [QueueDelivery!Next]_messageStatus
  <2>1. ASSUME NEW m \in Messages, CompletedUnknown(m) PROVE UNCHANGED messageStatus
    BY <1>1, <2>1 DEF CompletedUnknown, lists, Queued
  <2>2. ASSUME NEW i \in DOMAIN in_progress, CompletedRetry(i, result)
        PROVE  UNCHANGED messageStatus
    <3>1. /\ in_progress' = RemoveAt(in_progress, i) /\ UNCHANGED <<order, outcome>>
          /\ pending' = Append(pending, in_progress[i])
      BY <2>2 DEF CompletedRetry
    <3>2. in_progress[i] \in Range(in_progress) /\ i \in 1..Len(in_progress)
      BY <1>0 DEF Range
    <3>3. Range(in_progress') = Range(in_progress) \ {in_progress[i]}
      BY <1>0, <3>1, <3>2, RemoveAtNoDuplicates DEF ListedOnce
    <3>4. Range(pending') = Range(pending) \cup {in_progress[i]}
      BY <1>0, <3>1, <3>2, AppendNoDuplicates
    <3> QED
      BY <1>1, <3>1, <3>2, <3>3, <3>4 DEF Queued
  <2>a. ASSUME NEW i \in DOMAIN in_progress, CompletedRetryFails(i, result)
        PROVE  [QueueDelivery!Next]_messageStatus
    <3>1. result \in {"SUCCESS", "ERROR", "RETRYABLE_ERROR", "TIMEOUT"} /\ order' = order
      BY <2>a, QueueAssumption DEF CompletedRetryFails, RetryFails
    <3>2. CASE DequeueInProgress(i, result)
      BY <1>0, <3>1, <3>2, DequeueSettles
    <3>3. CASE /\ in_progress' = RemoveAt(in_progress, i)
               /\ outcome' = [outcome EXCEPT ![in_progress[i]] = "unknown"]
               /\ UNCHANGED <<pending, items, fired>>
      <4>1. in_progress[i] \in Range(in_progress) /\ i \in 1..Len(in_progress) /\ in_progress[i] \in Messages
        BY <1>0 DEF Range
      <4>2. Range(in_progress') = Range(in_progress) \ {in_progress[i]}
        BY <1>0, <3>3, <4>1, RemoveAtNoDuplicates DEF ListedOnce
      <4>3. outcome \in [Messages -> Outcomes] /\ "unknown" \notin Outcomes
        BY DEF RunInv, Typed, Outcomes
      <4>4. Misread = {} /\ Misread' = {in_progress[i]} /\ \A m \in Messages : m # in_progress[i] => outcome'[m] = outcome[m]
        BY <3>3, <4>1, <4>3 DEF Misread
      <4>5. (Queued \cup Misread)' = Queued \cup Misread
        BY <3>3, <4>1, <4>2, <4>4 DEF Queued
      <4>6. in_progress[i] \in Queued
        BY <4>1 DEF Queued
      <4>7. \A m \in Messages : (IF m \notin Range(order') THEN "new" ELSE IF m \in (Queued \cup Misread)' THEN "held" ELSE outcome'[m])
              = (IF m \notin Range(order) THEN "new" ELSE IF m \in Queued \cup Misread THEN "held" ELSE outcome[m])
        BY <3>1, <4>4, <4>5, <4>6
      <4> QED
        BY <4>7 DEF messageStatus
    <3> QED
      BY <2>a, <3>2, <3>3 DEF CompletedRetryFails
  <2>3. ASSUME NEW i \in DOMAIN in_progress, CompletedFinal(i, result)
        PROVE  QueueDelivery!Next
    <3>1. result \in {"SUCCESS", "ERROR", "RETRYABLE_ERROR", "TIMEOUT"}
      BY QueueAssumption
    <3> QED
      BY <1>0, <2>3, <3>1, DequeueSettles DEF CompletedFinal
  <2> QED
    BY <1>3, <2>1, <2>2, <2>a, <2>3 DEF on_process_message_completed_callback
<1>4. CASE PendingTimeouts \/ DispatchFails
  <2>1. order' = order
    BY <1>4 DEF PendingTimeouts, DispatchFails
  <2>2. CASE pending # <<>> /\ \E result \in {"TIMEOUT", "ERROR"} : DequeuePending(1, result)
    BY <2>1, <2>2, DequeueSettles
  <2>3. CASE UNCHANGED <<lists, items, fired, outcome>>
    BY <1>1, <2>1, <2>3 DEF lists, Queued
  <2> QED
    BY <1>4, <2>2, <2>3 DEF PendingTimeouts, DispatchFails
<1>5. CASE EnqueuedTimeouts \/ ProcessingTimeouts
  <2>1. order' = order
    BY <1>5 DEF EnqueuedTimeouts, ProcessingTimeouts
  <2>2. ASSUME NEW i \in 1..Len(in_progress), DequeueInProgress(i, "TIMEOUT")
        PROVE  QueueDelivery!Next
    BY <2>1, <2>2, DequeueSettles
  <2>3. CASE UNCHANGED <<lists, items, fired, outcome>>
    BY <1>1, <2>1, <2>3 DEF lists, Queued
  <2>4. in_progress # <<>> => 1 \in 1..Len(in_progress)
    BY <1>0
  <2> QED
    BY <1>0, <1>5, <2>2, <2>3, <2>4 DEF EnqueuedTimeouts, ProcessingTimeouts
<1>6. CASE Dispatch
  <2>1. /\ pending # <<>> /\ pending' = Tail(pending) /\ UNCHANGED <<order, outcome>>
        /\ in_progress' = Append(in_progress, Head(pending))
    BY <1>6 DEF Dispatch, HandOver
  <2>2. Head(pending) \in Messages
    BY <1>0, <2>1
  <2>3. Range(in_progress') = Range(in_progress) \cup {Head(pending)}
    BY <1>0, <2>1, <2>2, AppendNoDuplicates
  <2>4. Range(pending) = {Head(pending)} \cup Range(Tail(pending))
    <3>1. 1 \in 1..Len(pending) /\ Head(pending) = pending[1] /\ Tail(pending) = RemoveAt(pending, 1)
      BY <1>0, <2>1, TailIsRemoveAt
    <3>2. Range(Tail(pending)) = Range(pending) \ {pending[1]} /\ pending[1] \in Range(pending)
      BY <1>0, <3>1, RemoveAtNoDuplicates DEF ListedOnce, Range
    <3> QED
      BY <3>1, <3>2
  <2> QED
    BY <1>1, <2>1, <2>3, <2>4 DEF Queued
<1>7. CASE message_queue_remove_all \/ message_queue_destroy
  BY <1>7, DequeueSettles DEF message_queue_remove_all, message_queue_destroy
<1>8. CASE message_queue_move_all_back_to_pending
  <2>1. CASE RemoveAll
    BY <1>8, <2>1, DequeueSettles DEF message_queue_move_all_back_to_pending
  <2>2. CASE pending' = in_progress \o pending /\ in_progress' = <<>>
             /\ UNCHANGED <<items, fired, outcome>>
    <3>1. Range(pending') = Range(in_progress) \cup Range(pending) /\ Range(in_progress') = {}
      <4>1. Range(in_progress \o pending) = Range(in_progress) \cup Range(pending)
        BY <1>0, ConcatNoDuplicates
      <4>2. Range(in_progress') = {}
        BY <2>2 DEF Range
      <4> QED
        BY <2>2, <4>1, <4>2
    <3>2. UNCHANGED <<order, outcome>>
      BY <1>8, <2>2 DEF message_queue_move_all_back_to_pending
    <3> QED
      BY <1>1, <3>1, <3>2 DEF Queued
  <2> QED
    BY <1>8, <2>1, <2>2 DEF message_queue_move_all_back_to_pending
<1>9. CASE message_queue_do_work \/ DispatchDone \/ message_queue_set_option \/ Tick
            \/ UNCHANGED vars
  BY <1>1, <1>9 DEF message_queue_do_work, DispatchDone, message_queue_set_option, Tick, vars,
     lists, history, Queued
<1> QED
  BY <1>2, <1>3, <1>4, <1>5, <1>6, <1>7, <1>8, <1>9 DEF Next, DoWorkStep

\* A message is settled once, with one of the results a caller may see, and that result
\* is never replaced (message_queue.c implements what Delivery promises).
THEOREM QueueIsDelivery == Spec => QueueDelivers
<1>1. Init => QueueDelivery!Init
  BY DEF Init, QueueDelivery!Init, messageStatus, Range
<1>2. QueueInv /\ [Next]_vars => [QueueDelivery!Next]_messageStatus
  <2>1. RunInv /\ [Next]_vars => [QueueDelivery!Next]_messageStatus
    BY StepDelivers
  <2>2. HaltInv /\ [Next]_vars => UNCHANGED messageStatus
    BY UndefinedStops DEF HaltInv, vars, messageStatus, Queued, Misread
  <2> QED
    BY <2>1, <2>2 DEF QueueInv
<1>3. Spec => QueueDelivery!Spec
  BY <1>1, <1>2, QueueInvariant, PTL DEF Spec, QueueDelivery!Spec
<1> QED
  BY <1>3 DEF QueueDelivers
=============================================================================
