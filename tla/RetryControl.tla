---------------------------- MODULE RetryControl ----------------------------
(***************************************************************************)
(* The RETRY_CONTROL of iothub_client_retry_control.c.  A transport that    *)
(* has lost its connection asks retry_control_should_retry on every do_work *)
(* whether to connect again, and calls retry_control_reset once connected.  *)
(*                                                                          *)
(* first_retry_time and last_retry_time are kept as ages (seconds since     *)
(* then), which saturate at AgeCap, or INDEFINITE_TIME.  retry_count        *)
(* saturates at CountCap, where every backoff has reached every max_delay.  *)
(* One evaluation reads the clock several times within one second.          *)
(***************************************************************************)
EXTENDS Integers, FiniteSetsExt

CONSTANTS
  Policies,        \* retry policies the user may choose
  RetryTimes,      \* values of max_retry_time_in_secs (0 disables it)
  InitialWaits,    \* values of the option initial_wait_time_in_secs
  Jitters,         \* values of the option max_jitter_percent
  MaxDelays,       \* values of the option max_delay_in_secs
  DefaultDelay,    \* DEFAULT_MAX_DELAY_IN_SECS
  FirstWait,       \* the default initial wait of each policy
  ClockFails,      \* whether get_time can fail
  AgeCap,          \* ages saturate here
  CountCap         \* retry_count saturates here

AllPolicies == {"NONE", "IMMEDIATE", "INTERVAL", "LINEAR", "EXPONENTIAL",
                "JITTER", "RANDOM"}

ASSUME RetryAssumption ==
  /\ Policies \subseteq AllPolicies
  /\ RetryTimes \subseteq Nat /\ InitialWaits \subseteq Nat
  /\ Jitters \subseteq Nat /\ MaxDelays \subseteq Nat
  /\ DefaultDelay \in Nat
  /\ FirstWait \in [Policies -> Nat \ {0}]
  /\ ClockFails \in BOOLEAN
  /\ AgeCap \in Nat /\ CountCap \in Nat \ {0}
  /\ \A t \in RetryTimes : t <= AgeCap

INDEFINITE_TIME == -1

VARIABLES
  policy, max_retry_time_in_secs, initial_wait_time_in_secs,
  max_jitter_percent, max_delay_in_secs,
  retry_count, first_retry_age, last_retry_age, current_wait_time_in_secs,
  answer,          \* what the last call of retry_control_should_retry said
  waited,          \* history: the waits imposed between the retries so far
  everStopped      \* history: a call since the last reset said STOP_RETRYING

options == <<policy, max_retry_time_in_secs, initial_wait_time_in_secs,
             max_jitter_percent, max_delay_in_secs>>
vars == <<policy, max_retry_time_in_secs, initial_wait_time_in_secs,
          max_jitter_percent, max_delay_in_secs, retry_count, first_retry_age,
          last_retry_age, current_wait_time_in_secs, answer, waited, everStopped>>

Capped(n, cap) == IF n < cap THEN n ELSE cap
Older(age) == IF age = INDEFINITE_TIME THEN age ELSE Capped(age + 1, AgeCap)

-----------------------------------------------------------------------------

\* The wait times retry number n may be followed by; rand() chooses among them.
calculate_next_wait_time(n) ==
  LET exponential == Capped(2 ^ (n - 1) * initial_wait_time_in_secs, max_delay_in_secs)
  IN  CASE policy = "INTERVAL"    -> {initial_wait_time_in_secs}
        [] policy = "LINEAR"      -> {Capped(initial_wait_time_in_secs * n, max_delay_in_secs)}
        [] policy = "EXPONENTIAL" -> {exponential}
        [] policy = "JITTER"      -> exponential ..
                                       (exponential + (exponential * max_jitter_percent) \div 100)
        [] policy = "RANDOM"      -> 0 .. initial_wait_time_in_secs
        [] OTHER                  -> {0}

OutOfTime(first) == max_retry_time_in_secs > 0 /\ first >= max_retry_time_in_secs

EvaluateNoLimit(first, clock) == \* mutant: max_retry_time_in_secs is forgotten
  IF retry_count = 0 THEN "RETRY_NOW"
  ELSE IF (last_retry_age = INDEFINITE_TIME /\ policy # "IMMEDIATE") \/ ~clock THEN "FAILED"
  ELSE IF policy = "IMMEDIATE" \/ last_retry_age >= current_wait_time_in_secs
       THEN "RETRY_NOW" ELSE "RETRY_LATER"

EvaluateWaitFirst(first, clock) == \* mutant: the wait is checked before the limit
  IF retry_count = 0 THEN "RETRY_NOW"
  ELSE IF (last_retry_age = INDEFINITE_TIME /\ policy # "IMMEDIATE") \/ ~clock THEN "FAILED"
  ELSE IF policy = "IMMEDIATE" \/ last_retry_age >= current_wait_time_in_secs
       THEN "RETRY_NOW"
  ELSE IF OutOfTime(first) THEN "STOP_RETRYING" ELSE "RETRY_LATER"

\* The first retry is granted at once; clock says whether get_time succeeds.
evaluate_retry_action(first, clock) ==
  IF retry_count = 0 THEN "RETRY_NOW"
  ELSE IF (last_retry_age = INDEFINITE_TIME /\ policy # "IMMEDIATE") \/ ~clock THEN "FAILED"
  ELSE IF OutOfTime(first) THEN "STOP_RETRYING"
  ELSE IF policy = "IMMEDIATE" \/ last_retry_age >= current_wait_time_in_secs
       THEN "RETRY_NOW" ELSE "RETRY_LATER"

\* RETRY_NOW: the retry is counted and the next wait is fixed.
GrantOverlapping == \* mutant: last_retry_time is only set by the first retry
  /\ retry_count' = Capped(retry_count + 1, CountCap)
  /\ last_retry_age' = IF last_retry_age = INDEFINITE_TIME THEN 0 ELSE last_retry_age
  /\ current_wait_time_in_secs' \in calculate_next_wait_time(retry_count')
  /\ waited' = Capped(waited + current_wait_time_in_secs, AgeCap)

Grant ==
  /\ retry_count' = Capped(retry_count + 1, CountCap)
  /\ IF policy = "IMMEDIATE"
     THEN UNCHANGED <<last_retry_age, current_wait_time_in_secs>>
     ELSE /\ last_retry_age' \in {0} \cup (IF ClockFails THEN {INDEFINITE_TIME} ELSE {})
          /\ current_wait_time_in_secs' \in calculate_next_wait_time(retry_count')
  /\ waited' = Capped(waited + current_wait_time_in_secs, AgeCap)

NoGrantRestartsWait == \* mutant: every call restarts the wait
  /\ last_retry_age' = 0
  /\ UNCHANGED <<retry_count, current_wait_time_in_secs, waited>>

NoGrant == UNCHANGED <<retry_count, last_retry_age, current_wait_time_in_secs, waited>>

\* The clock fails before anything is evaluated: first_retry_time stays unset.
ShouldRetryNoClock ==
  /\ ClockFails
  /\ policy # "NONE"
  /\ first_retry_age = INDEFINITE_TIME
  /\ answer' = "FAILED"
  /\ NoGrant
  /\ UNCHANGED <<options, first_retry_age, everStopped>>

ShouldRetryNever ==
  /\ policy = "NONE"
  /\ answer' = "STOP_RETRYING"
  /\ everStopped' = TRUE
  /\ NoGrant
  /\ UNCHANGED <<options, first_retry_age>>

ShouldRetryEvaluates ==
  /\ policy # "NONE"
  /\ first_retry_age' = IF first_retry_age = INDEFINITE_TIME THEN 0 ELSE first_retry_age
  /\ \E clock \in {TRUE} \cup (IF ClockFails THEN {FALSE} ELSE {}) :
       answer' = evaluate_retry_action(first_retry_age', clock)
  /\ everStopped' = (everStopped \/ answer' = "STOP_RETRYING")
  /\ IF answer' = "RETRY_NOW" THEN Grant ELSE NoGrant
  /\ UNCHANGED options

retry_control_should_retry ==
  ShouldRetryNoClock \/ ShouldRetryNever \/ ShouldRetryEvaluates

ResetKeepsFirst == \* mutant: first_retry_time is not reset
  /\ retry_count' = 0
  /\ current_wait_time_in_secs' = 0
  /\ last_retry_age' = INDEFINITE_TIME
  /\ answer' = "none"
  /\ waited' = 0
  /\ everStopped' = FALSE
  /\ UNCHANGED <<options, first_retry_age>>

retry_control_reset ==
  /\ retry_count' = 0
  /\ current_wait_time_in_secs' = 0
  /\ first_retry_age' = INDEFINITE_TIME
  /\ last_retry_age' = INDEFINITE_TIME
  /\ answer' = "none"
  /\ waited' = 0
  /\ everStopped' = FALSE
  /\ UNCHANGED options

SetOptionUnchecked == \* mutant: values are taken as they come
  /\ \/ /\ initial_wait_time_in_secs' \in InitialWaits
        /\ UNCHANGED <<max_jitter_percent, max_delay_in_secs>>
     \/ /\ max_jitter_percent' \in Jitters
        /\ UNCHANGED <<initial_wait_time_in_secs, max_delay_in_secs>>
     \/ /\ max_delay_in_secs' \in MaxDelays
        /\ UNCHANGED <<initial_wait_time_in_secs, max_jitter_percent>>
  /\ UNCHANGED <<policy, max_retry_time_in_secs, retry_count, first_retry_age,
                 last_retry_age, current_wait_time_in_secs, answer, waited, everStopped>>

\* Values out of range are refused; saved options come back through here, too.
retry_control_set_option ==
  /\ \/ \E v \in InitialWaits :
          /\ v >= 1
          /\ initial_wait_time_in_secs' = v
          /\ UNCHANGED <<max_jitter_percent, max_delay_in_secs>>
     \/ \E v \in Jitters :
          /\ v <= 100
          /\ max_jitter_percent' = v
          /\ UNCHANGED <<initial_wait_time_in_secs, max_delay_in_secs>>
     \/ \E v \in MaxDelays :
          /\ max_delay_in_secs' = v
          /\ UNCHANGED <<initial_wait_time_in_secs, max_jitter_percent>>
  /\ UNCHANGED <<policy, max_retry_time_in_secs, retry_count, first_retry_age,
                 last_retry_age, current_wait_time_in_secs, answer, waited, everStopped>>

Tick ==
  /\ first_retry_age' = Older(first_retry_age)
  /\ last_retry_age' = Older(last_retry_age)
  /\ UNCHANGED <<options, retry_count, current_wait_time_in_secs, answer, waited, everStopped>>

\* retry_control_create
Init ==
  /\ policy \in Policies
  /\ max_retry_time_in_secs \in RetryTimes
  /\ initial_wait_time_in_secs = FirstWait[policy]
  /\ max_jitter_percent = 5
  /\ max_delay_in_secs = DefaultDelay
  /\ retry_count = 0
  /\ first_retry_age = INDEFINITE_TIME
  /\ last_retry_age = INDEFINITE_TIME
  /\ current_wait_time_in_secs = 0
  /\ answer = "none"
  /\ waited = 0
  /\ everStopped = FALSE

Next ==
  \/ retry_control_should_retry
  \/ retry_control_reset
  \/ retry_control_set_option
  \/ Tick

Spec == Init /\ [][Next]_vars

\* A disconnected transport keeps asking ("never ceases checking"), get_time does not
\* fail for ever, and time passes.
FairSpec ==
  /\ Spec
  /\ WF_vars(retry_control_should_retry)
  /\ SF_vars(ShouldRetryEvaluates /\ answer' # "FAILED")
  /\ WF_vars(Tick)

-----------------------------------------------------------------------------
(* Properties *)

Answers == {"none", "RETRY_NOW", "RETRY_LATER", "STOP_RETRYING", "FAILED"}

\* The types of the options and counters; the jitter stays a percentage.
TypeOK ==
  /\ policy \in Policies
  /\ max_retry_time_in_secs \in RetryTimes
  /\ initial_wait_time_in_secs \in Nat \ {0}
  /\ max_jitter_percent \in 0..100
  /\ max_delay_in_secs \in Nat
  /\ retry_count \in 0..CountCap
  /\ first_retry_age \in {INDEFINITE_TIME} \cup 0..AgeCap
  /\ last_retry_age \in {INDEFINITE_TIME} \cup 0..AgeCap
  /\ current_wait_time_in_secs \in Nat
  /\ answer \in Answers
  /\ waited \in 0..AgeCap
  /\ everStopped \in BOOLEAN

\* The time since the first retry is at least the sum of the waits imposed between
\* the retries granted so far, whatever options change in between.
WaitsAreRespected == retry_count > 0 => first_retry_age >= waited

\* Once a call has answered STOP_RETRYING (the budget is spent, or the policy is NONE), no
\* call until retry_control_reset grants a retry or promises a later one, however many
\* calls come in between, however they end, and whatever options change.
StopIsFinal == everStopped => answer \in {"STOP_RETRYING", "FAILED"}

\* A retry granted after a reset is granted at once: nothing of the previous outage
\* (its budget or its wait) is left.
FreshStart ==
  [][answer = "none" /\ answer' # "none" /\ policy # "NONE"
       => answer' \in {"RETRY_NOW", "FAILED"}
          /\ (answer' = "RETRY_NOW" => first_retry_age' = 0 /\ retry_count' = 1)]_vars

\* With a time limit the retries are stopped eventually, unless a connection resets
\* the control or the time of a granted retry could not be read: then every later
\* call fails.
RetriesEnd ==
  max_retry_time_in_secs > 0 /\ retry_count > 0
    ~> \/ answer = "STOP_RETRYING"
       \/ retry_count = 0
       \/ last_retry_age = INDEFINITE_TIME /\ policy # "IMMEDIATE"

\* A retry that was put off is granted or the retries are stopped: no wait is endless.
LaterEnds == answer = "RETRY_LATER" ~> answer # "RETRY_LATER"

\* A new outage starts afresh, and no outage ends in an endless wait or in endless retries:
\* evaluate_retry_action after retry_control_reset, and until it stops.
RetriesProgress == FreshStart /\ RetriesEnd /\ LaterEnds
=============================================================================
