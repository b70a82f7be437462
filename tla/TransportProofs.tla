-------------------------- MODULE TransportProofs --------------------------
(***************************************************************************)
(* Proofs about when a transport works, waits and stops: about RetryControl, *)
(* for any policy, option values and bounds, that the waits are respected and *)
(* a stop is final until the control is reset; about AmqpTransport, that what  *)
(* the transport sees of the device is the device's state, and that nothing    *)
(* works without a connection and an authorization; about AmqpTelemetry, that   *)
(* each event is called back once; and about AmqpTwin with AmqpMessenger below   *)
(* it, that each report is answered once and the two messengers agree.           *)
(*                                                                         *)
(* The operators of AmqpDevice give the set of records a device may become, so *)
(* that there is a lemma for each: what it gives is sound.                     *)
(***************************************************************************)
EXTENDS AmqpTransport, RetryControl, AmqpTelemetry, AmqpTwin, SequenceFacts, FiniteSetTheorems

-----------------------------------------------------------------------------
(* The retry control *)

Ages == {INDEFINITE_TIME} \cup 0..AgeCap

\* The part of the type invariant the proofs need.  (That the waits are natural
\* numbers rests on powers of two, which are beyond the prover.)
Types ==
  /\ policy \in Policies
  /\ max_retry_time_in_secs \in RetryTimes
  /\ initial_wait_time_in_secs \in Nat
  /\ max_jitter_percent \in Nat
  /\ max_delay_in_secs \in Nat
  /\ retry_count \in 0..CountCap
  /\ first_retry_age \in Ages
  /\ last_retry_age \in Ages
  /\ current_wait_time_in_secs \in Int
  /\ waited \in Int
  /\ answer \in Answers

\* Before the first retry nothing is left of an earlier outage; after it the outage
\* is dated, and its age covers the waits so far and the time since the last retry.
Elapsed ==
  /\ retry_count = 0 => current_wait_time_in_secs = 0 /\ waited = 0
  /\ policy = "IMMEDIATE" =>
       current_wait_time_in_secs = 0 /\ waited = 0 /\ last_retry_age = INDEFINITE_TIME
  /\ retry_count > 0 =>
       /\ first_retry_age # INDEFINITE_TIME
       /\ first_retry_age >= waited
       /\ last_retry_age # INDEFINITE_TIME =>
            first_retry_age >= Capped(waited + last_retry_age, AgeCap)

\* Once a call has answered STOP_RETRYING the time budget is spent and stays spent, so that
\* every later call answers the same, or fails on the clock.
Spent ==
  everStopped =>
    /\ policy = "NONE" \/ (retry_count > 0 /\ OutOfTime(first_retry_age))
    /\ answer \in {"STOP_RETRYING", "FAILED"}

RetryInv == Types /\ everStopped \in BOOLEAN /\ Elapsed /\ Spent

\* What rand() can choose is an integer.
LEMMA WaitIsInteger ==
  ASSUME Types, NEW n \in Nat \ {0}, NEW w \in calculate_next_wait_time(n)
  PROVE  w \in Int
<1> DEFINE e == Capped(2 ^ (n - 1) * initial_wait_time_in_secs, max_delay_in_secs)
<1>1. n - 1 \in Nat
  OBVIOUS
<1>2. 2 ^ (n - 1) \in Int
  BY <1>1
<1>3. e \in Int
  BY <1>2 DEF Capped, Types
<1>4. Capped(initial_wait_time_in_secs * n, max_delay_in_secs) \in Int
  BY DEF Capped, Types
<1> HIDE DEF e
<1>5. \A a, b \in Int : w \in a .. b => w \in Int
  OBVIOUS
<1>6. (e * max_jitter_percent) \div 100 \in Int
  BY <1>3 DEF Types
<1>7. CASE policy = "JITTER"
  <2>1. w \in e .. (e + (e * max_jitter_percent) \div 100)
    BY <1>7 DEF calculate_next_wait_time, e
  <2> QED
    BY <1>3, <1>6, <2>1
<1>8. CASE policy # "JITTER"
  BY <1>3, <1>4, <1>8 DEF calculate_next_wait_time, Types, e
<1> QED
  BY <1>7, <1>8

\* A new control satisfies the invariant.
LEMMA RetryInit == Init => RetryInv
<1> SUFFICES ASSUME Init
             PROVE  RetryInv
  OBVIOUS
<1>1. Types /\ Elapsed
  BY RetryAssumption DEF Init, Types, Elapsed, Ages, Answers
<1>2. ~everStopped /\ everStopped \in BOOLEAN
  BY Zenon DEF Init
<1> QED
  BY <1>1, <1>2 DEF RetryInv, Spent

\* A granted retry had waited long enough.
LEMMA GrantInv ==
  ASSUME RetryInv, ShouldRetryEvaluates, answer' = "RETRY_NOW"
  PROVE  RetryInv'
<1>0. Types /\ Elapsed /\ Grant /\ policy # "NONE" /\ UNCHANGED options
      /\ AgeCap \in Nat /\ CountCap \in Nat \ {0}
  BY RetryAssumption DEF RetryInv, ShouldRetryEvaluates
<1>1. first_retry_age' = IF first_retry_age = INDEFINITE_TIME THEN 0 ELSE first_retry_age
  BY DEF ShouldRetryEvaluates
<1>2. first_retry_age' \in 0..AgeCap
  BY <1>0, <1>1 DEF Types, Ages
<1>3. retry_count' \in 1..CountCap
  BY <1>0 DEF Grant, Capped, Types
<1>4. current_wait_time_in_secs' \in Int
  BY <1>0, <1>3, WaitIsInteger DEF Grant, Types
<1>5. waited' = Capped(waited + current_wait_time_in_secs, AgeCap) /\ waited' \in Int
  BY <1>0 DEF Grant, Capped, Types
<1>6. last_retry_age' \in Ages
  BY <1>0 DEF Grant, Types, Ages
<1>7. Types'
  BY <1>0, <1>2, <1>3, <1>4, <1>5, <1>6 DEF Types, Ages, Answers, options
<1>8. first_retry_age' >= waited'
  <2>1. CASE retry_count = 0
    BY <1>0, <1>2, <1>5, <2>1 DEF Elapsed, Capped
  <2>2. CASE policy = "IMMEDIATE"
    BY <1>0, <1>2, <1>5, <2>2 DEF Elapsed, Capped
  <2>3. CASE retry_count # 0 /\ policy # "IMMEDIATE"
    <3>1. last_retry_age # INDEFINITE_TIME /\ last_retry_age >= current_wait_time_in_secs
      BY <2>3 DEF ShouldRetryEvaluates, evaluate_retry_action
    <3>2. first_retry_age' = first_retry_age
          /\ first_retry_age >= Capped(waited + last_retry_age, AgeCap)
      BY <1>0, <1>1, <2>3, <3>1 DEF Elapsed, Types
    <3> QED
      BY <1>0, <1>2, <1>5, <3>1, <3>2 DEF Capped, Types, Ages
  <2> QED
    BY <2>1, <2>2, <2>3
<1>9. policy' = "IMMEDIATE" =>
        current_wait_time_in_secs' = 0 /\ waited' = 0 /\ last_retry_age' = INDEFINITE_TIME
  BY <1>0, <1>5 DEF options, Grant, Elapsed, Capped
<1>10. last_retry_age' # INDEFINITE_TIME =>
         first_retry_age' >= Capped(waited' + last_retry_age', AgeCap)
  <2>1. CASE policy = "IMMEDIATE"
    BY <1>0, <1>9, <2>1 DEF options
  <2>2. CASE policy # "IMMEDIATE"
    BY <1>0, <1>2, <1>5, <1>8, <2>2 DEF Grant, Capped, INDEFINITE_TIME
  <2> QED
    BY <2>1, <2>2
<1>11. Elapsed'
  BY <1>2, <1>3, <1>8, <1>9, <1>10 DEF Elapsed, INDEFINITE_TIME
<1>13. everStopped' \in BOOLEAN
  BY DEF ShouldRetryEvaluates
<1>12. Spent'
  <2>1. ~everStopped
    <3> SUFFICES ASSUME everStopped
                 PROVE  FALSE
      OBVIOUS
    <3>1. retry_count > 0 /\ OutOfTime(first_retry_age) /\ first_retry_age # INDEFINITE_TIME
      BY <1>0 DEF RetryInv, Spent, Elapsed
    <3>2. first_retry_age' = first_retry_age
      BY <1>1, <3>1
    <3> QED
      BY <3>1, <3>2 DEF ShouldRetryEvaluates, evaluate_retry_action
  <2> QED
    BY <1>13, <2>1 DEF Spent, ShouldRetryEvaluates
<1> QED
  BY <1>7, <1>11, <1>12, <1>13 DEF RetryInv

\* Every step preserves the invariant.
LEMMA RetryNext ==
  ASSUME RetryInv, [Next]_vars
  PROVE  RetryInv'
<1>0. Types /\ Elapsed /\ Spent /\ AgeCap \in Nat /\ everStopped \in BOOLEAN
  BY RetryAssumption DEF RetryInv
<1>1. CASE ShouldRetryNoClock
  BY <1>0, <1>1 DEF ShouldRetryNoClock, NoGrant, options, RetryInv, Types, Elapsed,
                    Spent, Answers, OutOfTime
<1>2. CASE ShouldRetryNever
  BY <1>0, <1>2 DEF ShouldRetryNever, NoGrant, options, RetryInv, Types, Elapsed,
                    Spent, Answers, OutOfTime
<1>3. CASE ShouldRetryEvaluates
  <2>1. CASE answer' = "RETRY_NOW"
    BY <1>3, <2>1, GrantInv
  <2>2. CASE answer' # "RETRY_NOW"
    <3>1. NoGrant /\ UNCHANGED options /\ retry_count > 0
      BY <1>0, <1>3, <2>2 DEF ShouldRetryEvaluates, evaluate_retry_action, Types
    <3>2. first_retry_age' = first_retry_age
      BY <1>0, <1>3, <3>1 DEF ShouldRetryEvaluates, Elapsed
    <3>3. answer' \in Answers /\ (answer' = "STOP_RETRYING" => OutOfTime(first_retry_age))
      BY <1>3, <2>2, <3>2 DEF ShouldRetryEvaluates, evaluate_retry_action, Answers
    <3>4. everStopped' = (everStopped \/ answer' = "STOP_RETRYING") /\ everStopped' \in BOOLEAN
      BY <1>3 DEF ShouldRetryEvaluates
    <3>5. everStopped => OutOfTime(first_retry_age)
      BY <1>0, <1>3 DEF Spent, ShouldRetryEvaluates
    <3>6. everStopped => answer' \in {"STOP_RETRYING", "FAILED"}
      <4>1. retry_count # 0
        BY <1>0, <3>1 DEF Types
      <4> QED
        BY <1>3, <3>2, <3>5, <4>1 DEF ShouldRetryEvaluates, evaluate_retry_action
    <3>7. Types' /\ Elapsed'
      BY <1>0, <3>1, <3>2, <3>3, <3>4 DEF NoGrant, options, Types, Elapsed
    <3>8. UNCHANGED <<policy, retry_count, max_retry_time_in_secs, first_retry_age>>
      BY <3>1, <3>2 DEF NoGrant, options
    <3>9. Spent'
      BY <3>1, <3>3, <3>4, <3>5, <3>6, <3>8 DEF Spent, OutOfTime
    <3> QED
      BY <3>4, <3>7, <3>9 DEF RetryInv
  <2> QED
    BY <2>1, <2>2
<1>4. CASE retry_control_reset
  <2>1. Types' /\ Elapsed'
    BY <1>0, <1>4, RetryAssumption DEF retry_control_reset, options, Types, Elapsed, Answers, Ages
  <2>2. ~everStopped' /\ everStopped' \in BOOLEAN
    BY <1>4, Zenon DEF retry_control_reset
  <2> QED
    BY <2>1, <2>2 DEF RetryInv, Spent
<1>5. CASE retry_control_set_option
  BY <1>0, <1>5, RetryAssumption DEF retry_control_set_option, RetryInv, Types, Elapsed,
                                     Spent, OutOfTime
<1>6. CASE Tick
  <2>1. /\ UNCHANGED <<options, retry_count, current_wait_time_in_secs, answer, waited, everStopped>>
        /\ first_retry_age' = Older(first_retry_age)
        /\ last_retry_age' = Older(last_retry_age)
    BY <1>6 DEF Tick
  <2>2. \A a \in Ages : Older(a) \in Ages /\ (a = INDEFINITE_TIME <=> Older(a) = INDEFINITE_TIME)
    BY <1>0 DEF Ages, Older, Capped, INDEFINITE_TIME
  <2>3. \A a \in Ages : a # INDEFINITE_TIME => Older(a) >= a
    BY <1>0 DEF Ages, Older, Capped, INDEFINITE_TIME
  <2>4. Types'
    BY <1>0, <2>1, <2>2, SMTT(30) DEF Types, options
  <2>5. Elapsed'
    <3>1. ASSUME retry_count > 0
          PROVE  first_retry_age' # INDEFINITE_TIME /\ first_retry_age' >= waited
      BY <1>0, <2>1, <2>2, <2>3, <3>1 DEF Elapsed, Types, Ages, INDEFINITE_TIME
    <3>2. ASSUME retry_count > 0, last_retry_age # INDEFINITE_TIME
          PROVE  first_retry_age' >= Capped(waited + last_retry_age', AgeCap)
      <4>1. /\ first_retry_age \in 0..AgeCap /\ last_retry_age \in 0..AgeCap
            /\ first_retry_age >= Capped(waited + last_retry_age, AgeCap) /\ waited \in Int
        BY <1>0, <3>2 DEF Elapsed, Types, Ages
      <4>2. first_retry_age' = Capped(first_retry_age + 1, AgeCap)
            /\ last_retry_age' = Capped(last_retry_age + 1, AgeCap)
        BY <2>1, <4>1, <1>0 DEF Older, INDEFINITE_TIME
      <4> QED
        BY <1>0, <4>1, <4>2 DEF Capped
    <3>3. last_retry_age' # INDEFINITE_TIME <=> last_retry_age # INDEFINITE_TIME
      BY <1>0, <2>1, <2>2 DEF Types
    <3> QED
      BY <1>0, <2>1, <3>1, <3>2, <3>3 DEF Elapsed, options
  <2>6. Spent'
    <3>3. UNCHANGED <<answer, everStopped, policy, retry_count, max_retry_time_in_secs>>
      BY <2>1 DEF options
    <3>1. retry_count > 0 => first_retry_age' >= first_retry_age
          /\ first_retry_age \in Int /\ first_retry_age' \in Int
      BY <1>0, <2>1, <2>2, <2>3 DEF Elapsed, Types, Ages, INDEFINITE_TIME
    <3>2. max_retry_time_in_secs \in Int
      BY <1>0, RetryAssumption DEF Types
    <3> QED
      BY <1>0, <3>1, <3>2, <3>3 DEF Spent, OutOfTime
  <2> QED
    BY <1>0, <2>1, <2>4, <2>5, <2>6 DEF RetryInv
<1>7. CASE UNCHANGED vars
  BY <1>0, <1>7 DEF vars, RetryInv, Types, Elapsed, Spent, OutOfTime
<1> QED
  BY <1>1, <1>2, <1>3, <1>4, <1>5, <1>6, <1>7 DEF Next, retry_control_should_retry

\* RetryInv holds in every reachable state, for any policy, options and bounds.
THEOREM RetryInvariant == Spec => []RetryInv
<1>1. RetryInv /\ [Next]_vars => RetryInv'
  BY RetryNext
<1> QED
  BY RetryInit, <1>1, PTL DEF Spec

\* No retry is granted before the waits imposed so far have passed.
THEOREM WaitsRespected == Spec => []WaitsAreRespected
<1>1. RetryInv => WaitsAreRespected
  BY DEF RetryInv, Elapsed, WaitsAreRespected
<1> QED
  BY RetryInvariant, <1>1, PTL

\* Once a call has said that the retries stop, every later call until retry_control_reset
\* says the same or fails, whatever happens in between: none grants or promises a retry.
THEOREM StopStaysStopped == Spec => []StopIsFinal
<1>1. RetryInv => StopIsFinal
  BY DEF RetryInv, Spent, StopIsFinal
<1> QED
  BY RetryInvariant, <1>1, PTL


-----------------------------------------------------------------------------
(* The AMQP transport *)


-----------------------------------------------------------------------------
(* The inductive invariant *)

LinkStates == {"STOPPED", "STARTING", "STARTED", "ERROR"}
DeviceStates == {"STOPPED", "STARTING", "STARTED", "STOPPING"} \cup Fails
AuthErrors == {"NONE", "AUTH_FAILED", "AUTH_TIMEOUT", "SAS_REFRESH_FAILED", "SAS_REFRESH_TIMEOUT"}
TransportStates ==
  {"NOT_CONNECTED", "CONNECTING", "CONNECTED", "RECONNECTION_REQUIRED", "READY_FOR_RECONNECTION",
   "RECONNECTING", "NO_MORE_RETRIES", "BEING_DESTROYED"}

Devices ==
  [mode : {"CBS", "X509"}, state : DeviceStates, seen : DeviceStates, delayed : BOOLEAN, told : BOOLEAN,
   auth : LinkStates, error : AuthErrors, putting : BOOLEAN, refreshing : BOOLEAN, puts : Nat,
   late : BOOLEAN, authorized : BOOLEAN, msgr : LinkStates, twin : LinkStates,
   number_of_previous_failures : Nat, number_of_send_event_complete_failures : Nat,
   subscribe_methods_needed : BOOLEAN, subscribed_for_methods : BOOLEAN, methods : {"NOT", "SUBSCRIBED"}]

Up(s) == s \in {"STARTING", "STARTED"}
LinksDown(d) == ~Up(d.msgr) /\ ~Up(d.twin)

\* No token is accepted or on its way, unless an answer may be late.
NotAuthenticating(d) == d.late \/ (d.auth = "STOPPED" /\ d.puts = 0)

\* The transport sees the state of the device, or the error it made of a device that took too long.
SeenAsIs(d) == d.seen = d.state \/ (d.seen = "ERROR_AUTH" /\ d.state \in {"STARTING", "STOPPING"})

\* Links stand on an authorization: a device that starts has what its mode calls one, and a device
\* that has stopped begins without one.
Granted(d) ==
  /\ d.state = "STOPPED" => LinksDown(d) /\ NotAuthenticating(d)
  /\ d.state = "STOPPING" => d.delayed
  /\ LinksDown(d) \/ d.late \/ d.authorized
  /\ Up(d.state) /\ d.auth = "STARTED" => d.late \/ d.authorized
  /\ Up(d.state) /\ d.mode = "X509" => d.authorized

Sound(d) == d \in Devices /\ SeenAsIs(d) /\ Granted(d)
Told(d) == d.seen = "STARTED" => d.told

\* All that d may become is sound, and the application still knows what it knew.
Keeps(d, S) == \A e \in S : Sound(e) /\ (Told(d) => Told(e))

DeviceInv == Registered => Sound(device)

\* The connection a state of the transport stands for, and no device works before there is one.
ConnectionInv ==
  /\ transportState \in TransportStates /\ calm \in BOOLEAN
  /\ transportState \in {"NOT_CONNECTED", "READY_FOR_RECONNECTION"} => connection = "none"
  /\ transportState \in {"CONNECTING", "RECONNECTING"} => connection = "CLOSED"
  /\ transportState = "CONNECTED" => connection = "OPENED"
  /\ Registered /\ Working /\ transportState # "CONNECTED" => device.seen # "STARTED"
  /\ Registered /\ transportState = "CONNECTED" => Told(device)

TransportInv == DeviceInv /\ ConnectionInv

-----------------------------------------------------------------------------
(* The state of a device *)

\* A sound record is no NoDevice.
LEMMA DeviceHasMode ==
  ASSUME NEW d \in Devices
  PROVE  d # NoDevice
BY DEF Devices, NoDevice

\* Outcomes of a fault are among the outcomes.
LEMMA FaultsAre ==
  ASSUME NEW S
  PROVE  Faults(S) \subseteq S
BY DEF Faults

\* What a change of state leaves alone: all but the state, what the transport sees and the status.
LEMMA BecomesFields ==
  ASSUME NEW d \in Devices, NEW new \in DeviceStates
  PROVE  /\ DeviceBecomes(d, new) \in Devices
         /\ DeviceBecomes(d, new).state = new
         /\ DeviceBecomes(d, new).seen = IF new = d.state THEN d.seen ELSE new
         /\ DeviceBecomes(d, new).mode = d.mode /\ DeviceBecomes(d, new).delayed = d.delayed
         /\ DeviceBecomes(d, new).auth = d.auth /\ DeviceBecomes(d, new).error = d.error
         /\ DeviceBecomes(d, new).puts = d.puts /\ DeviceBecomes(d, new).late = d.late
         /\ DeviceBecomes(d, new).authorized = d.authorized
         /\ DeviceBecomes(d, new).msgr = d.msgr /\ DeviceBecomes(d, new).twin = d.twin
         /\ Told(d) => Told(DeviceBecomes(d, new))
<1> DEFINE toldNow == CASE new = "STARTED" -> TRUE
                        [] new = "STOPPED" /\ transportState \in {"CONNECTED", "BEING_DESTROYED"} -> FALSE
                        [] new \in Fails -> FALSE
                        [] OTHER -> d.told
           e == [[d EXCEPT !.seen = new, !.told = toldNow] EXCEPT !.state = new]
<1>1. toldNow \in BOOLEAN
  BY DEF Devices, Fails
<1>2. new = "STARTED" => toldNow = TRUE
  BY DEF Fails
<1>3. DeviceBecomes(d, new) = IF new = d.state THEN d ELSE e
  BY DEF DeviceBecomes, on_device_state_changed_callback
<1> HIDE DEF toldNow
<1>4. e \in Devices
  BY <1>1 DEF Devices
<1>5. /\ e.state = new /\ e.seen = new /\ e.told = toldNow
      /\ e.mode = d.mode /\ e.delayed = d.delayed /\ e.auth = d.auth /\ e.error = d.error
      /\ e.puts = d.puts /\ e.late = d.late /\ e.authorized = d.authorized
      /\ e.msgr = d.msgr /\ e.twin = d.twin
  BY DEF Devices
<1>6. Told(e)
  BY <1>2, <1>5 DEF Told
<1> HIDE DEF e
<1> QED
  BY <1>3, <1>4, <1>5, <1>6

\* A change of what belongs to authentication alone, that neither takes an authorization away nor
\* begins anything while the device is stopped.
LEMMA AuthChange ==
  ASSUME NEW d, Sound(d), NEW e \in Devices,
         e.mode = d.mode, e.state = d.state, e.seen = d.seen, e.delayed = d.delayed, e.told = d.told,
         e.late = d.late, e.msgr = d.msgr, e.twin = d.twin, d.authorized => e.authorized,
         d.state = "STOPPED" => d.late \/ (e.auth = "STOPPED" /\ e.puts = 0),
         Up(d.state) /\ e.auth = "STARTED" => e.late \/ e.authorized
  PROVE  Sound(e) /\ (Told(d) => Told(e))
<1>1. SeenAsIs(e) /\ (Told(d) => Told(e))
  BY DEF Sound, SeenAsIs, Told
<1>2. LinksDown(e) <=> LinksDown(d)
  BY DEF LinksDown
<1>3. Granted(e)
  BY <1>2 DEF Sound, Granted, NotAuthenticating
<1> QED
  BY <1>1, <1>3 DEF Sound

\* A failed authentication.
LEMMA AuthFailsSound ==
  ASSUME NEW d, Sound(d), d.auth # "STOPPED" \/ d.state # "STOPPED" \/ d.late,
         NEW first \in AuthErrors, NEW refresh \in AuthErrors
  PROVE  Sound(AuthFails(d, first, refresh)) /\ (Told(d) => Told(AuthFails(d, first, refresh)))
<1> DEFINE e == AuthFails(d, first, refresh)
<1>1. d \in Devices
  BY DEF Sound
<1>2. e \in Devices
  BY <1>1 DEF AuthFails, Devices, LinkStates
<1>3. /\ e.mode = d.mode /\ e.state = d.state /\ e.seen = d.seen /\ e.delayed = d.delayed
      /\ e.told = d.told /\ e.late = d.late /\ e.msgr = d.msgr /\ e.twin = d.twin
      /\ e.authorized = d.authorized /\ e.auth = "ERROR"
  BY <1>1 DEF AuthFails, Devices
<1>4. d.state = "STOPPED" => d.late
  BY DEF Sound, Granted, NotAuthenticating
<1> HIDE DEF e
<1>5. Sound(e) /\ (Told(d) => Told(e))
  BY <1>2, <1>3, <1>4, AuthChange
<1> QED
  BY <1>5 DEF e

\* create_and_put_SAS_token_to_cbs of an authentication that is going on.
LEMMA PutSound ==
  ASSUME NEW d, Sound(d), d.auth \notin {"STOPPED", "ERROR"}
  PROVE  Keeps(d, create_and_put_SAS_token_to_cbs(d))
<1> DEFINE f == AuthFails(d, "AUTH_FAILED", "SAS_REFRESH_FAILED")
           e == put_SAS_token_to_cbs(d)
<1>1. Sound(f) /\ (Told(d) => Told(f))
  BY AuthFailsSound DEF AuthErrors
<1>2. Sound(e) /\ (Told(d) => Told(e))
  <2>1. d \in Devices
    BY DEF Sound
  <2> DEFINE sent == d.puts + 1
  <2>a. sent \in Nat /\ e = [d EXCEPT !.putting = TRUE, !.puts = sent]
    BY <2>1 DEF put_SAS_token_to_cbs, Devices
  <2> HIDE DEF sent
  <2>2. e \in Devices
    BY <2>1, <2>a DEF Devices
  <2>3. /\ e.mode = d.mode /\ e.state = d.state /\ e.seen = d.seen /\ e.delayed = d.delayed
        /\ e.told = d.told /\ e.late = d.late /\ e.msgr = d.msgr /\ e.twin = d.twin
        /\ e.authorized = d.authorized /\ e.auth = d.auth
    BY <2>1, <2>a DEF Devices
  <2>4. d.state = "STOPPED" => d.late
    BY DEF Sound, Granted, NotAuthenticating
  <2>5. Up(d.state) /\ d.auth = "STARTED" => d.late \/ d.authorized
    BY DEF Sound, Granted
  <2> HIDE DEF e
  <2> QED
    BY <2>2, <2>3, <2>4, <2>5, AuthChange
<1>3. create_and_put_SAS_token_to_cbs(d) \subseteq {e, f}
  BY FaultsAre DEF create_and_put_SAS_token_to_cbs
<1> HIDE DEF e, f
<1> QED
  BY <1>1, <1>2, <1>3 DEF Keeps

\* authentication_do_work of an authentication that is going on.
LEMMA AuthWorksSound ==
  ASSUME NEW d, Sound(d), d.auth \notin {"STOPPED", "ERROR"}
  PROVE  Keeps(d, authentication_do_work(d))
<1>0. d \in Devices
  BY DEF Sound
<1> DEFINE p == [d EXCEPT !.putting = FALSE]
           r == [d EXCEPT !.refreshing = TRUE]
           t == AuthFails(p, "AUTH_TIMEOUT", "SAS_REFRESH_TIMEOUT")
<1>1. /\ p \in Devices /\ p.mode = d.mode /\ p.state = d.state /\ p.seen = d.seen /\ p.delayed = d.delayed
      /\ p.told = d.told /\ p.late = d.late /\ p.msgr = d.msgr /\ p.twin = d.twin
      /\ p.authorized = d.authorized /\ p.auth = d.auth
  BY <1>0 DEF Devices
<1>2. /\ r \in Devices /\ r.mode = d.mode /\ r.state = d.state /\ r.seen = d.seen /\ r.delayed = d.delayed
      /\ r.told = d.told /\ r.late = d.late /\ r.msgr = d.msgr /\ r.twin = d.twin
      /\ r.authorized = d.authorized /\ r.auth = d.auth
  BY <1>0 DEF Devices
<1> HIDE DEF p, r
<1>3. /\ d.state = "STOPPED" => d.late
      /\ Up(d.state) /\ d.auth = "STARTED" => d.late \/ d.authorized
  BY DEF Sound, Granted, NotAuthenticating
<1>4. Sound(p) /\ (Told(d) => Told(p))
  BY <1>1, <1>3, AuthChange
<1>5. Sound(r) /\ (Told(d) => Told(r))
  BY <1>2, <1>3, AuthChange
<1>6. Sound(t) /\ (Told(d) => Told(t))
  BY <1>1, <1>4, AuthFailsSound DEF AuthErrors
<1>7. Keeps(d, create_and_put_SAS_token_to_cbs(d))
  BY PutSound
<1>8. Keeps(d, create_and_put_SAS_token_to_cbs(r))
  BY <1>2, <1>5, PutSound DEF Keeps
<1>9. authentication_do_work(d) \subseteq
        {t, d} \cup create_and_put_SAS_token_to_cbs(r) \cup create_and_put_SAS_token_to_cbs(d)
  BY DEF authentication_do_work, p, r
<1> HIDE DEF t
<1> QED
  BY <1>6, <1>7, <1>8, <1>9 DEF Keeps

\* The answer to a token, of an authentication that goes on or that was stopped meanwhile.
LEMMA AnswerSound ==
  ASSUME NEW d, Sound(d), d.puts > 0, NEW ok \in BOOLEAN
  PROVE  LET e == on_cbs_put_token_complete_callback(d, ok) IN Sound(e) /\ (Told(d) => Told(e))
<1>0. d \in Devices /\ d.puts - 1 \in Nat
  BY DEF Sound, Devices
<1> DEFINE x == [d EXCEPT !.putting = FALSE, !.puts = @ - 1]
           a == [x EXCEPT !.auth = "STARTED", !.refreshing = FALSE, !.authorized = TRUE]
           f == AuthFails(x, "AUTH_FAILED", "SAS_REFRESH_FAILED")
<1>1. /\ x \in Devices /\ x.mode = d.mode /\ x.state = d.state /\ x.seen = d.seen /\ x.delayed = d.delayed
      /\ x.told = d.told /\ x.late = d.late /\ x.msgr = d.msgr /\ x.twin = d.twin
      /\ x.authorized = d.authorized /\ x.auth = d.auth
  BY <1>0 DEF Devices
<1>2. /\ d.state = "STOPPED" => d.late
      /\ Up(d.state) /\ d.auth = "STARTED" => d.late \/ d.authorized
  <2>1. d.puts # 0
    BY DEF Sound, Devices
  <2> QED
    BY <2>1 DEF Sound, Granted, NotAuthenticating
<1>3. on_cbs_put_token_complete_callback(d, ok) = IF ok THEN a ELSE f
  BY DEF on_cbs_put_token_complete_callback
<1> HIDE DEF x
<1>4. Sound(x) /\ (Told(d) => Told(x))
  BY <1>1, <1>2, AuthChange
<1>5. /\ a \in Devices /\ a.mode = x.mode /\ a.state = x.state /\ a.seen = x.seen /\ a.delayed = x.delayed
      /\ a.told = x.told /\ a.late = x.late /\ a.msgr = x.msgr /\ a.twin = x.twin
      /\ a.authorized = TRUE /\ a.auth = "STARTED"
  BY <1>1 DEF Devices, LinkStates
<1>6. Sound(f) /\ (Told(x) => Told(f))
  BY <1>1, <1>2, <1>4, AuthFailsSound DEF AuthErrors
<1> HIDE DEF a, f
<1>7. Sound(a) /\ (Told(x) => Told(a))
  BY <1>1, <1>2, <1>4, <1>5, AuthChange
<1> QED
  BY <1>3, <1>4, <1>6, <1>7

-----------------------------------------------------------------------------
(* Start and stop *)

\* A device whose links are down and whose authentication may not begin by itself can be in any state
\* of rest; what it was does not matter.
LEMMA RestSound ==
  ASSUME NEW d \in Devices, LinksDown(d), NotAuthenticating(d), SeenAsIs(d), d.state = "STOPPED"
  PROVE  Sound(d)
BY DEF Sound, Granted, Up

\* internal_device_stop ends with the device stopped or in an error, and with its links down.
LEMMA InternalStopSound ==
  ASSUME NEW d \in Devices, d.state = "STOPPING"
  PROVE  \A e \in internal_device_stop(d) :
           /\ Sound(e) /\ (Told(d) => Told(e))
           /\ LinksDown(e) /\ e.state \in {"STOPPED", "ERROR_MSG"} /\ e.seen = e.state
<1> DEFINE first == [d EXCEPT !.msgr = "STOPPED"]
           down == [first EXCEPT !.twin = "STOPPED"]
           still == authentication_stop(down)
           refused == [first EXCEPT !.twin = "ERROR"]
           e1 == DeviceBecomes(still, "STOPPED")
           e2 == DeviceBecomes(refused, "ERROR_MSG")
<1>1. internal_device_stop(d) \subseteq {e1, e2}
  BY FaultsAre DEF internal_device_stop
<1>2. /\ first \in Devices /\ first.state = d.state /\ first.seen = d.seen /\ first.told = d.told
      /\ first.msgr = "STOPPED" /\ first.puts = d.puts
  BY DEF Devices, LinkStates
<1> HIDE DEF first
<1>3. /\ down \in Devices /\ down.state = d.state /\ down.seen = d.seen /\ down.told = d.told
      /\ down.msgr = "STOPPED" /\ down.twin = "STOPPED"
  BY <1>2 DEF Devices, LinkStates
<1>4. /\ refused \in Devices /\ refused.state = d.state /\ refused.seen = d.seen /\ refused.told = d.told
      /\ refused.msgr = "STOPPED" /\ refused.twin = "ERROR"
  BY <1>2 DEF Devices, LinkStates
<1> HIDE DEF down, refused
<1>5. /\ still \in Devices /\ still.state = d.state /\ still.seen = d.seen /\ still.told = d.told
      /\ still.msgr = "STOPPED" /\ still.twin = "STOPPED" /\ NotAuthenticating(still)
  <2> DEFINE lately == down.late \/ down.puts > 0
  <2>1. lately \in BOOLEAN /\ still = [down EXCEPT !.auth = "STOPPED", !.late = lately]
    BY <1>3 DEF authentication_stop
  <2>2. ~lately => down.puts = 0
    BY <1>3 DEF Devices
  <2> HIDE DEF lately, still
  <2>3. /\ still \in Devices /\ still.state = down.state /\ still.seen = down.seen /\ still.told = down.told
        /\ still.msgr = down.msgr /\ still.twin = down.twin
        /\ still.auth = "STOPPED" /\ still.late = lately /\ still.puts = down.puts
    BY <1>3, <2>1 DEF Devices, LinkStates
  <2>4. NotAuthenticating(still)
    BY <2>2, <2>3 DEF NotAuthenticating
  <2> QED
    BY <1>3, <2>3, <2>4
<1> HIDE DEF still
<1>6. "STOPPED" \in DeviceStates /\ "ERROR_MSG" \in DeviceStates
  BY DEF DeviceStates, Fails
<1>7. /\ e1 \in Devices /\ e1.state = "STOPPED" /\ e1.seen = "STOPPED" /\ e1.msgr = "STOPPED" /\ e1.twin = "STOPPED"
      /\ e1.auth = still.auth /\ e1.puts = still.puts /\ e1.late = still.late /\ (Told(still) => Told(e1))
  BY <1>5, <1>6, BecomesFields
<1>8. /\ e2 \in Devices /\ e2.state = "ERROR_MSG" /\ e2.seen = "ERROR_MSG" /\ e2.msgr = "STOPPED"
      /\ e2.twin = "ERROR" /\ (Told(refused) => Told(e2))
  BY <1>4, <1>6, BecomesFields
<1> HIDE DEF e1, e2
<1>9. LinksDown(e1) /\ LinksDown(e2) /\ SeenAsIs(e1) /\ SeenAsIs(e2) /\ NotAuthenticating(e1)
  BY <1>5, <1>7, <1>8 DEF LinksDown, Up, SeenAsIs, NotAuthenticating
<1>10. Sound(e1)
  BY <1>7, <1>9, RestSound
<1>11. Sound(e2)
  BY <1>8, <1>9 DEF Sound, Granted, Up
<1>12. (Told(d) => Told(e1)) /\ (Told(d) => Told(e2))
  BY <1>4, <1>5, <1>7, <1>8 DEF Told
<1> QED
  BY <1>1, <1>7, <1>8, <1>9, <1>10, <1>11, <1>12

\* amqp_device_stop, of a device in any state.
LEMMA StopSound ==
  ASSUME NEW d, Sound(d)
  PROVE  \A e \in amqp_device_stop(d) :
           /\ Sound(e) /\ (Told(d) => Told(e))
           /\ LinksDown(e) /\ e.state \in {"STOPPED", "ERROR_MSG"} /\ e.seen = e.state
<1> DEFINE s == DeviceBecomes(d, "STOPPING")
<1>1. d \in Devices /\ "STOPPING" \in DeviceStates
  BY DEF Sound, DeviceStates
<1>2. s \in Devices /\ s.state = "STOPPING" /\ (Told(d) => Told(s))
  BY <1>1, BecomesFields
<1>3. amqp_device_stop(d) = IF d.state = "STOPPED" THEN {d} ELSE internal_device_stop(s)
  BY DEF amqp_device_stop, Sound, Granted
<1>4. d.state = "STOPPED" => LinksDown(d) /\ d.seen = "STOPPED"
  BY DEF Sound, Granted, SeenAsIs
<1> HIDE DEF s
<1>5. \A e \in internal_device_stop(s) :
        /\ Sound(e) /\ (Told(s) => Told(e))
        /\ LinksDown(e) /\ e.state \in {"STOPPED", "ERROR_MSG"} /\ e.seen = e.state
  BY <1>2, InternalStopSound
<1> QED
  BY <1>2, <1>3, <1>4, <1>5

\* amqp_device_delayed_stop leaves the links up until the delay is over.
LEMMA DelayedStopSound ==
  ASSUME NEW d, Sound(d)
  PROVE  Keeps(d, amqp_device_delayed_stop(d))
<1> DEFINE s == DeviceBecomes(d, "STOPPING")
           e == [s EXCEPT !.delayed = TRUE]
<1>1. d \in Devices /\ "STOPPING" \in DeviceStates
  BY DEF Sound, DeviceStates
<1>2. /\ s \in Devices /\ s.state = "STOPPING" /\ s.msgr = d.msgr /\ s.twin = d.twin
      /\ s.late = d.late /\ s.authorized = d.authorized /\ (Told(d) => Told(s))
      /\ d.state # "STOPPING" => s.seen = "STOPPING"
  BY <1>1, BecomesFields
<1>3. amqp_device_delayed_stop(d) = IF d.state \in {"STOPPED", "STOPPING"} THEN {} ELSE {e}
  BY DEF amqp_device_delayed_stop
<1> HIDE DEF s
<1>4. /\ e \in Devices /\ e.state = s.state /\ e.seen = s.seen /\ e.told = s.told /\ e.delayed = TRUE
      /\ e.msgr = s.msgr /\ e.twin = s.twin /\ e.late = s.late /\ e.authorized = s.authorized
  BY <1>2 DEF Devices
<1> HIDE DEF e
<1>5. LinksDown(d) \/ d.late \/ d.authorized
  BY DEF Sound, Granted
<1>6. ASSUME d.state # "STOPPING"
      PROVE  Sound(e) /\ (Told(d) => Told(e))
  <2>1. SeenAsIs(e) /\ (Told(d) => Told(e))
    BY <1>2, <1>4, <1>6 DEF SeenAsIs, Told
  <2>2. Granted(e)
    BY <1>2, <1>4, <1>5 DEF Granted, LinksDown, Up
  <2> QED
    BY <1>4, <2>1, <2>2 DEF Sound
<1> QED
  BY <1>3, <1>6 DEF Keeps

\* amqp_device_start_async: with a certificate the device is authorized at once.
LEMMA StartSound ==
  ASSUME NEW d, Sound(d)
  PROVE  Sound(amqp_device_start_async(d)) /\ (Told(d) => Told(amqp_device_start_async(d)))
<1>1. d \in Devices /\ "STARTING" \in DeviceStates
  BY DEF Sound, DeviceStates
<1> DEFINE may == d.authorized \/ d.mode = "X509"
           s == [d EXCEPT !.delayed = FALSE, !.authorized = may]
           e == DeviceBecomes(s, "STARTING")
<1>2. amqp_device_start_async(d) = IF d.state # "STOPPED" THEN d ELSE e
  BY DEF amqp_device_start_async
<1>3. may \in BOOLEAN
  BY <1>1 DEF Devices
<1>4. (d.mode = "X509" => may = TRUE) /\ (d.authorized => may)
  OBVIOUS
<1> HIDE DEF may
<1>5. /\ s \in Devices /\ s.state = d.state /\ s.seen = d.seen /\ s.told = d.told /\ s.mode = d.mode
      /\ s.auth = d.auth /\ s.puts = d.puts /\ s.late = d.late /\ s.authorized = may
      /\ s.msgr = d.msgr /\ s.twin = d.twin
  BY <1>1, <1>3 DEF Devices
<1> HIDE DEF s
<1>6. /\ e \in Devices /\ e.state = "STARTING" /\ e.mode = d.mode /\ e.auth = d.auth /\ e.late = d.late
      /\ e.authorized = may /\ e.msgr = d.msgr /\ e.twin = d.twin /\ (Told(s) => Told(e))
      /\ d.state # "STARTING" => e.seen = "STARTING"
  BY <1>1, <1>5, BecomesFields
<1> HIDE DEF e
<1>7. ASSUME d.state = "STOPPED"
      PROVE  Sound(e) /\ (Told(d) => Told(e))
  <2>1. SeenAsIs(e) /\ (Told(d) => Told(e))
    BY <1>5, <1>6, <1>7 DEF SeenAsIs, Told
  <2>2. LinksDown(d) /\ (d.late \/ d.auth = "STOPPED")
    BY <1>7 DEF Sound, Granted, NotAuthenticating
  <2>3. LinksDown(e)
    BY <1>6, <2>2 DEF LinksDown
  <2>4. Granted(e)
    BY <1>4, <1>6, <2>2, <2>3 DEF Granted
  <2> QED
    BY <1>6, <2>1, <2>4 DEF Sound
<1> QED
  BY <1>2, <1>7

-----------------------------------------------------------------------------
(* amqp_device_do_work, state by state *)

\* An error is a state a device can be in with its links as they are.
LEMMA ErrorSound ==
  ASSUME NEW d, Sound(d), NEW new \in Fails
  PROVE  /\ Sound(DeviceBecomes(d, new)) /\ (Told(d) => Told(DeviceBecomes(d, new)))
         /\ DeviceBecomes(d, new).mode = d.mode /\ DeviceBecomes(d, new).auth = d.auth
         /\ DeviceBecomes(d, new).late = d.late /\ DeviceBecomes(d, new).authorized = d.authorized
         /\ DeviceBecomes(d, new).state = new
<1> DEFINE e == DeviceBecomes(d, new)
<1>1. d \in Devices /\ new \in DeviceStates
  BY DEF Sound, DeviceStates
<1>2. /\ e \in Devices /\ e.state = new /\ e.seen = IF new = d.state THEN d.seen ELSE new
      /\ e.mode = d.mode /\ e.auth = d.auth /\ e.late = d.late /\ e.authorized = d.authorized
      /\ e.msgr = d.msgr /\ e.twin = d.twin /\ (Told(d) => Told(e))
  BY <1>1, BecomesFields
<1> HIDE DEF e
<1>3. SeenAsIs(e)
  BY <1>2 DEF SeenAsIs, Sound, Fails
<1>4. Granted(e)
  BY <1>2 DEF Granted, Sound, Fails, LinksDown, Up
<1>5. Sound(e)
  BY <1>2, <1>3, <1>4 DEF Sound
<1> QED
  BY <1>2, <1>5 DEF e

\* The authentication of a device that starts: whatever it becomes, either it is authorized by then
\* or its messengers do not start in this step.
LEMMA AuthStartsSound ==
  ASSUME NEW d, Sound(d), d.state = "STARTING"
  PROVE  \A e \in AuthStarts(d) :
           /\ Sound(e) /\ (Told(d) => Told(e))
           /\ e.mode = d.mode /\ (e.state = "STARTING" \/ e.auth # "STARTED")
<1> DEFINE s == authentication_start(d)
           timeout == DeviceBecomes(d, "ERROR_AUTH_TIMEOUT")
           failure == DeviceBecomes(d, "ERROR_AUTH")
<1>1. d \in Devices
  BY DEF Sound
<1>2. /\ s \in Devices /\ s.mode = d.mode /\ s.state = d.state /\ s.seen = d.seen /\ s.delayed = d.delayed
      /\ s.told = d.told /\ s.late = d.late /\ s.msgr = d.msgr /\ s.twin = d.twin
      /\ s.authorized = d.authorized /\ s.auth = "STARTING"
  BY <1>1 DEF Devices, LinkStates, authentication_start
<1> HIDE DEF s
<1>3. Sound(s) /\ (Told(d) => Told(s))
  BY <1>2, AuthChange
<1>4. /\ Sound(timeout) /\ (Told(d) => Told(timeout)) /\ timeout.mode = d.mode /\ timeout.auth = d.auth
      /\ Sound(failure) /\ (Told(d) => Told(failure)) /\ failure.mode = d.mode /\ failure.auth = d.auth
  BY ErrorSound DEF Fails
<1>5. d.auth \in LinkStates
  BY <1>1 DEF Devices
<1>6. /\ d.auth = "STOPPED" => AuthStarts(d) = {s}
      /\ d.auth = "STARTING" => AuthStarts(d) \subseteq {d, timeout}
      /\ d.auth = "ERROR" => AuthStarts(d) \subseteq {timeout, failure}
      /\ d.auth = "STARTED" => AuthStarts(d) = {d}
  BY FaultsAre DEF AuthStarts, s
<1> HIDE DEF timeout, failure
<1> QED
  BY <1>2, <1>3, <1>4, <1>5, <1>6 DEF LinkStates

\* One messenger of a device that has its authorization.
LEMMA MessengerStartsSound ==
  ASSUME NEW d, Sound(d), d.state \in {"STARTING", "ERROR_MSG"}, d.late \/ d.authorized, NEW m \in {"msgr", "twin"}
  PROVE  \A e \in MessengerStarts(d, m) :
           /\ Sound(e) /\ (Told(d) => Told(e))
           /\ e.state \in {"STARTING", "ERROR_MSG"} /\ (e.late \/ e.authorized)
           /\ d[m] = "STARTED" => e = d
<1> DEFINE failed == DeviceBecomes(d, "ERROR_MSG")
           s == [d EXCEPT ![m] = "STARTING"]
<1>1. d \in Devices
  BY DEF Sound
<1>2. s \in Devices /\ s.state = d.state /\ s.seen = d.seen /\ s.told = d.told /\ s.mode = d.mode
      /\ s.auth = d.auth /\ s.late = d.late /\ s.authorized = d.authorized
  <2>1. CASE m = "msgr"
    BY <1>1, <2>1 DEF Devices, LinkStates
  <2>2. CASE m = "twin"
    BY <1>1, <2>2 DEF Devices, LinkStates
  <2> QED
    BY <2>1, <2>2
<1>3. d[m] \in LinkStates
  <2>1. d.msgr \in LinkStates /\ d.twin \in LinkStates
    BY <1>1 DEF Devices
  <2> QED
    BY <2>1
<1> HIDE DEF s
<1>4. Sound(s) /\ (Told(d) => Told(s))
  <2>1. SeenAsIs(s) /\ (Told(d) => Told(s))
    BY <1>2 DEF Sound, SeenAsIs, Told
  <2>2. Granted(s)
    BY <1>2 DEF Sound, Granted
  <2> QED
    BY <1>2, <2>1, <2>2 DEF Sound
<1>5. /\ Sound(failed) /\ (Told(d) => Told(failed)) /\ failed.state = "ERROR_MSG"
      /\ failed.late = d.late /\ failed.authorized = d.authorized
  BY ErrorSound DEF Fails
<1>6. /\ d[m] = "STOPPED" => MessengerStarts(d, m) \subseteq {s, failed}
      /\ d[m] = "STARTING" => MessengerStarts(d, m) \subseteq {d, failed}
      /\ d[m] = "ERROR" => MessengerStarts(d, m) = {failed}
      /\ d[m] = "STARTED" => MessengerStarts(d, m) = {d}
  BY FaultsAre DEF MessengerStarts, s
<1> HIDE DEF failed
<1> QED
  BY <1>2, <1>3, <1>4, <1>5, <1>6 DEF LinkStates

\* Both messengers, the device is started when they both are.
LEMMA MessengersStartSound ==
  ASSUME NEW d, Sound(d), d.state = "STARTING", d.late \/ d.authorized
  PROVE  Keeps(d, MessengersStart(d))
<1>1. ASSUME NEW m \in MessengerStarts(d, "msgr"), NEW t \in MessengerStarts(m, "twin")
      PROVE  /\ Sound(t) /\ (Told(d) => Told(t))
             /\ d.msgr = "STARTED" /\ d.twin = "STARTED" => t = d
  <2>1. /\ Sound(m) /\ (Told(d) => Told(m)) /\ m.state \in {"STARTING", "ERROR_MSG"}
        /\ m.late \/ m.authorized
        /\ d["msgr"] = "STARTED" => m = d
    BY <1>1, MessengerStartsSound
  <2>2. Sound(t) /\ (Told(m) => Told(t)) /\ (m["twin"] = "STARTED" => t = m)
    BY <1>1, <2>1, MessengerStartsSound
  <2> QED
    BY <2>1, <2>2
<1> DEFINE e == DeviceBecomes(d, "STARTED")
<1>2. Sound(e) /\ (Told(d) => Told(e))
  <2>1. d \in Devices /\ "STARTED" \in DeviceStates
    BY DEF Sound, DeviceStates
  <2>2. /\ e \in Devices /\ e.state = "STARTED" /\ e.seen = "STARTED" /\ e.mode = d.mode
        /\ e.auth = d.auth /\ e.late = d.late /\ e.authorized = d.authorized
        /\ e.msgr = d.msgr /\ e.twin = d.twin /\ (Told(d) => Told(e))
    BY <2>1, BecomesFields
  <2> HIDE DEF e
  <2>3. Granted(e)
    BY <2>2 DEF Sound, Granted, Up
  <2> QED
    BY <2>2, <2>3 DEF Sound, SeenAsIs
<1>3. ASSUME NEW x \in MessengersStart(d)
      PROVE  \E m \in MessengerStarts(d, "msgr") : \E t \in MessengerStarts(m, "twin") :
               x = IF d.msgr = "STARTED" /\ d.twin = "STARTED" THEN DeviceBecomes(t, "STARTED") ELSE t
  BY <1>3 DEF MessengersStart
<1> SUFFICES ASSUME NEW x \in MessengersStart(d)
             PROVE  Sound(x) /\ (Told(d) => Told(x))
  BY DEF Keeps
<1>m. PICK m \in MessengerStarts(d, "msgr") : \E t \in MessengerStarts(m, "twin") :
        x = IF d.msgr = "STARTED" /\ d.twin = "STARTED" THEN DeviceBecomes(t, "STARTED") ELSE t
  BY <1>3
<1>4. PICK t \in MessengerStarts(m, "twin") :
        x = IF d.msgr = "STARTED" /\ d.twin = "STARTED" THEN DeviceBecomes(t, "STARTED") ELSE t
  BY <1>m
<1>5. /\ Sound(t) /\ (Told(d) => Told(t))
      /\ d.msgr = "STARTED" /\ d.twin = "STARTED" => t = d
  BY <1>1
<1> QED
  BY <1>2, <1>4, <1>5

\* The work of a device that starts.
LEMMA WorksStartingSound ==
  ASSUME NEW d, Sound(d), d.state = "STARTING"
  PROVE  Keeps(d, WorksStarting(d))
<1> DEFINE A == IF d.mode = "CBS" THEN AuthStarts(d) ELSE {d}
<1>1. ASSUME NEW a \in A
      PROVE  /\ Sound(a) /\ (Told(d) => Told(a)) /\ a.mode = d.mode
             /\ d.mode # "CBS" => a = d
             /\ a.state = "STARTING" \/ a.auth # "STARTED"
  BY <1>1, AuthStartsSound
<1>2. ASSUME NEW x \in WorksStarting(d)
      PROVE  \E a \in A : x \in IF a.mode = "X509" \/ a.auth = "STARTED" THEN MessengersStart(a) ELSE {a}
  BY <1>2 DEF WorksStarting
<1> HIDE DEF A
<1> SUFFICES ASSUME NEW x \in WorksStarting(d)
             PROVE  Sound(x) /\ (Told(d) => Told(x))
  BY DEF Keeps
<1>3. PICK a \in A : x \in IF a.mode = "X509" \/ a.auth = "STARTED" THEN MessengersStart(a) ELSE {a}
  BY <1>2
<1>4. Sound(a) /\ (Told(d) => Told(a))
  BY <1>1
<1>5. CASE a.mode = "X509" \/ a.auth = "STARTED"
  <2>1. a.state = "STARTING"
    BY <1>1, <1>5
  <2>2. a.late \/ a.authorized
    BY <1>4, <1>5, <2>1 DEF Sound, Granted, Up
  <2>3. x \in MessengersStart(a)
    BY <1>3, <1>5
  <2>4. Keeps(a, MessengersStart(a))
    BY <1>4, <2>1, <2>2, MessengersStartSound
  <2> QED
    BY <1>4, <2>3, <2>4 DEF Keeps
<1>6. CASE ~(a.mode = "X509" \/ a.auth = "STARTED")
  BY <1>3, <1>4, <1>6
<1> QED
  BY <1>5, <1>6

\* The work of a device that is started: an error is a state of its own.
LEMMA WorksStartedSound ==
  ASSUME NEW d, Sound(d)
  PROVE  Keeps(d, {WorksStarted(d)})
<1>1. WorksStarted(d) = d \/ \E new \in Fails : WorksStarted(d) = DeviceBecomes(d, new)
  BY DEF WorksStarted, Fails
<1>2. \A new \in Fails : Sound(DeviceBecomes(d, new)) /\ (Told(d) => Told(DeviceBecomes(d, new)))
  BY ErrorSound
<1> QED
  BY <1>1, <1>2 DEF Keeps

\* amqp_device_do_work keeps a device sound, whatever state it is in.
LEMMA DoWorkSound ==
  ASSUME NEW d, Sound(d), NEW elapsed \in BOOLEAN
  PROVE  Keeps(d, amqp_device_do_work(d, elapsed))
<1> DEFINE W == CASE d.state = "STOPPING" -> WorksStopping(d, elapsed)
                  [] d.state = "STARTING" -> WorksStarting(d)
                  [] d.state = "STARTED" -> {WorksStarted(d)}
                  [] OTHER -> {d}
<1>1. Keeps(d, W)
  <2>1. CASE d.state = "STOPPING"
    <3> DEFINE stopped == IF elapsed THEN internal_device_stop(d) ELSE {d}
               failed == DeviceBecomes(d, "ERROR_MSG")
    <3>1. W \subseteq stopped \cup {failed}
      BY <2>1, FaultsAre DEF WorksStopping
    <3>2. \A e \in stopped : Sound(e) /\ (Told(d) => Told(e))
      BY <2>1, InternalStopSound DEF Sound
    <3>3. Sound(failed) /\ (Told(d) => Told(failed))
      BY ErrorSound DEF Fails
    <3> QED
      BY <3>1, <3>2, <3>3 DEF Keeps
  <2>2. CASE d.state = "STARTING"
    <3>1. W = WorksStarting(d)
      BY <2>2
    <3> QED
      BY <2>2, <3>1, WorksStartingSound
  <2>3. CASE d.state = "STARTED"
    <3>1. W = {WorksStarted(d)}
      BY <2>3
    <3> QED
      BY <3>1, WorksStartedSound
  <2>4. CASE d.state \notin {"STOPPING", "STARTING", "STARTED"}
    <3>1. W = {d}
      BY <2>4
    <3> QED
      BY <3>1 DEF Keeps
  <2> QED
    BY <2>1, <2>2, <2>3, <2>4
<1>2. ASSUME NEW x \in amqp_device_do_work(d, elapsed)
      PROVE  \E w \in W : x \in IF w.mode = "CBS" /\ w.auth \notin {"STOPPED", "ERROR"}
                                THEN authentication_do_work(w) ELSE {w}
  BY <1>2 DEF amqp_device_do_work
<1> HIDE DEF W
<1> SUFFICES ASSUME NEW x \in amqp_device_do_work(d, elapsed)
             PROVE  Sound(x) /\ (Told(d) => Told(x))
  BY DEF Keeps
<1>3. PICK w \in W : x \in IF w.mode = "CBS" /\ w.auth \notin {"STOPPED", "ERROR"}
                           THEN authentication_do_work(w) ELSE {w}
  BY <1>2
<1>4. Sound(w) /\ (Told(d) => Told(w))
  BY <1>1 DEF Keeps
<1>5. w.auth \notin {"STOPPED", "ERROR"} => Keeps(w, authentication_do_work(w))
  BY <1>4, AuthWorksSound
<1> QED
  BY <1>3, <1>4, <1>5 DEF Keeps

\* The links of a messenger open or fail; those of a stopped device are down already.
LEMMA MessengersChangeSound ==
  ASSUME NEW d, Sound(d)
  PROVE  Keeps(d, MessengersChange(d))
<1>1. d \in Devices
  BY DEF Sound
<1>2. ASSUME NEW m \in {"msgr", "twin"}, Up(d[m]), NEW to \in {"STARTED", "ERROR"}
      PROVE  Sound([d EXCEPT ![m] = to]) /\ (Told(d) => Told([d EXCEPT ![m] = to]))
  <2> DEFINE e == [d EXCEPT ![m] = to]
  <2>1. /\ e \in Devices /\ e.state = d.state /\ e.seen = d.seen /\ e.told = d.told /\ e.mode = d.mode
        /\ e.auth = d.auth /\ e.late = d.late /\ e.authorized = d.authorized /\ e.delayed = d.delayed
    <3>1. CASE m = "msgr"
      BY <1>1, <3>1 DEF Devices, LinkStates
    <3>2. CASE m = "twin"
      BY <1>1, <3>2 DEF Devices, LinkStates
    <3> QED
      BY <3>1, <3>2
  <2>2. ~LinksDown(d)
    <3>1. d["msgr"] = d.msgr /\ d["twin"] = d.twin
      OBVIOUS
    <3> QED
      BY <1>2, <3>1 DEF LinksDown
  <2> HIDE DEF e
  <2>3. SeenAsIs(e) /\ (Told(d) => Told(e))
    BY <2>1 DEF Sound, SeenAsIs, Told
  <2>4. Granted(e)
    BY <2>1, <2>2 DEF Sound, Granted
  <2>5. Sound(e)
    BY <2>1, <2>3, <2>4 DEF Sound
  <2> QED
    BY <2>3, <2>5 DEF e
<1>3. ASSUME NEW x \in MessengersChange(d)
      PROVE  \E m \in {"msgr", "twin"} : \E to \in {"STARTED", "ERROR"} : Up(d[m]) /\ x = [d EXCEPT ![m] = to]
  <2>1. PICK m \in {"msgr", "twin"} :
          x \in CASE d[m] = "STARTING" -> {[d EXCEPT ![m] = "STARTED"]} \cup Faults({[d EXCEPT ![m] = "ERROR"]})
                  [] d[m] = "STARTED" -> Faults({[d EXCEPT ![m] = "ERROR"]})
                  [] OTHER -> {}
    BY <1>3 DEF MessengersChange
  <2>2. CASE d[m] = "STARTING"
    <3>1. x \in {[d EXCEPT ![m] = "STARTED"], [d EXCEPT ![m] = "ERROR"]}
      BY <2>1, <2>2, FaultsAre
    <3> QED
      BY <2>2, <3>1 DEF Up
  <2>3. CASE d[m] = "STARTED"
    <3>1. x = [d EXCEPT ![m] = "ERROR"]
      BY <2>1, <2>3, FaultsAre
    <3> QED
      BY <2>3, <3>1 DEF Up
  <2>4. CASE d[m] \notin {"STARTING", "STARTED"}
    BY <2>1, <2>4
  <2> QED
    BY <2>2, <2>3, <2>4
<1> QED
  BY <1>2, <1>3 DEF Keeps

-----------------------------------------------------------------------------
(* What the transport does with its device *)

\* The records of a device that differ in counters and in what belongs to methods alone.
SameWork(d, e) ==
  /\ e \in Devices
  /\ e.mode = d.mode /\ e.state = d.state /\ e.seen = d.seen /\ e.delayed = d.delayed /\ e.told = d.told
  /\ e.late = d.late /\ e.msgr = d.msgr /\ e.twin = d.twin
  /\ e.auth = d.auth /\ e.puts = d.puts /\ e.authorized = d.authorized

\* Counters and methods are no part of what makes a device sound.
LEMMA SameWorkSound ==
  ASSUME NEW d, Sound(d), NEW e, SameWork(d, e)
  PROVE  Sound(e) /\ (Told(d) => Told(e))
<1>1. /\ d.state = "STOPPED" => d.late \/ (e.auth = "STOPPED" /\ e.puts = 0)
      /\ Up(d.state) /\ e.auth = "STARTED" => e.late \/ e.authorized
  BY DEF SameWork, Sound, Granted, NotAuthenticating
<1> QED
  BY <1>1, AuthChange DEF SameWork

\* Counting and forgetting failures.
LEMMA CountersSame ==
  ASSUME NEW d \in Devices, NEW n \in Nat, NEW k \in Nat
  PROVE  /\ SameWork(d, [d EXCEPT !.number_of_previous_failures = n])
         /\ SameWork(d, [d EXCEPT !.number_of_send_event_complete_failures = n])
         /\ SameWork(d, [d EXCEPT !.number_of_previous_failures = n, !.number_of_send_event_complete_failures = k])
BY DEF SameWork, Devices

\* Subscribing to methods and ending it.
LEMMA MethodsSame ==
  ASSUME NEW d \in Devices
  PROVE  /\ SameWork(d, iothubtransportamqp_methods_unsubscribe(d))
         /\ SameWork(d, on_methods_unsubscribed(d))
         /\ SameWork(d, [d EXCEPT !.subscribe_methods_needed = TRUE, !.subscribed_for_methods = FALSE])
         /\ SameWork(d, [iothubtransportamqp_methods_unsubscribe(d) EXCEPT
                           !.subscribe_methods_needed = FALSE, !.subscribed_for_methods = FALSE])
         /\ \A s \in subscribe_methods(d).done \cup subscribe_methods(d).failed : SameWork(d, s)
<1> DEFINE u == iothubtransportamqp_methods_unsubscribe(d)
           s == [d EXCEPT !.methods = "SUBSCRIBED"]
           t == [s EXCEPT !.subscribed_for_methods = TRUE]
<1>1. SameWork(d, u) /\ u \in Devices
  BY DEF iothubtransportamqp_methods_unsubscribe, SameWork, Devices
<1>2. SameWork(d, s)
  BY DEF SameWork, Devices
<1>3. SameWork(d, [d EXCEPT !.subscribe_methods_needed = TRUE, !.subscribed_for_methods = FALSE])
  BY DEF SameWork, Devices
<1>4. on_methods_unsubscribed(d) = [u EXCEPT !.subscribed_for_methods = FALSE]
  BY DEF on_methods_unsubscribed
<1>5. /\ iothubtransportamqp_methods_subscribe(d) \subseteq {s}
      /\ subscribe_methods(d).done = IF d.subscribed_for_methods THEN {d}
           ELSE {[x EXCEPT !.subscribed_for_methods = TRUE] : x \in iothubtransportamqp_methods_subscribe(d)}
      /\ subscribe_methods(d).failed \subseteq {d}
  BY FaultsAre DEF iothubtransportamqp_methods_subscribe, subscribe_methods
<1> HIDE DEF u, s
<1>6. SameWork(u, [u EXCEPT !.subscribed_for_methods = FALSE])
  BY <1>1 DEF SameWork, Devices
<1>7. SameWork(u, [u EXCEPT !.subscribe_methods_needed = FALSE, !.subscribed_for_methods = FALSE])
  BY <1>1 DEF SameWork, Devices
<1>8. SameWork(s, t)
  BY <1>2 DEF SameWork, Devices
<1>9. /\ SameWork(d, [u EXCEPT !.subscribed_for_methods = FALSE])
      /\ SameWork(d, [u EXCEPT !.subscribe_methods_needed = FALSE, !.subscribed_for_methods = FALSE])
      /\ SameWork(d, t) /\ SameWork(d, d)
  BY <1>1, <1>2, <1>6, <1>7, <1>8 DEF SameWork
<1>10. subscribe_methods(d).done \subseteq {d, t} /\ subscribe_methods(d).failed \subseteq {d}
  BY <1>5
<1> HIDE DEF t
<1>11. \A x \in subscribe_methods(d).done \cup subscribe_methods(d).failed : SameWork(d, x)
  BY <1>9, <1>10
<1> QED
  BY <1>1, <1>3, <1>4, <1>9, <1>11 DEF u

\* The device is stopped before the connection goes, its links are down.
LEMMA PreparedSound ==
  ASSUME NEW d, Sound(d)
  PROVE  \A e \in prepare_device_for_connection_retry(d) :
           Sound(e) /\ LinksDown(e) /\ e.state \in {"STOPPED", "ERROR_MSG"} /\ e.seen = e.state
<1> DEFINE first == [iothubtransportamqp_methods_unsubscribe(d) EXCEPT !.subscribed_for_methods = FALSE]
           S == IF d.seen # "STOPPED" THEN amqp_device_stop(first) ELSE {first}
<1>1. d \in Devices
  BY DEF Sound
<1>2. SameWork(d, first)
  BY <1>1, MethodsSame DEF on_methods_unsubscribed
<1>3. Sound(first)
  BY <1>2, SameWorkSound
<1>4. \A s \in S : Sound(s) /\ LinksDown(s) /\ s.state \in {"STOPPED", "ERROR_MSG"} /\ s.seen = s.state
  <2>1. CASE d.seen # "STOPPED"
    BY <1>3, <2>1, StopSound
  <2>2. CASE d.seen = "STOPPED"
    <3>1. first.seen = "STOPPED" /\ first.state = "STOPPED"
      BY <1>2, <2>2 DEF SameWork, Sound, SeenAsIs
    <3>2. LinksDown(first)
      BY <1>3, <3>1 DEF Sound, Granted
    <3> QED
      BY <1>3, <2>2, <3>1, <3>2
  <2> QED
    BY <2>1, <2>2
<1>5. \A e \in prepare_device_for_connection_retry(d) :
        \E s \in S : e = [s EXCEPT !.number_of_previous_failures = 0, !.number_of_send_event_complete_failures = 0]
  BY DEF prepare_device_for_connection_retry
<1> HIDE DEF first, S
<1> SUFFICES ASSUME NEW e \in prepare_device_for_connection_retry(d)
             PROVE  Sound(e) /\ LinksDown(e) /\ e.state \in {"STOPPED", "ERROR_MSG"} /\ e.seen = e.state
  OBVIOUS
<1>6. PICK s \in S : e = [s EXCEPT !.number_of_previous_failures = 0, !.number_of_send_event_complete_failures = 0]
  BY <1>5
<1>7. s \in Devices /\ Sound(s)
  BY <1>4 DEF Sound
<1>8. 0 \in Nat
  OBVIOUS
<1>9. SameWork(s, e)
  BY <1>6, <1>7, <1>8, CountersSame
<1>10. Sound(e)
  BY <1>7, <1>9, SameWorkSound
<1> QED
  BY <1>4, <1>9, <1>10 DEF SameWork, LinksDown

\* Without the connection nothing is authorized; a device at rest stays sound.
LEMMA DisconnectedSound ==
  ASSUME NEW d, Sound(d), LinksDown(d), d.state \in {"STOPPED", "ERROR_MSG"}, d.seen = d.state
  PROVE  \A e \in amqp_connection_destroy(d) : Sound(e) /\ e.seen \in {"STOPPED", "ERROR_MSG"}
<1> DEFINE gone(x) == [x EXCEPT !.puts = 0, !.authorized = FALSE]
           f == on_cbs_put_token_complete_callback(d, FALSE)
<1>1. ASSUME NEW x \in Devices, LinksDown(x), x.state \in {"STOPPED", "ERROR_MSG"}, x.seen = x.state,
             x.state = "STOPPED" => x.late \/ x.auth = "STOPPED"
      PROVE  Sound(gone(x)) /\ gone(x).seen = x.seen
  <2> DEFINE e == gone(x)
  <2>1. /\ e \in Devices /\ e.state = x.state /\ e.seen = x.seen /\ e.puts = 0 /\ e.auth = x.auth
        /\ e.late = x.late /\ e.msgr = x.msgr /\ e.twin = x.twin
    BY <1>1 DEF Devices
  <2> HIDE DEF e
  <2>2. LinksDown(e)
    BY <1>1, <2>1 DEF LinksDown
  <2>3. NotAuthenticating(e) \/ e.state = "ERROR_MSG"
    BY <1>1, <2>1 DEF NotAuthenticating
  <2>4. Sound(e)
    BY <1>1, <2>1, <2>2, <2>3 DEF Sound, SeenAsIs, Granted, Up
  <2> QED
    BY <2>1, <2>4 DEF e
<1>2. d \in Devices /\ (d.state = "STOPPED" => d.late \/ (d.auth = "STOPPED" /\ d.puts = 0))
  BY DEF Sound, Granted, NotAuthenticating
<1>3. Sound(gone(d)) /\ gone(d).seen = d.seen
  BY <1>1, <1>2
<1>4. ASSUME d.puts # 0
      PROVE  Sound(gone(f)) /\ gone(f).seen = d.seen
  <2>1. d.puts > 0 /\ d.puts - 1 \in Nat
    BY <1>2, <1>4 DEF Devices
  <2>2. Sound(f)
    BY <2>1, AnswerSound
  <2> DEFINE less == d.puts - 1
             x == [d EXCEPT !.putting = FALSE, !.puts = less]
  <2>3. f = AuthFails(x, "AUTH_FAILED", "SAS_REFRESH_FAILED")
    BY DEF on_cbs_put_token_complete_callback
  <2>4. less \in Nat
    BY <2>1
  <2> HIDE DEF less
  <2>5. /\ x \in Devices /\ x.state = d.state /\ x.seen = d.seen /\ x.late = d.late /\ x.msgr = d.msgr /\ x.twin = d.twin
    BY <1>2, <2>4 DEF Devices
  <2> HIDE DEF x
  <2>6. f.state = d.state /\ f.seen = d.seen /\ f.late = d.late /\ f.msgr = d.msgr /\ f.twin = d.twin
    BY <2>3, <2>5 DEF AuthFails, Devices
  <2> HIDE DEF f
  <2>7. LinksDown(f) /\ f \in Devices
    BY <2>2, <2>6 DEF LinksDown, Sound
  <2>8. f.state = "STOPPED" => f.late
    BY <1>2, <1>4, <2>6
  <2> QED
    BY <1>1, <2>6, <2>7, <2>8
<1>5. \A e \in amqp_connection_destroy(d) : e = gone(d) \/ (d.puts # 0 /\ e = gone(f))
  BY DEF amqp_connection_destroy
<1> HIDE DEF gone, f
<1> QED
  BY <1>3, <1>4, <1>5

\* A failure that is counted, up to the limit.
LEMMA AsFailedSame ==
  ASSUME NEW d \in Devices
  PROVE  SameWork(d, AsFailed(d))
<1> DEFINE n == IF d.number_of_previous_failures < MaxFailures THEN d.number_of_previous_failures + 1
                ELSE MaxFailures
<1>1. n \in Nat
  BY AmqpAssumption DEF Devices
<1>2. AsFailed(d) = [d EXCEPT !.number_of_previous_failures = n]
  BY DEF AsFailed
<1> HIDE DEF n
<1>3. 0 \in Nat
  OBVIOUS
<1> QED
  BY <1>1, <1>2, <1>3, CountersSame

\* What the transport does to the device before the device works.
DeviceTurn(d) ==
  CASE d.seen = "STARTED" -> ServesDevice(d)
    [] d.seen = "STOPPED" -> [done |-> {amqp_device_start_async(d)}, failed |-> {}]
    [] d.seen \in {"STARTING", "STOPPING"} -> WaitsForDevice(d)
    [] OTHER -> RecoversDevice(d)

\* Both outcomes of it keep a device sound.
LEMMA DeviceTurnSound ==
  ASSUME NEW d, Sound(d)
  PROVE  Keeps(d, DeviceTurn(d).done) /\ Keeps(d, DeviceTurn(d).failed)
<1>0. d \in Devices
  BY DEF Sound
<1>1. CASE d.seen = "STARTED"
  <2> DEFINE s == IF d.subscribe_methods_needed THEN subscribe_methods(d) ELSE [done |-> {d}, failed |-> {}]
  <2>1. \A x \in s.done \cup s.failed : SameWork(d, x)
    BY <1>0, MethodsSame DEF SameWork
  <2>2. /\ DeviceTurn(d).done = {[x EXCEPT !.number_of_previous_failures = 0] : x \in s.done}
        /\ DeviceTurn(d).failed = {AsFailed(x) : x \in s.failed \cup Faults(s.done)}
    <3>1. DeviceTurn(d) = ServesDevice(d)
      BY <1>1 DEF DeviceTurn
    <3> HIDE DEF s
    <3>2. ServesDevice(d) = [done |-> {[x EXCEPT !.number_of_previous_failures = 0] : x \in s.done},
                             failed |-> {AsFailed(x) : x \in s.failed \cup Faults(s.done)}]
      BY DEF ServesDevice, s
    <3> QED
      BY <3>1, <3>2
  <2> HIDE DEF s
  <2>3. ASSUME NEW x \in s.done \cup s.failed
        PROVE  /\ Sound([x EXCEPT !.number_of_previous_failures = 0]) /\ Sound(AsFailed(x))
               /\ Told(d) => Told([x EXCEPT !.number_of_previous_failures = 0]) /\ Told(AsFailed(x))
    <3>1. x \in Devices /\ Sound(x) /\ (Told(d) => Told(x))
      BY <2>1, <2>3, SameWorkSound DEF SameWork
    <3>2. 0 \in Nat
      OBVIOUS
    <3>3. SameWork(x, [x EXCEPT !.number_of_previous_failures = 0]) /\ SameWork(x, AsFailed(x))
      BY <3>1, <3>2, CountersSame, AsFailedSame
    <3> QED
      BY <3>1, <3>3, SameWorkSound
  <2>4. \A x \in s.failed \cup Faults(s.done) : x \in s.done \cup s.failed
    BY FaultsAre
  <2> QED
    BY <2>2, <2>3, <2>4 DEF Keeps
<1>2. CASE d.seen = "STOPPED"
  <2>1. DeviceTurn(d) = [done |-> {amqp_device_start_async(d)}, failed |-> {}]
    BY <1>2 DEF DeviceTurn
  <2>2. DeviceTurn(d).done = {amqp_device_start_async(d)} /\ DeviceTurn(d).failed = {}
    BY <2>1
  <2> QED
    BY <2>2, StartSound DEF Keeps
<1>3. CASE d.seen \in {"STARTING", "STOPPING"}
  <2> DEFINE e == [d EXCEPT !.seen = "ERROR_AUTH"]
  <2>1. DeviceTurn(d) = [done |-> {d}, failed |-> Faults({e})]
    BY <1>3 DEF DeviceTurn, WaitsForDevice
  <2>2. DeviceTurn(d).done = {d} /\ DeviceTurn(d).failed \subseteq {e}
    BY <2>1, FaultsAre
  <2>3. /\ e \in Devices /\ e.seen = "ERROR_AUTH" /\ e.state = d.state /\ e.delayed = d.delayed /\ e.mode = d.mode
        /\ e.late = d.late /\ e.msgr = d.msgr /\ e.twin = d.twin
        /\ e.auth = d.auth /\ e.puts = d.puts /\ e.authorized = d.authorized
    BY <1>0 DEF Devices, DeviceStates, Fails
  <2> HIDE DEF e
  <2>4. SeenAsIs(e) /\ Told(e)
    BY <1>3, <2>3 DEF Sound, SeenAsIs, Told
  <2>5. Granted(e)
    BY <2>3 DEF Sound, Granted, LinksDown, NotAuthenticating
  <2> QED
    BY <2>2, <2>3, <2>4, <2>5 DEF Keeps, Sound
<1>4. CASE d.seen \notin {"STARTED", "STOPPED", "STARTING", "STOPPING"}
  <2> DEFINE counted == AsFailed(d)
             stopped == IF counted.number_of_previous_failures >= MaxFailures THEN {}
                        ELSE amqp_device_delayed_stop(counted)
  <2>1. Sound(counted) /\ (Told(d) => Told(counted))
    BY <1>0, AsFailedSame, SameWorkSound
  <2>2. DeviceTurn(d) = [done |-> stopped, failed |-> IF stopped = {} THEN {counted} ELSE {}]
    BY <1>4 DEF DeviceTurn, RecoversDevice
  <2>3. DeviceTurn(d).done = stopped /\ DeviceTurn(d).failed \subseteq {counted}
    BY <2>2
  <2>4. stopped \subseteq amqp_device_delayed_stop(counted)
    OBVIOUS
  <2> HIDE DEF counted, stopped
  <2>5. Keeps(counted, amqp_device_delayed_stop(counted))
    BY <2>1, DelayedStopSound
  <2> QED
    BY <2>1, <2>3, <2>4, <2>5 DEF Keeps
<1> QED
  BY <1>1, <1>2, <1>3, <1>4

\* IoTHubTransport_AMQP_Common_Device_DoWork keeps a device sound.
LEMMA DeviceDoWorkSound ==
  ASSUME NEW d, Sound(d), NEW elapsed \in BOOLEAN
  PROVE  /\ Keeps(d, IoTHubTransport_AMQP_Common_Device_DoWork(d, elapsed).done)
         /\ Keeps(d, IoTHubTransport_AMQP_Common_Device_DoWork(d, elapsed).failed)
<1> DEFINE worked(S) == UNION {amqp_device_do_work(x, elapsed) : x \in S}
           r == DeviceTurn(d)
<1>1. IoTHubTransport_AMQP_Common_Device_DoWork(d, elapsed) = [done |-> worked(r.done), failed |-> worked(r.failed)]
  BY DEF IoTHubTransport_AMQP_Common_Device_DoWork, DeviceTurn
<1>2. ASSUME NEW S, Keeps(d, S)
      PROVE  Keeps(d, worked(S))
  <2> SUFFICES ASSUME NEW e \in worked(S)
               PROVE  Sound(e) /\ (Told(d) => Told(e))
    BY DEF Keeps
  <2>1. PICK x \in S : e \in amqp_device_do_work(x, elapsed)
    OBVIOUS
  <2>2. Sound(x) /\ (Told(d) => Told(x))
    BY <1>2 DEF Keeps
  <2>3. Keeps(x, amqp_device_do_work(x, elapsed))
    BY <2>2, DoWorkSound
  <2> QED
    BY <2>1, <2>2, <2>3 DEF Keeps
<1>3. Keeps(d, r.done) /\ Keeps(d, r.failed)
  BY DeviceTurnSound
<1>4. Keeps(d, worked(r.done)) /\ Keeps(d, worked(r.failed))
  BY <1>2, <1>3
<1> HIDE DEF worked, r
<1> QED
  BY <1>1, <1>4

-----------------------------------------------------------------------------
(* The transport *)

\* A step that keeps the device sound and leaves the transport where it is, or requires a
\* reconnection, keeps the invariant.
LEMMA KeepsTransport ==
  ASSUME TransportInv, Registered, Sound(device'), Told(device) => Told(device'), calm' = calm,
         transportState = "CONNECTED" /\ connection = "OPENED",
         transportState' \in {transportState, "RECONNECTION_REQUIRED"}, connection' = connection
  PROVE  TransportInv'
<1>1. Registered'
  BY DeviceHasMode DEF Sound, Registered, NoDevice
<1>2. DeviceInv'
  BY <1>1 DEF DeviceInv
<1>3. Told(device)
  BY DEF TransportInv, ConnectionInv
<1>4. ConnectionInv'
  BY <1>3 DEF TransportInv, ConnectionInv, TransportStates, Working
<1> QED
  BY <1>2, <1>4 DEF TransportInv

\* With an open connection the transport that works is connected.
LEMMA WorkingConnected ==
  ASSUME TransportInv, Working, connection = "OPENED"
  PROVE  transportState = "CONNECTED"
BY DEF TransportInv, ConnectionInv, Working, TransportStates

\* Calls of the layer above, without a word of uAMQP.
LEMMA CallsStep ==
  ASSUME TransportInv, Registered, NEW new, device' = new, SameWork(device, new),
         UNCHANGED <<transportState, calm, connection>>
  PROVE  TransportInv'
<1>1. Sound(device)
  BY DEF TransportInv, DeviceInv
<1>2. Sound(new) /\ (Told(device) => Told(new)) /\ new.seen = device.seen
  BY <1>1, SameWorkSound DEF SameWork
<1>3. DeviceInv'
  BY <1>2 DEF DeviceInv
<1>4. ConnectionInv'
  BY <1>2 DEF TransportInv, ConnectionInv, Working
<1> QED
  BY <1>3, <1>4 DEF TransportInv

\* No device at all.
LEMMA UnregisteredStep ==
  ASSUME TransportInv, device' = NoDevice, calm' = calm,
         UNCHANGED <<transportState, connection>> \/ transportState' = "BEING_DESTROYED"
  PROVE  TransportInv'
BY DEF TransportInv, DeviceInv, ConnectionInv, Registered, Working, TransportStates

\* The reconnection begins with the device stopped.
LEMMA PrepareStep ==
  ASSUME TransportInv, prepare_for_connection_retry
  PROVE  TransportInv'
<1>1. transportState' = "READY_FOR_RECONNECTION" /\ connection' = "none" /\ calm' = calm
  BY DEF prepare_for_connection_retry
<1>2. ASSUME Registered
      PROVE  Sound(device') /\ device'.seen \in {"STOPPED", "ERROR_MSG"}
  <2>1. Sound(device)
    BY <1>2 DEF TransportInv, DeviceInv
  <2>2. device' \in UNION {amqp_connection_destroy(s) : s \in prepare_device_for_connection_retry(device)}
    BY <1>2 DEF prepare_for_connection_retry
  <2>3. PICK s \in prepare_device_for_connection_retry(device) : device' \in amqp_connection_destroy(s)
    BY <2>2
  <2>4. Sound(s) /\ LinksDown(s) /\ s.state \in {"STOPPED", "ERROR_MSG"} /\ s.seen = s.state
    BY <2>1, PreparedSound
  <2> QED
    BY <2>3, <2>4, DisconnectedSound
<1>3. ASSUME ~Registered
      PROVE  ~Registered'
  BY <1>3 DEF prepare_for_connection_retry, Registered
<1>4. DeviceInv'
  BY <1>2, <1>3 DEF DeviceInv
<1>5. ConnectionInv'
  BY <1>1, <1>2, <1>3 DEF TransportInv, ConnectionInv, TransportStates, Registered
<1> QED
  BY <1>4, <1>5 DEF TransportInv

\* A record without its status.
LEMMA NotToldSound ==
  ASSUME NEW d, Sound(d)
  PROVE  Sound([d EXCEPT !.told = FALSE])
<1> DEFINE e == [d EXCEPT !.told = FALSE]
<1>1. d \in Devices
  BY DEF Sound
<1>2. /\ e \in Devices /\ e.mode = d.mode /\ e.state = d.state /\ e.seen = d.seen /\ e.delayed = d.delayed
      /\ e.late = d.late /\ e.msgr = d.msgr /\ e.twin = d.twin
      /\ e.auth = d.auth /\ e.puts = d.puts /\ e.authorized = d.authorized
  BY <1>1 DEF Devices
<1> HIDE DEF e
<1>3. SeenAsIs(e) /\ Granted(e)
  BY <1>2 DEF Sound, SeenAsIs, Granted, LinksDown, NotAuthenticating
<1> QED
  BY <1>2, <1>3 DEF Sound, e

\* The retries expire, or the connection changes.
LEMMA ConnectionStep ==
  ASSUME TransportInv, RetriesExpire \/ establish_amqp_connection \/ on_amqp_connection_state_changed
  PROVE  TransportInv'
<1>1. /\ device' \in {device, [device EXCEPT !.told = FALSE]}
      /\ device' # device => Registered /\ transportState' \in {"NO_MORE_RETRIES", "RECONNECTION_REQUIRED"}
      /\ calm' = calm
  BY DEF RetriesExpire, establish_amqp_connection, on_amqp_connection_state_changed
<1>2. DeviceInv'
  <2>1. CASE device' = device
    BY <2>1 DEF TransportInv, DeviceInv, Registered
  <2>2. CASE device' # device
    BY <1>1, <2>2, NotToldSound DEF TransportInv, DeviceInv
  <2> QED
    BY <2>1, <2>2
<1>3. CASE transportState' \in {"NO_MORE_RETRIES", "RECONNECTION_REQUIRED"}
  <2>1. ConnectionInv'
    BY <1>1, <1>3 DEF TransportInv, ConnectionInv, TransportStates, Working
  <2> QED
    BY <1>2, <2>1 DEF TransportInv
<1>4. CASE transportState' \notin {"NO_MORE_RETRIES", "RECONNECTION_REQUIRED"}
  <2>1. device' = device
    BY <1>1, <1>4
  <2>2. \/ /\ establish_amqp_connection /\ connection = "none" /\ connection' = "CLOSED"
           /\ transportState' \in {"CONNECTING", "RECONNECTING"}
        \/ /\ on_amqp_connection_state_changed /\ connection = "CLOSED" /\ connection' = "OPENED"
           /\ transportState' = "CONNECTED"
    BY <1>4 DEF RetriesExpire, establish_amqp_connection, on_amqp_connection_state_changed
  <2>3. Working /\ transportState # "CONNECTED"
    BY <2>2 DEF establish_amqp_connection, on_amqp_connection_state_changed, TransportInv, ConnectionInv
  <2>4. Registered => device.seen # "STARTED"
    BY <2>3 DEF TransportInv, ConnectionInv
  <2>5. ConnectionInv'
    BY <1>1, <2>1, <2>2, <2>4 DEF TransportInv, ConnectionInv, TransportStates, Registered, Told
  <2> QED
    BY <1>2, <2>5 DEF TransportInv
<1> QED
  BY <1>3, <1>4

\* The device is worked.
LEMMA DeviceWorksStep ==
  ASSUME TransportInv, NEW elapsed \in BOOLEAN, DeviceWorks(elapsed)
  PROVE  TransportInv'
<1> DEFINE r == IoTHubTransport_AMQP_Common_Device_DoWork(device, elapsed)
<1>1. Registered /\ Working /\ connection = "OPENED" /\ calm' = calm /\ connection' = connection
  BY DEF DeviceWorks
<1>2. Sound(device) /\ transportState = "CONNECTED"
  BY <1>1, WorkingConnected DEF TransportInv, DeviceInv
<1>3. Keeps(device, r.done) /\ Keeps(device, r.failed)
  BY <1>2, DeviceDoWorkSound
<1>4. /\ device' = device \/ device' \in r.done \/ device' \in r.failed
      /\ transportState' \in {transportState, "RECONNECTION_REQUIRED"}
  BY DEF DeviceWorks
<1> HIDE DEF r
<1>5. Sound(device') /\ (Told(device) => Told(device'))
  BY <1>2, <1>3, <1>4 DEF Keeps
<1> QED
  BY <1>1, <1>2, <1>4, <1>5, KeepsTransport

\* What uAMQP tells the device.
LEMMA UamqpStep ==
  ASSUME TransportInv, TokenAnswered \/ LinksOpen \/ MethodLinksClose \/ EventCompletes
  PROVE  TransportInv'
<1>1. /\ Registered /\ Working /\ connection = "OPENED"
      /\ UNCHANGED <<transportState, calm, connection>>
  BY DEF TokenAnswered, LinksOpen, MethodLinksClose, EventCompletes, Uamqp
<1>2. Sound(device) /\ device \in Devices /\ transportState = "CONNECTED"
  BY <1>1, WorkingConnected DEF TransportInv, DeviceInv, Sound
<1>3. Sound(device') /\ (Told(device) => Told(device'))
  <2>1. CASE TokenAnswered
    <3>1. \E ok \in BOOLEAN : device' = on_cbs_put_token_complete_callback(device, ok)
      BY <2>1, FaultsAre DEF TokenAnswered, Uamqp
    <3>2. device.puts > 0
      BY <2>1 DEF TokenAnswered
    <3> QED
      BY <1>2, <3>1, <3>2, AnswerSound
  <2>2. CASE LinksOpen
    BY <1>2, <2>2, MessengersChangeSound DEF LinksOpen, Uamqp, Keeps
  <2>3. CASE MethodLinksClose
    <3>1. device' = on_methods_unsubscribed(device)
      BY <2>3 DEF MethodLinksClose, Uamqp
    <3> QED
      BY <1>2, <3>1, MethodsSame, SameWorkSound
  <2>4. CASE EventCompletes
    <3>1. PICK ok \in BOOLEAN :
            device' = [device EXCEPT !.number_of_send_event_complete_failures =
                         IF ok THEN 0 ELSE IF @ < MaxFailures THEN @ + 1 ELSE @]
      BY <2>4, FaultsAre DEF EventCompletes, Uamqp
    <3> DEFINE old == device.number_of_send_event_complete_failures
               n == IF ok THEN 0 ELSE IF old < MaxFailures THEN old + 1 ELSE old
    <3>2. old \in Nat
      BY <1>2 DEF Devices
    <3> HIDE DEF old
    <3>3. n \in Nat
      BY <3>2
    <3>4. device' = [device EXCEPT !.number_of_send_event_complete_failures = n]
      BY <3>1 DEF old
    <3> HIDE DEF n
    <3>5. 0 \in Nat
      OBVIOUS
    <3>6. SameWork(device, device')
      BY <1>2, <3>3, <3>4, <3>5, CountersSame
    <3> QED
      BY <1>2, <3>6, SameWorkSound
  <2> QED
    BY <2>1, <2>2, <2>3, <2>4
<1> QED
  BY <1>1, <1>2, <1>3, KeepsTransport

\* A new device is stopped, whatever the state of the transport.
LEMMA RegisterStep ==
  ASSUME TransportInv, IoTHubTransport_AMQP_Common_Register
  PROVE  TransportInv'
<1>1. PICK mode \in {"CBS", "X509"} : device' = amqp_device_create(mode)
  BY DEF IoTHubTransport_AMQP_Common_Register
<1> DEFINE d == amqp_device_create(mode)
<1>2. /\ d \in Devices /\ d.state = "STOPPED" /\ d.seen = "STOPPED" /\ d.msgr = "STOPPED" /\ d.twin = "STOPPED"
      /\ d.auth = "STOPPED" /\ d.puts = 0
  BY DEF amqp_device_create, Devices, DeviceStates, LinkStates, AuthErrors
<1> HIDE DEF d
<1>3. LinksDown(d) /\ NotAuthenticating(d) /\ SeenAsIs(d) /\ Told(d)
  BY <1>2 DEF LinksDown, Up, NotAuthenticating, SeenAsIs, Told
<1>4. Sound(d)
  BY <1>2, <1>3, RestSound
<1>5. device' = d /\ UNCHANGED <<transportState, calm, connection>>
  BY <1>1 DEF IoTHubTransport_AMQP_Common_Register, d
<1>6. DeviceInv'
  BY <1>4, <1>5 DEF DeviceInv
<1>7. ConnectionInv'
  BY <1>2, <1>3, <1>5 DEF TransportInv, ConnectionInv, Working
<1> QED
  BY <1>6, <1>7 DEF TransportInv

\* Every step of the transport keeps the invariant.
LEMMA TransportStep ==
  ASSUME TransportInv, [AmqpTransportNext]_transportVars
  PROVE  TransportInv'
<1>1. CASE IoTHubTransport_AMQP_Common_Register
  BY <1>1, RegisterStep
<1>2. CASE IoTHubTransport_AMQP_Common_Unregister
  BY <1>2, UnregisteredStep DEF IoTHubTransport_AMQP_Common_Unregister, Calls
<1>3. CASE \/ IoTHubTransport_AMQP_Common_Subscribe_DeviceMethod
           \/ IoTHubTransport_AMQP_Common_Unsubscribe_DeviceMethod
  <2>1. Registered /\ device \in Devices /\ UNCHANGED <<transportState, calm, connection>>
    BY <1>3 DEF IoTHubTransport_AMQP_Common_Subscribe_DeviceMethod, Calls,
         IoTHubTransport_AMQP_Common_Unsubscribe_DeviceMethod, TransportInv, DeviceInv, Sound
  <2>2. SameWork(device, device')
    BY <1>3, <2>1, MethodsSame DEF IoTHubTransport_AMQP_Common_Subscribe_DeviceMethod, Calls,
         IoTHubTransport_AMQP_Common_Unsubscribe_DeviceMethod
  <2> QED
    BY <2>1, <2>2, CallsStep
<1>4. CASE IoTHubTransport_AMQP_Common_SetRetryPolicy
  <2>1. DeviceInv'
    BY <1>4 DEF IoTHubTransport_AMQP_Common_SetRetryPolicy, TransportInv, DeviceInv, Registered
  <2>2. ConnectionInv'
    BY <1>4 DEF IoTHubTransport_AMQP_Common_SetRetryPolicy, TransportInv, ConnectionInv, TransportStates, Working
  <2> QED
    BY <2>1, <2>2 DEF TransportInv
<1>5. CASE IoTHubTransport_AMQP_Common_Destroy
  BY <1>5, UnregisteredStep DEF IoTHubTransport_AMQP_Common_Destroy
<1>6. CASE prepare_for_connection_retry
  BY <1>6, PrepareStep
<1>7. CASE RetriesExpire \/ establish_amqp_connection \/ on_amqp_connection_state_changed
  BY <1>7, ConnectionStep
<1>8. CASE \E elapsed \in BOOLEAN : DeviceWorks(elapsed)
  BY <1>8, DeviceWorksStep
<1>9. CASE TokenAnswered \/ LinksOpen \/ MethodLinksClose \/ EventCompletes
  BY <1>9, UamqpStep
<1>10. CASE Calms
  <2>1. DeviceInv'
    BY <1>10 DEF Calms, TransportInv, DeviceInv, Registered
  <2>2. ConnectionInv'
    BY <1>10 DEF Calms, TransportInv, ConnectionInv, Registered, Working
  <2> QED
    BY <2>1, <2>2 DEF TransportInv
<1>11. CASE UNCHANGED transportVars
  <2>1. DeviceInv'
    BY <1>11 DEF transportVars, TransportInv, DeviceInv, Registered
  <2>2. ConnectionInv'
    BY <1>11 DEF transportVars, TransportInv, ConnectionInv, Registered, Working
  <2> QED
    BY <2>1, <2>2 DEF TransportInv
<1> QED
  BY <1>1, <1>2, <1>3, <1>4, <1>5, <1>6, <1>7, <1>8, <1>9, <1>10, <1>11 DEF AmqpTransportNext

\* The states of the transport, its connection and its device belong together, for any limits:
\* the handlers of iothubtransport_amqp_common.c and iothubtransport_amqp_device.c keep it.
THEOREM TransportIsKept == AmqpTransportSpec => []TransportInv
<1>1. AmqpTransportInit => TransportInv
  BY DEF AmqpTransportInit, TransportInv, DeviceInv, ConnectionInv, TransportStates, Registered
<1>2. TransportInv /\ [AmqpTransportNext]_transportVars => TransportInv'
  BY TransportStep
<1> QED
  BY <1>1, <1>2, PTL DEF AmqpTransportSpec

\* Messengers attach their links only with an accepted token, or after a late answer to one
\* (cbs_auth.c), and the application knows that a device works (on_device_state_changed_callback).
THEOREM TransportIsSound == AmqpTransportSpec => []TransportSound
<1>1. TransportInv => TransportSound
  BY DEF TransportInv, DeviceInv, Sound, Granted, LinksDown, Up, ConnectionInv, Told,
         TransportSound, LinksAuthorized, StartedTold
<1> QED
  BY <1>1, TransportIsKept, PTL

-----------------------------------------------------------------------------
(* The telemetry messenger: lists of tasks *)

TelTask ==
  [id : Nat \ {0}, callers : Seq(TelEvents), bodies : SUBSET TelEvents, sent : BOOLEAN, timedOut : BOOLEAN]

\* The callers a task has not called yet: none when it timed out.
DueOf(t) == IF t.timedOut THEN {} ELSE Range(t.callers)
DueIn(list) == UNION {DueOf(t) : t \in Range(list)}

Before(A, B) == \A a \in A, b \in B : a < b
Rising == {r \in Nat \X Nat : r[1] < r[2]}
Earlier == {r \in TelTask \X TelTask : r[1].id # r[2].id /\ Before(DueOf(r[1]), DueOf(r[2]))}

\* Tasks with their own ids, the callers of each and of one task after the other in the order of sending.
InLine(list) ==
  /\ list \in Seq(TelTask) /\ Sorted(list, Earlier)
  /\ \A t \in Range(list) : Sorted(t.callers, Rising)

\* What <<a, b>> \in Rising and <<t, u>> \in Earlier say.
LEMMA RisingSays ==
  ASSUME NEW a \in Nat, NEW b \in Nat
  PROVE  <<a, b>> \in Rising <=> a < b
BY DEF Rising

LEMMA EarlierSays ==
  ASSUME NEW t \in TelTask, NEW u \in TelTask
  PROVE  <<t, u>> \in Earlier <=> t.id # u.id /\ Before(DueOf(t), DueOf(u))
BY DEF Earlier

\* Events are numbers.
LEMMA EventsAreNumbers == TelEvents \subseteq Nat
<1>1. Cardinality(TelEvents) \in Nat
  BY TelemetryAssumption, FS_CardinalityType
<1> QED
  BY <1>1, TelemetryAssumption

\* The callers a task still owes are events.
LEMMA DueFacts ==
  ASSUME NEW t \in TelTask
  PROVE  DueOf(t) \subseteq TelEvents
<1>1. t.callers \in Seq(TelEvents)
  BY DEF TelTask
<1>2. Range(t.callers) \subseteq TelEvents
  BY <1>1 DEF Range
<1> QED
  BY <1>2 DEF DueOf

\* In a line, an id names one task, and the callers of different tasks are different.
LEMMA LineFacts ==
  ASSUME NEW list, InLine(list)
  PROVE  /\ Range(list) \subseteq TelTask
         /\ DueIn(list) \subseteq TelEvents
         /\ \A t, u \in Range(list) : t.id = u.id => t = u
         /\ \A t, u \in Range(list) : t # u => DueOf(t) \cap DueOf(u) = {}
         /\ \A x : x \in DueIn(list) <=> \E t \in Range(list) : x \in DueOf(t)
<1>1. list \in Seq(TelTask) /\ DOMAIN list = 1..Len(list) /\ Len(list) \in Nat
  BY DEF InLine
<1>2. Range(list) \subseteq TelTask
  BY <1>1 DEF Range
<1>3. \A x : x \in DueIn(list) <=> \E t \in Range(list) : x \in DueOf(t)
  BY DEF DueIn
<1>4. DueIn(list) \subseteq TelEvents
  BY <1>2, <1>3, DueFacts
<1>5. ASSUME NEW i \in DOMAIN list, NEW j \in DOMAIN list, i # j
      PROVE  list[i].id # list[j].id /\ DueOf(list[i]) \cap DueOf(list[j]) = {}
  <2>1. list[i] \in TelTask /\ list[j] \in TelTask
    BY <1>1
  <2>2. CASE i < j
    <3>1. list[i].id # list[j].id /\ Before(DueOf(list[i]), DueOf(list[j]))
      BY <2>1, <2>2, EarlierSays DEF InLine, Sorted
    <3>2. \A x \in DueOf(list[i]) \cap DueOf(list[j]) : x \in Nat /\ x < x
      BY <2>1, <3>1, DueFacts, EventsAreNumbers DEF Before
    <3> QED
      BY <3>1, <3>2
  <2>3. CASE j < i
    <3>1. list[i].id # list[j].id /\ Before(DueOf(list[j]), DueOf(list[i]))
      BY <2>1, <2>3, EarlierSays DEF InLine, Sorted
    <3>2. \A x \in DueOf(list[i]) \cap DueOf(list[j]) : x \in Nat /\ x < x
      BY <2>1, <3>1, DueFacts, EventsAreNumbers DEF Before
    <3> QED
      BY <3>1, <3>2
  <2> QED
    BY <1>1, <1>5, <2>2, <2>3
<1>6. \A t, u \in Range(list) : t.id = u.id => t = u
  BY <1>5 DEF Range
<1>7. \A t, u \in Range(list) : t # u => DueOf(t) \cap DueOf(u) = {}
  <2> SUFFICES ASSUME NEW i \in DOMAIN list, NEW j \in DOMAIN list, list[i] # list[j]
               PROVE  DueOf(list[i]) \cap DueOf(list[j]) = {}
    BY DEF Range
  <2> QED
    BY <1>5
<1> QED
  BY <1>2, <1>3, <1>4, <1>6, <1>7

\* What is left without some ids is in line, and owes what those did not.
LEMMA WithoutFacts ==
  ASSUME NEW list, InLine(list), NEW ids
  PROVE  /\ InLine(Without(list, ids))
         /\ Range(Without(list, ids)) = {t \in Range(list) : t.id \notin ids}
         /\ DueIn(Without(list, ids)) = DueIn(list) \ UNION {DueOf(t) : t \in {u \in Range(list) : u.id \in ids}}
<1> DEFINE parts == [n \in DOMAIN list |-> IF list[n].id \in ids THEN <<>> ELSE <<list[n]>>]
           left == FlattenSeq(parts)
<1>1. list \in Seq(TelTask) /\ DOMAIN list = 1..Len(list) /\ Len(list) \in Nat
  BY DEF InLine
<1>2. ASSUME NEW n \in DOMAIN list
      PROVE  /\ parts[n] \in Seq(TelTask)
             /\ Range(parts[n]) = IF list[n].id \in ids THEN {} ELSE {list[n]}
             /\ Sorted(parts[n], Earlier)
  <2>1. CASE list[n].id \in ids
    BY <2>1 DEF Range, Sorted
  <2>2. CASE list[n].id \notin ids
    <3>1. parts[n] = <<list[n]>> /\ list[n] \in TelTask /\ DOMAIN <<list[n]>> = {1} /\ <<list[n]>>[1] = list[n]
      BY <1>1, <2>2
    <3>2. <<list[n]>> \in Seq(TelTask)
      BY <3>1
    <3>3. Range(<<list[n]>>) = {list[n]}
      BY <3>1 DEF Range
    <3>4. Sorted(<<list[n]>>, Earlier)
      BY <3>1 DEF Sorted
    <3> QED
      BY <2>2, <3>1, <3>2, <3>3, <3>4
  <2> QED
    BY <2>1, <2>2
<1>3. parts \in Seq(Seq(TelTask)) /\ DOMAIN parts = DOMAIN list
  <2>1. parts \in [1..Len(list) -> Seq(TelTask)]
    BY <1>1, <1>2
  <2> QED
    BY <1>1, <2>1
<1> HIDE DEF parts
<1>4. \A i, j \in DOMAIN parts : i < j => \A t \in Range(parts[i]), u \in Range(parts[j]) : <<t, u>> \in Earlier
  <2> SUFFICES ASSUME NEW i \in DOMAIN list, NEW j \in DOMAIN list, i < j,
                      NEW t \in Range(parts[i]), NEW u \in Range(parts[j])
               PROVE  <<t, u>> \in Earlier
    BY <1>3
  <2>1. t = list[i] /\ u = list[j]
    BY <1>2
  <2> QED
    BY <2>1 DEF InLine, Sorted
<1>5. left \in Seq(TelTask) /\ Range(left) = UNION {Range(parts[i]) : i \in DOMAIN parts} /\ Sorted(left, Earlier)
  BY <1>2, <1>3, <1>4, FlattenInOrder
<1>6. Range(left) = {t \in Range(list) : t.id \notin ids}
  <2>1. \A t : t \in Range(left) <=> \E i \in DOMAIN parts : t \in Range(parts[i])
    BY <1>5
  <2>2. \A t : t \in Range(left) <=> \E i \in DOMAIN list : list[i].id \notin ids /\ t = list[i]
    BY <1>2, <1>3, <2>1
  <2>3. \A t : t \in Range(list) <=> \E i \in DOMAIN list : t = list[i]
    BY DEF Range
  <2> QED
    BY <2>2, <2>3
<1> HIDE DEF left
<1>7. InLine(left)
  BY <1>5, <1>6 DEF InLine
<1>8. DueIn(left) = DueIn(list) \ UNION {DueOf(t) : t \in {u \in Range(list) : u.id \in ids}}
  <2>1. \A x : x \in DueIn(left) <=> \E t \in Range(list) : t.id \notin ids /\ x \in DueOf(t)
    BY <1>6, <1>7, LineFacts
  <2>2. \A x : x \in UNION {DueOf(t) : t \in {u \in Range(list) : u.id \in ids}}
               <=> \E t \in Range(list) : t.id \in ids /\ x \in DueOf(t)
    OBVIOUS
  <2>3. \A x : x \in DueIn(list) <=> \E t \in Range(list) : x \in DueOf(t)
    BY LineFacts
  <2>4. \A t, u \in Range(list) : \A x : x \in DueOf(t) /\ x \in DueOf(u) => t = u
    BY LineFacts
  <2> HIDE DEF left
  <2> QED
    BY <2>1, <2>2, <2>3, <2>4
<1> QED
  BY <1>6, <1>7, <1>8 DEF Without, left, parts

\* One more task at the end.
LEMMA LineAppended ==
  ASSUME NEW list, InLine(list), NEW t \in TelTask, \A u \in Range(list) : u.id # t.id,
         Sorted(t.callers, Rising), Before(DueIn(list), DueOf(t))
  PROVE  /\ InLine(Append(list, t))
         /\ Range(Append(list, t)) = Range(list) \cup {t}
         /\ DueIn(Append(list, t)) = DueIn(list) \cup DueOf(t)
         /\ Append(list, t) # <<>> /\ Append(list, t)[Len(Append(list, t))] = t
<1>1. list \in Seq(TelTask) /\ Sorted(list, Earlier)
  BY DEF InLine
<1>2. \A u \in Range(list) : <<u, t>> \in Earlier
  <2> SUFFICES ASSUME NEW u \in Range(list) PROVE <<u, t>> \in Earlier
    OBVIOUS
  <2>1. u \in TelTask /\ DueOf(u) \subseteq DueIn(list)
    BY LineFacts
  <2> QED
    BY <2>1, EarlierSays DEF Before
<1>3. /\ Append(list, t) \in Seq(TelTask)
      /\ Range(Append(list, t)) = Range(list) \cup {t}
      /\ Sorted(Append(list, t), Earlier)
  BY <1>1, <1>2, AppendInOrder
<1>4. InLine(Append(list, t))
  BY <1>3 DEF InLine
<1>5. DueIn(Append(list, t)) = DueIn(list) \cup DueOf(t)
  <2>1. \A x : x \in DueIn(Append(list, t)) <=> \E u \in Range(list) \cup {t} : x \in DueOf(u)
    BY <1>3, <1>4, LineFacts
  <2>2. \A x : x \in DueIn(list) <=> \E u \in Range(list) : x \in DueOf(u)
    BY LineFacts
  <2> QED
    BY <2>1, <2>2
<1>6. Append(list, t) # <<>> /\ Append(list, t)[Len(Append(list, t))] = t
  BY <1>1, AppendProperties
<1> QED
  BY <1>3, <1>4, <1>5, <1>6

\* Replacing tasks keeps the list one of tasks.
LEMMA ReplaceFacts ==
  ASSUME NEW id, NEW u \in TelTask, in_progress_list \in Seq(TelTask)
  PROVE  /\ Replace(id, u) \in Seq(TelTask) /\ DOMAIN Replace(id, u) = DOMAIN in_progress_list
         /\ \A n \in DOMAIN in_progress_list :
              Replace(id, u)[n] = IF in_progress_list[n].id = id THEN u ELSE in_progress_list[n]
<1>1. DOMAIN in_progress_list = 1..Len(in_progress_list) /\ Len(in_progress_list) \in Nat
  OBVIOUS
<1>2. Replace(id, u) \in [1..Len(in_progress_list) -> TelTask]
  BY <1>1 DEF Replace
<1> QED
  BY <1>1, <1>2 DEF Replace

\* The last task becomes another with its id.
LEMMA LastReplaced ==
  ASSUME InLine(in_progress_list), in_progress_list # <<>>, NEW t \in TelTask,
         t.id = in_progress_list[Len(in_progress_list)].id, Sorted(t.callers, Rising),
         \A u \in Range(in_progress_list) : u.id # t.id => Before(DueOf(u), DueOf(t))
  PROVE  LET left == Replace(t.id, t) IN
         /\ InLine(left) /\ left # <<>> /\ left[Len(left)] = t
         /\ Range(left) = {u \in Range(in_progress_list) : u.id # t.id} \cup {t}
         /\ DueIn(left) = (DueIn(in_progress_list) \ DueOf(in_progress_list[Len(in_progress_list)])) \cup DueOf(t)
<1> DEFINE list == in_progress_list
           last == Len(list)
           id == t.id
           left == Replace(id, t)
<1>1. /\ list \in Seq(TelTask) /\ DOMAIN list = 1..last /\ last \in Nat /\ last > 0 /\ last \in DOMAIN list
      /\ Sorted(list, Earlier)
  BY EmptySeq DEF InLine
<1>0. left \in Seq(TelTask) /\ DOMAIN left = DOMAIN list
      /\ \A n \in DOMAIN list : left[n] = IF list[n].id = id THEN t ELSE list[n]
  BY <1>1, ReplaceFacts
<1> HIDE DEF left
<1>2. \A n \in DOMAIN list : list[n].id = id <=> n = last
  <2> SUFFICES ASSUME NEW n \in DOMAIN list, n # last PROVE list[n].id # id
    OBVIOUS
  <2>1. n < last /\ list[n] \in TelTask /\ list[last] \in TelTask
    BY <1>1
  <2> QED
    BY <1>1, <2>1, EarlierSays DEF Sorted
<1>3. \A n \in DOMAIN list : left[n] = IF n = last THEN t ELSE list[n]
  BY <1>0, <1>2
<1>4. left \in Seq(TelTask) /\ DOMAIN left = DOMAIN list /\ Len(left) = last
  BY <1>0, <1>1
<1>5. Range(left) = {u \in Range(list) : u.id # id} \cup {t}
  BY <1>1, <1>2, <1>3, <1>4 DEF Range
<1>6. Sorted(left, Earlier)
  <2> SUFFICES ASSUME NEW i \in DOMAIN list, NEW j \in DOMAIN list, i < j PROVE <<left[i], left[j]>> \in Earlier
    BY <1>4 DEF Sorted
  <2>1. i # last /\ left[i] = list[i] /\ list[i].id # id /\ list[i] \in TelTask /\ list[i] \in Range(list)
    BY <1>1, <1>2, <1>3 DEF Range
  <2>2. CASE j = last
    <3>1. left[j] = t
      BY <1>3, <2>2
    <3> QED
      BY <2>1, <3>1, EarlierSays
  <2>3. CASE j # last
    BY <1>1, <1>3, <2>1, <2>3 DEF Sorted
  <2> QED
    BY <2>2, <2>3
<1>7. InLine(left)
  BY <1>4, <1>5, <1>6 DEF InLine
<1>8. left # <<>> /\ left[Len(left)] = t
  BY <1>1, <1>3, <1>4
<1>9. DueIn(left) = (DueIn(list) \ DueOf(list[last])) \cup DueOf(t)
  <2>1. \A x : x \in DueIn(left) <=> \E u \in Range(left) : x \in DueOf(u)
    BY <1>7, LineFacts
  <2>2. \A x : x \in DueIn(list) <=> \E u \in Range(list) : x \in DueOf(u)
    BY LineFacts
  <2>3. list[last] \in Range(list) /\ \A u \in Range(list) : u.id = id <=> u = list[last]
    BY <1>1, <1>2 DEF Range
  <2>4. \A u \in Range(list) : u # list[last] => DueOf(u) \cap DueOf(list[last]) = {}
    BY <2>3, LineFacts
  <2> QED
    BY <1>5, <2>1, <2>2, <2>3, <2>4
<1> QED
  BY <1>5, <1>7, <1>8, <1>9 DEF left

\* Tasks that time out owe nothing any more, and the others stay as they are.
LEMMA LineTimesOut ==
  ASSUME InLine(in_progress_list), NEW n \in Nat
  PROVE  LET list == process_event_send_timeouts(n)
             now == {m \in DOMAIN list : list[m].timedOut /\ ~in_progress_list[m].timedOut}
             gone == UNION {Range(list[m].callers) : m \in now} IN
         /\ InLine(list)
         /\ {t.id : t \in Range(list)} = TaskIds
         /\ DueIn(list) = DueIn(in_progress_list) \ gone
         /\ gone \subseteq DueIn(in_progress_list)
<1> DEFINE list == process_event_send_timeouts(n)
           old == in_progress_list
           now == {m \in DOMAIN list : list[m].timedOut /\ ~old[m].timedOut}
           gone == UNION {Range(list[m].callers) : m \in now}
<1>1. old \in Seq(TelTask) /\ DOMAIN old = 1..Len(old) /\ Len(old) \in Nat /\ Sorted(old, Earlier)
  BY DEF InLine
<1>2. DOMAIN list = DOMAIN old
  BY DEF process_event_send_timeouts
<1>3. ASSUME NEW m \in DOMAIN old
      PROVE  /\ list[m] = old[m] \/ list[m] = [old[m] EXCEPT !.timedOut = TRUE]
             /\ list[m] \in TelTask /\ list[m].id = old[m].id /\ list[m].callers = old[m].callers
             /\ old[m].timedOut => list[m].timedOut
             /\ DueOf(list[m]) = IF m \in now THEN {} ELSE DueOf(old[m])
  <2>1. old[m] \in TelTask
    BY <1>1
  <2>2. list[m] = old[m] \/ list[m] = [old[m] EXCEPT !.timedOut = TRUE]
    BY DEF process_event_send_timeouts
  <2> HIDE DEF list
  <2>3. /\ list[m] \in TelTask /\ list[m].id = old[m].id /\ list[m].callers = old[m].callers
        /\ old[m].timedOut => list[m].timedOut
    BY <2>1, <2>2 DEF TelTask
  <2>4. m \in now <=> list[m].timedOut /\ ~old[m].timedOut
    BY <1>2
  <2>5. DueOf(list[m]) = IF m \in now THEN {} ELSE DueOf(old[m])
    BY <2>3, <2>4 DEF DueOf
  <2> QED
    BY <2>2, <2>3, <2>5
<1>4. list \in Seq(TelTask)
  <2>1. list = [m \in 1..Len(old) |-> list[m]]
    BY <1>1 DEF process_event_send_timeouts
  <2> HIDE DEF list
  <2>2. list \in [1..Len(old) -> TelTask]
    BY <1>1, <1>3, <2>1
  <2> QED
    BY <1>1, <2>2
<1>5. \A m \in now : DueOf(old[m]) = Range(list[m].callers) /\ m \in DOMAIN old
  BY <1>2, <1>3 DEF DueOf
<1> HIDE DEF list, now
<1>6. Sorted(list, Earlier)
  <2> SUFFICES ASSUME NEW i \in DOMAIN old, NEW j \in DOMAIN old, i < j PROVE <<list[i], list[j]>> \in Earlier
    BY <1>2 DEF Sorted
  <2>1. old[i] \in TelTask /\ old[j] \in TelTask /\ <<old[i], old[j]>> \in Earlier
    BY <1>1 DEF Sorted
  <2>2. old[i].id # old[j].id /\ Before(DueOf(old[i]), DueOf(old[j]))
    BY <2>1, EarlierSays
  <2>3. list[i].id # list[j].id /\ Before(DueOf(list[i]), DueOf(list[j]))
    BY <1>3, <2>2 DEF Before
  <2> QED
    BY <1>3, <2>3, EarlierSays
<1>7. \A t \in Range(list) : Sorted(t.callers, Rising)
  BY <1>2, <1>3 DEF InLine, Range
<1>8. InLine(list)
  BY <1>4, <1>6, <1>7 DEF InLine
<1>9. {t.id : t \in Range(list)} = TaskIds
  <2>1. \A x : x \in {t.id : t \in Range(list)} <=> \E m \in DOMAIN list : x = list[m].id
    BY DEF Range
  <2>2. \A x : x \in TaskIds <=> \E m \in DOMAIN old : x = old[m].id
    BY DEF Range, TaskIds, Tasks
  <2>3. \A m \in DOMAIN old : list[m].id = old[m].id
    BY <1>3
  <2> QED
    BY <1>2, <2>1, <2>2, <2>3
<1>10. \A x : x \in gone <=> \E m \in now : x \in DueOf(old[m])
  BY <1>5
<1> HIDE DEF gone
<1>11. \A x : x \in DueIn(old) <=> \E m \in DOMAIN old : x \in DueOf(old[m])
  BY LineFacts DEF Range
<1>12. \A x : x \in DueIn(list) <=> \E m \in DOMAIN old : x \in DueOf(list[m])
  BY <1>2, <1>8, LineFacts DEF Range
<1>13. \A i, j \in DOMAIN old : i # j => DueOf(old[i]) \cap DueOf(old[j]) = {}
  <2> SUFFICES ASSUME NEW i \in DOMAIN old, NEW j \in DOMAIN old, i # j PROVE DueOf(old[i]) \cap DueOf(old[j]) = {}
    OBVIOUS
  <2>1. old[i] \in Range(old) /\ old[j] \in Range(old) /\ old[i] \in TelTask /\ old[j] \in TelTask
    BY <1>1 DEF Range
  <2>2. old[i].id # old[j].id
    <3>1. i < j \/ j < i
      BY <1>1
    <3> QED
      BY <1>1, <2>1, <3>1, EarlierSays DEF Sorted
  <2> QED
    BY <2>1, <2>2, LineFacts
<1>14. DueIn(list) = DueIn(old) \ gone /\ gone \subseteq DueIn(old)
  <2>1. \A m \in DOMAIN old : DueOf(list[m]) = IF m \in now THEN {} ELSE DueOf(old[m])
    BY <1>3
  <2>2. now \subseteq DOMAIN old
    BY <1>5
  <2>3. ASSUME NEW x \in DueIn(list) PROVE x \in DueIn(old) /\ x \notin gone
    <3>1. PICK m \in DOMAIN old : x \in DueOf(list[m])
      BY <1>12
    <3>2. m \notin now /\ x \in DueOf(old[m])
      BY <2>1, <3>1
    <3> QED
      BY <1>10, <1>11, <1>13, <2>2, <3>2
  <2>4. ASSUME NEW x \in DueIn(old), x \notin gone PROVE x \in DueIn(list)
    BY <1>10, <1>11, <1>12, <2>1, <2>4
  <2>5. gone \subseteq DueIn(old)
    BY <1>10, <1>11, <2>2
  <2> QED
    BY <2>3, <2>4, <2>5
<1> QED
  BY <1>8, <1>9, <1>14 DEF list, gone, now

\* The callers of tasks that have not timed out, in one list: those that are owed an answer, in the order of sending.
LEMMA MovedFacts ==
  ASSUME NEW list, InLine(list), NEW wait \in Seq(TelEvents), Sorted(wait, Rising), Before(DueIn(list), Range(wait)),
         NEW callers, DOMAIN callers = DOMAIN list,
         \A n \in DOMAIN list : callers[n] = IF list[n].timedOut THEN <<>> ELSE list[n].callers,
         callers = [n \in DOMAIN callers |-> callers[n]]
  PROVE  /\ FlattenSeq(callers) \o wait \in Seq(TelEvents)
         /\ Range(FlattenSeq(callers) \o wait) = DueIn(list) \cup Range(wait)
         /\ Sorted(FlattenSeq(callers) \o wait, Rising)
<1>1. list \in Seq(TelTask) /\ DOMAIN list = 1..Len(list) /\ Len(list) \in Nat
  BY DEF InLine
<1>2. ASSUME NEW n \in DOMAIN list
      PROVE  callers[n] \in Seq(TelEvents) /\ Range(callers[n]) = DueOf(list[n]) /\ Sorted(callers[n], Rising)
  <2>1. list[n] \in TelTask /\ list[n] \in Range(list)
    BY <1>1 DEF Range
  <2>2. CASE list[n].timedOut
    <3>1. callers[n] = <<>> /\ DueOf(list[n]) = {}
      BY <2>2 DEF DueOf
    <3>2. Range(<<>>) = {} /\ Sorted(<<>>, Rising)
      BY DEF Range, Sorted
    <3> QED
      BY <3>1, <3>2
  <2>3. CASE ~list[n].timedOut
    <3>1. callers[n] = list[n].callers
      BY <2>3
    <3> QED
      BY <2>1, <2>3, <3>1 DEF InLine, TelTask, DueOf
  <2> QED
    BY <2>2, <2>3
<1>3. callers \in Seq(Seq(TelEvents))
  <2>1. callers \in [1..Len(list) -> Seq(TelEvents)]
    BY <1>1, <1>2
  <2> QED
    BY <1>1, <2>1
<1>4. \A i, j \in DOMAIN list : i < j => \A x \in Range(callers[i]), y \in Range(callers[j]) : <<x, y>> \in Rising
  <2> SUFFICES ASSUME NEW i \in DOMAIN list, NEW j \in DOMAIN list, i < j,
                      NEW x \in Range(callers[i]), NEW y \in Range(callers[j])
               PROVE  <<x, y>> \in Rising
    OBVIOUS
  <2>1. list[i] \in TelTask /\ list[j] \in TelTask /\ <<list[i], list[j]>> \in Earlier
    BY <1>1 DEF InLine, Sorted
  <2>2. Before(DueOf(list[i]), DueOf(list[j]))
    BY <2>1, EarlierSays
  <2>3. x \in DueOf(list[i]) /\ y \in DueOf(list[j])
    BY <1>2
  <2>4. x \in Nat /\ y \in Nat /\ x < y
    BY <2>1, <2>2, <2>3, DueFacts, EventsAreNumbers DEF Before
  <2> QED
    BY <2>4, RisingSays
<1> DEFINE all == FlattenSeq(callers)
<1>5. all \in Seq(TelEvents) /\ Range(all) = UNION {Range(callers[i]) : i \in DOMAIN callers} /\ Sorted(all, Rising)
  <2>1. /\ \A i \in DOMAIN callers : Sorted(callers[i], Rising)
        /\ \A i, j \in DOMAIN callers : i < j =>
             \A x \in Range(callers[i]), y \in Range(callers[j]) : <<x, y>> \in Rising
    BY <1>2, <1>4
  <2> QED
    BY <1>3, <2>1, FlattenInOrder
<1> HIDE DEF all
<1>6. Range(all) = DueIn(list)
  <2>1. \A x : x \in Range(all) <=> \E i \in DOMAIN list : x \in DueOf(list[i])
    BY <1>2, <1>5
  <2>2. \A x : x \in DueIn(list) <=> \E i \in DOMAIN list : x \in DueOf(list[i])
    BY LineFacts DEF Range
  <2> QED
    BY <2>1, <2>2
<1>7. \A x \in Range(all), y \in Range(wait) : <<x, y>> \in Rising
  <2> SUFFICES ASSUME NEW x \in Range(all), NEW y \in Range(wait) PROVE <<x, y>> \in Rising
    OBVIOUS
  <2>1. x \in Nat
    BY <1>6, LineFacts, EventsAreNumbers
  <2>2. y \in Nat
    BY EventsAreNumbers DEF Range
  <2>3. x < y
    BY <1>6 DEF Before
  <2> QED
    BY <2>1, <2>2, <2>3, RisingSays
<1>8. all \o wait \in Seq(TelEvents) /\ Range(all \o wait) = Range(all) \cup Range(wait) /\ Sorted(all \o wait, Rising)
  BY <1>5, <1>7, ConcatInOrder
<1> QED
  BY <1>6, <1>8 DEF all

\* Calling back callers who are held: they have their answer, and nobody else is touched.
TelStatuses == {"new", "held", "ok", "failed", "lost"}
HeldIn(status) == {e \in TelEvents : status[e] = "held"}

LEMMA TellFacts ==
  ASSUME NEW status \in [TelEvents -> TelStatuses], NEW S, S \subseteq HeldIn(status), NEW result \in {"ok", "failed", "lost"}
  PROVE  /\ Tell(status, S, result) \in [TelEvents -> TelStatuses]
         /\ HeldIn(Tell(status, S, result)) = HeldIn(status) \ S
         /\ \A e \in TelEvents : Tell(status, S, result)[e] = "new" <=> status[e] = "new"
<1> DEFINE after == Tell(status, S, result)
<1>1. DOMAIN after = TelEvents
  BY DEF Tell
<1>2. \A e \in TelEvents : after[e] = IF e \in S THEN result ELSE status[e]
  BY DEF Tell, HeldIn
<1>3. after \in [TelEvents -> TelStatuses]
  <2>1. after = [e \in TelEvents |-> after[e]]
    BY DEF Tell
  <2>2. \A e \in TelEvents : after[e] \in TelStatuses
    BY <1>2 DEF TelStatuses
  <2> HIDE DEF after
  <2> QED
    BY <2>1, <2>2
<1> HIDE DEF after
<1>4. HeldIn(after) = HeldIn(status) \ S
  BY <1>2 DEF HeldIn
<1>5. \A e \in TelEvents : after[e] = "new" <=> status[e] = "new"
  BY <1>2 DEF HeldIn
<1> QED
  BY <1>3, <1>4, <1>5 DEF after

\* There is an id for a new task.
LEMMA NewIdFacts ==
  ASSUME InLine(in_progress_list)
  PROVE  NewId \in Nat \ {0} /\ NewId \notin TaskIds
<1>1. in_progress_list \in Seq(TelTask) /\ DOMAIN in_progress_list = 1..Len(in_progress_list) /\ Len(in_progress_list) \in Nat
  BY DEF InLine
<1>2. IsFiniteSet(TaskIds) /\ Cardinality(TaskIds) \in Nat
  <2>1. IsFiniteSet(1..Len(in_progress_list))
    BY <1>1, FS_Interval
  <2>2. TaskIds = {in_progress_list[n].id : n \in 1..Len(in_progress_list)}
    <3>1. \A x : x \in TaskIds <=> \E n \in DOMAIN in_progress_list : x = in_progress_list[n].id
      BY DEF TaskIds, Tasks, Range
    <3> QED
      BY <1>1, <3>1
  <2> DEFINE f == [n \in 1..Len(in_progress_list) |-> in_progress_list[n].id]
  <2>3. f \in Surjection(1..Len(in_progress_list), TaskIds)
    BY <2>2 DEF Surjection
  <2>4. IsFiniteSet(TaskIds)
    BY <2>1, <2>3, FS_Surjection
  <2> QED
    BY <2>4, FS_CardinalityType
<1>3. \E n \in 1..(Cardinality(TaskIds) + 1) : n \notin TaskIds
  <2> DEFINE k == Cardinality(TaskIds)
  <2>1. SUFFICES ASSUME 1..(k + 1) \subseteq TaskIds PROVE FALSE
    OBVIOUS
  <2>2. Cardinality(1..(k + 1)) = k + 1
    BY <1>2, FS_Interval
  <2>3. Cardinality(1..(k + 1)) <= k
    BY <1>2, <2>1, FS_Subset
  <2> QED
    BY <1>2, <2>2, <2>3
<1>4. NewId \in 1..(Cardinality(TaskIds) + 1) /\ NewId \notin TaskIds
  BY <1>3 DEF NewId
<1> QED
  BY <1>2, <1>4

-----------------------------------------------------------------------------
(* The telemetry messenger: its invariant *)

TelLines ==
  /\ InLine(in_progress_list)
  /\ waiting_to_send \in Seq(TelEvents) /\ Sorted(waiting_to_send, Rising)
  /\ Before(DueIn(in_progress_list), Range(waiting_to_send))

\* Who is held is in line, and events are accepted in their order.
TelTold ==
  /\ told \in [TelEvents -> TelStatuses]
  /\ DueIn(in_progress_list) \cup Range(waiting_to_send) = HeldIn(told)
  /\ \A d, e \in TelEvents : d < e /\ told[d] = "new" => told[e] = "new"

\* The task being filled is the last one, uAMQP does not have it, it has not timed out, and who joined it has a
\* place in it.
TelFills ==
  pending # 0 =>
    /\ turn = "send" /\ pending \notin uamqp
    /\ in_progress_list # <<>>
    /\ in_progress_list[Len(in_progress_list)].id = pending
    /\ ~in_progress_list[Len(in_progress_list)].timedOut
    /\ in_progress_list[Len(in_progress_list)].bodies = {} => in_progress_list[Len(in_progress_list)].callers = <<>>

TelStates ==
  /\ turn = "send" => message_sender # "none" /\ msgrState \notin {"STOPPED", "gone"}
  /\ msgrState \in {"STOPPED", "gone"} => message_sender = "none" /\ in_progress_list = <<>>
  /\ turn = "destroy" => message_sender = "none" /\ \A t \in Range(in_progress_list) : ~t.timedOut

TelInv == TelLines /\ TelTold /\ TelFills /\ TelStates /\ TasksOutliveSends

\* In line, told once and owed in order: what the properties say.
LEMMA TelInvSound ==
  ASSUME TelInv
  PROVE  EventsSound
<1> DEFINE callers == [n \in DOMAIN in_progress_list |->
                        IF in_progress_list[n].timedOut THEN <<>> ELSE in_progress_list[n].callers]
<1>1. /\ Owed \in Seq(TelEvents) /\ Sorted(Owed, Rising)
      /\ Range(Owed) = DueIn(in_progress_list) \cup Range(waiting_to_send)
  <2>1. Owed = FlattenSeq(callers) \o waiting_to_send
    BY DEF Owed
  <2>2. /\ DOMAIN callers = DOMAIN in_progress_list /\ callers = [n \in DOMAIN callers |-> callers[n]]
        /\ \A n \in DOMAIN in_progress_list :
             callers[n] = IF in_progress_list[n].timedOut THEN <<>> ELSE in_progress_list[n].callers
    OBVIOUS
  <2> HIDE DEF callers
  <2>3. /\ InLine(in_progress_list) /\ waiting_to_send \in Seq(TelEvents) /\ Sorted(waiting_to_send, Rising)
        /\ Before(DueIn(in_progress_list), Range(waiting_to_send))
    BY DEF TelInv, TelLines
  <2> QED
    BY <2>1, <2>2, <2>3, MovedFacts
<1>2. \A i, j \in DOMAIN Owed : Owed[i] \in Nat /\ i \in Nat /\ (i < j => Owed[i] < Owed[j])
  <2> SUFFICES ASSUME NEW i \in DOMAIN Owed, NEW j \in DOMAIN Owed
               PROVE  Owed[i] \in Nat /\ i \in Nat /\ (i < j => Owed[i] < Owed[j])
    OBVIOUS
  <2>0. DOMAIN Owed = 1..Len(Owed) /\ Len(Owed) \in Nat /\ Owed[i] \in TelEvents /\ Owed[j] \in TelEvents
    <3>1. Owed \in Seq(TelEvents)
      BY <1>1
    <3> QED
      BY <3>1
  <2>1. Owed[i] \in Nat /\ Owed[j] \in Nat /\ i \in Nat
    <3>1. i \in 1..Len(Owed) => i \in Nat
      OBVIOUS
    <3>2. Owed[i] \in Nat /\ Owed[j] \in Nat
      BY <2>0, EventsAreNumbers
    <3> QED
      BY <2>0, <3>1, <3>2
  <2>2. Sorted(Owed, Rising)
    BY <1>1
  <2>3. i < j => <<Owed[i], Owed[j]>> \in Rising
    BY <2>2, ZenonT(20) DEF Sorted
  <2> QED
    BY <2>1, <2>3, RisingSays
<1>3. OwedInOrder
  BY <1>2 DEF OwedInOrder
<1>4. IsInjective(Owed)
  <2> SUFFICES ASSUME NEW i \in DOMAIN Owed, NEW j \in DOMAIN Owed, Owed[i] = Owed[j] PROVE i = j
    BY DEF IsInjective
  <2>1. i \in Nat /\ j \in Nat /\ ~(i < j) /\ ~(j < i)
    BY <1>2
  <2> QED
    BY <2>1
<1>5. \A e \in TelEvents : told[e] # "twice"
  <2>1. \A e \in TelEvents : told[e] \in TelStatuses
    BY DEF TelInv, TelTold
  <2> QED
    BY <2>1 DEF TelStatuses
<1>6. Range(Owed) = {e \in TelEvents : told[e] = "held"}
  BY <1>1 DEF TelInv, TelTold, HeldIn
<1> QED
  BY <1>3, <1>4, <1>5, <1>6 DEF EventsSound, EachCallerOnce, TelInv

\* At the beginning nothing is in line and every event is new.
LEMMA TelInitInv ==
  ASSUME TelInit
  PROVE  TelInv
<1>1. Range(<<>>) = {} /\ Sorted(<<>>, Earlier) /\ Sorted(<<>>, Rising) /\ DueIn(<<>>) = {}
  BY DEF Range, Sorted, DueIn
<1>2. InLine(<<>>)
  BY <1>1 DEF InLine
<1>3. TelLines
  BY <1>1, <1>2 DEF TelInit, TelLines, Before
<1>4. told \in [TelEvents -> TelStatuses] /\ HeldIn(told) = {} /\ \A e \in TelEvents : told[e] = "new"
  BY DEF TelInit, TelStatuses, HeldIn
<1>5. TelTold
  BY <1>1, <1>4 DEF TelInit, TelTold
<1>6. TelFills /\ TelStates
  BY DEF TelInit, TelFills, TelStates
<1>7. TasksOutliveSends
  BY DEF TelInit, TasksOutliveSends
<1> QED
  BY <1>3, <1>5, <1>6, <1>7 DEF TelInv

\* The task with an id.
LEMMA TaskWithFacts ==
  ASSUME InLine(in_progress_list), NEW id \in TaskIds
  PROVE  /\ TaskWith(id) \in Range(in_progress_list) /\ TaskWith(id) \in TelTask /\ TaskWith(id).id = id
         /\ \A t \in Range(in_progress_list) : t.id = id <=> t = TaskWith(id)
<1>1. \E t \in Tasks : t.id = id
  BY DEF TaskIds
<1>2. TaskWith(id) \in Tasks /\ TaskWith(id).id = id
  BY <1>1 DEF TaskWith
<1> QED
  BY <1>2, LineFacts DEF Tasks

\* The task being filled.
LEMMA FillingFacts ==
  ASSUME TelInv, pending # 0
  PROVE  /\ in_progress_list # <<>> /\ pending \in TaskIds /\ pending \notin uamqp /\ turn = "send"
         /\ TaskWith(pending) = in_progress_list[Len(in_progress_list)]
         /\ pending = in_progress_list[Len(in_progress_list)].id
         /\ DueOf(TaskWith(pending)) = Range(TaskWith(pending).callers) /\ ~TaskWith(pending).timedOut
         /\ TaskWith(pending).bodies = {} => TaskWith(pending).callers = <<>>
<1> DEFINE last == in_progress_list[Len(in_progress_list)]
<1>1. in_progress_list # <<>> /\ last.id = pending /\ ~last.timedOut /\ pending \notin uamqp /\ turn = "send"
      /\ (last.bodies = {} => last.callers = <<>>)
  BY DEF TelInv, TelFills
<1>2. InLine(in_progress_list) /\ in_progress_list \in Seq(TelTask)
  BY DEF TelInv, TelLines, InLine
<1>3. last \in Range(in_progress_list)
  <2>1. Len(in_progress_list) \in DOMAIN in_progress_list
    BY <1>1, <1>2, EmptySeq
  <2> QED
    BY <2>1 DEF Range
<1>4. pending \in TaskIds
  BY <1>1, <1>3 DEF TaskIds, Tasks
<1>5. TaskWith(pending) = last
  BY <1>1, <1>2, <1>3, <1>4, TaskWithFacts
<1> HIDE DEF last
<1>6. DueOf(TaskWith(pending)) = Range(TaskWith(pending).callers)
  BY <1>1, <1>5 DEF DueOf
<1> QED
  BY <1>1, <1>4, <1>5, <1>6 DEF last

\* Who is called back was held, and those who are left in line are the others.
LEMMA Answered ==
  ASSUME TelInv, NEW gone, gone \subseteq HeldIn(told), NEW result \in {"ok", "failed", "lost"},
         told' = Tell(told, gone, result),
         DueIn(in_progress_list') \cup Range(waiting_to_send') = HeldIn(told) \ gone
  PROVE  TelTold'
<1>1. told \in [TelEvents -> TelStatuses] /\ \A d, e \in TelEvents : d < e /\ told[d] = "new" => told[e] = "new"
  BY DEF TelInv, TelTold
<1>2. /\ told' \in [TelEvents -> TelStatuses]
      /\ HeldIn(told') = HeldIn(told) \ gone
      /\ \A e \in TelEvents : told'[e] = "new" <=> told[e] = "new"
  BY <1>1, TellFacts
<1>3. \A d, e \in TelEvents : d < e /\ told'[d] = "new" => told'[e] = "new"
  BY <1>1, <1>2
<1> QED
  BY <1>2, <1>3 DEF TelTold

\* Nobody is called back, and the same are in line.
LEMMA NobodyAnswered ==
  ASSUME TelInv, told' = told, DueIn(in_progress_list') \cup Range(waiting_to_send') = HeldIn(told)
  PROVE  TelTold'
BY DEF TelInv, TelTold

\* The lists stay.
LEMMA SameLists ==
  ASSUME TelInv, UNCHANGED <<waiting_to_send, in_progress_list, told>>
  PROVE  TelLines' /\ TelTold'
BY DEF TelInv, TelLines, TelTold

\* The first event that waits comes after those of the tasks, and before the others that wait.
LEMMA HeadFacts ==
  ASSUME TelInv, waiting_to_send # <<>>
  PROVE  /\ Head(waiting_to_send) \in TelEvents /\ Tail(waiting_to_send) \in Seq(TelEvents)
         /\ Range(waiting_to_send) = {Head(waiting_to_send)} \cup Range(Tail(waiting_to_send))
         /\ Sorted(Tail(waiting_to_send), Rising)
         /\ Before({Head(waiting_to_send)}, Range(Tail(waiting_to_send)))
         /\ Before(DueIn(in_progress_list), {Head(waiting_to_send)})
         /\ Before(DueIn(in_progress_list), Range(Tail(waiting_to_send)))
         /\ Head(waiting_to_send) \notin DueIn(in_progress_list)
         /\ Head(waiting_to_send) \notin Range(Tail(waiting_to_send))
         /\ DueIn(in_progress_list) \cap Range(waiting_to_send) = {}
         /\ DueIn(in_progress_list) \cup Range(waiting_to_send) = HeldIn(told)
<1> DEFINE e == Head(waiting_to_send)
           others == Tail(waiting_to_send)
<1>1. /\ InLine(in_progress_list) /\ waiting_to_send \in Seq(TelEvents) /\ Sorted(waiting_to_send, Rising)
      /\ Before(DueIn(in_progress_list), Range(waiting_to_send))
      /\ DueIn(in_progress_list) \cup Range(waiting_to_send) = HeldIn(told)
  BY DEF TelInv, TelLines, TelTold
<1>2. /\ e \in TelEvents /\ others \in Seq(TelEvents)
      /\ Range(waiting_to_send) = {e} \cup Range(others)
      /\ \A x \in Range(others) : <<e, x>> \in Rising
      /\ Sorted(others, Rising)
  BY <1>1, TailInOrder
<1>3. DueIn(in_progress_list) \subseteq TelEvents
  BY <1>1, LineFacts
<1>4. Range(others) \subseteq TelEvents
  BY <1>2 DEF Range
<1> HIDE DEF e, others
<1>5. Before({e}, Range(others))
  BY <1>2, <1>4, RisingSays, EventsAreNumbers DEF Before
<1>6. Before(DueIn(in_progress_list), {e}) /\ Before(DueIn(in_progress_list), Range(others))
  BY <1>1, <1>2 DEF Before
<1>7. \A x \in TelEvents : ~(x < x)
  BY EventsAreNumbers
<1>8. e \notin DueIn(in_progress_list) /\ e \notin Range(others)
  BY <1>2, <1>5, <1>6, <1>7 DEF Before
<1>9. DueIn(in_progress_list) \cap Range(waiting_to_send) = {}
  BY <1>1, <1>3, <1>7 DEF Before
<1> QED
  BY <1>1, <1>2, <1>5, <1>6, <1>8, <1>9 DEF e, others

\* What is left when the task being filled is given up.
LEMMA GivenUp ==
  ASSUME TelInv
  PROVE  LET left == Without(in_progress_list, {pending})
             gone == IF pending = 0 THEN {} ELSE Range(TaskWith(pending).callers) IN
         /\ InLine(left) /\ {t.id : t \in Range(left)} = TaskIds \ {pending}
         /\ DueIn(left) = DueIn(in_progress_list) \ gone /\ gone \subseteq DueIn(in_progress_list)
<1> DEFINE left == Without(in_progress_list, {pending})
           gone == IF pending = 0 THEN {} ELSE Range(TaskWith(pending).callers)
           lost == {t \in Range(in_progress_list) : t.id \in {pending}}
<1>1. InLine(in_progress_list) /\ Range(in_progress_list) \subseteq TelTask
  BY LineFacts DEF TelInv, TelLines
<1>2. /\ InLine(left) /\ Range(left) = {t \in Range(in_progress_list) : t.id \notin {pending}}
      /\ DueIn(left) = DueIn(in_progress_list) \ UNION {DueOf(t) : t \in lost}
  BY <1>1, WithoutFacts
<1> HIDE DEF left
<1>3. {t.id : t \in Range(left)} = TaskIds \ {pending}
  BY <1>2 DEF TaskIds, Tasks
<1>4. UNION {DueOf(t) : t \in lost} = gone
  <2>1. CASE pending = 0
    <3>1. lost = {}
      BY <1>1, <2>1 DEF TelTask
    <3> QED
      BY <2>1, <3>1
  <2>2. CASE pending # 0
    <3>1. /\ pending \in TaskIds /\ DueOf(TaskWith(pending)) = Range(TaskWith(pending).callers)
      BY <2>2, FillingFacts
    <3>2. lost = {TaskWith(pending)}
      BY <1>1, <3>1, TaskWithFacts
    <3> HIDE DEF lost
    <3> QED
      BY <2>2, <3>1, <3>2
  <2> QED
    BY <2>1, <2>2
<1> HIDE DEF gone
<1>5. \A x : x \in gone => x \in DueIn(in_progress_list)
  <2>1. \A x : x \in DueIn(in_progress_list) <=> \E t \in Range(in_progress_list) : x \in DueOf(t)
    BY <1>1, LineFacts
  <2> QED
    BY <1>4, <2>1
<1> QED
  BY <1>2, <1>3, <1>4, <1>5 DEF left, gone, lost

\* do_work returns from sending.
LEMMA SendEnds ==
  ASSUME TelInv, turn = "send", NEW ok \in BOOLEAN, SendReturns(ok)
  PROVE  TelFills' /\ TelStates' /\ message_sender' # "none"
<1>1. turn' = "pump" /\ pending' = 0 /\ message_sender' = message_sender /\ msgrState' \in {msgrState, "ERROR"}
  BY DEF SendReturns, linkVars
<1>2. message_sender # "none" /\ msgrState \notin {"STOPPED", "gone"}
  BY DEF TelInv, TelStates
<1> QED
  BY <1>1, <1>2 DEF TelFills, TelStates

\* Or it goes on to the next event.
LEMMA SendGoesOn ==
  ASSUME TelInv, turn = "send", SendContinues
  PROVE  TelStates' /\ message_sender' # "none" /\ turn' = "send"
BY DEF TelInv, TelStates, SendContinues, linkVars

\* The first task fails.
LEMMA FirstFails ==
  ASSUME TelInv, create_send_pending_events_state
  PROVE  TelInv'
<1> DEFINE gone == IF pending = 0 THEN {} ELSE Range(TaskWith(pending).callers)
           e == Head(waiting_to_send)
<1>1. /\ turn = "send" /\ waiting_to_send # <<>> /\ waiting_to_send' = Tail(waiting_to_send)
      /\ told' = Tell(told, gone \cup {e}, "failed")
      /\ in_progress_list' = Without(in_progress_list, {pending})
      /\ uamqp' = uamqp /\ SendReturns(FALSE)
  BY DEF create_send_pending_events_state
<1>2. /\ InLine(in_progress_list') /\ {t.id : t \in Range(in_progress_list')} = TaskIds \ {pending}
      /\ DueIn(in_progress_list') = DueIn(in_progress_list) \ gone /\ gone \subseteq DueIn(in_progress_list)
  BY <1>1, GivenUp
<1> HIDE DEF gone
<1>3. TelLines'
  BY <1>1, <1>2, HeadFacts DEF TelLines, Before
<1>4. TelTold'
  <2>1. gone \cup {e} \subseteq HeldIn(told)
    BY <1>1, <1>2, HeadFacts
  <2>2. DueIn(in_progress_list') \cup Range(waiting_to_send') = HeldIn(told) \ (gone \cup {e})
    BY <1>1, <1>2, HeadFacts
  <2> QED
    BY <1>1, <2>1, <2>2, Answered
<1>5. TelFills' /\ TelStates' /\ message_sender' # "none"
  BY <1>1, SendEnds
<1>6. TasksOutliveSends'
  <2>1. uamqp \subseteq TaskIds /\ pending \notin uamqp
    BY FillingFacts, LineFacts DEF TelInv, TasksOutliveSends, TaskIds, Tasks, TelLines, TelTask
  <2> QED
    BY <1>1, <1>2, <1>5, <2>1 DEF TasksOutliveSends, TaskIds, Tasks
<1> QED
  BY <1>3, <1>4, <1>5, <1>6 DEF TelInv

\* An event that cannot be sent is told and passed over.
LEMMA PassedOver ==
  ASSUME TelInv, invoke_callback_on_error
  PROVE  TelInv'
<1> DEFINE e == Head(waiting_to_send)
<1>1. /\ turn = "send" /\ waiting_to_send # <<>> /\ waiting_to_send' = Tail(waiting_to_send)
      /\ told' = Tell(told, {e}, "failed") /\ uamqp' = uamqp /\ SendContinues
      /\ IF pending = 0 THEN pending' = NewId /\ in_progress_list' = Append(in_progress_list, NewTask(NewId))
         ELSE pending' = pending /\ in_progress_list' = in_progress_list
  BY DEF invoke_callback_on_error
<1>2. InLine(in_progress_list) /\ uamqp \subseteq TaskIds
  BY DEF TelInv, TelLines, TasksOutliveSends
<1>3. TelStates' /\ message_sender' # "none" /\ turn' = "send"
  BY <1>1, SendGoesOn
<1>4. /\ InLine(in_progress_list') /\ DueIn(in_progress_list') = DueIn(in_progress_list)
      /\ uamqp \subseteq {t.id : t \in Range(in_progress_list')}
      /\ TelFills'
  <2>1. CASE pending = 0
    <3> DEFINE t == NewTask(NewId)
    <3>1. NewId \in Nat \ {0} /\ NewId \notin TaskIds
      BY <1>2, NewIdFacts
    <3>2. t \in TelTask /\ t.id = NewId /\ t.callers = <<>> /\ ~t.timedOut
      BY <3>1 DEF NewTask, TelTask
    <3> HIDE DEF t
    <3>3. DueOf(t) = {} /\ Sorted(t.callers, Rising)
      BY <3>2 DEF DueOf, Range, Sorted
    <3>4. \A u \in Range(in_progress_list) : u.id # t.id
      BY <3>1, <3>2 DEF TaskIds, Tasks
    <3>5. Before(DueIn(in_progress_list), DueOf(t))
      BY <3>3 DEF Before
    <3>6. in_progress_list' = Append(in_progress_list, t) /\ pending' = NewId
      BY <1>1, <2>1 DEF t
    <3>7. /\ InLine(in_progress_list')
          /\ Range(in_progress_list') = Range(in_progress_list) \cup {t}
          /\ DueIn(in_progress_list') = DueIn(in_progress_list) \cup DueOf(t)
          /\ in_progress_list' # <<>> /\ in_progress_list'[Len(in_progress_list')] = t
      BY <1>2, <3>2, <3>3, <3>4, <3>5, <3>6, LineAppended
    <3>8. uamqp \subseteq {u.id : u \in Range(in_progress_list')}
      BY <1>2, <3>7 DEF TaskIds, Tasks
    <3>9. TelFills'
      BY <1>1, <1>2, <1>3, <3>1, <3>2, <3>6, <3>7 DEF TelFills
    <3> QED
      BY <3>3, <3>7, <3>8, <3>9
  <2>2. CASE pending # 0
    BY <1>1, <1>2, <1>3, <2>2 DEF TelInv, TelFills, TaskIds, Tasks
  <2> QED
    BY <2>1, <2>2
<1>5. TelLines'
  BY <1>1, <1>4, HeadFacts DEF TelLines
<1>6. TelTold'
  <2>1. {e} \subseteq HeldIn(told)
    BY <1>1, HeadFacts
  <2>2. DueIn(in_progress_list') \cup Range(waiting_to_send') = HeldIn(told) \ {e}
    BY <1>1, <1>4, HeadFacts
  <2> QED
    BY <1>1, <2>1, <2>2, Answered
<1>7. TasksOutliveSends'
  BY <1>1, <1>3, <1>4 DEF TasksOutliveSends, TaskIds, Tasks
<1> QED
  BY <1>3, <1>4, <1>5, <1>6, <1>7 DEF TelInv

\* The first event that waits joins the callers of the task being filled.
LEMMA Joined ==
  ASSUME TelInv, pending # 0, waiting_to_send # <<>>, NEW u \in TelTask, u.id = pending, ~u.timedOut,
         u.callers = Append(TaskWith(pending).callers, Head(waiting_to_send))
  PROVE  /\ InLine(Replace(pending, u)) /\ {t.id : t \in Range(Replace(pending, u))} = TaskIds
         /\ Replace(pending, u) # <<>> /\ Replace(pending, u)[Len(Replace(pending, u))] = u
         /\ DueIn(Replace(pending, u)) = DueIn(in_progress_list) \cup {Head(waiting_to_send)}
         /\ Before(DueIn(Replace(pending, u)), Range(Tail(waiting_to_send)))
<1> DEFINE e == Head(waiting_to_send)
           t == TaskWith(pending)
           left == Replace(pending, u)
<1>1. /\ in_progress_list # <<>> /\ pending \in TaskIds
      /\ t = in_progress_list[Len(in_progress_list)] /\ pending = in_progress_list[Len(in_progress_list)].id
      /\ DueOf(t) = Range(t.callers) /\ ~t.timedOut
  BY FillingFacts
<1>2. InLine(in_progress_list)
  BY DEF TelInv, TelLines
<1>3. t \in Range(in_progress_list) /\ t \in TelTask /\ t.id = pending
  BY <1>1, <1>2, TaskWithFacts
<1>4. e \in TelEvents /\ Before(DueIn(in_progress_list), {e})
  BY HeadFacts
<1>5. \A x : x \in DueIn(in_progress_list) <=> \E v \in Range(in_progress_list) : x \in DueOf(v)
  BY <1>2, LineFacts
<1>6. t.callers \in Seq(TelEvents) /\ Sorted(t.callers, Rising)
  BY <1>2, <1>3 DEF InLine, TelTask
<1> HIDE DEF t, e
<1>7. \A x \in Range(t.callers) : <<x, e>> \in Rising
  <2> SUFFICES ASSUME NEW x \in Range(t.callers) PROVE <<x, e>> \in Rising
    OBVIOUS
  <2>1. x < e
    BY <1>1, <1>3, <1>4, <1>5 DEF Before
  <2>2. x \in TelEvents
    <3>1. PICK n \in DOMAIN t.callers : x = t.callers[n]
      BY DEF Range
    <3> QED
      BY <1>6, <3>1
  <2>3. x \in Nat /\ e \in Nat
    BY <1>4, <2>2, EventsAreNumbers
  <2> QED
    BY <2>1, <2>3, RisingSays
<1>8. /\ Append(t.callers, e) \in Seq(TelEvents)
      /\ Range(Append(t.callers, e)) = Range(t.callers) \cup {e}
      /\ Sorted(Append(t.callers, e), Rising)
  BY <1>4, <1>6, <1>7, AppendInOrder
<1>9. u.callers = Append(t.callers, e)
  BY DEF t, e
<1>10. DueOf(u) = DueOf(t) \cup {e}
  BY <1>1, <1>8, <1>9 DEF DueOf
<1>11. \A v \in Range(in_progress_list) : v.id # pending => Before(DueOf(v), DueOf(u))
  <2> SUFFICES ASSUME NEW i \in DOMAIN in_progress_list, in_progress_list[i].id # pending
               PROVE  Before(DueOf(in_progress_list[i]), DueOf(u))
    BY DEF Range
  <2> DEFINE v == in_progress_list[i]
             last == Len(in_progress_list)
  <2>1. in_progress_list \in Seq(TelTask) /\ Sorted(in_progress_list, Earlier)
    BY <1>2 DEF InLine
  <2>2. i # last /\ i \in 1..last /\ last \in Nat /\ last \in DOMAIN in_progress_list /\ i < last
    BY <1>1, <2>1, EmptySeq
  <2>3. v \in TelTask /\ v \in Range(in_progress_list) /\ <<v, t>> \in Earlier
    BY <1>1, <2>1, <2>2 DEF Sorted, Range
  <2>4. Before(DueOf(v), DueOf(t)) /\ Before(DueOf(v), {e})
    BY <1>3, <1>4, <1>5, <2>3, EarlierSays DEF Before
  <2> QED
    BY <1>10, <2>4 DEF Before
<1>12. /\ InLine(left) /\ left # <<>> /\ left[Len(left)] = u
       /\ Range(left) = {v \in Range(in_progress_list) : v.id # pending} \cup {u}
       /\ DueIn(left) = (DueIn(in_progress_list) \ DueOf(t)) \cup DueOf(u)
  <2>2. Sorted(u.callers, Rising)
    BY <1>8, <1>9
  <2>3. /\ InLine(in_progress_list) /\ in_progress_list # <<>> /\ u \in TelTask /\ u.id = pending
        /\ pending = in_progress_list[Len(in_progress_list)].id
        /\ \A v \in Range(in_progress_list) : v.id # pending => Before(DueOf(v), DueOf(u))
    BY <1>1, <1>2, <1>9, <1>11
  <2>4. /\ InLine(left) /\ left # <<>> /\ left[Len(left)] = u
        /\ Range(left) = {v \in Range(in_progress_list) : v.id # pending} \cup {u}
        /\ DueIn(left) = (DueIn(in_progress_list) \ DueOf(in_progress_list[Len(in_progress_list)])) \cup DueOf(u)
    BY <2>2, <2>3, LastReplaced
  <2> QED
    BY <1>1, <2>4
<1> HIDE DEF left
<1>13. DueIn(left) = DueIn(in_progress_list) \cup {e}
  <2>1. DueOf(t) \subseteq DueIn(in_progress_list)
    BY <1>3, <1>5
  <2>2. DueIn(left) = (DueIn(in_progress_list) \ DueOf(t)) \cup DueOf(u)
    BY <1>12
  <2> QED
    BY <1>10, <2>1, <2>2
<1>14. {v.id : v \in Range(left)} = TaskIds
  BY <1>1, <1>9, <1>12 DEF TaskIds, Tasks
<1>15. Before(DueIn(left), Range(Tail(waiting_to_send)))
  BY <1>13, HeadFacts DEF Before, e
<1> QED
  BY <1>12, <1>13, <1>14, <1>15 DEF left, e

\* The task being filled, with the event that joins it.
LEMMA JoinedTask ==
  ASSUME TelInv, pending # 0, waiting_to_send # <<>>, NEW b \in SUBSET TelEvents, NEW sent \in BOOLEAN,
         NEW u, u = [TaskWith(pending) EXCEPT !.callers = Append(@, Head(waiting_to_send)), !.bodies = b, !.sent = sent]
  PROVE  /\ u \in TelTask /\ u.id = pending /\ ~u.timedOut
         /\ u.callers = Append(TaskWith(pending).callers, Head(waiting_to_send))
<1> DEFINE t == TaskWith(pending)
           e == Head(waiting_to_send)
<1>1. t \in TelTask /\ t.id = pending /\ ~t.timedOut
  BY FillingFacts, TaskWithFacts DEF TelInv, TelLines
<1>2. e \in TelEvents
  BY HeadFacts
<1> HIDE DEF t, e
<1>3. t.callers \in Seq(TelEvents) /\ Append(t.callers, e) \in Seq(TelEvents)
  BY <1>1, <1>2, AppendProperties DEF TelTask
<1>4. u = [t EXCEPT !.callers = Append(t.callers, e), !.bodies = b, !.sent = sent]
  BY DEF t, e
<1>5. /\ u.id = t.id /\ u.timedOut = t.timedOut /\ u.callers = Append(t.callers, e)
      /\ u \in TelTask
  BY <1>1, <1>3, <1>4 DEF TelTask
<1> QED
  BY <1>1, <1>5 DEF t, e

\* The event goes into the batch.
LEMMA BatchGrows ==
  ASSUME TelInv, AddsToBatch
  PROVE  TelInv'
<1> DEFINE e == Head(waiting_to_send)
           id == IF pending = 0 THEN NewId ELSE pending
           t == IF pending = 0 THEN NewTask(id) ELSE TaskWith(pending)
           u == [t EXCEPT !.callers = Append(@, e), !.bodies = @ \cup {e}]
<1>1. /\ turn = "send" /\ waiting_to_send # <<>> /\ waiting_to_send' = Tail(waiting_to_send)
      /\ told' = told /\ uamqp' = uamqp /\ SendContinues /\ pending' = id
      /\ in_progress_list' = IF pending = 0 THEN Append(in_progress_list, u) ELSE Replace(id, u)
  BY DEF AddsToBatch
<1>2. InLine(in_progress_list) /\ uamqp \subseteq TaskIds
  BY DEF TelInv, TelLines, TasksOutliveSends
<1>3. TelStates' /\ message_sender' # "none" /\ turn' = "send"
  BY <1>1, SendGoesOn
<1>4. e \in TelEvents
  BY <1>1, HeadFacts
<1>5. /\ InLine(in_progress_list') /\ DueIn(in_progress_list') = DueIn(in_progress_list) \cup {e}
      /\ Before(DueIn(in_progress_list'), Range(Tail(waiting_to_send)))
      /\ uamqp \subseteq {v.id : v \in Range(in_progress_list')}
      /\ TelFills'
  <2>1. CASE pending = 0
    <3>1. NewId \in Nat \ {0} /\ NewId \notin TaskIds
      BY <1>2, NewIdFacts
    <3>2. u = [NewTask(NewId) EXCEPT !.callers = Append(NewTask(NewId).callers, e), !.bodies = NewTask(NewId).bodies \cup {e}]
      BY <2>1
    <3>3. in_progress_list' = Append(in_progress_list, u) /\ pending' = NewId
      BY <1>1, <2>1
    <3> HIDE DEF u, t, id
    <3>4. Append(<<>>, e) = <<e>> /\ <<e>> \in Seq(TelEvents) /\ Range(<<e>>) = {e} /\ Sorted(<<e>>, Rising)
      <4>1. Append(<<>>, e) = <<e>>
        OBVIOUS
      <4>2. <<e>> \in Seq(TelEvents) /\ DOMAIN <<e>> = {1} /\ <<e>>[1] = e
        BY <1>4
      <4> QED
        BY <4>1, <4>2 DEF Range, Sorted
    <3>5. /\ u \in TelTask /\ u.id = NewId /\ u.callers = <<e>> /\ ~u.timedOut /\ u.bodies # {}
      <4> DEFINE k == NewTask(NewId)
      <4>1. k \in TelTask /\ k.id = NewId /\ k.callers = <<>> /\ k.bodies = {} /\ ~k.timedOut
        BY <3>1 DEF NewTask, TelTask
      <4>2. u = [k EXCEPT !.callers = <<e>>, !.bodies = {e}]
        BY <3>2, <3>4, <4>1
      <4> HIDE DEF k
      <4> QED
        BY <1>4, <3>4, <4>1, <4>2 DEF TelTask
    <3>6. DueOf(u) = {e} /\ Sorted(u.callers, Rising)
      BY <3>4, <3>5 DEF DueOf
    <3>7. \A v \in Range(in_progress_list) : v.id # u.id
      BY <3>1, <3>5 DEF TaskIds, Tasks
    <3>8. Before(DueIn(in_progress_list), DueOf(u))
      BY <1>1, <3>6, HeadFacts
    <3>9. /\ InLine(in_progress_list')
          /\ Range(in_progress_list') = Range(in_progress_list) \cup {u}
          /\ DueIn(in_progress_list') = DueIn(in_progress_list) \cup DueOf(u)
          /\ in_progress_list' # <<>> /\ in_progress_list'[Len(in_progress_list')] = u
      BY <1>2, <3>3, <3>5, <3>6, <3>7, <3>8, LineAppended
    <3>10. uamqp \subseteq {v.id : v \in Range(in_progress_list')}
      BY <1>2, <3>9 DEF TaskIds, Tasks
    <3>11. TelFills'
      BY <1>1, <1>2, <1>3, <3>1, <3>3, <3>5, <3>9 DEF TelFills
    <3>12. Before(DueIn(in_progress_list'), Range(Tail(waiting_to_send)))
      BY <1>1, <3>6, <3>9, HeadFacts DEF Before
    <3> QED
      BY <3>6, <3>9, <3>10, <3>11, <3>12
  <2>2. CASE pending # 0
    <3>1. TaskWith(pending) \in TelTask /\ pending \notin uamqp
      BY <1>2, <2>2, FillingFacts, TaskWithFacts
    <3>2. in_progress_list' = Replace(pending, u) /\ pending' = pending
      BY <1>1, <2>2
    <3> DEFINE b == TaskWith(pending).bodies \cup {e}
               s == TaskWith(pending).sent
    <3>3. b \in SUBSET TelEvents /\ s \in BOOLEAN
      BY <1>4, <3>1 DEF TelTask
    <3>4. u = [TaskWith(pending) EXCEPT !.callers = Append(@, Head(waiting_to_send)), !.bodies = b, !.sent = s]
      <4>1. u = [TaskWith(pending) EXCEPT !.callers = Append(@, e), !.bodies = b]
        BY <2>2
      <4> QED
        BY <3>1, <4>1 DEF TelTask
    <3> HIDE DEF u, t, id, b, s
    <3>5. u \in TelTask /\ u.id = pending /\ ~u.timedOut /\ u.callers = Append(TaskWith(pending).callers, Head(waiting_to_send))
      BY <1>1, <2>2, <3>3, <3>4, JoinedTask
    <3>6. /\ InLine(Replace(pending, u)) /\ {v.id : v \in Range(Replace(pending, u))} = TaskIds
          /\ Replace(pending, u) # <<>> /\ Replace(pending, u)[Len(Replace(pending, u))] = u
          /\ DueIn(Replace(pending, u)) = DueIn(in_progress_list) \cup {e}
          /\ Before(DueIn(Replace(pending, u)), Range(Tail(waiting_to_send)))
      BY <1>1, <2>2, <3>5, Joined
    <3>7. TelFills'
      <4>1. u.bodies # {}
        BY <3>1, <3>4 DEF TelTask, b
      <4> QED
        BY <1>1, <1>3, <3>1, <3>2, <3>5, <3>6, <4>1 DEF TelFills
    <3> QED
      BY <1>2, <3>2, <3>6, <3>7
  <2> QED
    BY <2>1, <2>2
<1>6. TelLines'
  BY <1>1, <1>5, HeadFacts DEF TelLines
<1>7. TelTold'
  <2>1. DueIn(in_progress_list') \cup Range(waiting_to_send') = HeldIn(told)
    BY <1>1, <1>5, HeadFacts
  <2> QED
    BY <1>1, <2>1, NobodyAnswered
<1>8. TasksOutliveSends'
  BY <1>1, <1>3, <1>5 DEF TasksOutliveSends, TaskIds, Tasks
<1> QED
  BY <1>3, <1>5, <1>6, <1>7, <1>8 DEF TelInv

\* The full batch is handed to uAMQP, and another one begins.
LEMMA BatchSplits ==
  ASSUME TelInv, SplitsBatch
  PROVE  TelInv'
<1> DEFINE e == Head(waiting_to_send)
           full == [TaskWith(pending) EXCEPT !.callers = Append(@, e), !.sent = TRUE]
           t == [NewTask(NewId) EXCEPT !.bodies = {e}]
           left == Replace(pending, full)
<1>1. /\ turn = "send" /\ waiting_to_send # <<>> /\ pending # 0 /\ waiting_to_send' = Tail(waiting_to_send)
      /\ uamqp' = uamqp \cup {pending} /\ pending' = NewId
      /\ in_progress_list' = Append(left, t)
      /\ told' = told /\ SendContinues
  BY DEF SplitsBatch
<1>2. InLine(in_progress_list) /\ uamqp \subseteq TaskIds
  BY DEF TelInv, TelLines, TasksOutliveSends
<1>3. TelStates' /\ message_sender' # "none" /\ turn' = "send"
  BY <1>1, SendGoesOn
<1>4. e \in TelEvents
  BY <1>1, HeadFacts
<1>5. TaskWith(pending) \in TelTask /\ pending \in TaskIds
  BY <1>1, <1>2, FillingFacts, TaskWithFacts
<1>6. NewId \in Nat \ {0} /\ NewId \notin TaskIds
  BY <1>2, NewIdFacts
<1>7. full \in TelTask /\ full.id = pending /\ ~full.timedOut /\ full.callers = Append(TaskWith(pending).callers, e)
  <2> DEFINE b == TaskWith(pending).bodies
  <2>1. b \in SUBSET TelEvents
    BY <1>5 DEF TelTask
  <2>2. full = [TaskWith(pending) EXCEPT !.callers = Append(@, Head(waiting_to_send)), !.bodies = b, !.sent = TRUE]
    BY <1>5 DEF TelTask
  <2> HIDE DEF full, b
  <2> QED
    BY <1>1, <2>1, <2>2, JoinedTask
<1>8. NewTask(NewId) \in TelTask /\ NewTask(NewId).id = NewId /\ NewTask(NewId).callers = <<>> /\ ~NewTask(NewId).timedOut
  BY <1>6 DEF NewTask, TelTask
<1>9. t \in TelTask /\ t.id = NewId /\ t.callers = <<>> /\ ~t.timedOut /\ t.bodies # {}
  BY <1>4, <1>8 DEF TelTask
<1> HIDE DEF full, t
<1>10. DueOf(t) = {} /\ Sorted(t.callers, Rising)
  BY <1>9 DEF DueOf, Range, Sorted
<1>11. /\ InLine(left) /\ {v.id : v \in Range(left)} = TaskIds
       /\ DueIn(left) = DueIn(in_progress_list) \cup {e}
       /\ Before(DueIn(left), Range(Tail(waiting_to_send)))
  BY <1>1, <1>7, Joined
<1> HIDE DEF left
<1>12. \A v \in Range(left) : v.id # t.id
  BY <1>6, <1>9, <1>11
<1>13. Before(DueIn(left), DueOf(t))
  BY <1>10 DEF Before
<1>14. /\ InLine(in_progress_list')
       /\ Range(in_progress_list') = Range(left) \cup {t}
       /\ DueIn(in_progress_list') = DueIn(left) \cup DueOf(t)
       /\ in_progress_list' # <<>> /\ in_progress_list'[Len(in_progress_list')] = t
  BY <1>1, <1>9, <1>10, <1>11, <1>12, <1>13, LineAppended
<1>15. TelLines'
  BY <1>1, <1>10, <1>11, <1>14, HeadFacts DEF TelLines
<1>16. TelTold'
  <2>1. DueIn(in_progress_list') \cup Range(waiting_to_send') = HeldIn(told)
    BY <1>1, <1>10, <1>11, <1>14, HeadFacts
  <2> QED
    BY <1>1, <2>1, NobodyAnswered
<1>17. TelFills'
  BY <1>1, <1>2, <1>3, <1>5, <1>6, <1>9, <1>14 DEF TelFills
<1>18. TasksOutliveSends'
  <2>1. uamqp' \subseteq {v.id : v \in Range(in_progress_list')}
    <3>1. \A v \in Range(left) : v \in Range(in_progress_list')
      BY <1>14
    <3>2. TaskIds \subseteq {v.id : v \in Range(in_progress_list')}
      BY <1>11, <3>1
    <3> QED
      BY <1>1, <1>2, <1>5, <3>2
  <2> QED
    BY <1>3, <2>1 DEF TasksOutliveSends, TaskIds, Tasks
<1> QED
  BY <1>3, <1>15, <1>16, <1>17, <1>18 DEF TelInv

\* The full batch could not be handed over, or nothing begins after it.
LEMMA SplitEnds ==
  ASSUME TelInv, SplitFails
  PROVE  TelInv'
<1> DEFINE e == Head(waiting_to_send)
<1>1. /\ turn = "send" /\ waiting_to_send # <<>> /\ pending # 0 /\ waiting_to_send' = Tail(waiting_to_send)
      /\ told' = told /\ SendReturns(FALSE)
  BY DEF SplitFails
<1>2. PICK sent \in BOOLEAN :
        /\ in_progress_list' = Replace(pending, [TaskWith(pending) EXCEPT !.callers = Append(@, e), !.sent = sent])
        /\ uamqp' = IF sent THEN uamqp \cup {pending} ELSE uamqp
  BY DEF SplitFails
<1> DEFINE u == [TaskWith(pending) EXCEPT !.callers = Append(@, e), !.sent = sent]
<1>3. InLine(in_progress_list) /\ uamqp \subseteq TaskIds
  BY DEF TelInv, TelLines, TasksOutliveSends
<1>4. TaskWith(pending) \in TelTask /\ pending \in TaskIds
  BY <1>1, <1>3, FillingFacts, TaskWithFacts
<1>5. u \in TelTask /\ u.id = pending /\ ~u.timedOut /\ u.callers = Append(TaskWith(pending).callers, e)
  <2> DEFINE b == TaskWith(pending).bodies
  <2>1. b \in SUBSET TelEvents
    BY <1>4 DEF TelTask
  <2>2. u = [TaskWith(pending) EXCEPT !.callers = Append(@, Head(waiting_to_send)), !.bodies = b, !.sent = sent]
    BY <1>4 DEF TelTask
  <2> HIDE DEF u, b
  <2> QED
    BY <1>1, <2>1, <2>2, JoinedTask
<1>6. in_progress_list' = Replace(pending, u)
  BY <1>2
<1> HIDE DEF u
<1>7. /\ InLine(in_progress_list') /\ {v.id : v \in Range(in_progress_list')} = TaskIds
      /\ DueIn(in_progress_list') = DueIn(in_progress_list) \cup {e}
      /\ Before(DueIn(in_progress_list'), Range(Tail(waiting_to_send)))
  BY <1>1, <1>5, <1>6, Joined
<1>8. TelLines'
  BY <1>1, <1>7, HeadFacts DEF TelLines
<1>9. TelTold'
  <2>1. DueIn(in_progress_list') \cup Range(waiting_to_send') = HeldIn(told)
    BY <1>1, <1>7, HeadFacts
  <2> QED
    BY <1>1, <2>1, NobodyAnswered
<1>10. TelFills' /\ TelStates' /\ message_sender' # "none"
  BY <1>1, SendEnds
<1>11. TasksOutliveSends'
  BY <1>2, <1>3, <1>4, <1>7, <1>10 DEF TasksOutliveSends, TaskIds, Tasks
<1> QED
  BY <1>8, <1>9, <1>10, <1>11 DEF TelInv

\* The body could not be added: all callers of the task are told, and it is gone.
LEMMA BodyEnds ==
  ASSUME TelInv, BodyFails
  PROVE  TelInv'
<1> DEFINE gone == IF pending = 0 THEN {} ELSE Range(TaskWith(pending).callers)
           e == Head(waiting_to_send)
<1>1. /\ turn = "send" /\ waiting_to_send # <<>> /\ waiting_to_send' = Tail(waiting_to_send)
      /\ told' = Tell(told, gone \cup {e}, "failed")
      /\ in_progress_list' = Without(in_progress_list, {pending})
      /\ uamqp' = uamqp /\ SendReturns(FALSE)
  BY DEF BodyFails
<1>2. /\ InLine(in_progress_list') /\ {t.id : t \in Range(in_progress_list')} = TaskIds \ {pending}
      /\ DueIn(in_progress_list') = DueIn(in_progress_list) \ gone /\ gone \subseteq DueIn(in_progress_list)
  BY <1>1, GivenUp
<1> HIDE DEF gone
<1>3. TelLines'
  BY <1>1, <1>2, HeadFacts DEF TelLines, Before
<1>4. TelTold'
  <2>1. gone \cup {e} \subseteq HeldIn(told)
    BY <1>1, <1>2, HeadFacts
  <2>2. DueIn(in_progress_list') \cup Range(waiting_to_send') = HeldIn(told) \ (gone \cup {e})
    BY <1>1, <1>2, HeadFacts
  <2> QED
    BY <1>1, <2>1, <2>2, Answered
<1>5. TelFills' /\ TelStates' /\ message_sender' # "none"
  BY <1>1, SendEnds
<1>6. TasksOutliveSends'
  <2>1. uamqp \subseteq TaskIds /\ pending \notin uamqp
    BY FillingFacts, LineFacts DEF TelInv, TasksOutliveSends, TaskIds, Tasks, TelLines, TelTask
  <2> QED
    BY <1>1, <1>2, <1>5, <2>1 DEF TasksOutliveSends, TaskIds, Tasks
<1> QED
  BY <1>3, <1>4, <1>5, <1>6 DEF TelInv

\* The last batch is handed over, is empty and given up, or stays unsent.
LEMMA LastBatch ==
  ASSUME TelInv, send_batched_message_and_reset_state
  PROVE  TelInv'
<1>1. turn = "send" /\ waiting_to_send = <<>> /\ waiting_to_send' = waiting_to_send /\ told' = told
  BY DEF send_batched_message_and_reset_state
<1>2. \E ok \in BOOLEAN : SendReturns(ok)
  BY DEF send_batched_message_and_reset_state
<1>3. TelFills' /\ TelStates' /\ message_sender' # "none"
  BY <1>1, <1>2, SendEnds
<1>4. InLine(in_progress_list) /\ uamqp \subseteq TaskIds
  BY DEF TelInv, TelLines, TasksOutliveSends
<1>5. ASSUME in_progress_list' = in_progress_list, uamqp' = uamqp
      PROVE  TelInv'
  <2>1. TelLines' /\ TelTold'
    BY <1>1, <1>5, SameLists
  <2>2. TasksOutliveSends'
    BY <1>3, <1>4, <1>5 DEF TasksOutliveSends, TaskIds, Tasks
  <2> QED
    BY <1>3, <2>1, <2>2 DEF TelInv
<1>6. ASSUME pending # 0, in_progress_list' = Without(in_progress_list, {pending}), TaskWith(pending).callers = <<>>, uamqp' = uamqp
      PROVE  TelInv'
  <2>1. /\ InLine(in_progress_list') /\ {t.id : t \in Range(in_progress_list')} = TaskIds \ {pending}
        /\ DueIn(in_progress_list') = DueIn(in_progress_list) \ Range(TaskWith(pending).callers)
    BY <1>6, GivenUp
  <2>2. Range(TaskWith(pending).callers) = {}
    BY <1>6 DEF Range
  <2>3. TelLines'
    BY <1>1, <2>1, <2>2 DEF TelInv, TelLines
  <2>4. TelTold'
    BY <1>1, <2>1, <2>2 DEF TelInv, TelTold
  <2>5. TasksOutliveSends'
    BY <1>3, <1>4, <1>6, <2>1, FillingFacts DEF TasksOutliveSends, TaskIds, Tasks
  <2> QED
    BY <1>3, <2>3, <2>4, <2>5 DEF TelInv
<1>7. ASSUME pending # 0, in_progress_list' = Replace(pending, [TaskWith(pending) EXCEPT !.sent = TRUE]),
             uamqp' = uamqp \cup {pending}
      PROVE  TelInv'
  <2> DEFINE t == TaskWith(pending)
             u == [t EXCEPT !.sent = TRUE]
  <2>1. /\ in_progress_list # <<>> /\ pending \in TaskIds
        /\ t = in_progress_list[Len(in_progress_list)] /\ pending = in_progress_list[Len(in_progress_list)].id
        /\ DueOf(t) = Range(t.callers) /\ ~t.timedOut
    BY <1>7, FillingFacts
  <2>2. t \in Range(in_progress_list) /\ t \in TelTask /\ t.id = pending
    BY <1>4, <2>1, TaskWithFacts
  <2>3. in_progress_list' = Replace(pending, u)
    BY <1>7
  <2> HIDE DEF t
  <2>4. u \in TelTask /\ u.id = pending /\ u.callers = t.callers /\ ~u.timedOut
    BY <2>1, <2>2 DEF TelTask
  <2> HIDE DEF u
  <2>5. DueOf(u) = DueOf(t) /\ Sorted(u.callers, Rising)
    BY <1>4, <2>1, <2>2, <2>4 DEF DueOf, InLine
  <2>6. \A v \in Range(in_progress_list) : v.id # u.id => Before(DueOf(v), DueOf(u))
    <3> SUFFICES ASSUME NEW i \in DOMAIN in_progress_list, in_progress_list[i].id # pending
                 PROVE  Before(DueOf(in_progress_list[i]), DueOf(t))
      BY <2>4, <2>5 DEF Range
    <3> DEFINE v == in_progress_list[i]
               last == Len(in_progress_list)
    <3>1. in_progress_list \in Seq(TelTask) /\ Sorted(in_progress_list, Earlier)
      BY <1>4 DEF InLine
    <3>2. i # last /\ i \in 1..last /\ last \in Nat /\ last \in DOMAIN in_progress_list /\ i < last
      BY <2>1, <3>1, EmptySeq
    <3>3. v \in TelTask /\ <<v, t>> \in Earlier
      BY <2>1, <3>1, <3>2 DEF Sorted
    <3> QED
      BY <2>2, <3>3, EarlierSays
  <2>7. /\ InLine(Replace(u.id, u))
        /\ Range(Replace(u.id, u)) = {v \in Range(in_progress_list) : v.id # u.id} \cup {u}
        /\ DueIn(Replace(u.id, u)) = (DueIn(in_progress_list) \ DueOf(in_progress_list[Len(in_progress_list)])) \cup DueOf(u)
    BY <1>4, <2>1, <2>4, <2>5, <2>6, LastReplaced
  <2>8. InLine(in_progress_list') /\ {v.id : v \in Range(in_progress_list')} = TaskIds
    BY <2>1, <2>3, <2>4, <2>7 DEF TaskIds, Tasks
  <2>9. DueIn(in_progress_list') = DueIn(in_progress_list)
    <3>1. DueOf(t) \subseteq DueIn(in_progress_list)
      BY <1>4, <2>2, LineFacts
    <3> QED
      BY <2>1, <2>3, <2>4, <2>5, <2>7, <3>1
  <2>10. TelLines'
    BY <1>1, <2>8, <2>9 DEF TelInv, TelLines
  <2>11. TelTold'
    BY <1>1, <2>9 DEF TelInv, TelTold
  <2>12. TasksOutliveSends'
    BY <1>3, <1>4, <1>7, <2>1, <2>8 DEF TasksOutliveSends, TaskIds, Tasks
  <2> QED
    BY <1>3, <2>10, <2>11, <2>12 DEF TelInv
<1>8. pending # 0 /\ TaskWith(pending).bodies = {} => TaskWith(pending).callers = <<>>
  BY FillingFacts
<1> QED
  BY <1>5, <1>6, <1>7, <1>8 DEF send_batched_message_and_reset_state

\* An event is accepted: it comes after all that were.
LEMMA EventWaits ==
  ASSUME TelInv, telemetry_messenger_send_async
  PROVE  TelInv'
<1>1. /\ turn = "api" /\ turn' = turn /\ msgrState' = msgrState /\ message_sender' = message_sender
      /\ in_progress_list' = in_progress_list /\ uamqp' = uamqp /\ pending' = pending
  BY DEF telemetry_messenger_send_async, linkVars
<1>2. PICK e \in TelEvents :
        /\ told[e] = "new" /\ \A d \in TelEvents : d < e => told[d] # "new"
        /\ told' = [told EXCEPT ![e] = "held"]
        /\ waiting_to_send' = Append(waiting_to_send, e)
  BY DEF telemetry_messenger_send_async
<1>3. /\ InLine(in_progress_list) /\ waiting_to_send \in Seq(TelEvents) /\ Sorted(waiting_to_send, Rising)
      /\ Before(DueIn(in_progress_list), Range(waiting_to_send))
  BY DEF TelInv, TelLines
<1>4. /\ told \in [TelEvents -> TelStatuses]
      /\ DueIn(in_progress_list) \cup Range(waiting_to_send) = HeldIn(told)
      /\ \A d, f \in TelEvents : d < f /\ told[d] = "new" => told[f] = "new"
  BY DEF TelInv, TelTold
<1>5. \A x \in HeldIn(told) : x < e
  <2> SUFFICES ASSUME NEW x \in TelEvents, told[x] = "held" PROVE x < e
    BY DEF HeldIn
  <2>1. x \in Nat /\ e \in Nat /\ x # e
    BY <1>2, EventsAreNumbers
  <2>2. ~(e < x)
    BY <1>2, <1>4
  <2> QED
    BY <2>1, <2>2
<1>6. \A x \in Range(waiting_to_send) : <<x, e>> \in Rising
  <2> SUFFICES ASSUME NEW x \in Range(waiting_to_send) PROVE <<x, e>> \in Rising
    OBVIOUS
  <2>1. x < e /\ x \in TelEvents
    BY <1>4, <1>5 DEF HeldIn
  <2> QED
    BY <2>1, EventsAreNumbers, RisingSays
<1>7. /\ waiting_to_send' \in Seq(TelEvents)
      /\ Range(waiting_to_send') = Range(waiting_to_send) \cup {e}
      /\ Sorted(waiting_to_send', Rising)
  BY <1>2, <1>3, <1>6, AppendInOrder
<1>8. Before(DueIn(in_progress_list), Range(waiting_to_send'))
  BY <1>3, <1>4, <1>5, <1>7 DEF Before
<1>9. TelLines'
  BY <1>1, <1>3, <1>7, <1>8 DEF TelLines
<1>10. told' \in [TelEvents -> TelStatuses] /\ HeldIn(told') = HeldIn(told) \cup {e}
  <2>1. "held" \in TelStatuses
    BY DEF TelStatuses
  <2> QED
    BY <1>2, <1>4, <2>1 DEF HeldIn
<1>11. \A d, f \in TelEvents : d < f /\ told'[d] = "new" => told'[f] = "new"
  <2> SUFFICES ASSUME NEW d \in TelEvents, NEW f \in TelEvents, d < f, told'[d] = "new" PROVE told'[f] = "new"
    OBVIOUS
  <2>1. d # e /\ told[d] = "new"
    BY <1>2, <1>4
  <2>2. ~(d < e)
    BY <1>2, <2>1
  <2>3. d \in Nat /\ f \in Nat /\ e \in Nat
    BY EventsAreNumbers
  <2>4. f # e /\ told[f] = "new"
    BY <1>4, <2>1, <2>2, <2>3
  <2> QED
    BY <1>2, <1>4, <2>4
<1>12. TelTold'
  BY <1>1, <1>4, <1>7, <1>10, <1>11 DEF TelTold
<1>13. TelFills' /\ TelStates' /\ TasksOutliveSends'
  BY <1>1 DEF TelInv, TelFills, TelStates, TasksOutliveSends, TaskIds, Tasks
<1> QED
  BY <1>9, <1>12, <1>13 DEF TelInv

\* What is under way and what waits have no event in common.
LEMMA ListsApart ==
  ASSUME InLine(in_progress_list), Before(DueIn(in_progress_list), Range(waiting_to_send))
  PROVE  DueIn(in_progress_list) \cap Range(waiting_to_send) = {}
<1>1. DueIn(in_progress_list) \subseteq Nat
  BY LineFacts, EventsAreNumbers
<1>2. \A x \in DueIn(in_progress_list) : x \in Nat /\ ~(x < x)
  BY <1>1
<1> QED
  BY <1>2 DEF Before

\* A stop: what uAMQP aborts is told, what timed out is dropped, and the rest waits again, first in line.
LEMMA StopsInv ==
  ASSUME TelInv, FreedIntact, Stops, turn' = turn \/ turn' = "destroy"
  PROVE  TelInv'
<1>1. /\ turn = "api" /\ turn' \in {"api", "destroy"} /\ message_sender' = "none" /\ pending' = pending /\ uamqp' = {}
  BY DEF Stops
<1> DEFINE list == in_progress_list
<1>2. PICK ids \in SUBSET uamqp :
        LET aborted == {t \in Tasks : t.id \in Aborted(ids) /\ ~t.timedOut}
            answered == Tell(told, UNION {Range(t.callers) : t \in aborted}, "failed") IN
          \E moved \in remove_timed_out_events(Without(in_progress_list, Aborted(ids))) :
            Moves(moved, answered) \/ MoveFails(moved, answered)
  BY DEF Stops
<1> DEFINE ab == Aborted(ids)
           left == Without(list, ab)
           gone == UNION {Range(t.callers) : t \in {u \in Tasks : u.id \in ab /\ ~u.timedOut}}
           answered == Tell(told, gone, "failed")
           out == {left[n].id : n \in {m \in {n \in DOMAIN left : left[n].timedOut} : m <= Len(left)}}
           rest == Without(left, out)
<1>3. /\ InLine(list) /\ waiting_to_send \in Seq(TelEvents) /\ Sorted(waiting_to_send, Rising)
      /\ Before(DueIn(list), Range(waiting_to_send))
      /\ DueIn(list) \cup Range(waiting_to_send) = HeldIn(told)
  BY DEF TelInv, TelLines, TelTold
<1>4. remove_timed_out_events(left) = {rest}
  BY DEF remove_timed_out_events
<1>5. Moves(rest, answered) \/ MoveFails(rest, answered)
  BY <1>2, <1>4
<1> HIDE DEF ab
<1>7. /\ InLine(left) /\ Range(left) = {t \in Range(list) : t.id \notin ab}
      /\ DueIn(left) = DueIn(list) \ UNION {DueOf(t) : t \in {u \in Range(list) : u.id \in ab}}
  BY <1>3, WithoutFacts
<1>8. gone = UNION {DueOf(t) : t \in {u \in Range(list) : u.id \in ab}}
  <2>1. \A x : x \in gone <=> \E t \in Tasks : t.id \in ab /\ ~t.timedOut /\ x \in Range(t.callers)
    OBVIOUS
  <2>2. \A x : x \in UNION {DueOf(t) : t \in {u \in Range(list) : u.id \in ab}}
               <=> \E t \in Tasks : t.id \in ab /\ x \in DueOf(t)
    BY DEF Tasks
  <2>3. \A t, x : x \in DueOf(t) <=> ~t.timedOut /\ x \in Range(t.callers)
    BY DEF DueOf
  <2> HIDE DEF gone
  <2> QED
    BY <2>1, <2>2, <2>3
<1>9. gone \subseteq DueIn(list)
  <2>1. \A x : x \in DueIn(list) <=> \E t \in Range(list) : x \in DueOf(t)
    BY <1>3, LineFacts
  <2>2. \A x : x \in UNION {DueOf(t) : t \in {u \in Range(list) : u.id \in ab}}
               <=> \E t \in Range(list) : t.id \in ab /\ x \in DueOf(t)
    OBVIOUS
  <2> HIDE DEF gone
  <2> QED
    BY <1>8, <2>1, <2>2
<1> HIDE DEF gone, left
<1>10. \A t \in Range(left) : t.id \in out <=> t.timedOut
  <2>1. left \in Seq(TelTask) /\ DOMAIN left = 1..Len(left) /\ Len(left) \in Nat
    BY <1>7 DEF InLine
  <2>2. \A x : x \in out <=> \E t \in Range(left) : t.timedOut /\ x = t.id
    BY <2>1 DEF Range
  <2>3. \A t, u \in Range(left) : t.id = u.id => t = u
    BY <1>7, LineFacts
  <2> HIDE DEF out
  <2> QED
    BY <2>2, <2>3
<1> HIDE DEF out
<1>11. /\ InLine(rest) /\ Range(rest) = {t \in Range(left) : t.id \notin out}
       /\ DueIn(rest) = DueIn(left) \ UNION {DueOf(t) : t \in {u \in Range(left) : u.id \in out}}
  BY <1>7, WithoutFacts
<1>12. \A t \in Range(rest) : ~t.timedOut
  BY <1>10, <1>11
<1>13. DueIn(rest) = DueIn(left)
  <2>1. \A t \in {u \in Range(left) : u.id \in out} : DueOf(t) = {}
    BY <1>10 DEF DueOf
  <2>2. UNION {DueOf(t) : t \in {u \in Range(left) : u.id \in out}} = {}
    BY <2>1
  <2> QED
    BY <1>11, <2>2
<1> HIDE DEF rest
<1>14. DueIn(rest) = DueIn(list) \ gone
  BY <1>7, <1>8, <1>13
<1>15. Before(DueIn(rest), Range(waiting_to_send))
  BY <1>3, <1>14 DEF Before
<1>16. Range(<<>>) = {} /\ Sorted(<<>>, Earlier) /\ DueIn(<<>>) = {}
  BY DEF Range, Sorted, DueIn
<1>17. InLine(<<>>)
  BY <1>16 DEF InLine
<1>18. DueIn(list) \cap Range(waiting_to_send) = {} /\ gone \subseteq HeldIn(told)
  BY <1>3, <1>9, ListsApart
<1>19. TelFills'
  BY <1>1 DEF TelInv, TelFills
<1>20. CASE Moves(rest, answered)
  <2>1. /\ waiting_to_send' = move_events_to_wait_to_send_list(rest) /\ in_progress_list' = <<>>
        /\ told' = Tell(told, gone, "failed") /\ msgrState' = "STOPPED"
    BY <1>20 DEF Moves
  <2> DEFINE callers == [n \in DOMAIN rest |-> rest[n].callers]
  <2>2. waiting_to_send' = FlattenSeq(callers) \o waiting_to_send
    BY <2>1 DEF move_events_to_wait_to_send_list
  <2>3. \A n \in DOMAIN rest : callers[n] = IF rest[n].timedOut THEN <<>> ELSE rest[n].callers
    BY <1>12 DEF Range
  <2>4. DOMAIN callers = DOMAIN rest /\ callers = [n \in DOMAIN callers |-> callers[n]]
    OBVIOUS
  <2> HIDE DEF callers
  <2>5. /\ waiting_to_send' \in Seq(TelEvents)
        /\ Range(waiting_to_send') = DueIn(rest) \cup Range(waiting_to_send)
        /\ Sorted(waiting_to_send', Rising)
    BY <1>3, <1>11, <1>15, <2>2, <2>3, <2>4, MovedFacts
  <2>6. TelLines'
    BY <1>16, <1>17, <2>1, <2>5 DEF TelLines, Before
  <2>7. DueIn(in_progress_list') \cup Range(waiting_to_send') = HeldIn(told) \ gone
    BY <1>3, <1>9, <1>14, <1>16, <1>18, <2>1, <2>5
  <2>8. TelTold'
    BY <1>18, <2>1, <2>7, Answered
  <2>9. TelStates' /\ TasksOutliveSends'
    BY <1>1, <1>16, <2>1 DEF TelStates, TasksOutliveSends
  <2> QED
    BY <1>19, <2>6, <2>8, <2>9 DEF TelInv
<1>21. CASE MoveFails(rest, answered)
  <2>1. /\ waiting_to_send' = waiting_to_send /\ msgrState' = "ERROR"
        /\ \/ in_progress_list' = rest /\ told' = answered
           \/ in_progress_list' = <<>> /\ told' = Tell(answered, CallersIn(rest), "lost")
    BY <1>21 DEF MoveFails
  <2>2. CASE in_progress_list' = rest /\ told' = answered
    <3>1. TelLines'
      BY <1>3, <1>11, <1>15, <2>1, <2>2 DEF TelLines
    <3>2. DueIn(in_progress_list') \cup Range(waiting_to_send') = HeldIn(told) \ gone
      BY <1>3, <1>9, <1>14, <1>18, <2>1, <2>2
    <3>3. TelTold'
      BY <1>18, <2>2, <3>2, Answered
    <3>4. TelStates' /\ TasksOutliveSends'
      BY <1>1, <1>12, <2>1, <2>2 DEF TelStates, TasksOutliveSends
    <3> QED
      BY <1>19, <3>1, <3>3, <3>4 DEF TelInv
  <2>3. CASE in_progress_list' = <<>> /\ told' = Tell(answered, CallersIn(rest), "lost")
    <3>1. TelLines'
      BY <1>3, <1>16, <1>17, <2>1, <2>3 DEF TelLines, Before
    <3>2. CallersIn(rest) = DueIn(rest)
      <4>1. \A x : x \in DueIn(rest) <=> \E t \in Range(rest) : x \in DueOf(t)
        BY <1>11, LineFacts
      <4>2. \A t \in Range(rest) : DueOf(t) = Range(t.callers)
        BY <1>12 DEF DueOf
      <4>3. \A x : x \in CallersIn(rest) <=> \E t \in Range(rest) : x \in Range(t.callers)
        BY <1>12 DEF CallersIn
      <4> QED
        BY <4>1, <4>2, <4>3
    <3>3. told \in [TelEvents -> TelStatuses] /\ \A d, e \in TelEvents : d < e /\ told[d] = "new" => told[e] = "new"
      BY DEF TelInv, TelTold
    <3>4. /\ answered \in [TelEvents -> TelStatuses] /\ HeldIn(answered) = HeldIn(told) \ gone
          /\ \A e \in TelEvents : answered[e] = "new" <=> told[e] = "new"
      BY <1>18, <3>3, TellFacts
    <3> HIDE DEF answered
    <3>5. DueIn(rest) \subseteq HeldIn(answered)
      BY <1>3, <1>14, <3>4
    <3>6. /\ told' \in [TelEvents -> TelStatuses] /\ HeldIn(told') = HeldIn(answered) \ DueIn(rest)
          /\ \A e \in TelEvents : told'[e] = "new" <=> answered[e] = "new"
      BY <2>3, <3>2, <3>4, <3>5, TellFacts
    <3>7. DueIn(in_progress_list') \cup Range(waiting_to_send') = HeldIn(told')
      BY <1>3, <1>9, <1>14, <1>16, <1>18, <2>1, <2>3, <3>4, <3>6
    <3>8. \A d, e \in TelEvents : d < e /\ told'[d] = "new" => told'[e] = "new"
      BY <3>3, <3>4, <3>6
    <3>9. TelTold'
      BY <3>6, <3>7, <3>8 DEF TelTold
    <3>10. TelStates' /\ TasksOutliveSends'
      BY <1>1, <1>16, <2>1, <2>3 DEF TelStates, TasksOutliveSends
    <3> QED
      BY <1>19, <3>1, <3>9, <3>10 DEF TelInv
  <2> QED
    BY <2>1, <2>2, <2>3
<1> QED
  BY <1>5, <1>20, <1>21

\* What is left is told when the messenger goes.
LEMMA GoesInv ==
  ASSUME TelInv, DestroysLists
  PROVE  TelInv'
<1>1. /\ turn = "destroy" \/ (turn = "api" /\ msgrState = "STOPPED")
      /\ turn' = "api" /\ msgrState' = "gone" /\ message_sender' = message_sender
      /\ waiting_to_send' = <<>> /\ in_progress_list' = <<>> /\ uamqp' = uamqp /\ pending' = pending
      /\ told' = Tell(told, Range(waiting_to_send) \cup UNION {Range(t.callers) : t \in Tasks}, "failed")
  BY DEF DestroysLists, linkVars
<1>2. Range(<<>>) = {} /\ Sorted(<<>>, Earlier) /\ Sorted(<<>>, Rising) /\ DueIn(<<>>) = {}
  BY DEF Range, Sorted, DueIn
<1>3. /\ message_sender = "none" /\ uamqp = {} /\ pending = 0
      /\ \A t \in Range(in_progress_list) : ~t.timedOut
  BY <1>1, <1>2 DEF TelInv, TelStates, TelFills, TasksOutliveSends
<1>4. InLine(in_progress_list) /\ DueIn(in_progress_list) \cup Range(waiting_to_send) = HeldIn(told)
  BY DEF TelInv, TelLines, TelTold
<1>5. UNION {Range(t.callers) : t \in Tasks} = DueIn(in_progress_list)
  <2>1. \A x : x \in DueIn(in_progress_list) <=> \E t \in Range(in_progress_list) : x \in DueOf(t)
    BY <1>4, LineFacts
  <2>2. \A t \in Range(in_progress_list) : DueOf(t) = Range(t.callers)
    BY <1>3 DEF DueOf
  <2> QED
    BY <2>1, <2>2 DEF Tasks
<1>6. told' = Tell(told, HeldIn(told), "failed")
  BY <1>1, <1>4, <1>5
<1>7. TelTold'
  <2>1. DueIn(in_progress_list') \cup Range(waiting_to_send') = HeldIn(told) \ HeldIn(told)
    BY <1>1, <1>2
  <2> QED
    BY <1>6, <2>1, Answered
<1>8. TelLines'
  <2>1. InLine(<<>>)
    BY <1>2 DEF InLine
  <2> QED
    BY <1>1, <1>2, <2>1 DEF TelLines, Before
<1>9. TelFills' /\ TelStates' /\ TasksOutliveSends'
  BY <1>1, <1>3 DEF TelFills, TelStates, TasksOutliveSends
<1> QED
  BY <1>7, <1>8, <1>9 DEF TelInv

\* do_work while the sender is open: tasks time out and are told.
LEMMA TimesOutInv ==
  ASSUME TelInv, WorksSending
  PROVE  TelInv'
<1>1. /\ turn = "api" /\ msgrState \in {"STARTING", "STARTED"} /\ message_sender' = message_sender
      /\ waiting_to_send' = waiting_to_send /\ uamqp' = uamqp /\ pending' = pending
      /\ \/ msgrState' = "ERROR" /\ turn' = "pump"
         \/ msgrState' = "STARTED" /\ turn' = "send"
  BY DEF WorksSending
<1>2. message_sender = "OPEN"
  BY DEF WorksSending, process_state_changes
<1>3. PICK n \in 0..Len(in_progress_list) :
        LET list == process_event_send_timeouts(n)
            now == {m \in DOMAIN list : list[m].timedOut /\ ~in_progress_list[m].timedOut} IN
          /\ in_progress_list' = list
          /\ told' = Tell(told, UNION {Range(list[m].callers) : m \in now}, "failed")
  BY DEF WorksSending
<1> DEFINE list == process_event_send_timeouts(n)
           now == {m \in DOMAIN list : list[m].timedOut /\ ~in_progress_list[m].timedOut}
           gone == UNION {Range(list[m].callers) : m \in now}
<1>4. in_progress_list' = list /\ told' = Tell(told, gone, "failed") /\ n \in Nat
  BY <1>3
<1>5. /\ InLine(in_progress_list) /\ waiting_to_send \in Seq(TelEvents) /\ Sorted(waiting_to_send, Rising)
      /\ Before(DueIn(in_progress_list), Range(waiting_to_send))
      /\ DueIn(in_progress_list) \cup Range(waiting_to_send) = HeldIn(told)
      /\ uamqp \subseteq TaskIds
  BY DEF TelInv, TelLines, TelTold, TasksOutliveSends
<1>6. /\ InLine(list) /\ {t.id : t \in Range(list)} = TaskIds
      /\ DueIn(list) = DueIn(in_progress_list) \ gone /\ gone \subseteq DueIn(in_progress_list)
  BY <1>4, <1>5, LineTimesOut
<1> HIDE DEF list, gone
<1>7. TelLines'
  BY <1>1, <1>4, <1>5, <1>6 DEF TelLines, Before
<1>8. TelTold'
  <2>1. DueIn(in_progress_list) \cap Range(waiting_to_send) = {}
    BY <1>5, ListsApart
  <2>2. DueIn(in_progress_list') \cup Range(waiting_to_send') = HeldIn(told) \ gone
    BY <1>1, <1>4, <1>5, <1>6, <2>1
  <2> QED
    BY <1>4, <1>5, <1>6, <2>2, Answered
<1>9. TelFills' /\ TelStates'
  BY <1>1, <1>2 DEF TelInv, TelFills, TelStates
<1>10. TasksOutliveSends'
  BY <1>1, <1>2, <1>4, <1>5, <1>6 DEF TasksOutliveSends, TaskIds, Tasks
<1> QED
  BY <1>7, <1>8, <1>9, <1>10 DEF TelInv

\* uAMQP is done with a batch: its callers are told, unless they were, and the task is gone.
LEMMA CompletesInv ==
  ASSUME TelInv, internal_on_event_send_complete_callback
  PROVE  TelInv'
<1>1. /\ turn = "pump" /\ turn' = turn /\ msgrState' = msgrState /\ message_sender' = message_sender /\ message_sender # "none"
      /\ waiting_to_send' = waiting_to_send /\ pending' = pending
  BY DEF internal_on_event_send_complete_callback, linkVars
<1>2. pending = 0
  BY <1>1 DEF TelInv, TelFills
<1>3. PICK id \in uamqp, result \in {"ok", "failed"} :
        /\ uamqp' = uamqp \ {id}
        /\ IF message_sender = "ERROR" THEN told' = told /\ in_progress_list' = in_progress_list
           ELSE /\ told' = IF TaskWith(id).timedOut THEN told ELSE Tell(told, Range(TaskWith(id).callers), result)
                /\ in_progress_list' = Without(in_progress_list, {id})
  BY DEF internal_on_event_send_complete_callback
<1>4. /\ InLine(in_progress_list) /\ waiting_to_send \in Seq(TelEvents) /\ Sorted(waiting_to_send, Rising)
      /\ Before(DueIn(in_progress_list), Range(waiting_to_send))
      /\ DueIn(in_progress_list) \cup Range(waiting_to_send) = HeldIn(told)
      /\ uamqp \subseteq TaskIds
  BY DEF TelInv, TelLines, TelTold, TasksOutliveSends
<1>5. TelFills'
  BY <1>1, <1>2 DEF TelFills
<1>6. CASE message_sender = "ERROR"
  <2>1. TelLines' /\ TelTold'
    BY <1>1, <1>3, <1>6, SameLists
  <2>2. TelStates'
    BY <1>1, <1>3, <1>6 DEF TelInv, TelStates
  <2>3. TasksOutliveSends'
    BY <1>1, <1>3, <1>4, <1>6 DEF TasksOutliveSends, TaskIds, Tasks
  <2> QED
    BY <1>5, <2>1, <2>2, <2>3 DEF TelInv
<1>7. CASE message_sender # "ERROR"
  <2> DEFINE t == TaskWith(id)
             lost == {u \in Range(in_progress_list) : u.id \in {id}}
  <2>1. in_progress_list' = Without(in_progress_list, {id})
    BY <1>3, <1>7
  <2>2. id \in TaskIds
    BY <1>4
  <2>3. t \in Range(in_progress_list) /\ \A u \in Range(in_progress_list) : u.id = id <=> u = t
    BY <1>4, <2>2, TaskWithFacts
  <2>4. lost = {t}
    BY <2>3
  <2>5. /\ InLine(in_progress_list')
        /\ Range(in_progress_list') = {u \in Range(in_progress_list) : u.id \notin {id}}
        /\ DueIn(in_progress_list') = DueIn(in_progress_list) \ UNION {DueOf(u) : u \in lost}
    BY <1>4, <2>1, WithoutFacts
  <2>6. DueIn(in_progress_list') = DueIn(in_progress_list) \ DueOf(t)
    BY <2>4, <2>5
  <2>7. DueOf(t) \subseteq DueIn(in_progress_list)
    BY <1>4, <2>3, LineFacts
  <2>8. DueIn(in_progress_list) \cap Range(waiting_to_send) = {}
    BY <1>4, ListsApart
  <2>9. told' = IF t.timedOut THEN told ELSE Tell(told, Range(t.callers), result)
    BY <1>3, <1>7
  <2> HIDE DEF t, lost
  <2>10. TelLines'
    BY <1>1, <1>4, <2>5, <2>6 DEF TelLines, Before
  <2>11. DueIn(in_progress_list') \cup Range(waiting_to_send') = HeldIn(told) \ DueOf(t)
    BY <1>1, <1>4, <2>6, <2>7, <2>8
  <2>12. TelTold'
    <3>1. CASE t.timedOut
      <4>1. DueOf(t) = {} /\ told' = told
        BY <2>9, <3>1 DEF DueOf
      <4> QED
        BY <2>11, <4>1, NobodyAnswered
    <3>2. CASE ~t.timedOut
      <4>1. DueOf(t) = Range(t.callers) /\ told' = Tell(told, DueOf(t), result)
        BY <2>9, <3>2 DEF DueOf
      <4>2. DueOf(t) \subseteq HeldIn(told)
        BY <1>4, <2>7
      <4> QED
        BY <2>11, <4>1, <4>2, Answered
    <3> QED
      BY <3>1, <3>2
  <2>13. TelStates'
    <3>1. msgrState \notin {"STOPPED", "gone"}
      BY <1>1 DEF TelInv, TelStates
    <3> QED
      BY <1>1, <3>1 DEF TelStates
  <2>14. TasksOutliveSends'
    BY <1>1, <1>3, <1>4, <2>5 DEF TasksOutliveSends, TaskIds, Tasks
  <2> QED
    BY <1>5, <2>10, <2>12, <2>13, <2>14 DEF TelInv
<1> QED
  BY <1>6, <1>7

\* A step that leaves the lists, the sends of uAMQP and the task being filled alone.
LEMMA QuietInv ==
  ASSUME TelInv, UNCHANGED <<listVars, pending>>, TelStates', pending # 0 => turn' = turn,
         message_sender' = "none" => message_sender = "none"
  PROVE  TelInv'
<1>1. UNCHANGED <<waiting_to_send, in_progress_list, told, uamqp, pending>>
  BY DEF listVars
<1>2. TelLines' /\ TelTold'
  BY <1>1, SameLists
<1>3. TelFills'
  BY <1>1 DEF TelInv, TelFills
<1>4. TasksOutliveSends'
  BY <1>1 DEF TelInv, TasksOutliveSends, TaskIds, Tasks
<1> QED
  BY <1>2, <1>3, <1>4 DEF TelInv

\* Steps of the device, of do_work without an open sender, and of the links.
LEMMA LinksInv ==
  ASSUME TelInv,
         \/ telemetry_messenger_subscribe_for_messages \/ telemetry_messenger_unsubscribe_for_messages
         \/ telemetry_messenger_start \/ SkipsWork \/ create_event_sender
         \/ on_event_sender_state_changed_callback \/ on_message_receiver_state_changed_callback \/ EndOfPump
  PROVE  TelInv'
<1>1. CASE telemetry_messenger_subscribe_for_messages \/ telemetry_messenger_unsubscribe_for_messages
  BY <1>1, QuietInv DEF telemetry_messenger_subscribe_for_messages, telemetry_messenger_unsubscribe_for_messages,
     Subscribes, TelInv, TelStates, linkVars, listVars
<1>2. CASE telemetry_messenger_start
  BY <1>2, QuietInv DEF telemetry_messenger_start, TelInv, TelStates, linkVars, listVars
<1>3. CASE SkipsWork
  <2>1. pending = 0
    BY <1>3 DEF SkipsWork, TelInv, TelFills
  <2> QED
    BY <1>3, <2>1, QuietInv DEF SkipsWork, TelInv, TelStates, linkVars, listVars
<1>4. CASE create_event_sender
  <2>1. pending = 0
    BY <1>4 DEF create_event_sender, TelInv, TelFills
  <2>2. /\ turn' = "pump" /\ UNCHANGED <<listVars, pending>>
        /\ message_sender' = "none" => message_sender = "none"
    BY <1>4 DEF create_event_sender, listVars
  <2>3. msgrState \in {"STARTING", "STARTED"}
    BY <1>4 DEF create_event_sender
  <2>4. msgrState' \in {"STARTING", "STARTED", "ERROR"}
    BY <1>4, <2>3 DEF create_event_sender, process_state_changes
  <2>5. TelStates'
    BY <2>2, <2>4 DEF TelStates
  <2> QED
    BY <2>1, <2>2, <2>5, QuietInv
<1>5. CASE on_event_sender_state_changed_callback
  <2>1. /\ turn = "pump" /\ turn' = turn /\ message_sender # "none" /\ message_sender' # "none"
        /\ msgrState' = msgrState /\ UNCHANGED <<listVars, pending>>
    BY <1>5 DEF on_event_sender_state_changed_callback, listVars
  <2>2. TelStates'
    BY <2>1 DEF TelInv, TelStates
  <2> QED
    BY <2>1, <2>2, QuietInv
<1>6. CASE on_message_receiver_state_changed_callback
  BY <1>6, QuietInv DEF on_message_receiver_state_changed_callback, TelInv, TelStates, linkVars, listVars
<1>7. CASE EndOfPump
  <2>1. pending = 0
    BY <1>7 DEF EndOfPump, TelInv, TelFills
  <2> QED
    BY <1>7, <2>1, QuietInv DEF EndOfPump, TelInv, TelStates, linkVars, listVars
<1> QED
  BY <1>1, <1>2, <1>3, <1>4, <1>5, <1>6, <1>7

\* Whatever fails, times out, is split or restarted: each event is called back once, but for those that a stop loses
\* when it cannot move them; those who are owed an answer are owed it in the order of sending, and uAMQP never completes
\* a task that was freed (as long as a list item that was freed still names the next one).
THEOREM EventsAreSound ==
  ASSUME FreedIntact
  PROVE  TelSpec => []EventsSound
<1>1. TelInit => TelInv
  BY TelInitInv
<1>2. TelInv /\ [TelNext]_telVars => TelInv'
  <2>1. ASSUME TelInv, telemetry_messenger_stop \/ telemetry_messenger_destroy PROVE TelInv'
    BY <2>1, StopsInv DEF telemetry_messenger_stop, telemetry_messenger_destroy
  <2>2. ASSUME TelInv, TelNext PROVE TelInv'
    BY <2>1, <2>2, EventWaits, GoesInv, TimesOutInv, CompletesInv, LinksInv, FirstFails, PassedOver, BatchGrows,
       BatchSplits, SplitEnds, BodyEnds, LastBatch DEF TelNext, Sending
  <2>3. ASSUME TelInv, UNCHANGED telVars PROVE TelInv'
    <3>1. UNCHANGED <<listVars, pending, turn, msgrState, message_sender>>
      BY <2>3 DEF telVars, listVars
    <3>2. TelStates'
      <4>1. in_progress_list' = in_progress_list
        BY <3>1 DEF listVars
      <4> QED
        BY <2>3, <3>1, <4>1 DEF TelInv, TelStates
    <3> QED
      BY <2>3, <3>1, <3>2, QuietInv
  <2> QED
    BY <2>2, <2>3
<1>3. TelInv => EventsSound
  BY TelInvSound
<1> QED
  BY <1>1, <1>2, <1>3, PTL DEF TelSpec

-----------------------------------------------------------------------------
(* The twin messenger: what a callback makes of it *)

TwinCallers == TwinPatches \cup {0}
TwinOp ==
  [id : Nat, type : {"PATCH"}, patch : TwinPatches] \cup [id : Nat, type : {"DEMAND", "GET", "PUT"}, patch : {0}]
TwinStatuses == {"new", "held", "ok", "failed", "twice"}
MessengerStates == {"STOPPED", "STARTING", "STARTED", "ERROR"}
TwinStates == MessengerStates \cup {"STOPPING", "gone"}
SubscriptionStates ==
  {"NOT", "GET", "GETTING", "SUBSCRIBE", "SUBSCRIBING", "SUBSCRIBED", "UNSUBSCRIBE", "UNSUBSCRIBING"}
TwinRecord ==
  [state : TwinStates, seen : TwinStates, subscribed : BOOLEAN, sub : SubscriptionStates, errors : Nat, ops : Seq(TwinOp),
   told : [TwinCallers -> TwinStatuses]]
TwinCall ==
  [call : {"state"}, arg : TwinStates] \cup [call : {"subscription"}, arg : BOOLEAN]
    \cup [call : {"send_failed"}, arg : TwinOp]

\* A messenger that was started, and one that works only on a started messenger with its links.
Live(t) ==
  /\ t.state \in {"STARTING", "STARTED", "ERROR"}
  /\ t.state = "STARTED" => t.seen = "STARTED" /\ t.subscribed

Differ == {r \in TwinOp \X TwinOp : r[1] # r[2]}
Apart == {r \in TwinPatches \X TwinPatches : r[1] # r[2]}

\* What is held waits or is under way, in one place, and whoever is owed an answer had none.
Account(ops, answers, waiting) ==
  /\ answers \in [TwinCallers -> TwinStatuses] /\ \A c \in TwinCallers : answers[c] # "twice"
  /\ ops \in Seq(TwinOp) /\ Sorted(ops, Differ)
  /\ waiting \in Seq(TwinPatches) /\ Sorted(waiting, Apart)
  /\ \A o, p \in Range(ops) : Caller(o) \cap Caller(p) # {} => o = p
  /\ \A o \in Range(ops) : \A c \in Caller(o) : answers[c] = "held" /\ c \notin Range(waiting)
  /\ \A p \in Range(waiting) : answers[p] = "held"
  /\ \A p \in TwinPatches : answers[p] = "held" => p \in Range(waiting) \/ \E o \in Range(ops) : p \in Caller(o)

-----------------------------------------------------------------------------
(* The inductive invariant of the twin messenger *)

TwinLinks == {"none", "IDLE", "OPENING", "OPEN", "ERROR", "CLOSING"}
QueueItem == [ctx : TwinOp, handed : BOOLEAN]
OtherIds == {r \in QueueItem \X QueueItem : r[1].ctx.id # r[2].ctx.id}
TwinRequest == [operation : {"PATCH", "GET", "PUT"}, resource : {"reported", "desired", "twin"}, correlation_id : Nat]

TwinShape ==
  /\ subscription_state \in SubscriptionStates /\ subscription_error_count \in Nat /\ amqp_msgr_is_subscribed \in BOOLEAN
  /\ sender \in TwinLinks /\ receiver \in TwinLinks
  /\ work \in {"idle", "patches", "timeouts", "amqp", "destroy"} /\ requests \in Nat

TwinAgrees ==
  /\ amqpState \in MessengerStates /\ twinState \in MessengerStates \cup {"gone"}
  /\ amqp_msgr_state = amqpState /\ amqp_msgr_is_subscribed = (receiver = "OPEN")
  /\ amqpState = "STOPPED" => sender = "none" /\ receiver = "none"
  /\ twinState \in {"STOPPED", "gone"} => work = "idle"
  /\ twinState = "STOPPED" => amqpState = "STOPPED"
  /\ twinState = "gone" \/ work = "destroy" => sender = "none" /\ receiver = "none"
  /\ twinState = "STARTED" => amqpState = "STARTED" /\ receiver = "OPEN"

TwinAccounted == Account(operations, twinTold, pending_patches)

\* The ids of requests that are queued, with uAMQP or with the service; each is in one place.
TwinNumbered ==
  /\ send_queue \in Seq(QueueItem) /\ Sorted(send_queue, OtherIds)
  /\ \A o \in Ops : o.id <= requests
  /\ \A m \in Range(send_queue) : m.ctx.id <= requests
  /\ atService \subseteq TwinRequest
  /\ \A r \in atService : r.correlation_id <= requests /\ \A m \in Range(send_queue) : m.ctx.id # r.correlation_id

TwinInv == TwinShape /\ TwinAgrees /\ TwinAccounted /\ TwinNumbered

-----------------------------------------------------------------------------
(* Operations, and whom they owe an answer *)

\* Being in order by Differ is having no operation twice.
LEMMA OpsDiffer ==
  ASSUME NEW o \in TwinOp, NEW p \in TwinOp
  PROVE  <<o, p>> \in Differ <=> o # p
BY DEF Differ

\* Reports are numbers from one.
LEMMA PatchesAreNumbers == TwinPatches \subseteq Nat \ {0}
<1>1. Cardinality(TwinPatches) \in Nat
  BY TwinAssumption, FS_CardinalityType
<1> QED
  BY <1>1, TwinAssumption

\* Only those who reported or asked are owed an answer.
LEMMA CallersAreKnown ==
  ASSUME NEW o \in TwinOp
  PROVE  Caller(o) \subseteq TwinCallers
BY DEF Caller, TwinOp, TwinCallers

\* The operations without one of them.
LEMMA WithoutOpFacts ==
  ASSUME NEW list \in Seq(TwinOp), NEW R, Sorted(list, R), NEW op
  PROVE  /\ WithoutOp(list, op) \in Seq(TwinOp)
         /\ Range(WithoutOp(list, op)) = Range(list) \ {op}
         /\ Sorted(WithoutOp(list, op), R)
<1> DEFINE parts == [n \in DOMAIN list |-> IF list[n] = op THEN <<>> ELSE <<list[n]>>]
           drop == {op}
<1>1. \A n \in DOMAIN list : list[n] \in TwinOp /\ <<>> \in Seq(TwinOp) /\ <<list[n]>> \in Seq(TwinOp)
  OBVIOUS
<1>2. parts \in [DOMAIN list -> Seq(TwinOp)]
  BY <1>1
<1>3. \A n \in DOMAIN list : parts[n] = IF list[n] \in drop THEN <<>> ELSE <<list[n]>>
  OBVIOUS
<1>4. WithoutOp(list, op) = FlattenSeq(parts)
  BY DEF WithoutOp
<1> HIDE DEF parts, drop
<1>5. /\ FlattenSeq(parts) \in Seq(TwinOp)
      /\ Range(FlattenSeq(parts)) = Range(list) \ drop
      /\ Sorted(FlattenSeq(parts), R)
  BY <1>2, <1>3, FilterInOrder
<1> QED
  BY <1>4, <1>5 DEF drop

\* Telling callers that are owed an answer, and nobody twice.
LEMMA TellTwinFacts ==
  ASSUME NEW answers \in [TwinCallers -> TwinStatuses], NEW S, NEW result \in {"ok", "failed"}
  PROVE  /\ TellTwin(answers, S, result) \in [TwinCallers -> TwinStatuses]
         /\ \A c \in TwinCallers \ S : TellTwin(answers, S, result)[c] = answers[c]
         /\ \A c \in TwinCallers \cap S : answers[c] = "held" => TellTwin(answers, S, result)[c] = result
<1> DEFINE after == TellTwin(answers, S, result)
<1>1. /\ DOMAIN answers = TwinCallers /\ result \in TwinStatuses /\ "twice" \in TwinStatuses
      /\ \A c \in TwinCallers : answers[c] \in TwinStatuses
  BY DEF TwinStatuses
<1>2. after = [c \in TwinCallers |-> IF c \notin S THEN answers[c] ELSE IF answers[c] = "held" THEN result ELSE "twice"]
  BY <1>1 DEF TellTwin
<1>3. \A c \in TwinCallers :
        after[c] = IF c \notin S THEN answers[c] ELSE IF answers[c] = "held" THEN result ELSE "twice"
  BY <1>2
<1>4. after \in [TwinCallers -> TwinStatuses]
  BY <1>1, <1>2
<1> HIDE DEF after
<1>5. \A c \in TwinCallers \ S : after[c] = answers[c]
  BY <1>3
<1>6. \A c \in TwinCallers \cap S : answers[c] = "held" => after[c] = result
  BY <1>3
<1> QED
  BY <1>4, <1>5, <1>6 DEF after

\* An operation ends and its caller is told.
LEMMA AccountAnswered ==
  ASSUME NEW ops, NEW answers, NEW waiting, Account(ops, answers, waiting),
         NEW op \in Range(ops), NEW result \in {"ok", "failed"}
  PROVE  Account(WithoutOp(ops, op), TellTwin(answers, Caller(op), result), waiting)
<1> DEFINE after == TellTwin(answers, Caller(op), result)
           rest == WithoutOp(ops, op)
<1>1. /\ answers \in [TwinCallers -> TwinStatuses] /\ \A c \in TwinCallers : answers[c] # "twice"
      /\ ops \in Seq(TwinOp) /\ Sorted(ops, Differ)
      /\ waiting \in Seq(TwinPatches) /\ Sorted(waiting, Apart)
  BY DEF Account
<1>2. /\ \A o, p \in Range(ops) : Caller(o) \cap Caller(p) # {} => o = p
      /\ \A o \in Range(ops) : \A c \in Caller(o) : answers[c] = "held" /\ c \notin Range(waiting)
      /\ \A p \in Range(waiting) : answers[p] = "held"
      /\ \A p \in TwinPatches : answers[p] = "held" => p \in Range(waiting) \/ \E o \in Range(ops) : p \in Caller(o)
  BY DEF Account
<1>3. Range(ops) \subseteq TwinOp /\ Range(waiting) \subseteq TwinPatches /\ TwinPatches \subseteq TwinCallers
  BY <1>1 DEF Range, TwinCallers
<1>4. \A o \in Range(ops) : Caller(o) \subseteq TwinCallers
  BY <1>3, CallersAreKnown
<1>5. rest \in Seq(TwinOp) /\ Range(rest) = Range(ops) \ {op} /\ Sorted(rest, Differ)
  BY <1>1, WithoutOpFacts
<1>6. /\ after \in [TwinCallers -> TwinStatuses]
      /\ \A c \in TwinCallers \ Caller(op) : after[c] = answers[c]
      /\ \A c \in TwinCallers \cap Caller(op) : answers[c] = "held" => after[c] = result
  BY <1>1, TellTwinFacts
<1> HIDE DEF after, rest
<1>7. \A c \in Caller(op) : c \in TwinCallers /\ after[c] = result /\ after[c] # "held"
  BY <1>2, <1>4, <1>6
<1>8. \A c \in TwinCallers : after[c] # "twice"
  BY <1>1, <1>6, <1>7
<1>9. \A o, p \in Range(rest) : Caller(o) \cap Caller(p) # {} => o = p
  BY <1>2, <1>5
<1>10. \A o \in Range(rest) : \A c \in Caller(o) : after[c] = "held" /\ c \notin Range(waiting)
  <2> SUFFICES ASSUME NEW o \in Range(rest), NEW c \in Caller(o) PROVE after[c] = "held" /\ c \notin Range(waiting)
    OBVIOUS
  <2>1. o \in Range(ops) /\ o # op /\ c \notin Caller(op) /\ c \in TwinCallers
    BY <1>2, <1>4, <1>5
  <2> QED
    BY <1>2, <1>6, <2>1
<1>11. \A p \in Range(waiting) : after[p] = "held"
  <2> SUFFICES ASSUME NEW p \in Range(waiting) PROVE after[p] = "held"
    OBVIOUS
  <2>1. p \in TwinCallers /\ p \notin Caller(op)
    BY <1>2, <1>3
  <2> QED
    BY <1>2, <1>6, <2>1
<1>12. \A p \in TwinPatches : after[p] = "held" => p \in Range(waiting) \/ \E o \in Range(rest) : p \in Caller(o)
  <2> SUFFICES ASSUME NEW p \in TwinPatches, after[p] = "held"
               PROVE  p \in Range(waiting) \/ \E o \in Range(rest) : p \in Caller(o)
    OBVIOUS
  <2>1. p \in TwinCallers /\ p \notin Caller(op) /\ answers[p] = "held"
    BY <1>3, <1>6, <1>7
  <2>2. p \in Range(waiting) \/ \E o \in Range(ops) : p \in Caller(o) /\ o # op
    BY <1>2, <2>1
  <2> QED
    BY <1>5, <2>2
<1> QED
  BY <1>1, <1>5, <1>6, <1>8, <1>9, <1>10, <1>11, <1>12 DEF Account, after, rest

-----------------------------------------------------------------------------
(* What one callback does *)

\* The messenger below has a new state: nothing else than the two states changes.
LEMMA StateChangedFacts ==
  ASSUME NEW t \in TwinRecord, NEW new \in TwinStates
  PROVE  LET u == on_amqp_messenger_state_changed_callback(t, new) IN
           /\ u \in TwinRecord
           /\ u.seen = new /\ u.subscribed = t.subscribed /\ u.ops = t.ops /\ u.told = t.told
           /\ Live(t) => Live(u)
           /\ t.state = "STOPPING" =>
                u.state = CASE new = "STOPPING" -> "STOPPING"
                            [] new = "STOPPED" -> IF t.subscribed THEN "STOPPING" ELSE "STOPPED"
                            [] OTHER -> "ERROR"
<1> DEFINE u == on_amqp_messenger_state_changed_callback(t, new)
           s == CASE t.state = "STARTING" /\ new = "STARTED" -> IF t.subscribed THEN "STARTED" ELSE "STARTING"
                  [] t.state = "STOPPING" /\ new = "STOPPED" -> IF t.subscribed THEN "STOPPING" ELSE "STOPPED"
                  [] t.state = new /\ new \in {"STARTING", "STOPPING"} -> t.state
                  [] OTHER -> "ERROR"
<1>1. s \in TwinStates
  BY DEF TwinRecord, TwinStates, MessengerStates
<1>2. u = [t EXCEPT !.seen = new, !.state = s]
  BY DEF on_amqp_messenger_state_changed_callback
<1> HIDE DEF u
<1>3. /\ u.seen = new /\ u.state = s /\ u.subscribed = t.subscribed /\ u.ops = t.ops /\ u.told = t.told
      /\ u \in TwinRecord
  <2> HIDE DEF s
  <2> QED
    BY <1>1, <1>2 DEF TwinRecord
<1>4. Live(t) => Live(u)
  BY <1>3 DEF Live
<1>5. t.state = "STOPPING" =>
        u.state = CASE new = "STOPPING" -> "STOPPING"
                    [] new = "STOPPED" -> IF t.subscribed THEN "STOPPING" ELSE "STOPPED"
                    [] OTHER -> "ERROR"
  BY <1>3
<1> QED
  BY <1>3, <1>4, <1>5 DEF u

\* Its receiver opened or closed.
LEMMA SubscriptionChangedFacts ==
  ASSUME NEW t \in TwinRecord, NEW is \in BOOLEAN
  PROVE  LET u == on_amqp_messenger_subscription_changed_callback(t, is) IN
           /\ u \in TwinRecord
           /\ u.seen = t.seen /\ u.subscribed = is /\ u.ops = t.ops /\ u.told = t.told
           /\ Live(t) => Live(u)
           /\ t.state = "STOPPING" /\ ~is /\ t.seen # "STOPPED" => u.state = "STOPPING"
<1> DEFINE u == on_amqp_messenger_subscription_changed_callback(t, is)
           s == CASE t.state = "STARTING" /\ is -> IF t.seen = "STARTED" THEN "STARTED" ELSE "STARTING"
                  [] t.state = "STOPPING" /\ ~is -> IF t.seen = "STOPPED" THEN "STOPPED" ELSE "STOPPING"
                  [] OTHER -> "ERROR"
<1>1. s \in TwinStates
  BY DEF TwinRecord, TwinStates, MessengerStates
<1>2. u = [t EXCEPT !.subscribed = is, !.state = s]
  BY DEF on_amqp_messenger_subscription_changed_callback
<1> HIDE DEF u
<1>3. /\ u.seen = t.seen /\ u.state = s /\ u.subscribed = is /\ u.ops = t.ops /\ u.told = t.told
      /\ u \in TwinRecord
  <2> HIDE DEF s
  <2> QED
    BY <1>1, <1>2 DEF TwinRecord
<1>4. Live(t) => Live(u)
  BY <1>3 DEF Live
<1>5. t.state = "STOPPING" /\ ~is /\ t.seen # "STOPPED" => u.state = "STOPPING"
  BY <1>3
<1> QED
  BY <1>3, <1>4, <1>5 DEF u

\* An operation ends in a record: what it ends with, and what it leaves.
LEMMA SendFailedFacts ==
  ASSUME NEW t \in TwinRecord, NEW waiting, Account(t.ops, t.told, waiting), NEW op
  PROVE  LET u == on_amqp_send_complete_callback(t, op) IN
           /\ u \in TwinRecord
           /\ u.state = t.state /\ u.seen = t.seen /\ u.subscribed = t.subscribed
           /\ Range(u.ops) \subseteq Range(t.ops) /\ Account(u.ops, u.told, waiting)
<1> DEFINE u == on_amqp_send_complete_callback(t, op)
           again == op.type \in {"GET", "PUT"} /\ t.sub = "GETTING"
           ops == WithoutOp(t.ops, op)
           answers == TellTwin(t.told, Caller(op), "failed")
           sub == IF again THEN "GET" ELSE t.sub
           errors == IF again THEN Counted(t.errors) ELSE t.errors
<1>1. CASE op \notin Range(t.ops)
  <2>1. u = t
    BY <1>1 DEF on_amqp_send_complete_callback
  <2> HIDE DEF u
  <2> QED
    BY <2>1 DEF u
<1>2. CASE op \in Range(t.ops)
  <2>1. u = [t EXCEPT !.ops = ops, !.told = answers, !.sub = sub, !.errors = errors]
    BY <1>2 DEF on_amqp_send_complete_callback, TwinRecord
  <2>2. Account(ops, answers, waiting)
    BY <1>2, AccountAnswered
  <2>3. ops \in Seq(TwinOp) /\ Range(ops) \subseteq Range(t.ops)
    <3>1. t.ops \in Seq(TwinOp) /\ Sorted(t.ops, Differ)
      BY DEF Account
    <3> QED
      BY <3>1, WithoutOpFacts
  <2>4. answers \in [TwinCallers -> TwinStatuses]
    BY <2>2 DEF Account
  <2>5. sub \in SubscriptionStates /\ errors \in Nat
    BY DEF TwinRecord, SubscriptionStates, Counted
  <2> HIDE DEF ops, answers, sub, errors, u
  <2>6. /\ u.state = t.state /\ u.seen = t.seen /\ u.subscribed = t.subscribed /\ u.ops = ops /\ u.told = answers
        /\ u \in TwinRecord
    BY <2>1, <2>3, <2>4, <2>5 DEF TwinRecord
  <2> QED
    BY <2>2, <2>3, <2>6 DEF u
<1> QED
  BY <1>1, <1>2

\* A callback of the messenger below: operations only end, with their callers told once.
LEMMA HearsFacts ==
  ASSUME NEW t \in TwinRecord, NEW waiting, Account(t.ops, t.told, waiting), NEW c \in TwinCall
  PROVE  LET u == Hears(t, c) IN
           /\ u \in TwinRecord
           /\ Range(u.ops) \subseteq Range(t.ops) /\ Account(u.ops, u.told, waiting)
           /\ Live(t) => Live(u)
           /\ u.seen = IF c.call = "state" THEN c.arg ELSE t.seen
           /\ u.subscribed = IF c.call = "subscription" THEN c.arg ELSE t.subscribed
           /\ c.call # "send_failed" => u.ops = t.ops
<1> DEFINE u == Hears(t, c)
<1>1. CASE c.call = "state"
  <2>1. c.arg \in TwinStates
    BY <1>1 DEF TwinCall
  <2>2. u = on_amqp_messenger_state_changed_callback(t, c.arg)
    BY <1>1 DEF Hears
  <2> HIDE DEF u
  <2>3. /\ u \in TwinRecord /\ u.seen = c.arg /\ u.subscribed = t.subscribed /\ u.ops = t.ops /\ u.told = t.told
        /\ Live(t) => Live(u)
    BY <2>1, <2>2, StateChangedFacts
  <2> QED
    BY <1>1, <2>3 DEF u
<1>2. CASE c.call = "subscription"
  <2>1. c.arg \in BOOLEAN
    BY <1>2 DEF TwinCall
  <2>2. u = on_amqp_messenger_subscription_changed_callback(t, c.arg)
    BY <1>2 DEF Hears
  <2> HIDE DEF u
  <2>3. /\ u \in TwinRecord /\ u.seen = t.seen /\ u.subscribed = c.arg /\ u.ops = t.ops /\ u.told = t.told
        /\ Live(t) => Live(u)
    BY <2>1, <2>2, SubscriptionChangedFacts
  <2> QED
    BY <1>2, <2>3 DEF u
<1>3. CASE c.call = "send_failed"
  <2>1. u = on_amqp_send_complete_callback(t, c.arg)
    BY <1>3 DEF Hears
  <2> HIDE DEF u
  <2>2. /\ u \in TwinRecord
        /\ u.state = t.state /\ u.seen = t.seen /\ u.subscribed = t.subscribed
        /\ Range(u.ops) \subseteq Range(t.ops) /\ Account(u.ops, u.told, waiting)
    BY <2>1, SendFailedFacts
  <2>3. Live(t) => Live(u)
    BY <2>2 DEF Live
  <2> QED
    BY <1>3, <2>2, <2>3 DEF u
<1>4. c.call \in {"state", "subscription", "send_failed"}
  BY DEF TwinCall
<1> QED
  BY <1>1, <1>2, <1>3, <1>4

-----------------------------------------------------------------------------
(* What all callbacks of a step do, one after the other *)

\* The values a loop of callbacks goes through.
LEMMA HeardInTurn ==
  ASSUME NEW t, NEW list, Len(list) \in Nat
  PROVE  \E f : /\ f[0] = t
                /\ \A n \in 1..Len(list) : f[n] = Hears(f[n - 1], list[n])
                /\ HearsAll(t, list) = f[Len(list)]
<1> DEFINE Goes(f, k) == f = [n \in 0..k |-> IF n = 0 THEN t ELSE Hears(f[n - 1], list[n])]
           f == CHOOSE g : Goes(g, Len(list))
           Bad == {k \in Nat : ~\E g : Goes(g, k)}
<1>1. Bad = {}
  <2> SUFFICES ASSUME Bad # {} PROVE FALSE
    OBVIOUS
  <2>1. PICK k \in Bad : \A j \in Bad : k <= j
    BY LeastNatural
  <2>2. k # 0
    <3> DEFINE g == [n \in 0..0 |-> t]
    <3>1. Goes(g, 0)
      OBVIOUS
    <3> QED
      BY <3>1
  <2>3. k \in Nat /\ k - 1 \in Nat /\ k - 1 \notin Bad
    <3>1. k \in Nat /\ k - 1 \in Nat /\ ~(k <= k - 1)
      BY <2>2
    <3> QED
      BY <2>1, <3>1
  <2>4. PICK g : Goes(g, k - 1)
    BY <2>3
  <2> DEFINE h == [n \in 0..k |-> IF n < k THEN g[n] ELSE Hears(g[k - 1], list[k])]
  <2>5. ASSUME NEW n \in 0..k
        PROVE  h[n] = IF n = 0 THEN t ELSE Hears(h[n - 1], list[n])
    <3>1. CASE n < k
      <4>1. n \in 0..(k - 1) /\ h[n] = g[n]
        BY <2>3, <3>1
      <4>2. g[n] = IF n = 0 THEN t ELSE Hears(g[n - 1], list[n])
        BY <2>4, <4>1
      <4>3. n # 0 => n - 1 \in 0..k /\ n - 1 < k
        BY <2>3, <4>1
      <4> QED
        BY <4>1, <4>2, <4>3
    <3>2. CASE n = k
      <4>1. k - 1 \in 0..k /\ k - 1 < k
        BY <2>2, <2>3
      <4> QED
        BY <2>2, <2>3, <3>2, <4>1
    <3> QED
      BY <2>3, <3>1, <3>2
  <2>6. Goes(h, k)
    BY <2>5
  <2> QED
    BY <2>1, <2>6
<1>2. Goes(f, Len(list))
  BY <1>1
<1>3. HearsAll(t, list) = f[Len(list)]
  BY DEF HearsAll
<1> HIDE DEF f
<1>4. f[0] = t
  BY <1>2
<1>5. \A n \in 1..Len(list) : f[n] = Hears(f[n - 1], list[n])
  BY <1>2
<1> QED
  BY <1>3, <1>4, <1>5

\* And the values of the loop over operations that have waited too long.
LEMMA ExpiredInTurn ==
  ASSUME NEW t, NEW old, Len(old) \in Nat
  PROVE  \E f : /\ f[0] = t
                /\ \A n \in 1..Len(old) : f[n] = Expire(f[n - 1], old[n])
                /\ ExpireAll(t, old) = f[Len(old)]
<1> DEFINE Goes(f, k) == f = [n \in 0..k |-> IF n = 0 THEN t ELSE Expire(f[n - 1], old[n])]
           f == CHOOSE g : Goes(g, Len(old))
           Bad == {k \in Nat : ~\E g : Goes(g, k)}
<1>1. Bad = {}
  <2> SUFFICES ASSUME Bad # {} PROVE FALSE
    OBVIOUS
  <2>1. PICK k \in Bad : \A j \in Bad : k <= j
    BY LeastNatural
  <2>2. k # 0
    <3> DEFINE g == [n \in 0..0 |-> t]
    <3>1. Goes(g, 0)
      OBVIOUS
    <3> QED
      BY <3>1
  <2>3. k \in Nat /\ k - 1 \in Nat /\ k - 1 \notin Bad
    <3>1. k \in Nat /\ k - 1 \in Nat /\ ~(k <= k - 1)
      BY <2>2
    <3> QED
      BY <2>1, <3>1
  <2>4. PICK g : Goes(g, k - 1)
    BY <2>3
  <2> DEFINE h == [n \in 0..k |-> IF n < k THEN g[n] ELSE Expire(g[k - 1], old[k])]
  <2>5. ASSUME NEW n \in 0..k
        PROVE  h[n] = IF n = 0 THEN t ELSE Expire(h[n - 1], old[n])
    <3>1. CASE n < k
      <4>1. n \in 0..(k - 1) /\ h[n] = g[n]
        BY <2>3, <3>1
      <4>2. g[n] = IF n = 0 THEN t ELSE Expire(g[n - 1], old[n])
        BY <2>4, <4>1
      <4>3. n # 0 => n - 1 \in 0..k /\ n - 1 < k
        BY <2>3, <4>1
      <4> QED
        BY <4>1, <4>2, <4>3
    <3>2. CASE n = k
      <4>1. k - 1 \in 0..k /\ k - 1 < k
        BY <2>2, <2>3
      <4> QED
        BY <2>2, <2>3, <3>2, <4>1
    <3> QED
      BY <2>3, <3>1, <3>2
  <2>6. Goes(h, k)
    BY <2>5
  <2> QED
    BY <2>1, <2>6
<1>2. Goes(f, Len(old))
  BY <1>1
<1>3. ExpireAll(t, old) = f[Len(old)]
  BY DEF ExpireAll
<1> HIDE DEF f
<1>4. f[0] = t
  BY <1>2
<1>5. \A n \in 1..Len(old) : f[n] = Expire(f[n - 1], old[n])
  BY <1>2
<1> QED
  BY <1>3, <1>4, <1>5

\* Callbacks of the messenger below, in any number and order: what the twin messenger has seen last is what it was told
\* last (at place k, of the state, and at place m, of the subscription), and each caller whose operation ended was told.
LEMMA HearsAllFacts ==
  ASSUME NEW t \in TwinRecord, NEW waiting, Account(t.ops, t.told, waiting), Live(t),
         NEW list \in Seq(TwinCall), NEW k \in 0..Len(list), NEW m \in 0..Len(list),
         k = 0 \/ list[k].call = "state",
         \A n \in 1..Len(list) : n > k => list[n].call # "state",
         m = 0 \/ list[m].call = "subscription",
         \A n \in 1..Len(list) : n > m => list[n].call # "subscription"
  PROVE  LET u == HearsAll(t, list) IN
           /\ u \in TwinRecord /\ Live(u)
           /\ u.seen = IF k = 0 THEN t.seen ELSE list[k].arg
           /\ u.subscribed = IF m = 0 THEN t.subscribed ELSE list[m].arg
           /\ Range(u.ops) \subseteq Range(t.ops) /\ Account(u.ops, u.told, waiting)
           /\ (\A n \in 1..Len(list) : list[n].call # "send_failed") => u.ops = t.ops
<1>1. Len(list) \in Nat /\ \A n \in 1..Len(list) : list[n] \in TwinCall
  OBVIOUS
<1>2. PICK f : /\ f[0] = t
               /\ \A n \in 1..Len(list) : f[n] = Hears(f[n - 1], list[n])
               /\ HearsAll(t, list) = f[Len(list)]
  BY <1>1, HeardInTurn
<1> DEFINE seen == IF k = 0 THEN t.seen ELSE list[k].arg
           subscribed == IF m = 0 THEN t.subscribed ELSE list[m].arg
           Good(n) ==
             /\ f[n] \in TwinRecord /\ Live(f[n])
             /\ n >= k => f[n].seen = seen
             /\ n >= m => f[n].subscribed = subscribed
             /\ Range(f[n].ops) \subseteq Range(t.ops) /\ Account(f[n].ops, f[n].told, waiting)
             /\ (\A i \in 1..Len(list) : list[i].call # "send_failed") => f[n].ops = t.ops
           Bad == {n \in 0..Len(list) : ~Good(n)}
<1>3. Good(0)
  <2>1. k \in Nat /\ m \in Nat /\ (0 >= k => k = 0) /\ (0 >= m => m = 0)
    BY <1>1
  <2> QED
    BY <1>2, <2>1
<1>4. ASSUME NEW n \in 1..Len(list), Good(n - 1) PROVE Good(n)
  <2> DEFINE s == f[n - 1]
             u == f[n]
  <2>1. u = Hears(s, list[n])
    BY <1>2
  <2>2. s \in TwinRecord /\ Live(s) /\ Account(s.ops, s.told, waiting) /\ Range(s.ops) \subseteq Range(t.ops)
    BY <1>4
  <2>3. list[n] \in TwinCall
    BY <1>1
  <2>4. /\ n - 1 >= k => s.seen = seen
        /\ n - 1 >= m => s.subscribed = subscribed
        /\ (\A i \in 1..Len(list) : list[i].call # "send_failed") => s.ops = t.ops
    BY <1>4
  <2> HIDE DEF s, u
  <2>5. /\ u \in TwinRecord
        /\ Range(u.ops) \subseteq Range(s.ops) /\ Account(u.ops, u.told, waiting)
        /\ Live(s) => Live(u)
        /\ u.seen = IF list[n].call = "state" THEN list[n].arg ELSE s.seen
        /\ u.subscribed = IF list[n].call = "subscription" THEN list[n].arg ELSE s.subscribed
        /\ list[n].call # "send_failed" => u.ops = s.ops
    BY <2>1, <2>2, <2>3, HearsFacts
  <2>6. n \in Nat /\ k \in Nat /\ m \in Nat /\ n > 0
    BY <1>1
  <2>7. ASSUME n >= k PROVE u.seen = seen
    <3>1. CASE n = k
      <4>1. list[n].call = "state" /\ list[n].arg = seen
        BY <2>6, <3>1
      <4> QED
        BY <2>5, <4>1
    <3>2. CASE n # k
      <4>1. n > k /\ n - 1 >= k
        BY <2>6, <2>7, <3>2
      <4>2. list[n].call # "state"
        BY <4>1
      <4> QED
        BY <2>4, <2>5, <4>1, <4>2
    <3> QED
      BY <3>1, <3>2
  <2>8. ASSUME n >= m PROVE u.subscribed = subscribed
    <3>1. CASE n = m
      <4>1. list[n].call = "subscription" /\ list[n].arg = subscribed
        BY <2>6, <3>1
      <4> QED
        BY <2>5, <4>1
    <3>2. CASE n # m
      <4>1. n > m /\ n - 1 >= m
        BY <2>6, <2>8, <3>2
      <4>2. list[n].call # "subscription"
        BY <4>1
      <4> QED
        BY <2>4, <2>5, <4>1, <4>2
    <3> QED
      BY <3>1, <3>2
  <2>9. /\ u \in TwinRecord /\ Live(u) /\ Account(u.ops, u.told, waiting)
        /\ Range(u.ops) \subseteq Range(t.ops)
    BY <2>2, <2>5
  <2>10. ASSUME \A i \in 1..Len(list) : list[i].call # "send_failed" PROVE u.ops = t.ops
    BY <2>4, <2>5, <2>10
  <2> QED
    BY <2>7, <2>8, <2>9, <2>10 DEF u
<1>5. Good(Len(list))
  <2> HIDE DEF Good
  <2> SUFFICES ASSUME Bad # {} PROVE FALSE
    BY <1>1
  <2>1. Bad \subseteq Nat
    BY <1>1
  <2>2. PICK n \in Bad : \A j \in Bad : n <= j
    BY <2>1, LeastNatural
  <2>3. n \in 1..Len(list) /\ n - 1 \in 0..Len(list) /\ ~(n <= n - 1)
    <3>1. n \in 0..Len(list) /\ n # 0
      BY <1>3, <2>2
    <3> QED
      BY <1>1, <3>1
  <2>4. Good(n - 1)
    BY <2>2, <2>3
  <2> QED
    BY <1>4, <2>2, <2>3, <2>4
<1>6. Len(list) >= k /\ Len(list) >= m
  BY <1>1
<1> QED
  BY <1>2, <1>5, <1>6

-----------------------------------------------------------------------------
(* New operations, and reports that wait *)

\* Being in order by Apart is having no report twice.
LEMMA ApartSays ==
  ASSUME NEW p \in TwinPatches, NEW q \in TwinPatches
  PROVE  <<p, q>> \in Apart <=> p # q
BY DEF Apart

\* An operation begins: its caller, if there is one, waited for nothing else.
LEMMA AccountAsked ==
  ASSUME NEW ops, NEW answers, NEW waiting, Account(ops, answers, waiting),
         NEW op \in TwinOp, op \notin Range(ops), NEW later, NEW left,
         later \in [TwinCallers -> TwinStatuses], left \in Seq(TwinPatches), Sorted(left, Apart),
         \A c \in TwinCallers : c \notin Caller(op) => later[c] = answers[c],
         \A c \in Caller(op) : later[c] = "held" /\ c \notin Range(left) /\ \A o \in Range(ops) : c \notin Caller(o),
         Range(left) \subseteq Range(waiting), \A p \in Range(waiting) : p \in Range(left) \/ p \in Caller(op)
  PROVE  Account(Append(ops, op), later, left)
<1> DEFINE after == Append(ops, op)
<1>1. /\ \A c \in TwinCallers : answers[c] # "twice"
      /\ ops \in Seq(TwinOp) /\ Sorted(ops, Differ)
      /\ \A o, p \in Range(ops) : Caller(o) \cap Caller(p) # {} => o = p
      /\ \A o \in Range(ops) : \A c \in Caller(o) : answers[c] = "held" /\ c \notin Range(waiting)
      /\ \A p \in Range(waiting) : answers[p] = "held"
      /\ \A p \in TwinPatches : answers[p] = "held" => p \in Range(waiting) \/ \E o \in Range(ops) : p \in Caller(o)
  BY DEF Account
<1>2. Range(ops) \subseteq TwinOp /\ Range(left) \subseteq TwinPatches /\ TwinPatches \subseteq TwinCallers
  BY <1>1 DEF Range, TwinCallers
<1>3. \A x \in Range(ops) : <<x, op>> \in Differ
  BY <1>2, OpsDiffer
<1>4. after \in Seq(TwinOp) /\ Range(after) = Range(ops) \cup {op} /\ Sorted(after, Differ)
  BY <1>1, <1>3, AppendInOrder
<1> HIDE DEF after
<1>5. \A o \in Range(after) : Caller(o) \subseteq TwinCallers
  BY <1>2, <1>4, CallersAreKnown
<1>6. \A c \in TwinCallers : later[c] # "twice"
  BY <1>1
<1>7. \A o, p \in Range(after) : Caller(o) \cap Caller(p) # {} => o = p
  BY <1>1, <1>4
<1>8. \A o \in Range(after) : \A c \in Caller(o) : later[c] = "held" /\ c \notin Range(left)
  BY <1>1, <1>4, <1>5
<1>9. \A p \in Range(left) : later[p] = "held"
  BY <1>1, <1>2
<1>10. \A p \in TwinPatches : later[p] = "held" => p \in Range(left) \/ \E o \in Range(after) : p \in Caller(o)
  <2> SUFFICES ASSUME NEW p \in TwinPatches, later[p] = "held", p \notin Range(left), p \notin Caller(op)
               PROVE  \E o \in Range(after) : p \in Caller(o)
    BY <1>4
  <2>1. answers[p] = "held" /\ p \notin Range(waiting)
    BY <1>2
  <2> QED
    BY <1>1, <1>4, <2>1
<1> QED
  BY <1>4, <1>6, <1>7, <1>8, <1>9, <1>10 DEF Account, after

\* A report is accepted.
LEMMA AccountWaits ==
  ASSUME NEW ops, NEW answers, NEW waiting, Account(ops, answers, waiting), NEW p \in TwinPatches, answers[p] = "new"
  PROVE  Account(ops, [answers EXCEPT ![p] = "held"], Append(waiting, p))
<1> DEFINE later == [answers EXCEPT ![p] = "held"]
           left == Append(waiting, p)
<1>1. /\ answers \in [TwinCallers -> TwinStatuses] /\ \A c \in TwinCallers : answers[c] # "twice"
      /\ ops \in Seq(TwinOp) /\ Sorted(ops, Differ)
      /\ waiting \in Seq(TwinPatches) /\ Sorted(waiting, Apart)
  BY DEF Account
<1>2. /\ \A o, q \in Range(ops) : Caller(o) \cap Caller(q) # {} => o = q
      /\ \A o \in Range(ops) : \A c \in Caller(o) : answers[c] = "held" /\ c \notin Range(waiting)
      /\ \A q \in Range(waiting) : answers[q] = "held"
      /\ \A q \in TwinPatches : answers[q] = "held" => q \in Range(waiting) \/ \E o \in Range(ops) : q \in Caller(o)
  BY DEF Account
<1>3. /\ Range(ops) \subseteq TwinOp /\ Range(waiting) \subseteq TwinPatches /\ TwinPatches \subseteq TwinCallers
      /\ p \in TwinCallers /\ "held" \in TwinStatuses
  BY <1>1 DEF Range, TwinCallers, TwinStatuses
<1>4. \A o \in Range(ops) : Caller(o) \subseteq TwinCallers /\ p \notin Caller(o)
  BY <1>2, <1>3, CallersAreKnown
<1>5. \A x \in Range(waiting) : <<x, p>> \in Apart
  BY <1>2, <1>3, ApartSays
<1>6. left \in Seq(TwinPatches) /\ Range(left) = Range(waiting) \cup {p} /\ Sorted(left, Apart)
  BY <1>1, <1>5, AppendInOrder
<1>7. /\ later \in [TwinCallers -> TwinStatuses] /\ later[p] = "held"
      /\ \A c \in TwinCallers : c # p => later[c] = answers[c]
  BY <1>1, <1>3
<1> HIDE DEF later, left
<1>8. \A c \in TwinCallers : later[c] # "twice"
  BY <1>1, <1>7
<1>9. \A o \in Range(ops) : \A c \in Caller(o) : later[c] = "held" /\ c \notin Range(left)
  BY <1>2, <1>4, <1>6, <1>7
<1>10. \A q \in Range(left) : later[q] = "held"
  BY <1>2, <1>3, <1>6, <1>7
<1>11. \A q \in TwinPatches : later[q] = "held" => q \in Range(left) \/ \E o \in Range(ops) : q \in Caller(o)
  BY <1>2, <1>3, <1>6, <1>7
<1> QED
  BY <1>1, <1>2, <1>6, <1>7, <1>8, <1>9, <1>10, <1>11 DEF Account, later, left

\* Reports that wait no more are told so.
LEMMA AccountDropped ==
  ASSUME NEW ops, NEW answers, NEW waiting, Account(ops, answers, waiting), NEW left, NEW gone,
         left \in Seq(TwinPatches), Sorted(left, Apart), gone \subseteq Range(waiting),
         Range(left) = Range(waiting) \ gone
  PROVE  Account(ops, TellTwin(answers, gone, "failed"), left)
<1> DEFINE later == TellTwin(answers, gone, "failed")
<1>1. /\ answers \in [TwinCallers -> TwinStatuses] /\ \A c \in TwinCallers : answers[c] # "twice"
      /\ ops \in Seq(TwinOp) /\ Sorted(ops, Differ) /\ waiting \in Seq(TwinPatches)
  BY DEF Account
<1>2. /\ \A o, q \in Range(ops) : Caller(o) \cap Caller(q) # {} => o = q
      /\ \A o \in Range(ops) : \A c \in Caller(o) : answers[c] = "held" /\ c \notin Range(waiting)
      /\ \A q \in Range(waiting) : answers[q] = "held"
      /\ \A q \in TwinPatches : answers[q] = "held" => q \in Range(waiting) \/ \E o \in Range(ops) : q \in Caller(o)
  BY DEF Account
<1>3. Range(ops) \subseteq TwinOp /\ Range(waiting) \subseteq TwinPatches /\ TwinPatches \subseteq TwinCallers
  BY <1>1 DEF Range, TwinCallers
<1>4. \A o \in Range(ops) : Caller(o) \subseteq TwinCallers
  BY <1>3, CallersAreKnown
<1>5. /\ later \in [TwinCallers -> TwinStatuses]
      /\ \A c \in TwinCallers \ gone : later[c] = answers[c]
      /\ \A c \in TwinCallers \cap gone : answers[c] = "held" => later[c] = "failed"
  BY <1>1, TellTwinFacts
<1> HIDE DEF later
<1>6. \A c \in gone : c \in TwinCallers /\ later[c] = "failed"
  BY <1>2, <1>3, <1>5
<1>7. \A c \in TwinCallers : later[c] # "twice"
  BY <1>1, <1>5, <1>6
<1>8. \A o \in Range(ops) : \A c \in Caller(o) : later[c] = "held" /\ c \notin Range(left)
  BY <1>2, <1>4, <1>5
<1>9. \A q \in Range(left) : later[q] = "held"
  BY <1>2, <1>3, <1>5
<1>10. \A q \in TwinPatches : later[q] = "held" => q \in Range(left) \/ \E o \in Range(ops) : q \in Caller(o)
  BY <1>2, <1>3, <1>5, <1>6
<1> QED
  BY <1>1, <1>2, <1>5, <1>7, <1>8, <1>9, <1>10 DEF Account, later

-----------------------------------------------------------------------------
(* Operations that have waited too long *)

\* An operation has waited too long: it ends and its caller is told.
LEMMA ExpireFacts ==
  ASSUME NEW t \in TwinRecord, NEW waiting, Account(t.ops, t.told, waiting), NEW op \in Range(t.ops)
  PROVE  LET u == Expire(t, op) IN
           /\ u \in TwinRecord
           /\ u.state = t.state /\ u.seen = t.seen /\ u.subscribed = t.subscribed
           /\ Range(u.ops) = Range(t.ops) \ {op} /\ Account(u.ops, u.told, waiting)
<1> DEFINE u == Expire(t, op)
           ops == WithoutOp(t.ops, op)
           answers == TellTwin(t.told, Caller(op), "failed")
           sub == CASE op.type = "GET" /\ t.sub = "GETTING" -> "GET"
                    [] op.type = "PUT" /\ t.sub = "SUBSCRIBING" -> "SUBSCRIBE"
                    [] OTHER -> t.sub
           errors == IF sub = t.sub THEN t.errors ELSE Counted(t.errors)
<1>1. u = [t EXCEPT !.ops = ops, !.told = answers, !.sub = sub, !.errors = errors]
  BY DEF Expire, TwinRecord
<1>2. Account(ops, answers, waiting)
  BY AccountAnswered
<1>3. ops \in Seq(TwinOp) /\ Range(ops) = Range(t.ops) \ {op}
  <2>1. t.ops \in Seq(TwinOp) /\ Sorted(t.ops, Differ)
    BY DEF Account
  <2> QED
    BY <2>1, WithoutOpFacts
<1>4. answers \in [TwinCallers -> TwinStatuses]
  BY <1>2 DEF Account
<1>5. sub \in SubscriptionStates /\ errors \in Nat
  BY DEF TwinRecord, SubscriptionStates, Counted
<1> HIDE DEF ops, answers, sub, errors, u
<1>6. /\ u.state = t.state /\ u.seen = t.seen /\ u.subscribed = t.subscribed /\ u.ops = ops /\ u.told = answers
      /\ u \in TwinRecord
  BY <1>1, <1>3, <1>4, <1>5 DEF TwinRecord
<1> QED
  BY <1>2, <1>3, <1>6 DEF u

\* Several of them: each is there when its turn comes, and its caller is told once.
LEMMA ExpireAllFacts ==
  ASSUME NEW t \in TwinRecord, NEW waiting, Account(t.ops, t.told, waiting),
         NEW old \in Seq(TwinOp), Sorted(old, Differ), Range(old) \subseteq Range(t.ops)
  PROVE  LET u == ExpireAll(t, old) IN
           /\ u \in TwinRecord
           /\ u.state = t.state /\ u.seen = t.seen /\ u.subscribed = t.subscribed
           /\ Range(u.ops) = Range(t.ops) \ Range(old) /\ Account(u.ops, u.told, waiting)
<1>1. Len(old) \in Nat /\ DOMAIN old = 1..Len(old) /\ \A n \in 1..Len(old) : old[n] \in TwinOp
  OBVIOUS
<1>2. PICK f : /\ f[0] = t
               /\ \A n \in 1..Len(old) : f[n] = Expire(f[n - 1], old[n])
               /\ ExpireAll(t, old) = f[Len(old)]
  BY <1>1, ExpiredInTurn
<1> DEFINE Good(n) ==
             /\ f[n] \in TwinRecord
             /\ f[n].state = t.state /\ f[n].seen = t.seen /\ f[n].subscribed = t.subscribed
             /\ \A x : x \in Range(f[n].ops) <=> x \in Range(t.ops) /\ \A i \in 1..n : x # old[i]
             /\ Account(f[n].ops, f[n].told, waiting)
           Bad == {n \in 0..Len(old) : ~Good(n)}
<1>3. Good(0)
  BY <1>2
<1>4. ASSUME NEW n \in 1..Len(old), Good(n - 1) PROVE Good(n)
  <2> DEFINE s == f[n - 1]
             u == f[n]
  <2>1. u = Expire(s, old[n])
    BY <1>2
  <2>2. /\ s \in TwinRecord /\ Account(s.ops, s.told, waiting)
        /\ s.state = t.state /\ s.seen = t.seen /\ s.subscribed = t.subscribed
        /\ \A x : x \in Range(s.ops) <=> x \in Range(t.ops) /\ \A i \in 1..(n - 1) : x # old[i]
    BY <1>4
  <2> HIDE DEF s, u
  <2>3. old[n] \in Range(t.ops) /\ \A i \in 1..(n - 1) : old[n] # old[i]
    <3>1. old[n] \in Range(t.ops)
      BY <1>1 DEF Range
    <3>2. ASSUME NEW i \in 1..(n - 1) PROVE old[n] # old[i]
      <4>1. i \in 1..Len(old) /\ i < n
        BY <1>1
      <4>2. <<old[i], old[n]>> \in Differ
        BY <1>1, <4>1 DEF Sorted
      <4> QED
        BY <1>1, <4>1, <4>2, OpsDiffer
    <3> QED
      BY <3>1, <3>2
  <2> DEFINE op == old[n]
  <2>4. op \in Range(s.ops) /\ u = Expire(s, op)
    BY <2>1, <2>2, <2>3
  <2> HIDE DEF op
  <2>5. /\ u \in TwinRecord
        /\ u.state = s.state /\ u.seen = s.seen /\ u.subscribed = s.subscribed
        /\ Range(u.ops) = Range(s.ops) \ {op} /\ Account(u.ops, u.told, waiting)
    <3>1. s \in TwinRecord /\ Account(s.ops, s.told, waiting)
      BY <2>2
    <3> QED
      BY <2>4, <3>1, ExpireFacts
  <2>6. \A i : i \in 1..n <=> i \in 1..(n - 1) \/ i = n
    BY <1>1
  <2>7. \A x : x \in Range(u.ops) <=> x \in Range(t.ops) /\ \A i \in 1..n : x # old[i]
    BY <2>2, <2>5, <2>6 DEF op
  <2> QED
    BY <2>2, <2>5, <2>7 DEF u
<1>5. Good(Len(old))
  <2> HIDE DEF Good
  <2> SUFFICES ASSUME Bad # {} PROVE FALSE
    BY <1>1
  <2>1. Bad \subseteq Nat
    BY <1>1
  <2>2. PICK n \in Bad : \A j \in Bad : n <= j
    BY <2>1, LeastNatural
  <2>3. n \in 1..Len(old) /\ n - 1 \in 0..Len(old) /\ ~(n <= n - 1)
    <3>1. n \in 0..Len(old) /\ n # 0
      BY <1>3, <2>2
    <3> QED
      BY <1>1, <3>1
  <2>4. Good(n - 1)
    BY <2>2, <2>3
  <2> QED
    BY <1>4, <2>2, <2>3, <2>4
<1> DEFINE v == f[Len(old)]
<1>6. \A x : x \in Range(v.ops) <=> x \in Range(t.ops) /\ \A i \in 1..Len(old) : x # old[i]
  BY <1>5
<1>7. \A x : x \in Range(old) <=> \E i \in 1..Len(old) : x = old[i]
  BY <1>1 DEF Range
<1>8. Range(v.ops) = Range(t.ops) \ Range(old)
  <2> HIDE DEF v
  <2> QED
    BY <1>6, <1>7
<1> QED
  BY <1>2, <1>5, <1>8

-----------------------------------------------------------------------------
(* The queue below *)

\* A request that may still fail before uAMQP has it is an operation.
QueuedAreOps == \A m \in Range(send_queue) : ~m.handed => m.ctx \in Ops

\* It is what RequestsAreOperations says.
LEMMA QueuedAreOpsSays == QueuedAreOps <=> RequestsAreOperations
BY DEF QueuedAreOps, RequestsAreOperations, Ctxs, Queued, Handed, Range

\* Being in order by OtherIds is having no correlation id twice.
LEMMA IdsDiffer ==
  ASSUME NEW m \in QueueItem, NEW n \in QueueItem
  PROVE  <<m, n>> \in OtherIds <=> m.ctx.id # n.ctx.id
BY DEF OtherIds

\* The queue without some requests.
LEMMA RemovingFacts ==
  ASSUME send_queue \in Seq(QueueItem), Sorted(send_queue, OtherIds), NEW ctxs
  PROVE  /\ Removing(ctxs) \in Seq(QueueItem) /\ Sorted(Removing(ctxs), OtherIds)
         /\ Range(Removing(ctxs)) = {m \in Range(send_queue) : m.ctx \notin ctxs}
<1> DEFINE list == send_queue
           parts == [n \in DOMAIN list |-> IF list[n].ctx \in ctxs THEN <<>> ELSE <<list[n]>>]
           drop == {m \in Range(list) : m.ctx \in ctxs}
<1>1. \A n \in DOMAIN list : list[n] \in QueueItem /\ <<>> \in Seq(QueueItem) /\ <<list[n]>> \in Seq(QueueItem)
  OBVIOUS
<1>2. parts \in [DOMAIN list -> Seq(QueueItem)]
  BY <1>1
<1>3. \A n \in DOMAIN list : list[n] \in drop <=> list[n].ctx \in ctxs
  BY DEF Range
<1>4. \A n \in DOMAIN list : parts[n] = IF list[n] \in drop THEN <<>> ELSE <<list[n]>>
  BY <1>3
<1>5. Removing(ctxs) = FlattenSeq(parts)
  BY DEF Removing
<1> HIDE DEF parts, drop
<1>6. /\ FlattenSeq(parts) \in Seq(QueueItem)
      /\ Range(FlattenSeq(parts)) = Range(list) \ drop
      /\ Sorted(FlattenSeq(parts), OtherIds)
  BY <1>2, <1>4, FilterInOrder
<1> QED
  BY <1>5, <1>6 DEF drop

\* Requests leave the queue, operations end, the service answers.
LEMMA NumberedShrinks ==
  ASSUME TwinNumbered, send_queue' \in Seq(QueueItem), Sorted(send_queue', OtherIds),
         \A m \in Range(send_queue') : \E n \in Range(send_queue) : m.ctx = n.ctx,
         Range(operations') \subseteq Range(operations), atService' \subseteq atService, requests' = requests
  PROVE  TwinNumbered'
BY DEF TwinNumbered, Ops

\* A request is made.
LEMMA RequestAdds ==
  ASSUME TwinInv, NEW op \in TwinOp, op.id = requests + 1, Requests(op), atService' = atService
  PROVE  /\ TwinNumbered' /\ requests' \in Nat
         /\ operations' = Append(operations, op) /\ op \notin Ops
         /\ QueuedAreOps => QueuedAreOps'
<1> DEFINE item == [ctx |-> op, handed |-> FALSE]
<1>1. /\ operations \in Seq(TwinOp) /\ Sorted(operations, Differ) /\ requests \in Nat
      /\ send_queue \in Seq(QueueItem) /\ Sorted(send_queue, OtherIds)
      /\ \A o \in Ops : o.id <= requests
      /\ \A m \in Range(send_queue) : m.ctx.id <= requests
      /\ atService \subseteq TwinRequest
      /\ \A r \in atService : r.correlation_id <= requests /\ \A m \in Range(send_queue) : m.ctx.id # r.correlation_id
  BY DEF TwinInv, TwinAccounted, Account, TwinNumbered, TwinShape
<1>2. requests' = requests + 1 /\ operations' = Append(operations, op) /\ send_queue' = Append(send_queue, item)
  BY DEF Requests, amqp_messenger_send_async
<1>3. /\ item \in QueueItem /\ item.ctx = op /\ ~item.handed
      /\ Ops \subseteq TwinOp /\ Range(send_queue) \subseteq QueueItem
  <2>1. item \in QueueItem /\ item.ctx = op /\ ~item.handed
    BY DEF QueueItem
  <2>2. Ops \subseteq TwinOp
    BY <1>1 DEF Ops, Range
  <2>3. Range(send_queue) \subseteq QueueItem
    BY <1>1 DEF Range
  <2> QED
    BY <2>1, <2>2, <2>3
<1> HIDE DEF item
<1>4. \A m \in Range(send_queue) : m.ctx.id \in Nat /\ m.ctx.id # op.id
  BY <1>1, <1>3 DEF QueueItem, TwinOp
<1>5. \A o \in Ops : o.id \in Nat /\ o.id # op.id
  BY <1>1, <1>3 DEF TwinOp
<1>6. \A m \in Range(send_queue) : <<m, item>> \in OtherIds
  BY <1>3, <1>4, IdsDiffer
<1>7. send_queue' \in Seq(QueueItem) /\ Range(send_queue') = Range(send_queue) \cup {item} /\ Sorted(send_queue', OtherIds)
  BY <1>1, <1>2, <1>3, <1>6, AppendInOrder
<1>8. Range(operations') = Ops \cup {op}
  BY <1>1, <1>2, AppendNoDuplicates DEF Ops
<1>9. \A r \in atService : r.correlation_id \in Nat /\ r.correlation_id # op.id
  BY <1>1 DEF TwinRequest
<1>10. TwinNumbered'
  <2>1. \A o \in Range(operations') : o.id <= requests'
    BY <1>1, <1>2, <1>5, <1>8
  <2>2. \A m \in Range(send_queue') : m.ctx.id <= requests'
    BY <1>1, <1>2, <1>3, <1>4, <1>7
  <2>3. \A r \in atService : r.correlation_id <= requests' /\ \A m \in Range(send_queue') : m.ctx.id # r.correlation_id
    BY <1>1, <1>2, <1>3, <1>7, <1>9
  <2> QED
    BY <1>1, <1>7, <2>1, <2>2, <2>3 DEF TwinNumbered, Ops
<1>11. QueuedAreOps => QueuedAreOps'
  BY <1>3, <1>7, <1>8 DEF QueuedAreOps, Ops
<1>12. requests' \in Nat
  BY <1>1, <1>2
<1> QED
  BY <1>2, <1>5, <1>10, <1>11, <1>12

-----------------------------------------------------------------------------
(* The steps of the device and of do_work *)

\* What the callbacks change, as one record.
LEMMA TwinIsRecord ==
  ASSUME TwinInv
  PROVE  /\ Twin \in TwinRecord
         /\ Twin.state = twinState /\ Twin.seen = amqp_msgr_state /\ Twin.subscribed = amqp_msgr_is_subscribed
         /\ Twin.sub = subscription_state /\ Twin.errors = subscription_error_count
         /\ Twin.ops = operations /\ Twin.told = twinTold
         /\ Account(Twin.ops, Twin.told, pending_patches)
<1>1. /\ twinState \in TwinStates /\ amqp_msgr_state \in TwinStates /\ amqp_msgr_is_subscribed \in BOOLEAN
      /\ subscription_state \in SubscriptionStates /\ subscription_error_count \in Nat
  BY DEF TwinInv, TwinShape, TwinAgrees, TwinStates
<1>2. operations \in Seq(TwinOp) /\ twinTold \in [TwinCallers -> TwinStatuses]
  BY DEF TwinInv, TwinAccounted, Account
<1>3. /\ Twin.state = twinState /\ Twin.seen = amqp_msgr_state /\ Twin.subscribed = amqp_msgr_is_subscribed
      /\ Twin.sub = subscription_state /\ Twin.errors = subscription_error_count
      /\ Twin.ops = operations /\ Twin.told = twinTold
  BY DEF Twin
<1>4. Twin \in TwinRecord
  BY <1>1, <1>2 DEF Twin, TwinRecord
<1>5. Account(Twin.ops, Twin.told, pending_patches)
  BY <1>3 DEF TwinInv, TwinAccounted
<1> QED
  BY <1>3, <1>4, <1>5

\* A messenger that was just created.
LEMMA TwinInitInv == TwinInit => TwinInv
<1> SUFFICES ASSUME TwinInit PROVE TwinInv
  OBVIOUS
<1>1. Range(<<>>) = {} /\ \A R : Sorted(<<>>, R)
  BY DEF Range, Sorted
<1>2. TwinShape /\ TwinAgrees
  BY DEF TwinInit, AmqpInit, TwinShape, TwinAgrees, TwinLinks, SubscriptionStates, MessengerStates
<1>3. TwinAccounted
  <2>1. operations = <<>> /\ pending_patches = <<>> /\ twinTold = [c \in TwinCallers |-> "new"]
    BY DEF TwinInit, TwinCallers
  <2>2. twinTold \in [TwinCallers -> TwinStatuses] /\ \A c \in TwinCallers : twinTold[c] = "new"
    BY <2>1 DEF TwinStatuses
  <2>3. TwinPatches \subseteq TwinCallers
    BY DEF TwinCallers
  <2> QED
    BY <1>1, <2>1, <2>2, <2>3 DEF TwinAccounted, Account
<1>4. TwinNumbered
  BY <1>1 DEF TwinInit, AmqpInit, TwinNumbered, Ops
<1> QED
  BY <1>2, <1>3, <1>4 DEF TwinInv

\* Steps that touch neither operations nor the queue nor the links.
LEMMA AsksInv ==
  ASSUME TwinInv, twin_messenger_subscribe \/ twin_messenger_unsubscribe \/ twin_messenger_do_work
  PROVE  TwinInv' /\ (QueuedAreOps => QueuedAreOps')
<1>1. /\ UNCHANGED <<amqpState, sender, receiver, send_queue, twinState, amqp_msgr_state, amqp_msgr_is_subscribed,
                     subscription_error_count, operations, pending_patches, atService, requests, twinTold>>
      /\ subscription_state' \in {subscription_state, "GET", "UNSUBSCRIBE"}
      /\ twinState \in {"STOPPED", "gone"} => work' = work
      /\ work' \in {work, "patches", "timeouts"}
  BY DEF twin_messenger_subscribe, twin_messenger_unsubscribe, twin_messenger_do_work, Subscribing, amqpLinks, followVars,
     twinRest, Idle
<1>2. TwinShape'
  BY <1>1 DEF TwinInv, TwinShape, SubscriptionStates
<1>3. TwinAgrees'
  BY <1>1 DEF TwinInv, TwinAgrees
<1>4. TwinAccounted'
  BY <1>1 DEF TwinInv, TwinAccounted
<1>5. TwinNumbered'
  BY <1>1 DEF TwinInv, TwinNumbered, Ops
<1>6. QueuedAreOps => QueuedAreOps'
  BY <1>1 DEF QueuedAreOps, Ops
<1> QED
  BY <1>2, <1>3, <1>4, <1>5, <1>6 DEF TwinInv

\* A report is accepted.
LEMMA ReportInv ==
  ASSUME TwinInv, twin_messenger_report_state_async
  PROVE  TwinInv' /\ (QueuedAreOps => QueuedAreOps')
<1>1. /\ UNCHANGED <<amqpState, sender, receiver, send_queue, work, twinState, amqp_msgr_state, amqp_msgr_is_subscribed,
                     subscription_state, subscription_error_count, operations, atService, requests>>
  BY DEF twin_messenger_report_state_async
<1>2. PICK p \in TwinPatches : /\ twinTold[p] = "new" /\ pending_patches' = Append(pending_patches, p)
                               /\ twinTold' = [twinTold EXCEPT ![p] = "held"]
  BY DEF twin_messenger_report_state_async
<1>3. Account(operations, twinTold', pending_patches')
  BY <1>2, AccountWaits DEF TwinInv, TwinAccounted
<1>4. TwinAccounted'
  BY <1>1, <1>3 DEF TwinAccounted
<1>5. TwinShape' /\ TwinAgrees'
  BY <1>1 DEF TwinInv, TwinShape, TwinAgrees
<1>6. TwinNumbered'
  BY <1>1 DEF TwinInv, TwinNumbered, Ops
<1>7. QueuedAreOps => QueuedAreOps'
  BY <1>1 DEF QueuedAreOps, Ops
<1> QED
  BY <1>4, <1>5, <1>6, <1>7 DEF TwinInv

\* The twin is asked for.
LEMMA DemandInv ==
  ASSUME TwinInv, twin_messenger_get_twin_async
  PROVE  TwinInv' /\ (QueuedAreOps => QueuedAreOps')
<1> DEFINE op == NewOp("DEMAND", 0)
<1>1. /\ UNCHANGED <<amqpState, sender, receiver, work, twinState, amqp_msgr_state, amqp_msgr_is_subscribed,
                     subscription_state, subscription_error_count, pending_patches, atService>>
      /\ twinTold[0] = "new" /\ Requests(op) /\ twinTold' = [twinTold EXCEPT ![0] = "held"]
  BY DEF twin_messenger_get_twin_async
<1>2. op \in TwinOp /\ op.id = requests + 1 /\ Caller(op) = {0}
  BY DEF TwinInv, TwinShape, NewOp, TwinOp, TwinCallers, Caller
<1> HIDE DEF op
<1>3. TwinNumbered' /\ requests' \in Nat /\ operations' = Append(operations, op) /\ op \notin Ops
  BY <1>1, <1>2, RequestAdds
<1>4. QueuedAreOps => QueuedAreOps'
  BY <1>1, <1>2, RequestAdds
<1>5. Account(operations, twinTold, pending_patches)
  BY DEF TwinInv, TwinAccounted
<1>6. /\ twinTold \in [TwinCallers -> TwinStatuses] /\ pending_patches \in Seq(TwinPatches) /\ Sorted(pending_patches, Apart)
      /\ \A o \in Range(operations) : \A c \in Caller(o) : twinTold[c] = "held"
      /\ Range(pending_patches) \subseteq TwinPatches
  BY <1>5 DEF Account, Range
<1>7. 0 \in TwinCallers /\ "held" \in TwinStatuses /\ 0 \notin TwinPatches
  BY PatchesAreNumbers DEF TwinCallers, TwinStatuses
<1>8. /\ twinTold' \in [TwinCallers -> TwinStatuses] /\ twinTold'[0] = "held"
      /\ \A c \in TwinCallers : c # 0 => twinTold'[c] = twinTold[c]
  BY <1>1, <1>6, <1>7
<1>9. Account(Append(operations, op), twinTold', pending_patches)
  <2>1. op \notin Range(operations)
    BY <1>3 DEF Ops
  <2>2. \A c \in TwinCallers : c \notin Caller(op) => twinTold'[c] = twinTold[c]
    BY <1>2, <1>8
  <2>3. \A c \in Caller(op) : /\ twinTold'[c] = "held" /\ c \notin Range(pending_patches)
                              /\ \A o \in Range(operations) : c \notin Caller(o)
    BY <1>1, <1>2, <1>6, <1>7, <1>8
  <2> QED
    BY <1>2, <1>5, <1>6, <1>8, <2>1, <2>2, <2>3, AccountAsked
<1>10. TwinAccounted'
  BY <1>1, <1>3, <1>9 DEF TwinAccounted
<1>11. TwinShape' /\ TwinAgrees'
  BY <1>1, <1>3 DEF TwinInv, TwinShape, TwinAgrees
<1> QED
  BY <1>3, <1>4, <1>10, <1>11 DEF TwinInv

\* The oldest report is sent, or cannot be and its caller is told.
LEMMA PatchInv ==
  ASSUME TwinInv, send_pending_twin_patch
  PROVE  TwinInv' /\ (QueuedAreOps => QueuedAreOps')
<1> DEFINE p == Head(pending_patches)
           op == NewOp("PATCH", p)
<1>1. /\ UNCHANGED <<amqpState, sender, receiver, work, twinState, amqp_msgr_state, amqp_msgr_is_subscribed,
                     subscription_state, subscription_error_count, atService>>
      /\ pending_patches # <<>> /\ pending_patches' = Tail(pending_patches)
      /\ \/ Requests(op) /\ twinTold' = twinTold
         \/ twinTold' = TellTwin(twinTold, {p}, "failed") /\ NoRequest
  BY DEF send_pending_twin_patch, amqpLinks
<1>2. Account(operations, twinTold, pending_patches)
  BY DEF TwinInv, TwinAccounted
<1>3. /\ twinTold \in [TwinCallers -> TwinStatuses] /\ pending_patches \in Seq(TwinPatches) /\ Sorted(pending_patches, Apart)
      /\ \A o \in Range(operations) : \A c \in Caller(o) : c \notin Range(pending_patches)
      /\ \A q \in Range(pending_patches) : twinTold[q] = "held"
  BY <1>2 DEF Account
<1>4. /\ p \in TwinPatches /\ pending_patches' \in Seq(TwinPatches) /\ Range(pending_patches) = {p} \cup Range(pending_patches')
      /\ \A x \in Range(pending_patches') : <<p, x>> \in Apart
      /\ Sorted(pending_patches', Apart)
  BY <1>1, <1>3, TailInOrder
<1>5. p \notin Range(pending_patches') /\ Range(pending_patches') = Range(pending_patches) \ {p}
  <2>1. Range(pending_patches') \subseteq TwinPatches
    BY <1>4 DEF Range
  <2>2. p \notin Range(pending_patches')
    BY <1>4, <2>1, ApartSays
  <2> QED
    BY <1>4, <2>2
<1>6. op \in TwinOp /\ op.id = requests + 1 /\ Caller(op) = {p}
  BY <1>4 DEF TwinInv, TwinShape, NewOp, TwinOp, TwinCallers, Caller
<1> HIDE DEF op, p
<1>7. CASE Requests(op) /\ twinTold' = twinTold
  <2>1. TwinNumbered' /\ requests' \in Nat /\ operations' = Append(operations, op) /\ op \notin Ops
    BY <1>1, <1>6, <1>7, RequestAdds
  <2>2. QueuedAreOps => QueuedAreOps'
    BY <1>1, <1>6, <1>7, RequestAdds
  <2>3. Account(Append(operations, op), twinTold, pending_patches')
    <3>1. op \notin Range(operations)
      BY <2>1 DEF Ops
    <3>2. \A c \in Caller(op) : /\ twinTold[c] = "held" /\ c \notin Range(pending_patches')
                                /\ \A o \in Range(operations) : c \notin Caller(o)
      BY <1>3, <1>4, <1>5, <1>6
    <3>3. /\ Range(pending_patches') \subseteq Range(pending_patches)
          /\ \A q \in Range(pending_patches) : q \in Range(pending_patches') \/ q \in Caller(op)
      BY <1>4, <1>6
    <3> QED
      BY <1>2, <1>3, <1>4, <1>6, <3>1, <3>2, <3>3, AccountAsked
  <2>4. TwinAccounted'
    BY <1>7, <2>1, <2>3 DEF TwinAccounted
  <2>5. TwinShape' /\ TwinAgrees'
    BY <1>1, <2>1 DEF TwinInv, TwinShape, TwinAgrees
  <2> QED
    BY <2>1, <2>2, <2>4, <2>5 DEF TwinInv
<1>8. CASE twinTold' = TellTwin(twinTold, {p}, "failed") /\ NoRequest
  <2>1. UNCHANGED <<operations, send_queue, requests>>
    BY <1>8 DEF NoRequest
  <2>2. Account(operations, twinTold', pending_patches')
    <3> DEFINE gone == {p}
    <3>1. gone \subseteq Range(pending_patches) /\ Range(pending_patches') = Range(pending_patches) \ gone
      BY <1>4, <1>5
    <3>2. twinTold' = TellTwin(twinTold, gone, "failed")
      BY <1>8
    <3> HIDE DEF gone
    <3> QED
      BY <1>2, <1>4, <3>1, <3>2, AccountDropped
  <2>3. TwinAccounted'
    BY <2>1, <2>2 DEF TwinAccounted
  <2>4. TwinShape' /\ TwinAgrees'
    BY <1>1, <2>1 DEF TwinInv, TwinShape, TwinAgrees
  <2>5. TwinNumbered'
    BY <1>1, <2>1 DEF TwinInv, TwinNumbered, Ops
  <2>6. QueuedAreOps => QueuedAreOps'
    BY <2>1 DEF QueuedAreOps, Ops
  <2> QED
    BY <2>3, <2>4, <2>5, <2>6 DEF TwinInv
<1> QED
  BY <1>1, <1>7, <1>8

\* What the subscription asks for next.
LEMMA SubscriptionInv ==
  ASSUME TwinInv, process_twin_subscription
  PROVE  TwinInv' /\ (QueuedAreOps => QueuedAreOps')
<1>1. /\ UNCHANGED <<amqpState, sender, receiver, amqp_msgr_state, amqp_msgr_is_subscribed,
                     subscription_error_count, twinTold, pending_patches, atService>>
      /\ work = "patches" /\ work' = "timeouts"
      /\ \/ /\ subscription_state \in DOMAIN NextRequest
            /\ Requests(NewOp(NextRequest[subscription_state][1], 0))
            /\ subscription_state' = NextRequest[subscription_state][2] /\ twinState' = twinState
         \/ twinState' \in {"ERROR", twinState} /\ subscription_state' = subscription_state /\ NoRequest
  BY DEF process_twin_subscription, amqpLinks, twinRest
<1>2. TwinAgrees'
  BY <1>1 DEF TwinInv, TwinAgrees, MessengerStates
<1>3. CASE /\ subscription_state \in DOMAIN NextRequest
           /\ Requests(NewOp(NextRequest[subscription_state][1], 0))
           /\ subscription_state' = NextRequest[subscription_state][2]
  <2> DEFINE op == NewOp(NextRequest[subscription_state][1], 0)
  <2>1. NextRequest[subscription_state][1] \in {"GET", "PUT"} /\ subscription_state' \in SubscriptionStates
    BY <1>3 DEF NextRequest, SubscriptionStates
  <2>2. op \in TwinOp /\ op.id = requests + 1 /\ Caller(op) = {}
    BY <2>1 DEF TwinInv, TwinShape, NewOp, TwinOp, TwinCallers, Caller
  <2>3. Requests(op)
    BY <1>3
  <2> HIDE DEF op
  <2>4. TwinNumbered' /\ requests' \in Nat /\ operations' = Append(operations, op) /\ op \notin Ops
    BY <1>1, <2>2, <2>3, RequestAdds
  <2>5. QueuedAreOps => QueuedAreOps'
    BY <1>1, <2>2, <2>3, RequestAdds
  <2>6. Account(Append(operations, op), twinTold, pending_patches)
    <3>1. Account(operations, twinTold, pending_patches)
      BY DEF TwinInv, TwinAccounted
    <3>2. twinTold \in [TwinCallers -> TwinStatuses] /\ pending_patches \in Seq(TwinPatches) /\ Sorted(pending_patches, Apart)
      BY <3>1 DEF Account
    <3>3. op \notin Range(operations)
      BY <2>4 DEF Ops
    <3> QED
      BY <2>2, <3>1, <3>2, <3>3, AccountAsked
  <2>7. TwinAccounted'
    BY <1>1, <2>4, <2>6 DEF TwinAccounted
  <2>8. TwinShape'
    BY <1>1, <2>1, <2>4 DEF TwinInv, TwinShape
  <2> QED
    BY <1>2, <2>4, <2>5, <2>7, <2>8 DEF TwinInv
<1>4. CASE subscription_state' = subscription_state /\ NoRequest
  <2>1. UNCHANGED <<operations, send_queue, requests>>
    BY <1>4 DEF NoRequest
  <2>2. TwinShape' /\ TwinAccounted'
    BY <1>1, <1>4, <2>1 DEF TwinInv, TwinShape, TwinAccounted
  <2>3. TwinNumbered'
    BY <1>1, <2>1 DEF TwinInv, TwinNumbered, Ops
  <2>4. QueuedAreOps => QueuedAreOps'
    BY <2>1 DEF QueuedAreOps, Ops
  <2> QED
    BY <1>2, <2>2, <2>3, <2>4 DEF TwinInv
<1> QED
  BY <1>1, <1>3, <1>4

-----------------------------------------------------------------------------
(* Callbacks, and what follows from them *)

\* What can be called back.
LEMMA CallsAreKnown ==
  /\ \A s \in TwinStates : [call |-> "state", arg |-> s] \in TwinCall
  /\ \A b \in BOOLEAN : [call |-> "subscription", arg |-> b] \in TwinCall
  /\ \A op \in TwinOp : [call |-> "send_failed", arg |-> op] \in TwinCall
BY DEF TwinCall

\* The messenger below tells a new state once, and its own not at all.
LEMMA StateCallFacts ==
  ASSUME NEW s \in TwinStates
  PROVE  /\ StateCall(s) \in Seq(TwinCall)
         /\ s = amqpState => StateCall(s) = <<>> /\ Len(StateCall(s)) = 0
         /\ s # amqpState => Len(StateCall(s)) = 1 /\ StateCall(s)[1].call = "state" /\ StateCall(s)[1].arg = s
<1> DEFINE c == [call |-> "state", arg |-> s]
<1>1. c \in TwinCall /\ c.call = "state" /\ c.arg = s
  BY CallsAreKnown
<1>2. StateCall(s) = IF s = amqpState THEN <<>> ELSE <<c>>
  BY DEF StateCall
<1> HIDE DEF c
<1>3. <<c>> \in Seq(TwinCall) /\ Len(<<c>>) = 1 /\ <<c>>[1] = c
  BY <1>1
<1>4. <<>> \in Seq(TwinCall) /\ Len(<<>>) = 0
  OBVIOUS
<1> QED
  BY <1>1, <1>2, <1>3, <1>4

\* A callback about the subscription.
LEMMA SubscriptionCallFacts ==
  ASSUME NEW b \in BOOLEAN
  PROVE  /\ SubscriptionCall(b) \in Seq(TwinCall) /\ Len(SubscriptionCall(b)) = 1
         /\ SubscriptionCall(b)[1].call = "subscription" /\ SubscriptionCall(b)[1].arg = b
<1> DEFINE c == [call |-> "subscription", arg |-> b]
<1>1. c \in TwinCall /\ c.call = "subscription" /\ c.arg = b
  BY CallsAreKnown
<1>2. SubscriptionCall(b) = <<c>>
  BY DEF SubscriptionCall
<1> HIDE DEF c
<1>3. <<c>> \in Seq(TwinCall) /\ Len(<<c>>) = 1 /\ <<c>>[1] = c
  BY <1>1
<1> QED
  BY <1>1, <1>2, <1>3

\* A finite set has a sequence of its elements.
LEMMA SetToSeqFacts ==
  ASSUME NEW S, IsFiniteSet(S)
  PROVE  SetToSeq(S) \in Seq(S)
<1>1. Cardinality(S) \in Nat /\ ExistsBijection(1..Cardinality(S), S)
  BY FS_CardinalityType
<1>2. \E f \in [1..Cardinality(S) -> S] : IsInjective(f)
  BY <1>1 DEF ExistsBijection, Bijection, Injection, IsInjective
<1>3. SetToSeq(S) \in [1..Cardinality(S) -> S]
  BY <1>2 DEF SetToSeq
<1> QED
  BY <1>1, <1>3, FunctionIsSequence

\* The requests that fail in the queue are called back one by one.
LEMMA SendCallsFacts ==
  ASSUME send_queue \in Seq(QueueItem), NEW ctxs, ctxs \subseteq Ctxs(DOMAIN send_queue)
  PROVE  /\ SendCalls(ctxs) \in Seq(TwinCall)
         /\ \A n \in 1..Len(SendCalls(ctxs)) : SendCalls(ctxs)[n].call = "send_failed"
<1> DEFINE T == {[call |-> "send_failed", arg |-> c] : c \in ctxs}
           I == {n \in DOMAIN send_queue : send_queue[n].ctx \in ctxs}
           f == [n \in I |-> [call |-> "send_failed", arg |-> send_queue[n].ctx]]
<1>1. DOMAIN send_queue = 1..Len(send_queue) /\ Len(send_queue) \in Nat
  OBVIOUS
<1>2. \A c \in ctxs : c \in TwinOp /\ \E n \in I : c = send_queue[n].ctx
  <2> SUFFICES ASSUME NEW c \in ctxs PROVE c \in TwinOp /\ \E n \in I : c = send_queue[n].ctx
    OBVIOUS
  <2>1. PICK n \in DOMAIN send_queue : c = send_queue[n].ctx
    BY DEF Ctxs
  <2>2. send_queue[n] \in QueueItem
    OBVIOUS
  <2> QED
    BY <2>1, <2>2 DEF QueueItem
<1>3. IsFiniteSet(I)
  <2>1. IsFiniteSet(1..Len(send_queue))
    BY <1>1, FS_Interval
  <2>2. I \in SUBSET (1..Len(send_queue))
    BY <1>1
  <2> HIDE DEF I
  <2> QED
    BY <2>1, <2>2, FS_Subset
<1>4. f \in Surjection(I, T)
  <2>1. f \in [I -> T]
    OBVIOUS
  <2>2. ASSUME NEW t \in T PROVE \E n \in I : f[n] = t
    <3>1. PICK c \in ctxs : t = [call |-> "send_failed", arg |-> c]
      OBVIOUS
    <3>2. PICK n \in I : c = send_queue[n].ctx
      BY <1>2
    <3>3. f[n] = t
      BY <3>1, <3>2
    <3> QED
      BY <3>3
  <2> HIDE DEF f, T, I
  <2> QED
    BY <2>1, <2>2 DEF Surjection
<1>5. IsFiniteSet(T)
  <2> HIDE DEF f, T, I
  <2> QED
    BY <1>3, <1>4, FS_Surjection
<1>6. \A c \in T : c \in TwinCall /\ c.call = "send_failed"
  <2> SUFFICES ASSUME NEW op \in ctxs
               PROVE  LET c == [call |-> "send_failed", arg |-> op] IN c \in TwinCall /\ c.call = "send_failed"
    OBVIOUS
  <2> QED
    BY <1>2, CallsAreKnown
<1>7. SendCalls(ctxs) = SetToSeq(T)
  BY DEF SendCalls
<1> HIDE DEF T
<1>8. SetToSeq(T) \in Seq(T)
  BY <1>5, SetToSeqFacts
<1> DEFINE s == SetToSeq(T)
<1> HIDE DEF s
<1>9. s \in Seq(T) /\ Len(s) \in Nat /\ \A n \in 1..Len(s) : s[n] \in T
  BY <1>8 DEF s
<1>10. s \in Seq(TwinCall)
  <2>1. T \subseteq TwinCall
    BY <1>6
  <2>2. s \in [1..Len(s) -> T]
    BY <1>9
  <2>3. s \in [1..Len(s) -> TwinCall]
    BY <2>1, <2>2
  <2> QED
    BY <1>9, <2>3
<1> QED
  BY <1>6, <1>7, <1>9, <1>10 DEF s

\* The state after the callbacks is the record they end with.
LEMMA BecomesFacts ==
  ASSUME NEW t \in TwinRecord, Becomes(t)
  PROVE  /\ twinState' = t.state /\ amqp_msgr_state' = t.seen /\ amqp_msgr_is_subscribed' = t.subscribed
         /\ operations' = t.ops /\ twinTold' = t.told
         /\ subscription_state' \in SubscriptionStates /\ subscription_error_count' \in Nat
         /\ amqp_msgr_is_subscribed' \in BOOLEAN
BY DEF Becomes, TwinRecord

\* After callbacks to a messenger that was started, the two agree when the last callbacks said what is true.
LEMMA HeardInv ==
  ASSUME NEW t \in TwinRecord, Account(t.ops, t.told, pending_patches), Live(t), t.ops = operations,
         calls' \in Seq(TwinCall), NEW k \in 0..Len(calls'), NEW m \in 0..Len(calls'),
         IF k = 0 THEN t.seen = amqpState' ELSE calls'[k].call = "state" /\ calls'[k].arg = amqpState',
         \A n \in 1..Len(calls') : n > k => calls'[n].call # "state",
         IF m = 0 THEN t.subscribed = (receiver' = "OPEN")
         ELSE calls'[m].call = "subscription" /\ calls'[m].arg = (receiver' = "OPEN"),
         \A n \in 1..Len(calls') : n > m => calls'[n].call # "subscription",
         Becomes(HearsAll(t, calls')), pending_patches' = pending_patches,
         amqpState' \in MessengerStates, amqpState' = "STOPPED" => sender' = "none" /\ receiver' = "none",
         sender' \in TwinLinks, receiver' \in TwinLinks,
         work' \in {"idle", "patches", "timeouts", "amqp", "destroy"}, requests' \in Nat,
         work' = "destroy" => sender' = "none" /\ receiver' = "none"
  PROVE  /\ TwinShape' /\ TwinAgrees' /\ TwinAccounted' /\ Range(operations') \subseteq Range(operations)
         /\ (\A n \in 1..Len(calls') : calls'[n].call # "send_failed") => operations' = operations
<1> DEFINE list == calls'
           u == HearsAll(t, list)
<1>1. /\ list \in Seq(TwinCall) /\ k \in 0..Len(list) /\ m \in 0..Len(list)
      /\ k = 0 \/ list[k].call = "state"
      /\ \A n \in 1..Len(list) : n > k => list[n].call # "state"
      /\ m = 0 \/ list[m].call = "subscription"
      /\ \A n \in 1..Len(list) : n > m => list[n].call # "subscription"
  OBVIOUS
<1>2. /\ Becomes(u)
      /\ (IF k = 0 THEN t.seen ELSE list[k].arg) = amqpState'
      /\ (IF m = 0 THEN t.subscribed ELSE list[m].arg) = (receiver' = "OPEN")
  OBVIOUS
<1> HIDE DEF list
<1>3. /\ u \in TwinRecord /\ Live(u)
      /\ u.seen = IF k = 0 THEN t.seen ELSE list[k].arg
      /\ u.subscribed = IF m = 0 THEN t.subscribed ELSE list[m].arg
      /\ Range(u.ops) \subseteq Range(t.ops) /\ Account(u.ops, u.told, pending_patches)
      /\ (\A n \in 1..Len(list) : list[n].call # "send_failed") => u.ops = t.ops
  BY <1>1, HearsAllFacts
<1> HIDE DEF u
<1>4. /\ twinState' = u.state /\ amqp_msgr_state' = u.seen /\ amqp_msgr_is_subscribed' = u.subscribed
      /\ operations' = u.ops /\ twinTold' = u.told
      /\ subscription_state' \in SubscriptionStates /\ subscription_error_count' \in Nat
      /\ amqp_msgr_is_subscribed' \in BOOLEAN
  BY <1>2, <1>3, BecomesFacts
<1>5. TwinShape'
  BY <1>4 DEF TwinShape
<1>6. TwinAgrees'
  BY <1>2, <1>3, <1>4 DEF TwinAgrees, Live, MessengerStates
<1>7. TwinAccounted'
  BY <1>3, <1>4 DEF TwinAccounted
<1> QED
  BY <1>3, <1>4, <1>5, <1>6, <1>7 DEF list

-----------------------------------------------------------------------------
(* The steps in which the messenger below calls back *)

\* A twin messenger that works was started, and so was the messenger below it.
LEMMA WorksLive ==
  ASSUME TwinInv, work # "idle" \/ (amqpState # "STOPPED" /\ twinState # "gone")
  PROVE  Live(Twin) /\ twinState \notin {"STOPPED", "gone"}
<1>1. twinState \in {"STARTING", "STARTED", "ERROR"}
  BY DEF TwinInv, TwinAgrees, MessengerStates
<1>2. twinState = "STARTED" => amqp_msgr_state = "STARTED" /\ amqp_msgr_is_subscribed
  BY DEF TwinInv, TwinAgrees
<1> QED
  BY <1>1, <1>2, TwinIsRecord DEF Live

\* The state is set before the messenger below is called.
LEMMA WithState ==
  ASSUME NEW t \in TwinRecord, NEW s \in TwinStates
  PROVE  LET u == [t EXCEPT !.state = s] IN
           /\ u \in TwinRecord /\ u.state = s /\ u.seen = t.seen /\ u.subscribed = t.subscribed
           /\ u.ops = t.ops /\ u.told = t.told
BY DEF TwinRecord

\* The messenger is started.
LEMMA StartInv ==
  ASSUME TwinInv, twin_messenger_start
  PROVE  TwinInv' /\ (QueuedAreOps => QueuedAreOps')
<1> DEFINE t == [Twin EXCEPT !.state = "STARTING"]
<1>1. /\ twinState = "STOPPED" /\ work = "idle"
      /\ amqpState = "STOPPED" /\ amqpState' = "STARTING" /\ calls' = StateCall("STARTING")
      /\ UNCHANGED <<sender, receiver, send_queue, work, pending_patches, atService, requests>>
      /\ Becomes(HearsAll(t, calls'))
  BY DEF twin_messenger_start, amqp_messenger_start, Idle
<1>2. /\ Twin \in TwinRecord /\ "STARTING" \in TwinStates
      /\ Twin.subscribed = amqp_msgr_is_subscribed /\ Twin.ops = operations /\ Twin.told = twinTold
      /\ Account(Twin.ops, Twin.told, pending_patches)
  BY TwinIsRecord DEF TwinStates, MessengerStates
<1>3. t \in TwinRecord /\ t.state = "STARTING" /\ t.subscribed = Twin.subscribed /\ t.ops = Twin.ops /\ t.told = Twin.told
  BY <1>2, WithState
<1> HIDE DEF t
<1>4. Live(t) /\ Account(t.ops, t.told, pending_patches) /\ t.ops = operations
  BY <1>2, <1>3 DEF Live
<1>5. /\ calls' \in Seq(TwinCall) /\ Len(calls') = 1 /\ calls'[1].call = "state" /\ calls'[1].arg = amqpState'
  BY <1>1, <1>2, StateCallFacts
<1>6. t.subscribed = (receiver' = "OPEN")
  BY <1>1, <1>2, <1>3 DEF TwinInv, TwinAgrees
<1>7. /\ amqpState' \in MessengerStates /\ sender' \in TwinLinks /\ receiver' \in TwinLinks
      /\ work' \in {"idle", "patches", "timeouts", "amqp"} /\ requests' \in Nat /\ amqpState' # "STOPPED"
  BY <1>1 DEF TwinInv, TwinShape, MessengerStates
<1>8. \A n \in 1..Len(calls') : n = 1
  BY <1>5
<1>9. TwinShape' /\ TwinAgrees' /\ TwinAccounted' /\ operations' = operations
  <2> DEFINE k == 1
             m == 0
  <2>1. k \in 0..Len(calls') /\ m \in 0..Len(calls')
    BY <1>5
  <2>2. IF k = 0 THEN t.seen = amqpState' ELSE calls'[k].call = "state" /\ calls'[k].arg = amqpState'
    BY <1>5
  <2>3. IF m = 0 THEN t.subscribed = (receiver' = "OPEN")
        ELSE calls'[m].call = "subscription" /\ calls'[m].arg = (receiver' = "OPEN")
    BY <1>6
  <2>4. \A n \in 1..Len(calls') : n > k => calls'[n].call # "state"
    BY <1>8
  <2>5. \A n \in 1..Len(calls') : calls'[n].call # "subscription" /\ calls'[n].call # "send_failed"
    BY <1>5, <1>8
  <2> HIDE DEF k, m
  <2> QED
    BY <1>1, <1>3, <1>4, <1>5, <1>7, <2>1, <2>2, <2>3, <2>4, <2>5, HeardInv
<1>10. TwinNumbered'
  BY <1>1, <1>9 DEF TwinInv, TwinNumbered, Ops
<1>11. QueuedAreOps => QueuedAreOps'
  BY <1>1, <1>9 DEF QueuedAreOps, Ops
<1> QED
  BY <1>9, <1>10, <1>11 DEF TwinInv

\* The links open, fail and close.
LEMMA LinksChangeInv ==
  ASSUME TwinInv, LinksChange
  PROVE  TwinInv' /\ (QueuedAreOps => QueuedAreOps')
<1>1. /\ UNCHANGED <<work, pending_patches, atService, requests, amqpState, send_queue>>
      /\ Becomes(HearsAll(Twin, calls'))
      /\ \/ sender # "none" /\ sender' \in TwinLinks /\ receiver' = receiver /\ calls' = <<>>
         \/ /\ receiver # "none" /\ receiver' \in TwinLinks /\ sender' = sender
            /\ \/ calls' = <<>> /\ (receiver = "OPEN" <=> receiver' = "OPEN")
               \/ \E b \in BOOLEAN : calls' = SubscriptionCall(b) /\ b = (receiver' = "OPEN")
  <2>1. /\ UNCHANGED <<work, pending_patches, atService, requests, amqpState, send_queue>>
        /\ Becomes(HearsAll(Twin, calls'))
    BY DEF LinksChange, Follows, twinRest, on_message_sender_state_changed_callback,
       amqp_on_message_receiver_state_changed_callback
  <2>2. CASE on_message_sender_state_changed_callback
    BY <2>1, <2>2 DEF on_message_sender_state_changed_callback, TwinLinks
  <2>3. CASE amqp_on_message_receiver_state_changed_callback
    BY <2>1, <2>3 DEF amqp_on_message_receiver_state_changed_callback, TwinLinks
  <2> QED
    BY <2>2, <2>3 DEF LinksChange
<1>2. amqpState # "STOPPED" /\ twinState # "gone" /\ work = "idle"
  BY <1>1 DEF TwinInv, TwinAgrees, LinksChange, Idle
<1>3. /\ Twin \in TwinRecord /\ Account(Twin.ops, Twin.told, pending_patches) /\ Twin.ops = operations
      /\ Twin.seen = amqpState /\ Twin.subscribed = (receiver = "OPEN")
  BY TwinIsRecord DEF TwinInv, TwinAgrees
<1>4. Live(Twin)
  BY <1>2, WorksLive
<1>5. /\ amqpState' \in MessengerStates /\ sender' \in TwinLinks /\ receiver' \in TwinLinks
      /\ work' \in {"idle", "patches", "timeouts", "amqp"} /\ requests' \in Nat
  BY <1>1, <1>2 DEF TwinInv, TwinShape, TwinAgrees
<1>6. TwinShape' /\ TwinAgrees' /\ TwinAccounted' /\ operations' = operations
  <2>1. CASE calls' = <<>> /\ (receiver = "OPEN" <=> receiver' = "OPEN")
    <3>1. calls' \in Seq(TwinCall) /\ Len(calls') = 0 /\ 0 \in 0..Len(calls') /\ 1..Len(calls') = {}
      BY <2>1
    <3>2. Twin.seen = amqpState' /\ Twin.subscribed = (receiver' = "OPEN")
      BY <1>1, <1>3, <2>1
    <3> QED
      BY <1>1, <1>2, <1>3, <1>4, <1>5, <3>1, <3>2, HeardInv
  <2>2. CASE \E b \in BOOLEAN : calls' = SubscriptionCall(b) /\ b = (receiver' = "OPEN")
    <3>1. /\ calls' \in Seq(TwinCall) /\ Len(calls') = 1
          /\ calls'[1].call = "subscription" /\ calls'[1].arg = (receiver' = "OPEN")
      BY <2>2, SubscriptionCallFacts
    <3> DEFINE k == 0
               m == 1
    <3>2. k \in 0..Len(calls') /\ m \in 0..Len(calls') /\ \A n \in 1..Len(calls') : n = 1 /\ ~(n > m)
      BY <3>1
    <3>3. IF k = 0 THEN Twin.seen = amqpState' ELSE calls'[k].call = "state" /\ calls'[k].arg = amqpState'
      BY <1>1, <1>3
    <3>4. IF m = 0 THEN Twin.subscribed = (receiver' = "OPEN")
          ELSE calls'[m].call = "subscription" /\ calls'[m].arg = (receiver' = "OPEN")
      BY <3>1
    <3>5. \A n \in 1..Len(calls') : calls'[n].call # "state" /\ calls'[n].call # "send_failed"
      BY <3>1, <3>2
    <3> HIDE DEF k, m
    <3> QED
      BY <1>1, <1>2, <1>3, <1>4, <1>5, <3>1, <3>2, <3>3, <3>4, <3>5, HeardInv
  <2>3. \/ calls' = <<>> /\ (receiver = "OPEN" <=> receiver' = "OPEN")
        \/ \E b \in BOOLEAN : calls' = SubscriptionCall(b) /\ b = (receiver' = "OPEN")
    BY <1>1
  <2> QED
    BY <2>1, <2>2, <2>3
<1>7. TwinNumbered'
  BY <1>1, <1>6 DEF TwinInv, TwinNumbered, Ops
<1>8. QueuedAreOps => QueuedAreOps'
  BY <1>1, <1>6 DEF QueuedAreOps, Ops
<1> QED
  BY <1>6, <1>7, <1>8 DEF TwinInv

\* do_work below, while the messenger is not started.
LEMMA UnstartedInv ==
  ASSUME TwinInv, work = "amqp", WorksUnstarted, Follows, work' = "idle", UNCHANGED <<twinRest, requests>>
  PROVE  TwinInv' /\ (QueuedAreOps => QueuedAreOps')
<1>1. /\ amqpState \in MessengerStates /\ sender \in TwinLinks /\ receiver \in TwinLinks /\ requests \in Nat
      /\ amqpState = "STOPPED" => sender = "none" /\ receiver = "none"
  BY DEF TwinInv, TwinShape, TwinAgrees
<1>2. PICK late \in BOOLEAN :
        LET next == amqp_process_state_changes(late) IN
          /\ next # "STARTED"
          /\ ManagesSender(next) /\ UNCHANGED receiver
          /\ LET created == next = "STARTING" /\ sender = "none" /\ sender' = "none"
                 end == IF created \/ send_error_count >= MaxSendErrors THEN "ERROR" ELSE next IN
               amqpState' = end /\ calls' = StateCall(end)
  BY DEF WorksUnstarted
<1> DEFINE next == amqp_process_state_changes(late)
<1>3. next \in MessengerStates /\ (next = "STOPPED" => amqpState = "STOPPED")
  BY <1>1 DEF amqp_process_state_changes, MessengerStates
<1>4. ManagesSender(next) /\ receiver' = receiver /\ amqpState' \in {"ERROR", next} /\ calls' = StateCall(amqpState')
  BY <1>2
<1> HIDE DEF next
<1>5. sender' \in TwinLinks /\ (next # "STARTING" => sender' = sender)
  BY <1>1, <1>4 DEF ManagesSender, create_message_sender, TwinLinks
<1>6. amqpState' \in MessengerStates /\ (amqpState' = "STOPPED" => sender' = "none" /\ receiver' = "none")
  BY <1>1, <1>3, <1>4, <1>5 DEF MessengerStates
<1>7. UNCHANGED <<pending_patches, atService, send_queue>> /\ Becomes(HearsAll(Twin, calls'))
  BY DEF Follows, twinRest, WorksUnstarted
<1>8. /\ Twin \in TwinRecord /\ Account(Twin.ops, Twin.told, pending_patches) /\ Twin.ops = operations
      /\ Twin.seen = amqpState /\ Twin.subscribed = (receiver = "OPEN")
  BY TwinIsRecord DEF TwinInv, TwinAgrees
<1>9. Live(Twin)
  BY WorksLive
<1>10. /\ calls' \in Seq(TwinCall)
       /\ amqpState' = amqpState => Len(calls') = 0
       /\ amqpState' # amqpState => Len(calls') = 1 /\ calls'[1].call = "state" /\ calls'[1].arg = amqpState'
  BY <1>4, <1>6, StateCallFacts DEF TwinStates
<1>11. TwinShape' /\ TwinAgrees' /\ TwinAccounted' /\ operations' = operations
  <2> DEFINE k == Len(calls')
             m == 0
  <2>1. k \in 0..Len(calls') /\ m \in 0..Len(calls')
    BY <1>10
  <2>2. IF k = 0 THEN Twin.seen = amqpState' ELSE calls'[k].call = "state" /\ calls'[k].arg = amqpState'
    BY <1>8, <1>10
  <2>3. IF m = 0 THEN Twin.subscribed = (receiver' = "OPEN")
        ELSE calls'[m].call = "subscription" /\ calls'[m].arg = (receiver' = "OPEN")
    BY <1>4, <1>8
  <2>4. \A n \in 1..Len(calls') : ~(n > k)
    BY <1>10
  <2>5. \A n \in 1..Len(calls') : calls'[n].call # "subscription" /\ calls'[n].call # "send_failed"
    <3> SUFFICES ASSUME NEW n \in 1..Len(calls')
                 PROVE  calls'[n].call # "subscription" /\ calls'[n].call # "send_failed"
      OBVIOUS
    <3> DEFINE l == Len(calls')
    <3>1. l \in {0, 1} /\ n \in 1..l
      BY <1>10
    <3> HIDE DEF l
    <3>2. l = 1 /\ n = 1
      BY <3>1
    <3>3. amqpState' # amqpState
      BY <1>10, <3>2 DEF l
    <3> QED
      BY <1>10, <3>2, <3>3
  <2>6. work' \in {"idle", "patches", "timeouts", "amqp"} /\ requests' \in Nat /\ receiver' \in TwinLinks
    BY <1>1, <1>4
  <2> HIDE DEF k, m
  <2> QED
    BY <1>5, <1>6, <1>7, <1>8, <1>9, <1>10, <2>1, <2>2, <2>3, <2>4, <2>5, <2>6, HeardInv
<1>12. TwinNumbered'
  BY <1>7, <1>11 DEF TwinInv, TwinNumbered, Ops
<1>13. QueuedAreOps => QueuedAreOps'
  BY <1>7, <1>11 DEF QueuedAreOps, Ops
<1> QED
  BY <1>11, <1>12, <1>13 DEF TwinInv

\* What is left of the queue is handed to the sender.
LEMMA HandedFacts ==
  ASSUME NEW left \in Seq(QueueItem), Sorted(left, OtherIds), NEW list,
         list = [n \in 1..Len(left) |-> [ctx |-> left[n].ctx, handed |-> TRUE]]
  PROVE  /\ list \in Seq(QueueItem) /\ Sorted(list, OtherIds)
         /\ \A m \in Range(list) : m.handed /\ \E n \in Range(left) : m.ctx = n.ctx
<1>1. DOMAIN left = 1..Len(left) /\ Len(left) \in Nat /\ DOMAIN list = 1..Len(left)
  OBVIOUS
<1>2. ASSUME NEW n \in 1..Len(left)
      PROVE  list[n] \in QueueItem /\ list[n].ctx = left[n].ctx /\ list[n].handed /\ left[n] \in QueueItem
  <2>1. left[n] \in QueueItem /\ list[n] = [ctx |-> left[n].ctx, handed |-> TRUE]
    BY <1>1
  <2> QED
    BY <2>1 DEF QueueItem
<1>3. list \in [1..Len(left) -> QueueItem]
  BY <1>1, <1>2
<1>4. list \in Seq(QueueItem)
  BY <1>1, <1>3
<1>5. Sorted(list, OtherIds)
  <2> SUFFICES ASSUME NEW i \in 1..Len(left), NEW j \in 1..Len(left), i < j PROVE <<list[i], list[j]>> \in OtherIds
    BY <1>1 DEF Sorted
  <2>1. <<left[i], left[j]>> \in OtherIds
    BY <1>1 DEF Sorted
  <2> QED
    BY <1>2, <2>1, IdsDiffer
<1>6. ASSUME NEW m \in Range(list) PROVE m.handed /\ \E n \in Range(left) : m.ctx = n.ctx
  <2>1. PICK n \in 1..Len(left) : m = list[n]
    BY <1>1 DEF Range
  <2>2. left[n] \in Range(left)
    BY <1>1 DEF Range
  <2> QED
    BY <1>2, <2>1, <2>2
<1> QED
  BY <1>4, <1>5, <1>6

\* do_work below, while it is started: the queue is handed on, or called back.
LEMMA StartedInv ==
  ASSUME TwinInv, work = "amqp", NEW expired, expired \subseteq Ctxs(Queued), AmqpWorksStarted(expired),
         Follows, work' = "idle", UNCHANGED <<twinRest, requests>>
  PROVE  TwinInv' /\ QueuedAreOps'
<1>1. /\ amqpState \in MessengerStates /\ sender \in TwinLinks /\ receiver \in TwinLinks /\ requests \in Nat
      /\ send_queue \in Seq(QueueItem) /\ Sorted(send_queue, OtherIds)
  BY DEF TwinInv, TwinShape, TwinAgrees, TwinNumbered
<1>2. /\ ManagesReceiver("STARTED") /\ sender' = sender
      /\ UNCHANGED <<pending_patches, atService>> /\ Becomes(HearsAll(Twin, calls'))
  BY DEF AmqpWorksStarted, Follows, twinRest
<1>3. PICK failing \in SUBSET (Ctxs(Queued) \ expired) :
        /\ message_queue_do_work(failing, expired)
        /\ amqpState' = IF send_error_count' >= MaxSendErrors THEN "ERROR" ELSE "STARTED"
        /\ calls' = StateCall("STARTED") \o SendCalls(failing \cup expired)
                    \o (IF amqpState' = "ERROR" THEN <<[call |-> "state", arg |-> "ERROR"]>> ELSE <<>>)
  BY DEF AmqpWorksStarted
<1> DEFINE out == failing \cup expired
           a == StateCall("STARTED")
           b == SendCalls(out)
           c == IF amqpState' = "ERROR" THEN <<[call |-> "state", arg |-> "ERROR"]>> ELSE <<>>
           left == Removing(out)
<1>4. /\ send_queue' = [n \in 1..Len(left) |-> [ctx |-> left[n].ctx, handed |-> TRUE]]
      /\ amqpState' \in {"ERROR", "STARTED"} /\ calls' = (a \o b) \o c
  BY <1>3 DEF message_queue_do_work
<1>5. out \subseteq Ctxs(DOMAIN send_queue)
  BY DEF Ctxs, Queued
<1> HIDE DEF out, left
<1>6. left \in Seq(QueueItem) /\ Sorted(left, OtherIds) /\ Range(left) \subseteq Range(send_queue)
  BY <1>1, RemovingFacts DEF left
<1>7. /\ send_queue' \in Seq(QueueItem) /\ Sorted(send_queue', OtherIds)
      /\ \A m \in Range(send_queue') : m.handed /\ \E n \in Range(left) : m.ctx = n.ctx
  BY <1>4, <1>6, HandedFacts
<1>8. /\ a \in Seq(TwinCall) /\ Len(a) \in {0, 1}
      /\ Len(a) = 0 => amqpState = "STARTED"
      /\ \A n \in 1..Len(a) : a[n].call = "state" /\ a[n].arg = "STARTED"
  <2>1. "STARTED" \in TwinStates
    BY DEF TwinStates, MessengerStates
  <2> QED
    BY <2>1, StateCallFacts
<1>9. /\ b \in Seq(TwinCall) /\ Len(b) \in Nat /\ \A n \in 1..Len(b) : b[n].call = "send_failed"
  <2>1. b \in Seq(TwinCall)
    BY <1>1, <1>5, SendCallsFacts
  <2>2. \A n \in 1..Len(b) : b[n].call = "send_failed"
    BY <1>1, <1>5, SendCallsFacts
  <2> HIDE DEF b
  <2>3. Len(b) \in Nat
    BY <2>1
  <2> QED
    BY <2>1, <2>2, <2>3
<1>10. /\ c \in Seq(TwinCall) /\ \A n \in 1..Len(c) : c[n].call = "state" /\ c[n].arg = "ERROR"
       /\ Len(c) = IF amqpState' = "ERROR" THEN 1 ELSE 0
  <2> DEFINE e == [call |-> "state", arg |-> "ERROR"]
  <2>1. e \in TwinCall /\ e.call = "state" /\ e.arg = "ERROR"
    BY CallsAreKnown DEF TwinStates, MessengerStates
  <2>2. c = IF amqpState' = "ERROR" THEN <<e>> ELSE <<>>
    OBVIOUS
  <2> HIDE DEF e, c
  <2>3. CASE amqpState' = "ERROR"
    <3>1. <<e>> \in Seq(TwinCall) /\ Len(<<e>>) = 1 /\ <<e>>[1] = e
      BY <2>1
    <3> QED
      BY <2>1, <2>2, <2>3, <3>1
  <2>4. CASE amqpState' # "ERROR"
    <3>1. <<>> \in Seq(TwinCall) /\ Len(<<>>) = 0
      OBVIOUS
    <3> QED
      BY <2>2, <2>4, <3>1
  <2> QED
    BY <2>3, <2>4
<1> HIDE DEF a, b, c
<1> DEFINE ab == a \o b
<1>11. /\ ab \in Seq(TwinCall) /\ Len(ab) = Len(a) + Len(b)
       /\ \A n \in 1..Len(a) : ab[n] = a[n]
       /\ \A n \in 1..Len(b) : ab[Len(a) + n] = b[n]
  <2>1. a \in Seq(TwinCall) /\ b \in Seq(TwinCall)
    BY <1>8, <1>9
  <2> QED
    BY <2>1, ConcatElements
<1>12. \A n \in 1..Len(ab) : IF n <= Len(a) THEN ab[n].call = "state" /\ ab[n].arg = "STARTED"
                             ELSE ab[n].call = "send_failed"
  <2> SUFFICES ASSUME NEW n \in 1..Len(ab)
               PROVE  IF n <= Len(a) THEN ab[n].call = "state" /\ ab[n].arg = "STARTED" ELSE ab[n].call = "send_failed"
    OBVIOUS
  <2> HIDE DEF ab
  <2>1. CASE n <= Len(a)
    <3>1. n \in 1..Len(a)
      BY <1>8, <1>11, <2>1
    <3> QED
      BY <1>8, <1>11, <2>1, <3>1
  <2>2. CASE ~(n <= Len(a))
    <3>1. n - Len(a) \in 1..Len(b) /\ Len(a) + (n - Len(a)) = n
      <4>1. Len(a) \in Nat /\ Len(b) \in Nat /\ Len(ab) = Len(a) + Len(b) /\ n \in 1..Len(ab) /\ ~(n <= Len(a))
        BY <1>8, <1>9, <1>11, <2>2
      <4> QED
        BY <4>1
    <3>2. ab[n] = b[n - Len(a)]
      BY <1>11, <3>1
    <3> QED
      BY <1>9, <2>2, <3>1, <3>2
  <2> QED
    BY <2>1, <2>2
<1> HIDE DEF ab
<1>13. /\ calls' \in Seq(TwinCall) /\ Len(calls') = Len(ab) + Len(c) /\ Len(ab) \in Nat /\ Len(c) \in Nat
       /\ \A n \in 1..Len(ab) : calls'[n] = ab[n]
       /\ \A n \in 1..Len(c) : calls'[Len(ab) + n] = c[n]
  <2>1. calls' = ab \o c
    BY <1>4 DEF ab
  <2>2. ab \in Seq(TwinCall) /\ c \in Seq(TwinCall)
    BY <1>10, <1>11
  <2>3. Len(ab) \in Nat /\ Len(c) \in Nat
    BY <2>2
  <2> QED
    BY <2>1, <2>2, <2>3, ConcatElements
<1>14. /\ Twin \in TwinRecord /\ Account(Twin.ops, Twin.told, pending_patches) /\ Twin.ops = operations
       /\ Twin.seen = amqpState /\ Twin.subscribed = (receiver = "OPEN")
  BY TwinIsRecord DEF TwinInv, TwinAgrees
<1>15. Live(Twin)
  BY WorksLive
<1>16. receiver' \in TwinLinks /\ (receiver = "OPEN") = (receiver' = "OPEN")
  BY <1>1, <1>2 DEF ManagesReceiver, amqp_create_message_receiver, TwinLinks
<1> DEFINE k == IF amqpState' = "ERROR" THEN Len(ab) + 1 ELSE Len(a)
           m == 0
<1>17. /\ k \in 0..Len(calls') /\ m \in 0..Len(calls')
  <2> DEFINE x == Len(a)
             y == Len(b)
             z == Len(ab)
             l == Len(calls')
  <2>1. /\ x \in Nat /\ y \in Nat /\ z = x + y /\ l = z + Len(c)
        /\ Len(c) = IF amqpState' = "ERROR" THEN 1 ELSE 0
        /\ k = IF amqpState' = "ERROR" THEN z + 1 ELSE x
    BY <1>8, <1>9, <1>10, <1>11, <1>13
  <2> HIDE DEF x, y, z, l, k
  <2>2. k \in 0..l /\ 0 \in 0..l
    BY <2>1
  <2> QED
    BY <2>2 DEF l
<1>18. IF k = 0 THEN Twin.seen = amqpState' ELSE calls'[k].call = "state" /\ calls'[k].arg = amqpState'
  <2>1. CASE amqpState' = "ERROR"
    <3>1. 1 \in 1..Len(c) /\ k = Len(ab) + 1 /\ k # 0
      BY <1>10, <1>13, <2>1
    <3> QED
      BY <1>10, <1>13, <2>1, <3>1
  <2>2. CASE amqpState' = "STARTED"
    <3>1. k = Len(a)
      BY <2>2
    <3>2. CASE k = 0
      BY <1>8, <1>14, <2>2, <3>1, <3>2
    <3>3. CASE k # 0
      <4>1. k \in 1..Len(ab) /\ k <= Len(a)
        <5> DEFINE x == Len(a)
                   y == Len(b)
                   z == Len(ab)
        <5>1. x \in Nat /\ y \in Nat /\ z = x + y /\ k = x /\ k # 0
          BY <1>8, <1>9, <1>11, <3>1, <3>3
        <5> HIDE DEF x, y, z, k
        <5>2. k \in 1..z /\ k <= x
          BY <5>1
        <5> QED
          BY <5>2 DEF x, z
      <4> QED
        BY <1>12, <1>13, <2>2, <3>3, <4>1
    <3> QED
      BY <3>2, <3>3
  <2> QED
    BY <1>4, <2>1, <2>2
<1>19. ASSUME NEW n \in 1..Len(calls')
       PROVE  calls'[n].call # "subscription" /\ (n > k => calls'[n].call # "state")
  <2>1. CASE n <= Len(ab)
    <3>1. n \in 1..Len(ab) /\ calls'[n] = ab[n]
      BY <1>13, <2>1
    <3>2. calls'[n].call # "subscription"
      BY <1>12, <3>1
    <3>3. n > k => ~(n <= Len(a))
      BY <1>8, <1>13, <2>1
    <3> QED
      BY <1>12, <3>1, <3>2, <3>3
  <2>2. CASE ~(n <= Len(ab))
    <3>1. n - Len(ab) \in 1..Len(c) /\ Len(ab) + (n - Len(ab)) = n
      BY <1>13, <2>2
    <3>2. amqpState' = "ERROR" /\ n = Len(ab) + 1
      BY <1>10, <1>13, <2>2, <3>1
    <3>3. calls'[n] = c[n - Len(ab)]
      BY <1>13, <3>1
    <3>4. ~(n > k)
      BY <1>13, <3>2
    <3> QED
      BY <1>10, <3>1, <3>3, <3>4
  <2> QED
    BY <2>1, <2>2
<1>20. IF m = 0 THEN Twin.subscribed = (receiver' = "OPEN")
       ELSE calls'[m].call = "subscription" /\ calls'[m].arg = (receiver' = "OPEN")
  BY <1>14, <1>16
<1>21. /\ amqpState' \in MessengerStates /\ amqpState' # "STOPPED" /\ sender' \in TwinLinks
       /\ work' \in {"idle", "patches", "timeouts", "amqp"} /\ requests' \in Nat
  BY <1>1, <1>2, <1>4 DEF MessengerStates
<1> HIDE DEF k, m
<1>22. TwinShape' /\ TwinAgrees' /\ TwinAccounted' /\ Range(operations') \subseteq Range(operations)
  BY <1>2, <1>13, <1>14, <1>15, <1>16, <1>17, <1>18, <1>19, <1>20, <1>21, HeardInv
<1>23. TwinNumbered'
  <2>1. \A m1 \in Range(send_queue') : \E n \in Range(send_queue) : m1.ctx = n.ctx
    BY <1>6, <1>7
  <2> QED
    BY <1>2, <1>7, <1>22, <2>1, NumberedShrinks DEF TwinInv
<1>24. QueuedAreOps'
  BY <1>7 DEF QueuedAreOps
<1> QED
  BY <1>22, <1>23, <1>24 DEF TwinInv

-----------------------------------------------------------------------------
(* Stop and destroy *)

\* The callbacks of a messenger below that stops: that it stops, that an open receiver closed, and how it ended.
StopsAs(list, open) ==
  /\ Len(list) = IF open THEN 3 ELSE 2
  /\ list[1].call = "state" /\ list[1].arg = "STOPPING"
  /\ open => list[2].call = "subscription" /\ list[2].arg = FALSE
  /\ list[Len(list)].call = "state" /\ list[Len(list)].arg \in {"STOPPED", "ERROR"}

\* A messenger that stops hears them, and ends in the same state as the messenger below.
LEMMA StopHeard ==
  ASSUME NEW t \in TwinRecord, t.state = "STOPPING", NEW list, StopsAs(list, t.subscribed)
  PROVE  LET u == HearsAll(t, list)
             end == list[Len(list)].arg IN
           u \in TwinRecord /\ u.state = end /\ u.seen = end /\ u.subscribed = FALSE /\ u.ops = t.ops /\ u.told = t.told
<1> DEFINE l == Len(list)
           end == list[l].arg
<1>1. /\ Len(list) \in Nat /\ Len(list) = l /\ l \in {2, 3} /\ list[l].call = "state" /\ list[l].arg = end
      /\ list[1].call = "state" /\ list[1].arg = "STOPPING" /\ end \in {"STOPPED", "ERROR"}
      /\ l = 2 => ~t.subscribed
      /\ l = 3 => list[2].call = "subscription" /\ list[2].arg = FALSE
  BY DEF StopsAs
<1> HIDE DEF l, end
<1>2. PICK f : /\ f[0] = t
               /\ \A n \in 1..Len(list) : f[n] = Hears(f[n - 1], list[n])
               /\ HearsAll(t, list) = f[Len(list)]
  BY <1>1, HeardInTurn
<1> DEFINE a == f[1]
           b == f[2]
           c == f[3]
<1>3. /\ a = Hears(t, list[1]) /\ b = Hears(a, list[2])
      /\ l = 3 => c = Hears(b, list[3])
      /\ HearsAll(t, list) = IF l = 2 THEN b ELSE c
  <2>1. 1 \in 1..Len(list) /\ 2 \in 1..Len(list) /\ (l = 3 => 3 \in 1..Len(list))
    BY <1>1
  <2>2. 1 - 1 = 0 /\ 2 - 1 = 1 /\ 3 - 1 = 2
    OBVIOUS
  <2> QED
    BY <1>1, <1>2, <2>1, <2>2
<1> HIDE DEF a, b, c
<1>4. {"STOPPED", "STOPPING", "ERROR"} \subseteq TwinStates /\ FALSE \in BOOLEAN /\ t.subscribed \in BOOLEAN
      /\ end \in TwinStates
  BY <1>1 DEF TwinStates, MessengerStates, TwinRecord
<1>5. /\ a \in TwinRecord /\ a.seen = "STOPPING" /\ a.subscribed = t.subscribed /\ a.ops = t.ops /\ a.told = t.told
      /\ a.state = "STOPPING"
  <2>1. a = on_amqp_messenger_state_changed_callback(t, "STOPPING")
    BY <1>1, <1>3 DEF Hears
  <2> QED
    BY <1>4, <2>1, StateChangedFacts
<1>6. CASE l = 2
  <2>1. b = on_amqp_messenger_state_changed_callback(a, end)
    BY <1>1, <1>3, <1>6 DEF Hears
  <2>2. b \in TwinRecord /\ b.seen = end /\ b.subscribed = a.subscribed /\ b.ops = a.ops /\ b.told = a.told
    <3>1. a \in TwinRecord /\ end \in TwinStates
      BY <1>4, <1>5
    <3> QED
      BY <2>1, <3>1, StateChangedFacts
  <2>3. b.state = CASE end = "STOPPING" -> "STOPPING"
                    [] end = "STOPPED" -> IF a.subscribed THEN "STOPPING" ELSE "STOPPED"
                    [] OTHER -> "ERROR"
    <3>1. a \in TwinRecord /\ a.state = "STOPPING" /\ end \in TwinStates
      BY <1>4, <1>5
    <3> QED
      BY <2>1, <3>1, StateChangedFacts
  <2>4. b.state = end
    BY <1>1, <1>5, <1>6, <2>3
  <2>5. t.subscribed = FALSE
    BY <1>1, <1>4, <1>6
  <2> QED
    BY <1>3, <1>5, <1>6, <2>2, <2>4, <2>5 DEF end, l
<1>7. CASE l = 3
  <2>1. b = on_amqp_messenger_subscription_changed_callback(a, FALSE)
    BY <1>1, <1>3, <1>7 DEF Hears
  <2>2. /\ b \in TwinRecord /\ b.seen = "STOPPING" /\ b.subscribed = FALSE /\ b.ops = a.ops /\ b.told = a.told
        /\ b.state = "STOPPING"
    BY <1>4, <1>5, <2>1, SubscriptionChangedFacts
  <2>3. c = on_amqp_messenger_state_changed_callback(b, end)
    BY <1>1, <1>3, <1>7 DEF Hears
  <2>4. c \in TwinRecord /\ c.seen = end /\ c.subscribed = b.subscribed /\ c.ops = b.ops /\ c.told = b.told
    <3>1. b \in TwinRecord /\ end \in TwinStates
      BY <1>4, <2>2
    <3> QED
      BY <2>3, <3>1, StateChangedFacts
  <2>5. c.state = CASE end = "STOPPING" -> "STOPPING"
                    [] end = "STOPPED" -> IF b.subscribed THEN "STOPPING" ELSE "STOPPED"
                    [] OTHER -> "ERROR"
    <3>1. b \in TwinRecord /\ b.state = "STOPPING" /\ end \in TwinStates
      BY <1>4, <2>2
    <3> QED
      BY <2>3, <3>1, StateChangedFacts
  <2>6. c.state = end
    BY <1>1, <2>2, <2>5
  <2> QED
    BY <1>3, <1>5, <1>7, <2>2, <2>4, <2>6 DEF end, l
<1> QED
  BY <1>1, <1>6, <1>7

\* The callbacks of a stop of the messenger below.
StopCalls(end) ==
  StateCall("STOPPING") \o (IF receiver = "OPEN" THEN SubscriptionCall(FALSE) ELSE <<>>)
    \o <<[call |-> "state", arg |-> end]>>

\* They are the callbacks that AmqpMessenger makes when it stops.
LEMMA StopCallsFacts ==
  ASSUME NEW end \in {"STOPPED", "ERROR"}, amqpState \in MessengerStates
  PROVE  LET list == StopCalls(end) IN
           StopsAs(list, receiver = "OPEN") /\ list[Len(list)].arg = end /\ list \in Seq(TwinCall)
<1> DEFINE c == [call |-> "state", arg |-> "STOPPING"]
           d == [call |-> "subscription", arg |-> FALSE]
           e == [call |-> "state", arg |-> end]
<1>1. StateCall("STOPPING") = <<c>> /\ SubscriptionCall(FALSE) = <<d>>
  BY DEF StateCall, SubscriptionCall, MessengerStates
<1>2. /\ c.call = "state" /\ c.arg = "STOPPING" /\ d.call = "subscription" /\ d.arg = FALSE
      /\ e.call = "state" /\ e.arg = end
  OBVIOUS
<1> HIDE DEF c, d, e
<1> DEFINE S == {c, d, e}
           x == <<c>>
           y == IF receiver = "OPEN" THEN <<d>> ELSE <<>>
           z == <<e>>
<1>3. c \in S /\ d \in S /\ e \in S
  OBVIOUS
<1>4. S \subseteq TwinCall
  BY DEF TwinCall, TwinStates, MessengerStates, c, d, e
<1> HIDE DEF S
<1>5. /\ x \in Seq(S) /\ Len(x) = 1 /\ x[1] = c
      /\ z \in Seq(S) /\ Len(z) = 1 /\ z[1] = e
  BY <1>3
<1>6. /\ y \in Seq(S) /\ Len(y) = IF receiver = "OPEN" THEN 1 ELSE 0
      /\ receiver = "OPEN" => y[1] = d
  <2>1. <<d>> \in Seq(S) /\ Len(<<d>>) = 1 /\ <<d>>[1] = d
    BY <1>3
  <2>2. <<>> \in Seq(S) /\ Len(<<>>) = 0
    OBVIOUS
  <2> QED
    BY <2>1, <2>2
<1>7. StopCalls(end) = (x \o y) \o z
  BY <1>1 DEF StopCalls, e
<1> HIDE DEF x, y, z
<1> DEFINE xy == x \o y
           list == xy \o z
<1>8. /\ xy \in Seq(S) /\ Len(xy) = Len(x) + Len(y) /\ Len(x) \in Nat /\ Len(y) \in Nat
      /\ \A j \in 1..Len(x) : xy[j] = x[j]
      /\ \A j \in 1..Len(y) : xy[Len(x) + j] = y[j]
  <2>1. x \in Seq(S) /\ y \in Seq(S)
    BY <1>5, <1>6
  <2> QED
    BY <2>1, ConcatElements
<1> HIDE DEF xy
<1>9. /\ list \in Seq(S) /\ Len(list) = Len(xy) + Len(z) /\ Len(xy) \in Nat
      /\ \A j \in 1..Len(xy) : list[j] = xy[j]
      /\ \A j \in 1..Len(z) : list[Len(xy) + j] = z[j]
  <2>1. xy \in Seq(S) /\ z \in Seq(S)
    BY <1>5, <1>8
  <2> QED
    BY <2>1, ConcatElements
<1> HIDE DEF list
<1>10. list \in Seq(TwinCall)
  BY <1>9, <1>4
<1>11. CASE receiver = "OPEN"
  <2>1. Len(x) = 1 /\ Len(y) = 1 /\ Len(xy) = 2 /\ Len(z) = 1 /\ Len(list) = 3
    BY <1>5, <1>6, <1>8, <1>9, <1>11
  <2>2. xy[1] = c /\ xy[2] = d
    BY <1>5, <1>6, <1>8, <1>11, <2>1
  <2>3. list[1] = c /\ list[2] = d /\ list[3] = e
    BY <1>5, <1>9, <2>1, <2>2
  <2> QED
    BY <1>2, <1>7, <1>11, <1>10, <2>1, <2>3 DEF StopsAs, list, xy
<1>12. CASE receiver # "OPEN"
  <2>1. Len(x) = 1 /\ Len(y) = 0 /\ Len(xy) = 1 /\ Len(z) = 1 /\ Len(list) = 2
    BY <1>5, <1>6, <1>8, <1>9, <1>12
  <2>2. xy[1] = c
    BY <1>5, <1>8, <2>1
  <2>3. list[1] = c /\ list[2] = e
    BY <1>5, <1>9, <2>1, <2>2
  <2> QED
    BY <1>2, <1>7, <1>12, <1>10, <2>1, <2>3 DEF StopsAs, list, xy
<1> QED
  BY <1>11, <1>12

\* twin_messenger_stop: either both messengers are stopped after it, or both report an error.
LEMMA StopInv ==
  ASSUME TwinInv, twin_messenger_stop
  PROVE  TwinInv' /\ (QueuedAreOps => QueuedAreOps')
<1> DEFINE s == [Twin EXCEPT !.state = "STOPPING"]
           t == HearsAll(s, calls')
           u == IF amqpState' = "ERROR" THEN [t EXCEPT !.state = "ERROR"]
                ELSE IF subscription_state = "UNSUBSCRIBE" THEN t ELSE [t EXCEPT !.sub = "GET"]
<1>1. /\ work = "idle" /\ twinState # "gone" /\ twinState # "STOPPED"
      /\ amqp_messenger_stop /\ Becomes(u) /\ atService' = {}
      /\ UNCHANGED <<work, pending_patches, requests>>
  BY DEF twin_messenger_stop, Idle
<1>2. PICK end \in {"STOPPED", "ERROR"} :
        /\ amqpState' = end
        /\ calls' = StopCalls(end)
  BY <1>1 DEF amqp_messenger_stop, StopCalls
<1>3. sender' = "none" /\ receiver' = "none" /\ send_queue' = Removing(Ctxs(Handed))
  BY <1>1 DEF amqp_messenger_stop, destroy_message_sender, amqp_destroy_message_receiver
<1>4. /\ Twin \in TwinRecord /\ Twin.subscribed = (receiver = "OPEN") /\ Twin.ops = operations /\ Twin.told = twinTold
      /\ Account(Twin.ops, Twin.told, pending_patches) /\ amqpState \in MessengerStates
  BY TwinIsRecord DEF TwinInv, TwinAgrees
<1>5. /\ s \in TwinRecord /\ s.state = "STOPPING" /\ s.subscribed = Twin.subscribed /\ s.ops = Twin.ops /\ s.told = Twin.told
  BY <1>4, WithState DEF TwinStates
<1> HIDE DEF s
<1> DEFINE list == StopCalls(end)
<1>6. StopsAs(list, receiver = "OPEN") /\ list[Len(list)].arg = end
  BY <1>4, StopCallsFacts
<1>7. s.subscribed = (receiver = "OPEN")
  BY <1>4, <1>5
<1> HIDE DEF list
<1>8. HearsAll(s, list) \in TwinRecord /\ HearsAll(s, list).state = end /\ HearsAll(s, list).seen = end
      /\ HearsAll(s, list).subscribed = FALSE /\ HearsAll(s, list).ops = s.ops /\ HearsAll(s, list).told = s.told
  BY <1>5, <1>6, <1>7, StopHeard
<1>9. t \in TwinRecord /\ t.state = end /\ t.seen = end /\ t.subscribed = FALSE /\ t.ops = s.ops /\ t.told = s.told
  BY <1>2, <1>8 DEF list
<1> HIDE DEF t
<1>10. /\ u \in TwinRecord /\ u.state = end /\ u.seen = end /\ u.subscribed = FALSE /\ u.ops = t.ops /\ u.told = t.told
  BY <1>2, <1>9 DEF TwinRecord, SubscriptionStates
<1> HIDE DEF u
<1>11. /\ twinState' = end /\ amqp_msgr_state' = end /\ amqp_msgr_is_subscribed' = FALSE
       /\ operations' = operations /\ twinTold' = twinTold
       /\ subscription_state' \in SubscriptionStates /\ subscription_error_count' \in Nat
  BY <1>1, <1>4, <1>5, <1>9, <1>10, BecomesFacts
<1>12. TwinShape'
  BY <1>1, <1>3, <1>11 DEF TwinInv, TwinShape, TwinLinks
<1>13. TwinAgrees'
  BY <1>1, <1>2, <1>3, <1>11 DEF TwinAgrees, MessengerStates
<1>14. TwinAccounted'
  BY <1>1, <1>4, <1>11 DEF TwinAccounted
<1>15. /\ send_queue' \in Seq(QueueItem) /\ Sorted(send_queue', OtherIds)
       /\ Range(send_queue') \subseteq Range(send_queue)
  BY <1>3, RemovingFacts DEF TwinInv, TwinNumbered
<1>16. TwinNumbered'
  BY <1>1, <1>11, <1>15, NumberedShrinks DEF TwinInv
<1>17. QueuedAreOps => QueuedAreOps'
  BY <1>11, <1>15 DEF QueuedAreOps, Ops
<1> QED
  BY <1>12, <1>13, <1>14, <1>16, <1>17 DEF TwinInv

\* Destroyed without having been stopped, it hears how the messenger below stops, and is started no more.
LEMMA DestroyStopsInv ==
  ASSUME TwinInv, twin_messenger_destroy
  PROVE  TwinInv' /\ (QueuedAreOps => QueuedAreOps')
<1>1. /\ work = "idle" /\ twinState # "gone" /\ work' = "destroy" /\ atService' = {}
      /\ amqp_messenger_stop /\ Becomes(HearsAll(Twin, calls')) /\ UNCHANGED <<pending_patches, requests>>
  BY DEF twin_messenger_destroy, Idle, Follows
<1>2. PICK end \in {"STOPPED", "ERROR"} : amqpState' = end /\ calls' = StopCalls(end)
  BY <1>1 DEF amqp_messenger_stop, StopCalls
<1>3. /\ amqpState # "STOPPED" /\ sender' = "none" /\ receiver' = "none" /\ send_queue' = Removing(Ctxs(Handed))
  BY <1>1 DEF amqp_messenger_stop, destroy_message_sender, amqp_destroy_message_receiver
<1>4. /\ Twin \in TwinRecord /\ Account(Twin.ops, Twin.told, pending_patches) /\ Twin.ops = operations
      /\ Twin.subscribed = (receiver = "OPEN") /\ amqpState \in MessengerStates /\ requests \in Nat
  BY TwinIsRecord DEF TwinInv, TwinAgrees, TwinShape
<1>5. Live(Twin)
  BY <1>1, <1>3, WorksLive
<1>6. /\ StopsAs(calls', receiver = "OPEN") /\ calls'[Len(calls')].arg = end /\ calls' \in Seq(TwinCall)
  BY <1>2, <1>4, StopCallsFacts
<1> DEFINE l == Len(calls')
           m == IF receiver = "OPEN" THEN 2 ELSE 0
<1>7. /\ l = IF receiver = "OPEN" THEN 3 ELSE 2
      /\ calls'[1].call = "state" /\ calls'[l].call = "state" /\ calls'[l].arg = end
      /\ receiver = "OPEN" => calls'[2].call = "subscription" /\ calls'[2].arg = FALSE
  BY <1>6 DEF StopsAs
<1>8. l \in 0..Len(calls') /\ m \in 0..Len(calls') /\ \A n \in 1..Len(calls') : ~(n > l)
  BY <1>7
<1>9. calls'[l].call = "state" /\ calls'[l].arg = amqpState' /\ l # 0
  BY <1>2, <1>7
<1>10. IF m = 0 THEN Twin.subscribed = (receiver' = "OPEN")
       ELSE calls'[m].call = "subscription" /\ calls'[m].arg = (receiver' = "OPEN")
  <2>1. (receiver' = "OPEN") = FALSE
    BY <1>3
  <2>2. CASE receiver = "OPEN"
    <3>1. m = 2
      BY <2>2
    <3>2. calls'[2].call = "subscription" /\ calls'[2].arg = FALSE
      BY <1>7, <2>2
    <3> HIDE DEF m
    <3>3. calls'[m].call = "subscription" /\ calls'[m].arg = FALSE /\ m # 0
      BY <3>1, <3>2
    <3> QED
      BY <2>1, <3>3
  <2>3. CASE receiver # "OPEN"
    <3>1. m = 0 /\ Twin.subscribed = FALSE
      BY <1>4, <2>3
    <3> HIDE DEF m
    <3> QED
      BY <2>1, <3>1
  <2> QED
    BY <2>2, <2>3
<1>11. \A n \in 1..Len(calls') : /\ n > m => calls'[n].call # "subscription"
                                /\ calls'[n].call # "send_failed"
  <2> SUFFICES ASSUME NEW n \in 1..l
               PROVE  (n > m => calls'[n].call # "subscription") /\ calls'[n].call # "send_failed"
    OBVIOUS
  <2>1. CASE receiver = "OPEN"
    <3>1. l = 3 /\ m = 2 /\ (n = 1 \/ n = 2 \/ n = 3)
      BY <1>7, <2>1
    <3> QED
      BY <1>7, <2>1, <3>1
  <2>2. CASE receiver # "OPEN"
    <3>1. l = 2 /\ m = 0 /\ (n = 1 \/ n = 2)
      BY <1>7, <2>2
    <3> QED
      BY <1>7, <2>2, <3>1
  <2> QED
    BY <2>1, <2>2
<1>12. /\ amqpState' \in MessengerStates /\ sender' \in TwinLinks /\ receiver' \in TwinLinks
       /\ work' \in {"idle", "patches", "timeouts", "amqp", "destroy"} /\ requests' \in Nat
  BY <1>1, <1>2, <1>3, <1>4 DEF MessengerStates, TwinLinks
<1> HIDE DEF l, m
<1>13. TwinShape' /\ TwinAgrees' /\ TwinAccounted' /\ operations' = operations
  BY <1>1, <1>3, <1>4, <1>5, <1>6, <1>8, <1>9, <1>10, <1>11, <1>12, HeardInv
<1>14. /\ send_queue' \in Seq(QueueItem) /\ Sorted(send_queue', OtherIds)
       /\ Range(send_queue') \subseteq Range(send_queue)
  BY <1>3, RemovingFacts DEF TwinInv, TwinNumbered
<1>15. TwinNumbered'
  BY <1>1, <1>13, <1>14, NumberedShrinks DEF TwinInv
<1>16. QueuedAreOps => QueuedAreOps'
  BY <1>13, <1>14 DEF QueuedAreOps, Ops
<1> QED
  BY <1>13, <1>15, <1>16 DEF TwinInv

\* And then whoever waits is told, and none twice.
LEMMA DestroyInv ==
  ASSUME TwinInv, internal_twin_messenger_destroy
  PROVE  TwinInv' /\ (QueuedAreOps => QueuedAreOps')
<1> DEFINE some == (Ctxs(Queued) \cap Ops) \cup {op \in Ops : op.type = "PATCH"}
           S == Range(pending_patches) \cup UNION {Caller(op) : op \in some}
<1>1. /\ work = "destroy" \/ amqpState = "STOPPED"
      /\ work' = "idle" /\ twinTold' = TellTwin(twinTold, S, "failed")
      /\ operations' = <<>> /\ pending_patches' = <<>> /\ send_queue' = <<>> /\ twinState' = "gone"
      /\ UNCHANGED <<amqpState, sender, receiver, amqp_msgr_state, amqp_msgr_is_subscribed,
                     subscription_state, subscription_error_count, atService, requests>>
  BY DEF internal_twin_messenger_destroy, Destroys
<1>2. Account(operations, twinTold, pending_patches)
  BY DEF TwinInv, TwinAccounted
<1>3. /\ twinTold \in [TwinCallers -> TwinStatuses] /\ \A c \in TwinCallers : twinTold[c] # "twice"
      /\ \A o \in Ops : \A c \in Caller(o) : twinTold[c] = "held"
      /\ \A p \in Range(pending_patches) : twinTold[p] = "held"
      /\ \A p \in TwinPatches : twinTold[p] = "held" => p \in Range(pending_patches) \/ \E o \in Ops : p \in Caller(o)
  BY <1>2 DEF Account, Ops
<1>4. some \subseteq Ops
  OBVIOUS
<1>5. \A c \in S : twinTold[c] = "held"
  BY <1>3, <1>4
<1>6. \A p \in TwinPatches : twinTold[p] = "held" => p \in S
  <2> SUFFICES ASSUME NEW p \in TwinPatches, twinTold[p] = "held", p \notin Range(pending_patches) PROVE p \in S
    OBVIOUS
  <2>1. PICK o \in Ops : p \in Caller(o)
    BY <1>3
  <2>2. p # 0
    BY PatchesAreNumbers
  <2>3. o.type = "PATCH"
    BY <2>1, <2>2 DEF Caller
  <2> QED
    BY <2>1, <2>3
<1> HIDE DEF S, some
<1>7. /\ twinTold' \in [TwinCallers -> TwinStatuses]
      /\ \A c \in TwinCallers \ S : twinTold'[c] = twinTold[c]
      /\ \A c \in TwinCallers \cap S : twinTold[c] = "held" => twinTold'[c] = "failed"
  BY <1>1, <1>3, TellTwinFacts
<1>8. \A c \in TwinCallers : twinTold'[c] # "twice"
  BY <1>3, <1>5, <1>7
<1>9. \A p \in TwinPatches : twinTold'[p] # "held"
  BY <1>5, <1>6, <1>7 DEF TwinCallers
<1>10. Range(<<>>) = {} /\ \A R : Sorted(<<>>, R)
  BY DEF Range, Sorted
<1>11. TwinAccounted'
  BY <1>1, <1>7, <1>8, <1>9, <1>10 DEF TwinAccounted, Account
<1>12. TwinShape' /\ TwinAgrees'
  BY <1>1 DEF TwinInv, TwinShape, TwinAgrees
<1>13. TwinNumbered'
  BY <1>1, <1>10 DEF TwinInv, TwinNumbered, Ops
<1>14. QueuedAreOps'
  BY <1>1, <1>10 DEF QueuedAreOps
<1> QED
  BY <1>11, <1>12, <1>13, <1>14 DEF TwinInv

-----------------------------------------------------------------------------
(* Timeouts and answers *)

\* The oldest reports and operations are given up: each of their callers is told.
LEMMA ExpiryInv ==
  ASSUME TwinInv, process_timeouts, ~(Becomes([Twin EXCEPT !.state = "ERROR"]) /\ UNCHANGED pending_patches)
  PROVE  TwinInv' /\ (OutagesShort /\ QueuedAreOps => QueuedAreOps')
<1>1. PICK i \in 0..Len(pending_patches), j \in 0..Len(operations) :
        /\ OutagesShort => Range(SubSeq(operations, 1, j)) \cap Ctxs(Queued) = {}
        /\ pending_patches' = SubSeq(pending_patches, i + 1, Len(pending_patches))
        /\ Becomes(ExpireAll([Twin EXCEPT !.told = TellTwin(twinTold, {pending_patches[n] : n \in 1..i}, "failed")],
                             SubSeq(operations, 1, j)))
  BY DEF process_timeouts
<1>2. /\ work = "timeouts" /\ work' = "amqp"
      /\ UNCHANGED <<amqpState, sender, receiver, send_queue, atService, requests>>
  BY DEF process_timeouts, amqpLinks
<1> DEFINE gone == {pending_patches[n] : n \in 1..i}
           answers == TellTwin(twinTold, gone, "failed")
           t == [Twin EXCEPT !.told = answers]
           old == SubSeq(operations, 1, j)
           u == ExpireAll(t, old)
<1>3. /\ operations \in Seq(TwinOp) /\ Sorted(operations, Differ)
      /\ pending_patches \in Seq(TwinPatches) /\ Sorted(pending_patches, Apart)
      /\ Account(operations, twinTold, pending_patches)
  BY DEF TwinInv, TwinAccounted, Account
<1>4. /\ pending_patches' \in Seq(TwinPatches) /\ Sorted(pending_patches', Apart)
      /\ Range(pending_patches') = {pending_patches[n] : n \in (i + 1)..Len(pending_patches)}
  BY <1>1, <1>3, RestInOrder
<1>5. gone \subseteq Range(pending_patches) /\ Range(pending_patches') = Range(pending_patches) \ gone
  <2> DEFINE k == Len(pending_patches)
  <2>1. /\ k \in Nat /\ i \in Nat /\ i <= k /\ DOMAIN pending_patches = 1..k
        /\ \A n \in 1..k : pending_patches[n] \in TwinPatches
    BY <1>3
  <2>2. \A n \in 1..k, m \in 1..k : n < m => <<pending_patches[n], pending_patches[m]>> \in Apart
    BY <1>3, <2>1 DEF Sorted
  <2>3. \A n \in 1..k, m \in 1..k : n < m => pending_patches[n] # pending_patches[m]
    BY <2>1, <2>2, ApartSays
  <2>4. Range(pending_patches) = {pending_patches[n] : n \in 1..k}
    BY <2>1 DEF Range
  <2>5. Range(pending_patches') = {pending_patches[n] : n \in (i + 1)..k}
    BY <1>4
  <2> HIDE DEF k
  <2>6. /\ 1..i \subseteq 1..k /\ (i + 1)..k \subseteq 1..k
        /\ \A n \in 1..k : n \in 1..i \/ n \in (i + 1)..k
        /\ \A n \in 1..i, m \in (i + 1)..k : n < m
    BY <2>1
  <2> QED
    BY <2>3, <2>4, <2>5, <2>6
<1> HIDE DEF gone
<1>6. Account(operations, answers, pending_patches')
  BY <1>3, <1>4, <1>5, AccountDropped
<1>7. answers \in [TwinCallers -> TwinStatuses]
  BY <1>6 DEF Account
<1> HIDE DEF answers
<1>8. /\ Twin \in TwinRecord /\ Twin.state = twinState /\ Twin.seen = amqp_msgr_state
      /\ Twin.subscribed = amqp_msgr_is_subscribed /\ Twin.ops = operations
  BY TwinIsRecord
<1>9. /\ t \in TwinRecord /\ t.state = twinState /\ t.seen = amqp_msgr_state
      /\ t.subscribed = amqp_msgr_is_subscribed /\ t.ops = operations /\ t.told = answers
  BY <1>7, <1>8 DEF TwinRecord
<1> HIDE DEF t
<1>10. old \in Seq(TwinOp) /\ Sorted(old, Differ) /\ Range(old) \subseteq Range(operations)
  <2> DEFINE k == Len(operations)
  <2>1. /\ k \in Nat /\ j \in Nat /\ j <= k /\ DOMAIN operations = 1..k
        /\ \A n \in 1..k : operations[n] \in TwinOp
    BY <1>3
  <2>2. old \in Seq(TwinOp) /\ Len(old) = j /\ DOMAIN old = 1..j /\ \A n \in 1..j : old[n] = operations[n]
    BY <1>3, <2>1
  <2> HIDE DEF old, k
  <2>3. \A n \in 1..j : n \in 1..k
    BY <2>1
  <2>4. Sorted(old, Differ)
    BY <1>3, <2>1, <2>2, <2>3 DEF Sorted
  <2>5. Range(old) \subseteq Range(operations)
    BY <2>1, <2>2, <2>3 DEF Range
  <2> QED
    BY <2>2, <2>4, <2>5
<1>11. Becomes(u) /\ (OutagesShort => Range(old) \cap Ctxs(Queued) = {})
  BY <1>1 DEF t, answers, gone
<1> HIDE DEF old
<1>12. /\ u \in TwinRecord
       /\ u.state = t.state /\ u.seen = t.seen /\ u.subscribed = t.subscribed
       /\ Range(u.ops) = Range(t.ops) \ Range(old) /\ Account(u.ops, u.told, pending_patches')
  <2>1. Account(t.ops, t.told, pending_patches') /\ Range(old) \subseteq Range(t.ops)
    BY <1>6, <1>9, <1>10
  <2>2. t \in TwinRecord /\ old \in Seq(TwinOp) /\ Sorted(old, Differ)
    BY <1>9, <1>10
  <2> QED
    BY <2>1, <2>2, ExpireAllFacts
<1> HIDE DEF u
<1>13. /\ twinState' = twinState /\ amqp_msgr_state' = amqp_msgr_state
       /\ amqp_msgr_is_subscribed' = amqp_msgr_is_subscribed
       /\ Range(operations') = Range(operations) \ Range(old) /\ operations' = u.ops /\ twinTold' = u.told
       /\ subscription_state' \in SubscriptionStates /\ subscription_error_count' \in Nat
       /\ amqp_msgr_is_subscribed' \in BOOLEAN
  BY <1>9, <1>11, <1>12, BecomesFacts
<1>14. TwinShape'
  BY <1>2, <1>13 DEF TwinInv, TwinShape
<1>15. TwinAgrees'
  BY <1>2, <1>13 DEF TwinInv, TwinAgrees
<1>16. TwinAccounted'
  BY <1>12, <1>13 DEF TwinAccounted
<1>17. TwinNumbered'
  <2>1. /\ send_queue' \in Seq(QueueItem) /\ Sorted(send_queue', OtherIds) /\ TwinNumbered
        /\ \A m \in Range(send_queue') : \E n \in Range(send_queue) : m.ctx = n.ctx
    BY <1>2 DEF TwinInv, TwinNumbered
  <2> QED
    BY <1>2, <1>13, <2>1, NumberedShrinks
<1>18. OutagesShort /\ QueuedAreOps => QueuedAreOps'
  <2> SUFFICES ASSUME OutagesShort, QueuedAreOps, NEW m \in Range(send_queue), ~m.handed PROVE m.ctx \in Ops'
    BY <1>2 DEF QueuedAreOps
  <2>1. m.ctx \in Ops
    BY DEF QueuedAreOps
  <2>2. m.ctx \in Ctxs(Queued)
    BY DEF Ctxs, Queued, Handed, Range
  <2> QED
    BY <1>11, <1>13, <2>1, <2>2 DEF Ops
<1> QED
  BY <1>14, <1>15, <1>16, <1>17, <1>18 DEF TwinInv

\* And without a clock nothing is given up.
LEMMA TimeoutsInv ==
  ASSUME TwinInv, process_timeouts
  PROVE  TwinInv' /\ (OutagesShort /\ QueuedAreOps => QueuedAreOps')
<1> DEFINE u == [Twin EXCEPT !.state = "ERROR"]
<1>1. CASE ~(Becomes(u) /\ UNCHANGED pending_patches)
  BY <1>1, ExpiryInv
<1>2. CASE Becomes(u) /\ UNCHANGED pending_patches
  <2>1. /\ work = "timeouts" /\ work' = "amqp"
        /\ UNCHANGED <<amqpState, sender, receiver, send_queue, atService, requests>>
    BY DEF process_timeouts, amqpLinks
  <2>2. /\ Twin \in TwinRecord /\ Twin.seen = amqp_msgr_state /\ Twin.subscribed = amqp_msgr_is_subscribed
        /\ Twin.ops = operations /\ Twin.told = twinTold /\ "ERROR" \in TwinStates
    BY TwinIsRecord DEF TwinStates, MessengerStates
  <2>3. /\ u \in TwinRecord /\ u.state = "ERROR" /\ u.seen = amqp_msgr_state /\ u.subscribed = amqp_msgr_is_subscribed
        /\ u.ops = operations /\ u.told = twinTold
    BY <2>2, WithState
  <2> HIDE DEF u
  <2>4. /\ twinState' = "ERROR" /\ amqp_msgr_state' = amqp_msgr_state
        /\ amqp_msgr_is_subscribed' = amqp_msgr_is_subscribed /\ amqp_msgr_is_subscribed' \in BOOLEAN
        /\ operations' = operations /\ twinTold' = twinTold
        /\ subscription_state' \in SubscriptionStates /\ subscription_error_count' \in Nat
    BY <1>2, <2>3, BecomesFacts
  <2>5. TwinShape'
    BY <2>1, <2>4 DEF TwinInv, TwinShape
  <2>6. TwinAgrees'
    BY <2>1, <2>4 DEF TwinInv, TwinAgrees, MessengerStates
  <2>7. TwinAccounted'
    BY <1>2, <2>4 DEF TwinInv, TwinAccounted
  <2>8. TwinNumbered'
    BY <2>1, <2>4 DEF TwinInv, TwinNumbered, Ops
  <2>9. QueuedAreOps => QueuedAreOps'
    BY <2>1, <2>4 DEF QueuedAreOps, Ops
  <2> QED
    BY <2>5, <2>6, <2>7, <2>8, <2>9 DEF TwinInv
<1> QED
  BY <1>1, <1>2

\* uAMQP settles a request; one that was accepted is answered later.
LEMMA SettlesInv ==
  ASSUME TwinInv, RequestSettles
  PROVE  TwinInv' /\ (QueuedAreOps => QueuedAreOps')
<1>1. PICK op \in Ctxs(Handed), ok \in BOOLEAN :
        /\ on_send_complete_callback(op, ok)
        /\ atService' = IF ok THEN atService \cup {create_amqp_message_for_twin_operation(op)} ELSE atService
  BY DEF RequestSettles
<1> DEFINE drop == {op}
           request == create_amqp_message_for_twin_operation(op)
<1>2. /\ send_queue' = Removing(drop)
      /\ UNCHANGED <<amqpState, sender, receiver, work, twinState, amqp_msgr_state, amqp_msgr_is_subscribed,
                     subscription_state, subscription_error_count, operations, twinTold, pending_patches, requests>>
  BY <1>1 DEF RequestSettles, on_send_complete_callback, followVars
<1>3. atService' = atService \cup {request} \/ atService' = atService
  BY <1>1
<1>4. /\ send_queue \in Seq(QueueItem) /\ Sorted(send_queue, OtherIds)
      /\ \A m \in Range(send_queue) : m.ctx.id <= requests
      /\ atService \subseteq TwinRequest
      /\ \A r \in atService : r.correlation_id <= requests /\ \A m \in Range(send_queue) : m.ctx.id # r.correlation_id
  BY DEF TwinInv, TwinNumbered
<1>5. PICK i \in DOMAIN send_queue : send_queue[i].ctx = op
  BY DEF Ctxs, Handed
<1>6. /\ DOMAIN send_queue = 1..Len(send_queue) /\ Len(send_queue) \in Nat
      /\ \A n \in DOMAIN send_queue : send_queue[n] \in QueueItem
  BY <1>4
<1>7. op \in TwinOp /\ op.id <= requests
  BY <1>4, <1>5, <1>6 DEF QueueItem, Range
<1> HIDE DEF drop
<1>8. send_queue' \in Seq(QueueItem) /\ Sorted(send_queue', OtherIds)
      /\ Range(send_queue') = {m \in Range(send_queue) : m.ctx \notin drop}
  BY <1>2, <1>4, RemovingFacts
<1>9. \A m \in Range(send_queue') : m.ctx.id # op.id
  <2> SUFFICES ASSUME NEW m \in Range(send_queue') PROVE m.ctx.id # op.id
    OBVIOUS
  <2>1. m \in Range(send_queue) /\ m.ctx # op
    BY <1>8 DEF drop
  <2>2. PICK n \in DOMAIN send_queue : send_queue[n] = m
    BY <2>1 DEF Range
  <2>3. n # i /\ (n < i \/ i < n)
    BY <1>5, <1>6, <2>1, <2>2
  <2>4. <<send_queue[n], send_queue[i]>> \in OtherIds \/ <<send_queue[i], send_queue[n]>> \in OtherIds
    BY <1>4, <1>6, <2>3 DEF Sorted
  <2> QED
    BY <1>5, <1>6, <2>2, <2>4, IdsDiffer
<1>10. request \in TwinRequest /\ request.correlation_id = op.id
  BY <1>7 DEF TwinRequest, create_amqp_message_for_twin_operation, TwinOp
<1> HIDE DEF request
<1>11. TwinNumbered'
  <2>1. atService' \subseteq TwinRequest
    BY <1>3, <1>4, <1>10
  <2>2. \A m \in Range(send_queue') : m.ctx.id <= requests
    BY <1>4, <1>8
  <2>3. \A r \in atService' : r.correlation_id <= requests /\ \A m \in Range(send_queue') : m.ctx.id # r.correlation_id
    BY <1>3, <1>4, <1>7, <1>8, <1>9, <1>10
  <2> QED
    BY <1>2, <1>8, <2>1, <2>2, <2>3 DEF TwinInv, TwinNumbered, Ops
<1>12. TwinShape' /\ TwinAgrees' /\ TwinAccounted'
  BY <1>2 DEF TwinInv, TwinShape, TwinAgrees, TwinAccounted
<1>13. QueuedAreOps => QueuedAreOps'
  BY <1>2, <1>8 DEF QueuedAreOps, Ops
<1> QED
  BY <1>11, <1>12, <1>13 DEF TwinInv

\* The answer to an operation ends it, and its caller is told.
LEMMA AnswerFacts ==
  ASSUME TwinInv, NEW op \in Ops, NEW ok \in BOOLEAN
  PROVE  LET u == on_amqp_message_received_callback(op, ok) IN
           /\ u \in TwinRecord /\ u.state = twinState /\ u.seen = amqp_msgr_state /\ u.subscribed = amqp_msgr_is_subscribed
           /\ Range(u.ops) = Ops \ {op} /\ Account(u.ops, u.told, pending_patches)
<1> DEFINE result == IF ok THEN "ok" ELSE "failed"
           answers == TellTwin(twinTold, Caller(op), result)
           ops == WithoutOp(operations, op)
           u == on_amqp_message_received_callback(op, ok)
<1>1. /\ Twin \in TwinRecord /\ Twin.state = twinState /\ Twin.seen = amqp_msgr_state
      /\ Twin.subscribed = amqp_msgr_is_subscribed /\ Twin.ops = operations /\ Twin.told = twinTold
      /\ Twin.errors = subscription_error_count
      /\ Account(operations, twinTold, pending_patches) /\ op \in Range(operations)
      /\ operations \in Seq(TwinOp) /\ Sorted(operations, Differ) /\ subscription_error_count \in Nat
  BY TwinIsRecord DEF TwinInv, TwinAccounted, TwinShape, Account, Ops
<1>2. result \in {"ok", "failed"}
  OBVIOUS
<1> HIDE DEF result
<1>3. Account(ops, answers, pending_patches)
  BY <1>1, <1>2, AccountAnswered
<1>4. answers \in [TwinCallers -> TwinStatuses] /\ ops \in Seq(TwinOp)
  BY <1>3 DEF Account
<1>5. Range(ops) = Ops \ {op}
  BY <1>1, WithoutOpFacts DEF Ops
<1> DEFINE t == [Twin EXCEPT !.told = answers, !.ops = ops]
<1>6. u = CASE op.type = "GET" /\ subscription_state = "GETTING" /\ ok -> [t EXCEPT !.sub = "SUBSCRIBE", !.errors = 0]
            [] op.type = "GET" /\ subscription_state = "GETTING" /\ ~ok -> [t EXCEPT !.sub = "GET", !.errors = Counted(@)]
            [] OTHER -> t
  BY <1>1 DEF on_amqp_message_received_callback, result
<1> HIDE DEF answers, ops, u
<1>7. /\ t \in TwinRecord /\ t.state = twinState /\ t.seen = amqp_msgr_state
      /\ t.subscribed = amqp_msgr_is_subscribed /\ t.ops = ops /\ t.told = answers /\ t.errors \in Nat
  BY <1>1, <1>4 DEF TwinRecord
<1> HIDE DEF t
<1>8. \E sub \in SubscriptionStates, errors \in Nat : u = [t EXCEPT !.sub = sub, !.errors = errors] \/ u = t
  <2>1. /\ "SUBSCRIBE" \in SubscriptionStates /\ "GET" \in SubscriptionStates /\ 0 \in Nat
        /\ Counted(t.errors) \in Nat
    BY <1>7 DEF SubscriptionStates, Counted
  <2>2. CASE op.type = "GET" /\ subscription_state = "GETTING" /\ ok
    BY <1>6, <2>1, <2>2
  <2>3. CASE op.type = "GET" /\ subscription_state = "GETTING" /\ ~ok
    <3>1. u = [t EXCEPT !.sub = "GET", !.errors = Counted(t.errors)]
      BY <1>6, <1>7, <2>3 DEF TwinRecord
    <3> QED
      BY <2>1, <3>1
  <2>4. CASE ~(op.type = "GET" /\ subscription_state = "GETTING")
    <3>1. u = t
      BY <1>6, <2>4
    <3> QED
      BY <2>1, <3>1
  <2> QED
    BY <2>2, <2>3, <2>4
<1>9. /\ u \in TwinRecord /\ u.state = t.state /\ u.seen = t.seen /\ u.subscribed = t.subscribed
      /\ u.ops = t.ops /\ u.told = t.told
  BY <1>7, <1>8 DEF TwinRecord
<1> QED
  BY <1>3, <1>5, <1>7, <1>9 DEF u

\* The service answers a request: the operation it belongs to ends, when there still is one.
LEMMA AnswersInv ==
  ASSUME TwinInv, ServiceAnswers
  PROVE  TwinInv' /\ (QueuedAreOps => QueuedAreOps')
<1>1. PICK request \in atService, ok \in BOOLEAN, readable \in BOOLEAN :
        /\ atService' = atService \ {request}
        /\ LET found == parse_incoming_twin_message(request, readable) IN
             Becomes(IF found = {} THEN Twin ELSE on_amqp_message_received_callback(CHOOSE op \in found : TRUE, ok))
  BY DEF ServiceAnswers
<1>2. UNCHANGED <<amqpState, sender, receiver, send_queue, work, pending_patches, requests>>
  BY DEF ServiceAnswers, amqpLinks
<1> DEFINE found == parse_incoming_twin_message(request, readable)
           op == CHOOSE o \in found : TRUE
           u == IF found = {} THEN Twin ELSE on_amqp_message_received_callback(op, ok)
<1>3. found # {} => op \in Ops /\ op.id = request.correlation_id
  BY DEF parse_incoming_twin_message
<1>4. Becomes(u)
  BY <1>1
<1> HIDE DEF found, op
<1>5. /\ u \in TwinRecord /\ u.state = twinState /\ u.seen = amqp_msgr_state /\ u.subscribed = amqp_msgr_is_subscribed
      /\ Account(u.ops, u.told, pending_patches)
      /\ Range(u.ops) = IF found = {} THEN Ops ELSE Ops \ {op}
  <2>1. CASE found = {}
    <3>1. u = Twin
      BY <2>1
    <3> HIDE DEF u
    <3> QED
      BY <2>1, <3>1, TwinIsRecord DEF Ops
  <2>2. CASE found # {}
    <3>1. u = on_amqp_message_received_callback(op, ok)
      BY <2>2
    <3> HIDE DEF u
    <3> QED
      BY <1>3, <2>2, <3>1, AnswerFacts
  <2> QED
    BY <2>1, <2>2
<1> HIDE DEF u
<1>6. /\ twinState' = twinState /\ amqp_msgr_state' = amqp_msgr_state
      /\ amqp_msgr_is_subscribed' = amqp_msgr_is_subscribed /\ amqp_msgr_is_subscribed' \in BOOLEAN
      /\ operations' = u.ops /\ twinTold' = u.told
      /\ subscription_state' \in SubscriptionStates /\ subscription_error_count' \in Nat
  BY <1>4, <1>5, BecomesFacts
<1>7. TwinShape'
  BY <1>2, <1>6 DEF TwinInv, TwinShape
<1>8. TwinAgrees'
  BY <1>2, <1>6 DEF TwinInv, TwinAgrees
<1>9. TwinAccounted'
  BY <1>2, <1>5, <1>6 DEF TwinAccounted
<1>10. Range(operations') \subseteq Range(operations)
  BY <1>5, <1>6 DEF Ops
<1>11. TwinNumbered'
  <2>1. /\ send_queue' \in Seq(QueueItem) /\ Sorted(send_queue', OtherIds) /\ TwinNumbered
        /\ \A m \in Range(send_queue') : \E n \in Range(send_queue) : m.ctx = n.ctx
    BY <1>2 DEF TwinInv, TwinNumbered
  <2> QED
    BY <1>1, <1>2, <1>10, <2>1, NumberedShrinks
<1>12. QueuedAreOps => QueuedAreOps'
  <2> SUFFICES ASSUME QueuedAreOps, NEW m \in Range(send_queue), ~m.handed PROVE m.ctx \in Ops'
    BY <1>2 DEF QueuedAreOps
  <2>1. m.ctx \in Ops /\ m.ctx.id # request.correlation_id
    BY DEF QueuedAreOps, TwinInv, TwinNumbered
  <2>2. found # {} => m.ctx # op
    BY <1>3, <2>1
  <2> QED
    BY <1>5, <1>6, <2>1, <2>2 DEF Ops
<1> QED
  BY <1>7, <1>8, <1>9, <1>11, <1>12 DEF TwinInv

-----------------------------------------------------------------------------
(* The twin messenger *)

\* The step in which the messenger below works.
LEMMA AmqpWorksInv ==
  ASSUME TwinInv, AmqpWorks
  PROVE  TwinInv' /\ (QueuedAreOps => QueuedAreOps')
<1>1. work = "amqp" /\ Follows /\ work' = "idle" /\ UNCHANGED <<twinRest, requests>>
  BY DEF AmqpWorks
<1>2. CASE WorksUnstarted
  BY <1>1, <1>2, UnstartedInv
<1>3. CASE \E expired \in SUBSET (Ctxs(Queued) \ Ops) : AmqpWorksStarted(expired)
  <2>1. PICK expired \in SUBSET (Ctxs(Queued) \ Ops) : AmqpWorksStarted(expired)
    BY <1>3
  <2>2. expired \subseteq Ctxs(Queued)
    BY <2>1
  <2> QED
    BY <1>1, <2>1, <2>2, StartedInv
<1> QED
  BY <1>2, <1>3 DEF AmqpWorks

\* Every step keeps the invariant, and that queued requests are operations when no request is queued for longer than
\* it may take.
LEMMA TwinStepInv ==
  ASSUME TwinInv, [TwinNext]_twinVars
  PROVE  TwinInv' /\ (OutagesShort /\ QueuedAreOps => QueuedAreOps')
<1>1. CASE twin_messenger_report_state_async
  BY <1>1, ReportInv
<1>2. CASE twin_messenger_get_twin_async
  BY <1>2, DemandInv
<1>3. CASE twin_messenger_subscribe \/ twin_messenger_unsubscribe \/ twin_messenger_do_work
  BY <1>3, AsksInv
<1>4. CASE twin_messenger_start
  BY <1>4, StartInv
<1>5. CASE twin_messenger_stop
  BY <1>5, StopInv
<1>6. CASE twin_messenger_destroy \/ internal_twin_messenger_destroy
  BY <1>6, DestroyStopsInv, DestroyInv
<1>7. CASE send_pending_twin_patch
  BY <1>7, PatchInv
<1>8. CASE process_twin_subscription
  BY <1>8, SubscriptionInv
<1>9. CASE process_timeouts
  BY <1>9, TimeoutsInv
<1>10. CASE AmqpWorks
  BY <1>10, AmqpWorksInv
<1>11. CASE LinksChange
  BY <1>11, LinksChangeInv
<1>12. CASE RequestSettles
  BY <1>12, SettlesInv
<1>13. CASE ServiceAnswers
  BY <1>13, AnswersInv
<1>14. CASE UNCHANGED twinVars
  <2>1. /\ UNCHANGED <<amqpState, sender, receiver, send_queue, work, twinState, amqp_msgr_state, amqp_msgr_is_subscribed,
                       subscription_state, subscription_error_count, operations, twinTold>>
        /\ UNCHANGED <<pending_patches, atService, requests>>
    BY <1>14 DEF twinVars, amqpVars, followVars
  <2>2. TwinShape' /\ TwinAgrees' /\ TwinAccounted'
    BY <2>1 DEF TwinInv, TwinShape, TwinAgrees, TwinAccounted
  <2>3. TwinNumbered'
    BY <2>1 DEF TwinInv, TwinNumbered, Ops
  <2>4. QueuedAreOps => QueuedAreOps'
    BY <2>1 DEF QueuedAreOps, Ops
  <2> QED
    BY <2>2, <2>3, <2>4 DEF TwinInv
<1> QED
  BY <1>1, <1>2, <1>3, <1>4, <1>5, <1>6, <1>7, <1>8, <1>9, <1>10, <1>11, <1>12, <1>13, <1>14 DEF TwinNext

\* What the invariant says of the messengers and of the callers.
LEMMA TwinInvSays ==
  ASSUME TwinInv
  PROVE  PatchesToldOnce /\ MessengersAgree
<1>1. MessengersAgree
  BY DEF TwinInv, TwinAgrees, MessengersAgree, MessengerStates
<1>2. Account(operations, twinTold, pending_patches)
  BY DEF TwinInv, TwinAccounted
<1>3. /\ twinTold \in [TwinCallers -> TwinStatuses] /\ \A c \in TwinCallers : twinTold[c] # "twice"
      /\ Ops \subseteq TwinOp /\ Range(pending_patches) \subseteq TwinPatches
      /\ \A o \in Ops : \A c \in Caller(o) : twinTold[c] = "held"
      /\ \A p \in Range(pending_patches) : twinTold[p] = "held"
      /\ \A p \in TwinPatches : twinTold[p] = "held" => p \in Range(pending_patches) \/ \E o \in Ops : p \in Caller(o)
  BY <1>2 DEF Account, Ops, Range
<1>4. \A c \in DOMAIN twinTold : twinTold[c] # "twice"
  BY <1>3
<1> DEFINE sent == {op.patch : op \in {o \in Ops : o.type = "PATCH"}}
<1>5. ASSUME NEW p \in TwinPatches, twinTold[p] = "held" PROVE p \in Range(pending_patches) \cup sent
  <2> SUFFICES ASSUME p \notin Range(pending_patches) PROVE p \in sent
    OBVIOUS
  <2>1. PICK o \in Ops : p \in Caller(o)
    BY <1>3, <1>5
  <2>2. p # 0
    BY PatchesAreNumbers
  <2>3. o.type = "PATCH" /\ o.patch = p
    BY <2>1, <2>2 DEF Caller
  <2> QED
    BY <2>1, <2>3
<1>6. ASSUME NEW p \in Range(pending_patches) \cup sent PROVE p \in TwinPatches /\ twinTold[p] = "held"
  <2>1. CASE p \in Range(pending_patches)
    BY <1>3, <2>1
  <2>2. CASE p \in sent
    <3>1. PICK o \in Ops : o.type = "PATCH" /\ p = o.patch
      BY <2>2
    <3>2. Caller(o) = {p}
      BY <3>1 DEF Caller
    <3>3. twinTold[p] = "held" /\ p \in TwinCallers
      BY <1>3, <3>1, <3>2, CallersAreKnown
    <3>4. p \in TwinPatches
      BY <1>3, <3>1 DEF TwinOp
    <3> QED
      BY <3>3, <3>4
  <2> QED
    BY <2>1, <2>2
<1>7. {p \in TwinPatches : twinTold[p] = "held"} = Range(pending_patches) \cup sent
  <2> HIDE DEF sent
  <2> QED
    BY <1>5, <1>6
<1> QED
  BY <1>1, <1>4, <1>7 DEF PatchesToldOnce

\* The invariant in every state the twin messenger reaches, however it is started, stopped, destroyed and worked, its
\* links change, uAMQP settles requests and the service answers them.
THEOREM TwinInvariant == TwinSpec => []TwinInv
<1>1. TwinInit => TwinInv
  BY TwinInitInv
<1>2. TwinInv /\ [TwinNext]_twinVars => TwinInv'
  BY TwinStepInv
<1> QED
  BY <1>1, <1>2, PTL DEF TwinSpec

\* Every report that was accepted waits, is an operation, or its caller was told, once; and the two messengers agree on
\* whether they are started, however they are used and whatever becomes of their links.
THEOREM PatchesAreToldOnce == TwinSpec => [](PatchesToldOnce /\ MessengersAgree)
<1>1. TwinInv => PatchesToldOnce /\ MessengersAgree
  BY TwinInvSays
<1> QED
  BY <1>1, TwinInvariant, PTL

\* And when no request is queued for longer than it may take, what the messenger below may still call back about is
\* an operation, so that no callback is given a context that was freed.
THEOREM TwinIsSound ==
  ASSUME OutagesShort
  PROVE  TwinSpec => []TwinSound
<1>1. TwinInit => TwinInv /\ QueuedAreOps
  <2> SUFFICES ASSUME TwinInit PROVE QueuedAreOps
    BY TwinInitInv
  <2>1. send_queue = <<>> /\ Range(<<>>) = {}
    BY DEF TwinInit, AmqpInit, Range
  <2> QED
    BY <2>1 DEF QueuedAreOps
<1>2. TwinInv /\ QueuedAreOps /\ [TwinNext]_twinVars => TwinInv' /\ QueuedAreOps'
  BY TwinStepInv
<1>3. TwinInv /\ QueuedAreOps => TwinSound
  BY TwinInvSays, QueuedAreOpsSays DEF TwinSound
<1> QED
  BY <1>1, <1>2, <1>3, PTL DEF TwinSpec
=============================================================================
