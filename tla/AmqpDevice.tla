------------------------------ MODULE AmqpDevice ------------------------------
(***************************************************************************)
(* A device of the AMQP transport: iothubtransport_amqp_device.c starts and    *)
(* stops its authentication (iothubtransport_amqp_cbs_auth.c) and its two      *)
(* messengers, which appear here by their states only.  The operators take the *)
(* record of a device and give the set of records it may become; the variables *)
(* belong to AmqpTransport, which calls them.                                  *)
(***************************************************************************)
EXTENDS Naturals

CONSTANTS
  MaxFailures,  \* MAX_NUMBER_OF_DEVICE_FAILURES, DEVICE_FAILURE_COUNT_RECONNECTION_THRESHOLD
  MaxPuts       \* bound on the tokens sent and not answered; a further one fails

VARIABLES
  transportState,  \* AMQP_TRANSPORT_INSTANCE.state
  calm             \* from some time on nothing fails any more

\* Outcomes that are failures of the network, the service or the memory.
Faults(S) == IF calm THEN {} ELSE S

Fails == {"ERROR_AUTH", "ERROR_AUTH_TIMEOUT", "ERROR_MSG"}

\* The transport keeps the state it is told in seen and tells the application.
on_device_state_changed_callback(d, new) ==
  [d EXCEPT !.seen = new,
            !.told = CASE new = "STARTED" -> TRUE
                       [] new = "STOPPED" /\ transportState \in {"CONNECTED", "BEING_DESTROYED"} -> FALSE
                       [] new \in Fails -> FALSE
                       [] OTHER -> @]
DeviceBecomes(d, new) ==
  IF new = d.state THEN d ELSE [on_device_state_changed_callback(d, new) EXCEPT !.state = new]

-----------------------------------------------------------------------------
(* Authentication with tokens; its state is d.auth *)

authentication_start(d) == [d EXCEPT !.auth = "STARTING"]
\* A token that is on its way stays so, and so does what is remembered of it; late records
\* for the properties that its answer may then start an authentication that was stopped.
authentication_stop(d) == [d EXCEPT !.auth = "STOPPED", !.late = @ \/ d.puts > 0]

AuthFails(d, first, refresh) ==
  [d EXCEPT !.auth = "ERROR", !.error = IF d.refreshing THEN refresh ELSE first, !.refreshing = FALSE]

put_SAS_token_to_cbs(d) == [d EXCEPT !.putting = TRUE, !.puts = @ + 1]

create_and_put_SAS_token_to_cbs(d) ==
  LET failed == {AuthFails(d, "AUTH_FAILED", "SAS_REFRESH_FAILED")} IN
    IF d.puts < MaxPuts THEN {put_SAS_token_to_cbs(d)} \cup Faults(failed) ELSE failed

on_cbs_put_token_complete_callback(d, ok) ==
  LET done == [d EXCEPT !.putting = FALSE, !.puts = @ - 1] IN
    IF ok THEN [done EXCEPT !.auth = "STARTED", !.refreshing = FALSE, !.authorized = TRUE]
    ELSE AuthFails(done, "AUTH_FAILED", "SAS_REFRESH_FAILED")

\* No answer will come to a token that was sent on a connection that is gone.
verify_cbs_put_token_timeout(d) == {FALSE} \cup IF d.puts = 0 THEN {TRUE} ELSE Faults({TRUE})

authentication_do_work(d) ==
  IF d.putting
  THEN {IF late THEN AuthFails([d EXCEPT !.putting = FALSE], "AUTH_TIMEOUT", "SAS_REFRESH_TIMEOUT")
        ELSE d : late \in verify_cbs_put_token_timeout(d)}
  ELSE IF d.auth = "STARTED"  \* is the token to be refreshed?
       THEN {d} \cup create_and_put_SAS_token_to_cbs([d EXCEPT !.refreshing = TRUE])
       ELSE create_and_put_SAS_token_to_cbs(d)

-----------------------------------------------------------------------------
(* Start and stop *)

amqp_device_create(mode) ==
  [mode |-> mode, state |-> "STOPPED", seen |-> "STOPPED", delayed |-> FALSE, told |-> FALSE,
   auth |-> "STOPPED", error |-> "NONE", putting |-> FALSE, refreshing |-> FALSE, puts |-> 0, late |-> FALSE,
   authorized |-> FALSE, msgr |-> "STOPPED", twin |-> "STOPPED",
   number_of_previous_failures |-> 0, number_of_send_event_complete_failures |-> 0,
   subscribe_methods_needed |-> FALSE, subscribed_for_methods |-> FALSE, methods |-> "NOT"]

\* With a certificate the connection is authenticated already.
amqp_device_start_async(d) ==
  IF d.state # "STOPPED" THEN d
  ELSE DeviceBecomes([d EXCEPT !.delayed = FALSE, !.authorized = @ \/ d.mode = "X509"], "STARTING")

\* The messenger of twins may refuse, and then authentication is not stopped.
internal_device_stop(d) ==
  LET first == [d EXCEPT !.msgr = "STOPPED"] IN
    {DeviceBecomes(authentication_stop([first EXCEPT !.twin = "STOPPED"]), "STOPPED")}
    \cup IF d.twin = "STOPPED" THEN {}
         ELSE Faults({DeviceBecomes([first EXCEPT !.twin = "ERROR"], "ERROR_MSG")})

amqp_device_stop(d) ==
  IF d.state = "STOPPED" \/ (d.state = "STOPPING" /\ ~d.delayed) THEN {d}
  ELSE internal_device_stop(DeviceBecomes(d, "STOPPING"))

amqp_device_delayed_stop(d) ==
  IF d.state \in {"STOPPED", "STOPPING"} THEN {}
  ELSE {[DeviceBecomes(d, "STOPPING") EXCEPT !.delayed = TRUE]}

amqp_device_destroy(d) == IF d.state \in {"STARTED", "STARTING"} THEN amqp_device_stop(d) ELSE {d}

-----------------------------------------------------------------------------
(* amqp_device_do_work, state by state *)

\* elapsed: the delay of the stop is over, unless the tick counter fails.
WorksStopping(d, elapsed) ==
  (IF elapsed THEN internal_device_stop(d) ELSE {d}) \cup Faults({DeviceBecomes(d, "ERROR_MSG")})

AuthStarts(d) ==
  CASE d.auth = "STOPPED" -> {authentication_start(d)}
    [] d.auth = "STARTING" -> {d} \cup Faults({DeviceBecomes(d, "ERROR_AUTH_TIMEOUT")})
    [] d.auth = "ERROR" ->
         {DeviceBecomes(d, IF d.error = "AUTH_FAILED" THEN "ERROR_AUTH" ELSE "ERROR_AUTH_TIMEOUT")}
    [] d.auth = "STARTED" -> {d}

\* m is "msgr" or "twin".
MessengerStarts(d, m) ==
  LET failed == DeviceBecomes(d, "ERROR_MSG") IN
    CASE d[m] = "STOPPED" -> {[d EXCEPT ![m] = "STARTING"]} \cup Faults({failed})
      [] d[m] = "STARTING" -> {d} \cup Faults({failed})
      [] d[m] = "ERROR" -> {failed}
      [] d[m] = "STARTED" -> {d}

MessengersStart(d) ==
  {IF d.msgr = "STARTED" /\ d.twin = "STARTED" THEN DeviceBecomes(t, "STARTED") ELSE t :
     t \in UNION {MessengerStarts(m, "twin") : m \in MessengerStarts(d, "msgr")}}

WorksStarting(d) ==
  UNION {IF a.mode = "X509" \/ a.auth = "STARTED" THEN MessengersStart(a) ELSE {a} :
           a \in IF d.mode = "CBS" THEN AuthStarts(d) ELSE {d}}

\* The test of the state ERROR is the wrong way round: see README.
WorksStarted(d) ==
  IF d.mode = "CBS" /\ d.auth # "STARTED"
  THEN DeviceBecomes(d, IF d.auth = "ERROR" \/ d.error = "AUTH_FAILED" THEN "ERROR_AUTH"
                        ELSE "ERROR_AUTH_TIMEOUT")
  ELSE IF d.msgr # "STARTED" \/ d.twin # "STARTED" THEN DeviceBecomes(d, "ERROR_MSG") ELSE d

amqp_device_do_work(d, elapsed) ==
  UNION {IF w.mode = "CBS" /\ w.auth \notin {"STOPPED", "ERROR"} THEN authentication_do_work(w) ELSE {w} :
           w \in CASE d.state = "STOPPING" -> WorksStopping(d, elapsed)
                   [] d.state = "STARTING" -> WorksStarting(d)
                   [] d.state = "STARTED" -> {WorksStarted(d)}
                   [] OTHER -> {d}}

\* The messengers do their work, which may change their states.
MessengersChange(d) ==
  UNION {CASE d[m] = "STARTING" -> {[d EXCEPT ![m] = "STARTED"]} \cup Faults({[d EXCEPT ![m] = "ERROR"]})
           [] d[m] = "STARTED" -> Faults({[d EXCEPT ![m] = "ERROR"]})
           [] OTHER -> {} : m \in {"msgr", "twin"}}
=============================================================================
