------------------------------- MODULE AmqpTwin -------------------------------
(***************************************************************************)
(* The twin messenger of the AMQP transport,                                  *)
(* iothubtransport_amqp_twin_messenger.c, on top of AmqpMessenger.  Reports    *)
(* and the requests of the subscription (GET, then PUT) are operations that    *)
(* end with the response of the service, with a failed send or by time.        *)
(*                                                                         *)
(* All of it runs in one thread: the device calls it, twin_messenger_do_work   *)
(* runs its steps (work), and in between uAMQP reports what the links did.     *)
(***************************************************************************)
EXTENDS AmqpMessenger

CONSTANTS
  TwinPatches,             \* reported states, numbered in the order they are accepted
  MaxSubscriptionErrors,   \* DEFAULT_MAX_TWIN_SUBSCRIPTION_ERROR_COUNT
  MaxTwinStarts,           \* bound on the calls of twin_messenger_start
  MaxRequests,             \* bound on the requests made; a further one fails
  OutagesShort             \* is a request never queued for longer than it may take?

ASSUME TwinAssumption ==
  /\ IsFiniteSet(TwinPatches) /\ TwinPatches = 1..Cardinality(TwinPatches) /\ OutagesShort \in BOOLEAN
  /\ MaxSendErrors \in Nat \ {0} /\ MaxSubscriptionErrors \in Nat \ {0} /\ MaxTwinStarts \in Nat /\ MaxRequests \in Nat

VARIABLES
  work,                   \* "idle", or the step of twin_messenger_do_work or _destroy that is next
  twinState,              \* TWIN_MESSENGER_INSTANCE.state; "gone" after destroy
  amqp_msgr_state, amqp_msgr_is_subscribed,
  subscription_state, subscription_error_count,
  callbackSet,            \* is on_message_received_callback set?
  pending_patches, operations,
  atService,              \* external: requests the service will answer on these links
  serviceSubscribed,      \* external: does the service send updates of desired properties?
  twinStarts,
  requests,               \* made so far; their number is the correlation id
  twinTold                \* history: what the callers were told: of each patch, and of 0, the twin asked for

followVars == <<twinState, amqp_msgr_state, amqp_msgr_is_subscribed, subscription_state,
                subscription_error_count, operations, twinTold>>
twinVars == <<amqpVars, work, followVars, callbackSet, pending_patches, atService,
              serviceSubscribed, twinStarts, requests>>

Ops == Range(operations)
Caller(op) == IF op.type = "PATCH" THEN {op.patch} ELSE IF op.type = "DEMAND" THEN {0} ELSE {}
TellTwin(status, S, result) ==
  [c \in DOMAIN status |-> IF c \notin S THEN status[c]
                           ELSE IF status[c] = "held" THEN result ELSE "twice"]
\* create_twin_operation_context: with a correlation id of its own.
NewOp(type, patch) == [id |-> requests + 1, type |-> type, patch |-> patch]

\* Adds a request to the operations and to the queue of the messenger.
Requests(op) ==
  /\ requests < MaxRequests /\ requests' = requests + 1
  /\ operations' = Append(operations, op) /\ amqp_messenger_send_async(op)
\* Of the GET there are two types of operation, and of an operation the request says this.
create_amqp_message_for_twin_operation(op) ==
  [operation |-> IF op.type = "DEMAND" THEN "GET" ELSE op.type,
   resource |-> CASE op.type = "PATCH" -> "reported" [] op.type = "PUT" -> "desired" [] OTHER -> "twin",
   correlation_id |-> op.id]
NoRequest == UNCHANGED <<operations, send_queue, requests>>

-----------------------------------------------------------------------------
(* Callbacks of the messenger below, as functions of a record of what they change *)

Twin == [state |-> twinState, seen |-> amqp_msgr_state, subscribed |-> amqp_msgr_is_subscribed,
         sub |-> subscription_state, errors |-> subscription_error_count, ops |-> operations,
         told |-> twinTold]
Becomes(t) ==
  /\ twinState' = t.state /\ amqp_msgr_state' = t.seen /\ amqp_msgr_is_subscribed' = t.subscribed
  /\ subscription_state' = t.sub /\ subscription_error_count' = t.errors
  /\ operations' = t.ops /\ twinTold' = t.told
Counted(n) == IF n >= MaxSubscriptionErrors THEN n ELSE n + 1
WithoutOp(list, op) == FlattenSeq([n \in DOMAIN list |-> IF list[n] = op THEN <<>> ELSE <<list[n]>>])

\* mutant: a lost link is not an error.
StateChangedIgnoring(t, new) ==
  [t EXCEPT !.seen = new,
            !.state = CASE t.state = "STARTING" /\ new = "STARTED" ->
                             IF t.subscribed THEN "STARTED" ELSE "STARTING"
                        [] t.state = "STOPPING" /\ new = "STOPPED" ->
                             IF t.subscribed THEN "STOPPING" ELSE "STOPPED"
                        [] OTHER -> t.state]

on_amqp_messenger_state_changed_callback(t, new) ==
  [t EXCEPT !.seen = new,
            !.state = CASE t.state = "STARTING" /\ new = "STARTED" ->
                             IF t.subscribed THEN "STARTED" ELSE "STARTING"
                        [] t.state = "STOPPING" /\ new = "STOPPED" ->
                             IF t.subscribed THEN "STOPPING" ELSE "STOPPED"
                        [] t.state = new /\ new \in {"STARTING", "STOPPING"} -> t.state
                        [] OTHER -> "ERROR"]

on_amqp_messenger_subscription_changed_callback(t, isSubscribed) ==
  [t EXCEPT !.subscribed = isSubscribed,
            !.state = CASE t.state = "STARTING" /\ isSubscribed ->
                             IF t.seen = "STARTED" THEN "STARTED" ELSE "STARTING"
                        [] t.state = "STOPPING" /\ ~isSubscribed ->
                             IF t.seen = "STOPPED" THEN "STOPPED" ELSE "STOPPING"
                        [] OTHER -> "ERROR"]

\* A request failed before the sender had it.  The test of a failed PUT looks for the state
\* of a GET.  A request that was given up is not there any more.
on_amqp_send_complete_callback(t, op) ==
  IF op \notin Range(t.ops) THEN t
  ELSE LET again == op.type \in {"GET", "PUT"} /\ t.sub = "GETTING" IN
         [t EXCEPT !.ops = WithoutOp(@, op), !.told = TellTwin(@, Caller(op), "failed"),
                   !.sub = IF again THEN "GET" ELSE @, !.errors = IF again THEN Counted(@) ELSE @]

Hears(t, c) ==
  CASE c.call = "state" -> on_amqp_messenger_state_changed_callback(t, c.arg)
    [] c.call = "subscription" -> on_amqp_messenger_subscription_changed_callback(t, c.arg)
    [] c.call = "send_failed" -> on_amqp_send_complete_callback(t, c.arg)

\* The callbacks of a step, in their order.
HearsAll(t, list) ==
  LET heard[n \in 0..Len(list)] == IF n = 0 THEN t ELSE Hears(heard[n - 1], list[n]) IN heard[Len(list)]

Follows == Becomes(HearsAll(Twin, calls'))

-----------------------------------------------------------------------------
(* Calls of the device *)

Idle == work = "idle" /\ twinState # "gone"

twin_messenger_report_state_async ==
  /\ Idle
  /\ \E p \in TwinPatches :
       /\ twinTold[p] = "new" /\ \A q \in TwinPatches : q < p => twinTold[q] # "new"
       /\ pending_patches' = Append(pending_patches, p)
       /\ twinTold' = [twinTold EXCEPT ![p] = "held"]
  /\ calls' = <<>>
  /\ UNCHANGED <<amqpState, sender, receiver, send_queue, send_error_count, work, twinState,
                 amqp_msgr_state, amqp_msgr_is_subscribed, subscription_state,
                 subscription_error_count, operations, callbackSet, atService, serviceSubscribed,
                 twinStarts, requests>>

\* Queues the request whatever the state is.
twin_messenger_get_twin_async ==
  /\ Idle /\ twinTold[0] = "new"
  /\ Requests(NewOp("DEMAND", 0))
  /\ twinTold' = [twinTold EXCEPT ![0] = "held"]
  /\ calls' = <<>>
  /\ UNCHANGED <<amqpState, sender, receiver, send_error_count, work, twinState, amqp_msgr_state,
                 amqp_msgr_is_subscribed, subscription_state, subscription_error_count,
                 callbackSet, pending_patches, atService, serviceSubscribed, twinStarts>>

Subscribing(sub, set) ==
  /\ subscription_state' = sub /\ callbackSet' = set /\ calls' = <<>>
  /\ UNCHANGED <<amqpState, sender, receiver, send_queue, send_error_count, work, twinState,
                 amqp_msgr_state, amqp_msgr_is_subscribed, subscription_error_count, operations,
                 pending_patches, atService, serviceSubscribed, twinStarts, requests, twinTold>>

\* In any other state it returns without an effect.
twin_messenger_subscribe == Idle /\ subscription_state = "NOT" /\ Subscribing("GET", TRUE)
\* The device calls it for a client that subscribed.
twin_messenger_unsubscribe == Idle /\ callbackSet /\ Subscribing("UNSUBSCRIBE", FALSE)

twin_messenger_start ==
  /\ Idle /\ twinState = "STOPPED" /\ twinStarts < MaxTwinStarts
  /\ amqp_messenger_start
  /\ Becomes(HearsAll([Twin EXCEPT !.state = "STARTING"], calls'))
  /\ twinStarts' = twinStarts + 1
  /\ UNCHANGED <<work, callbackSet, pending_patches, atService, serviceSubscribed, requests>>

\* mutant: the messenger below is stopped before the state says so.
StopsUnannounced ==
  /\ Idle /\ twinState # "STOPPED"
  /\ amqp_messenger_stop
  /\ Becomes(HearsAll(Twin, calls'))
  /\ atService' = {} /\ serviceSubscribed' = FALSE
  /\ UNCHANGED <<work, callbackSet, pending_patches, twinStarts, requests>>

\* mutant: what was asked for is forgotten, as it will be asked for again.
StopsForgetting ==
  /\ Idle /\ twinState # "STOPPED"
  /\ amqp_messenger_stop
  /\ LET t == HearsAll([Twin EXCEPT !.state = "STOPPING"], calls') IN
       Becomes(IF amqpState' = "ERROR" THEN [t EXCEPT !.state = "ERROR"]
               ELSE [t EXCEPT !.sub = "GET", !.ops = <<>>])
  /\ atService' = {} /\ serviceSubscribed' = FALSE
  /\ UNCHANGED <<work, callbackSet, pending_patches, twinStarts, requests>>

\* Asks again for everything after a restart, also when nobody had subscribed.
twin_messenger_stop ==
  /\ Idle /\ twinState # "STOPPED"
  /\ amqp_messenger_stop
  /\ LET t == HearsAll([Twin EXCEPT !.state = "STOPPING"], calls') IN
       Becomes(IF amqpState' = "ERROR" THEN [t EXCEPT !.state = "ERROR"]
               ELSE IF subscription_state = "UNSUBSCRIBE" THEN t ELSE [t EXCEPT !.sub = "GET"])
  /\ atService' = {} /\ serviceSubscribed' = FALSE
  /\ UNCHANGED <<work, callbackSet, pending_patches, twinStarts, requests>>

\* It may be destroyed in any state: a messenger below that was not stopped is stopped first,
\* with its callbacks, as well as it can.
twin_messenger_destroy ==
  /\ Idle /\ amqp_messenger_stop /\ Follows
  /\ work' = "destroy" /\ atService' = {} /\ serviceSubscribed' = FALSE
  /\ UNCHANGED <<callbackSet, pending_patches, twinStarts, requests>>

Destroys(told) ==
  /\ work = "destroy" \/ (Idle /\ amqpState = "STOPPED")
  /\ twinTold' = told
  /\ operations' = <<>> /\ pending_patches' = <<>> /\ send_queue' = <<>> /\ calls' = <<>>
  /\ twinState' = "gone" /\ work' = "idle"
  /\ UNCHANGED <<amqpState, sender, receiver, send_error_count, amqp_msgr_state,
                 amqp_msgr_is_subscribed, subscription_state, subscription_error_count,
                 callbackSet, atService, serviceSubscribed, twinStarts, requests>>

\* mutant: patches that were sent are not cancelled.
DestroysSent == Destroys(TellTwin(twinTold, Range(pending_patches), "failed"))

\* The queue is destroyed first and calls back with CANCELLED, then patches, then
\* operations; a twin that was asked for and sent is not called back.
internal_twin_messenger_destroy ==
  LET queued == Ctxs(Queued) \cap Ops
      patches == {op \in Ops : op.type = "PATCH"} IN
    Destroys(TellTwin(twinTold, Range(pending_patches)
                                \cup UNION {Caller(op) : op \in queued \cup patches}, "failed"))

-----------------------------------------------------------------------------
(* twin_messenger_do_work; the device does not call it in state STOPPED or ERROR *)

amqpLinks == <<amqpState, sender, receiver, send_error_count>>
twinRest == <<callbackSet, pending_patches, atService, serviceSubscribed, twinStarts>>

twin_messenger_do_work ==
  /\ Idle /\ twinState \notin {"STOPPED", "ERROR"}
  /\ work' = IF twinState = "STARTED" THEN "patches" ELSE "timeouts"
  /\ calls' = <<>>
  /\ UNCHANGED <<amqpLinks, send_queue, followVars, twinRest, requests>>

\* A failure tells the caller.
send_pending_twin_patch ==
  /\ work = "patches" /\ pending_patches # <<>>
  /\ LET p == Head(pending_patches) IN
       \/ Requests(NewOp("PATCH", p)) /\ UNCHANGED twinTold
       \/ twinTold' = TellTwin(twinTold, {p}, "failed") /\ NoRequest
  /\ pending_patches' = Tail(pending_patches) /\ calls' = <<>>
  /\ UNCHANGED <<amqpLinks, work, twinState, amqp_msgr_state, amqp_msgr_is_subscribed,
                 subscription_state, subscription_error_count, callbackSet, atService,
                 serviceSubscribed, twinStarts>>

\* What is asked for next, and the state after that.  Unsubscribing asks with a PUT.
NextRequest == [GET |-> <<"GET", "GETTING">>, SUBSCRIBE |-> <<"PUT", "SUBSCRIBING">>,
                UNSUBSCRIBE |-> <<"PUT", "UNSUBSCRIBING">>]

\* A request that cannot be made is an error.
process_twin_subscription ==
  /\ work = "patches" /\ pending_patches = <<>>
  /\ \/ /\ subscription_error_count >= MaxSubscriptionErrors
        /\ twinState' = "ERROR" /\ UNCHANGED subscription_state /\ NoRequest
     \/ /\ subscription_error_count < MaxSubscriptionErrors
        /\ IF subscription_state \in DOMAIN NextRequest
           THEN \/ /\ Requests(NewOp(NextRequest[subscription_state][1], 0))
                   /\ subscription_state' = NextRequest[subscription_state][2]
                   /\ UNCHANGED twinState
                \/ twinState' = "ERROR" /\ UNCHANGED subscription_state /\ NoRequest
           ELSE UNCHANGED <<subscription_state, twinState>> /\ NoRequest
  /\ work' = "timeouts" /\ calls' = <<>>
  /\ UNCHANGED <<amqpLinks, amqp_msgr_state, amqp_msgr_is_subscribed, subscription_error_count,
                 twinTold, twinRest>>

\* The oldest i patches and j operations have waited too long.
Expire(t, op) ==
  LET back == CASE op.type = "GET" /\ t.sub = "GETTING" -> "GET"
                [] op.type = "PUT" /\ t.sub = "SUBSCRIBING" -> "SUBSCRIBE"
                [] OTHER -> t.sub IN
    [t EXCEPT !.ops = WithoutOp(@, op), !.told = TellTwin(@, Caller(op), "failed"), !.sub = back,
              !.errors = IF back = t.sub THEN @ ELSE Counted(@)]

\* The oldest first.
ExpireAll(t, old) ==
  LET left[n \in 0..Len(old)] == IF n = 0 THEN t ELSE Expire(left[n - 1], old[n]) IN left[Len(old)]

\* Without a clock nothing is given up, which is an error.
process_timeouts ==
  /\ work = "timeouts"
  /\ \/ Becomes([Twin EXCEPT !.state = "ERROR"]) /\ UNCHANGED pending_patches
     \/ \E i \in 0..Len(pending_patches), j \in 0..Len(operations) :
          LET old == SubSeq(operations, 1, j)
              told == TellTwin(twinTold, {pending_patches[n] : n \in 1..i}, "failed") IN
            /\ OutagesShort => Range(old) \cap Ctxs(Queued) = {}
            /\ pending_patches' = SubSeq(pending_patches, i + 1, Len(pending_patches))
            /\ Becomes(ExpireAll([Twin EXCEPT !.told = told], old))
  /\ work' = "amqp" /\ calls' = <<>>
  /\ UNCHANGED <<amqpLinks, send_queue, callbackSet, atService, serviceSubscribed, twinStarts, requests>>

\* Only requests that were given up can have waited too long in the queue.
AmqpWorks ==
  /\ work = "amqp"
  /\ \/ WorksUnstarted
     \/ \E expired \in SUBSET (Ctxs(Queued) \ Ops) : AmqpWorksStarted(expired)
  /\ Follows
  /\ work' = "idle"
  /\ UNCHANGED <<twinRest, requests>>

-----------------------------------------------------------------------------
(* uAMQP and the service *)

LinksChange ==
  /\ Idle
  /\ on_message_sender_state_changed_callback \/ amqp_on_message_receiver_state_changed_callback
  /\ Follows
  /\ UNCHANGED <<work, twinRest, requests>>

RequestSettles ==
  /\ Idle
  /\ \E op \in Ctxs(Handed), ok \in BOOLEAN :
       /\ on_send_complete_callback(op, ok)
       /\ atService' = IF ok THEN atService \cup {create_amqp_message_for_twin_operation(op)} ELSE atService
  /\ UNCHANGED <<work, followVars, callbackSet, pending_patches, serviceSubscribed, twinStarts, requests>>

\* mutant: the answer to a patch leaves it among the operations.
AnswerKeepsPatch(op, ok) ==
  LET t == [Twin EXCEPT !.told = TellTwin(@, Caller(op), IF ok THEN "ok" ELSE "failed"),
                        !.ops = IF op.type = "PATCH" THEN @ ELSE WithoutOp(@, op)] IN
    CASE op.type = "GET" /\ subscription_state = "GETTING" /\ ok -> [t EXCEPT !.sub = "SUBSCRIBE", !.errors = 0]
      [] op.type = "GET" /\ subscription_state = "GETTING" /\ ~ok -> [t EXCEPT !.sub = "GET", !.errors = Counted(@)]
      [] OTHER -> t

\* The answer to a PUT is looked at in state SUBSCRIBED only, where none is waited for.
on_amqp_message_received_callback(op, ok) ==
  LET t == [Twin EXCEPT !.told = TellTwin(@, Caller(op), IF ok THEN "ok" ELSE "failed"),
                        !.ops = WithoutOp(@, op)] IN
    CASE op.type = "GET" /\ subscription_state = "GETTING" /\ ok -> [t EXCEPT !.sub = "SUBSCRIBE", !.errors = 0]
      [] op.type = "GET" /\ subscription_state = "GETTING" /\ ~ok -> [t EXCEPT !.sub = "GET", !.errors = Counted(@)]
      [] OTHER -> t

\* An answer that cannot be read, or to a request that was given up, belongs to none.
parse_incoming_twin_message(request, readable) ==
  {op \in Ops : readable /\ op.id = request.correlation_id}

\* The service answers a request; a successful PUT subscribes.
ServiceAnswers ==
  /\ Idle /\ receiver = "OPEN"
  /\ \E request \in atService, ok, readable \in BOOLEAN :
       /\ atService' = atService \ {request}
       /\ serviceSubscribed' = (serviceSubscribed \/ (ok /\ request.operation = "PUT"))
       /\ LET found == parse_incoming_twin_message(request, readable) IN
            Becomes(IF found = {} THEN Twin
                    ELSE on_amqp_message_received_callback(CHOOSE op \in found : TRUE, ok))
  /\ calls' = <<>>
  /\ UNCHANGED <<amqpLinks, send_queue, work, callbackSet, pending_patches, twinStarts, requests>>

-----------------------------------------------------------------------------

\* twin_messenger_create
TwinInit ==
  /\ AmqpInit
  /\ work = "idle" /\ twinState = "STOPPED" /\ amqp_msgr_state = "STOPPED"
  /\ amqp_msgr_is_subscribed = FALSE /\ subscription_state = "NOT"
  /\ subscription_error_count = 0 /\ callbackSet = FALSE /\ pending_patches = <<>>
  /\ operations = <<>> /\ atService = {} /\ serviceSubscribed = FALSE /\ twinStarts = 0 /\ requests = 0
  /\ twinTold = [c \in TwinPatches \cup {0} |-> "new"]

TwinNext ==
  \/ twin_messenger_report_state_async \/ twin_messenger_get_twin_async
  \/ twin_messenger_subscribe \/ twin_messenger_unsubscribe
  \/ twin_messenger_start \/ twin_messenger_stop
  \/ twin_messenger_destroy \/ internal_twin_messenger_destroy
  \/ twin_messenger_do_work \/ send_pending_twin_patch \/ process_twin_subscription
  \/ process_timeouts \/ AmqpWorks
  \/ LinksChange \/ RequestSettles \/ ServiceAnswers

TwinSpec == TwinInit /\ [][TwinNext]_twinVars

-----------------------------------------------------------------------------
(* Properties *)

\* Every accepted report waits, is an operation, or its caller was told, once, however
\* answers, timeouts, failed sends, restarts and destroy fall together.
PatchesToldOnce ==
  /\ \A c \in DOMAIN twinTold : twinTold[c] # "twice"
  /\ {p \in TwinPatches : twinTold[p] = "held"}
       = Range(pending_patches) \cup {op.patch : op \in {o \in Ops : o.type = "PATCH"}}

\* The two messengers agree: a started one has its links, a stopped one can be started
\* again, and one that was destroyed has left no link, whatever state it was in.
MessengersAgree ==
  /\ twinState = "STARTED" => amqpState = "STARTED" /\ receiver = "OPEN"
  /\ twinState = "STOPPED" => amqpState = "STOPPED" /\ ~amqp_msgr_is_subscribed
  /\ twinState = "gone" => sender = "none" /\ receiver = "none"
  /\ twinState # "STOPPING"

\* A request the messenger below may still call back about is an operation, as its context
\* is freed with the operation.
RequestsAreOperations == Ctxs(Queued) \subseteq Ops

\* Once everything sent was answered, a client that unsubscribed gets no more updates.
UnsubscribeEnds ==
  subscription_state = "UNSUBSCRIBING" /\ Ops = {} /\ atService = {} => ~serviceSubscribed

\* What holds of the twin messenger, its operations and the messenger below it.
TwinSound == PatchesToldOnce /\ MessengersAgree /\ RequestsAreOperations
=============================================================================
