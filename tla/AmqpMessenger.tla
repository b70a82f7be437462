---------------------------- MODULE AmqpMessenger ----------------------------
(***************************************************************************)
(* The generic messenger of the AMQP transport,                               *)
(* iothubtransport_amqp_messenger.c: a sender and a receiver link and a queue  *)
(* of messages to send.  AmqpTwin composes it with the messenger of twins that *)
(* sits on top of it; calls holds the callbacks a step makes, in their order.  *)
(*                                                                         *)
(* The queue is message_queue.c, which MessageQueue models in detail, with no  *)
(* retries and no limit on the time of processing.                             *)
(***************************************************************************)
EXTENDS Naturals, Sequences, FiniteSets, SequencesExt

CONSTANT MaxSendErrors  \* max_send_error_count

VARIABLES
  amqpState,        \* AMQP_MESSENGER_INSTANCE.state
  sender, receiver, \* state of message_sender and message_receiver, or "none"
  send_queue,       \* of [ctx, handed]: user_context, and whether the sender has it
  send_error_count,
  calls             \* callbacks made by the last step

amqpVars == <<amqpState, sender, receiver, send_queue, send_error_count, calls>>

StateCall(s) == IF s = amqpState THEN <<>> ELSE <<[call |-> "state", arg |-> s]>>
SubscriptionCall(b) == <<[call |-> "subscription", arg |-> b]>>
SendCalls(ctxs) == SetToSeq({[call |-> "send_failed", arg |-> c] : c \in ctxs})

Handed == {n \in DOMAIN send_queue : send_queue[n].handed}
Queued == DOMAIN send_queue \ Handed
Ctxs(indices) == {send_queue[n].ctx : n \in indices}
Removing(ctxs) ==
  FlattenSeq([n \in DOMAIN send_queue |-> IF send_queue[n].ctx \in ctxs THEN <<>> ELSE <<send_queue[n]>>])

\* Limits the count of consecutive errors, which only matters up to the limit.
Failed(n) == IF send_error_count + n >= MaxSendErrors THEN MaxSendErrors ELSE send_error_count + n

\* message_queue_add takes a message in any state.
amqp_messenger_send_async(ctx) ==
  send_queue' = Append(send_queue, [ctx |-> ctx, handed |-> FALSE])

amqp_messenger_start ==
  /\ amqpState = "STOPPED" /\ amqpState' = "STARTING" /\ calls' = StateCall("STARTING")
  /\ UNCHANGED <<sender, receiver, send_queue, send_error_count>>

\* What the sender has fails when it is destroyed, the rest stays in the queue.  An open
\* receiver reports that it closes.
destroy_message_sender ==
  /\ sender' = "none"
  /\ send_queue' = Removing(Ctxs(Handed))
  /\ send_error_count' = Failed(Cardinality(Handed))
amqp_destroy_message_receiver == receiver' = "none"

amqp_messenger_stop ==
  /\ amqpState # "STOPPED"
  /\ destroy_message_sender /\ amqp_destroy_message_receiver
  /\ \E end \in {"STOPPED", "ERROR"} :  \* may the queue be put back?
       /\ amqpState' = end
       /\ calls' = StateCall("STOPPING")
                   \o (IF receiver = "OPEN" THEN SubscriptionCall(FALSE) ELSE <<>>)
                   \o <<[call |-> "state", arg |-> end]>>

\* late: an OPENING link has taken too long.
amqp_process_state_changes(late) ==
  CASE amqpState = "STARTED" /\ sender # "OPEN" -> "ERROR"
    [] amqpState = "STARTED" /\ sender = "OPEN" ->
         IF receiver \in {"ERROR", "IDLE"} \/ (receiver = "OPENING" /\ late) THEN "ERROR"
         ELSE "STARTED"
    [] amqpState = "STARTING" /\ sender = "OPEN" -> "STARTED"
    [] amqpState = "STARTING" /\ (sender \in {"ERROR", "CLOSING", "IDLE"}
                                  \/ (sender = "OPENING" /\ late)) -> "ERROR"
    [] OTHER -> amqpState

\* manage_amqp_messengers: a sender when starting, a receiver when started.
create_message_sender == sender' \in {"none", "IDLE"}
amqp_create_message_receiver == receiver' \in {"none", "IDLE"}
ManagesSender(next) ==
  IF next = "STARTING" /\ sender = "none" THEN create_message_sender ELSE UNCHANGED sender
ManagesReceiver(next) ==
  IF next = "STARTED" /\ receiver = "none" THEN amqp_create_message_receiver ELSE UNCHANGED receiver

\* Hands queued messages to the sender; those in failing are refused and called back.
\* Messages in expired waited too long and are called back too.
message_queue_do_work(failing, expired) ==
  /\ send_queue' = [n \in 1..Len(Removing(failing \cup expired)) |->
                      [ctx |-> Removing(failing \cup expired)[n].ctx, handed |-> TRUE]]
  /\ send_error_count' = Failed(Cardinality(failing \cup expired))

\* amqp_messenger_do_work in a state that is not STARTED after its links were looked at.
WorksUnstarted ==
  \E late \in BOOLEAN : LET next == amqp_process_state_changes(late) IN
    /\ next # "STARTED"
    /\ ManagesSender(next) /\ UNCHANGED receiver
    /\ LET created == next = "STARTING" /\ sender = "none" /\ sender' = "none"
           end == IF created \/ send_error_count >= MaxSendErrors THEN "ERROR" ELSE next IN
         amqpState' = end /\ calls' = StateCall(end)
    /\ UNCHANGED <<send_queue, send_error_count>>

\* And in state STARTED; handle_errors_and_timeouts ends it.
AmqpWorksStarted(expired) ==
  /\ \E late \in BOOLEAN : amqp_process_state_changes(late) = "STARTED"
  /\ ManagesReceiver("STARTED") /\ UNCHANGED sender
  /\ \E failing \in SUBSET (Ctxs(Queued) \ expired) :
       /\ message_queue_do_work(failing, expired)
       /\ amqpState' = IF send_error_count' >= MaxSendErrors THEN "ERROR" ELSE "STARTED"
       /\ calls' = StateCall("STARTED") \o SendCalls(failing \cup expired)
                   \o (IF amqpState' = "ERROR" THEN <<[call |-> "state", arg |-> "ERROR"]>> ELSE <<>>)

\* uAMQP: links open, fail and close.
on_message_sender_state_changed_callback ==
  /\ \/ sender = "IDLE" /\ sender' = "OPENING"
     \/ sender = "OPENING" /\ sender' \in {"OPEN", "ERROR"}
     \/ sender = "OPEN" /\ sender' \in {"ERROR", "CLOSING"}
  /\ calls' = <<>>
  /\ UNCHANGED <<amqpState, receiver, send_queue, send_error_count>>

amqp_on_message_receiver_state_changed_callback ==
  /\ \/ receiver = "IDLE" /\ receiver' = "OPENING" /\ calls' = <<>>
     \/ receiver = "OPENING" /\ receiver' = "OPEN" /\ calls' = SubscriptionCall(TRUE)
     \/ receiver = "OPENING" /\ receiver' = "ERROR" /\ calls' = <<>>
     \/ receiver = "OPEN" /\ receiver' = "ERROR" /\ calls' = SubscriptionCall(FALSE)
  /\ UNCHANGED <<amqpState, sender, send_queue, send_error_count>>

\* A message the sender has is settled.  Its context says "destroyed", so whoever sent it
\* is not called back, and only the errors are counted.
on_send_complete_callback(ctx, ok) ==
  /\ ctx \in Ctxs(Handed)
  /\ send_queue' = Removing({ctx})
  /\ send_error_count' = IF ok THEN 0 ELSE Failed(1)
  /\ calls' = <<>>
  /\ UNCHANGED <<amqpState, sender, receiver>>

\* amqp_messenger_create
AmqpInit ==
  /\ amqpState = "STOPPED" /\ sender = "none" /\ receiver = "none"
  /\ send_queue = <<>> /\ send_error_count = 0 /\ calls = <<>>
=============================================================================
