---------------------------- MODULE ClientCoreLL ----------------------------
(***************************************************************************)
(* The sending half of iothub_client_core_ll.c: telemetry in waitingToSend, *)
(* reported states in iot_msg_queue and iot_ack_queue, the timeouts, DoWork *)
(* and Destroy.  The layer is single threaded; IoTHubClientCore_LL_DoWork   *)
(* is cut at every callback and call into the transport (`pc`), because     *)
(* user callbacks call back into IoTHubClientCore_LL_SendEventAsync; so is  *)
(* IoTHubClientCore_LL_Destroy, which makes callbacks while it goes through  *)
(* one list after the other.                                                *)
(*                                                                          *)
(* The transport is external here: it takes messages from the head of       *)
(* waitingToSend, may put them back (HTTP), and completes what it holds.    *)
(* tickcounter_ms_t is unsigned: differences wrap at TickModulus.           *)
(***************************************************************************)
EXTENDS Integers, Sequences, SequencesExt, FiniteSets

CONSTANTS
  Messages,       \* messages given to SendEventAsync, each at most once
  Reports,        \* reported states given to SendReportedState
  Timeouts,       \* values of the option messageTimeout (0 disables it)
  StartTick,      \* the tick counter when the client is created
  MaxTick,        \* bound on the tick counter
  TickModulus,    \* ticks wrap here
  MaxItemId,      \* UINT32_MAX
  FaultsHappen,   \* whether the tick counter can fail
  FaultyIds       \* SendReportedState can fail while data_msg_id is one of these: a
                  \* bound on the ids that failures lose

ASSUME CoreAssumption ==
  /\ Timeouts \subseteq Nat
  /\ MaxTick \in Nat /\ StartTick \in 0..MaxTick
  /\ TickModulus \in Nat /\ TickModulus > MaxTick
  /\ \A t \in Timeouts : t < TickModulus
  /\ MaxItemId \in Nat /\ MaxItemId > 1
  /\ FaultsHappen \in BOOLEAN
  /\ FaultyIds \subseteq Nat

\* Fewer states are reported, lost ones included, than there are ids before data_msg_id
\* starts again from 1: an id is unique for as long as that.
ASSUME IdsAssumption ==
  /\ IsFiniteSet(Reports) /\ IsFiniteSet(FaultyIds)
  /\ Cardinality(Reports) + Cardinality(FaultyIds) <= MaxItemId - 1

End == "end of list"
ASSUME EndAssumption == End \notin Messages

VARIABLES
  waitingToSend,          \* messages not yet taken by the transport
  ms_timesOutAfter,       \* tick of SendEventAsync, 0: never times out
  message_timeout_value,
  currentMessageTimeout,
  now,                    \* the tick counter
  nowTick, item,          \* DoTimeouts: its clock reading and list position
  iot_msg_queue, iot_ack_queue, item_id, data_msg_id,
  pc,                     \* where IoTHubClientCore_LL_DoWork stands
  held,                   \* messages the transport has taken
  sent_tick,              \* history: when SendEventAsync accepted a message
  verdict,                \* history: the confirmations each message got
  answered,               \* history: callbacks each reported state got
  tooLate,                \* history: messages sent after Destroy drained waitingToSend
  untold                  \* history: reported states that were accepted and get no
                          \* callback: the transport refused them in ProcessItem, or they
                          \* were reported after Destroy drained iot_msg_queue

telemetry == <<waitingToSend, ms_timesOutAfter, message_timeout_value, held,
               sent_tick, verdict, tooLate>>
twin == <<iot_msg_queue, iot_ack_queue, item_id, data_msg_id, answered, untold>>
vars == <<waitingToSend, ms_timesOutAfter, message_timeout_value,
          currentMessageTimeout, now, nowTick, item, iot_msg_queue, iot_ack_queue,
          item_id, data_msg_id, pc, held, sent_tick, verdict, answered, tooLate, untold>>

\* Destroy unregisters the device, then drains three lists; after an item of a phase was
\* told, pc is the second of the two.
Unregistering == {"unregister", "unregisterCall"}
DrainingMessages == {"messages", "messagesCall"}
DrainingStates == {"states", "statesCall"}
DrainingAcks == {"acks", "acksCall"}

Pcs == {"idle", "timeouts", "callback", "twin", "transport", "destroyed"}
         \cup Unregistering \cup DrainingMessages \cup DrainingStates \cup DrainingAcks

\* The application runs between calls of DoWork, in the timeout callbacks, in the callbacks
\* the transport makes and in those that Destroy makes.
ApplicationRuns ==
  pc \in {"idle", "callback", "transport",
          "unregisterCall", "messagesCall", "statesCall", "acksCall"}

Never == -1     \* sent_tick of a message that was not accepted

-----------------------------------------------------------------------------
(* IoTHubClientCore_LL_SendEventAsync *)

\* The message is stamped with the current tick when a timeout is set.
attach_ms_timesOutAfter(m) ==
  /\ ms_timesOutAfter' =
       [ms_timesOutAfter EXCEPT ![m] = IF currentMessageTimeout = 0 THEN 0 ELSE now]
  /\ message_timeout_value' = [message_timeout_value EXCEPT ![m] = currentMessageTimeout]

SendInFront(m) == \* mutant: the new entry is inserted at the head
  /\ ApplicationRuns
  /\ sent_tick[m] = Never
  /\ attach_ms_timesOutAfter(m)
  /\ waitingToSend' = <<m>> \o waitingToSend
  /\ sent_tick' = [sent_tick EXCEPT ![m] = now]
  /\ UNCHANGED <<tooLate, held, verdict, twin, currentMessageTimeout, now, nowTick, item, pc>>

\* A failed allocation or clock reading queues nothing: a stuttering step.
IoTHubClientCore_LL_SendEventAsync(m) ==
  /\ ApplicationRuns
  /\ sent_tick[m] = Never
  /\ attach_ms_timesOutAfter(m)
  /\ waitingToSend' = Append(waitingToSend, m)
  /\ sent_tick' = [sent_tick EXCEPT ![m] = now]
  /\ tooLate' = IF pc \in {"statesCall", "acksCall"} THEN tooLate \cup {m} ELSE tooLate
  /\ UNCHANGED <<held, verdict, twin, currentMessageTimeout, now, nowTick, item, pc>>

\* IoTHubClientCore_LL_SetOption(OPTION_MESSAGE_TIMEOUT)
SetMessageTimeout ==
  /\ ApplicationRuns
  /\ currentMessageTimeout' \in Timeouts
  /\ UNCHANGED <<telemetry, twin, now, nowTick, item, pc>>

-----------------------------------------------------------------------------
(* IoTHubClientCore_LL_SendReportedState and its completion *)

SameItemId == data_msg_id \* mutant: the id is not advanced
IdNeverWraps == data_msg_id + 1 \* mutant: the limit is not checked

get_next_item_id == IF data_msg_id + 1 >= MaxItemId THEN 1 ELSE data_msg_id + 1

\* Once the transport is unregistered the subscription is asked of a handle that Destroy
\* may have freed: what that does is undefined, and here it succeeds or fails.
IoTHubClientCore_LL_SendReportedState(r) ==
  /\ ApplicationRuns
  /\ item_id[r] = 0
  /\ data_msg_id' = get_next_item_id
  /\ \/ /\ item_id' = [item_id EXCEPT ![r] = data_msg_id']
        /\ iot_msg_queue' = Append(iot_msg_queue, r)
        /\ untold' = IF pc = "acksCall" THEN untold \cup {r} ELSE untold
     \/ /\ data_msg_id \in FaultyIds      \* allocation or subscription fails: the id is lost
        /\ UNCHANGED <<item_id, iot_msg_queue, untold>>
  /\ UNCHANGED <<telemetry, iot_ack_queue, answered, currentMessageTimeout, now,
                 nowTick, item, pc>>

\* The first item of the ack queue with this id is answered and removed.  The transport
\* answers in its DoWork, and when it is unregistered.
IoTHubClientCore_LL_ReportedStateComplete(id) ==
  /\ pc \in {"transport"} \cup Unregistering
  /\ pc' = IF pc = "transport" THEN pc ELSE "unregisterCall"
  /\ \E i \in DOMAIN iot_ack_queue :
       /\ item_id[iot_ack_queue[i]] = id
       /\ \A j \in 1..(i - 1) : item_id[iot_ack_queue[j]] # id
       /\ answered' = [answered EXCEPT ![iot_ack_queue[i]] = @ + 1]
       /\ iot_ack_queue' = RemoveAt(iot_ack_queue, i)
  /\ UNCHANGED <<telemetry, iot_msg_queue, item_id, data_msg_id, untold,
                 currentMessageTimeout, now, nowTick, item>>

-----------------------------------------------------------------------------
(* IoTHubClientCore_LL_DoWork *)

FirstOf(s) == IF s = <<>> THEN End ELSE Head(s)
PositionOf(s, m) == CHOOSE i \in DOMAIN s : s[i] = m
\* entry->Flink
NextOf(s, m) == IF PositionOf(s, m) = Len(s) THEN End ELSE s[PositionOf(s, m) + 1]

DoWorkBusy == \* mutant: no timeouts while the transport holds messages
  /\ pc = "idle"
  /\ pc' = IF held = <<>> THEN "timeouts" ELSE "twin"
  /\ nowTick' = now
  /\ item' = FirstOf(waitingToSend)
  /\ UNCHANGED <<telemetry, twin, currentMessageTimeout, now>>

DoWork ==
  /\ pc = "idle"
  /\ \/ /\ pc' = "timeouts"
        /\ nowTick' = now
        /\ item' = FirstOf(waitingToSend)
     \/ /\ FaultsHappen      \* the tick counter fails: no timeouts
        /\ pc' = "twin"
        /\ UNCHANGED <<nowTick, item>>
  /\ UNCHANGED <<telemetry, twin, currentMessageTimeout, now>>

\* (nowTick - ms_timesOutAfter) > message_timeout_value, on unsigned integers.
Expired(m) ==
  /\ ms_timesOutAfter[m] # 0
  /\ (nowTick - ms_timesOutAfter[m]) % TickModulus > message_timeout_value[m]

Confirm(S, result) ==
  verdict' = [m \in Messages |-> IF m \in S THEN Append(verdict[m], result) ELSE verdict[m]]

TimeoutKeepsEntry == \* mutant: the entry is confirmed but not removed
  /\ pc = "timeouts" /\ item # End /\ Expired(item)
  /\ Confirm({item}, "TIMEOUT")
  /\ item' = NextOf(waitingToSend, item)
  /\ pc' = "callback"
  /\ UNCHANGED <<waitingToSend, ms_timesOutAfter, message_timeout_value, held, sent_tick, tooLate,
                 twin, currentMessageTimeout, now, nowTick>>

TimeoutLateNext == \* mutant: the position is left on the entry that is freed
  /\ pc = "timeouts" /\ item # End /\ Expired(item)
  /\ waitingToSend' = RemoveAt(waitingToSend, PositionOf(waitingToSend, item))
  /\ Confirm({item}, "TIMEOUT")
  /\ pc' = "callback"
  /\ UNCHANGED <<ms_timesOutAfter, message_timeout_value, held, sent_tick, tooLate, twin,
                 currentMessageTimeout, now, nowTick, item>>

\* One turn of DoTimeouts on an expired entry; the next entry is saved first.
TimeoutExpired ==
  /\ pc = "timeouts"
  /\ item # End
  /\ Expired(item)
  /\ item' = NextOf(waitingToSend, item)
  /\ waitingToSend' = RemoveAt(waitingToSend, PositionOf(waitingToSend, item))
  /\ Confirm({item}, "TIMEOUT")
  /\ pc' = "callback"
  /\ UNCHANGED <<ms_timesOutAfter, message_timeout_value, held, sent_tick, tooLate, twin,
                 currentMessageTimeout, now, nowTick>>

TimeoutCallbackReturns ==
  /\ pc = "callback"
  /\ pc' = "timeouts"
  /\ UNCHANGED <<telemetry, twin, currentMessageTimeout, now, nowTick, item>>

TimeoutStopsEarly == \* mutant: the scan ends at the first entry not expired
  /\ pc = "timeouts" /\ item # End /\ ~Expired(item)
  /\ item' = End
  /\ UNCHANGED <<telemetry, twin, currentMessageTimeout, now, nowTick, pc>>

TimeoutSkips ==
  /\ pc = "timeouts"
  /\ item # End
  /\ ~Expired(item)
  /\ item' = NextOf(waitingToSend, item)
  /\ UNCHANGED <<telemetry, twin, currentMessageTimeout, now, nowTick, pc>>

TimeoutsDone ==
  /\ pc = "timeouts"
  /\ item = End
  /\ pc' = "twin"
  /\ nowTick' = 0      \* a local variable of DoTimeouts
  /\ UNCHANGED <<telemetry, twin, currentMessageTimeout, now, item>>

\* IoTHubTransport_ProcessItem on the head of iot_msg_queue.
ProcessItem ==
  /\ pc = "twin"
  /\ iot_msg_queue # <<>>
  /\ \/ /\ iot_ack_queue' = Append(iot_ack_queue, Head(iot_msg_queue))  \* PROCESS_OK
        /\ iot_msg_queue' = Tail(iot_msg_queue)
        /\ UNCHANGED <<pc, untold>>
     \/ /\ iot_msg_queue' = Tail(iot_msg_queue)                        \* PROCESS_ERROR
        /\ untold' = untold \cup {Head(iot_msg_queue)}
        /\ UNCHANGED <<iot_ack_queue, pc>>
     \/ /\ pc' = "transport"                       \* PROCESS_CONTINUE, NOT_CONNECTED
        /\ UNCHANGED <<iot_msg_queue, iot_ack_queue, untold>>
  /\ UNCHANGED <<telemetry, item_id, data_msg_id, answered, currentMessageTimeout,
                 now, nowTick, item>>

TwinDone ==
  /\ pc = "twin"
  /\ iot_msg_queue = <<>>
  /\ pc' = "transport"
  /\ UNCHANGED <<telemetry, twin, currentMessageTimeout, now, nowTick, item>>

\* IoTHubTransport_DoWork (external): it takes, puts back and completes messages.
TransportTakes ==
  /\ pc = "transport"
  /\ waitingToSend # <<>>
  /\ held' = Append(held, Head(waitingToSend))
  /\ waitingToSend' = Tail(waitingToSend)
  /\ UNCHANGED <<ms_timesOutAfter, message_timeout_value, sent_tick, verdict, tooLate, twin,
                 currentMessageTimeout, now, nowTick, item, pc>>

TransportReturns ==
  /\ pc = "transport"
  /\ held # <<>>
  /\ waitingToSend' = <<Last(held)>> \o waitingToSend
  /\ held' = Front(held)
  /\ UNCHANGED <<ms_timesOutAfter, message_timeout_value, sent_tick, verdict, tooLate, twin,
                 currentMessageTimeout, now, nowTick, item, pc>>

\* IoTHubClientCore_LL_SendComplete, called with some of the messages held.
IoTHubClientCore_LL_SendComplete(i, result) ==
  /\ pc = "transport"
  /\ held' = RemoveAt(held, i)
  /\ Confirm({held[i]}, result)
  /\ UNCHANGED <<waitingToSend, ms_timesOutAfter, message_timeout_value, sent_tick, tooLate, twin,
                 currentMessageTimeout, now, nowTick, item, pc>>

TransportDone ==
  /\ pc = "transport"
  /\ pc' = "idle"
  /\ UNCHANGED <<telemetry, twin, currentMessageTimeout, now, nowTick, item>>

-----------------------------------------------------------------------------

(* IoTHubClientCore_LL_Destroy *)

\* The application destroys the client between its calls of DoWork.
DestroyBegins ==
  /\ pc = "idle"
  /\ pc' = "unregister"
  /\ UNCHANGED <<telemetry, twin, currentMessageTimeout, now, nowTick, item>>

\* IoTHubTransport_Unregister and IoTHubTransport_Destroy (external): what the transport
\* holds is completed.
UnregisterCompletes ==
  /\ pc \in Unregistering
  /\ held # <<>>
  /\ held' = RemoveAt(held, 1)
  /\ Confirm({held[1]}, "BECAUSE_DESTROY")
  /\ pc' = "unregisterCall"
  /\ UNCHANGED <<waitingToSend, ms_timesOutAfter, message_timeout_value, sent_tick, tooLate,
                 twin, currentMessageTimeout, now, nowTick, item>>

\* The head of waitingToSend is removed and told.
DestroyConfirms ==
  /\ pc \in DrainingMessages
  /\ waitingToSend # <<>>
  /\ waitingToSend' = RemoveAt(waitingToSend, 1)
  /\ Confirm({waitingToSend[1]}, "BECAUSE_DESTROY")
  /\ pc' = "messagesCall"
  /\ UNCHANGED <<held, ms_timesOutAfter, message_timeout_value, sent_tick, tooLate, twin,
                 currentMessageTimeout, now, nowTick, item>>

\* The head of iot_msg_queue is removed and told.
DestroyAnswersState ==
  /\ pc \in DrainingStates
  /\ iot_msg_queue # <<>>
  /\ iot_msg_queue' = RemoveAt(iot_msg_queue, 1)
  /\ answered' = [answered EXCEPT ![iot_msg_queue[1]] = @ + 1]
  /\ pc' = "statesCall"
  /\ UNCHANGED <<telemetry, iot_ack_queue, item_id, data_msg_id, untold,
                 currentMessageTimeout, now, nowTick, item>>

DestroyForgetsAck == \* mutant: the ack queue is freed without its callbacks
  /\ pc \in DrainingAcks
  /\ iot_ack_queue # <<>>
  /\ iot_ack_queue' = RemoveAt(iot_ack_queue, 1)
  /\ UNCHANGED <<telemetry, iot_msg_queue, item_id, data_msg_id, untold, answered, pc,
                 currentMessageTimeout, now, nowTick, item>>

\* The head of iot_ack_queue is removed and told.
DestroyAnswersAck ==
  /\ pc \in DrainingAcks
  /\ iot_ack_queue # <<>>
  /\ iot_ack_queue' = RemoveAt(iot_ack_queue, 1)
  /\ answered' = [answered EXCEPT ![iot_ack_queue[1]] = @ + 1]
  /\ pc' = "acksCall"
  /\ UNCHANGED <<telemetry, iot_msg_queue, item_id, data_msg_id, untold,
                 currentMessageTimeout, now, nowTick, item>>

\* A list that is empty is not looked at again.
DestroyGoesOn ==
  /\ \/ pc \in Unregistering /\ held = <<>> /\ pc' = "messages"
     \/ pc \in DrainingMessages /\ waitingToSend = <<>> /\ pc' = "states"
     \/ pc \in DrainingStates /\ iot_msg_queue = <<>> /\ pc' = "acks"
     \/ pc \in DrainingAcks /\ iot_ack_queue = <<>> /\ pc' = "destroyed"
  /\ UNCHANGED <<telemetry, twin, currentMessageTimeout, now, nowTick, item>>

IoTHubClientCore_LL_Destroy ==
  \/ UnregisterCompletes \/ DestroyConfirms
  \/ DestroyAnswersState \/ DestroyAnswersAck \/ DestroyGoesOn

\* Time also passes inside the callbacks of DoTimeouts; Destroy does not look at it.
Tick ==
  /\ now < MaxTick
  /\ pc \in {"idle", "timeouts", "callback", "twin", "transport"}
  /\ now' = now + 1
  /\ UNCHANGED <<telemetry, twin, currentMessageTimeout, nowTick, item, pc>>

\* initialize_iothub_client
Init ==
  /\ waitingToSend = <<>>
  /\ ms_timesOutAfter = [m \in Messages |-> 0]
  /\ message_timeout_value = [m \in Messages |-> 0]
  /\ currentMessageTimeout = 0
  /\ now = StartTick
  /\ nowTick = 0
  /\ item = End
  /\ iot_msg_queue = <<>>
  /\ iot_ack_queue = <<>>
  /\ item_id = [r \in Reports |-> 0]
  /\ data_msg_id = 1
  /\ pc = "idle"
  /\ held = <<>>
  /\ sent_tick = [m \in Messages |-> Never]
  /\ verdict = [m \in Messages |-> <<>>]
  /\ answered = [r \in Reports |-> 0]
  /\ tooLate = {}
  /\ untold = {}

DoTimeouts == TimeoutExpired \/ TimeoutCallbackReturns \/ TimeoutSkips \/ TimeoutsDone
TransportWork ==
  \/ TransportTakes
  \/ TransportReturns
  \/ \E i \in DOMAIN held, result \in {"OK", "ERROR"} :
       IoTHubClientCore_LL_SendComplete(i, result)
  \/ \E r \in Reports : IoTHubClientCore_LL_ReportedStateComplete(item_id[r])

Next ==
  \/ \E m \in Messages : IoTHubClientCore_LL_SendEventAsync(m)
  \/ \E r \in Reports : IoTHubClientCore_LL_SendReportedState(r)
  \/ SetMessageTimeout
  \/ DoWork \/ DoTimeouts \/ ProcessItem \/ TwinDone
  \/ TransportWork \/ TransportDone
  \/ DestroyBegins \/ IoTHubClientCore_LL_Destroy
  \/ Tick

Spec == Init /\ [][Next]_vars

\* The application keeps calling DoWork, every call returns, the tick counter does not
\* fail for ever, and time passes; nothing is assumed of the transport but that its
\* DoWork returns.
FairSpec ==
  /\ Spec
  /\ SF_vars(DoWork /\ pc' = "timeouts")
  /\ WF_vars(DoWork) /\ WF_vars(DoTimeouts \/ ProcessItem \/ TwinDone)
  /\ WF_vars(TransportDone) /\ WF_vars(IoTHubClientCore_LL_Destroy) /\ WF_vars(Tick)

-----------------------------------------------------------------------------
(* Properties *)

Verdicts == {"OK", "ERROR", "TIMEOUT", "BECAUSE_DESTROY"}

\* The types of the lists and their items; item ids stay below UINT32_MAX and data_msg_id
\* is never 0.
TypeOK ==
  /\ waitingToSend \in Seq(Messages)
  /\ held \in Seq(Messages)
  /\ ms_timesOutAfter \in [Messages -> Nat]
  /\ message_timeout_value \in [Messages -> Timeouts \cup {0}]
  /\ currentMessageTimeout \in Timeouts \cup {0}
  /\ now \in Nat /\ nowTick \in Nat
  /\ item \in Messages \cup {End}
  /\ iot_msg_queue \in Seq(Reports)
  /\ iot_ack_queue \in Seq(Reports)
  /\ item_id \in [Reports -> 0..(MaxItemId - 1)]
  /\ data_msg_id \in 1..(MaxItemId - 1)
  /\ pc \in Pcs
  /\ sent_tick \in [Messages -> {Never} \cup Nat]
  /\ verdict \in [Messages -> Seq(Verdicts)]
  /\ answered \in [Reports -> Nat]
  /\ tooLate \subseteq Messages /\ untold \subseteq Reports

\* Every accepted message is in waitingToSend, with the transport, or confirmed, in
\* exactly one of the three, and confirmed once: whatever timeouts, put-backs,
\* completions and Destroy do.
ConfirmedExactlyOnce ==
  /\ IsInjective(waitingToSend \o held)
  /\ \A m \in Messages :
       Len(verdict[m]) =
         IF sent_tick[m] = Never \/ m \in Range(waitingToSend) \cup Range(held) THEN 0 ELSE 1

\* The list position of DoTimeouts never dangles: the saved next entry is still in
\* waitingToSend after the callback returned.
ScanPositionValid ==
  pc \in {"timeouts", "callback"} => item \in Range(waitingToSend) \cup {End}

\* After DoTimeouts every entry left in waitingToSend was within its timeout at the
\* clock reading of the scan, or was added by a callback during it, or never expires.
ScanComplete ==
  [][pc = "timeouts" /\ pc' = "twin" =>
       \A m \in Range(waitingToSend) :
         ms_timesOutAfter[m] > 0 =>
           ms_timesOutAfter[m] >= nowTick - message_timeout_value[m]]_vars

\* Messages reach the transport in the order in which they were sent.
SentInOrder ==
  \A i, j \in DOMAIN waitingToSend :
    i < j => sent_tick[waitingToSend[i]] <= sent_tick[waitingToSend[j]]

\* No two reported states under way share an item id, so a completion answers the one
\* it is for; every state is answered at most once.
ReportedStatesTold ==
  /\ IsInjective(iot_msg_queue \o iot_ack_queue)
  /\ \A r, s \in Range(iot_msg_queue) \cup Range(iot_ack_queue) :
       item_id[r] = item_id[s] => r = s
  /\ \A r \in Reports : answered[r] <= 1
  /\ \A r \in Range(iot_msg_queue) \cup Range(iot_ack_queue) : answered[r] = 0

\* When the client is destroyed, every message it accepted was confirmed and every state it
\* accepted was answered, those of the callbacks that Destroy itself made included; except
\* what such a callback gave it after the list in question was drained, which stays in the
\* list that is freed, and the states the transport refused.
NothingForgotten ==
  [](pc = "destroyed" =>
       /\ \A m \in Messages : sent_tick[m] # Never => Len(verdict[m]) = 1 \/ m \in tooLate
       /\ \A r \in Reports : item_id[r] # 0 => answered[r] = 1 \/ r \in untold)

\* A message with a timeout is confirmed or taken by the transport, even if the
\* transport never takes anything.
WaitingEnds ==
  \A m \in Messages :
    m \in Range(waitingToSend) /\ ms_timesOutAfter[m] > 0
      /\ ms_timesOutAfter[m] + message_timeout_value[m] < MaxTick
      ~> m \notin Range(waitingToSend) \/ pc = "destroyed"

\* SRS_IOTHUBCLIENT_LL_02_041: a message times out only when more than its timeout has
\* passed since SendEventAsync.
NoEarlyTimeout ==
  \A m \in Messages :
    "TIMEOUT" \in Range(verdict[m]) => now - sent_tick[m] > message_timeout_value[m]

\* What holds of the lists of the client while DoWork, its callbacks, the transport's answers
\* and SendEventAsync or SendReportedState take turns.
ListsSound == TypeOK /\ ConfirmedExactlyOnce /\ ScanPositionValid /\ ReportedStatesTold /\ SentInOrder

\* DoTimeouts and Destroy leave nothing behind, and a message with a timeout does not wait
\* for ever.
TimeoutsWork == ScanComplete /\ NothingForgotten /\ WaitingEnds
=============================================================================
