------------------------- MODULE ClientCoreLLProofs -------------------------
(***************************************************************************)
(* Proofs about ClientCoreLL for any messages, any timeouts and any clock:  *)
(* the lists of iothub_client_core_ll.c keep every message and every        *)
(* reported state accounted for, DoTimeouts skips nothing, and Destroy      *)
(* forgets nothing.                                                         *)
(*                                                                         *)
(* The argument looks at what the layer and the transport hold as one list: *)
(* `Line` is held \o waitingToSend.  Taking a message and putting it back   *)
(* leave it as it is, so that every step appends to it, removes one item    *)
(* from it, or does not change it; the same for `Under`, the reported states *)
(* under way, which ProcessItem rotates.                                    *)
(***************************************************************************)
EXTENDS ClientCoreLL, SequenceFacts, FiniteSetTheorems

Line == held \o waitingToSend

\* Every message that was sent and is not in the line was confirmed, once, and the line is
\* in the order of sending.
Accounted ==
  /\ IsInjective(Line)
  /\ \A m \in Range(Line) : sent_tick[m] # Never /\ sent_tick[m] <= now
  /\ \A i, j \in DOMAIN Line : i < j => sent_tick[Line[i]] <= sent_tick[Line[j]]
  /\ \A m \in Messages :
       Len(verdict[m]) = IF sent_tick[m] = Never \/ m \in Range(Line) THEN 0 ELSE 1

Under == iot_msg_queue \o iot_ack_queue

\* A reported state is under way only after it got an id and before it is answered.
StatesUnderWay ==
  /\ IsInjective(Under)
  /\ \A r \in Range(Under) : item_id[r] # 0 /\ answered[r] = 0
  /\ \A r \in Reports : answered[r] <= 1 /\ (item_id[r] = 0 => answered[r] = 0)

Assigned == {r \in Reports : item_id[r] # 0}

\* Ids are distinct.  Every id up to data_msg_id went to a state or was lost by a failure;
\* when data_msg_id starts again every state has its id.
IdsDistinct ==
  /\ \A r, s \in Assigned : item_id[r] = item_id[s] => r = s
  /\ \/ /\ \A r \in Assigned : item_id[r] \in 2..data_msg_id
        /\ Cardinality(Assigned) + Cardinality(FaultyIds \cap 1..(data_msg_id - 1))
             >= data_msg_id - 1
     \/ Assigned = Reports

ClockOK == now \in 0..MaxTick /\ nowTick \in 0..now

\* m was within its timeout at the clock reading of the scan, or was sent after it.
Within(m) ==
  ms_timesOutAfter[m] > 0 => ms_timesOutAfter[m] >= nowTick - message_timeout_value[m]

\* What DoTimeouts has gone past is within its timeout.
ScanInv ==
  pc \in {"timeouts", "callback"} =>
    /\ item \in Range(waitingToSend) \cup {End}
    /\ \A i \in DOMAIN waitingToSend :
         (\A j \in 1..i : waitingToSend[j] # item) => Within(waitingToSend[i])

\* A list that Destroy has drained holds only what a callback of Destroy put there since.
DestroyOrder ==
  /\ pc \in DrainingMessages \cup DrainingStates \cup DrainingAcks \cup {"destroyed"} =>
       held = <<>>
  /\ pc \in DrainingStates \cup DrainingAcks \cup {"destroyed"} =>
       Range(waitingToSend) \subseteq tooLate
  /\ pc \in DrainingAcks \cup {"destroyed"} => Range(iot_msg_queue) \subseteq untold
  /\ pc = "destroyed" => iot_ack_queue = <<>>

\* A state that got an id is under way, was answered, or is known not to be answered.
StatesSettled ==
  \A r \in Reports : item_id[r] # 0 => r \in Range(Under) \/ answered[r] = 1 \/ r \in untold

CoreInv ==
  /\ TypeOK /\ ClockOK /\ Accounted /\ StatesUnderWay /\ IdsDistinct /\ ScanInv
  /\ DestroyOrder /\ StatesSettled

-----------------------------------------------------------------------------
(* The line *)

\* What the line is made of.
LEMMA LineFacts ==
  ASSUME TypeOK
  PROVE  /\ held \in Seq(Messages) /\ waitingToSend \in Seq(Messages) /\ Line \in Seq(Messages)
         /\ DOMAIN held = 1..Len(held) /\ Len(held) \in Nat
         /\ DOMAIN waitingToSend = 1..Len(waitingToSend) /\ Len(waitingToSend) \in Nat
         /\ DOMAIN Line = 1..Len(Line) /\ Len(Line) \in Nat
         /\ Range(Line) = Range(held) \cup Range(waitingToSend)
         /\ Range(Line) \subseteq Messages /\ Range(waitingToSend) \subseteq Messages
         /\ \A j \in 1..Len(held) : Line[j] = held[j]
         /\ \A j \in 1..Len(waitingToSend) :
              Len(held) + j \in DOMAIN Line /\ Line[Len(held) + j] = waitingToSend[j]
<1>1. held \in Seq(Messages) /\ waitingToSend \in Seq(Messages)
  BY DEF TypeOK
<1>2. Line \in Seq(Messages) /\ Range(Line) = Range(held) \cup Range(waitingToSend)
  BY <1>1, ConcatNoDuplicates DEF Line
<1>3. /\ DOMAIN Line = 1..Len(Line) /\ Len(Line) \in Nat
      /\ DOMAIN held = 1..Len(held) /\ Len(held) \in Nat
      /\ DOMAIN waitingToSend = 1..Len(waitingToSend) /\ Len(waitingToSend) \in Nat
  BY <1>1, <1>2
<1>4. /\ \A j \in 1..Len(held) : Line[j] = held[j]
      /\ \A j \in 1..Len(waitingToSend) :
           Len(held) + j \in DOMAIN Line /\ Line[Len(held) + j] = waitingToSend[j]
  BY <1>1, ConcatElements DEF Line
<1>5. Range(Line) \subseteq Messages
  BY <1>2 DEF Range
<1> QED
  BY <1>1, <1>2, <1>3, <1>4, <1>5

\* The line without duplicates: neither list has any, and they share no message.
LEMMA LineParts ==
  ASSUME TypeOK, Accounted
  PROVE  /\ IsInjective(held) /\ IsInjective(waitingToSend)
         /\ Range(held) \cap Range(waitingToSend) = {}
         /\ IsInjective(waitingToSend \o held)
<1>1. held \in Seq(Messages) /\ waitingToSend \in Seq(Messages) /\ IsInjective(held \o waitingToSend)
  BY DEF TypeOK, Accounted, Line
<1>2. IsInjective(held) /\ IsInjective(waitingToSend) /\ Range(held) \cap Range(waitingToSend) = {}
  BY <1>1, PartsNoDuplicates
<1> QED
  BY <1>1, <1>2, ConcatNoDuplicates

\* SendEventAsync stamps the message with the current tick and puts it last.
LEMMA SendKeepsAccounts ==
  ASSUME TypeOK, Accounted, NEW m \in Messages, sent_tick[m] = Never,
         Line' = Append(Line, m), sent_tick' = [sent_tick EXCEPT ![m] = now],
         verdict' = verdict, now' = now
  PROVE  Accounted'
<1> DEFINE L == Append(Line, m)
<1>0. /\ Line \in Seq(Messages) /\ DOMAIN Line = 1..Len(Line) /\ Len(Line) \in Nat
      /\ Range(Line) \subseteq Messages
      /\ now \in Nat /\ sent_tick \in [Messages -> {Never} \cup Nat]
  BY LineFacts DEF TypeOK
<1>1. m \notin Range(Line)
  BY DEF Accounted
<1>2. L \in Seq(Messages) /\ Range(L) = Range(Line) \cup {m} /\ IsInjective(L)
  BY <1>0, <1>1, AppendNoDuplicates DEF Accounted
<1>3. /\ DOMAIN L = 1..(Len(Line) + 1) /\ L[Len(Line) + 1] = m
      /\ \A i \in DOMAIN Line : L[i] = Line[i] /\ Line[i] \in Range(Line)
  BY <1>0 DEF Range
<1> HIDE DEF L
<1>4. /\ sent_tick'[m] = now /\ now # Never
      /\ \A n \in Range(Line) : sent_tick'[n] = sent_tick[n] /\ sent_tick[n] <= now
      /\ \A n \in Messages : n # m => sent_tick'[n] = sent_tick[n]
  BY <1>0, <1>1 DEF Accounted, Never
<1>5. \A n \in Range(L) : sent_tick'[n] # Never /\ sent_tick'[n] <= now
  BY <1>0, <1>2, <1>4 DEF Accounted
<1>6. ASSUME NEW i \in DOMAIN L, NEW j \in DOMAIN L, i < j
      PROVE  sent_tick'[L[i]] <= sent_tick'[L[j]]
  <2>1. i \in DOMAIN Line
    BY <1>0, <1>3, <1>6
  <2>2. CASE j = Len(Line) + 1
    BY <1>3, <1>4, <2>1, <2>2
  <2>3. CASE j \in DOMAIN Line
    BY <1>3, <1>4, <1>6, <2>1, <2>3 DEF Accounted
  <2> QED
    BY <1>0, <1>3, <2>2, <2>3
<1>7. ASSUME NEW n \in Messages
      PROVE  Len(verdict[n]) = IF sent_tick'[n] = Never \/ n \in Range(L) THEN 0 ELSE 1
  BY <1>2, <1>4 DEF Accounted
<1>8. Line' = L
  BY DEF L
<1> QED
  BY <1>2, <1>5, <1>6, <1>7, <1>8 DEF Accounted

\* A message that leaves the line is confirmed (timeout_callback, SendComplete).
LEMMA ConfirmKeepsAccounts ==
  ASSUME TypeOK, Accounted, NEW i \in 1..Len(Line), NEW result,
         Line' = RemoveAt(Line, i), Confirm({Line[i]}, result), sent_tick' = sent_tick, now' = now
  PROVE  Accounted'
<1> DEFINE L == RemoveAt(Line, i)
<1>0. /\ Line \in Seq(Messages) /\ DOMAIN Line = 1..Len(Line) /\ Len(Line) \in Nat
      /\ Range(Line) \subseteq Messages /\ IsInjective(Line) /\ i \in Nat
      /\ Line[i] \in Range(Line) /\ Line[i] \in Messages
      /\ verdict \in [Messages -> Seq(Verdicts)]
  BY LineFacts, SMTT(30) DEF TypeOK, Accounted, Range
<1>1. L \in Seq(Messages) /\ IsInjective(L) /\ Range(L) = Range(Line) \ {Line[i]}
  BY <1>0, RemoveAtElements, RemoveAtNoDuplicates
<1>2. /\ Len(L) = Len(Line) - 1
      /\ \A j \in 1..(Len(Line) - 1) : L[j] = IF j < i THEN Line[j] ELSE Line[j + 1]
  BY <1>0, RemoveAtElements
<1> HIDE DEF L
<1>3. DOMAIN L = 1..(Len(Line) - 1)
  BY <1>1, <1>2
<1>4. ASSUME NEW j \in DOMAIN L, NEW k \in DOMAIN L, j < k
      PROVE  sent_tick[L[j]] <= sent_tick[L[k]]
  <2> DEFINE J == IF j < i THEN j ELSE j + 1
             K == IF k < i THEN k ELSE k + 1
  <2>1. J \in DOMAIN Line /\ K \in DOMAIN Line /\ J < K
    BY <1>0, <1>3, <1>4, SMTT(30)
  <2>2. L[j] = Line[J] /\ L[k] = Line[K]
    BY <1>2, <1>3
  <2> HIDE DEF J, K
  <2> QED
    BY <2>1, <2>2 DEF Accounted
<1>5. ASSUME NEW n \in Messages
      PROVE  Len(verdict'[n]) = IF sent_tick[n] = Never \/ n \in Range(L) THEN 0 ELSE 1
  <2>1. CASE n = Line[i]
    <3>1. Len(verdict[n]) = 0 /\ sent_tick[n] # Never /\ verdict[n] \in Seq(Verdicts)
      BY <1>0, <2>1 DEF Accounted
    <3>2. verdict'[n] = Append(verdict[n], result)
      BY <2>1 DEF Confirm
    <3>3. Len(verdict'[n]) = 1
      BY <3>1, <3>2
    <3> QED
      BY <1>1, <2>1, <3>1, <3>3
  <2>2. CASE n # Line[i]
    BY <1>1, <2>2 DEF Accounted, Confirm
  <2> QED
    BY <2>1, <2>2
<1>6. \A n \in Range(L) : sent_tick[n] # Never /\ sent_tick[n] <= now
  BY <1>1 DEF Accounted
<1>7. Line' = L
  BY DEF L
<1> QED
  BY <1>1, <1>4, <1>5, <1>6, <1>7 DEF Accounted

\* Moving messages between the layer and the transport, and time, change no account.
LEMMA MoveKeepsAccounts ==
  ASSUME TypeOK, Accounted, Line' = Line, sent_tick' = sent_tick, verdict' = verdict,
         now' \in Nat, now <= now'
  PROVE  Accounted'
<1>1. \A m \in Range(Line) : sent_tick[m] # Never /\ sent_tick[m] <= now'
  <2>1. \A m \in Range(Line) : sent_tick[m] \in Nat
    BY LineFacts DEF TypeOK, Accounted
  <2> QED
    BY <2>1 DEF Accounted, TypeOK
<1> QED
  BY <1>1 DEF Accounted

-----------------------------------------------------------------------------
(* The reported states under way *)

\* What the list of reported states is made of.
LEMMA UnderFacts ==
  ASSUME TypeOK
  PROVE  /\ iot_msg_queue \in Seq(Reports) /\ iot_ack_queue \in Seq(Reports)
         /\ Under \in Seq(Reports)
         /\ DOMAIN iot_msg_queue = 1..Len(iot_msg_queue) /\ Len(iot_msg_queue) \in Nat
         /\ DOMAIN iot_ack_queue = 1..Len(iot_ack_queue) /\ Len(iot_ack_queue) \in Nat
         /\ DOMAIN Under = 1..Len(Under) /\ Len(Under) \in Nat
         /\ Range(Under) = Range(iot_msg_queue) \cup Range(iot_ack_queue)
         /\ Range(Under) \subseteq Reports
         /\ \A j \in 1..Len(iot_msg_queue) : Under[j] = iot_msg_queue[j]
         /\ \A j \in 1..Len(iot_ack_queue) :
              Len(iot_msg_queue) + j \in DOMAIN Under
              /\ Under[Len(iot_msg_queue) + j] = iot_ack_queue[j]
<1>1. iot_msg_queue \in Seq(Reports) /\ iot_ack_queue \in Seq(Reports)
  BY DEF TypeOK
<1>2. Under \in Seq(Reports) /\ Range(Under) = Range(iot_msg_queue) \cup Range(iot_ack_queue)
  BY <1>1, ConcatNoDuplicates DEF Under
<1>3. /\ DOMAIN Under = 1..Len(Under) /\ Len(Under) \in Nat
      /\ DOMAIN iot_msg_queue = 1..Len(iot_msg_queue) /\ Len(iot_msg_queue) \in Nat
      /\ DOMAIN iot_ack_queue = 1..Len(iot_ack_queue) /\ Len(iot_ack_queue) \in Nat
  BY <1>1, <1>2
<1>4. /\ \A j \in 1..Len(iot_msg_queue) : Under[j] = iot_msg_queue[j]
      /\ \A j \in 1..Len(iot_ack_queue) :
           Len(iot_msg_queue) + j \in DOMAIN Under
           /\ Under[Len(iot_msg_queue) + j] = iot_ack_queue[j]
  BY <1>1, ConcatElements DEF Under
<1>5. Range(Under) \subseteq Reports
  BY <1>2 DEF Range
<1> QED
  BY <1>1, <1>2, <1>3, <1>4, <1>5

\* A state that leaves the lists, answered or given up, leaves the others as they are.
LEMMA LeaveKeepsUnderWay ==
  ASSUME TypeOK, StatesUnderWay, NEW i \in 1..Len(Under), Under' = RemoveAt(Under, i),
         item_id' = item_id,
         answered' = answered \/ answered' = [answered EXCEPT ![Under[i]] = @ + 1]
  PROVE  StatesUnderWay'
<1>0. /\ Under \in Seq(Reports) /\ IsInjective(Under) /\ Range(Under) \subseteq Reports
      /\ Under[i] \in Range(Under) /\ Under[i] \in Reports /\ answered \in [Reports -> Nat]
  BY UnderFacts DEF TypeOK, StatesUnderWay, Range
<1>1. IsInjective(Under') /\ Range(Under') = Range(Under) \ {Under[i]}
  BY <1>0, RemoveAtNoDuplicates
<1>2. answered[Under[i]] = 0 /\ item_id[Under[i]] # 0
  BY <1>0 DEF StatesUnderWay
<1>3. \A r \in Reports : r # Under[i] => answered'[r] = answered[r]
  BY <1>0
<1>4. answered'[Under[i]] <= 1
  BY <1>0, <1>2
<1>5. \A r \in Range(Under') : item_id'[r] # 0 /\ answered'[r] = 0
  BY <1>0, <1>1, <1>3 DEF StatesUnderWay
<1>6. \A r \in Reports : answered'[r] <= 1 /\ (item_id'[r] = 0 => answered'[r] = 0)
  BY <1>2, <1>3, <1>4 DEF StatesUnderWay
<1> QED
  BY <1>1, <1>5, <1>6 DEF StatesUnderWay

-----------------------------------------------------------------------------
(* The steps *)

\* PositionOf finds a listed message, and NextOf is the entry behind it.
LEMMA PositionFacts ==
  ASSUME NEW S, NEW s \in Seq(S), NEW m \in Range(s)
  PROVE  /\ PositionOf(s, m) \in 1..Len(s) /\ s[PositionOf(s, m)] = m
         /\ PositionOf(s, m) = Len(s) => NextOf(s, m) = End
         /\ PositionOf(s, m) # Len(s) =>
              NextOf(s, m) = s[PositionOf(s, m) + 1] /\ PositionOf(s, m) + 1 \in 1..Len(s)
<1>1. \E i \in DOMAIN s : s[i] = m
  BY DEF Range
<1>2. DOMAIN s = 1..Len(s) /\ Len(s) \in Nat
  OBVIOUS
<1>3. PositionOf(s, m) \in 1..Len(s) /\ s[PositionOf(s, m)] = m
  BY <1>1, <1>2 DEF PositionOf
<1> QED
  BY <1>2, <1>3 DEF NextOf

\* An expired entry is in waitingToSend when DoTimeouts removes it.
LEMMA ExpiredFacts ==
  ASSUME CoreInv, pc = "timeouts", item # End
  PROVE  /\ item \in Range(waitingToSend) /\ item \in Messages
         /\ PositionOf(waitingToSend, item) \in 1..Len(waitingToSend)
         /\ waitingToSend[PositionOf(waitingToSend, item)] = item
         /\ NextOf(waitingToSend, item) \in Messages \cup {End}
<1>1. /\ item \in Range(waitingToSend) /\ waitingToSend \in Seq(Messages)
      /\ Range(waitingToSend) \subseteq Messages
      /\ DOMAIN waitingToSend = 1..Len(waitingToSend)
  BY LineFacts DEF CoreInv, ScanInv
<1>2. \A i \in 1..Len(waitingToSend) : waitingToSend[i] \in Messages
  BY <1>1
<1> QED
  BY <1>1, <1>2, PositionFacts

\* The head of waitingToSend, and what is left of it.
LEMMA HeadFacts ==
  ASSUME NEW S, NEW s \in Seq(S), s # <<>>
  PROVE  /\ Head(s) \in S /\ Tail(s) \in Seq(S) /\ Tail(s) = RemoveAt(s, 1)
         /\ Head(s) = s[1] /\ 1 \in 1..Len(s)
<1>1. Head(s) = s[1] /\ s[1] \in S /\ 1 \in 1..Len(s) /\ Tail(s) = RemoveAt(s, 1)
  BY TailIsRemoveAt
<1> QED
  BY <1>1

\* Every step keeps the types.
LEMMA StepTyped ==
  ASSUME CoreInv, [Next]_vars
  PROVE  TypeOK' /\ ClockOK'
<1> USE CoreAssumption
<1>0. TypeOK /\ ClockOK /\ now \in Nat /\ nowTick \in Nat
  BY DEF CoreInv, TypeOK
<1>1. CASE UNCHANGED vars
  BY <1>0, <1>1 DEF TypeOK, ClockOK, vars
<1>2. ASSUME NEW m \in Messages, IoTHubClientCore_LL_SendEventAsync(m)
      PROVE  TypeOK' /\ ClockOK'
  <2>1. Append(waitingToSend, m) \in Seq(Messages)
    BY <1>0 DEF TypeOK
  <2>2. tooLate' \subseteq Messages
    BY <1>0, <1>2 DEF IoTHubClientCore_LL_SendEventAsync, TypeOK
  <2> QED
    BY <1>0, <1>2, <2>1, <2>2, SMTT(30) DEF IoTHubClientCore_LL_SendEventAsync,
       attach_ms_timesOutAfter, TypeOK, ClockOK, twin
<1>3. ASSUME NEW r \in Reports, IoTHubClientCore_LL_SendReportedState(r)
      PROVE  TypeOK' /\ ClockOK'
  <2>1. data_msg_id' \in 1..(MaxItemId - 1)
    BY <1>0, <1>3 DEF IoTHubClientCore_LL_SendReportedState, get_next_item_id, TypeOK
  <2>2. Append(iot_msg_queue, r) \in Seq(Reports)
    BY <1>0 DEF TypeOK
  <2>3. item_id' \in [Reports -> 0..(MaxItemId - 1)]
    <3>1. data_msg_id' \in 0..(MaxItemId - 1)
      BY <2>1
    <3> QED
      BY <1>0, <1>3, <3>1 DEF IoTHubClientCore_LL_SendReportedState, TypeOK
  <2>4. untold' \subseteq Reports
    BY <1>0, <1>3 DEF IoTHubClientCore_LL_SendReportedState, TypeOK
  <2> QED
    <3>1. iot_msg_queue' \in Seq(Reports)
      BY <1>0, <1>3, <2>2 DEF IoTHubClientCore_LL_SendReportedState, TypeOK
    <3>2. UNCHANGED <<telemetry, iot_ack_queue, answered, currentMessageTimeout, now, nowTick,
                      item, pc>>
      BY <1>3 DEF IoTHubClientCore_LL_SendReportedState
    <3> QED
      BY <1>0, <2>1, <2>3, <2>4, <3>1, <3>2 DEF TypeOK, ClockOK, telemetry
<1>4. CASE SetMessageTimeout
  BY <1>0, <1>4 DEF SetMessageTimeout, TypeOK, ClockOK, telemetry, twin
<1>5. CASE DoWork
  <2>1. FirstOf(waitingToSend) \in Messages \cup {End}
    BY <1>0, HeadFacts DEF FirstOf, TypeOK
  <2>2. "timeouts" \in Pcs /\ "twin" \in Pcs
    BY DEF Pcs
  <2> QED
    BY <1>0, <1>5, <2>1, <2>2, SMTT(30) DEF DoWork, TypeOK, ClockOK, telemetry, twin
<1>6. CASE TimeoutExpired
  <2>1. /\ item \in Messages /\ NextOf(waitingToSend, item) \in Messages \cup {End}
        /\ PositionOf(waitingToSend, item) \in 1..Len(waitingToSend)
    BY <1>6, ExpiredFacts DEF TimeoutExpired
  <2>2. waitingToSend' \in Seq(Messages)
    BY <1>0, <1>6, <2>1, RemoveAtElements DEF TimeoutExpired, TypeOK
  <2>3. verdict' \in [Messages -> Seq(Verdicts)]
    <3>1. \A m \in Messages : Append(verdict[m], "TIMEOUT") \in Seq(Verdicts)
      BY <1>0 DEF TypeOK, Verdicts
    <3> QED
      BY <1>0, <1>6, <3>1 DEF TimeoutExpired, Confirm, TypeOK
  <2> QED
    BY <1>0, <1>6, <2>1, <2>2, <2>3 DEF TimeoutExpired, TypeOK, ClockOK, twin, Pcs
<1>7. CASE \/ TimeoutCallbackReturns \/ TimeoutsDone \/ TwinDone \/ TransportDone
           \/ DestroyBegins \/ DestroyGoesOn
  BY <1>0, <1>7, SMTT(30) DEF TimeoutCallbackReturns, TimeoutsDone, TwinDone, TransportDone,
     DestroyBegins, DestroyGoesOn, Unregistering, DrainingMessages, DrainingStates,
     DrainingAcks, TypeOK, ClockOK, telemetry, twin, Pcs
<1>8. CASE TimeoutSkips
  <2>1. NextOf(waitingToSend, item) \in Messages \cup {End}
    BY <1>8, ExpiredFacts DEF TimeoutSkips
  <2> QED
    BY <1>0, <1>8, <2>1 DEF TimeoutSkips, TypeOK, ClockOK, telemetry, twin
<1>9. CASE ProcessItem
  <2>1. /\ Head(iot_msg_queue) \in Reports /\ Tail(iot_msg_queue) \in Seq(Reports)
        /\ Append(iot_ack_queue, Head(iot_msg_queue)) \in Seq(Reports)
    BY <1>0, <1>9, HeadFacts DEF ProcessItem, TypeOK
  <2> QED
    BY <1>0, <1>9, <2>1 DEF ProcessItem, TypeOK, ClockOK, telemetry, Pcs
<1>10. CASE TransportTakes
  <2>1. /\ Append(held, Head(waitingToSend)) \in Seq(Messages)
        /\ Tail(waitingToSend) \in Seq(Messages)
    BY <1>0, <1>10, HeadFacts DEF TransportTakes, TypeOK
  <2> QED
    BY <1>0, <1>10, <2>1 DEF TransportTakes, TypeOK, ClockOK, twin
<1>11. CASE TransportReturns
  <2>1. Len(held) \in Nat /\ Len(held) # 0 /\ Last(held) \in Messages
    BY <1>0, <1>11 DEF TransportReturns, TypeOK, Last
  <2>2. <<Last(held)>> \o waitingToSend \in Seq(Messages)
    BY <1>0, <2>1 DEF TypeOK
  <2>3. Front(held) \in Seq(Messages)
    BY <1>0, <2>1 DEF Front, TypeOK
  <2> QED
    BY <1>0, <1>11, <2>2, <2>3 DEF TransportReturns, TypeOK, ClockOK, twin
<1>12. ASSUME NEW i \in DOMAIN held, NEW result \in {"OK", "ERROR"},
              IoTHubClientCore_LL_SendComplete(i, result)
       PROVE  TypeOK' /\ ClockOK'
  <2>1. RemoveAt(held, i) \in Seq(Messages)
    BY <1>0, LineFacts, RemoveAtElements
  <2>2. verdict' \in [Messages -> Seq(Verdicts)]
    <3>1. \A m \in Messages : Append(verdict[m], result) \in Seq(Verdicts)
      BY <1>0 DEF TypeOK, Verdicts
    <3> QED
      BY <1>0, <1>12, <3>1 DEF IoTHubClientCore_LL_SendComplete, Confirm, TypeOK
  <2> QED
    BY <1>0, <1>12, <2>1, <2>2 DEF IoTHubClientCore_LL_SendComplete, TypeOK, ClockOK, twin
<1>13. ASSUME NEW r \in Reports, IoTHubClientCore_LL_ReportedStateComplete(item_id[r])
       PROVE  TypeOK' /\ ClockOK'
  <2>1. PICK i \in DOMAIN iot_ack_queue :
          /\ answered' = [answered EXCEPT ![iot_ack_queue[i]] = @ + 1]
          /\ iot_ack_queue' = RemoveAt(iot_ack_queue, i)
    BY <1>13 DEF IoTHubClientCore_LL_ReportedStateComplete
  <2>2. iot_ack_queue' \in Seq(Reports)
    BY <1>0, <2>1, UnderFacts, RemoveAtElements
  <2>3. answered' \in [Reports -> Nat]
    <3>1. iot_ack_queue[i] \in Reports /\ answered \in [Reports -> Nat]
      BY <1>0 DEF TypeOK
    <3> QED
      BY <2>1, <3>1
  <2>4. pc' \in Pcs
    BY <1>0, <1>13 DEF IoTHubClientCore_LL_ReportedStateComplete, TypeOK, Pcs, Unregistering
  <2> QED
    BY <1>0, <1>13, <2>2, <2>3, <2>4 DEF IoTHubClientCore_LL_ReportedStateComplete, TypeOK,
       ClockOK, telemetry
<1>14. CASE UnregisterCompletes \/ DestroyConfirms
  <2>1. \A m \in Messages : Append(verdict[m], "BECAUSE_DESTROY") \in Seq(Verdicts)
    BY <1>0 DEF TypeOK, Verdicts
  <2>2. verdict' \in [Messages -> Seq(Verdicts)]
    BY <1>0, <1>14, <2>1 DEF UnregisterCompletes, DestroyConfirms, Confirm, TypeOK
  <2>3. held' \in Seq(Messages) /\ waitingToSend' \in Seq(Messages)
    <3>1. ASSUME NEW q \in Seq(Messages), q # <<>>
          PROVE  RemoveAt(q, 1) \in Seq(Messages)
      BY <3>1, HeadFacts, RemoveAtElements
    <3> QED
      BY <1>0, <1>14, <3>1 DEF UnregisterCompletes, DestroyConfirms, TypeOK
  <2>4. pc' \in Pcs
    BY <1>14 DEF UnregisterCompletes, DestroyConfirms, Pcs, Unregistering, DrainingMessages
  <2> QED
    <3>1. UNCHANGED <<ms_timesOutAfter, message_timeout_value, sent_tick, tooLate, twin,
                      currentMessageTimeout, now, nowTick, item>>
      BY <1>14 DEF UnregisterCompletes, DestroyConfirms
    <3> QED
      BY <1>0, <2>2, <2>3, <2>4, <3>1 DEF TypeOK, ClockOK, twin
<1>16. CASE DestroyAnswersState \/ DestroyAnswersAck
  <2>1. iot_msg_queue' \in Seq(Reports) /\ iot_ack_queue' \in Seq(Reports)
    <3>1. ASSUME NEW q \in Seq(Reports), q # <<>>
          PROVE  RemoveAt(q, 1) \in Seq(Reports)
      BY <3>1, HeadFacts, RemoveAtElements
    <3> QED
      BY <1>0, <1>16, <3>1 DEF DestroyAnswersState, DestroyAnswersAck, TypeOK
  <2>2. answered' \in [Reports -> Nat]
    <3>1. ASSUME NEW q \in Seq(Reports), q # <<>>, answered' = [answered EXCEPT ![q[1]] = @ + 1]
          PROVE  answered' \in [Reports -> Nat]
      <4>1. q[1] \in Reports
        BY <3>1, HeadFacts
      <4> QED
        BY <1>0, <3>1, <4>1 DEF TypeOK
    <3> QED
      BY <1>0, <1>16, <3>1 DEF DestroyAnswersState, DestroyAnswersAck, TypeOK
  <2>3. pc' \in Pcs
    BY <1>16 DEF DestroyAnswersState, DestroyAnswersAck, Pcs, DrainingStates, DrainingAcks
  <2> QED
    <3>1. UNCHANGED <<telemetry, item_id, data_msg_id, untold, currentMessageTimeout, now,
                      nowTick, item>>
      BY <1>16 DEF DestroyAnswersState, DestroyAnswersAck
    <3> QED
      BY <1>0, <2>1, <2>2, <2>3, <3>1 DEF TypeOK, ClockOK, telemetry
<1>15. CASE Tick
  BY <1>0, <1>15 DEF Tick, TypeOK, ClockOK, telemetry, twin
<1> QED
  BY <1>1, <1>2, <1>3, <1>4, <1>5, <1>6, <1>7, <1>8, <1>9, <1>10, <1>11, <1>12, <1>13, <1>14, <1>15,
     <1>16 DEF Next, DoTimeouts, TransportWork, IoTHubClientCore_LL_Destroy

\* Every step keeps the accounts of the messages.
LEMMA StepAccounted ==
  ASSUME CoreInv, [Next]_vars
  PROVE  Accounted'
<1>0. /\ TypeOK /\ Accounted /\ now \in Nat /\ held \in Seq(Messages)
      /\ waitingToSend \in Seq(Messages)
      /\ DOMAIN held = 1..Len(held)
  BY LineFacts DEF CoreInv, TypeOK
<1>1. ASSUME UNCHANGED telemetry, now' = now PROVE Accounted'
  <2>1. Line' = Line /\ sent_tick' = sent_tick /\ verdict' = verdict /\ now' \in Nat /\ now <= now'
    BY <1>0, <1>1 DEF telemetry, Line
  <2> QED
    BY <1>0, <2>1, MoveKeepsAccounts
<1>2. ASSUME NEW m \in Messages, IoTHubClientCore_LL_SendEventAsync(m) PROVE Accounted'
  <2>1. /\ sent_tick[m] = Never /\ waitingToSend' = Append(waitingToSend, m)
        /\ sent_tick' = [sent_tick EXCEPT ![m] = now] /\ UNCHANGED <<held, verdict, now>>
    BY <1>2 DEF IoTHubClientCore_LL_SendEventAsync
  <2>2. Line' = Append(Line, m)
    BY <1>0, <2>1, ConcatAppend DEF Line
  <2> QED
    BY <1>0, <2>1, <2>2, SendKeepsAccounts
<1>3. CASE TimeoutExpired
  <2> DEFINE p == PositionOf(waitingToSend, item)
  <2>1. /\ waitingToSend' = RemoveAt(waitingToSend, p) /\ Confirm({item}, "TIMEOUT")
        /\ UNCHANGED <<held, sent_tick, now>>
    BY <1>3 DEF TimeoutExpired
  <2>2. p \in 1..Len(waitingToSend) /\ waitingToSend[p] = item
    BY <1>3, ExpiredFacts DEF TimeoutExpired
  <2> HIDE DEF p
  <2>3. Line' = RemoveAt(Line, Len(held) + p) /\ Len(held) + p \in 1..Len(Line)
    BY <1>0, <2>1, <2>2, ConcatRemoveAt DEF Line
  <2>4. Line[Len(held) + p] = item
    BY <1>0, <2>2, LineFacts
  <2> DEFINE q == Len(held) + p
  <2>5. q \in 1..Len(Line) /\ Line' = RemoveAt(Line, q) /\ Confirm({Line[q]}, "TIMEOUT")
    BY <2>1, <2>3, <2>4
  <2> HIDE DEF q
  <2> QED
    BY <1>0, <2>1, <2>5, ConfirmKeepsAccounts
<1>4. ASSUME NEW i \in DOMAIN held, NEW result \in {"OK", "ERROR"},
             IoTHubClientCore_LL_SendComplete(i, result)
      PROVE  Accounted'
  <2>1. /\ held' = RemoveAt(held, i) /\ Confirm({held[i]}, result)
        /\ UNCHANGED <<waitingToSend, sent_tick, now>>
    BY <1>4 DEF IoTHubClientCore_LL_SendComplete
  <2>2. i \in 1..Len(Line) /\ Line' = RemoveAt(Line, i)
    <3>1. i \in 1..Len(held)
      BY <1>0
    <3>2. /\ i \in 1..Len(held \o waitingToSend)
          /\ RemoveAt(held, i) \o waitingToSend = RemoveAt(held \o waitingToSend, i)
      BY <1>0, <3>1, ConcatRemoveAt, ZenonT(40)
    <3>3. Line' = RemoveAt(held, i) \o waitingToSend
      BY <2>1 DEF Line
    <3> QED
      BY <3>2, <3>3 DEF Line
  <2>3. Line[i] = held[i]
    BY <1>0, LineFacts
  <2>4. Confirm({Line[i]}, result)
    BY <2>1, <2>3
  <2> QED
    BY <1>0, <2>1, <2>2, <2>4, ConfirmKeepsAccounts
<1>5. CASE TransportTakes \/ TransportReturns
  <2>1. Line' = Line
    BY <1>0, <1>5, ConcatMoves DEF TransportTakes, TransportReturns, Line
  <2>2. /\ UNCHANGED <<sent_tick, verdict, now>> /\ now' \in Nat /\ now <= now'
    BY <1>0, <1>5 DEF TransportTakes, TransportReturns
  <2> QED
    BY <1>0, <2>1, <2>2, MoveKeepsAccounts
<1>6. CASE UnregisterCompletes
  <2>1. /\ held' = RemoveAt(held, 1) /\ Confirm({held[1]}, "BECAUSE_DESTROY")
        /\ UNCHANGED <<waitingToSend, sent_tick, now>> /\ 1 \in 1..Len(held)
    BY <1>0, <1>6, HeadFacts DEF UnregisterCompletes
  <2> DEFINE i == 1
  <2>2. i \in 1..Len(held)
    BY <2>1
  <2>3. /\ held' = RemoveAt(held, i) /\ Confirm({held[i]}, "BECAUSE_DESTROY")
        /\ waitingToSend' = waitingToSend
    BY <2>1
  <2> HIDE DEF i
  <2>4. i \in 1..Len(Line) /\ Line' = RemoveAt(Line, i)
    <3>1. /\ i \in 1..Len(held \o waitingToSend)
          /\ RemoveAt(held, i) \o waitingToSend = RemoveAt(held \o waitingToSend, i)
      BY <1>0, <2>2, ConcatRemoveAt, ZenonT(40)
    <3>2. Line' = RemoveAt(held, i) \o waitingToSend
      BY <2>3 DEF Line
    <3> QED
      BY <3>1, <3>2 DEF Line
  <2>5. Line[i] = held[i]
    BY <1>0, <2>2, LineFacts
  <2>6. Confirm({Line[i]}, "BECAUSE_DESTROY")
    BY <2>3, <2>5
  <2> QED
    BY <1>0, <2>1, <2>4, <2>6, ConfirmKeepsAccounts
<1>9. CASE DestroyConfirms
  <2> DEFINE p == 1
  <2>1. /\ waitingToSend' = RemoveAt(waitingToSend, p)
        /\ Confirm({waitingToSend[p]}, "BECAUSE_DESTROY")
        /\ UNCHANGED <<held, sent_tick, now>>
    BY <1>9 DEF DestroyConfirms
  <2>2. p \in 1..Len(waitingToSend)
    BY <1>0, <1>9, HeadFacts DEF DestroyConfirms
  <2> HIDE DEF p
  <2>3. Line' = RemoveAt(Line, Len(held) + p) /\ Len(held) + p \in 1..Len(Line)
    BY <1>0, <2>1, <2>2, ConcatRemoveAt DEF Line
  <2>4. Line[Len(held) + p] = waitingToSend[p]
    BY <1>0, <2>2, LineFacts
  <2> DEFINE q == Len(held) + p
  <2>5. q \in 1..Len(Line) /\ Line' = RemoveAt(Line, q) /\ Confirm({Line[q]}, "BECAUSE_DESTROY")
    BY <2>1, <2>3, <2>4
  <2> HIDE DEF q
  <2> QED
    BY <1>0, <2>1, <2>5, ConfirmKeepsAccounts
<1>7. CASE Tick
  <2>1. UNCHANGED telemetry /\ now' \in Nat /\ now <= now'
    BY <1>0, <1>7 DEF Tick
  <2>2. Line' = Line /\ sent_tick' = sent_tick /\ verdict' = verdict
    BY <2>1 DEF telemetry, Line
  <2> QED
    BY <1>0, <2>1, <2>2, MoveKeepsAccounts
<1>8. ASSUME \/ \E r \in Reports : IoTHubClientCore_LL_SendReportedState(r)
                                   \/ IoTHubClientCore_LL_ReportedStateComplete(item_id[r])
             \/ SetMessageTimeout \/ DoWork \/ TimeoutCallbackReturns \/ TimeoutSkips
             \/ TimeoutsDone \/ ProcessItem \/ TwinDone \/ TransportDone \/ UNCHANGED vars
             \/ DestroyBegins \/ DestroyAnswersState \/ DestroyAnswersAck \/ DestroyGoesOn
      PROVE  Accounted'
  BY <1>1, <1>8 DEF IoTHubClientCore_LL_SendReportedState,
     IoTHubClientCore_LL_ReportedStateComplete, SetMessageTimeout, DoWork,
     TimeoutCallbackReturns, TimeoutSkips, TimeoutsDone, ProcessItem, TwinDone, TransportDone,
     DestroyBegins, DestroyAnswersState, DestroyAnswersAck, DestroyGoesOn, vars, telemetry
<1> QED
  BY <1>2, <1>3, <1>4, <1>5, <1>6, <1>7, <1>8, <1>9 DEF Next, DoTimeouts, TransportWork,
     IoTHubClientCore_LL_Destroy

\* Every step keeps the reported states under way as they should be.
LEMMA StepUnderWay ==
  ASSUME CoreInv, [Next]_vars
  PROVE  StatesUnderWay'
<1> USE CoreAssumption
<1>0. /\ TypeOK /\ StatesUnderWay /\ iot_msg_queue \in Seq(Reports)
      /\ iot_ack_queue \in Seq(Reports) /\ Under \in Seq(Reports) /\ Range(Under) \subseteq Reports
      /\ DOMAIN iot_msg_queue = 1..Len(iot_msg_queue)
      /\ DOMAIN iot_ack_queue = 1..Len(iot_ack_queue)
      /\ answered \in [Reports -> Nat] /\ item_id \in [Reports -> 0..(MaxItemId - 1)]
  BY UnderFacts DEF CoreInv, TypeOK
<1>1. ASSUME UNCHANGED <<iot_msg_queue, iot_ack_queue, item_id, answered>>
      PROVE  StatesUnderWay'
  <2>1. Under' = Under
    BY <1>1 DEF Under
  <2> QED
    BY <1>0, <1>1, <2>1 DEF StatesUnderWay
<1>2. ASSUME NEW r \in Reports, IoTHubClientCore_LL_SendReportedState(r)
      PROVE  StatesUnderWay'
  <2>1. item_id[r] = 0 /\ UNCHANGED <<iot_ack_queue, answered>>
    BY <1>2 DEF IoTHubClientCore_LL_SendReportedState
  <2>2. CASE UNCHANGED <<item_id, iot_msg_queue>>
    BY <1>1, <2>1, <2>2
  <2>3. CASE /\ item_id' = [item_id EXCEPT ![r] = data_msg_id']
             /\ iot_msg_queue' = Append(iot_msg_queue, r)
    <3>1. data_msg_id' # 0
      BY <1>0, <1>2 DEF IoTHubClientCore_LL_SendReportedState, get_next_item_id, TypeOK
    <3>2. r \notin Range(Under) /\ answered[r] = 0
      BY <1>0, <2>1 DEF StatesUnderWay
    <3>3. /\ IsInjective(iot_msg_queue) /\ IsInjective(iot_ack_queue)
          /\ Range(iot_msg_queue) \cap Range(iot_ack_queue) = {}
          /\ Range(Under) = Range(iot_msg_queue) \cup Range(iot_ack_queue)
      BY <1>0, PartsNoDuplicates, UnderFacts DEF StatesUnderWay, Under
    <3> DEFINE a == Append(iot_msg_queue, r)
    <3>4. a \in Seq(Reports) /\ Range(a) = Range(iot_msg_queue) \cup {r} /\ IsInjective(a)
      BY <1>0, <3>2, <3>3, AppendNoDuplicates
    <3> HIDE DEF a
    <3>5. Range(a) \cap Range(iot_ack_queue) = {}
      BY <3>2, <3>3, <3>4
    <3>6. IsInjective(a \o iot_ack_queue)
          /\ Range(a \o iot_ack_queue) = Range(a) \cup Range(iot_ack_queue)
      BY <1>0, <3>3, <3>4, <3>5, ConcatNoDuplicates
    <3>7. Under' = a \o iot_ack_queue
      BY <2>1, <2>3 DEF Under, a
    <3>8. \A s \in Reports : s # r => item_id'[s] = item_id[s]
      BY <1>0, <2>3
    <3>9. item_id'[r] # 0
      BY <1>0, <2>3, <3>1
    <3>10. Range(Under') = Range(Under) \cup {r} /\ IsInjective(Under')
      BY <3>3, <3>4, <3>6, <3>7
    <3>11. \A s \in Range(Under') : item_id'[s] # 0 /\ answered'[s] = 0
      BY <1>0, <2>1, <3>2, <3>8, <3>9, <3>10 DEF StatesUnderWay
    <3>12. \A s \in Reports : answered'[s] <= 1 /\ (item_id'[s] = 0 => answered'[s] = 0)
      BY <1>0, <2>1, <3>8, <3>9 DEF StatesUnderWay
    <3> QED
      BY <3>10, <3>11, <3>12 DEF StatesUnderWay
  <2> QED
    BY <1>2, <2>2, <2>3 DEF IoTHubClientCore_LL_SendReportedState
<1>3. ASSUME NEW id, IoTHubClientCore_LL_ReportedStateComplete(id)
      PROVE  StatesUnderWay'
  <2>1. PICK i \in DOMAIN iot_ack_queue :
          /\ answered' = [answered EXCEPT ![iot_ack_queue[i]] = @ + 1]
          /\ iot_ack_queue' = RemoveAt(iot_ack_queue, i)
    BY <1>3 DEF IoTHubClientCore_LL_ReportedStateComplete
  <2>2. UNCHANGED <<iot_msg_queue, item_id>>
    BY <1>3 DEF IoTHubClientCore_LL_ReportedStateComplete
  <2> DEFINE q == Len(iot_msg_queue) + i
  <2>3. q \in 1..Len(Under) /\ Under[q] = iot_ack_queue[i]
    BY <1>0, UnderFacts
  <2>4. Under' = RemoveAt(Under, q)
    <3>1. i \in 1..Len(iot_ack_queue)
      BY <1>0
    <3>2. iot_msg_queue \o RemoveAt(iot_ack_queue, i) = RemoveAt(iot_msg_queue \o iot_ack_queue, q)
      BY <1>0, <3>1, ConcatRemoveAt
    <3> QED
      BY <2>1, <2>2, <3>2 DEF Under
  <2>5. answered' = [answered EXCEPT ![Under[q]] = @ + 1]
    BY <2>1, <2>3
  <2> HIDE DEF q
  <2> QED
    BY <1>0, <2>2, <2>3, <2>4, <2>5, LeaveKeepsUnderWay
<1>4. CASE ProcessItem
  <2>1. iot_msg_queue # <<>> /\ UNCHANGED <<item_id, answered>>
    BY <1>4 DEF ProcessItem
  <2> DEFINE h == Head(iot_msg_queue)
             t == Tail(iot_msg_queue)
  <2>2. /\ h \in Reports /\ t \in Seq(Reports) /\ t = RemoveAt(iot_msg_queue, 1)
        /\ h = iot_msg_queue[1] /\ 1 \in 1..Len(iot_msg_queue)
    BY <1>0, <2>1, HeadFacts
  <2>3. t \o iot_ack_queue = RemoveAt(Under, 1) /\ 1 \in 1..Len(Under) /\ Under[1] = h
    <3>1. RemoveAt(iot_msg_queue, 1) \o iot_ack_queue = RemoveAt(iot_msg_queue \o iot_ack_queue, 1)
          /\ 1 \in 1..Len(iot_msg_queue \o iot_ack_queue)
      BY <1>0, <2>2, ConcatRemoveAt
    <3> QED
      BY <2>2, <3>1, UnderFacts, <1>0 DEF Under
  <2> HIDE DEF h, t
  <2>4. CASE iot_msg_queue' = t /\ UNCHANGED iot_ack_queue
    <3>1. Under' = RemoveAt(Under, 1)
      BY <2>3, <2>4 DEF Under
    <3> QED
      BY <1>0, <2>1, <2>3, <3>1, LeaveKeepsUnderWay
  <2>5. CASE iot_msg_queue' = t /\ iot_ack_queue' = Append(iot_ack_queue, h)
    <3> DEFINE u == RemoveAt(Under, 1)
    <3>1. u \in Seq(Reports) /\ IsInjective(u) /\ Range(u) = Range(Under) \ {h}
          /\ h \in Range(Under)
      <4>1. IsInjective(Under)
        BY <1>0 DEF StatesUnderWay
      <4>2. h \in Range(Under)
        BY <1>0, <2>3, UnderFacts DEF Range
      <4> QED
        BY <1>0, <2>3, <4>1, <4>2, RemoveAtElements, RemoveAtNoDuplicates
    <3>2. Under' = Append(u, h)
      <4>1. t \o Append(iot_ack_queue, h) = Append(t \o iot_ack_queue, h)
        BY <1>0, <2>2, ConcatAppend, SMTT(30)
      <4> QED
        BY <2>3, <2>5, <4>1 DEF Under
    <3> HIDE DEF u
    <3>3. IsInjective(Append(u, h)) /\ Range(Append(u, h)) = Range(u) \cup {h}
      BY <2>2, <3>1, AppendNoDuplicates
    <3>4. IsInjective(Under') /\ Range(Under') = Range(Under)
      BY <3>1, <3>2, <3>3
    <3> QED
      BY <1>0, <2>1, <3>4 DEF StatesUnderWay
  <2>6. CASE UNCHANGED <<iot_msg_queue, iot_ack_queue>>
    BY <1>1, <2>1, <2>6
  <2> QED
    BY <1>4, <2>4, <2>5, <2>6 DEF ProcessItem, h, t
<1>5. CASE DestroyAnswersState
  <2>1. /\ iot_msg_queue' = RemoveAt(iot_msg_queue, 1) /\ 1 \in 1..Len(iot_msg_queue)
        /\ answered' = [answered EXCEPT ![iot_msg_queue[1]] = @ + 1]
        /\ UNCHANGED <<iot_ack_queue, item_id>>
    BY <1>0, <1>5, HeadFacts DEF DestroyAnswersState
  <2>2. /\ RemoveAt(iot_msg_queue, 1) \o iot_ack_queue = RemoveAt(Under, 1)
        /\ 1 \in 1..Len(Under)
    BY <1>0, <2>1, ConcatRemoveAt DEF Under
  <2>3. Under' = RemoveAt(Under, 1) /\ Under[1] = iot_msg_queue[1]
    <3>1. Under' = RemoveAt(Under, 1)
      BY <2>1, <2>2 DEF Under
    <3> QED
      BY <1>0, <2>1, <3>1, UnderFacts
  <2> QED
    BY <1>0, <2>1, <2>2, <2>3, LeaveKeepsUnderWay
<1>7. CASE DestroyAnswersAck
  <2> DEFINE i == 1
             q == Len(iot_msg_queue) + i
  <2>1. /\ iot_ack_queue' = RemoveAt(iot_ack_queue, i) /\ i \in 1..Len(iot_ack_queue)
        /\ answered' = [answered EXCEPT ![iot_ack_queue[i]] = @ + 1]
        /\ UNCHANGED <<iot_msg_queue, item_id>>
    BY <1>0, <1>7, HeadFacts DEF DestroyAnswersAck
  <2> HIDE DEF i
  <2>2. q \in 1..Len(Under) /\ Under[q] = iot_ack_queue[i]
    BY <1>0, <2>1, UnderFacts
  <2>3. Under' = RemoveAt(Under, q)
    <3>1. iot_msg_queue \o RemoveAt(iot_ack_queue, i) = RemoveAt(iot_msg_queue \o iot_ack_queue, q)
      BY <1>0, <2>1, ConcatRemoveAt
    <3> QED
      BY <2>1, <3>1 DEF Under
  <2>4. answered' = [answered EXCEPT ![Under[q]] = @ + 1]
    BY <2>1, <2>2
  <2> HIDE DEF q
  <2> QED
    BY <1>0, <2>1, <2>2, <2>3, <2>4, LeaveKeepsUnderWay
<1>6. ASSUME \/ \E m \in Messages : IoTHubClientCore_LL_SendEventAsync(m)
             \/ \E i \in DOMAIN held, result \in {"OK", "ERROR"} :
                  IoTHubClientCore_LL_SendComplete(i, result)
             \/ SetMessageTimeout \/ DoWork \/ TimeoutExpired \/ TimeoutCallbackReturns
             \/ TimeoutSkips \/ TimeoutsDone \/ TwinDone \/ TransportTakes \/ TransportReturns
             \/ TransportDone \/ Tick \/ UNCHANGED vars
             \/ DestroyBegins \/ UnregisterCompletes \/ DestroyConfirms \/ DestroyGoesOn
      PROVE  StatesUnderWay'
  BY <1>1, <1>6 DEF IoTHubClientCore_LL_SendEventAsync, IoTHubClientCore_LL_SendComplete,
     SetMessageTimeout, DoWork, TimeoutExpired, TimeoutCallbackReturns, TimeoutSkips,
     TimeoutsDone, TwinDone, TransportTakes, TransportReturns, TransportDone, Tick, vars, twin,
     DestroyBegins, UnregisterCompletes, DestroyConfirms, DestroyGoesOn
<1> QED
  BY <1>2, <1>3, <1>4, <1>5, <1>6, <1>7 DEF Next, DoTimeouts, TransportWork,
     IoTHubClientCore_LL_Destroy

\* Every id is used by one state: a step that uses the last id leaves no state without one.
LEMMA StepIds ==
  ASSUME CoreInv, [Next]_vars
  PROVE  IdsDistinct'
<1> USE CoreAssumption
<1>0. /\ IdsDistinct /\ item_id \in [Reports -> 0..(MaxItemId - 1)]
      /\ data_msg_id \in 1..(MaxItemId - 1)
  BY DEF CoreInv, TypeOK
<1>1. ASSUME UNCHANGED <<item_id, data_msg_id>> PROVE IdsDistinct'
  BY <1>0, <1>1 DEF IdsDistinct, Assigned
<1> DEFINE Lost(n) == FaultyIds \cap 1..(n - 1)
<1>2. ASSUME NEW r \in Reports, IoTHubClientCore_LL_SendReportedState(r)
      PROVE  IdsDistinct'
  <2>1. item_id[r] = 0 /\ data_msg_id' = get_next_item_id /\ r \notin Assigned
    BY <1>2 DEF IoTHubClientCore_LL_SendReportedState, Assigned
  <2>2. Assigned # Reports
    BY <2>1
  <2>3. /\ \A s \in Assigned : item_id[s] \in 2..data_msg_id
        /\ Cardinality(Assigned) + Cardinality(Lost(data_msg_id)) >= data_msg_id - 1
    BY <1>0, <2>2 DEF IdsDistinct
  <2>4. /\ Assigned \subseteq Reports /\ IsFiniteSet(Assigned) /\ Cardinality(Assigned) \in Nat
        /\ Cardinality(Assigned) <= Cardinality(Reports) /\ Cardinality(Reports) \in Nat
    BY IdsAssumption, FS_Subset, FS_CardinalityType DEF Assigned
  <2>5. ASSUME NEW n \in Nat
        PROVE  /\ IsFiniteSet(Lost(n)) /\ Cardinality(Lost(n)) \in Nat
               /\ Cardinality(Lost(n)) <= Cardinality(FaultyIds) /\ Cardinality(FaultyIds) \in Nat
    <3>1. Lost(n) \subseteq FaultyIds
      OBVIOUS
    <3> HIDE DEF Lost
    <3> QED
      BY <3>1, IdsAssumption, FS_Subset, FS_CardinalityType
  <2>6. Lost(data_msg_id) \subseteq Lost(data_msg_id + 1)
    BY <1>0
  <2>7. ASSUME data_msg_id \in FaultyIds
        PROVE  Cardinality(Lost(data_msg_id + 1)) = Cardinality(Lost(data_msg_id)) + 1
    <3>1. Lost(data_msg_id + 1) = Lost(data_msg_id) \cup {data_msg_id}
          /\ data_msg_id \notin Lost(data_msg_id)
      BY <1>0, <2>7
    <3>2. IsFiniteSet(Lost(data_msg_id))
      BY <1>0, <2>5
    <3> HIDE DEF Lost
    <3> QED
      BY <3>1, <3>2, FS_AddElement
  <2>8. Cardinality(Lost(data_msg_id)) <= Cardinality(Lost(data_msg_id + 1))
    <3>1. IsFiniteSet(Lost(data_msg_id + 1))
      BY <1>0, <2>5
    <3> HIDE DEF Lost
    <3> QED
      BY <2>6, <3>1, FS_Subset
  <2>9. /\ Cardinality(Lost(data_msg_id)) \in Nat /\ Cardinality(Lost(data_msg_id + 1)) \in Nat
        /\ Cardinality(Lost(data_msg_id)) <= Cardinality(FaultyIds)
        /\ Cardinality(FaultyIds) \in Nat
    BY <1>0, <2>5, SMTT(30)
  <2>10. \/ data_msg_id' = data_msg_id + 1
         \/ data_msg_id' = 1 /\ data_msg_id = MaxItemId - 1
    BY <1>0, <2>1 DEF get_next_item_id
  <2> HIDE DEF Lost
  <2>11. CASE item_id' = [item_id EXCEPT ![r] = data_msg_id']
    <3>1. data_msg_id' # 0 /\ item_id'[r] = data_msg_id'
      BY <1>0, <2>10, <2>11
    <3>2. \A s \in Reports : s # r => item_id'[s] = item_id[s]
      BY <1>0, <2>11
    <3>3. Assigned' = Assigned \cup {r}
      BY <3>1, <3>2 DEF Assigned
    <3>4. Cardinality(Assigned') = Cardinality(Assigned) + 1 /\ IsFiniteSet(Assigned')
      BY <2>1, <2>4, <3>3, FS_AddElement
    <3>5. \A s \in Assigned : item_id[s] # data_msg_id'
      BY <1>0, <2>3, <2>10
    <3>6. \A s, t \in Assigned' : item_id'[s] = item_id'[t] => s = t
      <4>1. \A s \in Assigned : item_id'[s] = item_id[s] /\ s \in Reports
        BY <2>1, <3>2 DEF Assigned
      <4> QED
        BY <1>0, <3>1, <3>3, <3>5, <4>1 DEF IdsDistinct
    <3>7. CASE data_msg_id' = data_msg_id + 1
      <4>1. \A s \in Assigned' : item_id'[s] \in 2..data_msg_id'
        <5>1. \A s \in Assigned : item_id'[s] = item_id[s]
          BY <2>1, <3>2 DEF Assigned
        <5> QED
          BY <1>0, <2>3, <3>1, <3>3, <3>7, <5>1
      <4>2. Cardinality(Assigned') + Cardinality(Lost(data_msg_id')) >= data_msg_id' - 1
        BY <1>0, <2>3, <2>4, <2>8, <2>9, <3>4, <3>7
      <4> QED
        BY <3>6, <4>1, <4>2 DEF IdsDistinct, Lost
    <3>8. CASE data_msg_id = MaxItemId - 1
      <4>1. Cardinality(Assigned') >= Cardinality(Reports)
        BY <1>0, <2>3, <2>4, <2>9, <3>4, <3>8, IdsAssumption
      <4>2. Assigned' \subseteq Reports
        BY DEF Assigned
      <4>3. Assigned' = Reports
        BY <2>4, <4>1, <4>2, <3>4, IdsAssumption, FS_Subset
      <4> QED
        BY <3>6, <4>3 DEF IdsDistinct
    <3> QED
      BY <2>10, <3>7, <3>8
  <2>12. CASE data_msg_id \in FaultyIds /\ item_id' = item_id
    <3>1. Assigned' = Assigned
      BY <2>12 DEF Assigned
    <3>2. CASE data_msg_id' = data_msg_id + 1
      <4>1. \A s \in Assigned' : item_id'[s] \in 2..data_msg_id'
        BY <1>0, <2>3, <2>12, <3>1, <3>2
      <4>2. Cardinality(Assigned') + Cardinality(Lost(data_msg_id')) >= data_msg_id' - 1
        BY <1>0, <2>3, <2>4, <2>7, <2>9, <2>12, <3>1, <3>2
      <4> QED
        BY <1>0, <2>12, <3>1, <4>1, <4>2 DEF IdsDistinct, Lost
    <3>3. CASE data_msg_id = MaxItemId - 1
      <4>1. Cardinality(Lost(data_msg_id + 1)) <= Cardinality(FaultyIds)
        BY <1>0, <2>5
      <4>2. Cardinality(Assigned) >= Cardinality(Reports)
        BY <1>0, <2>3, <2>4, <2>7, <2>9, <2>12, <3>3, <4>1, IdsAssumption
      <4>3. Assigned = Reports
        BY <2>4, <4>2, IdsAssumption, FS_Subset
      <4> QED
        BY <2>2, <4>3
    <3> QED
      BY <2>10, <3>2, <3>3
  <2> QED
    BY <1>2, <2>11, <2>12 DEF IoTHubClientCore_LL_SendReportedState
<1>3. ASSUME ~ \E r \in Reports : IoTHubClientCore_LL_SendReportedState(r)
      PROVE  IdsDistinct'
  <2>1. UNCHANGED <<item_id, data_msg_id>>
    BY <1>3 DEF Next, DoTimeouts, TransportWork, IoTHubClientCore_LL_SendEventAsync,
       IoTHubClientCore_LL_SendComplete, IoTHubClientCore_LL_ReportedStateComplete,
       SetMessageTimeout, DoWork, TimeoutExpired, TimeoutCallbackReturns, TimeoutSkips,
       TimeoutsDone, ProcessItem, TwinDone, TransportTakes, TransportReturns, TransportDone,
       IoTHubClientCore_LL_Destroy, DestroyBegins, UnregisterCompletes, DestroyConfirms,
       DestroyAnswersState, DestroyAnswersAck, DestroyGoesOn, Tick, vars, twin
  <2> QED
    BY <1>1, <2>1
<1> QED
  BY <1>2, <1>3

\* An entry that DoTimeouts does not remove is within its timeout: the difference of the
\* unsigned ticks has not wrapped.
LEMMA NotExpired ==
  ASSUME TypeOK, ClockOK, NEW m \in Messages, ~Expired(m)
  PROVE  Within(m)
<1>0. /\ ms_timesOutAfter[m] \in Nat /\ message_timeout_value[m] \in Nat /\ nowTick \in Nat
      /\ nowTick <= MaxTick /\ MaxTick \in Nat /\ TickModulus \in Nat /\ TickModulus > MaxTick
  <2>1. MaxTick \in Nat /\ TickModulus \in Nat /\ TickModulus > MaxTick /\ Timeouts \subseteq Nat
    BY CoreAssumption
  <2>2. now \in 0..MaxTick /\ nowTick \in 0..now
    BY DEF ClockOK
  <2>3. ms_timesOutAfter[m] \in Nat
    BY DEF TypeOK
  <2>4. message_timeout_value[m] \in Timeouts \cup {0}
    BY DEF TypeOK
  <2>5. \A t \in Timeouts \cup {0} : t \in Nat
    BY <2>1
  <2>6. message_timeout_value[m] \in Nat
    BY <2>4, <2>5
  <2>7. nowTick \in Nat /\ nowTick <= MaxTick
    BY <2>1, <2>2
  <2> QED
    BY <2>1, <2>3, <2>6, <2>7
<1>1. CASE ms_timesOutAfter[m] > nowTick \/ ms_timesOutAfter[m] = 0
  BY <1>0, <1>1 DEF Within
<1>2. CASE ms_timesOutAfter[m] # 0 /\ ms_timesOutAfter[m] <= nowTick
  <2> DEFINE d == nowTick - ms_timesOutAfter[m]
  <2>1. d \in 0..(TickModulus - 1)
    BY <1>0, <1>2
  <2>2. d % TickModulus = d
    <3> HIDE DEF d
    <3> QED
      BY <1>0, <2>1
  <2>3. ~(d % TickModulus > message_timeout_value[m])
    BY <1>2 DEF Expired
  <2>4. d <= message_timeout_value[m]
    BY <1>0, <2>1, <2>2, <2>3
  <2> QED
    BY <1>0, <2>4 DEF Within
<1> QED
  BY <1>0, <1>1, <1>2

\* Every step keeps what DoTimeouts knows of the entries it went past.
LEMMA StepScan ==
  ASSUME CoreInv, [Next]_vars
  PROVE  ScanInv'
<1> DEFINE w == waitingToSend
<1>0. /\ TypeOK /\ ClockOK /\ ScanInv /\ Accounted /\ w \in Seq(Messages)
      /\ DOMAIN w = 1..Len(w) /\ Len(w) \in Nat /\ Range(w) \subseteq Messages
      /\ IsInjective(w) /\ \A i \in DOMAIN w : w[i] \in Messages /\ w[i] # End
  <2>1. /\ TypeOK /\ ClockOK /\ ScanInv /\ Accounted /\ w \in Seq(Messages)
        /\ DOMAIN w = 1..Len(w) /\ Len(w) \in Nat /\ Range(w) \subseteq Messages
    BY LineFacts DEF CoreInv
  <2>2. IsInjective(w)
    BY <2>1, LineParts
  <2> QED
    BY <2>1, <2>2, EndAssumption
<1>n. Len(w) \in Nat /\ DOMAIN w = 1..Len(w)
  BY <1>0
<1>1. CASE pc' \notin {"timeouts", "callback"}
  BY <1>1 DEF ScanInv
<1>2. ASSUME UNCHANGED <<telemetry, nowTick, item>>, pc \in {"timeouts", "callback"}
      PROVE  ScanInv'
  BY <1>0, <1>2 DEF ScanInv, Within, telemetry
<1>3. ASSUME NEW m \in Messages, IoTHubClientCore_LL_SendEventAsync(m),
             pc \in {"timeouts", "callback"}
      PROVE  ScanInv'
  <2>1. /\ sent_tick[m] = Never /\ waitingToSend' = Append(w, m)
        /\ ms_timesOutAfter' =
             [ms_timesOutAfter EXCEPT ![m] = IF currentMessageTimeout = 0 THEN 0 ELSE now]
        /\ message_timeout_value' = [message_timeout_value EXCEPT ![m] = currentMessageTimeout]
        /\ UNCHANGED <<nowTick, item>>
    BY <1>3 DEF IoTHubClientCore_LL_SendEventAsync, attach_ms_timesOutAfter
  <2>2. m \notin Range(w)
    BY <1>0, <2>1, LineFacts DEF Accounted
  <2>3. item \in Range(w) \cup {End}
    BY <1>0, <1>3 DEF ScanInv
  <2> DEFINE a == Append(w, m)
  <2>4. /\ Range(a) = Range(w) \cup {m} /\ DOMAIN a = 1..(Len(w) + 1) /\ a[Len(w) + 1] = m
        /\ \A i \in 1..Len(w) : a[i] = w[i]
    BY <1>0, AppendNoDuplicates
  <2> HIDE DEF a
  <2> DEFINE WithinNow(n) ==
        ms_timesOutAfter'[n] > 0 => ms_timesOutAfter'[n] >= nowTick' - message_timeout_value'[n]
  <2>5. WithinNow(m)
    <3>1. /\ ms_timesOutAfter'[m] \in {0, now} /\ message_timeout_value'[m] = currentMessageTimeout
          /\ now \in Nat /\ nowTick' \in Nat /\ nowTick' <= now
      BY <1>0, <2>1 DEF TypeOK, ClockOK
    <3>2. currentMessageTimeout \in Timeouts \cup {0} /\ Timeouts \subseteq Nat
      BY <1>0, CoreAssumption DEF TypeOK
    <3>3. message_timeout_value'[m] \in Nat
      BY <3>1, <3>2
    <3> QED
      BY <3>1, <3>3
  <2>6. ASSUME NEW i \in DOMAIN a, \A j \in 1..i : a[j] # item
        PROVE  WithinNow(a[i])
    <3>1. CASE i = Len(w) + 1
      <4>1. a[i] = m
        BY <2>4, <3>1
      <4> QED
        BY <2>5, <4>1
    <3>2. CASE i \in 1..Len(w)
      <4>1. \A j \in 1..i : j \in 1..Len(w)
        BY <1>n, <3>2
      <4>2. \A j \in 1..i : w[j] # item
        BY <2>4, <2>6, <4>1
      <4>3. Within(w[i])
        BY <1>0, <1>3, <3>2, <4>2 DEF ScanInv
      <4>4. w[i] # m /\ w[i] \in Messages
        BY <1>0, <2>2, <3>2 DEF Range
      <4>5. /\ ms_timesOutAfter'[w[i]] = ms_timesOutAfter[w[i]]
            /\ message_timeout_value'[w[i]] = message_timeout_value[w[i]]
        BY <1>0, <2>1, <4>4 DEF TypeOK
      <4>6. WithinNow(w[i])
        BY <2>1, <4>3, <4>5 DEF Within
      <4>7. a[i] = w[i]
        BY <2>4, <3>2
      <4> QED
        BY <4>6, <4>7
    <3> QED
      BY <1>n, <2>4, <3>1, <3>2
  <2>7. waitingToSend' = a /\ item' = item
    BY <2>1 DEF a
  <2>8. ASSUME NEW i \in DOMAIN waitingToSend', \A j \in 1..i : waitingToSend'[j] # item'
        PROVE  WithinNow(waitingToSend'[i])
    BY <2>6, <2>7, <2>8
  <2> QED
    BY <2>3, <2>4, <2>7, <2>8 DEF ScanInv, Within
<1>4. CASE DoWork
  <2>1. CASE w = <<>>
    <3>1. item' = End \/ pc' = "twin"
      BY <1>4, <2>1 DEF DoWork, FirstOf
    <3>2. waitingToSend' = <<>>
      BY <1>4, <2>1 DEF DoWork, telemetry
    <3> QED
      BY <3>1, <3>2 DEF ScanInv
  <2>2. CASE w # <<>>
    <3>1. (item' = w[1] \/ pc' = "twin") /\ waitingToSend' = w /\ 1 \in DOMAIN w
      BY <1>0, <1>4, <2>2, HeadFacts DEF DoWork, FirstOf, telemetry
    <3>2. w[1] \in Range(w)
      BY <3>1 DEF Range
    <3>3. \A i \in DOMAIN w : 1 \in 1..i
      BY <1>0
    <3> QED
      BY <3>1, <3>2, <3>3 DEF ScanInv
  <2> QED
    BY <2>1, <2>2
<1>5. ASSUME pc = "timeouts", item # End
      PROVE  \E p \in 1..Len(w) :
               /\ p = PositionOf(w, item) /\ w[p] = item
               /\ p = Len(w) => NextOf(w, item) = End
               /\ p # Len(w) => NextOf(w, item) = w[p + 1] /\ p + 1 \in 1..Len(w)
               /\ \A i \in 1..Len(w) : i < p => Within(w[i])
  <2>1. item \in Range(w)
    BY <1>0, <1>5 DEF ScanInv
  <2>2. PICK p \in 1..Len(w) :
          /\ p = PositionOf(w, item) /\ w[p] = item
          /\ p = Len(w) => NextOf(w, item) = End
          /\ p # Len(w) => NextOf(w, item) = w[p + 1] /\ p + 1 \in 1..Len(w)
    BY <1>0, <2>1, PositionFacts
  <2>3. ASSUME NEW i \in 1..Len(w), i < p
        PROVE  Within(w[i])
    <3>1. \A j \in 1..i : j \in 1..Len(w) /\ j # p
      BY <1>n, <2>3
    <3>2. \A j \in 1..i : w[j] # item
      BY <1>0, <2>2, <3>1 DEF IsInjective
    <3> QED
      BY <1>0, <1>5, <3>2 DEF ScanInv
  <2> QED
    BY <2>2, <2>3
<1>6. CASE TimeoutExpired
  <2>0. pc = "timeouts" /\ item # End
    BY <1>6 DEF TimeoutExpired
  <2> DEFINE n == NextOf(w, item)
  <2>1. PICK p \in 1..Len(w) :
          /\ p = PositionOf(w, item) /\ w[p] = item
          /\ p = Len(w) => n = End
          /\ p # Len(w) => n = w[p + 1] /\ p + 1 \in 1..Len(w)
          /\ \A i \in 1..Len(w) : i < p => Within(w[i])
    BY <1>5, <2>0
  <2> DEFINE r == RemoveAt(w, p)
  <2>2. /\ waitingToSend' = r /\ item' = n
        /\ UNCHANGED <<nowTick, ms_timesOutAfter, message_timeout_value>>
    BY <1>6, <2>1 DEF TimeoutExpired
  <2> HIDE DEF n
  <2>3. /\ r \in Seq(Messages) /\ Len(r) = Len(w) - 1 /\ Range(r) = Range(w) \ {item}
        /\ \A j \in 1..(Len(w) - 1) : r[j] = IF j < p THEN w[j] ELSE w[j + 1]
    <3>1. w \in Seq(Messages) /\ IsInjective(w) /\ w[p] = item
      BY <1>0, <2>1
    <3> QED
      BY <3>1, RemoveAtElements, RemoveAtNoDuplicates
  <2> HIDE DEF r
  <2>4. n \in Range(r) \cup {End}
    <3>1. CASE p # Len(w)
      <4>1. n = w[p + 1] /\ p + 1 \in 1..Len(w) /\ p + 1 # p
        BY <1>n, <2>1, <3>1
      <4>2. n \in Range(w)
        BY <1>n, <4>1 DEF Range
      <4>3. n # item
        BY <1>0, <1>n, <2>1, <4>1 DEF IsInjective
      <4> QED
        BY <2>3, <4>2, <4>3
    <3> QED
      BY <2>1, <3>1
  <2>5. ASSUME NEW i \in DOMAIN r, \A j \in 1..i : r[j] # n
        PROVE  Within(r[i])
    <3>1. i \in 1..(Len(w) - 1)
      BY <2>3
    <3>2. i < p
      <4>1. SUFFICES ASSUME ~(i < p) PROVE FALSE
        OBVIOUS
      <4>2. p # Len(w) /\ p \in 1..i /\ p \in 1..(Len(w) - 1) /\ ~(p < p)
        BY <1>n, <2>1, <3>1, <4>1
      <4>3. r[p] = w[p + 1]
        BY <2>3, <4>2
      <4> QED
        BY <2>1, <2>5, <4>2, <4>3
    <3>3. r[i] = w[i] /\ i \in 1..Len(w)
      BY <1>n, <2>3, <3>1, <3>2
    <3> QED
      BY <2>1, <3>2, <3>3
  <2>6. \A i \in DOMAIN waitingToSend' :
          (\A j \in 1..i : waitingToSend'[j] # item') => Within(waitingToSend'[i])
    BY <2>2, <2>5
  <2> QED
    BY <2>2, <2>4, <2>6 DEF ScanInv, Within
<1>7. CASE TimeoutSkips
  <2>0. pc = "timeouts" /\ item # End /\ ~Expired(item)
    BY <1>7 DEF TimeoutSkips
  <2> DEFINE n == NextOf(w, item)
  <2>1. PICK p \in 1..Len(w) :
          /\ p = PositionOf(w, item) /\ w[p] = item
          /\ p = Len(w) => n = End
          /\ p # Len(w) => n = w[p + 1] /\ p + 1 \in 1..Len(w)
          /\ \A i \in 1..Len(w) : i < p => Within(w[i])
    BY <1>5, <2>0
  <2>2. item' = n /\ UNCHANGED <<telemetry, nowTick>>
    BY <1>7 DEF TimeoutSkips
  <2> HIDE DEF n
  <2>3. Within(item)
    <3>1. item \in Messages
      BY <1>0, <1>n, <2>1
    <3> QED
      BY <1>0, <2>0, <3>1, NotExpired
  <2>4. n \in Range(w) \cup {End}
    BY <1>n, <2>1 DEF Range
  <2>5. ASSUME NEW i \in DOMAIN w, \A j \in 1..i : w[j] # n
        PROVE  Within(w[i])
    <3>0. i \in 1..Len(w)
      BY <1>n
    <3>1. i <= p
      <4>1. SUFFICES ASSUME ~(i <= p) PROVE FALSE
        OBVIOUS
      <4>2. p # Len(w) /\ p + 1 \in 1..i
        BY <1>n, <2>1, <3>0, <4>1
      <4> QED
        BY <2>1, <2>5, <4>2
    <3>2. CASE i = p
      BY <2>1, <2>3, <3>2
    <3>3. CASE i < p
      BY <2>1, <3>0, <3>3
    <3> QED
      BY <1>n, <3>0, <3>1, <3>2, <3>3
  <2> QED
    BY <2>2, <2>4, <2>5 DEF ScanInv, Within, telemetry
<1>8. ASSUME \/ \E r \in Reports : IoTHubClientCore_LL_SendReportedState(r)
                                   \/ IoTHubClientCore_LL_ReportedStateComplete(item_id[r])
             \/ SetMessageTimeout \/ TimeoutCallbackReturns \/ Tick \/ UNCHANGED vars
             \/ ProcessItem
      PROVE  ScanInv'
  <2>1. UNCHANGED <<telemetry, nowTick, item>>
    BY <1>8 DEF IoTHubClientCore_LL_SendReportedState,
       IoTHubClientCore_LL_ReportedStateComplete, SetMessageTimeout, TimeoutCallbackReturns,
       Tick, ProcessItem, vars, telemetry
  <2>2. pc' \in {"timeouts", "callback"} => pc \in {"timeouts", "callback"}
    BY <1>8 DEF IoTHubClientCore_LL_SendReportedState,
       IoTHubClientCore_LL_ReportedStateComplete, SetMessageTimeout, TimeoutCallbackReturns,
       Tick, ProcessItem, vars
  <2> QED
    BY <1>1, <1>2, <2>1, <2>2
<1>9. ASSUME \/ \E i \in DOMAIN held, result \in {"OK", "ERROR"} :
                  IoTHubClientCore_LL_SendComplete(i, result)
             \/ TransportTakes \/ TransportReturns \/ TransportDone \/ TimeoutsDone \/ TwinDone
             \/ DestroyBegins \/ IoTHubClientCore_LL_Destroy
      PROVE  ScanInv'
  <2>1. pc' \notin {"timeouts", "callback"}
    BY <1>9 DEF IoTHubClientCore_LL_SendComplete, TransportTakes, TransportReturns,
       TransportDone, TimeoutsDone, TwinDone, DestroyBegins, IoTHubClientCore_LL_Destroy,
       UnregisterCompletes, DestroyConfirms, DestroyAnswersState, DestroyAnswersAck,
       DestroyGoesOn
  <2> QED
    BY <1>1, <2>1
<1>10. ASSUME NEW m \in Messages, IoTHubClientCore_LL_SendEventAsync(m)
       PROVE  ScanInv'
  <2>1. pc' = pc
    BY <1>10 DEF IoTHubClientCore_LL_SendEventAsync
  <2> QED
    BY <1>1, <1>3, <1>10, <2>1
<1> QED
  BY <1>4, <1>6, <1>7, <1>8, <1>9, <1>10 DEF Next, DoTimeouts, TransportWork

\* Every step keeps the order of Destroy: a drained list gets only what is noted as late.
LEMMA StepDestroys ==
  ASSUME CoreInv, [Next]_vars
  PROVE  DestroyOrder'
<1> USE DEF Unregistering, DrainingMessages, DrainingStates, DrainingAcks
<1>0. /\ TypeOK /\ DestroyOrder /\ waitingToSend \in Seq(Messages) /\ held \in Seq(Messages)
      /\ iot_msg_queue \in Seq(Reports) /\ iot_ack_queue \in Seq(Reports)
  BY DEF CoreInv, TypeOK
<1> DEFINE Drains == DrainingMessages \cup DrainingStates \cup DrainingAcks \cup {"destroyed"}
<1>1. ASSUME pc' \notin Drains
      PROVE  DestroyOrder'
  BY <1>1 DEF DestroyOrder
<1>2. ASSUME pc' = pc, held' = held, waitingToSend' = waitingToSend, tooLate' = tooLate,
             iot_msg_queue' = iot_msg_queue, untold' = untold, iot_ack_queue' = iot_ack_queue
      PROVE  DestroyOrder'
  BY <1>0, <1>2 DEF DestroyOrder
<1>3. ASSUME NEW m \in Messages, IoTHubClientCore_LL_SendEventAsync(m)
      PROVE  DestroyOrder'
  <2>1. /\ waitingToSend' = Append(waitingToSend, m) /\ pc' = pc
        /\ UNCHANGED <<held, iot_msg_queue, iot_ack_queue, untold>>
        /\ pc \in {"statesCall", "acksCall"} => tooLate' = tooLate \cup {m}
        /\ pc \notin {"states", "acks", "destroyed"}
    BY <1>3 DEF IoTHubClientCore_LL_SendEventAsync, ApplicationRuns, twin
  <2>2. Range(waitingToSend') = Range(waitingToSend) \cup {m}
    BY <1>0, <2>1, AppendNoDuplicates
  <2> QED
    BY <1>0, <2>1, <2>2 DEF DestroyOrder
<1>4. ASSUME NEW r \in Reports, IoTHubClientCore_LL_SendReportedState(r)
      PROVE  DestroyOrder'
  <2>1. /\ pc' = pc /\ UNCHANGED <<held, waitingToSend, iot_ack_queue, tooLate>>
        /\ pc \notin {"states", "acks", "destroyed"}
    BY <1>4 DEF IoTHubClientCore_LL_SendReportedState, ApplicationRuns, telemetry
  <2>2. CASE UNCHANGED <<iot_msg_queue, untold>>
    BY <1>2, <2>1, <2>2
  <2>3. CASE /\ iot_msg_queue' = Append(iot_msg_queue, r)
             /\ untold' = IF pc = "acksCall" THEN untold \cup {r} ELSE untold
    <3>1. Range(iot_msg_queue') = Range(iot_msg_queue) \cup {r}
      BY <1>0, <2>3, AppendNoDuplicates
    <3> QED
      BY <1>0, <2>1, <2>3, <3>1 DEF DestroyOrder
  <2> QED
    BY <1>4, <2>2, <2>3 DEF IoTHubClientCore_LL_SendReportedState
<1>5. CASE SetMessageTimeout \/ UNCHANGED vars
  BY <1>2, <1>5 DEF SetMessageTimeout, vars, telemetry, twin
<1>6. ASSUME \/ DoWork \/ DoTimeouts \/ ProcessItem \/ TwinDone \/ TransportWork
             \/ TransportDone \/ DestroyBegins \/ UnregisterCompletes \/ Tick
      PROVE  DestroyOrder'
  <2>1. pc' \notin Drains
    BY <1>6 DEF DoWork, DoTimeouts, TimeoutExpired, TimeoutCallbackReturns, TimeoutSkips,
       TimeoutsDone, ProcessItem, TwinDone, TransportWork, TransportTakes, TransportReturns,
       IoTHubClientCore_LL_SendComplete, IoTHubClientCore_LL_ReportedStateComplete,
       TransportDone, DestroyBegins, UnregisterCompletes, Tick
  <2> QED
    BY <1>1, <2>1
<1>7. CASE DestroyConfirms
  BY <1>0, <1>7 DEF DestroyConfirms, DestroyOrder, twin
<1>8. CASE DestroyAnswersState
  BY <1>0, <1>8 DEF DestroyAnswersState, DestroyOrder, telemetry
<1>9. CASE DestroyAnswersAck
  BY <1>0, <1>9 DEF DestroyAnswersAck, DestroyOrder, telemetry
<1>10. CASE DestroyGoesOn
  <2>1. \A q \in {held, waitingToSend, iot_msg_queue} : q = <<>> => Range(q) = {}
    BY DEF Range
  <2>2. UNCHANGED <<held, waitingToSend, tooLate, iot_msg_queue, untold, iot_ack_queue>>
    BY <1>10 DEF DestroyGoesOn, telemetry, twin
  <2> QED
    BY <1>0, <1>10, <2>1, <2>2 DEF DestroyGoesOn, DestroyOrder
<1> QED
  BY <1>3, <1>4, <1>5, <1>6, <1>7, <1>8, <1>9, <1>10 DEF Next, IoTHubClientCore_LL_Destroy

\* A state leaves the lists answered, or noted as one that is not answered.
LEMMA StepSettles ==
  ASSUME CoreInv, [Next]_vars
  PROVE  StatesSettled'
<1>0. /\ TypeOK /\ StatesSettled /\ StatesUnderWay /\ TypeOK'
      /\ iot_msg_queue \in Seq(Reports) /\ iot_ack_queue \in Seq(Reports)
      /\ Under \in Seq(Reports) /\ Range(Under) \subseteq Reports
      /\ Range(Under) = Range(iot_msg_queue) \cup Range(iot_ack_queue)
      /\ Range(Under') = Range(iot_msg_queue') \cup Range(iot_ack_queue')
      /\ answered \in [Reports -> Nat] /\ IsInjective(iot_msg_queue) /\ IsInjective(iot_ack_queue)
  <2>1. TypeOK /\ TypeOK' /\ StatesSettled /\ StatesUnderWay
    BY StepTyped DEF CoreInv
  <2>2. Range(Under') = Range(iot_msg_queue') \cup Range(iot_ack_queue')
    <3>1. iot_msg_queue' \in Seq(Reports) /\ iot_ack_queue' \in Seq(Reports)
      BY <2>1 DEF TypeOK
    <3>2. Range(iot_msg_queue' \o iot_ack_queue') = Range(iot_msg_queue') \cup Range(iot_ack_queue')
      BY <3>1, ConcatNoDuplicates
    <3> QED
      BY <3>2 DEF Under
  <2>3. /\ iot_msg_queue \in Seq(Reports) /\ iot_ack_queue \in Seq(Reports)
        /\ Under \in Seq(Reports) /\ Range(Under) \subseteq Reports
        /\ Range(Under) = Range(iot_msg_queue) \cup Range(iot_ack_queue)
    BY <2>1, UnderFacts
  <2>4. IsInjective(iot_msg_queue) /\ IsInjective(iot_ack_queue)
    BY <2>1, <2>3, PartsNoDuplicates DEF StatesUnderWay, Under
  <2> QED
    BY <2>1, <2>2, <2>3, <2>4 DEF TypeOK
<1>1. ASSUME UNCHANGED twin
      PROVE  StatesSettled'
  <2>1. Under' = Under
    BY <1>1 DEF Under, twin
  <2> QED
    BY <1>0, <1>1, <2>1 DEF StatesSettled, twin
\* One item h is answered or noted, and leaves its queue.
<1>2. ASSUME NEW h \in Reports, item_id' = item_id, untold \subseteq untold',
             Range(Under) \ {h} \subseteq Range(Under'),
             \/ answered' = [answered EXCEPT ![h] = @ + 1] /\ answered[h] = 0
             \/ answered' = answered /\ h \in untold' \cup Range(Under')
      PROVE  StatesSettled'
  <2>1. \A r \in Reports : r # h => answered'[r] = answered[r]
    BY <1>0, <1>2
  <2>2. answered'[h] = 1 \/ h \in untold' \/ h \in Range(Under')
    BY <1>0, <1>2
  <2> QED
    BY <1>0, <1>2, <2>1, <2>2 DEF StatesSettled
<1>3. ASSUME NEW r \in Reports, IoTHubClientCore_LL_SendReportedState(r)
      PROVE  StatesSettled'
  <2>1. /\ untold \subseteq untold' /\ answered' = answered /\ iot_ack_queue' = iot_ack_queue
    BY <1>3 DEF IoTHubClientCore_LL_SendReportedState
  <2>2. CASE item_id' = item_id /\ iot_msg_queue' = iot_msg_queue
    BY <1>0, <2>1, <2>2 DEF StatesSettled
  <2>3. CASE /\ iot_msg_queue' = Append(iot_msg_queue, r)
             /\ item_id' = [item_id EXCEPT ![r] = data_msg_id']
    <3>1. Range(iot_msg_queue') = Range(iot_msg_queue) \cup {r}
      BY <1>0, <2>3, AppendNoDuplicates
    <3>2. \A q \in Reports : q # r => item_id'[q] = item_id[q]
      BY <1>0, <2>3 DEF TypeOK
    <3> QED
      BY <1>0, <2>1, <3>1, <3>2 DEF StatesSettled
  <2> QED
    BY <1>3, <2>2, <2>3 DEF IoTHubClientCore_LL_SendReportedState
<1>4. ASSUME NEW q \in Seq(Reports), IsInjective(q), NEW i \in 1..Len(q),
             Range(q) \subseteq Range(Under)
      PROVE  q[i] \in Reports /\ answered[q[i]] = 0 /\ Range(RemoveAt(q, i)) = Range(q) \ {q[i]}
  <2>1. q[i] \in Range(q) /\ q[i] \in Reports
    BY <1>4 DEF Range
  <2> QED
    BY <1>0, <1>4, <2>1, RemoveAtNoDuplicates DEF StatesUnderWay
<1>5. ASSUME NEW id, IoTHubClientCore_LL_ReportedStateComplete(id)
      PROVE  StatesSettled'
  <2>1. PICK i \in DOMAIN iot_ack_queue :
          /\ answered' = [answered EXCEPT ![iot_ack_queue[i]] = @ + 1]
          /\ iot_ack_queue' = RemoveAt(iot_ack_queue, i)
    BY <1>5 DEF IoTHubClientCore_LL_ReportedStateComplete
  <2>2. UNCHANGED <<iot_msg_queue, item_id, untold>> /\ i \in 1..Len(iot_ack_queue)
    BY <1>0, <1>5 DEF IoTHubClientCore_LL_ReportedStateComplete
  <2>3. /\ iot_ack_queue[i] \in Reports /\ answered[iot_ack_queue[i]] = 0
        /\ Range(RemoveAt(iot_ack_queue, i)) = Range(iot_ack_queue) \ {iot_ack_queue[i]}
    BY <1>0, <1>4, <2>2
  <2> QED
    BY <1>0, <1>2, <2>1, <2>2, <2>3
<1>6. CASE DestroyAnswersState
  <2>1. /\ answered' = [answered EXCEPT ![iot_msg_queue[1]] = @ + 1]
        /\ iot_msg_queue' = RemoveAt(iot_msg_queue, 1) /\ 1 \in 1..Len(iot_msg_queue)
        /\ UNCHANGED <<iot_ack_queue, item_id, untold>>
    BY <1>0, <1>6, HeadFacts DEF DestroyAnswersState
  <2>2. /\ iot_msg_queue[1] \in Reports /\ answered[iot_msg_queue[1]] = 0
        /\ Range(RemoveAt(iot_msg_queue, 1)) = Range(iot_msg_queue) \ {iot_msg_queue[1]}
    BY <1>0, <1>4, <2>1
  <2> QED
    BY <1>0, <1>2, <2>1, <2>2
<1>7. CASE DestroyAnswersAck
  <2>1. /\ answered' = [answered EXCEPT ![iot_ack_queue[1]] = @ + 1]
        /\ iot_ack_queue' = RemoveAt(iot_ack_queue, 1) /\ 1 \in 1..Len(iot_ack_queue)
        /\ UNCHANGED <<iot_msg_queue, item_id, untold>>
    BY <1>0, <1>7, HeadFacts DEF DestroyAnswersAck
  <2>2. /\ iot_ack_queue[1] \in Reports /\ answered[iot_ack_queue[1]] = 0
        /\ Range(RemoveAt(iot_ack_queue, 1)) = Range(iot_ack_queue) \ {iot_ack_queue[1]}
    BY <1>0, <1>4, <2>1
  <2> QED
    BY <1>0, <1>2, <2>1, <2>2
<1>8. CASE ProcessItem
  <2> DEFINE h == Head(iot_msg_queue)
             t == Tail(iot_msg_queue)
  <2>1. /\ iot_msg_queue # <<>> /\ UNCHANGED <<item_id, answered>>
    BY <1>8 DEF ProcessItem
  <2>2. /\ h = iot_msg_queue[1] /\ t = RemoveAt(iot_msg_queue, 1) /\ 1 \in 1..Len(iot_msg_queue)
        /\ h \in Reports
    BY <1>0, <2>1, HeadFacts
  <2> HIDE DEF h, t
  <2>3. Range(t) = Range(iot_msg_queue) \ {h}
    <3>1. /\ iot_msg_queue \in Seq(Reports) /\ IsInjective(iot_msg_queue)
          /\ Range(iot_msg_queue) \subseteq Range(Under)
      BY <1>0
    <3>2. Range(RemoveAt(iot_msg_queue, 1)) = Range(iot_msg_queue) \ {iot_msg_queue[1]}
      BY <1>4, <2>2, <3>1
    <3> QED
      BY <2>2, <3>2
  <2>4. CASE iot_msg_queue' = t /\ iot_ack_queue' = iot_ack_queue /\ untold' = untold \cup {h}
    BY <1>0, <1>2, <2>1, <2>2, <2>3, <2>4
  <2>5. CASE iot_msg_queue' = t /\ iot_ack_queue' = Append(iot_ack_queue, h) /\ untold' = untold
    <3>1. Range(iot_ack_queue') = Range(iot_ack_queue) \cup {h}
      BY <1>0, <2>2, <2>5, AppendNoDuplicates
    <3> QED
      BY <1>0, <1>2, <2>1, <2>2, <2>3, <2>5, <3>1
  <2>6. CASE UNCHANGED <<iot_msg_queue, iot_ack_queue, untold>>
    BY <1>0, <2>1, <2>6 DEF StatesSettled
  <2> QED
    BY <1>8, <2>4, <2>5, <2>6 DEF ProcessItem, h, t
<1>9. ASSUME \/ \E m \in Messages : IoTHubClientCore_LL_SendEventAsync(m)
             \/ \E i \in DOMAIN held, result \in {"OK", "ERROR"} :
                  IoTHubClientCore_LL_SendComplete(i, result)
             \/ SetMessageTimeout \/ DoWork \/ DoTimeouts \/ TwinDone \/ TransportTakes
             \/ TransportReturns \/ TransportDone \/ Tick \/ UNCHANGED vars
             \/ DestroyBegins \/ UnregisterCompletes \/ DestroyConfirms \/ DestroyGoesOn
      PROVE  StatesSettled'
  <2>1. UNCHANGED twin
    BY <1>9 DEF IoTHubClientCore_LL_SendEventAsync, IoTHubClientCore_LL_SendComplete,
       SetMessageTimeout, DoWork, DoTimeouts, TimeoutExpired, TimeoutCallbackReturns,
       TimeoutSkips, TimeoutsDone, TwinDone, TransportTakes, TransportReturns, TransportDone,
       Tick, vars, twin, DestroyBegins, UnregisterCompletes, DestroyConfirms, DestroyGoesOn
  <2> QED
    BY <1>1, <2>1
<1> QED
  BY <1>3, <1>5, <1>6, <1>7, <1>8, <1>9 DEF Next, TransportWork, IoTHubClientCore_LL_Destroy

-----------------------------------------------------------------------------
(* The theorems *)

\* The client starts with empty lists and no id given out.
LEMMA InitInv == Init => CoreInv
<1> SUFFICES ASSUME Init PROVE CoreInv
  OBVIOUS
<1> USE CoreAssumption
<1>1. TypeOK
  BY DEF Init, TypeOK, Pcs, Never
<1>2. ClockOK
  BY DEF Init, ClockOK
<1>3. Line = <<>> /\ Under = <<>>
  BY DEF Init, Line, Under
<1>4. Range(Line) = {} /\ DOMAIN Line = {} /\ Range(Under) = {} /\ DOMAIN Under = {}
  BY <1>3 DEF Range
<1>5. Accounted
  BY <1>4 DEF Init, Accounted, IsInjective
<1>6. StatesUnderWay
  BY <1>4 DEF Init, StatesUnderWay, IsInjective
<1>7. IdsDistinct
  <2>1. Assigned = {} /\ data_msg_id = 1
    BY DEF Init, Assigned
  <2>2. IsFiniteSet(FaultyIds \cap 1..(data_msg_id - 1))
    BY IdsAssumption, FS_Intersection
  <2>3. Cardinality(Assigned) = 0 /\ Cardinality(FaultyIds \cap 1..(data_msg_id - 1)) \in Nat
    BY <2>1, <2>2, FS_EmptySet, FS_CardinalityType
  <2> QED
    BY <2>1, <2>3 DEF IdsDistinct
<1>8. ScanInv
  BY DEF Init, ScanInv
<1>9. DestroyOrder
  BY DEF Init, DestroyOrder, DrainingMessages, DrainingStates, DrainingAcks
<1>10. StatesSettled
  BY DEF Init, StatesSettled
<1> QED
  BY <1>1, <1>2, <1>5, <1>6, <1>7, <1>8, <1>9, <1>10 DEF CoreInv

\* The inductive invariant of the client's lists.
THEOREM CoreInvariant == Spec => []CoreInv
<1>1. Init => CoreInv
  BY InitInv
<1>2. CoreInv /\ [Next]_vars => CoreInv'
  BY StepTyped, StepAccounted, StepUnderWay, StepIds, StepScan, StepDestroys, StepSettles
     DEF CoreInv
<1> QED
  BY <1>1, <1>2, PTL DEF Spec

\* What a reader of the client relies on follows from the invariant.
LEMMA InvSound == CoreInv => ListsSound
<1> SUFFICES ASSUME CoreInv PROVE ListsSound
  OBVIOUS
<1>0. TypeOK /\ Accounted /\ StatesUnderWay /\ IdsDistinct /\ ScanInv
  BY DEF CoreInv
<1>1. ConfirmedExactlyOnce
  <2>1. IsInjective(waitingToSend \o held)
    BY <1>0, LineParts
  <2>2. Range(Line) = Range(held) \cup Range(waitingToSend)
    BY <1>0, LineFacts
  <2> QED
    BY <1>0, <2>1, <2>2 DEF ConfirmedExactlyOnce, Accounted
<1>2. ScanPositionValid
  BY <1>0 DEF ScanInv, ScanPositionValid
<1>3. ReportedStatesTold
  <2>1. /\ Range(Under) = Range(iot_msg_queue) \cup Range(iot_ack_queue)
        /\ Range(Under) \subseteq Reports
    BY <1>0, UnderFacts
  <2>2. Range(Under) \subseteq Assigned
    BY <1>0, <2>1 DEF StatesUnderWay, Assigned
  <2>3. IsInjective(iot_msg_queue \o iot_ack_queue)
    BY <1>0 DEF StatesUnderWay, Under
  <2> QED
    BY <1>0, <2>1, <2>2, <2>3 DEF ReportedStatesTold, StatesUnderWay, IdsDistinct
<1>4. SentInOrder
  <2>1. ASSUME NEW i \in DOMAIN waitingToSend, NEW j \in DOMAIN waitingToSend, i < j
        PROVE  sent_tick[waitingToSend[i]] <= sent_tick[waitingToSend[j]]
    <3>1. /\ Len(held) + i \in DOMAIN Line /\ Line[Len(held) + i] = waitingToSend[i]
          /\ Len(held) + j \in DOMAIN Line /\ Line[Len(held) + j] = waitingToSend[j]
      BY <1>0, LineFacts
    <3>2. Len(held) + i < Len(held) + j
      BY <1>0, <2>1, LineFacts
    <3> QED
      BY <1>0, <3>1, <3>2 DEF Accounted
  <2> QED
    BY <2>1 DEF SentInOrder
<1> QED
  BY <1>0, <1>1, <1>2, <1>3, <1>4 DEF ListsSound

\* Every message sent is in a list or confirmed once, every reported state has an id of its
\* own, the scan of DoTimeouts stays on the list, and messages are taken in order.
THEOREM ListsAreSound == Spec => []ListsSound
BY CoreInvariant, InvSound, PTL

\* When DoTimeouts ends, what is left in waitingToSend was within its timeout at the clock
\* reading of the scan or was sent after it.
THEOREM ScanIsComplete == Spec => ScanComplete
<1> DEFINE Complete == pc = "timeouts" /\ pc' = "twin" =>
             \A m \in Range(waitingToSend) : Within(m)
<1>1. ASSUME CoreInv, [Next]_vars, pc = "timeouts", pc' = "twin", NEW m \in Range(waitingToSend)
      PROVE  Within(m)
  <2>1. TimeoutsDone
    BY <1>1 DEF Next, DoTimeouts, TransportWork, IoTHubClientCore_LL_SendEventAsync,
       IoTHubClientCore_LL_SendReportedState, SetMessageTimeout, DoWork, TimeoutExpired,
       TimeoutCallbackReturns, TimeoutSkips, ProcessItem, TwinDone, TransportTakes,
       TransportReturns, IoTHubClientCore_LL_SendComplete,
       IoTHubClientCore_LL_ReportedStateComplete, TransportDone, DestroyBegins,
       IoTHubClientCore_LL_Destroy, UnregisterCompletes, DestroyConfirms, DestroyAnswersState,
       DestroyAnswersAck, DestroyGoesOn, Tick, vars
  <2>2. item = End
    BY <2>1 DEF TimeoutsDone
  <2>3. PICK i \in DOMAIN waitingToSend : waitingToSend[i] = m
    BY <1>1 DEF Range
  <2>4. \A j \in 1..i : waitingToSend[j] # End
    <3>1. waitingToSend \in Seq(Messages) /\ DOMAIN waitingToSend = 1..Len(waitingToSend)
          /\ Len(waitingToSend) \in Nat
      BY <1>1, LineFacts DEF CoreInv
    <3>2. \A j \in 1..i : j \in 1..Len(waitingToSend)
      BY <3>1
    <3> QED
      BY <3>1, <3>2, EndAssumption
  <2> QED
    BY <1>1, <2>2, <2>3, <2>4 DEF CoreInv, ScanInv
<1>2. CoreInv /\ [Next]_vars => [Complete]_vars
  BY <1>1
<1>3. Spec => [][Complete]_vars
  BY <1>2, CoreInvariant, PTL DEF Spec
<1> QED
  BY <1>3 DEF ScanComplete, Within

\* When Destroy is done, every message that the client accepted was confirmed and every state
\* answered, except what a callback of Destroy put into a list that was already drained and
\* the states the transport refused.
THEOREM NothingIsForgotten == Spec => NothingForgotten
<1> DEFINE Told == pc = "destroyed" =>
             /\ \A m \in Messages : sent_tick[m] # Never => Len(verdict[m]) = 1 \/ m \in tooLate
             /\ \A r \in Reports : item_id[r] # 0 => answered[r] = 1 \/ r \in untold
<1>1. ASSUME CoreInv, pc = "destroyed"
      PROVE  /\ \A m \in Messages : sent_tick[m] # Never => Len(verdict[m]) = 1 \/ m \in tooLate
             /\ \A r \in Reports : item_id[r] # 0 => answered[r] = 1 \/ r \in untold
  <2>0. TypeOK /\ Accounted /\ DestroyOrder /\ StatesSettled
    BY <1>1 DEF CoreInv
  <2>1. /\ held = <<>> /\ Range(waitingToSend) \subseteq tooLate
        /\ Range(iot_msg_queue) \subseteq untold /\ iot_ack_queue = <<>>
    BY <1>1, <2>0 DEF DestroyOrder
  <2>2. Range(held) = {} /\ Range(iot_ack_queue) = {}
    BY <2>1 DEF Range
  <2>3. Range(Line) \subseteq tooLate /\ Range(Under) \subseteq untold
    BY <2>0, <2>1, <2>2, LineFacts, UnderFacts
  <2> QED
    BY <2>0, <2>3 DEF Accounted, StatesSettled
<1>2. CoreInv => Told
  BY <1>1
<1>3. Spec => []Told
  BY <1>2, CoreInvariant, PTL
<1> QED
  BY <1>3 DEF NothingForgotten

-----------------------------------------------------------------------------
(* The client delivers: what SendEventAsync accepted is confirmed with one  *)
(* of the results of IOTHUB_CLIENT_CONFIRMATION_RESULT, once.               *)

\* What the application was told of a message.
confirmationStatus ==
  [m \in Messages |-> IF sent_tick[m] = Never THEN "new"
                      ELSE IF verdict[m] = <<>> THEN "held" ELSE verdict[m][1]]

ClientDelivery == INSTANCE Delivery WITH Outcomes <- Verdicts, status <- confirmationStatus

ClientDelivers == ClientDelivery!Spec

\* Confirming messages of the line settles them.
LEMMA ConfirmSettles ==
  ASSUME CoreInv, NEW S, S \subseteq Range(Line), NEW result \in Verdicts, Confirm(S, result),
         sent_tick' = sent_tick
  PROVE  ClientDelivery!Next
<1>0. TypeOK /\ Accounted /\ Range(Line) \subseteq Messages
  BY LineFacts DEF CoreInv
<1>1. S \in SUBSET Messages
  BY <1>0
<1>2. \A m \in S : m \in Messages /\ verdict[m] = <<>> /\ sent_tick[m] # Never
  <2>1. \A m \in S : m \in Messages /\ Len(verdict[m]) = 0 /\ verdict[m] \in Seq(Verdicts)
    BY <1>0 DEF Accounted, TypeOK
  <2>2. \A m \in S : verdict[m] = <<>>
    BY <2>1, EmptySeq
  <2> QED
    BY <1>0, <2>1, <2>2 DEF Accounted
<1>3. \A m \in S : confirmationStatus[m] = "held"
  BY <1>2 DEF confirmationStatus
<1>4. ASSUME NEW m \in Messages
      PROVE  (IF sent_tick'[m] = Never THEN "new"
              ELSE IF verdict'[m] = <<>> THEN "held" ELSE verdict'[m][1])
             = IF m \in S THEN [n \in S |-> result][m] ELSE confirmationStatus[m]
  <2>1. CASE m \in S
    <3>1. verdict'[m] = Append(<<>>, result)
      BY <1>2, <2>1 DEF Confirm
    <3>2. verdict'[m] = <<result>>
      BY <3>1
    <3> QED
      BY <1>2, <2>1, <3>2
  <2>2. CASE m \notin S
    BY <2>2 DEF Confirm, confirmationStatus
  <2> QED
    BY <2>1, <2>2
<1>5. confirmationStatus' =
        [m \in Messages |-> IF m \in S THEN [n \in S |-> result][m] ELSE confirmationStatus[m]]
  BY <1>4 DEF confirmationStatus
<1>6. [n \in S |-> result] \in [S -> Verdicts]
  OBVIOUS
<1>7. ClientDelivery!Settle(S)
  BY <1>3, <1>5, <1>6 DEF ClientDelivery!Settle
<1> QED
  BY <1>1, <1>7 DEF ClientDelivery!Next

\* Each step accepts a message, settles some, or tells the application nothing.
LEMMA StepDelivers ==
  ASSUME CoreInv, [Next]_vars
  PROVE  [ClientDelivery!Next]_confirmationStatus
<1>0. TypeOK /\ Accounted /\ Range(Line) = Range(held) \cup Range(waitingToSend)
  BY LineFacts DEF CoreInv
<1>1. ASSUME NEW m \in Messages, IoTHubClientCore_LL_SendEventAsync(m)
      PROVE  ClientDelivery!Next
  <2>1. /\ sent_tick[m] = Never /\ sent_tick' = [sent_tick EXCEPT ![m] = now]
        /\ verdict' = verdict /\ now \in Nat /\ sent_tick \in [Messages -> {Never} \cup Nat]
    BY <1>0, <1>1 DEF IoTHubClientCore_LL_SendEventAsync, TypeOK
  <2>2. verdict[m] = <<>>
    <3>1. Len(verdict[m]) = 0 /\ verdict[m] \in Seq(Verdicts)
      BY <1>0, <2>1 DEF Accounted, TypeOK
    <3> QED
      BY <3>1, EmptySeq
  <2>3. sent_tick'[m] # Never /\ \A n \in Messages : n # m => sent_tick'[n] = sent_tick[n]
    BY <2>1 DEF Never
  <2>4. confirmationStatus[m] = "new"
    BY <2>1 DEF confirmationStatus
  <2>5. confirmationStatus' = [confirmationStatus EXCEPT ![m] = "held"]
    <3>1. ASSUME NEW n \in Messages
          PROVE  (IF sent_tick'[n] = Never THEN "new"
                  ELSE IF verdict'[n] = <<>> THEN "held" ELSE verdict'[n][1])
                 = IF n = m THEN "held" ELSE confirmationStatus[n]
      BY <2>1, <2>2, <2>3 DEF confirmationStatus
    <3> QED
      BY <3>1 DEF confirmationStatus
  <2> QED
    BY <2>4, <2>5 DEF ClientDelivery!Accept, ClientDelivery!Next
<1>2. CASE TimeoutExpired
  <2>1. Confirm({item}, "TIMEOUT") /\ sent_tick' = sent_tick /\ item \in Range(Line)
    BY <1>0, <1>2, ExpiredFacts DEF TimeoutExpired
  <2> DEFINE S == {item}
  <2>2. S \subseteq Range(Line) /\ Confirm(S, "TIMEOUT") /\ "TIMEOUT" \in Verdicts
    BY <2>1 DEF Verdicts
  <2> HIDE DEF S
  <2> QED
    BY <2>1, <2>2, ConfirmSettles
<1>3. ASSUME NEW i \in DOMAIN held, NEW result \in {"OK", "ERROR"},
             IoTHubClientCore_LL_SendComplete(i, result)
      PROVE  ClientDelivery!Next
  <2>1. Confirm({held[i]}, result) /\ sent_tick' = sent_tick /\ held[i] \in Range(Line)
    BY <1>0, <1>3 DEF IoTHubClientCore_LL_SendComplete, Range
  <2> DEFINE S == {held[i]}
  <2>2. S \subseteq Range(Line) /\ Confirm(S, result) /\ result \in Verdicts
    BY <2>1 DEF Verdicts
  <2> HIDE DEF S
  <2> QED
    BY <2>1, <2>2, ConfirmSettles
<1>4. CASE UnregisterCompletes \/ DestroyConfirms
  <2>1. \E q \in {held, waitingToSend} :
          q # <<>> /\ Confirm({q[1]}, "BECAUSE_DESTROY") /\ sent_tick' = sent_tick
    BY <1>4 DEF UnregisterCompletes, DestroyConfirms
  <2>2. PICK m \in Range(Line) : Confirm({m}, "BECAUSE_DESTROY") /\ sent_tick' = sent_tick
    <3>1. \A q \in {held, waitingToSend} : q # <<>> => q[1] \in Range(q)
      <4>1. ASSUME NEW q \in Seq(Messages), q # <<>>
            PROVE  q[1] \in Range(q)
        BY <4>1, HeadFacts DEF Range
      <4> QED
        BY <1>0, <4>1 DEF TypeOK
    <3> QED
      BY <1>0, <2>1, <3>1
  <2> DEFINE S == {m}
  <2>3. S \subseteq Range(Line) /\ Confirm(S, "BECAUSE_DESTROY") /\ "BECAUSE_DESTROY" \in Verdicts
    BY <2>2 DEF Verdicts
  <2> HIDE DEF S
  <2> QED
    BY <2>2, <2>3, ConfirmSettles
<1>5. ASSUME \/ \E r \in Reports : IoTHubClientCore_LL_SendReportedState(r)
                                   \/ IoTHubClientCore_LL_ReportedStateComplete(item_id[r])
             \/ SetMessageTimeout \/ DoWork \/ TimeoutCallbackReturns \/ TimeoutSkips
             \/ TimeoutsDone \/ ProcessItem \/ TwinDone \/ TransportTakes \/ TransportReturns
             \/ TransportDone \/ Tick \/ UNCHANGED vars
             \/ DestroyBegins \/ DestroyAnswersState \/ DestroyAnswersAck \/ DestroyGoesOn
      PROVE  UNCHANGED confirmationStatus
  <2>1. UNCHANGED <<sent_tick, verdict>>
    BY <1>5 DEF IoTHubClientCore_LL_SendReportedState,
       IoTHubClientCore_LL_ReportedStateComplete, SetMessageTimeout, DoWork,
       TimeoutCallbackReturns, TimeoutSkips, TimeoutsDone, ProcessItem, TwinDone,
       TransportTakes, TransportReturns, TransportDone, Tick, DestroyBegins, DestroyAnswersState,
       DestroyAnswersAck, DestroyGoesOn, vars, telemetry
  <2> QED
    BY <2>1 DEF confirmationStatus
<1> QED
  BY <1>1, <1>2, <1>3, <1>4, <1>5 DEF Next, DoTimeouts, TransportWork,
     IoTHubClientCore_LL_Destroy

\* A message that was sent gets one confirmation and keeps it, however the timeouts, the
\* transport and Destroy take turns: the client implements Delivery.
THEOREM ClientIsDelivery == Spec => ClientDelivers
<1>1. Init => ClientDelivery!Init
  BY DEF Init, ClientDelivery!Init, confirmationStatus
<1>2. CoreInv /\ [Next]_vars => [ClientDelivery!Next]_confirmationStatus
  BY StepDelivers
<1>3. Spec => ClientDelivery!Spec
  BY <1>1, <1>2, CoreInvariant, PTL DEF Spec, ClientDelivery!Spec
<1> QED
  BY <1>3 DEF ClientDelivers
=============================================================================
