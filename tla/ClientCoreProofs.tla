--------------------------- MODULE ClientCoreProofs ---------------------------
(***************************************************************************)
(* Proofs about the convenience layer, with a worker of its own (ClientCore)   *)
(* or with the worker of a shared transport (TransportWorker), for any number   *)
(* of threads, items and clients.  Two application threads that make their      *)
(* first call at once may create two workers, of which Destroy joins one: what   *)
(* is proved of ClientCore is proved of behaviours in which they do not.        *)
(***************************************************************************)
EXTENDS MCClientCore, SequenceFacts

-----------------------------------------------------------------------------
(* The inductive invariant of ClientCore *)

AppPlaces == {"idle", "starting", "started", "join", "relock", "drain", "final", "freed"}
WorkerPlaces == {"off", "loop", "work", "copy", "dispatch", "callback", "ended"}
UploadPlaces == {"off", "uploading", "calling", "called", "marked"}
Places == AppPlaces \cup WorkerPlaces \cup UploadPlaces

\* An entry of saved_user_callback_list: the confirmation or answer of an item, or something
\* that was received.
Entries == {e \in [of : Items \cup Inbound, type : Kinds \cup {"item"}, ctx : Nat] :
              e.type = "item" <=> e.of \in Items}

PlaceTypes ==
  /\ at \in [Threads -> Places]
  /\ \A a \in Apps : at[a] \in AppPlaces
  /\ \A w \in Workers : at[w] \in WorkerPlaces
  /\ \A u \in Uploads : at[u] \in UploadPlaces

SettingTypes ==
  /\ sets \in Nat
  /\ context \in [Slots -> Nat]
  /\ llContext \in [Slots \cup {"input"} -> [kind : Kinds \cup {"none"}, ctx : Nat]]
  /\ dangling \subseteq Slots

ListTypes ==
  /\ saved_user_callback_list \in Seq(Entries)
  /\ callbacks \in [Workers -> Seq(Entries)]
  /\ unconfirmed \in Seq(Confirmable)

\* The premise about the application.
FirstCallsApart == \A a, b \in Apps : at[a] = "starting" /\ at[b] = "starting" => a = b

\* There is at most one worker, the one to be joined; an upload that is not finished is in
\* the list.
ThreadInv ==
  /\ ThreadHandle = "none" => \A w \in Workers : at[w] = "off"
  /\ ThreadHandle # "none" => \A w \in Workers \ {ThreadHandle} : at[w] = "off"
  /\ \A a \in Apps : at[a] = "starting" => ThreadHandle = "none"
  /\ \A a \in Apps : at[a] = "join" => ThreadHandle # "none"
  /\ \A u \in Uploads : at[u] \notin {"off", "marked"} => u \in httpWorkerThreadInfoList

\* What Destroy has behind it at each of its stages.
EndInv ==
  \A a \in Apps : at[a] \notin {"idle", "starting", "started"} =>
     /\ \A b \in Apps \ {a} : at[b] = "idle"
     /\ at[a] # "join" => \A w \in Workers : at[w] \in {"off", "ended"}
     /\ at[a] \in {"final", "freed"} => /\ inLL = {} /\ LockHandle = "free"
                                        /\ \A u \in Uploads : at[u] \in {"off", "marked"}
     /\ at[a] = "freed" => saved_user_callback_list = <<>>

\* A worker has a batch while it dispatches it, with an entry while it is in its callback.
BatchInv ==
  \A w \in Workers : /\ at[w] \notin {"copy", "dispatch", "callback"} => callbacks[w] = <<>>
                     /\ at[w] = "callback" => callbacks[w] # <<>>

\* What was reported and not yet told: the rest of the batch, then what is saved.
Rest(w) == IF at[w] = "callback" THEN Tail(callbacks[w]) ELSE callbacks[w]
Line == IF ThreadHandle = "none" THEN saved_user_callback_list
        ELSE Rest(ThreadHandle) \o saved_user_callback_list

\* An item that is held is in the lower layer or in the line, and not in both.
ItemsInv ==
  /\ \A i \in inLL : done[i] = "held"
  /\ \A n \in DOMAIN Line : Line[n].of \in Items => done[Line[n].of] = "held" /\ Line[n].of \notin inLL
  /\ \A i \in Items : done[i] = "held" => i \in inLL \/ \E n \in DOMAIN Line : Line[n].of = i
  /\ \A i \in Confirmable : done[i] \in {"new", "held", "told"}
  /\ \A i \in Items : done[i] # "twice"

\* Queue U has the items to be confirmed that are in line L, in the same order; P and Q are
\* the places of the two.
MatchesIn(P, Q, L, U) ==
  /\ \A m \in P : \A n \in P : L[m].of = L[n].of /\ L[m].of \in Items => m = n
  /\ \A k \in Q : \A l \in Q : U[k] = U[l] => k = l
  /\ \A k \in Q : \E n \in P : L[n].of = U[k]
  /\ \A n \in P : L[n].of \in Confirmable => \E k \in Q : U[k] = L[n].of
  /\ \A k \in Q : \A l \in Q : \A m \in P : \A n \in P :
       U[k] = L[m].of /\ U[l] = L[n].of /\ m < n => k < l

Matches(L, U) == MatchesIn(DOMAIN L, DOMAIN U, L, U)

OrderInv == ~disorder /\ Matches(Line, unconfirmed)

CoreInv ==
  /\ CoreTypeOK /\ PlaceTypes /\ SettingTypes /\ ListTypes
  /\ ThreadInv /\ EndInv /\ BatchInv /\ ItemsInv /\ OrderInv /\ ContextsLive

-----------------------------------------------------------------------------
(* The inductive invariant of TransportWorker *)

ClientPlaces == {"off", "starting", "adding", "on", "joining", "gone"}
MuxWorkerPlaces == {"off", "loop", "worked", "serving", "blocked", "hung", "ended"}

MuxTypes ==
  /\ muxAt \in [Clients \cup MuxWorkers -> ClientPlaces \cup MuxWorkerPlaces]
  /\ \A c \in Clients : muxAt[c] \in ClientPlaces
  /\ \A w \in MuxWorkers : muxAt[w] \in MuxWorkerPlaces
  /\ clients \in Seq(Clients)
  /\ serving \in [MuxWorkers -> Nat]
  /\ current \in [MuxWorkers -> Clients \cup {"none"}]
  /\ MuxTypeOK

\* The client whose callbacks are called is in clients, and the worker has clientsLockHandle;
\* a client in clients has not ended.
ServedInv ==
  /\ \A w \in MuxWorkers : current[w] # "none" => muxAt[w] \in {"serving", "blocked"} /\ current[w] \in Range(clients)
  /\ \A c \in Range(clients) : muxAt[c] \in {"on", "starting", "adding"}

\* Clients that call one at a time find the worker they started, until the last one stops it.
WorkersInv ==
  /\ \A c, d \in Clients : {muxAt[c], muxAt[d]} \subseteq {"starting", "adding", "joining"} => c = d
  /\ \A w \in MuxWorkers : w # workerThreadHandle => muxAt[w] \in {"off", "ended"}
  /\ workerThreadHandle \in MuxWorkers => muxAt[workerThreadHandle] # "off"
  /\ \A c \in Clients :
       /\ muxAt[c] = "starting" => workerThreadHandle \notin MuxWorkers
       /\ muxAt[c] \in {"adding", "on"} =>
            /\ workerThreadHandle \in MuxWorkers /\ muxAt[workerThreadHandle] # "ended"
            /\ ~stopThread
       /\ muxAt[c] = "on" => c \in Range(clients)
       /\ muxAt[c] = "joining" => workerThreadHandle \in MuxWorkers /\ clients = <<>>
  /\ AllGone => workerThreadHandle \notin MuxWorkers

MuxInv == MuxTypes /\ ServedInv /\ (~Overlapping => WorkersInv)

-----------------------------------------------------------------------------
(* Lines and what is to be confirmed *)

\* What the elements of a list are when one is put at its end, for an explicit length.
LEMMA AppendElements ==
  ASSUME NEW S, NEW s \in Seq(S), NEW e \in S
  PROVE  /\ Append(s, e) \in Seq(S) /\ Len(s) \in Nat
         /\ DOMAIN s = 1..Len(s) /\ DOMAIN Append(s, e) = 1..(Len(s) + 1)
         /\ \A j \in 1..Len(s) : Append(s, e)[j] = s[j]
         /\ Append(s, e)[Len(s) + 1] = e
<1>1. Append(s, e) \in Seq(S) /\ Len(s) \in Nat /\ Len(Append(s, e)) = Len(s) + 1
  OBVIOUS
<1>2. DOMAIN s = 1..Len(s) /\ DOMAIN Append(s, e) = 1..(Len(s) + 1)
  BY <1>1, LenProperties
<1>3. \A j \in 1..Len(s) : Append(s, e)[j] = s[j]
  OBVIOUS
<1>4. Append(s, e)[Len(s) + 1] = e
  OBVIOUS
<1> QED
  BY <1>1, <1>2, <1>3, <1>4

\* What the elements of a list are when the first is taken away.
LEMMA TailElements ==
  ASSUME NEW S, NEW s \in Seq(S), s # <<>>
  PROVE  /\ Tail(s) \in Seq(S) /\ Len(s) \in Nat /\ Len(s) > 0
         /\ Head(s) = s[1] /\ s[1] \in S
         /\ DOMAIN s = 1..Len(s) /\ DOMAIN Tail(s) = 1..(Len(s) - 1)
         /\ \A j \in 1..(Len(s) - 1) : Tail(s)[j] = s[j + 1]
<1>1. Len(s) \in Nat /\ Len(s) > 0 /\ Head(s) = s[1] /\ s[1] \in S
  BY TailIsRemoveAt, EmptySeq
<1>2. Tail(s) \in Seq(S) /\ Len(Tail(s)) = Len(s) - 1
  BY HeadTailProperties
<1>3. DOMAIN s = 1..Len(s) /\ DOMAIN Tail(s) = 1..(Len(s) - 1)
  BY <1>2, LenProperties
<1>4. \A j \in 1..(Len(s) - 1) : Tail(s)[j] = s[j + 1]
  BY <1>2, HeadTailProperties
<1> QED
  BY <1>1, <1>2, <1>3, <1>4

\* An entry at the end of the line comes last among those to be confirmed.
LEMMA LineGrows ==
  ASSUME NEW L \in Seq(Entries), NEW U \in Seq(Confirmable), Matches(L, U), NEW e \in Entries,
         e.of \in Items => \A n \in DOMAIN L : L[n].of # e.of
  PROVE  Matches(Append(L, e), IF e.of \in Confirmable THEN Append(U, e.of) ELSE U)
<1> DEFINE A == Append(L, e)
           V == IF e.of \in Confirmable THEN Append(U, e.of) ELSE U
           p == Len(L)
           q == Len(U)
           r == Len(V)
<1>1. /\ p \in Nat /\ DOMAIN L = 1..p /\ DOMAIN A = 1..(p + 1)
      /\ \A j \in 1..p : A[j] = L[j]
      /\ A[p + 1] = e
  BY AppendElements
<1>2. q \in Nat /\ DOMAIN U = 1..q
  BY LenProperties
<1>3. /\ e.of \in Confirmable =>
           /\ DOMAIN V = 1..(q + 1)
           /\ \A j \in 1..q : V[j] = U[j]
           /\ V[q + 1] = e.of
      /\ e.of \notin Confirmable => V = U
  BY AppendElements
<1>31. MatchesIn(1..p, 1..q, L, U)
  BY <1>1, <1>2 DEF Matches
<1>4. /\ \A m \in 1..p : \A n \in 1..p : L[m].of = L[n].of /\ L[m].of \in Items => m = n
      /\ \A k \in 1..q : \A l \in 1..q : U[k] = U[l] => k = l
      /\ \A k \in 1..q : \E n \in 1..p : L[n].of = U[k]
      /\ \A n \in 1..p : L[n].of \in Confirmable => \E k \in 1..q : U[k] = L[n].of
      /\ \A k \in 1..q : \A l \in 1..q : \A m \in 1..p : \A n \in 1..p :
           U[k] = L[m].of /\ U[l] = L[n].of /\ m < n => k < l
  BY <1>31 DEF MatchesIn
<1>5. e.of \in Items => \A n \in 1..p : L[n].of # e.of
  BY <1>1
<1>6. Confirmable \subseteq Items
  BY DEF Confirmable, Items
<1> SUFFICES Matches(A, V)
  OBVIOUS
<1> HIDE DEF A, V, p, q
<1>7. CASE e.of \in Confirmable
  <2> DEFINE P == p + 1
             Q == q + 1
  <2>1. /\ P \in Nat /\ Q \in Nat /\ DOMAIN A = 1..P /\ DOMAIN V = 1..Q
        /\ \A m \in 1..P : m \in 1..p \/ m = P
        /\ \A k \in 1..Q : k \in 1..q \/ k = Q
        /\ \A m \in 1..p : m \in 1..P /\ m < P
        /\ \A k \in 1..q : k \in 1..Q /\ k < Q
        /\ P \in 1..P /\ Q \in 1..Q
        /\ A[P] = e /\ V[Q] = e.of
        /\ \A j \in 1..p : A[j] = L[j]
        /\ \A j \in 1..q : V[j] = U[j]
    BY <1>1, <1>2, <1>3, <1>7
  <2>2. \A k \in 1..q : U[k] # e.of
    BY <1>4, <1>5, <1>6, <1>7
  <2> HIDE DEF P, Q
  <2>3. \A m \in 1..P : \A n \in 1..P : A[m].of = A[n].of /\ A[m].of \in Items => m = n
    BY <1>4, <1>5, <1>6, <1>7, <2>1
  <2>4. \A k \in 1..Q : \A l \in 1..Q : V[k] = V[l] => k = l
    BY <1>4, <2>1, <2>2
  <2>5. \A k \in 1..Q : \E n \in 1..P : A[n].of = V[k]
    BY <1>4, <2>1
  <2>6. \A n \in 1..P : A[n].of \in Confirmable => \E k \in 1..Q : V[k] = A[n].of
    BY <1>4, <2>1
  <2>7. ASSUME NEW k \in 1..Q, NEW l \in 1..Q, NEW m \in 1..P, NEW n \in 1..P,
               V[k] = A[m].of, V[l] = A[n].of, m < n
        PROVE  k < l
    <3>1. m \in 1..p
      BY <2>1, <2>7
    <3>2. k \in 1..q
      BY <1>5, <1>6, <1>7, <2>1, <2>7, <3>1
    <3>3. CASE n = P
      <4>1. l = Q
        BY <2>1, <2>2, <2>7, <3>3
      <4> QED
        BY <2>1, <3>2, <4>1
    <3>4. CASE n \in 1..p
      <4>1. l \in 1..q
        BY <1>5, <1>6, <1>7, <2>1, <2>7, <3>4
      <4>2. U[k] = L[m].of /\ U[l] = L[n].of
        BY <2>1, <2>7, <3>1, <3>2, <3>4, <4>1
      <4> QED
        BY <1>4, <2>7, <3>1, <3>2, <3>4, <4>1, <4>2
    <3> QED
      BY <2>1, <3>3, <3>4
  <2>8. MatchesIn(1..P, 1..Q, A, V)
    BY <2>3, <2>4, <2>5, <2>6, <2>7 DEF MatchesIn
  <2> QED
    BY <2>1, <2>8 DEF Matches
<1>8. CASE e.of \notin Confirmable
  <2> DEFINE P == p + 1
  <2>1. /\ P \in Nat /\ DOMAIN A = 1..P /\ V = U /\ DOMAIN V = 1..q
        /\ \A m \in 1..P : m \in 1..p \/ m = P
        /\ \A m \in 1..p : m \in 1..P /\ m < P
        /\ P \in 1..P
        /\ A[P] = e
        /\ \A j \in 1..p : A[j] = L[j]
    BY <1>1, <1>2, <1>3, <1>8
  <2>2. \A k \in 1..q : U[k] \in Confirmable
    BY <1>2
  <2> HIDE DEF P
  <2>3. \A m \in 1..P : \A n \in 1..P : A[m].of = A[n].of /\ A[m].of \in Items => m = n
    BY <1>4, <1>5, <2>1
  <2>4. \A k \in 1..q : \E n \in 1..P : A[n].of = V[k]
    BY <1>4, <2>1
  <2>5. \A n \in 1..P : A[n].of \in Confirmable => \E k \in 1..q : V[k] = A[n].of
    BY <1>4, <1>8, <2>1
  <2>6. ASSUME NEW k \in 1..q, NEW l \in 1..q, NEW m \in 1..P, NEW n \in 1..P,
               V[k] = A[m].of, V[l] = A[n].of, m < n
        PROVE  k < l
    <3>1. m \in 1..p /\ n \in 1..p
      BY <1>8, <2>1, <2>2, <2>6
    <3>2. U[k] = L[m].of /\ U[l] = L[n].of
      BY <2>1, <2>6, <3>1
    <3> QED
      BY <1>4, <2>6, <3>1, <3>2
  <2>7. \A k \in 1..q : \A l \in 1..q : V[k] = V[l] => k = l
    BY <1>4, <2>1
  <2>8. MatchesIn(1..P, 1..q, A, V)
    BY <2>1, <2>3, <2>4, <2>5, <2>6, <2>7 DEF MatchesIn
  <2> QED
    BY <2>1, <2>8 DEF Matches
<1> QED
  BY <1>7, <1>8

\* The first of the line is the first to be confirmed, unless it is no confirmation.
LEMMA LineShrinks ==
  ASSUME NEW L \in Seq(Entries), NEW U \in Seq(Confirmable), Matches(L, U), L # <<>>
  PROVE  /\ Head(L).of \in Confirmable =>
              U # <<>> /\ Head(L).of = Head(U) /\ Matches(Tail(L), Tail(U))
         /\ Head(L).of \notin Confirmable => Matches(Tail(L), U)
         /\ \A n \in DOMAIN Tail(L) : Head(L).of \in Items => Tail(L)[n].of # Head(L).of
<1> DEFINE A == Tail(L)
           p == Len(L)
           q == Len(U)
<1>1. /\ p \in Nat /\ p > 0 /\ DOMAIN L = 1..p /\ DOMAIN A = 1..(p - 1)
      /\ \A j \in 1..(p - 1) : A[j] = L[j + 1]
      /\ Head(L) = L[1]
  BY TailElements
<1>2. q \in Nat /\ DOMAIN U = 1..q
  BY LenProperties
<1>21. MatchesIn(1..p, 1..q, L, U)
  BY <1>1, <1>2 DEF Matches
<1>3. /\ \A m \in 1..p : \A n \in 1..p : L[m].of = L[n].of /\ L[m].of \in Items => m = n
      /\ \A k \in 1..q : \A l \in 1..q : U[k] = U[l] => k = l
      /\ \A k \in 1..q : \E n \in 1..p : L[n].of = U[k]
      /\ \A n \in 1..p : L[n].of \in Confirmable => \E k \in 1..q : U[k] = L[n].of
      /\ \A k \in 1..q : \A l \in 1..q : \A m \in 1..p : \A n \in 1..p :
           U[k] = L[m].of /\ U[l] = L[n].of /\ m < n => k < l
  BY <1>21 DEF MatchesIn
<1>4. Confirmable \subseteq Items
  BY DEF Confirmable, Items
<1>5. U # <<>> => /\ q > 0 /\ Head(U) = U[1] /\ DOMAIN Tail(U) = 1..(q - 1)
                  /\ \A j \in 1..(q - 1) : Tail(U)[j] = U[j + 1]
  BY TailElements
<1>6. q > 0 => U # <<>>
  BY EmptySeq
<1> HIDE DEF A, p, q
<1>7. \A n \in 1..(p - 1) : Head(L).of \in Items => A[n].of # Head(L).of
  <2> SUFFICES ASSUME NEW n \in 1..(p - 1), Head(L).of \in Items, A[n].of = Head(L).of
               PROVE  FALSE
    OBVIOUS
  <2>1. n + 1 \in 1..p /\ 1 \in 1..p /\ n + 1 # 1 /\ A[n] = L[n + 1]
    BY <1>1
  <2> QED
    BY <1>1, <1>3, <2>1
<1>8. ASSUME Head(L).of \in Confirmable
      PROVE  U # <<>> /\ Head(L).of = Head(U) /\ Matches(A, Tail(U))
  <2>1. PICK k \in 1..q : U[k] = L[1].of
    BY <1>1, <1>3, <1>8
  <2>2. q > 0 /\ 1 \in 1..q /\ U # <<>>
    BY <1>2, <1>6, <2>1
  <2>3. k = 1
    <3>1. PICK n \in 1..p : L[n].of = U[1]
      BY <1>3, <2>2
    <3>2. CASE n = 1
      BY <1>3, <2>1, <2>2, <3>1, <3>2
    <3>3. CASE n # 1
      <4>1. 1 \in 1..p /\ 1 < n
        BY <1>1, <3>3
      <4>2. k < 1
        BY <1>3, <2>1, <2>2, <3>1, <4>1
      <4> QED
        BY <2>1, <4>2
    <3> QED
      BY <3>2, <3>3
  <2>4. Head(L).of = Head(U)
    BY <1>1, <1>5, <2>1, <2>2, <2>3
  <2> DEFINE V == Tail(U)
             P == p - 1
             Q == q - 1
  <2>5. /\ P \in Nat /\ Q \in Nat /\ DOMAIN A = 1..P /\ DOMAIN V = 1..Q
        /\ \A j \in 1..P : j + 1 \in 1..p /\ A[j] = L[j + 1]
        /\ \A j \in 1..Q : j + 1 \in 1..q /\ V[j] = U[j + 1]
        /\ \A n \in 1..p : n # 1 => n - 1 \in 1..P /\ A[n - 1] = L[n]
        /\ \A n \in 1..q : n # 1 => n - 1 \in 1..Q /\ V[n - 1] = U[n]
    BY <1>1, <1>2, <1>5, <2>2
  <2> HIDE DEF V, P, Q
  <2>6. \A m \in 1..P : \A n \in 1..P : A[m].of = A[n].of /\ A[m].of \in Items => m = n
    <3> SUFFICES ASSUME NEW m \in 1..P, NEW n \in 1..P, A[m].of = A[n].of, A[m].of \in Items
                 PROVE  m = n
      OBVIOUS
    <3>1. /\ m + 1 \in 1..p /\ n + 1 \in 1..p
          /\ L[m + 1].of = L[n + 1].of /\ L[m + 1].of \in Items
      BY <2>5
    <3>2. m + 1 = n + 1
      BY <1>3, <3>1
    <3> QED
      BY <3>2
  <2>7. \A i \in 1..Q : \A l \in 1..Q : V[i] = V[l] => i = l
    <3> SUFFICES ASSUME NEW i \in 1..Q, NEW l \in 1..Q, V[i] = V[l]
                 PROVE  i = l
      OBVIOUS
    <3>1. i + 1 = l + 1
      <4>1. i + 1 \in 1..q /\ l + 1 \in 1..q /\ V[i] = U[i + 1] /\ V[l] = U[l + 1]
        BY <2>5
      <4> QED
        BY <1>3, <4>1
    <3> QED
      BY <3>1
  <2>8. \A i \in 1..Q : \E n \in 1..P : A[n].of = V[i]
    <3> SUFFICES ASSUME NEW i \in 1..Q
                 PROVE  \E n \in 1..P : A[n].of = V[i]
      OBVIOUS
    <3>1. PICK n \in 1..p : L[n].of = U[i + 1]
      BY <1>3, <2>5
    <3>2. n # 1
      <4>1. i + 1 # 1 /\ i + 1 \in 1..q
        BY <2>5
      <4> QED
        BY <1>3, <2>1, <2>2, <2>3, <3>1, <4>1
    <3> QED
      <4>1. n - 1 \in 1..P /\ A[n - 1] = L[n]
        BY <2>5, <3>2
      <4>2. V[i] = U[i + 1]
        BY <2>5
      <4> QED
        BY <3>1, <4>1, <4>2
  <2>9. \A n \in 1..P : A[n].of \in Confirmable => \E i \in 1..Q : V[i] = A[n].of
    <3> SUFFICES ASSUME NEW n \in 1..P, A[n].of \in Confirmable
                 PROVE  \E i \in 1..Q : V[i] = A[n].of
      OBVIOUS
    <3>1. PICK i \in 1..q : U[i] = L[n + 1].of
      BY <1>3, <2>5
    <3>2. i # 1
      <4>1. A[n].of # Head(L).of
        BY <1>4, <1>7, <1>8, <2>5, <1>1
      <4> QED
        BY <1>1, <2>1, <2>3, <2>5, <3>1, <4>1
    <3> QED
      BY <2>5, <3>1, <3>2
  <2>10. ASSUME NEW i \in 1..Q, NEW l \in 1..Q, NEW m \in 1..P, NEW n \in 1..P,
                V[i] = A[m].of, V[l] = A[n].of, m < n
         PROVE  i < l
    <3>1. i + 1 < l + 1
      <4>1. m + 1 < n + 1
        BY <2>10
      <4>2. /\ m + 1 \in 1..p /\ n + 1 \in 1..p /\ i + 1 \in 1..q /\ l + 1 \in 1..q
            /\ U[i + 1] = V[i] /\ U[l + 1] = V[l]
            /\ L[m + 1] = A[m] /\ L[n + 1] = A[n]
        BY <2>5
      <4>3. U[i + 1] = L[m + 1].of /\ U[l + 1] = L[n + 1].of
        BY <2>10, <4>2
      <4> QED
        BY <1>3, <4>1, <4>2, <4>3, SMTT(30)
    <3> QED
      BY <3>1
  <2>11. MatchesIn(1..P, 1..Q, A, V)
    BY <2>6, <2>7, <2>8, <2>9, <2>10 DEF MatchesIn
  <2>12. Matches(A, V)
    BY <2>5, <2>11 DEF Matches
  <2> QED
    BY <2>2, <2>4, <2>12 DEF V
<1>9. ASSUME Head(L).of \notin Confirmable
      PROVE  Matches(A, U)
  <2> DEFINE P == p - 1
  <2>1. /\ P \in Nat /\ DOMAIN A = 1..P
        /\ \A j \in 1..P : j + 1 \in 1..p /\ A[j] = L[j + 1]
        /\ \A n \in 1..p : n # 1 => n - 1 \in 1..P /\ A[n - 1] = L[n]
    BY <1>1
  <2>2. \A k \in 1..q : U[k] \in Confirmable
    BY <1>2
  <2> HIDE DEF P
  <2>3. \A m \in 1..P : \A n \in 1..P : A[m].of = A[n].of /\ A[m].of \in Items => m = n
    <3> SUFFICES ASSUME NEW m \in 1..P, NEW n \in 1..P, A[m].of = A[n].of, A[m].of \in Items
                 PROVE  m = n
      OBVIOUS
    <3>1. /\ m + 1 \in 1..p /\ n + 1 \in 1..p
          /\ L[m + 1].of = L[n + 1].of /\ L[m + 1].of \in Items
      BY <2>1
    <3>2. m + 1 = n + 1
      BY <1>3, <3>1
    <3> QED
      BY <3>2
  <2>4. \A k \in 1..q : \E n \in 1..P : A[n].of = U[k]
    <3> SUFFICES ASSUME NEW k \in 1..q
                 PROVE  \E n \in 1..P : A[n].of = U[k]
      OBVIOUS
    <3>1. PICK n \in 1..p : L[n].of = U[k]
      BY <1>3
    <3>2. n # 1
      BY <1>1, <1>9, <2>2, <3>1
    <3> QED
      BY <2>1, <3>1, <3>2
  <2>5. \A n \in 1..P : A[n].of \in Confirmable => \E k \in 1..q : U[k] = A[n].of
    BY <1>3, <2>1, SMTT(30)
  <2>6. ASSUME NEW k \in 1..q, NEW l \in 1..q, NEW m \in 1..P, NEW n \in 1..P,
               U[k] = A[m].of, U[l] = A[n].of, m < n
        PROVE  k < l
    <3>1. m + 1 < n + 1
      BY <2>6
    <3>2. /\ m + 1 \in 1..p /\ n + 1 \in 1..p
          /\ L[m + 1] = A[m] /\ L[n + 1] = A[n]
      BY <2>1
    <3>3. U[k] = L[m + 1].of /\ U[l] = L[n + 1].of
      BY <2>6, <3>2
    <3> QED
      BY <1>3, <3>1, <3>2, <3>3
  <2>7. MatchesIn(1..P, 1..q, A, U)
    BY <1>3, <2>3, <2>4, <2>5, <2>6 DEF MatchesIn
  <2> QED
    BY <1>2, <2>1, <2>7 DEF Matches
<1> QED
  BY <1>1, <1>7, <1>8, <1>9 DEF A

-----------------------------------------------------------------------------
(* The steps of ClientCore *)

\* Threads are of one kind; what is received is no item.
LEMMA KindFacts ==
  /\ \A a \in Apps : a \in Threads /\ a \notin Workers /\ a \notin Uploads /\ a # "free"
  /\ \A w \in Workers : w \in Threads /\ w \notin Apps /\ w \notin Uploads /\ w # "free" /\ w # "none"
  /\ \A u \in Uploads : u \in Threads /\ u \notin Apps /\ u \notin Workers
  /\ \A t \in Threads : t \in Apps \/ t \in Workers \/ t \in Uploads
  /\ \A i \in Items : i \notin Inbound
  /\ Confirmable \subseteq Items /\ Items \subseteq Items \cup Inbound /\ Inbound \subseteq Items \cup Inbound
BY HandlesAssumption DEF Threads, Items, Confirmable

\* One thread goes on.
LEMMA GoesOn ==
  ASSUME PlaceTypes, NEW t \in Threads, NEW p, at' = [at EXCEPT ![t] = p]
  PROVE  at'[t] = p /\ \A s \in Threads : s # t => at'[s] = at[s]
BY DEF PlaceTypes

\* A call returns: an application thread is idle, a worker goes on with its callback, the
\* callback of an upload is over.
LEMMA CallReturns ==
  ASSUME PlaceTypes, NEW t \in Threads, Calls(t), Returns(t)
  PROVE  /\ \A s \in Threads : s # t => at'[s] = at[s]
         /\ t \in Apps => at[t] = "started" /\ at'[t] = "idle"
         /\ t \in Workers => at[t] = "callback" /\ at'[t] = "callback"
         /\ t \in Uploads => at[t] = "calling" /\ at'[t] = "called"
         /\ at' \in [Threads -> Places]
<1>1. at \in [Threads -> Places]
  BY DEF PlaceTypes
<1>2. t \in Apps => at[t] = "started" /\ t \notin Workers
  BY KindFacts DEF Calls
<1>3. t \in Workers => at[t] = "callback" /\ t \notin Apps
  BY KindFacts DEF Calls
<1>4. t \in Uploads => at[t] = "calling" /\ t \notin Apps /\ t \notin Workers
  BY KindFacts DEF Calls
<1>5. t \in Apps \/ t \in Workers \/ t \in Uploads
  BY KindFacts
<1> DEFINE p == IF t \in Apps THEN "idle" ELSE IF t \in Workers THEN at[t] ELSE "called"
<1>6. at' = [at EXCEPT ![t] = p]
  BY <1>1 DEF Returns
<1>7. p \in Places
  BY <1>1 DEF Places, AppPlaces, UploadPlaces
<1>8. at' \in [Threads -> Places] /\ at'[t] = p /\ \A s \in Threads : s # t => at'[s] = at[s]
  BY <1>1, <1>6, <1>7
<1> QED
  BY <1>2, <1>3, <1>4, <1>5, <1>8

\* What registers a callback or sets an option leaves the lower layer with contexts that live.
LEMMA SettingsStay ==
  ASSUME SettingTypes, ContextsLive, NEW a \in Apps, SetStep(a)
  PROVE  Sets(a) /\ SettingTypes' /\ ContextsLive'
<1>1. ASSUME NEW k \in Kinds, Sets(a), Gives(Slot(k), Wrapper(k, sets')),
             \/ k # "input" /\ context' = [context EXCEPT ![Slot(k)] = sets']
             \/ k = "input" /\ UNCHANGED context
      PROVE  SettingTypes' /\ ContextsLive'
  BY <1>1 DEF SettingTypes, ContextsLive, Gives, None, Wrapper, Slots, Kinds, Slot, Sets
<1>2. ASSUME NEW s \in Slots, Sets(a), Gives(s, None),
             context' = [context EXCEPT ![s] = 0] \/ UNCHANGED context
      PROVE  SettingTypes' /\ ContextsLive'
  BY <1>2 DEF SettingTypes, ContextsLive, Gives, None, Slots, Kinds, Sets
<1>3. ASSUME NEW s \in Slots, Sets(a), Leaves(s)
      PROVE  SettingTypes' /\ ContextsLive'
  BY <1>3 DEF SettingTypes, ContextsLive, Leaves, None, Slots, Kinds, Sets
<1>4. CASE IoTHubClientCore_SetMessageCallback(a)
  <2>1. Sets(a) /\ Slot("message") = "message" /\ "message" \in Slots /\ "message" \in Kinds
    BY <1>4 DEF IoTHubClientCore_SetMessageCallback, Slot, Slots, Kinds
  <2>2. \/ context' = [context EXCEPT !["message"] = 0] /\ Gives("message", None)
        \/ context' = [context EXCEPT !["message"] = sets'] /\ Gives("message", Wrapper("message", sets'))
        \/ Leaves("message")
    BY <1>4 DEF IoTHubClientCore_SetMessageCallback
  <2> QED
    BY <1>1, <1>2, <1>3, <2>1, <2>2
<1>5. CASE IoTHubClientCore_SetConnectionStatusCallback(a)
  <2>1. Sets(a) /\ Slot("status") = "status" /\ "status" \in Slots /\ "status" \in Kinds
    BY <1>5 DEF IoTHubClientCore_SetConnectionStatusCallback, Slot, Slots, Kinds
  <2>2. \/ UNCHANGED context /\ Gives("status", None)
        \/ context' = [context EXCEPT !["status"] = sets'] /\ Gives("status", Wrapper("status", sets'))
        \/ Leaves("status")
    BY <1>5 DEF IoTHubClientCore_SetConnectionStatusCallback
  <2> QED
    BY <1>1, <1>2, <1>3, <2>1, <2>2
<1>6. CASE IoTHubClientCore_SetDeviceTwinCallback(a)
  <2>1. Sets(a) /\ Slot("twin") = "twin" /\ "twin" \in Slots /\ "twin" \in Kinds
    BY <1>6 DEF IoTHubClientCore_SetDeviceTwinCallback, Slot, Slots, Kinds
  <2>2. \/ UNCHANGED context /\ Gives("twin", None)
        \/ context' = [context EXCEPT !["twin"] = sets'] /\ Gives("twin", Wrapper("twin", sets'))
        \/ Leaves("twin")
    BY <1>6 DEF IoTHubClientCore_SetDeviceTwinCallback
  <2> QED
    BY <1>1, <1>2, <1>3, <2>1, <2>2
<1>7. ASSUME NEW k \in {"method", "inbound"}, SetsMethod(a, k)
      PROVE  Sets(a) /\ SettingTypes' /\ ContextsLive'
  <2>1. Sets(a) /\ Slot(k) = "method" /\ "method" \in Slots /\ k \in Kinds /\ k # "input"
    BY <1>7 DEF SetsMethod, Slot, Slots, Kinds
  <2>2. \/ context' = [context EXCEPT !["method"] = 0] /\ Gives("method", None)
        \/ Leaves("method")
        \/ context' = [context EXCEPT !["method"] = sets'] /\ Gives("method", Wrapper(k, sets'))
    BY <1>7 DEF SetsMethod
  <2> QED
    BY <1>1, <1>2, <1>3, <2>1, <2>2
<1>8. CASE IoTHubClientCore_SetInputMessageCallback(a)
  <2>1. Slot("input") = "input" /\ "input" \in Kinds
    BY DEF Slot, Kinds
  <2> QED
    BY <1>1, <1>8, <2>1 DEF IoTHubClientCore_SetInputMessageCallback
<1>9. CASE IoTHubClientCore_SetOption(a)
  BY <1>9 DEF IoTHubClientCore_SetOption, Sets, SettingTypes, ContextsLive
<1> QED
  BY <1>4, <1>5, <1>6, <1>7, <1>8, <1>9
     DEF SetStep, IoTHubClientCore_SetDeviceMethodCallback, IoTHubClientCore_SetDeviceMethodCallback_Ex

\* Where an upload may be and where it then goes.
UploadMoves == {<<"uploading", "called">>, <<"uploading", "calling">>, <<"called", "marked">>}

\* The steps, those with the same effect taken together.
LEMMA CoreCases ==
  ASSUME CoreTypeOK, CoreNext
  PROVE  \/ \E a \in Apps : StartWorkerThreadIfNeeded(a) \/ CreateWorker(a) \/ SetStep(a)
         \/ \E t \in Threads : \E i \in Items : Accepts(t, i)
         \/ \E t \in Threads : \E u \in Uploads : startHttpWorkerThread(t, u)
         \/ \E i \in Items : SavesReport(i)
         \/ \E w \in Workers : \E k \in Kinds : SavesInbound(w, k)
         \/ \E w \in Workers : \/ WorkerLocks(w) \/ EndOfWork(w) \/ CopyCallbacks(w)
                               \/ dispatch_user_callbacks(w) \/ CallbackReturns(w) \/ EndOfBatch(w)
         \/ \E u \in Uploads : \E m \in UploadMoves : UploadGoes(u, m[1], m[2])
         \/ \E a \in Apps : \/ DestroySignals(a) \/ DestroyJoins(a) \/ DestroyLocks(a)
                            \/ DestroyCollects(a) \/ DestroyUnlocks(a)
                            \/ DestroyDispatches(a) \/ DestroyFrees(a)
<1>1. ASSUME NEW a \in Apps, StartWorkerThreadIfNeeded(a) \/ CreateWorker(a) \/ SetStep(a) \/ DestroySignals(a)
      PROVE  \/ \E b \in Apps : StartWorkerThreadIfNeeded(b) \/ CreateWorker(b) \/ SetStep(b)
             \/ \E b \in Apps : DestroySignals(b)
  BY <1>1
<1>2. ASSUME NEW a \in Apps, DestroyStep(a)
      PROVE  \/ \E i \in Items : SavesReport(i)
             \/ \E b \in Apps : \/ DestroyJoins(b) \/ DestroyLocks(b)
                                \/ DestroyCollects(b) \/ DestroyUnlocks(b)
                                \/ DestroyDispatches(b) \/ DestroyFrees(b)
  <2>1. LLDestroys(a) => \E i \in Items : SavesReport(i)
    BY DEF LLDestroys, CoreTypeOK
  <2> QED
    BY <1>2, <2>1 DEF DestroyStep
<1>3. ASSUME NEW t \in Threads, AppStep(t)
      PROVE  \/ \E i \in Items : Accepts(t, i)
             \/ \E u \in Uploads : startHttpWorkerThread(t, u)
  BY <1>3 DEF AppStep, IoTHubClientCore_SendEventAsync, IoTHubClientCore_SendReportedState,
              IoTHubClientCore_GetTwinAsync, IoTHubClientCore_UploadToBlobAsync,
              IoTHubClientCore_UploadMultipleBlocksToBlobAsync, IoTHubClientCore_GenericMethodInvoke, Items
<1>4. ASSUME NEW w \in Workers, WorkStep(w)
      PROVE  \/ \E i \in Items : SavesReport(i)
             \/ \E k \in Kinds : SavesInbound(w, k)
  BY <1>4 DEF WorkStep, iothub_ll_event_confirm_callback, iothub_ll_reported_state_callback,
              iothub_ll_get_device_twin_async_callback, iothub_ll_message_callback,
              iothub_ll_inputmessage_callback, iothub_ll_device_method_callback,
              iothub_ll_inbound_device_method_callback, iothub_ll_connection_status_callback,
              iothub_ll_device_twin_callback, Items, Kinds
<1>5. ASSUME NEW u \in Uploads, UploadStep(u)
      PROVE  \E m \in UploadMoves : UploadGoes(u, m[1], m[2])
  <2>1. \/ UploadGoes(u, "uploading", "called") \/ UploadGoes(u, "uploading", "calling")
        \/ UploadGoes(u, "called", "marked")
    BY <1>5 DEF UploadStep, uploadingThread, uploadMultipleBlock_thread, uploadMethodInvoke_thread,
                markThreadReadyToBeGarbageCollected
  <2> QED
    BY <2>1 DEF UploadMoves
<1>6. \/ \E a \in Apps : \/ StartWorkerThreadIfNeeded(a) \/ CreateWorker(a) \/ SetStep(a) \/ DestroySignals(a)
                         \/ DestroyStep(a)
      \/ \E t \in Threads : AppStep(t)
      \/ \E w \in Workers : WorkStep(w) \/ WorkerStep(w)
      \/ \E u \in Uploads : UploadStep(u)
  BY DEF CoreNext
<1>7. CASE \E a \in Apps : \/ StartWorkerThreadIfNeeded(a) \/ CreateWorker(a) \/ SetStep(a) \/ DestroySignals(a)
  BY <1>1, <1>7
<1>8. CASE \E a \in Apps : DestroyStep(a)
  BY <1>2, <1>8
<1>9. CASE \E t \in Threads : AppStep(t)
  BY <1>3, <1>9
<1>10. CASE \E w \in Workers : WorkStep(w)
  BY <1>4, <1>10
<1>11. CASE \E w \in Workers : WorkerStep(w)
  BY <1>11 DEF WorkerStep
<1>12. CASE \E u \in Uploads : UploadStep(u)
  BY <1>5, <1>12
<1> QED
  BY <1>6, <1>7, <1>8, <1>9, <1>10, <1>11, <1>12

-----------------------------------------------------------------------------
(* Types and the lock *)

\* The lock belongs to the thread that is in its locked part.
LockInv ==
  /\ LockHandle \in Workers \cup Apps \cup {"free"}
  /\ \A w \in Workers : LockHandle = w <=> at[w] = "work"
  /\ \A a \in Apps : LockHandle = a <=> at[a] = "drain"

\* A thread that goes on and neither enters nor leaves a locked part.
LEMMA MoveKeeps ==
  ASSUME PlaceTypes, LockInv, NEW t \in Threads, NEW p,
         at' = [at EXCEPT ![t] = p], LockHandle' = LockHandle,
         t \in Apps => p \in AppPlaces /\ at[t] # "drain" /\ p # "drain",
         t \in Workers => p \in WorkerPlaces /\ at[t] # "work" /\ p # "work",
         t \in Uploads => p \in UploadPlaces
  PROVE  PlaceTypes' /\ LockInv'
<1>1. at'[t] = p /\ \A s \in Threads : s # t => at'[s] = at[s]
  BY GoesOn
<1>2. p \in Places
  BY KindFacts DEF Places
<1>3. at' \in [Threads -> Places]
  BY <1>2 DEF PlaceTypes
<1>4. PlaceTypes'
  BY <1>1, <1>3, KindFacts DEF PlaceTypes
<1>5. LockInv'
  BY <1>1, KindFacts DEF LockInv
<1> QED
  BY <1>4, <1>5

\* A call of the client that returns, of an application thread or from a callback.
LEMMA CallKeeps ==
  ASSUME PlaceTypes, LockInv, NEW t \in Threads, Calls(t), Returns(t), LockHandle' = LockHandle
  PROVE  PlaceTypes' /\ LockInv'
<1>1. /\ \A s \in Threads : s # t => at'[s] = at[s]
      /\ t \in Apps => at[t] = "started" /\ at'[t] = "idle"
      /\ t \in Workers => at[t] = "callback" /\ at'[t] = "callback"
      /\ t \in Uploads => at[t] = "calling" /\ at'[t] = "called"
      /\ at' \in [Threads -> Places]
  BY CallReturns
<1>2. PlaceTypes'
  BY <1>1, KindFacts DEF PlaceTypes, AppPlaces, WorkerPlaces, UploadPlaces
<1>3. LockInv'
  BY <1>1, KindFacts DEF LockInv
<1> QED
  BY <1>2, <1>3

\* startHttpWorkerThread is a call that returns and an upload that begins.
LEMMA UploadBegins ==
  ASSUME PlaceTypes, NEW t \in Threads, NEW u \in Uploads, startHttpWorkerThread(t, u)
  PROVE  /\ u # t /\ at[u] = "off" /\ at'[u] = "uploading"
         /\ \A s \in Threads : s # t /\ s # u => at'[s] = at[s]
         /\ t \in Apps => at[t] = "started" /\ at'[t] = "idle"
         /\ t \in Workers => at[t] = "callback" /\ at'[t] = "callback"
         /\ t \in Uploads => at[t] = "calling" /\ at'[t] = "called"
         /\ at' \in [Threads -> Places]
<1>1. at \in [Threads -> Places] /\ u \in Threads
  BY KindFacts DEF PlaceTypes
<1>2. /\ Calls(t) /\ at[u] = "off"
      /\ at' = [at EXCEPT ![u] = "uploading",
                          ![t] = IF t \in Apps THEN "idle" ELSE IF t \in Workers THEN @ ELSE "called"]
  BY DEF startHttpWorkerThread
<1>3. t \in Apps => at[t] = "started" /\ t \notin Workers /\ t \notin Uploads
  BY <1>2, KindFacts DEF Calls
<1>4. t \in Workers => at[t] = "callback" /\ t \notin Apps /\ t \notin Uploads
  BY <1>2, KindFacts DEF Calls
<1>5. t \in Uploads => at[t] = "calling" /\ t \notin Apps /\ t \notin Workers
  BY <1>2, KindFacts DEF Calls
<1>6. t \in Apps \/ t \in Workers \/ t \in Uploads
  BY KindFacts
<1>7. u # t
  BY <1>2, <1>3, <1>4, <1>5, <1>6
<1> DEFINE p == IF t \in Apps THEN "idle" ELSE IF t \in Workers THEN at[t] ELSE "called"
<1>8. at' = [[at EXCEPT ![u] = "uploading"] EXCEPT ![t] = p]
  BY <1>1, <1>2, <1>7
<1>9. p \in Places /\ "uploading" \in Places
  BY <1>1 DEF Places, AppPlaces, UploadPlaces
<1>10. /\ at' \in [Threads -> Places] /\ at'[t] = p /\ at'[u] = "uploading"
       /\ \A s \in Threads : s # t /\ s # u => at'[s] = at[s]
  BY <1>1, <1>7, <1>8, <1>9
<1> QED
  BY <1>2, <1>3, <1>4, <1>5, <1>6, <1>7, <1>10

\* CreateWorker moves its thread and starts the worker.
LEMMA WorkerBegins ==
  ASSUME PlaceTypes, NEW a \in Apps, CreateWorker(a)
  PROVE  \E w \in Workers :
           /\ at[w] = "off" /\ at'[w] = "loop" /\ at[a] = "starting" /\ at'[a] = "started"
           /\ \A s \in Threads : s # a /\ s # w => at'[s] = at[s]
           /\ at' \in [Threads -> Places] /\ ThreadHandle' = w
<1>1. PICK w \in Workers : at[w] = "off" /\ ThreadHandle' = w
                           /\ at' = [at EXCEPT ![a] = "started", ![w] = "loop"]
  BY DEF CreateWorker
<1>2. at \in [Threads -> Places] /\ a \in Threads /\ w \in Threads /\ a # w /\ at[a] = "starting"
  BY KindFacts DEF PlaceTypes, CreateWorker
<1>3. "started" \in Places /\ "loop" \in Places
  BY DEF Places, AppPlaces, WorkerPlaces
<1> QED
  BY <1>1, <1>2, <1>3

\* Types of places and the lock are kept by every step.
LEMMA PlacesKept ==
  ASSUME CoreTypeOK, PlaceTypes, CoreNext
  PROVE  PlaceTypes' /\ LockInv'
<1>0. LockInv
  BY DEF CoreTypeOK, LockInv
<1>1. ASSUME NEW a \in Apps, StartWorkerThreadIfNeeded(a)
      PROVE  PlaceTypes' /\ LockInv'
  <2> DEFINE p == IF ThreadHandle = "none" THEN "starting" ELSE "started"
  <2>1. at' = [at EXCEPT ![a] = p] /\ at[a] = "idle" /\ LockHandle' = LockHandle
    BY <1>1 DEF StartWorkerThreadIfNeeded
  <2>2. p \in AppPlaces /\ p # "drain"
    BY DEF AppPlaces
  <2> QED
    BY <1>0, <2>1, <2>2, MoveKeeps, KindFacts
<1>2. ASSUME NEW a \in Apps, CreateWorker(a)
      PROVE  PlaceTypes' /\ LockInv'
  <2>1. PICK w \in Workers :
           /\ at[w] = "off" /\ at'[w] = "loop" /\ at[a] = "starting" /\ at'[a] = "started"
           /\ \A s \in Threads : s # a /\ s # w => at'[s] = at[s]
           /\ at' \in [Threads -> Places]
    BY <1>2, WorkerBegins
  <2>2. LockHandle' = LockHandle
    BY <1>2 DEF CreateWorker
  <2>3. PlaceTypes'
    BY <2>1, KindFacts DEF PlaceTypes, AppPlaces, WorkerPlaces
  <2> QED
    BY <1>0, <2>1, <2>2, <2>3, KindFacts DEF LockInv
<1>3. ASSUME NEW a \in Apps, SetStep(a)
      PROVE  PlaceTypes' /\ LockInv'
  <2>1. Sets(a)
    BY <1>3 DEF SetStep, IoTHubClientCore_SetMessageCallback, IoTHubClientCore_SetConnectionStatusCallback,
            IoTHubClientCore_SetDeviceTwinCallback, IoTHubClientCore_SetDeviceMethodCallback,
            IoTHubClientCore_SetDeviceMethodCallback_Ex, SetsMethod,
            IoTHubClientCore_SetInputMessageCallback, IoTHubClientCore_SetOption
  <2> QED
    BY <1>0, <2>1, CallKeeps, KindFacts DEF Sets, Locked
<1>4. ASSUME NEW t \in Threads, NEW i \in Items, Accepts(t, i)
      PROVE  PlaceTypes' /\ LockInv'
  BY <1>0, <1>4, CallKeeps DEF Accepts, Locked
<1>5. ASSUME NEW t \in Threads, NEW u \in Uploads, startHttpWorkerThread(t, u)
      PROVE  PlaceTypes' /\ LockInv'
  <2>1. /\ u # t /\ at[u] = "off" /\ at'[u] = "uploading"
        /\ \A s \in Threads : s # t /\ s # u => at'[s] = at[s]
        /\ t \in Apps => at[t] = "started" /\ at'[t] = "idle"
        /\ t \in Workers => at[t] = "callback" /\ at'[t] = "callback"
        /\ t \in Uploads => at[t] = "calling" /\ at'[t] = "called"
        /\ at' \in [Threads -> Places]
    BY <1>5, UploadBegins
  <2>2. LockHandle' = LockHandle
    BY <1>5 DEF startHttpWorkerThread
  <2>3. PlaceTypes'
    BY <2>1, KindFacts DEF PlaceTypes, AppPlaces, WorkerPlaces, UploadPlaces
  <2> QED
    BY <1>0, <2>1, <2>2, <2>3, KindFacts DEF LockInv
<1>6. ASSUME NEW i \in Items, SavesReport(i)
      PROVE  PlaceTypes' /\ LockInv'
  BY <1>0, <1>6 DEF SavesReport, threadVars, PlaceTypes, LockInv
<1>7. ASSUME NEW w \in Workers, NEW k \in Kinds, SavesInbound(w, k)
      PROVE  PlaceTypes' /\ LockInv'
  BY <1>0, <1>7 DEF SavesInbound, threadVars, PlaceTypes, LockInv
<1>8. ASSUME NEW w \in Workers, WorkerLocks(w)
      PROVE  PlaceTypes' /\ LockInv'
  <2>1. at[w] = "loop" /\ LockHandle = "free" /\ w \in Threads
    BY <1>8, KindFacts DEF WorkerLocks
  <2>2. CASE StopThread
    <3>1. at' = [at EXCEPT ![w] = "ended"] /\ LockHandle' = LockHandle
      BY <1>8, <2>2 DEF WorkerLocks
    <3> QED
      BY <1>0, <2>1, <3>1, MoveKeeps, KindFacts DEF WorkerPlaces
  <2>3. CASE ~StopThread
    <3>1. at' = [at EXCEPT ![w] = "work"] /\ LockHandle' = w
      BY <1>8, <2>3 DEF WorkerLocks
    <3>2. at'[w] = "work" /\ \A s \in Threads : s # w => at'[s] = at[s]
      BY <2>1, <3>1, GoesOn
    <3>3. at' \in [Threads -> Places]
      BY <3>1 DEF PlaceTypes, Places, WorkerPlaces
    <3>4. PlaceTypes'
      BY <3>2, <3>3, KindFacts DEF PlaceTypes, WorkerPlaces
    <3> QED
      BY <1>0, <2>1, <3>1, <3>2, <3>4, KindFacts DEF LockInv
  <2> QED
    BY <2>2, <2>3
<1>9. ASSUME NEW w \in Workers, EndOfWork(w)
      PROVE  PlaceTypes' /\ LockInv'
  <2>1. at[w] = "work" /\ LockHandle = w /\ w \in Threads
    BY <1>0, <1>9, KindFacts DEF EndOfWork, LockInv
  <2>2. at' = [at EXCEPT ![w] = "copy"] /\ LockHandle' = "free"
    BY <1>9 DEF EndOfWork
  <2>3. at'[w] = "copy" /\ \A s \in Threads : s # w => at'[s] = at[s]
    BY <2>1, <2>2, GoesOn
  <2>4. at' \in [Threads -> Places]
    BY <2>2 DEF PlaceTypes, Places, WorkerPlaces
  <2>5. PlaceTypes'
    BY <2>3, <2>4, KindFacts DEF PlaceTypes, WorkerPlaces
  <2> QED
    BY <1>0, <2>1, <2>2, <2>3, <2>5, KindFacts DEF LockInv
<1>10. ASSUME NEW w \in Workers, CopyCallbacks(w) \/ dispatch_user_callbacks(w) \/ CallbackReturns(w) \/ EndOfBatch(w)
       PROVE  PlaceTypes' /\ LockInv'
  <2>1. /\ at[w] \in {"copy", "dispatch", "callback"} /\ LockHandle' = LockHandle
        /\ \/ at' = at
           \/ \E p \in {"dispatch", "callback", "loop"} : at' = [at EXCEPT ![w] = p]
    BY <1>10 DEF CopyCallbacks, dispatch_user_callbacks, CallbackReturns, EndOfBatch
  <2>2. CASE at' = at
    BY <1>0, <2>1, <2>2 DEF PlaceTypes, LockInv
  <2>3. ASSUME NEW p \in {"dispatch", "callback", "loop"}, at' = [at EXCEPT ![w] = p]
        PROVE  PlaceTypes' /\ LockInv'
    <3>1. p \in WorkerPlaces /\ p # "work" /\ at[w] # "work"
      BY <2>1 DEF WorkerPlaces
    <3> QED
      BY <1>0, <2>1, <2>3, <3>1, MoveKeeps, KindFacts
  <2> QED
    BY <2>1, <2>2, <2>3
<1>11. ASSUME NEW u \in Uploads, NEW m \in UploadMoves, UploadGoes(u, m[1], m[2])
       PROVE  PlaceTypes' /\ LockInv'
  <2> DEFINE p == m[2]
  <2>1. p \in UploadPlaces
    BY DEF UploadMoves, UploadPlaces
  <2>2. at' = [at EXCEPT ![u] = p] /\ LockHandle' = LockHandle
    BY <1>11 DEF UploadGoes
  <2> HIDE DEF p
  <2> QED
    BY <1>0, <2>1, <2>2, MoveKeeps, KindFacts
<1>12. ASSUME NEW a \in Apps, DestroySignals(a) \/ DestroyJoins(a) \/ DestroyFrees(a)
       PROVE  PlaceTypes' /\ LockInv'
  <2>1. /\ at[a] \in {"idle", "join", "final"} /\ LockHandle' = LockHandle
        /\ \E p \in {"relock", "join", "freed"} : at' = [at EXCEPT ![a] = p]
    BY <1>12 DEF DestroySignals, DestroyJoins, DestroyFrees
  <2>2. PICK p \in {"relock", "join", "freed"} : at' = [at EXCEPT ![a] = p]
    BY <2>1
  <2>3. p \in AppPlaces /\ p # "drain" /\ at[a] # "drain"
    BY <2>1 DEF AppPlaces
  <2> QED
    BY <1>0, <2>1, <2>2, <2>3, MoveKeeps, KindFacts
<1>13. ASSUME NEW a \in Apps, DestroyLocks(a)
       PROVE  PlaceTypes' /\ LockInv'
  <2>1. at[a] = "relock" /\ LockHandle = "free" /\ a \in Threads /\ LockHandle' = a
        /\ at' = [at EXCEPT ![a] = "drain"]
    BY <1>13, KindFacts DEF DestroyLocks
  <2>2. at'[a] = "drain" /\ \A s \in Threads : s # a => at'[s] = at[s]
    BY <2>1, GoesOn
  <2>3. at' \in [Threads -> Places]
    BY <2>1 DEF PlaceTypes, Places, AppPlaces
  <2>4. PlaceTypes'
    BY <2>2, <2>3, KindFacts DEF PlaceTypes, AppPlaces
  <2> QED
    BY <1>0, <2>1, <2>2, <2>4, KindFacts DEF LockInv
<1>14. ASSUME NEW a \in Apps, DestroyUnlocks(a)
       PROVE  PlaceTypes' /\ LockInv'
  <2>1. at[a] = "drain" /\ LockHandle = a /\ a \in Threads /\ LockHandle' = "free"
        /\ at' = [at EXCEPT ![a] = "final"]
    BY <1>0, <1>14, KindFacts DEF DestroyUnlocks, LockInv
  <2>2. at'[a] = "final" /\ \A s \in Threads : s # a => at'[s] = at[s]
    BY <2>1, GoesOn
  <2>3. at' \in [Threads -> Places]
    BY <2>1 DEF PlaceTypes, Places, AppPlaces
  <2>4. PlaceTypes'
    BY <2>2, <2>3, KindFacts DEF PlaceTypes, AppPlaces
  <2> QED
    BY <1>0, <2>1, <2>2, <2>4, KindFacts DEF LockInv
<1>15. ASSUME NEW a \in Apps, DestroyCollects(a) \/ DestroyDispatches(a)
       PROVE  PlaceTypes' /\ LockInv'
  <2>1. at' = at /\ LockHandle' = LockHandle
    BY <1>15 DEF DestroyCollects, DestroyDispatches, threadVars
  <2> QED
    BY <1>0, <2>1 DEF PlaceTypes, LockInv
<1> QED
  BY <1>1, <1>2, <1>3, <1>4, <1>5, <1>6, <1>7, <1>8, <1>9, <1>10, <1>11, <1>12, <1>13, <1>14, <1>15, CoreCases

\* The steps that leave the registrations and options alone.
LEMMA SettingsKept ==
  ASSUME CoreTypeOK, SettingTypes, ContextsLive, CoreNext
  PROVE  SettingTypes' /\ ContextsLive'
<1>1. ASSUME UNCHANGED settings
      PROVE  SettingTypes' /\ ContextsLive'
  BY <1>1 DEF settings, SettingTypes, ContextsLive
<1>2. ASSUME NEW a \in Apps, StartWorkerThreadIfNeeded(a) \/ CreateWorker(a) \/ SetStep(a)
      PROVE  SettingTypes' /\ ContextsLive'
  BY <1>1, <1>2, SettingsStay DEF StartWorkerThreadIfNeeded, CreateWorker
<1>3. ASSUME NEW t \in Threads, NEW i \in Items, Accepts(t, i)
      PROVE  UNCHANGED settings
  BY <1>3 DEF Accepts
<1>4. ASSUME NEW t \in Threads, NEW u \in Uploads, startHttpWorkerThread(t, u)
      PROVE  UNCHANGED settings
  BY <1>4 DEF startHttpWorkerThread
<1>5. ASSUME NEW i \in Items, SavesReport(i)
      PROVE  UNCHANGED settings
  BY <1>5 DEF SavesReport
<1>6. ASSUME NEW w \in Workers, NEW k \in Kinds, SavesInbound(w, k)
      PROVE  UNCHANGED settings
  BY <1>6 DEF SavesInbound
<1>7. ASSUME NEW w \in Workers, \/ WorkerLocks(w) \/ EndOfWork(w) \/ CopyCallbacks(w)
                                \/ dispatch_user_callbacks(w) \/ CallbackReturns(w) \/ EndOfBatch(w)
      PROVE  UNCHANGED settings
  BY <1>7 DEF WorkerLocks, EndOfWork, CopyCallbacks, dispatch_user_callbacks, CallbackReturns, EndOfBatch
<1>8. ASSUME NEW u \in Uploads, NEW m \in UploadMoves, UploadGoes(u, m[1], m[2])
      PROVE  UNCHANGED settings
  BY <1>8 DEF UploadGoes
<1>9. ASSUME NEW a \in Apps, \/ DestroySignals(a) \/ DestroyJoins(a) \/ DestroyLocks(a)
                             \/ DestroyCollects(a) \/ DestroyUnlocks(a)
                             \/ DestroyDispatches(a) \/ DestroyFrees(a)
      PROVE  UNCHANGED settings
  BY <1>9 DEF DestroySignals, DestroyJoins, DestroyLocks, DestroyCollects, DestroyUnlocks,
              DestroyDispatches, DestroyFrees
<1> QED
  BY <1>1, <1>2, <1>3, <1>4, <1>5, <1>6, <1>7, <1>8, <1>9, CoreCases

\* An entry for what is saved.
LEMMA SavedEntry ==
  ASSUME NEW i \in Items \cup Inbound, NEW k \in Kinds \cup {"item"}, NEW c \in Nat,
         k = "item" <=> i \in Items
  PROVE  Saved(i, k, c) \in Entries /\ Saved(i, k, c).of = i /\ Saved(i, k, c).type = k
BY DEF Saved, Entries

\* The queue of confirmations keeps its type.
LEMMA ConfirmsKeeps ==
  ASSUME unconfirmed \in Seq(Confirmable), NEW i, Confirms(i)
  PROVE  unconfirmed' \in Seq(Confirmable)
BY HeadTailProperties DEF Confirms, history

\* What is saved, dispatched and to be confirmed keeps its type.
LEMMA ListsKept ==
  ASSUME CoreTypeOK, SettingTypes, ListTypes, BatchInv, CoreNext
  PROVE  ListTypes'
<1>1. ASSUME UNCHANGED <<saved_user_callback_list, callbacks, unconfirmed>>
      PROVE  ListTypes'
  BY <1>1 DEF ListTypes
<1>2. ASSUME NEW a \in Apps, StartWorkerThreadIfNeeded(a) \/ CreateWorker(a) \/ SetStep(a)
      PROVE  ListTypes'
  <2>1. SetStep(a) => Sets(a)
    BY DEF SetStep, IoTHubClientCore_SetMessageCallback, IoTHubClientCore_SetConnectionStatusCallback,
           IoTHubClientCore_SetDeviceTwinCallback, IoTHubClientCore_SetDeviceMethodCallback,
           IoTHubClientCore_SetDeviceMethodCallback_Ex, SetsMethod,
           IoTHubClientCore_SetInputMessageCallback, IoTHubClientCore_SetOption
  <2> QED
    BY <1>1, <1>2, <2>1 DEF StartWorkerThreadIfNeeded, CreateWorker, Sets, dispatchVars, history
<1>3. ASSUME NEW t \in Threads, NEW i \in Items, Accepts(t, i)
      PROVE  ListTypes'
  BY <1>1, <1>3 DEF Accepts, dispatchVars, history
<1>4. ASSUME NEW t \in Threads, NEW u \in Uploads, startHttpWorkerThread(t, u)
      PROVE  ListTypes'
  BY <1>1, <1>4 DEF startHttpWorkerThread, dispatchVars, history
<1>5. ASSUME NEW i \in Items, SavesReport(i)
      PROVE  ListTypes'
  <2>1. Saved(i, "item", 0) \in Entries
    BY SavedEntry
  <2>2. /\ saved_user_callback_list' = Append(saved_user_callback_list, Saved(i, "item", 0))
        /\ unconfirmed' = IF i \in Confirmable THEN Append(unconfirmed, i) ELSE unconfirmed
        /\ callbacks' = callbacks
    BY <1>5 DEF SavesReport, dispatchVars
  <2> QED
    BY <2>1, <2>2 DEF ListTypes
<1>6. ASSUME NEW w \in Workers, NEW k \in Kinds, SavesInbound(w, k)
      PROVE  ListTypes'
  <2>1. Slot(k) \in Slots \cup {"input"}
    BY DEF Slot, Slots, Kinds
  <2>2. llContext[Slot(k)].ctx \in Nat
    BY <2>1 DEF SettingTypes
  <2>3. PICK i \in Inbound :
          saved_user_callback_list' =
            Append(saved_user_callback_list, Saved(i, k, llContext[Slot(k)].ctx))
    BY <1>6 DEF SavesInbound
  <2>4. Saved(i, k, llContext[Slot(k)].ctx) \in Entries
    <3>1. k # "item" /\ i \notin Items
      BY KindFacts DEF Kinds
    <3> QED
      BY <2>2, <3>1, SavedEntry
  <2>5. callbacks' = callbacks /\ unconfirmed' = unconfirmed
    BY <1>6 DEF SavesInbound, dispatchVars, history
  <2> QED
    BY <2>3, <2>4, <2>5 DEF ListTypes
<1>7. ASSUME NEW w \in Workers, WorkerLocks(w) \/ CopyCallbacks(w) \/ EndOfBatch(w)
      PROVE  ListTypes'
  BY <1>1, <1>7 DEF WorkerLocks, CopyCallbacks, EndOfBatch, dispatchVars, history
<1>8. ASSUME NEW w \in Workers, EndOfWork(w)
      PROVE  ListTypes'
  <2>1. /\ callbacks' = [callbacks EXCEPT ![w] = saved_user_callback_list]
        /\ saved_user_callback_list' = <<>> /\ unconfirmed' = unconfirmed
    BY <1>8 DEF EndOfWork, history
  <2> QED
    BY <2>1 DEF ListTypes
<1>9. ASSUME NEW w \in Workers, dispatch_user_callbacks(w)
      PROVE  ListTypes'
  <2>1. /\ saved_user_callback_list' = saved_user_callback_list
        /\ callbacks' = callbacks \/ callbacks' = [callbacks EXCEPT ![w] = Tail(@)]
        /\ callbacks[w] # <<>>
    BY <1>9 DEF dispatch_user_callbacks
  <2>2. UNCHANGED history \/ \E i \in {Head(callbacks[w]).of} : Confirms(i)
    BY <1>9 DEF dispatch_user_callbacks
  <2>3. unconfirmed' \in Seq(Confirmable)
    BY <2>2, ConfirmsKeeps DEF ListTypes, history
  <2>4. Tail(callbacks[w]) \in Seq(Entries)
    BY <2>1, HeadTailProperties DEF ListTypes
  <2> QED
    BY <2>1, <2>3, <2>4 DEF ListTypes
<1>10. ASSUME NEW w \in Workers, CallbackReturns(w)
       PROVE  ListTypes'
  <2>1. /\ callbacks' = [callbacks EXCEPT ![w] = Tail(@)] /\ at[w] = "callback"
        /\ saved_user_callback_list' = saved_user_callback_list /\ unconfirmed' = unconfirmed
    BY <1>10 DEF CallbackReturns, history
  <2>2. Tail(callbacks[w]) \in Seq(Entries)
    BY <2>1, HeadTailProperties DEF ListTypes, BatchInv
  <2> QED
    BY <2>1, <2>2 DEF ListTypes
<1>11. ASSUME NEW u \in Uploads, NEW m \in UploadMoves, UploadGoes(u, m[1], m[2])
       PROVE  ListTypes'
  BY <1>1, <1>11 DEF UploadGoes, dispatchVars, history
<1>12. ASSUME NEW a \in Apps, \/ DestroySignals(a) \/ DestroyJoins(a) \/ DestroyLocks(a)
                              \/ DestroyCollects(a) \/ DestroyUnlocks(a) \/ DestroyFrees(a)
       PROVE  ListTypes'
  BY <1>1, <1>12 DEF DestroySignals, DestroyJoins, DestroyLocks, DestroyCollects, DestroyUnlocks,
                     DestroyFrees, dispatchVars, history
<1>13. ASSUME NEW a \in Apps, DestroyDispatches(a)
       PROVE  ListTypes'
  <2>1. /\ saved_user_callback_list # <<>>
        /\ saved_user_callback_list' = Tail(saved_user_callback_list) /\ callbacks' = callbacks
        /\ Confirms(Head(saved_user_callback_list).of)
    BY <1>13 DEF DestroyDispatches, dispatchVars
  <2>2. unconfirmed' \in Seq(Confirmable)
    BY <2>1, ConfirmsKeeps DEF ListTypes
  <2>3. Tail(saved_user_callback_list) \in Seq(Entries)
    BY <2>1, HeadTailProperties DEF ListTypes
  <2> QED
    BY <2>1, <2>2, <2>3 DEF ListTypes
<1> QED
  BY <1>2, <1>3, <1>4, <1>5, <1>6, <1>7, <1>8, <1>9, <1>10, <1>11, <1>12, <1>13, CoreCases

\* The handles, the list of uploads and what became of the items keep their types.
LEMMA TypesKept ==
  ASSUME CoreTypeOK, PlaceTypes, CoreNext
  PROVE  CoreTypeOK'
<1> DEFINE Statuses == {"new", "held", "told", "dropped", "twice"}
           Others == /\ ThreadHandle \in Workers \cup {"none"}
                     /\ StopThread \in BOOLEAN
                     /\ httpWorkerThreadInfoList \subseteq Uploads
                     /\ inLL \subseteq Items
                     /\ done \in [Items \cup Inbound -> Statuses]
<1>1. Others
  BY DEF CoreTypeOK
<1>2. ASSUME UNCHANGED <<ThreadHandle, StopThread, httpWorkerThreadInfoList, inLL, done>>
      PROVE  Others'
  BY <1>1, <1>2
<1>3. ASSUME NEW a \in Apps, StartWorkerThreadIfNeeded(a) \/ SetStep(a)
      PROVE  Others'
  <2>1. SetStep(a) => Sets(a)
    BY DEF SetStep, IoTHubClientCore_SetMessageCallback, IoTHubClientCore_SetConnectionStatusCallback,
           IoTHubClientCore_SetDeviceTwinCallback, IoTHubClientCore_SetDeviceMethodCallback,
           IoTHubClientCore_SetDeviceMethodCallback_Ex, SetsMethod,
           IoTHubClientCore_SetInputMessageCallback, IoTHubClientCore_SetOption
  <2> QED
    BY <1>2, <1>3, <2>1 DEF StartWorkerThreadIfNeeded, Sets
<1>4. ASSUME NEW a \in Apps, CreateWorker(a)
      PROVE  Others'
  BY <1>1, <1>4 DEF CreateWorker
<1>5. ASSUME NEW t \in Threads, NEW i \in Items, Accepts(t, i)
      PROVE  Others'
  <2>1. done' = [done EXCEPT ![i] = "held"] /\ inLL' = inLL \cup {i}
        /\ UNCHANGED <<ThreadHandle, StopThread, httpWorkerThreadInfoList>>
    BY <1>5 DEF Accepts
  <2> QED
    BY <1>1, <2>1
<1>6. ASSUME NEW t \in Threads, NEW u \in Uploads, startHttpWorkerThread(t, u)
      PROVE  Others'
  BY <1>1, <1>6 DEF startHttpWorkerThread
<1>7. ASSUME NEW i \in Items, SavesReport(i)
      PROVE  Others'
  BY <1>1, <1>7 DEF SavesReport, threadVars
<1>8. ASSUME NEW w \in Workers, NEW k \in Kinds, SavesInbound(w, k)
      PROVE  Others'
  <2>1. PICK i \in Inbound : done' = [done EXCEPT ![i] = "held"]
    BY <1>8 DEF SavesInbound
  <2>2. UNCHANGED <<ThreadHandle, StopThread, httpWorkerThreadInfoList, inLL>>
    BY <1>8 DEF SavesInbound, threadVars
  <2> QED
    BY <1>1, <2>1, <2>2
<1>9. ASSUME NEW w \in Workers, \/ WorkerLocks(w) \/ EndOfWork(w) \/ CopyCallbacks(w) \/ EndOfBatch(w)
      PROVE  Others'
  BY <1>1, <1>9 DEF WorkerLocks, EndOfWork, CopyCallbacks, EndOfBatch
<1>10. ASSUME NEW w \in Workers, dispatch_user_callbacks(w) \/ CallbackReturns(w)
       PROVE  Others'
  <2> DEFINE i == Head(callbacks[w]).of
  <2>1. /\ UNCHANGED <<ThreadHandle, StopThread, httpWorkerThreadInfoList, inLL>>
        /\ \/ done' = done
           \/ done' = [done EXCEPT ![i] = IF @ = "held" THEN "told" ELSE "twice"]
           \/ done' = [done EXCEPT ![i] = "dropped"]
           \/ done' = [done EXCEPT ![i] = "told"]
    BY <1>10 DEF dispatch_user_callbacks, CallbackReturns
  <2> HIDE DEF i
  <2> QED
    BY <1>1, <2>1
<1>11. ASSUME NEW u \in Uploads, NEW m \in UploadMoves, UploadGoes(u, m[1], m[2])
       PROVE  Others'
  BY <1>2, <1>11 DEF UploadGoes
<1>12. ASSUME NEW a \in Apps, \/ DestroySignals(a) \/ DestroyJoins(a) \/ DestroyLocks(a)
                              \/ DestroyCollects(a) \/ DestroyUnlocks(a) \/ DestroyFrees(a)
       PROVE  Others'
  BY <1>1, <1>12 DEF DestroySignals, DestroyJoins, DestroyLocks, DestroyCollects, DestroyUnlocks,
                     DestroyFrees
<1>13. ASSUME NEW a \in Apps, DestroyDispatches(a)
       PROVE  Others'
  <2> DEFINE i == Head(saved_user_callback_list).of
  <2>1. /\ UNCHANGED <<ThreadHandle, StopThread, httpWorkerThreadInfoList, inLL>>
        /\ done' = [done EXCEPT ![i] = IF i \notin Confirmable THEN "dropped"
                                       ELSE IF @ = "held" THEN "told" ELSE "twice"]
    BY <1>13 DEF DestroyDispatches, threadVars
  <2> HIDE DEF i
  <2> QED
    BY <1>1, <2>1
<1>14. Others'
  BY <1>3, <1>4, <1>5, <1>6, <1>7, <1>8, <1>9, <1>10, <1>11, <1>12, <1>13, CoreCases
<1>15. LockInv'
  BY PlacesKept
<1> QED
  BY <1>14, <1>15 DEF CoreTypeOK, LockInv

-----------------------------------------------------------------------------
(* Threads and the stages of Destroy *)

\* Registering is a call of an application thread that leaves threads and lists alone.
LEMMA SetStepIsCall ==
  ASSUME NEW a \in Apps, SetStep(a)
  PROVE  /\ Calls(a) /\ Returns(a)
         /\ UNCHANGED <<LockHandle, ThreadHandle, StopThread, saved_user_callback_list, callbacks,
                        httpWorkerThreadInfoList, inLL, done, unconfirmed, disorder>>
<1>1. Sets(a)
  BY DEF SetStep, IoTHubClientCore_SetMessageCallback, IoTHubClientCore_SetConnectionStatusCallback,
         IoTHubClientCore_SetDeviceTwinCallback, IoTHubClientCore_SetDeviceMethodCallback,
         IoTHubClientCore_SetDeviceMethodCallback_Ex, SetsMethod,
         IoTHubClientCore_SetInputMessageCallback, IoTHubClientCore_SetOption
<1> QED
  BY <1>1 DEF Sets, Locked, dispatchVars, history

\* Neither workers nor Destroy change their stage, and no upload begins.
LEMMA CallKeepsStages ==
  ASSUME PlaceTypes, ThreadInv, EndInv, NEW t \in Threads, Calls(t), Returns(t),
         LockHandle' = LockHandle, ThreadHandle' = ThreadHandle,
         saved_user_callback_list' = saved_user_callback_list,
         httpWorkerThreadInfoList' = httpWorkerThreadInfoList
  PROVE  ThreadInv' /\ EndInv'
<1>1. /\ \A s \in Threads : s # t => at'[s] = at[s]
      /\ t \in Apps => at[t] = "started" /\ at'[t] = "idle"
      /\ t \in Workers => at[t] = "callback" /\ at'[t] = "callback"
      /\ t \in Uploads => at[t] = "calling" /\ at'[t] = "called"
  BY CallReturns
<1>2. /\ \A w \in Workers : at'[w] = at[w]
      /\ \A a \in Apps : at'[a] = at[a] \/ (at[a] = "started" /\ at'[a] = "idle" /\ t = a)
      /\ \A u \in Uploads : at'[u] = at[u] \/ (at[u] = "calling" /\ at'[u] = "called" /\ t = u)
  BY <1>1, KindFacts
<1>3. ThreadInv'
  BY <1>2 DEF ThreadInv
<1>4. EndInv'
  <2> SUFFICES ASSUME NEW a \in Apps, at'[a] \notin {"idle", "starting", "started"}
               PROVE  /\ \A b \in Apps \ {a} : at'[b] = "idle"
                      /\ at'[a] # "join" => \A w \in Workers : at'[w] \in {"off", "ended"}
                      /\ at'[a] \in {"final", "freed"} =>
                           /\ inLL' = {} /\ LockHandle' = "free"
                           /\ \A u \in Uploads : at'[u] \in {"off", "marked"}
                      /\ at'[a] = "freed" => saved_user_callback_list' = <<>>
    BY DEF EndInv
  <2>1. at'[a] = at[a] /\ at[a] \notin {"idle", "starting", "started"}
    BY <1>2
  <2>2. /\ \A b \in Apps \ {a} : at[b] = "idle"
        /\ at[a] # "join" => \A w \in Workers : at[w] \in {"off", "ended"}
        /\ at[a] \in {"final", "freed"} => /\ inLL = {} /\ LockHandle = "free"
                                           /\ \A u \in Uploads : at[u] \in {"off", "marked"}
        /\ at[a] = "freed" => saved_user_callback_list = <<>>
    BY <2>1 DEF EndInv
  <2>3. \A b \in Apps \ {a} : at'[b] = "idle"
    BY <1>2, <2>2
  <2>4. at[a] = "join" \/ \A w \in Workers : at[w] \in {"off", "ended"}
    BY <2>2
  <2>5. at'[a] \in {"final", "freed"} =>
          /\ LockHandle' = "free" /\ \A u \in Uploads : at'[u] \in {"off", "marked"}
    BY <1>2, <2>1, <2>2
  <2>6. at[a] \notin {"final", "freed"}
    <3> SUFFICES ASSUME at[a] \in {"final", "freed"}
                 PROVE  FALSE
      OBVIOUS
    <3>1. t \in Apps => t # a /\ FALSE
      BY <1>1, <2>1, <2>2
    <3>2. t \in Workers => FALSE
      BY <1>1, <2>2
    <3>3. t \in Uploads => FALSE
      BY <1>1, <2>2
    <3> QED
      BY <3>1, <3>2, <3>3, KindFacts
  <2> QED
    BY <1>2, <2>1, <2>2, <2>3, <2>6
<1> QED
  BY <1>3, <1>4

\* There is one worker and Destroy has behind it what its stage says.
LEMMA StagesKept ==
  ASSUME CoreTypeOK, PlaceTypes, ThreadInv, EndInv, FirstCallsApart, CoreNext
  PROVE  ThreadInv' /\ EndInv'
<1>1. ASSUME NEW a \in Apps, StartWorkerThreadIfNeeded(a)
      PROVE  ThreadInv' /\ EndInv'
  <2>1. /\ at[a] = "idle" /\ \A b \in Apps : at[b] \in {"idle", "starting", "started"}
        /\ at' = [at EXCEPT ![a] = IF ThreadHandle = "none" THEN "starting" ELSE "started"]
        /\ UNCHANGED <<ThreadHandle, httpWorkerThreadInfoList>>
    BY <1>1 DEF StartWorkerThreadIfNeeded
  <2>2. /\ at'[a] = IF ThreadHandle = "none" THEN "starting" ELSE "started"
        /\ \A s \in Threads : s # a => at'[s] = at[s]
    BY <2>1, GoesOn, KindFacts
  <2>3. /\ \A w \in Workers : at'[w] = at[w]
        /\ \A u \in Uploads : at'[u] = at[u]
        /\ \A b \in Apps : b # a => at'[b] = at[b]
    BY <2>2, KindFacts
  <2>4. ThreadInv'
    BY <2>1, <2>2, <2>3 DEF ThreadInv
  <2>5. EndInv'
    BY <2>1, <2>2, <2>3 DEF EndInv
  <2> QED
    BY <2>4, <2>5
<1>2. ASSUME NEW a \in Apps, CreateWorker(a)
      PROVE  ThreadInv' /\ EndInv'
  <2>1. PICK w \in Workers :
           /\ at[w] = "off" /\ at'[w] = "loop" /\ at[a] = "starting" /\ at'[a] = "started"
           /\ \A s \in Threads : s # a /\ s # w => at'[s] = at[s]
           /\ at' \in [Threads -> Places] /\ ThreadHandle' = w
    BY <1>2, WorkerBegins
  <2>2. /\ \A v \in Workers : v # w => at'[v] = at[v]
        /\ \A u \in Uploads : at'[u] = at[u]
        /\ \A b \in Apps : b # a => at'[b] = at[b]
        /\ w # "none"
    BY <2>1, KindFacts
  <2>3. ThreadHandle = "none" /\ \A v \in Workers : at[v] = "off"
    BY <2>1 DEF ThreadInv
  <2>4. \A b \in Apps : at'[b] # "starting"
    BY <2>1, <2>2 DEF FirstCallsApart
  <2>5. httpWorkerThreadInfoList' = httpWorkerThreadInfoList
    BY <1>2 DEF CreateWorker
  <2>6. ThreadInv'
    BY <2>1, <2>2, <2>3, <2>4, <2>5 DEF ThreadInv
  <2>7. \A b \in Apps : at[b] \in {"idle", "starting", "started"}
    BY <2>1 DEF EndInv
  <2>8. \A b \in Apps : at'[b] \in {"idle", "starting", "started"}
    BY <2>1, <2>2, <2>7
  <2>9. EndInv'
    BY <2>8 DEF EndInv
  <2> QED
    BY <2>6, <2>9
<1>3. ASSUME NEW a \in Apps, SetStep(a)
      PROVE  ThreadInv' /\ EndInv'
  BY <1>3, SetStepIsCall, CallKeepsStages, KindFacts
<1>4. ASSUME NEW t \in Threads, NEW i \in Items, Accepts(t, i)
      PROVE  ThreadInv' /\ EndInv'
  BY <1>4, CallKeepsStages DEF Accepts, Locked
<1>5. ASSUME NEW t \in Threads, NEW u \in Uploads, startHttpWorkerThread(t, u)
      PROVE  ThreadInv' /\ EndInv'
  <2>1. /\ u # t /\ at[u] = "off" /\ at'[u] = "uploading"
        /\ \A s \in Threads : s # t /\ s # u => at'[s] = at[s]
        /\ t \in Apps => at[t] = "started" /\ at'[t] = "idle"
        /\ t \in Workers => at[t] = "callback" /\ at'[t] = "callback"
        /\ t \in Uploads => at[t] = "calling" /\ at'[t] = "called"
    BY <1>5, UploadBegins
  <2>2. /\ httpWorkerThreadInfoList' = httpWorkerThreadInfoList \cup {u}
        /\ ThreadHandle' = ThreadHandle
    BY <1>5 DEF startHttpWorkerThread
  <2>3. /\ \A w \in Workers : at'[w] = at[w]
        /\ \A a \in Apps : at'[a] = at[a] \/ (at[a] = "started" /\ at'[a] = "idle" /\ t = a)
        /\ \A v \in Uploads : v = u \/ at'[v] = at[v] \/ (at[v] = "calling" /\ at'[v] = "called" /\ t = v)
    BY <2>1, KindFacts
  <2>4. ThreadInv'
    BY <2>2, <2>3 DEF ThreadInv
  <2>5. ASSUME NEW a \in Apps, at[a] \in {"final", "freed"}
        PROVE  FALSE
    <3>1. /\ \A b \in Apps \ {a} : at[b] = "idle"
          /\ \A w \in Workers : at[w] \in {"off", "ended"}
          /\ \A v \in Uploads : at[v] \in {"off", "marked"}
      BY <2>5 DEF EndInv
    <3>2. t \in Apps => FALSE
      BY <2>1, <2>5, <3>1
    <3>3. t \in Workers => FALSE
      BY <2>1, <3>1
    <3>4. t \in Uploads => FALSE
      BY <2>1, <3>1
    <3> QED
      BY <3>2, <3>3, <3>4, KindFacts
  <2>6. EndInv'
    <3> SUFFICES ASSUME NEW a \in Apps, at'[a] \notin {"idle", "starting", "started"}
                 PROVE  /\ \A b \in Apps \ {a} : at'[b] = "idle"
                        /\ at'[a] # "join" => \A w \in Workers : at'[w] \in {"off", "ended"}
                        /\ at'[a] \notin {"final", "freed"}
      BY DEF EndInv
    <3>1. at'[a] = at[a]
      BY <2>3
    <3>2. /\ \A b \in Apps \ {a} : at[b] = "idle"
          /\ at[a] # "join" => \A w \in Workers : at[w] \in {"off", "ended"}
      BY <3>1 DEF EndInv
    <3> QED
      BY <2>3, <2>5, <3>1, <3>2
  <2> QED
    BY <2>4, <2>6
<1>6. ASSUME NEW i \in Items, SavesReport(i)
      PROVE  ThreadInv' /\ EndInv'
  <2>1. UNCHANGED <<at, ThreadHandle, LockHandle, httpWorkerThreadInfoList>> /\ inLL # {}
    BY <1>6 DEF SavesReport, threadVars
  <2>2. ThreadInv'
    BY <2>1 DEF ThreadInv
  <2>3. \A a \in Apps : at[a] \notin {"final", "freed"}
    BY <2>1 DEF EndInv
  <2>4. EndInv'
    BY <2>1, <2>3 DEF EndInv
  <2> QED
    BY <2>2, <2>4
<1>7. ASSUME NEW w \in Workers, NEW k \in Kinds, SavesInbound(w, k)
      PROVE  ThreadInv' /\ EndInv'
  <2>1. UNCHANGED <<at, ThreadHandle, LockHandle, httpWorkerThreadInfoList>> /\ at[w] = "work"
    BY <1>7 DEF SavesInbound, threadVars
  <2>2. ThreadInv'
    BY <2>1 DEF ThreadInv
  <2>3. \A a \in Apps : at[a] \in {"idle", "starting", "started", "join"}
    BY <2>1 DEF EndInv
  <2>4. EndInv'
    BY <2>1, <2>3 DEF EndInv
  <2> QED
    BY <2>2, <2>4
<1>8. ASSUME NEW w \in Workers, \/ WorkerLocks(w) \/ EndOfWork(w) \/ CopyCallbacks(w)
                                \/ dispatch_user_callbacks(w) \/ CallbackReturns(w) \/ EndOfBatch(w)
      PROVE  ThreadInv' /\ EndInv'
  <2>1. /\ at[w] \notin {"off", "ended"} /\ ThreadHandle' = ThreadHandle
        /\ \/ at' = at
           \/ \E p \in WorkerPlaces \ {"off"} : at' = [at EXCEPT ![w] = p]
        /\ \/ httpWorkerThreadInfoList' = httpWorkerThreadInfoList
           \/ httpWorkerThreadInfoList' = httpWorkerThreadInfoList \ Collectable
    BY <1>8 DEF WorkerLocks, EndOfWork, CopyCallbacks, dispatch_user_callbacks, CallbackReturns,
                EndOfBatch, WorkerPlaces
  <2>2. /\ \A v \in Workers : v # w => at'[v] = at[v]
        /\ at'[w] # "off"
        /\ \A u \in Uploads : at'[u] = at[u]
        /\ \A b \in Apps : at'[b] = at[b]
    <3>1. CASE at' = at
      BY <2>1, <3>1
    <3>2. ASSUME NEW p \in WorkerPlaces \ {"off"}, at' = [at EXCEPT ![w] = p]
          PROVE  /\ at'[w] = p /\ \A s \in Threads : s # w => at'[s] = at[s]
      BY <3>2, GoesOn, KindFacts
    <3> QED
      BY <2>1, <3>1, <3>2, KindFacts
  <2>3. \A u \in Collectable : at[u] = "marked"
    BY DEF Collectable
  <2>4. ThreadInv'
    BY <2>1, <2>2, <2>3 DEF ThreadInv
  <2>5. \A a \in Apps : at[a] \in {"idle", "starting", "started", "join"}
    BY <2>1 DEF EndInv
  <2>6. EndInv'
    BY <2>2, <2>5 DEF EndInv
  <2> QED
    BY <2>4, <2>6
<1>9. ASSUME NEW u \in Uploads, NEW m \in UploadMoves, UploadGoes(u, m[1], m[2])
      PROVE  ThreadInv' /\ EndInv'
  <2>1. /\ at[u] \notin {"off", "marked"} /\ at' = [at EXCEPT ![u] = m[2]]
        /\ UNCHANGED <<ThreadHandle, httpWorkerThreadInfoList, LockHandle>>
    BY <1>9 DEF UploadGoes, UploadMoves
  <2>2. \A s \in Threads : s # u => at'[s] = at[s]
    BY <2>1, GoesOn, KindFacts
  <2>3. /\ \A v \in Workers : at'[v] = at[v]
        /\ \A v \in Uploads : v = u \/ at'[v] = at[v]
        /\ \A b \in Apps : at'[b] = at[b]
    BY <2>2, KindFacts
  <2>4. ThreadInv'
    BY <2>1, <2>3 DEF ThreadInv
  <2>5. \A a \in Apps : at[a] \notin {"final", "freed"}
    BY <2>1 DEF EndInv
  <2>6. EndInv'
    BY <2>3, <2>5 DEF EndInv
  <2> QED
    BY <2>4, <2>6
<1>10. ASSUME NEW a \in Apps, DestroySignals(a)
       PROVE  ThreadInv' /\ EndInv'
  <2>1. /\ \A b \in Apps : at[b] = "idle"
        /\ at' = [at EXCEPT ![a] = IF ThreadHandle = "none" THEN "relock" ELSE "join"]
        /\ UNCHANGED <<ThreadHandle, httpWorkerThreadInfoList>>
    BY <1>10 DEF DestroySignals
  <2>2. /\ at'[a] = IF ThreadHandle = "none" THEN "relock" ELSE "join"
        /\ \A s \in Threads : s # a => at'[s] = at[s]
    BY <2>1, GoesOn, KindFacts
  <2>3. /\ \A v \in Workers : at'[v] = at[v]
        /\ \A v \in Uploads : at'[v] = at[v]
        /\ \A b \in Apps : b # a => at'[b] = "idle"
    BY <2>1, <2>2, KindFacts
  <2>4. ThreadInv'
    BY <2>1, <2>2, <2>3 DEF ThreadInv
  <2>5. ThreadHandle = "none" => \A v \in Workers : at[v] = "off"
    BY DEF ThreadInv
  <2>6. EndInv'
    BY <2>2, <2>3, <2>5 DEF EndInv
  <2> QED
    BY <2>4, <2>6
<1>11. ASSUME NEW a \in Apps, DestroyJoins(a)
       PROVE  ThreadInv' /\ EndInv'
  <2>1. /\ at[a] = "join" /\ at[ThreadHandle] = "ended"
        /\ at' = [at EXCEPT ![a] = "relock"]
        /\ UNCHANGED <<ThreadHandle, httpWorkerThreadInfoList>>
    BY <1>11 DEF DestroyJoins
  <2>2. at'[a] = "relock" /\ \A s \in Threads : s # a => at'[s] = at[s]
    BY <2>1, GoesOn, KindFacts
  <2>3. /\ \A v \in Workers : at'[v] = at[v]
        /\ \A v \in Uploads : at'[v] = at[v]
        /\ \A b \in Apps : b # a => at'[b] = at[b]
    BY <2>2, KindFacts
  <2>4. ThreadInv'
    BY <2>1, <2>2, <2>3 DEF ThreadInv
  <2>5. ThreadHandle # "none" /\ \A v \in Workers : at[v] \in {"off", "ended"}
    BY <2>1 DEF ThreadInv
  <2>6. \A b \in Apps \ {a} : at[b] = "idle"
    BY <2>1 DEF EndInv
  <2>7. EndInv'
    BY <2>2, <2>3, <2>5, <2>6 DEF EndInv
  <2> QED
    BY <2>4, <2>7
<1>12. ASSUME NEW a \in Apps, DestroyLocks(a)
       PROVE  ThreadInv' /\ EndInv'
  <2>1. /\ at[a] = "relock" /\ at' = [at EXCEPT ![a] = "drain"]
        /\ UNCHANGED <<ThreadHandle, httpWorkerThreadInfoList>>
    BY <1>12 DEF DestroyLocks
  <2>2. at'[a] = "drain" /\ \A s \in Threads : s # a => at'[s] = at[s]
    BY <2>1, GoesOn, KindFacts
  <2>3. /\ \A v \in Workers : at'[v] = at[v]
        /\ \A v \in Uploads : at'[v] = at[v]
        /\ \A b \in Apps : b # a => at'[b] = at[b]
    BY <2>2, KindFacts
  <2>4. ThreadInv'
    BY <2>1, <2>2, <2>3 DEF ThreadInv
  <2>5. /\ \A b \in Apps \ {a} : at[b] = "idle"
        /\ \A v \in Workers : at[v] \in {"off", "ended"}
    BY <2>1 DEF EndInv
  <2>6. EndInv'
    BY <2>2, <2>3, <2>5 DEF EndInv
  <2> QED
    BY <2>4, <2>6
<1>13. ASSUME NEW a \in Apps, DestroyCollects(a)
       PROVE  ThreadInv' /\ EndInv'
  <2>1. /\ httpWorkerThreadInfoList' = httpWorkerThreadInfoList \ Collectable
        /\ UNCHANGED <<at, ThreadHandle, LockHandle, inLL, saved_user_callback_list>>
    BY <1>13 DEF DestroyCollects
  <2>2. \A u \in Collectable : at[u] = "marked"
    BY DEF Collectable
  <2>3. ThreadInv'
    BY <2>1, <2>2 DEF ThreadInv
  <2>4. EndInv'
    BY <2>1 DEF EndInv
  <2> QED
    BY <2>3, <2>4
<1>14. ASSUME NEW a \in Apps, DestroyUnlocks(a)
       PROVE  ThreadInv' /\ EndInv'
  <2>1. /\ at[a] = "drain" /\ at' = [at EXCEPT ![a] = "final"]
        /\ httpWorkerThreadInfoList = {} /\ inLL = {} /\ LockHandle' = "free"
        /\ UNCHANGED <<ThreadHandle, httpWorkerThreadInfoList, inLL>>
    BY <1>14 DEF DestroyUnlocks
  <2>2. at'[a] = "final" /\ \A s \in Threads : s # a => at'[s] = at[s]
    BY <2>1, GoesOn, KindFacts
  <2>3. /\ \A v \in Workers : at'[v] = at[v]
        /\ \A v \in Uploads : at'[v] = at[v]
        /\ \A b \in Apps : b # a => at'[b] = at[b]
    BY <2>2, KindFacts
  <2>4. ThreadInv'
    BY <2>1, <2>2, <2>3 DEF ThreadInv
  <2>5. /\ \A b \in Apps \ {a} : at[b] = "idle"
        /\ \A v \in Workers : at[v] \in {"off", "ended"}
    BY <2>1 DEF EndInv
  <2>6. \A u \in Uploads : at[u] \in {"off", "marked"}
    BY <2>1 DEF ThreadInv
  <2>7. EndInv'
    BY <2>1, <2>2, <2>3, <2>5, <2>6 DEF EndInv
  <2> QED
    BY <2>4, <2>7
<1>15. ASSUME NEW a \in Apps, DestroyDispatches(a)
       PROVE  ThreadInv' /\ EndInv'
  <2>1. /\ at[a] = "final"
        /\ UNCHANGED <<at, ThreadHandle, LockHandle, inLL, httpWorkerThreadInfoList>>
    BY <1>15 DEF DestroyDispatches, threadVars
  <2>2. ThreadInv'
    BY <2>1 DEF ThreadInv
  <2>3. \A b \in Apps : at[b] # "freed"
    BY <2>1 DEF EndInv
  <2>4. EndInv'
    BY <2>1, <2>3 DEF EndInv
  <2> QED
    BY <2>2, <2>4
<1>16. ASSUME NEW a \in Apps, DestroyFrees(a)
       PROVE  ThreadInv' /\ EndInv'
  <2>1. /\ at[a] = "final" /\ at' = [at EXCEPT ![a] = "freed"]
        /\ saved_user_callback_list = <<>>
        /\ UNCHANGED <<ThreadHandle, httpWorkerThreadInfoList, inLL, LockHandle,
                       saved_user_callback_list>>
    BY <1>16 DEF DestroyFrees
  <2>2. at'[a] = "freed" /\ \A s \in Threads : s # a => at'[s] = at[s]
    BY <2>1, GoesOn, KindFacts
  <2>3. /\ \A v \in Workers : at'[v] = at[v]
        /\ \A v \in Uploads : at'[v] = at[v]
        /\ \A b \in Apps : b # a => at'[b] = at[b]
    BY <2>2, KindFacts
  <2>4. ThreadInv'
    BY <2>1, <2>2, <2>3 DEF ThreadInv
  <2>5. /\ \A b \in Apps \ {a} : at[b] = "idle"
        /\ \A v \in Workers : at[v] \in {"off", "ended"}
        /\ inLL = {} /\ LockHandle = "free" /\ \A u \in Uploads : at[u] \in {"off", "marked"}
    BY <2>1 DEF EndInv
  <2>6. EndInv'
    BY <2>1, <2>2, <2>3, <2>5 DEF EndInv
  <2> QED
    BY <2>4, <2>6
<1> QED
  BY <1>1, <1>2, <1>3, <1>4, <1>5, <1>6, <1>7, <1>8, <1>9, <1>10, <1>11, <1>12, <1>13, <1>14, <1>15,
     <1>16, CoreCases

-----------------------------------------------------------------------------
(* What a step does to the batch and the line *)

\* A step that leaves the batches, what is saved and the callbacks that run as they are; a
\* worker that begins has no batch yet.
Quiet ==
  /\ UNCHANGED <<callbacks, saved_user_callback_list>>
  /\ \/ ThreadHandle' = ThreadHandle
     \/ ThreadHandle = "none" /\ ThreadHandle' \in Workers /\ at[ThreadHandle'] = "off"
  /\ \A w \in Workers : /\ at'[w] = "callback" <=> at[w] = "callback"
                        /\ at'[w] \in {"copy", "dispatch"} <=> at[w] \in {"copy", "dispatch"}

\* What a step may do to the line: nothing; the lower layer accepts an item; the report on an
\* item, or something received, is put at the end; the first entry is taken, and told or dropped.
LineStays ==
  /\ Line' = Line /\ UNCHANGED <<inLL, unconfirmed, disorder>>
  /\ \A i \in Items : done'[i] = done[i]
LineAccepts(i) ==
  /\ Line' = Line /\ UNCHANGED <<unconfirmed, disorder>>
  /\ done[i] = "new" /\ inLL' = inLL \cup {i}
  /\ done' = [done EXCEPT ![i] = "held"]
LineReports(i) ==
  /\ UNCHANGED <<done, disorder>>
  /\ i \in inLL /\ inLL' = inLL \ {i}
  /\ Line' = Append(Line, Saved(i, "item", 0))
  /\ unconfirmed' = IF i \in Confirmable THEN Append(unconfirmed, i) ELSE unconfirmed
LineReceives(e) ==
  /\ UNCHANGED <<inLL, unconfirmed, disorder>>
  /\ e.of \notin Items /\ Line' = Append(Line, e)
  /\ \A i \in Items : done'[i] = done[i]
LineAdvances(i) ==
  /\ Line # <<>> /\ i = Head(Line).of /\ Line' = Tail(Line) /\ inLL' = inLL
  /\ Confirms(i)
  /\ \A j \in Items : j # i => done'[j] = done[j]
  /\ i \in Items => done'[i] \in {"told", "dropped"}
  /\ i \in Confirmable => done'[i] = "told"

LineSteps ==
  \/ LineStays
  \/ \E i \in Items : LineAccepts(i)
  \/ \E i \in Items : LineReports(i)
  \/ \E e \in Entries : LineReceives(e)
  \/ \E i \in Items \cup Inbound : LineAdvances(i)

\* The line is a list of entries.
LEMMA LineTypes ==
  ASSUME CoreTypeOK, ListTypes, BatchInv
  PROVE  /\ Line \in Seq(Entries)
         /\ \A w \in Workers : Rest(w) \in Seq(Entries)
<1>1. ASSUME NEW w \in Workers
      PROVE  Rest(w) \in Seq(Entries)
  <2>1. callbacks[w] \in Seq(Entries) /\ (at[w] = "callback" => callbacks[w] # <<>>)
    BY DEF ListTypes, BatchInv
  <2> QED
    BY <2>1, HeadTailProperties DEF Rest
<1>2. saved_user_callback_list \in Seq(Entries) /\ ThreadHandle \in Workers \cup {"none"}
  BY DEF ListTypes, CoreTypeOK
<1>3. ThreadHandle = "none" => Line \in Seq(Entries)
  BY <1>2 DEF Line
<1>4. ASSUME ThreadHandle # "none"
      PROVE  Line \in Seq(Entries)
  <2>1. Rest(ThreadHandle) \in Seq(Entries)
    BY <1>1, <1>2, <1>4
  <2>2. Rest(ThreadHandle) \o saved_user_callback_list \in Seq(Entries)
    BY <1>2, <2>1, ConcatElements
  <2> QED
    BY <1>4, <2>2 DEF Line
<1> QED
  BY <1>1, <1>3, <1>4

\* Workers that are not in a batch have nothing in the line.
LEMMA LineIsSaved ==
  ASSUME CoreTypeOK, ListTypes, BatchInv,
         \A w \in Workers : at[w] \notin {"copy", "dispatch", "callback"}
  PROVE  Line = saved_user_callback_list
<1>1. saved_user_callback_list \in Seq(Entries) /\ ThreadHandle \in Workers \cup {"none"}
  BY DEF ListTypes, CoreTypeOK
<1>2. CASE ThreadHandle = "none"
  BY <1>2 DEF Line
<1>3. CASE ThreadHandle \in Workers
  <2>1. Rest(ThreadHandle) = <<>>
    BY <1>3 DEF Rest, BatchInv
  <2>2. <<>> \o saved_user_callback_list = saved_user_callback_list
    BY <1>1, ConcatEmptySeq
  <2>3. ThreadHandle # "none"
    BY <1>3, KindFacts
  <2> QED
    BY <2>1, <2>2, <2>3 DEF Line
<1> QED
  BY <1>1, <1>2, <1>3

\* A quiet step keeps the line.
LEMMA QuietKeeps ==
  ASSUME CoreTypeOK, ListTypes, BatchInv, ThreadInv, Quiet
  PROVE  Line' = Line /\ BatchInv'
<1>1. BatchInv'
  BY DEF Quiet, BatchInv
<1>2. \A w \in Workers : Rest(w)' = Rest(w)
  BY DEF Quiet, Rest
<1>3. CASE ThreadHandle' = ThreadHandle
  <2>1. ThreadHandle # "none" => Rest(ThreadHandle)' = Rest(ThreadHandle)
    BY <1>3 DEF Quiet, Rest, CoreTypeOK
  <2> QED
    BY <1>1, <1>3, <2>1 DEF Line, Quiet
<1>4. CASE ThreadHandle = "none" /\ ThreadHandle' \in Workers /\ at[ThreadHandle'] = "off"
  <2>1. callbacks[ThreadHandle'] = <<>>
    BY <1>4 DEF BatchInv
  <2>2. Rest(ThreadHandle)' = <<>>
    BY <1>4, <2>1 DEF Quiet, Rest
  <2>3. <<>> \o saved_user_callback_list = saved_user_callback_list
    BY ConcatEmptySeq DEF ListTypes
  <2>4. ThreadHandle' # "none"
    BY <1>4, KindFacts
  <2> QED
    BY <1>1, <1>4, <2>2, <2>3, <2>4 DEF Line, Quiet
<1> QED
  BY <1>3, <1>4 DEF Quiet

\* What is saved goes to the end of the line.
LEMMA SavingAppends ==
  ASSUME CoreTypeOK, ListTypes, BatchInv, NEW e \in Entries,
         saved_user_callback_list' = Append(saved_user_callback_list, e),
         UNCHANGED <<at, ThreadHandle, callbacks>>
  PROVE  Line' = Append(Line, e) /\ BatchInv'
<1>1. /\ saved_user_callback_list \in Seq(Entries)
      /\ ThreadHandle # "none" => Rest(ThreadHandle) \in Seq(Entries)
  BY LineTypes DEF ListTypes, CoreTypeOK
<1>2. ThreadHandle' = ThreadHandle /\ Rest(ThreadHandle)' = Rest(ThreadHandle)
  BY DEF Rest
<1>3. ThreadHandle = "none" => Line' = Append(Line, e)
  BY <1>2 DEF Line
<1>4. ASSUME ThreadHandle # "none"
      PROVE  Line' = Append(Line, e)
  <2>1. Rest(ThreadHandle) \o Append(saved_user_callback_list, e)
          = Append(Rest(ThreadHandle) \o saved_user_callback_list, e)
    BY <1>1, <1>4, ConcatAppend
  <2> QED
    BY <1>2, <1>4, <2>1 DEF Line
<1> QED
  BY <1>3, <1>4 DEF BatchInv

\* The first of a list that is followed by another one.
LEMMA HeadOfConcat ==
  ASSUME NEW S, NEW s \in Seq(S), NEW t \in Seq(S), s # <<>>
  PROVE  s \o t # <<>> /\ Head(s \o t) = Head(s) /\ Tail(s \o t) = Tail(s) \o t
<1>1. 1 \in 1..Len(s) /\ Head(s) = s[1] /\ Tail(s) = RemoveAt(s, 1)
  BY TailIsRemoveAt
<1>2. s \o t \in Seq(S) /\ (s \o t)[1] = s[1] /\ Len(s \o t) = Len(s) + Len(t)
      /\ Len(s) \in Nat /\ Len(t) \in Nat
  BY <1>1, ConcatElements
<1>3. s \o t # <<>>
  BY <1>1, <1>2, EmptySeq
<1>4. Head(s \o t) = (s \o t)[1] /\ Tail(s \o t) = RemoveAt(s \o t, 1)
  BY <1>2, <1>3, TailIsRemoveAt
<1>5. RemoveAt(s, 1) \o t = RemoveAt(s \o t, 1)
  BY <1>1, ConcatRemoveAt
<1> QED
  BY <1>1, <1>2, <1>3, <1>4, <1>5

\* What the steps do to the line keeps its accounting and its order.
LEMMA LineKept ==
  ASSUME CoreTypeOK, ListTypes, BatchInv, ItemsInv, OrderInv, CoreTypeOK', LineSteps
  PROVE  ItemsInv' /\ OrderInv'
<1>1. Line \in Seq(Entries) /\ unconfirmed \in Seq(Confirmable) /\ Matches(Line, unconfirmed) /\ ~disorder
  BY LineTypes DEF ListTypes, OrderInv
<1>2. /\ done \in [Items \cup Inbound -> {"new", "held", "told", "dropped", "twice"}]
      /\ done' \in [Items \cup Inbound -> {"new", "held", "told", "dropped", "twice"}]
      /\ inLL \subseteq Items
  BY DEF CoreTypeOK
<1>3. Confirmable \subseteq Items
  BY KindFacts
<1>4. /\ \A i \in inLL : done[i] = "held"
      /\ \A n \in DOMAIN Line : Line[n].of \in Items => done[Line[n].of] = "held" /\ Line[n].of \notin inLL
      /\ \A i \in Items : done[i] = "held" => i \in inLL \/ \E n \in DOMAIN Line : Line[n].of = i
      /\ \A i \in Confirmable : done[i] \in {"new", "held", "told"}
      /\ \A i \in Items : done[i] # "twice"
  BY DEF ItemsInv
<1>5. CASE LineStays
  <2>1. /\ Line' = Line /\ inLL' = inLL /\ unconfirmed' = unconfirmed /\ disorder' = disorder
        /\ \A i \in Items : done'[i] = done[i]
    BY <1>5 DEF LineStays
  <2>2. OrderInv'
    BY <1>1, <2>1 DEF OrderInv
  <2>3. ItemsInv'
    BY <1>2, <1>3, <1>4, <2>1 DEF ItemsInv
  <2> QED
    BY <2>2, <2>3
<1>6. ASSUME NEW i \in Items, LineAccepts(i)
      PROVE  ItemsInv' /\ OrderInv'
  <2>1. /\ Line' = Line /\ inLL' = inLL \cup {i} /\ unconfirmed' = unconfirmed /\ disorder' = disorder
        /\ done[i] = "new" /\ done' = [done EXCEPT ![i] = "held"]
    BY <1>6 DEF LineAccepts
  <2>2. OrderInv'
    BY <1>1, <2>1 DEF OrderInv
  <2>3. done'[i] = "held" /\ \A j \in Items : j # i => done'[j] = done[j]
    BY <1>2, <2>1
  <2>4. \A n \in DOMAIN Line : Line[n].of \in Items => Line[n].of # i
    BY <1>4, <2>1
  <2>5. ItemsInv'
    BY <1>2, <1>3, <1>4, <2>1, <2>3, <2>4 DEF ItemsInv
  <2> QED
    BY <2>2, <2>5
<1>7. ASSUME NEW i \in Items, LineReports(i)
      PROVE  ItemsInv' /\ OrderInv'
  <2> DEFINE e == Saved(i, "item", 0)
  <2>1. /\ i \in inLL /\ inLL' = inLL \ {i} /\ Line' = Append(Line, e)
        /\ unconfirmed' = IF i \in Confirmable THEN Append(unconfirmed, i) ELSE unconfirmed
        /\ done' = done /\ disorder' = disorder
    BY <1>7 DEF LineReports
  <2>2. e \in Entries /\ e.of = i
    BY SavedEntry
  <2>3. \A n \in DOMAIN Line : Line[n].of # i
    BY <1>4, <2>1
  <2> HIDE DEF e
  <2>4. Matches(Append(Line, e), IF e.of \in Confirmable THEN Append(unconfirmed, e.of) ELSE unconfirmed)
    BY <1>1, <2>2, <2>3, LineGrows
  <2>5. OrderInv'
    BY <1>1, <2>1, <2>2, <2>4 DEF OrderInv
  <2>6. /\ DOMAIN Line = 1..Len(Line) /\ DOMAIN Line' = 1..(Len(Line) + 1) /\ Len(Line) \in Nat
        /\ \A n \in 1..Len(Line) : Line'[n] = Line[n]
        /\ Line'[Len(Line) + 1] = e
    BY <1>1, <2>1, <2>2, AppendElements
  <2>7. /\ \A n \in DOMAIN Line' : (n \in DOMAIN Line /\ Line'[n] = Line[n]) \/ Line'[n] = e
        /\ \A n \in DOMAIN Line : n \in DOMAIN Line' /\ Line'[n] = Line[n]
        /\ \E n \in DOMAIN Line' : Line'[n] = e
    BY <2>6
  <2>8. \A n \in DOMAIN Line' : Line'[n].of \in Items => done[Line'[n].of] = "held" /\ Line'[n].of \notin inLL \ {i}
    BY <1>4, <2>1, <2>2, <2>7
  <2>9. \A j \in Items : done[j] = "held" => j \in inLL \ {i} \/ \E n \in DOMAIN Line' : Line'[n].of = j
    BY <1>4, <2>2, <2>7
  <2>10. ItemsInv'
    BY <1>4, <2>1, <2>8, <2>9 DEF ItemsInv
  <2> QED
    BY <2>5, <2>10
<1>8. ASSUME NEW e \in Entries, LineReceives(e)
      PROVE  ItemsInv' /\ OrderInv'
  <2>1. /\ e.of \notin Items /\ inLL' = inLL /\ Line' = Append(Line, e)
        /\ unconfirmed' = unconfirmed /\ disorder' = disorder
        /\ \A i \in Items : done'[i] = done[i]
    BY <1>8 DEF LineReceives
  <2>2. e.of \notin Confirmable
    BY <1>3, <2>1
  <2>4. Matches(Append(Line, e), IF e.of \in Confirmable THEN Append(unconfirmed, e.of) ELSE unconfirmed)
    BY <1>1, <2>1, LineGrows
  <2>5. OrderInv'
    BY <1>1, <2>1, <2>2, <2>4 DEF OrderInv
  <2>6. /\ DOMAIN Line = 1..Len(Line) /\ DOMAIN Line' = 1..(Len(Line) + 1) /\ Len(Line) \in Nat
        /\ \A n \in 1..Len(Line) : Line'[n] = Line[n]
        /\ Line'[Len(Line) + 1] = e
    BY <1>1, <2>1, AppendElements
  <2>7. /\ \A n \in DOMAIN Line' : (n \in DOMAIN Line /\ Line'[n] = Line[n]) \/ Line'[n] = e
        /\ \A n \in DOMAIN Line : n \in DOMAIN Line' /\ Line'[n] = Line[n]
    BY <2>6
  <2>8. \A n \in DOMAIN Line' : Line'[n].of \in Items => done'[Line'[n].of] = "held" /\ Line'[n].of \notin inLL
    BY <1>4, <2>1, <2>7
  <2>9. \A j \in Items : done'[j] = "held" => j \in inLL \/ \E n \in DOMAIN Line' : Line'[n].of = j
    BY <1>4, <2>1, <2>7
  <2>10. ItemsInv'
    BY <1>2, <1>3, <1>4, <2>1, <2>8, <2>9 DEF ItemsInv
  <2> QED
    BY <2>5, <2>10
<1>9. ASSUME NEW i \in Items \cup Inbound, LineAdvances(i)
      PROVE  ItemsInv' /\ OrderInv'
  <2>1. /\ Line # <<>> /\ i = Head(Line).of /\ Line' = Tail(Line) /\ inLL' = inLL
        /\ Confirms(i)
        /\ \A j \in Items : j # i => done'[j] = done[j]
        /\ i \in Items => done'[i] \in {"told", "dropped"}
        /\ i \in Confirmable => done'[i] = "told"
    BY <1>9 DEF LineAdvances
  <2>2. /\ i \in Confirmable => /\ unconfirmed # <<>> /\ i = Head(unconfirmed)
                                /\ Matches(Tail(Line), Tail(unconfirmed))
        /\ i \notin Confirmable => Matches(Tail(Line), unconfirmed)
        /\ \A n \in DOMAIN Tail(Line) : i \in Items => Tail(Line)[n].of # i
    BY <1>1, <2>1, LineShrinks
  <2>3. OrderInv'
    BY <1>1, <2>1, <2>2 DEF OrderInv, Confirms, history
  <2>4. /\ Len(Line) \in Nat /\ DOMAIN Line = 1..Len(Line) /\ DOMAIN Line' = 1..(Len(Line) - 1)
        /\ \A n \in 1..(Len(Line) - 1) : Line'[n] = Line[n + 1]
        /\ Head(Line) = Line[1]
    BY <1>1, <2>1, TailElements
  <2>5. /\ \A n \in DOMAIN Line' : n + 1 \in DOMAIN Line /\ Line'[n] = Line[n + 1]
        /\ \A n \in DOMAIN Line : n # 1 => n - 1 \in DOMAIN Line' /\ Line'[n - 1] = Line[n]
    BY <2>4
  <2>6. \A n \in DOMAIN Line' : Line'[n].of \in Items => done'[Line'[n].of] = "held" /\ Line'[n].of \notin inLL
    BY <1>4, <2>1, <2>2, <2>5
  <2>7. \A j \in Items : done'[j] = "held" => j \in inLL \/ \E n \in DOMAIN Line' : Line'[n].of = j
    <3> SUFFICES ASSUME NEW j \in Items, done'[j] = "held", j \notin inLL
                 PROVE  \E n \in DOMAIN Line' : Line'[n].of = j
      OBVIOUS
    <3>1. j # i /\ done[j] = "held"
      BY <2>1
    <3>2. PICK n \in DOMAIN Line : Line[n].of = j
      BY <1>4, <3>1
    <3>3. n # 1
      BY <2>1, <2>4, <3>1, <3>2
    <3> QED
      BY <2>5, <3>2, <3>3
  <2>8. \A j \in Items : done'[j] # "twice" /\ (j \in Confirmable => done'[j] \in {"new", "held", "told"})
    BY <1>4, <2>1
  <2>9. \A j \in inLL : done'[j] = "held"
    <3>1. i \notin inLL
      <4>1. 1 \in DOMAIN Line /\ Line[1].of = i
        BY <2>1, <2>4, EmptySeq, <1>1
      <4> QED
        BY <1>2, <1>4, <4>1
    <3> QED
      BY <1>2, <1>4, <2>1, <3>1
  <2>10. ItemsInv'
    BY <1>3, <2>1, <2>6, <2>7, <2>8, <2>9 DEF ItemsInv
  <2> QED
    BY <2>3, <2>10
<1> QED
  BY <1>5, <1>6, <1>7, <1>8, <1>9 DEF LineSteps

\* What the steps of the client do to its batches and its line.
LEMMA LineOfStep ==
  ASSUME CoreTypeOK, PlaceTypes, SettingTypes, ListTypes, ThreadInv, EndInv, BatchInv, ItemsInv,
         CoreNext
  PROVE  BatchInv' /\ LineSteps
<1>1. ASSUME Quiet, UNCHANGED <<inLL, done, unconfirmed, disorder>>
      PROVE  BatchInv' /\ LineSteps
  BY <1>1, QuietKeeps DEF LineSteps, LineStays
<1>2. ASSUME NEW a \in Apps, StartWorkerThreadIfNeeded(a)
      PROVE  BatchInv' /\ LineSteps
  <2>1. /\ UNCHANGED <<callbacks, saved_user_callback_list, ThreadHandle, inLL, done, unconfirmed, disorder>>
        /\ at' = [at EXCEPT ![a] = IF ThreadHandle = "none" THEN "starting" ELSE "started"]
    BY <1>2 DEF StartWorkerThreadIfNeeded, dispatchVars, history
  <2>2. \A w \in Workers : at'[w] = at[w]
    BY <2>1, GoesOn, KindFacts
  <2> QED
    BY <1>1, <2>1, <2>2 DEF Quiet
<1>3. ASSUME NEW a \in Apps, CreateWorker(a)
      PROVE  BatchInv' /\ LineSteps
  <2>1. PICK w \in Workers :
           /\ at[w] = "off" /\ at'[w] = "loop" /\ at[a] = "starting" /\ at'[a] = "started"
           /\ \A s \in Threads : s # a /\ s # w => at'[s] = at[s]
           /\ at' \in [Threads -> Places] /\ ThreadHandle' = w
    BY <1>3, WorkerBegins
  <2>2. ThreadHandle = "none"
    BY <2>1 DEF ThreadInv
  <2>3. \A v \in Workers : v # w => at'[v] = at[v]
    BY <2>1, KindFacts
  <2>4. UNCHANGED <<callbacks, saved_user_callback_list, inLL, done, unconfirmed, disorder>>
    BY <1>3 DEF CreateWorker, dispatchVars, history
  <2> QED
    BY <1>1, <2>1, <2>2, <2>3, <2>4 DEF Quiet
<1>4. ASSUME NEW t \in Threads, Calls(t), Returns(t), UNCHANGED <<ThreadHandle, callbacks, saved_user_callback_list>>
      PROVE  Quiet
  <2>1. /\ \A s \in Threads : s # t => at'[s] = at[s]
        /\ t \in Workers => at'[t] = at[t]
    BY <1>4, CallReturns
  <2>2. \A w \in Workers : at'[w] = at[w]
    BY <2>1, KindFacts
  <2> QED
    BY <1>4, <2>2 DEF Quiet
<1>5. ASSUME NEW a \in Apps, SetStep(a)
      PROVE  BatchInv' /\ LineSteps
  <2>1. /\ Calls(a) /\ Returns(a)
        /\ UNCHANGED <<ThreadHandle, saved_user_callback_list, callbacks, inLL, done, unconfirmed, disorder>>
    BY <1>5, SetStepIsCall
  <2> QED
    BY <1>1, <1>4, <2>1, KindFacts
<1>6. ASSUME NEW t \in Threads, NEW i \in Items, Accepts(t, i)
      PROVE  BatchInv' /\ LineSteps
  <2>1. /\ Calls(t) /\ Returns(t)
        /\ UNCHANGED <<ThreadHandle, saved_user_callback_list, callbacks, unconfirmed, disorder>>
        /\ done[i] = "new" /\ inLL' = inLL \cup {i} /\ done' = [done EXCEPT ![i] = "held"]
    BY <1>6 DEF Accepts, Locked, dispatchVars, history
  <2>2. Line' = Line /\ BatchInv'
    BY <1>4, <2>1, QuietKeeps
  <2> QED
    BY <2>1, <2>2 DEF LineSteps, LineAccepts
<1>7. ASSUME NEW t \in Threads, NEW u \in Uploads, startHttpWorkerThread(t, u)
      PROVE  BatchInv' /\ LineSteps
  <2>1. /\ \A s \in Threads : s # t /\ s # u => at'[s] = at[s]
        /\ t \in Workers => at[t] = "callback" /\ at'[t] = "callback"
    BY <1>7, UploadBegins
  <2>2. \A w \in Workers : at'[w] = at[w]
    BY <2>1, KindFacts
  <2>3. UNCHANGED <<callbacks, saved_user_callback_list, ThreadHandle, inLL, done, unconfirmed, disorder>>
    BY <1>7 DEF startHttpWorkerThread, dispatchVars, history
  <2> QED
    BY <1>1, <2>2, <2>3 DEF Quiet
<1>8. ASSUME NEW i \in Items, SavesReport(i)
      PROVE  BatchInv' /\ LineSteps
  <2> DEFINE e == Saved(i, "item", 0)
  <2>1. /\ i \in inLL /\ inLL' = inLL \ {i}
        /\ saved_user_callback_list' = Append(saved_user_callback_list, e)
        /\ unconfirmed' = IF i \in Confirmable THEN Append(unconfirmed, i) ELSE unconfirmed
        /\ UNCHANGED <<at, ThreadHandle, callbacks, done, disorder>>
    BY <1>8 DEF SavesReport, threadVars, dispatchVars
  <2>2. e \in Entries
    BY SavedEntry
  <2>3. Line' = Append(Line, e) /\ BatchInv'
    BY <2>1, <2>2, SavingAppends
  <2> QED
    BY <2>1, <2>3 DEF LineSteps, LineReports
<1>9. ASSUME NEW w \in Workers, NEW k \in Kinds, SavesInbound(w, k)
      PROVE  BatchInv' /\ LineSteps
  <2>1. llContext[Slot(k)].ctx \in Nat
    BY DEF Slot, Slots, Kinds, SettingTypes
  <2>2. PICK i \in Inbound :
          /\ done' = [done EXCEPT ![i] = "held"]
          /\ saved_user_callback_list' =
               Append(saved_user_callback_list, Saved(i, k, llContext[Slot(k)].ctx))
    BY <1>9 DEF SavesInbound
  <2> DEFINE e == Saved(i, k, llContext[Slot(k)].ctx)
  <2>3. e \in Entries /\ e.of = i /\ i \notin Items
    <3>1. k # "item" /\ i \notin Items
      BY KindFacts DEF Kinds
    <3> QED
      BY <2>1, <3>1, SavedEntry
  <2>4. UNCHANGED <<at, ThreadHandle, callbacks, inLL, unconfirmed, disorder>>
    BY <1>9 DEF SavesInbound, threadVars, dispatchVars, history
  <2> HIDE DEF e
  <2>5. Line' = Append(Line, e) /\ BatchInv'
    BY <2>2, <2>3, <2>4, SavingAppends DEF e
  <2>6. \A j \in Items : done'[j] = done[j]
    BY <2>2, <2>3 DEF CoreTypeOK
  <2>7. LineReceives(e)
    BY <2>3, <2>4, <2>5, <2>6 DEF LineReceives
  <2> QED
    BY <2>3, <2>5, <2>7 DEF LineSteps
<1>10. ASSUME NEW w \in Workers, WorkerLocks(w)
       PROVE  BatchInv' /\ LineSteps
  <2>1. /\ at[w] = "loop"
        /\ at' = [at EXCEPT ![w] = "ended"] \/ at' = [at EXCEPT ![w] = "work"]
        /\ UNCHANGED <<callbacks, saved_user_callback_list, ThreadHandle, inLL, done, unconfirmed, disorder>>
    BY <1>10 DEF WorkerLocks, dispatchVars, history
  <2>2. at'[w] \in {"ended", "work"} /\ \A s \in Threads : s # w => at'[s] = at[s]
    BY <2>1, GoesOn, KindFacts
  <2>3. \A v \in Workers : v # w => at'[v] = at[v]
    BY <2>2, KindFacts
  <2> QED
    BY <1>1, <2>1, <2>2, <2>3 DEF Quiet
<1>11. ASSUME NEW w \in Workers, EndOfWork(w)
       PROVE  BatchInv' /\ LineSteps
  <2>1. /\ at[w] = "work" /\ at' = [at EXCEPT ![w] = "copy"]
        /\ callbacks' = [callbacks EXCEPT ![w] = saved_user_callback_list]
        /\ saved_user_callback_list' = <<>>
        /\ UNCHANGED <<ThreadHandle, inLL, done, unconfirmed, disorder>>
    BY <1>11 DEF EndOfWork, history
  <2>2. at'[w] = "copy" /\ \A s \in Threads : s # w => at'[s] = at[s]
    BY <2>1, GoesOn, KindFacts
  <2>3. \A v \in Workers : v # w => at'[v] = at[v]
    BY <2>2, KindFacts
  <2>4. ThreadHandle = w /\ ThreadHandle # "none" /\ \A v \in Workers : v # w => at[v] = "off"
    BY <2>1, KindFacts DEF ThreadInv
  <2>5. callbacks'[w] = saved_user_callback_list /\ \A v \in Workers : v # w => callbacks'[v] = callbacks[v]
    BY <2>1 DEF ListTypes
  <2>6. BatchInv'
    BY <2>2, <2>3, <2>5 DEF BatchInv
  <2>7. Line = saved_user_callback_list
    BY <2>1, <2>4, LineIsSaved
  <2>8. Rest(ThreadHandle)' = saved_user_callback_list
    BY <2>1, <2>2, <2>4, <2>5 DEF Rest
  <2>9. saved_user_callback_list \o <<>> = saved_user_callback_list
    BY ConcatEmptySeq DEF ListTypes
  <2>10. Line' = Line
    BY <2>1, <2>4, <2>7, <2>8, <2>9 DEF Line
  <2> QED
    BY <2>1, <2>6, <2>10 DEF LineSteps, LineStays
<1>12. ASSUME NEW w \in Workers, CopyCallbacks(w) \/ EndOfBatch(w)
       PROVE  BatchInv' /\ LineSteps
  <2>1. /\ at[w] \in {"copy", "dispatch"} /\ ThreadHandle' = ThreadHandle
        /\ \/ at' = [at EXCEPT ![w] = "dispatch"]
           \/ at' = [at EXCEPT ![w] = "loop"] /\ callbacks[w] = <<>>
        /\ UNCHANGED <<callbacks, saved_user_callback_list, inLL, done, unconfirmed, disorder>>
    BY <1>12 DEF CopyCallbacks, EndOfBatch, dispatchVars, history
  <2>2. /\ at'[w] \in {"dispatch", "loop"} /\ \A s \in Threads : s # w => at'[s] = at[s]
        /\ at'[w] = "loop" => callbacks[w] = <<>>
    BY <2>1, GoesOn, KindFacts
  <2>3. \A v \in Workers : v # w => at'[v] = at[v]
    BY <2>2, KindFacts
  <2>4. BatchInv'
    BY <2>1, <2>2, <2>3 DEF BatchInv
  <2>5. \A v \in Workers : Rest(v)' = Rest(v)
    BY <2>1, <2>2, <2>3 DEF Rest
  <2>6. ThreadHandle # "none" => Rest(ThreadHandle)' = Rest(ThreadHandle)
    BY <2>1, <2>2, <2>3 DEF Rest, CoreTypeOK
  <2>7. Line' = Line
    BY <2>1, <2>6 DEF Line
  <2> QED
    BY <2>1, <2>4, <2>7 DEF LineSteps, LineStays
<1>13. ASSUME NEW w \in Workers, at[w] # "off"
       PROVE  ThreadHandle = w /\ ThreadHandle # "none" /\ Line = Rest(w) \o saved_user_callback_list
  BY <1>13, KindFacts DEF ThreadInv, Line
<1>14. ASSUME NEW w \in Workers, dispatch_user_callbacks(w)
       PROVE  BatchInv' /\ LineSteps
  <2> DEFINE cb == Head(callbacks[w])
             i == cb.of
  <2>1. /\ at[w] = "dispatch" /\ callbacks[w] # <<>>
        /\ UNCHANGED <<ThreadHandle, saved_user_callback_list, inLL>>
    BY <1>14 DEF dispatch_user_callbacks
  <2>2. /\ callbacks[w] \in Seq(Entries) /\ saved_user_callback_list \in Seq(Entries)
        /\ cb \in Entries
    BY <2>1, HeadTailProperties DEF ListTypes
  <2>3. i \in Items \cup Inbound /\ (cb.type = "item" <=> i \in Items)
    BY <2>2 DEF Entries
  <2>4. ThreadHandle = w /\ ThreadHandle # "none" /\ Line = callbacks[w] \o saved_user_callback_list
    BY <1>13, <2>1 DEF Rest
  <2>5. Line # <<>> /\ Head(Line) = cb /\ Tail(Line) = Tail(callbacks[w]) \o saved_user_callback_list
    BY <2>1, <2>2, <2>4, HeadOfConcat
  <2> HIDE DEF cb, i
  <2>6. i \in Items => done[i] = "held"
    <3>1. Line \in Seq(Entries)
      BY LineTypes
    <3>2. 1 \in DOMAIN Line /\ Line[1] = cb
      BY <2>5, <3>1, TailIsRemoveAt, LenProperties
    <3> QED
      BY <3>2 DEF ItemsInv, i
  <2>7. ASSUME cb.type = "item" \/ copies[w][cb.type] # 0
        PROVE  BatchInv' /\ LineSteps
    <3>1. /\ at' = [at EXCEPT ![w] = "callback"] /\ callbacks' = callbacks
          /\ IF cb.type = "item"
             THEN /\ Confirms(i)
                  /\ done' = [done EXCEPT ![i] = IF @ = "held" THEN "told" ELSE "twice"]
             ELSE UNCHANGED <<history, done>>
      BY <1>14, <2>7 DEF dispatch_user_callbacks, cb, i
    <3>2. at'[w] = "callback" /\ \A s \in Threads : s # w => at'[s] = at[s]
      BY <3>1, GoesOn, KindFacts
    <3>3. \A v \in Workers : v # w => at'[v] = at[v]
      BY <3>2, KindFacts
    <3>4. BatchInv'
      BY <2>1, <3>1, <3>2, <3>3 DEF BatchInv
    <3>5. Rest(ThreadHandle)' = Tail(callbacks[w])
      BY <2>1, <2>4, <3>1, <3>2 DEF Rest
    <3>6. Line' = Tail(Line)
      BY <2>1, <2>4, <2>5, <3>5 DEF Line
    <3>7. /\ Confirms(i)
          /\ \A j \in Items : j # i => done'[j] = done[j]
          /\ i \in Items => done'[i] = "told"
      <4>1. CASE cb.type = "item"
        <5>1. done[i] = "held" /\ i \in Items
          BY <2>3, <2>6, <4>1
        <5>2. done' = [done EXCEPT ![i] = "told"] /\ Confirms(i)
          BY <3>1, <4>1, <5>1
        <5> QED
          BY <5>1, <5>2 DEF CoreTypeOK
      <4>2. CASE cb.type # "item"
        <5>1. i \notin Items /\ UNCHANGED history /\ done' = done
          BY <2>3, <3>1, <4>2
        <5> QED
          BY <5>1, KindFacts DEF Confirms
      <4> QED
        BY <4>1, <4>2
    <3>8. LineAdvances(i)
      BY <2>1, <2>5, <3>6, <3>7, KindFacts DEF LineAdvances, i
    <3> QED
      BY <2>3, <3>4, <3>8 DEF LineSteps
  <2>8. ASSUME ~(cb.type = "item" \/ copies[w][cb.type] # 0)
        PROVE  BatchInv' /\ LineSteps
    <3>1. /\ at' = at /\ callbacks' = [callbacks EXCEPT ![w] = Tail(@)]
          /\ done' = [done EXCEPT ![i] = "dropped"] /\ UNCHANGED history
      BY <1>14, <2>8 DEF dispatch_user_callbacks, cb, i
    <3>2. callbacks'[w] = Tail(callbacks[w]) /\ \A v \in Workers : v # w => callbacks'[v] = callbacks[v]
      BY <3>1 DEF ListTypes
    <3>3. BatchInv'
      BY <2>1, <3>1, <3>2 DEF BatchInv
    <3>4. Rest(ThreadHandle)' = Tail(callbacks[w])
      BY <2>1, <2>4, <3>1, <3>2 DEF Rest
    <3>5. Line' = Tail(Line)
      BY <2>1, <2>4, <2>5, <3>4 DEF Line
    <3>6. i \notin Items
      BY <2>3, <2>8
    <3>7. Confirms(i)
      BY <3>1, <3>6, KindFacts DEF Confirms
    <3>8. \A j \in Items : done'[j] = done[j]
      BY <3>1, <3>6 DEF CoreTypeOK
    <3>9. LineAdvances(i)
      BY <2>1, <2>5, <3>5, <3>6, <3>7, <3>8, KindFacts DEF LineAdvances, i
    <3> QED
      BY <2>3, <3>3, <3>9 DEF LineSteps
  <2> QED
    BY <2>7, <2>8
<1>15. ASSUME NEW w \in Workers, CallbackReturns(w)
       PROVE  BatchInv' /\ LineSteps
  <2> DEFINE cb == Head(callbacks[w])
             i == cb.of
  <2>1. /\ at[w] = "callback" /\ at' = [at EXCEPT ![w] = "dispatch"]
        /\ callbacks' = [callbacks EXCEPT ![w] = Tail(@)]
        /\ UNCHANGED <<ThreadHandle, saved_user_callback_list, inLL, unconfirmed, disorder>>
        /\ IF cb.type = "item" THEN UNCHANGED done ELSE done' = [done EXCEPT ![i] = "told"]
    BY <1>15 DEF CallbackReturns, history
  <2>2. callbacks[w] # <<>> /\ cb \in Entries
    BY <2>1, HeadTailProperties DEF ListTypes, BatchInv
  <2>3. cb.type = "item" <=> i \in Items
    BY <2>2 DEF Entries
  <2> HIDE DEF cb, i
  <2>4. \A j \in Items : done'[j] = done[j]
    BY <2>1, <2>3 DEF CoreTypeOK
  <2>5. at'[w] = "dispatch" /\ \A s \in Threads : s # w => at'[s] = at[s]
    BY <2>1, GoesOn, KindFacts
  <2>6. \A v \in Workers : v # w => at'[v] = at[v]
    BY <2>5, KindFacts
  <2>7. callbacks'[w] = Tail(callbacks[w]) /\ \A v \in Workers : v # w => callbacks'[v] = callbacks[v]
    BY <2>1 DEF ListTypes
  <2>8. BatchInv'
    BY <2>5, <2>6, <2>7 DEF BatchInv
  <2>9. ThreadHandle = w /\ ThreadHandle # "none" /\ Line = Rest(w) \o saved_user_callback_list
    BY <1>13, <2>1
  <2>10. Rest(ThreadHandle)' = Tail(callbacks[w]) /\ Rest(w) = Tail(callbacks[w])
    BY <2>1, <2>5, <2>7, <2>9 DEF Rest
  <2>11. Line' = Line
    BY <2>1, <2>9, <2>10 DEF Line
  <2> QED
    BY <2>1, <2>4, <2>8, <2>11 DEF LineSteps, LineStays
<1>16. ASSUME NEW u \in Uploads, NEW m \in UploadMoves, UploadGoes(u, m[1], m[2])
       PROVE  BatchInv' /\ LineSteps
  <2>1. /\ at' = [at EXCEPT ![u] = m[2]]
        /\ UNCHANGED <<callbacks, saved_user_callback_list, ThreadHandle, inLL, done, unconfirmed, disorder>>
    BY <1>16 DEF UploadGoes, dispatchVars, history
  <2>2. \A w \in Workers : at'[w] = at[w]
    BY <2>1, GoesOn, KindFacts
  <2> QED
    BY <1>1, <2>1, <2>2 DEF Quiet
<1>17. ASSUME NEW a \in Apps, \/ DestroySignals(a) \/ DestroyJoins(a) \/ DestroyLocks(a)
                              \/ DestroyCollects(a) \/ DestroyUnlocks(a) \/ DestroyFrees(a)
       PROVE  BatchInv' /\ LineSteps
  <2>1. /\ \/ at' = at
           \/ \E p \in AppPlaces : at' = [at EXCEPT ![a] = p]
        /\ UNCHANGED <<callbacks, saved_user_callback_list, ThreadHandle, inLL, done, unconfirmed, disorder>>
    BY <1>17 DEF DestroySignals, DestroyJoins, DestroyLocks, DestroyCollects, DestroyUnlocks,
                 DestroyFrees, dispatchVars, history, AppPlaces
  <2>2. ASSUME NEW p \in AppPlaces, at' = [at EXCEPT ![a] = p]
        PROVE  \A w \in Workers : at'[w] = at[w]
    BY <2>2, GoesOn, KindFacts
  <2>3. \A w \in Workers : at'[w] = at[w]
    BY <2>1, <2>2
  <2> QED
    BY <1>1, <2>1, <2>3 DEF Quiet
<1>18. ASSUME NEW a \in Apps, DestroyDispatches(a)
       PROVE  BatchInv' /\ LineSteps
  <2> DEFINE cb == Head(saved_user_callback_list)
             i == cb.of
  <2>1. /\ at[a] = "final" /\ saved_user_callback_list # <<>>
        /\ saved_user_callback_list' = Tail(saved_user_callback_list)
        /\ UNCHANGED <<at, ThreadHandle, callbacks, inLL>>
        /\ Confirms(i)
        /\ done' = [done EXCEPT ![i] = IF i \notin Confirmable THEN "dropped"
                                       ELSE IF @ = "held" THEN "told" ELSE "twice"]
    BY <1>18 DEF DestroyDispatches, threadVars, dispatchVars
  <2>2. \A w \in Workers : at[w] \notin {"copy", "dispatch", "callback"}
    <3>1. \A w \in Workers : at[w] \in {"off", "ended"}
      BY <2>1 DEF EndInv
    <3> QED
      BY <3>1
  <2>3. Line = saved_user_callback_list
    BY <2>2, LineIsSaved
  <2>4. BatchInv'
    BY <2>1 DEF BatchInv
  <2>5. Line' = Tail(Line)
    <3>1. saved_user_callback_list \in Seq(Entries) /\ ThreadHandle \in Workers \cup {"none"}
      BY DEF ListTypes, CoreTypeOK
    <3>2. CASE ThreadHandle = "none"
      BY <2>1, <2>3, <3>2 DEF Line
    <3>3. CASE ThreadHandle # "none"
      <4>1. Rest(ThreadHandle)' = <<>>
        BY <2>1, <2>2, <3>1, <3>3 DEF Rest, BatchInv
      <4>2. <<>> \o Tail(saved_user_callback_list) = Tail(saved_user_callback_list)
        BY <2>1, <3>1, ConcatEmptySeq, HeadTailProperties
      <4> QED
        BY <2>1, <2>3, <3>3, <4>1, <4>2 DEF Line
    <3> QED
      BY <3>2, <3>3
  <2>6. cb \in Entries /\ Head(Line) = cb /\ Line # <<>>
    BY <2>1, <2>3, HeadTailProperties DEF ListTypes
  <2>7. i \in Items \cup Inbound
    BY <2>6 DEF Entries
  <2> HIDE DEF cb, i
  <2>8. i \in Items => done[i] = "held"
    <3>1. Line \in Seq(Entries)
      BY LineTypes
    <3>2. 1 \in DOMAIN Line /\ Line[1] = cb
      BY <2>6, <3>1, TailIsRemoveAt, LenProperties
    <3> QED
      BY <3>2 DEF ItemsInv, i
  <2>9. /\ \A j \in Items : j # i => done'[j] = done[j]
        /\ i \in Items => done'[i] \in {"told", "dropped"}
        /\ i \in Confirmable => done'[i] = "told"
    <3>1. done \in [Items \cup Inbound -> {"new", "held", "told", "dropped", "twice"}]
      BY DEF CoreTypeOK
    <3>2. i \in Confirmable => i \in Items
      BY KindFacts
    <3> QED
      BY <2>1, <2>7, <2>8, <3>1, <3>2
  <2>10. LineAdvances(i)
    BY <2>1, <2>5, <2>6, <2>9 DEF LineAdvances, i
  <2> QED
    BY <2>4, <2>7, <2>10 DEF LineSteps
<1> QED
  BY <1>2, <1>3, <1>5, <1>6, <1>7, <1>8, <1>9, <1>10, <1>11, <1>12, <1>14, <1>15, <1>16, <1>17, <1>18,
     CoreCases

-----------------------------------------------------------------------------
(* What is proved of ClientCore *)

\* The client begins with no worker and nothing to confirm.
LEMMA CoreInitial ==
  ASSUME CoreInit
  PROVE  CoreInv
<1> USE DEF CoreInit
<1>1. /\ \A a \in Apps : at[a] = "idle"
      /\ \A w \in Workers : at[w] = "off"
      /\ \A u \in Uploads : at[u] = "off"
      /\ at \in [Threads -> Places]
  BY KindFacts DEF Places, AppPlaces, WorkerPlaces
<1>2. PlaceTypes
  BY <1>1 DEF PlaceTypes, AppPlaces, WorkerPlaces, UploadPlaces
<1>3. CoreTypeOK
  <2>1. done \in [Items \cup Inbound -> {"new", "held", "told", "dropped", "twice"}]
    OBVIOUS
  <2> QED
    BY <1>1, <2>1, KindFacts DEF CoreTypeOK
<1>4. SettingTypes
  BY DEF SettingTypes, Slots, None
<1>5. <<>> \in Seq(Entries) /\ <<>> \in Seq(Confirmable)
  BY EmptySeq
<1>6. ListTypes
  BY <1>5 DEF ListTypes
<1>7. ThreadInv
  BY <1>1 DEF ThreadInv
<1>8. EndInv
  BY <1>1 DEF EndInv
<1>9. BatchInv
  BY <1>1 DEF BatchInv
<1>10. Line = <<>> /\ DOMAIN Line = {} /\ DOMAIN unconfirmed = {}
  <2>1. Line = <<>>
    BY DEF Line
  <2>2. Len(<<>>) = 0 /\ DOMAIN <<>> = 1..Len(<<>>)
    BY <1>5, EmptySeq, LenProperties
  <2> QED
    BY <2>1, <2>2
<1>11. OrderInv
  BY <1>10 DEF OrderInv, Matches, MatchesIn
<1>12. \A i \in Items : done[i] = "new"
  OBVIOUS
<1>13. ItemsInv
  BY <1>10, <1>12, KindFacts DEF ItemsInv
<1>14. ContextsLive
  BY DEF ContextsLive, Slots, None
<1> QED
  BY <1>2, <1>3, <1>4, <1>6, <1>7, <1>8, <1>9, <1>11, <1>13, <1>14 DEF CoreInv

\* Nothing changes when the client does nothing.
LEMMA CoreStutters ==
  ASSUME CoreInv, UNCHANGED coreVars
  PROVE  CoreInv'
<1>1. /\ UNCHANGED <<at, LockHandle, ThreadHandle, StopThread, saved_user_callback_list, callbacks>>
      /\ UNCHANGED <<context, llContext, dangling, httpWorkerThreadInfoList, inLL, sets, done, unconfirmed, disorder>>
  BY DEF coreVars
<1>2. CoreTypeOK' /\ PlaceTypes' /\ SettingTypes' /\ ListTypes' /\ ContextsLive'
  BY <1>1 DEF CoreInv, CoreTypeOK, PlaceTypes, SettingTypes, ListTypes, ContextsLive
<1>3. ThreadInv' /\ EndInv' /\ BatchInv'
  BY <1>1 DEF CoreInv, ThreadInv, EndInv, BatchInv
<1>4. Line' = Line
  BY <1>1 DEF Line, Rest
<1>5. ItemsInv'
  BY <1>1, <1>4 DEF CoreInv, ItemsInv
<1>6. OrderInv'
  BY <1>1, <1>4 DEF CoreInv, OrderInv
<1> QED
  BY <1>2, <1>3, <1>5, <1>6 DEF CoreInv

\* Every step keeps the invariant.
LEMMA CoreStep ==
  ASSUME CoreInv, FirstCallsApart, [CoreNext]_coreVars
  PROVE  CoreInv'
<1>1. CASE CoreNext
  <2>1. /\ CoreTypeOK /\ PlaceTypes /\ SettingTypes /\ ListTypes /\ ThreadInv /\ EndInv /\ BatchInv
        /\ ItemsInv /\ OrderInv /\ ContextsLive
    BY DEF CoreInv
  <2>2. CoreTypeOK' /\ PlaceTypes'
    BY <1>1, <2>1, TypesKept, PlacesKept
  <2>3. SettingTypes' /\ ContextsLive'
    BY <1>1, <2>1, SettingsKept
  <2>4. ListTypes'
    BY <1>1, <2>1, ListsKept
  <2>5. ThreadInv' /\ EndInv'
    BY <1>1, <2>1, StagesKept
  <2>6. BatchInv' /\ LineSteps
    BY <1>1, <2>1, LineOfStep
  <2>7. ItemsInv' /\ OrderInv'
    BY <2>1, <2>2, <2>6, LineKept
  <2> QED
    BY <2>2, <2>3, <2>4, <2>5, <2>6, <2>7 DEF CoreInv
<1>2. CASE UNCHANGED coreVars
  BY <1>2, CoreStutters
<1> QED
  BY <1>1, <1>2

\* What the invariant says of the client at rest and when it has been freed.
LEMMA CoreImplies ==
  ASSUME CoreInv
  PROVE  CoreTypeOK /\ AllConfirmed /\ ConfirmedInOrder /\ NothingLeftBehind /\ ContextsLive
<1>1. CoreTypeOK /\ ContextsLive /\ ConfirmedInOrder
  BY DEF CoreInv, OrderInv, ConfirmedInOrder
<1>2. ASSUME NEW a \in Apps, at[a] = "freed"
      PROVE  /\ LockHandle = "free" /\ \A w \in Workers : at[w] \in {"off", "ended"}
             /\ \A u \in Uploads : at[u] \in {"off", "marked"}
             /\ inLL = {} /\ saved_user_callback_list = <<>>
  BY <1>2 DEF CoreInv, EndInv
<1>3. NothingLeftBehind
  BY <1>2 DEF NothingLeftBehind, Freed
<1>4. AllConfirmed
  <2> SUFFICES ASSUME NEW a \in Apps, at[a] = "freed", NEW i \in Confirmable
               PROVE  done[i] \in {"new", "told"}
    BY DEF AllConfirmed, Freed
  <2>1. Line = <<>>
    <3>1. \A w \in Workers : at[w] \notin {"copy", "dispatch", "callback"}
      BY <1>2
    <3> QED
      BY <1>2, <3>1, LineIsSaved DEF CoreInv
  <2>2. DOMAIN Line = {}
    <3>1. Len(<<>>) = 0 /\ DOMAIN <<>> = 1..Len(<<>>)
      BY EmptySeq, LenProperties
    <3> QED
      BY <2>1, <3>1
  <2>3. done[i] # "held"
    BY <1>2, <2>2, KindFacts DEF CoreInv, ItemsInv
  <2>4. done[i] \in {"new", "held", "told"}
    BY DEF CoreInv, ItemsInv
  <2> QED
    BY <2>3, <2>4
<1> QED
  BY <1>1, <1>3, <1>4

\* The inductive invariant of the client, its threads and its lists
\* (iothub_client_core.c), when no two first calls are made at once.
THEOREM CoreInvariant == CoreSpec /\ []FirstCallsApart => []CoreInv
<1>1. CoreInit => CoreInv
  BY CoreInitial
<1>2. CoreInv /\ FirstCallsApart /\ [CoreNext]_coreVars => CoreInv'
  BY CoreStep
<1> QED
  BY <1>1, <1>2, PTL DEF CoreSpec

\* Confirmations reach the application in the order the lower layer made them, whichever
\* thread calls them, and after Destroy every event and reported state was confirmed and no
\* thread of the client is left (dispatch_user_callbacks, IoTHubClientCore_Destroy).
THEOREM ClientEndsWell ==
  CoreSpec /\ []FirstCallsApart => [](AllConfirmed /\ ConfirmedInOrder /\ NothingLeftBehind /\ ContextsLive)
<1>1. CoreInv => AllConfirmed /\ ConfirmedInOrder /\ NothingLeftBehind /\ ContextsLive
  BY CoreImplies
<1> QED
  BY <1>1, CoreInvariant, PTL

\* What a step does to the line is a step of the abstract delivery, or none.
LEMMA LineDelivers ==
  ASSUME CoreTypeOK, ListTypes, BatchInv, ItemsInv, LineSteps
  PROVE  [CD!Next]_itemStatus
<1>1. done \in [Items \cup Inbound -> {"new", "held", "told", "dropped", "twice"}]
  BY DEF CoreTypeOK
<1>2. ASSUME \A i \in Items : done'[i] = done[i]
      PROVE  itemStatus' = itemStatus
  BY <1>2 DEF itemStatus
<1>3. CASE LineStays
  BY <1>2, <1>3 DEF LineStays
<1>4. ASSUME NEW i \in Items, LineAccepts(i)
      PROVE  CD!Next
  <2>1. done[i] = "new" /\ done' = [done EXCEPT ![i] = "held"]
    BY <1>4 DEF LineAccepts
  <2>2. itemStatus[i] = "new" /\ itemStatus' = [itemStatus EXCEPT ![i] = "held"]
    BY <1>1, <2>1 DEF itemStatus
  <2>3. CD!Accept(i)
    BY <2>2 DEF CD!Accept
  <2> QED
    BY <2>3 DEF CD!Next
<1>5. ASSUME NEW i \in Items, LineReports(i)
      PROVE  itemStatus' = itemStatus
  BY <1>5 DEF LineReports, itemStatus
<1>6. ASSUME NEW e \in Entries, LineReceives(e)
      PROVE  itemStatus' = itemStatus
  BY <1>2, <1>6 DEF LineReceives
<1>7. ASSUME NEW i \in Items \cup Inbound, LineAdvances(i)
      PROVE  [CD!Next]_itemStatus
  <2>1. /\ Line # <<>> /\ i = Head(Line).of
        /\ \A j \in Items : j # i => done'[j] = done[j]
        /\ i \in Items => done'[i] \in {"told", "dropped"}
    BY <1>7 DEF LineAdvances
  <2>2. CASE i \notin Items
    <3>1. \A j \in Items : done'[j] = done[j]
      BY <2>1, <2>2
    <3> QED
      BY <1>2, <3>1
  <2>3. CASE i \in Items
    <3>1. done[i] = "held"
      <4>1. Line \in Seq(Entries)
        BY LineTypes
      <4>2. 1 \in DOMAIN Line /\ Line[1].of = i
        BY <2>1, <4>1, TailIsRemoveAt, LenProperties
      <4> QED
        BY <2>3, <4>2 DEF ItemsInv
    <3> DEFINE r == [m \in {i} |-> done'[i]]
    <3>2. itemStatus[i] = "held"
      BY <2>3, <3>1 DEF itemStatus
    <3>3. r \in [{i} -> {"told", "dropped"}]
      BY <2>1, <2>3
    <3>4. itemStatus' = [m \in Items |-> IF m \in {i} THEN r[m] ELSE itemStatus[m]]
      BY <2>1, <2>3 DEF itemStatus
    <3> HIDE DEF r
    <3>5. CD!Settle({i})
      BY <3>2, <3>3, <3>4 DEF CD!Settle
    <3> QED
      BY <2>3, <3>5 DEF CD!Next
  <2> QED
    BY <2>2, <2>3
<1> QED
  BY <1>3, <1>4, <1>5, <1>6, <1>7 DEF LineSteps, LineStays

\* Every message, reported state and request for the twin is answered once and for good
\* whichever thread reports it and whichever calls the callback (dispatch_user_callbacks,
\* IoTHubClientCore_Destroy).
THEOREM ClientAnswersOnce == CoreSpec /\ []FirstCallsApart => AnsweredOnce
<1>1. CoreInit => CD!Init
  BY KindFacts DEF CoreInit, CD!Init, itemStatus
<1>2. CoreInv /\ FirstCallsApart /\ [CoreNext]_coreVars => [CD!Next]_itemStatus
  <2> SUFFICES ASSUME CoreInv, [CoreNext]_coreVars
               PROVE  [CD!Next]_itemStatus
    OBVIOUS
  <2>1. CASE CoreNext
    BY <2>1, LineOfStep, LineDelivers DEF CoreInv
  <2>2. CASE UNCHANGED coreVars
    BY <2>2 DEF coreVars, itemStatus
  <2> QED
    BY <2>1, <2>2
<1>3. CoreSpec /\ []FirstCallsApart => CD!Spec
  BY <1>1, <1>2, CoreInvariant, PTL DEF CoreSpec, CD!Spec
<1> QED
  BY <1>3 DEF AnsweredOnce

-----------------------------------------------------------------------------
(* The worker of a shared transport *)

\* Clients, workers and the values of free handles are apart.
LEMMA MuxKinds ==
  /\ \A c \in Clients : c \in Clients \cup MuxWorkers /\ c \notin MuxWorkers /\ c # "none"
  /\ \A w \in MuxWorkers : /\ w \in Clients \cup MuxWorkers /\ w \notin Clients
                           /\ w # "free" /\ w # "none" /\ w # "freed"
BY WorkerAssumption

\* A client or a worker goes on.
LEMMA MuxGoesOn ==
  ASSUME MuxTypes, NEW t \in Clients \cup MuxWorkers, NEW p \in ClientPlaces \cup MuxWorkerPlaces,
         muxAt' = [muxAt EXCEPT ![t] = p]
  PROVE  /\ muxAt'[t] = p /\ \A s \in Clients \cup MuxWorkers : s # t => muxAt'[s] = muxAt[s]
         /\ muxAt' \in [Clients \cup MuxWorkers -> ClientPlaces \cup MuxWorkerPlaces]
BY DEF MuxTypes

\* A list without a client has the others, once each.
LEMMA WithoutElements ==
  ASSUME NEW S, NEW s \in Seq(S), IsInjective(s), NEW c
  PROVE  /\ Without(s, c) \in Seq(S) /\ IsInjective(Without(s, c))
         /\ Range(Without(s, c)) = Range(s) \ {c}
<1>1. DOMAIN s = 1..Len(s)
  BY LenProperties
<1>2. CASE Contains(s, c)
  <2> DEFINE i == CHOOSE i \in DOMAIN s : s[i] = c
  <2>1. i \in 1..Len(s) /\ s[i] = c
    BY <1>1, <1>2 DEF Contains
  <2>2. Without(s, c) = RemoveAt(s, i)
    BY <1>2 DEF Without
  <2> HIDE DEF i
  <2>3. /\ RemoveAt(s, i) \in Seq(S) /\ IsInjective(RemoveAt(s, i))
        /\ Range(RemoveAt(s, i)) = Range(s) \ {s[i]}
    BY <2>1, RemoveAtElements, RemoveAtNoDuplicates
  <2> QED
    BY <2>1, <2>2, <2>3
<1>3. CASE ~Contains(s, c)
  <2>1. Without(s, c) = s
    BY <1>3 DEF Without
  <2>2. c \notin Range(s)
    BY <1>1, <1>3 DEF Contains, Range
  <2> QED
    BY <2>1, <2>2
<1> QED
  BY <1>2, <1>3

\* A list without elements is empty.
LEMMA NoElements ==
  ASSUME NEW S, NEW s \in Seq(S)
  PROVE  s = <<>> <=> Range(s) = {}
<1>1. DOMAIN s = 1..Len(s) /\ Len(s) \in Nat
  BY LenProperties
<1>2. s = <<>> <=> Len(s) = 0
  BY EmptySeq
<1>3. Range(s) = {} <=> 1..Len(s) = {}
  <2>1. Range(s) = {s[i] : i \in 1..Len(s)}
    BY <1>1 DEF Range
  <2> QED
    BY <2>1
<1>4. 1..Len(s) = {} <=> Len(s) = 0
  <2>1. Len(s) = 0 => 1..Len(s) = {}
    OBVIOUS
  <2>2. Len(s) # 0 => 1 \in 1..Len(s)
    BY <1>1
  <2> QED
    BY <2>1, <2>2
<1> QED
  BY <1>2, <1>3, <1>4

\* Types, and who holds clientsLockHandle, are kept by every step.
LEMMA MuxTypesKept ==
  ASSUME MuxTypes, MuxNext
  PROVE  MuxTypes'
<1> USE DEF ClientPlaces, MuxWorkerPlaces
<1>1. /\ clients \in Seq(Clients) /\ IsInjective(clients) /\ muxSaved \subseteq Clients
      /\ stopThread \in BOOLEAN /\ workerThreadHandle \in MuxWorkers \cup {"none", "freed"}
      /\ clientsLockHandle \in MuxWorkers \cup {"free"}
      /\ \A w \in MuxWorkers : muxAt[w] \in {"serving", "blocked"} <=> clientsLockHandle = w
      /\ serving \in [MuxWorkers -> Nat] /\ current \in [MuxWorkers -> Clients \cup {"none"}]
      /\ muxAt \in [Clients \cup MuxWorkers -> ClientPlaces \cup MuxWorkerPlaces]
      /\ \A c \in Clients : muxAt[c] \in ClientPlaces
      /\ \A w \in MuxWorkers : muxAt[w] \in MuxWorkerPlaces
  BY DEF MuxTypes, MuxTypeOK
<1>2. ASSUME NEW c \in Clients, NEW p \in ClientPlaces, muxAt' = [muxAt EXCEPT ![c] = p],
             clientsLockHandle' = clientsLockHandle
      PROVE  /\ muxAt' \in [Clients \cup MuxWorkers -> ClientPlaces \cup MuxWorkerPlaces]
             /\ \A d \in Clients : muxAt'[d] \in ClientPlaces
             /\ \A w \in MuxWorkers : muxAt'[w] \in MuxWorkerPlaces
             /\ \A w \in MuxWorkers : muxAt'[w] \in {"serving", "blocked"} <=> clientsLockHandle' = w
  <2>1. /\ muxAt'[c] = p /\ \A s \in Clients \cup MuxWorkers : s # c => muxAt'[s] = muxAt[s]
        /\ muxAt' \in [Clients \cup MuxWorkers -> ClientPlaces \cup MuxWorkerPlaces]
    BY <1>2, MuxGoesOn
  <2> QED
    BY <1>1, <1>2, <2>1, MuxKinds
<1>3. ASSUME NEW w \in MuxWorkers, NEW p \in MuxWorkerPlaces, muxAt' = [muxAt EXCEPT ![w] = p],
             \/ /\ clientsLockHandle' = clientsLockHandle
                /\ p \in {"serving", "blocked"} <=> muxAt[w] \in {"serving", "blocked"}
             \/ clientsLockHandle = "free" /\ clientsLockHandle' = w /\ p = "serving"
             \/ clientsLockHandle = w /\ clientsLockHandle' = "free" /\ p \notin {"serving", "blocked"}
      PROVE  /\ muxAt' \in [Clients \cup MuxWorkers -> ClientPlaces \cup MuxWorkerPlaces]
             /\ \A d \in Clients : muxAt'[d] \in ClientPlaces
             /\ \A v \in MuxWorkers : muxAt'[v] \in MuxWorkerPlaces
             /\ \A v \in MuxWorkers : muxAt'[v] \in {"serving", "blocked"} <=> clientsLockHandle' = v
             /\ clientsLockHandle' \in MuxWorkers \cup {"free"}
  <2>1. /\ muxAt'[w] = p /\ \A s \in Clients \cup MuxWorkers : s # w => muxAt'[s] = muxAt[s]
        /\ muxAt' \in [Clients \cup MuxWorkers -> ClientPlaces \cup MuxWorkerPlaces]
    BY <1>3, MuxGoesOn
  <2>2. \A v \in MuxWorkers : v # w => muxAt'[v] = muxAt[v]
    BY <2>1
  <2>3. \A v \in MuxWorkers : muxAt'[v] \in {"serving", "blocked"} <=> clientsLockHandle' = v
    BY <1>1, <1>3, <2>1, <2>2, MuxKinds
  <2> QED
    BY <1>1, <1>3, <2>1, <2>3, MuxKinds
<1>4. ASSUME NEW c \in Clients, IoTHubTransport_StartWorkerThread(c)
      PROVE  MuxTypes'
  <2> DEFINE p == IF workerThreadHandle = "none" THEN "starting" ELSE "adding"
  <2>1. /\ muxAt' = [muxAt EXCEPT ![c] = p] /\ p \in ClientPlaces
        /\ UNCHANGED <<workerThreadHandle, stopThread, clients, clientsLockHandle, serving, current, muxSaved>>
    BY <1>4 DEF IoTHubTransport_StartWorkerThread
  <2> HIDE DEF p
  <2> QED
    BY <1>1, <1>2, <2>1 DEF MuxTypes, MuxTypeOK
<1>5. ASSUME NEW c \in Clients, CreateMuxWorker(c)
      PROVE  MuxTypes'
  <2>1. PICK w \in MuxWorkers : /\ muxAt[w] = "off" /\ workerThreadHandle' = w
                                /\ muxAt' = [muxAt EXCEPT ![c] = "adding", ![w] = "loop"]
    BY <1>5 DEF CreateMuxWorker
  <2>2. /\ stopThread' = FALSE
        /\ UNCHANGED <<clients, clientsLockHandle, serving, current, muxSaved>>
    BY <1>5 DEF CreateMuxWorker
  <2>3. /\ muxAt' \in [Clients \cup MuxWorkers -> ClientPlaces \cup MuxWorkerPlaces]
        /\ muxAt'[c] = "adding" /\ muxAt'[w] = "loop"
        /\ \A s \in Clients \cup MuxWorkers : s # c /\ s # w => muxAt'[s] = muxAt[s]
    BY <1>1, <2>1, MuxKinds
  <2>4. /\ \A d \in Clients : muxAt'[d] \in ClientPlaces
        /\ \A v \in MuxWorkers : muxAt'[v] \in MuxWorkerPlaces
        /\ \A v \in MuxWorkers : muxAt'[v] \in {"serving", "blocked"} <=> clientsLockHandle' = v
    <3>1. \A d \in Clients : d # c => muxAt'[d] = muxAt[d]
      BY <2>3, MuxKinds
    <3>2. \A v \in MuxWorkers : v # w => muxAt'[v] = muxAt[v]
      BY <2>3, MuxKinds
    <3>3. \A v \in MuxWorkers : muxAt'[v] \in {"serving", "blocked"} <=> muxAt[v] \in {"serving", "blocked"}
      BY <2>1, <2>3, <3>2
    <3> QED
      BY <1>1, <2>2, <2>3, <3>1, <3>2, <3>3
  <2> QED
    BY <1>1, <2>1, <2>2, <2>3, <2>4 DEF MuxTypes, MuxTypeOK
<1>6. ASSUME NEW c \in Clients, start_worker_if_needed(c)
      PROVE  MuxTypes'
  <2>1. /\ muxAt' = [muxAt EXCEPT ![c] = "on"]
        /\ clients' = IF Contains(clients, c) THEN clients ELSE Append(clients, c)
        /\ UNCHANGED <<workerThreadHandle, stopThread, clientsLockHandle, serving, current, muxSaved>>
    BY <1>6 DEF start_worker_if_needed
  <2>2. clients' \in Seq(Clients) /\ IsInjective(clients')
    <3>1. CASE Contains(clients, c)
      BY <1>1, <2>1, <3>1
    <3>2. CASE ~Contains(clients, c)
      <4>1. c \notin Range(clients)
        BY <1>1, <3>2, LenProperties DEF Contains, Range
      <4> QED
        BY <1>1, <2>1, <3>2, <4>1, AppendNoDuplicates
    <3> QED
      BY <3>1, <3>2
  <2> QED
    BY <1>1, <1>2, <2>1, <2>2 DEF MuxTypes, MuxTypeOK
<1>7. ASSUME NEW c \in Clients, IoTHubTransport_SignalEndWorkerThread(c)
      PROVE  MuxTypes'
  <2> DEFINE p == IF workerThreadHandle # "none" /\ clients' = <<>> THEN "joining" ELSE "gone"
  <2>1. /\ muxAt' = [muxAt EXCEPT ![c] = p] /\ p \in ClientPlaces
        /\ clients' = Without(clients, c) /\ stopThread' \in BOOLEAN
        /\ UNCHANGED <<workerThreadHandle, clientsLockHandle, serving, current, muxSaved>>
    BY <1>1, <1>7 DEF IoTHubTransport_SignalEndWorkerThread
  <2>2. clients' \in Seq(Clients) /\ IsInjective(clients')
    BY <1>1, <2>1, WithoutElements
  <2> HIDE DEF p
  <2> QED
    BY <1>1, <1>2, <2>1, <2>2 DEF MuxTypes, MuxTypeOK
<1>8. ASSUME NEW c \in Clients, IoTHubTransport_JoinWorkerThread(c)
      PROVE  MuxTypes'
  <2>1. /\ muxAt' = [muxAt EXCEPT ![c] = "gone"] /\ workerThreadHandle' = "none"
        /\ UNCHANGED <<stopThread, clients, clientsLockHandle, serving, current, muxSaved>>
    BY <1>8 DEF IoTHubTransport_JoinWorkerThread
  <2> QED
    BY <1>1, <1>2, <2>1 DEF MuxTypes, MuxTypeOK
<1>9. ASSUME NEW w \in MuxWorkers, transport_worker_thread(w)
      PROVE  MuxTypes'
  <2>1. /\ muxAt[w] = "loop" /\ muxSaved' \subseteq Clients
        /\ muxAt' = [muxAt EXCEPT ![w] = "ended"] \/ muxAt' = [muxAt EXCEPT ![w] = "worked"]
        /\ UNCHANGED <<workerThreadHandle, stopThread, clients, clientsLockHandle, serving, current>>
    BY <1>1, <1>9 DEF transport_worker_thread, Alive
  <2> QED
    BY <1>1, <1>3, <2>1 DEF MuxTypes, MuxTypeOK
<1>10. ASSUME NEW w \in MuxWorkers, multiplexed_client_do_work(w)
       PROVE  MuxTypes'
  <2>1. /\ clientsLockHandle = "free" /\ clientsLockHandle' = w
        /\ muxAt' = [muxAt EXCEPT ![w] = "serving"]
        /\ serving' = [serving EXCEPT ![w] = 0]
        /\ UNCHANGED <<workerThreadHandle, stopThread, clients, current, muxSaved>>
    BY <1>10 DEF multiplexed_client_do_work
  <2> QED
    BY <1>1, <1>3, <2>1 DEF MuxTypes, MuxTypeOK
<1>11. ASSUME NEW w \in MuxWorkers, ScheduleWork_Thread_ForMultiplexing(w)
       PROVE  MuxTypes'
  <2>1. /\ serving[w] < Len(clients)
        /\ current' = [current EXCEPT ![w] = clients[serving[w] + 1]]
        /\ muxSaved' = muxSaved \ {clients[serving[w] + 1]}
        /\ UNCHANGED <<muxAt, workerThreadHandle, stopThread, clients, clientsLockHandle, serving>>
    BY <1>11 DEF ScheduleWork_Thread_ForMultiplexing
  <2>2. clients[serving[w] + 1] \in Clients
    <3>1. Len(clients) \in Nat /\ serving[w] \in Nat
      BY <1>1, LenProperties
    <3>2. serving[w] + 1 \in 1..Len(clients)
      BY <2>1, <3>1
    <3> QED
      BY <1>1, <3>2, ElementOfSeq
  <2> QED
    BY <1>1, <2>1, <2>2 DEF MuxTypes, MuxTypeOK
<1>12. ASSUME NEW w \in MuxWorkers, MuxCallbacks(w)
       PROVE  MuxTypes'
  <2>1. /\ current' = [current EXCEPT ![w] = "none"] /\ serving' = [serving EXCEPT ![w] = @ + 1]
        /\ UNCHANGED <<muxAt, workerThreadHandle, stopThread, clients, clientsLockHandle, muxSaved>>
    BY <1>12 DEF MuxCallbacks
  <2> QED
    BY <1>1, <2>1 DEF MuxTypes, MuxTypeOK
<1>13. ASSUME NEW w \in MuxWorkers, EndOfClients(w)
       PROVE  MuxTypes'
  <2>1. /\ muxAt[w] = "serving" /\ clientsLockHandle' = "free"
        /\ muxAt' = [muxAt EXCEPT ![w] = "loop"]
        /\ UNCHANGED <<workerThreadHandle, stopThread, clients, serving, current, muxSaved>>
    BY <1>13 DEF EndOfClients
  <2> QED
    BY <1>1, <1>3, <2>1 DEF MuxTypes, MuxTypeOK
<1>14. CASE stop_worker_thread
  BY <1>1, <1>14 DEF stop_worker_thread, MuxTypes, MuxTypeOK
<1>15. CASE IoTHubTransport_Destroy
  BY <1>1, <1>15 DEF IoTHubTransport_Destroy, MuxTypes, MuxTypeOK
<1>16. ASSUME NEW w \in MuxWorkers, DoWorkCallbackCalls(w) \/ MuxCallbackCalls(w)
       PROVE  MuxTypes'
  <2>1. /\ \/ muxAt[w] = "loop" /\ muxAt' = [muxAt EXCEPT ![w] = "hung"]
           \/ muxAt[w] = "serving" /\ muxAt' = [muxAt EXCEPT ![w] = "blocked"]
        /\ UNCHANGED <<workerThreadHandle, stopThread, clients, clientsLockHandle, serving, current, muxSaved>>
    BY <1>16 DEF DoWorkCallbackCalls, MuxCallbackCalls
  <2> QED
    BY <1>1, <1>3, <2>1 DEF MuxTypes, MuxTypeOK
<1> QED
  BY <1>4, <1>5, <1>6, <1>7, <1>8, <1>9, <1>10, <1>11, <1>12, <1>13, <1>14, <1>15, <1>16
     DEF MuxNext, MuxCall, MuxWork

\* What moves in a step: a client, a worker, or a client and the worker it creates.
LEMMA MovesKeep ==
  ASSUME MuxTypes, NEW t \in Clients \cup MuxWorkers, NEW p \in ClientPlaces \cup MuxWorkerPlaces,
         muxAt' = [muxAt EXCEPT ![t] = p]
  PROVE  /\ muxAt'[t] = p
         /\ t \in Clients => /\ \A w \in MuxWorkers : muxAt'[w] = muxAt[w]
                             /\ \A d \in Clients : d # t => muxAt'[d] = muxAt[d]
         /\ t \in MuxWorkers => /\ \A c \in Clients : muxAt'[c] = muxAt[c]
                                /\ \A v \in MuxWorkers : v # t => muxAt'[v] = muxAt[v]
BY MuxGoesOn, MuxKinds

\* Who is served is in clients, and who is in clients has not ended, after every step.
LEMMA ServedKept ==
  ASSUME MuxTypes, ServedInv, MuxNext
  PROVE  ServedInv'
<1> USE DEF ClientPlaces, MuxWorkerPlaces
<1>1. /\ clients \in Seq(Clients) /\ IsInjective(clients) /\ Range(clients) \subseteq Clients
      /\ \A w \in MuxWorkers : muxAt[w] \in {"serving", "blocked"} <=> clientsLockHandle = w
      /\ serving \in [MuxWorkers -> Nat] /\ current \in [MuxWorkers -> Clients \cup {"none"}]
      /\ muxAt \in [Clients \cup MuxWorkers -> ClientPlaces \cup MuxWorkerPlaces]
  <2>1. DOMAIN clients = 1..Len(clients) /\ \A i \in 1..Len(clients) : clients[i] \in Clients
    BY LenProperties, ElementOfSeq DEF MuxTypes
  <2> QED
    BY <2>1 DEF MuxTypes, MuxTypeOK, Range
<1>2. /\ \A w \in MuxWorkers : current[w] # "none" => muxAt[w] \in {"serving", "blocked"} /\ current[w] \in Range(clients)
      /\ \A c \in Range(clients) : muxAt[c] \in {"on", "starting", "adding"}
  BY DEF ServedInv
<1>3. ASSUME NEW c \in Clients, IoTHubTransport_StartWorkerThread(c)
      PROVE  ServedInv'
  <2> DEFINE p == IF workerThreadHandle = "none" THEN "starting" ELSE "adding"
  <2>1. /\ muxAt' = [muxAt EXCEPT ![c] = p] /\ p \in {"starting", "adding"}
        /\ UNCHANGED <<clients, current>>
    BY <1>3 DEF IoTHubTransport_StartWorkerThread
  <2> HIDE DEF p
  <2>2. /\ muxAt'[c] = p /\ \A w \in MuxWorkers : muxAt'[w] = muxAt[w]
        /\ \A d \in Clients : d # c => muxAt'[d] = muxAt[d]
    BY <2>1, MovesKeep
  <2> QED
    BY <1>1, <1>2, <2>1, <2>2 DEF ServedInv
<1>4. ASSUME NEW c \in Clients, CreateMuxWorker(c)
      PROVE  ServedInv'
  <2>1. PICK w \in MuxWorkers : /\ muxAt[w] = "off"
                                /\ muxAt' = [muxAt EXCEPT ![c] = "adding", ![w] = "loop"]
    BY <1>4 DEF CreateMuxWorker
  <2>2. UNCHANGED <<clients, current>>
    BY <1>4 DEF CreateMuxWorker
  <2>3. /\ muxAt'[c] = "adding"
        /\ \A d \in Clients : d # c => muxAt'[d] = muxAt[d]
        /\ \A v \in MuxWorkers : v # w => muxAt'[v] = muxAt[v]
    BY <1>1, <2>1, MuxKinds
  <2> QED
    BY <1>1, <1>2, <2>1, <2>2, <2>3 DEF ServedInv
<1>5. ASSUME NEW c \in Clients, start_worker_if_needed(c)
      PROVE  ServedInv'
  <2>1. /\ muxAt' = [muxAt EXCEPT ![c] = "on"]
        /\ clients' = IF Contains(clients, c) THEN clients ELSE Append(clients, c)
        /\ UNCHANGED current
    BY <1>5 DEF start_worker_if_needed
  <2>2. /\ muxAt'[c] = "on" /\ \A w \in MuxWorkers : muxAt'[w] = muxAt[w]
        /\ \A d \in Clients : d # c => muxAt'[d] = muxAt[d]
    BY <2>1, MovesKeep
  <2>3. Range(clients) \subseteq Range(clients') /\ Range(clients') \subseteq Range(clients) \cup {c}
    <3>1. CASE Contains(clients, c)
      BY <2>1, <3>1
    <3>2. CASE ~Contains(clients, c)
      <4>1. Range(Append(clients, c)) = Range(clients) \cup {c}
        BY <1>1, AppendProperties, LenProperties, SMTT(30) DEF Range
      <4> QED
        BY <2>1, <3>2, <4>1
    <3> QED
      BY <3>1, <3>2
  <2> QED
    BY <1>1, <1>2, <2>1, <2>2, <2>3 DEF ServedInv
<1>6. ASSUME NEW c \in Clients, IoTHubTransport_SignalEndWorkerThread(c)
      PROVE  ServedInv'
  <2> DEFINE p == IF workerThreadHandle # "none" /\ clients' = <<>> THEN "joining" ELSE "gone"
  <2>1. /\ muxAt' = [muxAt EXCEPT ![c] = p] /\ p \in {"joining", "gone"}
        /\ clients' = Without(clients, c) /\ clientsLockHandle = "free"
        /\ UNCHANGED current
    BY <1>6 DEF IoTHubTransport_SignalEndWorkerThread
  <2>2. Range(clients') = Range(clients) \ {c}
    BY <1>1, <2>1, WithoutElements
  <2>3. \A w \in MuxWorkers : current[w] = "none"
    BY <1>1, <1>2, <2>1, MuxKinds
  <2> HIDE DEF p
  <2>4. \A d \in Clients : d # c => muxAt'[d] = muxAt[d]
    BY <2>1, MovesKeep
  <2> QED
    BY <1>1, <1>2, <2>1, <2>2, <2>3, <2>4 DEF ServedInv
<1>7. ASSUME NEW c \in Clients, IoTHubTransport_JoinWorkerThread(c)
      PROVE  ServedInv'
  <2>1. /\ muxAt[c] = "joining" /\ muxAt' = [muxAt EXCEPT ![c] = "gone"]
        /\ UNCHANGED <<clients, current>>
    BY <1>7 DEF IoTHubTransport_JoinWorkerThread
  <2>2. /\ \A w \in MuxWorkers : muxAt'[w] = muxAt[w]
        /\ \A d \in Clients : d # c => muxAt'[d] = muxAt[d]
    <3>1. "gone" \in ClientPlaces \cup MuxWorkerPlaces /\ c \in Clients \cup MuxWorkers
      BY MuxKinds
    <3> QED
      BY <2>1, <3>1, MovesKeep
  <2>3. c \notin Range(clients)
    BY <1>2, <2>1
  <2> QED
    BY <1>1, <1>2, <2>1, <2>2, <2>3 DEF ServedInv
<1>8. ASSUME NEW w \in MuxWorkers,
             transport_worker_thread(w) \/ multiplexed_client_do_work(w) \/ EndOfClients(w)
      PROVE  ServedInv'
  <2>1. /\ current[w] = "none" /\ UNCHANGED <<clients, current>>
        /\ \E p \in MuxWorkerPlaces : muxAt' = [muxAt EXCEPT ![w] = p]
    BY <1>2, <1>8 DEF transport_worker_thread, multiplexed_client_do_work, EndOfClients
  <2>2. /\ \A c \in Clients : muxAt'[c] = muxAt[c]
        /\ \A v \in MuxWorkers : v # w => muxAt'[v] = muxAt[v]
    BY <2>1, MovesKeep
  <2> QED
    BY <1>1, <1>2, <2>1, <2>2 DEF ServedInv
<1>9. ASSUME NEW w \in MuxWorkers, ScheduleWork_Thread_ForMultiplexing(w)
      PROVE  ServedInv'
  <2>1. /\ serving[w] < Len(clients) /\ muxAt[w] = "serving"
        /\ current' = [current EXCEPT ![w] = clients[serving[w] + 1]]
        /\ UNCHANGED <<muxAt, clients>>
    BY <1>9 DEF ScheduleWork_Thread_ForMultiplexing
  <2>2. clients[serving[w] + 1] \in Range(clients)
    <3>1. Len(clients) \in Nat /\ serving[w] \in Nat /\ DOMAIN clients = 1..Len(clients)
      BY <1>1, LenProperties
    <3>2. serving[w] + 1 \in 1..Len(clients)
      BY <2>1, <3>1
    <3> QED
      BY <3>1, <3>2 DEF Range
  <2>3. \A v \in MuxWorkers : current'[v] = IF v = w THEN clients[serving[w] + 1] ELSE current[v]
    BY <1>1, <2>1
  <2> QED
    BY <1>2, <2>1, <2>2, <2>3 DEF ServedInv
<1>10. ASSUME NEW w \in MuxWorkers, MuxCallbacks(w)
       PROVE  ServedInv'
  <2>1. current' = [current EXCEPT ![w] = "none"] /\ UNCHANGED <<muxAt, clients>>
    BY <1>10 DEF MuxCallbacks
  <2>2. \A v \in MuxWorkers : current'[v] = IF v = w THEN "none" ELSE current[v]
    BY <1>1, <2>1
  <2> QED
    BY <1>2, <2>1, <2>2 DEF ServedInv
<1>11. CASE stop_worker_thread \/ IoTHubTransport_Destroy
  BY <1>2, <1>11 DEF stop_worker_thread, IoTHubTransport_Destroy, ServedInv
<1>12. ASSUME NEW w \in MuxWorkers, DoWorkCallbackCalls(w) \/ MuxCallbackCalls(w)
       PROVE  ServedInv'
  <2>1. /\ UNCHANGED <<clients, current>>
        /\ \/ current[w] = "none" /\ muxAt' = [muxAt EXCEPT ![w] = "hung"]
           \/ muxAt' = [muxAt EXCEPT ![w] = "blocked"]
    BY <1>2, <1>12 DEF DoWorkCallbackCalls, MuxCallbackCalls
  <2>2. /\ muxAt'[w] \notin {"serving", "blocked"} => current[w] = "none"
        /\ \A c \in Clients : muxAt'[c] = muxAt[c]
        /\ \A v \in MuxWorkers : v # w => muxAt'[v] = muxAt[v]
    BY <2>1, MovesKeep
  <2> QED
    BY <1>1, <1>2, <2>1, <2>2 DEF ServedInv
<1> QED
  BY <1>3, <1>4, <1>5, <1>6, <1>7, <1>8, <1>9, <1>10, <1>11, <1>12 DEF MuxNext, MuxCall, MuxWork

\* What WorkersInv says, for one client at a time.
LEMMA WorkersFacts ==
  ASSUME MuxTypes, WorkersInv
  PROVE  /\ \A c, d \in Clients : muxAt[c] \in {"starting", "adding", "joining"} =>
                            (muxAt[d] \in {"starting", "adding", "joining"} => c = d)
         /\ \A w \in MuxWorkers : w # workerThreadHandle => muxAt[w] \in {"off", "ended"}
         /\ workerThreadHandle \in MuxWorkers => muxAt[workerThreadHandle] # "off"
         /\ \A c \in Clients : muxAt[c] = "starting" => workerThreadHandle \notin MuxWorkers
         /\ \A c \in Clients : muxAt[c] \in {"adding", "on"} =>
              workerThreadHandle \in MuxWorkers /\ muxAt[workerThreadHandle] # "ended" /\ ~stopThread
         /\ \A c \in Clients : muxAt[c] = "on" => c \in Range(clients)
         /\ \A c \in Clients : muxAt[c] = "joining" => workerThreadHandle \in MuxWorkers /\ clients = <<>>
         /\ (\A c \in Clients : muxAt[c] \in {"off", "gone"}) => workerThreadHandle \notin MuxWorkers
         /\ \A c \in Clients : muxAt[c] \in ClientPlaces
         /\ \A w \in MuxWorkers : muxAt[w] \in MuxWorkerPlaces
         /\ workerThreadHandle \in MuxWorkers \cup {"none", "freed"}
<1>1. \A c, d \in Clients : muxAt[c] \in {"starting", "adding", "joining"} =>
                            (muxAt[d] \in {"starting", "adding", "joining"} => c = d)
  BY DEF WorkersInv
<1>2. /\ \A w \in MuxWorkers : w # workerThreadHandle => muxAt[w] \in {"off", "ended"}
      /\ workerThreadHandle \in MuxWorkers => muxAt[workerThreadHandle] # "off"
  BY DEF WorkersInv
<1>3. /\ \A c \in Clients : muxAt[c] = "starting" => workerThreadHandle \notin MuxWorkers
      /\ \A c \in Clients : muxAt[c] \in {"adding", "on"} =>
           workerThreadHandle \in MuxWorkers /\ muxAt[workerThreadHandle] # "ended" /\ ~stopThread
      /\ \A c \in Clients : muxAt[c] = "on" => c \in Range(clients)
      /\ \A c \in Clients : muxAt[c] = "joining" => workerThreadHandle \in MuxWorkers /\ clients = <<>>
  BY DEF WorkersInv
<1>4. (\A c \in Clients : muxAt[c] \in {"off", "gone"}) => workerThreadHandle \notin MuxWorkers
  BY DEF WorkersInv, AllGone
<1>5. /\ \A c \in Clients : muxAt[c] \in ClientPlaces
      /\ \A w \in MuxWorkers : muxAt[w] \in MuxWorkerPlaces
      /\ workerThreadHandle \in MuxWorkers \cup {"none", "freed"}
  BY DEF MuxTypes, MuxTypeOK
<1> QED
  BY <1>1, <1>2, <1>3, <1>4, <1>5

\* The same, to be shown of the next state.
LEMMA WorkersShown ==
  ASSUME \A c, d \in Clients : muxAt'[c] \in {"starting", "adding", "joining"} =>
                            (muxAt'[d] \in {"starting", "adding", "joining"} => c = d),
         \A w \in MuxWorkers : w # workerThreadHandle' => muxAt'[w] \in {"off", "ended"},
         workerThreadHandle' \in MuxWorkers => muxAt'[workerThreadHandle'] # "off",
         \A c \in Clients : muxAt'[c] = "starting" => workerThreadHandle' \notin MuxWorkers,
         \A c \in Clients : muxAt'[c] \in {"adding", "on"} =>
           workerThreadHandle' \in MuxWorkers /\ muxAt'[workerThreadHandle'] # "ended" /\ ~stopThread',
         \A c \in Clients : muxAt'[c] = "on" => c \in Range(clients'),
         \A c \in Clients : muxAt'[c] = "joining" => workerThreadHandle' \in MuxWorkers /\ clients' = <<>>,
         (\A c \in Clients : muxAt'[c] \in {"off", "gone"}) => workerThreadHandle' \notin MuxWorkers
  PROVE  WorkersInv'
BY DEF WorkersInv, AllGone

\* A worker goes on and is not ended: nothing the clients rely on changes.
LEMMA WorkerGoesOn ==
  ASSUME MuxTypes, WorkersInv, NEW w \in MuxWorkers, NEW p \in MuxWorkerPlaces \ {"off", "ended"},
         muxAt[w] \notin {"off", "ended"}, muxAt' = [muxAt EXCEPT ![w] = p],
         UNCHANGED <<workerThreadHandle, stopThread, clients>>
  PROVE  WorkersInv'
<1>1. w \in Clients \cup MuxWorkers /\ p \in ClientPlaces \cup MuxWorkerPlaces
  BY DEF MuxWorkerPlaces
<1>2. /\ muxAt'[w] = p /\ \A c \in Clients : muxAt'[c] = muxAt[c]
      /\ \A v \in MuxWorkers : v # w => muxAt'[v] = muxAt[v]
  BY <1>1, MovesKeep
<1>3. workerThreadHandle = w
  BY WorkersFacts
<1>4. p # "off" /\ p # "ended"
  BY DEF MuxWorkerPlaces
<1> QED
  BY <1>2, <1>3, <1>4, WorkersFacts, WorkersShown

\* Where clients call one at a time, who works and who relies on it is kept by every step.
LEMMA WorkersKept ==
  ASSUME MuxTypes, ServedInv, WorkersInv, ~Overlapping, MuxNext
  PROVE  WorkersInv'
<1> USE DEF ClientPlaces, MuxWorkerPlaces
<1>1. /\ clients \in Seq(Clients) /\ IsInjective(clients) /\ workerThreadHandle # "freed"
      /\ \A c \in Range(clients) : c \in Clients /\ muxAt[c] \in {"on", "starting", "adding"}
      /\ muxAt \in [Clients \cup MuxWorkers -> ClientPlaces \cup MuxWorkerPlaces]
  <2>1. DOMAIN clients = 1..Len(clients) /\ \A i \in 1..Len(clients) : clients[i] \in Clients
    BY LenProperties, ElementOfSeq DEF MuxTypes
  <2> QED
    BY <2>1 DEF MuxTypes, MuxTypeOK, ServedInv, MuxNext, Range
<1>2. ASSUME NEW c \in Clients, IoTHubTransport_StartWorkerThread(c)
      PROVE  WorkersInv'
  <2> DEFINE p == IF workerThreadHandle = "none" THEN "starting" ELSE "adding"
  <2>1. /\ muxAt' = [muxAt EXCEPT ![c] = p] /\ muxAt[c] \in {"off", "on"}
        /\ \A d \in Clients : muxAt[d] \notin {"starting", "adding", "joining"}
        /\ UNCHANGED <<workerThreadHandle, stopThread, clients>>
    BY <1>2 DEF IoTHubTransport_StartWorkerThread
  <2>2. p \in {"starting", "adding"} /\ (p = "starting" <=> workerThreadHandle = "none")
    OBVIOUS
  <2> HIDE DEF p
  <2>3. /\ muxAt'[c] = p /\ \A w \in MuxWorkers : muxAt'[w] = muxAt[w]
        /\ \A d \in Clients : d # c => muxAt'[d] = muxAt[d]
    BY <2>1, <2>2, MovesKeep
  <2>4. workerThreadHandle \in MuxWorkers => muxAt[workerThreadHandle] # "ended" /\ ~stopThread
    <3>1. ASSUME workerThreadHandle \in MuxWorkers
          PROVE  \E d \in Clients : muxAt[d] = "on"
      BY <2>1, <3>1, WorkersFacts
    <3> QED
      BY <3>1, WorkersFacts
  <2>5. /\ p = "starting" => workerThreadHandle \notin MuxWorkers
        /\ p = "adding" => workerThreadHandle \in MuxWorkers
    BY <1>1, <2>2, MuxKinds, WorkersFacts
  <2> QED
    BY <2>1, <2>2, <2>3, <2>4, <2>5, WorkersFacts, WorkersShown
<1>3. ASSUME NEW c \in Clients, CreateMuxWorker(c)
      PROVE  WorkersInv'
  <2>1. PICK w \in MuxWorkers : /\ muxAt[w] = "off" /\ workerThreadHandle' = w
                                /\ muxAt' = [muxAt EXCEPT ![c] = "adding", ![w] = "loop"]
    BY <1>3 DEF CreateMuxWorker
  <2>2. muxAt[c] = "starting" /\ stopThread' = FALSE /\ UNCHANGED clients
    BY <1>3 DEF CreateMuxWorker
  <2>3. /\ muxAt'[c] = "adding" /\ muxAt'[w] = "loop"
        /\ \A d \in Clients : d # c => muxAt'[d] = muxAt[d]
        /\ \A v \in MuxWorkers : v # w => muxAt'[v] = muxAt[v]
    BY <1>1, <2>1, MuxKinds
  <2>4. workerThreadHandle \notin MuxWorkers
    BY <2>2, WorkersFacts
  <2>5. \A d \in Clients : d # c => muxAt'[d] \in {"off", "gone"}
    BY <2>2, <2>3, <2>4, WorkersFacts
  <2> QED
    BY <2>1, <2>2, <2>3, <2>4, <2>5, WorkersFacts, WorkersShown
<1>4. ASSUME NEW c \in Clients, start_worker_if_needed(c)
      PROVE  WorkersInv'
  <2>1. /\ muxAt[c] = "adding" /\ muxAt' = [muxAt EXCEPT ![c] = "on"]
        /\ clients' = IF Contains(clients, c) THEN clients ELSE Append(clients, c)
        /\ UNCHANGED <<workerThreadHandle, stopThread>>
    BY <1>4 DEF start_worker_if_needed
  <2>2. /\ muxAt'[c] = "on" /\ \A w \in MuxWorkers : muxAt'[w] = muxAt[w]
        /\ \A d \in Clients : d # c => muxAt'[d] = muxAt[d]
    <3>1. "on" \in ClientPlaces \cup MuxWorkerPlaces /\ c \in Clients \cup MuxWorkers
      BY MuxKinds
    <3> QED
      BY <2>1, <3>1, MovesKeep
  <2>3. Range(clients) \subseteq Range(clients') /\ c \in Range(clients')
    <3>1. CASE Contains(clients, c)
      BY <1>1, <2>1, <3>1, LenProperties DEF Contains, Range
    <3>2. CASE ~Contains(clients, c)
      BY <1>1, <2>1, <3>2, AppendNoDuplicates
    <3> QED
      BY <3>1, <3>2
  <2>4. \A d \in Clients : d # c => muxAt[d] \notin {"starting", "adding", "joining"}
    BY <2>1, WorkersFacts
  <2>5. /\ workerThreadHandle \in MuxWorkers /\ muxAt[workerThreadHandle] # "ended"
        /\ ~stopThread
    BY <2>1, WorkersFacts
  <2>6. \A d \in Clients : /\ muxAt'[d] \notin {"starting", "adding", "joining"}
                           /\ muxAt'[d] = "on" => d \in Range(clients')
    BY <2>2, <2>3, <2>4, WorkersFacts
  <2>7. /\ \A w \in MuxWorkers : w # workerThreadHandle' => muxAt'[w] \in {"off", "ended"}
        /\ muxAt'[workerThreadHandle'] \notin {"off", "ended"} /\ ~stopThread'
        /\ workerThreadHandle' \in MuxWorkers
    BY <2>1, <2>2, <2>5, WorkersFacts
  <2>8. ~AllGone'
    BY <2>2 DEF AllGone
  <2> QED
    BY <2>6, <2>7, <2>8 DEF WorkersInv
<1>5. ASSUME NEW c \in Clients, IoTHubTransport_SignalEndWorkerThread(c)
      PROVE  WorkersInv'
  <2> DEFINE p == IF workerThreadHandle # "none" /\ clients' = <<>> THEN "joining" ELSE "gone"
  <2>1. /\ muxAt' = [muxAt EXCEPT ![c] = p] /\ muxAt[c] = "on"
        /\ \A d \in Clients : muxAt[d] \notin {"starting", "adding", "joining"}
        /\ clients' = Without(clients, c)
        /\ stopThread' = (stopThread \/ (workerThreadHandle # "none" /\ clients' = <<>>))
        /\ UNCHANGED workerThreadHandle
    BY <1>5 DEF IoTHubTransport_SignalEndWorkerThread
  <2>2. workerThreadHandle \in MuxWorkers /\ workerThreadHandle # "none" /\ ~stopThread
        /\ muxAt[workerThreadHandle] # "ended"
    BY <2>1, WorkersFacts, MuxKinds
  <2>3. p \in {"joining", "gone"} /\ (p = "joining" <=> clients' = <<>>)
    BY <2>2
  <2>4. clients' \in Seq(Clients) /\ Range(clients') = Range(clients) \ {c}
    BY <1>1, <2>1, WithoutElements
  <2>5. clients' = <<>> <=> Range(clients') = {}
    BY <2>4, NoElements
  <2> HIDE DEF p
  <2>6. /\ muxAt'[c] = p /\ \A w \in MuxWorkers : muxAt'[w] = muxAt[w]
        /\ \A d \in Clients : d # c => muxAt'[d] = muxAt[d]
    BY <2>1, <2>3, MovesKeep
  <2>7. \A d \in Clients : d # c /\ muxAt[d] = "on" => d \in Range(clients') /\ clients' # <<>>
    BY <2>4, <2>5, WorkersFacts
  <2>8. clients' # <<>> => \E d \in Clients : d # c /\ muxAt[d] = "on"
    BY <1>1, <2>1, <2>4, <2>5
  <2>9. clients' # <<>> => ~stopThread'
    BY <2>1, <2>2
  <2> QED
    BY <2>1, <2>2, <2>3, <2>6, <2>7, <2>8, <2>9, WorkersFacts, WorkersShown
<1>6. ASSUME NEW c \in Clients, IoTHubTransport_JoinWorkerThread(c)
      PROVE  WorkersInv'
  <2>1. /\ muxAt[c] = "joining" /\ muxAt' = [muxAt EXCEPT ![c] = "gone"]
        /\ workerThreadHandle # "none" => muxAt[workerThreadHandle] = "ended"
        /\ workerThreadHandle' = "none" /\ UNCHANGED <<stopThread, clients>>
    BY <1>6 DEF IoTHubTransport_JoinWorkerThread
  <2>2. "gone" \in ClientPlaces \cup MuxWorkerPlaces /\ c \in Clients \cup MuxWorkers
    BY MuxKinds
  <2>3. /\ muxAt'[c] = "gone" /\ \A w \in MuxWorkers : muxAt'[w] = muxAt[w]
        /\ \A d \in Clients : d # c => muxAt'[d] = muxAt[d]
    BY <2>1, <2>2, MovesKeep
  <2>4. /\ workerThreadHandle \in MuxWorkers /\ muxAt[workerThreadHandle] = "ended"
        /\ "none" \notin MuxWorkers
    BY <2>1, WorkersFacts, MuxKinds
  <2>5. \A d \in Clients : d # c => muxAt[d] \in {"off", "gone"}
    BY <2>1, <2>4, WorkersFacts
  <2>6. \A w \in MuxWorkers : muxAt'[w] \in {"off", "ended"}
    BY <2>3, <2>4, WorkersFacts
  <2>7. \A d \in Clients : muxAt'[d] \notin {"starting", "adding", "joining", "on"}
    BY <2>3, <2>5
  <2>8. workerThreadHandle' \notin MuxWorkers
    BY <2>1, <2>4
  <2> QED
    BY <2>6, <2>7, <2>8 DEF WorkersInv, AllGone
<1>7. ASSUME NEW w \in MuxWorkers, transport_worker_thread(w)
      PROVE  WorkersInv'
  <2>1. muxAt[w] = "loop" /\ UNCHANGED <<workerThreadHandle, stopThread, clients>>
    BY <1>7 DEF transport_worker_thread
  <2>2. CASE muxAt' = [muxAt EXCEPT ![w] = "worked"]
    BY <2>1, <2>2, WorkerGoesOn
  <2>3. CASE stopThread /\ muxAt' = [muxAt EXCEPT ![w] = "ended"]
    <3>1. "ended" \in ClientPlaces \cup MuxWorkerPlaces /\ w \in Clients \cup MuxWorkers
      BY MuxKinds
    <3>2. /\ muxAt'[w] = "ended" /\ \A c \in Clients : muxAt'[c] = muxAt[c]
          /\ \A v \in MuxWorkers : v # w => muxAt'[v] = muxAt[v]
      BY <2>3, <3>1, MovesKeep
    <3>3. \A c \in Clients : muxAt[c] \notin {"adding", "on"}
      BY <2>3, WorkersFacts
    <3> QED
      BY <2>1, <3>2, <3>3, WorkersFacts, WorkersShown
  <2> QED
    BY <1>7, <2>2, <2>3 DEF transport_worker_thread
<1>8. ASSUME NEW w \in MuxWorkers, multiplexed_client_do_work(w)
      PROVE  WorkersInv'
  BY <1>8, WorkerGoesOn DEF multiplexed_client_do_work
<1>9. ASSUME NEW w \in MuxWorkers, EndOfClients(w)
      PROVE  WorkersInv'
  BY <1>9, WorkerGoesOn DEF EndOfClients
<1>10. ASSUME NEW w \in MuxWorkers, ScheduleWork_Thread_ForMultiplexing(w) \/ MuxCallbacks(w)
       PROVE  WorkersInv'
  <2>1. UNCHANGED <<muxAt, workerThreadHandle, stopThread, clients>>
    BY <1>10 DEF ScheduleWork_Thread_ForMultiplexing, MuxCallbacks
  <2> QED
    BY <2>1, WorkersFacts, WorkersShown
<1>11. CASE stop_worker_thread
  <2>1. /\ \A c \in Clients : muxAt[c] \in {"off", "gone"}
        /\ UNCHANGED <<muxAt, workerThreadHandle, clients>>
    BY <1>11 DEF stop_worker_thread, AllGone
  <2> QED
    BY <2>1, WorkersFacts, WorkersShown
<1>12. CASE IoTHubTransport_Destroy
  <2>1. /\ \A c \in Clients : muxAt[c] \in {"off", "gone"}
        /\ workerThreadHandle' = "freed" /\ UNCHANGED <<muxAt, stopThread, clients>>
    BY <1>12 DEF IoTHubTransport_Destroy, AllGone
  <2>2. "freed" \notin MuxWorkers /\ workerThreadHandle \notin MuxWorkers
    BY <2>1, WorkersFacts, MuxKinds
  <2> QED
    BY <2>1, <2>2, WorkersFacts, WorkersShown
<1>13. ASSUME NEW w \in MuxWorkers, DoWorkCallbackCalls(w) \/ MuxCallbackCalls(w)
       PROVE  WorkersInv'
  <2>1. /\ muxAt[w] \notin {"off", "ended"} /\ UNCHANGED <<workerThreadHandle, stopThread, clients>>
        /\ muxAt' = [muxAt EXCEPT ![w] = "hung"] \/ muxAt' = [muxAt EXCEPT ![w] = "blocked"]
    BY <1>13 DEF DoWorkCallbackCalls, MuxCallbackCalls
  <2> QED
    BY <2>1, WorkerGoesOn
<1> QED
  BY <1>2, <1>3, <1>4, <1>5, <1>6, <1>7, <1>8, <1>9, <1>10, <1>11, <1>12, <1>13 DEF MuxNext, MuxCall, MuxWork

\* At the beginning there is no worker and no client.
LEMMA MuxInitial ==
  ASSUME MuxInit
  PROVE  MuxInv
<1>1. /\ muxAt = [t \in Clients \cup MuxWorkers |-> "off"] /\ clients = <<>>
      /\ workerThreadHandle = "none" /\ stopThread = TRUE /\ clientsLockHandle = "free"
      /\ serving = [w \in MuxWorkers |-> 0] /\ current = [w \in MuxWorkers |-> "none"] /\ muxSaved = {}
  BY DEF MuxInit
<1>2. \A t \in Clients \cup MuxWorkers : muxAt[t] = "off"
  BY <1>1
<1>3. \A w \in MuxWorkers : serving[w] = 0 /\ current[w] = "none"
  BY <1>1
<1>4. clients \in Seq(Clients) /\ IsInjective(clients) /\ Range(clients) = {}
  BY <1>1 DEF IsInjective, Range
<1>5. MuxTypes
  <2>1. MuxTypeOK
    BY <1>1, <1>2, <1>4, MuxKinds DEF MuxTypeOK
  <2>2. /\ muxAt \in [Clients \cup MuxWorkers -> ClientPlaces \cup MuxWorkerPlaces]
        /\ \A c \in Clients : muxAt[c] \in ClientPlaces
        /\ \A w \in MuxWorkers : muxAt[w] \in MuxWorkerPlaces
    BY <1>1, <1>2 DEF ClientPlaces, MuxWorkerPlaces
  <2>3. serving \in [MuxWorkers -> Nat] /\ current \in [MuxWorkers -> Clients \cup {"none"}]
    BY <1>1
  <2> QED
    BY <1>4, <2>1, <2>2, <2>3 DEF MuxTypes
<1>6. ServedInv
  BY <1>3, <1>4 DEF ServedInv
<1>7. WorkersInv
  <2>1. "none" \notin MuxWorkers
    BY MuxKinds
  <2> QED
    BY <1>1, <1>2, <2>1 DEF WorkersInv
<1> QED
  BY <1>5, <1>6, <1>7 DEF MuxInv

\* Every step keeps it, and a step that does not concern the transport does.
LEMMA MuxStep ==
  ASSUME MuxInv, MuxNext \/ UNCHANGED muxVars
  PROVE  MuxInv'
<1>1. CASE MuxNext
  BY <1>1, MuxTypesKept, ServedKept, WorkersKept DEF MuxInv
<1>2. CASE UNCHANGED muxVars
  BY <1>2 DEF muxVars, MuxInv, MuxTypes, MuxTypeOK, ServedInv, WorkersInv, AllGone, Contains
<1> QED
  BY <1>1, <1>2

\* It says what is promised of the worker and the clients.
LEMMA MuxImplies ==
  ASSUME MuxInv
  PROVE  MuxTypeOK /\ OnlyLiveServed /\ (~Overlapping => ThreadOutlivesClients)
<1>1. OnlyLiveServed
  BY DEF MuxInv, ServedInv, OnlyLiveServed
<1>2. ASSUME ~Overlapping
      PROVE  ThreadOutlivesClients
  <2>1. WorkersInv /\ MuxTypes
    BY <1>2 DEF MuxInv
  <2> QED
    BY <2>1, WorkersFacts, MuxKinds DEF ThreadOutlivesClients
<1> QED
  BY <1>1, <1>2 DEF MuxInv, MuxTypes

-----------------------------------------------------------------------------
(* The theorems of a shared transport *)

\* The worker of a shared transport calls callbacks only of clients that have not passed
\* IoTHubTransport_SignalEndWorkerThread, holding clientsLockHandle, and each client is in
\* clients once, whatever the threads do.
THEOREM ServedAreLive == MuxSpec => [](MuxTypeOK /\ OnlyLiveServed)
<1>1. MuxInit => MuxInv
  BY MuxInitial
<1>2. MuxInv /\ [MuxNext]_muxVars => MuxInv'
  BY MuxStep
<1>3. MuxInv => MuxTypeOK /\ OnlyLiveServed
  BY MuxImplies
<1> QED
  BY <1>1, <1>2, <1>3, PTL DEF MuxSpec

\* Where clients make their first call and end one at a time, a client that is on has a worker
\* that runs, and a freed transport has no thread: stopThread is set for the last client only,
\* and that client joins the worker the first one started.
THEOREM WorkerOutlivesClients == ~Overlapping => (MuxSpec => []ThreadOutlivesClients)
<1> SUFFICES ASSUME ~Overlapping
             PROVE  MuxSpec => []ThreadOutlivesClients
  OBVIOUS
<1>1. MuxInit => MuxInv
  BY MuxInitial
<1>2. MuxInv /\ [MuxNext]_muxVars => MuxInv'
  BY MuxStep
<1>3. MuxInv => ThreadOutlivesClients
  BY MuxImplies
<1> QED
  BY <1>1, <1>2, <1>3, PTL DEF MuxSpec

-----------------------------------------------------------------------------
(* The layer: either kind of worker *)

\* Every behaviour of the layer is one of a client with its own worker and one of a shared
\* transport: the one that is not exercised does nothing.
LEMMA LayerParts == Spec => CoreSpec /\ MuxSpec
<1>1. Init => CoreInit /\ MuxInit
  BY DEF Init
<1>2. [Next]_<<coreVars, muxVars, uses>> => [CoreNext]_coreVars /\ [MuxNext]_muxVars
  BY DEF Next, OwnWorker, SharedWorker
<1> QED
  BY <1>1, <1>2, PTL DEF Spec, CoreSpec, MuxSpec

\* All the run checks of the convenience layer in every state, for any number of application
\* threads, workers, uploads, items and clients: provided first calls, and the calls of clients
\* that share a transport with one that ends, do not overlap, which is what their unlocked
\* reads of ThreadHandle and workerThreadHandle need.
THEOREM LayerIsSound == ~Overlapping => (Spec /\ []FirstCallsApart => []LayerSound)
<1> SUFFICES ASSUME ~Overlapping
             PROVE  Spec /\ []FirstCallsApart => []LayerSound
  OBVIOUS
<1>1. CoreInv => CoreTypeOK /\ AllConfirmed /\ ConfirmedInOrder /\ NothingLeftBehind /\ ContextsLive
  BY CoreImplies DEF CoreInv
<1>2. /\ CoreTypeOK /\ AllConfirmed /\ ConfirmedInOrder /\ NothingLeftBehind /\ ContextsLive
      /\ MuxTypeOK /\ OnlyLiveServed /\ ThreadOutlivesClients
      => LayerSound
  BY DEF LayerSound
<1>3. MuxSpec => []ThreadOutlivesClients
  BY WorkerOutlivesClients
<1> QED
  BY <1>1, <1>2, <1>3, LayerParts, CoreInvariant, ServedAreLive, PTL

\* Whatever the client does besides, the application is told of each message, reported state
\* and twin request at most once, and of none it did not hand over.
THEOREM LayerAnswersOnce == Spec /\ []FirstCallsApart => AnsweredOnce
BY LayerParts, ClientAnswersOnce, PTL

=============================================================================
