---------------------------- MODULE SequenceFacts ----------------------------
(***************************************************************************)
(* What RemoveAt, Append and \o do to the lists (SINGLYLINKEDLIST) of the   *)
(* models: removing an item keeps the order of the others, and from a list  *)
(* without duplicates it removes exactly that item; what FlattenSeq makes of  *)
(* a list of lists that are in order; and what is left of a list in order     *)
(* when some items are taken out of it.                                       *)
(***************************************************************************)
EXTENDS Integers, Sequences, SequencesExt, SequenceTheorems, WellFoundedInduction, TLAPS

\* The elements of RemoveAt(s, i): those before i stay, those after it move up.
LEMMA RemoveAtElements ==
  ASSUME NEW S, NEW s \in Seq(S), NEW i \in 1..Len(s)
  PROVE  /\ RemoveAt(s, i) \in Seq(S)
         /\ Len(RemoveAt(s, i)) = Len(s) - 1
         /\ \A j \in 1..(Len(s) - 1) :
              RemoveAt(s, i)[j] = IF j < i THEN s[j] ELSE s[j + 1]
<1> DEFINE a == SubSeq(s, 1, i - 1)
           b == SubSeq(s, i + 1, Len(s))
<1>0. Len(s) \in Nat /\ i \in Nat /\ 1 <= i /\ i <= Len(s)
  OBVIOUS
<1>1. a \in Seq(S) /\ Len(a) = i - 1 /\ \A j \in 1..(i - 1) : a[j] = s[j]
  BY <1>0
<1>2. b \in Seq(S) /\ Len(b) = Len(s) - i /\ \A j \in 1..(Len(s) - i) : b[j] = s[i + j]
  BY <1>0
<1>3. RemoveAt(s, i) = a \o b
  BY DEF RemoveAt
<1> HIDE DEF a, b
<1>4. a \o b \in Seq(S) /\ Len(a \o b) = Len(s) - 1
  <2>1. a \o b \in Seq(S) /\ Len(a \o b) = Len(a) + Len(b)
    BY <1>1, <1>2, ConcatProperties
  <2> QED
    BY <1>0, <1>1, <1>2, <2>1
<1>5. ASSUME NEW j \in 1..(Len(s) - 1)
      PROVE  (a \o b)[j] = IF j < i THEN s[j] ELSE s[j + 1]
  <2>0. j \in Nat /\ 1 <= j /\ j <= Len(s) - 1
    BY <1>0
  <2>1. CASE j < i
    <3>1. j \in 1..Len(a)
      BY <1>0, <1>1, <2>0, <2>1
    <3>2. (a \o b)[j] = a[j]
      BY <1>1, <1>2, <3>1
    <3> QED
      BY <1>0, <1>1, <2>0, <2>1, <3>2
  <2>2. CASE ~(j < i)
    <3>1. j \in (Len(a) + 1)..(Len(a) + Len(b))
      BY <1>0, <1>1, <1>2, <2>0, <2>2
    <3>2. (a \o b)[j] = b[j - Len(a)]
      BY <1>1, <1>2, <3>1
    <3>3. j - Len(a) \in 1..(Len(s) - i) /\ i + (j - Len(a)) = j + 1
      BY <1>0, <1>1, <2>0, <2>2
    <3> QED
      BY <1>2, <2>2, <3>2, <3>3
  <2> QED
    BY <2>1, <2>2
<1> QED
  BY <1>3, <1>4, <1>5

\* Removing the i-th item of a list without duplicates leaves a list without
\* duplicates that holds every other item.
LEMMA RemoveAtNoDuplicates ==
  ASSUME NEW S, NEW s \in Seq(S), IsInjective(s), NEW i \in 1..Len(s)
  PROVE  /\ IsInjective(RemoveAt(s, i))
         /\ Range(RemoveAt(s, i)) = Range(s) \ {s[i]}
<1> DEFINE r == RemoveAt(s, i)
<1>1. /\ r \in Seq(S) /\ Len(r) = Len(s) - 1
      /\ \A j \in 1..(Len(s) - 1) : r[j] = IF j < i THEN s[j] ELSE s[j + 1]
  BY RemoveAtElements
<1> HIDE DEF r
<1>2. DOMAIN r = 1..(Len(s) - 1) /\ DOMAIN s = 1..Len(s) /\ Len(s) \in Nat /\ i \in Nat
  BY <1>1
<1>3. \A j, k \in 1..Len(s) : s[j] = s[k] => j = k
  BY <1>2 DEF IsInjective
<1>4. IsInjective(r)
  BY <1>1, <1>2, <1>3 DEF IsInjective
<1>5. ASSUME NEW j \in 1..(Len(s) - 1)
      PROVE  \E k \in 1..Len(s) : r[j] = s[k] /\ s[k] # s[i]
  BY <1>1, <1>2, <1>3
<1>6. ASSUME NEW k \in 1..Len(s), s[k] # s[i]
      PROVE  \E j \in 1..(Len(s) - 1) : r[j] = s[k]
  <2>1. CASE k < i
    BY <1>1, <1>2, <2>1
  <2>2. CASE k > i
    <3>1. k - 1 \in 1..(Len(s) - 1) /\ ~(k - 1 < i) /\ (k - 1) + 1 = k
      BY <1>2, <2>2
    <3> QED
      BY <1>1, <3>1
  <2> QED
    BY <1>2, <1>6, <2>1, <2>2
<1>7. Range(r) = Range(s) \ {s[i]}
  <2>1. Range(r) \subseteq Range(s) \ {s[i]}
    BY <1>2, <1>5 DEF Range
  <2>2. Range(s) \ {s[i]} \subseteq Range(r)
    BY <1>2, <1>6 DEF Range
  <2> QED
    BY <2>1, <2>2
<1> QED
  BY <1>4, <1>7 DEF r

\* The tail of a list is the list without its first item.
LEMMA TailIsRemoveAt ==
  ASSUME NEW S, NEW s \in Seq(S), s # <<>>
  PROVE  /\ 1 \in 1..Len(s) /\ Head(s) = s[1] /\ s[1] \in S
         /\ Tail(s) = RemoveAt(s, 1)
<1>1. Len(s) \in Nat /\ Len(s) > 0 /\ 1 \in 1..Len(s)
  BY EmptySeq
<1>2. Head(s) = s[1] /\ s[1] \in S
  BY <1>1
<1>3. Tail(s) \in Seq(S) /\ Len(Tail(s)) = Len(s) - 1
      /\ \A j \in 1..(Len(s) - 1) : Tail(s)[j] = s[j + 1]
  BY <1>1, HeadTailProperties
<1>4. RemoveAt(s, 1) \in Seq(S) /\ Len(RemoveAt(s, 1)) = Len(s) - 1
      /\ \A j \in 1..(Len(s) - 1) : RemoveAt(s, 1)[j] = IF j < 1 THEN s[j] ELSE s[j + 1]
  BY <1>1, RemoveAtElements
<1>5. \A j \in 1..(Len(s) - 1) : Tail(s)[j] = RemoveAt(s, 1)[j]
  BY <1>1, <1>3, <1>4
<1>6. Tail(s) = RemoveAt(s, 1)
  BY <1>1, <1>3, <1>4, <1>5, SeqEqual
<1> QED
  BY <1>1, <1>2, <1>6

\* Appending an item that is not in a list without duplicates.
LEMMA AppendNoDuplicates ==
  ASSUME NEW S, NEW s \in Seq(S), NEW e \in S
  PROVE  /\ Append(s, e) \in Seq(S)
         /\ Range(Append(s, e)) = Range(s) \cup {e}
         /\ IsInjective(s) /\ e \notin Range(s) => IsInjective(Append(s, e))
<1> DEFINE r == Append(s, e)
<1>1. /\ r \in Seq(S) /\ Len(r) = Len(s) + 1
      /\ \A j \in 1..Len(s) : r[j] = s[j]
      /\ r[Len(s) + 1] = e
  BY AppendProperties
<1> HIDE DEF r
<1>2. DOMAIN r = 1..(Len(s) + 1) /\ DOMAIN s = 1..Len(s) /\ Len(s) \in Nat
  BY <1>1
<1>3. Range(r) = Range(s) \cup {e}
  <2>1. Range(r) \subseteq Range(s) \cup {e}
    BY <1>1, <1>2 DEF Range
  <2>2. Range(s) \subseteq Range(r)
    BY <1>1, <1>2 DEF Range
  <2>3. e \in Range(r)
    BY <1>1, <1>2 DEF Range
  <2> QED
    BY <2>1, <2>2, <2>3
<1>4. IsInjective(s) /\ e \notin Range(s) => IsInjective(r)
  BY <1>1, <1>2 DEF Range, IsInjective
<1> QED
  BY <1>1, <1>3, <1>4 DEF r

\* Concatenating two lists without duplicates and without common items.
LEMMA ConcatNoDuplicates ==
  ASSUME NEW S, NEW s \in Seq(S), NEW t \in Seq(S)
  PROVE  /\ s \o t \in Seq(S)
         /\ Range(s \o t) = Range(s) \cup Range(t)
         /\ IsInjective(s) /\ IsInjective(t) /\ Range(s) \cap Range(t) = {}
              => IsInjective(s \o t)
<1> DEFINE r == s \o t
<1>1. /\ r \in Seq(S) /\ Len(r) = Len(s) + Len(t)
      /\ \A j \in 1..Len(s) : r[j] = s[j]
      /\ \A j \in (Len(s) + 1)..(Len(s) + Len(t)) : r[j] = t[j - Len(s)]
  OBVIOUS
<1> HIDE DEF r
<1>2. /\ DOMAIN r = 1..(Len(s) + Len(t)) /\ DOMAIN s = 1..Len(s) /\ DOMAIN t = 1..Len(t)
      /\ Len(s) \in Nat /\ Len(t) \in Nat
  BY <1>1
<1>3. ASSUME NEW k \in 1..Len(t)
      PROVE  k + Len(s) \in DOMAIN r /\ t[k] = r[k + Len(s)]
  <2>1. k + Len(s) \in (Len(s) + 1)..(Len(s) + Len(t)) /\ (k + Len(s)) - Len(s) = k
    BY <1>2
  <2> QED
    BY <1>1, <1>2, <2>1
<1>4. ASSUME NEW j \in DOMAIN r
      PROVE  \/ j \in DOMAIN s /\ r[j] = s[j]
             \/ j > Len(s) /\ j - Len(s) \in DOMAIN t /\ r[j] = t[j - Len(s)]
  BY <1>1, <1>2
<1>5. Range(r) = Range(s) \cup Range(t)
  <2>1. Range(r) \subseteq Range(s) \cup Range(t)
    BY <1>4 DEF Range
  <2>2. Range(s) \subseteq Range(r)
    BY <1>1, <1>2 DEF Range
  <2>3. Range(t) \subseteq Range(r)
    BY <1>2, <1>3 DEF Range
  <2> QED
    BY <2>1, <2>2, <2>3
<1>6. ASSUME IsInjective(s), IsInjective(t), Range(s) \cap Range(t) = {},
             NEW j \in DOMAIN r, NEW k \in DOMAIN r, r[j] = r[k]
      PROVE  j = k
  <2>1. CASE j \in DOMAIN s /\ r[j] = s[j]
    <3>1. r[j] \notin Range(t)
      BY <1>6, <2>1 DEF Range
    <3>2. k \in DOMAIN s /\ r[k] = s[k]
      BY <1>4, <1>6, <3>1 DEF Range
    <3> QED
      BY <1>6, <2>1, <3>2 DEF IsInjective
  <2>2. CASE j > Len(s) /\ j - Len(s) \in DOMAIN t /\ r[j] = t[j - Len(s)]
    <3>1. r[j] \notin Range(s)
      BY <1>6, <2>2 DEF Range
    <3>2. k > Len(s) /\ k - Len(s) \in DOMAIN t /\ r[k] = t[k - Len(s)]
      BY <1>4, <1>6, <3>1 DEF Range
    <3>3. j - Len(s) = k - Len(s)
      BY <1>6, <2>2, <3>2 DEF IsInjective
    <3> QED
      BY <1>2, <3>3
  <2> QED
    BY <1>4, <2>1, <2>2
<1> QED
  BY <1>1, <1>5, <1>6 DEF IsInjective, r

\* The items of a concatenation, by position.
LEMMA ConcatElements ==
  ASSUME NEW S, NEW s \in Seq(S), NEW t \in Seq(S)
  PROVE  /\ s \o t \in Seq(S)
         /\ DOMAIN (s \o t) = 1..(Len(s) + Len(t)) /\ Len(s \o t) = Len(s) + Len(t)
         /\ DOMAIN s = 1..Len(s) /\ DOMAIN t = 1..Len(t) /\ Len(s) \in Nat /\ Len(t) \in Nat
         /\ \A j \in 1..Len(s) : (s \o t)[j] = s[j]
         /\ \A j \in 1..Len(t) : Len(s) + j \in 1..(Len(s) + Len(t)) /\ (s \o t)[Len(s) + j] = t[j]
<1>1. Len(s) \in Nat /\ Len(t) \in Nat /\ DOMAIN s = 1..Len(s) /\ DOMAIN t = 1..Len(t)
  OBVIOUS
<1>2. /\ s \o t \in Seq(S) /\ Len(s \o t) = Len(s) + Len(t)
      /\ \A j \in 1..Len(s) : (s \o t)[j] = s[j]
      /\ \A j \in (Len(s) + 1)..(Len(s) + Len(t)) : (s \o t)[j] = t[j - Len(s)]
  OBVIOUS
<1>3. ASSUME NEW j \in 1..Len(t)
      PROVE  Len(s) + j \in 1..(Len(s) + Len(t)) /\ (s \o t)[Len(s) + j] = t[j]
  <2>1. Len(s) + j \in (Len(s) + 1)..(Len(s) + Len(t)) /\ (Len(s) + j) - Len(s) = j
    BY <1>1
  <2> QED
    BY <1>1, <1>2, <2>1
<1>4. DOMAIN (s \o t) = 1..(Len(s) + Len(t))
  BY <1>2
<1> QED
  BY <1>1, <1>2, <1>3, <1>4

\* The parts of a list without duplicates have none, and no common items.
LEMMA PartsNoDuplicates ==
  ASSUME NEW S, NEW s \in Seq(S), NEW t \in Seq(S), IsInjective(s \o t)
  PROVE  IsInjective(s) /\ IsInjective(t) /\ Range(s) \cap Range(t) = {}
<1> DEFINE r == s \o t
<1>1. /\ DOMAIN r = 1..(Len(s) + Len(t)) /\ DOMAIN s = 1..Len(s) /\ DOMAIN t = 1..Len(t)
      /\ Len(s) \in Nat /\ Len(t) \in Nat /\ IsInjective(r)
      /\ \A j \in 1..Len(s) : r[j] = s[j]
      /\ \A j \in 1..Len(t) : Len(s) + j \in DOMAIN r /\ r[Len(s) + j] = t[j]
  BY ConcatElements
<1> HIDE DEF r
<1>2. IsInjective(s)
  BY <1>1 DEF IsInjective
<1>3. ASSUME NEW j \in DOMAIN t, NEW k \in DOMAIN t, t[j] = t[k]
      PROVE  j = k
  <2>1. Len(s) + j = Len(s) + k
    BY <1>1, <1>3 DEF IsInjective
  <2> QED
    BY <1>1, <2>1
<1>4. ASSUME NEW j \in DOMAIN s, NEW k \in DOMAIN t, s[j] = t[k]
      PROVE  FALSE
  <2>1. j \in DOMAIN r /\ Len(s) + k \in DOMAIN r /\ r[j] = r[Len(s) + k]
    BY <1>1, <1>4
  <2>2. j = Len(s) + k
    BY <1>1, <2>1 DEF IsInjective
  <2> QED
    BY <1>1, <2>2
<1> QED
  BY <1>2, <1>3, <1>4 DEF IsInjective, Range

\* Removing an item from one of two lists removes it from their concatenation.
LEMMA ConcatRemoveAt ==
  ASSUME NEW S, NEW s \in Seq(S), NEW t \in Seq(S)
  PROVE  /\ \A i \in 1..Len(s) :
              i \in 1..Len(s \o t) /\ RemoveAt(s, i) \o t = RemoveAt(s \o t, i)
         /\ \A i \in 1..Len(t) :
              Len(s) + i \in 1..Len(s \o t) /\ s \o RemoveAt(t, i) = RemoveAt(s \o t, Len(s) + i)
<1> DEFINE r == s \o t
<1>0. /\ r \in Seq(S) /\ Len(r) = Len(s) + Len(t) /\ Len(s) \in Nat /\ Len(t) \in Nat
      /\ \A j \in 1..Len(s) : r[j] = s[j]
      /\ \A j \in 1..Len(t) : r[Len(s) + j] = t[j]
  BY ConcatElements
<1> HIDE DEF r
<1>1. ASSUME NEW i \in 1..Len(s)
      PROVE  i \in 1..Len(r) /\ RemoveAt(s, i) \o t = RemoveAt(r, i)
  <2> DEFINE u == RemoveAt(s, i)
             v == u \o t
             w == RemoveAt(r, i)
  <2>1. i \in 1..Len(r) /\ i \in Nat
    BY <1>0
  <2>2. u \in Seq(S) /\ Len(u) = Len(s) - 1
        /\ \A j \in 1..(Len(s) - 1) : u[j] = IF j < i THEN s[j] ELSE s[j + 1]
    BY RemoveAtElements
  <2>3. w \in Seq(S) /\ Len(w) = Len(r) - 1
        /\ \A j \in 1..(Len(r) - 1) : w[j] = IF j < i THEN r[j] ELSE r[j + 1]
    BY <1>0, <2>1, RemoveAtElements
  <2> HIDE DEF u, w
  <2>4. /\ v \in Seq(S) /\ Len(v) = Len(u) + Len(t)
        /\ \A j \in 1..Len(u) : v[j] = u[j]
        /\ \A j \in 1..Len(t) : v[Len(u) + j] = t[j]
    <3>1. u \in Seq(S)
      BY <2>2
    <3> QED
      BY <3>1, ConcatElements
  <2> HIDE DEF v
  <2>5. ASSUME NEW j \in 1..(Len(r) - 1)
        PROVE  v[j] = w[j]
    <3>1. CASE j <= Len(s) - 1
      <4>1. j \in 1..Len(u) /\ j \in 1..(Len(s) - 1) /\ j \in 1..Len(s) /\ j + 1 \in 1..Len(s)
        BY <1>0, <2>2, <3>1
      <4> QED
        BY <1>0, <2>2, <2>3, <2>4, <4>1
    <3>2. CASE j > Len(s) - 1
      <4> DEFINE k == j - (Len(s) - 1)
      <4>1. k \in 1..Len(t) /\ j = Len(u) + k /\ j + 1 = Len(s) + k /\ ~(j < i)
        BY <1>0, <2>1, <2>2, <3>2
      <4> HIDE DEF k
      <4> QED
        BY <1>0, <2>3, <2>4, <4>1
    <3> QED
      BY <1>0, <3>1, <3>2
  <2>6. Len(v) = Len(w)
    BY <1>0, <2>2, <2>3, <2>4
  <2>7. v = w
    BY <2>3, <2>4, <2>5, <2>6, SeqEqual
  <2> QED
    BY <2>1, <2>7 DEF u, v, w
<1>2. ASSUME NEW i \in 1..Len(t)
      PROVE  Len(s) + i \in 1..Len(r) /\ s \o RemoveAt(t, i) = RemoveAt(r, Len(s) + i)
  <2> DEFINE u == RemoveAt(t, i)
             p == Len(s) + i
             v == s \o u
             w == RemoveAt(r, p)
  <2>1. p \in 1..Len(r) /\ i \in Nat
    BY <1>0
  <2>2. u \in Seq(S) /\ Len(u) = Len(t) - 1
        /\ \A j \in 1..(Len(t) - 1) : u[j] = IF j < i THEN t[j] ELSE t[j + 1]
    BY RemoveAtElements
  <2>3. w \in Seq(S) /\ Len(w) = Len(r) - 1
        /\ \A j \in 1..(Len(r) - 1) : w[j] = IF j < p THEN r[j] ELSE r[j + 1]
    <3> HIDE DEF p
    <3> QED
      BY <1>0, <2>1, RemoveAtElements
  <2> HIDE DEF u, w
  <2>4. /\ v \in Seq(S) /\ Len(v) = Len(s) + Len(u)
        /\ \A j \in 1..Len(s) : v[j] = s[j]
        /\ \A j \in 1..Len(u) : v[Len(s) + j] = u[j]
    <3>1. u \in Seq(S)
      BY <2>2
    <3> QED
      BY <3>1, ConcatElements
  <2> HIDE DEF v
  <2>5. ASSUME NEW j \in 1..(Len(r) - 1)
        PROVE  v[j] = w[j]
    <3>1. CASE j <= Len(s)
      <4>1. j \in 1..Len(s) /\ j < p
        BY <1>0, <2>1, <3>1
      <4> QED
        BY <1>0, <2>3, <2>4, <4>1
    <3>2. CASE j > Len(s)
      <4> DEFINE k == j - Len(s)
      <4>1. k \in 1..Len(u) /\ j = Len(s) + k /\ k \in 1..(Len(t) - 1) /\ j + 1 = Len(s) + (k + 1)
            /\ (j < p <=> k < i) /\ k \in 1..Len(t) /\ k + 1 \in 1..Len(t)
        BY <1>0, <2>1, <2>2, <3>2
      <4> HIDE DEF k
      <4>2. w[j] = IF k < i THEN t[k] ELSE t[k + 1]
        <5>1. r[j] = t[k] /\ r[j + 1] = t[k + 1]
          BY <1>0, <4>1
        <5> QED
          BY <2>3, <4>1, <5>1
      <4>3. v[j] = u[k]
        BY <2>4, <4>1
      <4> QED
        BY <2>2, <4>1, <4>2, <4>3
    <3> QED
      BY <1>0, <3>1, <3>2
  <2>6. Len(v) = Len(w)
    BY <1>0, <2>2, <2>3, <2>4
  <2>7. v = w
    BY <2>3, <2>4, <2>5, <2>6, SeqEqual
  <2> QED
    BY <2>1, <2>7 DEF u, v, w
<1> QED
  BY <1>1, <1>2 DEF r

\* Appending to the second of two lists appends to their concatenation.
LEMMA ConcatAppend ==
  ASSUME NEW S, NEW s \in Seq(S), NEW t \in Seq(S), NEW e \in S
  PROVE  s \o Append(t, e) = Append(s \o t, e)
<1>1. Append(t, e) = t \o <<e>> /\ Append(s \o t, e) = (s \o t) \o <<e>>
  BY AppendIsConcat, ConcatProperties
<1> QED
  BY <1>1, ConcatAssociative

\* An item moved from the head of one list to the end of the one in front of it, and back.
LEMMA ConcatMoves ==
  ASSUME NEW S, NEW s \in Seq(S), NEW t \in Seq(S)
  PROVE  /\ t # <<>> => Append(s, Head(t)) \o Tail(t) = s \o t
         /\ s # <<>> => Front(s) \o (<<Last(s)>> \o t) = s \o t
<1>1. ASSUME t # <<>> PROVE Append(s, Head(t)) \o Tail(t) = s \o t
  <2>1. Head(t) \in S /\ Tail(t) \in Seq(S) /\ <<Head(t)>> \in Seq(S)
    BY <1>1
  <2>2. Append(s, Head(t)) = s \o <<Head(t)>> /\ t = <<Head(t)>> \o Tail(t)
    BY <1>1, <2>1, AppendIsConcat, HeadTailProperties
  <2> QED
    BY <2>1, <2>2, ConcatAssociative
<1>2. ASSUME s # <<>> PROVE Front(s) \o (<<Last(s)>> \o t) = s \o t
  <2>1. Len(s) \in Nat /\ Len(s) >= 1
    BY <1>2
  <2>2. /\ Front(s) \in Seq(S) /\ Len(Front(s)) = Len(s) - 1
        /\ \A j \in 1..(Len(s) - 1) : Front(s)[j] = s[j]
    <3> DEFINE n == Len(s) - 1
               f == SubSeq(s, 1, n)
    <3>1. n \in Nat /\ n <= Len(s)
      BY <2>1
    <3> HIDE DEF n
    <3>2. f \in Seq(S) /\ Len(f) = n /\ \A j \in 1..n : f[j] = s[j]
      BY <3>1
    <3>3. f = Front(s)
      BY DEF Front, n
    <3> HIDE DEF f
    <3> QED
      BY <3>2, <3>3 DEF n
  <2>3. Last(s) = s[Len(s)] /\ Last(s) \in S /\ <<Last(s)>> \in Seq(S)
    BY <2>1 DEF Last
  <2>4. s = Append(Front(s), Last(s))
    <3> DEFINE f == Front(s)
               a == Append(f, Last(s))
    <3> HIDE DEF f
    <3>1. a \in Seq(S) /\ Len(a) = Len(f) + 1
          /\ (\A j \in 1..Len(f) : a[j] = f[j]) /\ a[Len(f) + 1] = Last(s)
      BY <2>2, <2>3 DEF f
    <3> HIDE DEF a
    <3>2. Len(a) = Len(s) /\ \A j \in 1..Len(s) : a[j] = s[j]
      BY <2>1, <2>2, <2>3, <3>1, SMTT(30) DEF f
    <3>3. a = s
      BY <3>1, <3>2, SeqEqual
    <3> QED
      BY <3>3 DEF a, f
  <2>5. s = Front(s) \o <<Last(s)>>
    BY <2>2, <2>3, <2>4, AppendIsConcat
  <2> DEFINE f == Front(s)
             l == <<Last(s)>>
  <2>6. f \in Seq(S) /\ l \in Seq(S) /\ s = f \o l
    BY <2>2, <2>3, <2>5
  <2> HIDE DEF f, l
  <2>7. (f \o l) \o t = f \o (l \o t)
    BY <2>6, ConcatAssociative
  <2> QED
    BY <2>6, <2>7 DEF f, l
<1> QED
  BY <1>1, <1>2

\* A function on 1..n is a sequence of length n.
LEMMA FunctionIsSequence ==
  ASSUME NEW S, NEW n \in Nat, NEW f \in [1..n -> S]
  PROVE  f \in Seq(S) /\ Len(f) = n /\ DOMAIN f = 1..n
<1>1. f \in Seq(S)
  BY SeqDef
<1>2. DOMAIN f = 1..Len(f) /\ Len(f) \in Nat
  BY <1>1, LenProperties
<1> QED
  BY <1>1, <1>2

-----------------------------------------------------------------------------
(* Lists in order *)

\* A set of natural numbers with an element has a least one.
LEMMA LeastNatural ==
  ASSUME NEW S, S \subseteq Nat, S # {}
  PROVE  \E i \in S : \A j \in S : i <= j
<1> DEFINE R == OpToRel(<, Nat)
<1>1. IsWellFoundedOn(R, Nat)
  BY NatLessThanWellFounded
<1>2. \A i, j \in Nat : i < j => <<i, j>> \in R
  BY DEF OpToRel
<1> HIDE DEF R
<1>3. PICK i \in S : \A j \in S : <<j, i>> \notin R
  BY <1>1, WFMin
<1>4. ASSUME NEW j \in S PROVE i <= j
  <2>1. i \in Nat /\ j \in Nat /\ ~(j < i)
    BY <1>2, <1>3
  <2> QED
    BY <2>1
<1> QED
  BY <1>4

\* Each item stands in the relation R to every later one.
Sorted(s, R) == \A i, j \in DOMAIN s : i < j => <<s[i], s[j]>> \in R

\* One list after another: in order, if each is and R relates the items of the first to those of the second.
LEMMA ConcatInOrder ==
  ASSUME NEW S, NEW s \in Seq(S), NEW t \in Seq(S), NEW R, Sorted(s, R), Sorted(t, R),
         \A x \in Range(s), y \in Range(t) : <<x, y>> \in R
  PROVE  /\ s \o t \in Seq(S)
         /\ Range(s \o t) = Range(s) \cup Range(t)
         /\ Sorted(s \o t, R)
<1> DEFINE r == s \o t
<1>1. /\ r \in Seq(S) /\ Len(r) = Len(s) + Len(t)
      /\ \A j \in 1..Len(s) : r[j] = s[j]
      /\ \A j \in (Len(s) + 1)..(Len(s) + Len(t)) : r[j] = t[j - Len(s)]
  OBVIOUS
<1>2. Range(r) = Range(s) \cup Range(t)
  BY ConcatNoDuplicates
<1> HIDE DEF r
<1>3. /\ DOMAIN r = 1..(Len(s) + Len(t)) /\ DOMAIN s = 1..Len(s) /\ DOMAIN t = 1..Len(t)
      /\ Len(s) \in Nat /\ Len(t) \in Nat
  BY <1>1
<1>4. ASSUME NEW i \in DOMAIN r, NEW j \in DOMAIN r, i < j
      PROVE  <<r[i], r[j]>> \in R
  <2>1. CASE j \in 1..Len(s)
    <3>1. i \in 1..Len(s)
      BY <1>3, <1>4, <2>1
    <3>2. r[i] = s[i] /\ r[j] = s[j]
      BY <1>1, <2>1, <3>1
    <3> QED
      BY <1>3, <1>4, <2>1, <3>1, <3>2 DEF Sorted
  <2>2. CASE i \in 1..Len(s) /\ j \notin 1..Len(s)
    <3>1. j \in (Len(s) + 1)..(Len(s) + Len(t)) /\ j - Len(s) \in 1..Len(t)
      BY <1>3, <2>2
    <3>2. r[i] \in Range(s) /\ r[j] \in Range(t)
      BY <1>1, <1>3, <2>2, <3>1 DEF Range
    <3> QED
      BY <3>2
  <2>3. CASE i \notin 1..Len(s) /\ j \notin 1..Len(s)
    <3>1. /\ i \in (Len(s) + 1)..(Len(s) + Len(t)) /\ i - Len(s) \in 1..Len(t)
          /\ j \in (Len(s) + 1)..(Len(s) + Len(t)) /\ j - Len(s) \in 1..Len(t)
          /\ i - Len(s) < j - Len(s)
      BY <1>3, <1>4, <2>3
    <3>2. r[i] = t[i - Len(s)] /\ r[j] = t[j - Len(s)]
      BY <1>1, <3>1
    <3> QED
      BY <1>3, <3>1, <3>2 DEF Sorted
  <2> QED
    BY <1>3, <1>4, <2>1, <2>2, <2>3
<1> QED
  BY <1>1, <1>2, <1>4 DEF Sorted, r

\* One more item at the end of a list in order.
LEMMA AppendInOrder ==
  ASSUME NEW S, NEW s \in Seq(S), NEW e \in S, NEW R, Sorted(s, R), \A x \in Range(s) : <<x, e>> \in R
  PROVE  /\ Append(s, e) \in Seq(S)
         /\ Range(Append(s, e)) = Range(s) \cup {e}
         /\ Sorted(Append(s, e), R)
<1> DEFINE r == Append(s, e)
<1>1. /\ r \in Seq(S) /\ Len(r) = Len(s) + 1
      /\ \A j \in 1..Len(s) : r[j] = s[j]
      /\ r[Len(s) + 1] = e
  BY AppendProperties
<1>2. Range(r) = Range(s) \cup {e}
  BY AppendNoDuplicates
<1> HIDE DEF r
<1>3. DOMAIN r = 1..(Len(s) + 1) /\ DOMAIN s = 1..Len(s) /\ Len(s) \in Nat
  BY <1>1
<1>4. ASSUME NEW i \in DOMAIN r, NEW j \in DOMAIN r, i < j
      PROVE  <<r[i], r[j]>> \in R
  <2>1. i \in 1..Len(s) /\ r[i] = s[i] /\ r[i] \in Range(s)
    BY <1>1, <1>3, <1>4 DEF Range
  <2>2. CASE j \in 1..Len(s)
    BY <1>1, <1>3, <1>4, <2>1, <2>2 DEF Sorted
  <2>3. CASE j = Len(s) + 1
    BY <1>1, <2>1, <2>3
  <2> QED
    BY <1>3, <2>2, <2>3
<1> QED
  BY <1>1, <1>2, <1>4 DEF Sorted, r

\* What is left of a list in order when its first item is taken.
LEMMA TailInOrder ==
  ASSUME NEW S, NEW s \in Seq(S), s # <<>>, NEW R, Sorted(s, R)
  PROVE  /\ Head(s) \in S /\ Tail(s) \in Seq(S)
         /\ Range(s) = {Head(s)} \cup Range(Tail(s))
         /\ \A x \in Range(Tail(s)) : <<Head(s), x>> \in R
         /\ Sorted(Tail(s), R)
<1> DEFINE r == Tail(s)
<1>1. Len(s) \in Nat /\ Len(s) > 0 /\ DOMAIN s = 1..Len(s) /\ Head(s) = s[1] /\ s[1] \in S
  BY EmptySeq
<1>2. r \in Seq(S) /\ Len(r) = Len(s) - 1 /\ \A j \in 1..(Len(s) - 1) : r[j] = s[j + 1]
  BY <1>1, HeadTailProperties
<1> HIDE DEF r
<1>3. DOMAIN r = 1..(Len(s) - 1)
  BY <1>1, <1>2
<1>4. \A j \in DOMAIN r : j + 1 \in DOMAIN s /\ r[j] = s[j + 1] /\ 1 < j + 1
  BY <1>1, <1>2, <1>3
<1>5. Range(s) = {s[1]} \cup Range(r)
  <2>1. Range(s) \subseteq {s[1]} \cup Range(r)
    <3> SUFFICES ASSUME NEW j \in DOMAIN s, j # 1 PROVE s[j] \in Range(r)
      BY DEF Range
    <3>1. j - 1 \in DOMAIN r /\ r[j - 1] = s[j]
      BY <1>1, <1>2, <1>3
    <3> QED
      BY <3>1 DEF Range
  <2>2. s[1] \in Range(s) /\ Range(r) \subseteq Range(s)
    BY <1>1, <1>4 DEF Range
  <2> QED
    BY <2>1, <2>2
<1>6. \A x \in Range(r) : <<s[1], x>> \in R
  BY <1>1, <1>4 DEF Range, Sorted
<1>7. Sorted(r, R)
  <2> SUFFICES ASSUME NEW i \in DOMAIN r, NEW j \in DOMAIN r, i < j PROVE <<r[i], r[j]>> \in R
    BY DEF Sorted
  <2>1. i + 1 < j + 1
    BY <1>1, <1>3
  <2> QED
    BY <1>4, <2>1 DEF Sorted
<1> QED
  BY <1>1, <1>2, <1>5, <1>6, <1>7 DEF r

\* Lists of a list, each in order and related by R to the later ones, make one list in order of all their items.
LEMMA FlattenInOrder ==
  ASSUME NEW S, NEW s \in Seq(Seq(S)), NEW R, \A i \in DOMAIN s : Sorted(s[i], R),
         \A i, j \in DOMAIN s : i < j => \A x \in Range(s[i]), y \in Range(s[j]) : <<x, y>> \in R
  PROVE  /\ FlattenSeq(s) \in Seq(S)
         /\ Range(FlattenSeq(s)) = UNION {Range(s[i]) : i \in DOMAIN s}
         /\ Sorted(FlattenSeq(s), R)
<1> DEFINE n == Len(s)
           IsFlat(f, k) == f = [i \in 1..k |-> IF i = 1 THEN s[i] ELSE f[i - 1] \o s[i]]
           f == CHOOSE g : IsFlat(g, n)
           Union(k) == UNION {Range(s[i]) : i \in 1..k}
           Good(k) == /\ f[k] \in Seq(S)
                      /\ Range(f[k]) = Union(k)
                      /\ Sorted(f[k], R)
<1>1. n \in Nat /\ DOMAIN s = 1..n /\ \A i \in 1..n : s[i] \in Seq(S)
  OBVIOUS
<1>2. CASE n = 0
  <2>1. s = <<>> /\ FlattenSeq(s) = s
    BY <1>2, EmptySeq DEF FlattenSeq
  <2>2. DOMAIN s = {} /\ 1..0 = {}
    BY <1>1, <1>2
  <2>3. s \in Seq(S) /\ Sorted(s, R)
    BY <2>1, <2>2 DEF Sorted
  <2>4. Range(s) = {} /\ UNION {Range(s[i]) : i \in DOMAIN s} = {}
    BY <2>2 DEF Range
  <2> QED
    BY <2>1, <2>3, <2>4
<1>3. CASE n # 0
  <2>1. FlattenSeq(s) = f[n]
    BY <1>3 DEF FlattenSeq
  <2>2. \A k \in Nat : \E g : IsFlat(g, k)
    <3> DEFINE Bad == {k \in Nat : ~\E g : IsFlat(g, k)}
    <3>1. SUFFICES ASSUME Bad # {} PROVE FALSE
      OBVIOUS
    <3>2. PICK k \in Bad : \A j \in Bad : k <= j
      BY <3>1, LeastNatural
    <3>3. k # 0
      <4> DEFINE g == [i \in 1..0 |-> s]
      <4>1. IsFlat(g, 0)
        OBVIOUS
      <4> QED
        BY <4>1
    <3>4. k \in Nat /\ k - 1 \in Nat /\ k - 1 \notin Bad
      <4>1. k \in Nat /\ k - 1 \in Nat /\ ~(k <= k - 1)
        BY <3>3
      <4> QED
        BY <3>2, <4>1
    <3>5. PICK g : IsFlat(g, k - 1)
      BY <3>4
    <3> DEFINE h == [i \in 1..k |-> IF i < k THEN g[i] ELSE IF k = 1 THEN s[1] ELSE g[k - 1] \o s[k]]
    <3>6. ASSUME NEW i \in 1..k
          PROVE  h[i] = IF i = 1 THEN s[i] ELSE h[i - 1] \o s[i]
      <4>1. CASE i < k
        <5>1. i \in 1..(k - 1) /\ h[i] = g[i]
          BY <3>4, <4>1
        <5>2. g[i] = IF i = 1 THEN s[i] ELSE g[i - 1] \o s[i]
          BY <3>5, <5>1
        <5>3. i # 1 => i - 1 \in 1..k /\ i - 1 < k
          BY <3>4, <5>1
        <5> QED
          BY <5>1, <5>2, <5>3
      <4>2. CASE i = k
        <5>1. k # 1 => k - 1 \in 1..k /\ k - 1 < k
          BY <3>4
        <5> QED
          BY <3>4, <4>2, <5>1
      <4> QED
        BY <3>4, <4>1, <4>2
    <3>7. IsFlat(h, k)
      BY <3>6
    <3> QED
      BY <3>2, <3>7
  <2>3. IsFlat(f, n)
    BY <1>1, <2>2
  <2> HIDE DEF f
  <2>4. \A i \in 1..n : f[i] = IF i = 1 THEN s[i] ELSE f[i - 1] \o s[i]
    BY <2>3
  <2>5. ASSUME NEW k \in 1..n PROVE Union(k) = (IF k = 1 THEN {} ELSE Union(k - 1)) \cup Range(s[k])
    <3>1. CASE k = 1
      <4>1. 1..k = {k}
        BY <3>1
      <4> QED
        BY <3>1, <4>1
    <3>2. CASE k # 1
      <4>1. 1..k = (1..(k - 1)) \cup {k}
        BY <1>1, <3>2
      <4>2. \A x : x \in Union(k) <=> \E i \in 1..k : x \in Range(s[i])
        OBVIOUS
      <4>3. \A x : x \in Union(k - 1) <=> \E i \in 1..(k - 1) : x \in Range(s[i])
        OBVIOUS
      <4> HIDE DEF Union
      <4> QED
        BY <3>2, <4>1, <4>2, <4>3
    <3> QED
      BY <3>1, <3>2
  <2>6. Union(n) = UNION {Range(s[i]) : i \in DOMAIN s}
    BY <1>1
  <2>7. \A k \in 1..n : \A x \in Union(k) : \E i \in 1..k : x \in Range(s[i])
    OBVIOUS
  <2> HIDE DEF Union
  <2>8. \A k \in 1..n : Good(k)
    <3> DEFINE Bad == {k \in 1..n : ~Good(k)}
    <3>1. SUFFICES ASSUME Bad # {} PROVE FALSE
      OBVIOUS
    <3>2. Bad \subseteq Nat
      BY <1>1
    <3>3. PICK k \in Bad : \A j \in Bad : k <= j
      BY <3>1, <3>2, LeastNatural
    <3>4. k \in 1..n /\ ~Good(k)
      OBVIOUS
    <3> HIDE DEF Bad
    <3>5. CASE k = 1
      <4>1. f[k] = s[k] /\ Union(k) = Range(s[k])
        BY <2>4, <2>5, <3>4, <3>5
      <4> QED
        BY <1>1, <3>4, <4>1
    <3>6. CASE k # 1
      <4>1. k - 1 \in 1..n /\ k - 1 < k /\ k \in Nat
        BY <1>1, <3>4, <3>6
      <4>2. Good(k - 1)
        <5>1. k - 1 \notin Bad
          BY <3>3, <4>1
        <5> QED
          BY <4>1, <5>1 DEF Bad
      <4>3. f[k] = f[k - 1] \o s[k]
        BY <2>4, <3>4, <3>6
      <4>4. \A x \in Range(f[k - 1]), y \in Range(s[k]) : <<x, y>> \in R
        <5> SUFFICES ASSUME NEW x \in Range(f[k - 1]), NEW y \in Range(s[k]) PROVE <<x, y>> \in R
          OBVIOUS
        <5>1. PICK i \in 1..(k - 1) : x \in Range(s[i])
          BY <2>7, <4>1, <4>2
        <5>2. i \in DOMAIN s /\ k \in DOMAIN s /\ i < k
          BY <1>1, <3>4, <4>1
        <5> QED
          BY <5>1, <5>2
      <4>5. /\ f[k - 1] \o s[k] \in Seq(S)
            /\ Range(f[k - 1] \o s[k]) = Range(f[k - 1]) \cup Range(s[k])
            /\ Sorted(f[k - 1] \o s[k], R)
        BY <1>1, <3>4, <4>2, <4>4, ConcatInOrder
      <4>6. Union(k) = Union(k - 1) \cup Range(s[k])
        BY <2>5, <3>4, <3>6
      <4> QED
        BY <3>4, <4>2, <4>3, <4>5, <4>6
    <3> QED
      BY <3>5, <3>6
  <2>9. Good(n)
    BY <1>1, <1>3, <2>8
  <2> QED
    BY <2>1, <2>6, <2>9
<1> QED
  BY <1>2, <1>3

\* What is left of a list without some of its items.
LEMMA FilterInOrder ==
  ASSUME NEW S, NEW list \in Seq(S), NEW R, Sorted(list, R), NEW drop, NEW parts \in [DOMAIN list -> Seq(S)],
         \A n \in DOMAIN list : parts[n] = IF list[n] \in drop THEN <<>> ELSE <<list[n]>>
  PROVE  /\ FlattenSeq(parts) \in Seq(S)
         /\ Range(FlattenSeq(parts)) = Range(list) \ drop
         /\ Sorted(FlattenSeq(parts), R)
<1> DEFINE left == FlattenSeq(parts)
<1>1. DOMAIN list = 1..Len(list) /\ Len(list) \in Nat
  OBVIOUS
<1>2. ASSUME NEW n \in DOMAIN list
      PROVE  /\ parts[n] \in Seq(S)
             /\ Range(parts[n]) = IF list[n] \in drop THEN {} ELSE {list[n]}
             /\ Sorted(parts[n], R)
  <2>1. CASE list[n] \in drop
    <3>1. parts[n] = <<>> /\ <<>> \in Seq(S)
      BY <2>1
    <3>2. Range(<<>>) = {} /\ Sorted(<<>>, R)
      BY DEF Range, Sorted
    <3> QED
      BY <2>1, <3>1, <3>2
  <2>2. CASE list[n] \notin drop
    <3>1. parts[n] = <<list[n]>> /\ list[n] \in S /\ DOMAIN <<list[n]>> = {1} /\ <<list[n]>>[1] = list[n]
      BY <1>1, <2>2
    <3>2. <<list[n]>> \in Seq(S)
      BY <3>1
    <3>3. Range(<<list[n]>>) = {list[n]}
      BY <3>1 DEF Range
    <3>4. Sorted(<<list[n]>>, R)
      BY <3>1 DEF Sorted
    <3> QED
      BY <2>2, <3>1, <3>2, <3>3, <3>4
  <2> QED
    BY <2>1, <2>2
<1>3. parts \in Seq(Seq(S)) /\ DOMAIN parts = DOMAIN list
  BY <1>1
<1>4. \A i, j \in DOMAIN parts : i < j => \A x \in Range(parts[i]), y \in Range(parts[j]) : <<x, y>> \in R
  <2> SUFFICES ASSUME NEW i \in DOMAIN list, NEW j \in DOMAIN list, i < j,
                      NEW x \in Range(parts[i]), NEW y \in Range(parts[j])
               PROVE  <<x, y>> \in R
    BY <1>3
  <2>1. x = list[i] /\ y = list[j]
    BY <1>2
  <2> QED
    BY <2>1 DEF Sorted
<1>5. \A i \in DOMAIN parts : Sorted(parts[i], R)
  BY <1>2, <1>3
<1>6. left \in Seq(S) /\ Range(left) = UNION {Range(parts[i]) : i \in DOMAIN parts} /\ Sorted(left, R)
  BY <1>3, <1>4, <1>5, FlattenInOrder
<1>7. \A x : x \in Range(left) <=> \E i \in DOMAIN list : list[i] \notin drop /\ x = list[i]
  <2>1. \A x : x \in Range(left) <=> \E i \in DOMAIN parts : x \in Range(parts[i])
    BY <1>6
  <2> QED
    BY <1>2, <1>3, <2>1
<1>8. \A x : x \in Range(list) <=> \E i \in DOMAIN list : x = list[i]
  BY DEF Range
<1> HIDE DEF left
<1>9. Range(left) = Range(list) \ drop
  BY <1>7, <1>8
<1> QED
  BY <1>6, <1>9 DEF left

\* What is left of a list without its first items.
LEMMA RestInOrder ==
  ASSUME NEW S, NEW list \in Seq(S), NEW R, Sorted(list, R), NEW i \in 0..Len(list)
  PROVE  /\ SubSeq(list, i + 1, Len(list)) \in Seq(S)
         /\ Range(SubSeq(list, i + 1, Len(list))) = {list[n] : n \in (i + 1)..Len(list)}
         /\ Sorted(SubSeq(list, i + 1, Len(list)), R)
<1> DEFINE k == Len(list) - i
           rest == SubSeq(list, i + 1, Len(list))
<1>1. DOMAIN list = 1..Len(list) /\ Len(list) \in Nat /\ i \in Nat /\ i <= Len(list) /\ k \in Nat
  OBVIOUS
<1>2. rest \in Seq(S) /\ Len(rest) = k /\ DOMAIN rest = 1..k /\ \A n \in 1..k : rest[n] = list[i + n]
  <2>1. rest \in Seq(S)
    BY <1>1
  <2>2. Len(rest) = k /\ \A n \in 1..k : rest[n] = list[i + n]
    <3>1. i + 1 \in Int /\ Len(list) \in Int /\ \A n \in (i + 1)..Len(list) : list[n] \in S
      BY <1>1
    <3>2. /\ Len(rest) = IF i + 1 <= Len(list) THEN Len(list) - (i + 1) + 1 ELSE 0
          /\ \A n \in 1..(Len(list) - (i + 1) + 1) : rest[n] = list[i + 1 + n - 1]
      BY <3>1, SubSeqProperties
    <3>3. k = Len(list) - (i + 1) + 1
      BY <1>1
    <3>4. i + 1 <= Len(list) \/ k = 0
      <4>1. k \in Nat /\ i \in Nat /\ Len(list) = i + k
        BY <1>1
      <4> HIDE DEF k
      <4>2. k = 0 \/ i + 1 <= i + k
        BY <4>1
      <4> QED
        BY <4>1, <4>2
    <3>5. \A n \in Int : i + 1 + n - 1 = i + n
      BY <1>1
    <3>6. 1..k \subseteq Int
      OBVIOUS
    <3> HIDE DEF k, rest
    <3> QED
      BY <3>2, <3>3, <3>4, <3>5, <3>6
  <2> QED
    BY <2>1, <2>2
<1> HIDE DEF rest
<1>3. \A n \in 1..k : i + n \in (i + 1)..Len(list)
  BY <1>1
<1>4. \A n \in (i + 1)..Len(list) : n - i \in 1..k /\ i + (n - i) = n
  BY <1>1
<1> HIDE DEF k
<1>5. Range(rest) = {list[n] : n \in (i + 1)..Len(list)}
  <2>1. \A x : x \in Range(rest) <=> \E n \in 1..k : x = list[i + n]
    BY <1>2 DEF Range
  <2>2. \A x : x \in {list[n] : n \in (i + 1)..Len(list)} <=> \E n \in (i + 1)..Len(list) : x = list[n]
    OBVIOUS
  <2>3. \A x : (\E n \in 1..k : x = list[i + n]) <=> \E n \in (i + 1)..Len(list) : x = list[n]
    BY <1>3, <1>4
  <2> QED
    BY <2>1, <2>2, <2>3
<1>6. Sorted(rest, R)
  <2> SUFFICES ASSUME NEW m \in 1..k, NEW n \in 1..k, m < n PROVE <<rest[m], rest[n]>> \in R
    BY <1>2 DEF Sorted
  <2>1. i + m \in DOMAIN list /\ i + n \in DOMAIN list /\ i + m < i + n
    BY <1>1, <1>3
  <2> QED
    BY <1>2, <2>1 DEF Sorted
<1> QED
  BY <1>2, <1>5, <1>6 DEF rest

=============================================================================
