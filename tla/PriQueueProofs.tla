--------------------------- MODULE PriQueueProofs ---------------------------
(***************************************************************************)
(* Facts about the queue operations of os/thread.c for queues of any       *)
(* length over any set of threads: what a queue holds after an insertion   *)
(* or removal, that it stays free of duplicates and ordered, and where the *)
(* pending events end up.                                                  *)
(***************************************************************************)
EXTENDS PriQueue, WellFoundedInduction, TLAPS

\* Min of a nonempty set of naturals is its least element.
LEMMA MinOfNonempty ==
    ASSUME NEW I \in SUBSET Nat, I # {}
    PROVE  Min(I) \in I /\ \A j \in I : Min(I) <= j
<1>1. PICK m \in I : \A j \in I : ~(<<j, m>> \in OpToRel(<, Nat))
  BY NatLessThanWellFounded, WFMin, Zenon
<1>2. ASSUME NEW j \in I PROVE m <= j
  <2>1. <<j, m>> \in Nat \X Nat
    OBVIOUS
  <2>2. <<j, m>> \in OpToRel(<, Nat) <=> j < m
    BY <2>1 DEF OpToRel
  <2>3. ~(j < m)
    BY <1>1, <2>2, Zenon
  <2> QED BY <2>3
<1> QED
  BY <1>2 DEF Min

\* The walk of NutThreadAddPriQueue passes exactly the threads that are at least
\* as urgent as td, up to the first one that is not.
LEMMA WalkStopIs ==
    ASSUME NEW S, NEW s \in Seq(S), NEW td, NEW prio
    PROVE  LET k == WalkStop(s, td, prio) IN
           /\ k \in 0..Len(s)
           /\ k # 0 => prio[s[k]] > prio[td]
           /\ \A i \in 1..Len(s) : k = 0 \/ i < k => ~(prio[s[i]] > prio[td])
<1> DEFINE I == {i \in 1..Len(s) : prio[s[i]] > prio[td]}
           k == WalkStop(s, td, prio)
<1>1. k = IF I # {} THEN Min(I) ELSE 0
  BY DEF WalkStop, SelectInSeq
<1>2. I \in SUBSET Nat
  OBVIOUS
<1>3. CASE I = {}
  BY <1>1, <1>3
<1>4. CASE I # {}
  <2>1. k \in I /\ \A j \in I : k <= j
    BY <1>1, <1>2, <1>4, MinOfNonempty
  <2>2. ASSUME NEW i \in 1..Len(s), i < k PROVE ~(prio[s[i]] > prio[td])
    <3>1. i \notin I
      BY <2>1, <2>2
    <3> QED BY <3>1
  <2> QED BY <2>1, <2>2
<1> HIDE DEF k
<1> QED BY <1>3, <1>4 DEF k


\* e is s with td inserted as the k-th element.
Inserted(e, s, k, td) ==
    /\ Len(e) = Len(s) + 1
    /\ \A i \in 1..(Len(s) + 1) :
          e[i] = IF i < k THEN s[i] ELSE IF i = k THEN td ELSE s[i - 1]

\* InsertAt puts td at position k and moves the rest up by one.
LEMMA InsertAtIs ==
    ASSUME NEW S, NEW s \in Seq(S), NEW td \in S, NEW k \in 1..(Len(s) + 1)
    PROVE  InsertAt(s, k, td) \in Seq(S) /\ Inserted(InsertAt(s, k, td), s, k, td)
<1> DEFINE p == SubSeq(s, 1, k - 1)
           q == SubSeq(s, k, Len(s))
           m == p \o <<td>>
           e == m \o q
<1>1. p \in Seq(S) /\ Len(p) = k - 1 /\ \A i \in 1..(k - 1) : p[i] = s[i]
  OBVIOUS
<1>2. /\ q \in Seq(S) /\ Len(q) = Len(s) - k + 1
      /\ \A i \in 1..(Len(s) - k + 1) : q[i] = s[k + i - 1]
  OBVIOUS
<1> HIDE DEF p, q
<1>3. /\ m \in Seq(S) /\ Len(m) = k
      /\ \A i \in 1..k : m[i] = IF i < k THEN s[i] ELSE td
  BY <1>1
<1> HIDE DEF m
<1>4. /\ e \in Seq(S) /\ Len(e) = Len(s) + 1
      /\ \A i \in 1..(Len(s) + 1) : e[i] = IF i <= k THEN m[i] ELSE q[i - k]
  <2> HIDE DEF e
  <2>0. m \in Seq(S) /\ q \in Seq(S)
    BY <1>2, <1>3
  <2>1. e \in Seq(S) /\ Len(e) = Len(m) + Len(q)
    BY <2>0 DEF e
  <2>3. Len(e) = Len(s) + 1
    BY <1>2, <1>3, <2>1
  <2>4. \A i \in 1..(Len(m) + Len(q)) : e[i] = IF i <= Len(m) THEN m[i] ELSE q[i - Len(m)]
    BY <2>0 DEF e
  <2> QED BY <1>3, <2>1, <2>3, <2>4
<1>5. InsertAt(s, k, td) = e
  BY DEF InsertAt, m, p, q
<1> HIDE DEF e
<1>6. ASSUME NEW i \in 1..(Len(s) + 1)
      PROVE  e[i] = IF i < k THEN s[i] ELSE IF i = k THEN td ELSE s[i - 1]
  <2>1. CASE i <= k
    BY <1>3, <1>4, <2>1
  <2>2. CASE i > k
    <3>1. i - k \in 1..(Len(s) - k + 1) /\ k + (i - k) - 1 = i - 1
      BY <2>2
    <3>2. q[i - k] = s[i - 1]
      BY <1>2, <3>1
    <3> QED BY <1>4, <2>2, <3>2
  <2> QED BY <2>1, <2>2
<1> QED BY <1>4, <1>5, <1>6 DEF Inserted

\* NutThreadAddPriQueue inserts td at one position, behind every thread at least
\* as urgent that stands before the first less urgent one.
LEMMA EnqueuedIs ==
    ASSUME NEW S, NEW s \in Seq(S), NEW td \in S, NEW prio
    PROVE  /\ Enqueued(s, td, prio) \in Seq(S)
           /\ \E k \in 1..(Len(s) + 1) :
                 /\ Inserted(Enqueued(s, td, prio), s, k, td)
                 /\ \A i \in 1..Len(s) : i < k => ~(prio[s[i]] > prio[td])
                 /\ k <= Len(s) => prio[s[k]] > prio[td] /\ k = WalkStop(s, td, prio)
                 /\ k = Len(s) + 1 => WalkStop(s, td, prio) = 0
<1> DEFINE w == WalkStop(s, td, prio)
           e == Enqueued(s, td, prio)
<1>1. /\ w \in 0..Len(s)
      /\ w # 0 => prio[s[w]] > prio[td]
      /\ \A i \in 1..Len(s) : w = 0 \/ i < w => ~(prio[s[i]] > prio[td])
  BY WalkStopIs
<1>2. w = 0 => e = Append(s, td)
  BY DEF Enqueued
<1>3. w # 0 => e = InsertAt(s, w, td)
  BY DEF Enqueued
<1> HIDE DEF w, e
<1>4. CASE w = 0
  <2>1. e \in Seq(S) /\ Inserted(e, s, Len(s) + 1, td)
    BY <1>2, <1>4 DEF Inserted
  <2>2. Len(s) + 1 \in 1..(Len(s) + 1) /\ ~(Len(s) + 1 <= Len(s))
    OBVIOUS
  <2> QED BY <1>1, <1>4, <2>1, <2>2 DEF e, w
<1>5. CASE w # 0
  <2>1. e \in Seq(S) /\ Inserted(e, s, w, td)
    BY <1>1, <1>3, <1>5, InsertAtIs
  <2>2. w \in 1..(Len(s) + 1) /\ w # Len(s) + 1
    BY <1>1, <1>5
  <2> QED BY <1>1, <1>5, <2>1, <2>2 DEF e, w
<1> QED BY <1>4, <1>5

-----------------------------------------------------------------------------
(* Insertion.                                                              *)

\* Insertion adds td and keeps every thread that was there.
LEMMA EnqueuedSet ==
    ASSUME NEW S, NEW s \in Seq(S), NEW td \in S, NEW prio
    PROVE  /\ Enqueued(s, td, prio) \in Seq(S)
           /\ Enqueued(s, td, prio) # <<>>
           /\ ToSet(Enqueued(s, td, prio)) = ToSet(s) \cup {td}
<1> DEFINE e == Enqueued(s, td, prio)
<1>1. PICK k \in 1..(Len(s) + 1) :
        /\ e \in Seq(S) /\ Len(e) = Len(s) + 1
        /\ \A i \in 1..(Len(s) + 1) :
              e[i] = IF i < k THEN s[i] ELSE IF i = k THEN td ELSE s[i - 1]
  BY EnqueuedIs DEF Inserted
<1> HIDE DEF e
<1>2. ASSUME NEW x \in ToSet(s) PROVE x \in ToSet(e)
  <2>1. PICK j \in 1..Len(s) : s[j] = x
    BY DEF ToSet
  <2>2. PICK i \in 1..Len(e) : e[i] = x
    <3>1. CASE j < k
      BY <1>1, <2>1, <3>1
    <3>2. CASE j >= k
      <4>1. j + 1 \in 1..(Len(s) + 1) /\ ~(j + 1 < k) /\ j + 1 # k /\ (j + 1) - 1 = j
        BY <3>2
      <4>2. e[j + 1] = s[j]
        BY <1>1, <4>1
      <4> QED BY <1>1, <2>1, <4>1, <4>2
    <3> QED BY <3>1, <3>2
  <2> QED BY <1>1, <2>2 DEF ToSet
<1>3. td \in ToSet(e)
  BY <1>1 DEF ToSet
<1>4. ASSUME NEW x \in ToSet(e) PROVE x \in ToSet(s) \cup {td}
  <2>1. PICK j \in 1..Len(e) : e[j] = x
    BY <1>1 DEF ToSet
  <2> QED BY <1>1, <2>1 DEF ToSet
<1>5. e # <<>>
  BY <1>1
<1> QED BY <1>1, <1>2, <1>3, <1>4, <1>5 DEF e

\* A thread that was not in the queue is linked exactly once.
LEMMA EnqueuedInjective ==
    ASSUME NEW S, NEW s \in Seq(S), NEW td \in S, NEW prio,
           IsInjective(s), td \notin ToSet(s)
    PROVE  IsInjective(Enqueued(s, td, prio))
<1> DEFINE e == Enqueued(s, td, prio)
<1>1. PICK k \in 1..(Len(s) + 1) : Inserted(e, s, k, td)
  BY EnqueuedIs
<1>2. e \in Seq(S)
  BY EnqueuedIs
<1> HIDE DEF e
<1>3. /\ \A i, j \in 1..Len(s) : s[i] = s[j] => i = j
      /\ \A i \in 1..Len(s) : s[i] # td
  BY DEF IsInjective, ToSet
<1>4. ASSUME NEW i \in 1..Len(e), NEW j \in 1..Len(e), i < j PROVE e[i] # e[j]
  <2>1. /\ i \in 1..(Len(s) + 1) /\ j \in 1..(Len(s) + 1)
        /\ e[i] = IF i < k THEN s[i] ELSE IF i = k THEN td ELSE s[i - 1]
        /\ e[j] = IF j < k THEN s[j] ELSE IF j = k THEN td ELSE s[j - 1]
    BY <1>1 DEF Inserted
  <2>2. CASE i = k
    <3>1. e[i] = td /\ e[j] = s[j - 1] /\ j - 1 \in 1..Len(s)
      BY <1>4, <2>1, <2>2
    <3> QED BY <1>3, <3>1
  <2>3. CASE i > k
    <3>1. /\ e[i] = s[i - 1] /\ e[j] = s[j - 1]
          /\ i - 1 \in 1..Len(s) /\ j - 1 \in 1..Len(s) /\ i - 1 # j - 1
      BY <1>4, <2>1, <2>3
    <3> QED BY <1>3, <3>1
  <2>4. CASE i < k
    <3>1. e[i] = s[i] /\ i \in 1..Len(s)
      BY <2>1, <2>4
    <3>2. CASE j < k
      <4>1. e[j] = s[j] /\ j \in 1..Len(s)
        BY <2>1, <3>2
      <4> QED BY <1>3, <1>4, <3>1, <4>1
    <3>3. CASE j = k
      <4>1. e[j] = td
        BY <2>1, <3>3
      <4> QED BY <1>3, <3>1, <4>1
    <3>4. CASE j > k
      <4>1. e[j] = s[j - 1] /\ j - 1 \in 1..Len(s) /\ i # j - 1
        BY <2>1, <2>4, <3>4
      <4> QED BY <1>3, <3>1, <4>1
    <3> QED BY <2>1, <3>2, <3>3, <3>4
  <2> QED BY <2>1, <2>2, <2>3, <2>4
<1>5. ASSUME NEW i \in 1..Len(e), NEW j \in 1..Len(e), e[i] = e[j] PROVE i = j
  <2>1. i < j \/ i = j \/ j < i
    BY <1>2
  <2> QED BY <1>4, <1>5, <2>1
<1> QED BY <1>2, <1>5 DEF IsInjective, e

\* Insertion keeps a queue ordered by priority.
LEMMA EnqueuedOrdered ==
    ASSUME NEW S, NEW s \in Seq(S), NEW td \in S, NEW prio \in [S -> Nat],
           PriorityOrdered(s, prio)
    PROVE  PriorityOrdered(Enqueued(s, td, prio), prio)
<1> DEFINE e == Enqueued(s, td, prio)
<1>1. PICK k \in 1..(Len(s) + 1) :
        /\ e \in Seq(S) /\ Len(e) = Len(s) + 1
        /\ \A i \in 1..(Len(s) + 1) :
              e[i] = IF i < k THEN s[i] ELSE IF i = k THEN td ELSE s[i - 1]
        /\ \A i \in 1..Len(s) : i < k => ~(prio[s[i]] > prio[td])
        /\ k <= Len(s) => prio[s[k]] > prio[td]
  BY EnqueuedIs DEF Inserted
<1> HIDE DEF e
<1>2. \A i, j \in 1..Len(s) : i < j => prio[s[i]] <= prio[s[j]]
  BY DEF PriorityOrdered
<1>3. \A i \in 1..Len(s) : s[i] \in S /\ prio[s[i]] \in Nat
  OBVIOUS
<1>4. \A i \in 1..Len(s) : i < k => prio[s[i]] <= prio[td]
  BY <1>1, <1>3
<1>5. ASSUME NEW i \in 1..Len(s), i >= k PROVE prio[td] <= prio[s[i]]
  <2>1. k \in 1..Len(s)
    BY <1>5
  <2>2. prio[s[k]] > prio[td] /\ prio[s[k]] \in Nat /\ prio[s[i]] \in Nat /\ prio[td] \in Nat
    BY <1>1, <1>3, <2>1
  <2>3. prio[s[k]] <= prio[s[i]]
    BY <1>2, <1>5, <2>1, <2>2
  <2> QED BY <2>2, <2>3
<1>6. ASSUME NEW i \in 1..Len(e), NEW j \in 1..Len(e), i < j
      PROVE  prio[e[i]] <= prio[e[j]]
  <2>1. e[i] = IF i < k THEN s[i] ELSE IF i = k THEN td ELSE s[i - 1]
    BY <1>1
  <2>2. e[j] = IF j < k THEN s[j] ELSE IF j = k THEN td ELSE s[j - 1]
    BY <1>1
  <2>3. (i < k => i \in 1..Len(s)) /\ (i > k => i - 1 \in 1..Len(s))
    BY <1>1
  <2>4. (j < k => j \in 1..Len(s)) /\ (j > k => j - 1 \in 1..Len(s) /\ j - 1 >= k)
    BY <1>1
  <2>5. CASE j < k
    BY <1>2, <1>6, <2>1, <2>2, <2>3, <2>4, <2>5
  <2>6. CASE j = k
    BY <1>4, <1>6, <2>1, <2>2, <2>3, <2>6
  <2>7. CASE j > k
    <3>1. e[j] = s[j - 1] /\ j - 1 \in 1..Len(s) /\ j - 1 >= k
      BY <2>2, <2>4, <2>7
    <3>2. CASE i < k
      <4>1. e[i] = s[i] /\ i \in 1..Len(s) /\ i < j - 1
        BY <2>1, <2>3, <3>1, <3>2
      <4> QED BY <1>2, <3>1, <4>1
    <3>3. CASE i = k
      BY <1>5, <2>1, <3>1, <3>3
    <3>4. CASE i > k
      <4>1. e[i] = s[i - 1] /\ i - 1 \in 1..Len(s) /\ i - 1 < j - 1
        BY <1>6, <2>1, <2>3, <3>4
      <4> QED BY <1>2, <3>1, <4>1
    <3> QED BY <3>2, <3>3, <3>4
  <2> QED BY <2>5, <2>6, <2>7
<1> QED BY <1>1, <1>6 DEF PriorityOrdered, e

\* A last thread less urgent than td stays last.
LEMMA EnqueuedLast ==
    ASSUME NEW S, NEW s \in Seq(S), NEW td \in S, NEW prio,
           s # <<>>, prio[Last(s)] > prio[td]
    PROVE  Last(Enqueued(s, td, prio)) = Last(s)
<1> DEFINE e == Enqueued(s, td, prio)
<1>1. PICK k \in 1..(Len(s) + 1) :
        /\ e \in Seq(S) /\ Len(e) = Len(s) + 1
        /\ \A i \in 1..(Len(s) + 1) :
              e[i] = IF i < k THEN s[i] ELSE IF i = k THEN td ELSE s[i - 1]
        /\ \A i \in 1..Len(s) : i < k => ~(prio[s[i]] > prio[td])
  BY EnqueuedIs DEF Inserted
<1> HIDE DEF e
<1>2. Len(s) \in 1..Len(s)
  OBVIOUS
<1>3. k <= Len(s)
  BY <1>1, <1>2 DEF Last
<1>4. e[Len(s) + 1] = s[Len(s)]
  BY <1>1, <1>2, <1>3
<1> QED BY <1>1, <1>4 DEF Last, e

-----------------------------------------------------------------------------
(* Removal.                                                                *)

\* e is s without its k-th element.
Removed(e, s, k) ==
    /\ Len(e) = Len(s) - 1
    /\ \A i \in 1..(Len(s) - 1) : e[i] = IF i < k THEN s[i] ELSE s[i + 1]

\* RemoveAt drops position k and moves the rest down by one.
LEMMA RemoveAtIs ==
    ASSUME NEW S, NEW s \in Seq(S), NEW k \in 1..Len(s)
    PROVE  RemoveAt(s, k) \in Seq(S) /\ Removed(RemoveAt(s, k), s, k)
<1> DEFINE p == SubSeq(s, 1, k - 1)
           q == SubSeq(s, k + 1, Len(s))
           e == p \o q
<1>1. p \in Seq(S) /\ Len(p) = k - 1 /\ \A i \in 1..(k - 1) : p[i] = s[i]
  OBVIOUS
<1>2. /\ q \in Seq(S) /\ Len(q) = Len(s) - k
      /\ \A i \in 1..(Len(s) - k) : q[i] = s[k + i]
  OBVIOUS
<1> HIDE DEF p, q
<1>3. /\ e \in Seq(S) /\ Len(e) = Len(p) + Len(q)
      /\ \A i \in 1..(Len(p) + Len(q)) : e[i] = IF i <= Len(p) THEN p[i] ELSE q[i - Len(p)]
  <2>1. p \in Seq(S) /\ q \in Seq(S)
    BY <1>1, <1>2
  <2> QED BY <2>1
<1>4. RemoveAt(s, k) = e
  BY DEF RemoveAt, p, q
<1> HIDE DEF e
<1>5. Len(e) = Len(s) - 1
  BY <1>1, <1>2, <1>3
<1>6. ASSUME NEW i \in 1..(Len(s) - 1) PROVE e[i] = IF i < k THEN s[i] ELSE s[i + 1]
  <2>1. e[i] = IF i <= k - 1 THEN p[i] ELSE q[i - (k - 1)]
    BY <1>1, <1>2, <1>3
  <2>2. CASE i < k
    BY <1>1, <2>1, <2>2
  <2>3. CASE i >= k
    <3>1. i - (k - 1) \in 1..(Len(s) - k) /\ k + (i - (k - 1)) = i + 1
      BY <2>3
    <3>2. q[i - (k - 1)] = s[i + 1]
      BY <1>2, <3>1
    <3> QED BY <2>1, <2>3, <3>2
  <2> QED BY <2>2, <2>3
<1> QED BY <1>3, <1>4, <1>5, <1>6 DEF Removed

\* Where td stands in s.
LEMMA PositionIs ==
    ASSUME NEW S, NEW s \in Seq(S), NEW td
    PROVE  LET k == IndexOf(s, td) IN
           /\ td \in ToSet(s) => k \in 1..Len(s) /\ s[k] = td
           /\ td \notin ToSet(s) => k = 0
<1> DEFINE I == {i \in 1..Len(s) : s[i] = td}
           k == IndexOf(s, td)
<1>1. k = IF I # {} THEN Min(I) ELSE 0
  BY DEF IndexOf, SelectInSeq
<1>2. I \in SUBSET Nat
  OBVIOUS
<1>3. td \in ToSet(s) <=> I # {}
  BY DEF ToSet
<1>4. I # {} => k \in I
  BY <1>1, <1>2, MinOfNonempty
<1> HIDE DEF k
<1> QED BY <1>1, <1>3, <1>4 DEF k

\* NutThreadRemoveQueue unlinks one element that is td, or nothing.
LEMMA DequeuedIs ==
    ASSUME NEW S, NEW s \in Seq(S), NEW td
    PROVE  LET k == IndexOf(s, td) IN
           /\ Dequeued(s, td) \in Seq(S)
           /\ td \in ToSet(s) =>
                  k \in 1..Len(s) /\ s[k] = td /\ Removed(Dequeued(s, td), s, k)
           /\ td \notin ToSet(s) => Dequeued(s, td) = s
<1> DEFINE k == IndexOf(s, td)
<1>1. Dequeued(s, td) = IF td \in ToSet(s) THEN RemoveAt(s, k) ELSE s
  BY DEF Dequeued, RemoveFirst, ToSet, IndexOf
<1>2. td \in ToSet(s) => k \in 1..Len(s) /\ s[k] = td
  BY PositionIs
<1> HIDE DEF k
<1>3. CASE td \in ToSet(s)
  <2>1. RemoveAt(s, k) \in Seq(S) /\ Removed(RemoveAt(s, k), s, k)
    BY <1>2, <1>3, RemoveAtIs
  <2> QED BY <1>1, <1>2, <1>3, <2>1 DEF k
<1>4. CASE td \notin ToSet(s)
  BY <1>1, <1>4
<1> QED BY <1>3, <1>4

\* Removal takes away td and nothing else, and links no thread twice.
LEMMA DequeuedSet ==
    ASSUME NEW S, NEW s \in Seq(S), NEW td, IsInjective(s)
    PROVE  /\ Dequeued(s, td) \in Seq(S)
           /\ ToSet(Dequeued(s, td)) = ToSet(s) \ {td}
           /\ IsInjective(Dequeued(s, td))
<1>1. CASE td \notin ToSet(s)
  BY <1>1, DequeuedIs
<1>2. CASE td \in ToSet(s)
  <2> DEFINE e == Dequeued(s, td)
  <2>1. PICK k \in 1..Len(s) : s[k] = td /\ Removed(e, s, k)
    BY <1>2, DequeuedIs
  <2>2. e \in Seq(S)
    BY DequeuedIs
  <2> HIDE DEF e
  <2>3. \A i, j \in 1..Len(s) : s[i] = s[j] => i = j
    BY DEF IsInjective
  <2>4. /\ Len(e) = Len(s) - 1
        /\ \A i \in 1..Len(e) : e[i] = IF i < k THEN s[i] ELSE s[i + 1]
    BY <2>1 DEF Removed
  <2>5. ASSUME NEW x \in ToSet(e) PROVE x \in ToSet(s) \ {td}
    <3>1. PICK i \in 1..Len(e) : e[i] = x
      BY <2>2 DEF ToSet
    <3>2. PICK j \in 1..Len(s) : j # k /\ s[j] = x
      BY <2>4, <3>1
    <3> QED BY <2>1, <2>3, <3>2 DEF ToSet
  <2>6. ASSUME NEW x \in ToSet(s) \ {td} PROVE x \in ToSet(e)
    <3>1. PICK j \in 1..Len(s) : s[j] = x
      BY DEF ToSet
    <3>2. j # k
      BY <2>1, <3>1
    <3>3. CASE j < k
      <4>1. j \in 1..Len(e) /\ e[j] = x
        BY <2>4, <3>1, <3>3
      <4> QED BY <2>2, <4>1 DEF ToSet
    <3>4. CASE j > k
      <4>1. j - 1 \in 1..Len(e) /\ ~(j - 1 < k) /\ (j - 1) + 1 = j
        BY <2>4, <3>4
      <4>2. e[j - 1] = x
        BY <2>4, <3>1, <4>1
      <4> QED BY <2>2, <4>1, <4>2 DEF ToSet
    <3> QED BY <3>2, <3>3, <3>4
  <2>7. ASSUME NEW i \in 1..Len(e), NEW j \in 1..Len(e), e[i] = e[j] PROVE i = j
    <3>1. /\ i \in 1..Len(s) /\ i + 1 \in 1..Len(s)
          /\ j \in 1..Len(s) /\ j + 1 \in 1..Len(s)
      BY <2>4
    <3>2. /\ e[i] = IF i < k THEN s[i] ELSE s[i + 1]
          /\ e[j] = IF j < k THEN s[j] ELSE s[j + 1]
      BY <2>4
    <3>3. CASE i < k /\ j < k
      BY <2>3, <2>7, <3>1, <3>2, <3>3
    <3>4. CASE i < k /\ ~(j < k)
      <4>1. s[i] = s[j + 1]
        BY <2>7, <3>2, <3>4
      <4> QED BY <2>3, <3>1, <3>4, <4>1
    <3>5. CASE ~(i < k) /\ j < k
      <4>1. s[i + 1] = s[j]
        BY <2>7, <3>2, <3>5
      <4> QED BY <2>3, <3>1, <3>5, <4>1
    <3>6. CASE ~(i < k) /\ ~(j < k)
      <4>1. s[i + 1] = s[j + 1]
        BY <2>7, <3>2, <3>6
      <4> QED BY <2>3, <3>1, <4>1
    <3> QED BY <3>3, <3>4, <3>5, <3>6
  <2>8. IsInjective(e)
    BY <2>2, <2>7 DEF IsInjective
  <2> QED BY <2>2, <2>5, <2>6, <2>8 DEF e
<1> QED BY <1>1, <1>2

\* Removal keeps a queue ordered by priority.
LEMMA DequeuedOrdered ==
    ASSUME NEW S, NEW s \in Seq(S), NEW td, NEW prio \in [S -> Nat],
           PriorityOrdered(s, prio)
    PROVE  PriorityOrdered(Dequeued(s, td), prio)
<1>1. CASE td \notin ToSet(s)
  BY <1>1, DequeuedIs
<1>2. CASE td \in ToSet(s)
  <2> DEFINE e == Dequeued(s, td)
  <2>1. PICK k \in 1..Len(s) : Removed(e, s, k)
    BY <1>2, DequeuedIs
  <2> HIDE DEF e
  <2>2. /\ Len(e) = Len(s) - 1
        /\ \A i \in 1..Len(e) : e[i] = IF i < k THEN s[i] ELSE s[i + 1]
    BY <2>1 DEF Removed
  <2>3. \A i, j \in 1..Len(s) : i < j => prio[s[i]] <= prio[s[j]]
    BY DEF PriorityOrdered
  <2>4. ASSUME NEW i \in 1..Len(e), NEW j \in 1..Len(e), i < j
        PROVE  prio[e[i]] <= prio[e[j]]
    <3>1. PICK m \in 1..Len(s) : e[i] = s[m] /\ m = IF i < k THEN i ELSE i + 1
      BY <2>2
    <3>2. PICK n \in 1..Len(s) : e[j] = s[n] /\ n = IF j < k THEN j ELSE j + 1
      BY <2>2
    <3>3. m < n
      BY <2>4, <3>1, <3>2
    <3> QED BY <2>3, <3>1, <3>2, <3>3
  <2> QED BY <2>4 DEF PriorityOrdered, e
<1> QED BY <1>1, <1>2

\* The last thread stays last while others leave.
LEMMA DequeuedLast ==
    ASSUME NEW S, NEW s \in Seq(S), NEW td, s # <<>>, Last(s) # td
    PROVE  Dequeued(s, td) # <<>> /\ Last(Dequeued(s, td)) = Last(s)
<1>1. CASE td \notin ToSet(s)
  BY <1>1, DequeuedIs
<1>2. CASE td \in ToSet(s)
  <2> DEFINE e == Dequeued(s, td)
  <2>1. PICK k \in 1..Len(s) : s[k] = td /\ Removed(e, s, k)
    BY <1>2, DequeuedIs
  <2>2. e \in Seq(S)
    BY DequeuedIs
  <2> HIDE DEF e
  <2>3. k # Len(s) /\ Len(s) > 1
    BY <2>1 DEF Last
  <2>4. Len(e) = Len(s) - 1 /\ e[Len(e)] = s[Len(s)]
    BY <2>1, <2>3 DEF Removed
  <2>5. e # <<>>
    BY <2>2, <2>3, <2>4
  <2> QED BY <2>4, <2>5 DEF Last, e
<1> QED BY <1>1, <1>2


-----------------------------------------------------------------------------
(* The front of a queue, and a change of priorities elsewhere.             *)

\* The first thread of a queue is at position 1 and belongs to the queue.
LEMMA HeadOf ==
    ASSUME NEW S, NEW s \in Seq(S), s # <<>>
    PROVE  /\ 1 \in 1..Len(s) /\ Head(s) = s[1]
           /\ Head(s) \in S /\ Head(s) \in ToSet(s)
  BY DEF ToSet

\* Everything the queue holds is a thread.
LEMMA ToSetOf ==
    ASSUME NEW S, NEW s \in Seq(S)
    PROVE  ToSet(s) \subseteq S /\ (s = <<>> <=> ToSet(s) = {})
<1>1. s # <<>> => ToSet(s) # {}
  BY HeadOf
<1>2. s = <<>> => ToSet(s) = {}
  BY DEF ToSet
<1>3. ToSet(s) \subseteq S
  BY DEF ToSet
<1> QED BY <1>1, <1>2, <1>3

\* The last thread of a queue belongs to the queue.
LEMMA LastOf ==
    ASSUME NEW S, NEW s \in Seq(S), s # <<>>
    PROVE  Last(s) \in ToSet(s)
<1>1. Len(s) \in 1..Len(s)
  OBVIOUS
<1> QED BY <1>1 DEF Last, ToSet

\* Without its first thread a queue holds all the others, each once.
LEMMA TailSet ==
    ASSUME NEW S, NEW s \in Seq(S), s # <<>>, IsInjective(s)
    PROVE  /\ Tail(s) \in Seq(S)
           /\ ToSet(Tail(s)) = ToSet(s) \ {Head(s)}
           /\ IsInjective(Tail(s))
<1> DEFINE e == Tail(s)
<1>1. e \in Seq(S) /\ Len(e) = Len(s) - 1 /\ \A i \in 1..Len(e) : e[i] = s[i + 1]
  OBVIOUS
<1>2. Head(s) = s[1] /\ 1 \in 1..Len(s)
  OBVIOUS
<1> HIDE DEF e
<1>3. \A i, j \in 1..Len(s) : s[i] = s[j] => i = j
  BY DEF IsInjective
<1>4. ASSUME NEW x \in ToSet(e) PROVE x \in ToSet(s) \ {Head(s)}
  <2>1. PICK i \in 1..Len(e) : e[i] = x
    BY <1>1 DEF ToSet
  <2>2. i + 1 \in 1..Len(s) /\ s[i + 1] = x /\ i + 1 # 1
    BY <1>1, <2>1
  <2> QED BY <1>2, <1>3, <2>2 DEF ToSet
<1>5. ASSUME NEW x \in ToSet(s) \ {Head(s)} PROVE x \in ToSet(e)
  <2>1. PICK j \in 1..Len(s) : s[j] = x
    BY DEF ToSet
  <2>2. j # 1
    BY <1>2, <2>1
  <2>3. j - 1 \in 1..Len(e) /\ (j - 1) + 1 = j
    BY <1>1, <2>2
  <2>4. e[j - 1] = x
    BY <1>1, <2>1, <2>3
  <2> QED BY <1>1, <2>3, <2>4 DEF ToSet
<1>6. ASSUME NEW i \in 1..Len(e), NEW j \in 1..Len(e), e[i] = e[j] PROVE i = j
  <2>1. i + 1 \in 1..Len(s) /\ j + 1 \in 1..Len(s) /\ s[i + 1] = s[j + 1]
    BY <1>1, <1>6
  <2> QED BY <1>3, <2>1
<1> QED BY <1>1, <1>4, <1>5, <1>6 DEF IsInjective, e

\* The rest of an ordered queue is ordered, and its first thread is least.
LEMMA TailOrdered ==
    ASSUME NEW S, NEW s \in Seq(S), NEW prio \in [S -> Nat], s # <<>>,
           PriorityOrdered(s, prio)
    PROVE  /\ PriorityOrdered(Tail(s), prio)
           /\ \A x \in ToSet(s) : prio[Head(s)] <= prio[x]
<1> DEFINE e == Tail(s)
<1>1. e \in Seq(S) /\ Len(e) = Len(s) - 1 /\ \A i \in 1..Len(e) : e[i] = s[i + 1]
  OBVIOUS
<1>2. Head(s) = s[1] /\ 1 \in 1..Len(s) /\ s[1] \in S /\ prio[s[1]] \in Nat
  OBVIOUS
<1> HIDE DEF e
<1>3. \A i, j \in 1..Len(s) : i < j => prio[s[i]] <= prio[s[j]]
  BY DEF PriorityOrdered
<1>4. ASSUME NEW i \in 1..Len(e), NEW j \in 1..Len(e), i < j PROVE prio[e[i]] <= prio[e[j]]
  <2>1. /\ i + 1 \in 1..Len(s) /\ j + 1 \in 1..Len(s) /\ i + 1 < j + 1
        /\ e[i] = s[i + 1] /\ e[j] = s[j + 1]
    BY <1>1, <1>4
  <2> QED BY <1>3, <2>1
<1>5. ASSUME NEW x \in ToSet(s) PROVE prio[Head(s)] <= prio[x]
  <2>1. PICK j \in 1..Len(s) : s[j] = x
    BY DEF ToSet
  <2>2. CASE j = 1
    BY <1>2, <2>1, <2>2
  <2>3. CASE j > 1
    BY <1>2, <1>3, <2>1, <2>3
  <2> QED BY <2>1, <2>2, <2>3
<1> QED BY <1>4, <1>5 DEF PriorityOrdered, e

\* The order of a queue depends on the priorities of its threads only.
LEMMA OrderedElsewhere ==
    ASSUME NEW S, NEW s \in Seq(S), NEW prio, NEW prio2, PriorityOrdered(s, prio),
           \A u \in ToSet(s) : prio2[u] = prio[u]
    PROVE  PriorityOrdered(s, prio2)
<1>1. \A i \in 1..Len(s) : prio2[s[i]] = prio[s[i]]
  BY DEF ToSet
<1> QED BY <1>1 DEF PriorityOrdered

-----------------------------------------------------------------------------
(* Pending events.                                                         *)

\* Only the thread in front of s carries pending events.
OnlyFirst(qpec, s) == \A u \in ToSet(s) : qpec[u] > 0 => u = Head(s)

\* A queue with a position has one thread or more than one.
LEMMA LengthOne ==
    ASSUME NEW S, NEW s \in Seq(S), NEW i \in 1..Len(s)
    PROVE  Len(s) = 1 \/ Len(s) > 1
  OBVIOUS

\* Unlinking a thread of the queue removes the position IndexOf finds.
LEMMA DequeuedShape ==
    ASSUME NEW S, NEW s \in Seq(S), NEW td \in S, td \in ToSet(s)
    PROVE  /\ td \in S /\ Dequeued(s, td) \in Seq(S)
           /\ Len(s) = 1 \/ Len(s) > 1
           /\ \E k \in 1..Len(s) :
                 /\ s[k] = td /\ Removed(Dequeued(s, td), s, k)
                 /\ k = IndexOf(s, td)
<1>1. IndexOf(s, td) \in 1..Len(s)
  BY DequeuedIs
<1>2. Len(s) = 1 \/ Len(s) > 1
  BY <1>1, LengthOne
<1>3. Dequeued(s, td) \in Seq(S)
  BY DequeuedIs
<1>4. s[IndexOf(s, td)] = td /\ Removed(Dequeued(s, td), s, IndexOf(s, td))
  BY DequeuedIs
<1> QED BY <1>1, <1>2, <1>3, <1>4

\* When a thread leaves the queue, what was pending on it ends up on the new
\* first thread, or signals the queue if there is none.
LEMMA LeavePending ==
    ASSUME NEW S, NEW s \in Seq(S), NEW td \in S, td \in ToSet(s), NEW qpec \in [S -> Nat],
           IsInjective(s), OnlyFirst(qpec, s)
    PROVE  LET n == PendingAfterLeave(qpec, s, td) IN
           /\ n \in [S -> Nat]
           /\ n[td] = 0
           /\ OnlyFirst(n, Dequeued(s, td))
           /\ \A u \in S \ ToSet(s) : n[u] = qpec[u]
           /\ SignalsOnLeave(qpec, s, td) => Dequeued(s, td) = <<>>
<1> DEFINE e == Dequeued(s, td)
           n == PendingAfterLeave(qpec, s, td)
<1>1. /\ e \in Seq(S) /\ td \in S
      /\ Len(s) = 1 \/ Len(s) > 1
  BY DequeuedShape
<1>2. ToSet(e) = ToSet(s) \ {td}
  BY DequeuedSet
<1> HIDE DEF e
<1>0. PICK k \in 1..Len(s) :
        s[k] = td /\ Removed(e, s, k) /\ k = IndexOf(s, td)
  BY DequeuedShape DEF e
<1>3. n = IF k # 0 /\ k < Len(s) /\ qpec[td] > 0
          THEN [qpec EXCEPT ![s[k + 1]] = qpec[td], ![td] = 0]
          ELSE [qpec EXCEPT ![td] = 0]
  BY <1>0 DEF PendingAfterLeave
<1> HIDE DEF n
<1>10. k \in 1..Len(s) /\ s[k] = td
  BY <1>0
<1>4. \A i, j \in 1..Len(s) : s[i] = s[j] => i = j
  BY DEF IsInjective
<1>5. 1 \in 1..Len(s) /\ Head(s) = s[1] /\ s[1] \in ToSet(s)
  BY <1>10, <1>1 DEF ToSet
<1>6. Len(e) = Len(s) - 1 /\ \A i \in 1..(Len(s) - 1) : e[i] = IF i < k THEN s[i] ELSE s[i + 1]
  BY <1>0 DEF Removed
<1>7. n \in [S -> Nat]
  <2>1. qpec[td] \in Nat /\ 0 \in Nat
    BY <1>1, <1>2
  <2> QED BY <1>3, <2>1
<1>8. CASE qpec[td] > 0
  <2>1. k = 1
    BY <1>10, <1>1, <1>4, <1>5, <1>8 DEF OnlyFirst
  <2>2. \A u \in ToSet(s) \ {td} : qpec[u] = 0
    <3>1. \A u \in ToSet(s) : u \in S /\ qpec[u] \in Nat
      BY DEF ToSet
    <3> QED BY <1>10, <1>1, <1>5, <2>1, <3>1 DEF OnlyFirst
  <2>3. CASE Len(s) = 1
    <3>1. e = <<>>
      BY <1>10, <1>1, <1>6, <2>3
    <3>2. n = [qpec EXCEPT ![td] = 0]
      BY <1>3, <2>1, <2>3
    <3>3. n[td] = 0 /\ \A u \in S \ ToSet(s) : n[u] = qpec[u]
      BY <1>1, <1>2, <3>2
    <3>4. OnlyFirst(n, e)
      BY <3>1 DEF OnlyFirst, ToSet
    <3> QED BY <1>7, <3>1, <3>3, <3>4 DEF e, n
  <2>4. CASE Len(s) > 1
    <3>1. n = [qpec EXCEPT ![s[2]] = qpec[td], ![td] = 0]
      BY <1>3, <1>8, <2>1, <2>4
    <3>2. 2 \in 1..Len(s) /\ s[2] \in ToSet(s) /\ s[2] # td
      <4>1. 2 \in 1..Len(s)
        BY <2>4
      <4>2. s[2] # td
        BY <1>10, <1>4, <2>1, <4>1
      <4> QED BY <4>1, <4>2 DEF ToSet
    <3>3. 1 \in 1..(Len(s) - 1) /\ e # <<>>
      BY <1>10, <1>1, <1>6, <2>4
    <3>4. Head(e) = s[2]
      <4>1. e[1] = s[1 + 1]
        BY <1>6, <2>1, <3>3
      <4> QED BY <1>1, <3>3, <4>1
    <3>5. n[td] = 0
      BY <1>1, <1>2, <3>1
    <3>6. \A u \in S \ {s[2], td} : n[u] = qpec[u]
      BY <3>1
    <3>7. OnlyFirst(n, e)
      <4>1. ToSet(s) \subseteq S
        BY DEF ToSet
      <4> QED BY <1>1, <1>2, <2>2, <3>4, <3>6, <4>1 DEF OnlyFirst
    <3>8. ~SignalsOnLeave(qpec, s, td)
      BY <1>10, <1>4, <2>1, <2>4 DEF SignalsOnLeave
    <3>9. td \in ToSet(s)
      OBVIOUS
    <3> QED BY <1>7, <3>2, <3>5, <3>6, <3>7, <3>8, <3>9 DEF e, n
  <2> QED BY <1>10, <1>1, <2>3, <2>4
<1>9. CASE ~(qpec[td] > 0)
  <2>1. n = [qpec EXCEPT ![td] = 0]
    BY <1>3, <1>9
  <2>2. ~SignalsOnLeave(qpec, s, td)
    BY <1>9 DEF SignalsOnLeave
  <2>3. n[td] = 0 /\ \A u \in S \ {td} : n[u] = qpec[u]
    BY <1>1, <1>2, <2>1
  <2>4. ASSUME NEW u \in ToSet(e), n[u] > 0 PROVE u = Head(e)
    <3>1. u \in ToSet(s) /\ u # td /\ u \in S
      <4>1. ToSet(s) \subseteq S
        BY DEF ToSet
      <4> QED BY <1>2, <2>4, <4>1
    <3>2. u = s[1]
      BY <1>5, <2>3, <2>4, <3>1 DEF OnlyFirst
    <3>3. 1 < k /\ 1 \in 1..(Len(s) - 1)
      BY <1>10, <1>1, <3>1, <3>2
    <3>4. e[1] = s[1] /\ e # <<>>
      <4>1. e[1] = s[1]
        BY <1>6, <3>3
      <4>2. Len(e) # 0
        BY <1>6, <3>3
      <4> QED BY <1>1, <4>1, <4>2
    <3> QED BY <1>10, <1>1, <3>2, <3>4
  <2>5. OnlyFirst(n, e)
    BY <2>4 DEF OnlyFirst
  <2>6. td \in ToSet(s)
    OBVIOUS
  <2> QED BY <1>7, <2>2, <2>3, <2>5, <2>6 DEF n, e
<1> QED BY <1>8, <1>9

\* Where the walk of an insertion ends is where the thread goes in.
LEMMA EnqueuedPlace ==
    ASSUME NEW S, NEW s \in Seq(S), NEW td \in S, NEW prio
    PROVE  \E k \in 1..(Len(s) + 1) :
              /\ Inserted(Enqueued(s, td, prio), s, k, td)
              /\ k <= Len(s) => k = WalkStop(s, td, prio)
              /\ k = Len(s) + 1 => WalkStop(s, td, prio) = 0
<1>1. PICK k \in 1..(Len(s) + 1) :
        /\ Inserted(Enqueued(s, td, prio), s, k, td)
        /\ k <= Len(s) => prio[s[k]] > prio[td] /\ k = WalkStop(s, td, prio)
        /\ k = Len(s) + 1 => WalkStop(s, td, prio) = 0
  BY EnqueuedIs
<1> QED BY <1>1

\* A thread that enters the queue takes over what is pending on the thread it
\* pushes back, or the event of a signaled queue.
LEMMA AddPending ==
    ASSUME NEW S, NEW s \in Seq(S), NEW td \in S \ ToSet(s), NEW prio, NEW sig \in BOOLEAN,
           NEW qpec \in [S -> Nat], IsInjective(s), OnlyFirst(qpec, s), sig => s = <<>>
    PROVE  LET n == PendingAfterAdd(qpec, s, td, prio, sig) IN
           /\ n \in [S -> Nat]
           /\ OnlyFirst(n, Enqueued(s, td, prio))
           /\ \A u \in S \ (ToSet(s) \cup {td}) : n[u] = qpec[u]
<1> DEFINE w == WalkStop(s, td, prio)
           e == Enqueued(s, td, prio)
           n == PendingAfterAdd(qpec, s, td, prio, sig)
<1>1. e \in Seq(S) /\ ToSet(e) = ToSet(s) \cup {td} /\ e # <<>>
  BY EnqueuedSet
<1>2. PICK k \in 1..(Len(s) + 1) :
        /\ Inserted(e, s, k, td)
        /\ k <= Len(s) => k = w
        /\ k = Len(s) + 1 => w = 0
  <2>1. td \in S
    OBVIOUS
  <2> QED BY <2>1, EnqueuedPlace
<1>3. n = IF sig THEN [qpec EXCEPT ![td] = 1]
          ELSE IF w = 0 THEN [qpec EXCEPT ![td] = 0]
          ELSE [qpec EXCEPT ![td] = qpec[s[w]], ![s[w]] = 0]
  BY DEF PendingAfterAdd
<1> HIDE DEF w, e, n
<1>4. /\ Len(e) = Len(s) + 1
      /\ \A i \in 1..(Len(s) + 1) : e[i] = IF i < k THEN s[i] ELSE IF i = k THEN td ELSE s[i - 1]
  BY <1>2 DEF Inserted
<1>5. 1 \in 1..(Len(s) + 1) /\ Head(e) = e[1]
  BY <1>1, <1>4
<1>6. \A i, j \in 1..Len(s) : s[i] = s[j] => i = j
  BY DEF IsInjective
<1>7. \A u \in ToSet(s) : u \in S /\ u # td /\ qpec[u] \in Nat
  BY DEF ToSet
<1>8. CASE sig
  <2>1. s = <<>> /\ ToSet(s) = {}
    BY <1>8 DEF ToSet
  <2>2. n = [qpec EXCEPT ![td] = 1]
    BY <1>3, <1>8
  <2>3. Head(e) = td
    BY <1>4, <1>5, <2>1
  <2>4. OnlyFirst(n, e)
    BY <1>1, <2>1, <2>3 DEF OnlyFirst
  <2> QED BY <2>2, <2>4 DEF n, e
<1>9. CASE ~sig /\ w = 0
  <2>1. n = [qpec EXCEPT ![td] = 0]
    BY <1>3, <1>9
  <2>2. k = Len(s) + 1
    BY <1>2, <1>9
  <2>3. ASSUME NEW u \in ToSet(e), n[u] > 0 PROVE u = Head(e)
    <3>1. u # td /\ u \in ToSet(s)
      BY <1>1, <2>1, <2>3
    <3>2. qpec[u] > 0
      BY <1>7, <2>1, <2>3, <3>1
    <3>3. u = Head(s)
      BY <3>1, <3>2 DEF OnlyFirst
    <3>4. s # <<>> /\ Head(s) = s[1] /\ 1 < k
      BY <2>2, <3>1 DEF ToSet
    <3> QED BY <1>4, <1>5, <3>3, <3>4
  <2>4. OnlyFirst(n, e)
    BY <2>3 DEF OnlyFirst
  <2> QED BY <2>1, <2>4 DEF n, e
<1>10. CASE ~sig /\ w # 0
  <2>1. n = [qpec EXCEPT ![td] = qpec[s[w]], ![s[w]] = 0]
    BY <1>3, <1>10
  <2>2. k = w /\ w \in 1..Len(s) /\ s[w] \in ToSet(s)
    BY <1>2, <1>10 DEF ToSet
  <2>3. \A u \in S \ {td, s[w]} : n[u] = qpec[u]
    BY <2>1
  <2>4. n[s[w]] = 0 /\ n[td] = qpec[s[w]]
    BY <1>7, <2>1, <2>2
  <2>5. n \in [S -> Nat]
    BY <1>7, <2>1, <2>2
  <2>6. 1 \in 1..Len(s) /\ Head(s) = s[1] /\ s[1] \in ToSet(s)
    BY <2>2 DEF ToSet
  <2>7. ASSUME NEW u \in ToSet(e), n[u] > 0 PROVE u = Head(e)
    <3>1. u # s[w]
      BY <2>4, <2>7
    <3>2. CASE u = td
      <4>1. s[w] = s[1]
        BY <2>2, <2>4, <2>6, <2>7, <3>2 DEF OnlyFirst
      <4>2. w = 1
        BY <1>6, <2>2, <2>6, <4>1
      <4> QED BY <1>4, <1>5, <2>2, <3>2, <4>2
    <3>3. CASE u # td
      <4>1. u \in ToSet(s) /\ n[u] = qpec[u]
        BY <1>1, <1>7, <2>3, <3>1, <3>3
      <4>2. u = s[1]
        BY <2>6, <2>7, <4>1 DEF OnlyFirst
      <4>3. 1 < k
        BY <2>2, <3>1, <4>2
      <4> QED BY <1>4, <1>5, <4>2, <4>3
    <3> QED BY <3>2, <3>3
  <2>8. OnlyFirst(n, e)
    BY <2>7 DEF OnlyFirst
  <2> QED BY <2>2, <2>3, <2>5, <2>8 DEF n, e
<1> QED BY <1>8, <1>9, <1>10


-----------------------------------------------------------------------------
(* A thread put in front (NutThreadCreate, the failure path of NutSleep).  *)

\* Every thread keeps its place behind the new one.
LEMMA FrontIs ==
    ASSUME NEW S, NEW s \in Seq(S), NEW td \in S, td \notin ToSet(s), IsInjective(s)
    PROVE  /\ <<td>> \o s \in Seq(S) /\ <<td>> \o s # <<>>
           /\ IsInjective(<<td>> \o s)
           /\ ToSet(<<td>> \o s) = ToSet(s) \cup {td}
           /\ s # <<>> => Last(<<td>> \o s) = Last(s)
<1> DEFINE e == <<td>> \o s
<1>1. e \in Seq(S) /\ Len(e) = Len(s) + 1 /\ Len(s) \in Nat /\ e[1] = td
  OBVIOUS
<1>2. \A i \in 1..Len(s) : e[i + 1] = s[i]
  OBVIOUS
<1> HIDE DEF e
<1>3. \A i \in 1..Len(e) : i = 1 \/ (i - 1 \in 1..Len(s) /\ e[i] = s[i - 1])
  <2>1. ASSUME NEW i \in 1..Len(e), i # 1 PROVE i - 1 \in 1..Len(s) /\ e[i] = s[i - 1]
    <3>1. i - 1 \in 1..Len(s) /\ (i - 1) + 1 = i
      BY <1>1, <2>1
    <3> QED BY <1>2, <3>1
  <2> QED BY <2>1
<1>4. \A i \in 1..Len(s) : s[i] # td /\ s[i] \in ToSet(s)
  BY DEF ToSet
<1>5. ASSUME NEW i \in 1..Len(e), NEW j \in 1..Len(e), e[i] = e[j] PROVE i = j
  <2>1. CASE i = 1 \/ j = 1
    <3>1. \A k \in 1..Len(e) : k = 1 \/ e[k] # td
      BY <1>3, <1>4
    <3> QED BY <1>1, <1>5, <2>1, <3>1
  <2>2. CASE i # 1 /\ j # 1
    <3>1. /\ i - 1 \in 1..Len(s) /\ j - 1 \in 1..Len(s)
          /\ s[i - 1] = s[j - 1]
      BY <1>3, <1>5, <2>2
    <3>2. i - 1 = j - 1
      BY <3>1 DEF IsInjective
    <3> QED BY <3>2
  <2> QED BY <2>1, <2>2
<1>6. ASSUME NEW x PROVE x \in ToSet(e) <=> x \in ToSet(s) \cup {td}
  <2>1. ASSUME NEW i \in 1..Len(e), x = e[i] PROVE x \in ToSet(s) \cup {td}
    BY <1>1, <1>3, <1>4, <2>1
  <2>2. 1 \in 1..Len(e) /\ \A i \in 1..Len(s) : i + 1 \in 1..Len(e)
    BY <1>1
  <2>3. td \in ToSet(e)
    BY <1>1, <2>2 DEF ToSet
  <2>4. ASSUME NEW i \in 1..Len(s), x = s[i] PROVE x \in ToSet(e)
    BY <1>2, <2>2, <2>4 DEF ToSet
  <2>5. x \in ToSet(e) => x \in ToSet(s) \cup {td}
    <3>1. SUFFICES ASSUME x \in ToSet(e) PROVE x \in ToSet(s) \cup {td}
      OBVIOUS
    <3>2. PICK i \in 1..Len(e) : x = e[i]
      BY <3>1 DEF ToSet
    <3> QED BY <2>1, <3>2
  <2>6. x \in ToSet(s) => x \in ToSet(e)
    BY <2>4 DEF ToSet
  <2> QED BY <2>3, <2>5, <2>6
<1>7. s # <<>> => Last(e) = Last(s)
  <2>1. SUFFICES ASSUME s # <<>> PROVE Last(e) = Last(s)
    OBVIOUS
  <2>2. Len(s) \in 1..Len(s)
    BY <2>1
  <2> QED BY <1>1, <1>2, <2>2 DEF Last
<1>8. IsInjective(e)
  BY <1>5 DEF IsInjective
<1>9. e # <<>> /\ ToSet(e) = ToSet(s) \cup {td}
  BY <1>1, <1>6
<1> QED BY <1>1, <1>7, <1>8, <1>9 DEF e


=============================================================================
