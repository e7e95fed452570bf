--------------------------- MODULE NutHeapProofs ----------------------------
(***************************************************************************)
(* The free list of the heap is sound, no byte is given out twice, and the *)
(* heap implements Allocator, for any regions, requests and sizes of the   *)
(* structures.  The second half of the module is about the timers, which   *)
(* are blocks of this heap: their delta list implements TimerService, for  *)
(* any timers, intervals and lag.                                          *)
(***************************************************************************)
EXTENDS NutHeap, NutTimer, PriQueueProofs, FiniteSetTheorems

FNode == [addr : Nat, size : Nat]

\* A node the free list may hold.
Legal(x) == x \in FNode /\ x.size >= NodeSize /\ End(x) <= Word

\* FreeListSound of any list, with its types.
Sound(list) ==
    /\ list \in Seq(FNode)
    /\ \A i \in 1..Len(list) : Legal(list[i])
    /\ \A i, j \in 1..Len(list) : i < j => End(list[i]) < list[j].addr

\* Nothing of x is free.
Clear(list, x) == \A i \in 1..Len(list) : Apart(list[i], x)

Block(b) == Node(b, hn_size[b])

Pending == added + 1..Len(Region)

\* The inductive invariant: free nodes, blocks and the regions still to come are
\* different memory.
IInv ==
    /\ Sound(heapFreeList)
    /\ added \in 0..Len(Region)
    /\ DOMAIN hn_size \subseteq Nat
    /\ \A b \in DOMAIN hn_size :
          /\ hn_size[b] \in Nat /\ hn_size[b] >= NodeMin /\ b + hn_size[b] <= Word
          /\ Clear(heapFreeList, Block(b))
    /\ \A b, c \in DOMAIN hn_size : b # c => Apart(Block(b), Block(c))
    /\ \A k \in Pending :
          /\ Clear(heapFreeList, RegionNode(Region[k]))
          /\ \A b \in DOMAIN hn_size : Apart(Block(b), RegionNode(Region[k]))

-----------------------------------------------------------------------------
(* Changes of the list.                                                    *)

LEMMA NodeIs ==
    ASSUME NEW a \in Nat, NEW n \in Nat
    PROVE  Node(a, n) \in FNode /\ Node(a, n).addr = a /\ Node(a, n).size = n
  BY DEF Node, FNode

\* A node ends behind its beginning.
LEMMA NodeSpan ==
    ASSUME NEW x \in FNode
    PROVE  /\ x.addr \in Nat /\ x.size \in Nat /\ End(x) \in Nat
           /\ End(x) = x.addr + x.size /\ x.addr <= End(x)
<1>1. x.addr \in Nat /\ x.size \in Nat
  BY DEF FNode
<1>2. End(x) = x.addr + x.size
  BY DEF End
<1> QED BY <1>1, <1>2

\* Two nodes that adjoin, joined: what is apart from both is apart from the result.
LEMMA JoinApart ==
    ASSUME NEW x \in FNode, NEW y \in FNode, NEW z \in FNode, z.size > 0,
           End(x) = y.addr, Apart(x, z), Apart(y, z)
    PROVE  Apart(Node(x.addr, x.size + y.size), z)
  BY NodeIs DEF Apart, End, FNode, Node

\* Node i gets another extent that keeps its distance.
LEMMA ReplaceSound ==
    ASSUME NEW list, Sound(list), NEW i \in 1..Len(list), NEW x, Legal(x),
           \A j \in 1..Len(list) : j < i => End(list[j]) < x.addr,
           \A j \in 1..Len(list) : i < j => End(x) < list[j].addr
    PROVE  /\ Sound([list EXCEPT ![i] = x])
           /\ \A z : Clear(list, z) /\ Apart(x, z) => Clear([list EXCEPT ![i] = x], z)
<1> DEFINE e == [list EXCEPT ![i] = x]
<1>1. /\ e \in Seq(FNode) /\ Len(e) = Len(list)
      /\ \A j \in 1..Len(list) : e[j] = IF j = i THEN x ELSE list[j]
  BY DEF Sound, Legal
<1> HIDE DEF e
<1>2. Sound(e)
  BY <1>1 DEF Sound
<1>3. ASSUME NEW z, Clear(list, z), Apart(x, z) PROVE Clear(e, z)
  BY <1>1, <1>3 DEF Clear
<1> QED BY <1>2, <1>3 DEF e

\* Node i is taken off.
LEMMA RemoveSound ==
    ASSUME NEW list, Sound(list), NEW i \in 1..Len(list)
    PROVE  /\ Sound(RemoveAt(list, i)) /\ Removed(RemoveAt(list, i), list, i)
           /\ \A z : Clear(list, z) => Clear(RemoveAt(list, i), z)
<1> DEFINE e == RemoveAt(list, i)
<1>1. e \in Seq(FNode) /\ Removed(e, list, i)
  BY RemoveAtIs DEF Sound
<1> HIDE DEF e
<1>2. Len(e) \in Nat /\ Len(list) \in Nat /\ Len(e) = Len(list) - 1
  BY <1>1 DEF Removed, Sound
<1>3. \A j \in 1..Len(e) : e[j] = IF j < i THEN list[j] ELSE list[j + 1]
  BY <1>1, <1>2 DEF Removed
<1>4. \A j \in 1..Len(e) : Legal(e[j])
  BY <1>2, <1>3 DEF Sound
<1>5. ASSUME NEW j \in 1..Len(e), NEW k \in 1..Len(e), j < k
      PROVE  End(e[j]) < e[k].addr
  BY <1>2, <1>3, <1>5 DEF Sound
<1>6. ASSUME NEW z, Clear(list, z) PROVE Clear(e, z)
  BY <1>2, <1>3, <1>6 DEF Clear
<1>7. Sound(e)
  BY <1>1, <1>4, <1>5 DEF Sound
<1> QED BY <1>1, <1>6, <1>7 DEF e

\* A node goes between two others.
LEMMA InsertSound ==
    ASSUME NEW list, Sound(list), NEW i \in 1..Len(list), NEW x, Legal(x),
           \A j \in 1..Len(list) : j < i => End(list[j]) < x.addr,
           \A j \in 1..Len(list) : i <= j => End(x) < list[j].addr
    PROVE  /\ Sound(InsertAt(list, i, x))
           /\ \A z : Clear(list, z) /\ Apart(x, z) => Clear(InsertAt(list, i, x), z)
<1> DEFINE e == InsertAt(list, i, x)
<1>1. e \in Seq(FNode) /\ Inserted(e, list, i, x)
  BY InsertAtIs DEF Sound, Legal
<1> HIDE DEF e
<1>2. Len(e) \in Nat /\ Len(list) \in Nat /\ Len(e) = Len(list) + 1
  BY <1>1 DEF Inserted, Sound
<1>3. \A j \in 1..Len(e) : e[j] = IF j < i THEN list[j] ELSE IF j = i THEN x ELSE list[j - 1]
  BY <1>1, <1>2 DEF Inserted
<1>4. \A j \in 1..Len(e) : Legal(e[j])
  BY <1>2, <1>3 DEF Sound
<1>5. ASSUME NEW j \in 1..Len(e), NEW k \in 1..Len(e), j < k
      PROVE  End(e[j]) < e[k].addr
  <2>0. \A m, n \in 1..Len(list) : m < n => End(list[m]) < list[n].addr
    BY DEF Sound
  <2>1. CASE k < i
    BY <1>2, <1>3, <1>5, <2>0, <2>1
  <2>2. CASE k = i
    BY <1>2, <1>3, <1>5, <2>2
  <2>3. CASE k > i /\ j > i
    <3>1. j - 1 \in 1..Len(list) /\ k - 1 \in 1..Len(list) /\ j - 1 < k - 1
      BY <1>2, <1>5, <2>3
    <3>2. e[j] = list[j - 1] /\ e[k] = list[k - 1]
      BY <1>2, <1>3, <1>5, <2>3
    <3> QED BY <2>0, <3>1, <3>2
  <2>4. CASE k > i /\ j = i
    <3>1. k - 1 \in 1..Len(list) /\ i <= k - 1
      BY <1>2, <1>5, <2>4
    <3>2. e[j] = x /\ e[k] = list[k - 1]
      BY <1>2, <1>3, <1>5, <2>4
    <3> QED BY <3>1, <3>2
  <2>5. CASE k > i /\ j < i
    <3>1. k - 1 \in 1..Len(list) /\ j \in 1..Len(list) /\ j < k - 1
      BY <1>2, <1>5, <2>5
    <3>2. e[j] = list[j] /\ e[k] = list[k - 1]
      BY <1>2, <1>3, <1>5, <2>5
    <3> QED BY <2>0, <3>1, <3>2
  <2> QED BY <1>2, <1>5, <2>1, <2>2, <2>3, <2>4, <2>5
<1>6. ASSUME NEW z, Clear(list, z), Apart(x, z) PROVE Clear(e, z)
  BY <1>2, <1>3, <1>6 DEF Clear
<1>7. Sound(e)
  BY <1>1, <1>4, <1>5 DEF Sound
<1> QED BY <1>6, <1>7 DEF e

\* A node goes to the end.
LEMMA AppendSound ==
    ASSUME NEW list, Sound(list), NEW x, Legal(x),
           \A j \in 1..Len(list) : End(list[j]) < x.addr
    PROVE  /\ Sound(Append(list, x))
           /\ \A z : Clear(list, z) /\ Apart(x, z) => Clear(Append(list, x), z)
<1> DEFINE e == Append(list, x)
<1>1. /\ e \in Seq(FNode) /\ Len(e) = Len(list) + 1 /\ Len(list) \in Nat
      /\ \A j \in 1..Len(e) : e[j] = IF j <= Len(list) THEN list[j] ELSE x
  BY DEF Sound, Legal
<1> HIDE DEF e
<1>2. Sound(e)
  BY <1>1 DEF Sound
<1>3. ASSUME NEW z, Clear(list, z), Apart(x, z) PROVE Clear(e, z)
  BY <1>1, <1>3 DEF Clear
<1> QED BY <1>2, <1>3 DEF e

-----------------------------------------------------------------------------
(* NutHeapRootFree.                                                        *)

\* What lies behind a node in the list lies behind it in memory.
LEMMA Around ==
    ASSUME NEW list, Sound(list), NEW x, Legal(x), Clear(list, x), NEW i \in 1..Len(list)
    PROVE  /\ list[i].addr > x.addr => End(x) <= list[i].addr
           /\ ~(list[i].addr > x.addr) => End(list[i]) <= x.addr
  BY HeapAssumption DEF Sound, Legal, Clear, Apart, End, FNode

LEMMA JoinFrontSound ==
    ASSUME NEW list, Sound(list), NEW x, Legal(x), Clear(list, x),
           NEW i \in 1..Len(list), End(list[i]) = x.addr
    PROVE  /\ Sound(JoinFront(list, i, x))
           /\ \A z \in FNode : z.size > 0 /\ Clear(list, z) /\ Apart(x, z)
                 => Clear(JoinFront(list, i, x), z)
<1> USE HeapAssumption
<1> DEFINE grown == Node(list[i].addr, list[i].size + x.size)
<1>1. Len(list) \in Nat /\ \A j \in 1..Len(list) : list[j] \in FNode /\ Legal(list[j])
  BY DEF Sound, Legal
<1>2. /\ grown \in FNode /\ grown.addr = list[i].addr /\ grown.size = list[i].size + x.size
      /\ End(grown) = End(x) /\ Legal(grown)
  <2>1. list[i] \in FNode /\ x \in FNode /\ list[i].size + x.size \in Nat /\ list[i].addr \in Nat
    BY <1>1 DEF Legal, FNode
  <2>2. grown \in FNode /\ grown.addr = list[i].addr /\ grown.size = list[i].size + x.size
    BY <2>1, NodeIs
  <2> HIDE DEF grown
  <2>3. End(grown) = End(x)
    BY <2>1, <2>2 DEF End, FNode
  <2>4. grown.size >= NodeSize /\ End(grown) <= Word
    BY <2>1, <2>2, <2>3 DEF Legal, FNode
  <2> QED BY <2>2, <2>3, <2>4 DEF Legal
<1>3. \A z \in FNode : z.size > 0 /\ Clear(list, z) /\ Apart(x, z) => Apart(grown, z)
  BY <1>1, JoinApart DEF Legal, Clear
<1>4. \A j \in 1..Len(list) : j < i => End(list[j]) < grown.addr
  BY <1>2 DEF Sound
<1>5. \A j \in 1..Len(list) : i < j => End(grown) <= list[j].addr
  <2> SUFFICES ASSUME NEW j \in 1..Len(list), i < j PROVE End(grown) <= list[j].addr
    OBVIOUS
  <2>1. End(list[i]) < list[j].addr
    BY DEF Sound
  <2>2. list[j].addr > x.addr
    BY <2>1
  <2> QED BY <1>2, <2>2, Around
<1> HIDE DEF grown
<1>6. CASE i < Len(list) /\ End(grown) = list[i + 1].addr
  <2> DEFINE r == RemoveAt(list, i + 1)
             y == list[i + 1]
             n == grown.size + y.size
             both == Node(grown.addr, n)
  <2>0. i + 1 \in 1..Len(list)
    BY <1>1, <1>6
  <2>1. Sound(r) /\ Removed(r, list, i + 1) /\ \A z : Clear(list, z) => Clear(r, z)
    BY <2>0, RemoveSound
  <2> HIDE DEF r
  <2>2. y \in FNode /\ Legal(y)
    BY <1>1, <2>0
  <2>3. /\ both \in FNode /\ both.addr = grown.addr /\ both.size = n
        /\ End(both) = End(y) /\ Legal(both)
    <3>1. grown.addr \in Nat /\ grown.size \in Nat /\ y.size \in Nat /\ y.addr \in Nat /\ n \in Nat
      BY <1>2, <2>2 DEF FNode
    <3>2. both \in FNode /\ both.addr = grown.addr /\ both.size = n
      BY <3>1, NodeIs
    <3> HIDE DEF both
    <3>3. End(both) = End(y)
      BY <1>6, <3>1, <3>2 DEF End
    <3>4. both.size >= NodeSize /\ End(both) <= Word
      BY <2>2, <3>1, <3>2, <3>3 DEF Legal
    <3> QED BY <3>2, <3>3, <3>4 DEF Legal
  <2>4. \A z \in FNode : z.size > 0 /\ Clear(list, z) /\ Apart(x, z) => Apart(both, z)
    BY <1>2, <1>3, <1>6, <2>0, <2>2, JoinApart DEF Clear
  <2> HIDE DEF both, y, n
  <2>5. /\ Len(r) = Len(list) - 1 /\ i \in 1..Len(r)
        /\ \A j \in 1..Len(r) : r[j] = IF j < i + 1 THEN list[j] ELSE list[j + 1]
    <3>1. /\ Len(r) = Len(list) - 1
          /\ \A j \in 1..Len(list) - 1 : r[j] = IF j < i + 1 THEN list[j] ELSE list[j + 1]
      BY <2>1 DEF Removed
    <3>2. i \in 1..Len(r)
      BY <1>6, <2>0, <3>1
    <3> QED BY <3>1, <3>2
  <2>6. \A j \in 1..Len(r) : j < i => End(r[j]) < both.addr
    BY <1>1, <1>4, <2>3, <2>5
  <2>7. \A j \in 1..Len(r) : i < j => End(both) < r[j].addr
    <3> SUFFICES ASSUME NEW j \in 1..Len(r), i < j PROVE End(both) < r[j].addr
      OBVIOUS
    <3>1. r[j] = list[j + 1] /\ j + 1 \in 1..Len(list) /\ i + 1 < j + 1
      BY <1>1, <2>5
    <3>2. End(list[i + 1]) < list[j + 1].addr
      BY <2>0, <3>1 DEF Sound
    <3> QED BY <2>3, <3>1, <3>2 DEF y
  <2>8. /\ Sound([r EXCEPT ![i] = both])
        /\ \A z : Clear(r, z) /\ Apart(both, z) => Clear([r EXCEPT ![i] = both], z)
    BY <2>1, <2>3, <2>5, <2>6, <2>7, ReplaceSound
  <2>9. [r EXCEPT ![i].size = n] = [r EXCEPT ![i] = both]
    <3>1. r[i] = list[i] /\ r[i] \in FNode
      BY <1>1, <2>5
    <3>2. [r[i] EXCEPT !.size = n] = Node(r[i].addr, n)
      BY <3>1 DEF FNode, Node
    <3>3. Node(r[i].addr, n) = both
      BY <1>2, <3>1 DEF both
    <3> QED BY <3>2, <3>3
  <2>10. JoinFront(list, i, x) = [r EXCEPT ![i].size = n]
    BY <1>6 DEF JoinFront, grown, r, n, y
  <2> QED BY <2>1, <2>4, <2>8, <2>9, <2>10
<1>7. CASE ~(i < Len(list) /\ End(grown) = list[i + 1].addr)
  <2>1. JoinFront(list, i, x) = [list EXCEPT ![i] = grown]
    BY <1>7 DEF JoinFront, grown
  <2>2. \A j \in 1..Len(list) : i < j => End(grown) < list[j].addr
    <3> SUFFICES ASSUME NEW j \in 1..Len(list), i < j PROVE End(grown) < list[j].addr
      OBVIOUS
    <3>0. i + 1 \in 1..Len(list) /\ i < Len(list)
      BY <1>1
    <3>1. CASE j = i + 1
      <4>1. End(grown) # list[j].addr /\ End(grown) <= list[j].addr
        BY <1>5, <1>7, <3>0, <3>1
      <4>2. End(grown) \in Nat
        BY <1>2 DEF FNode, End
      <4>3. list[j].addr \in Nat
        BY <1>1 DEF FNode
      <4> QED BY <4>1, <4>2, <4>3
    <3>2. CASE j # i + 1
      <4>1. End(list[i + 1]) < list[j].addr
        BY <3>0, <3>2 DEF Sound
      <4>2. End(grown) <= list[i + 1].addr
        BY <1>5, <3>0
      <4> QED BY <1>1, <1>2, <3>0, <4>1, <4>2 DEF FNode, End
    <3> QED BY <3>1, <3>2
  <2>3. /\ Sound([list EXCEPT ![i] = grown])
        /\ \A z : Clear(list, z) /\ Apart(grown, z) => Clear([list EXCEPT ![i] = grown], z)
    BY <1>2, <1>4, <2>2, ReplaceSound
  <2> QED BY <1>3, <2>1, <2>3
<1> QED BY <1>6, <1>7

LEMMA LinkBeforeSound ==
    ASSUME NEW list, Sound(list), NEW x, Legal(x), Clear(list, x),
           NEW i \in 1..Len(list), list[i].addr > x.addr,
           \A j \in 1..Len(list) : j < i => End(list[j]) < x.addr
    PROVE  /\ Sound(LinkBefore(list, i, x))
           /\ \A z \in FNode : z.size > 0 /\ Clear(list, z) /\ Apart(x, z)
                 => Clear(LinkBefore(list, i, x), z)
<1> USE HeapAssumption
<1>1. /\ list[i] \in FNode /\ Legal(list[i]) /\ x \in FNode /\ End(x) <= list[i].addr
      /\ End(list[i]) \in Nat /\ End(x) \in Nat /\ list[i].addr \in Nat /\ list[i].size \in Nat
      /\ \A j \in 1..Len(list) : list[j].addr \in Nat
  <2>1. list[i] \in FNode /\ Legal(list[i]) /\ x \in FNode /\ \A j \in 1..Len(list) : list[j] \in FNode
    BY DEF Sound, Legal
  <2>2. End(x) <= list[i].addr
    BY Around
  <2> QED BY <2>1, <2>2 DEF FNode, End
<1>2. \A j \in 1..Len(list) : i < j => End(list[i]) < list[j].addr
  BY DEF Sound
<1>3. CASE End(x) = list[i].addr
  <2> DEFINE n == x.size + list[i].size
             both == Node(x.addr, n)
  <2>1. x.addr \in Nat /\ x.size \in Nat /\ n \in Nat
    BY <1>1 DEF FNode
  <2>2. both \in FNode /\ both.addr = x.addr /\ both.size = n
    BY <2>1, NodeIs
  <2>3. \A z \in FNode : z.size > 0 /\ Clear(list, z) /\ Apart(x, z) => Apart(both, z)
    BY <1>1, <1>3, JoinApart DEF Clear
  <2>4. LinkBefore(list, i, x) = [list EXCEPT ![i] = both]
    BY <1>3 DEF LinkBefore
  <2> HIDE DEF both
  <2>5. End(both) = End(list[i])
    BY <1>1, <1>3, <2>1, <2>2 DEF End
  <2>6. Legal(both)
    BY <1>1, <2>1, <2>2, <2>5 DEF Legal
  <2>7. /\ Sound([list EXCEPT ![i] = both])
        /\ \A z : Clear(list, z) /\ Apart(both, z) => Clear([list EXCEPT ![i] = both], z)
    BY <1>2, <2>2, <2>5, <2>6, ReplaceSound
  <2> QED BY <2>3, <2>4, <2>7
<1>4. CASE End(x) # list[i].addr
  <2>1. \A j \in 1..Len(list) : i <= j => End(x) < list[j].addr
    <3> SUFFICES ASSUME NEW j \in 1..Len(list), i <= j PROVE End(x) < list[j].addr
      OBVIOUS
    <3>1. CASE j = i
      BY <1>1, <1>4, <3>1
    <3>2. CASE j # i
      <4>1. End(list[i]) < list[j].addr /\ list[i].addr <= End(list[i])
        BY <1>1, <1>2, <3>2 DEF End
      <4> QED BY <1>1, <4>1
    <3> QED BY <3>1, <3>2
  <2>2. LinkBefore(list, i, x) = InsertAt(list, i, x)
    BY <1>4 DEF LinkBefore
  <2> QED BY <2>1, <2>2, InsertSound
<1> QED BY <1>3, <1>4

\* Memory that is not free goes to the list, which stays sound; nothing else does.
LEMMA FreedSound ==
    ASSUME NEW list, Sound(list), NEW x, Legal(x), Clear(list, x)
    PROVE  /\ Sound(Freed(list, x))
           /\ \A z \in FNode : z.size > 0 /\ Clear(list, z) /\ Apart(x, z) => Clear(Freed(list, x), z)
<1> DEFINE front  == {i \in DOMAIN list : End(list[i]) = x.addr}
           behind == {i \in DOMAIN list : list[i].addr > x.addr}
           around == {i \in DOMAIN list : list[i].addr <= x.addr /\ End(list[i]) > x.addr}
           stops  == front \cup behind \cup around
           i      == Min(stops)
<1>1. /\ DOMAIN list = 1..Len(list) /\ x.addr \in Nat
      /\ \A j \in 1..Len(list) : End(list[j]) \in Nat /\ list[j].addr \in Nat
  BY DEF Sound, Legal, FNode, End
<1>2. around = {}
  BY <1>1, Around
<1>3. \A j \in 1..Len(list) : j \notin stops => End(list[j]) < x.addr
  <2> SUFFICES ASSUME NEW j \in 1..Len(list), j \notin stops PROVE End(list[j]) < x.addr
    OBVIOUS
  <2>1. End(list[j]) # x.addr /\ ~(list[j].addr > x.addr)
    BY <1>1
  <2>2. End(list[j]) <= x.addr
    BY <2>1, Around
  <2> QED BY <1>1, <2>1, <2>2
<1>4. stops \in SUBSET Nat /\ stops \subseteq 1..Len(list)
  BY <1>1
<1>5. CASE stops = {}
  <2>1. Freed(list, x) = Append(list, x)
    BY <1>5 DEF Freed
  <2> QED BY <1>3, <1>5, <2>1, AppendSound
<1>6. CASE stops # {}
  <2>1. i \in stops /\ \A j \in stops : i <= j
    BY <1>4, <1>6, MinOfNonempty
  <2>2. Freed(list, x) = IF i \in front THEN JoinFront(list, i, x)
                         ELSE IF i \in behind THEN LinkBefore(list, i, x) ELSE list
    BY <1>6 DEF Freed
  <2>3. i \in front => End(list[i]) = x.addr
    OBVIOUS
  <2>4. i \in behind => list[i].addr > x.addr
    OBVIOUS
  <2>5. i \in front \/ i \in behind
    BY <1>2, <2>1
  <2> HIDE DEF front, behind, around, stops, i
  <2>6. i \in 1..Len(list) /\ \A j \in 1..Len(list) : j < i => End(list[j]) < x.addr
    BY <1>3, <1>4, <2>1
  <2>7. CASE i \in front
    BY <2>2, <2>3, <2>6, <2>7, JoinFrontSound
  <2>8. CASE i \notin front
    BY <2>2, <2>4, <2>5, <2>6, <2>8, LinkBeforeSound
  <2> QED BY <2>7, <2>8
<1> QED BY <1>5, <1>6

\* A release of memory that is free changes nothing.
LEMMA FreedTwice ==
    ASSUME NEW list, Sound(list), NEW i \in 1..Len(list),
           NEW a \in list[i].addr..(End(list[i]) - 1)
    PROVE  Freed(list, Node(a, NodeSize)) = list
<1> DEFINE x == Node(a, NodeSize)
           front  == {k \in DOMAIN list : End(list[k]) = x.addr}
           behind == {k \in DOMAIN list : list[k].addr > x.addr}
           around == {k \in DOMAIN list : list[k].addr <= x.addr /\ End(list[k]) > x.addr}
           stops  == front \cup behind \cup around
<1>1. /\ DOMAIN list = 1..Len(list)
      /\ \A k \in 1..Len(list) :
            End(list[k]) \in Nat /\ list[k].addr \in Nat /\ list[k].addr <= End(list[k])
  BY DEF Sound, Legal, FNode, End
<1>2. x.addr = a /\ a \in Int /\ list[i].addr <= a /\ a < End(list[i])
  BY <1>1 DEF Node
<1>3. \A k \in 1..Len(list) : k < i => End(list[k]) < list[i].addr
  BY DEF Sound
<1>4. \A k \in 1..Len(list) : i < k => End(list[i]) < list[k].addr
  BY DEF Sound
<1>5. i \in around /\ i \notin front /\ i \notin behind
  BY <1>1, <1>2
<1>6. ASSUME NEW k \in stops PROVE i <= k
  <2>1. k \in 1..Len(list)
    BY <1>1
  <2>2. CASE k < i
    <3>1. End(list[k]) < a /\ list[k].addr <= End(list[k])
      BY <1>1, <1>2, <1>3, <2>1, <2>2
    <3> QED BY <1>1, <1>2, <2>1, <3>1
  <2> QED BY <2>1, <2>2
<1>7. stops \in SUBSET Nat /\ i \in stops
  BY <1>1, <1>5
<1>8. Min(stops) = i
  <2>1. Min(stops) \in stops /\ \A k \in stops : Min(stops) <= k
    BY <1>7, MinOfNonempty
  <2> HIDE DEF stops
  <2>2. i <= Min(stops) /\ Min(stops) <= i
    BY <1>6, <1>7, <2>1
  <2>3. Min(stops) \in Nat /\ i \in Nat
    BY <1>7, <2>1
  <2> QED BY <2>2, <2>3
<1> QED BY <1>5, <1>7, <1>8 DEF Freed

-----------------------------------------------------------------------------
(* NutHeapRootAlloc.                                                       *)

LEMMA BestFitIs ==
    ASSUME NEW list, Sound(list), NEW need \in Nat, Fits(list, need)
    PROVE  BestFit(list, need) \in 1..Len(list) /\ list[BestFit(list, need)].size >= need
<1> DEFINE fits == {i \in DOMAIN list : list[i].size >= need}
           sizes == {list[i].size : i \in fits}
           best == {i \in fits : \A j \in fits : list[i].size <= list[j].size}
<1>1. DOMAIN list = 1..Len(list) /\ \A i \in 1..Len(list) : list[i].size \in Nat
  BY DEF Sound, Legal, FNode
<1>2. fits # {} /\ fits \subseteq 1..Len(list)
  BY <1>1 DEF Fits
<1>3. sizes \in SUBSET Nat /\ sizes # {}
  BY <1>1, <1>2
<1>4. PICK i \in fits : list[i].size = Min(sizes)
  BY <1>3, MinOfNonempty
<1>5. \A n \in sizes : Min(sizes) <= n
  BY <1>3, MinOfNonempty
<1>6. i \in best
  BY <1>4, <1>5
<1>7. best \in SUBSET Nat /\ best # {}
  BY <1>2, <1>6
<1>8. Min(best) \in best
  BY <1>7, MinOfNonempty
<1>9. BestFit(list, need) = Min(best)
  BY DEF BestFit
<1> QED BY <1>2, <1>8, <1>9

\* What is cut off node i is free no more and was free before.
LEMMA CutSound ==
    ASSUME NEW list, Sound(list), NEW i \in 1..Len(list), NEW n \in Nat \ {0}, n <= list[i].size
    PROVE  LET p == Node(list[i].addr, CutSize(list, i, n)) IN
           /\ Sound(Cut(list, i, n))
           /\ CutSize(list, i, n) \in Nat /\ CutSize(list, i, n) >= n
           /\ list[i].addr \in Nat /\ End(p) <= Word
           /\ Clear(Cut(list, i, n), p)
           /\ \A z \in FNode : Clear(list, z) => Clear(Cut(list, i, n), z) /\ Apart(p, z)
<1> USE HeapAssumption
<1> DEFINE size == CutSize(list, i, n)
           p == Node(list[i].addr, size)
           a == list[i].addr
           m == list[i].size
<1>1. a \in Nat /\ m \in Nat /\ list[i] = Node(a, m) /\ a + m <= Word /\ Legal(list[i])
  BY DEF Sound, Legal, FNode, End, Node
<1>2. size \in Nat /\ size >= n /\ size <= m
  BY <1>1 DEF CutSize
<1> HIDE DEF size
<1>3. /\ p \in FNode /\ p.addr = a /\ p.size = size /\ End(p) = a + size
      /\ End(list[i]) = a + m /\ End(p) <= Word
  BY <1>1, <1>2, NodeIs DEF End
<1> HIDE DEF p
<1>4. \A z \in FNode : Clear(list, z) => Apart(p, z)
  <2> SUFFICES ASSUME NEW z \in FNode, Clear(list, z) PROVE Apart(p, z)
    OBVIOUS
  <2>1. Apart(list[i], z) /\ z.addr \in Nat /\ z.size \in Nat
    BY DEF Clear, FNode
  <2>2. End(list[i]) <= z.addr \/ End(z) <= a
    BY <2>1 DEF Apart
  <2>3. End(p) <= End(list[i])
    BY <1>1, <1>2, <1>3
  <2>4. End(list[i]) \in Nat /\ End(p) \in Nat /\ End(z) \in Nat
    <3>1. End(z) \in Nat
      BY <2>1 DEF End
    <3> QED BY <1>1, <1>2, <1>3, <3>1
  <2>5. End(p) <= z.addr \/ End(z) <= p.addr
    BY <1>3, <2>1, <2>2, <2>3, <2>4
  <2> QED BY <2>5 DEF Apart
<1>5. \A j \in 1..Len(list) : j # i => Apart(list[j], p)
  <2> SUFFICES ASSUME NEW j \in 1..Len(list), j # i PROVE Apart(list[j], p)
    OBVIOUS
  <2>0. list[j] \in FNode
    BY DEF Sound
  <2>1. End(list[j]) \in Nat /\ list[j].addr \in Nat
    BY <2>0 DEF FNode, End
  <2>2. j < i => End(list[j]) < a
    BY DEF Sound
  <2>3. i < j => End(list[i]) < list[j].addr
    BY DEF Sound
  <2> QED BY <1>1, <1>2, <1>3, <2>1, <2>2, <2>3 DEF Apart
<1>6. CASE m - n >= NodeMin
  <2> DEFINE rest == Node(a + n, m - n)
             e == [list EXCEPT ![i] = rest]
  <2>1. rest \in FNode /\ rest.addr = a + n /\ rest.size = m - n
    <3>1. a + n \in Nat /\ m - n \in Nat
      BY <1>1
    <3> QED BY <3>1, NodeIs
  <2>2. Cut(list, i, n) = e
    BY <1>6 DEF Cut
  <2> HIDE DEF rest
  <2>3. End(rest) = a + m /\ Legal(rest) /\ size = n
    BY <1>1, <1>6, <2>1 DEF Legal, End, CutSize, size
  <2>4. \A j \in 1..Len(list) : j < i => End(list[j]) < rest.addr
    <3> SUFFICES ASSUME NEW j \in 1..Len(list), j < i PROVE End(list[j]) < rest.addr
      OBVIOUS
    <3>1. End(list[j]) < a /\ End(list[j]) \in Nat
      BY DEF Sound, Legal, FNode, End
    <3> QED BY <1>1, <2>1, <3>1
  <2>5. \A j \in 1..Len(list) : i < j => End(rest) < list[j].addr
    BY <1>3, <2>3 DEF Sound
  <2>6. Sound(e) /\ \A z : Clear(list, z) /\ Apart(rest, z) => Clear(e, z)
    BY <2>3, <2>4, <2>5, ReplaceSound
  <2>7. ASSUME NEW z \in FNode, Clear(list, z) PROVE Clear(e, z)
    <3>1. Apart(list[i], z) /\ z.addr \in Nat /\ z.size \in Nat
      BY <2>7 DEF Clear, FNode
    <3>2. Apart(rest, z)
      BY <1>1, <1>3, <2>1, <2>3, <3>1 DEF Apart, End
    <3> QED BY <2>6, <2>7, <3>2
  <2>8. Clear(e, p)
    <3>1. \A j \in 1..Len(list) : e[j] = IF j = i THEN rest ELSE list[j]
      BY DEF Sound
    <3>2. Len(e) = Len(list)
      BY DEF Sound
    <3>3. Apart(rest, p)
      BY <1>1, <1>2, <1>3, <2>1, <2>3 DEF Apart
    <3> HIDE DEF e
    <3> QED BY <1>5, <3>1, <3>2, <3>3 DEF Clear
  <2> QED BY <1>1, <1>2, <1>3, <1>4, <2>2, <2>6, <2>7, <2>8 DEF p, size
<1>7. CASE ~(m - n >= NodeMin)
  <2> DEFINE e == RemoveAt(list, i)
  <2>1. Cut(list, i, n) = e
    BY <1>7 DEF Cut
  <2>2. Sound(e) /\ Removed(e, list, i) /\ \A z : Clear(list, z) => Clear(e, z)
    BY RemoveSound
  <2> HIDE DEF e
  <2>3. Len(list) \in Nat /\ Len(e) = Len(list) - 1
        /\ \A j \in 1..Len(e) : e[j] = IF j < i THEN list[j] ELSE list[j + 1]
    BY <2>2 DEF Removed, Sound
  <2>4. Clear(e, p)
    <3> SUFFICES ASSUME NEW j \in 1..Len(e) PROVE Apart(e[j], p)
      BY DEF Clear
    <3> DEFINE k == IF j < i THEN j ELSE j + 1
    <3>1. k \in 1..Len(list) /\ k # i /\ e[j] = list[k]
      BY <2>3
    <3> HIDE DEF k
    <3> QED BY <1>5, <3>1
  <2> QED BY <1>1, <1>2, <1>3, <1>4, <2>1, <2>2, <2>4 DEF p, size
<1> QED BY <1>6, <1>7

-----------------------------------------------------------------------------
(* The calls.                                                              *)

LEMMA RegionIs ==
    ASSUME NEW k \in 1..Len(Region)
    PROVE  LET r == RegionNode(Region[k]) IN Legal(r) /\ r \in FNode /\ r.size > 0
<1> DEFINE r == RegionNode(Region[k])
<1>1. r \in FNode /\ r.size >= NodeSize /\ End(r) <= Word
  BY RegionAssumption DEF FNode
<1> HIDE DEF r
<1>2. r.size > 0
  BY <1>1, HeapAssumption DEF FNode
<1> QED BY <1>1, <1>2 DEF Legal, r

LEMMA BlockIs ==
    ASSUME IInv, NEW b \in DOMAIN hn_size
    PROVE  /\ Legal(Block(b)) /\ Block(b) \in FNode /\ Block(b).size > 0
           /\ Block(b).addr = b /\ Block(b).size = hn_size[b]
           /\ b \in Nat /\ hn_size[b] \in Nat /\ Clear(heapFreeList, Block(b))
<1>1. b \in Nat /\ hn_size[b] \in Nat /\ hn_size[b] >= NodeMin /\ b + hn_size[b] <= Word
      /\ Clear(heapFreeList, Block(b))
  BY DEF IInv
<1>2. Block(b) \in FNode /\ Block(b).addr = b /\ Block(b).size = hn_size[b]
  BY <1>1, NodeIs DEF Block
<1> QED BY <1>1, <1>2, HeapAssumption DEF Legal, End

\* A step that changes the list and the block a at most.
LEMMA StepKeeps ==
    ASSUME IInv, NEW a \in Nat, added' = added, Sound(heapFreeList'),
           \A b \in DOMAIN hn_size' : b # a =>
              /\ b \in DOMAIN hn_size /\ hn_size'[b] = hn_size[b]
              /\ Clear(heapFreeList', Block(b))
              /\ a \in DOMAIN hn_size' => Apart(Node(a, hn_size'[a]), Block(b)),
           \A k \in Pending :
              /\ Clear(heapFreeList', RegionNode(Region[k]))
              /\ a \in DOMAIN hn_size' => Apart(Node(a, hn_size'[a]), RegionNode(Region[k])),
           a \in DOMAIN hn_size' =>
              /\ hn_size'[a] \in Nat /\ hn_size'[a] >= NodeMin /\ a + hn_size'[a] <= Word
              /\ Clear(heapFreeList', Node(a, hn_size'[a]))
    PROVE  IInv'
<1>1. added' \in 0..Len(Region) /\ DOMAIN hn_size' \subseteq Nat /\ Pending' = Pending
  BY DEF IInv, Pending
<1>2. \A b \in DOMAIN hn_size' : b # a => Block(b)' = Block(b)
  BY DEF Block
<1>3. a \in DOMAIN hn_size' => Block(a)' = Node(a, hn_size'[a])
  BY DEF Block
<1>4. \A b \in DOMAIN hn_size' :
          /\ hn_size'[b] \in Nat /\ hn_size'[b] >= NodeMin /\ b + hn_size'[b] <= Word
          /\ Clear(heapFreeList', Block(b)')
  <2> SUFFICES ASSUME NEW b \in DOMAIN hn_size'
               PROVE  /\ hn_size'[b] \in Nat /\ hn_size'[b] >= NodeMin /\ b + hn_size'[b] <= Word
                      /\ Clear(heapFreeList', Block(b)')
    OBVIOUS
  <2>1. CASE b = a
    BY <1>3, <2>1
  <2>2. CASE b # a
    BY <1>2, <2>2 DEF IInv
  <2> QED BY <2>1, <2>2
<1>5. \A b, c \in DOMAIN hn_size' : b # c => Apart(Block(b)', Block(c)')
  <2> SUFFICES ASSUME NEW b \in DOMAIN hn_size', NEW c \in DOMAIN hn_size', b # c
               PROVE  Apart(Block(b)', Block(c)')
    OBVIOUS
  <2>1. CASE b = a
    BY <1>2, <1>3, <2>1
  <2>2. CASE c = a
    BY <1>2, <1>3, <2>2 DEF Apart
  <2>3. CASE b # a /\ c # a
    BY <1>2, <2>3 DEF IInv
  <2> QED BY <2>1, <2>2, <2>3
<1>6. \A k \in Pending : \A b \in DOMAIN hn_size' : Apart(Block(b)', RegionNode(Region[k]))
  <2> SUFFICES ASSUME NEW k \in Pending, NEW b \in DOMAIN hn_size'
               PROVE  Apart(Block(b)', RegionNode(Region[k]))
    OBVIOUS
  <2>1. CASE b = a
    BY <1>3, <2>1
  <2>2. CASE b # a
    BY <1>2, <2>2 DEF IInv
  <2> QED BY <2>1, <2>2
<1> QED BY <1>1, <1>4, <1>5, <1>6 DEF IInv

LEMMA InitIInv == Init => IInv
<1> SUFFICES ASSUME Init PROVE IInv
  OBVIOUS
<1>1. Len(heapFreeList) = 0 /\ heapFreeList \in Seq(FNode)
  BY DEF Init
<1>2. DOMAIN hn_size = {}
  BY DEF Init
<1>3. Sound(heapFreeList) /\ \A x : Clear(heapFreeList, x)
  BY <1>1 DEF Sound, Clear
<1> QED BY <1>2, <1>3, RegionAssumption DEF Init, IInv

LEMMA PendingIs == ASSUME IInv, NEW k \in Pending PROVE k \in 1..Len(Region)
  BY RegionAssumption DEF IInv, Pending

LEMMA AddKeeps == ASSUME IInv, NutHeapRootAdd PROVE IInv'
<1> DEFINE x == RegionNode(Region[added + 1])
<1>1. added + 1 \in Pending /\ added' = added + 1 /\ added + 1 \in 0..Len(Region)
      /\ hn_size' = hn_size /\ heapFreeList' = Freed(heapFreeList, x)
  BY RegionAssumption DEF NutHeapRootAdd, IInv, Pending
<1>2. Legal(x) /\ Clear(heapFreeList, x) /\ Sound(heapFreeList)
  BY <1>1, PendingIs, RegionIs DEF IInv
<1>3. \A b \in DOMAIN hn_size : Apart(x, Block(b))
  BY <1>1 DEF IInv, Apart
<1>4. Pending' \subseteq Pending /\ added + 1 \notin Pending'
  BY <1>1, RegionAssumption DEF Pending, IInv
<1>5. \A k \in Pending' : /\ Clear(heapFreeList, RegionNode(Region[k]))
                         /\ Apart(x, RegionNode(Region[k]))
                         /\ RegionNode(Region[k]) \in FNode /\ RegionNode(Region[k]).size > 0
  <2> SUFFICES ASSUME NEW k \in Pending'
               PROVE  /\ Clear(heapFreeList, RegionNode(Region[k]))
                      /\ Apart(x, RegionNode(Region[k]))
                      /\ RegionNode(Region[k]) \in FNode /\ RegionNode(Region[k]).size > 0
    OBVIOUS
  <2>1. k \in Pending /\ k # added + 1
    BY <1>4
  <2>2. k \in 1..Len(Region) /\ added + 1 \in 1..Len(Region)
    BY <1>1, <2>1, PendingIs
  <2>3. Apart(x, RegionNode(Region[k]))
    BY <2>1, <2>2, RegionAssumption
  <2> QED BY <2>1, <2>2, <2>3, RegionIs DEF IInv
<1> HIDE DEF x
<1>6. /\ Sound(heapFreeList')
      /\ \A z \in FNode : z.size > 0 /\ Clear(heapFreeList, z) /\ Apart(x, z)
            => Clear(heapFreeList', z)
  BY <1>1, <1>2, FreedSound
<1>7. \A b \in DOMAIN hn_size : Clear(heapFreeList', Block(b))
  BY <1>3, <1>6, BlockIs
<1>8. \A b : Block(b)' = Block(b)
  BY <1>1 DEF Block
<1>9. \A k \in Pending' : Clear(heapFreeList', RegionNode(Region[k]))
  BY <1>5, <1>6
<1> QED BY <1>1, <1>4, <1>6, <1>7, <1>8, <1>9 DEF IInv

\* An allocation, with the release of a block or without.
LEMMA AllocKeeps ==
    ASSUME IInv, NEW need \in Nat, need >= NodeMin, NEW gone \in DOMAIN hn_size \cup {NIL},
           Alloc(need, gone), added' = added
    PROVE  IInv'
<1> USE HeapAssumption
<1> DEFINE i    == BestFit(heapFreeList, need)
           a    == heapFreeList[i].addr
           size == CutSize(heapFreeList, i, need)
           rest == Cut(heapFreeList, i, need)
           p    == Node(a, size)
<1>1. Sound(heapFreeList) /\ DOMAIN hn_size \subseteq Nat /\ need \in Nat \ {0}
  BY DEF IInv
<1>2. Fits(heapFreeList, need)
  BY DEF Alloc
<1>3. i \in 1..Len(heapFreeList) /\ need <= heapFreeList[i].size
  <2>1. i \in 1..Len(heapFreeList) /\ heapFreeList[i].size >= need
    BY <1>1, <1>2, BestFitIs
  <2> HIDE DEF i
  <2>2. heapFreeList[i] \in FNode
    BY <1>1, <2>1 DEF Sound, Legal
  <2>3. heapFreeList[i].size \in Nat
    BY <2>2 DEF FNode
  <2> QED BY <2>1, <2>3
<1>4. /\ heapFreeList' = IF gone = NIL THEN rest ELSE Freed(rest, Block(gone))
      /\ hn_size' = [b \in (DOMAIN hn_size \ {gone}) \cup {a} |->
                        IF b = a THEN size ELSE hn_size[b]]
  BY DEF Alloc, Block
<1> HIDE DEF i
<1>5. /\ Sound(rest) /\ size \in Nat /\ size >= need /\ a \in Nat /\ End(p) <= Word
      /\ Clear(rest, p)
      /\ \A z \in FNode : Clear(heapFreeList, z) => Clear(rest, z) /\ Apart(p, z)
  BY <1>1, <1>3, CutSound
<1> HIDE DEF a, size, rest
<1>6. p \in FNode /\ p.size > 0 /\ a + size <= Word /\ size >= NodeMin
  BY <1>5, NodeIs DEF End
<1> HIDE DEF p
<1>7. /\ Sound(heapFreeList') /\ Clear(heapFreeList', p)
      /\ \A z \in FNode : /\ z.size > 0 /\ Clear(heapFreeList, z)
                          /\ gone # NIL => Apart(Block(gone), z)
                          => Clear(heapFreeList', z)
  <2>1. CASE gone = NIL
    BY <1>4, <1>5, <2>1
  <2>2. CASE gone # NIL
    <3>1. Legal(Block(gone)) /\ Block(gone) \in FNode /\ Clear(heapFreeList, Block(gone))
      BY <2>2, BlockIs
    <3>2. Clear(rest, Block(gone)) /\ Apart(Block(gone), p)
      BY <1>5, <3>1 DEF Apart
    <3>3. /\ Sound(heapFreeList')
          /\ \A z \in FNode : z.size > 0 /\ Clear(rest, z) /\ Apart(Block(gone), z)
                => Clear(heapFreeList', z)
      BY <1>4, <1>5, <2>2, <3>1, <3>2, FreedSound
    <3> QED BY <1>5, <1>6, <2>2, <3>2, <3>3
  <2> QED BY <2>1, <2>2
<1>8. a \in DOMAIN hn_size' /\ hn_size'[a] = size
  BY <1>4
<1>9. ASSUME NEW b \in DOMAIN hn_size', b # a
      PROVE  /\ b \in DOMAIN hn_size /\ hn_size'[b] = hn_size[b]
             /\ Clear(heapFreeList', Block(b)) /\ Apart(p, Block(b))
  <2>1. b \in DOMAIN hn_size /\ b # gone /\ hn_size'[b] = hn_size[b]
    BY <1>4, <1>9
  <2>2. gone # NIL => Apart(Block(gone), Block(b))
    BY <2>1 DEF IInv
  <2>3. Block(b) \in FNode /\ Block(b).size > 0 /\ Clear(heapFreeList, Block(b))
    BY <2>1, BlockIs
  <2> QED BY <1>5, <1>7, <2>1, <2>2, <2>3
<1>10. ASSUME NEW k \in Pending
       PROVE  Clear(heapFreeList', RegionNode(Region[k])) /\ Apart(p, RegionNode(Region[k]))
  <2> DEFINE r == RegionNode(Region[k])
  <2>1. r \in FNode /\ r.size > 0
    BY PendingIs, RegionIs
  <2>2. Clear(heapFreeList, r) /\ (gone # NIL => Apart(Block(gone), r))
    BY DEF IInv
  <2> HIDE DEF r
  <2>3. Clear(heapFreeList', r) /\ Apart(p, r)
    BY <1>5, <1>7, <2>1, <2>2
  <2> QED BY <2>3 DEF r
<1> QED BY <1>5, <1>6, <1>7, <1>8, <1>9, <1>10, StepKeeps DEF p

LEMMA FreeKeeps == ASSUME IInv, NEW a \in DOMAIN hn_size, NutHeapRootFree(a) PROVE IInv'
<1>1. /\ heapFreeList' = Freed(heapFreeList, Block(a)) /\ added' = added
      /\ hn_size' = [b \in DOMAIN hn_size \ {a} |-> hn_size[b]]
  BY DEF NutHeapRootFree, Block
<1>2. Legal(Block(a)) /\ Clear(heapFreeList, Block(a)) /\ a \in Nat
  BY BlockIs
<1>3. /\ Sound(heapFreeList')
      /\ \A z \in FNode : z.size > 0 /\ Clear(heapFreeList, z) /\ Apart(Block(a), z)
            => Clear(heapFreeList', z)
  BY <1>1, <1>2, FreedSound DEF IInv
<1>4. a \notin DOMAIN hn_size'
  BY <1>1
<1>5. ASSUME NEW b \in DOMAIN hn_size'
      PROVE  b \in DOMAIN hn_size /\ hn_size'[b] = hn_size[b] /\ Clear(heapFreeList', Block(b))
  <2>1. b \in DOMAIN hn_size /\ b # a /\ hn_size'[b] = hn_size[b]
    BY <1>1
  <2>2. Apart(Block(a), Block(b))
    BY <2>1 DEF IInv
  <2> QED BY <1>3, <2>1, <2>2, BlockIs
<1>6. ASSUME NEW k \in Pending PROVE Clear(heapFreeList', RegionNode(Region[k]))
  BY <1>3, PendingIs, RegionIs DEF IInv
<1> QED BY <1>1, <1>2, <1>3, <1>4, <1>5, <1>6, StepKeeps

LEMMA AgainKeeps ==
    ASSUME IInv, NEW i \in DOMAIN heapFreeList,
           NEW a \in heapFreeList[i].addr..(End(heapFreeList[i]) - 1), FreeAgain(a, i)
    PROVE  IInv'
<1>1. i \in 1..Len(heapFreeList) /\ Sound(heapFreeList)
  BY DEF IInv, Sound
<1>2. heapFreeList' = heapFreeList
  BY <1>1, FreedTwice DEF FreeAgain
<1>3. hn_size' = hn_size /\ added' = added
  BY DEF FreeAgain
<1> QED BY <1>2, <1>3 DEF IInv, Block, Pending

\* Block a grows by the front of the free node behind it.
LEMMA ExpandKeeps ==
    ASSUME IInv, NEW a \in DOMAIN hn_size, NEW need \in Nat, need > hn_size[a],
           Expand(a, need), added' = added
    PROVE  IInv'
<1> USE HeapAssumption
<1> DEFINE missing == need - hn_size[a]
<1>1. Sound(heapFreeList) /\ missing \in Nat \ {0}
  BY BlockIs DEF IInv
<1>2. PICK i \in Behind(a, missing) :
          /\ heapFreeList' = Cut(heapFreeList, i, missing)
          /\ hn_size' = [hn_size EXCEPT ![a] = @ + CutSize(heapFreeList, i, missing)]
  BY DEF Expand
<1>3. i \in 1..Len(heapFreeList) /\ heapFreeList[i].addr = a + hn_size[a]
      /\ heapFreeList[i].size >= missing
  BY <1>1 DEF Behind, Sound
<1>4. missing <= heapFreeList[i].size
  <2>1. heapFreeList[i] \in FNode
    BY <1>1, <1>3 DEF Sound, Legal
  <2> QED BY <1>1, <1>3, <2>1 DEF FNode
<1> DEFINE size == CutSize(heapFreeList, i, missing)
           p == Node(a + hn_size[a], size)
           new == Node(a, hn_size[a] + size)
<1>5. /\ Sound(heapFreeList') /\ size \in Nat /\ size >= missing
      /\ End(p) <= Word /\ Clear(heapFreeList', p)
      /\ \A z \in FNode : Clear(heapFreeList, z) => Clear(heapFreeList', z) /\ Apart(p, z)
  BY <1>1, <1>2, <1>3, <1>4, CutSound
<1> HIDE DEF missing, size
<1>6. /\ Block(a) \in FNode /\ Block(a).addr = a /\ Block(a).size = hn_size[a]
      /\ a \in Nat /\ hn_size[a] \in Nat /\ Clear(heapFreeList, Block(a))
  BY BlockIs
<1>7. p \in FNode /\ p.addr = a + hn_size[a] /\ p.size = size /\ End(Block(a)) = p.addr
  BY <1>5, <1>6, NodeIs DEF End
<1> HIDE DEF p
<1>8. \A z \in FNode : z.size > 0 /\ Apart(Block(a), z) /\ Apart(p, z) => Apart(new, z)
  BY <1>6, <1>7, JoinApart
<1>9. a + (hn_size[a] + size) <= Word /\ hn_size[a] + size >= NodeMin /\ hn_size[a] + size \in Nat
  BY <1>5, <1>6, <1>7 DEF End, IInv
<1> HIDE DEF new
<1>10. Clear(heapFreeList', Block(a))
  BY <1>5, <1>6
<1>11. Clear(heapFreeList', new)
  <2> SUFFICES ASSUME NEW j \in 1..Len(heapFreeList') PROVE Apart(heapFreeList'[j], new)
    BY DEF Clear
  <2> DEFINE z == heapFreeList'[j]
  <2>1. z \in FNode /\ Legal(z) /\ Apart(z, Block(a)) /\ Apart(z, p)
    BY <1>5, <1>10 DEF Sound, Clear, Legal
  <2> HIDE DEF z
  <2>2. z.size > 0 /\ Apart(Block(a), z) /\ Apart(p, z)
    BY <2>1 DEF Apart, Legal, FNode
  <2>3. Apart(new, z)
    BY <1>8, <2>1, <2>2
  <2> QED BY <2>3 DEF Apart, z
<1>12. /\ DOMAIN hn_size' = DOMAIN hn_size /\ hn_size'[a] = hn_size[a] + size
       /\ \A b \in DOMAIN hn_size : b # a => hn_size'[b] = hn_size[b]
  BY <1>2 DEF size
<1>13. ASSUME NEW b \in DOMAIN hn_size', b # a
       PROVE  Clear(heapFreeList', Block(b)) /\ Apart(new, Block(b))
  <2>1. b \in DOMAIN hn_size /\ Apart(Block(a), Block(b))
    BY <1>12, <1>13 DEF IInv
  <2>2. Block(b) \in FNode /\ Block(b).size > 0 /\ Clear(heapFreeList, Block(b))
    BY <2>1, BlockIs
  <2> QED BY <1>5, <1>8, <2>1, <2>2
<1>14. ASSUME NEW k \in Pending
       PROVE  Clear(heapFreeList', RegionNode(Region[k])) /\ Apart(new, RegionNode(Region[k]))
  <2> DEFINE r == RegionNode(Region[k])
  <2>1. r \in FNode /\ r.size > 0
    BY PendingIs, RegionIs
  <2>2. Clear(heapFreeList, r) /\ Apart(Block(a), r)
    BY DEF IInv
  <2> HIDE DEF r
  <2>3. Clear(heapFreeList', r) /\ Apart(new, r)
    BY <1>5, <1>8, <2>1, <2>2
  <2> QED BY <2>3 DEF r
<1> QED BY <1>5, <1>6, <1>9, <1>11, <1>12, <1>13, <1>14, StepKeeps DEF new

\* What is apart from a node is apart from a part of it.
LEMMA PartApart ==
    ASSUME NEW x \in FNode, NEW y \in FNode, NEW z \in FNode,
           x.addr <= y.addr, End(y) <= End(x), Apart(x, z)
    PROVE  Apart(y, z)
  BY DEF Apart, End, FNode

\* The end of block a is released.
LEMMA ReduceKeeps ==
    ASSUME IInv, NEW a \in DOMAIN hn_size, NEW need \in Nat, need >= NodeMin,
           need < hn_size[a] - NodeMin, Reduce(a, need), added' = added
    PROVE  IInv'
<1> USE HeapAssumption
<1> DEFINE x == Node(a + need, hn_size[a] - need)
           new == Node(a, need)
<1>1. /\ Block(a) \in FNode /\ Block(a).addr = a /\ Block(a).size = hn_size[a] /\ Legal(Block(a))
      /\ a \in Nat /\ hn_size[a] \in Nat /\ Clear(heapFreeList, Block(a))
  BY BlockIs
<1>2. a + need \in Nat /\ hn_size[a] - need \in Nat
  BY <1>1
<1>3. /\ x \in FNode /\ x.addr = a + need /\ x.size = hn_size[a] - need
      /\ new \in FNode /\ new.addr = a /\ new.size = need
  BY <1>1, <1>2, NodeIs
<1>4. heapFreeList' = Freed(heapFreeList, x) /\ hn_size' = [hn_size EXCEPT ![a] = need]
  BY DEF Reduce
<1> HIDE DEF x, new
<1>5. /\ End(x) = End(Block(a)) /\ End(new) = x.addr /\ End(x) <= Word /\ x.size >= NodeSize
      /\ End(new) <= Word /\ new.size > 0
  BY <1>1, <1>2, <1>3 DEF End, Legal
<1>6. Legal(x) /\ Apart(x, new)
  BY <1>2, <1>3, <1>5 DEF Legal, Apart
<1>7. \A z \in FNode : Apart(Block(a), z) => Apart(x, z) /\ Apart(new, z)
  <2>1. End(new) <= End(Block(a)) /\ Block(a).addr <= x.addr
    BY <1>1, <1>2, <1>3, <1>5 DEF End
  <2>2. End(x) <= End(Block(a)) /\ Block(a).addr <= new.addr
    BY <1>1, <1>2, <1>3, <1>5 DEF End
  <2> QED BY <1>1, <1>3, <2>1, <2>2, PartApart
<1>8. Sound(heapFreeList) /\ Clear(heapFreeList, x) /\ Clear(heapFreeList, new)
  <2> SUFFICES ASSUME NEW j \in 1..Len(heapFreeList)
               PROVE  Apart(heapFreeList[j], x) /\ Apart(heapFreeList[j], new)
    BY DEF Clear, IInv
  <2>1. heapFreeList[j] \in FNode /\ Apart(Block(a), heapFreeList[j])
    BY <1>1 DEF IInv, Sound, Legal, Clear, Apart
  <2> QED BY <1>7, <2>1 DEF Apart
<1>9. /\ Sound(heapFreeList')
      /\ \A z \in FNode : z.size > 0 /\ Clear(heapFreeList, z) /\ Apart(x, z)
            => Clear(heapFreeList', z)
  BY <1>4, <1>6, <1>8, FreedSound
<1>10. Clear(heapFreeList', new)
  BY <1>3, <1>5, <1>6, <1>8, <1>9
<1>11. /\ DOMAIN hn_size' = DOMAIN hn_size /\ hn_size'[a] = need
       /\ \A b \in DOMAIN hn_size : b # a => hn_size'[b] = hn_size[b]
  BY <1>4
<1>12. ASSUME NEW b \in DOMAIN hn_size', b # a
       PROVE  Clear(heapFreeList', Block(b)) /\ Apart(new, Block(b))
  <2>1. b \in DOMAIN hn_size /\ Apart(Block(a), Block(b))
    BY <1>11, <1>12 DEF IInv
  <2>2. Block(b) \in FNode /\ Block(b).size > 0 /\ Clear(heapFreeList, Block(b))
    BY <2>1, BlockIs
  <2> QED BY <1>7, <1>9, <2>1, <2>2
<1>13. ASSUME NEW k \in Pending
       PROVE  Clear(heapFreeList', RegionNode(Region[k])) /\ Apart(new, RegionNode(Region[k]))
  <2> DEFINE r == RegionNode(Region[k])
  <2>1. r \in FNode /\ r.size > 0
    BY PendingIs, RegionIs
  <2>2. Clear(heapFreeList, r) /\ Apart(Block(a), r)
    BY DEF IInv
  <2> HIDE DEF r
  <2>3. Clear(heapFreeList', r) /\ Apart(new, r)
    BY <1>7, <1>9, <2>1, <2>2
  <2> QED BY <2>3 DEF r
<1>14. a + need <= Word
  BY <1>1, <1>3, <1>5 DEF End
<1> QED BY <1>1, <1>9, <1>10, <1>11, <1>12, <1>13, <1>14, StepKeeps DEF new

\* A subtraction that does not wrap.
LEMMA NoWrap == ASSUME NEW w \in Nat, NEW v \in 0..(w - 1) PROVE v % w = v
  OBVIOUS

LEMMA UnchangedKeeps ==
    ASSUME IInv, heapFreeList' = heapFreeList, hn_size' = hn_size, added' = added PROVE IInv'
  BY DEF IInv, Block, Pending

LEMMA ReallocKeeps ==
    ASSUME IInv, NEW a \in DOMAIN hn_size, NEW n \in Request, NutHeapRootRealloc(a, n)
    PROVE  IInv'
<1>1. /\ Need(n) \in Nat /\ Need(n) >= NodeMin
      /\ Need(Need(n)) \in Nat /\ Need(Need(n)) >= NodeMin
  BY HeapAssumption
<1>2. added' = added
  BY DEF NutHeapRootRealloc
<1>3. CASE Need(n) > hn_size[a] /\ Expand(a, Need(n))
  BY <1>1, <1>2, <1>3, ExpandKeeps
<1>4. CASE Relocate(a, Need(n))
  <2>1. CASE Alloc(Need(Need(n)), a)
    BY <1>1, <1>2, <2>1, AllocKeeps
  <2>2. CASE NoMemory(Need(Need(n)))
    BY <1>2, <2>2, UnchangedKeeps DEF NoMemory
  <2> QED BY <1>4, <2>1, <2>2 DEF Relocate
<1>5. CASE Need(n) < (hn_size[a] - NodeMin) % Word /\ Reduce(a, Need(n))
  <2>1. hn_size[a] - NodeMin \in 0..(Word - 1) /\ Word \in Nat
    BY HeapAssumption, BlockIs DEF IInv
  <2>2. (hn_size[a] - NodeMin) % Word = hn_size[a] - NodeMin
    BY <2>1, NoWrap
  <2> QED BY <1>1, <1>2, <1>5, <2>2, ReduceKeeps
<1>6. CASE Keep(a)
  BY <1>2, <1>6, UnchangedKeeps DEF Keep
<1> QED BY <1>3, <1>4, <1>5, <1>6 DEF NutHeapRootRealloc

LEMMA NextIInv == IInv /\ [Next]_vars => IInv'
<1> SUFFICES ASSUME IInv, [Next]_vars PROVE IInv'
  OBVIOUS
<1>1. CASE NutHeapRootAdd
  BY <1>1, AddKeeps
<1>2. ASSUME NEW n \in Request, NutHeapRootAlloc(n) PROVE IInv'
  <2>1. Need(n) \in Nat /\ Need(n) >= NodeMin /\ added' = added
    BY <1>2, HeapAssumption DEF NutHeapRootAlloc
  <2>2. CASE Alloc(Need(n), NIL)
    BY <2>1, <2>2, AllocKeeps
  <2>3. CASE NoMemory(Need(n))
    BY <2>1, <2>3, UnchangedKeeps DEF NoMemory
  <2> QED BY <1>2, <2>2, <2>3 DEF NutHeapRootAlloc
<1>3. ASSUME NEW a \in DOMAIN hn_size, NutHeapRootFree(a) PROVE IInv'
  BY <1>3, FreeKeeps
<1>4. ASSUME NEW a \in DOMAIN hn_size, NEW n \in Request, NutHeapRootRealloc(a, n) PROVE IInv'
  BY <1>4, ReallocKeeps
<1>5. ASSUME NEW i \in DOMAIN heapFreeList,
             NEW a \in heapFreeList[i].addr..(End(heapFreeList[i]) - 1), FreeAgain(a, i)
      PROVE  IInv'
  BY <1>5, AgainKeeps
<1>6. CASE UNCHANGED vars
  BY <1>6, UnchangedKeeps DEF vars
<1> QED BY <1>1, <1>2, <1>3, <1>4, <1>5, <1>6 DEF Next

-----------------------------------------------------------------------------
(* The theorems.                                                           *)

\* Free nodes, blocks and regions to come are different memory in every reachable
\* state of heap.c.
THEOREM HeapInvariant == Spec => []IInv
  BY InitIInv, NextIInv, PTL DEF Spec

\* The free list stays ordered, and no two of its nodes touch (NutHeapRootFree).
THEOREM HeapFreeList == Spec => []FreeListSound
<1>1. IInv => FreeListSound
  BY DEF IInv, Sound, Legal, FreeListSound
<1> QED BY <1>1, HeapInvariant, PTL

\* No byte is given out twice (NutHeapRootAlloc, NutHeapRootRealloc): blocks share no
\* memory with each other or with a node of the free list.
BlocksApart ==
    \A b \in DOMAIN hn_size :
        /\ \A c \in DOMAIN hn_size : b # c => Apart(Node(b, hn_size[b]), Node(c, hn_size[c]))
        /\ \A i \in DOMAIN heapFreeList : Apart(heapFreeList[i], Node(b, hn_size[b]))

\* The same for any sequence of calls, whatever the sizes and regions.
THEOREM HeapBlocksApart == Spec => []BlocksApart
<1>1. IInv => BlocksApart
  BY DEF IInv, Sound, Clear, Block, BlocksApart
<1> QED BY <1>1, HeapInvariant, PTL

-----------------------------------------------------------------------------
(* The bytes of the free list.                                             *)

FreeIn(list) == UNION {Bytes(list[i]) : i \in DOMAIN list}

\* The bytes of all nodes but those at the places of S.
Others(list, S) == UNION {Bytes(list[j]) : j \in 1..Len(list) \ S}

LEMMA FreeInIs ==
    ASSUME NEW list, Sound(list)
    PROVE  /\ \A b : b \in FreeIn(list) <=> \E j \in 1..Len(list) : b \in Bytes(list[j])
           /\ \A i \in 1..Len(list) : FreeIn(list) = Others(list, {i}) \cup Bytes(list[i])
<1>1. DOMAIN list = 1..Len(list)
  BY DEF Sound
<1> QED BY <1>1 DEF FreeIn, Others

\* A byte of a node that has a place in the address space.
LEMMA BytesIs ==
    ASSUME NEW x \in FNode
    PROVE  /\ \A b : b \in Bytes(x) <=> b \in Int /\ x.addr <= b /\ b < x.addr + x.size
           /\ End(x) = x.addr + x.size /\ x.addr \in Nat /\ x.size \in Nat /\ End(x) \in Nat
  BY DEF Bytes, End, FNode

LEMMA ApartBytes ==
    ASSUME NEW x \in FNode, NEW y \in FNode, Apart(x, y)
    PROVE  Bytes(x) \cap Bytes(y) = {}
<1> SUFFICES ASSUME NEW b \in Bytes(x), b \in Bytes(y) PROVE FALSE
  OBVIOUS
<1>1. b \in Int /\ x.addr <= b /\ b < End(x) /\ y.addr <= b /\ b < End(y)
  BY BytesIs
<1>2. End(x) \in Nat /\ End(y) \in Nat /\ x.addr \in Nat /\ y.addr \in Nat
  BY BytesIs
<1> QED BY <1>1, <1>2 DEF Apart

\* Two nodes that adjoin have the bytes of the one they make.
LEMMA JoinBytes ==
    ASSUME NEW x \in FNode, NEW y \in FNode, End(x) = y.addr
    PROVE  Bytes(Node(x.addr, x.size + y.size)) = Bytes(x) \cup Bytes(y)
<1> DEFINE z == Node(x.addr, x.size + y.size)
<1>1. /\ x.addr \in Nat /\ x.size \in Nat /\ y.addr \in Nat /\ y.size \in Nat
      /\ y.addr = x.addr + x.size
  BY BytesIs
<1>2. z \in FNode /\ z.addr = x.addr /\ z.size = x.size + y.size
  BY <1>1, NodeIs
<1> HIDE DEF z
<1>3. \A b : b \in Bytes(z) <=> b \in Int /\ x.addr <= b /\ b < x.addr + (x.size + y.size)
  BY <1>2, BytesIs
<1>4. \A b : b \in Bytes(x) <=> b \in Int /\ x.addr <= b /\ b < x.addr + x.size
  BY BytesIs
<1>5. \A b : b \in Bytes(y) <=> b \in Int /\ y.addr <= b /\ b < y.addr + y.size
  BY BytesIs
<1>6. \A b : b \in Bytes(z) <=> b \in Bytes(x) \/ b \in Bytes(y)
  BY <1>1, <1>3, <1>4, <1>5
<1> QED BY <1>6 DEF z

\* Nodes of the list share no byte, and no byte lies between two that are neighbours.
LEMMA OthersApart ==
    ASSUME NEW list, Sound(list), NEW i \in 1..Len(list)
    PROVE  Bytes(list[i]) \cap Others(list, {i}) = {}
<1> SUFFICES ASSUME NEW j \in 1..Len(list), j # i PROVE Bytes(list[i]) \cap Bytes(list[j]) = {}
  BY DEF Others
<1>1. /\ list[i] \in FNode /\ list[j] \in FNode
      /\ i < j => End(list[i]) < list[j].addr
      /\ j < i => End(list[j]) < list[i].addr
  BY DEF Sound
<1>2. End(list[i]) \in Nat /\ End(list[j]) \in Nat /\ list[i].addr \in Nat /\ list[j].addr \in Nat
  BY <1>1, BytesIs
<1>3. Apart(list[i], list[j])
  BY <1>1, <1>2 DEF Apart
<1> QED BY <1>1, <1>3, ApartBytes

\* What the changes of a list do to its bytes.
LEMMA ReplaceBytes ==
    ASSUME NEW list, Sound(list), NEW i \in 1..Len(list), NEW x, NEW e,
           e = [list EXCEPT ![i] = x], Sound(e)
    PROVE  FreeIn(e) = Others(list, {i}) \cup Bytes(x)
<1>1. Len(e) = Len(list) /\ \A j \in 1..Len(list) : e[j] = IF j = i THEN x ELSE list[j]
  BY DEF Sound
<1>2. Others(e, {i}) = Others(list, {i})
  BY <1>1 DEF Others
<1>3. FreeIn(e) = Others(e, {i}) \cup Bytes(e[i])
  BY <1>1, FreeInIs
<1> QED BY <1>1, <1>2, <1>3

LEMMA RemoveBytes ==
    ASSUME NEW list, Sound(list), NEW i \in 1..Len(list), NEW S \in SUBSET Nat,
           \A s \in S : s < i
    PROVE  Others(RemoveAt(list, i), S) = Others(list, S \cup {i})
<1> DEFINE e == RemoveAt(list, i)
<1>1. Sound(e) /\ Removed(e, list, i)
  BY RemoveSound
<1> HIDE DEF e
<1>2. /\ Len(list) \in Nat /\ Len(e) = Len(list) - 1
      /\ \A j \in 1..Len(e) : e[j] = IF j < i THEN list[j] ELSE list[j + 1]
  BY <1>1 DEF Removed, Sound
<1>3. ASSUME NEW b, b \in Others(e, S) PROVE b \in Others(list, S \cup {i})
  <2>1. PICK j \in 1..Len(e) \ S : b \in Bytes(e[j])
    BY <1>3 DEF Others
  <2> DEFINE k == IF j < i THEN j ELSE j + 1
  <2>2. k \in 1..Len(list) \ (S \cup {i}) /\ e[j] = list[k]
    BY <1>2
  <2> HIDE DEF k
  <2> QED BY <2>1, <2>2 DEF Others
<1>4. ASSUME NEW b, b \in Others(list, S \cup {i}) PROVE b \in Others(e, S)
  <2>1. PICK k \in 1..Len(list) \ (S \cup {i}) : b \in Bytes(list[k])
    BY <1>4 DEF Others
  <2> DEFINE j == IF k < i THEN k ELSE k - 1
  <2>2. j \in 1..Len(e) \ S /\ e[j] = list[k]
    BY <1>2
  <2> HIDE DEF j
  <2> QED BY <2>1, <2>2 DEF Others
<1> QED BY <1>3, <1>4 DEF e

LEMMA OthersNone == ASSUME NEW list, Sound(list) PROVE FreeIn(list) = Others(list, {})
  BY DEF FreeIn, Others, Sound

LEMMA InsertBytes ==
    ASSUME NEW list, Sound(list), NEW i \in 1..Len(list), NEW x, Legal(x),
           Sound(InsertAt(list, i, x))
    PROVE  FreeIn(InsertAt(list, i, x)) = FreeIn(list) \cup Bytes(x)
<1> DEFINE e == InsertAt(list, i, x)
<1>1. Sound(e) /\ Inserted(e, list, i, x)
  <2>1. list \in Seq(FNode) /\ x \in FNode /\ i \in 1..(Len(list) + 1)
    BY DEF Sound, Legal
  <2> QED BY <2>1, InsertAtIs
<1> HIDE DEF e
<1>2. /\ Len(list) \in Nat /\ Len(e) = Len(list) + 1
      /\ \A j \in 1..Len(e) : e[j] = IF j < i THEN list[j] ELSE IF j = i THEN x ELSE list[j - 1]
  BY <1>1 DEF Inserted, Sound
<1>3. ASSUME NEW b, b \in FreeIn(e) PROVE b \in FreeIn(list) \cup Bytes(x)
  <2>1. PICK j \in 1..Len(e) : b \in Bytes(e[j])
    BY <1>1, <1>3, FreeInIs
  <2> DEFINE k == IF j < i THEN j ELSE j - 1
  <2>2. j # i => k \in 1..Len(list) /\ e[j] = list[k]
    BY <1>2
  <2>3. j = i => e[j] = x
    BY <1>2
  <2> HIDE DEF k
  <2> QED BY <2>1, <2>2, <2>3, FreeInIs
<1>4. ASSUME NEW b, b \in FreeIn(list) PROVE b \in FreeIn(e)
  <2>1. PICK k \in 1..Len(list) : b \in Bytes(list[k])
    BY <1>4, FreeInIs
  <2> DEFINE j == IF k < i THEN k ELSE k + 1
  <2>2. j \in 1..Len(e) /\ e[j] = list[k]
    BY <1>2
  <2> HIDE DEF j
  <2> QED BY <1>1, <2>1, <2>2, FreeInIs
<1>5. Bytes(x) \subseteq FreeIn(e)
  BY <1>1, <1>2, FreeInIs
<1> QED BY <1>3, <1>4, <1>5 DEF e

LEMMA AppendBytes ==
    ASSUME NEW list, Sound(list), NEW x, Legal(x), Sound(Append(list, x))
    PROVE  FreeIn(Append(list, x)) = FreeIn(list) \cup Bytes(x)
<1> DEFINE e == Append(list, x)
<1>1. /\ Len(e) = Len(list) + 1 /\ Len(list) \in Nat
      /\ \A j \in 1..Len(e) : e[j] = IF j <= Len(list) THEN list[j] ELSE x
  BY DEF Sound, Legal
<1>2. Sound(e)
  OBVIOUS
<1> HIDE DEF e
<1>3. ASSUME NEW b PROVE b \in FreeIn(e) <=> b \in FreeIn(list) \/ b \in Bytes(x)
  BY <1>1, <1>2, FreeInIs
<1> QED BY <1>3 DEF e

\* The joins of NutHeapRootFree add the bytes of the node, and no others.
LEMMA JoinFrontBytes ==
    ASSUME NEW list, Sound(list), NEW x, Legal(x), Clear(list, x),
           NEW i \in 1..Len(list), End(list[i]) = x.addr
    PROVE  FreeIn(JoinFront(list, i, x)) = FreeIn(list) \cup Bytes(x)
<1> DEFINE grown == Node(list[i].addr, list[i].size + x.size)
<1>1. Len(list) \in Nat /\ list[i] \in FNode /\ x \in FNode /\ Sound(JoinFront(list, i, x))
  BY JoinFrontSound DEF Sound, Legal
<1>2. Bytes(grown) = Bytes(list[i]) \cup Bytes(x)
  BY <1>1, JoinBytes
<1>3. FreeIn(list) = Others(list, {i}) \cup Bytes(list[i])
  BY FreeInIs
<1>4. grown \in FNode /\ grown.addr = list[i].addr /\ grown.size = list[i].size + x.size
  <2>1. list[i].addr \in Nat /\ list[i].size + x.size \in Nat
    BY <1>1 DEF FNode
  <2> QED BY <2>1, NodeIs
<1> HIDE DEF grown
<1>5. CASE i < Len(list) /\ End(grown) = list[i + 1].addr
  <2> DEFINE r == RemoveAt(list, i + 1)
             y == list[i + 1]
             both == Node(grown.addr, grown.size + y.size)
  <2>1. i + 1 \in 1..Len(list)
    BY <1>1, <1>5
  <2>2. Sound(r) /\ Removed(r, list, i + 1)
    BY <2>1, RemoveSound
  <2>3. y \in FNode /\ \A s \in {i} : s < i + 1
    BY <2>1 DEF Sound
  <2>4. Others(r, {i}) = Others(list, {i} \cup {i + 1})
    BY <2>1, <2>3, RemoveBytes
  <2> HIDE DEF r
  <2>5. i \in 1..Len(r) /\ r[i] = list[i]
    <3>1. Len(r) = Len(list) - 1 /\ \A j \in 1..Len(r) : r[j] = IF j < i + 1 THEN list[j] ELSE list[j + 1]
      BY <1>1, <2>2 DEF Removed, Sound
    <3>2. i \in 1..Len(r)
      BY <1>1, <1>5, <3>1
    <3> QED BY <3>1, <3>2
  <2>6. Bytes(both) = Bytes(grown) \cup Bytes(y)
    BY <1>4, <1>5, <2>3, JoinBytes
  <2>7. JoinFront(list, i, x) = [r EXCEPT ![i] = both]
    <3>1. JoinFront(list, i, x) = [r EXCEPT ![i].size = grown.size + y.size]
      BY <1>5 DEF JoinFront, grown, r
    <3>2. [r[i] EXCEPT !.size = grown.size + y.size] = both
      <4>1. r[i].addr = grown.addr /\ r[i] \in FNode
        BY <1>1, <1>4, <2>5
      <4>2. [r[i] EXCEPT !.size = grown.size + y.size] = Node(r[i].addr, grown.size + y.size)
        BY <4>1 DEF FNode, Node
      <4> QED BY <4>1, <4>2
    <3> QED BY <3>1, <3>2
  <2>8. FreeIn(JoinFront(list, i, x)) = Others(r, {i}) \cup Bytes(both)
    BY <1>1, <2>2, <2>5, <2>7, ReplaceBytes
  <2>9. Others(list, {i}) = Others(list, {i} \cup {i + 1}) \cup Bytes(y)
    <3>1. i + 1 # i
      BY <1>1
    <3> QED BY <2>1, <3>1 DEF Others
  <2> QED BY <1>2, <1>3, <2>4, <2>6, <2>7, <2>8, <2>9
<1>6. CASE ~(i < Len(list) /\ End(grown) = list[i + 1].addr)
  <2>1. JoinFront(list, i, x) = [list EXCEPT ![i] = grown]
    BY <1>6 DEF JoinFront, grown
  <2>2. FreeIn(JoinFront(list, i, x)) = Others(list, {i}) \cup Bytes(grown)
    BY <1>1, <2>1, ReplaceBytes
  <2> QED BY <1>2, <1>3, <2>1, <2>2
<1> QED BY <1>5, <1>6

LEMMA LinkBeforeBytes ==
    ASSUME NEW list, Sound(list), NEW x, Legal(x), NEW i \in 1..Len(list),
           Sound(LinkBefore(list, i, x))
    PROVE  FreeIn(LinkBefore(list, i, x)) = FreeIn(list) \cup Bytes(x)
<1>1. CASE End(x) = list[i].addr
  <2> DEFINE both == Node(x.addr, x.size + list[i].size)
  <2>1. LinkBefore(list, i, x) = [list EXCEPT ![i] = both]
    BY <1>1 DEF LinkBefore
  <2>2. Bytes(both) = Bytes(x) \cup Bytes(list[i])
    BY <1>1, JoinBytes DEF Sound, Legal
  <2> HIDE DEF both
  <2>3. FreeIn(LinkBefore(list, i, x)) = Others(list, {i}) \cup Bytes(both)
    BY <2>1, ReplaceBytes
  <2> QED BY <2>1, <2>2, <2>3, FreeInIs
<1>2. CASE End(x) # list[i].addr
  BY <1>2, InsertBytes DEF LinkBefore
<1> QED BY <1>1, <1>2

\* NutHeapRootFree gives all the bytes of the node back.
LEMMA FreedBytes ==
    ASSUME NEW list, Sound(list), NEW x, Legal(x), Clear(list, x)
    PROVE  FreeIn(Freed(list, x)) = FreeIn(list) \cup Bytes(x)
<1> DEFINE front  == {i \in DOMAIN list : End(list[i]) = x.addr}
           behind == {i \in DOMAIN list : list[i].addr > x.addr}
           around == {i \in DOMAIN list : list[i].addr <= x.addr /\ End(list[i]) > x.addr}
           stops  == front \cup behind \cup around
           i      == Min(stops)
<1>1. /\ DOMAIN list = 1..Len(list) /\ x.addr \in Nat
      /\ \A j \in 1..Len(list) : End(list[j]) \in Nat /\ list[j].addr \in Nat
  BY DEF Sound, Legal, FNode, End
<1>2. around = {}
  BY <1>1, Around
<1>3. Sound(Freed(list, x))
  BY FreedSound
<1>4. CASE stops = {}
  BY <1>3, <1>4, AppendBytes DEF Freed
<1>5. CASE stops # {}
  <2>1. stops \in SUBSET Nat /\ stops \subseteq 1..Len(list)
    BY <1>1
  <2>2. i \in stops
    BY <1>5, <2>1, MinOfNonempty
  <2>3. Freed(list, x) = IF i \in front THEN JoinFront(list, i, x)
                         ELSE IF i \in behind THEN LinkBefore(list, i, x) ELSE list
    BY <1>5 DEF Freed
  <2>4. i \in front \/ i \in behind
    BY <1>2, <2>2
  <2>5. i \in front => End(list[i]) = x.addr
    OBVIOUS
  <2> HIDE DEF front, behind, around, stops, i
  <2>6. i \in 1..Len(list)
    BY <2>1, <2>2
  <2>7. CASE i \in front
    BY <2>3, <2>5, <2>6, <2>7, JoinFrontBytes
  <2>8. CASE i \notin front
    BY <1>3, <2>3, <2>4, <2>6, <2>8, LinkBeforeBytes
  <2> QED BY <2>7, <2>8
<1> QED BY <1>4, <1>5

\* What is cut off a node, and only that, is free no more.
LEMMA CutBytes ==
    ASSUME NEW list, Sound(list), NEW i \in 1..Len(list), NEW n \in Nat \ {0}, n <= list[i].size
    PROVE  /\ FreeIn(Cut(list, i, n))
                 = FreeIn(list) \ Bytes(Node(list[i].addr, CutSize(list, i, n)))
           /\ Bytes(Node(list[i].addr, CutSize(list, i, n))) \subseteq Bytes(list[i])
<1> USE HeapAssumption
<1> DEFINE p == Node(list[i].addr, CutSize(list, i, n))
           a == list[i].addr
           m == list[i].size
<1>1. a \in Nat /\ m \in Nat /\ list[i] = Node(a, m) /\ list[i] \in FNode
  <2>1. list[i] \in FNode
    BY DEF Sound
  <2> QED BY <2>1 DEF FNode, Node
<1>2. Sound(Cut(list, i, n))
  BY CutSound
<1>3. FreeIn(list) = Others(list, {i}) \cup Bytes(list[i])
  BY FreeInIs
<1>4. Bytes(list[i]) \cap Others(list, {i}) = {}
  BY OthersApart
<1>5. CASE m - n >= NodeMin
  <2> DEFINE rest == Node(a + n, m - n)
  <2>1. Cut(list, i, n) = [list EXCEPT ![i] = rest] /\ CutSize(list, i, n) = n
    BY <1>5 DEF Cut, CutSize
  <2>2. rest \in FNode /\ rest.addr = a + n /\ rest.size = m - n
    <3>1. a + n \in Nat /\ m - n \in Nat
      BY <1>1
    <3> QED BY <3>1, NodeIs
  <2>3. p \in FNode /\ p.addr = a /\ p.size = n /\ End(p) = rest.addr
    BY <1>1, <2>1, <2>2, NodeIs DEF End
  <2>4. FreeIn(Cut(list, i, n)) = Others(list, {i}) \cup Bytes(rest)
    BY <1>2, <2>1, ReplaceBytes
  <2>5. Bytes(list[i]) = Bytes(p) \cup Bytes(rest)
    <3>1. p.size + rest.size = m
      BY <1>1, <2>2, <2>3
    <3> QED BY <1>1, <2>2, <2>3, <3>1, JoinBytes
  <2>6. Bytes(p) \cap Bytes(rest) = {}
    <3>1. Apart(p, rest)
      BY <1>1, <2>2, <2>3 DEF Apart
    <3> QED BY <2>2, <2>3, <3>1, ApartBytes
  <2> HIDE DEF p, rest
  <2>7. FreeIn(Cut(list, i, n)) = FreeIn(list) \ Bytes(p) /\ Bytes(p) \subseteq Bytes(list[i])
    BY <1>3, <1>4, <2>4, <2>5, <2>6
  <2> QED BY <2>7 DEF p
<1>6. CASE ~(m - n >= NodeMin)
  <2>1. Cut(list, i, n) = RemoveAt(list, i) /\ p = list[i]
    BY <1>1, <1>6 DEF Cut, CutSize
  <2>2. FreeIn(Cut(list, i, n)) = Others(RemoveAt(list, i), {})
    BY <1>2, <2>1, OthersNone
  <2>3. Others(RemoveAt(list, i), {}) = Others(list, {} \cup {i})
    BY RemoveBytes
  <2> HIDE DEF p
  <2>4. FreeIn(Cut(list, i, n)) = FreeIn(list) \ Bytes(p) /\ Bytes(p) \subseteq Bytes(list[i])
    BY <1>3, <1>4, <2>1, <2>2, <2>3
  <2> QED BY <2>4 DEF p
<1> QED BY <1>5, <1>6

-----------------------------------------------------------------------------
(* The runs of free bytes are the nodes of the list.                       *)

LEMMA FreeFinite ==
    ASSUME NEW list, Sound(list)
    PROVE  /\ FreeIn(list) \subseteq Nat /\ Cardinality(FreeIn(list)) \in Nat
           /\ \A i \in 1..Len(list) : list[i].size <= Cardinality(FreeIn(list))
<1>1. \A i \in 1..Len(list) : list[i] \in FNode /\ End(list[i]) <= Word
  BY DEF Sound, Legal
<1>2. Word \in Nat
  BY HeapAssumption
<1>3. FreeIn(list) \subseteq 0..Word
  <2> SUFFICES ASSUME NEW b \in FreeIn(list) PROVE b \in 0..Word
    OBVIOUS
  <2>1. PICK i \in 1..Len(list) : b \in Bytes(list[i])
    BY FreeInIs
  <2>2. b \in Int /\ list[i].addr <= b /\ b < list[i].addr + list[i].size
        /\ End(list[i]) = list[i].addr + list[i].size /\ list[i].addr \in Nat /\ list[i].size \in Nat
    BY <1>1, <2>1, BytesIs
  <2> QED BY <1>1, <1>2, <2>2
<1>4. IsFiniteSet(FreeIn(list))
  <2>1. IsFiniteSet(0..Word)
    BY <1>2, FS_Interval
  <2> QED BY <1>3, <2>1, FS_Subset
<1>5. Cardinality(FreeIn(list)) \in Nat
  BY <1>4, FS_CardinalityType
<1>6. ASSUME NEW i \in 1..Len(list) PROVE list[i].size <= Cardinality(FreeIn(list))
  <2> DEFINE a == list[i].addr
             m == list[i].size
             c == Cardinality(Bytes(list[i]))
  <2>1. a \in Nat /\ m \in Nat /\ End(list[i]) = a + m
    BY <1>1, BytesIs
  <2>2. Bytes(list[i]) = a..(a + m - 1)
    BY <2>1 DEF Bytes
  <2>3. c = IF a > a + m - 1 THEN 0 ELSE (a + m - 1) - a + 1
    <3>1. a \in Int /\ a + m - 1 \in Int
      BY <2>1
    <3> QED BY <2>2, <3>1, FS_Interval
  <2>4. c = m
    BY <2>1, <2>3
  <2>5. Bytes(list[i]) \subseteq FreeIn(list)
    BY FreeInIs
  <2>6. c <= Cardinality(FreeIn(list))
    BY <1>4, <2>5, FS_Subset
  <2> QED BY <2>4, <2>6
<1> QED BY <1>2, <1>3, <1>5, <1>6

\* The bytes before and behind a node are not free: no two nodes touch.
LEMMA Gaps ==
    ASSUME NEW list, Sound(list), NEW i \in 1..Len(list)
    PROVE  list[i].addr - 1 \notin FreeIn(list) /\ End(list[i]) \notin FreeIn(list)
<1>1. ASSUME NEW j \in 1..Len(list)
      PROVE  list[i].addr - 1 \notin Bytes(list[j]) /\ End(list[i]) \notin Bytes(list[j])
  <2>1. list[i] \in FNode /\ list[j] \in FNode /\ list[i].size >= NodeSize
    BY DEF Sound, Legal
  <2>2. /\ i < j => End(list[i]) < list[j].addr
        /\ j < i => End(list[j]) < list[i].addr
    BY DEF Sound
  <2>3. /\ list[i].addr \in Nat /\ End(list[i]) \in Nat /\ list[j].addr \in Nat /\ End(list[j]) \in Nat
        /\ list[i].addr <= End(list[i]) /\ list[j].addr <= End(list[j])
    <3>1. list[i].addr \in Nat /\ End(list[i]) \in Nat /\ list[i].addr <= End(list[i])
      BY <2>1, NodeSpan
    <3>2. list[j].addr \in Nat /\ End(list[j]) \in Nat /\ list[j].addr <= End(list[j])
      BY <2>1, NodeSpan
    <3> QED BY <3>1, <3>2
  <2>4. \A b \in Bytes(list[j]) : b \in Int /\ list[j].addr <= b /\ b < End(list[j])
    BY <2>1, BytesIs
  <2>5. i = j \/ i < j \/ j < i
    OBVIOUS
  <2>6. CASE i = j
    BY <2>3, <2>4, <2>6
  <2>7. CASE i < j
    BY <2>2, <2>3, <2>4, <2>7
  <2>8. CASE j < i
    BY <2>2, <2>3, <2>4, <2>8
  <2> QED BY <2>5, <2>6, <2>7, <2>8
<1> QED BY <1>1, FreeInIs

\* A stretch of free bytes that cannot be made longer is a node.
LEMMA StretchIsNode ==
    ASSUME NEW list, Sound(list), NEW a \in FreeIn(list), NEW n \in Nat \ {0},
           a..(a + n - 1) \subseteq FreeIn(list),
           a - 1 \notin FreeIn(list), a + n \notin FreeIn(list)
    PROVE  \E i \in 1..Len(list) : list[i].addr = a /\ list[i].size = n
<1>1. PICK i \in 1..Len(list) : a \in Bytes(list[i])
  BY FreeInIs
<1> DEFINE lo == list[i].addr
           m == list[i].size
<1>2. list[i] \in FNode /\ lo \in Nat /\ m \in Nat /\ End(list[i]) = lo + m
  BY BytesIs DEF Sound
<1>3. \A b : b \in Int /\ lo <= b /\ b < lo + m => b \in FreeIn(list)
  BY <1>2, BytesIs, FreeInIs
<1>4. a \in Int /\ lo <= a /\ a < lo + m
  BY <1>1, <1>2, BytesIs
<1>5. lo + m \notin FreeIn(list)
  BY <1>2, Gaps
<1> HIDE DEF lo, m
<1>6. a = lo
  <2>1. a - 1 \in Int /\ ~(lo <= a - 1 /\ a - 1 < lo + m)
    BY <1>3, <1>4
  <2> QED BY <1>2, <1>4, <2>1
<1>7. ~(a + n < lo + m)
  <2>1. a + n \in Int /\ ~(lo <= a + n /\ a + n < lo + m)
    BY <1>3, <1>4
  <2> QED BY <1>2, <1>4, <2>1
<1>8. ~(lo + m < a + n)
  <2>1. lo + m \notin a..(a + n - 1)
    BY <1>5
  <2> QED BY <1>2, <1>4, <2>1
<1>9. a = lo /\ n = m
  BY <1>2, <1>4, <1>6, <1>7, <1>8
<1> QED BY <1>9 DEF lo, m

\* The instance of Allocator has its own copy of the standard module.
LEMMA SameCardinality == ASSUME NEW S PROVE Heap!Cardinality(S) = Cardinality(S)
  BY DEF Heap!Cardinality, Cardinality

\* For Allocator the runs are the nodes that are long enough.
LEMMA RunsAre ==
    ASSUME Sound(heapFreeList), NEW n \in Nat \ {0}
    PROVE  /\ \A r \in Heap!Runs(n) : \E i \in 1..Len(heapFreeList) :
                 /\ r[1] = heapFreeList[i].addr /\ r[2] = heapFreeList[i].size
                 /\ heapFreeList[i].size >= n
           /\ \A i \in 1..Len(heapFreeList) : heapFreeList[i].size >= n
                 => <<heapFreeList[i].addr, heapFreeList[i].size>> \in Heap!Runs(n)
<1> DEFINE free == FreeIn(heapFreeList)
<1>1. FreeBytes = free
  BY DEF FreeBytes, FreeIn
<1>2. free \subseteq Nat /\ Cardinality(free) \in Nat
  BY FreeFinite
<1>3. Heap!Runs(n) = {r \in free \X (n..Cardinality(free)) :
                         /\ r[1]..(r[1] + r[2] - 1) \subseteq free
                         /\ r[1] - 1 \notin free /\ r[1] + r[2] \notin free}
  BY <1>1, SameCardinality DEF Heap!Runs, Heap!Bytes
<1> HIDE DEF free
<1>4. ASSUME NEW r \in Heap!Runs(n)
      PROVE  \E i \in 1..Len(heapFreeList) :
                /\ r[1] = heapFreeList[i].addr /\ r[2] = heapFreeList[i].size
                /\ heapFreeList[i].size >= n
  <2>1. /\ r[1] \in free /\ r[2] \in n..Cardinality(free)
        /\ r[1]..(r[1] + r[2] - 1) \subseteq free
        /\ r[1] - 1 \notin free /\ r[1] + r[2] \notin free
    BY <1>3
  <2>2. r[2] \in Nat \ {0} /\ r[2] >= n
    BY <1>2, <2>1
  <2>3. PICK i \in 1..Len(heapFreeList) : heapFreeList[i].addr = r[1] /\ heapFreeList[i].size = r[2]
    BY <2>1, <2>2, StretchIsNode DEF free
  <2> QED BY <2>2, <2>3
<1>5. ASSUME NEW i \in 1..Len(heapFreeList), heapFreeList[i].size >= n
      PROVE  <<heapFreeList[i].addr, heapFreeList[i].size>> \in Heap!Runs(n)
  <2> DEFINE a == heapFreeList[i].addr
             m == heapFreeList[i].size
  <2>1. a \in Nat /\ m \in Nat /\ End(heapFreeList[i]) = a + m /\ m >= n
    BY <1>5, BytesIs DEF Sound
  <2>2. Bytes(heapFreeList[i]) = a..(a + m - 1)
    BY <2>1 DEF Bytes
  <2>3. Bytes(heapFreeList[i]) \subseteq free
    BY FreeInIs DEF free
  <2>4. a - 1 \notin free /\ a + m \notin free
    BY <2>1, Gaps DEF free
  <2>5. m <= Cardinality(free)
    BY FreeFinite DEF free
  <2> HIDE DEF a, m
  <2>6. a \in a..(a + m - 1)
    BY <2>1
  <2>7. a \in free /\ m \in n..Cardinality(free)
    BY <1>2, <2>1, <2>2, <2>3, <2>5, <2>6
  <2>8. <<a, m>> \in Heap!Runs(n)
    BY <1>3, <2>2, <2>3, <2>4, <2>7
  <2> QED BY <2>8 DEF a, m
<1> QED BY <1>4, <1>5

\* NutHeapRootAlloc takes a node that no other one that fits is shorter than.
LEMMA BestFitIsBest ==
    ASSUME NEW list, Sound(list), NEW need \in Nat, Fits(list, need), NEW j \in 1..Len(list),
           list[j].size >= need
    PROVE  list[BestFit(list, need)].size <= list[j].size
<1> DEFINE fits == {i \in DOMAIN list : list[i].size >= need}
           sizes == {list[i].size : i \in fits}
           best == {i \in fits : \A k \in fits : list[i].size <= list[k].size}
<1>1. DOMAIN list = 1..Len(list) /\ \A i \in 1..Len(list) : list[i].size \in Nat
  BY DEF Sound, Legal, FNode
<1>2. j \in fits /\ fits \subseteq 1..Len(list)
  BY <1>1
<1>3. sizes \in SUBSET Nat /\ sizes # {}
  BY <1>1, <1>2
<1>4. PICK i \in fits : list[i].size = Min(sizes)
  BY <1>3, MinOfNonempty
<1>5. \A n \in sizes : Min(sizes) <= n
  BY <1>3, MinOfNonempty
<1>6. best \in SUBSET Nat /\ best # {}
  <2>1. \A k \in fits : list[k].size \in sizes
    OBVIOUS
  <2>2. \A k \in fits : list[i].size <= list[k].size
    BY <1>4, <1>5, <2>1
  <2>3. i \in best
    BY <1>4, <2>2
  <2>4. best \subseteq fits /\ 1..Len(list) \subseteq Nat
    OBVIOUS
  <2> HIDE DEF best, fits
  <2> QED BY <1>2, <2>3, <2>4
<1>7. Min(best) \in best
  BY <1>6, MinOfNonempty
<1>8. BestFit(list, need) = Min(best)
  BY DEF BestFit
<1> QED BY <1>2, <1>7, <1>8

-----------------------------------------------------------------------------
(* The calls do to the bytes what Allocator says.                          *)

LEMMA FreeBytesIs ==
    FreeBytes = FreeIn(heapFreeList) /\ FreeBytes' = FreeIn(heapFreeList')
  BY DEF FreeBytes, FreeIn

LEMMA ClearBytes ==
    ASSUME NEW list, Sound(list), NEW x \in FNode, Clear(list, x)
    PROVE  FreeIn(list) \cap Bytes(x) = {}
<1>1. \A j \in 1..Len(list) : Bytes(list[j]) \cap Bytes(x) = {}
  BY ApartBytes DEF Sound, Clear
<1> QED BY <1>1, FreeInIs

LEMMA BlockBytes ==
    ASSUME IInv, NEW b \in DOMAIN hn_size
    PROVE  /\ Heap!Bytes(b, hn_size[b]) = Bytes(Block(b))
           /\ FreeBytes \cap Bytes(Block(b)) = {}
<1>1. /\ Block(b) \in FNode /\ Block(b).addr = b /\ Block(b).size = hn_size[b]
      /\ Clear(heapFreeList, Block(b)) /\ Sound(heapFreeList) /\ b \in Nat /\ hn_size[b] \in Nat
  BY BlockIs DEF IInv
<1>2. Heap!Bytes(b, hn_size[b]) = Bytes(Block(b))
  BY <1>1 DEF Heap!Bytes, Bytes, End
<1> QED BY <1>1, <1>2, ClearBytes, FreeBytesIs

LEMMA AddRefines == ASSUME IInv, NutHeapRootAdd PROVE Heap!Next
<1> DEFINE x == RegionNode(Region[added + 1])
<1>1. added + 1 \in Pending /\ heapFreeList' = Freed(heapFreeList, x)
      /\ hn_size' = hn_size /\ result' = result
  BY RegionAssumption DEF NutHeapRootAdd, IInv, Pending
<1>2. added + 1 \in 1..Len(Region)
  BY <1>1, PendingIs
<1>3. Legal(x) /\ x \in FNode /\ Clear(heapFreeList, x) /\ Sound(heapFreeList)
  BY <1>1, <1>2, RegionIs DEF IInv
<1>4. \A b \in DOMAIN hn_size : Apart(Block(b), x)
  BY <1>1 DEF IInv
<1>5. Bytes(x) \in Memory
  BY <1>2 DEF Memory
<1> HIDE DEF x
<1>6. FreeBytes \cap Bytes(x) = {} /\ FreeBytes' = FreeBytes \cup Bytes(x)
  BY <1>1, <1>3, ClearBytes, FreedBytes, FreeBytesIs
<1>7. \A b \in DOMAIN hn_size : Heap!Bytes(b, hn_size[b]) \cap Bytes(x) = {}
  BY <1>3, <1>4, BlockIs, BlockBytes, ApartBytes
<1>8. Heap!Grow(Bytes(x))
  BY <1>1, <1>6, <1>7 DEF Heap!Grow
<1> QED BY <1>5, <1>8 DEF Heap!Next

LEMMA AllocRefines ==
    ASSUME IInv, NEW need \in Nat, need >= NodeMin, NEW gone \in DOMAIN hn_size \cup {NIL},
           Alloc(need, gone)
    PROVE  Heap!Fit(need, {gone} \ {NIL})
<1> USE HeapAssumption
<1> DEFINE i    == BestFit(heapFreeList, need)
           a    == heapFreeList[i].addr
           m    == heapFreeList[i].size
           size == CutSize(heapFreeList, i, need)
           rest == Cut(heapFreeList, i, need)
           p    == Node(a, size)
           out  == {gone} \ {NIL}
<1>1. Sound(heapFreeList) /\ DOMAIN hn_size \subseteq Nat /\ need \in Nat \ {0}
  BY DEF IInv
<1>2. Fits(heapFreeList, need)
  BY DEF Alloc
<1>3. i \in 1..Len(heapFreeList) /\ m >= need
  BY <1>1, <1>2, BestFitIs
<1>4. \A j \in 1..Len(heapFreeList) : heapFreeList[j].size >= need => m <= heapFreeList[j].size
  BY <1>1, <1>2, BestFitIsBest
<1>5. /\ heapFreeList' = IF gone = NIL THEN rest ELSE Freed(rest, Block(gone))
      /\ hn_size' = [b \in (DOMAIN hn_size \ {gone}) \cup {a} |->
                        IF b = a THEN size ELSE hn_size[b]]
      /\ result' = a
  BY DEF Alloc, Block
<1>6. size = IF m - need >= NodeMin THEN need ELSE m
  BY DEF CutSize
<1> HIDE DEF i
<1>7. need <= m /\ a \in Nat /\ m \in Nat
  <2>1. heapFreeList[i] \in FNode
    BY <1>1, <1>3 DEF Sound
  <2> QED BY <1>3, <2>1 DEF FNode
<1>8. /\ Sound(rest) /\ size \in Nat
      /\ \A z \in FNode : Clear(heapFreeList, z) => Clear(rest, z)
  BY <1>1, <1>3, <1>7, CutSound
<1>9. FreeIn(rest) = FreeIn(heapFreeList) \ Bytes(p)
  BY <1>1, <1>3, <1>7, CutBytes
<1>10. <<a, m>> \in Heap!Runs(need)
  BY <1>1, <1>3, RunsAre
<1>11. \A other \in Heap!Runs(need) : m <= other[2]
  BY <1>1, <1>4, RunsAre
<1>12. Bytes(p) = Heap!Bytes(a, size)
  <2>1. p.addr = a /\ p.size = size
    BY DEF Node
  <2> HIDE DEF a, size, p
  <2> QED BY <1>7, <1>8, <2>1 DEF Bytes, End, Heap!Bytes
<1> HIDE DEF a, m, size, rest, p
<1>13. FreeBytes' = (FreeBytes \ Heap!Bytes(a, size))
                        \cup UNION {Heap!Bytes(b, hn_size[b]) : b \in out}
  <2>1. CASE gone = NIL
    <3>1. out = {}
      BY <2>1
    <3> HIDE DEF out
    <3> QED BY <1>5, <1>9, <1>12, <2>1, <3>1, FreeBytesIs
  <2>2. CASE gone # NIL
    <3>1. Legal(Block(gone)) /\ Block(gone) \in FNode /\ Clear(heapFreeList, Block(gone))
      BY <2>2, BlockIs
    <3>2. FreeIn(heapFreeList') = FreeIn(rest) \cup Bytes(Block(gone))
      BY <1>5, <1>8, <2>2, <3>1, FreedBytes
    <3>3. Bytes(Block(gone)) = Heap!Bytes(gone, hn_size[gone])
      BY <2>2, BlockBytes
    <3>4. out = {gone}
      BY <2>2
    <3> HIDE DEF out
    <3>5. UNION {Heap!Bytes(b, hn_size[b]) : b \in out} = Heap!Bytes(gone, hn_size[gone])
      BY <3>4
    <3> QED BY <1>9, <1>12, <3>2, <3>3, <3>5, FreeBytesIs
  <2> QED BY <2>1, <2>2
<1>14. hn_size' = [b \in (DOMAIN hn_size \ out) \cup {a} |->
                      IF b = a THEN size ELSE hn_size[b]]
  <2>1. DOMAIN hn_size \ out = DOMAIN hn_size \ {gone}
    BY <1>1
  <2> HIDE DEF out
  <2> QED BY <1>5, <2>1
<1> HIDE DEF out
<1>15. Heap!Take(a, size, out)
  BY <1>5, <1>13, <1>14 DEF Heap!Take
<1> DEFINE r == <<a, m>>
<1>16. r[1] = a /\ r[2] = m
  OBVIOUS
<1>17. r \in Heap!Runs(need)
  BY <1>10
<1> HIDE DEF r
<1>18. Heap!Fit(need, out)
  BY <1>6, <1>11, <1>15, <1>16, <1>17 DEF Heap!Fit
<1> QED BY <1>18 DEF out

LEMMA NoMemoryRefines ==
    ASSUME IInv, NEW need \in Nat, need >= NodeMin, NoMemory(need)
    PROVE  Heap!Fail(need)
<1>1. Sound(heapFreeList) /\ need \in Nat \ {0} /\ DOMAIN heapFreeList = 1..Len(heapFreeList)
  BY HeapAssumption DEF IInv, Sound
<1>2. Heap!Runs(need) = {}
  BY <1>1, RunsAre DEF NoMemory, Fits
<1>3. FreeBytes' = FreeBytes /\ hn_size' = hn_size /\ result' = NIL
  BY FreeBytesIs DEF NoMemory
<1> QED BY <1>2, <1>3 DEF Heap!Fail

LEMMA FreeRefines == ASSUME IInv, NEW a \in DOMAIN hn_size, NutHeapRootFree(a) PROVE Heap!Next
<1>1. /\ heapFreeList' = Freed(heapFreeList, Block(a)) /\ result' = NIL
      /\ hn_size' = [b \in DOMAIN hn_size \ {a} |-> hn_size[b]]
  BY DEF NutHeapRootFree, Block
<1>2. Legal(Block(a)) /\ Clear(heapFreeList, Block(a)) /\ Sound(heapFreeList)
  BY BlockIs DEF IInv
<1>3. FreeBytes' = FreeBytes \cup Heap!Bytes(a, hn_size[a])
  BY <1>1, <1>2, FreedBytes, FreeBytesIs, BlockBytes
<1>4. Heap!Release(a)
  BY <1>1, <1>3 DEF Heap!Release
<1> QED BY <1>4 DEF Heap!Next

LEMMA AgainRefines ==
    ASSUME IInv, NEW i \in DOMAIN heapFreeList,
           NEW a \in heapFreeList[i].addr..(End(heapFreeList[i]) - 1), FreeAgain(a, i)
    PROVE  UNCHANGED <<FreeBytes, hn_size, result>>
<1>1. i \in 1..Len(heapFreeList) /\ Sound(heapFreeList)
  BY DEF IInv, Sound
<1>2. heapFreeList' = heapFreeList
  BY <1>1, FreedTwice DEF FreeAgain
<1> QED BY <1>2, FreeBytesIs DEF FreeAgain

\* A block gets another length: what it gains was free, what it loses is free.
LEMMA ResizeRefines ==
    ASSUME IInv, NEW a \in DOMAIN hn_size, NEW n \in Request, NEW new \in Nat,
           new >= Need(n), new <= hn_size[a] + Cardinality(FreeIn(heapFreeList)),
           Bytes(Node(a, new)) \subseteq FreeIn(heapFreeList) \cup Bytes(Block(a)),
           FreeIn(heapFreeList')
               = (FreeIn(heapFreeList) \cup Bytes(Block(a))) \ Bytes(Node(a, new)),
           hn_size' = [hn_size EXCEPT ![a] = new], result' = a
    PROVE  Heap!Next
<1>1. Heap!Bytes(a, hn_size[a]) = Bytes(Block(a)) /\ a \in Nat /\ hn_size[a] \in Nat
  BY BlockBytes, BlockIs
<1>2. Heap!Bytes(a, new) = Bytes(Node(a, new))
  <2>1. Node(a, new).addr = a /\ Node(a, new).size = new
    BY <1>1, NodeIs
  <2> DEFINE y == Node(a, new)
  <2> HIDE DEF y
  <2>2. y.addr = a /\ y.size = new
    BY <2>1 DEF y
  <2>3. Bytes(y) = a..(a + new - 1)
    BY <1>1, <2>2 DEF Bytes, End
  <2> QED BY <2>3 DEF Heap!Bytes, y
<1>3. Cardinality(FreeIn(heapFreeList)) \in Nat /\ Need(n) \in Nat
  BY FreeFinite, HeapAssumption DEF IInv
<1>4. Heap!Cardinality(FreeBytes) = Cardinality(FreeIn(heapFreeList))
  BY SameCardinality, FreeBytesIs
<1>5. new \in Need(n)..(hn_size[a] + Heap!Cardinality(FreeBytes))
  BY <1>1, <1>3, <1>4
<1>6. /\ Heap!Bytes(a, new) \subseteq FreeBytes \cup Heap!Bytes(a, hn_size[a])
      /\ FreeBytes' = (FreeBytes \cup Heap!Bytes(a, hn_size[a])) \ Heap!Bytes(a, new)
  BY <1>1, <1>2, FreeBytesIs
<1>7. Heap!Resize(a, n)
  BY <1>5, <1>6 DEF Heap!Resize
<1> QED BY <1>7 DEF Heap!Next

LEMMA ExpandRefines ==
    ASSUME IInv, NEW a \in DOMAIN hn_size, NEW n \in Request, Need(n) > hn_size[a],
           Expand(a, Need(n))
    PROVE  Heap!Next
<1> USE HeapAssumption
<1> DEFINE need == Need(n)
           missing == need - hn_size[a]
<1>1. /\ Block(a) \in FNode /\ Block(a).addr = a /\ Block(a).size = hn_size[a]
      /\ a \in Nat /\ hn_size[a] \in Nat /\ Sound(heapFreeList) /\ need \in Nat
      /\ FreeIn(heapFreeList) \cap Bytes(Block(a)) = {}
  BY BlockIs, BlockBytes, FreeBytesIs DEF IInv
<1> HIDE DEF need
<1>2. missing \in Nat \ {0}
  BY <1>1 DEF need
<1>3. PICK i \in Behind(a, missing) :
          /\ heapFreeList' = Cut(heapFreeList, i, missing)
          /\ hn_size' = [hn_size EXCEPT ![a] = @ + CutSize(heapFreeList, i, missing)]
          /\ result' = a
  BY DEF Expand, need
<1> DEFINE size == CutSize(heapFreeList, i, missing)
           m == heapFreeList[i].size
           p == Node(a + hn_size[a], size)
<1>4. /\ i \in 1..Len(heapFreeList) /\ heapFreeList[i].addr = a + hn_size[a] /\ m >= missing
      /\ heapFreeList[i] \in FNode
  BY <1>1 DEF Behind, Sound
<1>5. m \in Nat /\ missing <= m
  BY <1>2, <1>4 DEF FNode
<1>6. size \in Nat /\ size >= missing /\ size <= m
  BY <1>2, <1>5 DEF CutSize
<1>7. /\ FreeIn(heapFreeList') = FreeIn(heapFreeList) \ Bytes(p)
      /\ Bytes(p) \subseteq Bytes(heapFreeList[i])
  <2> HIDE DEF missing
  <2>1. p = Node(heapFreeList[i].addr, size)
    BY <1>4
  <2>2. /\ FreeIn(Cut(heapFreeList, i, missing))
              = FreeIn(heapFreeList) \ Bytes(Node(heapFreeList[i].addr, size))
        /\ Bytes(Node(heapFreeList[i].addr, size)) \subseteq Bytes(heapFreeList[i])
    BY <1>1, <1>2, <1>4, <1>5, CutBytes
  <2> QED BY <1>3, <2>1, <2>2
<1>8. m <= Cardinality(FreeIn(heapFreeList)) /\ Cardinality(FreeIn(heapFreeList)) \in Nat
  BY <1>1, <1>4, FreeFinite
<1>9. Bytes(heapFreeList[i]) \subseteq FreeIn(heapFreeList)
  BY <1>1, <1>4, FreeInIs
<1>10. hn_size' = [hn_size EXCEPT ![a] = hn_size[a] + size]
  BY <1>3
<1> HIDE DEF size, m
<1>11. Bytes(Node(a, hn_size[a] + size)) = Bytes(Block(a)) \cup Bytes(p)
  <2>1. p \in FNode /\ p.addr = a + hn_size[a] /\ p.size = size
    <3>1. a + hn_size[a] \in Nat
      BY <1>1
    <3> QED BY <1>6, <3>1, NodeIs
  <2>2. End(Block(a)) = p.addr
    BY <1>1, <2>1 DEF End
  <2> HIDE DEF p
  <2> QED BY <1>1, <2>1, <2>2, JoinBytes
<1> HIDE DEF p
<1>12. /\ hn_size[a] + size \in Nat /\ hn_size[a] + size >= need
       /\ hn_size[a] + size <= hn_size[a] + Cardinality(FreeIn(heapFreeList))
  BY <1>1, <1>5, <1>6, <1>8
<1>13. /\ Bytes(Node(a, hn_size[a] + size)) \subseteq FreeIn(heapFreeList) \cup Bytes(Block(a))
       /\ FreeIn(heapFreeList') = (FreeIn(heapFreeList) \cup Bytes(Block(a)))
                                      \ Bytes(Node(a, hn_size[a] + size))
  BY <1>1, <1>7, <1>9, <1>11
<1> QED BY <1>3, <1>10, <1>12, <1>13, ResizeRefines DEF need

\* If no node behind the block has the missing bytes, not all of them are free.
LEMMA RelocateRefines ==
    ASSUME IInv, NEW a \in DOMAIN hn_size, NEW n \in Request, Need(n) > hn_size[a],
           Relocate(a, Need(n))
    PROVE  Heap!Next
<1> DEFINE need == Need(n)
           size == hn_size[a]
           e    == a + size
<1>1. /\ a \in Nat /\ size \in Nat /\ Sound(heapFreeList) /\ need \in Nat /\ need > size
      /\ Need(need) \in Nat /\ Need(need) >= NodeMin /\ NIL \notin Nat
      /\ Clear(heapFreeList, Block(a)) /\ Block(a).addr = a /\ Block(a).size = size
      /\ Block(a) \in FNode
  BY BlockIs, HeapAssumption DEF IInv
<1>2. Behind(a, need - size) = {}
  BY DEF Relocate
<1>3. Heap!Bytes(a, size) = a..(e - 1) /\ Heap!Bytes(a, need) = a..(a + need - 1)
  BY <1>1 DEF Heap!Bytes
<1>4. FreeBytes = FreeIn(heapFreeList)
  BY FreeBytesIs
<1> HIDE DEF need, size
<1>5. ASSUME Heap!Bytes(a, need) \subseteq FreeBytes \cup Heap!Bytes(a, size) PROVE FALSE
  <2>1. e \in Heap!Bytes(a, need) /\ e \notin Heap!Bytes(a, size)
    BY <1>1, <1>3
  <2>2. PICK i \in 1..Len(heapFreeList) : e \in Bytes(heapFreeList[i])
    BY <1>1, <1>4, <1>5, <2>1, FreeInIs
  <2> DEFINE lo == heapFreeList[i].addr
             m  == heapFreeList[i].size
  <2>3. /\ lo \in Nat /\ m \in Nat /\ End(heapFreeList[i]) = lo + m /\ lo <= e /\ e < lo + m
    BY <1>1, <2>2, BytesIs DEF Sound
  <2>4. lo + m <= a \/ e <= lo
    BY <1>1, <2>3 DEF Clear, Apart, End
  <2>5. lo + m \notin FreeIn(heapFreeList)
    BY <1>1, <2>3, Gaps
  <2>6. ~(lo = e /\ m >= need - size)
    BY <1>1, <1>2 DEF Behind, Sound, size
  <2> HIDE DEF lo, m
  <2>7. lo = e
    BY <1>1, <2>3, <2>4
  <2>8. m < need - size
    BY <1>1, <2>3, <2>6, <2>7
  <2>9. lo + m \in Heap!Bytes(a, need) /\ lo + m \notin Heap!Bytes(a, size)
    <3>1. e = a + size /\ e \in Nat
      BY <1>1
    <3> HIDE DEF e
    <3>2. lo + m \in Nat /\ e <= lo + m /\ a <= e
      BY <1>1, <2>3, <2>7, <3>1
    <3>3. lo + m < a + need
      BY <1>1, <2>3, <2>7, <2>8, <3>1
    <3>4. lo + m \in a..(a + need - 1) /\ lo + m \notin a..(e - 1)
      BY <1>1, <3>1, <3>2, <3>3
    <3> QED BY <1>3, <3>4
  <2> QED BY <1>4, <1>5, <2>5, <2>9
<1>6. Heap!Fit(Need(need), {a}) \/ Heap!Fail(Need(need))
  <2>1. CASE Alloc(Need(need), a)
    <3>1. Heap!Fit(Need(need), {a} \ {NIL})
      BY <1>1, <2>1, AllocRefines
    <3>2. {a} \ {NIL} = {a}
      BY <1>1
    <3> QED BY <3>1, <3>2
  <2>2. CASE NoMemory(Need(need))
    BY <1>1, <2>2, NoMemoryRefines
  <2> QED BY <2>1, <2>2 DEF Relocate, need
<1>7. Heap!Move(a, n)
  BY <1>5, <1>6 DEF Heap!Move, need, size
<1> QED BY <1>7 DEF Heap!Next

LEMMA ReduceRefines ==
    ASSUME IInv, NEW a \in DOMAIN hn_size, NEW n \in Request,
           Need(n) < hn_size[a] - NodeMin, Reduce(a, Need(n))
    PROVE  Heap!Next
<1> USE HeapAssumption
<1> DEFINE need == Need(n)
           x == Node(a + need, hn_size[a] - need)
           new == Node(a, need)
<1>1. /\ Block(a) \in FNode /\ Block(a).addr = a /\ Block(a).size = hn_size[a] /\ Legal(Block(a))
      /\ a \in Nat /\ hn_size[a] \in Nat /\ Clear(heapFreeList, Block(a)) /\ Sound(heapFreeList)
      /\ need \in Nat /\ need < hn_size[a] - NodeMin
      /\ FreeIn(heapFreeList) \cap Bytes(Block(a)) = {}
  BY BlockIs, BlockBytes, FreeBytesIs DEF IInv
<1>2. heapFreeList' = Freed(heapFreeList, x) /\ hn_size' = [hn_size EXCEPT ![a] = need]
      /\ result' = a
  BY DEF Reduce
<1> HIDE DEF need
<1>3. a + need \in Nat /\ hn_size[a] - need \in Nat /\ need + (hn_size[a] - need) = hn_size[a]
  BY <1>1
<1>4. /\ x \in FNode /\ x.addr = a + need /\ x.size = hn_size[a] - need
      /\ new \in FNode /\ new.addr = a /\ new.size = need
  BY <1>1, <1>3, NodeIs
<1> HIDE DEF x, new
<1>5. End(new) = x.addr /\ End(x) = End(Block(a)) /\ End(x) <= Word /\ x.size >= NodeSize
  BY <1>1, <1>3, <1>4 DEF End, Legal
<1>6. Legal(x) /\ Apart(new, x)
  BY <1>3, <1>4, <1>5 DEF Legal, Apart
<1>7. Bytes(Block(a)) = Bytes(new) \cup Bytes(x)
  <2>1. Block(a) = Node(new.addr, new.size + x.size)
    BY <1>1, <1>3, <1>4 DEF Block
  <2> QED BY <1>4, <1>5, <2>1, JoinBytes
<1>8. Bytes(new) \cap Bytes(x) = {}
  BY <1>4, <1>6, ApartBytes
<1>9. Clear(heapFreeList, x)
  <2> SUFFICES ASSUME NEW j \in 1..Len(heapFreeList) PROVE Apart(heapFreeList[j], x)
    BY DEF Clear
  <2>1. heapFreeList[j] \in FNode /\ Apart(Block(a), heapFreeList[j])
    BY <1>1 DEF Sound, Clear, Apart
  <2>2. Block(a).addr <= x.addr
    <3>1. a \in Nat /\ need \in Nat /\ Block(a).addr = a /\ x.addr = a + need
      BY <1>1, <1>4
    <3> QED BY <3>1
  <2>3. End(x) <= End(Block(a))
    <3>1. End(Block(a)) \in Nat
      BY <1>1, NodeSpan
    <3> QED BY <1>5, <3>1
  <2>4. Apart(x, heapFreeList[j])
    BY <1>1, <1>4, <2>1, <2>2, <2>3, PartApart
  <2> QED BY <2>4 DEF Apart
<1>10. FreeIn(heapFreeList') = FreeIn(heapFreeList) \cup Bytes(x)
  BY <1>1, <1>2, <1>6, <1>9, FreedBytes
<1>11. /\ Bytes(new) \subseteq FreeIn(heapFreeList) \cup Bytes(Block(a))
       /\ FreeIn(heapFreeList') = (FreeIn(heapFreeList) \cup Bytes(Block(a))) \ Bytes(new)
  BY <1>1, <1>7, <1>8, <1>10
<1>12. need <= hn_size[a] + Cardinality(FreeIn(heapFreeList))
  <2>1. Cardinality(FreeIn(heapFreeList)) \in Nat
    BY <1>1, FreeFinite
  <2> QED BY <1>1, <2>1
<1>13. need >= Need(n)
  BY <1>1 DEF need
<1> QED BY <1>1, <1>2, <1>11, <1>12, <1>13, ResizeRefines DEF new

\* hn_size is a function on the addresses of the blocks.
SizesAreFunction == hn_size = [b \in DOMAIN hn_size |-> hn_size[b]]

LEMMA KeepRefines ==
    ASSUME IInv, SizesAreFunction, NEW a \in DOMAIN hn_size, NEW n \in Request,
           ~(Need(n) > hn_size[a]), Keep(a)
    PROVE  Heap!Next
<1>1. /\ a \in Nat /\ hn_size[a] \in Nat /\ Block(a) = Node(a, hn_size[a])
      /\ FreeIn(heapFreeList) \cap Bytes(Block(a)) = {} /\ Sound(heapFreeList)
  BY BlockIs, BlockBytes, FreeBytesIs DEF IInv, Block
<1>2. hn_size' = [hn_size EXCEPT ![a] = hn_size[a]]
  <2>1. hn_size = [hn_size EXCEPT ![a] = hn_size[a]]
    BY DEF SizesAreFunction
  <2> QED BY <2>1 DEF Keep
<1>3. FreeIn(heapFreeList') = FreeIn(heapFreeList) /\ result' = a
  BY DEF Keep
<1>4. hn_size[a] >= Need(n) /\ hn_size[a] <= hn_size[a] + Cardinality(FreeIn(heapFreeList))
  <2>1. Cardinality(FreeIn(heapFreeList)) \in Nat /\ Need(n) \in Nat
    BY <1>1, FreeFinite, HeapAssumption
  <2> QED BY <1>1, <2>1
<1>5. /\ Bytes(Node(a, hn_size[a])) \subseteq FreeIn(heapFreeList) \cup Bytes(Block(a))
      /\ FreeIn(heapFreeList') = (FreeIn(heapFreeList) \cup Bytes(Block(a)))
                                     \ Bytes(Node(a, hn_size[a]))
  BY <1>1, <1>3
<1> QED BY <1>1, <1>2, <1>3, <1>4, <1>5, ResizeRefines

LEMMA ReallocRefines ==
    ASSUME IInv, SizesAreFunction, NEW a \in DOMAIN hn_size, NEW n \in Request,
           NutHeapRootRealloc(a, n)
    PROVE  Heap!Next
<1>1. CASE Need(n) > hn_size[a]
  BY <1>1, ExpandRefines, RelocateRefines DEF NutHeapRootRealloc
<1>2. CASE ~(Need(n) > hn_size[a]) /\ Need(n) < (hn_size[a] - NodeMin) % Word
  <2>1. hn_size[a] - NodeMin \in 0..(Word - 1) /\ Word \in Nat
    BY HeapAssumption, BlockIs DEF IInv
  <2>2. (hn_size[a] - NodeMin) % Word = hn_size[a] - NodeMin
    BY <2>1, NoWrap
  <2> QED BY <1>2, <2>2, ReduceRefines DEF NutHeapRootRealloc
<1>3. CASE ~(Need(n) > hn_size[a]) /\ ~(Need(n) < (hn_size[a] - NodeMin) % Word)
  BY <1>3, KeepRefines DEF NutHeapRootRealloc
<1> QED BY <1>1, <1>2, <1>3

\* Every call is a step of Allocator or one that it does not see.
LEMMA StepRefines ==
    ASSUME IInv, SizesAreFunction, [Next]_vars
    PROVE  Heap!Next \/ UNCHANGED <<FreeBytes, hn_size, result>>
<1>1. CASE NutHeapRootAdd
  BY <1>1, AddRefines
<1>2. ASSUME NEW n \in Request, NutHeapRootAlloc(n) PROVE Heap!Next
  <2>1. Need(n) \in Nat /\ Need(n) >= NodeMin
    BY HeapAssumption
  <2>2. CASE Alloc(Need(n), NIL)
    <3>1. Heap!Fit(Need(n), {NIL} \ {NIL})
      BY <2>1, <2>2, AllocRefines
    <3>2. {NIL} \ {NIL} = {}
      OBVIOUS
    <3>3. Heap!Alloc(n)
      BY <3>1, <3>2 DEF Heap!Alloc
    <3> QED BY <3>3 DEF Heap!Next
  <2>3. CASE NoMemory(Need(n))
    <3>1. Heap!Alloc(n)
      BY <2>1, <2>3, NoMemoryRefines DEF Heap!Alloc
    <3> QED BY <3>1 DEF Heap!Next
  <2> QED BY <1>2, <2>2, <2>3 DEF NutHeapRootAlloc
<1>3. ASSUME NEW a \in DOMAIN hn_size, NutHeapRootFree(a) PROVE Heap!Next
  BY <1>3, FreeRefines
<1>4. ASSUME NEW a \in DOMAIN hn_size, NEW n \in Request, NutHeapRootRealloc(a, n)
      PROVE  Heap!Next
  BY <1>4, ReallocRefines
<1>5. ASSUME NEW i \in DOMAIN heapFreeList,
             NEW a \in heapFreeList[i].addr..(End(heapFreeList[i]) - 1), FreeAgain(a, i)
      PROVE  UNCHANGED <<FreeBytes, hn_size, result>>
  BY <1>5, AgainRefines
<1>6. CASE UNCHANGED vars
  BY <1>6, FreeBytesIs DEF vars
<1> QED BY <1>1, <1>2, <1>3, <1>4, <1>5, <1>6 DEF Next

LEMMA StepFunction == SizesAreFunction /\ [Next]_vars => SizesAreFunction'
<1> SUFFICES ASSUME SizesAreFunction, [Next]_vars PROVE SizesAreFunction'
  OBVIOUS
<1>1. CASE hn_size' = hn_size
  BY <1>1 DEF SizesAreFunction
<1>2. CASE \E S : \E v : hn_size' = [b \in S |-> v[b]]
  BY <1>2 DEF SizesAreFunction
<1>3. CASE \E a : \E n : hn_size' = [hn_size EXCEPT ![a] = n]
  BY <1>3 DEF SizesAreFunction
<1>4. ASSUME NEW need, NEW gone, Alloc(need, gone)
      PROVE  \E S : \E v : hn_size' = [b \in S |-> v[b]]
  <2> DEFINE a == heapFreeList[BestFit(heapFreeList, need)].addr
             S == (DOMAIN hn_size \ {gone}) \cup {a}
             v == [b \in S |-> IF b = a THEN CutSize(heapFreeList, BestFit(heapFreeList, need), need)
                               ELSE hn_size[b]]
  <2>1. hn_size' = v
    BY <1>4 DEF Alloc
  <2> QED BY <2>1
<1>5. ASSUME NEW need, NoMemory(need) PROVE hn_size' = hn_size
  BY <1>5 DEF NoMemory
<1>6. ASSUME NEW a, NEW need, Expand(a, need) \/ Reduce(a, need)
      PROVE  \E n : hn_size' = [hn_size EXCEPT ![a] = n]
  BY <1>6 DEF Expand, Reduce
<1>7. ASSUME NEW a, NEW n, NutHeapRootRealloc(a, n) PROVE SizesAreFunction'
  BY <1>1, <1>2, <1>3, <1>4, <1>5, <1>6, <1>7 DEF NutHeapRootRealloc, Relocate, Keep
<1>8. ASSUME NEW n, NutHeapRootAlloc(n) PROVE SizesAreFunction'
  BY <1>1, <1>2, <1>4, <1>5, <1>8 DEF NutHeapRootAlloc
<1>9. ASSUME NEW a, NutHeapRootFree(a) PROVE SizesAreFunction'
  BY <1>2, <1>9 DEF NutHeapRootFree
<1>10. CASE NutHeapRootAdd
  BY <1>1, <1>10 DEF NutHeapRootAdd
<1>11. ASSUME NEW i, NEW a, FreeAgain(a, i) PROVE SizesAreFunction'
  BY <1>1, <1>11 DEF FreeAgain
<1>12. CASE UNCHANGED vars
  BY <1>1, <1>12 DEF vars
<1> QED BY <1>7, <1>8, <1>9, <1>10, <1>11, <1>12 DEF Next

\* The heap of os/heap.c loses no byte, gives none out twice and allocates the best fit,
\* whatever the regions and the order of NutHeapRootAlloc, NutHeapRootRealloc and
\* NutHeapRootFree: it implements Allocator.
THEOREM HeapImplementsAllocator == Spec => ImplementsAllocator
<1>1. Init => Heap!Init /\ SizesAreFunction
  <2> SUFFICES ASSUME Init PROVE Heap!Init /\ SizesAreFunction
    OBVIOUS
  <2>1. heapFreeList = <<>> /\ hn_size = <<>> /\ result = NIL
    BY DEF Init
  <2>2. DOMAIN heapFreeList = {}
    BY <2>1
  <2>3. FreeBytes = {}
    BY <2>2 DEF FreeBytes
  <2>4. SizesAreFunction
    BY <2>1 DEF SizesAreFunction
  <2> QED BY <2>1, <2>3, <2>4 DEF Heap!Init
<1>2. IInv /\ SizesAreFunction /\ [Next]_vars
        => [Heap!Next]_<<FreeBytes, hn_size, result>>
  BY StepRefines
<1>3. [Heap!Next]_<<FreeBytes, hn_size, result>> => [Heap!Next]_Heap!vars
  BY DEF Heap!vars
<1> QED BY <1>1, <1>2, <1>3, StepFunction, HeapInvariant, PTL DEF Spec, ImplementsAllocator, Heap!Spec

-----------------------------------------------------------------------------
(* The timers.                                                             *)

-----------------------------------------------------------------------------
(* The delta list: ticks to the expiry of the k-th timer.                  *)

\* g has the ticks to the expiry of the first n timers.
Sums(g, n, list, left) ==
    /\ g \in [0..n -> Int]
    /\ g[0] = 0
    /\ \A k \in 1..n : g[k] = g[k - 1] + left[list[k]]

\* Such sums exist for every list.
LEMMA SumsExist ==
    ASSUME NEW S, NEW list \in Seq(S), NEW left \in [S -> Int]
    PROVE  \E g : Sums(g, Len(list), list, left)
<1> DEFINE Bad == {n \in 0..Len(list) : ~\E g : Sums(g, n, list, left)}
<1>1. SUFFICES ASSUME Bad # {} PROVE FALSE
  <2>1. Len(list) \in 0..Len(list)
    OBVIOUS
  <2>2. Bad = {} => Len(list) \notin Bad
    OBVIOUS
  <2> QED BY <2>1, <2>2
<1>2. Bad \in SUBSET Nat
  OBVIOUS
<1>3. PICK m \in Bad : \A n \in Bad : m <= n
  BY <1>1, <1>2, MinOfNonempty
<1>4. m \in 0..Len(list) /\ ~\E g : Sums(g, m, list, left)
  BY <1>3
<1>5. CASE m = 0
  <2>1. Sums([i \in 0..0 |-> 0], 0, list, left)
    BY DEF Sums
  <2> QED BY <1>4, <1>5, <2>1
<1>6. CASE m # 0
  <2>1. m - 1 \in 0..Len(list) /\ m - 1 \notin Bad /\ m \in 1..Len(list)
    <3>1. Len(list) \in Nat
      OBVIOUS
    <3>2. m - 1 \in 0..Len(list) /\ m \in 1..Len(list) /\ ~(m <= m - 1)
      BY <1>4, <1>6, <3>1
    <3> HIDE DEF Bad
    <3> QED BY <1>3, <3>2
  <2>2. PICK g : Sums(g, m - 1, list, left)
    BY <2>1
  <2>3. list[m] \in S /\ left[list[m]] \in Int /\ g[m - 1] \in Int
    BY <2>1, <2>2 DEF Sums
  <2> DEFINE h == [i \in 0..m |-> IF i = m THEN g[m - 1] + left[list[m]] ELSE g[i]]
  <2>4. h \in [0..m -> Int] /\ h[0] = 0
    BY <2>1, <2>2, <2>3 DEF Sums
  <2>5. ASSUME NEW k \in 1..m PROVE h[k] = h[k - 1] + left[list[k]]
    <3>1. CASE k = m
      BY <2>1, <3>1
    <3>2. CASE k # m
      <4>1. k \in 1..(m - 1) /\ k - 1 # m /\ k - 1 \in 0..m
        BY <2>1, <3>2
      <4>2. h[k] = g[k] /\ h[k - 1] = g[k - 1]
        BY <3>2, <4>1
      <4> QED BY <2>2, <4>1, <4>2 DEF Sums
    <3> QED BY <3>1, <3>2
  <2>6. Sums(h, m, list, left)
    BY <2>4, <2>5 DEF Sums
  <2> QED BY <1>4, <2>6
<1> QED BY <1>5, <1>6

\* Due adds the distances up.
LEMMA DueIs ==
    ASSUME NEW S, NEW list \in Seq(S), NEW left \in [S -> Int]
    PROVE  /\ \A k \in 0..Len(list) : Due(list, left, k) \in Int
           /\ Due(list, left, 0) = 0
           /\ \A k \in 1..Len(list) :
                 Due(list, left, k) = Due(list, left, k - 1) + left[list[k]]
<1> DEFINE F(g) == [i \in 0..Len(list) |-> IF i = 0 THEN 0 ELSE g[i - 1] + left[list[i]]]
           c    == CHOOSE g : g = F(g)
<1>1. \A k : Due(list, left, k) = c[k]
  BY DEF Due
<1>2. PICK g : Sums(g, Len(list), list, left)
  BY SumsExist
<1>3. g = F(g)
  BY <1>2 DEF Sums
<1>4. c = F(c)
  BY <1>3
<1> HIDE DEF c
<1>5. c[0] = 0 /\ \A k \in 1..Len(list) : c[k] = c[k - 1] + left[list[k]]
  <2>1. 0 \in 0..Len(list)
    OBVIOUS
  <2>2. \A k \in 0..Len(list) : F(c)[k] = IF k = 0 THEN 0 ELSE c[k - 1] + left[list[k]]
    OBVIOUS
  <2> HIDE DEF F
  <2>3. \A k \in 0..Len(list) : c[k] = IF k = 0 THEN 0 ELSE c[k - 1] + left[list[k]]
    BY <1>4, <2>2
  <2> QED BY <2>1, <2>3
<1>6. \A k \in 0..Len(list) : c[k] \in Int
  <2> DEFINE Bad == {k \in 0..Len(list) : c[k] \notin Int}
  <2>1. SUFFICES ASSUME Bad # {} PROVE FALSE
    BY DEF Bad
  <2>2. PICK m \in Bad : \A n \in Bad : m <= n
    <3>1. Bad \in SUBSET Nat
      OBVIOUS
    <3> QED BY <2>1, <3>1, MinOfNonempty
  <2>3. m # 0 /\ m \in 1..Len(list) /\ m - 1 \in 0..Len(list) /\ m - 1 \notin Bad
    BY <1>5, <2>2
  <2>4. c[m - 1] \in Int /\ list[m] \in S /\ left[list[m]] \in Int
    BY <2>3
  <2> QED BY <1>5, <2>2, <2>3, <2>4
<1> QED BY <1>1, <1>5, <1>6

\* Nothing else does.
LEMMA DueUnique ==
    ASSUME NEW S, NEW list \in Seq(S), NEW left \in [S -> Int], NEW g,
           Sums(g, Len(list), list, left)
    PROVE  \A k \in 0..Len(list) : Due(list, left, k) = g[k]
<1> DEFINE D(k) == Due(list, left, k)
           Bad  == {k \in 0..Len(list) : D(k) # g[k]}
<1>1. D(0) = 0 /\ \A k \in 1..Len(list) : D(k) = D(k - 1) + left[list[k]]
  BY DueIs
<1> HIDE DEF D
<1>2. SUFFICES ASSUME Bad # {} PROVE FALSE
  BY DEF Bad, D
<1>3. PICK m \in Bad : \A n \in Bad : m <= n
  <2>1. Bad \in SUBSET Nat
    OBVIOUS
  <2> QED BY <1>2, <2>1, MinOfNonempty
<1>4. m # 0 /\ m \in 1..Len(list) /\ m - 1 \in 0..Len(list) /\ m - 1 \notin Bad
  BY <1>1, <1>3 DEF Sums
<1> QED BY <1>1, <1>3, <1>4 DEF Sums

\* Timers further back are due later.
LEMMA DueOrdered ==
    ASSUME NEW S, NEW list \in Seq(S), NEW left \in [S -> Nat]
    PROVE  /\ \A i, j \in 0..Len(list) :
                 i <= j => Due(list, left, i) <= Due(list, left, j)
           /\ \A i \in 0..Len(list) : Due(list, left, i) \in Nat
<1> DEFINE D(k) == Due(list, left, k)
<1>1. /\ \A k \in 0..Len(list) : D(k) \in Int
      /\ D(0) = 0 /\ \A k \in 1..Len(list) : D(k) = D(k - 1) + left[list[k]]
  <2>1. left \in [S -> Int]
    OBVIOUS
  <2> QED BY <2>1, DueIs
<1> HIDE DEF D
<1>2. ASSUME NEW i \in 0..Len(list), NEW j \in 0..Len(list), i <= j PROVE D(i) <= D(j)
  <2> DEFINE Bad == {k \in i..Len(list) : ~(D(i) <= D(k))}
  <2>1. SUFFICES ASSUME Bad # {} PROVE FALSE
    BY <1>2 DEF Bad
  <2>2. PICK m \in Bad : \A n \in Bad : m <= n
    <3>1. i..Len(list) \subseteq Nat
      OBVIOUS
    <3>2. Bad \in SUBSET Nat
      BY <3>1
    <3> HIDE DEF Bad
    <3> QED BY <2>1, <3>2, MinOfNonempty
  <2>3. m # i
    BY <1>1, <2>2
  <2>4. m - 1 \in i..Len(list) /\ m \in 1..Len(list) /\ m - 1 \notin Bad
    BY <2>2, <2>3
  <2>5. D(i) <= D(m - 1) /\ list[m] \in S /\ left[list[m]] \in Nat
    BY <2>4
  <2>6. D(m) = D(m - 1) + left[list[m]] /\ D(m - 1) \in Int /\ D(i) \in Int
    BY <1>1, <2>4
  <2>7. D(i) <= D(m)
    BY <2>5, <2>6
  <2> QED BY <2>2, <2>7
<1>3. ASSUME NEW i \in 0..Len(list) PROVE D(i) \in Nat
  <2>1. D(0) <= D(i)
    BY <1>2
  <2> QED BY <1>1, <2>1
<1> QED BY <1>2, <1>3 DEF D

-----------------------------------------------------------------------------
(* The expiry of each timer of a list without duplicates.                  *)

Pos(list, tn) == CHOOSE k \in 1..Len(list) : list[k] = tn

\* Ticks from the head of the list to the expiry of tn.
Expiry(list, left, tn) == Due(list, left, Pos(list, tn))

\* A timer stands where it is found.
LEMMA PosIs ==
    ASSUME NEW S, NEW list \in Seq(S), IsInjective(list)
    PROVE  /\ \A k \in 1..Len(list) : Pos(list, list[k]) = k /\ list[k] \in ToSet(list)
           /\ \A tn \in ToSet(list) :
                 Pos(list, tn) \in 1..Len(list) /\ list[Pos(list, tn)] = tn
<1>1. ASSUME NEW k \in 1..Len(list) PROVE Pos(list, list[k]) = k /\ list[k] \in ToSet(list)
  <2>1. \A j \in 1..Len(list) : list[j] = list[k] => j = k
    BY DEF IsInjective
  <2> QED BY <2>1 DEF Pos, ToSet
<1>2. ASSUME NEW tn \in ToSet(list)
      PROVE  Pos(list, tn) \in 1..Len(list) /\ list[Pos(list, tn)] = tn
  BY DEF Pos, ToSet
<1> QED BY <1>1, <1>2

\* The expiry of each timer of the list is that of another list with the same
\* distances to the same positions.
LEMMA ExpiryAt ==
    ASSUME NEW S, NEW list \in Seq(S), IsInjective(list), NEW left, NEW k \in 1..Len(list)
    PROVE  Expiry(list, left, list[k]) = Due(list, left, k)
BY PosIs DEF Expiry

\* A list with tn inserted has no duplicates and holds tn besides the others.
LEMMA InsertedSet ==
    ASSUME NEW S, NEW list \in Seq(S), NEW e \in Seq(S), NEW tn \in S, NEW at \in 1..(Len(list) + 1),
           IsInjective(list), tn \notin ToSet(list), Inserted(e, list, at, tn)
    PROVE  IsInjective(e) /\ ToSet(e) = ToSet(list) \cup {tn}
<1>1. /\ Len(e) = Len(list) + 1
      /\ \A i \in 1..(Len(list) + 1) :
            e[i] = IF i < at THEN list[i] ELSE IF i = at THEN tn ELSE list[i - 1]
  BY DEF Inserted
<1>2. \A i \in 1..Len(list) : list[i] # tn
  BY DEF ToSet
<1>3. \A i, j \in 1..Len(list) : list[i] = list[j] => i = j
  BY DEF IsInjective
<1> DEFINE old(i) == IF i < at THEN i ELSE i - 1
<1>4. \A i \in 1..(Len(list) + 1) : i # at => old(i) \in 1..Len(list) /\ e[i] = list[old(i)]
  BY <1>1
<1>5. \A i, j \in 1..(Len(list) + 1) : i # at /\ j # at /\ old(i) = old(j) => i = j
  OBVIOUS
<1>6. e[at] = tn
  BY <1>1
<1> HIDE DEF old
<1>7. ASSUME NEW i \in 1..Len(e), NEW j \in 1..Len(e), e[i] = e[j] PROVE i = j
  <2>1. i \in 1..(Len(list) + 1) /\ j \in 1..(Len(list) + 1)
    BY <1>1
  <2>2. CASE i = at \/ j = at
    BY <1>2, <1>4, <1>6, <1>7, <2>1, <2>2
  <2>3. CASE i # at /\ j # at
    BY <1>3, <1>4, <1>5, <1>7, <2>1, <2>3
  <2> QED BY <2>2, <2>3
<1>8. ASSUME NEW x \in ToSet(list) PROVE x \in ToSet(e)
  <2>1. PICK j \in 1..Len(list) : list[j] = x
    BY DEF ToSet
  <2>2. PICK i \in 1..Len(e) : e[i] = x
    <3>1. CASE j < at
      BY <1>1, <2>1, <3>1
    <3>2. CASE j >= at
      <4>1. j + 1 \in 1..(Len(list) + 1) /\ ~(j + 1 < at) /\ j + 1 # at /\ (j + 1) - 1 = j
        BY <3>2
      <4>2. e[j + 1] = list[j]
        BY <1>1, <4>1
      <4> QED BY <1>1, <2>1, <4>1, <4>2
    <3> QED BY <3>1, <3>2
  <2> QED BY <2>2 DEF ToSet
<1>9. tn \in ToSet(e)
  BY <1>1, <1>6 DEF ToSet
<1>10. ASSUME NEW x \in ToSet(e) PROVE x \in ToSet(list) \cup {tn}
  <2>1. PICK i \in 1..Len(e) : e[i] = x
    BY DEF ToSet
  <2>2. i \in 1..(Len(list) + 1)
    BY <1>1
  <2>3. CASE i = at
    BY <1>6, <2>1, <2>3
  <2>4. CASE i # at
    BY <1>4, <2>1, <2>2, <2>4 DEF ToSet
  <2> QED BY <2>3, <2>4
<1> QED BY <1>1, <1>7, <1>8, <1>9, <1>10 DEF IsInjective

-----------------------------------------------------------------------------
(* NutTimerInsert.                                                         *)

\* The timers that are due later than tn come after those that are not.
LEMMA LaterIs ==
    ASSUME NEW list \in Seq(Timer), NEW left \in [Timer -> Nat], NEW tn \in Timer
    PROVE  LET later == Later(tn, list, left)
               at    == IF later = {} THEN Len(list) + 1 ELSE Min(later)
           IN  /\ at \in 1..(Len(list) + 1)
               /\ later = {} <=> at = Len(list) + 1
               /\ \A k \in 0..Len(list) : k < at <=> Due(list, left, k) <= left[tn]
<1> DEFINE D(k)  == Due(list, left, k)
           later == Later(tn, list, left)
           at    == IF later = {} THEN Len(list) + 1 ELSE Min(later)
<1>1. /\ \A i, j \in 0..Len(list) : i <= j => D(i) <= D(j)
      /\ \A i \in 0..Len(list) : D(i) \in Nat
      /\ D(0) = 0
  <2>1. left \in [Timer -> Int]
    OBVIOUS
  <2> QED BY <2>1, DueOrdered, DueIs
<1>2. later = {k \in 1..Len(list) : left[tn] < D(k)}
  BY DEF Later
<1> HIDE DEF D
<1>3. later \in SUBSET Nat
  BY <1>2
<1>4. CASE later = {}
  <2>1. at = Len(list) + 1
    BY <1>4
  <2>2. ASSUME NEW k \in 0..Len(list) PROVE D(k) <= left[tn]
    BY <1>1, <1>2, <1>4
  <2> HIDE DEF at, later
  <2> QED BY <1>4, <2>1, <2>2 DEF at, later, D
<1>5. CASE later # {}
  <2>1. at \in later /\ \A j \in later : at <= j
    BY <1>3, <1>5, MinOfNonempty
  <2>2. at \in 1..Len(list) /\ left[tn] < D(at)
    BY <1>2, <2>1
  <2>3. ASSUME NEW k \in 0..Len(list) PROVE k < at <=> D(k) <= left[tn]
    <3>1. CASE k < at
      <4>1. k \notin later
        BY <2>1, <2>2, <3>1
      <4> QED BY <1>1, <1>2, <3>1, <4>1
    <3>2. CASE k >= at
      <4>1. D(at) <= D(k) /\ D(at) \in Nat /\ D(k) \in Nat
        BY <1>1, <2>2, <3>2
      <4> QED BY <2>2, <3>2, <4>1
    <3> QED BY <2>2, <3>1, <3>2
  <2> HIDE DEF at, later
  <2> QED BY <1>5, <2>2, <2>3 DEF at, later, D
<1> QED BY <1>4, <1>5

\* NutTimerInsert puts tn where it is due, and no other timer expires earlier or later
\* than before.
LEMMA InsertKeeps ==
    ASSUME NEW list \in Seq(Timer), NEW left \in [Timer -> Nat], NEW tn \in Timer,
           IsInjective(list), tn \notin ToSet(list),
           NutTimerInsert(tn, list, left)
    PROVE  /\ nutTimerList' \in Seq(Timer) /\ tn_ticks_left' \in [Timer -> Nat]
           /\ \A u \in Timer : tn_ticks_left'[u] <= left[u]
           /\ \E at \in 1..(Len(list) + 1) :
                 /\ Inserted(nutTimerList', list, at, tn)
                 /\ \A k \in 0..Len(list) : k < at <=> Due(list, left, k) <= left[tn]
                 /\ \A k \in 1..(Len(list) + 1) :
                       Due(nutTimerList', tn_ticks_left', k)
                          = IF k < at THEN Due(list, left, k)
                            ELSE IF k = at THEN left[tn] ELSE Due(list, left, k - 1)
<1> DEFINE D(k)  == Due(list, left, k)
           later == Later(tn, list, left)
           at    == IF later = {} THEN Len(list) + 1 ELSE Min(later)
           own   == left[tn] - D(at - 1)
           e     == nutTimerList'
           f     == tn_ticks_left'
<1>1. /\ at \in 1..(Len(list) + 1)
      /\ later = {} <=> at = Len(list) + 1
      /\ \A k \in 0..Len(list) : k < at <=> D(k) <= left[tn]
  BY LaterIs, Zenon
<1>2. /\ \A i \in 0..Len(list) : D(i) \in Nat
      /\ D(0) = 0
      /\ \A k \in 1..Len(list) : D(k) = D(k - 1) + left[list[k]]
  <2>1. left \in [Timer -> Int]
    OBVIOUS
  <2> QED BY <2>1, DueOrdered, DueIs
<1>3. e = InsertAt(list, at, tn)
  BY DEF NutTimerInsert, InsertAt, InsertAt, Min, Min
<1>4. f = IF later = {} THEN [left EXCEPT ![tn] = own]
          ELSE [left EXCEPT ![tn] = own, ![list[at]] = @ - own]
  BY DEF NutTimerInsert, Min, Min
<1> HIDE DEF e, f, own, at, later, D
<1>5. e \in Seq(Timer) /\ Inserted(e, list, at, tn)
  BY <1>1, <1>3, InsertAtIs
<1>6. own \in Nat /\ own = left[tn] - D(at - 1) /\ own <= left[tn]
  <2>1. at - 1 \in 0..Len(list) /\ at - 1 < at
    BY <1>1
  <2>2. D(at - 1) <= left[tn] /\ D(at - 1) \in Nat /\ left[tn] \in Nat
    BY <1>1, <1>2, <2>1
  <2> QED BY <2>2 DEF own
<1>7. \A k \in 1..Len(list) : list[k] # tn /\ list[k] \in Timer
  BY DEF ToSet
<1>8. /\ f \in [Timer -> Nat] /\ f[tn] = own
      /\ at # Len(list) + 1 => f[list[at]] = left[list[at]] - own
      /\ \A u \in Timer : u # tn /\ (at = Len(list) + 1 \/ u # list[at]) => f[u] = left[u]
      /\ \A u \in Timer : f[u] <= left[u]
  <2>1. CASE at = Len(list) + 1
    <3>1. f = [left EXCEPT ![tn] = own]
      BY <1>1, <1>4, <2>1
    <3> QED BY <1>6, <2>1, <3>1
  <2>2. CASE at # Len(list) + 1
    <3>1. f = [left EXCEPT ![tn] = own, ![list[at]] = @ - own]
      BY <1>1, <1>4, <2>2
    <3>2. at \in 1..Len(list) /\ list[at] # tn /\ list[at] \in Timer
      BY <1>1, <1>7, <2>2
    <3>3. left[list[at]] - own \in Nat /\ left[list[at]] - own <= left[list[at]]
      <4>1. D(at) = D(at - 1) + left[list[at]] /\ ~(D(at) <= left[tn])
        BY <1>1, <1>2, <3>2
      <4>2. D(at) \in Nat /\ D(at - 1) \in Nat /\ left[tn] \in Nat /\ left[list[at]] \in Nat
        BY <1>2, <3>2
      <4> QED BY <1>6, <4>1, <4>2
    <3> DEFINE b == list[at]
    <3>4. b # tn /\ b \in Timer /\ left[b] - own \in Nat /\ left[b] - own <= left[b]
      BY <3>2, <3>3
    <3>5. f = [left EXCEPT ![tn] = own, ![b] = left[b] - own]
      BY <3>1, <3>4
    <3> HIDE DEF b
    <3>6. /\ f \in [Timer -> Nat]
          /\ \A u \in Timer : f[u] = IF u = tn THEN own ELSE IF u = b THEN left[b] - own
                                     ELSE left[u]
      BY <1>6, <3>4, <3>5
    <3>7. \A u \in Timer : f[u] <= left[u]
      BY <1>6, <3>4, <3>6
    <3> QED BY <2>2, <3>4, <3>6, <3>7 DEF b
  <2> QED BY <2>1, <2>2
<1> DEFINE G == [k \in 0..(Len(list) + 1) |->
                    IF k < at THEN D(k) ELSE IF k = at THEN left[tn] ELSE D(k - 1)]
<1>9. Len(e) = Len(list) + 1
  BY <1>5 DEF Inserted
<1>10. G \in [0..Len(e) -> Int] /\ G[0] = 0
  BY <1>1, <1>2, <1>9
<1>11. ASSUME NEW k \in 1..Len(e) PROVE G[k] = G[k - 1] + f[e[k]]
  <2>1. /\ k \in 1..(Len(list) + 1) /\ k \in 0..(Len(list) + 1) /\ k - 1 \in 0..(Len(list) + 1)
        /\ e[k] = IF k < at THEN list[k] ELSE IF k = at THEN tn ELSE list[k - 1]
    BY <1>5, <1>9 DEF Inserted
  <2>2. /\ G[k] = IF k < at THEN D(k) ELSE IF k = at THEN left[tn] ELSE D(k - 1)
        /\ G[k - 1] = IF k - 1 < at THEN D(k - 1) ELSE IF k - 1 = at THEN left[tn] ELSE D(k - 1 - 1)
    BY <2>1
  <2> HIDE DEF G
  <2>3. CASE k < at
    <3>1. k \in 1..Len(list) /\ list[k] # tn /\ list[k] \in Timer
      BY <1>1, <1>7, <2>1, <2>3
    <3>2. at # Len(list) + 1 => list[k] # list[at]
      BY <1>1, <2>3, <3>1 DEF IsInjective
    <3>3. f[list[k]] = left[list[k]]
      BY <1>8, <3>1, <3>2
    <3>4. G[k] = D(k) /\ G[k - 1] = D(k - 1) /\ e[k] = list[k]
      BY <1>1, <2>1, <2>2, <2>3
    <3> QED BY <1>2, <3>1, <3>3, <3>4
  <2>4. CASE k = at
    <3>1. G[k] = left[tn] /\ G[k - 1] = D(at - 1) /\ f[e[k]] = own
      BY <1>8, <2>1, <2>2, <2>4
    <3>2. D(at - 1) \in Nat /\ left[tn] \in Nat
      BY <1>1, <1>2
    <3> QED BY <1>6, <3>1, <3>2
  <2>5. CASE k = at + 1
    <3>1. at \in 1..Len(list) /\ at # Len(list) + 1
      BY <1>1, <2>1, <2>5
    <3>2. G[k] = D(at) /\ G[k - 1] = left[tn] /\ f[e[k]] = left[list[at]] - own
      BY <1>1, <1>8, <2>1, <2>2, <2>5, <3>1
    <3>3. D(at) = D(at - 1) + left[list[at]]
      BY <1>2, <3>1
    <3>4. D(at - 1) \in Nat /\ left[tn] \in Nat /\ left[list[at]] \in Nat
      BY <1>2, <1>7, <3>1
    <3> QED BY <1>6, <3>2, <3>3, <3>4
  <2>6. CASE k > at + 1
    <3>1. k - 1 \in 1..Len(list) /\ list[k - 1] # tn /\ list[k - 1] \in Timer
      BY <1>1, <1>7, <2>1, <2>6
    <3>2. at # Len(list) + 1 => list[k - 1] # list[at]
      BY <1>1, <2>6, <3>1 DEF IsInjective
    <3>3. f[list[k - 1]] = left[list[k - 1]]
      BY <1>8, <3>1, <3>2
    <3>4. G[k] = D(k - 1) /\ G[k - 1] = D(k - 1 - 1) /\ e[k] = list[k - 1]
      BY <1>1, <2>1, <2>2, <2>6
    <3> QED BY <1>2, <3>1, <3>3, <3>4
  <2> QED BY <1>1, <2>1, <2>3, <2>4, <2>5, <2>6
<1>12. Sums(G, Len(e), e, f)
  BY <1>10, <1>11 DEF Sums
<1>13. \A k \in 0..Len(e) : Due(e, f, k) = G[k]
  <2>1. f \in [Timer -> Int]
    BY <1>8
  <2> HIDE DEF G
  <2> QED BY <1>5, <1>12, <2>1, DueUnique
<1>14. ASSUME NEW k \in 1..(Len(list) + 1)
       PROVE  Due(e, f, k) = IF k < at THEN D(k) ELSE IF k = at THEN left[tn] ELSE D(k - 1)
  BY <1>9, <1>13
<1> HIDE DEF G
<1> QED BY <1>1, <1>5, <1>8, <1>14 DEF e, f, D

\* The same by timers instead of positions.
LEMMA InsertExpiry ==
    ASSUME NEW list \in Seq(Timer), NEW left \in [Timer -> Nat], NEW tn \in Timer,
           IsInjective(list), tn \notin ToSet(list),
           NutTimerInsert(tn, list, left)
    PROVE  LET e == nutTimerList'
               f == tn_ticks_left'
           IN  /\ e \in Seq(Timer) /\ f \in [Timer -> Nat]
               /\ \A u \in Timer : f[u] <= left[u]
               /\ IsInjective(e) /\ ToSet(e) = ToSet(list) \cup {tn}
               /\ Expiry(e, f, tn) = left[tn]
               /\ \A u \in ToSet(list) : Expiry(e, f, u) = Expiry(list, left, u)
               /\ list # <<>> /\ left[Head(list)] = 0
                  => e # <<>> /\ Head(e) = Head(list) /\ f[Head(list)] = 0
<1> DEFINE e == nutTimerList'
           f == tn_ticks_left'
<1>1. /\ e \in Seq(Timer) /\ f \in [Timer -> Nat]
      /\ \A u \in Timer : f[u] <= left[u]
  BY InsertKeeps
<1>2. PICK at \in 1..(Len(list) + 1) :
        /\ Inserted(e, list, at, tn)
        /\ \A k \in 0..Len(list) : k < at <=> Due(list, left, k) <= left[tn]
        /\ \A k \in 1..(Len(list) + 1) :
              Due(e, f, k)
                 = IF k < at THEN Due(list, left, k)
                   ELSE IF k = at THEN left[tn] ELSE Due(list, left, k - 1)
  BY InsertKeeps, Zenon
<1> HIDE DEF e, f
<1>3. IsInjective(e) /\ ToSet(e) = ToSet(list) \cup {tn}
  BY <1>1, <1>2, InsertedSet
<1>4. /\ Len(e) = Len(list) + 1
      /\ \A i \in 1..(Len(list) + 1) :
            e[i] = IF i < at THEN list[i] ELSE IF i = at THEN tn ELSE list[i - 1]
  BY <1>2 DEF Inserted
<1>5. Expiry(e, f, tn) = left[tn]
  <2>1. at \in 1..Len(e) /\ e[at] = tn
    BY <1>4
  <2>2. Expiry(e, f, e[at]) = Due(e, f, at)
    BY <1>1, <1>3, <2>1, ExpiryAt
  <2> QED BY <1>2, <2>1, <2>2
<1>6. ASSUME NEW u \in ToSet(list) PROVE Expiry(e, f, u) = Expiry(list, left, u)
  <2>1. PICK j \in 1..Len(list) : list[j] = u
    BY DEF ToSet
  <2>2. Expiry(list, left, list[j]) = Due(list, left, j)
    BY ExpiryAt
  <2>3. PICK i \in 1..Len(e) :
          e[i] = list[j] /\ i # at /\ (i < at => i = j) /\ (~(i < at) => i - 1 = j)
    <3>1. CASE j < at
      BY <1>4, <3>1
    <3>2. CASE j >= at
      <4>1. j + 1 \in 1..(Len(list) + 1) /\ ~(j + 1 < at) /\ j + 1 # at /\ (j + 1) - 1 = j
        BY <3>2
      <4>2. e[j + 1] = list[j]
        BY <1>4, <4>1
      <4> QED BY <1>4, <4>1, <4>2
    <3> QED BY <3>1, <3>2
  <2>4. Expiry(e, f, e[i]) = Due(e, f, i)
    BY <1>1, <1>3, <2>3, ExpiryAt
  <2>5. i \in 1..(Len(list) + 1)
    BY <1>4, <2>3
  <2>6. Due(e, f, i) = Due(list, left, j)
    BY <1>2, <2>3, <2>5
  <2> QED BY <2>1, <2>2, <2>3, <2>4, <2>6
<1>7. ASSUME list # <<>>, left[Head(list)] = 0
      PROVE  e # <<>> /\ Head(e) = Head(list) /\ f[Head(list)] = 0
  <2>1. 1 \in 1..Len(list) /\ list[1] = Head(list) /\ Head(list) \in Timer
    BY <1>7
  <2>2. Due(list, left, 1) = 0
    <3>1. left \in [Timer -> Int]
      OBVIOUS
    <3>2. Due(list, left, 1) = Due(list, left, 1 - 1) + left[list[1]] /\ Due(list, left, 0) = 0
      BY <2>1, <3>1, DueIs
    <3> QED BY <1>7, <2>1, <3>2
  <2>3. 1 < at
    <3>1. left[tn] \in Nat
      OBVIOUS
    <3> QED BY <1>2, <2>1, <2>2, <3>1
  <2>4. e # <<>> /\ Head(e) = e[1] /\ e[1] = list[1]
    BY <1>1, <1>4, <2>1, <2>3
  <2>5. f[Head(list)] <= 0 /\ f[Head(list)] \in Nat
    BY <1>1, <1>7, <2>1
  <2> QED BY <2>1, <2>4, <2>5
<1> QED BY <1>1, <1>3, <1>5, <1>6, <1>7 DEF e, f

-----------------------------------------------------------------------------
(* Timers leave the list.                                                  *)

\* A list without its k-th timer.
LEMMA RemovedSet ==
    ASSUME NEW S, NEW list \in Seq(S), NEW r \in Seq(S), NEW k \in 1..Len(list),
           IsInjective(list), Removed(r, list, k)
    PROVE  IsInjective(r) /\ ToSet(r) = ToSet(list) \ {list[k]}
<1> DEFINE old(i) == IF i < k THEN i ELSE i + 1
<1>1. Len(r) = Len(list) - 1
  BY DEF Removed
<1>2. \A i \in 1..Len(r) : old(i) \in 1..Len(list) /\ old(i) # k /\ r[i] = list[old(i)]
  BY <1>1 DEF Removed
<1>3. \A i, j \in 1..Len(r) : old(i) = old(j) => i = j
  OBVIOUS
<1>4. \A j \in 1..Len(list) : j # k => \E i \in 1..Len(r) : old(i) = j
  <2>1. TAKE j \in 1..Len(list)
  <2>2. CASE j < k
    BY <1>1, <2>2
  <2>3. CASE j > k
    <3>1. j - 1 \in 1..Len(r) /\ old(j - 1) = j
      BY <1>1, <2>3
    <3> QED BY <3>1
  <2> QED BY <2>2, <2>3
<1>5. \A i, j \in 1..Len(list) : list[i] = list[j] => i = j
  BY DEF IsInjective
<1> HIDE DEF old
<1>6. IsInjective(r)
  BY <1>2, <1>3, <1>5 DEF IsInjective
<1>7. ToSet(r) = {r[i] : i \in 1..Len(r)} /\ ToSet(list) = {list[i] : i \in 1..Len(list)}
  BY DEF ToSet
<1>8. ToSet(r) = ToSet(list) \ {list[k]}
  <2>1. ASSUME NEW x \in ToSet(r) PROVE x \in ToSet(list) /\ x # list[k]
    <3>1. PICK i \in 1..Len(r) : x = r[i]
      BY <1>7
    <3> QED BY <1>2, <1>5, <1>7, <3>1
  <2>2. ASSUME NEW x \in ToSet(list), x # list[k] PROVE x \in ToSet(r)
    <3>1. PICK j \in 1..Len(list) : x = list[j] /\ j # k
      BY <1>7, <2>2
    <3>2. PICK i \in 1..Len(r) : old(i) = j
      BY <1>4, <3>1
    <3> QED BY <1>2, <1>7, <3>1, <3>2
  <2> QED BY <2>1, <2>2
<1> QED BY <1>6, <1>8

\* The k-th timer of the list is gone, the next one takes over its distance.
TakenOver(r, g, list, left, k) ==
    \A j \in 1..Len(r) :
        g[r[j]] = IF j = k THEN left[list[k + 1]] + left[list[k]] ELSE left[r[j]]

\* List and distances after the removal.
TakenOut(r, g, list, left, k) ==
    /\ list \in Seq(Timer) /\ left \in [Timer -> Nat] /\ IsInjective(list)
    /\ r \in Seq(Timer) /\ g \in [Timer -> Nat] /\ k \in 1..Len(list)
    /\ Removed(r, list, k) /\ TakenOver(r, g, list, left, k)

\* Then the others expire when they did before.
LEMMA RemoveExpiry ==
    ASSUME NEW list, NEW left, NEW r, NEW g, NEW k, TakenOut(r, g, list, left, k)
    PROVE  \A u \in ToSet(r) : Expiry(r, g, u) = Expiry(list, left, u)
<1> SUFFICES ASSUME list \in Seq(Timer), left \in [Timer -> Nat], IsInjective(list),
                    r \in Seq(Timer), g \in [Timer -> Nat], k \in 1..Len(list),
                    Removed(r, list, k), TakenOver(r, g, list, left, k), NEW u \in ToSet(r)
             PROVE  Expiry(r, g, u) = Expiry(list, left, u)
  BY DEF TakenOut
<1> DEFINE D(j) == Due(list, left, j)
           G == [j \in 0..Len(r) |-> IF j < k THEN D(j) ELSE D(j + 1)]
<1>1. /\ \A i \in 0..Len(list) : D(i) \in Nat
      /\ D(0) = 0
      /\ \A i \in 1..Len(list) : D(i) = D(i - 1) + left[list[i]]
  <2>1. left \in [Timer -> Int]
    OBVIOUS
  <2> QED BY <2>1, DueOrdered, DueIs
<1>2. \A j \in 1..Len(r) : r[j] = IF j < k THEN list[j] ELSE list[j + 1]
  BY DEF Removed
<1>11. Len(r) = Len(list) - 1 /\ Len(r) \in Nat /\ Len(list) \in Nat
  BY DEF Removed
<1> HIDE DEF D
<1>3. /\ G \in [0..Len(r) -> Int] /\ G[0] = 0
      /\ \A j \in 0..Len(r) : G[j] = IF j < k THEN D(j) ELSE D(j + 1)
  <2>1. \A j \in 0..Len(r) : D(j) \in Int /\ D(j + 1) \in Int
    <3>1. \A j \in 0..Len(r) : j \in 0..Len(list) /\ j + 1 \in 0..Len(list)
      BY <1>11
    <3> QED BY <1>1, <3>1
  <2>2. 0 \in 0..Len(r) /\ 0 < k
    BY <1>11
  <2> QED BY <1>1, <2>1, <2>2
<1> HIDE DEF G
<1>0. \A j \in 1..Len(list) : left[list[j]] \in Nat
  OBVIOUS
<1>4. ASSUME NEW j \in 1..Len(r) PROVE G[j] = G[j - 1] + g[r[j]]
  <2>1. j \in 0..Len(r) /\ j - 1 \in 0..Len(r) /\ j \in 1..Len(list) /\ j + 1 \in 1..Len(list)
    BY <1>11
  <2>2. left[list[j]] \in Nat /\ left[list[j + 1]] \in Nat
    BY <1>0, <2>1
  <2>8. g[r[j]] = IF j = k THEN left[list[k + 1]] + left[list[k]] ELSE left[r[j]]
    BY DEF TakenOver
  <2>3. D(j) = D(j - 1) + left[list[j]] /\ D(j + 1) = D(j) + left[list[j + 1]]
    <3>1. (j + 1) - 1 = j
      OBVIOUS
    <3> QED BY <1>1, <2>1, <3>1
  <2>4. D(j - 1) \in Nat
    <3>1. j - 1 \in 0..Len(list)
      BY <2>1
    <3> QED BY <1>1, <3>1
  <2>9. /\ G[j] = IF j < k THEN D(j) ELSE D(j + 1)
        /\ G[j - 1] = IF j - 1 < k THEN D(j - 1) ELSE D((j - 1) + 1)
        /\ r[j] = IF j < k THEN list[j] ELSE list[j + 1]
    BY <1>2, <1>3, <2>1
  <2>5. CASE j < k
    <3>1. G[j] = D(j) /\ G[j - 1] = D(j - 1) /\ g[r[j]] = left[list[j]]
      BY <2>1, <2>5, <2>8, <2>9
    <3> QED BY <2>3, <3>1
  <2>6. CASE j = k
    <3>1. G[j] = D(j + 1) /\ G[j - 1] = D(j - 1) /\ g[r[j]] = left[list[j + 1]] + left[list[j]]
      BY <2>1, <2>6, <2>8, <2>9
    <3> DEFINE x == left[list[j]]
               y == left[list[j + 1]]
    <3>2. /\ x \in Nat /\ y \in Nat /\ D(j - 1) \in Nat
          /\ D(j) = D(j - 1) + x /\ D(j + 1) = D(j) + y
          /\ G[j] = D(j + 1) /\ G[j - 1] = D(j - 1) /\ g[r[j]] = y + x
      BY <2>2, <2>3, <2>4, <3>1
    <3> HIDE DEF x, y
    <3> QED BY <3>2
  <2>7. CASE j > k
    <3>0. ~(j < k) /\ ~(j - 1 < k) /\ j # k
      BY <2>7
    <3>1. G[j] = D(j + 1) /\ G[j - 1] = D((j - 1) + 1) /\ g[r[j]] = left[list[j + 1]]
      BY <2>8, <2>9, <3>0
    <3>2. (j - 1) + 1 = j
      OBVIOUS
    <3> QED BY <2>3, <3>1, <3>2
  <2> QED BY <2>5, <2>6, <2>7
<1>5. \A j \in 0..Len(r) : Due(r, g, j) = G[j]
  <2>1. Sums(G, Len(r), r, g)
    BY <1>3, <1>4 DEF Sums
  <2>2. g \in [Timer -> Int]
    OBVIOUS
  <2> QED BY <2>1, <2>2, DueUnique
<1>6. IsInjective(r)
  BY RemovedSet
<1>8. PICK j \in 1..Len(r) : r[j] = u
  BY DEF ToSet
<1>9. Expiry(r, g, u) = G[j]
  <2>1. Expiry(r, g, r[j]) = Due(r, g, j)
    BY <1>6, ExpiryAt
  <2>2. Due(r, g, j) = G[j]
    BY <1>5
  <2> QED BY <1>8, <2>1, <2>2
<1>10. PICK i \in 1..Len(list) : list[i] = u /\ G[j] = D(i)
  <2>1. j \in 0..Len(r) /\ j \in 1..Len(list) /\ j + 1 \in 1..Len(list)
    BY <1>11
  <2>2. /\ G[j] = IF j < k THEN D(j) ELSE D(j + 1)
        /\ r[j] = IF j < k THEN list[j] ELSE list[j + 1]
    BY <1>2, <1>3, <2>1
  <2> QED BY <1>8, <2>1, <2>2
<1>12. Expiry(list, left, list[i]) = Due(list, left, i)
  BY ExpiryAt
<1> QED BY <1>9, <1>10, <1>12 DEF D

\* The distance of the head becomes v.
HeadBecomes(g, list, left, v) == g = [left EXCEPT ![Head(list)] = v]

\* If only the distance of the head changes, all expiries change by as much.
LEMMA HeadExpiry ==
    ASSUME NEW list \in Seq(Timer), NEW left \in [Timer -> Nat], IsInjective(list),
           list # <<>>, NEW v \in Nat, NEW g \in [Timer -> Nat], HeadBecomes(g, list, left, v)
    PROVE  \A u \in ToSet(list) : Expiry(list, g, u) = Expiry(list, left, u) - left[Head(list)] + v
<1> DEFINE D(j) == Due(list, left, j)
           h == Head(list)
           G == [j \in 0..Len(list) |-> IF j = 0 THEN 0 ELSE D(j) - left[h] + v]
<1>1. /\ \A i \in 0..Len(list) : D(i) \in Nat
      /\ D(0) = 0
      /\ \A i \in 1..Len(list) : D(i) = D(i - 1) + left[list[i]]
  <2>1. left \in [Timer -> Int]
    OBVIOUS
  <2> QED BY <2>1, DueOrdered, DueIs
<1>2. h = list[1] /\ h \in Timer /\ 1 \in 1..Len(list) /\ left[h] \in Nat
  OBVIOUS
<1>3. g[h] = v /\ \A u \in Timer : u # h => g[u] = left[u]
  BY <1>2 DEF HeadBecomes
<1> HIDE DEF D, h
<1>4. /\ G \in [0..Len(list) -> Int] /\ G[0] = 0
      /\ \A j \in 1..Len(list) : G[j] = D(j) - left[h] + v
  BY <1>1, <1>2
<1> HIDE DEF G
<1>5. ASSUME NEW j \in 1..Len(list) PROVE G[j] = G[j - 1] + g[list[j]]
  <2>1. CASE j = 1
    <3>1. G[1] = D(1) - left[h] + v /\ D(1) = D(1 - 1) + left[list[1]] /\ 1 - 1 = 0
      BY <1>1, <1>2, <1>4
    <3>2. D(1) = left[h] /\ g[list[1]] = v
      BY <1>1, <1>2, <1>3, <3>1
    <3> QED BY <1>2, <1>4, <2>1, <3>1, <3>2
  <2>2. CASE j # 1
    <3>1. j - 1 \in 1..Len(list) /\ list[j] # h /\ list[j] \in Timer
      BY <1>2, <2>2 DEF IsInjective
    <3>2. G[j] = D(j) - left[h] + v /\ G[j - 1] = D(j - 1) - left[h] + v
      BY <1>4, <3>1
    <3>3. D(j) = D(j - 1) + left[list[j]] /\ D(j - 1) \in Nat /\ left[list[j]] \in Nat
      BY <1>1, <3>1
    <3>4. g[list[j]] = left[list[j]]
      BY <1>3, <3>1
    <3> QED BY <1>2, <3>2, <3>3, <3>4
  <2> QED BY <2>1, <2>2
<1>6. \A j \in 0..Len(list) : Due(list, g, j) = G[j]
  <2>1. Sums(G, Len(list), list, g)
    BY <1>4, <1>5 DEF Sums
  <2>2. g \in [Timer -> Int]
    OBVIOUS
  <2> QED BY <2>1, <2>2, DueUnique
<1>7. TAKE u \in ToSet(list)
<1>8. PICK j \in 1..Len(list) : list[j] = u
  BY DEF ToSet
<1>9. Expiry(list, g, list[j]) = Due(list, g, j) /\ Expiry(list, left, list[j]) = D(j)
  BY ExpiryAt DEF D
<1>10. Due(list, g, j) = D(j) - left[h] + v
  BY <1>4, <1>6
<1> QED BY <1>8, <1>9, <1>10 DEF h

\* The expiries depend on the distances of the timers in the list only.
LEMMA ExpirySame ==
    ASSUME NEW list \in Seq(Timer), NEW left \in [Timer -> Nat], IsInjective(list),
           NEW g \in [Timer -> Nat], \A u \in ToSet(list) : g[u] = left[u]
    PROVE  \A u \in ToSet(list) : Expiry(list, g, u) = Expiry(list, left, u)
<1> DEFINE G == [j \in 0..Len(list) |-> Due(list, left, j)]
<1>1. left \in [Timer -> Int] /\ g \in [Timer -> Int]
  OBVIOUS
<1>2. Sums(G, Len(list), list, g)
  <2>1. G \in [0..Len(list) -> Int] /\ G[0] = 0
    BY <1>1, DueIs
  <2>2. ASSUME NEW j \in 1..Len(list) PROVE G[j] = G[j - 1] + g[list[j]]
    <3>1. list[j] \in ToSet(list)
      BY DEF ToSet
    <3>2. g[list[j]] = left[list[j]]
      BY <3>1
    <3>3. Due(list, left, j) = Due(list, left, j - 1) + left[list[j]]
      BY <1>1, DueIs
    <3>4. j \in 0..Len(list) /\ j - 1 \in 0..Len(list)
      OBVIOUS
    <3> QED BY <3>2, <3>3, <3>4
  <2> HIDE DEF G
  <2> QED BY <2>1, <2>2 DEF Sums
<1>3. \A j \in 1..Len(list) : Due(list, g, j) = Due(list, left, j)
  <2>1. \A j \in 0..Len(list) : Due(list, g, j) = G[j]
    <3> HIDE DEF G
    <3> QED BY <1>1, <1>2, DueUnique
  <2> QED BY <2>1
<1>4. TAKE u \in ToSet(list)
<1>5. Pos(list, u) \in 1..Len(list)
  BY PosIs
<1> QED BY <1>3, <1>5 DEF Expiry

\* A timer is never further from the one in front of it than from the head.
LEMMA ExpiryBounds ==
    ASSUME NEW list \in Seq(Timer), NEW left \in [Timer -> Nat], IsInjective(list),
           NEW u \in ToSet(list)
    PROVE  /\ Expiry(list, left, u) \in Nat /\ left[u] <= Expiry(list, left, u)
           /\ left[Head(list)] <= Expiry(list, left, u)
           /\ Head(list) \in ToSet(list) /\ Expiry(list, left, Head(list)) = left[Head(list)]
<1> DEFINE D(j) == Due(list, left, j)
           k == Pos(list, u)
<1>1. /\ \A i \in 0..Len(list) : D(i) \in Nat
      /\ D(0) = 0
      /\ \A i \in 1..Len(list) : D(i) = D(i - 1) + left[list[i]]
      /\ \A i, j \in 0..Len(list) : i <= j => D(i) <= D(j)
  <2>1. left \in [Timer -> Int]
    OBVIOUS
  <2> QED BY <2>1, DueOrdered, DueIs
<1> HIDE DEF D
<1>2. k \in 1..Len(list) /\ list[k] = u
  BY PosIs
<1> HIDE DEF k
<1>3. 1 \in 1..Len(list) /\ list[1] = Head(list) /\ list # <<>>
  BY <1>2
<1>4. Expiry(list, left, u) = D(k) /\ Expiry(list, left, Head(list)) = D(1)
  <2>1. Expiry(list, left, list[k]) = Due(list, left, k)
    BY <1>2, ExpiryAt
  <2>2. Expiry(list, left, list[1]) = Due(list, left, 1)
    BY <1>3, ExpiryAt
  <2> QED BY <1>2, <1>3, <2>1, <2>2 DEF D
<1>5. D(1) = left[list[1]]
  <2>1. D(1) = D(1 - 1) + left[list[1]] /\ left[list[1]] \in Nat /\ 1 - 1 = 0
    BY <1>1, <1>3
  <2> QED BY <1>1, <2>1
<1>6. D(1) <= D(k) /\ D(k) \in Nat
  <2>1. 1 \in 0..Len(list) /\ k \in 0..Len(list) /\ 1 <= k
    BY <1>2
  <2> QED BY <1>1, <2>1
<1>7. left[u] <= D(k)
  <2>1. D(k) = D(k - 1) + left[list[k]] /\ left[list[k]] \in Nat
    BY <1>1, <1>2
  <2>2. k - 1 \in 0..Len(list)
    BY <1>2
  <2>3. D(k - 1) \in Nat
    BY <1>1, <2>2
  <2> QED BY <1>2, <2>1, <2>3
<1>8. Head(list) \in ToSet(list)
  BY <1>3 DEF ToSet
<1> QED BY <1>3, <1>4, <1>5, <1>6, <1>7, <1>8

-----------------------------------------------------------------------------
(* The tick counter.                                                       *)

\* The difference of two tick counters that wrap.
LEMMA SinceIs ==
    ASSUME NEW W \in Nat, NEW a \in 0..(W - 1), NEW b \in 0..(W - 1)
    PROVE  /\ (a - b) % W = IF a >= b THEN a - b ELSE a - b + W
           /\ (a - b) % W \in 0..(W - 1)
           /\ (a + 1) % W \in 0..(W - 1)
           /\ (((a + 1) % W) - b) % W = IF ((a - b) % W) + 1 < W THEN ((a - b) % W) + 1 ELSE 0
           /\ \A i \in Nat : i + ((a - b) % W) < W => (i + a - b) % W = i + ((a - b) % W)
<1>0. W > 0
  OBVIOUS
<1> DEFINE mod(x) == x % W
<1>1. \A x \in 0..(W - 1) : mod(x) = x /\ mod(x - W) = x
  BY <1>0
<1>2. (a + 1) % W = IF a + 1 = W THEN 0 ELSE a + 1
  <2>1. CASE a + 1 = W
    BY <1>0, <2>1
  <2>2. CASE a + 1 # W
    BY <1>1, <2>2
  <2> QED BY <2>1, <2>2
<1> HIDE DEF mod
<1>3. \A x, y \in 0..(W - 1) : mod(x - y) = IF x >= y THEN x - y ELSE x - y + W
  <2>1. TAKE x \in 0..(W - 1), y \in 0..(W - 1)
  <2>2. CASE x >= y
    BY <1>1, <2>2
  <2>3. CASE x < y
    <3>1. x - y + W \in 0..(W - 1) /\ (x - y + W) - W = x - y
      BY <2>3
    <3> QED BY <1>1, <2>3, <3>1
  <2> QED BY <2>2, <2>3
<1>4. mod(a - b) = IF a >= b THEN a - b ELSE a - b + W
  BY <1>3
<1>5. mod(a - b) \in 0..(W - 1)
  BY <1>4
<1>6. (a + 1) % W \in 0..(W - 1)
  BY <1>0, <1>2
<1>7. mod(((a + 1) % W) - b) = IF mod(a - b) + 1 < W THEN mod(a - b) + 1 ELSE 0
  <2> DEFINE c == (a + 1) % W
  <2>1. c \in 0..(W - 1) /\ c = IF a + 1 = W THEN 0 ELSE a + 1
    BY <1>2, <1>6
  <2> HIDE DEF c
  <2>2. mod(c - b) = IF c >= b THEN c - b ELSE c - b + W
    BY <1>3, <2>1
  <2> QED BY <1>4, <2>1, <2>2 DEF c
<1>8. ASSUME NEW i \in Nat, i + mod(a - b) < W PROVE mod(i + a - b) = i + mod(a - b)
  <2>1. i + mod(a - b) \in 0..(W - 1)
    BY <1>5, <1>8
  <2>2. i + a - b = i + mod(a - b) \/ i + a - b = (i + mod(a - b)) - W
    BY <1>4
  <2> QED BY <1>1, <2>1, <2>2
<1> QED BY <1>4, <1>5, <1>6, <1>7, <1>8 DEF mod

-----------------------------------------------------------------------------
(* The inductive invariant of the timers.                                  *)

ExpiryOf(tn) == Expiry(nutTimerList, tn_ticks_left, tn)

\* The tick counters, and how far the list lags behind.
TmClock ==
    /\ nut_ticks \in 0..(TickWord - 1) /\ nut_ticks_resume \in 0..(TickWord - 1)
    /\ ticks_new \in Nat /\ Since + ticks_new <= MaxLag

\* The list has no duplicates.  No expiry overflows, a timer that is not in the list has
\* no ticks left.
TmList ==
    /\ nutTimerList \in Seq(Timer) /\ IsInjective(nutTimerList)
    /\ tn_ticks_left \in [Timer -> Nat]
    /\ tn_ticks \in [Timer -> Interval \cup {0}]
    /\ tn_callback \in [Timer -> BOOLEAN]
    /\ \A tn \in ToSet(nutTimerList) : ExpiryOf(tn) < TickWord
    /\ \A tn \in Timer : tn \notin ToSet(nutTimerList) => tn_ticks_left[tn] = 0
    /\ nutTimerList # <<>> => MaxLag < TickWord

\* Where NutTimerProcessElapsed is, and that the timer it works on has not left the head.
TmControl ==
    /\ pc \in {"idle", "loop", "callback", "unlink"}
    /\ pc \in {"callback", "unlink"} =>
          nutTimerList # <<>> /\ cur = Head(nutTimerList) /\ tn_ticks_left[cur] = 0
    /\ pc \in {"idle", "loop"} => cur = NoTimer
    /\ pc = "idle" => ticks_new = 0

TmInv == TmClock /\ TmList /\ TmControl

LEMMA TmStandard ==
    /\ \A s : ToSet(s) = ToSet(s)
    /\ \A s, k : RemoveAt(s, k) = RemoveAt(s, k)
    /\ Linked = ToSet(nutTimerList)
BY DEF ToSet, ToSet, RemoveAt, RemoveAt, Linked

\* What the state of a timer is to its user: TimerService through the mapping.
ModeOf(tn) ==
    IF tn \notin ToSet(nutTimerList) THEN "free"
    ELSE IF ~tn_callback[tn] \/ (tn = cur /\ tn_ticks[tn] = 0) THEN "done" ELSE "armed"

LeftOf(tn) ==
    IF ModeOf(tn) # "armed" THEN 0
    ELSE ExpiryOf(tn) - ticks_new - Since + (IF tn = cur THEN tn_ticks[tn] ELSE 0)

PeriodOf(tn) == IF ModeOf(tn) = "armed" THEN tn_ticks[tn] ELSE 0

\* The abstract state timer by timer.
LEMMA AbsIs ==
    /\ AbsMode = [tn \in Timer |-> ModeOf(tn)]
    /\ AbsLeft = [tn \in Timer |-> LeftOf(tn)]
    /\ AbsPeriod = [tn \in Timer |-> PeriodOf(tn)]
    /\ AbsMode' = [tn \in Timer |-> ModeOf(tn)']
    /\ AbsLeft' = [tn \in Timer |-> LeftOf(tn)']
    /\ AbsPeriod' = [tn \in Timer |-> PeriodOf(tn)']
<1>1. /\ AbsMode = [tn \in Timer |-> ModeOf(tn)]
      /\ AbsMode' = [tn \in Timer |-> ModeOf(tn)']
  BY DEF AbsMode, ModeOf, Linked, ToSet, ToSet, InCallback
<1>2. \A tn \in Timer :
         /\ AbsMode[tn] = ModeOf(tn)
         /\ AbsMode'[tn] = ModeOf(tn)'
  BY <1>1
<1>3. /\ \A tn : Due(nutTimerList, tn_ticks_left, Position(tn)) = ExpiryOf(tn)
      /\ \A tn : Due(nutTimerList', tn_ticks_left', Position(tn)') = ExpiryOf(tn)'
  BY DEF Position, ExpiryOf, Expiry, Pos
<1>4. /\ AbsLeft = [tn \in Timer |-> LeftOf(tn)]
      /\ AbsLeft' = [tn \in Timer |-> LeftOf(tn)']
  BY <1>2, <1>3, Zenon DEF AbsLeft, LeftOf, InCallback
<1>5. /\ AbsPeriod = [tn \in Timer |-> PeriodOf(tn)]
      /\ AbsPeriod' = [tn \in Timer |-> PeriodOf(tn)']
  BY <1>2, Zenon DEF AbsPeriod, PeriodOf
<1> QED BY <1>1, <1>4, <1>5

\* Nothing changes for the users of the timers.
LEMMA AbsUntouched ==
    ASSUME \A u \in Timer : ModeOf(u)' = ModeOf(u) /\ LeftOf(u)' = LeftOf(u)
                            /\ PeriodOf(u)' = PeriodOf(u)
    PROVE  UNCHANGED <<AbsMode, AbsLeft, AbsPeriod>>
BY AbsIs

\* Only tn changes for its user.
LEMMA AbsOne ==
    ASSUME NEW tn \in Timer,
           \A u \in Timer \ {tn} : ModeOf(u)' = ModeOf(u) /\ LeftOf(u)' = LeftOf(u)
                                   /\ PeriodOf(u)' = PeriodOf(u)
    PROVE  /\ AbsMode' = [AbsMode EXCEPT ![tn] = ModeOf(tn)']
           /\ AbsLeft' = [AbsLeft EXCEPT ![tn] = LeftOf(tn)']
           /\ AbsPeriod' = [AbsPeriod EXCEPT ![tn] = PeriodOf(tn)']
           /\ AbsMode'[tn] = ModeOf(tn)' /\ AbsMode[tn] = ModeOf(tn)
           /\ AbsLeft'[tn] = LeftOf(tn)' /\ AbsLeft[tn] = LeftOf(tn)
           /\ AbsPeriod'[tn] = PeriodOf(tn)' /\ AbsPeriod[tn] = PeriodOf(tn)
BY AbsIs

\* At the start no timer exists.
LEMMA TmStarts ==
    ASSUME TimerAssumption, TimerInit
    PROVE  TmInv /\ Service!Init
<1>1. TmClock
  <2>1. (nut_ticks - nut_ticks_resume) % TickWord = 0
    <3>1. nut_ticks \in 0..(TickWord - 1) /\ nut_ticks_resume = nut_ticks /\ TickWord \in Nat
      BY DEF TimerInit, TimerAssumption
    <3> QED BY <3>1, SinceIs
  <2> QED BY <2>1 DEF TimerInit, TmClock, Since, TimerAssumption
<1>2. TmList
  <2>1. nutTimerList = <<>> /\ ToSet(nutTimerList) = {} /\ IsInjective(nutTimerList)
    BY DEF TimerInit, ToSet, IsInjective
  <2> QED BY <2>1 DEF TimerInit, TmList
<1>3. TmControl
  BY DEF TimerInit, TmControl
<1>4. Service!Init
  <2>1. \A tn \in Timer : ModeOf(tn) = "free"
    BY DEF TimerInit, ToSet, ModeOf
  <2>2. \A tn \in Timer : LeftOf(tn) = 0 /\ PeriodOf(tn) = 0
    BY <2>1 DEF LeftOf, PeriodOf
  <2>3. ticks_new = 0
    BY DEF TimerInit
  <2> QED BY <2>1, <2>2, <2>3, AbsIs DEF Service!Init
<1> QED BY <1>1, <1>2, <1>3, <1>4 DEF TmInv

\* A timer the step has nothing to do with.
LEMMA SameTimer ==
    ASSUME NEW u \in Timer,
           u \in ToSet(nutTimerList') <=> u \in ToSet(nutTimerList),
           tn_ticks'[u] = tn_ticks[u], tn_callback'[u] = tn_callback[u], u = cur' <=> u = cur,
           u \in ToSet(nutTimerList)
           => ExpiryOf(u)' - ticks_new' - Since' = ExpiryOf(u) - ticks_new - Since
    PROVE  ModeOf(u)' = ModeOf(u) /\ LeftOf(u)' = LeftOf(u) /\ PeriodOf(u)' = PeriodOf(u)
<1>1. ModeOf(u)' = ModeOf(u)
  BY DEF ModeOf
<1>2. PeriodOf(u)' = PeriodOf(u)
  BY <1>1 DEF PeriodOf
<1>3. CASE ModeOf(u) # "armed"
  BY <1>1, <1>2, <1>3 DEF LeftOf
<1>4. CASE ModeOf(u) = "armed"
  <2>1. u \in ToSet(nutTimerList)
    BY <1>4 DEF ModeOf
  <2>2. /\ LeftOf(u) = ExpiryOf(u) - ticks_new - Since + (IF u = cur THEN tn_ticks[u] ELSE 0)
        /\ LeftOf(u)' = ExpiryOf(u)' - ticks_new' - Since'
                           + (IF u = cur' THEN tn_ticks'[u] ELSE 0)
    BY <1>1, <1>4 DEF LeftOf
  <2> QED BY <1>1, <1>2, <2>1, <2>2
<1> QED BY <1>3, <1>4

\* What the invariant says about the clock and the bounds.
LEMMA TmFacts ==
    ASSUME TimerAssumption, TmInv
    PROVE  /\ TickWord \in Nat /\ TickWord > 0 /\ MaxLag \in Nat /\ NoTimer \notin Timer
           /\ Since \in Nat /\ Since < TickWord /\ Since <= MaxLag
           /\ ticks_new \in Nat
           /\ tn_ticks \in [Timer -> Nat]
           /\ \A tn \in Timer : tn_ticks[tn] \in Interval \cup {0}
           /\ \A i \in Interval : i \in Nat /\ i + MaxLag < TickWord
           /\ \A tn \in ToSet(nutTimerList) :
                 /\ tn \in Timer /\ ExpiryOf(tn) \in Nat
                 /\ tn_ticks_left[tn] <= ExpiryOf(tn)
           /\ nutTimerList # <<>> =>
                 /\ Head(nutTimerList) \in ToSet(nutTimerList)
                 /\ ExpiryOf(Head(nutTimerList)) = tn_ticks_left[Head(nutTimerList)]
                 /\ \A tn \in ToSet(nutTimerList) :
                       tn_ticks_left[Head(nutTimerList)] <= ExpiryOf(tn)
<1>1. /\ TickWord \in Nat /\ MaxLag \in Nat /\ NoTimer \notin Timer
      /\ \A i \in Interval : i \in Nat /\ i + MaxLag < TickWord
  BY DEF TimerAssumption
<1>2. TickWord > 0 /\ Since \in Nat /\ Since < TickWord
  <2>1. Since \in 0..(TickWord - 1)
    BY <1>1, SinceIs DEF TmInv, TmClock, Since
  <2> QED BY <1>1, <2>1
<1>3. Since <= MaxLag /\ ticks_new \in Nat
  BY <1>1, <1>2 DEF TmInv, TmClock
<1>4. tn_ticks \in [Timer -> Nat] /\ \A tn \in Timer : tn_ticks[tn] \in Interval \cup {0}
  <2>1. tn_ticks \in [Timer -> Interval \cup {0}]
    BY DEF TmInv, TmList
  <2>2. Interval \cup {0} \subseteq Nat
    BY <1>1
  <2> QED BY <2>1, <2>2
<1>5. ASSUME NEW tn \in ToSet(nutTimerList)
      PROVE  tn \in Timer /\ ExpiryOf(tn) \in Nat /\ tn_ticks_left[tn] <= ExpiryOf(tn)
  <2>1. tn \in Timer
    BY DEF TmInv, TmList, ToSet
  <2> QED BY <2>1, ExpiryBounds DEF TmInv, TmList, ExpiryOf
<1>6. ASSUME nutTimerList # <<>>
      PROVE  /\ Head(nutTimerList) \in ToSet(nutTimerList)
             /\ ExpiryOf(Head(nutTimerList)) = tn_ticks_left[Head(nutTimerList)]
             /\ \A tn \in ToSet(nutTimerList) :
                   tn_ticks_left[Head(nutTimerList)] <= ExpiryOf(tn)
  <2>1. nutTimerList[1] \in ToSet(nutTimerList)
    BY <1>6 DEF TmInv, TmList, ToSet
  <2> QED BY <2>1, ExpiryBounds DEF TmInv, TmList, ExpiryOf
<1> QED BY <1>1, <1>2, <1>3, <1>4, <1>5, <1>6

\* A tick is a tick.
LEMMA TmIntrStep ==
    ASSUME TimerAssumption, TmInv, NutTimerIntr
    PROVE  TmInv' /\ Service!Tick
<1>1. /\ Since + ticks_new < MaxLag
      /\ nut_ticks' = (nut_ticks + 1) % TickWord
      /\ UNCHANGED <<nut_ticks_resume, nutTimerList, tn_ticks, tn_ticks_left, tn_callback,
                     ticks_new, cur, pc>>
  BY DEF NutTimerIntr
<1>2. /\ nut_ticks' \in 0..(TickWord - 1)
      /\ Since' = IF Since + 1 < TickWord THEN Since + 1 ELSE 0
  <2>1. TickWord \in Nat /\ nut_ticks \in 0..(TickWord - 1) /\ nut_ticks_resume \in 0..(TickWord - 1)
    BY TmFacts DEF TmInv, TmClock
  <2> QED BY <1>1, <2>1, SinceIs DEF Since
<1>3. TmClock'
  BY <1>1, <1>2, TmFacts DEF TmInv, TmClock
<1>4. TmList' /\ TmControl'
  BY <1>1 DEF TmInv, TmList, TmControl, ExpiryOf
<1>5. \A u \in Timer : /\ ModeOf(u)' = ModeOf(u) /\ PeriodOf(u)' = PeriodOf(u)
                       /\ ExpiryOf(u)' = ExpiryOf(u)
  BY <1>1 DEF ModeOf, PeriodOf, ExpiryOf
<1>6. ASSUME NEW u \in Timer
      PROVE  LeftOf(u)' = IF ModeOf(u) = "armed" THEN LeftOf(u) - 1 ELSE LeftOf(u)
  <2>1. CASE ModeOf(u) # "armed"
    BY <1>5, <2>1 DEF LeftOf
  <2>2. CASE ModeOf(u) = "armed"
    <3>1. u \in ToSet(nutTimerList) /\ nutTimerList # <<>>
      BY <2>2 DEF ModeOf, ToSet
    <3>2. Since' = Since + 1
      <4>1. MaxLag < TickWord
        BY <3>1 DEF TmInv, TmList
      <4> QED BY <1>1, <1>2, <4>1, TmFacts
    <3>3. ExpiryOf(u) \in Nat /\ ticks_new \in Nat /\ Since \in Nat /\ tn_ticks[u] \in Nat
      BY <3>1, TmFacts
    <3> DEFINE x == IF u = cur THEN tn_ticks[u] ELSE 0
    <3>4. x \in Nat /\ x' = x
      BY <1>1, <3>3
    <3>5. /\ LeftOf(u) = ExpiryOf(u) - ticks_new - Since + x
          /\ LeftOf(u)' = ExpiryOf(u)' - ticks_new' - Since' + x'
      BY <1>5, <2>2 DEF LeftOf
    <3> HIDE DEF x
    <3>6. LeftOf(u)' = ExpiryOf(u) - ticks_new - (Since + 1) + x
      BY <1>1, <1>5, <3>2, <3>4, <3>5
    <3> QED BY <2>2, <3>3, <3>4, <3>5, <3>6
  <2> QED BY <2>1, <2>2
<1>7. Service!Tick
  <2>1. UNCHANGED <<AbsMode, AbsPeriod>>
    BY <1>5, AbsIs
  <2>2. AbsLeft' = [u \in Timer |-> IF AbsMode[u] = "armed" THEN AbsLeft[u] - 1
                                       ELSE AbsLeft[u]]
    BY <1>6, AbsIs
  <2> QED BY <1>1, <2>1, <2>2 DEF Service!Tick, Service!Armed
<1> QED BY <1>3, <1>4, <1>7 DEF TmInv

\* A timer is started: it is armed for its interval and the ticks the round of callbacks
\* has still to deal with.
LEMMA TmStartStep ==
    ASSUME TimerAssumption, TmInv, NEW tn \in Timer, NEW i \in Interval, NEW oneshot \in BOOLEAN,
           NutTimerStartTicks(tn, i, oneshot)
    PROVE  TmInv' /\ Service!Start(tn)
<1> DEFINE since == Since
           left0 == [tn_ticks_left EXCEPT ![tn] = (i + nut_ticks - nut_ticks_resume) % TickWord]
           L     == ToSet(nutTimerList)
           per   == IF oneshot THEN 0 ELSE i
<1>1. /\ pc \in {"idle", "callback"} /\ tn \notin L
      /\ tn_ticks' = [tn_ticks EXCEPT ![tn] = per]
      /\ tn_callback' = [tn_callback EXCEPT ![tn] = TRUE]
      /\ NutTimerInsert(tn, nutTimerList, left0)
      /\ UNCHANGED <<nut_ticks, nut_ticks_resume, ticks_new, cur, pc>>
  BY TmStandard DEF NutTimerStartTicks
<1>2. /\ i \in Nat /\ since \in Nat /\ i + since < TickWord /\ TickWord \in Nat
      /\ i + MaxLag < TickWord /\ MaxLag \in Nat
  BY TmFacts
<1>3. (i + nut_ticks - nut_ticks_resume) % TickWord = i + since
  <2>1. nut_ticks \in 0..(TickWord - 1) /\ nut_ticks_resume \in 0..(TickWord - 1)
    BY DEF TmInv, TmClock
  <2> QED BY <1>2, <2>1, SinceIs DEF Since
<1>4. /\ nutTimerList \in Seq(Timer) /\ IsInjective(nutTimerList)
      /\ tn_ticks_left \in [Timer -> Nat]
  BY DEF TmInv, TmList
<1>5. left0 \in [Timer -> Nat] /\ left0[tn] = i + since /\ \A u \in Timer \ {tn} : left0[u] = tn_ticks_left[u]
  BY <1>2, <1>3, <1>4
<1> HIDE DEF left0
<1>6. /\ nutTimerList' \in Seq(Timer) /\ tn_ticks_left' \in [Timer -> Nat]
      /\ \A u \in Timer : tn_ticks_left'[u] <= left0[u]
      /\ IsInjective(nutTimerList') /\ ToSet(nutTimerList') = L \cup {tn}
      /\ Expiry(nutTimerList', tn_ticks_left', tn) = left0[tn]
      /\ \A u \in L : Expiry(nutTimerList', tn_ticks_left', u) = Expiry(nutTimerList, left0, u)
      /\ nutTimerList # <<>> /\ left0[Head(nutTimerList)] = 0
         => /\ nutTimerList' # <<>> /\ Head(nutTimerList') = Head(nutTimerList)
            /\ tn_ticks_left'[Head(nutTimerList)] = 0
  BY <1>1, <1>4, <1>5, InsertExpiry
<1>7. \A u \in L : u \in Timer /\ u # tn /\ ExpiryOf(u)' = ExpiryOf(u)
  <2>1. \A u \in L : u \in Timer /\ u # tn
    BY <1>1, <1>4 DEF ToSet
  <2>2. \A u \in L : Expiry(nutTimerList, left0, u) = Expiry(nutTimerList, tn_ticks_left, u)
    BY <1>4, <1>5, <2>1, ExpirySame
  <2> QED BY <1>6, <2>1, <2>2 DEF ExpiryOf
<1>8. ExpiryOf(tn)' = i + since
  BY <1>5, <1>6 DEF ExpiryOf
<1> HIDE DEF L
<1>9. since' = since /\ ticks_new' = ticks_new
  BY <1>1 DEF Since
<1>10. TmClock'
  BY <1>1, <1>9 DEF TmInv, TmClock
<1>11. TmList'
  <2>1. tn_ticks' \in [Timer -> Interval \cup {0}] /\ tn_callback' \in [Timer -> BOOLEAN]
    BY <1>1 DEF TmInv, TmList
  <2>2. \A u \in ToSet(nutTimerList') : ExpiryOf(u)' < TickWord
    BY <1>2, <1>6, <1>7, <1>8 DEF TmInv, TmList, L
  <2>3. ASSUME NEW u \in Timer, u \notin ToSet(nutTimerList') PROVE tn_ticks_left'[u] = 0
    <3>1. u \notin L /\ u # tn
      BY <1>6, <2>3
    <3>2. left0[u] = 0
      BY <1>5, <3>1 DEF TmInv, TmList, L
    <3>3. tn_ticks_left'[u] <= 0 /\ tn_ticks_left'[u] \in Nat
      BY <1>6, <3>2
    <3> QED BY <3>3
  <2>4. MaxLag < TickWord
    BY <1>2
  <2> QED BY <1>6, <2>1, <2>2, <2>3, <2>4 DEF TmList
<1>12. TmControl'
  <2>1. CASE pc = "idle"
    BY <1>1, <2>1 DEF TmInv, TmControl
  <2>2. CASE pc = "callback"
    <3>1. nutTimerList # <<>> /\ cur = Head(nutTimerList) /\ tn_ticks_left[cur] = 0
      BY <2>2 DEF TmInv, TmControl
    <3>2. cur \in L
      BY <3>1, TmFacts DEF L
    <3>3. left0[Head(nutTimerList)] = 0
      BY <1>5, <1>7, <3>1, <3>2
    <3> QED BY <1>1, <1>6, <2>2, <3>1, <3>3 DEF TmControl
  <2> QED BY <1>1, <2>1, <2>2
<1>13. tn # cur
  <2>1. CASE pc = "idle"
    BY <2>1, TmFacts DEF TmInv, TmControl
  <2>2. CASE pc = "callback"
    BY <1>1, <2>2, TmFacts DEF TmInv, TmControl, L
  <2> QED BY <1>1, <2>1, <2>2
<1>14. \A u \in Timer \ {tn} :
          ModeOf(u)' = ModeOf(u) /\ LeftOf(u)' = LeftOf(u) /\ PeriodOf(u)' = PeriodOf(u)
  <2>1. TAKE u \in Timer \ {tn}
  <2>2. tn_ticks'[u] = tn_ticks[u] /\ tn_callback'[u] = tn_callback[u] /\ cur' = cur
    BY <1>1 DEF TmInv, TmList
  <2>3. u \in ToSet(nutTimerList') <=> u \in ToSet(nutTimerList)
    BY <1>6 DEF L
  <2>4. u \in ToSet(nutTimerList)
        => ExpiryOf(u)' - ticks_new' - Since' = ExpiryOf(u) - ticks_new - Since
    BY <1>7, <1>9 DEF L
  <2> QED BY <2>2, <2>3, <2>4, SameTimer
<1>15. /\ ModeOf(tn) = "free" /\ ModeOf(tn)' = "armed"
       /\ LeftOf(tn)' = i - ticks_new /\ PeriodOf(tn)' = per
  <2>1. /\ tn \in ToSet(nutTimerList') /\ tn_callback'[tn] = TRUE /\ tn_ticks'[tn] = per /\ cur' = cur
    BY <1>1, <1>6 DEF TmInv, TmList
  <2>2. ModeOf(tn) = "free" /\ ModeOf(tn)' = "armed"
    BY <1>1, <1>13, <2>1 DEF ModeOf, L
  <2>3. PeriodOf(tn)' = per
    BY <2>1, <2>2 DEF PeriodOf
  <2>4. LeftOf(tn)' = (i + since) - ticks_new - since + 0
    BY <1>8, <1>9, <1>13, <2>1, <2>2 DEF LeftOf
  <2>5. ticks_new \in Nat
    BY TmFacts
  <2> QED BY <1>2, <2>2, <2>3, <2>4, <2>5
<1>16. Service!Start(tn)
  <2>1. ticks_new \in Nat /\ (i - ticks_new) + ticks_new = i /\ per \in {0, i}
    BY <1>2, TmFacts
  <2>2. /\ AbsMode' = [AbsMode EXCEPT ![tn] = "armed"] /\ AbsMode[tn] = "free"
        /\ AbsLeft' = [AbsLeft EXCEPT ![tn] = AbsLeft'[tn]]
        /\ AbsPeriod' = [AbsPeriod EXCEPT ![tn] = AbsPeriod'[tn]]
        /\ AbsLeft'[tn] = i - ticks_new /\ AbsPeriod'[tn] = per
    BY <1>14, <1>15, AbsOne
  <2> HIDE DEF per
  <2>3. AbsLeft'[tn] + ticks_new = i
    BY <2>1, <2>2
  <2> QED BY <1>2, <1>9, <2>1, <2>2, <2>3 DEF Service!Start
<1> QED BY <1>10, <1>11, <1>12, <1>16 DEF TmInv

\* A timer is stopped: it runs no callback any more, and all others keep their time.
LEMMA TmStopStep ==
    ASSUME TimerAssumption, TmInv, NEW tn \in Timer, NutTimerStop(tn)
    PROVE  TmInv' /\ (Service!Stop(tn) \/ UNCHANGED Service!vars)
<1> DEFINE L    == ToSet(nutTimerList)
           k    == CHOOSE i \in 1..Len(nutTimerList) : nutTimerList[i] = tn
           rest == RemoveAt(nutTimerList, k)
           g    == LeftWithout(tn, k)
<1>1. /\ pc \in {"idle", "callback"} /\ tn \in L /\ tn_callback[tn]
      /\ tn_ticks' = [tn_ticks EXCEPT ![tn] = 0]
      /\ tn_callback' = [tn_callback EXCEPT ![tn] = FALSE]
      /\ IF tn_ticks_left[tn] = 0 THEN UNCHANGED <<nutTimerList, tn_ticks_left>>
         ELSE NutTimerInsert(tn, rest, g)
      /\ UNCHANGED <<nut_ticks, nut_ticks_resume, ticks_new, cur, pc>>
  BY TmStandard DEF NutTimerStop
<1>2. /\ nutTimerList \in Seq(Timer) /\ IsInjective(nutTimerList)
      /\ tn_ticks_left \in [Timer -> Nat]
  BY DEF TmInv, TmList
<1>3. k \in 1..Len(nutTimerList) /\ nutTimerList[k] = tn
  <2>1. \E i \in 1..Len(nutTimerList) : nutTimerList[i] = tn
    <3>1. tn \in {nutTimerList[i] : i \in DOMAIN nutTimerList}
      BY <1>1 DEF ToSet
    <3>2. DOMAIN nutTimerList = 1..Len(nutTimerList)
      BY <1>2
    <3> QED BY <3>1, <3>2
  <2> QED BY <2>1, Zenon
<1> HIDE DEF k
<1>4. rest \in Seq(Timer) /\ Removed(rest, nutTimerList, k)
  BY <1>2, <1>3, RemoveAtIs
<1>5. IsInjective(rest) /\ ToSet(rest) = L \ {tn}
  BY <1>2, <1>3, <1>4, RemovedSet
<1>6. /\ g \in [Timer -> Nat] /\ g[tn] = 0
      /\ k < Len(nutTimerList) =>
            g[nutTimerList[k + 1]] = tn_ticks_left[nutTimerList[k + 1]] + tn_ticks_left[tn]
      /\ \A u \in Timer \ {tn} :
            ~(k < Len(nutTimerList) /\ u = nutTimerList[k + 1]) => g[u] = tn_ticks_left[u]
  <2>1. g = [u \in Timer |-> IF u = tn THEN 0
                             ELSE IF k < Len(nutTimerList) /\ u = nutTimerList[k + 1]
                                  THEN tn_ticks_left[u] + tn_ticks_left[tn]
                                  ELSE tn_ticks_left[u]]
    BY Zenon DEF LeftWithout
  <2>2. k < Len(nutTimerList) => nutTimerList[k + 1] \in Timer /\ nutTimerList[k + 1] # tn
    <3>1. k < Len(nutTimerList) => k + 1 \in 1..Len(nutTimerList)
      BY <1>2, <1>3
    <3> QED BY <1>2, <1>3, <3>1 DEF IsInjective
  <2>3. tn_ticks_left[tn] \in Nat /\ \A u \in Timer : tn_ticks_left[u] \in Nat
    BY <1>2
  <2> QED BY <2>1, <2>2, <2>3
<1> HIDE DEF rest, g
<1>7. TakenOver(rest, g, nutTimerList, tn_ticks_left, k)
  <2>1. SUFFICES ASSUME NEW j \in 1..Len(rest)
                 PROVE  g[rest[j]] = IF j = k THEN tn_ticks_left[nutTimerList[k + 1]] + tn_ticks_left[tn]
                                     ELSE tn_ticks_left[rest[j]]
    BY <1>3 DEF TakenOver
  <2>2. Len(rest) = Len(nutTimerList) - 1 /\ Len(nutTimerList) \in Nat /\ k \in Nat
    BY <1>2, <1>3, <1>4 DEF Removed
  <2>3. rest[j] = IF j < k THEN nutTimerList[j] ELSE nutTimerList[j + 1]
    BY <1>4 DEF Removed
  <2>4. CASE j = k
    BY <1>6, <2>2, <2>3, <2>4
  <2>5. CASE j # k
    <3>1. PICK m \in 1..Len(nutTimerList) : rest[j] = nutTimerList[m] /\ m # k /\ m # k + 1
      <4>1. j \in 1..Len(nutTimerList) /\ j + 1 \in 1..Len(nutTimerList)
        BY <2>2
      <4>2. CASE j < k
        BY <2>2, <2>3, <4>1, <4>2
      <4>3. CASE j > k
        BY <2>2, <2>3, <4>1, <4>3
      <4> QED BY <2>2, <2>5, <4>2, <4>3
    <3>2. rest[j] \in Timer /\ rest[j] # tn
      BY <1>2, <1>3, <3>1 DEF IsInjective
    <3>3. k < Len(nutTimerList) => rest[j] # nutTimerList[k + 1]
      <4>1. k < Len(nutTimerList) => k + 1 \in 1..Len(nutTimerList)
        BY <2>2
      <4> QED BY <1>2, <3>1, <4>1 DEF IsInjective
    <3> QED BY <1>6, <2>5, <3>2, <3>3
  <2> QED BY <2>4, <2>5
<1>8. \A u \in L \ {tn} : Expiry(rest, g, u) = ExpiryOf(u)
  <2>1. \A u \in ToSet(rest) : Expiry(rest, g, u) = Expiry(nutTimerList, tn_ticks_left, u)
    <3>1. g \in [Timer -> Nat] /\ nutTimerList \in Seq(Timer) /\ IsInjective(nutTimerList)
      BY <1>2, <1>6
    <3>2. tn_ticks_left \in [Timer -> Nat] /\ k \in 1..Len(nutTimerList)
      BY <1>2, <1>3
    <3>3. rest \in Seq(Timer) /\ Removed(rest, nutTimerList, k)
      BY <1>4
    <3>4. TakenOver(rest, g, nutTimerList, tn_ticks_left, k)
      BY <1>7
    <3> HIDE DEF rest, g
    <3>5. TakenOut(rest, g, nutTimerList, tn_ticks_left, k)
      BY <3>1, <3>2, <3>3, <3>4 DEF TakenOut
    <3> QED BY <3>5, RemoveExpiry
  <2> QED BY <1>5, <2>1 DEF ExpiryOf
\* The list afterwards.
<1>9. /\ nutTimerList' \in Seq(Timer) /\ IsInjective(nutTimerList')
      /\ tn_ticks_left' \in [Timer -> Nat] /\ ToSet(nutTimerList') = L
      /\ \A u \in L \ {tn} : ExpiryOf(u)' = ExpiryOf(u)
      /\ ExpiryOf(tn)' <= ExpiryOf(tn) /\ ExpiryOf(tn)' \in Nat
      /\ \A u \in Timer \ L : tn_ticks_left'[u] = 0
      /\ tn_ticks_left[Head(nutTimerList)] = 0
         => Head(nutTimerList') = Head(nutTimerList) /\ tn_ticks_left'[Head(nutTimerList)] = 0
  <2>0. /\ \A u \in Timer \ L : tn_ticks_left[u] = 0
        /\ ExpiryOf(tn) \in Nat
    BY <1>1, TmFacts DEF TmInv, TmList
  <2>1. CASE tn_ticks_left[tn] = 0
    <3>1. nutTimerList' = nutTimerList /\ tn_ticks_left' = tn_ticks_left
      BY <1>1, <2>1
    <3> QED BY <1>2, <2>0, <3>1 DEF ExpiryOf
  <2>2. CASE tn_ticks_left[tn] # 0
    <3>1. NutTimerInsert(tn, rest, g)
      BY <1>1, <2>2
    <3>2. /\ nutTimerList' \in Seq(Timer) /\ tn_ticks_left' \in [Timer -> Nat]
          /\ \A u \in Timer : tn_ticks_left'[u] <= g[u]
          /\ IsInjective(nutTimerList') /\ ToSet(nutTimerList') = ToSet(rest) \cup {tn}
          /\ Expiry(nutTimerList', tn_ticks_left', tn) = g[tn]
          /\ \A u \in ToSet(rest) : Expiry(nutTimerList', tn_ticks_left', u) = Expiry(rest, g, u)
          /\ rest # <<>> /\ g[Head(rest)] = 0
             => /\ nutTimerList' # <<>> /\ Head(nutTimerList') = Head(rest)
                /\ tn_ticks_left'[Head(rest)] = 0
      BY <1>4, <1>5, <1>6, <3>1, InsertExpiry
    <3>3. ToSet(nutTimerList') = L
      BY <1>1, <1>5, <3>2
    <3>4. ExpiryOf(tn)' = 0 /\ \A u \in L \ {tn} : ExpiryOf(u)' = ExpiryOf(u)
      BY <1>5, <1>6, <1>8, <3>2 DEF ExpiryOf
    <3>5. ASSUME NEW u \in Timer \ L PROVE tn_ticks_left'[u] = 0
      <4>1. u # tn
        BY <1>1, <3>5
      <4>2. k < Len(nutTimerList) => u # nutTimerList[k + 1]
        <5>1. k < Len(nutTimerList) => k + 1 \in 1..Len(nutTimerList)
          BY <1>2, <1>3
        <5> QED BY <1>2, <3>5, <5>1 DEF ToSet
      <4>3. g[u] = 0
        BY <1>6, <2>0, <3>5, <4>1, <4>2
      <4>4. tn_ticks_left'[u] <= 0 /\ tn_ticks_left'[u] \in Nat
        BY <3>2, <3>5, <4>3
      <4> QED BY <4>4
    <3>6. ASSUME tn_ticks_left[Head(nutTimerList)] = 0
          PROVE  Head(nutTimerList') = Head(nutTimerList) /\ tn_ticks_left'[Head(nutTimerList)] = 0
      <4>1. nutTimerList # <<>> /\ Head(nutTimerList) = nutTimerList[1]
        BY <1>2, <1>3
      <4>2. k # 1
        BY <1>3, <2>2, <3>6, <4>1
      <4>3. rest # <<>> /\ Head(rest) = nutTimerList[1]
        <5>1. Len(rest) = Len(nutTimerList) - 1 /\ Len(rest) >= 1
          BY <1>2, <1>3, <1>4, <4>2 DEF Removed
        <5>2. rest[1] = nutTimerList[1]
          BY <1>3, <1>4, <4>2, <5>1 DEF Removed
        <5> QED BY <1>4, <5>1, <5>2
      <4>4. g[nutTimerList[1]] = 0
        <5>1. 1 \in 1..Len(nutTimerList) /\ (k < Len(nutTimerList) => k + 1 \in 1..Len(nutTimerList))
              /\ k + 1 # 1
          BY <1>2, <1>3
        <5>2. nutTimerList[1] \in Timer /\ nutTimerList[1] # tn
          BY <2>2, <1>2, <3>6, <4>1, <5>1
        <5>3. k < Len(nutTimerList) => nutTimerList[1] # nutTimerList[k + 1]
          BY <1>2, <5>1 DEF IsInjective
        <5> QED BY <1>6, <3>6, <4>1, <5>2, <5>3
      <4> QED BY <3>2, <4>1, <4>3, <4>4
    <3> QED BY <2>0, <3>2, <3>3, <3>4, <3>5, <3>6
  <2> QED BY <2>1, <2>2
<1>10. tn \in Timer /\ L \subseteq Timer /\ Since' = Since /\ cur' = cur /\ ticks_new' = ticks_new
  BY <1>1, <1>2 DEF ToSet, Since
<1>11. TmClock'
  BY <1>1, <1>10 DEF TmInv, TmClock
<1>12. TmList'
  <2>1. tn_ticks' \in [Timer -> Interval \cup {0}] /\ tn_callback' \in [Timer -> BOOLEAN]
    BY <1>1 DEF TmInv, TmList
  <2>2. \A u \in L : ExpiryOf(u) \in Nat /\ ExpiryOf(u) < TickWord
    BY TmFacts DEF TmInv, TmList
  <2>3. \A u \in L : ExpiryOf(u)' < TickWord
    <3>1. ExpiryOf(tn)' < TickWord
      BY <1>1, <1>9, <2>2, TmFacts
    <3> QED BY <1>9, <2>2, <3>1
  <2>4. MaxLag < TickWord
    <3>1. nutTimerList # <<>>
      BY <1>2, <1>3
    <3> QED BY <3>1 DEF TmInv, TmList
  <2> QED BY <1>9, <2>1, <2>3, <2>4 DEF TmList
<1>13. TmControl'
  <2>1. CASE pc = "idle"
    BY <1>1, <2>1 DEF TmInv, TmControl
  <2>2. CASE pc = "callback"
    <3>1. cur = Head(nutTimerList) /\ tn_ticks_left[cur] = 0
      BY <2>2 DEF TmInv, TmControl
    <3>2. nutTimerList' # <<>>
      <4>1. tn \in ToSet(nutTimerList') /\ nutTimerList' \in Seq(Timer)
        BY <1>1, <1>9
      <4>2. PICK j \in 1..Len(nutTimerList') : nutTimerList'[j] = tn
        BY <4>1 DEF ToSet
      <4> QED BY <4>1, <4>2
    <3> QED BY <1>1, <1>9, <2>2, <3>1, <3>2 DEF TmControl
  <2> QED BY <1>1, <2>1, <2>2
<1>14. \A u \in Timer \ {tn} :
          ModeOf(u)' = ModeOf(u) /\ LeftOf(u)' = LeftOf(u) /\ PeriodOf(u)' = PeriodOf(u)
  <2>1. TAKE u \in Timer \ {tn}
  <2>2. tn_ticks'[u] = tn_ticks[u] /\ tn_callback'[u] = tn_callback[u]
    BY <1>1 DEF TmInv, TmList
  <2>3. u \in ToSet(nutTimerList') <=> u \in ToSet(nutTimerList)
    BY <1>9
  <2>4. u \in ToSet(nutTimerList)
        => ExpiryOf(u)' - ticks_new' - Since' = ExpiryOf(u) - ticks_new - Since
    BY <1>9, <1>10
  <2> QED BY <1>10, <2>2, <2>3, <2>4, SameTimer
<1>15. ModeOf(tn)' = "done" /\ LeftOf(tn)' = 0 /\ PeriodOf(tn)' = 0
  <2>1. tn \in ToSet(nutTimerList') /\ tn_callback'[tn] = FALSE
    BY <1>1, <1>9 DEF TmInv, TmList
  <2>2. ModeOf(tn)' = "done"
    BY <2>1 DEF ModeOf
  <2> QED BY <2>2 DEF LeftOf, PeriodOf
<1>16. Service!Stop(tn) \/ UNCHANGED Service!vars
  <2>1. CASE ModeOf(tn) = "armed"
    BY <1>10, <1>14, <1>15, <2>1, AbsOne DEF Service!Stop, Service!Armed
  <2>2. CASE ModeOf(tn) # "armed"
    <3>1. ModeOf(tn) = "done" /\ LeftOf(tn) = 0 /\ PeriodOf(tn) = 0
      BY <1>1, <2>2 DEF ModeOf, LeftOf, PeriodOf
    <3>2. \A u \in Timer : ModeOf(u)' = ModeOf(u) /\ LeftOf(u)' = LeftOf(u) /\ PeriodOf(u)' = PeriodOf(u)
      BY <1>14, <1>15, <3>1
    <3> QED BY <1>10, <3>2, AbsUntouched DEF Service!vars
  <2> QED BY <2>1, <2>2
<1> QED BY <1>11, <1>12, <1>13, <1>16 DEF TmInv

\* The ticks since the last round are taken over: a round begins.
LEMMA TmProcessStep ==
    ASSUME TimerAssumption, TmInv, ProcessElapsed
    PROVE  TmInv' /\ Service!Round
<1>1. /\ pc = "idle" /\ ticks_new' = Since /\ nut_ticks_resume' = nut_ticks /\ pc' = "loop"
      /\ UNCHANGED <<nut_ticks, nutTimerList, tn_ticks, tn_ticks_left, tn_callback, cur>>
  BY DEF ProcessElapsed
<1>2. ticks_new = 0 /\ cur = NoTimer
  BY <1>1 DEF TmInv, TmControl
<1>3. Since' = 0
  <2>1. Since' = (nut_ticks - nut_ticks) % TickWord
    BY <1>1 DEF Since
  <2>2. TickWord \in Nat /\ nut_ticks \in 0..(TickWord - 1) /\ nut_ticks - nut_ticks = 0
    BY TmFacts DEF TmInv, TmClock
  <2>3. (nut_ticks - nut_ticks) % TickWord = 0
    BY <2>2, SinceIs
  <2> QED BY <2>1, <2>3
<1>4. TmClock'
  BY <1>1, <1>3, TmFacts DEF TmInv, TmClock
<1>5. TmList' /\ TmControl'
  BY <1>1, <1>2 DEF TmInv, TmList, TmControl, ExpiryOf
<1>6. ASSUME NEW u \in Timer
      PROVE  ModeOf(u)' = ModeOf(u) /\ LeftOf(u)' = LeftOf(u) /\ PeriodOf(u)' = PeriodOf(u)
  <2>1. ExpiryOf(u)' = ExpiryOf(u)
    BY <1>1 DEF ExpiryOf
  <2>2. u \in ToSet(nutTimerList) => ExpiryOf(u) \in Nat
    BY TmFacts
  <2>3. u \in ToSet(nutTimerList)
        => ExpiryOf(u)' - ticks_new' - Since' = ExpiryOf(u) - ticks_new - Since
    BY <1>1, <1>2, <1>3, <2>1, <2>2, TmFacts
  <2> QED BY <1>1, <2>3, SameTimer
<1>7. ticks_new' \in Nat
  BY <1>1, TmFacts
<1> QED BY <1>4, <1>5, <1>6, <1>7, AbsUntouched DEF TmInv, Service!Round

\* The first timer has elapsed: no other was due earlier, and its callback runs unless it
\* was stopped.
LEMMA TmElapseStep ==
    ASSUME TimerAssumption, TmInv, Elapse
    PROVE  TmInv' /\ (Service!Round \/ \E tn \in Timer : Service!Fire(tn))
<1>0. PICK h : h = Head(nutTimerList)
  OBVIOUS
<1> DEFINE d == tn_ticks_left[h]
           L == ToSet(nutTimerList)
<1>1. /\ pc = "loop" /\ nutTimerList # <<>> /\ ticks_new > 0 /\ d <= ticks_new
      /\ ticks_new' = ticks_new - d
      /\ tn_ticks_left' = [tn_ticks_left EXCEPT ![h] = 0]
      /\ cur' = h
      /\ pc' = IF tn_callback[h] THEN "callback" ELSE "unlink"
      /\ UNCHANGED <<nut_ticks, nut_ticks_resume, nutTimerList, tn_ticks, tn_callback>>
  BY <1>0 DEF Elapse, HasElapsed
<1>2. /\ nutTimerList \in Seq(Timer) /\ IsInjective(nutTimerList)
      /\ tn_ticks_left \in [Timer -> Nat]
      /\ \A u \in Timer : u \notin L => tn_ticks_left[u] = 0
      /\ \A u \in L : ExpiryOf(u) < TickWord
  BY DEF TmInv, TmList
<1>3. /\ h \in L /\ h \in Timer /\ d \in Nat /\ ticks_new \in Nat /\ cur = NoTimer /\ NoTimer \notin Timer
      /\ Since \in Nat /\ Since' = Since
      /\ \A u \in L : u \in Timer /\ ExpiryOf(u) \in Nat /\ d <= ExpiryOf(u)
      /\ ExpiryOf(h) = d
  <2>1. h \in L /\ h \in Timer
    BY <1>0, <1>1, TmFacts
  <2> QED BY <1>0, <1>1, <1>2, <2>1, TmFacts DEF TmInv, TmControl, Since
<1>4. tn_ticks_left' \in [Timer -> Nat] /\ tn_ticks_left'[h] = 0
      /\ \A u \in Timer \ {h} : tn_ticks_left'[u] = tn_ticks_left[u]
  BY <1>1, <1>2, <1>3
<1>5. \A u \in L : ExpiryOf(u)' = ExpiryOf(u) - d
  <2>1. HeadBecomes(tn_ticks_left', nutTimerList, tn_ticks_left, 0)
    BY <1>0, <1>1 DEF HeadBecomes
  <2>2. \A u \in L : Expiry(nutTimerList, tn_ticks_left', u)
                        = Expiry(nutTimerList, tn_ticks_left, u) - d + 0
    <3>1. /\ nutTimerList \in Seq(Timer) /\ IsInjective(nutTimerList) /\ nutTimerList # <<>>
          /\ tn_ticks_left \in [Timer -> Nat] /\ tn_ticks_left' \in [Timer -> Nat]
      BY <1>1, <1>2, <1>4
    <3>2. \A u \in ToSet(nutTimerList) :
             Expiry(nutTimerList, tn_ticks_left', u)
                = Expiry(nutTimerList, tn_ticks_left, u) - tn_ticks_left[Head(nutTimerList)] + 0
      BY <2>1, <3>1, HeadExpiry
    <3> QED BY <1>0, <3>2
  <2>3. \A u \in L : ExpiryOf(u)' = ExpiryOf(u) - d + 0
    BY <1>1, <2>2 DEF ExpiryOf
  <2> QED BY <1>3, <2>3
<1> HIDE DEF L, d
<1>6. TmClock'
  BY <1>1, <1>3, TmFacts DEF TmInv, TmClock
<1>7. TmList'
  <2>1. \A u \in L : ExpiryOf(u)' < TickWord
    BY <1>2, <1>3, <1>5, TmFacts
  <2>2. \A u \in Timer : u \notin L => tn_ticks_left'[u] = 0
    BY <1>2, <1>3, <1>4
  <2> QED BY <1>1, <1>2, <1>4, <2>1, <2>2 DEF TmInv, TmList, L
<1>8. TmControl'
  BY <1>0, <1>1, <1>4 DEF TmControl
<1>9. \A u \in L : ExpiryOf(u)' - ticks_new' - Since' = ExpiryOf(u) - ticks_new - Since
  <2>1. TAKE u \in L
  <2> DEFINE x == ExpiryOf(u)
             y == ExpiryOf(u)'
  <2>2. x \in Nat /\ y = x - d
    BY <1>3, <1>5
  <2> HIDE DEF x, y
  <2>3. y - (ticks_new - d) - Since = x - ticks_new - Since
    BY <1>3, <2>2
  <2> QED BY <1>1, <1>3, <2>3 DEF x, y
<1>10. ASSUME NEW u \in Timer \ {h}
       PROVE  ModeOf(u)' = ModeOf(u) /\ LeftOf(u)' = LeftOf(u) /\ PeriodOf(u)' = PeriodOf(u)
  BY <1>1, <1>3, <1>9, SameTimer DEF L
<1>11. ticks_new' \in Nat /\ ticks_new' <= ticks_new
  BY <1>1, <1>3
<1>12. CASE ~tn_callback[h]
  <2>1. ModeOf(h) = "done" /\ ModeOf(h)' = "done"
    BY <1>1, <1>3, <1>12 DEF ModeOf, L
  <2>2. LeftOf(h)' = LeftOf(h) /\ PeriodOf(h)' = PeriodOf(h)
    BY <2>1 DEF LeftOf, PeriodOf
  <2>3. Service!Round
    BY <1>10, <1>11, <2>1, <2>2, AbsUntouched DEF Service!Round
  <2> QED BY <1>6, <1>7, <1>8, <2>3 DEF TmInv
<1>13. CASE tn_callback[h]
  <2>1. /\ ModeOf(h) = "armed" /\ PeriodOf(h) = tn_ticks[h]
        /\ LeftOf(h) = d - ticks_new - Since
    <3>1. ModeOf(h) = "armed"
      BY <1>3, <1>13 DEF ModeOf, L
    <3>2. LeftOf(h) = d - ticks_new - Since + 0
      BY <1>3, <3>1 DEF LeftOf
    <3> QED BY <1>3, <3>1, <3>2 DEF PeriodOf
  <2>2. LeftOf(h) <= 0
    BY <1>1, <1>3, <2>1
  <2>3. ASSUME NEW u \in Timer, ModeOf(u) = "armed" PROVE LeftOf(h) <= LeftOf(u)
    <3>1. u \in L /\ u # cur
      BY <1>3, <2>3 DEF ModeOf, L
    <3>2. LeftOf(u) = ExpiryOf(u) - ticks_new - Since + 0
      BY <2>3, <3>1 DEF LeftOf
    <3> QED BY <1>3, <2>1, <3>1, <3>2
  <2>4. tn_ticks'[h] = tn_ticks[h] /\ tn_ticks[h] \in Nat
    BY <1>1, <1>3, TmFacts
  <2>5. CASE tn_ticks[h] = 0
    <3>1. ModeOf(h)' = "done"
      BY <1>1, <1>3, <2>4, <2>5 DEF ModeOf, L
    <3>2. LeftOf(h)' = 0 /\ PeriodOf(h)' = 0 /\ PeriodOf(h) = 0
      BY <2>1, <2>5, <3>1 DEF LeftOf, PeriodOf
    <3>3. UNCHANGED AbsPeriod
      BY <1>10, <3>2, AbsIs
    <3>4. Service!Fire(h)
      <4>1. /\ AbsMode[h] = "armed" /\ AbsLeft[h] <= 0 /\ AbsPeriod[h] = 0
            /\ \A u \in Timer : AbsMode[u] = "armed" => AbsLeft[h] <= AbsLeft[u]
        BY <1>3, <2>1, <2>2, <2>3, <3>2, AbsIs
      <4>2. /\ AbsMode' = [AbsMode EXCEPT ![h] = "done"]
            /\ AbsLeft' = [AbsLeft EXCEPT ![h] = 0]
        BY <1>3, <1>10, <3>1, <3>2, AbsOne
      <4> QED BY <1>3, <1>11, <3>3, <4>1, <4>2 DEF Service!Fire, Service!Armed
    <3> QED BY <1>3, <1>6, <1>7, <1>8, <3>4 DEF TmInv
  <2>6. CASE tn_ticks[h] # 0
    <3>1. ModeOf(h)' = "armed"
      BY <1>1, <1>3, <1>13, <2>4, <2>6 DEF ModeOf, L
    <3>2. LeftOf(h)' = LeftOf(h) + PeriodOf(h) /\ PeriodOf(h)' = PeriodOf(h)
      <4>1. LeftOf(h)' = ExpiryOf(h)' - ticks_new' - Since' + tn_ticks[h]
        BY <1>1, <2>4, <3>1 DEF LeftOf
      <4>2. ExpiryOf(h)' - ticks_new' - Since' = d - ticks_new - Since
        BY <1>3, <1>9
      <4> QED BY <2>1, <2>4, <3>1, <4>1, <4>2 DEF PeriodOf
    <3>3. UNCHANGED AbsPeriod /\ UNCHANGED AbsMode
      BY <1>10, <2>1, <3>1, <3>2, AbsIs
    <3>4. Service!Fire(h)
      <4>1. /\ AbsMode[h] = "armed" /\ AbsLeft[h] <= 0 /\ AbsPeriod[h] # 0
            /\ \A u \in Timer : AbsMode[u] = "armed" => AbsLeft[h] <= AbsLeft[u]
        BY <1>3, <2>1, <2>2, <2>3, <2>6, AbsIs
      <4>2. AbsLeft' = [AbsLeft EXCEPT ![h] = AbsLeft[h] + AbsPeriod[h]]
        BY <1>3, <1>10, <3>2, AbsOne
      <4> QED BY <1>3, <1>11, <3>3, <4>1, <4>2 DEF Service!Fire, Service!Armed
    <3> QED BY <1>3, <1>6, <1>7, <1>8, <3>4 DEF TmInv
  <2> QED BY <2>5, <2>6
<1> QED BY <1>12, <1>13

\* The timer whose callback ran leaves the list.
LEMMA TmUnlinked ==
    ASSUME TimerAssumption, TmInv, pc \in {"callback", "unlink"},
           NEW g \in [Timer -> Nat], \A u \in Timer : u # cur => g[u] = tn_ticks_left[u]
    PROVE  /\ Tail(nutTimerList) \in Seq(Timer) /\ IsInjective(Tail(nutTimerList))
           /\ ToSet(Tail(nutTimerList)) = ToSet(nutTimerList) \ {cur}
           /\ cur \in ToSet(nutTimerList) /\ cur \in Timer /\ tn_ticks_left[cur] = 0 /\ ExpiryOf(cur) = 0
           /\ \A u \in ToSet(nutTimerList) \ {cur} :
                 Expiry(Tail(nutTimerList), g, u) = ExpiryOf(u)
<1> DEFINE list == nutTimerList
           rest == Tail(nutTimerList)
<1>1. list # <<>> /\ cur = Head(list) /\ tn_ticks_left[cur] = 0
  BY DEF TmInv, TmControl
<1>2. list \in Seq(Timer) /\ IsInjective(list) /\ tn_ticks_left \in [Timer -> Nat]
  BY DEF TmInv, TmList
<1>3. 1 \in 1..Len(list) /\ cur = list[1] /\ cur \in Timer /\ Len(list) \in Nat
  BY <1>1, <1>2
<1>4. rest \in Seq(Timer) /\ Removed(rest, list, 1)
  <2>1. rest \in Seq(Timer) /\ Len(rest) = Len(list) - 1
    BY <1>1, <1>2
  <2>2. \A i \in 1..Len(rest) : rest[i] = list[i + 1]
    BY <1>1, <1>2, <2>1
  <2>3. \A i \in 1..Len(rest) : ~(i < 1)
    OBVIOUS
  <2> QED BY <2>1, <2>2, <2>3 DEF Removed
<1>5. IsInjective(rest) /\ ToSet(rest) = ToSet(list) \ {cur}
  <2> HIDE DEF rest, list
  <2>1. IsInjective(rest) /\ ToSet(rest) = ToSet(list) \ {list[1]}
    BY <1>2, <1>3, <1>4, RemovedSet
  <2> QED BY <1>3, <2>1
<1>6. cur \in ToSet(list) /\ ExpiryOf(cur) = 0
  <2>1. cur \in ToSet(list) /\ ExpiryOf(cur) = tn_ticks_left[cur]
    BY <1>1, TmFacts
  <2> QED BY <1>1, <2>1
<1>7. TakenOver(rest, g, list, tn_ticks_left, 1)
  <2>1. SUFFICES ASSUME NEW j \in 1..Len(rest)
                 PROVE  g[rest[j]] = IF j = 1 THEN tn_ticks_left[list[1 + 1]] + tn_ticks_left[list[1]]
                                     ELSE tn_ticks_left[rest[j]]
    BY DEF TakenOver
  <2>2. j + 1 \in 1..Len(list) /\ j + 1 # 1 /\ rest[j] = list[j + 1]
    BY <1>3, <1>4 DEF Removed
  <2>3. rest[j] \in Timer /\ rest[j] # cur
    BY <1>2, <1>3, <2>2 DEF IsInjective
  <2>4. g[rest[j]] = tn_ticks_left[rest[j]] /\ tn_ticks_left[rest[j]] \in Nat
    BY <1>2, <2>3
  <2>5. j = 1 => rest[j] = list[1 + 1]
    BY <2>2
  <2> QED BY <1>1, <1>3, <2>4, <2>5
<1>8. \A u \in ToSet(rest) : Expiry(rest, g, u) = Expiry(list, tn_ticks_left, u)
  <2> HIDE DEF rest, list
  <2>1. TakenOut(rest, g, list, tn_ticks_left, 1)
    BY <1>2, <1>3, <1>4, <1>7 DEF TakenOut
  <2> QED BY <2>1, RemoveExpiry
<1> QED BY <1>1, <1>3, <1>4, <1>5, <1>6, <1>8 DEF ExpiryOf

\* The timer whose callback ran is unlinked: it is freed, or starts its next period.
LEMMA TmUnlinkStep ==
    ASSUME TimerAssumption, TmInv, Unlink
    PROVE  TmInv' /\ (UNCHANGED Service!vars \/ \E tn \in Timer : Service!Release(tn))
<1>0. PICK h : h = cur
  OBVIOUS
<1> DEFINE L     == ToSet(nutTimerList)
           rest  == Tail(nutTimerList)
           left0 == [tn_ticks_left EXCEPT ![h] = tn_ticks[h]]
<1>1. /\ pc \in {"callback", "unlink"} /\ pc' = "loop" /\ cur' = NoTimer
      /\ \/ /\ tn_ticks[h] = 0 /\ nutTimerList' = rest
            /\ tn_callback' = [tn_callback EXCEPT ![h] = FALSE]
            /\ UNCHANGED tn_ticks_left
         \/ /\ tn_ticks[h] # 0 /\ NutTimerInsert(h, rest, left0)
            /\ UNCHANGED tn_callback
      /\ UNCHANGED <<nut_ticks, nut_ticks_resume, tn_ticks, ticks_new>>
  BY <1>0 DEF Unlink, ToBeFreed
<1>2. /\ nutTimerList \in Seq(Timer) /\ IsInjective(nutTimerList)
      /\ tn_ticks_left \in [Timer -> Nat]
      /\ tn_callback \in [Timer -> BOOLEAN]
      /\ \A u \in Timer : u \notin L => tn_ticks_left[u] = 0
      /\ \A u \in L : ExpiryOf(u) < TickWord
  BY DEF TmInv, TmList
<1>3. /\ rest \in Seq(Timer) /\ IsInjective(rest) /\ ToSet(rest) = L \ {h}
      /\ h \in L /\ h \in Timer /\ tn_ticks_left[h] = 0 /\ ExpiryOf(h) = 0
      /\ \A u \in L \ {h} : Expiry(rest, tn_ticks_left, u) = ExpiryOf(u)
  BY <1>0, <1>1, <1>2, TmUnlinked
<1>4. /\ ticks_new \in Nat /\ Since \in Nat /\ Since' = Since /\ ticks_new' = ticks_new
      /\ tn_ticks[h] \in Nat /\ NoTimer \notin Timer /\ TickWord \in Nat /\ TickWord > 0
      /\ \A u \in L : u \in Timer /\ ExpiryOf(u) \in Nat
      /\ tn_ticks[h] # 0 => tn_ticks[h] < TickWord
  <2>1. tn_ticks[h] \in Nat /\ tn_ticks[h] \in Interval \cup {0}
    BY <1>3, TmFacts
  <2>2. tn_ticks[h] # 0 => tn_ticks[h] < TickWord
    BY <2>1, TmFacts
  <2> QED BY <1>1, <2>1, <2>2, TmFacts DEF Since
<1>5. TmClock'
  BY <1>1, <1>4 DEF TmInv, TmClock
<1>6. TmControl'
  BY <1>1 DEF TmControl
<1>7. \A u \in Timer : u # h => u # cur /\ u # cur' /\ tn_ticks'[u] = tn_ticks[u]
                                /\ tn_callback'[u] = tn_callback[u]
  BY <1>0, <1>1, <1>2, <1>4
<1>8. MaxLag < TickWord
  <2>1. nutTimerList # <<>>
    BY <1>1 DEF TmInv, TmControl
  <2> QED BY <2>1 DEF TmInv, TmList
<1>9. CASE tn_ticks[h] = 0
  <2>1. /\ nutTimerList' = rest /\ tn_ticks_left' = tn_ticks_left
        /\ tn_callback' = [tn_callback EXCEPT ![h] = FALSE]
    BY <1>1, <1>9
  <2>2. \A u \in L \ {h} : ExpiryOf(u)' = ExpiryOf(u)
    BY <1>3, <2>1 DEF ExpiryOf
  <2>3. TmList'
    <3>1. \A u \in ToSet(nutTimerList') : ExpiryOf(u)' < TickWord
      BY <1>2, <1>3, <2>1, <2>2
    <3>2. \A u \in Timer : u \notin ToSet(nutTimerList') => tn_ticks_left'[u] = 0
      BY <1>2, <1>3, <2>1
    <3>3. tn_ticks' \in [Timer -> Interval \cup {0}] /\ tn_callback' \in [Timer -> BOOLEAN]
      BY <1>1, <2>1 DEF TmInv, TmList
    <3> QED BY <1>2, <1>3, <1>8, <2>1, <3>1, <3>2, <3>3 DEF TmList
  <2>4. \A u \in Timer \ {h} :
           ModeOf(u)' = ModeOf(u) /\ LeftOf(u)' = LeftOf(u) /\ PeriodOf(u)' = PeriodOf(u)
    <3>1. TAKE u \in Timer \ {h}
    <3>2. u \in ToSet(nutTimerList') <=> u \in ToSet(nutTimerList)
      BY <1>3, <2>1
    <3>3. u \in ToSet(nutTimerList)
          => ExpiryOf(u)' - ticks_new' - Since' = ExpiryOf(u) - ticks_new - Since
      BY <1>4, <2>2
    <3> QED BY <1>7, <3>2, <3>3, SameTimer
  <2>5. ModeOf(h) = "done" /\ ModeOf(h)' = "free"
    BY <1>0, <1>3, <1>9, <2>1 DEF ModeOf
  <2>6. LeftOf(h)' = LeftOf(h) /\ PeriodOf(h)' = PeriodOf(h)
    BY <2>5 DEF LeftOf, PeriodOf
  <2>7. UNCHANGED <<AbsLeft, AbsPeriod>>
    BY <2>4, <2>6, AbsIs
  <2>8. Service!Release(h)
    BY <1>3, <1>4, <2>4, <2>5, <2>7, AbsOne DEF Service!Release
  <2> QED BY <1>3, <1>5, <1>6, <2>3, <2>8 DEF TmInv
<1>10. CASE tn_ticks[h] # 0
  <2>1. NutTimerInsert(h, rest, left0) /\ tn_callback' = tn_callback
    BY <1>1, <1>10
  <2>2. left0 \in [Timer -> Nat] /\ left0[h] = tn_ticks[h] /\ \A u \in Timer : u # h => left0[u] = tn_ticks_left[u]
    BY <1>2, <1>3, <1>4
  <2> HIDE DEF left0, rest
  <2>3. /\ nutTimerList' \in Seq(Timer) /\ tn_ticks_left' \in [Timer -> Nat]
        /\ \A u \in Timer : tn_ticks_left'[u] <= left0[u]
        /\ IsInjective(nutTimerList') /\ ToSet(nutTimerList') = ToSet(rest) \cup {h}
        /\ Expiry(nutTimerList', tn_ticks_left', h) = left0[h]
        /\ \A u \in ToSet(rest) : Expiry(nutTimerList', tn_ticks_left', u) = Expiry(rest, left0, u)
    <3>1. h \notin ToSet(rest)
      BY <1>3
    <3> QED BY <1>3, <2>1, <2>2, <3>1, InsertExpiry
  <2>4. \A u \in L \ {h} : Expiry(rest, left0, u) = ExpiryOf(u)
    BY <1>0, <1>1, <2>2, TmUnlinked DEF rest
  <2>5. ToSet(nutTimerList') = L /\ ExpiryOf(h)' = tn_ticks[h]
        /\ \A u \in L \ {h} : ExpiryOf(u)' = ExpiryOf(u)
    BY <1>3, <2>2, <2>3, <2>4 DEF ExpiryOf
  <2>6. TmList'
    <3>1. \A u \in ToSet(nutTimerList') : ExpiryOf(u)' < TickWord
      BY <1>2, <1>4, <1>10, <2>5
    <3>2. ASSUME NEW u \in Timer, u \notin ToSet(nutTimerList') PROVE tn_ticks_left'[u] = 0
      <4>1. u \notin L /\ u # h
        BY <1>3, <2>5, <3>2
      <4>2. left0[u] = 0
        BY <1>2, <2>2, <4>1
      <4>3. tn_ticks_left'[u] <= 0 /\ tn_ticks_left'[u] \in Nat
        BY <2>3, <4>2
      <4> QED BY <4>3
    <3>3. tn_ticks' \in [Timer -> Interval \cup {0}] /\ tn_callback' \in [Timer -> BOOLEAN]
      BY <1>1, <2>1 DEF TmInv, TmList
    <3> QED BY <1>8, <2>3, <3>1, <3>2, <3>3 DEF TmList
  <2>7. \A u \in Timer \ {h} :
           ModeOf(u)' = ModeOf(u) /\ LeftOf(u)' = LeftOf(u) /\ PeriodOf(u)' = PeriodOf(u)
    <3>1. TAKE u \in Timer \ {h}
    <3>2. u \in ToSet(nutTimerList') <=> u \in ToSet(nutTimerList)
      BY <2>5
    <3>3. u \in ToSet(nutTimerList)
          => ExpiryOf(u)' - ticks_new' - Since' = ExpiryOf(u) - ticks_new - Since
      BY <1>4, <2>5
    <3> QED BY <1>7, <3>2, <3>3, SameTimer
  <2>8. ModeOf(h)' = ModeOf(h) /\ LeftOf(h)' = LeftOf(h) /\ PeriodOf(h)' = PeriodOf(h)
    <3>1. h # cur' /\ tn_callback'[h] = tn_callback[h] /\ tn_ticks'[h] = tn_ticks[h]
      BY <1>1, <1>3, <1>4, <2>1
    <3>2. ModeOf(h)' = ModeOf(h)
      BY <1>0, <1>3, <1>10, <2>5, <3>1 DEF ModeOf
    <3>3. PeriodOf(h)' = PeriodOf(h)
      BY <3>1, <3>2 DEF PeriodOf
    <3>4. CASE ModeOf(h) # "armed"
      BY <3>2, <3>3, <3>4 DEF LeftOf
    <3>5. CASE ModeOf(h) = "armed"
      <4>1. LeftOf(h) = 0 - ticks_new - Since + tn_ticks[h]
        BY <1>0, <1>3, <3>5 DEF LeftOf
      <4>2. LeftOf(h)' = tn_ticks[h] - ticks_new - Since + 0
        BY <1>4, <2>5, <3>1, <3>2, <3>5 DEF LeftOf
      <4>3. LeftOf(h)' = LeftOf(h)
        BY <1>4, <4>1, <4>2
      <4> QED BY <3>2, <3>3, <4>3
    <3> QED BY <3>4, <3>5
  <2>9. UNCHANGED Service!vars
    BY <1>4, <2>7, <2>8, AbsUntouched DEF Service!vars
  <2> QED BY <1>5, <1>6, <2>6, <2>9 DEF TmInv
<1> QED BY <1>9, <1>10

\* The round ends: what is left of the ticks is taken off the first timer.
LEMMA TmFinishStep ==
    ASSUME TimerAssumption, TmInv, Finish
    PROVE  TmInv' /\ Service!Round
<1>0. PICK h : h = Head(nutTimerList)
  OBVIOUS
<1> DEFINE d == tn_ticks_left[h]
           L == ToSet(nutTimerList)
<1>1. /\ pc = "loop" /\ ticks_new' = 0 /\ pc' = "idle"
      /\ \/ (nutTimerList = <<>> \/ ticks_new = 0) /\ UNCHANGED tn_ticks_left
         \/ /\ nutTimerList # <<>> /\ ticks_new < d
            /\ tn_ticks_left' = [tn_ticks_left EXCEPT ![h] = d - ticks_new]
      /\ UNCHANGED <<nut_ticks, nut_ticks_resume, nutTimerList, tn_ticks, tn_callback, cur>>
  BY <1>0, Zenon DEF Finish, TicksUsed
<1>2. /\ nutTimerList \in Seq(Timer) /\ IsInjective(nutTimerList)
      /\ tn_ticks_left \in [Timer -> Nat]
      /\ \A u \in Timer : u \notin L => tn_ticks_left[u] = 0
      /\ \A u \in L : ExpiryOf(u) < TickWord
  BY DEF TmInv, TmList
<1>3. /\ ticks_new \in Nat /\ cur = NoTimer /\ TickWord \in Nat
      /\ Since \in Nat /\ Since' = Since
      /\ \A u \in L : u \in Timer /\ ExpiryOf(u) \in Nat
  BY <1>1, TmFacts DEF TmInv, TmControl, Since
<1>4. /\ tn_ticks_left' \in [Timer -> Nat]
      /\ \A u \in Timer : u \notin L => tn_ticks_left'[u] = 0
      /\ \A u \in L : ExpiryOf(u)' = ExpiryOf(u) - ticks_new
  <2>1. CASE (nutTimerList = <<>> \/ ticks_new = 0) /\ UNCHANGED tn_ticks_left
    <3>1. \A u \in L : ticks_new = 0
      BY <2>1 DEF ToSet
    <3>2. \A u \in L : ExpiryOf(u)' = ExpiryOf(u)
      BY <1>1, <2>1 DEF ExpiryOf
    <3>3. \A u \in L : ExpiryOf(u) = ExpiryOf(u) - ticks_new
      BY <1>3, <3>1
    <3> QED BY <1>2, <2>1, <3>2, <3>3
  <2>2. CASE /\ nutTimerList # <<>> /\ ticks_new < d
             /\ tn_ticks_left' = [tn_ticks_left EXCEPT ![h] = d - ticks_new]
    <3>1. h \in L /\ h \in Timer /\ d \in Nat /\ d - ticks_new \in Nat
      <4>1. h \in L /\ h \in Timer
        BY <1>0, <2>2, TmFacts
      <4>2. d \in Nat
        BY <1>2, <4>1
      <4> QED BY <1>3, <2>2, <4>1, <4>2
    <3>2. tn_ticks_left' \in [Timer -> Nat]
      BY <1>2, <2>2, <3>1
    <3>3. \A u \in Timer : u \notin L => tn_ticks_left'[u] = 0
      BY <1>2, <2>2, <3>1
    <3>4. HeadBecomes(tn_ticks_left', nutTimerList, tn_ticks_left, d - ticks_new)
      BY <1>0, <2>2 DEF HeadBecomes
    <3>5. \A u \in ToSet(nutTimerList) :
             Expiry(nutTimerList, tn_ticks_left', u)
                = Expiry(nutTimerList, tn_ticks_left, u) - tn_ticks_left[Head(nutTimerList)]
                     + (d - ticks_new)
      <4>1. nutTimerList # <<>> /\ nutTimerList \in Seq(Timer) /\ IsInjective(nutTimerList)
            /\ tn_ticks_left \in [Timer -> Nat]
        BY <1>2, <2>2
      <4> DEFINE v == d - ticks_new
      <4>2. v \in Nat /\ HeadBecomes(tn_ticks_left', nutTimerList, tn_ticks_left, v)
        BY <3>1, <3>4
      <4> HIDE DEF v
      <4>3. \A u \in ToSet(nutTimerList) :
               Expiry(nutTimerList, tn_ticks_left', u)
                  = Expiry(nutTimerList, tn_ticks_left, u) - tn_ticks_left[Head(nutTimerList)] + v
        BY <3>2, <4>1, <4>2, HeadExpiry
      <4> QED BY <4>3 DEF v
    <3>6. ASSUME NEW u \in L PROVE ExpiryOf(u)' = ExpiryOf(u) - ticks_new
      <4>1. ExpiryOf(u)' = ExpiryOf(u) - d + (d - ticks_new)
        BY <1>0, <1>1, <3>5 DEF ExpiryOf
      <4> QED BY <1>3, <3>1, <4>1
    <3> QED BY <3>2, <3>3, <3>6
  <2> QED BY <1>1, <2>1, <2>2
<1>5. TmClock'
  BY <1>1, <1>3, TmFacts DEF TmInv, TmClock
<1>6. TmList'
  <2>1. \A u \in L : ExpiryOf(u)' < TickWord
    BY <1>2, <1>3, <1>4
  <2> QED BY <1>1, <1>2, <1>4, <2>1 DEF TmInv, TmList
<1>7. TmControl'
  BY <1>1, <1>3 DEF TmControl
<1>8. ASSUME NEW u \in Timer
      PROVE  ModeOf(u)' = ModeOf(u) /\ LeftOf(u)' = LeftOf(u) /\ PeriodOf(u)' = PeriodOf(u)
  <2>1. u \in ToSet(nutTimerList)
        => ExpiryOf(u)' - ticks_new' - Since' = ExpiryOf(u) - ticks_new - Since
    <3> HAVE u \in ToSet(nutTimerList)
    <3>1. ExpiryOf(u)' = ExpiryOf(u) - ticks_new /\ ExpiryOf(u) \in Nat
      BY <1>3, <1>4
    <3> QED BY <1>1, <1>3, <3>1
  <2> QED BY <1>1, <2>1, SameTimer
<1> QED BY <1>1, <1>5, <1>6, <1>7, <1>8, AbsUntouched DEF TmInv, Service!Round

\* Each step of the timers keeps the invariant and is a step of TimerService.
LEMMA TmStep ==
    ASSUME TimerAssumption, TmInv, [TimerNext]_(timerVars)
    PROVE  TmInv' /\ [Service!Next]_(Service!vars)
<1>1. CASE NutTimerIntr
  BY <1>1, TmIntrStep DEF Service!Next
<1>2. CASE \E tn \in Timer, i \in Interval, oneshot \in BOOLEAN : NutTimerStartTicks(tn, i, oneshot)
  BY <1>2, TmStartStep DEF Service!Next
<1>3. CASE \E tn \in Timer : NutTimerStop(tn)
  BY <1>3, TmStopStep DEF Service!Next
<1>4. CASE ProcessElapsed
  BY <1>4, TmProcessStep DEF Service!Next
<1>5. CASE Elapse
  BY <1>5, TmElapseStep DEF Service!Next
<1>6. CASE Unlink
  BY <1>6, TmUnlinkStep DEF Service!Next
<1>7. CASE Finish
  BY <1>7, TmFinishStep DEF Service!Next
<1>8. CASE UNCHANGED timerVars
  <2>1. UNCHANGED <<nut_ticks, nut_ticks_resume, nutTimerList, tn_ticks, tn_ticks_left,
                    tn_callback, ticks_new, cur, pc>>
    BY <1>8 DEF timerVars
  <2>2. TmInv'
    BY <2>1 DEF TmInv, TmClock, TmList, TmControl, ExpiryOf, Since
  <2>3. UNCHANGED Service!vars
    <3>1. \A u \in Timer : ModeOf(u)' = ModeOf(u) /\ LeftOf(u)' = LeftOf(u) /\ PeriodOf(u)' = PeriodOf(u)
      BY <2>1 DEF ModeOf, LeftOf, PeriodOf, ExpiryOf, Since
    <3> QED BY <2>1, <3>1, AbsUntouched DEF Service!vars
  <2> QED BY <2>2, <2>3
<1> QED BY <1>1, <1>2, <1>3, <1>4, <1>5, <1>6, <1>7, <1>8 DEF TimerNext, Process

\* The invariant has the types: no distance of the list overflows a word.
LEMMA TmTyped ==
    ASSUME TimerAssumption, TmInv
    PROVE  TypeOK
<1>1. /\ nut_ticks \in 0..(TickWord - 1) /\ nut_ticks_resume \in 0..(TickWord - 1)
      /\ nutTimerList \in Seq(Timer) /\ tn_callback \in [Timer -> BOOLEAN]
      /\ pc \in {"idle", "loop", "callback", "unlink"}
  BY DEF TmInv, TmClock, TmList, TmControl
<1>2. tn_ticks \in [Timer -> Nat]
  BY TmFacts
<1>3. tn_ticks_left \in [Timer -> 0..(TickWord - 1)]
  <2>1. tn_ticks_left \in [Timer -> Nat]
    BY DEF TmInv, TmList
  <2>2. ASSUME NEW u \in Timer PROVE tn_ticks_left[u] \in 0..(TickWord - 1)
    <3>1. CASE u \in ToSet(nutTimerList)
      <4>1. tn_ticks_left[u] <= ExpiryOf(u) /\ ExpiryOf(u) \in Nat /\ ExpiryOf(u) < TickWord
        BY <3>1, TmFacts DEF TmInv, TmList
      <4> QED BY <2>1, <4>1, TmFacts
    <3>2. CASE u \notin ToSet(nutTimerList)
      <4>1. tn_ticks_left[u] = 0
        BY <3>2 DEF TmInv, TmList
      <4> QED BY <4>1, TmFacts
    <3> QED BY <3>1, <3>2
  <2> QED BY <2>1, <2>2
<1>4. ticks_new \in 0..MaxLag
  BY TmFacts DEF TmInv, TmClock
<1>5. cur \in Timer \cup {NoTimer}
  <2>1. CASE pc \in {"idle", "loop"}
    BY <2>1 DEF TmInv, TmControl
  <2>2. CASE pc \in {"callback", "unlink"}
    BY <2>2, TmFacts DEF TmInv, TmControl
  <2> QED BY <1>1, <2>1, <2>2
<1> QED BY <1>1, <1>2, <1>3, <1>4, <1>5 DEF TypeOK

\* All that the other results rest on: the list is without duplicates and in the order in
\* which the timers expire, and a callback leaves its timer at the head.
THEOREM TimerInvariant == ASSUME TimerAssumption PROVE TimerSpec => []TmInv
<1>1. TimerInit => TmInv
  BY TmStarts
<1>2. TmInv /\ [TimerNext]_(timerVars) => TmInv'
  BY TmStep
<1> QED BY <1>1, <1>2, PTL DEF TimerSpec

\* The tick counters and the distances stay in a uint32_t, although periodic timers are
\* inserted again and again and a stopped timer hands its ticks to the next one.
THEOREM TimerTypes == ASSUME TimerAssumption PROVE TimerSpec => []TypeOK
<1>1. TmInv => TypeOK
  BY TmTyped
<1> QED BY <1>1, TimerInvariant, PTL

\* NutTimerProcessElapsed unlinks nutTimerList and frees or re-inserts tn (timer.c:470-487):
\* they are the same timer, whatever the callback has started or stopped.
THEOREM TimerHeadElapsed == ASSUME TimerAssumption PROVE TimerSpec => []HeadElapsed
<1>1. TmInv => HeadElapsed
  BY DEF TmInv, TmControl, HeadElapsed
<1> QED BY <1>1, TimerInvariant, PTL

\* The delta list keeps the promise of TimerService: every step of it, the tick interrupt
\* included, is a step a user of the timers may see, or nothing he can see.
THEOREM TimersImplementService ==
    ASSUME TimerAssumption PROVE TimerSpec => ImplementsTimerService
<1>1. TimerInit => Service!Init
  BY TmStarts
<1>2. TmInv /\ [TimerNext]_(timerVars) => [Service!Next]_(Service!vars)
  BY TmStep
<1>3. ImplementsTimerService <=> Service!Spec
  BY DEF ImplementsTimerService
<1> QED BY <1>1, <1>2, <1>3, TimerInvariant, PTL DEF TimerSpec, Service!Spec

=============================================================================
