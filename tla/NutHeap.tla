------------------------------- MODULE NutHeap -------------------------------
(***************************************************************************)
(* The heap of os/heap.c: the free list, ordered by address, from which    *)
(* NutHeapRootAlloc takes the best fit and into which NutHeapRootFree puts *)
(* blocks back and joins neighbours, and NutHeapRootRealloc, which grows a *)
(* block in place, moves it or gives its end back.  A block is named by    *)
(* the address of its HEAPNODE.  Sizes are in bytes.                       *)
(*                                                                         *)
(* Callers free and resize only blocks they own.  A block may be freed     *)
(* once more while its memory is free: the code finds that out.            *)
(***************************************************************************)
EXTENDS Integers, Sequences, SequencesExt, FiniteSetsExt

CONSTANTS
    NIL,
    Region,       \* memory the system adds, in this order, as [addr, size]
    Request,      \* sizes that callers ask for
    NodeSize,     \* sizeof(HEAPNODE)
    Overhead,     \* NUT_HEAP_OVERHEAD
    Guard,        \* NUTMEM_GUARD_BYTES
    NodeMin,      \* NUTMEM_HEAPNODE_MIN
    Alignment,    \* NUTMEM_ALIGNMENT
    Word          \* modulus of size_t

TopAlign(s) == ((s + Alignment - 1) \div Alignment) * Alignment
BottomAlign(s) == (s \div Alignment) * Alignment

\* Bytes for a request: header, guards, alignment, and room for a HEAPNODE.
Need(n) == TopAlign(Max({n + Overhead + 2 * Guard, NodeSize}))

Node(a, n) == [addr |-> a, size |-> n]
End(node)  == node.addr + node.size

\* Two nodes share no byte.
Apart(x, y) == End(x) <= y.addr \/ End(y) <= x.addr

\* The node that NutHeapRootAdd makes of a region.
RegionNode(r) ==
    LET a == TopAlign(r.addr) IN Node(a, BottomAlign(r.size - (a - r.addr)))

\* A block is never smaller than NodeMin: heap.c:649 subtracts it from the size of the
\* block, which must not wrap.  Sizes that are asked for do not wrap either.
ASSUME HeapAssumption ==
    /\ NIL \notin Nat
    /\ NodeSize \in Nat \ {0} /\ NodeMin \in Nat /\ NodeMin >= NodeSize /\ Word \in Nat
    /\ \A n \in Request :
          /\ Need(n) \in Nat /\ Need(n) >= NodeMin
          /\ Need(Need(n)) \in Nat /\ Need(Need(n)) >= NodeMin /\ Need(Need(n)) < Word

\* The regions are different memory within the address space.
ASSUME RegionAssumption ==
    /\ Len(Region) \in Nat
    /\ \A i \in 1..Len(Region) :
          /\ RegionNode(Region[i]) \in [addr : Nat, size : Nat]
          /\ RegionNode(Region[i]).size >= NodeSize /\ End(RegionNode(Region[i])) <= Word
    /\ \A i, j \in 1..Len(Region) : i # j => Apart(RegionNode(Region[i]), RegionNode(Region[j]))

VARIABLES
    heapFreeList,  \* the free nodes in list order, [addr, size]
    hn_size,       \* address of an allocated node -> its hn_size
    added,         \* how many regions the system has added
    result         \* the block the last call has returned, or NIL

vars == <<heapFreeList, hn_size, added, result>>

Init == heapFreeList = <<>> /\ hn_size = <<>> /\ added = 0 /\ result = NIL

-----------------------------------------------------------------------------
(* The free list.                                                          *)

\* The smallest node that fits, the first of them.
BestFit(list, need) ==
    LET fits == {i \in DOMAIN list : list[i].size >= need}
        best == {i \in fits : \A j \in fits : list[i].size <= list[j].size}
    IN  Min(best)

Fits(list, need) == \E i \in DOMAIN list : list[i].size >= need

\* Seeded fault: the remainder is lost.
CutAll(list, i, n) == RemoveAt(list, i)

\* The first n bytes of node i leave the list, all of it if too little remains.
Cut(list, i, n) ==
    IF list[i].size - n >= NodeMin
    THEN [list EXCEPT ![i] = Node(@.addr + n, @.size - n)]
    ELSE RemoveAt(list, i)

\* How many bytes that are.
CutSize(list, i, n) == IF list[i].size - n >= NodeMin THEN n ELSE list[i].size

\* Seeded fault: a node that closes a gap is joined with one side only.
JoinFrontOnly(list, i, node) == [list EXCEPT ![i].size = @ + node.size]

\* The node goes behind node i, which it adjoins, and may meet the next one.
JoinFront(list, i, node) ==
    LET grown == Node(list[i].addr, list[i].size + node.size)
    IN  IF i < Len(list) /\ End(grown) = list[i + 1].addr
        THEN [RemoveAt(list, i + 1) EXCEPT ![i].size = grown.size + list[i + 1].size]
        ELSE [list EXCEPT ![i] = grown]

\* The node goes before node i, which it may adjoin.
LinkBefore(list, i, node) ==
    IF End(node) = list[i].addr
    THEN [list EXCEPT ![i] = Node(node.addr, node.size + @.size)]
    ELSE InsertAt(list, i, node)

\* NutHeapRootFree: the walk stops at the first node that ends where ours begins, that
\* lies behind ours, or that contains ours (released twice).
Freed(list, node) ==
    LET front  == {i \in DOMAIN list : End(list[i]) = node.addr}
        behind == {i \in DOMAIN list : list[i].addr > node.addr}
        around == {i \in DOMAIN list : list[i].addr <= node.addr /\ End(list[i]) > node.addr}
        i      == Min(front \cup behind \cup around)
    IN  CASE front \cup behind \cup around = {} -> Append(list, node)
          [] OTHER -> IF i \in front THEN JoinFront(list, i, node)
                      ELSE IF i \in behind THEN LinkBefore(list, i, node)
                      ELSE list

-----------------------------------------------------------------------------
(* The calls.                                                              *)

\* NutHeapRootAdd.
NutHeapRootAdd ==
    /\ added < Len(Region)
    /\ heapFreeList' = Freed(heapFreeList, RegionNode(Region[added + 1]))
    /\ added' = added + 1
    /\ UNCHANGED <<hn_size, result>>

\* NutHeapRootAlloc finds a node; then the block gone, if any, is released.
Alloc(need, gone) ==
    LET i    == BestFit(heapFreeList, need)
        a    == heapFreeList[i].addr
        rest == Cut(heapFreeList, i, need)
    IN  /\ Fits(heapFreeList, need)
        /\ heapFreeList' = IF gone = NIL THEN rest ELSE Freed(rest, Node(gone, hn_size[gone]))
        /\ hn_size' = [b \in (DOMAIN hn_size \ {gone}) \cup {a} |->
                          IF b = a THEN CutSize(heapFreeList, i, need) ELSE hn_size[b]]
        /\ result' = a

NoMemory(need) ==
    /\ ~Fits(heapFreeList, need)
    /\ result' = NIL
    /\ UNCHANGED <<heapFreeList, hn_size>>

NutHeapRootAlloc(n) == (Alloc(Need(n), NIL) \/ NoMemory(Need(n))) /\ UNCHANGED added

NutHeapRootFree(a) ==
    /\ a \in DOMAIN hn_size
    /\ heapFreeList' = Freed(heapFreeList, Node(a, hn_size[a]))
    /\ hn_size' = [b \in DOMAIN hn_size \ {a} |-> hn_size[b]]
    /\ result' = NIL
    /\ UNCHANGED added

\* A second NutHeapRootFree of a block, while its memory is in node i of the list.
FreeAgain(a, i) ==
    /\ a \in heapFreeList[i].addr..(End(heapFreeList[i]) - 1)
    /\ heapFreeList' = Freed(heapFreeList, Node(a, NodeSize))
    /\ UNCHANGED <<hn_size, added, result>>

\* The node that lies directly behind block a and has the missing bytes.
Behind(a, missing) ==
    {i \in DOMAIN heapFreeList :
        heapFreeList[i].addr = a + hn_size[a] /\ heapFreeList[i].size >= missing}

\* NutHeapRootRealloc, expansion in place.
Expand(a, need) ==
    LET missing == need - hn_size[a] IN
    \E i \in Behind(a, missing) :
        /\ heapFreeList' = Cut(heapFreeList, i, missing)
        /\ hn_size' = [hn_size EXCEPT ![a] = @ + CutSize(heapFreeList, i, missing)]
        /\ result' = a

\* Relocation: the size passed on to NutHeapRootAlloc has the overhead already.
Relocate(a, need) ==
    /\ Behind(a, need - hn_size[a]) = {}
    /\ Alloc(Need(need), a) \/ NoMemory(Need(need))

\* Reduction: the end of the block goes to the free list.
Reduce(a, need) ==
    /\ heapFreeList' = Freed(heapFreeList, Node(a + need, hn_size[a] - need))
    /\ hn_size' = [hn_size EXCEPT ![a] = need]
    /\ result' = a

\* The size of the block is right.
Keep(a) == result' = a /\ UNCHANGED <<heapFreeList, hn_size>>

NutHeapRootRealloc(a, n) ==
    /\ a \in DOMAIN hn_size
    /\ IF Need(n) > hn_size[a] THEN Expand(a, Need(n)) \/ Relocate(a, Need(n))
       ELSE IF Need(n) < (hn_size[a] - NodeMin) % Word THEN Reduce(a, Need(n))
       ELSE Keep(a)
    /\ UNCHANGED added

Next ==
    \/ NutHeapRootAdd
    \/ \E n \in Request : NutHeapRootAlloc(n)
    \/ \E a \in DOMAIN hn_size :
          NutHeapRootFree(a) \/ \E n \in Request : NutHeapRootRealloc(a, n)
    \/ \E i \in DOMAIN heapFreeList :
          \E a \in heapFreeList[i].addr..(End(heapFreeList[i]) - 1) : FreeAgain(a, i)

Spec == Init /\ [][Next]_vars

-----------------------------------------------------------------------------
(* Properties.                                                             *)

Bytes(node) == node.addr..(End(node) - 1)

\* The free list (heap.c): its nodes have room for a HEAPNODE, follow each other by
\* address and never touch, so that a walk may stop at the first node behind.
\* That they do not touch is what lets one pass of NutHeapRootFree join all free
\* neighbours, whatever the order of the calls.
FreeListSound ==
    /\ \A i \in DOMAIN heapFreeList : heapFreeList[i].size >= NodeSize
    /\ \A i, j \in DOMAIN heapFreeList : i < j => End(heapFreeList[i]) < heapFreeList[j].addr

FreeBytes == UNION {Bytes(heapFreeList[i]) : i \in DOMAIN heapFreeList}

Memory == {Bytes(RegionNode(Region[k])) : k \in 1..Len(Region)}

Heap == INSTANCE Allocator WITH free <- FreeBytes, blocks <- hn_size

\* No byte is lost, given out twice or kept longer than asked for: every call does
\* to the bytes what Allocator says of it.
ImplementsAllocator == Heap!Spec

=============================================================================
