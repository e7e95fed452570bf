------------------------------ MODULE Allocator ------------------------------
(***************************************************************************)
(* What the heap of os/heap.c promises: blocks never share a byte, memory  *)
(* that is given back can be had again to the last byte, an allocation     *)
(* takes the shortest run of free bytes that is long enough and fails only *)
(* if there is none.                                                       *)
(***************************************************************************)
EXTENDS Integers, FiniteSets

CONSTANTS
    Request,     \* sizes that may be asked for
    Memory,      \* the sets of bytes the heap may get
    Need(_),     \* bytes taken from the heap for a request
    NodeMin,     \* a remainder shorter than this stays with the block
    NIL

VARIABLES
    free,        \* the free bytes
    blocks,      \* address of a block -> its length
    result       \* the block the last call has returned, or NIL

vars == <<free, blocks, result>>

Bytes(a, n) == a..(a + n - 1)

Init == free = {} /\ blocks = <<>> /\ result = NIL

\* Longest stretches of free bytes, of n bytes at least.
Runs(n) == {r \in free \X (n..Cardinality(free)) :
               /\ Bytes(r[1], r[2]) \subseteq free
               /\ r[1] - 1 \notin free /\ r[1] + r[2] \notin free}

\* The bytes at a become a block and those of gone are free again.
Take(a, n, gone) ==
    /\ free' = (free \ Bytes(a, n)) \cup UNION {Bytes(b, blocks[b]) : b \in gone}
    /\ blocks' = [b \in (DOMAIN blocks \ gone) \cup {a} |-> IF b = a THEN n ELSE blocks[b]]
    /\ result' = a

\* A block of need bytes comes from the shortest run.
Fit(need, gone) ==
    \E r \in Runs(need) :
        /\ \A other \in Runs(need) : r[2] <= other[2]
        /\ Take(r[1], IF r[2] - need >= NodeMin THEN need ELSE r[2], gone)

Fail(need) == Runs(need) = {} /\ result' = NIL /\ UNCHANGED <<free, blocks>>

Alloc(n) == Fit(Need(n), {}) \/ Fail(Need(n))

Release(a) ==
    /\ a \in DOMAIN blocks
    /\ free' = free \cup Bytes(a, blocks[a])
    /\ blocks' = [b \in DOMAIN blocks \ {a} |-> blocks[b]]
    /\ result' = NIL

\* The block gets shorter or grows into the bytes behind it, which it does if they are
\* free.
Resize(a, n) ==
    /\ a \in DOMAIN blocks
    /\ \E new \in Need(n)..(blocks[a] + Cardinality(free)) :
          /\ Bytes(a, new) \subseteq free \cup Bytes(a, blocks[a])
          /\ free' = (free \cup Bytes(a, blocks[a])) \ Bytes(a, new)
          /\ blocks' = [blocks EXCEPT ![a] = new]
    /\ result' = a

\* Otherwise it moves.  The new block is allocated for a request of Need(n), not of n.
Move(a, n) ==
    /\ a \in DOMAIN blocks
    /\ ~(Bytes(a, Need(n)) \subseteq free \cup Bytes(a, blocks[a]))
    /\ Fit(Need(Need(n)), {a}) \/ Fail(Need(Need(n)))

\* The heap gets more memory.
Grow(new) ==
    /\ new \cap (free \cup UNION {Bytes(b, blocks[b]) : b \in DOMAIN blocks}) = {}
    /\ free' = free \cup new
    /\ UNCHANGED <<blocks, result>>

Next ==
    \/ \E n \in Request : Alloc(n)
    \/ \E a \in DOMAIN blocks : Release(a) \/ \E n \in Request : Resize(a, n) \/ Move(a, n)
    \/ \E m \in Memory : Grow(m)

Spec == Init /\ [][Next]_vars

=============================================================================
