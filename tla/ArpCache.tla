------------------------------ MODULE ArpCache ------------------------------
(***************************************************************************)
(* The ARP cache of one Ethernet interface: net/arpcache.c.  Threads that  *)
(* send IP packets call NutArpCacheQuery; the receiver thread calls        *)
(* NutArpCacheUpdate for every ARP telegram to our address.  The first     *)
(* query for an address creates an incomplete entry and sends requests,    *)
(* later queries wait at the same entry.                                   *)
(*                                                                         *)
(* Threads are cooperative: a step is the code between two releases of the *)
(* CPU, which are in NutArpOutput and NutEventWait, and any ready thread   *)
(* may run next.  An entry is removed for its age after MAX_ARPAGE = 9     *)
(* minutes without an update; a query lasts seconds, so an entry in use    *)
(* never is.  Nothing in the code sets ATF_PERM.                           *)
(***************************************************************************)
EXTENDS Naturals, FiniteSets

CONSTANTS
    Caller,           \* threads that call NutArpCacheQuery
    Ip,               \* addresses asked for
    Entry,            \* heap blocks for ARPENTRY structures
    MaxRequests,      \* MAX_ARPREQUESTS
    NIL

ASSUME ArpAssumption == MaxRequests \in Nat \ {0} /\ NIL \notin Entry \cup Ip

VARIABLES
    table,            \* arpTable: the entry of an address, or NIL
    complete,         \* entries with ATF_COM
    place,            \* where the code of a caller is
    ip,               \* argument of its query, NIL between queries
    entry,            \* its pointer to the entry
    nb,               \* callers that own a request packet
    retries,          \* left of its query
    result            \* of its last query, "none" during one

queryVars == <<place, ip, entry, nb, retries, result>>
vars == <<table, complete, queryVars>>

Init ==
    /\ table = [i \in Ip |-> NIL]
    /\ complete = {}
    /\ place = [t \in Caller |-> "idle"]
    /\ ip = [t \in Caller |-> NIL]
    /\ entry = [t \in Caller |-> NIL]
    /\ nb = {}
    /\ retries = [t \in Caller |-> 0]
    /\ result = [t \in Caller |-> "none"]

-----------------------------------------------------------------------------
(* The table.                                                              *)

Cached(tbl) == {tbl[i] : i \in Ip} \ {NIL}
Free(tbl)   == Entry \ Cached(tbl)

\* ArpCacheFlush takes entries off the table.
Flushed(tbl, removed) == [i \in Ip |-> IF tbl[i] \in removed THEN NIL ELSE tbl[i]]

\* Who waits at entry e: ArpCacheFlush and NutArpCacheUpdate wake them.
WaitersAt(e) == {t \in Caller : place[t] = "wait" /\ entry[t] = e}

\* The entries that ArpCacheAging may find outdated.
MayBeOld == complete \ {table[ip[t]] : t \in {u \in Caller : place[u] # "idle"}}

\* The table and the complete entries when the old ones are gone.
Aged(old) == [table |-> Flushed(table, old), complete |-> complete \ old]

\* What ArpCacheAging may leave: at most once a minute it removes outdated entries.
ArpCacheAging == {Aged(old) : old \in SUBSET MayBeOld}

\* The table and the complete entries as they are.
Cache == [table |-> table, complete |-> complete]

CacheIs(c) == table' = c.table /\ complete' = c.complete

-----------------------------------------------------------------------------
(* NutArpCacheQuery.                                                       *)

\* What a query leaves: its result.
Forget(t, rc) ==
    /\ ip' = [ip EXCEPT ![t] = NIL]
    /\ entry' = [entry EXCEPT ![t] = NIL]
    /\ nb' = nb \ {t}
    /\ retries' = [retries EXCEPT ![t] = 0]
    /\ result' = [result EXCEPT ![t] = rc]

\* The query of t ends.
Return(t, rc) ==
    /\ place' = [place EXCEPT ![t] = "idle"]
    /\ Forget(t, rc)

\* Removing the entry e of an unanswered query wakes those who wait with it.
RemoveAndFail(t, e) ==
    /\ table' = Flushed(table, {e})
    /\ place' = [u \in Caller |-> IF u = t THEN "idle"
                                  ELSE IF u \in WaitersAt(e) THEN "woken" ELSE place[u]]
    /\ Forget(t, "fail")
    /\ UNCHANGED complete

\* No retries left: only the thread that owns the request removes the entry.
GiveUp(t, e) ==
    IF t \in nb
    THEN RemoveAndFail(t, e)
    ELSE Return(t, "fail") /\ CacheIs(Cache)

\* Another round: the request is sent by the thread that owns it, others wait.
Block(t, i, e, left, owners) ==
    /\ ip' = [ip EXCEPT ![t] = i]
    /\ entry' = [entry EXCEPT ![t] = e]
    /\ nb' = owners
    /\ retries' = [retries EXCEPT ![t] = left]
    /\ place' = [place EXCEPT ![t] = IF t \in owners THEN "output" ELSE "wait"]
    /\ result' = [result EXCEPT ![t] = "none"]

\* Seeded fault: the retries are checked before the entry is.
RoundRetriesFirst(t, i, e, left, c) ==
    IF left = 0 THEN GiveUp(t, e)
    ELSE /\ CacheIs(c)
         /\ IF e \in c.complete THEN Return(t, "ok") ELSE Block(t, i, e, left - 1, nb)

\* Seeded fault: a thread that waits for another one's request does not count
\* its rounds.
RoundUncounted(t, i, e, left, c) ==
    IF e \notin c.complete /\ left = 0
    THEN GiveUp(t, e)
    ELSE /\ CacheIs(c)
         /\ IF e \in c.complete THEN Return(t, "ok")
            ELSE Block(t, i, e, IF t \in nb THEN left - 1 ELSE left, nb)

\* From the top of the loop, with c in the cache, to the next release of the CPU or
\* the end.
Round(t, i, e, left, c) ==
    IF e \notin c.complete /\ left = 0
    THEN GiveUp(t, e)
    ELSE /\ CacheIs(c)
         /\ IF e \in c.complete THEN Return(t, "ok") ELSE Block(t, i, e, left - 1, nb)

\* The address is in the table.
QueryKnown(t, i, c) ==
    /\ c.table[i] # NIL
    /\ Round(t, i, c.table[i], MaxRequests, c)

\* It is not: a new incomplete entry and a request packet.  Either allocation
\* may fail, and then nothing is left behind.
QueryNew(t, i, c) ==
    /\ c.table[i] = NIL
    /\ \/ Return(t, "fail") /\ CacheIs(c)
       \/ \E e \in Free(c.table) :
             /\ CacheIs([c EXCEPT !.table[i] = e])
             /\ Block(t, i, e, MaxRequests - 1, nb \cup {t})

\* The cache is aged first.
NutArpCacheQuery(t, i) ==
    /\ place[t] = "idle"
    /\ \E c \in ArpCacheAging : QueryKnown(t, i, c) \/ QueryNew(t, i, c)

\* NutArpOutput has sent the request: the thread waits at its entry, even if
\* the reply has come meanwhile.
Sent(t) ==
    /\ place[t] = "output"
    /\ place' = [place EXCEPT ![t] = "wait"]
    /\ UNCHANGED <<table, complete, ip, entry, nb, retries, result>>

\* Seeded fault: nothing is cleaned up when the request was not sent.
SendFailedKeeps(t) ==
    place[t] = "output" /\ Return(t, "fail") /\ CacheIs(Cache)

\* It has not: the entry is removed unless a reply has come meanwhile.
SendFailed(t) ==
    /\ place[t] = "output"
    /\ IF table[ip[t]] \in complete
       THEN Return(t, "fail") /\ CacheIs(Cache)
       ELSE RemoveAndFail(t, table[ip[t]])

\* NutEventWait ends by time-out.
Timeout(t) ==
    /\ place[t] = "wait"
    /\ place' = [place EXCEPT ![t] = "woken"]
    /\ UNCHANGED <<table, complete, ip, entry, nb, retries, result>>

\* Seeded fault: the thread goes on with the entry it knew.
LookupNever(t) == entry[t]

\* The entry is looked up again after the wait.
LookupAgain(t) == table[ip[t]]

Continue(t) ==
    /\ place[t] = "woken"
    /\ IF LookupAgain(t) = NIL
       THEN Return(t, "fail") /\ CacheIs(Cache)
       ELSE Round(t, ip[t], LookupAgain(t), retries[t], Cache)

-----------------------------------------------------------------------------
(* NutArpCacheUpdate.                                                      *)

\* An entry exists: it gets complete and its waiters are woken.
UpdateKnown(i) ==
    /\ table[i] # NIL
    /\ complete' = complete \cup {table[i]}
    /\ place' = [t \in Caller |-> IF t \in WaitersAt(table[i]) THEN "woken" ELSE place[t]]
    /\ UNCHANGED <<table, ip, entry, nb, retries, result>>

\* None exists: the cache is aged and a complete one is created, memory permitting.
UpdateNew(i) ==
    /\ table[i] = NIL
    /\ \E c \in ArpCacheAging :
          \/ CacheIs(c)
          \/ \E e \in Free(c.table) :
                CacheIs([table |-> [c.table EXCEPT ![i] = e], complete |-> c.complete \cup {e}])
    /\ UNCHANGED queryVars

NutArpCacheUpdate(i) == UpdateKnown(i) \/ UpdateNew(i)

-----------------------------------------------------------------------------

Next ==
    \/ \E t \in Caller, i \in Ip : NutArpCacheQuery(t, i)
    \/ \E t \in Caller : Sent(t) \/ SendFailed(t) \/ Timeout(t) \/ Continue(t)
    \/ \E i \in Ip : NutArpCacheUpdate(i)

Spec == Init /\ [][Next]_vars

\* The driver's output returns, waits end by time-out and ready threads run.
FairSpec ==
    /\ Spec
    /\ \A t \in Caller : WF_vars(Sent(t) \/ SendFailed(t) \/ Timeout(t) \/ Continue(t))

-----------------------------------------------------------------------------
(* Properties.                                                             *)

TypeOK ==
    /\ table \in [Ip -> Entry \cup {NIL}]
    /\ complete \subseteq Cached(table)
    /\ place \in [Caller -> {"idle", "output", "wait", "woken"}]
    /\ ip \in [Caller -> Ip \cup {NIL}]
    /\ entry \in [Caller -> Entry \cup {NIL}]
    /\ nb \subseteq Caller
    /\ retries \in [Caller -> 0 .. MaxRequests]
    /\ result \in [Caller -> {"none", "ok", "fail"}]

\* An entry that waits for a reply is the business of exactly one query, which
\* will remove it if none comes (arpcache.c:536-545): nobody waits for requests
\* that no thread sends, and no incomplete entry stays in the table for ever.
NoOrphan ==
    \A i \in Ip : table[i] \in Cached(table) \ complete =>
        Cardinality({t \in nb : ip[t] = i}) = 1

\* A thread about to wait or waiting at an entry (arpcache.c:525) holds the
\* entry of its address, though other threads removed entries and the memory
\* was used again meanwhile.
EntryValid ==
    \A t \in Caller : place[t] \in {"output", "wait"} =>
        entry[t] # NIL /\ table[ip[t]] = entry[t]

\* A reply is never lost (arpcache.c:486, 530): once the address of a query is
\* resolved the query succeeds, even if it was its last retry, and fails only
\* if its own request could not be sent.
ReplyCounts ==
    [][\A t \in Caller :
          place[t] # "idle" /\ table[ip[t]] \in complete /\ place'[t] = "idle" =>
              result'[t] = "ok" \/ place[t] = "output"]_vars

\* Every query ends (arpcache.c:508): the retries are bounded though the entry
\* may be removed and created by others again and again while it waits.
EveryQueryEnds == \A t \in Caller : place[t] # "idle" ~> place[t] = "idle"

=============================================================================
