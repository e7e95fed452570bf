-------------------------- MODULE ArpCacheProofs ---------------------------
(***************************************************************************)
(* The ARP cache is sound for any number of queries, addresses and entries *)
(* and any number of retries.                                              *)
(***************************************************************************)
EXTENDS ArpCache, FiniteSetTheorems, TLAPS

Live(t) == place[t] # "idle"

\* An entry serves one address.
OneAddress ==
    \A i, j \in Ip : table[i] # NIL /\ table[i] = table[j] => i = j

\* A query under way has an address; one in NutArpOutput owns the request.
QueryOK ==
    \A t \in Caller :
        /\ Live(t) => ip[t] \in Ip
        /\ place[t] = "output" => t \in nb

\* The owner of a request is under way and its address is in the table; no other
\* query owns one for the same address.
OwnerOK ==
    /\ \A t \in nb : Live(t) /\ table[ip[t]] # NIL
    /\ \A t, u \in nb : ip[t] = ip[u] => t = u

\* An incomplete entry has an owner.
Owned ==
    \A i \in Ip : table[i] \in Cached(table) \ complete => \E t \in nb : ip[t] = i

\* The inductive invariant.
IInv == TypeOK /\ OneAddress /\ QueryOK /\ OwnerOK /\ Owned /\ EntryValid

-----------------------------------------------------------------------------
(* The table.                                                              *)

CacheRecord == [table : [Ip -> Entry \cup {NIL}], complete : SUBSET Entry]

\* c is the cache without some of its complete entries that no query uses.
Weaker(c) ==
    /\ c \in CacheRecord
    /\ c.complete \subseteq complete /\ c.complete \subseteq Cached(c.table)
    /\ \A i \in Ip :
          /\ c.table[i] = table[i] \/ (c.table[i] = NIL /\ \A t \in Caller : Live(t) => ip[t] # i)
          /\ c.table[i] \in complete => c.table[i] \in c.complete

LEMMA CompleteIs ==
    ASSUME IInv
    PROVE  complete \subseteq Entry /\ NIL \notin complete
  BY ArpAssumption DEF IInv, TypeOK, Cached

LEMMA CacheWeaker == ASSUME IInv PROVE Weaker(Cache)
<1>1. Cache.table = table /\ Cache.complete = complete
  BY DEF Cache
<1>2. Cache \in CacheRecord
  BY CompleteIs DEF Cache, CacheRecord, IInv, TypeOK
<1>3. complete \subseteq Cached(table)
  BY DEF IInv, TypeOK
<1> QED BY <1>1, <1>2, <1>3 DEF Weaker

LEMMA AgedWeaker == ASSUME IInv, NEW c \in ArpCacheAging PROVE Weaker(c)
<1>1. PICK old \in SUBSET MayBeOld : c = Aged(old)
  BY DEF ArpCacheAging
<1>2. c.table = [i \in Ip |-> IF table[i] \in old THEN NIL ELSE table[i]]
      /\ c.complete = complete \ old
  BY <1>1 DEF Aged, Flushed
<1>3. /\ table \in [Ip -> Entry \cup {NIL}]
      /\ complete \subseteq Entry /\ NIL \notin complete /\ complete \subseteq Cached(table)
  BY CompleteIs DEF IInv, TypeOK
<1>4. c \in CacheRecord
  <2>1. c.table \in [Ip -> Entry \cup {NIL}] /\ c.complete \in SUBSET Entry
    BY <1>2, <1>3
  <2>2. c = [table |-> c.table, complete |-> c.complete]
    BY <1>1 DEF Aged
  <2> QED BY <2>1, <2>2 DEF CacheRecord
<1>5. c.complete \subseteq Cached(c.table)
  BY <1>2, <1>3 DEF Cached
<1>6. ASSUME NEW i \in Ip
      PROVE  /\ c.table[i] = table[i] \/ (c.table[i] = NIL /\ \A t \in Caller : Live(t) => ip[t] # i)
             /\ c.table[i] \in complete => c.table[i] \in c.complete
  <2>1. CASE table[i] \in old
    <3>1. table[i] \notin {table[ip[t]] : t \in {u \in Caller : place[u] # "idle"}}
      BY <1>1, <2>1 DEF MayBeOld
    <3> QED BY <1>2, <1>3, <2>1, <3>1 DEF Live
  <2>2. CASE table[i] \notin old
    BY <1>2, <2>2
  <2> QED BY <2>1, <2>2
<1> QED BY <1>2, <1>4, <1>5, <1>6 DEF Weaker

\* Ageing disturbs no query.
LEMMA WeakerKeeps ==
    ASSUME IInv, NEW c, Weaker(c)
    PROVE  /\ \A t \in Caller : Live(t) => c.table[ip[t]] = table[ip[t]]
           /\ \A i, j \in Ip : c.table[i] # NIL /\ c.table[i] = c.table[j] => i = j
           /\ \A i \in Ip : c.table[i] \in Cached(c.table) \ c.complete
                 => c.table[i] = table[i] /\ table[i] \in Cached(table) \ complete
<1>1. \A t \in Caller : Live(t) => c.table[ip[t]] = table[ip[t]]
  BY DEF IInv, QueryOK, Weaker
<1>2. \A i, j \in Ip : c.table[i] # NIL /\ c.table[i] = c.table[j] => i = j
  BY DEF IInv, OneAddress, Weaker
<1>3. ASSUME NEW i \in Ip, c.table[i] \in Cached(c.table) \ c.complete
      PROVE  c.table[i] = table[i] /\ table[i] \in Cached(table) \ complete
  BY <1>3 DEF Weaker, Cached
<1> QED BY <1>1, <1>2, <1>3

-----------------------------------------------------------------------------
(* Pieces of NutArpCacheQuery.                                             *)

\* A query ends, and the entry of a request it owns is complete.
LEMMA ReturnKeeps ==
    ASSUME IInv, NEW t \in Caller, NEW c, Weaker(c), CacheIs(c),
           NEW rc \in {"ok", "fail"}, Return(t, rc),
           t \in nb => table[ip[t]] \in complete
    PROVE  IInv'
<1>1. /\ table' = c.table /\ complete' = c.complete
      /\ place' = [place EXCEPT ![t] = "idle"] /\ ip' = [ip EXCEPT ![t] = NIL]
      /\ entry' = [entry EXCEPT ![t] = NIL] /\ nb' = nb \ {t}
      /\ retries' = [retries EXCEPT ![t] = 0] /\ result' = [result EXCEPT ![t] = rc]
  BY DEF CacheIs, Return, Forget
<1>2. TypeOK
  BY DEF IInv
<1>3. TypeOK'
  BY <1>1, <1>2, ArpAssumption DEF TypeOK, Weaker, CacheRecord, Cached
<1>4. OneAddress'
  BY <1>1, WeakerKeeps DEF OneAddress
<1>5. /\ ~Live(t)'
      /\ \A u \in Caller \ {t} : /\ place'[u] = place[u] /\ ip'[u] = ip[u] /\ entry'[u] = entry[u]
                                 /\ Live(u)' = Live(u) /\ (Live(u) => table'[ip[u]] = table[ip[u]])
  BY <1>1, <1>2, WeakerKeeps DEF TypeOK, Live
<1>6. QueryOK'
  BY <1>1, <1>5 DEF QueryOK, IInv, Live
<1>7. OwnerOK'
  BY <1>1, <1>2, <1>5 DEF OwnerOK, IInv, TypeOK
<1>8. Owned'
  <2> SUFFICES ASSUME NEW i \in Ip, table'[i] \in Cached(table') \ complete'
               PROVE  \E u \in nb' : ip'[u] = i
    BY DEF Owned
  <2>1. table[i] \in Cached(table) \ complete
    BY <1>1, WeakerKeeps
  <2>2. PICK u \in nb : ip[u] = i
    BY <2>1 DEF Owned, IInv
  <2>3. u # t
    BY <2>1, <2>2
  <2> QED BY <1>1, <1>2, <1>5, <2>2, <2>3 DEF TypeOK
<1>9. EntryValid'
  BY <1>5 DEF EntryValid, IInv, Live
<1> QED BY <1>3, <1>4, <1>6, <1>7, <1>8, <1>9 DEF IInv

\* A query goes on with the incomplete entry that is in the table.
LEMMA BlockKeeps ==
    ASSUME IInv, NEW t \in Caller, NEW c, Weaker(c), CacheIs(c),
           NEW i \in Ip, NEW left \in 0..MaxRequests, c.table[i] # NIL, Live(t) => ip[t] = i,
           Block(t, i, c.table[i], left, nb)
    PROVE  IInv'
<1> DEFINE e == c.table[i]
<1>1. /\ table' = c.table /\ complete' = c.complete
      /\ place' = [place EXCEPT ![t] = IF t \in nb THEN "output" ELSE "wait"]
      /\ ip' = [ip EXCEPT ![t] = i]
      /\ entry' = [entry EXCEPT ![t] = e] /\ nb' = nb
      /\ retries' = [retries EXCEPT ![t] = left] /\ result' = [result EXCEPT ![t] = "none"]
  BY DEF CacheIs, Block
<1>2. TypeOK /\ e \in Entry
  BY DEF IInv, Weaker, CacheRecord
<1>3. TypeOK'
  BY <1>1, <1>2, ArpAssumption DEF TypeOK, Weaker, CacheRecord, Cached
<1>4. OneAddress'
  BY <1>1, WeakerKeeps DEF OneAddress
<1>5. /\ place'[t] \in {"output", "wait"} /\ ip'[t] = i /\ entry'[t] = e /\ table'[i] = e
      /\ \A u \in Caller \ {t} : /\ place'[u] = place[u] /\ ip'[u] = ip[u] /\ entry'[u] = entry[u]
                                 /\ Live(u)' = Live(u) /\ (Live(u) => table'[ip[u]] = table[ip[u]])
  BY <1>1, <1>2, WeakerKeeps DEF TypeOK, Live
<1>6. QueryOK'
  BY <1>1, <1>2, <1>5 DEF QueryOK, IInv, Live, TypeOK
<1>7. t \in nb => ip[t] = i
  BY DEF IInv, OwnerOK
<1>8. OwnerOK'
  <2>1. \A u \in nb : u \in Caller /\ ip'[u] = ip[u]
    BY <1>2, <1>5, <1>7 DEF TypeOK
  <2>2. \A u \in nb : Live(u)' /\ table'[ip'[u]] # NIL
    BY <1>2, <1>5, <1>7, <2>1 DEF OwnerOK, IInv, TypeOK, Live
  <2> QED BY <1>1, <2>1, <2>2 DEF OwnerOK, IInv
<1>9. Owned'
  <2> SUFFICES ASSUME NEW k \in Ip, table'[k] \in Cached(table') \ complete'
               PROVE  \E u \in nb' : ip'[u] = k
    BY DEF Owned
  <2>1. table[k] \in Cached(table) \ complete
    BY <1>1, WeakerKeeps
  <2>2. PICK u \in nb : ip[u] = k
    BY <2>1 DEF Owned, IInv
  <2> QED BY <1>1, <1>2, <1>5, <1>7, <2>2 DEF TypeOK
<1>10. EntryValid'
  BY <1>2, <1>5, ArpAssumption DEF EntryValid, IInv, Live
<1> QED BY <1>3, <1>4, <1>6, <1>8, <1>9, <1>10 DEF IInv

\* A query creates the entry of its address.
LEMMA NewKeeps ==
    ASSUME IInv, NEW t \in Caller, ~Live(t), NEW c, Weaker(c), NEW i \in Ip, c.table[i] = NIL,
           NEW e \in Free(c.table), CacheIs([c EXCEPT !.table[i] = e]),
           Block(t, i, e, MaxRequests - 1, nb \cup {t})
    PROVE  IInv'
<1> USE ArpAssumption
<1>1. /\ table' = [c.table EXCEPT ![i] = e] /\ complete' = c.complete
      /\ place' = [place EXCEPT ![t] = "output"] /\ ip' = [ip EXCEPT ![t] = i]
      /\ entry' = [entry EXCEPT ![t] = e] /\ nb' = nb \cup {t}
      /\ retries' = [retries EXCEPT ![t] = MaxRequests - 1]
      /\ result' = [result EXCEPT ![t] = "none"]
  BY DEF CacheIs, Block, Weaker, CacheRecord
<1>2. TypeOK /\ c.table \in [Ip -> Entry \cup {NIL}] /\ e \in Entry /\ e # NIL /\ t \notin nb
      /\ \A j \in Ip : c.table[j] # e
  BY DEF IInv, Weaker, CacheRecord, Free, Cached, OwnerOK
<1>3. table'[i] = e /\ \A j \in Ip : j # i => table'[j] = c.table[j]
  BY <1>1, <1>2
<1>4. \A u \in Caller : Live(u) => ip[u] # i \/ table[i] = NIL
  BY DEF Weaker, IInv, QueryOK
<1>5. TypeOK'
  <2>1. complete' \subseteq Cached(table')
    <3> SUFFICES ASSUME NEW x \in c.complete PROVE x \in Cached(table')
      BY <1>1
    <3>1. PICK j \in Ip : c.table[j] = x /\ x # NIL
      BY DEF Weaker, Cached
    <3>2. table'[j] = x
      BY <1>3, <3>1
    <3> QED BY <3>1, <3>2 DEF Cached
  <2>2. table' \in [Ip -> Entry \cup {NIL}]
    BY <1>1, <1>2
  <2> QED BY <1>1, <1>2, <2>1, <2>2 DEF TypeOK
<1>6. OneAddress'
  BY <1>2, <1>3, WeakerKeeps DEF OneAddress
<1>7. /\ place'[t] = "output" /\ ip'[t] = i /\ entry'[t] = e
      /\ \A u \in Caller \ {t} : /\ place'[u] = place[u] /\ ip'[u] = ip[u] /\ entry'[u] = entry[u]
                                 /\ Live(u)' = Live(u)
  BY <1>1, <1>2 DEF TypeOK, Live
<1>8. ASSUME NEW u \in Caller, Live(u), table[ip[u]] # NIL
      PROVE  ip[u] # i /\ u # t /\ table'[ip[u]] = table[ip[u]]
  <2>1. ip[u] \in Ip /\ c.table[ip[u]] = table[ip[u]]
    BY <1>8, WeakerKeeps DEF IInv, QueryOK
  <2> QED BY <1>3, <1>8, <2>1
<1>9. QueryOK'
  BY <1>1, <1>7 DEF QueryOK, IInv, Live
<1>10. OwnerOK'
  <2>1. \A u \in nb : u \in Caller /\ u # t /\ ip'[u] = ip[u] /\ ip[u] # i
           /\ Live(u)' /\ table'[ip'[u]] # NIL
    BY <1>2, <1>7, <1>8 DEF OwnerOK, IInv, TypeOK
  <2>2. Live(t)' /\ table'[ip'[t]] # NIL
    BY <1>2, <1>3, <1>7 DEF Live
  <2> QED BY <1>1, <1>7, <2>1, <2>2 DEF OwnerOK, IInv
<1>11. Owned'
  <2> SUFFICES ASSUME NEW k \in Ip, table'[k] \in Cached(table') \ complete'
               PROVE  \E u \in nb' : ip'[u] = k
    BY DEF Owned
  <2>1. CASE k = i
    BY <1>1, <1>7, <2>1
  <2>2. CASE k # i
    <3>1. c.table[k] \in Cached(c.table) \ c.complete
      BY <1>1, <1>3, <2>2 DEF Cached
    <3>2. PICK u \in nb : ip[u] = k
      BY <3>1, WeakerKeeps DEF Owned, IInv
    <3> QED BY <1>1, <1>2, <1>7, <3>2 DEF TypeOK
  <2> QED BY <2>1, <2>2
<1>12. EntryValid'
  <2> SUFFICES ASSUME NEW u \in Caller, place'[u] \in {"output", "wait"}
               PROVE  entry'[u] # NIL /\ table'[ip'[u]] = entry'[u]
    BY DEF EntryValid
  <2>1. CASE u = t
    BY <1>2, <1>3, <1>7, <2>1
  <2>2. CASE u # t
    <3>1. Live(u) /\ table[ip[u]] # NIL /\ entry[u] # NIL /\ table[ip[u]] = entry[u]
      BY <1>7, <2>2 DEF EntryValid, IInv, Live
    <3> QED BY <1>7, <1>8, <2>2, <3>1
  <2> QED BY <2>1, <2>2
<1> QED BY <1>5, <1>6, <1>9, <1>10, <1>11, <1>12 DEF IInv

\* The owner of an unanswered request removes its entry; the others are woken.
LEMMA RemoveKeeps ==
    ASSUME IInv, NEW t \in nb, table[ip[t]] \notin complete, RemoveAndFail(t, table[ip[t]])
    PROVE  IInv'
<1> USE ArpAssumption
<1> DEFINE e == table[ip[t]]
           i == ip[t]
<1>1. TypeOK /\ t \in Caller /\ Live(t) /\ i \in Ip /\ e # NIL
  BY DEF IInv, TypeOK, QueryOK, OwnerOK
<1>2. /\ table' = [k \in Ip |-> IF table[k] = e THEN NIL ELSE table[k]]
      /\ complete' = complete /\ nb' = nb \ {t}
      /\ place' = [u \in Caller |-> IF u = t THEN "idle"
                                    ELSE IF u \in WaitersAt(e) THEN "woken" ELSE place[u]]
      /\ ip' = [ip EXCEPT ![t] = NIL] /\ entry' = [entry EXCEPT ![t] = NIL]
      /\ retries' = [retries EXCEPT ![t] = 0] /\ result' = [result EXCEPT ![t] = "fail"]
  BY DEF RemoveAndFail, Forget, Flushed
<1>3. \A k \in Ip : table'[k] = IF k = i THEN NIL ELSE table[k]
  BY <1>1, <1>2 DEF IInv, OneAddress
<1>4. TypeOK'
  <2>1. complete \subseteq Cached(table')
    <3> SUFFICES ASSUME NEW x \in complete PROVE x \in Cached(table')
      OBVIOUS
    <3>1. PICK k \in Ip : table[k] = x /\ x # NIL
      BY <1>1 DEF TypeOK, Cached
    <3>2. k # i
      BY <3>1
    <3> QED BY <1>3, <3>1, <3>2 DEF Cached
  <2>2. table' \in [Ip -> Entry \cup {NIL}]
    BY <1>1, <1>2 DEF TypeOK
  <2>3. place' \in [Caller -> {"idle", "output", "wait", "woken"}]
    BY <1>1, <1>2 DEF TypeOK
  <2> QED BY <1>1, <1>2, <2>1, <2>2, <2>3 DEF TypeOK
<1>5. OneAddress'
  BY <1>3 DEF OneAddress, IInv
<1>6. /\ place'[t] = "idle"
      /\ \A u \in Caller \ {t} :
            /\ ip'[u] = ip[u] /\ entry'[u] = entry[u]
            /\ place'[u] = place[u] \/ (place'[u] = "woken" /\ Live(u))
            /\ u \in WaitersAt(e) => place'[u] = "woken"
            /\ Live(u)' = Live(u)
  BY <1>1, <1>2 DEF TypeOK, Live, WaitersAt
<1>7. QueryOK'
  BY <1>2, <1>6 DEF QueryOK, IInv, Live
<1>8. OwnerOK'
  <2>1. \A u \in nb' : /\ u \in nb /\ u \in Caller /\ u # t /\ ip'[u] = ip[u] /\ ip[u] \in Ip
                       /\ ip[u] # i /\ Live(u)'
    BY <1>1, <1>2, <1>6 DEF OwnerOK, IInv, TypeOK, QueryOK
  <2> QED BY <1>3, <2>1 DEF OwnerOK, IInv
<1>9. Owned'
  <2> SUFFICES ASSUME NEW k \in Ip, table'[k] \in Cached(table') \ complete'
               PROVE  \E u \in nb' : ip'[u] = k
    BY DEF Owned
  <2>1. k # i /\ table[k] \in Cached(table) \ complete
    BY <1>2, <1>3 DEF Cached
  <2>2. PICK u \in nb : ip[u] = k
    BY <2>1 DEF Owned, IInv
  <2> QED BY <1>1, <1>2, <1>6, <2>1, <2>2 DEF TypeOK
<1>10. EntryValid'
  <2> SUFFICES ASSUME NEW u \in Caller, place'[u] \in {"output", "wait"}
               PROVE  entry'[u] # NIL /\ table'[ip'[u]] = entry'[u]
    BY DEF EntryValid
  <2>1. u # t /\ place[u] = place'[u] /\ u \notin WaitersAt(e)
    BY <1>6
  <2>2. entry[u] # NIL /\ table[ip[u]] = entry[u] /\ ip[u] \in Ip
    BY <2>1 DEF EntryValid, QueryOK, Live, IInv
  <2>3. ip[u] # i
    <3>1. CASE place[u] = "wait"
      BY <2>1, <2>2, <3>1 DEF WaitersAt
    <3>2. CASE place[u] = "output"
      BY <1>1, <2>1, <3>2 DEF IInv, QueryOK, OwnerOK
    <3> QED BY <2>1, <3>1, <3>2
  <2> QED BY <1>3, <1>6, <2>1, <2>2, <2>3
<1> QED BY <1>4, <1>5, <1>7, <1>8, <1>9, <1>10 DEF IInv

\* Only the places of queries change, and none comes to wait or to output that was not
\* there.
LEMMA PlaceKeeps ==
    ASSUME IInv, UNCHANGED <<table, ip, entry, nb, retries, result>>,
           place' \in [Caller -> {"idle", "output", "wait", "woken"}],
           \A t \in Caller : \/ place'[t] = place[t]
                             \/ place[t] = "output" /\ place'[t] = "wait"
                             \/ place[t] = "wait" /\ place'[t] = "woken",
           complete \subseteq complete', complete' \subseteq Cached(table)
    PROVE  IInv'
<1>1. TypeOK'
  BY DEF IInv, TypeOK
<1>2. \A t \in Caller : Live(t)' = Live(t)
  BY DEF Live
<1>3. QueryOK'
  BY <1>2 DEF IInv, QueryOK
<1>4. OwnerOK' /\ OneAddress'
  BY <1>2 DEF IInv, OwnerOK, OneAddress, TypeOK
<1>5. Owned'
  BY DEF IInv, Owned, Cached
<1>6. EntryValid'
  BY DEF IInv, EntryValid
<1> QED BY <1>1, <1>3, <1>4, <1>5, <1>6 DEF IInv

-----------------------------------------------------------------------------
(* The steps.                                                              *)

LEMMA InitIInv == Init => IInv
<1> SUFFICES ASSUME Init PROVE IInv
  OBVIOUS
<1>1. TypeOK
  BY ArpAssumption DEF Init, TypeOK
<1> QED BY <1>1 DEF Init, IInv, OneAddress, QueryOK, OwnerOK, Owned, EntryValid, Live, Cached

\* One turn of the loop, with the entry e of the address in the cache c.
LEMMA RoundKeeps ==
    ASSUME IInv, NEW t \in Caller, NEW c, Weaker(c), NEW i \in Ip, c.table[i] # NIL,
           Live(t) => ip[t] = i, NEW left \in 0..MaxRequests, left = 0 => Live(t),
           left = 0 => c = Cache,
           Round(t, i, c.table[i], left, c)
    PROVE  IInv'
<1> USE ArpAssumption
<1>1. t \in nb => Live(t)
  BY DEF IInv, OwnerOK
<1>2. CASE c.table[i] \notin c.complete /\ left = 0
  <2>1. c = Cache /\ Live(t) /\ ip[t] = i /\ c.table[i] = table[i] /\ table[i] \notin complete
    BY <1>2 DEF Cache
  <2>2. CASE t \in nb
    BY <1>2, <2>1, <2>2, RemoveKeeps DEF Round, GiveUp
  <2>3. CASE t \notin nb
    BY <1>2, <2>1, <2>3, CacheWeaker, ReturnKeeps DEF Round, GiveUp
  <2> QED BY <2>2, <2>3
<1>3. CASE c.table[i] \in c.complete
  <2>1. CacheIs(c) /\ Return(t, "ok")
    BY <1>3 DEF Round
  <2>2. t \in nb => table[ip[t]] \in complete
    BY <1>1, <1>3, WeakerKeeps DEF Weaker
  <2> QED BY <2>1, <2>2, ReturnKeeps
<1>4. CASE c.table[i] \notin c.complete /\ left # 0
  <2>1. CacheIs(c) /\ Block(t, i, c.table[i], left - 1, nb) /\ left - 1 \in 0..MaxRequests
    BY <1>4 DEF Round
  <2> QED BY <2>1, BlockKeeps
<1> QED BY <1>2, <1>3, <1>4

LEMMA QueryKeeps ==
    ASSUME IInv, NEW t \in Caller, NEW i \in Ip, NutArpCacheQuery(t, i) PROVE IInv'
<1> USE ArpAssumption
<1>1. PICK c \in ArpCacheAging : QueryKnown(t, i, c) \/ QueryNew(t, i, c)
  BY DEF NutArpCacheQuery
<1>2. Weaker(c) /\ ~Live(t) /\ t \notin nb
  BY AgedWeaker DEF NutArpCacheQuery, Live, IInv, OwnerOK
<1>3. CASE QueryKnown(t, i, c)
  BY <1>2, <1>3, RoundKeeps DEF QueryKnown
<1>4. CASE QueryNew(t, i, c)
  <2>1. CASE Return(t, "fail") /\ CacheIs(c)
    BY <1>2, <2>1, ReturnKeeps
  <2>2. ASSUME NEW e \in Free(c.table), CacheIs([c EXCEPT !.table[i] = e]),
               Block(t, i, e, MaxRequests - 1, nb \cup {t})
        PROVE  IInv'
    BY <1>2, <1>4, <2>2, NewKeeps DEF QueryNew
  <2> QED BY <1>4, <2>1, <2>2 DEF QueryNew
<1> QED BY <1>1, <1>3, <1>4

LEMMA ContinueKeeps == ASSUME IInv, NEW t \in Caller, Continue(t) PROVE IInv'
<1>1. Live(t) /\ ip[t] \in Ip /\ retries[t] \in 0..MaxRequests
  BY DEF Continue, Live, IInv, QueryOK, TypeOK
<1>2. Weaker(Cache) /\ Cache.table = table
  BY CacheWeaker DEF Cache
<1>3. CASE table[ip[t]] = NIL
  <2>1. t \notin nb
    BY <1>3 DEF IInv, OwnerOK
  <2> QED BY <1>2, <1>3, <2>1, ReturnKeeps DEF Continue, LookupAgain
<1>4. CASE table[ip[t]] # NIL
  <2>1. Round(t, ip[t], table[ip[t]], retries[t], Cache)
    BY <1>4 DEF Continue, LookupAgain
  <2> QED BY <1>1, <1>2, <1>4, <2>1, RoundKeeps
<1> QED BY <1>3, <1>4

LEMMA FailedKeeps == ASSUME IInv, NEW t \in Caller, SendFailed(t) PROVE IInv'
<1>1. t \in nb
  BY DEF SendFailed, IInv, QueryOK
<1>2. CASE table[ip[t]] \in complete
  BY <1>2, CacheWeaker, ReturnKeeps DEF SendFailed
<1>3. CASE table[ip[t]] \notin complete
  BY <1>1, <1>3, RemoveKeeps DEF SendFailed
<1> QED BY <1>2, <1>3

LEMMA WaitKeeps == ASSUME IInv, NEW t \in Caller, Sent(t) \/ Timeout(t) PROVE IInv'
<1>1. TypeOK
  BY DEF IInv
<1>2. /\ UNCHANGED <<table, ip, entry, nb, retries, result>> /\ complete' = complete
      /\ place' = [place EXCEPT ![t] = "wait"] \/ place' = [place EXCEPT ![t] = "woken"]
  BY DEF Sent, Timeout
<1>3. place' \in [Caller -> {"idle", "output", "wait", "woken"}]
  BY <1>1, <1>2 DEF TypeOK
<1>4. \A u \in Caller : \/ place'[u] = place[u]
                        \/ place[u] = "output" /\ place'[u] = "wait"
                        \/ place[u] = "wait" /\ place'[u] = "woken"
  BY <1>1 DEF Sent, Timeout, TypeOK
<1>5. complete \subseteq complete' /\ complete' \subseteq Cached(table)
  BY <1>1, <1>2 DEF TypeOK
<1> QED BY <1>2, <1>3, <1>4, <1>5, PlaceKeeps

LEMMA UpdateKnownKeeps == ASSUME IInv, NEW i \in Ip, UpdateKnown(i) PROVE IInv'
<1>1. TypeOK
  BY DEF IInv
<1>2. place' = [t \in Caller |-> IF t \in WaitersAt(table[i]) THEN "woken" ELSE place[t]]
  BY DEF UpdateKnown
<1>3. place' \in [Caller -> {"idle", "output", "wait", "woken"}]
  BY <1>1, <1>2 DEF TypeOK
<1>4. \A u \in Caller : place'[u] = place[u] \/ (place[u] = "wait" /\ place'[u] = "woken")
  BY <1>2 DEF WaitersAt
<1>5. complete \subseteq complete' /\ complete' \subseteq Cached(table)
  BY <1>1 DEF UpdateKnown, TypeOK, Cached
<1> QED BY <1>3, <1>4, <1>5, PlaceKeeps DEF UpdateKnown

\* An address nobody has asked for, or nobody still asks for, gets a complete entry.
LEMMA UpdateNewKeeps == ASSUME IInv, NEW i \in Ip, UpdateNew(i) PROVE IInv'
<1> USE ArpAssumption
<1>1. PICK c \in ArpCacheAging :
          \/ CacheIs(c)
          \/ \E e \in Free(c.table) :
                CacheIs([table |-> [c.table EXCEPT ![i] = e], complete |-> c.complete \cup {e}])
  BY DEF UpdateNew
<1>2. Weaker(c) /\ TypeOK /\ UNCHANGED queryVars
  BY AgedWeaker DEF UpdateNew, IInv
<1>3. c.table[i] = NIL /\ c.table \in [Ip -> Entry \cup {NIL}]
      /\ c.complete \subseteq Cached(c.table)
  BY <1>2 DEF Weaker, UpdateNew, CacheRecord
<1> DEFINE Grown(f) ==
             /\ complete' = c.complete \cup f /\ complete' \subseteq Cached(table')
             /\ table' \in [Ip -> Entry \cup {NIL}]
             /\ \A j \in Ip : table'[j] = c.table[j] \/ (j = i /\ table'[j] \in complete')
             /\ \A j, k \in Ip : table'[j] # NIL /\ table'[j] = table'[k] => j = k
<1>4. PICK f \in SUBSET Entry : Grown(f)
  <2>1. CASE CacheIs(c)
    <3>1. table' = c.table /\ complete' = c.complete \cup {}
      BY <2>1 DEF CacheIs
    <3>2. Grown({})
      BY <1>2, <1>3, <3>1, WeakerKeeps
    <3> HIDE DEF Grown
    <3> QED BY <3>2
  <2>2. ASSUME NEW e \in Free(c.table),
               CacheIs([table |-> [c.table EXCEPT ![i] = e], complete |-> c.complete \cup {e}])
        PROVE  \E f \in SUBSET Entry : Grown(f)
    <3>1. table' = [c.table EXCEPT ![i] = e] /\ complete' = c.complete \cup {e}
      BY <2>2 DEF CacheIs
    <3>2. e \in Entry /\ e # NIL /\ \A j \in Ip : c.table[j] # e
      BY DEF Free, Cached
    <3>3. table'[i] = e /\ \A j \in Ip : j # i => table'[j] = c.table[j]
      BY <1>3, <3>1
    <3>4. complete' \subseteq Cached(table')
      <4> SUFFICES ASSUME NEW x \in complete' PROVE x \in Cached(table')
        OBVIOUS
      <4>1. CASE x = e
        BY <3>2, <3>3, <4>1 DEF Cached
      <4>2. CASE x # e
        <5>1. PICK j \in Ip : c.table[j] = x /\ x # NIL
          BY <1>3, <3>1, <4>2 DEF Cached
        <5>2. j # i
          BY <1>3, <5>1
        <5> QED BY <3>3, <5>1, <5>2 DEF Cached
      <4> QED BY <4>1, <4>2
    <3>5. table' \in [Ip -> Entry \cup {NIL}]
      BY <1>3, <3>1, <3>2
    <3>6. \A j, k \in Ip : table'[j] # NIL /\ table'[j] = table'[k] => j = k
      BY <1>2, <3>2, <3>3, WeakerKeeps
    <3>7. Grown({e})
      BY <3>1, <3>3, <3>4, <3>5, <3>6
    <3> HIDE DEF Grown
    <3> QED BY <3>2, <3>7
  <2> QED BY <1>1, <2>1, <2>2
<1>5. \A t \in Caller : Live(t) => ip[t] \in Ip /\ (table[ip[t]] # NIL => table'[ip[t]] = table[ip[t]])
  <2> SUFFICES ASSUME NEW t \in Caller, Live(t)
               PROVE  ip[t] \in Ip /\ (table[ip[t]] # NIL => table'[ip[t]] = table[ip[t]])
    OBVIOUS
  <2>1. ip[t] \in Ip /\ c.table[ip[t]] = table[ip[t]]
    BY <1>2, WeakerKeeps DEF IInv, QueryOK
  <2> QED BY <1>3, <1>4, <2>1 DEF UpdateNew
<1>6. TypeOK'
  BY <1>2, <1>4 DEF TypeOK, queryVars
<1>7. OneAddress'
  BY <1>4 DEF OneAddress
<1>8. QueryOK'
  BY <1>2 DEF QueryOK, IInv, queryVars, Live
<1>9. OwnerOK'
  BY <1>2, <1>5 DEF OwnerOK, IInv, queryVars, Live, TypeOK
<1>10. Owned'
  <2> SUFFICES ASSUME NEW k \in Ip, table'[k] \in Cached(table') \ complete'
               PROVE  \E u \in nb' : ip'[u] = k
    BY DEF Owned
  <2>1. table'[k] = c.table[k] /\ c.table[k] \notin c.complete
    BY <1>4
  <2>2. c.table[k] \in Cached(c.table)
    BY <2>1 DEF Cached
  <2>3. table[k] \in Cached(table) \ complete
    BY <1>2, <2>1, <2>2, WeakerKeeps
  <2> QED BY <1>2, <2>3 DEF Owned, IInv, queryVars
<1>11. EntryValid'
  BY <1>2, <1>5 DEF EntryValid, IInv, queryVars, Live
<1> QED BY <1>6, <1>7, <1>8, <1>9, <1>10, <1>11 DEF IInv

LEMMA NextIInv == IInv /\ [Next]_vars => IInv'
<1> SUFFICES ASSUME IInv, [Next]_vars PROVE IInv'
  OBVIOUS
<1>1. ASSUME NEW t \in Caller, NEW i \in Ip, NutArpCacheQuery(t, i) PROVE IInv'
  BY <1>1, QueryKeeps
<1>2. ASSUME NEW t \in Caller, Sent(t) \/ SendFailed(t) \/ Timeout(t) \/ Continue(t) PROVE IInv'
  BY <1>2, WaitKeeps, FailedKeeps, ContinueKeeps
<1>3. ASSUME NEW i \in Ip, NutArpCacheUpdate(i) PROVE IInv'
  BY <1>3, UpdateKnownKeeps, UpdateNewKeeps DEF NutArpCacheUpdate
<1>4. CASE UNCHANGED vars
  BY <1>4 DEF vars, queryVars, IInv, TypeOK, OneAddress, QueryOK, OwnerOK, Owned, EntryValid, Live
<1> QED BY <1>1, <1>2, <1>3, <1>4 DEF Next

-----------------------------------------------------------------------------
(* The theorems.                                                           *)

\* The table, the owners of requests and the pointers of the queries agree in every
\* reachable state of arpcache.c.
THEOREM ArpInvariant == Spec => []IInv
  BY InitIInv, NextIInv, PTL DEF Spec

\* An incomplete entry is the business of exactly one query (NutArpCacheQuery).
THEOREM ArpNoOrphan == Spec => []NoOrphan
<1>1. IInv => NoOrphan
  <2> SUFFICES ASSUME IInv, NEW i \in Ip, table[i] \in Cached(table) \ complete
               PROVE  Cardinality({t \in nb : ip[t] = i}) = 1
    BY DEF NoOrphan
  <2>1. PICK t \in nb : ip[t] = i
    BY DEF IInv, Owned
  <2>2. {u \in nb : ip[u] = i} = {t}
    BY <2>1 DEF IInv, OwnerOK
  <2> QED BY <2>2, FS_Singleton
<1> QED BY <1>1, ArpInvariant, PTL

\* No query waits at an entry that has been removed or serves another address
\* (NutArpCacheQuery).
THEOREM ArpEntryValid == Spec => []EntryValid
<1>1. IInv => EntryValid
  BY DEF IInv
<1> QED BY <1>1, ArpInvariant, PTL

\* A query whose address has been resolved succeeds (NutArpCacheQuery).
THEOREM ArpReplyCounts == Spec => ReplyCounts
<1> DEFINE A(t) == place[t] # "idle" /\ table[ip[t]] \in complete /\ place'[t] = "idle" =>
                       result'[t] = "ok" \/ place[t] = "output"
<1>1. IInv /\ [Next]_vars => [\A t \in Caller : A(t)]_vars
  <2> SUFFICES ASSUME IInv, Next, NEW t \in Caller, place[t] # "idle", place[t] # "output",
                      table[ip[t]] \in complete, place'[t] = "idle"
               PROVE  result'[t] = "ok"
    OBVIOUS
  <2>1. TypeOK /\ ip[t] \in Ip /\ table[ip[t]] # NIL
    BY CompleteIs DEF IInv, QueryOK, Live
  <2>2. ASSUME NEW u \in Caller, NEW i \in Ip, NutArpCacheQuery(u, i) PROVE FALSE
    <3>1. u # t
      BY <2>2 DEF NutArpCacheQuery
    <3>2. PICK c \in ArpCacheAging : QueryKnown(u, i, c) \/ QueryNew(u, i, c)
      BY <2>2 DEF NutArpCacheQuery
    <3>3. place'[t] = place[t] \/ place'[t] = "woken"
      BY <2>1, <3>1, <3>2
         DEF QueryKnown, QueryNew, Round, GiveUp, RemoveAndFail, Return, Block, TypeOK
    <3> QED BY <3>3
  <2>3. ASSUME NEW u \in Caller, Sent(u) \/ Timeout(u) PROVE FALSE
    BY <2>1, <2>3 DEF Sent, Timeout, TypeOK
  <2>4. ASSUME NEW u \in Caller, SendFailed(u) PROVE FALSE
    <3>1. u # t
      BY <2>4 DEF SendFailed
    <3> QED BY <2>1, <2>4, <3>1 DEF SendFailed, RemoveAndFail, Return, TypeOK
  <2>5. ASSUME NEW u \in Caller, Continue(u) PROVE result'[t] = "ok"
    <3>1. CASE u = t
      <4>1. Round(t, ip[t], table[ip[t]], retries[t], Cache) /\ Cache.complete = complete
        BY <2>1, <2>5, <3>1 DEF Continue, LookupAgain, Cache
      <4>2. Return(t, "ok")
        BY <4>1 DEF Round
      <4> QED BY <2>1, <4>2 DEF Return, Forget, TypeOK
    <3>2. CASE u # t
      BY <2>1, <2>5, <3>2 DEF Continue, Round, GiveUp, RemoveAndFail, Return, Block, TypeOK
    <3> QED BY <3>1, <3>2
  <2>6. ASSUME NEW i \in Ip, NutArpCacheUpdate(i) PROVE FALSE
    BY <2>1, <2>6 DEF NutArpCacheUpdate, UpdateKnown, UpdateNew, queryVars
  <2> QED BY <2>2, <2>3, <2>4, <2>5, <2>6 DEF Next
<1> QED BY <1>1, ArpInvariant, PTL DEF Spec, ReplyCounts

=============================================================================
