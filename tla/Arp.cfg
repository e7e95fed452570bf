SPECIFICATION FairSpec
CONSTANTS
    Caller = {a, b, c}
    Ip = {i1, i2}
    Entry = {e1, e2, e3}
    MaxRequests = 2
    NIL = NIL
INVARIANTS NoOrphan EntryValid
PROPERTIES ReplyCounts EveryQueryEnds
