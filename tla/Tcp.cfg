SPECIFICATION FairSpec
CONSTANTS
    Active = act
    Passive = pas
    Bytes <- MCBytes
    Capacity <- MCCapacity
    WinSize = 2
    MaxSyn = 1
    MaxSeq = 4
    NIL = NIL
INVARIANTS StreamIntact AckedIsKept EofMeansAll BufferBounded NobodyForgotten
PROPERTIES SmKeepsSocket ClosedSocketsGo
CHECK_DEADLOCK FALSE
