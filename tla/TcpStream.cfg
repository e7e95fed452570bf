SPECIFICATION Spec
CONSTANTS
    Active = act
    Passive = pas
    Bytes <- MCBytes
    Capacity <- MCCapacity
    WinSize = 2
    MaxSyn = 1
    MaxSeq = 4
    NIL = NIL
INVARIANTS StreamInOrder
CHECK_DEADLOCK FALSE
