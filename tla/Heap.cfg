CONSTANTS
    NIL = NIL
    Region <- MCRegion
    Request = {1, 3, 6}
    NodeSize = 4
    Overhead = 2
    Guard = 0
    NodeMin = 4
    Alignment = 1
    Word = 256
SPECIFICATION Spec
INVARIANTS FreeListSound
PROPERTIES ImplementsAllocator
CHECK_DEADLOCK FALSE
