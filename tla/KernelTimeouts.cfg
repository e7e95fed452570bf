CONSTANTS
    a = a  b = b  c = c  q1 = q1  q2 = q2  t1 = t1  t2 = t2
    App = {a, b}
    Main = a
    Idle = Idle
    Queue = {q1, q2}
    Timer = {t1, t2}
    NIL = NIL
    SIGNALED = SIGNALED
    RunQueue = RunQueue
    Level = {1, 2}
    Default = 2
    Lowest = 3
    Delay = {0, 1, 2}
    MaxLag = 2
    MaxPending = 2
SPECIFICATION Spec
SYMMETRY TimerSymmetry
INVARIANTS PendingAtHead ThreadsPlaced HandlesValid ControlOK StatesAgree
PROPERTIES OrderKept ImplementsEventQueue
