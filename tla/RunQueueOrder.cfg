CONSTANTS
    a = a  b = b  c = c  q1 = q1  q2 = q2  t1 = t1  t2 = t2
    App = {a, b}
    Main = a
    Idle = Idle
    Queue = {q1}
    Timer = {t1}
    NIL = NIL
    SIGNALED = SIGNALED
    RunQueue = RunQueue
    Level = {1, 2}
    Default = 2
    Lowest = 3
    Delay = {0, 1}
    MaxLag = 1
    MaxPending = 1
SPECIFICATION Spec
SYMMETRY TimerSymmetry
INVARIANTS RunQueueOrdered
