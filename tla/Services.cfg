CONSTANTS
    a = a  b = b  c = c  m = m  e = e  s = s  q = q  stray = stray  d1 = d1  t1 = t1  t2 = t2
    Thread = {a, b, c}
    Urgent = {a}
    Root = {m, e, s, q, stray}
    NIL = NIL
    Mutex = {m}
    Condition = {m}
    EventOf <- MCEventOf
    Stray = stray
    Sem = {s}
    InitialValue = 1
    MaxNest = 2
    MaxValue = 1
    MsgQ = {q}
    Mask = 3
    Data = {d1}
    MsgTimer = {t1, t2}
    Reader <- MCReader
SPECIFICATION OneKindSpec
SYMMETRY ServiceSymmetry
CHECK_DEADLOCK FALSE
INVARIANTS MutexExclusive MutexHandedOn SemWaiters EventMeansMessage MessageMeansEvent TimerMessagesOwned
PROPERTIES ImplementsMessageQueue
