CONSTANTS
    t1 = t1  t2 = t2  t3 = t3
    NoTimer = NoTimer
    Timer = {t1, t2, t3}
    Interval = {0, 1, 2}
    TickWord = 8
    MaxLag = 2
SPECIFICATION TimerFairSpec
INVARIANT HeadElapsed
PROPERTIES ImplementsTimerService OneShotEnds
