----------------------------- MODULE MCNutTimer -----------------------------
EXTENDS NutTimer, TLC

CONSTANTS t1, t2, t3

TimerSymmetry == Permutations(Timer)
=============================================================================
