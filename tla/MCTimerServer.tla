----------------------------- MODULE MCTimerServer -----------------------------
EXTENDS TimerServer, TLC

CONSTANTS t1, t2, t3

\* Two silent clients next to one that talks and leaves
Alike == Permutations({t2, t3})
=============================================================================
