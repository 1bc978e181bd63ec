------------------------------- MODULE MCShmChat -------------------------------
(* Instances of ShmChat for TLC.                                               *)
EXTENDS ShmChat

CONSTANTS ann, bob, cy

\* Three silent clients for two places, so that one is turned away or comes when
\* another has left; and two that both talk, one of whom leaves: the other may get its
\* place while what it said is on the way.
MCCrowds == {[comers |-> {ann, bob, cy}, talkers |-> {}, leavers |-> {bob}],
             [comers |-> {bob, cy}, talkers |-> {bob, cy}, leavers |-> {bob}]}
=============================================================================
