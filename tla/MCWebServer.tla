------------------------------ MODULE MCWebServer ------------------------------
(* Instances of WebServer for TLC.                                            *)
EXTENDS WebServer, TLC

CONSTANTS c1, c2, c3, c4

Split == <<"head", "tail">>
Whole == <<"whole">>
\* stress_test.cpp: each request is followed by bytes that are part of none.
Stress == <<"whole", "junk">>

Patient(s) == [comes |-> TRUE, script |-> s, keepalive |-> FALSE, waits |-> TRUE,
               impatient |-> FALSE, slow |-> FALSE]
Leaving(s) == [Patient(s) EXCEPT !.impatient = TRUE]
Staying(s) == [Patient(s) EXCEPT !.keepalive = TRUE]
Rude(s) == [Leaving(s) EXCEPT !.keepalive = TRUE, !.waits = FALSE]
Slow(f) == [f EXCEPT !.slow = TRUE]
Absent == [Patient(<<>>) EXCEPT !.comes = FALSE]
Crowd(f, g, h, k) == c1 :> f @@ c2 :> g @@ c3 :> h @@ c4 :> k

\* A request in two segments next to two on one connection; whoever comes second
\* may get the descriptor of the one that hung up.
Mixed == Crowd(Slow(Leaving(<<Split>>)), Staying(<<Whole, Whole>>), Absent, Absent)
\* A client that pipelines, so that init() throws away what it sent ahead.
Pipelined == Crowd(Rude(<<Split, Split>>), Slow(Staying(<<Whole>>)), Absent, Absent)
\* A stress_test client.
Stressed == Crowd(Staying(<<Stress, Stress>>), Patient(<<Whole>>), Absent, Absent)
\* Three at once, which is one more than a queue of two places can hold.
Rush == Crowd(Patient(<<Whole>>), Patient(<<Whole>>), Patient(<<Whole>>), Absent)
\* Four, of whom one is more than MAX_FD.
Visits == Crowd(Patient(<<Whole>>), Patient(<<>>), Patient(<<>>), Patient(<<>>))

ManyClients == {Mixed, Pipelined, Stressed, Rush, Visits}
OneEach == {[c \in Conns |-> Patient(<<Whole>>)]}

Alike == Permutations(Conns)
=============================================================================
