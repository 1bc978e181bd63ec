---------------------------- MODULE MCProcessPool -----------------------------
(* Two children and two connections: one client leaves in the middle of its     *)
(* line, the other one's line comes in two pieces.                              *)
EXTENDS ProcessPool
CONSTANTS a, b

MCConns == {a, b}
MCRequests == a :> <<"part">> @@ b :> <<"part", "end">>
=============================================================================
