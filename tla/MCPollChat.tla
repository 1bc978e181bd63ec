------------------------------ MODULE MCPollChat -------------------------------
(* Three clients for two places: one that talks and leaves, one that talks,      *)
(* leaves and resets, a third that stops reading, is turned away or gets a       *)
(* descriptor again.                                                             *)
EXTENDS PollChat, TLC
CONSTANTS a, b, d

MCMaxSaid == a :> 2 @@ b :> 1 @@ d :> 0
=============================================================================
