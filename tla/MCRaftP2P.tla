------------------------------ MODULE MCRaftP2P ------------------------------
(* The messages on their way at once before TLC looks no further. *)
EXTENDS RaftP2P

TwoInFlight == Cardinality(msgs) <= 2
ThreeInFlight == Cardinality(msgs) <= 3
==============================================================================
