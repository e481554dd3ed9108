---------------------------- MODULE MCChainSync -----------------------------
(* Two founders and a node that joins: the founders are a quorum without it. *)
EXTENDS ChainSync

CONSTANTS f1, f2, j

TwoFounders == <<f1, f2>>
Stake == [n \in Node |-> IF n = j THEN 1 ELSE 4]
==============================================================================
