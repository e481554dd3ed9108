----------------------------- MODULE MCGovernance -----------------------------
(* Two accounts, of which one has most of the stake. *)
EXTENDS Governance, TLC

CONSTANTS a, b

TheStake == (a :> 1) @@ (b :> 3)
TheCoins == (a :> 1) @@ (b :> 3)
TheWeights == {[NoVotes EXCEPT !["yes"] = 5, !["veto"] = 5], [NoVotes EXCEPT !["yes"] = 10, !["no"] = 10]}
=============================================================================
