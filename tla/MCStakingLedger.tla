--------------------------- MODULE MCStakingLedger ---------------------------
(* Two users with two coins and one, and a validator's commission of a half or,
   written without a point, of two. *)
EXTENDS StakingLedger

CONSTANTS ann, ben

MCGenesis == [u \in User |-> IF u = ann THEN 2 ELSE 1]
MCRates == {[integ |-> 0, digits |-> 5, scale |-> 10], [integ |-> 1, digits |-> 0, scale |-> 1]}

(* One validator is registered; bounds on the stakes and coins that calls of
   more than there is, transfers to oneself and commissions above one make. *)
Few ==
    /\ bonded \subseteq {ann}
    /\ gas.made <= 1 /\ SumOf(gas.bal) + SumOf(rewards.bal) <= 4
    /\ SumOf(staked.validator) <= 3 /\ \A d, v \in User : staked.delegation[d][v] <= 2
    /\ overtaken => gas.made = 0 /\ rewards.supply = 0 /\ gas.bal[FeeCollector] = 0
=============================================================================
