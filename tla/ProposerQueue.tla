---------------------------- MODULE ProposerQueue ----------------------------
(* Validators, their voting power and the weighted rotation of proposers.
   Validator i is entry i of the staking contract's list and of the node list;
   the set is fixed, bonded and unjailed here, so a validator's index is its
   identity and the queue of ValidatorQueueEntry is a function of that index. *)
EXTENDS Integers

CONSTANTS
    N,      \* number of validators
    Tokens  \* Tokens[v]: the stake of validator v

ASSUME NAssumption == N \in Nat \ {0}

Nodes == 0 .. N - 1

ASSUME TokensAssumption == Tokens \in [Nodes -> Nat]

(* The stake of the validators in S, added up along the validator list. *)
Power(S) ==
    LET sum[k \in 0 .. N] ==
            IF k = 0 THEN 0
                     ELSE sum[k - 1] + (IF k - 1 \in S THEN Tokens[k - 1] ELSE 0)
    IN sum[N]

TotalPower == Power(Nodes)

(* 2/3 of the active stake, rounded down by the integer division of BigInt. *)
BFTThreshold == (2 * TotalPower) \div 3

(* One round: every validator's weight grows by its stake, the first one with
   the largest weight proposes and starts again from zero. *)
GetNextProposer(queue) ==
    LET weight == [v \in Nodes |-> queue[v] + Tokens[v]]
        proposer == CHOOSE v \in Nodes :
                        \A w \in Nodes : \/ weight[v] > weight[w]
                                         \/ weight[v] = weight[w] /\ v <= w
    IN [index |-> proposer, queue |-> [weight EXCEPT ![proposer] = 0]]

(* The loop of setRoundProposer and of the block finalization: getNextProposer
   applied once per round the queue is behind. *)
AdvanceQueue(queue, index, rounds) ==
    LET after[k \in 0 .. rounds] ==
            IF k = 0 THEN [index |-> index, queue |-> queue]
                     ELSE GetNextProposer(after[k - 1].queue)
    IN after[rounds]

==============================================================================
