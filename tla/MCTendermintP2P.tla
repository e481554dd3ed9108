--------------------------- MODULE MCTendermintP2P ---------------------------
(* Stakes and bounds for the small networks TLC explores. *)
EXTENDS TendermintClaims, FiniteSets

Equal == [v \in Nodes |-> 1]

(* Validator 1 has half of the stake of a three-validator network. *)
HeavySecond == [v \in Nodes |-> IF v = 1 THEN 2 ELSE 1]

(* Validator 0 is a quorum by itself. *)
Dominant == [v \in Nodes |-> IF v = 0 THEN 3 ELSE 1]

(* Validator 1 is a quorum by itself, and validator 0 proposes in round 3. *)
DominantSecond == [v \in Nodes |-> IF v = 1 THEN 3 ELSE 1]

(* The messages a larger network exchanges before TLC looks no further. *)
FewMessages == Cardinality(msgs) <= 7

==============================================================================
