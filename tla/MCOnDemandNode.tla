--------------------------- MODULE MCOnDemandNode ----------------------------
(* Two transactions of which one is atomic.  There is room for both in the bytes of a
   block but not in its gas, and one leaves too few bytes for the pool not to be full. *)
EXTENDS OnDemandNode

CONSTANTS t1, a1

GasOfTx == [tx \in Tx |-> IF tx = t1 THEN 2 ELSE 3]
SizeOfTx == [tx \in Tx |-> 2]
LeaderOfTx(tx) == IF tx = a1 THEN "other" ELSE "none"
=============================================================================
