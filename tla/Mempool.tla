------------------------------- MODULE Mempool -------------------------------
(* The pool of transactions a validator proposes from.  Maps keep the order of
   insertion, so they are sequences here; a transaction is its hash. *)
EXTENDS Integers, SequencesExt

CONSTANTS
    Tx,          \* the transactions
    Gas, Size,   \* of each transaction
    Leader(_),   \* the chain an atomic transaction belongs to, or NoLeader
    NoLeader,
    Ours,        \* the identifier of this chain
    MaxGas,      \* of a block
    MaxBytes,    \* of a block
    GasMargin,   \* 50000: a block with less left is full
    BytesMargin, \* 1000
    TempSize     \* tempsize: how many transactions stay known

ASSUME MempoolAssumption ==
    /\ Gas \in [Tx -> Nat] /\ Size \in [Tx -> Nat]
    /\ MaxGas \in Nat /\ MaxBytes \in Nat

EmptyPool == [map |-> <<>>, temp |-> <<>>]

HasSeen(pool, tx) == tx \in Range(pool.map) \cup Range(pool.temp)

Put(s, tx) == IF tx \in Range(s) THEN s ELSE Append(s, tx)

Seen(pool, tx) == [pool EXCEPT !.temp = Put(@, tx)]

Added(pool, tx) == [pool EXCEPT !.map = Put(@, tx)]

DroppedNewest(temp) == IF Len(temp) > TempSize THEN SubSeq(temp, 1, TempSize) ELSE temp

(* dropseen forgets the oldest ones. *)
DropSeen(temp) == IF Len(temp) > TempSize THEN SubSeq(temp, Len(temp) - TempSize + 1, Len(temp)) ELSE temp

Without(pool, tx) ==
    [map |-> SelectSeq(pool.map, LAMBDA x : x # tx), temp |-> DropSeen(pool.temp)]

Removed(pool, txs) == FoldSeq(LAMBDA tx, p : Without(p, tx), pool, txs)

(* addTransactionToMempool: "seen" is kept also when the transaction is not for
   this chain, cannot be included by this node, or fails CheckTx. *)
AddTransaction(pool, tx, accepted) ==
    IF HasSeen(pool, tx) THEN pool
    ELSE IF accepted THEN Added(Seen(pool, tx), tx) ELSE Seen(pool, tx)

------------------------------------------------------------------------------
EmptyBatch == [txs |-> <<>>, gas |-> 0, bytes |-> 0, atomic |-> FALSE, done |-> FALSE]

IsAtomic(tx) == Leader(tx) # NoLeader

KeepsOthers(b) == [b EXCEPT !.gas = 0, !.atomic = TRUE]

(* An atomic transaction goes alone: what was gathered before it is put back,
   but its bytes are still counted. *)
Alone(b) == [b EXCEPT !.txs = <<>>, !.gas = 0, !.atomic = TRUE]

(* One turn of the loop of batch; executing are the atomic transactions that
   are in execution on their leader's chain. *)
Gather(tx, b, executing) ==
    LET a == IF IsAtomic(tx) THEN Alone(b) ELSE b
    IN  IF b.done \/ (IsAtomic(tx) /\ Leader(tx) # Ours /\ tx \notin executing) THEN b
        ELSE IF a.gas + Gas[tx] > MaxGas \/ a.bytes + Size[tx] > MaxBytes
        THEN [a EXCEPT !.done = TRUE]
        ELSE [a EXCEPT !.txs = Append(@, tx), !.gas = @ + Gas[tx], !.bytes = @ + Size[tx],
                       !.done = IsAtomic(tx)]

Batch(pool, executing) ==
    FoldLeft(LAMBDA b, tx : Gather(tx, b, executing), EmptyBatch, pool.map)

SumOf(weight, txs) == FoldLeft(LAMBDA n, tx : n + weight[tx], 0, txs)
GasOf(txs) == SumOf(Gas, txs)
BytesOf(txs) == SumOf(Size, txs)

(* A batch is within the gas and the bytes of a block, and an atomic transaction is
   alone in it. *)
Fits(b) ==
    /\ GasOf(b.txs) <= MaxGas /\ BytesOf(b.txs) <= MaxBytes
    /\ \A i \in DOMAIN b.txs : IsAtomic(b.txs[i]) => Len(b.txs) = 1

(* isBatchFull: some transaction does not fit any more, or hardly anything would. *)
IsBatchFull(pool) ==
    \/ \E i \in 1..Len(pool.map) :
          LET before == SubSeq(pool.map, 1, i) IN GasOf(before) > MaxGas \/ BytesOf(before) > MaxBytes
    \/ MaxGas - GasOf(pool.map) < GasMargin
    \/ MaxBytes - BytesOf(pool.map) < BytesMargin
=============================================================================
