------------------------------ MODULE Governance ------------------------------
(* Proposals: deposits make them go to the vote, and the end of every block removes
   those whose deposit period is over and decides those whose voting period is over.
   Both wait in queues which are read up to the first proposal whose time has not come.

   Deposits are in the one coin proposals accept; the record of who made them is read by
   nothing and left out.  Thresholds and the weights of a
   vote are numbers of tenths. *)
EXTENDS Integers, SequencesExt

CONSTANTS
    Account,          \* depositors and voters
    Stake,            \* the voting tokens of an account
    Coins,            \* what an account has for deposits
    Amounts,          \* the deposits an account makes, and what messages of proposals pay
    Weights,          \* how a weighted vote is split: options -> tenths
    MinDeposit, DepositPeriod, VotingPeriod,
    Quorum, Veto, Threshold,
    StartingId,       \* starting_proposal_id of the genesis
    MaxProposals, MaxTime, MaxVotes   \* bounds on the proposals, the blocks and the votes

Options == {"yes", "abstain", "no", "veto"}

ASSUME GovernanceAssumption ==
    /\ Stake \in [Account -> Nat] /\ Coins \in [Account -> Nat]
    /\ Amounts \subseteq Nat /\ Weights \subseteq [Options -> Nat]
    /\ DepositPeriod \in Nat /\ VotingPeriod \in Nat /\ MinDeposit \in Nat
    /\ StartingId \in Nat /\ MaxProposals \in Nat

VARIABLES
    now,          \* the time of the current block
    ended,        \* the time of the last block that ended
    proposals,    \* the proposals by identifier
    lastId,
    activeDeposit, activeVoting,      \* the queues
    wallet, held, \* the coins of the accounts and of this contract
    spent,        \* no state of the code: what messages of proposals paid of them
    votes         \* how many votes there were

vars == <<now, ended, proposals, lastId, activeDeposit, activeVoting, wallet, held, spent, votes>>

Ids == (StartingId + 1)..(StartingId + MaxProposals)
NoVotes == [o \in Options |-> 0]
Absent == [status |-> "absent"]
Exists(id) == proposals[id] # Absent

Init ==
    /\ now = 1 /\ ended = 0 /\ lastId = StartingId /\ votes = 0
    /\ proposals = [id \in Ids |-> Absent]
    /\ activeDeposit = <<>> /\ activeVoting = <<>>
    /\ wallet = Coins /\ held = 0 /\ spent = 0

------------------------------------------------------------------------------
(* Deposits. *)
Enough(amount) == amount > MinDeposit

InVotingUnended(p) == [p EXCEPT !.status = "voting"]
InVoting(p) == [p EXCEPT !.status = "voting", !.votingEnd = now + VotingPeriod]

PromisedOnly(a, amount) ==
    /\ wallet[a] >= amount
    /\ UNCHANGED <<wallet, held, spent>>

(* The bank refuses a payment that the account cannot make. *)
PayFrom(a, amount) ==
    /\ wallet[a] >= amount
    /\ wallet' = [wallet EXCEPT ![a] = @ - amount]
    /\ held' = held + amount
    /\ UNCHANGED spent

SubmitProposal(a, amount) ==
    LET p == [status |-> "deposit", total |-> amount, tally |-> NoVotes,
              depositEnd |-> now + DepositPeriod, votingEnd |-> 0]
        id == lastId + 1
    IN  /\ id \in Ids
        /\ PayFrom(a, amount)
        /\ lastId' = id
        /\ proposals' = [proposals EXCEPT ![id] = IF Enough(amount) THEN InVoting(p) ELSE p]
        /\ activeDeposit' = IF Enough(amount) THEN activeDeposit ELSE Append(activeDeposit, id)
        /\ activeVoting' = IF Enough(amount) THEN Append(activeVoting, id) ELSE activeVoting
        /\ UNCHANGED <<now, ended, votes>>

RemoveActive(queue, id) == RemoveFirst(queue, id)

Deposit(a, id, amount) ==
    LET p == [proposals[id] EXCEPT !.total = @ + amount]
    IN  /\ proposals[id].status = "deposit"
        /\ PayFrom(a, amount)
        /\ proposals' = [proposals EXCEPT ![id] = IF Enough(p.total) THEN InVoting(p) ELSE p]
        /\ activeVoting' = IF Enough(p.total) THEN Append(activeVoting, id) ELSE activeVoting
        /\ activeDeposit' = IF Enough(p.total) THEN RemoveActive(activeDeposit, id) ELSE activeDeposit
        /\ UNCHANGED <<now, ended, lastId, votes>>

------------------------------------------------------------------------------
(* Votes.  None is remembered: an account adds its stake every time. *)
Tallied(id, amounts) ==
    /\ votes < MaxVotes
    /\ votes' = votes + 1
    /\ proposals' = [proposals EXCEPT ![id].tally = [o \in Options |-> @[o] + amounts[o]]]
    /\ UNCHANGED <<now, ended, lastId, activeDeposit, activeVoting, wallet, held, spent>>

(* A plain vote is taken in any status. *)
DoVote(a, id, option) ==
    /\ Exists(id)
    /\ Tallied(id, [NoVotes EXCEPT ![option] = Stake[a]])

VoteWeighted(a, id, w) ==
    /\ proposals[id].status = "voting"
    /\ Tallied(id, [o \in Options |-> (Stake[a] * w[o]) \div 10])

------------------------------------------------------------------------------
(* The end of a block. *)
SumOf(f) == FoldFunction(LAMBDA x, y : x + y, 0, f)
TotalStake == SumOf(Stake)
Voted(p) == SumOf(p.tally)

Accepted(p) ==
    LET voted == Voted(p)
    IN  /\ voted >= (TotalStake * Quorum) \div 10
        /\ p.tally["veto"] < (voted * Veto) \div 10
        /\ p.tally["yes"] >= (voted * Threshold) \div 10

(* nextEnding: how many at the front of a queue are gone or over. *)
Ending(queue, over) ==
    LET fronts == {n \in 0..Len(queue) : \A i \in 1..n : queue[i] \in over}
    IN  CHOOSE n \in fronts : \A m \in fronts : m <= n

DecidedAgain(queue, n) == queue
SplicedOneMore(queue, n) == SubSeq(queue, n + 2, Len(queue))
Spliced(queue, n) == SubSeq(queue, n + 1, Len(queue))

(* Messages are executed as this contract, whose coins they may pay; those before one
   that fails have paid. *)
PaidBy(executed, amount, to) ==
    /\ amount > 0 => executed # {}
    /\ held >= amount
    /\ held' = held - amount
    /\ spent' = spent + amount
    /\ wallet' = [wallet EXCEPT ![to] = @ + amount]

(* EndBlock, at the time of the block's header: the messages of some of the accepted
   proposals fail.  The first rejected proposal ends the loop. *)
EndBlock(failing, amount, to) ==
    LET nd == Ending(activeDeposit, {id \in Ids : ~Exists(id) \/ proposals[id].depositEnd <= now})
        nv == Ending(activeVoting, {id \in Ids : ~Exists(id) \/ proposals[id].votingEnd <= now})
        expired == Range(SubSeq(activeDeposit, 1, nd))
        decided == {activeVoting[i] : i \in {j \in 1..nv : \A k \in 1..(j - 1) : Accepted(proposals[activeVoting[k]])}}
        Decided(id) == IF ~Accepted(proposals[id]) THEN "rejected"
                       ELSE IF id \in failing THEN "failed" ELSE "passed"
    IN  /\ now < MaxTime
        /\ activeDeposit' = Spliced(activeDeposit, nd)
        /\ activeVoting' = Spliced(activeVoting, nv)
        /\ proposals' = [id \in Ids |->
              IF id \in expired THEN Absent
              ELSE IF id \in decided THEN [proposals[id] EXCEPT !.status = Decided(id)]
              ELSE proposals[id]]
        /\ ended' = now
        /\ now' = now + 1
        /\ PaidBy({id \in decided : Accepted(proposals[id])}, amount, to)
        /\ UNCHANGED <<lastId, votes>>

Next ==
    \/ \E a \in Account, amount \in Amounts : SubmitProposal(a, amount)
    \/ \E a \in Account, id \in Ids, amount \in Amounts : Deposit(a, id, amount)
    \/ \E a \in Account, id \in Ids, option \in Options : DoVote(a, id, option)
    \/ \E a \in Account, id \in Ids, w \in Weights : VoteWeighted(a, id, w)
    \/ \E failing \in SUBSET Range(activeVoting), amount \in Amounts \cup {0}, to \in Account :
          EndBlock(failing, amount, to)

Spec == Init /\ [][Next]_vars

------------------------------------------------------------------------------
Proposal == [status : {"deposit", "voting", "passed", "failed", "rejected"}, total : Nat,
             tally : [Options -> Nat], depositEnd : Nat, votingEnd : Nat]

(* Every variable stays in its type. *)
TypeOK ==
    /\ now \in Nat /\ ended \in Nat /\ votes \in Nat
    /\ proposals \in [Ids -> Proposal \cup {Absent}] /\ lastId \in Nat
    /\ activeDeposit \in Seq(Ids) /\ activeVoting \in Seq(Ids)
    /\ wallet \in [Account -> Nat] /\ held \in Nat /\ spent \in Nat

WithStatus(s) == {id \in Ids : proposals[id].status = s}

(* Every proposal in its deposit period is once in the queue, none is over at a block
   that has ended, and the queue is in the order of their ends, since it is read only up
   to the first that is not over. *)
DepositsExpire ==
    /\ IsInjective(activeDeposit) /\ Range(activeDeposit) = WithStatus("deposit")
    /\ \A id \in WithStatus("deposit") : proposals[id].depositEnd > ended
    /\ \A i, j \in DOMAIN activeDeposit :
          i < j => proposals[activeDeposit[i]].depositEnd <= proposals[activeDeposit[j]].depositEnd

(* The queue of votes holds proposals that are voted on, none twice, and all of those
   whose time has not come. *)
VotingQueued ==
    /\ IsInjective(activeVoting)
    /\ Range(activeVoting) = {id \in WithStatus("voting") : proposals[id].votingEnd > ended}

Deposited == [id \in Ids |-> IF Exists(id) THEN proposals[id].total ELSE 0]

(* This contract has the deposits of all the proposals there are, but for what messages
   of proposals paid of its coins. *)
DepositsHeld == SumOf(Deposited) <= held + spent

(* A proposal is decided once: its messages run once and its status stays, however
   many votes come later. *)
DecidedOnce ==
    [][\A id \in Ids : proposals[id].status \in {"passed", "failed", "rejected"} =>
          proposals'[id].status = proposals[id].status]_vars

(* "check voting period passed and finalize proposal": no proposal is still voted on at a
   block that ended after its voting period. *)
VotesAreDecided == \A id \in WithStatus("voting") : proposals[id].votingEnd > ended
=============================================================================
