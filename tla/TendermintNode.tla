--------------------------- MODULE TendermintNode ----------------------------
(* The actions and guards of the Tendermint-P2P state machine, as operators on
   the state of one validator.  A handler takes a node record s (the contract's
   storage and its block store), and returns the record it leaves behind, with
   the messages it broadcast added to s.out; s.ok is FALSE when the call
   reverted.  Operators carry the names of the functions they model. *)
EXTENDS ProposerQueue, FiniteSets

CONSTANTS
    MaxTerm,    \* bound: no node goes beyond this round number
    MaxHeight,  \* bound: no block is proposed above this height
    MaxBlocks   \* bound: no more blocks than this are ever built

ASSUME BoundsAssumption ==
    MaxTerm \in Nat /\ MaxHeight \in Nat \ {0} /\ MaxBlocks \in Nat

LOG_START == 1
Heights == LOG_START .. MaxHeight + 1

(* A block hash is the ordinal of the block among all blocks ever built. *)
Hash == 1 .. MaxBlocks
NoHash == 0      \* ""
Nil == -1        \* "nil"

(* A vote slot whose validator address was never filled in. *)
Unaddressed == -2

NoEntry == [index |-> 0, termId |-> 0, leaderId |-> 0, hash |-> NoHash, parent |-> NoHash]
NoBlock == [hash |-> NoHash, parent |-> NoHash]
EmptyPrevotes == [v \in Nodes |-> NoHash]
EmptyPrecommits(hash) == [v \in Nodes |-> [termId |-> 0, hash |-> hash]]

(* The precommit array map has no array for the height. *)
NoPrecommits == <<>>

Rounds == 0 .. MaxTerm
AnyHash == Hash \cup {NoHash}
Slots == [Nodes -> [termId : Rounds, hash : AnyHash \cup {Nil, Unaddressed}]] \cup {NoPrecommits}
Entry(hashes) ==
    [index : 0 .. MaxHeight, termId : Rounds, leaderId : Nodes, hash : hashes, parent : AnyHash]

(* What is broadcast: no vote for the empty hash, and no proposal or commit
   without a block. *)
Message ==
    [type : {"prevote", "precommit"}, from : Nodes, termId : Rounds, index : Heights,
     hash : Hash \cup {Nil}]
    \cup [type : {"proposal"}, from : Nodes, termId : Rounds, proposerIndex : Nodes,
          proposerQueue : [Nodes -> Nat], entry : Entry(Hash)]
    \cup [type : {"commit"}, index : 0 .. MaxHeight, hash : Hash, entry : Entry(Hash)]

NodeState ==
    [fsm : {"unstarted", "active", "prevote", "precommit", "commit"}, termId : Rounds,
     nextHeight : Heights, nextHash : AnyHash,
     lockedValue : Heights \cup {0}, lockedRound : Rounds,
     validValue : Heights \cup {0}, validRound : Rounds,
     lastRound : Rounds, lastSigs : Slots,
     proposerIndex : Nodes, proposerQueue : [Nodes -> Nat], proposerQueueTermId : Rounds,
     lastLogIndex : 0 .. MaxHeight, logs : [Heights -> Entry(AnyHash)],
     lastBlockIndex : LOG_START .. MaxHeight,
     blocks : [Heights -> [hash : AnyHash, parent : AnyHash]],
     prevotes : [Nodes -> AnyHash \cup {Nil}], precommits : Slots,
     out : SUBSET Message, ok : BOOLEAN]

InitNode ==
    [fsm |-> "unstarted", termId |-> 0,
     nextHeight |-> LOG_START + 1, nextHash |-> NoHash,
     lockedValue |-> 0, lockedRound |-> 0, validValue |-> 0, validRound |-> 0,
     lastRound |-> 0, lastSigs |-> NoPrecommits,
     proposerIndex |-> 0, proposerQueue |-> [v \in Nodes |-> 0], proposerQueueTermId |-> 0,
     lastLogIndex |-> LOG_START, logs |-> [h \in Heights |-> NoEntry],
     lastBlockIndex |-> LOG_START, blocks |-> [h \in Heights |-> NoBlock],
     prevotes |-> EmptyPrevotes, precommits |-> NoPrecommits,
     out |-> {}, ok |-> TRUE]

Send(s, m) == [s EXCEPT !.out = @ \cup {m}]
Revert(s) == [s EXCEPT !.ok = FALSE]

------------------------------------------------------------------------------
(* Logs and the block store *)

(* The entry kept for height h: the temporary block data while it is there,
   else the finalized block.  Its hash is NoHash when there is neither. *)
GetLogEntryAggregate(s, h) ==
    IF s.logs[h].hash # NoHash
    THEN s.logs[h]
    ELSE [s.logs[h] EXCEPT !.hash = s.blocks[h].hash, !.parent = s.blocks[h].parent]

SetLogEntry(s, e) == [s EXCEPT !.logs = [@ EXCEPT ![e.index] = e]]

(* The part of the header checks that tells blocks apart: the height, and the
   block the header builds on (which fixes the app hash and the results hash). *)
VerifyBlockProposal(s, e) ==
    /\ e.index = s.nextHeight
    /\ e.parent = s.blocks[s.lastBlockIndex].hash

AppendLogEntry(s, e) ==
    IF s.lastLogIndex >= e.index
    THEN IF s.logs[e.index].termId < e.termId THEN SetLogEntry(s, e) ELSE Revert(s)
    ELSE IF s.lastLogIndex + 1 # e.index THEN Revert(s)
         ELSE SetLogEntry([s EXCEPT !.lastLogIndex = e.index], e)

(* processAppendEntry(entry): the proposal for the next height. *)
ProcessAppendEntry(s, e) ==
    IF VerifyBlockProposal(s, e)
    THEN [AppendLogEntry(s, e) EXCEPT !.nextHash = e.hash]
    ELSE Revert(s)

StoreNewBlockOutOfOrder(s, e) ==
    IF s.lastLogIndex < e.index THEN [s EXCEPT !.lastLogIndex = e.index]
    ELSE IF s.logs[e.index].termId < e.termId THEN SetLogEntry(s, e)
    ELSE s

------------------------------------------------------------------------------
(* Rounds and proposers *)

IncrementCurrentTerm(s) == [s EXCEPT !.termId = @ + 1]

AdvanceProposer(s, termId) ==
    LET r == AdvanceQueue(s.proposerQueue, s.proposerIndex, termId - s.proposerQueueTermId)
    IN [s EXCEPT !.proposerIndex = r.index, !.proposerQueue = r.queue,
                 !.proposerQueueTermId = termId]

SetRoundProposer(s) ==
    IF s.proposerQueueTermId >= s.termId
    THEN [s EXCEPT !.termId = s.proposerQueueTermId]
    ELSE AdvanceProposer(s, s.termId)

RollbackTermIdWithStateChange(s, termId, m) ==
    [s EXCEPT !.termId = termId, !.proposerQueueTermId = termId,
              !.proposerIndex = m.proposerIndex, !.proposerQueue = m.proposerQueue]

IfSenderIsProposer(s, m) == m.from = s.proposerIndex /\ m.termId = s.termId

IsNextBlockProposal(s, m) ==
    /\ m.entry.index = s.nextHeight
    /\ GetNextProposer(s.proposerQueue).index = m.entry.leaderId

(* The rejections of ifForceProposalReset that leave the state alone. *)
MayForceProposalReset(s, m) ==
    /\ m.termId # s.termId
    /\ m.entry.index = s.nextHeight
    /\ ~(s.lockedValue > 0 /\ s.nextHash # NoHash)

(* Whether it then accepts, and the state the guard leaves in either case: it
   rolls the round back before it knows the answer. *)
IfForceProposalReset(s, m) ==
    \/ s.termId < m.termId
    \/ s.termId - s.lastRound > 2
    \/ s.lastRound = 0

ForceProposalReset(s, m) ==
    IF s.termId > m.termId
    THEN RollbackTermIdWithStateChange(s, m.termId, m)
    ELSE [s EXCEPT !.termId = m.termId]

(* receiveBlockProposal, once the guards let the message in. *)
ReceiveBlockProposal(s, m) ==
    IF m.entry.index < s.nextHeight THEN s
    ELSE IF m.entry.index > s.nextHeight THEN StoreNewBlockOutOfOrder(s, m.entry)
    ELSE LET p == ProcessAppendEntry(s, m.entry)
         IN IF p.ok /\ p.termId > m.entry.termId
            THEN RollbackTermIdWithStateChange(p, m.entry.termId, m)
            ELSE p

------------------------------------------------------------------------------
(* Votes *)

ResetPrevotes(s) == [s EXCEPT !.lockedRound = 0, !.lockedValue = 0]

ResetPrecommits(s) ==
    [s EXCEPT !.precommits = IF @ = NoPrecommits THEN EmptyPrecommits(NoHash) ELSE @]

AddToPrevoteArray(s, v, hash) == [s EXCEPT !.prevotes = [@ EXCEPT ![v] = hash]]

(* A missing array is created with the addresses of the array of the previous
   height, which is there exactly when the last block has signatures. *)
AddToPrecommitArray(s, v, vote) ==
    LET old == IF s.precommits # NoPrecommits THEN s.precommits
               ELSE IF s.lastSigs # NoPrecommits THEN EmptyPrecommits(NoHash)
               ELSE EmptyPrecommits(Unaddressed)
    IN [s EXCEPT !.precommits = [old EXCEPT ![v] = vote]]

Vote(type, s, n, hash) ==
    [type |-> type, from |-> n, termId |-> s.termId, index |-> s.nextHeight, hash |-> hash]

Prevote(s, n, hash) ==
    Send(AddToPrevoteArray(s, n, hash), Vote("prevote", s, n, hash))

Precommit(s, n, hash) ==
    Send(AddToPrecommitArray(s, n, [termId |-> s.termId, hash |-> hash]),
         Vote("precommit", s, n, hash))

(* The mistake of voting without a proposal. *)
SendPrevoteUnset(s, n) == Prevote(s, n, s.nextHash)

SendPrevote(s, n) == IF s.nextHash = NoHash THEN s ELSE Prevote(s, n, s.nextHash)
SendPrevoteNil(s, n) == Prevote(s, n, Nil)
SendPrecommit(s, n) == IF s.nextHash = NoHash THEN s ELSE Precommit(s, n, s.nextHash)
SendPrecommitNil(s, n) == Precommit(s, n, Nil)

ReceivePrevote(s, m) ==
    IF m.index = s.nextHeight THEN AddToPrevoteArray(s, m.from, m.hash) ELSE s

(* The mistake of counting a vote at whatever height it was cast. *)
ReceivePrecommitAnyHeight(s, m) ==
    AddToPrecommitArray(s, m.from, [termId |-> m.termId, hash |-> m.hash])

ReceivePrecommit(s, m) ==
    IF m.index = s.nextHeight
    THEN AddToPrecommitArray(s, m.from, [termId |-> m.termId, hash |-> m.hash])
    ELSE s

(* Of a set M of messages: the validators whose vote is among them, whether they
   are a quorum, more than two thirds of the stake, and the heights at which
   one precommitted one and the same hash. *)
Cast(M, type, index, hash) ==
    {m.from : m \in {k \in M : k.type = type /\ k.index = index /\ k.hash = hash}}

IsQuorum(S) == 3 * Power(S) > 2 * TotalPower

HasQuorum(M, type, index, hash) == IsQuorum(Cast(M, type, index, hash))

Certified(M) == {h \in Heights : \E b \in Hash : HasQuorum(M, "precommit", h, b)}

(* The mistake of taking the stake that may be faulty for a quorum. *)
CalculateVoteAtThird(voters) == Power(voters) >= TotalPower \div 3

(* calculateVote: the stake behind one hash, whatever round the votes are of. *)
CalculateVote(voters) == Power(voters) > BFTThreshold

PrevoteVoters(s, hashes) == {v \in Nodes : s.prevotes[v] \in hashes}

PrecommitVoters(s, hash) ==
    IF s.precommits = NoPrecommits THEN {}
    ELSE {v \in Nodes : s.precommits[v].hash = hash}

(* The mistake of going on to precommits without a proposal. *)
IfPrevoteAnyThresholdUnset(s) == CalculateVote(PrevoteVoters(s, {s.nextHash, Nil}))

IfPrevoteAnyThreshold(s) ==
    s.nextHash # NoHash /\ CalculateVote(PrevoteVoters(s, {s.nextHash, Nil}))

IfPrevoteAcceptThreshold(s) ==
    s.nextHash # NoHash /\ CalculateVote(PrevoteVoters(s, {s.nextHash}))
IfPrecommitAcceptThreshold(s) ==
    s.nextHash # NoHash /\ CalculateVote(PrecommitVoters(s, s.nextHash))

------------------------------------------------------------------------------
(* Finalization *)

(* The mistake of looking at the block of height k alone. *)
CanFinalizeAlone(s, k) ==
    s.nextHeight = s.lastBlockIndex + 1 /\ s.logs[k].index = k /\ s.logs[k].hash # NoHash

(* Heights first .. k are stored and every block passes verification once its
   predecessor is final: the loop over startBlockFinalizationFollower gets to k. *)
CanFinalize(s, k) ==
    LET first == s.lastBlockIndex + 1
    IN /\ s.nextHeight = first
       /\ \A i \in first .. k :
            /\ s.logs[i].index = i /\ s.logs[i].hash # NoHash
            /\ s.logs[i].parent = IF i = first THEN s.blocks[first - 1].hash
                                               ELSE s.logs[i - 1].hash

(* The mistake of leaving the valid block to the state machine to reset. *)
ResetLocksButValid(s) == [s EXCEPT !.lockedValue = 0, !.lockedRound = 0]

ResetLocks(s) ==
    [s EXCEPT !.lockedValue = 0, !.lockedRound = 0, !.validValue = 0, !.validRound = 0]

(* startBlockFinalizationInternal for the blocks up to height k in turn.  The
   proposer queue catches up with the round the node is in, and each block then
   sets that round to its own.  Only the first block can have a precommit array:
   votes are kept for the next height alone. *)
FinalizeUpTo(s, k) ==
    LET heights == s.lastBlockIndex + 1 .. k
        rounds == {s.termId} \cup {s.logs[i].termId : i \in heights \ {k}}
        reached == CHOOSE r \in rounds : \A q \in rounds : q <= r
        q == IF s.proposerQueueTermId < reached THEN AdvanceProposer(s, reached) ELSE s
    IN [ResetLocks(q) EXCEPT
          !.nextHeight = k + 1, !.lastBlockIndex = k,
          !.blocks = [h \in Heights |->
              IF h \in heights THEN [hash |-> s.logs[h].hash, parent |-> s.logs[h].parent]
                               ELSE @[h]],
          !.logs = [h \in Heights |->
              IF h \in heights THEN [@[h] EXCEPT !.hash = NoHash, !.parent = NoHash] ELSE @[h]],
          !.lastRound = s.logs[k].termId, !.termId = s.logs[k].termId,
          !.lastSigs = IF Cardinality(heights) = 1 THEN s.precommits ELSE NoPrecommits,
          !.prevotes = EmptyPrevotes, !.precommits = NoPrecommits]

(* Finalizing reads a commit signature for every slot of the precommit array,
   and reverts on a slot without a validator address. *)
FinalizeThrough(s, last) ==
    LET heights == {k \in s.lastBlockIndex + 1 .. last : CanFinalize(s, k)}
    IN IF heights = {} THEN s
       ELSE IF PrecommitVoters(s, Unaddressed) # {} THEN Revert(s)
       ELSE FinalizeUpTo(s, CHOOSE k \in heights : \A j \in heights : j <= k)

CommitBlock(s) ==
    IF s.nextHeight > s.lastBlockIndex THEN FinalizeThrough(s, s.nextHeight) ELSE s

(* buildCommitMessage counts on commitBlock having moved to the next height. *)
SendCommit(s) ==
    LET e == GetLogEntryAggregate(s, s.nextHeight - 1)
    IN IF s.nextHash = NoHash \/ e.hash = NoHash THEN s
       ELSE [Send(s, [type |-> "commit", index |-> s.nextHeight - 1,
                      hash |-> s.nextHash, entry |-> e])
             EXCEPT !.nextHash = NoHash]

(* The trusted block overwrites whatever is stored for its height. *)
StoreTrusted(s, e) == SetLogEntry([s EXCEPT !.lastLogIndex = e.index], e)

ReceiveCommit(s, m) ==
    IF s.lastBlockIndex >= m.index THEN s
    ELSE IF m.entry.index # s.nextHeight THEN FinalizeThrough(StoreTrusted(s, m.entry), m.index)
    ELSE IF ~VerifyBlockProposal(s, m.entry) THEN Revert(s)
    ELSE FinalizeThrough([StoreTrusted(s, m.entry) EXCEPT !.nextHash = m.entry.hash], m.index)

------------------------------------------------------------------------------
(* Proposing *)

(* A proposal that was not committed is proposed again in this round. *)
ReuseProposal(s, n) ==
    LET h == s.lastLogIndex
        kept == IF s.logs[h].index = 0 THEN s.logs
                ELSE [s.logs EXCEPT ![h] = [@ EXCEPT !.termId = s.termId, !.leaderId = n]]
        cleared == IF h = s.nextHeight /\ s.precommits # NoPrecommits
                   THEN [v \in Nodes |-> [termId |-> 0, hash |->
                            IF s.precommits[v].hash = Unaddressed THEN Unaddressed ELSE NoHash]]
                   ELSE s.precommits
    IN [s EXCEPT !.logs = kept, !.precommits = cleared,
                 !.nextHash = GetLogEntryAggregate(s, h).hash]

(* No block is built without the signatures of the last one, and the hash left
   behind is then that of the last block. *)
SkipProposal(s) == [s EXCEPT !.nextHash = GetLogEntryAggregate(s, s.lastLogIndex).hash]

BuildProposal(s, n, b) ==
    LET e == [index |-> s.lastLogIndex + 1, termId |-> s.termId, leaderId |-> n,
              hash |-> b, parent |-> s.blocks[s.lastBlockIndex].hash]
    IN [SetLogEntry([s EXCEPT !.lastLogIndex = e.index], e) EXCEPT !.nextHash = b]

ProposeBlock(s, n, b) ==
    IF s.validValue > 0 THEN s
    ELSE IF s.lastBlockIndex < s.lastLogIndex THEN ReuseProposal(s, n)
    ELSE IF s.lastSigs = NoPrecommits /\ s.lastLogIndex > LOG_START THEN SkipProposal(s)
    ELSE BuildProposal(s, n, b)

SendBlockProposal(s, n) ==
    LET e == GetLogEntryAggregate(s, s.nextHeight)
    IN IF e.hash = NoHash THEN s
       ELSE Send(s, [type |-> "proposal", from |-> n, termId |-> s.termId,
                     proposerIndex |-> s.proposerIndex, proposerQueue |-> s.proposerQueue,
                     entry |-> e])

------------------------------------------------------------------------------
(* States of the machine that act on entry: the entry actions, then the
   transition its "always" guard opens. *)

CommitAndSend(s) ==
    LET c == CommitBlock(s)
    IN IF c.ok
       THEN [ResetLocks(SendCommit(c)) EXCEPT !.fsm = "commit", !.nextHash = NoHash]
       ELSE c

EnterPrecommit(s) ==
    IF IfPrecommitAcceptThreshold(s) THEN CommitAndSend(s) ELSE [s EXCEPT !.fsm = "precommit"]

LockAndPrecommit(s, n) ==
    [SendPrecommit([s EXCEPT !.lockedValue = s.nextHeight, !.lockedRound = s.termId], n)
     EXCEPT !.validValue = s.nextHeight, !.validRound = s.termId]

EnterPrevote(s, n) ==
    IF IfPrevoteAcceptThreshold(s)
    THEN EnterPrecommit(LockAndPrecommit(s, n))
    ELSE [s EXCEPT !.fsm = "prevote"]

EnterProposer(s, n, b) == EnterPrevote(SendPrevote(SendBlockProposal(ProposeBlock(s, n, b), n), n), n)

EnterActive(s, n, b) ==
    LET r == ResetPrecommits(ResetPrevotes(SetRoundProposer(IncrementCurrentTerm(s))))
    IN IF r.proposerIndex = n THEN EnterProposer(r, n, b) ELSE [r EXCEPT !.fsm = "active"]

==============================================================================
