---------------------------- MODULE TendermintP2P ----------------------------
(* A network of validators running the Tendermint-P2P state machine.  One action
   is one event a node's machine handles, from the guard of the transition to
   the last "always" transition it leads to. *)
EXTENDS TendermintNode

VARIABLES
    node,   \* node[n]: the state of validator n
    msgs,   \* every message ever broadcast: any of them can be late, duplicated,
            \* reordered, or never delivered to some node
    built   \* number of blocks built so far, the hash of the last one

vars == <<node, msgs, built>>

Init ==
    /\ node = [n \in Nodes |-> InitNode]
    /\ msgs = {}
    /\ built = 0

(* What a call leaves behind.  When it reverts the node's storage is as before;
   what it broadcast until then is on the network. *)
Install(n, r) ==
    /\ node' = IF r.ok THEN [node EXCEPT ![n] = [r EXCEPT !.out = {}]] ELSE node
    /\ msgs' = msgs \cup r.out
    /\ built' = IF \E m \in r.out : m.type = "proposal" /\ m.entry.hash > built
                THEN built + 1 ELSE built

(* The hash of the block a node builds if this is its turn to. *)
FreshHash == {built + 1} \cap Hash

InState(n, states) == node[n].fsm \in states

Validator == {"active", "prevote", "precommit", "commit"}

Received(n, type) == {m \in msgs : m.type = type /\ m.from # n}

------------------------------------------------------------------------------
(* Rounds are bounded, and none begins once the last height is final. *)
MayEnterRound(n) == node[n].termId < MaxTerm /\ node[n].lastBlockIndex < MaxHeight

EnterRound(n) ==
    /\ MayEnterRound(n)
    /\ \E b \in FreshHash : Install(n, EnterActive(node[n], n, b))

(* start: a node that never ran, and one that is started again. *)
Start(n) == EnterRound(n)

TimeoutPropose(n) ==
    /\ InState(n, {"active"})
    /\ Install(n, EnterPrevote(SendPrevoteNil(node[n], n), n))

TimeoutPrevote(n) ==
    /\ InState(n, {"prevote"})
    /\ \/ /\ IfPrevoteAnyThreshold(node[n])
          /\ Install(n, EnterPrecommit(SendPrecommitNil(node[n], n)))
       \/ /\ ~IfPrevoteAnyThreshold(node[n])
          /\ EnterRound(n)

(* timeoutPrecommit, and roundTimeout in commit. *)
TimeoutRound(n) ==
    /\ InState(n, {"precommit", "commit"})
    /\ EnterRound(n)

------------------------------------------------------------------------------
(* receiveBlockProposal from the proposer of the round. *)
ReceiveProposal(n) ==
    /\ InState(n, {"active", "prevote", "precommit"})
    /\ \E m \in Received(n, "proposal") :
        /\ IfSenderIsProposer(node[n], m)
        /\ LET s == ReceiveBlockProposal(node[n], m)
           IN Install(n, IF s.ok /\ InState(n, {"active"})
                         THEN EnterPrevote(SendPrevote(s, n), n) ELSE s)

(* receiveBlockProposal from another round, forced on this node. *)
ReceiveForcedProposal(n) ==
    /\ InState(n, {"active", "prevote", "precommit"})
    /\ \E m \in Received(n, "proposal") :
        /\ ~IfSenderIsProposer(node[n], m)
        /\ MayForceProposalReset(node[n], m)
        /\ IfForceProposalReset(node[n], m)
        /\ LET s == ReceiveBlockProposal(ForceProposalReset(node[n], m), m)
               v == SendPrevote(SetRoundProposer(ResetPrevotes(s)), n)
           IN Install(n, IF ~s.ok THEN s
                         ELSE IF InState(n, {"precommit"}) THEN EnterPrecommit(v)
                         ELSE EnterPrevote(v, n))

(* The guard turns the proposal down, with the round already rolled back. *)
RejectForcedProposal(n) ==
    /\ InState(n, {"active", "prevote", "precommit"})
    /\ \E m \in Received(n, "proposal") :
        /\ ~IfSenderIsProposer(node[n], m)
        /\ MayForceProposalReset(node[n], m)
        /\ ~IfForceProposalReset(node[n], m)
        /\ Install(n, ForceProposalReset(node[n], m))

(* receiveBlockProposal in commit: the next proposer was faster. *)
ReceiveNextProposal(n) ==
    /\ InState(n, {"commit"})
    /\ MayEnterRound(n)
    /\ \E m \in Received(n, "proposal") :
        /\ IsNextBlockProposal(node[n], m)
        /\ LET r == ResetPrecommits(ResetPrevotes(SetRoundProposer(IncrementCurrentTerm(node[n]))))
               s == ReceiveBlockProposal(r, m)
           IN Install(n, IF s.ok THEN EnterPrevote(SendPrevote(s, n), n) ELSE s)

------------------------------------------------------------------------------
ReceivePrevoteMsg(n) ==
    /\ InState(n, Validator)
    /\ \E m \in Received(n, "prevote") :
        LET s == ReceivePrevote(node[n], m)
        IN Install(n, IF InState(n, {"prevote"}) THEN EnterPrevote(s, n) ELSE s)

ReceivePrecommitMsg(n) ==
    /\ InState(n, {"precommit", "commit"})
    /\ \E m \in Received(n, "precommit") :
        LET s == ReceivePrecommit(node[n], m)
        IN Install(n, IF InState(n, {"precommit"}) THEN EnterPrecommit(s) ELSE s)

ReceiveCommitMsg(n) ==
    /\ InState(n, Validator)
    /\ \E m \in msgs : m.type = "commit" /\ Install(n, ReceiveCommit(node[n], m))

------------------------------------------------------------------------------
Next ==
    \E n \in Nodes :
        \/ Start(n) \/ TimeoutPropose(n) \/ TimeoutPrevote(n) \/ TimeoutRound(n)
        \/ ReceiveProposal(n) \/ ReceiveForcedProposal(n) \/ RejectForcedProposal(n)
        \/ ReceiveNextProposal(n)
        \/ ReceivePrevoteMsg(n) \/ ReceivePrecommitMsg(n) \/ ReceiveCommitMsg(n)

Spec == Init /\ [][Next]_vars

------------------------------------------------------------------------------
TypeOK ==
    /\ node \in [Nodes -> NodeState]
    /\ \A n \in Nodes : node[n].ok /\ node[n].out = {}
    /\ msgs \subseteq Message
    /\ built \in 0 .. MaxBlocks

------------------------------------------------------------------------------
(* A node records a vote for its next height only when the sender really cast
   it at that height: late votes of earlier heights and early ones of later
   heights never fill a slot. *)
VotesWereCast ==
    \A n, v \in Nodes :
        LET s == node[n]
        IN /\ s.prevotes[v] # NoHash => v \in Cast(msgs, "prevote", s.nextHeight, s.prevotes[v])
           /\ s.precommits # NoPrecommits /\ s.precommits[v].hash \notin {NoHash, Unaddressed} =>
                v \in Cast(msgs, "precommit", s.nextHeight, s.precommits[v].hash)

(* A precommit for a block is only broadcast after a quorum prevoted that block
   at that height. *)
PrecommitJustified ==
    \A m \in msgs :
        m.type = "precommit" /\ m.hash # Nil => HasQuorum(msgs, "prevote", m.index, m.hash)

(* A node that is locked, or keeps a valid block, is so at the height it works
   on, and because a quorum prevoted one block there: no lock outlives its
   height, whichever way the node learned that the height is final. *)
LockJustified ==
    \A n \in Nodes :
        \A value \in {node[n].lockedValue, node[n].validValue} \ {0} :
            /\ value = node[n].nextHeight
            /\ \E b \in Hash : HasQuorum(msgs, "prevote", value, b)

(* A node waits for precommits only with a block to commit at hand: the case
   ifPrecommitAcceptThreshold calls impossible. *)
PrecommitHasBlock ==
    \A n \in Nodes : node[n].fsm = "precommit" => node[n].nextHash # NoHash

(* No node has a finalized block at a height unless a quorum precommitted one
   and the same hash there, whatever messages it learned the block from. *)
FinalByQuorum ==
    \A n \in Nodes : \A h \in Heights :
        node[n].blocks[h].hash # NoHash => h \in Certified(msgs)

------------------------------------------------------------------------------
(* The block stores together implement the ledger the application relies on:
   they only grow, each block on top of the one before it, and only at heights
   a quorum certified. *)
Ledger == INSTANCE CertifiedLedger WITH
    Validators <- Nodes,
    Genesis <- LOG_START,
    Last <- MaxHeight + 1,
    height <- [n \in Nodes |-> node[n].lastBlockIndex],
    ledger <- [n \in Nodes |-> node[n].blocks],
    certified <- Certified(msgs)

ImplementsLedger == Ledger!Spec

==============================================================================
