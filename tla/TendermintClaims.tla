-------------------------- MODULE TendermintClaims ---------------------------
(* What comments in the code say of the state machine, as properties of the
   model.  Each one is refuted by what the code does. *)
EXTENDS TendermintP2P

(* "we must reset the block precommit signatures": the signatures that go into
   the next block for the block just finalized are all of the round the block
   was finalized in, the only round the commit names. *)
CommitSigsOfRound ==
    \A n, v \in Nodes :
        LET s == node[n]
        IN s.lastSigs # NoPrecommits /\ s.lastSigs[v].hash = s.blocks[s.lastBlockIndex].hash =>
                s.lastSigs[v].termId = s.lastRound

(* "we update the termId & proposer on the proposal and we will reuse it in
   this term": a block is proposed again with the round it is proposed in. *)
ProposalCarriesTerm ==
    \A m \in msgs : m.type = "proposal" => m.entry.termId = m.termId

(* "we store the block temporarily": the log has a block at its last index as
   long as that index is not final. *)
LastProposalStored ==
    \A n \in Nodes :
        LET s == node[n]
        IN s.lastLogIndex > s.lastBlockIndex => s.logs[s.lastLogIndex].index = s.lastLogIndex

(* "we initialize the new block precommit array with the validator addresses
   from an earlier block": no precommit array holds a slot without an address,
   on which the finalization of the block would revert. *)
PrecommitSlotsAddressed ==
    \A n \in Nodes : PrecommitVoters(node[n], Unaddressed) = {}

(* "the difference should always be 1": a block is finalized with a proposer
   queue at most one round behind the node. *)
QueueOneRoundBehind ==
    [][\A n \in Nodes :
        node'[n].lastBlockIndex > node[n].lastBlockIndex =>
            node[n].termId - node[n].proposerQueueTermId <= 1]_vars

(* "if we determine we have not finalized blocks for more than 5 rounds": only
   then does a node go back to the round of an older proposal. *)
RollbackOnlyWhenStuck ==
    [][\A n \in Nodes :
        LET s == node[n]
        IN node'[n].termId < s.termId /\ node'[n].nextHeight = s.nextHeight =>
                s.termId - s.lastRound > 5]_vars

(* "nextHash is set when we have a block proposal for this round": a validator
   that prevotes a hash does so for a block proposed at the height of its vote. *)
PrevoteOfProposal ==
    \A m \in msgs :
        m.type = "prevote" /\ m.hash # Nil =>
            \E k \in msgs : k.type = "proposal" /\ k.entry.index = m.index /\ k.entry.hash = m.hash

==============================================================================
