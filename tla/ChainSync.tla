------------------------------ MODULE ChainSync ------------------------------
(* How nodes come to have the chain and the list of nodes: state sync in batches,
   snapshots of the host, commits of the network, node sync, and nodes that become
   validators.  The votes of a round are one step here (Certify): of the rounds the
   nodes only need the blocks, one for a height, the proposals and the queue.

   Positions in lists count from 1, so that id 0 of the code is id 1. *)
EXTENDS BlockStore, SequencesExt, Integers

CONSTANTS
    Node,         \* the nodes, each with the address of its validator
    Founders,     \* the validators of genesis, a sequence of nodes
    Tokens,       \* Tokens[n]: the stake of n once it is a validator
    NoNode,
    SYNC_BATCH,   \* STATE_SYNC_BATCH
    MAX_DELTA,    \* MAX_BLOCK_SYNC_DELTA
    MaxTerm, MaxBlocks, MaxInFlight,
    MaxInterventions   \* bounds; the last on restarts and rollbacks

ASSUME SyncAssumption ==
    /\ SYNC_BATCH \in Nat \ {0} /\ MAX_DELTA \in Nat
    /\ Tokens \in [Node -> Nat]
    /\ Founders \in Seq(Node) /\ Founders # <<>>
    /\ Unchanged \notin Nat /\ Missing \notin Nat

VARIABLES
    chain,          \* the blocks certified so far, from the one after genesis on
    node,           \* node[n]: the storage of the consensus contract of n
    msgs,           \* the messages on their way
    interventions   \* the restarts and rollbacks of operators so far

vars == <<chain, node, msgs, interventions>>

Top == LOG_START + Len(chain)
Block(h) == chain[h - LOG_START]

(* The validators after block h, in the order of the staking contract. *)
ValidatorsAfter(h) ==
    FoldLeft(LAMBDA vs, b : IF b.creates = NoNode THEN vs ELSE Append(vs, b.creates),
             Founders, SubSeq(chain, 1, h - LOG_START))

Validators(s) == ValidatorsAfter(s.nextHeight - 1)

(* The consensus parameters for height h, named by the block that set them. *)
ParamsFor(h) ==
    LET changes == {k \in (LOG_START + 1)..(h - 1) : Block(k).changes}
    IN  IF changes = {} THEN LOG_START ELSE CHOOSE k \in changes : \A j \in changes : j <= k

StakeOf(S) == FoldSet(LAMBDA a, sum : sum + Tokens[a], 0, S)
IsQuorum(S, of) == StakeOf(S) > (2 * StakeOf(of)) \div 3

------------------------------------------------------------------------------
(* A node.  A founder knows the others; any other node itself and one founder. *)
InitNode(n) ==
    LET founder == n \in Range(Founders)
    IN  [fsm |-> "unstarted", termId |-> 0, nextHeight |-> LOG_START + 1,
         executed |-> LOG_START,    \* the block last_block_id, app_hash and last_time are of
         nodes |-> IF founder THEN Founders ELSE <<n, Head(Founders)>>,
         currentNodeId |-> IF founder THEN CHOOSE i \in DOMAIN Founders : Founders[i] = n ELSE 1,
         proposerQueue |-> <<>>, proposerIndex |-> 1, proposerQueueTermId |-> 0,
         lastLogIndex |-> LOG_START, logs |-> {}, store |-> EmptyStore(LOG_START),
         syncing |-> FALSE,         \* the host was asked for a snapshot
         base |-> LOG_START,        \* not of the code: the block of the last snapshot
         mixed |-> FALSE,           \* not of the code: its queue was given a round of another block
         out |-> {}, ok |-> TRUE]

Revert(s) == [s EXCEPT !.ok = FALSE]
Send(s, ms) == [s EXCEPT !.out = @ \cup ms]

Peers(s) == {s.nodes[i] : i \in DOMAIN s.nodes \ {s.currentNodeId}}

(* The queue of proposers keeps the position a validator had when it joined. *)
UpdateProposerQueue(vs, queue) ==
    LET known == {queue[i].address : i \in DOMAIN queue}
        entry(i) == [address |-> vs[i], index |-> i, value |-> Tokens[vs[i]]]
    IN  FoldLeftDomain(LAMBDA q, i : IF vs[i] \in known THEN q ELSE Append(q, entry(i)),
                       [i \in DOMAIN queue |-> [queue[i] EXCEPT !.value = @ + Tokens[queue[i].address]]], vs)

GetNextProposer(vs, queue) ==
    LET q == UpdateProposerQueue(vs, queue)
        first == CHOOSE i \in DOMAIN q : \A j \in DOMAIN q : \/ q[i].value > q[j].value
                                                             \/ q[i].value = q[j].value /\ i <= j
    IN  [index |-> q[first].index, queue |-> [q EXCEPT ![first].value = 0]]

(* The mistake of taking the queue to be one round behind. *)
AdvanceQueueOnce(s, vs, rounds) == GetNextProposer(vs, s.proposerQueue)

AdvanceQueue(s, vs, rounds) ==
    FoldLeft(LAMBDA r, i : GetNextProposer(vs, r.queue),
             [index |-> s.proposerIndex, queue |-> s.proposerQueue], [i \in 1..rounds |-> i])

CatchUp(s) ==
    IF s.proposerQueueTermId >= s.termId THEN s
    ELSE LET r == AdvanceQueue(s, Validators(s), s.termId - s.proposerQueueTermId)
         IN  [s EXCEPT !.proposerIndex = r.index, !.proposerQueue = r.queue,
                       !.proposerQueueTermId = s.termId]

SetRoundProposer(s) ==
    IF s.proposerQueueTermId > s.termId THEN [s EXCEPT !.termId = s.proposerQueueTermId] ELSE CatchUp(s)

NodeInfoComplete(s) == Len(s.nodes) = Len(Validators(s))

(* The proposer stores a block unless its log is ahead of its blocks, and sends what
   its log has for the height: a block it kept may be of an earlier round. *)
Propose(s) ==
    LET h == s.nextHeight
        builds == NodeInfoComplete(s) /\ s.lastLogIndex = s.store.last
        p == IF builds THEN [s EXCEPT !.logs = @ \cup {h}, !.lastLogIndex = h] ELSE s
        n == s.nodes[s.currentNodeId]
    IN  IF h \notin p.logs THEN p
        ELSE Send(p, {[type |-> "proposal", to |-> m, termId |-> s.termId, height |-> h,
                       kept |-> h \in s.logs, proposerId |-> s.currentNodeId,
                       proposerIndex |-> s.proposerIndex, proposerQueue |-> s.proposerQueue,
                       mixed |-> s.mixed] : m \in Node \ {n}})

(* The entry actions of active, and the way through Proposer. *)
EnterActive(s) ==
    LET r == [SetRoundProposer([s EXCEPT !.termId = @ + 1]) EXCEPT !.fsm = "active"]
    IN  IF r.proposerIndex = r.currentNodeId /\ r.nextHeight <= LOG_START + MaxBlocks THEN Propose(r) ELSE r

RequestBlockSync(s, n) ==
    Send(s, {[type |-> "syncRequest", to |-> m, from |-> n, start |-> s.store.last + 1] : m \in Peers(s)})

RegisterValidatorWithNetwork(s, n) ==
    Send(s, {[type |-> "updateNode", to |-> m, address |-> s.nodes[s.currentNodeId]] : m \in Node \ {n}})

SendNodeSyncRequest(s, n) ==
    Send(s, {[type |-> "nodeRequest", to |-> m, from |-> n] : m \in Peers(s)})

UpdateNodeEntry(nodes, a) == IF a \in Range(nodes) THEN nodes ELSE Append(nodes, a)

IfNodeIsValidator(s) ==
    LET vs == Validators(s)
    IN  IF Len(vs) = 1 /\ Len(s.nodes) = 1 /\ s.currentNodeId = 1 THEN TRUE
        ELSE Len(vs) # 1 /\ s.nodes[s.currentNodeId] \in Range(vs)

------------------------------------------------------------------------------
(* Finalization *)

(* The part of the header checks that tells blocks apart: the height, the block
   before, and the consensus parameters. *)
VerifyBlockProposal(s, h) ==
    /\ h = s.nextHeight /\ s.executed = h - 1
    /\ GetConsensusParams(s.store, 0) = ParamsFor(h)

(* startBlockFinalizationInternal of a verified block.  Reading the parameters to
   change reverts where there are none; a node that reads itself in the block
   becomes a validator in a call of its own contract. *)
Finalize(s, n, h) ==
    LET b == Block(h)
        q == CatchUp(s)
        f == [q EXCEPT !.nextHeight = h + 1, !.executed = h, !.termId = b.termId,
                       !.logs = @ \ {h},
                       !.nodes = IF b.creates = NoNode THEN @ ELSE UpdateNodeEntry(@, b.creates),
                       !.store = SetBlock(SaveConsensusParams(@, h + 1, IF b.changes THEN h ELSE Unchanged), h)]
    IN  IF ~MaySetBlock(s.store, h) \/ (b.changes /\ GetConsensusParams(s.store, h) = Missing) THEN Revert(s)
        ELSE IF b.creates = n /\ s.fsm = "Node"
             THEN EnterActive(RequestBlockSync(RegisterValidatorWithNetwork(f, n), n))
        ELSE f

(* startBlockFinalizationFollower, which leaves a block it cannot use alone. *)
FinalizeStored(s, n, h) ==
    IF ~s.ok \/ h \notin s.logs THEN s
    ELSE IF VerifyBlockProposal(s, h) THEN Finalize(s, n, h)
    ELSE IF h = s.nextHeight /\ s.executed = h - 1 /\ GetConsensusParams(s.store, 0) = Missing THEN Revert(s)
    ELSE s

StoreTrusted(s, h) == [s EXCEPT !.logs = @ \cup {h}, !.lastLogIndex = h]

(* processAppendEntry with force, and the block is final. *)
ProcessAndFinalize(s, n, h) ==
    IF ~s.ok THEN s
    ELSE IF ~VerifyBlockProposal(s, h) THEN Revert(s)
    ELSE Finalize(StoreTrusted(s, h), n, h)

Heights(from, to) == [i \in 1..(to - from + 1) |-> from + i - 1]

ReceiveCommit(s, n, h) ==
    IF s.store.last >= h THEN s
    ELSE IF h = s.nextHeight /\ ~VerifyBlockProposal(s, h) THEN Revert(s)
    ELSE FoldLeft(LAMBDA x, i : FinalizeStored(x, n, i), StoreTrusted(s, h), Heights(s.store.last + 1, h))

------------------------------------------------------------------------------
(* Proposals.  The block of m is of round t, which is that of m unless it was kept. *)
RollbackTermIdWithStateChange(s, t, m) ==
    [s EXCEPT !.termId = t, !.proposerQueueTermId = t, !.proposerIndex = m.proposerIndex,
              !.proposerQueue = m.proposerQueue, !.mixed = m.mixed \/ t # m.termId]

(* storeNewBlockOutOfOrder stores only where the log has got to the height before. *)
ReceiveBlockProposal(s, m, t) ==
    LET h == m.height
        stored == [s EXCEPT !.logs = @ \cup {h}, !.lastLogIndex = IF @ < h THEN h ELSE @]
    IN  IF h < s.nextHeight THEN s
        ELSE IF h > s.nextHeight THEN IF h > s.lastLogIndex THEN [s EXCEPT !.lastLogIndex = h] ELSE stored
        ELSE IF ~VerifyBlockProposal(s, h) THEN Revert(s)
        ELSE IF s.termId > t THEN RollbackTermIdWithStateChange(stored, t, m)
        ELSE stored

IfSenderIsProposer(s, m) == m.proposerId = s.proposerIndex /\ m.termId = s.termId

IsNextBlockProposal(s, m) ==
    /\ m.height = s.nextHeight
    /\ m.kept \/ GetNextProposer(Validators(s), s.proposerQueue).index = m.proposerId

MayForceProposalReset(s, m) == m.termId # s.termId /\ m.height = s.nextHeight

ForceProposalReset(s, m) ==
    IF s.termId > m.termId THEN RollbackTermIdWithStateChange(s, m.termId, m)
    ELSE [s EXCEPT !.termId = m.termId]

------------------------------------------------------------------------------
(* State sync *)

(* The entries of a batch are the blocks the sender has, final or still in its log. *)
Batch(s, n, m, first, last) ==
    [type |-> "syncResponse", to |-> m.from, from |-> n, first |-> first, last |-> last,
     top |-> s.store.last, termId |-> s.termId, entries |-> (s.store.blocks \cup s.logs) \cap first..last]

ReceiveStateSyncRequest(s, n, m) ==
    LET last == s.store.last
        firsts == {h \in m.start..last : (h - m.start) % SYNC_BATCH = 0}
    IN  IF last <= LOG_START THEN s
        ELSE IF last < m.start THEN Send(s, {Batch(s, n, m, m.start, last)})
        ELSE IF last - m.start + 1 > MAX_DELTA THEN Send(s, {Batch(s, n, m, m.start, m.start)})
        ELSE Send(s, {Batch(s, n, m, h, IF h + SYNC_BATCH > last THEN last ELSE h + SYNC_BATCH - 1) : h \in firsts})

(* Blocks the node had when the batch came are skipped. *)
ReceiveStateSyncResponse(s, n, m) ==
    LET next == s.store.last + 1
        synced == FoldLeft(LAMBDA x, h : IF h \in m.entries THEN ProcessAndFinalize(x, n, h) ELSE x,
                           s, Heights(next, m.last))
    IN  IF m.top - m.first + 1 > MAX_DELTA THEN [s EXCEPT !.syncing = TRUE]
        ELSE IF s.store.last >= m.last THEN s
        ELSE IF m.entries # {} /\ next \notin m.first..m.last THEN s
        ELSE [synced EXCEPT !.termId = m.termId]

(* A validator asks for the nodes when a batch reaches the last block, whatever
   has become of the batch. *)
RequestValidatorNodeInfoIfSynced(s, n, m) ==
    IF s.ok /\ m.last = m.top THEN SendNodeSyncRequest(s, n) ELSE s

(* The host has brought the node to block h by a snapshot. *)
BootstrapAfterStateSync(s, n, h) ==
    SendNodeSyncRequest([s EXCEPT !.nextHeight = h + 1, !.executed = h, !.lastLogIndex = h,
                                  !.store = Bootstrapped(@, h, ParamsFor(h + 1)),
                                  !.syncing = FALSE, !.base = h], n)

------------------------------------------------------------------------------
(* Node sync *)

ReceiveUpdateNodeRequest(s, n, m) ==
    Send(s, {[type |-> "nodeResponse", to |-> m.from, from |-> n, nodes |-> s.nodes,
              proposerQueue |-> s.proposerQueue, proposerQueueTermId |-> s.proposerQueueTermId,
              proposerIndex |-> s.proposerIndex, mixed |-> s.mixed]})

(* The mistake of keeping the id of before. *)
AdoptNodesOnly(s, nodes) == [s EXCEPT !.nodes = nodes]

(* A node that is in the list takes its position there; only one that has just
   started adds itself. *)
AdoptNodes(s, nodes) ==
    LET self == s.nodes[s.currentNodeId]
        at == {i \in DOMAIN nodes : nodes[i] = self}
    IN  IF at # {} THEN [s EXCEPT !.nodes = nodes, !.currentNodeId = CHOOSE i \in at : \A j \in at : i <= j]
        ELSE IF s.currentNodeId = 1 THEN [s EXCEPT !.nodes = Append(nodes, self), !.currentNodeId = Len(nodes) + 1]
        ELSE s

(* The queue is taken over before the list is looked at. *)
ReceiveUpdateNodeResponse(s, m) ==
    IF m.from \notin Range(Validators(s)) THEN s
    ELSE AdoptNodes([s EXCEPT !.proposerIndex = m.proposerIndex, !.proposerQueue = m.proposerQueue,
                              !.proposerQueueTermId = m.proposerQueueTermId, !.mixed = m.mixed], m.nodes)

UpdateNodeAndReturn(s, m) ==
    IF m.address \notin Range(Validators(s)) THEN Revert(s)
    ELSE [s EXCEPT !.nodes = UpdateNodeEntry(@, m.address)]

------------------------------------------------------------------------------
(* A block of another branch is never certified: rollback takes the last block of
   one node's store.  The state the next block builds on stays the one of the block
   that was taken back. *)
RollbackLast(s, h) ==
    IF ~MayRollbackBlock(s.store, h) THEN Revert(s)
    ELSE [s EXCEPT !.store = RollbackBlock(@, h), !.nextHeight = h, !.executed = h]

Rollback(s, h) ==
    LET r == IF h = s.store.last THEN RollbackLast(s, h) ELSE s
    IN  IF h = s.store.last /\ h \notin s.store.blocks THEN s
        ELSE [r EXCEPT !.logs = @ \ {h}, !.lastLogIndex = h - 1]

------------------------------------------------------------------------------
Init ==
    /\ chain = <<>>
    /\ node = [n \in Node |-> InitNode(n)]
    /\ msgs = {}
    /\ interventions = 0

(* The end of a call of n that received the messages of got.  What it sends may be
   lost; what reverts leaves the storage alone. *)
Install(n, r, got) ==
    /\ node' = IF r.ok THEN [node EXCEPT ![n] = [r EXCEPT !.out = {}]] ELSE node
    /\ \E through \in SUBSET r.out :
        /\ Cardinality((msgs \ got) \cup through) <= MaxInFlight
        /\ msgs' = (msgs \ got) \cup through
    /\ UNCHANGED chain

Started(n) == node[n].fsm # "unstarted"
IsValidator(n) == node[n].fsm \in {"active", "commit"}

Intervene == interventions < MaxInterventions /\ interventions' = interventions + 1

ToValidator(s, n) == EnterActive(RegisterValidatorWithNetwork(s, n))

(* A node enters Node and leaves it at once when it is a validator; in Node, being
   one is not looked at again. *)
Start(n) ==
    LET asked == RequestBlockSync(node[n], n)
    IN  /\ IsValidator(n) => node[n].termId < MaxTerm
        /\ IF Started(n) THEN Intervene ELSE UNCHANGED interventions
        /\ Install(n, IF IsValidator(n) \/ (~Started(n) /\ IfNodeIsValidator(node[n])) THEN ToValidator(asked, n)
                      ELSE [asked EXCEPT !.fsm = "Node"], {})

(* Timeouts of a round. *)
NextRound(n) ==
    /\ IsValidator(n) /\ node[n].termId < MaxTerm
    /\ Install(n, EnterActive(node[n]), {})
    /\ UNCHANGED interventions

(* The validators that agree with p on the round and the height, and may vote. *)
Voters(p) ==
    {m \in Node :
        /\ node[m].fsm = "active"
        /\ \A k \in {"nextHeight", "termId", "proposerIndex"} : node[m][k] = node[p][k]
        /\ VerifyBlockProposal(node[m], node[m].nextHeight)
        /\ NodeInfoComplete(node[m])}

(* A quorum precommits the block that p proposes in its round, which began after
   the last block. *)
Certify(p) ==
    LET s == node[p]
        vs == Range(ValidatorsAfter(Top))
    IN  /\ Len(chain) < MaxBlocks
        /\ s.nextHeight = Top + 1 /\ s.proposerIndex = s.currentNodeId /\ p \in Voters(p)
        /\ \A i \in DOMAIN chain : chain[i].termId < s.termId
        /\ IsQuorum(Voters(p) \cap vs, vs)
        /\ \E a \in (Node \ vs) \cup {NoNode}, changes \in BOOLEAN :
            /\ ~(changes /\ a # NoNode)
            /\ chain' = Append(chain, [termId |-> s.termId, creates |-> a, changes |-> changes])
        /\ UNCHANGED <<node, msgs, interventions>>

(* commitBlock of a validator that counted the precommits. *)
CommitBlock(n) ==
    LET h == node[n].nextHeight
    IN  /\ node[n].fsm = "active" /\ h <= Top /\ node[n].termId >= Block(h).termId
        /\ VerifyBlockProposal(node[n], h)
        /\ Install(n, [FinalizeStored(StoreTrusted(node[n], h), n, h) EXCEPT !.fsm = "commit"], {})
        /\ UNCHANGED interventions

(* A commit that some node sent, late or repeated. *)
Commit(n) ==
    /\ Started(n)
    /\ \E h \in {k \in (LOG_START + 1)..Top : \E m \in Node : node[m].store.last >= k} :
        Install(n, ReceiveCommit(node[n], n, h), {})
    /\ UNCHANGED interventions

Handle(n, m) ==
    LET s == node[n]
    IN  CASE m.type = "syncRequest" -> ReceiveStateSyncRequest(s, n, m)
          [] m.type = "syncResponse" /\ ~IsValidator(n) -> ReceiveStateSyncResponse(s, n, m)
          [] m.type = "syncResponse" /\ IsValidator(n) ->
                RequestValidatorNodeInfoIfSynced(ReceiveStateSyncResponse(s, n, m), n, m)
          [] m.type = "nodeRequest" -> IF IsValidator(n) THEN ReceiveUpdateNodeRequest(s, n, m) ELSE s
          [] m.type = "nodeResponse" -> ReceiveUpdateNodeResponse(s, m)
          [] m.type = "updateNode" -> UpdateNodeAndReturn(s, m)

Receive(m) ==
    /\ m.type # "proposal" /\ Started(m.to)
    /\ Install(m.to, Handle(m.to, m), {m})
    /\ UNCHANGED interventions

(* A proposal, by the state n is in: of the round's proposer; forced on n, with the
   round rolled back also where last_round, which is left open, has it refused; of
   the next proposer after a commit; or turned down, as with a lock. *)
ReceiveProposal(m) ==
    LET n == m.to
        s == node[n]
    IN  /\ m.type = "proposal"
        /\ \E t \in IF m.kept THEN 1..m.termId ELSE {m.termId} :
            \/ /\ IsValidator(n) /\ IfSenderIsProposer(s, m)
               /\ Install(n, ReceiveBlockProposal(s, m, t), {m})
            \/ /\ s.fsm = "active" /\ MayForceProposalReset(s, m)
               /\ Install(n, SetRoundProposer(ReceiveBlockProposal(ForceProposalReset(s, m), m, t)), {m})
            \/ /\ s.fsm = "active" /\ MayForceProposalReset(s, m) /\ s.termId > m.termId
               /\ Install(n, ForceProposalReset(s, m), {m})
            \/ /\ s.fsm = "commit" /\ IsNextBlockProposal(s, m) /\ s.termId < MaxTerm
               /\ LET r == SetRoundProposer([s EXCEPT !.termId = @ + 1])
                  IN  Install(n, [ReceiveBlockProposal(r, m, t) EXCEPT !.fsm = "active"], {m})
            \/ Install(n, s, {m})
        /\ UNCHANGED interventions

Snapshot(n) ==
    /\ node[n].syncing
    /\ \E m \in Node \ {n} : \E h \in (node[n].store.last + 1)..node[m].store.last :
        Install(n, BootstrapAfterStateSync(node[n], n, h), {})
    /\ UNCHANGED interventions

OperatorRollsBack(n) ==
    /\ Intervene
    /\ \E h \in {node[n].store.last, node[n].store.last + 1} :
        LET r == Rollback(node[n], h)
        IN  r.ok /\ node' = [node EXCEPT ![n] = r]
    /\ UNCHANGED <<chain, msgs>>

Next ==
    \/ \E n \in Node : \/ Start(n) \/ NextRound(n) \/ Certify(n) \/ CommitBlock(n) \/ Commit(n)
                       \/ Snapshot(n) \/ OperatorRollsBack(n)
    \/ \E m \in msgs : Receive(m) \/ ReceiveProposal(m)

Spec == Init /\ [][Next]_vars

------------------------------------------------------------------------------
Address == Node \cup {NoNode}
Blocks == LOG_START..(LOG_START + MaxBlocks)

(* A node that joins with a block enters the round after the block's. *)
TermIds == 0..(MaxTerm + MaxBlocks)

TypeOK ==
    /\ chain \in Seq([termId : TermIds, creates : Address, changes : BOOLEAN])
    /\ \A n \in Node :
        /\ node[n].fsm \in {"unstarted", "Node", "active", "commit"}
        /\ node[n].ok /\ node[n].out = {}
        /\ node[n].termId \in TermIds /\ node[n].proposerQueueTermId \in TermIds
        /\ node[n].nextHeight - 1 \in Blocks /\ node[n].logs \subseteq Blocks

(* Whatever batches, commits, snapshots and rollbacks a node has seen, in whatever
   order, its store is the chain from its last snapshot to its height without a gap,
   its log reaches as far, and the consensus parameters it reads are those the chain set.  Only a
   node that rolled back to the block of its snapshot finds none. *)
StoreFollowsChain ==
    \A n \in Node :
        LET s == node[n]
        IN  /\ s.store.last = s.nextHeight - 1 /\ s.store.last <= Top
            /\ (s.base + 1)..s.store.last \subseteq s.store.blocks
            /\ s.store.blocks \subseteq (LOG_START + 1)..s.store.last
            /\ s.lastLogIndex >= s.store.last
            /\ \/ GetConsensusParams(s.store, 0) = ParamsFor(s.nextHeight)
               \/ GetConsensusParams(s.store, 0) = Missing /\ s.nextHeight = s.base + 1

(* A node signs and votes under its id in the list of nodes: the entry there is its
   own, also after a list of another node replaced its own. *)
OwnIdIsOwn ==
    \A n \in Node : LET s == node[n] IN s.currentNodeId \in DOMAIN s.nodes /\ s.nodes[s.currentNodeId] = n

(* As long as the validators are those of genesis, the queue is a function of its
   round: a node that learned blocks by sync, was rolled back by a proposal or took
   over the queue of another expects the same proposer in a round as one that lived
   through it.  The exception is a queue that came, directly or through others, of a
   rollback to the round of a kept block: that pairs the round with the queue of the
   round the block was sent again in. *)
QueuesAgree ==
    (\A i \in DOMAIN chain : chain[i].creates = NoNode) =>
        \A n, m \in Node :
            /\ ~node[n].mixed /\ ~node[m].mixed
            /\ node[n].proposerQueueTermId = node[m].proposerQueueTermId
            => /\ node[n].proposerQueue = node[m].proposerQueue
               /\ node[n].proposerIndex = node[m].proposerIndex
==============================================================================
