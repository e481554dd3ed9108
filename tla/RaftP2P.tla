------------------------------- MODULE RaftP2P -------------------------------
(* The RAFT-P2P-1 state machine on every node of a fixed network: elections,
   replication and the commit of one block at a time.  One action is one event
   a node's machine handles, with the entry actions of the state it leads to. *)
EXTENDS Integers, SequencesExt, FiniteSets

CONSTANTS
    N,          \* the nodes are numbered 0 .. N - 1, as in their list
    SyncBatch,  \* how far behind a node may be before the leader drops it
    MaxTerm,    \* bound on elections
    MaxHeight   \* bound on the blocks proposed

ASSUME RaftAssumption ==
    /\ N \in Nat \ {0}
    /\ SyncBatch \in Nat /\ MaxTerm \in Nat /\ MaxHeight \in Nat

VARIABLES
    role,       \* the state of the machine
    term,       \* currentTerm
    votedFor,   \* the last candidate voted for, kept from term to term
    votes,      \* voteIndex: the nodes whose vote was counted
    log,        \* the entries, those already final included
    commit,     \* commitIndex, which is also lastApplied
    chain,      \* the blocks finalized, in the order the application ran them
    nextIndex,  \* nextIndex[l][n]: the next entry l sends to n
    outOfSync,  \* the nodes a node's list marks out of sync
    msgs        \* messages on their way: they arrive in any order, or never

vars == <<role, term, votedFor, votes, log, commit, chain, nextIndex, outOfSync, msgs>>

Node == 0..(N - 1)
Nobody == N
Genesis == [height |-> 0, proposer |-> Nobody]

(* A block is known by its height and its proposer: no log is ever cut, so no
   node proposes two blocks of one height. *)
Hash(b) == [height |-> b.height, proposer |-> b.proposer]
Tip(c) == IF c = <<>> THEN Genesis ELSE Hash(c[Len(c)])

Majority == N \div 2 + 1
Second(a, b) == b
Smaller(a, b) == IF a < b THEN a ELSE b
Active(n, m) == m \notin outOfSync[n]

Init ==
    /\ role = [n \in Node |-> "Follower"]
    /\ term = [n \in Node |-> 0]
    /\ votedFor = [n \in Node |-> Nobody]
    /\ votes = [n \in Node |-> {}]
    /\ log = [n \in Node |-> <<>>]
    /\ commit = [n \in Node |-> 0]
    /\ chain = [n \in Node |-> <<>>]
    /\ nextIndex = [l \in Node |-> [n \in Node |-> 1]]
    /\ outOfSync = [n \in Node |-> {}]
    /\ msgs = {}

------------------------------------------------------------------------------
Verified(b, c) == b.parent = Tip(c)

FinalizedUnverified(s, e) == [s EXCEPT !.chain = Append(@, e.block), !.term = e.term]

(* The blocks a node finalizes and the term it ends with.  A block that does
   not extend the application's state is refused; one that does, but is not of
   the next height, makes BeginBlock fail and the call revert. *)
Finalized(s, e) ==
    IF s.reverted \/ ~Verified(e.block, s.chain) THEN s
    ELSE IF e.block.height # Len(s.chain) + 1 THEN [s EXCEPT !.reverted = TRUE]
    ELSE [s EXCEPT !.chain = Append(@, e.block), !.term = e.term]

FinalizedRange(s, entries, from, to) ==
    LET f[i \in (from - 1)..to] ==
            IF i < from THEN s
            ELSE IF i > Len(entries) THEN f[i - 1] ELSE Finalized(f[i - 1], entries[i])
    IN  IF from <= to THEN f[to] ELSE s

AppendedOver(l, first, entries) ==
    IF entries = <<>> THEN l ELSE SubSeq(l, 1, first - 1) \o entries

(* Entries a log has already are skipped, whatever they hold. *)
Appended(l, first, entries) ==
    IF entries = <<>> THEN l ELSE l \o SubSeq(entries, Len(l) + 2 - first, Len(entries))

LeavesGap(l, first, entries) == entries # <<>> /\ first > Len(l) + 1

------------------------------------------------------------------------------
VoteRequest(n, m) ==
    [type |-> "voteRequest", to |-> m, candidate |-> n, term |-> term[n] + 1,
     lastIndex |-> Len(log[n])]

(* electionTimeout in Follower. *)
ElectionTimeout(n) ==
    /\ role[n] = "Follower"
    /\ term[n] < MaxTerm
    /\ role' = [role EXCEPT ![n] = "Candidate"]
    /\ term' = [term EXCEPT ![n] = @ + 1]
    /\ votedFor' = [votedFor EXCEPT ![n] = n]
    /\ votes' = [votes EXCEPT ![n] = {n}]
    /\ msgs' = msgs \cup
         {VoteRequest(n, m) : m \in {i \in Node \ {n} : Active(n, i)}}
    /\ UNCHANGED <<log, commit, chain, nextIndex, outOfSync>>

(* electionTimeout in Candidate, without a majority. *)
CandidateTimeout(n) ==
    /\ role[n] = "Candidate"
    /\ Cardinality(votes[n]) < Majority
    /\ role' = [role EXCEPT ![n] = "Follower"]
    /\ UNCHANGED <<term, votedFor, votes, log, commit, chain, nextIndex, outOfSync, msgs>>

VoteResponse(n, candidate, t, granted) ==
    [type |-> "voteResponse", to |-> candidate, from |-> n, term |-> t, granted |-> granted]

(* receiveVoteRequest, which only a Follower handles. *)
Vote(n, m) ==
    LET refused == \/ ~Active(n, m.candidate)
                   \/ m.term < term[n]
                   \/ m.term = term[n] /\ (votedFor[n] # Nobody \/ m.lastIndex < Len(log[n]))
    IN  /\ m.type = "voteRequest"
        /\ role[n] = "Follower"
        /\ term' = IF refused THEN term ELSE [term EXCEPT ![n] = m.term]
        /\ votedFor' = IF refused THEN votedFor ELSE [votedFor EXCEPT ![n] = m.candidate]
        /\ msgs' = (msgs \ {m}) \cup
             {VoteResponse(n, m.candidate, term'[n], ~refused)}
        /\ UNCHANGED <<role, votes, log, commit, chain, nextIndex, outOfSync>>

(* receiveVoteResponse, whatever the term the vote was asked for. *)
ReceiveVoteResponse(n, m) ==
    /\ m.type = "voteResponse"
    /\ role[n] = "Candidate"
    /\ votes' = IF m.granted THEN [votes EXCEPT ![n] = @ \cup {m.from}] ELSE votes
    /\ term' = IF ~m.granted /\ m.term > term[n] THEN [term EXCEPT ![n] = m.term] ELSE term
    /\ msgs' = msgs \ {m}
    /\ UNCHANGED <<role, votedFor, log, commit, chain, nextIndex, outOfSync>>

------------------------------------------------------------------------------
CommitBlocksTooSoon(n, l, next) ==
    LET h == commit[n] + 1
        count == 1 + Cardinality({m \in Node : next[m] >= h})
        s == [chain |-> chain[n], term |-> term[n], reverted |-> FALSE]
    IN  IF Len(l) < h \/ count < Majority THEN [state |-> s, commit |-> commit[n]]
        ELSE [state |-> IF l[h].term = term[n] THEN Finalized(s, l[h]) ELSE s,
              commit |-> h]

CommitBlocksWithoutLeader(n, l, next) ==
    LET h == commit[n] + 1
        count == Cardinality({m \in Node : next[m] > h})
        s == [chain |-> chain[n], term |-> term[n], reverted |-> FALSE]
    IN  IF Len(l) < h \/ count < Majority THEN [state |-> s, commit |-> commit[n]]
        ELSE [state |-> IF l[h].term = term[n] THEN Finalized(s, l[h]) ELSE s,
              commit |-> h]

(* checkCommits: what the leader n finalizes, and whether it moves its commit
   index.  The leader's own entry of nextIndex is counted with the others. *)
CommitBlocks(n, l, next) ==
    LET h == commit[n] + 1
        count == 1 + Cardinality({m \in Node : next[m] > h})
        s == [chain |-> chain[n], term |-> term[n], reverted |-> FALSE]
    IN  IF Len(l) < h \/ count < Majority THEN [state |-> s, commit |-> commit[n]]
        ELSE [state |-> IF l[h].term = term[n] THEN Finalized(s, l[h]) ELSE s,
              commit |-> h]

NewBlock(n) ==
    [height |-> Len(log[n]) + 1, proposer |-> n, parent |-> Tip(chain[n])]

NewEntry(n) == [term |-> term[n], leader |-> n, block |-> NewBlock(n)]

(* proposeBlock: nothing while the last block is not committed. *)
Proposed(n) ==
    IF commit[n] < Len(log[n]) \/ Len(log[n]) >= MaxHeight THEN log[n]
    ELSE Append(log[n], NewEntry(n))

(* The list sent to m carries the marks made before its turn. *)
AppendEntry(n, m, l, next, behind) ==
    [type |-> "heartbeat", to |-> m, leader |-> n, term |-> term[n], first |-> next[m],
     entries |-> SubSeq(l, next[m], Len(l)), leaderCommit |-> commit[n],
     outOfSync |-> outOfSync[n] \cup {i \in behind : i < m}]

(* The entry actions of Leader.active: proposeBlock, sendAppendEntries and
   commitBlocks, from the indexes next. *)
EnterActive(n, next) ==
    LET l == Proposed(n)
        behind == {m \in Node \ {n} : Active(n, m) /\ Len(l) - next[m] > SyncBatch}
        marked == outOfSync[n] \cup behind
        c == CommitBlocks(n, l, next)
    IN  /\ ~c.state.reverted
        /\ log' = [log EXCEPT ![n] = l]
        /\ outOfSync' = [outOfSync EXCEPT ![n] = marked]
        /\ msgs' = msgs \cup {AppendEntry(n, m, l, next, behind) : m \in Node \ ({n} \cup marked)}
        /\ commit' = [commit EXCEPT ![n] = c.commit]
        /\ chain' = [chain EXCEPT ![n] = c.state.chain]
        /\ nextIndex' = [nextIndex EXCEPT ![n] = next]

(* electionTimeout in Candidate, with a majority (isVotedLeader). *)
BecomeLeader(n) ==
    /\ role[n] = "Candidate"
    /\ Cardinality(votes[n]) >= Majority
    /\ role' = [role EXCEPT ![n] = "Leader"]
    /\ EnterActive(n, [m \in Node |-> Len(log[n]) + 1])
    /\ UNCHANGED <<term, votedFor, votes>>

(* heartbeatTimeout in Leader.active. *)
HeartbeatTimeout(n) ==
    /\ role[n] = "Leader"
    /\ EnterActive(n, nextIndex[n])
    /\ UNCHANGED <<role, term, votedFor, votes>>

HeartbeatResponse(n, leader, last) ==
    [type |-> "response", to |-> leader, from |-> n, lastIndex |-> last]

(* receiveHeartbeat: processAppendEntries, then sendHeartbeatResponse. *)
ProcessAppendEntries(n, m) ==
    LET s == FinalizedRange([chain |-> chain[n], term |-> m.term, reverted |-> FALSE],
                            log[n], commit[n] + 1, Smaller(Len(log[n]), m.leaderCommit))
        l == Appended(log[n], m.first, m.entries)
    IN  /\ m.type = "heartbeat"
        /\ role[n] \in {"Follower", "Candidate"}
        /\ ~s.reverted /\ ~LeavesGap(log[n], m.first, m.entries)
        /\ role' = [role EXCEPT ![n] = "Follower"]
        /\ term' = [term EXCEPT ![n] = s.term]
        /\ chain' = [chain EXCEPT ![n] = s.chain]
        /\ commit' = IF m.leaderCommit <= commit[n] THEN commit
                     ELSE [commit EXCEPT ![n] = Smaller(Len(log[n]), m.leaderCommit)]
        /\ log' = [log EXCEPT ![n] = l]
        /\ outOfSync' = [outOfSync EXCEPT ![n] = m.outOfSync]
        /\ msgs' = (msgs \ {m}) \cup
             {HeartbeatResponse(n, m.leader, Len(l))}
        /\ UNCHANGED <<votedFor, votes, nextIndex>>

Acknowledged(n, m) == [nextIndex[n] EXCEPT ![m.from] = m.lastIndex + 1]

(* receiveAppendEntryResponse, then commitBlocks. *)
ReceiveAppendEntryResponse(n, m) ==
    LET next == Acknowledged(n, m)
        c == CommitBlocks(n, log[n], next)
    IN  /\ m.type = "response"
        /\ role[n] = "Leader"
        /\ ~c.state.reverted
        /\ nextIndex' = [nextIndex EXCEPT ![n] = next]
        /\ outOfSync' = [outOfSync EXCEPT ![n] = @ \ {m.from}]
        /\ commit' = [commit EXCEPT ![n] = c.commit]
        /\ chain' = [chain EXCEPT ![n] = c.state.chain]
        /\ msgs' = msgs \ {m}
        /\ UNCHANGED <<role, term, votedFor, votes, log>>

(* A message is lost: on the way, because its receiver is in a state that does
   not handle it, or because handling it reverted. *)
Lose(m) ==
    /\ msgs' = msgs \ {m}
    /\ UNCHANGED <<role, term, votedFor, votes, log, commit, chain, nextIndex, outOfSync>>

Receive(n, m) ==
    \/ Vote(n, m)
    \/ ReceiveVoteResponse(n, m)
    \/ ProcessAppendEntries(n, m)
    \/ ReceiveAppendEntryResponse(n, m)

Next ==
    \/ \E n \in Node : \/ ElectionTimeout(n)
                       \/ CandidateTimeout(n)
                       \/ BecomeLeader(n)
                       \/ HeartbeatTimeout(n)
    \/ \E m \in msgs : Receive(m.to, m) \/ Lose(m)

Spec == Init /\ [][Next]_vars

(* The timers of a leader repeat, and what a node sends again and again gets
   through in the end, however often it is lost. *)
Fairness ==
    \A n \in Node :
        /\ WF_vars(BecomeLeader(n))
        /\ WF_vars(HeartbeatTimeout(n))
        /\ SF_vars(\E m \in msgs : m.to = n /\ ProcessAppendEntries(n, m))
        /\ \A i \in Node :
             SF_vars(\E m \in msgs : m.to = n /\ m.type = "response" /\ m.from = i
                                     /\ ReceiveAppendEntryResponse(n, m))

FairSpec == Spec /\ Fairness

------------------------------------------------------------------------------
Terms == 0..MaxTerm
Indexes == 0..MaxHeight
BlockHash == [height : Indexes, proposer : Node \cup {Nobody}]
Block == [height : Indexes, proposer : Node, parent : BlockHash]
Entry == [term : Terms, leader : Node, block : Block]

Message ==
    [type : {"voteRequest"}, to : Node, candidate : Node, term : Terms, lastIndex : Indexes]
    \cup [type : {"voteResponse"}, to : Node, from : Node, term : Terms, granted : BOOLEAN]
    \cup [type : {"heartbeat"}, to : Node, leader : Node, term : Terms,
          first : 1..(MaxHeight + 1), entries : Seq(Entry), leaderCommit : Indexes,
          outOfSync : SUBSET Node]
    \cup [type : {"response"}, to : Node, from : Node, lastIndex : Indexes]

(* Every variable stays in its type: entries, blocks, indexes, terms and messages. *)
TypeOK ==
    /\ role \in [Node -> {"Follower", "Candidate", "Leader"}]
    /\ term \in [Node -> Terms]
    /\ votedFor \in [Node -> Node \cup {Nobody}]
    /\ votes \in [Node -> SUBSET Node]
    /\ log \in [Node -> Seq(Entry)]
    /\ commit \in [Node -> Indexes]
    /\ chain \in [Node -> Seq(Block)]
    /\ nextIndex \in [Node -> [Node -> 1..(MaxHeight + 1)]]
    /\ outOfSync \in [Node -> SUBSET Node]
    /\ msgs \subseteq Message

(* Whatever the elections left in its log, a node's application only runs a
   block on the state that block was built on, one height at a time:
   verifyBlockProposal is repeated by startBlockFinalizationInternal. *)
ChainLinked ==
    \A n \in Node : \A i \in 1..Len(chain[n]) :
        /\ chain[n][i].height = i
        /\ chain[n][i].parent = IF i = 1 THEN Genesis ELSE Hash(chain[n][i - 1])

(* No node finalizes, or counts as committed, an entry its log lacks, and every
   final block is an entry of the log: a leader's commit index ahead of the
   follower's log (reordered heartbeats) commits no more than is there. *)
CommitWithinLog ==
    \A n \in Node :
        /\ commit[n] <= Len(log[n])
        /\ Len(chain[n]) <= commit[n]
        /\ \A i \in 1..Len(chain[n]) : log[n][i].block = chain[n][i]

(* A leader finalizes a block of its own only when a majority of the nodes have
   a log at least as long: neither the indexes initializeNextIndex presets nor a
   late or reordered answer stand for an entry a node does not have. *)
FinalizedByMajority ==
    [][\A n \in Node :
          /\ role'[n] = "Leader"
          /\ chain'[n] # chain[n]
          /\ chain'[n][Len(chain'[n])].proposer = n
          => Cardinality({m \in Node : Len(log'[m]) >= Len(chain'[n])}) >= Majority]_vars

(* appendLogEntry never replaces an entry and a commit index never falls,
   across elections, heartbeats of deposed leaders and late answers. *)
LogsOnlyGrow ==
    [][\A n \in Node :
          /\ IsPrefix(log[n], log'[n])
          /\ commit'[n] >= commit[n]]_vars

(* Under the first leader, a block it can propose is in the end final on every
   node, however often heartbeats and answers are lost. *)
LeaderFinalizes ==
    \A l, n \in Node : (role[l] = "Leader") ~> (Len(chain[n]) >= MaxHeight - 1)

------------------------------------------------------------------------------
(* config.ts: lastApplied is the "index of highest log entry applied to state
   machine", which startBlockFinalizationLeader and -Follower apply. *)
AppliedIsFinal == \A n \in Node : Len(chain[n]) = commit[n]

(* config.ts: commitIndex is the "index of highest log entry known to be
   committed": on a leader, an entry a majority of the logs reach. *)
CommittedByMajority ==
    \A n \in Node :
        role[n] = "Leader" => Cardinality({m \in Node : Len(log[m]) >= commit[n]}) >= Majority

(* voteInternal: "if we already voted, we do not grant a new vote": a node that
   is in the term of a vote it granted has not voted for another since. *)
OneVotePerTerm ==
    \A v \in {m \in msgs : m.type = "voteResponse" /\ m.granted} :
        term[v.from] = v.term => votedFor[v.from] = v.to

(* voteInternal: "candidate's log is at least as up-to-date as receiver's log"
   whenever a vote is granted. *)
VoteForUpToDate ==
    [][\A n, c \in Node :
          c # n /\ votedFor'[n] = c /\ votedFor[n] # c => Len(log[c]) >= Len(log[n])]_vars
==============================================================================
