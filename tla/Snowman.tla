------------------------------- MODULE Snowman -------------------------------
(* The Snowman-BFT machine on every node of a fixed network.  A node that has a
   block runs rounds of sampling inside one call of its contract: each round
   asks SampleSize other nodes, one after the other, and the transitions of the
   state then repeat the round, go on, or finalize.  What the call changed is
   undone when it fails.  The confidence of other blocks is left out: the guard
   that reads it fails on a missing parameter, which counts as false. *)
EXTENDS Integers, SequencesExt, FiniteSetsExt

CONSTANTS
    Node,        \* the nodes
    SampleSize,  \* sampleSize
    Alpha,       \* alphaThreshold, a percentage
    Beta,        \* betaThreshold
    MaxBlocks,   \* bound on the blocks proposed
    MaxHeight,   \* bound on their heights
    MaxRounds    \* bound on the rounds of a call: the gas it has

ASSUME SnowmanAssumption ==
    /\ IsFiniteSet(Node) /\ Cardinality(Node) > 1
    /\ SampleSize \in Nat \ {0} /\ Alpha \in 1..100 /\ Beta \in Nat \ {0}
    /\ MaxBlocks \in Nat /\ MaxHeight \in Nat /\ MaxRounds \in Nat \ {0}

VARIABLES
    node,     \* the state of a node's contract, that of a call under way included
    saved,    \* the state a failed call goes back to
    call,     \* the call under way: what it asked, heard and ran of its machine
    timer,    \* a node's 500 ms timer is set
    made      \* the number of blocks proposed so far

vars == <<node, saved, call, timer, made>>

N == Cardinality(Node)
NoBlock == [height |-> 0, id |-> 0]
Block == [height: 1..MaxHeight, id: 1..MaxBlocks] \cup {NoBlock}

NoCall == [toAsk |-> {}, answers |-> <<>>, dropProposer |-> 0, dropLimbo |-> 0,
           rounds |-> 0, reached |-> FALSE]

Running(n) == node[n].phase \in {"proposer", "limboProposer"}
Height(n) == Len(node[n].final)

Init ==
    /\ node = [n \in Node |->
         [phase |-> "validator", proposed |-> NoBlock, counter |-> 0, final |-> <<>>]]
    /\ saved = node
    /\ call = [n \in Node |-> NoCall]
    /\ timer = [n \in Node |-> FALSE]
    /\ made = 0

------------------------------------------------------------------------------
ThresholdRoundedDown == (SampleSize * Alpha) \div 100

(* ifMajorityLTAlphaThreshold rounds up, and uses the configured sample size
   also when the network is smaller. *)
Threshold == (SampleSize * Alpha + 99) \div 100

CountOf(answers, b) == Cardinality({i \in DOMAIN answers : answers[i] = b})

(* The first block heard that no other one outnumbers; one's own comes first. *)
Majority(answers) ==
    answers[Min({i \in DOMAIN answers :
        \A j \in DOMAIN answers : CountOf(answers, answers[j]) <= CountOf(answers, answers[i])})]

MajorityCount(answers) == CountOf(answers, Majority(answers))

(* getRandomSample: any of the other nodes. *)
Samples(n) == kSubset(IF N <= SampleSize THEN N - 1 ELSE SampleSize, Node \ {n})

(* The entry of "proposer": a new sample, and one vote for one's own block. *)
Round(n, c, b, sample) ==
    [c EXCEPT !.toAsk = sample, !.answers = <<b>>, !.rounds = @ + 1]

Start(n, s, sample) ==
    /\ node' = [node EXCEPT ![n] = [s EXCEPT !.phase = "proposer"]]
    /\ saved' = [saved EXCEPT ![n] = node[n]]
    /\ call' = [call EXCEPT ![n] = Round(n, NoCall, s.proposed, sample)]

(* newTransaction: the node proposes a block, or keeps the proposal it has when
   the application rejects its own. *)
NewTransaction(n) ==
    /\ node[n].phase = "validator"
    /\ made < MaxBlocks /\ Height(n) < MaxHeight
    /\ made' = made + 1
    /\ \E sample \in Samples(n), accepted \in BOOLEAN :
         Start(n, IF accepted
                  THEN [node[n] EXCEPT !.proposed = [height |-> Height(n) + 1, id |-> made + 1]]
                  ELSE node[n], sample)
    /\ UNCHANGED timer

(* The timer of "preProposer". *)
TimerFires(n) ==
    /\ timer[n] /\ ~Running(n)
    /\ timer' = [timer EXCEPT ![n] = FALSE]
    /\ IF node[n].phase = "preProposer"
       THEN \E sample \in Samples(n) : Start(n, node[n], sample)
       ELSE UNCHANGED <<node, saved, call>>
    /\ UNCHANGED made

------------------------------------------------------------------------------
IfBlockNotFinalizedOrLast(m, b) == Height(m) <= b.height

IfBlockNotFinalized(m, b) == Height(m) < b.height

(* sendResponse: the final block of that height, and otherwise the block of the
   question, whose parameters stand in front of those of the machine. *)
Answer(m, b) ==
    IF Height(m) >= b.height THEN [height |-> b.height, id |-> node[m].final[b.height]] ELSE b

Heard(n, m, heard) ==
    call' = [call EXCEPT ![n].toAsk = @ \ {m}, ![n].answers = @ \o heard]

(* One question of the sample.  It may get no answer, although it took effect, and
   has none without a block.  A validator takes an unknown block as its proposal and waits; any
   other state, and a node busy with a call of its own, only answers. *)
Query(n, m) ==
    LET b == node[n].proposed
        takes == node[m].phase = "validator" /\ IfBlockNotFinalized(m, b)
    IN  /\ node[n].phase = "proposer" /\ m \in call[n].toAsk
        /\ \/ /\ Heard(n, m, <<>>)
              /\ UNCHANGED <<node, timer>>
           \/ /\ b # NoBlock
              /\ Heard(n, m, <<Answer(m, b)>>) \/ Heard(n, m, <<>>)
              /\ node' = IF takes
                         THEN [node EXCEPT ![m].phase = "preProposer", ![m].proposed = b]
                         ELSE node
              /\ timer' = IF takes THEN [timer EXCEPT ![m] = TRUE] ELSE timer
        /\ UNCHANGED <<saved, made>>

------------------------------------------------------------------------------
(* applyTransitions tries the transitions of a state in order and removes each
   that fails from the machine's own list: a later visit of the state, in the
   same call, starts after them. *)
Taken(dropped, guards) == Min({i \in DOMAIN guards : i > dropped /\ guards[i]})

ProposerGuards(n) ==
    << MajorityCount(call[n].answers) < Threshold,
       Majority(call[n].answers) # node[n].proposed,
       node[n].counter + 1 < Beta,
       TRUE >>

IfMajorityConfidenceGTCurrent(n) == FALSE   \* nobody passes it "majority"

LimboGuards(n) == << IfMajorityConfidenceGTCurrent(n), node[n].counter + 1 < Beta, TRUE >>

ValidatorStillCounting(s) == [s EXCEPT !.phase = "validator"]

Validator(s) == [s EXCEPT !.phase = "validator", !.counter = 0]

(* finalizeBlock: the application takes the next height; asked for its last one
   again it rolls back and takes the block in its place; any other fails. *)
CanFinalize(n) == node[n].proposed.height \in {Height(n), Height(n) + 1} \ {0}

Finalize(n) ==
    LET h == node[n].proposed.height
        s == [node[n] EXCEPT !.final = SubSeq(@, 1, h - 1) \o <<node[n].proposed.id>>]
    IN  /\ CanFinalize(n)
        /\ node' = [node EXCEPT ![n] = Validator(s)]
        /\ saved' = [saved EXCEPT ![n] = Validator(s)]
        /\ call' = [call EXCEPT ![n] = NoCall]

NextRound(n, c, counter) ==
    /\ c.rounds < MaxRounds
    /\ \E sample \in Samples(n) :
         call' = [call EXCEPT ![n] = Round(n, c, node[n].proposed, sample)]
    /\ node' = [node EXCEPT ![n].counter = counter, ![n].phase = "proposer"]
    /\ UNCHANGED saved

(* At least alphaThreshold percent of the sample size: kept for the properties. *)
ReachedAlpha(n) == 100 * MajorityCount(call[n].answers) >= SampleSize * Alpha

(* The "always" transitions of "proposer", when the sample is exhausted. *)
EndOfRound(n) ==
    LET t == Taken(call[n].dropProposer, ProposerGuards(n))
        c == [call[n] EXCEPT !.dropProposer = t - 1,
                             !.reached = @ \/ ReachedAlpha(n)]
    IN  /\ node[n].phase = "proposer" /\ call[n].toAsk = {}
        /\ \/ t = 1 /\ NextRound(n, c, 0)
           \/ /\ t = 2
              /\ node' = [node EXCEPT ![n].phase = "limboProposer", ![n].counter = 0]
              /\ call' = [call EXCEPT ![n] = c]
              /\ UNCHANGED saved
           \/ t = 3 /\ NextRound(n, c, node[n].counter + 1)
           \/ t = 4 /\ Finalize(n)
        /\ UNCHANGED <<timer, made>>

(* The "always" transitions of "limboProposer". *)
Limbo(n) ==
    LET t == Taken(call[n].dropLimbo, LimboGuards(n))
        c == [call[n] EXCEPT !.dropLimbo = t - 1]
    IN  /\ node[n].phase = "limboProposer"
        /\ \/ t = 2 /\ NextRound(n, c, node[n].counter + 1)
           \/ t = 3 /\ Finalize(n)
        /\ UNCHANGED <<timer, made>>

(* The call fails: it ran out of gas, or its block was refused.  A call that
   fails in the middle of a round is one whose last answers were lost. *)
CallFails(n) ==
    /\ Running(n) /\ call[n].toAsk = {}
    /\ node' = [node EXCEPT ![n] = saved[n]]
    /\ call' = [call EXCEPT ![n] = NoCall]
    /\ UNCHANGED <<saved, timer, made>>

Next ==
    \E n \in Node :
       \/ NewTransaction(n) \/ TimerFires(n)
       \/ \E m \in Node : Query(n, m)
       \/ EndOfRound(n) \/ Limbo(n) \/ CallFails(n)

Spec == Init /\ [][Next]_vars

------------------------------------------------------------------------------
(* Every variable has its type, and the rounds of a call are counted. *)
TypeOK ==
    /\ node \in [Node -> [phase: {"validator", "preProposer", "proposer", "limboProposer"},
                          proposed: Block, counter: 0..Beta,
                          final: BoundedSeq(1..MaxBlocks, MaxHeight)]]
    /\ saved \in [Node -> [phase: {"validator", "preProposer"}, proposed: Block,
                           counter: {0}, final: BoundedSeq(1..MaxBlocks, MaxHeight)]]
    /\ timer \in [Node -> BOOLEAN]
    /\ made \in 0..MaxBlocks
    /\ \A n \in Node : call[n].toAsk \subseteq Node \ {n} /\ call[n].rounds <= MaxRounds

(* A block once final stays: a proposal kept from before, a block of a height
   already decided, or a call that fails halfway never takes one back, although
   finalization is ready to roll the application back. *)
FinalNeverChanges == [][\A n \in Node : IsPrefix(node[n].final, node'[n].final)]_vars

(* A call that finalizes ran at least betaThreshold rounds, whatever earlier
   calls of the node counted and however often this one started over. *)
AtLeastBetaRounds ==
    [][\A n \in Node : node'[n].final # node[n].final => call[n].rounds >= Beta]_vars

(* No node finalizes alone: in some round of the call as many votes as the
   threshold asks for, one's own included, were for one block. *)
ThresholdWasReached ==
    [][\A n \in Node : node'[n].final # node[n].final =>
         call[n].reached \/ ReachedAlpha(n)]_vars

(* A round below the threshold is asked again, as the first transition of
   "proposer" says: the round that leads to finalization reached it. *)
BelowThresholdIsAskedAgain ==
    [][\A n \in Node : node'[n].final # node[n].final =>
         ReachedAlpha(n)]_vars

==============================================================================
