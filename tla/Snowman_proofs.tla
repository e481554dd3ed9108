---------------------------- MODULE Snowman_proofs ---------------------------
(* Proofs about Snowman.  What a node finalizes is decided by its own proposal,
   its own call and the state it would go back to, so the inductive invariant is
   a fact about those three, NodeSound: no proposal at or below a node's height
   differs from the final block there (ProposalFits), a call under way has run
   more rounds than its counter says and changed no final block, and a call that
   dropped the transition of a round below the threshold had a round that
   reached it.  Each action gives one node, and for a question two, a sound
   state, and says what it did to the final blocks (FinalStep); the theorems
   read it off. *)
EXTENDS Snowman, Induction

(* A block that is not above a node's height is the one the node has there. *)
ProposalFits(s) ==
    s.proposed.height \in 1..Len(s.final) => s.final[s.proposed.height] = s.proposed.id

State == [phase : {"validator", "preProposer", "proposer", "limboProposer"}, proposed : Block,
          counter : 0..Beta, final : Seq(1..MaxBlocks)]

Call == [toAsk : SUBSET Node, answers : Seq(Block), dropProposer : 0..2, dropLimbo : 0..1,
         rounds : 0..MaxRounds, reached : BOOLEAN]

AtRest(s) == s.phase \in {"validator", "preProposer"}

(* One node: its state s, the state v it goes back to and its call c. *)
NodeSound(s, v, c) ==
    /\ s \in State /\ v \in State /\ c \in Call
    /\ Len(s.final) <= MaxHeight /\ Len(v.final) <= MaxHeight
    /\ ProposalFits(s) /\ ProposalFits(v)
    /\ AtRest(v) /\ v.counter = 0
    /\ AtRest(s) => s.counter = 0
    /\ ~AtRest(s) => v.final = s.final /\ c.rounds > s.counter
    /\ c.dropProposer > 0 \/ s.phase = "limboProposer" => c.reached

IInv ==
    /\ node \in [Node -> State] /\ saved \in [Node -> State] /\ call \in [Node -> Call]
    /\ timer \in [Node -> BOOLEAN] /\ made \in 0..MaxBlocks
    /\ \A n \in Node : n \notin call[n].toAsk /\ NodeSound(node[n], saved[n], call[n])

------------------------------------------------------------------------------
(* The numbers of a round. *)
LEMMA ConstantsHold ==
  /\ SampleSize * Alpha \in Nat /\ Beta \in Nat \ {0} /\ MaxRounds \in Nat \ {0}
  /\ MaxBlocks \in Nat /\ MaxHeight \in Nat
  BY SnowmanAssumption DEF SnowmanAssumption

LEMMA BlockType ==
  ASSUME NEW b \in Block
  PROVE  /\ b.height \in Nat /\ b.height <= MaxHeight /\ b.id \in Nat
         /\ b.height > 0 => b.id \in 1..MaxBlocks
         /\ b # NoBlock => b.height \in 1..MaxHeight /\ b.id \in 1..MaxBlocks
  BY ConstantsHold DEF Block, NoBlock

LEMMA CountType ==
  ASSUME NEW answers \in Seq(Block), NEW b
  PROVE  CountOf(answers, b) \in Nat
<1>1. IsFiniteSet(1..Len(answers))
  BY FS_Interval
<1>2. {i \in DOMAIN answers : answers[i] = b} \subseteq 1..Len(answers)
  OBVIOUS
<1>3. IsFiniteSet({i \in DOMAIN answers : answers[i] = b})
  BY <1>1, <1>2, FS_Subset
<1> QED BY <1>3, FS_CardinalityType DEF CountOf

(* Not below the rounded-up threshold is at least the percentage. *)
LEMMA ThresholdMeansAlpha ==
  ASSUME NEW n \in Node, call[n].answers \in Seq(Block), ~ (MajorityCount(call[n].answers) < Threshold)
  PROVE  ReachedAlpha(n)
<1> DEFINE k == MajorityCount(call[n].answers)
           x == SampleSize * Alpha
<1>1. k \in Nat /\ x \in Nat /\ ~ (k < (x + 99) \div 100)
  BY CountType, ConstantsHold DEF MajorityCount, Threshold
<1> HIDE DEF k, x
<1>2. 100 * k >= x
  BY <1>1
<1> QED BY <1>2 DEF k, x, ReachedAlpha

(* The first transition after the dropped ones whose guard holds. *)
LEMMA TakenIsFirst ==
  ASSUME NEW k \in Nat, NEW guards, DOMAIN guards = 1..k, NEW dropped \in 0..(k - 1), guards[k]
  PROVE  /\ Taken(dropped, guards) \in 1..k /\ Taken(dropped, guards) > dropped
         /\ guards[Taken(dropped, guards)]
         /\ \A i \in 1..k : i > dropped /\ i < Taken(dropped, guards) => ~ guards[i]
<1> DEFINE S == {i \in DOMAIN guards : i > dropped /\ guards[i]}
<1>1. S \subseteq Nat /\ k \in S
  OBVIOUS
<1> HIDE DEF S
<1>2. \E x \in S : \A y \in S : x <= y
  BY <1>1, NatMinimum
<1>3. Min(S) \in S /\ \A y \in S : Min(S) <= y
  BY <1>2 DEF Min
<1>4. Taken(dropped, guards) = Min(S)
  BY DEF Taken, S
<1>5. Min(S) \in 1..k /\ Min(S) > dropped /\ guards[Min(S)]
  BY <1>3 DEF S
<1>6. ASSUME NEW i \in 1..k, i > dropped, i < Min(S)
      PROVE  ~ guards[i]
  <2>1. i \notin S
    BY <1>3, <1>5, <1>6
  <2> QED BY <1>6, <2>1 DEF S
<1> QED BY <1>4, <1>5, <1>6

LEMMA TakenInProposer ==
  ASSUME NEW n \in Node, call[n] \in Call, node[n] \in State
  PROVE  LET t == Taken(call[n].dropProposer, ProposerGuards(n))
         IN  /\ t \in 1..4 /\ t > call[n].dropProposer
             /\ t # 1 /\ call[n].dropProposer = 0 => ReachedAlpha(n)
             /\ t = 3 => node[n].counter + 1 < Beta
             /\ t = 4 => node[n].counter + 1 >= Beta
<1> DEFINE t == Taken(call[n].dropProposer, ProposerGuards(n))
           g == ProposerGuards(n)
           dropped == call[n].dropProposer
<1>1. DOMAIN g = 1..4 /\ g[4] /\ dropped \in 0..2 /\ dropped \in 0..(4 - 1)
  BY DEF ProposerGuards, Call
<1>2. (g[1] <=> MajorityCount(call[n].answers) < Threshold) /\ (g[3] <=> node[n].counter + 1 < Beta)
  BY DEF ProposerGuards
<1> HIDE DEF g, dropped
<1>3. /\ t \in 1..4 /\ t > dropped /\ g[t]
      /\ \A i \in 1..4 : i > dropped /\ i < t => ~ g[i]
  BY <1>1, TakenIsFirst DEF g, dropped
<1> HIDE DEF t
<1>4. t # 1 /\ dropped = 0 => ReachedAlpha(n)
  <2>1. SUFFICES ASSUME t # 1, dropped = 0
                 PROVE  ReachedAlpha(n)
    OBVIOUS
  <2>2. ~ g[1]
    BY <1>3, <2>1
  <2>3. call[n].answers \in Seq(Block)
    BY DEF Call
  <2> QED BY <1>2, <2>2, <2>3, ThresholdMeansAlpha
<1>5. t = 4 => node[n].counter + 1 >= Beta
  <2>1. SUFFICES ASSUME t = 4
                 PROVE  node[n].counter + 1 >= Beta
    OBVIOUS
  <2>2. ~ g[3]
    BY <1>1, <1>3, <2>1
  <2>3. node[n].counter \in 0..Beta
    BY DEF State
  <2> QED BY <1>2, <2>2, <2>3, ConstantsHold
<1>6. t = 3 => node[n].counter + 1 < Beta
  BY <1>2, <1>3
<1> QED BY <1>3, <1>4, <1>5, <1>6 DEF t, dropped

LEMMA TakenInLimbo ==
  ASSUME NEW n \in Node, call[n] \in Call, node[n] \in State
  PROVE  LET t == Taken(call[n].dropLimbo, LimboGuards(n))
         IN  /\ t \in {2, 3} /\ t > call[n].dropLimbo
             /\ t = 3 => node[n].counter + 1 >= Beta
             /\ t = 2 => node[n].counter + 1 < Beta
<1> DEFINE t == Taken(call[n].dropLimbo, LimboGuards(n))
           g == LimboGuards(n)
           dropped == call[n].dropLimbo
<1>1. DOMAIN g = 1..3 /\ g[3] /\ dropped \in 0..1 /\ dropped \in 0..(3 - 1)
  BY DEF LimboGuards, Call
<1>2. ~ g[1] /\ (g[2] <=> node[n].counter + 1 < Beta)
  BY DEF LimboGuards, IfMajorityConfidenceGTCurrent
<1> HIDE DEF g, dropped
<1>3. /\ t \in 1..3 /\ t > dropped /\ g[t]
      /\ \A i \in 1..3 : i > dropped /\ i < t => ~ g[i]
  BY <1>1, TakenIsFirst DEF g, dropped
<1> HIDE DEF t
<1>4. t \in {2, 3} /\ (t = 2 => node[n].counter + 1 < Beta)
  BY <1>2, <1>3
<1>5. t = 3 => node[n].counter + 1 >= Beta
  <2>1. SUFFICES ASSUME t = 3
                 PROVE  node[n].counter + 1 >= Beta
    OBVIOUS
  <2>2. ~ g[2]
    BY <1>1, <1>3, <2>1
  <2>3. node[n].counter \in 0..Beta
    BY DEF State
  <2> QED BY <1>2, <2>2, <2>3, ConstantsHold
<1> QED BY <1>3, <1>4, <1>5 DEF t, dropped

------------------------------------------------------------------------------
(* What a step does to the final blocks of a node. *)
FinalStep(n) ==
    \/ node'[n].final = node[n].final
    \/ /\ IsPrefix(node[n].final, node'[n].final)
       /\ call[n].rounds >= Beta
       /\ call[n].reached \/ ReachedAlpha(n)

Kept == IInv' /\ \A n \in Node : FinalStep(n)

(* A step that gives one node a sound state, and nothing to the others. *)
LEMMA Put ==
  ASSUME IInv, NEW n \in Node, NEW s, NEW v, NEW c, NodeSound(s, v, c), n \notin c.toAsk,
         node' = [node EXCEPT ![n] = s], saved' = [saved EXCEPT ![n] = v],
         call' = [call EXCEPT ![n] = c],
         timer' \in [Node -> BOOLEAN], made' \in 0..MaxBlocks
  PROVE  IInv' /\ (FinalStep(n) => Kept) /\ node'[n] = s
<1>1. s \in State /\ v \in State /\ c \in Call
  BY DEF NodeSound
<1>2. /\ node \in [Node -> State] /\ saved \in [Node -> State] /\ call \in [Node -> Call]
      /\ \A m \in Node : m \notin call[m].toAsk /\ NodeSound(node[m], saved[m], call[m])
  BY DEF IInv
<1>3. node' \in [Node -> State] /\ saved' \in [Node -> State] /\ call' \in [Node -> Call]
  BY <1>1, <1>2
<1>4. node'[n] = s /\ saved'[n] = v /\ call'[n] = c
  BY <1>2
<1>5. \A m \in Node : m # n => node'[m] = node[m] /\ saved'[m] = saved[m] /\ call'[m] = call[m]
  BY <1>2
<1>6. ASSUME NEW m \in Node
      PROVE  m \notin call'[m].toAsk /\ NodeSound(node'[m], saved'[m], call'[m])
  <2>1. CASE m = n
    BY <1>4, <2>1
  <2>2. CASE m # n
    BY <1>2, <1>5, <2>2
  <2> QED BY <2>1, <2>2
<1>7. IInv'
  <2>1. \A m \in Node : (m \notin call[m].toAsk /\ NodeSound(node[m], saved[m], call[m]))'
    BY <1>6 DEF NodeSound, ProposalFits, AtRest, State, Call, Block, NoBlock
  <2> QED BY <1>3, <2>1 DEF IInv, State, Call, Block, NoBlock
<1>8. \A m \in Node : m # n => FinalStep(m)
  BY <1>5 DEF FinalStep
<1> QED BY <1>4, <1>7, <1>8 DEF Kept

(* The same when the final blocks stay as they are. *)
LEMMA PutQuietly ==
  ASSUME IInv, NEW n \in Node, NEW s, NEW v, NEW c, NodeSound(s, v, c), n \notin c.toAsk,
         node' = [node EXCEPT ![n] = s], saved' = [saved EXCEPT ![n] = v],
         call' = [call EXCEPT ![n] = c], s.final = node[n].final,
         timer' \in [Node -> BOOLEAN], made' \in 0..MaxBlocks
  PROVE  Kept
<1>1. IInv' /\ (FinalStep(n) => Kept) /\ node'[n] = s
  BY Put
<1> QED BY <1>1 DEF FinalStep

(* A sample has only other nodes. *)
LEMMA SampleType ==
  ASSUME NEW n \in Node, NEW sample \in Samples(n)
  PROVE  sample \in SUBSET Node /\ n \notin sample
  BY DEF Samples, kSubset

LEMMA Parts ==
  ASSUME IInv, NEW n \in Node
  PROVE  /\ NodeSound(node[n], saved[n], call[n]) /\ n \notin call[n].toAsk
         /\ node[n] \in State /\ saved[n] \in State /\ call[n] \in Call
         /\ timer \in [Node -> BOOLEAN] /\ made \in 0..MaxBlocks
  BY DEF IInv

LEMMA NoCallType == NoCall \in Call
<1>1. <<>> \in Seq(Block)
  OBVIOUS
<1>2. 0 \in 0..MaxRounds
  BY ConstantsHold
<1> QED BY <1>1, <1>2 DEF NoCall, Call

(* A round of a sound call. *)
LEMMA RoundType ==
  ASSUME NEW n, NEW c \in Call, NEW b \in Block, NEW sample \in SUBSET Node, c.rounds < MaxRounds
  PROVE  LET r == Round(n, c, b, sample)
         IN  /\ r \in Call /\ r.rounds = c.rounds + 1 /\ r.toAsk = sample
             /\ r.reached = c.reached /\ r.dropProposer = c.dropProposer
<1>1. <<b>> \in Seq(Block)
  OBVIOUS
<1>2. c.rounds + 1 \in 0..MaxRounds
  BY ConstantsHold DEF Call
<1> QED BY <1>1, <1>2 DEF Round, Call

------------------------------------------------------------------------------
LEMMA StartKeeps ==
  ASSUME IInv, NEW n \in Node, NEW s \in State, NEW sample \in Samples(n), Start(n, s, sample),
         AtRest(node[n]), AtRest(s), s.counter = 0, s.final = node[n].final, ProposalFits(s),
         timer' \in [Node -> BOOLEAN], made' \in 0..MaxBlocks
  PROVE  Kept
<1> DEFINE q == [s EXCEPT !.phase = "proposer"]
           c == Round(n, NoCall, s.proposed, sample)
<1>1. NodeSound(node[n], saved[n], call[n]) /\ node[n] \in State
  BY Parts
<1>2. NoCall.rounds < MaxRounds /\ NoCall.rounds = 0 /\ NoCall.dropProposer = 0
  BY ConstantsHold DEF NoCall
<1>3. s.proposed \in Block
  BY DEF State
<1>4. c \in Call /\ c.rounds = 1 /\ c.toAsk = sample /\ c.dropProposer = 0
  BY <1>2, <1>3, RoundType, NoCallType, SampleType
<1>5. /\ q \in State /\ q.phase = "proposer" /\ q.final = s.final /\ q.counter = 0
      /\ q.proposed = s.proposed
  BY DEF State
<1>6. node' = [node EXCEPT ![n] = q] /\ saved' = [saved EXCEPT ![n] = node[n]]
      /\ call' = [call EXCEPT ![n] = c]
  BY DEF Start
<1> HIDE DEF q, c
<1>7. NodeSound(q, node[n], c)
  <2>1. Len(node[n].final) <= MaxHeight /\ ProposalFits(node[n]) /\ node[n].counter = 0
    BY <1>1 DEF NodeSound
  <2>2. ProposalFits(q)
    BY <1>5 DEF ProposalFits
  <2>3. ~ AtRest(q) /\ c.rounds > q.counter
    BY <1>4, <1>5 DEF AtRest
  <2>4. ~ (c.dropProposer > 0 \/ q.phase = "limboProposer")
    BY <1>4, <1>5
  <2> QED BY <1>1, <1>4, <1>5, <2>1, <2>2, <2>3, <2>4 DEF NodeSound
<1>8. n \notin c.toAsk
  BY <1>4, SampleType
<1> QED BY <1>5, <1>6, <1>7, <1>8, PutQuietly

LEMMA NewTransactionKeeps ==
  ASSUME IInv, NEW n \in Node, NewTransaction(n)
  PROVE  Kept
<1> DEFINE p == [height |-> Height(n) + 1, id |-> made + 1]
           s(accepted) == IF accepted THEN [node[n] EXCEPT !.proposed = p] ELSE node[n]
<1>1. PICK sample \in Samples(n), accepted \in BOOLEAN : Start(n, s(accepted), sample)
  BY DEF NewTransaction
<1>2. /\ node[n].phase = "validator" /\ made < MaxBlocks /\ Height(n) < MaxHeight
      /\ made' = made + 1 /\ timer' = timer
  BY DEF NewTransaction
<1>3. NodeSound(node[n], saved[n], call[n]) /\ node[n] \in State
      /\ timer \in [Node -> BOOLEAN] /\ made \in 0..MaxBlocks
  BY Parts
<1>4. AtRest(node[n]) /\ node[n].counter = 0 /\ ProposalFits(node[n])
  BY <1>2, <1>3 DEF NodeSound, AtRest
<1>5. Len(node[n].final) \in Nat
  BY <1>3 DEF State
<1>6. p \in Block /\ p.height = Len(node[n].final) + 1
  BY <1>2, <1>3, <1>5, ConstantsHold DEF Block, Height
<1>7. made' \in 0..MaxBlocks /\ timer' \in [Node -> BOOLEAN]
  BY <1>2, <1>3, ConstantsHold
<1>8. CASE ~ accepted
  BY <1>1, <1>3, <1>4, <1>7, <1>8, StartKeeps
<1>9. CASE accepted
  <2> DEFINE w == [node[n] EXCEPT !.proposed = p]
  <2>1. Start(n, w, sample)
    BY <1>1, <1>9
  <2> HIDE DEF p
  <2>2. w \in State /\ w.phase = node[n].phase /\ w.counter = 0 /\ w.final = node[n].final
        /\ w.proposed = p
    BY <1>3, <1>4, <1>6 DEF State
  <2> HIDE DEF w
  <2>3. ProposalFits(w)
    BY <1>5, <1>6, <2>2 DEF ProposalFits
  <2>4. AtRest(w)
    BY <1>4, <2>2 DEF AtRest
  <2> QED BY <1>4, <1>7, <2>1, <2>2, <2>3, <2>4, StartKeeps
<1> QED BY <1>8, <1>9

LEMMA TimerFiresKeeps ==
  ASSUME IInv, NEW n \in Node, TimerFires(n)
  PROVE  Kept
<1>1. NodeSound(node[n], saved[n], call[n]) /\ node[n] \in State
      /\ timer \in [Node -> BOOLEAN] /\ made \in 0..MaxBlocks
  BY Parts
<1>2. timer' \in [Node -> BOOLEAN] /\ made' \in 0..MaxBlocks
  BY <1>1 DEF TimerFires
<1>3. CASE node[n].phase = "preProposer"
  <2>1. PICK sample \in Samples(n) : Start(n, node[n], sample)
    BY <1>3 DEF TimerFires
  <2>2. AtRest(node[n]) /\ node[n].counter = 0 /\ ProposalFits(node[n])
    BY <1>1, <1>3 DEF NodeSound, AtRest
  <2> QED BY <1>1, <1>2, <2>1, <2>2, StartKeeps
<1>4. CASE node[n].phase # "preProposer"
  <2>1. node' = node /\ saved' = saved /\ call' = call
    BY <1>4 DEF TimerFires
  <2>2. node' = [node EXCEPT ![n] = node[n]] /\ saved' = [saved EXCEPT ![n] = saved[n]]
        /\ call' = [call EXCEPT ![n] = call[n]]
    BY <2>1 DEF IInv
  <2> QED BY <1>1, <1>2, <2>2, Parts, PutQuietly
<1> QED BY <1>3, <1>4

(* A question changes the call of the node that asks. *)
LEMMA AskerSound ==
  ASSUME NEW s, NEW v, NEW c, NodeSound(s, v, c), NEW m, NEW heard \in Seq(Block)
  PROVE  NodeSound(s, v, [c EXCEPT !.toAsk = c.toAsk \ {m}, !.answers = c.answers \o heard])
<1> DEFINE r == [c EXCEPT !.toAsk = c.toAsk \ {m}, !.answers = c.answers \o heard]
<1>1. c \in Call
  BY DEF NodeSound
<1>2. c.answers \o heard \in Seq(Block) /\ c.toAsk \ {m} \in SUBSET Node
  BY <1>1 DEF Call
<1>3. /\ r \in Call /\ r.rounds = c.rounds
      /\ r.reached = c.reached /\ r.dropProposer = c.dropProposer
  BY <1>1, <1>2 DEF Call
<1> HIDE DEF r
<1>4. NodeSound(s, v, r)
  BY <1>3 DEF NodeSound
<1> QED BY <1>4 DEF r

LEMMA AnswerType ==
  ASSUME NEW m \in Node, node[m] \in State, NEW b \in Block, b # NoBlock
  PROVE  Answer(m, b) \in Block
<1>1. b.height \in 1..MaxHeight
  BY BlockType
<1>2. node[m].final \in Seq(1..MaxBlocks)
  BY DEF State
<1>3. CASE Height(m) >= b.height
  <2>1. node[m].final[b.height] \in 1..MaxBlocks
    BY <1>1, <1>2, <1>3, ConstantsHold DEF Height
  <2> QED BY <1>1, <1>3, <2>1 DEF Answer, Block
<1>4. CASE ~ (Height(m) >= b.height)
  BY <1>4 DEF Answer
<1> QED BY <1>3, <1>4

(* A validator that takes the block it is asked about. *)
LEMMA TakerSound ==
  ASSUME NEW s, NEW v, NEW c, NodeSound(s, v, c), s.phase = "validator",
         NEW b \in Block, b # NoBlock, Len(s.final) < b.height
  PROVE  LET q == [s EXCEPT !.phase = "preProposer", !.proposed = b]
         IN  NodeSound(q, v, c) /\ q.final = s.final
<1> DEFINE q == [s EXCEPT !.phase = "preProposer", !.proposed = b]
<1>1. s \in State
  BY DEF NodeSound
<1>2. /\ q \in State /\ q.phase = "preProposer" /\ q.final = s.final /\ q.counter = s.counter
      /\ q.proposed = b
  BY <1>1 DEF State
<1> HIDE DEF q
<1>3. ProposalFits(q)
  <2>1. Len(s.final) \in Nat /\ b.height \in Nat
    BY <1>1, BlockType DEF State
  <2> QED BY <1>2, <2>1 DEF ProposalFits
<1>4. s.counter = 0 /\ (c.dropProposer > 0 => c.reached)
  BY DEF NodeSound, AtRest
<1>5. NodeSound(q, v, c)
  BY <1>2, <1>3, <1>4 DEF NodeSound, AtRest
<1> QED BY <1>2, <1>5 DEF q

LEMMA QueryKeeps ==
  ASSUME IInv, NEW n \in Node, NEW m \in Node, Query(n, m)
  PROVE  Kept
<1> DEFINE b == node[n].proposed
           r(heard) == [call[n] EXCEPT !.toAsk = call[n].toAsk \ {m},
                                       !.answers = call[n].answers \o heard]
           takes == node[m].phase = "validator" /\ IfBlockNotFinalized(m, b)
           w == [node[m] EXCEPT !.phase = "preProposer", !.proposed = b]
<1>1. /\ NodeSound(node[n], saved[n], call[n]) /\ node[n] \in State /\ call[n] \in Call
      /\ n \notin call[n].toAsk
      /\ NodeSound(node[m], saved[m], call[m]) /\ node[m] \in State
      /\ timer \in [Node -> BOOLEAN] /\ made \in 0..MaxBlocks /\ m \notin call[m].toAsk
  BY Parts
<1>2. n # m /\ saved' = saved /\ made' = made
  BY <1>1 DEF Query
<1>3. node \in [Node -> State] /\ saved \in [Node -> State] /\ call \in [Node -> Call]
  BY DEF IInv
<1>4. ASSUME NEW heard, Heard(n, m, heard)
      PROVE  call' = [call EXCEPT ![n] = r(heard)]
  BY <1>3, <1>4 DEF Heard
<1>5. ASSUME NEW heard \in Seq(Block)
      PROVE  NodeSound(node[n], saved[n], r(heard)) /\ n \notin r(heard).toAsk
  <2>1. NodeSound(node[n], saved[n], r(heard))
    BY <1>1, <1>5, AskerSound
  <2>2. r(heard).toAsk = call[n].toAsk \ {m}
    BY <1>1 DEF Call
  <2> QED BY <1>1, <2>1, <2>2
<1>6. b \in Block
  BY <1>1 DEF State
<1>7. PICK heard \in Seq(Block) :
         /\ call' = [call EXCEPT ![n] = r(heard)]
         /\ \/ node' = node /\ timer' = timer
            \/ b # NoBlock /\ takes /\ timer' = [timer EXCEPT ![m] = TRUE]
               /\ node' = [node EXCEPT ![m] = w]
  <2>1. CASE Heard(n, m, <<>>) /\ UNCHANGED <<node, timer>>
    <3>1. <<>> \in Seq(Block)
      OBVIOUS
    <3> QED BY <1>4, <2>1, <3>1
  <2>2. CASE /\ b # NoBlock
             /\ Heard(n, m, <<Answer(m, b)>>) \/ Heard(n, m, <<>>)
             /\ node' = IF takes
                        THEN [node EXCEPT ![m].phase = "preProposer", ![m].proposed = b]
                        ELSE node
             /\ timer' = IF takes THEN [timer EXCEPT ![m] = TRUE] ELSE timer
    <3>1. <<Answer(m, b)>> \in Seq(Block) /\ <<>> \in Seq(Block)
      BY <1>1, <1>6, <2>2, AnswerType
    <3>2. [node EXCEPT ![m].phase = "preProposer", ![m].proposed = b] = [node EXCEPT ![m] = w]
      BY <1>3
    <3> QED BY <1>4, <2>2, <3>1, <3>2
  <2> QED BY <2>1, <2>2 DEF Query
<1> HIDE DEF r, b, w
<1>8. /\ call'[n] = r(heard)
      /\ \A j \in Node : j # n => call'[j] = call[j]
      /\ call' \in [Node -> Call]
  <2>1. r(heard) \in Call
    BY <1>5 DEF NodeSound
  <2> QED BY <1>3, <1>7, <2>1
<1>9. ASSUME takes, b # NoBlock
      PROVE  NodeSound(w, saved[m], call[m]) /\ w.final = node[m].final
  <2>1. Len(node[m].final) < b.height /\ node[m].phase = "validator"
    BY <1>9 DEF IfBlockNotFinalized, Height
  <2> QED BY <1>1, <1>6, <1>9, <2>1, TakerSound DEF w
<1>10. ASSUME NEW j \in Node
       PROVE  /\ j \notin call'[j].toAsk /\ NodeSound(node'[j], saved[j], call'[j])
              /\ node'[j].final = node[j].final
  <2>1. NodeSound(node[j], saved[j], call[j]) /\ j \notin call[j].toAsk
    BY Parts
  <2>2. CASE j = n
    <3>1. node'[n] = node[n]
      BY <1>2, <1>3, <1>7
    <3> QED BY <1>5, <1>7, <1>8, <2>2, <3>1
  <2>3. CASE j = m
    <3>1. call'[m] = call[m]
      BY <1>2, <1>8
    <3>2. node'[m] = node[m] \/ (takes /\ b # NoBlock /\ node'[m] = w)
      BY <1>3, <1>7
    <3> QED BY <1>9, <2>1, <2>3, <3>1, <3>2
  <2>4. CASE j # n /\ j # m
    <3>1. node'[j] = node[j] /\ call'[j] = call[j]
      BY <1>3, <1>7, <1>8, <2>4
    <3> QED BY <2>1, <3>1
  <2> QED BY <2>2, <2>3, <2>4
<1>11. node' \in [Node -> State] /\ timer' \in [Node -> BOOLEAN]
  <2>1. CASE node' = node /\ timer' = timer
    BY <1>1, <1>3, <2>1
  <2>2. CASE takes /\ b # NoBlock /\ timer' = [timer EXCEPT ![m] = TRUE]
             /\ node' = [node EXCEPT ![m] = w]
    <3>1. w \in State
      BY <1>9, <2>2 DEF NodeSound
    <3> QED BY <1>1, <1>3, <2>2, <3>1
  <2> QED BY <1>7, <2>1, <2>2
<1>12. IInv'
  <2>1. \A j \in Node : (j \notin call[j].toAsk /\ NodeSound(node[j], saved[j], call[j]))'
    BY <1>2, <1>10 DEF NodeSound, ProposalFits, AtRest, State, Call, Block, NoBlock
  <2>2. saved' \in [Node -> State] /\ made' \in 0..MaxBlocks
    BY <1>1, <1>2, <1>3
  <2> QED BY <1>8, <1>11, <2>1, <2>2 DEF IInv, State, Call, Block, NoBlock
<1> QED BY <1>10, <1>12 DEF Kept, FinalStep

LEMMA CallFailsKeeps ==
  ASSUME IInv, NEW n \in Node, CallFails(n)
  PROVE  Kept
<1>1. /\ NodeSound(node[n], saved[n], call[n])
      /\ timer \in [Node -> BOOLEAN] /\ made \in 0..MaxBlocks
  BY Parts
<1>2. /\ node' = [node EXCEPT ![n] = saved[n]] /\ saved' = [saved EXCEPT ![n] = saved[n]]
      /\ call' = [call EXCEPT ![n] = NoCall]
      /\ timer' = timer /\ made' = made
  BY DEF CallFails, IInv
<1>3. ~ AtRest(node[n])
  BY DEF CallFails, Running, AtRest
<1>4. saved[n].final = node[n].final
  BY <1>1, <1>3 DEF NodeSound
<1>5. NoCall.toAsk = {} /\ NoCall.dropProposer = 0 /\ NoCall \in Call
  BY NoCallType DEF NoCall
<1>6. NodeSound(saved[n], saved[n], NoCall)
  BY <1>1, <1>5 DEF NodeSound, AtRest
<1> QED BY <1>1, <1>2, <1>4, <1>5, <1>6, PutQuietly

------------------------------------------------------------------------------
(* A call that goes on with another round. *)
LEMMA NextRoundKeeps ==
  ASSUME IInv, NEW n \in Node, NEW c \in Call, NEW counter \in 0..Beta, NextRound(n, c, counter),
         ~ AtRest(node[n]), c.rounds >= counter, c.dropProposer > 0 => c.reached,
         timer' = timer, made' = made
  PROVE  Kept
<1> DEFINE b == node[n].proposed
           q == [node[n] EXCEPT !.counter = counter, !.phase = "proposer"]
<1>1. /\ NodeSound(node[n], saved[n], call[n]) /\ node[n] \in State
      /\ timer \in [Node -> BOOLEAN] /\ made \in 0..MaxBlocks
  BY Parts
<1>2. PICK sample \in Samples(n) : call' = [call EXCEPT ![n] = Round(n, c, b, sample)]
  BY DEF NextRound
<1> DEFINE r == Round(n, c, b, sample)
<1>3. /\ r \in Call /\ r.rounds = c.rounds + 1 /\ r.toAsk = sample
      /\ r.reached = c.reached /\ r.dropProposer = c.dropProposer
  <2>1. b \in Block
    BY <1>1 DEF State
  <2>2. c.rounds < MaxRounds
    BY DEF NextRound
  <2> QED BY <2>1, <2>2, RoundType, SampleType
<1>4. /\ q \in State /\ q.phase = "proposer" /\ q.final = node[n].final /\ q.counter = counter
      /\ q.proposed = node[n].proposed
  BY <1>1 DEF State
<1>5. node' = [node EXCEPT ![n] = q] /\ saved' = [saved EXCEPT ![n] = saved[n]]
      /\ call' = [call EXCEPT ![n] = r]
  BY <1>2 DEF NextRound, IInv
<1> HIDE DEF q, r
<1>6. NodeSound(q, saved[n], r)
  <2>1. ProposalFits(q)
    BY <1>1, <1>4 DEF ProposalFits, NodeSound
  <2>2. ~ AtRest(q) /\ r.rounds > q.counter
    BY <1>3, <1>4 DEF AtRest, Call
  <2>3. r.dropProposer > 0 \/ q.phase = "limboProposer" => r.reached
    BY <1>3, <1>4
  <2>4. saved[n].final = node[n].final /\ Len(node[n].final) <= MaxHeight
    BY <1>1 DEF NodeSound
  <2>5. /\ saved[n] \in State /\ Len(saved[n].final) <= MaxHeight /\ ProposalFits(saved[n])
        /\ AtRest(saved[n]) /\ saved[n].counter = 0
    BY <1>1 DEF NodeSound
  <2> QED BY <1>3, <1>4, <2>1, <2>2, <2>3, <2>4, <2>5 DEF NodeSound
<1>7. n \notin r.toAsk
  BY <1>3, SampleType
<1> QED BY <1>1, <1>4, <1>5, <1>6, <1>7, PutQuietly

(* The final blocks with the one at a height put there, the last or a new one. *)
LEMMA FrontType ==
  ASSUME NEW S, NEW seq \in Seq(S), NEW k \in Nat, k <= Len(seq)
  PROVE  /\ SubSeq(seq, 1, k) \in Seq(S) /\ Len(SubSeq(seq, 1, k)) = k
         /\ \A i \in 1..k : SubSeq(seq, 1, k)[i] = seq[i]
  OBVIOUS

PutAt(old, h, id) == SubSeq(old, 1, h - 1) \o <<id>>

LEMMA PutBlock ==
  ASSUME NEW old \in Seq(1..MaxBlocks), NEW h \in Nat, h # 0,
         h = Len(old) \/ h = Len(old) + 1, NEW id \in 1..MaxBlocks
  PROVE  /\ PutAt(old, h, id) \in Seq(1..MaxBlocks) /\ Len(PutAt(old, h, id)) = h
         /\ PutAt(old, h, id)[h] = id
         /\ \A i \in 1..(h - 1) : PutAt(old, h, id)[i] = old[i]
<1> DEFINE front == SubSeq(old, 1, h - 1)
<1>1. Len(old) \in Nat /\ h - 1 \in Nat /\ h - 1 <= Len(old)
  OBVIOUS
<1>2. /\ front \in Seq(1..MaxBlocks) /\ Len(front) = h - 1
      /\ \A i \in 1..(h - 1) : front[i] = old[i]
  BY <1>1, FrontType
<1> HIDE DEF front
<1>3. <<id>> \in Seq(1..MaxBlocks) /\ Len(<<id>>) = 1 /\ <<id>>[1] = id
  OBVIOUS
<1>4. front \o <<id>> \in Seq(1..MaxBlocks) /\ Len(front \o <<id>>) = h
  BY <1>1, <1>2, <1>3
<1>5. (front \o <<id>>)[h] = id
  BY <1>1, <1>2, <1>3
<1>6. \A i \in 1..(h - 1) : (front \o <<id>>)[i] = old[i]
  BY <1>1, <1>2, <1>3
<1> QED BY <1>4, <1>5, <1>6 DEF front, PutAt

(* A call that finalizes its block. *)
LEMMA FinalizeKeeps ==
  ASSUME IInv, NEW n \in Node, Finalize(n), ~ AtRest(node[n]),
         node[n].counter + 1 >= Beta, call[n].reached \/ ReachedAlpha(n),
         timer' = timer, made' = made
  PROVE  Kept
<1> DEFINE p == node[n].proposed
           old == node[n].final
           h == node[n].proposed.height
           new == PutAt(old, h, p.id)
           q == [node[n] EXCEPT !.final = new, !.phase = "validator", !.counter = 0]
<1>1. /\ NodeSound(node[n], saved[n], call[n]) /\ node[n] \in State
      /\ timer \in [Node -> BOOLEAN] /\ made \in 0..MaxBlocks
  BY Parts
<1>2. p \in Block /\ old \in Seq(1..MaxBlocks) /\ Len(old) \in Nat /\ Len(old) <= MaxHeight
      /\ (h \in 1..Len(old) => old[h] = p.id)
  BY <1>1 DEF State, NodeSound, ProposalFits
<1>3. h \in {Len(old), Len(old) + 1} /\ h # 0
  BY DEF Finalize, CanFinalize, Height
<1>4. h \in 1..MaxHeight /\ p.id \in 1..MaxBlocks
  BY <1>2, <1>3, BlockType
<1>5. old \in Seq(1..MaxBlocks) /\ h \in Nat /\ h # 0 /\ (h = Len(old) \/ h = Len(old) + 1)
      /\ p.id \in 1..MaxBlocks
  BY <1>2, <1>3, <1>4, ConstantsHold
<1> HIDE DEF old, h, p
<1>6. /\ new \in Seq(1..MaxBlocks) /\ Len(new) = h /\ new[h] = p.id
      /\ \A i \in 1..(h - 1) : new[i] = old[i]
  BY <1>5, PutBlock
<1> HIDE DEF new
<1>7. new = old \/ IsPrefix(old, new)
  <2>1. CASE h = Len(old)
    <3>1. \A i \in 1..h : new[i] = old[i]
      BY <1>2, <1>4, <1>6, <2>1
    <3> QED BY <1>2, <1>6, <2>1, <3>1
  <2>2. CASE h = Len(old) + 1
    <3>1. SubSeq(new, 1, Len(old)) = SubSeq(old, 1, Len(old))
      BY <1>2, <1>6, <2>2
    <3>2. Len(old) <= Len(new)
      BY <1>2, <1>6, <2>2
    <3> QED BY <3>1, <3>2 DEF IsPrefix
  <2> QED BY <1>3, <2>1, <2>2
<1>8. /\ q \in State /\ q.final = new /\ q.proposed = p /\ q.phase = "validator"
      /\ q.counter = 0
  <2>1. 0 \in 0..Beta
    BY ConstantsHold
  <2> QED BY <1>1, <1>6, <2>1 DEF State, p
<1>9. node' = [node EXCEPT ![n] = q] /\ saved' = [saved EXCEPT ![n] = q]
      /\ call' = [call EXCEPT ![n] = NoCall]
  <2>1. Validator([node[n] EXCEPT !.final = SubSeq(@, 1, h - 1) \o <<node[n].proposed.id>>]) = q
    BY <1>1 DEF Validator, State, new, old, h, p, PutAt
  <2> QED BY <2>1 DEF Finalize, h
<1> HIDE DEF q, p, h
<1>10. NodeSound(q, q, NoCall)
  <2>1. ProposalFits(q)
    BY <1>2, <1>6, <1>8 DEF ProposalFits, h, p
  <2>2. Len(q.final) <= MaxHeight
    BY <1>4, <1>6, <1>8
  <2>3. AtRest(q)
    BY <1>8 DEF AtRest
  <2>4. NoCall \in Call /\ NoCall.dropProposer = 0
    BY NoCallType DEF NoCall
  <2> QED BY <1>8, <2>1, <2>2, <2>3, <2>4 DEF NodeSound
<1>11. call[n].rounds >= Beta
  <2>1. call[n].rounds > node[n].counter
    BY <1>1 DEF NodeSound
  <2>2. call[n].rounds \in Nat /\ node[n].counter \in Nat
    BY <1>1 DEF NodeSound, Call, State
  <2> QED BY <2>1, <2>2, ConstantsHold
<1>12. n \notin NoCall.toAsk
  BY DEF NoCall
<1>13. IInv' /\ (FinalStep(n) => Kept) /\ node'[n] = q
  BY <1>1, <1>9, <1>10, <1>12, Put
<1> QED BY <1>7, <1>8, <1>11, <1>13 DEF FinalStep, old

LEMMA EndOfRoundKeeps ==
  ASSUME IInv, NEW n \in Node, EndOfRound(n)
  PROVE  Kept
<1> DEFINE t == Taken(call[n].dropProposer, ProposerGuards(n))
           reach == call[n].reached \/ ReachedAlpha(n)
           c == [call[n] EXCEPT !.dropProposer = t - 1, !.reached = reach]
<1>1. /\ NodeSound(node[n], saved[n], call[n]) /\ node[n] \in State /\ call[n] \in Call
      /\ timer \in [Node -> BOOLEAN] /\ made \in 0..MaxBlocks /\ n \notin call[n].toAsk
  BY Parts
<1>2. /\ t \in 1..4 /\ t > call[n].dropProposer
      /\ t # 1 /\ call[n].dropProposer = 0 => ReachedAlpha(n)
      /\ t = 3 => node[n].counter + 1 < Beta
      /\ t = 4 => node[n].counter + 1 >= Beta
  BY <1>1, TakenInProposer
<1>3. /\ node[n].phase = "proposer" /\ timer' = timer /\ made' = made
      /\ \/ t = 1 /\ NextRound(n, c, 0)
         \/ /\ t = 2
            /\ node' = [node EXCEPT ![n].phase = "limboProposer", ![n].counter = 0]
            /\ call' = [call EXCEPT ![n] = c]
            /\ UNCHANGED saved
         \/ t = 3 /\ NextRound(n, c, node[n].counter + 1)
         \/ t = 4 /\ Finalize(n)
  BY DEF EndOfRound
<1> HIDE DEF t
<1>4. ~ AtRest(node[n])
  BY <1>3 DEF AtRest
<1>5. t # 1 => reach
  <2>1. call[n].dropProposer > 0 => call[n].reached
    BY <1>1 DEF NodeSound
  <2>2. call[n].dropProposer \in 0..2
    BY <1>1 DEF Call
  <2> QED BY <1>2, <2>1, <2>2
<1>6. reach \in BOOLEAN
  BY <1>1 DEF Call, ReachedAlpha
<1> HIDE DEF reach
<1>7. ASSUME t \in 1..3
      PROVE  /\ c \in Call /\ c.dropProposer = t - 1 /\ c.reached = reach
             /\ c.rounds = call[n].rounds /\ c.toAsk = call[n].toAsk
  <2>1. t - 1 \in 0..2
    BY <1>7
  <2> QED BY <1>1, <1>6, <2>1 DEF Call
<1>8. call[n].rounds > node[n].counter /\ call[n].rounds \in Nat /\ node[n].counter \in 0..Beta
  BY <1>1, <1>4 DEF NodeSound, Call, State
<1> HIDE DEF c
<1>9. ASSUME t \in 2..3
       PROVE  c.reached
  <2>1. t \in 1..3 /\ t # 1
    BY <1>9
  <2>2. c.reached = reach
    BY <1>7, <2>1
  <2> QED BY Zenon, <1>5, <2>1, <2>2
<1>10. CASE t = 1 /\ NextRound(n, c, 0)
  <2>1. c \in Call /\ c.dropProposer = 0 /\ c.rounds >= 0 /\ 0 \in 0..Beta
    BY <1>7, <1>8, <1>10, ConstantsHold
  <2> QED BY <1>3, <1>4, <1>10, <2>1, NextRoundKeeps
<1>11. CASE /\ t = 2
            /\ node' = [node EXCEPT ![n].phase = "limboProposer", ![n].counter = 0]
            /\ call' = [call EXCEPT ![n] = c]
            /\ UNCHANGED saved
  <2> DEFINE q == [node[n] EXCEPT !.phase = "limboProposer", !.counter = 0]
  <2>1. /\ q \in State /\ q.phase = "limboProposer" /\ q.counter = 0
        /\ q.final = node[n].final /\ q.proposed = node[n].proposed
    <3>1. 0 \in 0..Beta
      BY ConstantsHold
    <3> QED BY <1>1, <3>1 DEF State
  <2>2. node' = [node EXCEPT ![n] = q] /\ saved' = [saved EXCEPT ![n] = saved[n]]
    BY <1>11 DEF IInv
  <2> HIDE DEF q
  <2>3. c \in Call /\ c.reached /\ c.rounds > q.counter /\ n \notin c.toAsk
    <3>1. t \in 1..3 /\ t \in 2..3
      BY <1>11
    <3>2. c \in Call /\ c.rounds = call[n].rounds /\ c.toAsk = call[n].toAsk
      BY <1>7, <3>1
    <3>3. c.reached
      BY <1>9, <3>1
    <3>4. c.rounds > q.counter
      BY <1>8, <2>1, <3>2
    <3> QED BY <1>1, <3>2, <3>3, <3>4
  <2>4. NodeSound(q, saved[n], c)
    <3>1. ProposalFits(q) /\ ~ AtRest(q)
      BY <1>1, <2>1 DEF ProposalFits, NodeSound, AtRest
    <3>2. saved[n].final = node[n].final /\ Len(node[n].final) <= MaxHeight
      BY <1>1, <1>4 DEF NodeSound
    <3>3. /\ saved[n] \in State /\ Len(saved[n].final) <= MaxHeight /\ ProposalFits(saved[n])
          /\ AtRest(saved[n]) /\ saved[n].counter = 0
      BY <1>1 DEF NodeSound
    <3> QED BY <2>1, <2>3, <3>1, <3>2, <3>3 DEF NodeSound
  <2>5. timer' \in [Node -> BOOLEAN] /\ made' \in 0..MaxBlocks
    BY <1>1, <1>3
  <2> QED BY <1>11, <2>1, <2>2, <2>3, <2>4, <2>5, PutQuietly
<1>12. CASE t = 3 /\ NextRound(n, c, node[n].counter + 1)
  <2>1. node[n].counter + 1 \in 0..Beta /\ call[n].rounds >= node[n].counter + 1
    BY <1>2, <1>8, <1>12, ConstantsHold
  <2>2. c \in Call /\ c.reached /\ c.rounds = call[n].rounds
    <3>1. t \in 1..3 /\ t \in 2..3
      BY <1>12
    <3>2. c \in Call /\ c.rounds = call[n].rounds
      BY <1>7, <3>1
    <3> QED BY <1>9, <3>1, <3>2
  <2> QED BY <1>3, <1>4, <1>12, <2>1, <2>2, NextRoundKeeps
<1>13. CASE t = 4 /\ Finalize(n)
  BY <1>2, <1>3, <1>4, <1>5, <1>13, FinalizeKeeps DEF reach
<1> QED BY <1>3, <1>10, <1>11, <1>12, <1>13

LEMMA LimboKeeps ==
  ASSUME IInv, NEW n \in Node, Limbo(n)
  PROVE  Kept
<1> DEFINE t == Taken(call[n].dropLimbo, LimboGuards(n))
           c == [call[n] EXCEPT !.dropLimbo = t - 1]
<1>1. NodeSound(node[n], saved[n], call[n]) /\ node[n] \in State /\ call[n] \in Call
  BY Parts
<1>2. /\ t = 3 => node[n].counter + 1 >= Beta
      /\ t = 2 => node[n].counter + 1 < Beta
  BY <1>1, TakenInLimbo
<1>3. /\ node[n].phase = "limboProposer" /\ timer' = timer /\ made' = made
      /\ \/ t = 2 /\ NextRound(n, c, node[n].counter + 1)
         \/ t = 3 /\ Finalize(n)
  BY DEF Limbo
<1> HIDE DEF t
<1>4. ~ AtRest(node[n]) /\ call[n].reached
  BY <1>1, <1>3 DEF AtRest, NodeSound
<1>5. call[n].rounds > node[n].counter /\ call[n].rounds \in Nat /\ node[n].counter \in 0..Beta
  BY <1>1, <1>4 DEF NodeSound, Call, State
<1>6. CASE t = 2 /\ NextRound(n, c, node[n].counter + 1)
  <2>1. c \in Call /\ c.reached /\ c.rounds = call[n].rounds
    BY <1>1, <1>4, <1>6 DEF Call
  <2>2. node[n].counter + 1 \in 0..Beta /\ call[n].rounds >= node[n].counter + 1
    BY <1>2, <1>5, <1>6, ConstantsHold
  <2> HIDE DEF c
  <2> QED BY <1>3, <1>4, <1>6, <2>1, <2>2, NextRoundKeeps
<1>7. CASE t = 3 /\ Finalize(n)
  BY <1>2, <1>3, <1>4, <1>7, FinalizeKeeps
<1> QED BY <1>3, <1>6, <1>7

------------------------------------------------------------------------------
LEMMA InitHolds == Init => IInv
<1> SUFFICES ASSUME Init
             PROVE  IInv
  OBVIOUS
<1> DEFINE s == [phase |-> "validator", proposed |-> NoBlock, counter |-> 0, final |-> <<>>]
<1>1. /\ node = [n \in Node |-> s] /\ saved = node
      /\ call = [n \in Node |-> NoCall] /\ timer = [n \in Node |-> FALSE] /\ made = 0
  BY DEF Init
<1>2. 0 \in 0..Beta /\ 0 \in 0..MaxBlocks /\ 0 <= MaxHeight
  BY ConstantsHold
<1>3. <<>> \in Seq(1..MaxBlocks) /\ Len(<<>>) = 0 /\ NoBlock \in Block
  BY DEF Block
<1>4. s \in State
  BY <1>2, <1>3 DEF State
<1>5. s.final = <<>> /\ s.counter = 0 /\ s.phase = "validator" /\ s.proposed.height = 0
  BY DEF NoBlock
<1>6. NoCall \in Call /\ NoCall.dropProposer = 0 /\ NoCall.toAsk = {}
  BY NoCallType DEF NoCall
<1> HIDE DEF s
<1>7. NodeSound(s, s, NoCall)
  BY <1>2, <1>3, <1>4, <1>5, <1>6 DEF NodeSound, ProposalFits, AtRest
<1>8. \A n \in Node : n \notin call[n].toAsk /\ NodeSound(node[n], saved[n], call[n])
  BY <1>1, <1>6, <1>7
<1> QED BY <1>1, <1>2, <1>4, <1>6, <1>8 DEF IInv

LEMMA NextKeeps == IInv /\ [Next]_vars => Kept
<1> SUFFICES ASSUME IInv, [Next]_vars
             PROVE  Kept
  OBVIOUS
<1>1. CASE Next
  <2>1. PICK n \in Node :
          \/ NewTransaction(n) \/ TimerFires(n)
          \/ \E m \in Node : Query(n, m)
          \/ EndOfRound(n) \/ Limbo(n) \/ CallFails(n)
    BY <1>1 DEF Next
  <2> QED BY Zenon, <2>1, NewTransactionKeeps, TimerFiresKeeps, QueryKeeps, EndOfRoundKeeps,
             LimboKeeps, CallFailsKeeps
<1>2. CASE UNCHANGED vars
  <2>1. node' = node /\ saved' = saved /\ call' = call /\ timer' = timer /\ made' = made
    BY <1>2 DEF vars
  <2>2. IInv'
    BY <2>1 DEF IInv, NodeSound, ProposalFits, AtRest, State, Call, Block, NoBlock
  <2> QED BY <2>1, <2>2 DEF Kept, FinalStep
<1> QED BY <1>1, <1>2

THEOREM Invariant == Spec => []IInv
<1>1. Init => IInv
  BY InitHolds
<1>2. IInv /\ [Next]_vars => IInv'
  BY NextKeeps DEF Kept
<1> QED BY <1>1, <1>2, PTL DEF Spec

(* Every variable has its type; in particular the counter stays within
   betaThreshold, and a node at rest has none. *)
THEOREM TypeCorrect == Spec => []TypeOK
<1>1. IInv => TypeOK
  <2> SUFFICES ASSUME IInv
               PROVE  TypeOK
    OBVIOUS
  <2> DEFINE Final == BoundedSeq(1..MaxBlocks, MaxHeight)
  <2>1. ASSUME NEW f \in Seq(1..MaxBlocks), Len(f) <= MaxHeight
        PROVE  f \in Final
    <3>1. Final = UNION {[1..m -> 1..MaxBlocks] : m \in 0..MaxHeight}
      BY DEF BoundedSeq, SeqOf
    <3>2. Len(f) \in 0..MaxHeight /\ f \in [1..Len(f) -> 1..MaxBlocks]
      BY <2>1, ConstantsHold
    <3> QED BY <3>1, <3>2
  <2> HIDE DEF Final
  <2>2. ASSUME NEW n \in Node
        PROVE  /\ node[n] \in [phase: {"validator", "preProposer", "proposer", "limboProposer"},
                               proposed: Block, counter: 0..Beta, final: Final]
               /\ saved[n] \in [phase: {"validator", "preProposer"}, proposed: Block,
                                counter: {0}, final: Final]
               /\ call[n].toAsk \subseteq Node \ {n} /\ call[n].rounds <= MaxRounds
    <3>1. NodeSound(node[n], saved[n], call[n]) /\ n \notin call[n].toAsk
      BY Parts
    <3>2. node[n].final \in Final /\ saved[n].final \in Final
      BY <2>1, <3>1 DEF NodeSound, State
    <3>3. saved[n].counter = 0 /\ saved[n].phase \in {"validator", "preProposer"}
      BY <3>1 DEF NodeSound, AtRest
    <3>4. node[n] \in State /\ saved[n] \in State /\ call[n] \in Call
      BY <3>1 DEF NodeSound
    <3>5. call[n].toAsk \subseteq Node \ {n} /\ call[n].rounds <= MaxRounds
      BY <3>1, <3>4, ConstantsHold DEF Call
    <3> QED BY <3>2, <3>3, <3>4, <3>5 DEF State
  <2> QED BY <2>2 DEF TypeOK, IInv, Final
<1> QED BY <1>1, Invariant, PTL

(* A block once final stays: the block finalized at a node's last height again
   is the one it has there, since a node keeps no other proposal of a height it
   decided.  So the roll back finalizeBlock is ready for never takes one back. *)
THEOREM FinalityLasts == Spec => FinalNeverChanges
<1>1. IInv /\ [Next]_vars => [\A n \in Node : IsPrefix(node[n].final, node'[n].final)]_vars
  <2> SUFFICES ASSUME IInv, [Next]_vars
               PROVE  \A n \in Node : IsPrefix(node[n].final, node'[n].final)
    OBVIOUS
  <2>1. ASSUME NEW n \in Node
        PROVE  IsPrefix(node[n].final, node'[n].final)
    <3>1. FinalStep(n)
      BY NextKeeps DEF Kept
    <3>2. node[n].final \in Seq(1..MaxBlocks)
      BY Parts DEF State
    <3>3. Len(node[n].final) <= Len(node[n].final)
      BY <3>2
    <3> QED BY <3>1, <3>3 DEF FinalStep, IsPrefix
  <2> QED BY <2>1
<1> QED BY <1>1, Invariant, PTL DEF Spec, FinalNeverChanges

(* A call that finalizes ran betaThreshold rounds itself: the counter starts at
   zero in every call, and each round that adds to it is one more round. *)
THEOREM RunsBetaRounds == Spec => AtLeastBetaRounds
<1>1. IInv /\ [Next]_vars
        => [\A n \in Node : node'[n].final # node[n].final => call[n].rounds >= Beta]_vars
  BY NextKeeps DEF Kept, FinalStep
<1> QED BY <1>1, Invariant, PTL DEF Spec, AtLeastBetaRounds

(* A call that finalizes had a round with alphaThreshold percent of the votes
   for one block: its first pass of the transition that asks again. *)
THEOREM ReachesThreshold == Spec => ThresholdWasReached
<1>1. IInv /\ [Next]_vars
        => [\A n \in Node : node'[n].final # node[n].final =>
                              call[n].reached \/ ReachedAlpha(n)]_vars
  BY NextKeeps DEF Kept, FinalStep
<1> QED BY <1>1, Invariant, PTL DEF Spec, ThresholdWasReached
=============================================================================
