---------------------------- MODULE RaftP2P_proofs ----------------------------
EXTENDS RaftP2P, Induction, FiniteSetTheorems, SequenceTheorems

(* The safety of RaftP2P for every number of nodes and every bound.

   The inductive invariant IInv says of each node that its log holds the block
   of height i at index i, that its commit index lies within its log and that
   its chain is the linked beginning of what it committed (NodesSound); that the
   proposer of every entry is a leader (LogsLed), because a leader never steps
   down; the same of the messages on the way (MessagesSound); and, for a leader,
   that at an index it filled itself a next index beyond it is the answer of a
   node whose log reaches it (Acks).  Below that index nothing is known:
   initializeNextIndex sets every next index past the log the leader was elected
   with, and checkCommits counts those as answers.

   FinalizedSound and RangeSound follow the blocks through startBlockFinalization
   from the commit index to the new one, by induction on the index
   (Induction.IntervalRecursion); each *Step lemma is one action of Next. *)

(* What Finalized works on. *)
FinalState == [chain : Seq(Block), term : Terms, reverted : BOOLEAN]

(* Every block stands on the one below it, the first on the genesis. *)
Linked(c) ==
    \A i \in 1..Len(c) :
        /\ c[i].height = i
        /\ c[i].parent = IF i = 1 THEN Genesis ELSE Hash(c[i - 1])

(* The blocks of c are the first ones of the log l, and k of them at most. *)
Within(c, l, k) == Len(c) <= k /\ \A i \in 1..Len(c) : l[i].block = c[i]

(* The block of height i is at index i. *)
HeightsOf(l) == \A i \in 1..Len(l) : l[i].block.height = i

(* What finalizing the first k entries of l may have done. *)
Sound(s, l, k) ==
    /\ s \in FinalState
    /\ ~s.reverted => Linked(s.chain) /\ Within(s.chain, l, k)

LEMMA FinalizedType ==
  ASSUME NEW s \in FinalState, NEW e \in Entry
  PROVE  Finalized(s, e) \in FinalState
<1>1. e.block \in Block /\ e.term \in Terms
  BY DEF Entry
<1>2. s.chain \in Seq(Block)
  BY DEF FinalState
<1>3. Append(s.chain, e.block) \in Seq(Block)
  BY <1>1, <1>2
<1> QED BY <1>1, <1>3 DEF Finalized, FinalState

LEMMA FinalizedSound ==
  ASSUME NEW s, NEW l \in Seq(Entry), NEW k \in Nat, k < Len(l), HeightsOf(l), Sound(s, l, k)
  PROVE  Sound(Finalized(s, l[k + 1]), l, k + 1)
<1> DEFINE e == l[k + 1]
           r == Finalized(s, e)
<1>1. e \in Entry /\ e.block \in Block /\ e.term \in Terms /\ e.block.height = k + 1
  <2>1. k + 1 \in 1..Len(l)
    OBVIOUS
  <2>2. e \in Entry
    BY <2>1
  <2>3. e.block.height = k + 1
    BY <2>1 DEF HeightsOf
  <2> HIDE DEF e
  <2> QED BY <2>2, <2>3 DEF Entry
<1>2. s \in FinalState /\ s.chain \in Seq(Block)
  BY DEF Sound, FinalState
<1>3. r \in FinalState
  BY <1>1, <1>2, FinalizedType
<1>4. CASE s.reverted \/ ~Verified(e.block, s.chain)
  BY <1>2, <1>4 DEF Finalized, Sound, Within, FinalState
<1>5. CASE ~s.reverted /\ Verified(e.block, s.chain) /\ e.block.height # Len(s.chain) + 1
  BY <1>2, <1>3, <1>5 DEF Finalized, Sound, FinalState
<1>6. CASE ~s.reverted /\ Verified(e.block, s.chain) /\ e.block.height = Len(s.chain) + 1
  <2> DEFINE c == Append(s.chain, e.block)
  <2>1. r.chain = c /\ Len(s.chain) = k
    BY <1>1, <1>2, <1>6 DEF Finalized, FinalState
  <2>2. c \in Seq(Block) /\ Len(c) = k + 1 /\ c[k + 1] = e.block /\ \A i \in 1..k : c[i] = s.chain[i]
    BY <1>1, <1>2, <2>1
  <2>3. Linked(s.chain) /\ Within(s.chain, l, k)
    BY <1>6 DEF Sound
  <2>4. e.block.parent = IF k = 0 THEN Genesis ELSE Hash(s.chain[k])
    BY <1>2, <1>6, <2>1 DEF Verified, Tip
  <2>5. Linked(c)
    <3> SUFFICES ASSUME NEW i \in 1..(k + 1)
                 PROVE  c[i].height = i /\ c[i].parent = IF i = 1 THEN Genesis ELSE Hash(c[i - 1])
      BY <2>2 DEF Linked
    <3>1. CASE i = k + 1
      <4>1. k # 0 => k \in 1..k
        OBVIOUS
      <4> QED BY <1>1, <2>2, <2>4, <3>1, <4>1
    <3>2. CASE i # k + 1
      <4>1. i \in 1..k /\ (i # 1 => i - 1 \in 1..k)
        BY <3>2
      <4> QED BY <2>1, <2>2, <2>3, <4>1 DEF Linked
    <3> QED BY <3>1, <3>2
  <2>6. Within(c, l, k + 1)
    <3> SUFFICES ASSUME NEW i \in 1..(k + 1)
                 PROVE  l[i].block = c[i]
      BY <2>2 DEF Within
    <3>1. CASE i = k + 1
      BY <2>2, <3>1
    <3>2. CASE i # k + 1
      <4>1. i \in 1..k
        BY <3>2
      <4> QED BY <2>1, <2>2, <2>3, <4>1 DEF Within
    <3> QED BY <3>1, <3>2
  <2> QED BY <1>3, <2>1, <2>5, <2>6 DEF Sound
<1> QED BY <1>4, <1>5, <1>6

LEMMA RangeSound ==
  ASSUME NEW s, NEW l \in Seq(Entry), NEW from \in Nat \ {0}, NEW to \in Nat,
         from <= to, to <= Len(l), HeightsOf(l), Sound(s, l, from - 1)
  PROVE  Sound(FinalizedRange(s, l, from, to), l, to)
<1> DEFINE a == from - 1
           f[i \in a..to] ==
             IF i < from THEN s
             ELSE IF i > Len(l) THEN f[i - 1] ELSE Finalized(f[i - 1], l[i])
           step == [p \in FinalState \X Int |->
                      IF p[2] \in 1..Len(l) THEN Finalized(p[1], l[p[2]]) ELSE p[1]]
<1>1. FinalizedRange(s, l, from, to) = f[to]
  BY DEF FinalizedRange
<1>2. step \in [FinalState \X Int -> FinalState]
  <2> SUFFICES ASSUME NEW p \in FinalState \X Int, p[2] \in 1..Len(l)
               PROVE  Finalized(p[1], l[p[2]]) \in FinalState
    OBVIOUS
  <2>1. p[1] \in FinalState /\ l[p[2]] \in Entry
    OBVIOUS
  <2> QED BY <2>1, FinalizedType
<1>3. \E g : g = [i \in a..to |-> IF i < from THEN s
                                ELSE IF i > Len(l) THEN g[i - 1] ELSE Finalized(g[i - 1], l[i])]
  <2>1. s \in FinalState
    BY DEF Sound
  <2>2. PICK g : Recursion(g, FinalState, s, a, to, step)
    <3>1. a \in Int /\ to \in Int
      OBVIOUS
    <3> HIDE DEF a, step
    <3> QED BY <1>2, <2>1, <3>1, IntervalRecursion
  <2>3. /\ g \in [a..to -> FinalState]
        /\ \A i \in a..to : g[i] = IF i = a THEN s ELSE step[<<g[i - 1], i>>]
    BY <2>2 DEF Recursion
  <2>4. ASSUME NEW i \in a..to
        PROVE  g[i] = IF i < from THEN s
                      ELSE IF i > Len(l) THEN g[i - 1] ELSE Finalized(g[i - 1], l[i])
    <3>1. CASE i < from
      <4>1. i = a
        BY <3>1
      <4> QED BY <2>3, <3>1, <4>1
    <3>2. CASE ~ i < from
      <4>1. i - 1 \in a..to /\ i # a /\ i \in 1..Len(l) /\ ~ (i > Len(l))
        BY <3>2
      <4>2. <<g[i - 1], i>> \in FinalState \X Int
        BY <2>3, <4>1
      <4>3. step[<<g[i - 1], i>>] = Finalized(g[i - 1], l[i])
        BY <4>1, <4>2
      <4>4. g[i] = step[<<g[i - 1], i>>]
        BY <2>3, <4>1
      <4> HIDE DEF step
      <4> QED BY <3>2, <4>1, <4>3, <4>4
    <3> QED BY <3>1, <3>2
  <2>5. g = [i \in a..to |-> IF i < from THEN s
                             ELSE IF i > Len(l) THEN g[i - 1] ELSE Finalized(g[i - 1], l[i])]
    BY <2>3, <2>4
  <2> QED BY <2>5
<1>4. f = [i \in a..to |-> IF i < from THEN s
                           ELSE IF i > Len(l) THEN f[i - 1] ELSE Finalized(f[i - 1], l[i])]
  <2> HIDE DEF a
  <2> QED BY <1>3, Zenon DEF f
<1> DEFINE Holds == {i \in Int : Sound(f[i], l, i)}
<1> HIDE DEF f
<1>5. a \in Holds
  BY <1>4
<1>6. ASSUME NEW i \in a..to, i \in Holds, i < to
      PROVE  i + 1 \in Holds
  <2>1. i + 1 \in a..to /\ ~ (i + 1 < from) /\ ~ (i + 1 > Len(l)) /\ (i + 1) - 1 = i
    BY <1>6
  <2>2. f[i + 1] = Finalized(f[i], l[i + 1])
    BY <1>4, <2>1
  <2>3. i \in Nat /\ i < Len(l) /\ Sound(f[i], l, i)
    BY <1>6
  <2>4. Sound(f[i + 1], l, i + 1)
    BY <2>2, <2>3, FinalizedSound
  <2> QED BY <2>1, <2>4
<1> HIDE DEF Holds
<1>7. \A i \in a..to : i \in Holds
  BY <1>5, <1>6, IntervalInduction
<1>8. to \in Holds
  BY <1>7
<1> QED BY <1>1, <1>8 DEF Holds

------------------------------------------------------------------------------
(* The log r is the log l with entries after it. *)
Extends(r, l) == Len(l) <= Len(r) /\ \A i \in 1..Len(l) : r[i] = l[i]

(* The entries of a heartbeat are those of the indexes from first on. *)
HeightsFrom(first, entries) ==
    \A i \in 1..Len(entries) : entries[i].block.height = first + i - 1

LEMMA AppendedSound ==
  ASSUME NEW l \in Seq(Entry), NEW entries \in Seq(Entry), NEW first \in Nat \ {0},
         HeightsOf(l), HeightsFrom(first, entries), ~LeavesGap(l, first, entries)
  PROVE  LET r == Appended(l, first, entries) IN
         /\ r \in Seq(Entry) /\ HeightsOf(r) /\ Extends(r, l)
         /\ \A i \in 1..Len(r) : i > Len(l) => \E j \in 1..Len(entries) : r[i] = entries[j]
<1> DEFINE r == Appended(l, first, entries)
           k == Len(l) + 2 - first
           t == SubSeq(entries, k, Len(entries))
<1>1. CASE entries = <<>>
  BY <1>1 DEF Appended, Extends
<1>2. CASE entries # <<>>
  <2>1. first <= Len(l) + 1 /\ r = l \o t
    BY <1>2 DEF LeavesGap, Appended
  <2>2. k \in Nat \ {0} /\ Len(l) \in Nat /\ Len(entries) \in Nat
    BY <2>1
  <2>3. /\ t \in Seq(Entry)
        /\ Len(t) = IF k <= Len(entries) THEN Len(entries) - k + 1 ELSE 0
        /\ \A i \in 1..Len(t) : t[i] = entries[k + i - 1]
    <3>1. \A i \in k..Len(entries) : entries[i] \in Entry
      BY <2>2
    <3> HIDE DEF k
    <3> QED BY <2>2, <3>1, SubSeqProperties
  <2>4. /\ r \in Seq(Entry) /\ Len(r) = Len(l) + Len(t)
        /\ \A i \in 1..Len(r) : r[i] = IF i <= Len(l) THEN l[i] ELSE t[i - Len(l)]
    <3> HIDE DEF r, t
    <3>1. /\ l \o t \in Seq(Entry) /\ Len(l \o t) = Len(l) + Len(t)
          /\ \A i \in 1..(Len(l) + Len(t)) : (l \o t)[i] = IF i <= Len(l) THEN l[i] ELSE t[i - Len(l)]
      BY <2>3, ConcatProperties
    <3> QED BY <2>1, <3>1
  <2>5. Extends(r, l)
    BY <2>2, <2>3, <2>4 DEF Extends
  <2>6. ASSUME NEW i \in 1..Len(r), i > Len(l)
        PROVE  \E j \in 1..Len(entries) : r[i] = entries[j] /\ i = first + j - 1
    <3> DEFINE j == k + (i - Len(l)) - 1
    <3>1. i - Len(l) \in 1..Len(t)
      BY <2>2, <2>3, <2>4, <2>6
    <3>2. j \in 1..Len(entries) /\ i = first + j - 1
      BY <2>2, <2>3, <3>1, <2>6
    <3>3. r[i] = entries[j]
      BY <2>2, <2>3, <2>4, <2>6, <3>1
    <3> QED BY <3>2, <3>3
  <2>7. HeightsOf(r)
    <3> SUFFICES ASSUME NEW i \in 1..Len(r)
                 PROVE  r[i].block.height = i
      BY DEF HeightsOf
    <3>1. CASE i <= Len(l)
      <4>1. i \in 1..Len(l) /\ r[i] = l[i]
        BY <2>2, <2>4, <3>1
      <4> QED BY <4>1 DEF HeightsOf
    <3>2. CASE i > Len(l)
      BY <2>6, <3>2 DEF HeightsFrom
    <3> QED BY <2>2, <3>1, <3>2
  <2> HIDE DEF r, t, k
  <2>8. \A i \in 1..Len(r) : i > Len(l) => \E j \in 1..Len(entries) : r[i] = entries[j]
    BY <2>6
  <2> QED BY <2>4, <2>5, <2>7, <2>8 DEF r
<1> QED BY <1>1, <1>2
------------------------------------------------------------------------------
(* What holds of one node: its log, its commit index and its chain. *)
NodeSound(l, c, ch) ==
    HeightsOf(l) /\ c <= Len(l) /\ Linked(ch) /\ Within(ch, l, c)

NodesSound == \A n \in Node : NodeSound(log[n], commit[n], chain[n])

(* The proposer of an entry leads, and no leader steps down. *)
Led(roles, l) == \A i \in 1..Len(l) : roles[l[i].block.proposer] = "Leader"

LogsLed == \A n \in Node : Led(role, log[n])

HeartbeatSound(roles, m) ==
    m.leader # m.to /\ HeightsFrom(m.first, m.entries) /\ Led(roles, m.entries)

ResponseSound(logs, m) == m.from # m.to /\ m.lastIndex <= Len(logs[m.from])

MessagesSound ==
    \A m \in msgs :
        /\ m.type = "heartbeat" => HeartbeatSound(role, m)
        /\ m.type = "response" => ResponseSound(log, m)

(* An index beyond the log a leader was elected with: its next index stands for
   an answer there, and for an entry of the node that answered. *)
Own(n, l, i) == i > Len(l) \/ l[i].block.proposer = n

Acknowledges(logs, n, next) ==
    \A i \in Nat \ {0} : Own(n, logs[n], i) =>
        /\ next[n] <= i
        /\ \A m \in Node \ {n} : next[m] > i => Len(logs[m]) >= i

Acks == \A n \in Node : role[n] = "Leader" => Acknowledges(log, n, nextIndex[n])

IInv == TypeOK /\ NodesSound /\ LogsLed /\ MessagesSound /\ Acks

(* What every step does: logs and commit indexes grow, and a leader has a
   majority for a block of its own. *)
Grows == \A n \in Node : Extends(log'[n], log[n]) /\ commit[n] <= commit'[n]

ByMajority ==
    \A n \in Node :
        /\ role'[n] = "Leader"
        /\ chain'[n] # chain[n]
        /\ chain'[n][Len(chain'[n])].proposer = n
        => Cardinality({m \in Node : Len(log'[m]) >= Len(chain'[n])}) >= Majority

(* The step of LogsOnlyGrow. *)
OnlyAppends ==
    \A n \in Node :
        /\ IsPrefix(log[n], log'[n])
        /\ commit'[n] >= commit[n]

(* What each *Step lemma concludes. *)
StepSound == IInv' /\ Grows /\ ByMajority

(* RaftAssumption by name, for the steps that need it. *)
Inputs == N \in Nat \ {0} /\ SyncBatch \in Nat /\ MaxTerm \in Nat /\ MaxHeight \in Nat

LEMMA InputsHold == Inputs
  BY RaftAssumption DEF RaftAssumption, Inputs

LEMMA InitInv == Init => IInv
<1> SUFFICES ASSUME Init
             PROVE  IInv
  OBVIOUS
<1>1. Inputs
  BY InputsHold
<1>2. <<>> \in Seq(Entry) /\ <<>> \in Seq(Block) /\ Len(<<>>) = 0
  OBVIOUS
<1>3. TypeOK
  <2>1. 1 \in 1..(MaxHeight + 1) /\ 0 \in Terms /\ 0 \in Indexes
    BY <1>1 DEF Inputs, Terms, Indexes
  <2> QED BY <1>2, <2>1 DEF Init, TypeOK
<1>4. NodesSound
  BY <1>2 DEF Init, NodesSound, NodeSound, HeightsOf, Linked, Within
<1>5. LogsLed
  BY <1>2 DEF Init, LogsLed, Led
<1>6. MessagesSound /\ Acks
  BY DEF Init, MessagesSound, Acks
<1> QED BY <1>3, <1>4, <1>5, <1>6 DEF IInv

(* The length of a log is bounded as the heights in it are. *)
LEMMA LogBound ==
  ASSUME NEW l \in Seq(Entry), HeightsOf(l)
  PROVE  Len(l) \in Indexes
<1>1. Inputs
  BY InputsHold
<1>2. CASE l = <<>>
  BY <1>1, <1>2 DEF Inputs, Indexes
<1>3. CASE l # <<>>
  <2>1. Len(l) \in 1..Len(l)
    BY <1>3
  <2>2. l[Len(l)] \in Entry
    BY <2>1
  <2>3. l[Len(l)].block.height \in Indexes
    BY <2>2 DEF Entry, Block
  <2> QED BY <2>1, <2>3 DEF HeightsOf
<1> QED BY <1>2, <1>3
------------------------------------------------------------------------------
(* What a step keeps of the messages and the answers when logs only grow. *)
LEMMA LedStays ==
  ASSUME NEW l \in Seq(Entry), Led(role, l), \A p \in Node : role[p] = "Leader" => role'[p] = "Leader"
  PROVE  Led(role', l)
<1> SUFFICES ASSUME NEW i \in 1..Len(l)
             PROVE  role'[l[i].block.proposer] = "Leader"
  BY DEF Led
<1>1. l[i] \in Entry
  OBVIOUS
<1>2. l[i].block.proposer \in Node
  BY <1>1 DEF Entry, Block
<1> QED BY <1>2 DEF Led

LEMMA MessageStays ==
  ASSUME IInv, NEW m \in msgs,
         \A p \in Node : role[p] = "Leader" => role'[p] = "Leader",
         \A n \in Node : Extends(log'[n], log[n]) /\ log'[n] \in Seq(Entry)
  PROVE  /\ m.type = "heartbeat" => HeartbeatSound(role', m)
         /\ m.type = "response" => ResponseSound(log', m)
<1>1. CASE m.type = "heartbeat"
  <2>1. HeartbeatSound(role, m) /\ m.entries \in Seq(Entry)
    BY <1>1 DEF IInv, TypeOK, Message, MessagesSound
  <2>2. Led(role', m.entries)
    BY <2>1, LedStays DEF HeartbeatSound
  <2> QED BY <1>1, <2>1, <2>2 DEF HeartbeatSound
<1>2. CASE m.type = "response"
  <2>1. ResponseSound(log, m) /\ m.from \in Node /\ m.lastIndex \in Indexes
    BY <1>2 DEF IInv, TypeOK, Message, MessagesSound
  <2>2. Len(log[m.from]) <= Len(log'[m.from]) /\ Len(log[m.from]) \in Nat /\ Len(log'[m.from]) \in Nat
    BY <2>1 DEF Extends, IInv, TypeOK
  <2>3. m.lastIndex \in Nat
    BY <2>1, InputsHold DEF Indexes, Inputs
  <2> QED BY <1>2, <2>1, <2>2, <2>3 DEF ResponseSound
<1> QED BY <1>1, <1>2

LEMMA AcknowledgesStays ==
  ASSUME IInv, NEW n \in Node, NEW next \in [Node -> 1..(MaxHeight + 1)], Acknowledges(log, n, next),
         \A m \in Node : Extends(log'[m], log[m]) /\ log'[m] \in Seq(Entry)
  PROVE  Acknowledges(log', n, next)
<1> SUFFICES ASSUME NEW i \in Nat \ {0}, Own(n, log'[n], i)
             PROVE  /\ next[n] <= i
                    /\ \A m \in Node \ {n} : next[m] > i => Len(log'[m]) >= i
  BY DEF Acknowledges, Own
<1>1. \A m \in Node : Len(log[m]) \in Nat /\ Len(log'[m]) \in Nat /\ Len(log[m]) <= Len(log'[m])
  BY DEF Extends, IInv, TypeOK
<1>2. Own(n, log[n], i)
  <2>1. CASE i > Len(log[n])
    BY <2>1 DEF Own
  <2>2. CASE i <= Len(log[n])
    BY <1>1, <2>2 DEF Own, Extends
  <2> QED BY <1>1, <2>1, <2>2
<1>3. /\ next[n] <= i
      /\ \A m \in Node \ {n} : next[m] > i => Len(log[m]) >= i
  BY <1>2 DEF Acknowledges
<1> QED BY <1>1, <1>3

LEMMA ExtendsItself ==
  ASSUME NEW l \in Seq(Entry)
  PROVE  Extends(l, l)
BY DEF Extends

------------------------------------------------------------------------------
(* No step of an election changes a log, and no leader steps down. *)
LEMMA QuietStep ==
  ASSUME IInv, TypeOK', UNCHANGED <<log, commit, chain, nextIndex>>,
         \A n \in Node : role[n] = "Leader" <=> role'[n] = "Leader",
         \A m \in msgs' : m \in msgs \/ m.type \notin {"heartbeat", "response"}
  PROVE  StepSound
<1>1. \A n \in Node : log'[n] \in Seq(Entry) /\ Extends(log'[n], log[n])
  BY ExtendsItself DEF IInv, TypeOK
<1>2. NodesSound'
  BY DEF IInv, NodesSound
<1>3. LogsLed'
  BY LedStays DEF IInv, TypeOK, LogsLed
<1>4. MessagesSound'
  BY <1>1, MessageStays DEF MessagesSound
<1>5. Acks'
  BY DEF IInv, Acks, Acknowledges
<1>6. Grows
  BY <1>1, InputsHold DEF Grows, IInv, TypeOK, Indexes, Inputs
<1>7. ByMajority
  BY DEF ByMajority
<1> QED BY <1>2, <1>3, <1>4, <1>5, <1>6, <1>7 DEF IInv, StepSound

LEMMA ElectionTimeoutStep ==
  ASSUME IInv, NEW n \in Node, ElectionTimeout(n)
  PROVE  StepSound
<1>1. term[n] + 1 \in Terms
  BY InputsHold DEF IInv, TypeOK, ElectionTimeout, Terms, Inputs
<1>2. \A i \in Node : VoteRequest(n, i) \in Message
  <2>1. Len(log[n]) \in Indexes
    BY LogBound DEF IInv, TypeOK, NodesSound, NodeSound
  <2> QED BY <1>1, <2>1 DEF VoteRequest, Message
<1>3. TypeOK'
  BY <1>1, <1>2 DEF IInv, TypeOK, ElectionTimeout
<1>4. \A i \in Node : role[i] = "Leader" <=> role'[i] = "Leader"
  BY DEF IInv, TypeOK, ElectionTimeout
<1>5. \A m \in msgs' : m \in msgs \/ m.type \notin {"heartbeat", "response"}
  BY DEF ElectionTimeout, VoteRequest
<1>6. UNCHANGED <<log, commit, chain, nextIndex>>
  BY DEF ElectionTimeout
<1> QED BY <1>3, <1>4, <1>5, <1>6, QuietStep

LEMMA CandidateTimeoutStep ==
  ASSUME IInv, NEW n \in Node, CandidateTimeout(n)
  PROVE  StepSound
<1>1. TypeOK'
  BY DEF IInv, TypeOK, CandidateTimeout
<1>2. \A i \in Node : role[i] = "Leader" <=> role'[i] = "Leader"
  BY DEF IInv, TypeOK, CandidateTimeout
<1>3. UNCHANGED <<log, commit, chain, nextIndex>> /\ msgs' = msgs
  BY DEF CandidateTimeout
<1> QED BY <1>1, <1>2, <1>3, QuietStep

LEMMA VoteStep ==
  ASSUME IInv, NEW m \in msgs, NEW n \in Node, Vote(n, m)
  PROVE  StepSound
<1>1. m.term \in Terms /\ m.candidate \in Node
  BY DEF IInv, TypeOK, Message, Vote
<1>2. term' \in [Node -> Terms] /\ votedFor' \in [Node -> Node \cup {Nobody}]
  BY <1>1 DEF IInv, TypeOK, Vote
<1>3. \A g \in BOOLEAN : VoteResponse(n, m.candidate, term'[n], g) \in Message
  BY <1>1, <1>2 DEF VoteResponse, Message
<1>4. PICK g \in BOOLEAN : msgs' = (msgs \ {m}) \cup {VoteResponse(n, m.candidate, term'[n], g)}
  BY DEF Vote
<1>5. TypeOK'
  BY <1>2, <1>3, <1>4 DEF IInv, TypeOK, Vote
<1>6. \A i \in msgs' : i \in msgs \/ i.type \notin {"heartbeat", "response"}
  BY <1>4 DEF VoteResponse
<1>7. UNCHANGED <<role, log, commit, chain, nextIndex>>
  BY DEF Vote
<1> QED BY <1>5, <1>6, <1>7, QuietStep

LEMMA ReceiveVoteResponseStep ==
  ASSUME IInv, NEW m \in msgs, NEW n \in Node, ReceiveVoteResponse(n, m)
  PROVE  StepSound
<1>1. m.term \in Terms /\ m.from \in Node
  BY DEF IInv, TypeOK, Message, ReceiveVoteResponse
<1>2. TypeOK'
  BY <1>1 DEF IInv, TypeOK, ReceiveVoteResponse
<1>3. UNCHANGED <<role, log, commit, chain, nextIndex>> /\ msgs' \subseteq msgs
  BY DEF ReceiveVoteResponse
<1> QED BY <1>2, <1>3, QuietStep

LEMMA LoseStep ==
  ASSUME IInv, NEW m \in msgs, Lose(m)
  PROVE  StepSound
<1>1. TypeOK'
  BY DEF IInv, TypeOK, Lose
<1>2. UNCHANGED <<role, log, commit, chain, nextIndex>> /\ msgs' \subseteq msgs
  BY DEF Lose
<1> QED BY <1>1, <1>2, QuietStep

LEMMA StutterStep ==
  ASSUME IInv, UNCHANGED vars
  PROVE  StepSound
<1>1. TypeOK'
  BY DEF IInv, TypeOK, vars
<1> QED BY <1>1, QuietStep DEF vars
------------------------------------------------------------------------------
LEMMA NodeFinite == IsFiniteSet(Node)
<1>1. 0 \in Int /\ N - 1 \in Int
  BY InputsHold DEF Inputs
<1> QED BY <1>1, FS_Interval DEF Node

(* What a leader commits from a log that extends its own. *)
LEMMA NodeSoundExtended ==
  ASSUME NEW l, NEW r \in Seq(Entry), NEW c \in Nat, NEW ch \in Seq(Block), l \in Seq(Entry),
         NodeSound(l, c, ch), HeightsOf(r), Extends(r, l)
  PROVE  NodeSound(r, c, ch)
<1>1. Len(ch) <= c /\ c <= Len(l) /\ Len(l) <= Len(r)
  BY DEF NodeSound, Within, Extends
<1>2. ASSUME NEW i \in 1..Len(ch)
      PROVE  r[i].block = ch[i]
  <2>1. i \in 1..Len(l)
    BY <1>1
  <2> QED BY <2>1 DEF NodeSound, Within, Extends
<1> QED BY <1>1, <1>2 DEF NodeSound, Within

LEMMA CommitSound ==
  ASSUME IInv, NEW n \in Node, NEW l \in Seq(Entry), HeightsOf(l), Extends(l, log[n]), NEW next
  PROVE  LET c == CommitBlocks(n, l, next)
             h == commit[n] + 1 IN
         /\ c.commit \in Nat /\ c.commit <= Len(l) /\ commit[n] <= c.commit
         /\ c.state \in FinalState
         /\ ~c.state.reverted => NodeSound(l, c.commit, c.state.chain)
         /\ c.state.chain # chain[n] =>
               /\ h \in 1..Len(l) /\ Len(c.state.chain) = h /\ c.state.chain[h] = l[h].block
               /\ 1 + Cardinality({m \in Node : next[m] > h}) >= Majority
<1> DEFINE c == CommitBlocks(n, l, next)
           h == commit[n] + 1
           s == [chain |-> chain[n], term |-> term[n], reverted |-> FALSE]
           enough == 1 + Cardinality({m \in Node : next[m] > h}) >= Majority
           few == 1 + Cardinality({m \in Node : next[m] > h}) < Majority
<1>1. /\ commit[n] \in Nat /\ chain[n] \in Seq(Block) /\ term[n] \in Terms
      /\ log[n] \in Seq(Entry) /\ NodeSound(log[n], commit[n], chain[n])
  BY InputsHold DEF IInv, TypeOK, NodesSound, Inputs, Indexes
<1>2. NodeSound(l, commit[n], chain[n])
  BY <1>1, NodeSoundExtended
<1>3. s \in FinalState /\ Sound(s, l, commit[n])
  BY <1>1, <1>2 DEF FinalState, Sound, NodeSound
<1>4. CASE Len(l) < h \/ few
  <2>1. c = [state |-> s, commit |-> commit[n]]
    BY <1>4 DEF CommitBlocks
  <2> QED BY <1>1, <1>2, <1>3, <2>1 DEF NodeSound
<1>5. CASE ~ (Len(l) < h \/ few)
  <2> DEFINE r == Finalized(s, l[h])
  <2>1. h \in 1..Len(l) /\ commit[n] < Len(l)
    BY <1>1, <1>5
  <2>2. Sound(r, l, h)
    BY <1>1, <1>3, <2>1, FinalizedSound
  <2>3. c.commit = h /\ c.state = IF l[h].term = term[n] THEN r ELSE s
    BY <1>5 DEF CommitBlocks
  <2>4. c.state \in FinalState /\ (~c.state.reverted => NodeSound(l, h, c.state.chain))
    <3>1. CASE c.state = r
      BY <2>1, <2>2, <3>1 DEF Sound, NodeSound
    <3>2. CASE c.state = s
      BY <1>1, <1>2, <1>3, <2>1, <3>2 DEF NodeSound, Within
    <3> QED BY <2>3, <3>1, <3>2
  <2>5. ASSUME c.state.chain # chain[n]
        PROVE  Len(c.state.chain) = h /\ c.state.chain[h] = l[h].block
    <3>1. r.chain # s.chain /\ c.state = r
      BY <2>3, <2>5
    <3>2. r.chain = Append(s.chain, l[h].block) /\ l[h].block.height = Len(s.chain) + 1
      BY <1>3, <3>1 DEF Finalized, FinalState
    <3>3. l[h].block.height = h
      BY <2>1 DEF HeightsOf
    <3>4. l[h].block \in Block
      <4>1. l[h] \in Entry
        BY <2>1
      <4> QED BY <4>1 DEF Entry
    <3>5. Len(s.chain) + 1 = h /\ s.chain = chain[n]
      BY <3>2, <3>3
    <3> HIDE DEF c, r, s, h
    <3> QED BY <1>1, <3>1, <3>2, <3>4, <3>5
  <2>6. enough
    <3>1. IsFiniteSet({m \in Node : next[m] > h})
      <4>1. IsFiniteSet(Node)
        BY InputsHold, FS_Interval DEF Node, Inputs
      <4> QED BY <4>1, FS_Subset
    <3>2. Cardinality({m \in Node : next[m] > h}) \in Nat /\ Majority \in Nat
      BY <3>1, FS_CardinalityType, InputsHold DEF Majority, Inputs
    <3> QED BY <1>5, <3>2
  <2> HIDE DEF c, enough
  <2> QED BY <1>1, <2>1, <2>3, <2>4, <2>5, <2>6 DEF enough, c
<1> QED BY <1>4, <1>5
(* A block of its own that a leader finalizes is in a majority of the places. *)
LEMMA OwnBlockByMajority ==
  ASSUME IInv, NEW n \in Node, NEW l \in Seq(Entry), HeightsOf(l), Extends(l, log[n]),
         NEW next \in [Node -> 1..(MaxHeight + 1)], Acknowledges(log, n, next),
         log' = [log EXCEPT ![n] = l],
         chain' = [chain EXCEPT ![n] = CommitBlocks(n, l, next).state.chain]
  PROVE  ByMajority
<1> DEFINE c == CommitBlocks(n, l, next).state.chain
           h == commit[n] + 1
           T == {m \in Node : next[m] > h}
           U == {m \in Node : Len(log'[m]) >= h}
<1> SUFFICES ASSUME c # chain[n], c[Len(c)].proposer = n
             PROVE  Cardinality({m \in Node : Len(log'[m]) >= Len(c)}) >= Majority
  BY DEF ByMajority, IInv, TypeOK
<1>1. h \in 1..Len(l) /\ Len(c) = h /\ c[h] = l[h].block /\ 1 + Cardinality(T) >= Majority
  BY CommitSound
<1> HIDE DEF c, h
<1>2. log[n] \in Seq(Entry) /\ h \in Nat \ {0} /\ l[h].block.proposer = n
  BY <1>1 DEF IInv, TypeOK
<1>3. Own(n, log[n], h)
  <2>1. CASE h > Len(log[n])
    BY <2>1 DEF Own
  <2>2. CASE h <= Len(log[n])
    BY <1>2, <2>2 DEF Own, Extends
  <2> QED BY <1>2, <2>1, <2>2
<1>4. next[n] <= h /\ \A m \in Node \ {n} : next[m] > h => Len(log[m]) >= h
  BY <1>2, <1>3 DEF Acknowledges
<1>5. n \notin T /\ T \cup {n} \subseteq U
  <2>1. log'[n] = l /\ \A m \in Node \ {n} : log'[m] = log[m]
    BY DEF IInv, TypeOK
  <2>2. next[n] \in Nat
    BY InputsHold DEF Inputs
  <2> QED BY <1>1, <1>2, <1>4, <2>1, <2>2
<1>6. IsFiniteSet(Node)
  BY NodeFinite
<1>7. IsFiniteSet(T) /\ IsFiniteSet(U)
  BY <1>6, FS_Subset
<1> HIDE DEF T, U
<1>8. Cardinality(T \cup {n}) = Cardinality(T) + 1
  BY <1>5, <1>7, FS_AddElement
<1>9. Cardinality(T \cup {n}) <= Cardinality(U)
  BY <1>5, <1>7, FS_Subset
<1>10. Cardinality(T) \in Nat /\ Cardinality(U) \in Nat /\ Majority \in Int
  BY <1>7, FS_CardinalityType, InputsHold DEF Majority, Inputs
<1> QED BY <1>1, <1>8, <1>9, <1>10 DEF U

------------------------------------------------------------------------------
(* What a leader proposes, and the heartbeat it sends. *)
LEMMA ProposedSound ==
  ASSUME IInv, NEW n \in Node
  PROVE  /\ Proposed(n) \in Seq(Entry) /\ HeightsOf(Proposed(n)) /\ Extends(Proposed(n), log[n])
         /\ \A i \in 1..Len(Proposed(n)) : i > Len(log[n]) => Proposed(n)[i].block.proposer = n
<1> DEFINE l == log[n]
           e == NewEntry(n)
           r == Append(l, e)
<1>1. l \in Seq(Entry) /\ HeightsOf(l) /\ Len(l) \in Nat
  BY DEF IInv, TypeOK, NodesSound, NodeSound
<1>2. CASE Proposed(n) = l
  BY <1>1, <1>2, ExtendsItself
<1>3. CASE Proposed(n) # l
  <2>1. Proposed(n) = r /\ ~ (Len(l) >= MaxHeight)
    BY <1>3 DEF Proposed
  <2>2. MaxHeight \in Nat /\ Len(l) + 1 \in Indexes
    BY <1>1, <2>1, InputsHold DEF Inputs, Indexes
  <2>3. Tip(chain[n]) \in BlockHash
    <3>1. chain[n] \in Seq(Block)
      BY DEF IInv, TypeOK
    <3>2. CASE chain[n] = <<>>
      BY <3>2, <2>2 DEF Tip, Genesis, BlockHash, Indexes
    <3>3. CASE chain[n] # <<>>
      <4> DEFINE b == chain[n][Len(chain[n])]
      <4>1. b \in Block /\ Tip(chain[n]) = Hash(b)
        BY <3>1, <3>3 DEF Tip
      <4> QED BY <4>1 DEF Hash, Block, BlockHash
    <3> QED BY <3>2, <3>3
  <2>4. NewBlock(n) \in Block /\ NewBlock(n).height = Len(l) + 1 /\ NewBlock(n).proposer = n
    BY <2>2, <2>3 DEF NewBlock, Block
  <2>5. e \in Entry /\ e.block.height = Len(l) + 1 /\ e.block.proposer = n
    BY <2>4 DEF NewEntry, Entry, IInv, TypeOK
  <2> HIDE DEF e
  <2>6. r \in Seq(Entry) /\ Len(r) = Len(l) + 1 /\ r[Len(l) + 1] = e /\ \A i \in 1..Len(l) : r[i] = l[i]
    BY <1>1, <2>5
  <2> HIDE DEF r
  <2>7. ASSUME NEW i \in 1..Len(r)
        PROVE  r[i].block.height = i /\ (i > Len(l) => r[i].block.proposer = n)
    <3>1. CASE i = Len(l) + 1
      BY <2>5, <2>6, <3>1
    <3>2. CASE i # Len(l) + 1
      <4>1. i \in 1..Len(l)
        BY <1>1, <2>6, <3>2
      <4> QED BY <1>1, <2>6, <4>1 DEF HeightsOf
    <3> QED BY <3>1, <3>2
  <2> QED BY <1>1, <2>1, <2>6, <2>7 DEF HeightsOf, Extends
<1> QED BY <1>2, <1>3

LEMMA AppendEntrySound ==
  ASSUME IInv, NEW n \in Node, NEW l \in Seq(Entry), HeightsOf(l), Led(role', l),
         NEW next \in [Node -> 1..(MaxHeight + 1)], NEW behind \in SUBSET Node, NEW m \in Node \ {n}
  PROVE  LET a == AppendEntry(n, m, l, next, behind) IN
         a \in Message /\ a.type = "heartbeat" /\ HeartbeatSound(role', a)
<1> DEFINE a == AppendEntry(n, m, l, next, behind)
           t == SubSeq(l, next[m], Len(l))
<1>1. next[m] \in Nat \ {0} /\ Len(l) \in Nat
  BY InputsHold DEF Inputs
<1>2. /\ t \in Seq(Entry)
      /\ \A i \in 1..Len(t) : next[m] + i - 1 \in 1..Len(l) /\ t[i] = l[next[m] + i - 1]
  <2>1. \A i \in next[m]..Len(l) : l[i] \in Entry
    BY <1>1
  <2>2. /\ t \in Seq(Entry)
        /\ Len(t) = IF next[m] <= Len(l) THEN Len(l) - next[m] + 1 ELSE 0
        /\ \A i \in 1..(Len(l) - next[m] + 1) : t[i] = l[next[m] + i - 1]
    <3> DEFINE k == next[m]
    <3>1. k \in Int /\ Len(l) \in Int /\ \A i \in k..Len(l) : l[i] \in Entry
      BY <1>1, <2>1
    <3> HIDE DEF k
    <3>2. /\ SubSeq(l, k, Len(l)) \in Seq(Entry)
          /\ Len(SubSeq(l, k, Len(l))) = IF k <= Len(l) THEN Len(l) - k + 1 ELSE 0
          /\ \A i \in 1..(Len(l) - k + 1) : SubSeq(l, k, Len(l))[i] = l[k + i - 1]
      BY <3>1, SubSeqProperties
    <3> QED BY <3>2 DEF k
  <2> HIDE DEF t
  <2> QED BY <1>1, <2>2
<1> HIDE DEF t
<1>3. a = [type |-> "heartbeat", to |-> m, leader |-> n, term |-> term[n], first |-> next[m],
           entries |-> t, leaderCommit |-> commit[n],
           outOfSync |-> outOfSync[n] \cup {i \in behind : i < m}]
  BY DEF AppendEntry, t
<1>4. a \in Message
  BY <1>2, <1>3 DEF Message, IInv, TypeOK
<1>5. HeightsFrom(next[m], t)
  BY <1>2 DEF HeightsFrom, HeightsOf
<1>6. Led(role', t)
  BY <1>2 DEF Led
<1> QED BY <1>3, <1>4, <1>5, <1>6 DEF HeartbeatSound
------------------------------------------------------------------------------
(* The steps of a leader, in the state Leader.active. *)
LEMMA EnterActiveStep ==
  ASSUME IInv, NEW n \in Node, NEW next \in [Node -> 1..(MaxHeight + 1)], EnterActive(n, next),
         role' = [role EXCEPT ![n] = "Leader"], UNCHANGED <<term, votedFor, votes>>,
         Acknowledges(log, n, next)
  PROVE  StepSound
<1> DEFINE l == Proposed(n)
           behind == {m \in Node \ {n} : Active(n, m) /\ Len(l) - next[m] > SyncBatch}
           marked == outOfSync[n] \cup behind
           c == CommitBlocks(n, l, next)
           sent == {AppendEntry(n, m, l, next, behind) : m \in Node \ ({n} \cup marked)}
<1>1. /\ l \in Seq(Entry) /\ HeightsOf(l) /\ Extends(l, log[n])
      /\ \A i \in 1..Len(l) : i > Len(log[n]) => l[i].block.proposer = n
  BY ProposedSound
<1>2. /\ log' = [log EXCEPT ![n] = l] /\ msgs' = msgs \cup sent
      /\ outOfSync' = [outOfSync EXCEPT ![n] = marked]
      /\ commit' = [commit EXCEPT ![n] = c.commit] /\ chain' = [chain EXCEPT ![n] = c.state.chain]
      /\ nextIndex' = [nextIndex EXCEPT ![n] = next] /\ ~c.state.reverted
  BY DEF EnterActive
<1> HIDE DEF l, c
<1>3. /\ c.commit \in Nat /\ c.commit <= Len(l)
      /\ c.state \in FinalState /\ NodeSound(l, c.commit, c.state.chain)
  BY <1>1, <1>2, CommitSound DEF c
<1>4. \A p \in Node : role[p] = "Leader" => role'[p] = "Leader"
  BY DEF IInv, TypeOK
<1>5. \A m \in Node : log'[m] \in Seq(Entry) /\ Extends(log'[m], log[m])
  BY <1>1, <1>2, ExtendsItself DEF IInv, TypeOK
<1>6. role'[n] = "Leader"
  BY DEF IInv, TypeOK
<1>7. Led(role', l)
  <2> SUFFICES ASSUME NEW i \in 1..Len(l)
               PROVE  role'[l[i].block.proposer] = "Leader"
    BY DEF Led
  <2>1. CASE i > Len(log[n])
    BY <1>1, <1>6, <2>1
  <2>2. CASE ~ (i > Len(log[n]))
    <3>1. i \in 1..Len(log[n]) /\ l[i] = log[n][i] /\ log[n] \in Seq(Entry)
      BY <1>1, <2>2 DEF Extends, IInv, TypeOK
    <3>2. Led(role', log[n])
      BY <1>4, LedStays, <3>1 DEF IInv, LogsLed
    <3> QED BY <3>1, <3>2 DEF Led
  <2> QED BY <2>1, <2>2
<1>8. ASSUME NEW m \in sent
      PROVE  m \in Message /\ m.type = "heartbeat" /\ HeartbeatSound(role', m)
  <2>1. behind \in SUBSET Node
    OBVIOUS
  <2> HIDE DEF behind
  <2>2. PICK i \in Node \ {n} : m = AppendEntry(n, i, l, next, behind)
    OBVIOUS
  <2>3. LET a == AppendEntry(n, i, l, next, behind) IN
        a \in Message /\ a.type = "heartbeat" /\ HeartbeatSound(role', a)
    BY <1>1, <1>7, <2>1, AppendEntrySound
  <2> QED BY <2>2, <2>3
<1>9. TypeOK'
  <2>1. c.commit \in Indexes
    BY <1>1, <1>3, LogBound, InputsHold DEF Indexes, Inputs
  <2>2. c.state.chain \in Seq(Block)
    BY <1>3 DEF FinalState
  <2>3. marked \subseteq Node
    BY DEF IInv, TypeOK
  <2>4. msgs' \subseteq Message
    BY <1>2, <1>8 DEF IInv, TypeOK
  <2> HIDE DEF marked, sent, behind
  <2>5. log' \in [Node -> Seq(Entry)] /\ commit' \in [Node -> Indexes] /\ chain' \in [Node -> Seq(Block)]
    BY <1>1, <1>2, <2>1, <2>2 DEF IInv, TypeOK
  <2>6. /\ nextIndex' \in [Node -> [Node -> 1..(MaxHeight + 1)]]
        /\ outOfSync' \in [Node -> SUBSET Node]
        /\ role' \in [Node -> {"Follower", "Candidate", "Leader"}]
    BY <1>2, <2>3 DEF IInv, TypeOK
  <2> QED BY <2>4, <2>5, <2>6 DEF IInv, TypeOK
<1>10. NodesSound'
  BY <1>2, <1>3 DEF IInv, TypeOK, NodesSound
<1>11. LogsLed'
  <2> SUFFICES ASSUME NEW m \in Node
               PROVE  Led(role', log'[m])
    BY DEF LogsLed
  <2>1. CASE m = n
    BY <1>2, <1>7, <2>1 DEF IInv, TypeOK
  <2>2. CASE m # n
    BY <1>2, <1>4, <2>2, LedStays DEF IInv, TypeOK, LogsLed
  <2> QED BY <2>1, <2>2
<1>12. MessagesSound'
  <2> SUFFICES ASSUME NEW m \in msgs'
               PROVE  /\ m.type = "heartbeat" => HeartbeatSound(role', m)
                      /\ m.type = "response" => ResponseSound(log', m)
    BY DEF MessagesSound
  <2>1. CASE m \in msgs
    BY <1>4, <1>5, <2>1, MessageStays
  <2>2. CASE m \in sent
    BY <1>8, <2>2
  <2> QED BY <1>2, <2>1, <2>2
<1>13. Acks'
  <2> SUFFICES ASSUME NEW m \in Node, role'[m] = "Leader"
               PROVE  Acknowledges(log', m, nextIndex'[m])
    BY DEF Acks
  <2>1. CASE m = n
    <3>1. nextIndex'[m] = next
      BY <1>2, <2>1 DEF IInv, TypeOK
    <3> QED BY <1>5, <2>1, <3>1, AcknowledgesStays
  <2>2. CASE m # n
    <3>1. nextIndex'[m] = nextIndex[m] /\ role[m] = "Leader" /\ nextIndex[m] \in [Node -> 1..(MaxHeight + 1)]
      BY <1>2, <2>2 DEF IInv, TypeOK
    <3>2. Acknowledges(log, m, nextIndex[m])
      BY <3>1 DEF IInv, Acks
    <3> QED BY <1>5, <3>1, <3>2, AcknowledgesStays
  <2> QED BY <2>1, <2>2
<1>14. Grows
  <2>1. commit[n] <= c.commit
    BY <1>1, CommitSound DEF c
  <2> QED BY <1>2, <1>5, <2>1, InputsHold DEF Grows, IInv, TypeOK, Indexes, Inputs
<1>15. ByMajority
  BY <1>1, <1>2, OwnBlockByMajority DEF c
<1> QED BY <1>9, <1>10, <1>11, <1>12, <1>13, <1>14, <1>15 DEF IInv, StepSound

LEMMA BecomeLeaderStep ==
  ASSUME IInv, NEW n \in Node, BecomeLeader(n)
  PROVE  StepSound
<1> DEFINE next == [m \in Node |-> Len(log[n]) + 1]
<1>1. Len(log[n]) \in Indexes /\ log[n] \in Seq(Entry)
  BY LogBound DEF IInv, TypeOK, NodesSound, NodeSound
<1>2. next \in [Node -> 1..(MaxHeight + 1)]
  BY <1>1, InputsHold DEF Indexes, Inputs
<1>3. \A i \in 1..Len(log[n]) : log[n][i].block.proposer # n
  BY DEF BecomeLeader, IInv, LogsLed, Led
<1>4. Acknowledges(log, n, next)
  <2> SUFFICES ASSUME NEW i \in Nat \ {0}, Own(n, log[n], i)
               PROVE  next[n] <= i /\ \A m \in Node : ~ (next[m] > i)
    BY DEF Acknowledges
  <2>1. i > Len(log[n])
    BY <1>1, <1>3 DEF Own
  <2> QED BY <1>1, <2>1
<1>5. EnterActive(n, next) /\ role' = [role EXCEPT ![n] = "Leader"] /\ UNCHANGED <<term, votedFor, votes>>
  BY DEF BecomeLeader
<1> HIDE DEF next
<1> QED BY <1>2, <1>4, <1>5, EnterActiveStep

LEMMA HeartbeatTimeoutStep ==
  ASSUME IInv, NEW n \in Node, HeartbeatTimeout(n)
  PROVE  StepSound
<1>1. nextIndex[n] \in [Node -> 1..(MaxHeight + 1)] /\ role' = [role EXCEPT ![n] = "Leader"]
  BY DEF HeartbeatTimeout, IInv, TypeOK
<1>2. Acknowledges(log, n, nextIndex[n])
  BY DEF HeartbeatTimeout, IInv, Acks
<1>3. EnterActive(n, nextIndex[n]) /\ UNCHANGED <<term, votedFor, votes>>
  BY DEF HeartbeatTimeout
<1> QED BY <1>1, <1>2, <1>3, EnterActiveStep

LEMMA AcknowledgedSound ==
  ASSUME IInv, NEW n \in Node, NEW m \in msgs, m.to = n, m.type = "response", role[n] = "Leader"
  PROVE  /\ Acknowledged(n, m) \in [Node -> 1..(MaxHeight + 1)]
         /\ Acknowledges(log, n, Acknowledged(n, m))
<1> DEFINE next == Acknowledged(n, m)
<1>1. m.from \in Node /\ m.lastIndex \in Indexes /\ m.from # n /\ m.lastIndex <= Len(log[m.from])
  BY DEF IInv, TypeOK, Message, MessagesSound, ResponseSound
<1>2. nextIndex[n] \in [Node -> 1..(MaxHeight + 1)] /\ Acknowledges(log, n, nextIndex[n])
  BY DEF IInv, TypeOK, Acks
<1>3. next = [nextIndex[n] EXCEPT ![m.from] = m.lastIndex + 1]
  BY DEF Acknowledged
<1>4. m.lastIndex \in Nat /\ m.lastIndex + 1 \in 1..(MaxHeight + 1) /\ MaxHeight \in Nat
  BY <1>1, InputsHold DEF Indexes, Inputs
<1> HIDE DEF next
<1>5. next \in [Node -> 1..(MaxHeight + 1)]
  BY <1>2, <1>3, <1>4
<1>6. ASSUME NEW i \in Nat \ {0}, Own(n, log[n], i)
      PROVE  /\ next[n] <= i
             /\ \A k \in Node \ {n} : next[k] > i => Len(log[k]) >= i
  <2>1. /\ nextIndex[n][n] <= i
        /\ \A k \in Node \ {n} : nextIndex[n][k] > i => Len(log[k]) >= i
    BY <1>2, <1>6 DEF Acknowledges
  <2>2. next[n] = nextIndex[n][n]
    BY <1>1, <1>2, <1>3
  <2>3. ASSUME NEW k \in Node \ {n}, next[k] > i
        PROVE  Len(log[k]) >= i
    <3>1. CASE k = m.from
      <4>1. next[k] = m.lastIndex + 1 /\ Len(log[k]) \in Nat
        BY <1>1, <1>2, <1>3, <3>1 DEF IInv, TypeOK
      <4> QED BY <1>1, <1>4, <2>3, <3>1, <4>1
    <3>2. CASE k # m.from
      BY <1>2, <1>3, <2>1, <2>3, <3>2
    <3> QED BY <3>1, <3>2
  <2> QED BY <2>1, <2>2, <2>3
<1> QED BY <1>5, <1>6 DEF Acknowledges, next

LEMMA ReceiveAppendEntryResponseStep ==
  ASSUME IInv, NEW m \in msgs, NEW n \in Node, n = m.to, ReceiveAppendEntryResponse(n, m)
  PROVE  StepSound
<1> DEFINE next == Acknowledged(n, m)
           c == CommitBlocks(n, log[n], next)
<1>1. /\ m.type = "response" /\ role[n] = "Leader" /\ ~c.state.reverted
      /\ nextIndex' = [nextIndex EXCEPT ![n] = next]
      /\ outOfSync' = [outOfSync EXCEPT ![n] = outOfSync[n] \ {m.from}]
      /\ commit' = [commit EXCEPT ![n] = c.commit] /\ chain' = [chain EXCEPT ![n] = c.state.chain]
      /\ msgs' = msgs \ {m} /\ UNCHANGED <<role, term, votedFor, votes, log>>
  BY DEF ReceiveAppendEntryResponse
<1>2. next \in [Node -> 1..(MaxHeight + 1)] /\ Acknowledges(log, n, next)
  BY <1>1, AcknowledgedSound
<1>3. log[n] \in Seq(Entry) /\ HeightsOf(log[n]) /\ Extends(log[n], log[n])
  BY ExtendsItself DEF IInv, TypeOK, NodesSound, NodeSound
<1> HIDE DEF next
<1>4. /\ c.commit \in Nat /\ c.commit <= Len(log[n])
      /\ c.state \in FinalState /\ NodeSound(log[n], c.commit, c.state.chain)
  BY <1>1, <1>3, CommitSound
<1> HIDE DEF c
<1>5. TypeOK'
  <2>1. c.commit \in Indexes
    BY <1>3, <1>4, LogBound, InputsHold DEF Indexes, Inputs
  <2>2. c.state.chain \in Seq(Block)
    BY <1>4 DEF FinalState
  <2> QED BY <1>1, <1>2, <2>1, <2>2 DEF IInv, TypeOK
<1>6. NodesSound'
  BY <1>1, <1>4 DEF IInv, TypeOK, NodesSound
<1>7. LogsLed' /\ MessagesSound'
  BY <1>1 DEF IInv, LogsLed, MessagesSound
<1>8. Acks'
  BY <1>1, <1>2 DEF IInv, TypeOK, Acks
<1>9. Grows
  <2>1. \A k \in Node : Extends(log'[k], log[k])
    BY <1>1, ExtendsItself DEF IInv, TypeOK
  <2>2. commit[n] <= c.commit
    BY <1>3, CommitSound DEF c
  <2> QED BY <1>1, <2>1, <2>2, InputsHold DEF Grows, IInv, TypeOK, Indexes, Inputs
<1>10. ByMajority
  <2>1. log' = [log EXCEPT ![n] = log[n]]
    BY <1>1 DEF IInv, TypeOK
  <2> QED BY <1>1, <1>2, <1>3, <2>1, OwnBlockByMajority DEF c
<1> QED BY <1>5, <1>6, <1>7, <1>8, <1>9, <1>10 DEF IInv, StepSound
------------------------------------------------------------------------------
(* A follower: it finalizes what is committed, then its log takes what is new. *)
LEMMA FollowerCommitSound ==
  ASSUME NEW l \in Seq(Entry), NEW c \in Nat, NEW ch \in Seq(Block), NEW t \in Terms,
         NEW leaderCommit \in Nat, NodeSound(l, c, ch)
  PROVE  LET s == FinalizedRange([chain |-> ch, term |-> t, reverted |-> FALSE], l, c + 1,
                                 Smaller(Len(l), leaderCommit))
             d == IF leaderCommit <= c THEN c ELSE Smaller(Len(l), leaderCommit) IN
         /\ s \in FinalState /\ d \in Nat /\ c <= d
         /\ ~s.reverted => NodeSound(l, d, s.chain)
<1> DEFINE s0 == [chain |-> ch, term |-> t, reverted |-> FALSE]
           to == Smaller(Len(l), leaderCommit)
           s == FinalizedRange(s0, l, c + 1, to)
           d == IF leaderCommit <= c THEN c ELSE to
<1>1. to \in Nat /\ to <= Len(l) /\ to <= leaderCommit /\ c <= Len(l) /\ Len(l) \in Nat
  BY DEF Smaller, NodeSound
<1>2. (to = Len(l) \/ to = leaderCommit) /\ HeightsOf(l)
  BY DEF Smaller, NodeSound
<1>3. s0 \in FinalState /\ Sound(s0, l, c)
  BY DEF FinalState, Sound, NodeSound
<1> HIDE DEF to
<1>4. CASE c + 1 <= to
  <2>1. c + 1 \in Nat \ {0} /\ (c + 1) - 1 = c
    OBVIOUS
  <2> HIDE DEF s0
  <2>2. Sound(s, l, to)
    BY <1>1, <1>2, <1>3, <1>4, <2>1, RangeSound
  <2>3. d = to
    BY <1>1, <1>4
  <2> HIDE DEF s, d
  <2>4. s \in FinalState /\ (~s.reverted => NodeSound(l, d, s.chain))
    BY <1>1, <1>2, <2>2, <2>3 DEF Sound, NodeSound
  <2> QED BY <1>1, <1>4, <2>3, <2>4 DEF s, d, to, s0
<1>5. CASE ~ (c + 1 <= to)
  <2>1. s = s0
    BY <1>5 DEF FinalizedRange
  <2>2. d = c
    BY <1>1, <1>2, <1>5
  <2>3. s.chain = ch
    BY <2>1
  <2> HIDE DEF s, d
  <2> QED BY <1>3, <2>1, <2>2, <2>3 DEF s, d, to
<1> QED BY <1>4, <1>5

LEMMA ProcessAppendEntriesStep ==
  ASSUME IInv, NEW m \in msgs, NEW n \in Node, n = m.to, ProcessAppendEntries(n, m)
  PROVE  StepSound
<1> DEFINE to == Smaller(Len(log[n]), m.leaderCommit)
           s == FinalizedRange([chain |-> chain[n], term |-> m.term, reverted |-> FALSE],
                               log[n], commit[n] + 1, to)
           l == Appended(log[n], m.first, m.entries)
           d == IF m.leaderCommit <= commit[n] THEN commit[n] ELSE to
           r == HeartbeatResponse(n, m.leader, Len(l))
<1>1. /\ m.type = "heartbeat" /\ role[n] \in {"Follower", "Candidate"}
      /\ ~s.reverted /\ ~LeavesGap(log[n], m.first, m.entries)
      /\ role' = [role EXCEPT ![n] = "Follower"] /\ term' = [term EXCEPT ![n] = s.term]
      /\ chain' = [chain EXCEPT ![n] = s.chain] /\ log' = [log EXCEPT ![n] = l]
      /\ outOfSync' = [outOfSync EXCEPT ![n] = m.outOfSync]
      /\ msgs' = (msgs \ {m}) \cup {r} /\ UNCHANGED <<votedFor, votes, nextIndex>>
  BY DEF ProcessAppendEntries
<1>2. commit' = [commit EXCEPT ![n] = d]
  BY DEF ProcessAppendEntries, IInv, TypeOK
<1>3. /\ m.leader \in Node /\ m.term \in Terms /\ m.first \in Nat \ {0} /\ m.entries \in Seq(Entry)
      /\ m.leaderCommit \in Nat /\ m.outOfSync \in SUBSET Node
      /\ m.leader # n /\ HeightsFrom(m.first, m.entries) /\ Led(role, m.entries)
  <2>1. m \in Message /\ HeartbeatSound(role, m)
    BY <1>1 DEF IInv, TypeOK, MessagesSound
  <2>2. m.first \in 1..(MaxHeight + 1) /\ m.leaderCommit \in Indexes
    BY <1>1, <2>1 DEF Message
  <2>3. m.first \in Nat \ {0} /\ m.leaderCommit \in Nat
    BY <2>2, InputsHold DEF Indexes, Inputs
  <2> QED BY <1>1, <2>1, <2>3 DEF Message, HeartbeatSound
<1>4. /\ log[n] \in Seq(Entry) /\ commit[n] \in Nat /\ chain[n] \in Seq(Block)
      /\ NodeSound(log[n], commit[n], chain[n]) /\ HeightsOf(log[n])
  BY InputsHold DEF IInv, TypeOK, NodesSound, NodeSound, Indexes, Inputs
<1>5. s \in FinalState /\ d \in Nat /\ NodeSound(log[n], d, s.chain)
  BY <1>1, <1>3, <1>4, FollowerCommitSound
<1>6. /\ l \in Seq(Entry) /\ HeightsOf(l) /\ Extends(l, log[n])
      /\ \A i \in 1..Len(l) : i > Len(log[n]) => \E j \in 1..Len(m.entries) : l[i] = m.entries[j]
  BY <1>1, <1>3, <1>4, AppendedSound
<1>7. s.chain \in Seq(Block) /\ s.term \in Terms
  BY <1>5 DEF FinalState
<1> HIDE DEF s, d, l, to
<1>8. NodeSound(l, d, s.chain)
  BY <1>4, <1>5, <1>6, <1>7, NodeSoundExtended
<1>9. Len(l) \in Indexes /\ d \in Indexes
  <2>1. Len(l) \in Indexes /\ d <= Len(l)
    BY <1>6, <1>8, LogBound DEF NodeSound
  <2> QED BY <1>5, <2>1, InputsHold DEF Indexes, Inputs
<1>10. \A p \in Node : role[p] = "Leader" => role'[p] = "Leader"
  BY <1>1 DEF IInv, TypeOK
<1>11. \A k \in Node : log'[k] \in Seq(Entry) /\ Extends(log'[k], log[k])
  BY <1>1, <1>6, ExtendsItself DEF IInv, TypeOK
<1>12. TypeOK'
  <2>1. r \in Message
    BY <1>3, <1>9 DEF HeartbeatResponse, Message
  <2>2. msgs' \subseteq Message
    BY <1>1, <2>1 DEF IInv, TypeOK
  <2> HIDE DEF r
  <2>3. log' \in [Node -> Seq(Entry)] /\ commit' \in [Node -> Indexes] /\ chain' \in [Node -> Seq(Block)]
    BY <1>1, <1>2, <1>6, <1>7, <1>9 DEF IInv, TypeOK
  <2>4. /\ role' \in [Node -> {"Follower", "Candidate", "Leader"}] /\ term' \in [Node -> Terms]
        /\ outOfSync' \in [Node -> SUBSET Node]
    BY <1>1, <1>3, <1>7 DEF IInv, TypeOK
  <2> QED BY <1>1, <2>2, <2>3, <2>4 DEF IInv, TypeOK
<1>13. NodesSound'
  BY <1>1, <1>2, <1>8 DEF IInv, TypeOK, NodesSound
<1>14. LogsLed'
  <2> SUFFICES ASSUME NEW k \in Node
               PROVE  Led(role', log'[k])
    BY DEF LogsLed
  <2>1. Led(role', log[k]) /\ log[k] \in Seq(Entry)
    BY <1>10, LedStays DEF IInv, TypeOK, LogsLed
  <2>2. Led(role', m.entries)
    BY <1>3, <1>10, LedStays
  <2>3. CASE k # n
    BY <1>1, <2>1, <2>3 DEF IInv, TypeOK
  <2>4. CASE k = n
    <3>1. log'[k] = l
      BY <1>1, <2>4 DEF IInv, TypeOK
    <3> SUFFICES ASSUME NEW i \in 1..Len(l)
                 PROVE  role'[l[i].block.proposer] = "Leader"
      BY <3>1 DEF Led
    <3>2. CASE i > Len(log[n])
      BY <1>6, <2>2, <3>2 DEF Led
    <3>3. CASE ~ (i > Len(log[n]))
      <4>1. i \in 1..Len(log[n]) /\ l[i] = log[n][i]
        BY <1>4, <1>6, <3>3 DEF Extends
      <4> QED BY <2>1, <2>4, <4>1 DEF Led
    <3> QED BY <3>2, <3>3
  <2> QED BY <2>3, <2>4
<1>15. MessagesSound'
  <2> SUFFICES ASSUME NEW k \in msgs'
               PROVE  /\ k.type = "heartbeat" => HeartbeatSound(role', k)
                      /\ k.type = "response" => ResponseSound(log', k)
    BY DEF MessagesSound
  <2>1. CASE k \in msgs
    BY <1>10, <1>11, <2>1, MessageStays
  <2>2. CASE k = r
    <3>1. log'[n] = l /\ Len(l) <= Len(l)
      BY <1>1, <1>6 DEF IInv, TypeOK
    <3> QED BY <1>3, <2>2, <3>1 DEF HeartbeatResponse, ResponseSound
  <2> QED BY <1>1, <2>1, <2>2
<1>16. Acks'
  <2> SUFFICES ASSUME NEW k \in Node, role'[k] = "Leader"
               PROVE  Acknowledges(log', k, nextIndex'[k])
    BY DEF Acks
  <2>1. role[k] = "Leader" /\ nextIndex'[k] = nextIndex[k] /\ nextIndex[k] \in [Node -> 1..(MaxHeight + 1)]
    BY <1>1 DEF IInv, TypeOK
  <2>2. Acknowledges(log, k, nextIndex[k])
    BY <2>1 DEF IInv, Acks
  <2> QED BY <1>11, <2>1, <2>2, AcknowledgesStays
<1>17. Grows
  <2>1. commit[n] <= d
    BY <1>3, <1>4, FollowerCommitSound DEF d, to
  <2> QED BY <1>2, <1>11, <2>1, InputsHold DEF Grows, IInv, TypeOK, Indexes, Inputs
<1>18. ByMajority
  <2>1. \A k \in Node : chain'[k] # chain[k] => k = n
    BY <1>1 DEF IInv, TypeOK
  <2>2. role'[n] = "Follower"
    BY <1>1 DEF IInv, TypeOK
  <2> QED BY <2>1, <2>2 DEF ByMajority
<1> QED BY <1>12, <1>13, <1>14, <1>15, <1>16, <1>17, <1>18 DEF IInv, StepSound

LEMMA NextStep == IInv /\ [Next]_vars => StepSound
<1> SUFFICES ASSUME IInv, [Next]_vars
             PROVE  StepSound
  OBVIOUS
<1>1. ASSUME NEW n \in Node, ElectionTimeout(n) \/ CandidateTimeout(n) \/ BecomeLeader(n) \/ HeartbeatTimeout(n)
      PROVE  StepSound
  BY <1>1, ElectionTimeoutStep, CandidateTimeoutStep, BecomeLeaderStep, HeartbeatTimeoutStep
<1>2. ASSUME NEW m \in msgs, Receive(m.to, m)
      PROVE  StepSound
  <2>1. m.to \in Node
    BY DEF IInv, TypeOK, Message
  <2> QED BY <1>2, <2>1, VoteStep, ReceiveVoteResponseStep, ProcessAppendEntriesStep,
             ReceiveAppendEntryResponseStep DEF Receive
<1>3. ASSUME NEW m \in msgs, Lose(m)
      PROVE  StepSound
  BY <1>3, LoseStep
<1>4. CASE UNCHANGED vars
  BY <1>4, StutterStep
<1> QED BY <1>1, <1>2, <1>3, <1>4 DEF Next

LEMMA Invariance == Spec => []IInv
<1>1. IInv /\ [Next]_vars => IInv'
  BY NextStep DEF StepSound
<1> QED BY <1>1, InitInv, PTL DEF Spec

------------------------------------------------------------------------------
(* Every variable stays in its type, whatever the number of nodes. *)
THEOREM TypeCorrect == Spec => []TypeOK
<1>1. IInv => TypeOK
  BY DEF IInv
<1> QED BY <1>1, Invariance, PTL

(* A node's application runs one height after the other, each block on the state
   it was built on: what verifyBlockProposal repeats at finalization. *)
THEOREM ChainsAreLinked == Spec => []ChainLinked
<1>1. IInv => ChainLinked
  BY DEF IInv, NodesSound, NodeSound, Linked, ChainLinked
<1> QED BY <1>1, Invariance, PTL

(* Nothing is committed or final that the log lacks. *)
THEOREM CommitsWithinLogs == Spec => []CommitWithinLog
<1>1. IInv => CommitWithinLog
  BY DEF IInv, NodesSound, NodeSound, Within, CommitWithinLog
<1> QED BY <1>1, Invariance, PTL

(* No entry of a log is ever replaced and no commit index falls. *)
THEOREM LogsGrow == Spec => LogsOnlyGrow
<1>1. ASSUME NEW l \in Seq(Entry), NEW r \in Seq(Entry), Extends(r, l)
      PROVE  IsPrefix(l, r)
  <2>1. Len(l) <= Len(r) /\ \A i \in 1..Len(l) : r[i] = l[i]
    BY <1>1 DEF Extends
  <2>2. SubSeq(l, 1, Len(l)) = SubSeq(r, 1, Len(l))
    BY <2>1
  <2> QED BY <2>1, <2>2 DEF IsPrefix
<1>2. IInv /\ IInv' /\ [Next]_vars => OnlyAppends
  BY <1>1, NextStep, InputsHold DEF StepSound, Grows, OnlyAppends, IInv, TypeOK, Indexes, Inputs
<1> QED BY <1>2, Invariance, PTL DEF Spec, LogsOnlyGrow, OnlyAppends

(* A leader finalizes a block of its own only with a majority behind it. *)
THEOREM FinalizesByMajority == Spec => FinalizedByMajority
<1>1. IInv /\ [Next]_vars => ByMajority
  BY NextStep DEF StepSound
<1> QED BY <1>1, Invariance, PTL DEF Spec, FinalizedByMajority, ByMajority
==============================================================================
