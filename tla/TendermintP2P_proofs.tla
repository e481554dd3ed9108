------------------------ MODULE TendermintP2P_proofs -------------------------
(* The network keeps its invariant, and its block stores implement the
   certified ledger, for any number of validators, any distribution of stake
   and any bounds.

   The first part is about one validator: what every handler preserves, one lemma
   per operator.  Good is the part of the network's invariant that one handler
   call can see: the node's record s, and the messages M on the network before
   the call.  The second part is about the network: every step of Next installs
   what one handler left behind (StepHandles), so what the handlers preserve is
   what the network preserves (InstallKeeps).  The last part is about the pool a
   proposer takes the transactions of a block from. *)
EXTENDS TendermintP2P, Mempool, Induction, WellFoundedInduction, FiniteSetTheorems, SequenceTheorems, TLAPS

------------------------------------------------------------------------------
(* The stake: sums of it are natural numbers whatever set they are taken over,
   the threshold of the code is the two thirds of the protocol, and the rotation
   of proposers always names a validator.  Induction is by SetInduction: a
   property of all natural numbers is the set of those that have it. *)
LEMMA NatLess == IsWellFoundedOn({ss \in Nat \X Nat : ss[1] < ss[2]}, Nat)
  BY NatLessThanWellFounded DEF OpToRel

LEMMA SetInduction ==
  ASSUME NEW S, 0 \in S, \A k \in Nat : k \in S => k + 1 \in S
  PROVE  \A k \in Nat : k \in S
<1> DEFINE T == Nat \ S
           R == {ss \in Nat \X Nat : ss[1] < ss[2]}
<1> SUFFICES ASSUME T # {} PROVE FALSE
  OBVIOUS
<1>1. PICK x \in T : \A y \in T : ~(<<y, x>> \in R)
  <2>1. T \subseteq Nat
    OBVIOUS
  <2>2. IsWellFoundedOn(R, Nat)
    BY NatLess
  <2> HIDE DEF T, R
  <2> QED BY <2>1, <2>2, WFMin
<1>2. x - 1 \in Nat /\ x - 1 \notin S
  OBVIOUS
<1>3. x - 1 \in T /\ <<x - 1, x>> \in R
  BY <1>2
<1> QED BY <1>1, <1>3

(* f takes its value at 0 from x0 and the others, up to n, from its steps. *)
IsIteration(f, n, X, x0, step) ==
    /\ f \in [0 .. n -> X]
    /\ f[0] = x0
    /\ \A k \in 1 .. n : f[k] = step[<<k, f[k - 1]>>]

(* Such a function exists, whatever the steps do within X. *)
LEMMA IterationExists ==
  ASSUME NEW X, NEW x0 \in X, NEW step \in [Nat \X X -> X], NEW n \in Nat
  PROVE  \E f : IsIteration(f, n, X, x0, step)
<1> DEFINE Def(f, m) == f[0] = x0 /\ \A k \in 1 .. m : f[k] = step[<<k, f[k - 1]>>]
           S == {m \in Nat : \E f \in [0 .. m -> X] : Def(f, m)}
<1>1. 0 \in S
  <2> DEFINE f == [k \in 0 .. 0 |-> x0]
  <2>1. f \in [0 .. 0 -> X] /\ Def(f, 0)
    OBVIOUS
  <2> QED BY <2>1
<1>2. ASSUME NEW m \in Nat, m \in S
      PROVE  m + 1 \in S
  <2>1. PICK f \in [0 .. m -> X] : Def(f, m)
    BY <1>2
  <2> DEFINE g == [k \in 0 .. m + 1 |-> IF k = m + 1 THEN step[<<m + 1, f[m]>>] ELSE f[k]]
  <2>2. g \in [0 .. m + 1 -> X]
    OBVIOUS
  <2>3. ASSUME NEW k \in 1 .. m + 1
        PROVE  g[k] = step[<<k, g[k - 1]>>]
    <3>1. k - 1 \in 0 .. m /\ g[k - 1] = f[k - 1]
      OBVIOUS
    <3>2. CASE k = m + 1
      <4>1. g[k] = step[<<m + 1, f[m]>>] /\ k - 1 = m
        BY <3>2
      <4> HIDE DEF g
      <4> QED BY <3>1, <3>2, <4>1
    <3>3. CASE k # m + 1
      <4>1. k \in 1 .. m /\ g[k] = f[k]
        BY <3>3
      <4> HIDE DEF g
      <4> QED BY <2>1, <3>1, <4>1
    <3> QED BY <3>2, <3>3
  <2>4. Def(g, m + 1)
    <3>1. g[0] = x0
      BY <2>1
    <3> QED BY <3>1, <2>3
  <2> HIDE DEF g, Def
  <2> QED BY <2>2, <2>4
<1>3. n \in S
  <2> HIDE DEF S
  <2> QED BY <1>1, <1>2, SetInduction
<1> QED BY <1>3 DEF IsIteration

------------------------------------------------------------------------------
(* The stake of a set of validators is a number, and grows with the set. *)
LEMMA PowerSum ==
  ASSUME NEW S
  PROVE  \E f \in [0 .. N -> Nat] :
            /\ Power(S) = f[N]
            /\ f[0] = 0
            /\ \A k \in 1 .. N :
                 f[k] = f[k - 1] + (IF k - 1 \in S THEN Tokens[k - 1] ELSE 0)
<1> DEFINE Sum(f) ==
              f = [k \in 0 .. N |->
                    IF k = 0 THEN 0
                             ELSE f[k - 1] + (IF k - 1 \in S THEN Tokens[k - 1] ELSE 0)]
           stake == [k \in Nat |-> IF k - 1 \in Nodes \cap S THEN Tokens[k - 1] ELSE 0]
<1>1. stake \in [Nat -> Nat]
  BY TokensAssumption
<1> DEFINE step == [p \in Nat \X Nat |-> p[2] + stake[p[1]]]
<1>2. step \in [Nat \X Nat -> Nat]
  <2> HIDE DEF stake
  <2> QED BY <1>1
<1>3. PICK f : IsIteration(f, N, Nat, 0, step)
  <2> HIDE DEF step
  <2> QED BY <1>2, IterationExists, NAssumption
<1>4. ASSUME NEW k \in 1 .. N
      PROVE  step[<<k, f[k - 1]>>] = f[k - 1] + (IF k - 1 \in S THEN Tokens[k - 1] ELSE 0)
  <2>1. k - 1 \in Nodes /\ k - 1 \in 0 .. N
    BY NAssumption DEF Nodes
  <2>2. f[k - 1] \in Nat
    <3> HIDE DEF step
    <3> QED BY <1>3, <2>1 DEF IsIteration
  <2>3. <<k, f[k - 1]>> \in Nat \X Nat
    BY <2>2
  <2> QED BY <2>1, <2>3
<1>5. Sum(f)
  <2> DEFINE F == [k \in 0 .. N |->
                    IF k = 0 THEN 0
                             ELSE f[k - 1] + (IF k - 1 \in S THEN Tokens[k - 1] ELSE 0)]
  <2>1. ASSUME NEW k \in 0 .. N
        PROVE  f[k] = F[k]
    <3>1. CASE k = 0
      BY <3>1, <1>3 DEF IsIteration
    <3>2. CASE k # 0
      <4>1. k \in 1 .. N
        BY <3>2, NAssumption
      <4> HIDE DEF step
      <4> QED BY <4>1, <1>3, <1>4 DEF IsIteration
    <3> QED BY <3>1, <3>2
  <2>2. f = [k \in 0 .. N |-> f[k]]
    BY <1>3 DEF IsIteration
  <2>3. F = [k \in 0 .. N |-> F[k]]
    OBVIOUS
  <2> HIDE DEF F
  <2>4. f = F
    BY <2>1, <2>2, <2>3
  <2> QED BY <2>4 DEF F
<1>6. PICK g : g = (CHOOSE h : Sum(h)) /\ Sum(g)
  <2> HIDE DEF Sum
  <2> QED BY <1>5
<1>7. Power(S) = g[N]
  BY <1>6 DEF Power
<1>8. /\ g[0] = 0
      /\ \A k \in 1 .. N : g[k] = g[k - 1] + (IF k - 1 \in S THEN Tokens[k - 1] ELSE 0)
  <2> DEFINE G == [k \in 0 .. N |->
                    IF k = 0 THEN 0
                             ELSE g[k - 1] + (IF k - 1 \in S THEN Tokens[k - 1] ELSE 0)]
  <2>1. \A k \in 0 .. N : g[k] = G[k]
    BY <1>6
  <2>2. 0 \in 0 .. N /\ \A k \in 1 .. N : k \in 0 .. N /\ k # 0
    BY NAssumption
  <2> QED BY <2>1, <2>2
<1>9. \A k \in 0 .. N : g[k] \in Nat
  <2> DEFINE T == {k \in Nat : k <= N => g[k] \in Nat}
  <2>1. 0 \in T
    BY <1>8
  <2>2. ASSUME NEW k \in Nat, k \in T
        PROVE  k + 1 \in T
    <3>1. CASE k + 1 <= N
      <4>1. k + 1 \in 1 .. N /\ k \in Nodes /\ g[k] \in Nat
        BY <2>2, <3>1, NAssumption DEF Nodes
      <4>2. g[k + 1] = g[k] + (IF k \in S THEN Tokens[k] ELSE 0)
        BY <4>1, <1>8
      <4>3. Tokens[k] \in Nat
        BY <4>1, TokensAssumption
      <4> QED BY <4>1, <4>2, <4>3
    <3> QED BY <3>1, NAssumption
  <2>3. \A k \in Nat : k \in T
    <3> HIDE DEF T
    <3> QED BY <2>1, <2>2, SetInduction
  <2> QED BY <2>3, NAssumption
<1>10. g \in [0 .. N -> Nat]
  BY <1>6, <1>9
<1> HIDE DEF Sum
<1> QED BY <1>7, <1>8, <1>10

THEOREM PowerType == ASSUME NEW S PROVE Power(S) \in Nat
  BY PowerSum, NAssumption

LEMMA PowerMonotone ==
  ASSUME NEW S, NEW T, S \subseteq T
  PROVE  Power(S) <= Power(T)
<1>1. PICK f \in [0 .. N -> Nat] :
        /\ Power(S) = f[N] /\ f[0] = 0
        /\ \A k \in 1 .. N : f[k] = f[k - 1] + (IF k - 1 \in S THEN Tokens[k - 1] ELSE 0)
  BY PowerSum
<1>2. PICK g \in [0 .. N -> Nat] :
        /\ Power(T) = g[N] /\ g[0] = 0
        /\ \A k \in 1 .. N : g[k] = g[k - 1] + (IF k - 1 \in T THEN Tokens[k - 1] ELSE 0)
  BY PowerSum
<1> DEFINE L == {k \in Nat : k <= N => f[k] <= g[k]}
<1>3. 0 \in L
  BY <1>1, <1>2
<1>4. ASSUME NEW k \in Nat, k \in L
      PROVE  k + 1 \in L
  <2>1. CASE k + 1 <= N
    <3>1. k + 1 \in 1 .. N /\ k \in Nodes /\ f[k] <= g[k] /\ k \in 0 .. N /\ k + 1 \in 0 .. N
      BY <1>4, <2>1, NAssumption DEF Nodes
    <3>2. /\ f[k + 1] = f[k] + (IF k \in S THEN Tokens[k] ELSE 0)
          /\ g[k + 1] = g[k] + (IF k \in T THEN Tokens[k] ELSE 0)
      BY <3>1, <1>1, <1>2
    <3>3. Tokens[k] \in Nat /\ f[k] \in Nat /\ g[k] \in Nat
      BY <3>1, TokensAssumption
    <3>4. f[k + 1] <= g[k + 1]
      BY <3>1, <3>2, <3>3
    <3> QED BY <3>4
  <2> QED BY <2>1, NAssumption
<1>5. \A k \in Nat : k \in L
  <2> HIDE DEF L
  <2> QED BY <1>3, <1>4, SetInduction
<1> QED BY <1>1, <1>2, <1>5, NAssumption

LEMMA PowerEmpty == Power({}) = 0
<1>1. PICK f \in [0 .. N -> Nat] :
        /\ Power({}) = f[N] /\ f[0] = 0
        /\ \A k \in 1 .. N : f[k] = f[k - 1] + (IF k - 1 \in {} THEN Tokens[k - 1] ELSE 0)
  BY PowerSum
<1> DEFINE S == {k \in Nat : k <= N => f[k] = 0}
<1>2. 0 \in S
  BY <1>1
<1>3. ASSUME NEW k \in Nat, k \in S
      PROVE  k + 1 \in S
  <2>1. CASE k + 1 <= N
    <3>1. k + 1 \in 1 .. N /\ (k + 1) - 1 = k
      BY <2>1, NAssumption
    <3>2. f[k + 1] = f[k]
      BY <1>1, <3>1, NAssumption
    <3> QED BY <1>3, <2>1, <3>2, NAssumption
  <2> QED BY <2>1, NAssumption
<1>4. \A k \in Nat : k \in S
  <2> HIDE DEF S
  <2> QED BY <1>2, <1>3, SetInduction
<1> QED BY <1>1, <1>4, NAssumption

(* Passing the threshold of calculateVote is having more than two thirds of
   the stake: the rounding of the integer division gives nothing away. *)
LEMMA Threshold ==
  ASSUME NEW S
  PROVE  (Power(S) > BFTThreshold) <=> (3 * Power(S) > 2 * TotalPower)
  BY PowerType DEF BFTThreshold, TotalPower

------------------------------------------------------------------------------
(* The rotation *)

LEMMA HeaviestExists ==
  ASSUME NEW w \in [Nodes -> Nat]
  PROVE  \E v \in Nodes : \A u \in Nodes : w[v] > w[u] \/ (w[v] = w[u] /\ v <= u)
<1> DEFINE Heaviest(v, k) == \A u \in 0 .. k : w[v] > w[u] \/ (w[v] = w[u] /\ v <= u)
           S == {k \in Nat : k < N => \E v \in 0 .. k : Heaviest(v, k)}
<1>1. 0 \in S
  <2>1. 0 \in 0 .. 0 /\ Heaviest(0, 0)
    OBVIOUS
  <2> QED BY <2>1
<1>2. ASSUME NEW k \in Nat, k \in S
      PROVE  k + 1 \in S
  <2>1. CASE k + 1 < N
    <3>1. PICK v \in 0 .. k : Heaviest(v, k)
      BY <1>2, <2>1, NAssumption
    <3>2. \A u \in 0 .. k + 1 : u \in Nodes /\ w[u] \in Nat
      BY <2>1, NAssumption DEF Nodes
    <3>3. CASE w[k + 1] > w[v]
      <4>1. Heaviest(k + 1, k + 1)
        BY <3>1, <3>2, <3>3
      <4> QED BY <4>1
    <3>4. CASE w[k + 1] <= w[v]
      <4>1. Heaviest(v, k + 1)
        BY <3>1, <3>2, <3>4
      <4> QED BY <4>1
    <3> QED BY <3>2, <3>3, <3>4
  <2> QED BY <2>1, NAssumption
<1>3. \A k \in Nat : k \in S
  <2> HIDE DEF S
  <2> QED BY <1>1, <1>2, SetInduction
<1>4. N - 1 \in S
  BY <1>3, NAssumption
<1> QED BY <1>4, NAssumption DEF Nodes

QueueState == [index : Nodes, queue : [Nodes -> Nat]]

(* Whatever the weights, there is a next proposer, and it is a validator. *)
LEMMA NextProposerType ==
  ASSUME NEW queue \in [Nodes -> Nat]
  PROVE  GetNextProposer(queue) \in QueueState
<1> DEFINE weight == [v \in Nodes |-> queue[v] + Tokens[v]]
           Best(v) == \A w \in Nodes : weight[v] > weight[w] \/ (weight[v] = weight[w] /\ v <= w)
           proposer == CHOOSE v \in Nodes : Best(v)
<1>1. weight \in [Nodes -> Nat]
  BY TokensAssumption
<1>2. proposer \in Nodes
  <2>1. \E v \in Nodes : Best(v)
    <3> HIDE DEF weight
    <3> QED BY <1>1, HeaviestExists
  <2> HIDE DEF Best
  <2> QED BY <2>1
<1>3. GetNextProposer(queue) = [index |-> proposer, queue |-> [weight EXCEPT ![proposer] = 0]]
  BY DEF GetNextProposer
<1> HIDE DEF proposer, weight
<1> QED BY <1>1, <1>2, <1>3 DEF QueueState

(* The function behind AdvanceQueue: its values from round to round. *)
LEMMA AdvanceQueueTrace ==
  ASSUME NEW queue \in [Nodes -> Nat], NEW index \in Nodes, NEW rounds \in Nat
  PROVE  \E g : /\ AdvanceQueue(queue, index, rounds) = g[rounds]
                /\ g[0] = [index |-> index, queue |-> queue]
                /\ \A k \in 1 .. rounds : g[k] = GetNextProposer(g[k - 1].queue)
<1> DEFINE first == [index |-> index, queue |-> queue]
           After(f) == f = [k \in 0 .. rounds |->
                             IF k = 0 THEN first ELSE GetNextProposer(f[k - 1].queue)]
           step == [p \in Nat \X QueueState |-> GetNextProposer(p[2].queue)]
<1>1. first \in QueueState
  BY DEF QueueState
<1>2. step \in [Nat \X QueueState -> QueueState]
  <2>1. ASSUME NEW p \in Nat \X QueueState
        PROVE  GetNextProposer(p[2].queue) \in QueueState
    <3>1. p[2].queue \in [Nodes -> Nat]
      BY DEF QueueState
    <3> QED BY <3>1, NextProposerType
  <2> QED BY <2>1
<1>3. PICK f : IsIteration(f, rounds, QueueState, first, step)
  <2> HIDE DEF step, first
  <2> QED BY <1>1, <1>2, IterationExists
<1>4. ASSUME NEW k \in 1 .. rounds
      PROVE  f[k] = GetNextProposer(f[k - 1].queue)
  <2>1. <<k, f[k - 1]>> \in Nat \X QueueState
    BY <1>3 DEF IsIteration
  <2>2. f[k] = step[<<k, f[k - 1]>>]
    BY <1>3 DEF IsIteration
  <2> QED BY <2>1, <2>2
<1>5. After(f)
  <2> DEFINE F == [k \in 0 .. rounds |->
                    IF k = 0 THEN first ELSE GetNextProposer(f[k - 1].queue)]
  <2> HIDE DEF first
  <2>1. ASSUME NEW k \in 0 .. rounds
        PROVE  f[k] = F[k]
    <3>1. CASE k = 0
      BY <3>1, <1>3 DEF IsIteration
    <3>2. CASE k # 0
      <4>1. k \in 1 .. rounds
        BY <3>2
      <4> QED BY <4>1, <1>4, <3>2
    <3> QED BY <3>1, <3>2
  <2>2. f = [k \in 0 .. rounds |-> f[k]]
    BY <1>3 DEF IsIteration
  <2>3. F = [k \in 0 .. rounds |-> F[k]]
    OBVIOUS
  <2> HIDE DEF F
  <2>4. f = F
    BY <2>1, <2>2, <2>3
  <2> QED BY <2>4 DEF F
<1>6. PICK g : g = (CHOOSE h : After(h)) /\ After(g)
  <2> HIDE DEF After
  <2> QED BY <1>5
<1>7. AdvanceQueue(queue, index, rounds) = g[rounds]
  BY <1>6 DEF AdvanceQueue
<1> HIDE DEF first
<1>8. \A k \in 0 .. rounds : g[k] = IF k = 0 THEN first ELSE GetNextProposer(g[k - 1].queue)
  BY <1>6
<1> HIDE DEF After
<1>9. g[0] = first /\ \A k \in 1 .. rounds : g[k] = GetNextProposer(g[k - 1].queue)
  BY <1>8
<1> QED BY <1>7, <1>9 DEF first

LEMMA AdvanceQueueType ==
  ASSUME NEW queue \in [Nodes -> Nat], NEW index \in Nodes, NEW rounds \in Nat
  PROVE  AdvanceQueue(queue, index, rounds) \in QueueState
<1> DEFINE first == [index |-> index, queue |-> queue]
<1>1. first \in QueueState
  BY DEF QueueState
<1>2. PICK g : /\ AdvanceQueue(queue, index, rounds) = g[rounds]
               /\ g[0] = first
               /\ \A k \in 1 .. rounds : g[k] = GetNextProposer(g[k - 1].queue)
  BY AdvanceQueueTrace
<1> HIDE DEF first
<1> DEFINE T == {k \in Nat : k <= rounds => g[k] \in QueueState}
<1>3. 0 \in T
  BY <1>1, <1>2
<1>4. ASSUME NEW k \in Nat, k \in T
      PROVE  k + 1 \in T
  <2>1. CASE k + 1 <= rounds
    <3>1. g[k].queue \in [Nodes -> Nat]
      BY <1>4, <2>1 DEF QueueState
    <3>2. k + 1 \in 1 .. rounds /\ (k + 1) - 1 = k
      BY <2>1
    <3>3. g[k + 1] = GetNextProposer(g[k].queue)
      BY <1>2, <3>2
    <3> QED BY <3>1, <3>3, NextProposerType
  <2> QED BY <2>1
<1>5. \A k \in Nat : k \in T
  <2> HIDE DEF T
  <2> QED BY <1>3, <1>4, SetInduction
<1> QED BY <1>2, <1>5

(* No round leaves the queue as it is, and one more is getNextProposer once more. *)
LEMMA AdvanceQueueStep ==
  ASSUME NEW queue \in [Nodes -> Nat], NEW index \in Nodes, NEW rounds \in Nat
  PROVE  /\ AdvanceQueue(queue, index, 0) = [index |-> index, queue |-> queue]
         /\ AdvanceQueue(queue, index, rounds + 1)
              = GetNextProposer(AdvanceQueue(queue, index, rounds).queue)
<1> DEFINE A(r) == AdvanceQueue(queue, index, r)
           first == [index |-> index, queue |-> queue]
<1> HIDE DEF first
<1>1. \A r \in Nat : \E g : A(r) = g[r] /\ g[0] = first
                            /\ \A k \in 1 .. r : g[k] = GetNextProposer(g[k - 1].queue)
  BY AdvanceQueueTrace DEF first
<1> HIDE DEF A
<1>2. A(0) = first
  BY <1>1
<1>3. PICK g : A(rounds) = g[rounds] /\ g[0] = first
               /\ \A k \in 1 .. rounds : g[k] = GetNextProposer(g[k - 1].queue)
  BY <1>1
<1>4. PICK h : A(rounds + 1) = h[rounds + 1] /\ h[0] = first
               /\ \A k \in 1 .. (rounds + 1) : h[k] = GetNextProposer(h[k - 1].queue)
  <2>1. rounds + 1 \in Nat
    OBVIOUS
  <2> QED BY <1>1, <2>1
<1> DEFINE S == {k \in Nat : k <= rounds => g[k] = h[k]}
<1>5. 0 \in S
  BY <1>3, <1>4
<1>6. ASSUME NEW k \in Nat, k \in S
      PROVE  k + 1 \in S
  <2>1. CASE k + 1 <= rounds
    <3>1. k + 1 \in 1 .. rounds /\ k + 1 \in 1 .. (rounds + 1) /\ (k + 1) - 1 = k /\ g[k] = h[k]
      BY <1>6, <2>1
    <3>2. g[k + 1] = GetNextProposer(g[k].queue)
      BY <1>3, <3>1
    <3>3. h[k + 1] = GetNextProposer(h[k].queue)
      BY <1>4, <3>1
    <3> QED BY <3>1, <3>2, <3>3
  <2> QED BY <2>1
<1>7. \A k \in Nat : k \in S
  <2> HIDE DEF S
  <2> QED BY <1>5, <1>6, SetInduction
<1>8. g[rounds] = h[rounds]
  BY <1>7
<1>9. h[rounds + 1] = GetNextProposer(h[rounds].queue)
  <2>1. rounds + 1 \in 1 .. (rounds + 1) /\ (rounds + 1) - 1 = rounds
    OBVIOUS
  <2> QED BY <1>4, <2>1
<1>10. A(rounds + 1) = GetNextProposer(A(rounds).queue)
  BY <1>3, <1>4, <1>8, <1>9
<1> QED BY <1>2, <1>10 DEF A, first

(* Catching up in two goes is catching up in one: nodes that advanced their
   queues at different moments have the same proposer in the same round, as long
   as the stake is the same. *)
THEOREM RotationComposes ==
  ASSUME NEW queue \in [Nodes -> Nat], NEW index \in Nodes, NEW a \in Nat, NEW b \in Nat
  PROVE  LET met == AdvanceQueue(queue, index, a)
         IN  AdvanceQueue(met.queue, met.index, b) = AdvanceQueue(queue, index, a + b)
<1> DEFINE met == AdvanceQueue(queue, index, a)
           A(r) == AdvanceQueue(queue, index, r)
           B(r) == AdvanceQueue(met.queue, met.index, r)
           S == {r \in Nat : B(r) = A(a + r)}
<1>1. met \in QueueState
  BY AdvanceQueueType
<1> HIDE DEF met
<1>2. met.queue \in [Nodes -> Nat] /\ met.index \in Nodes
      /\ met = [index |-> met.index, queue |-> met.queue]
  BY <1>1 DEF QueueState
<1>3. 0 \in S
  <2>1. B(0) = met
    BY <1>2, AdvanceQueueStep
  <2>2. a + 0 = a
    OBVIOUS
  <2> QED BY <2>1, <2>2 DEF met
<1>4. ASSUME NEW r \in Nat, r \in S
      PROVE  r + 1 \in S
  <2>1. B(r + 1) = GetNextProposer(B(r).queue)
    BY <1>2, AdvanceQueueStep
  <2>2. a + r \in Nat /\ a + (r + 1) = (a + r) + 1
    OBVIOUS
  <2>3. A((a + r) + 1) = GetNextProposer(A(a + r).queue)
    BY <2>2, AdvanceQueueStep
  <2>4. B(r) = A(a + r)
    BY <1>4
  <2> HIDE DEF A, B
  <2>5. B(r + 1) = A(a + (r + 1))
    BY <2>1, <2>2, <2>3, <2>4
  <2> QED BY <2>5
<1>5. \A r \in Nat : r \in S
  <2> HIDE DEF S
  <2> QED BY <1>3, <1>4, SetInduction
<1>6. b \in S
  BY <1>5
<1> QED BY <1>6 DEF met

------------------------------------------------------------------------------
(* The handlers. *)
(* The votes a node has recorded are votes of W. *)
VotesIn(s, W) ==
    \A v \in Nodes :
        /\ s.prevotes[v] # NoHash => v \in Cast(W, "prevote", s.nextHeight, s.prevotes[v])
        /\ s.precommits # NoPrecommits /\ s.precommits[v].hash \notin {NoHash, Unaddressed} =>
             v \in Cast(W, "precommit", s.nextHeight, s.precommits[v].hash)

LocksIn(s, W) ==
    \A value \in {s.lockedValue, s.validValue} \ {0} :
        value = s.nextHeight /\ \E b \in Hash : HasQuorum(W, "prevote", value, b)

(* The final blocks are those from LOG_START + 1 to lastBlockIndex. *)
ChainIn(s, W) ==
    /\ s.nextHeight = s.lastBlockIndex + 1
    /\ \A h \in Heights :
        IF h \in LOG_START + 1 .. s.lastBlockIndex
        THEN s.blocks[h].hash # NoHash /\ h \in Certified(W)
        ELSE s.blocks[h] = NoBlock

(* Precommits follow a quorum of prevotes, and commits only tell of heights
   that are certified up to the one they name. *)
MessagesIn(W) ==
    \A m \in W :
        /\ m.type = "precommit" /\ m.hash # Nil => HasQuorum(W, "prevote", m.index, m.hash)
        /\ m.type = "commit" => LOG_START + 1 .. m.index \subseteq Certified(W)

Good(s, M) ==
    /\ s \in NodeState
    /\ M \subseteq Message
    /\ VotesIn(s, M \cup s.out)
    /\ LocksIn(s, M \cup s.out)
    /\ ChainIn(s, M \cup s.out)
    /\ MessagesIn(M \cup s.out)

(* The chain grew from s to r by blocks each on top of the one before. *)
SameLedger(s, r) == r.lastBlockIndex = s.lastBlockIndex /\ r.blocks = s.blocks

GrowsLedger(s, r) ==
    /\ r.lastBlockIndex \in s.lastBlockIndex + 1 .. MaxHeight
    /\ \A h \in Heights :
        IF h \in s.lastBlockIndex + 1 .. r.lastBlockIndex
        THEN r.blocks[h] # NoBlock /\ r.blocks[h].parent = r.blocks[h - 1].hash
        ELSE r.blocks[h] = s.blocks[h]

(* What a handler may do to the node, and to the messages it broadcasts. *)
Handles(s, r, M) ==
    /\ Good(r, M)
    /\ s.out \subseteq r.out
    /\ SameLedger(s, r) \/ GrowsLedger(s, r)

------------------------------------------------------------------------------
(* Votes and certificates are never lost as messages are added. *)

LEMMA CastMonotone ==
  ASSUME NEW M, NEW W, M \subseteq W, NEW type, NEW index, NEW hash
  PROVE  Cast(M, type, index, hash) \subseteq Cast(W, type, index, hash)
  BY DEF Cast

LEMMA HasQuorumMonotone ==
  ASSUME NEW M, NEW W, M \subseteq W, NEW type, NEW index, NEW hash,
         HasQuorum(M, type, index, hash)
  PROVE  HasQuorum(W, type, index, hash)
<1> DEFINE S == Cast(M, type, index, hash)
           T == Cast(W, type, index, hash)
<1>1. Power(S) <= Power(T)
  BY CastMonotone, PowerMonotone
<1>2. Power(S) \in Nat /\ Power(T) \in Nat /\ TotalPower \in Nat
  BY PowerType DEF TotalPower
<1>3. 3 * Power(S) > 2 * TotalPower
  BY DEF HasQuorum, IsQuorum
<1> HIDE DEF S, T
<1>4. 3 * Power(T) > 2 * TotalPower
  BY <1>1, <1>2, <1>3
<1> QED BY <1>4 DEF HasQuorum, IsQuorum, T

LEMMA CertifiedMonotone ==
  ASSUME NEW M, NEW W, M \subseteq W
  PROVE  Certified(M) \subseteq Certified(W)
  BY HasQuorumMonotone DEF Certified

LEMMA NodeMonotone ==
  ASSUME NEW s \in NodeState, NEW M, NEW W, M \subseteq W
  PROVE  /\ VotesIn(s, M) => VotesIn(s, W)
         /\ LocksIn(s, M) => LocksIn(s, W)
         /\ ChainIn(s, M) => ChainIn(s, W)
<1>1. VotesIn(s, M) => VotesIn(s, W)
  BY CastMonotone DEF VotesIn
<1>2. LocksIn(s, M) => LocksIn(s, W)
  BY HasQuorumMonotone DEF LocksIn
<1>3. ChainIn(s, M) => ChainIn(s, W)
  BY CertifiedMonotone DEF ChainIn
<1> QED BY <1>1, <1>2, <1>3

------------------------------------------------------------------------------
(* Most operators leave alone, or forget, what the invariant speaks of. *)

Quiet(s, r) ==
    /\ r.out = s.out
    /\ r.nextHeight = s.nextHeight
    /\ r.lastBlockIndex = s.lastBlockIndex
    /\ r.blocks = s.blocks
    /\ r.lockedValue \in {s.lockedValue, 0}
    /\ r.validValue \in {s.validValue, 0}
    /\ \A v \in Nodes :
        /\ r.prevotes[v] \in {s.prevotes[v], NoHash}
        /\ r.precommits # NoPrecommits /\ r.precommits[v].hash \notin {NoHash, Unaddressed} =>
             s.precommits # NoPrecommits /\ r.precommits[v].hash = s.precommits[v].hash

(* The machine stays in its state, and does not lose the block it votes for. *)
KeepsBlock(s, r) == r.fsm = s.fsm /\ r.nextHash \in {s.nextHash} \cup Hash

LEMMA KeepsTrans ==
  ASSUME NEW s, NEW t, NEW r, KeepsBlock(s, t), KeepsBlock(t, r)
  PROVE  KeepsBlock(s, r)
  BY DEF KeepsBlock

LEMMA QuietHandles ==
  ASSUME NEW s, NEW M, Good(s, M), NEW r \in NodeState, Quiet(s, r)
  PROVE  Handles(s, r, M)
<1> DEFINE W == M \cup s.out
<1>1. r.out = s.out
  BY DEF Quiet
<1>2. VotesIn(r, W)
  BY DEF Good, Quiet, VotesIn
<1>3. LocksIn(r, W)
  BY DEF Good, Quiet, LocksIn
<1>4. ChainIn(r, W)
  BY DEF Good, Quiet, ChainIn
<1>5. SameLedger(s, r)
  BY DEF Quiet, SameLedger
<1> QED BY <1>1, <1>2, <1>3, <1>4, <1>5 DEF Good, Handles

(* A call after another that left the chain alone. *)
LEMMA HandlesThen ==
  ASSUME NEW s, NEW t, NEW r, NEW M,
         s.out \subseteq t.out, SameLedger(s, t), Handles(t, r, M)
  PROVE  Handles(s, r, M)
  BY DEF Handles, SameLedger, GrowsLedger


------------------------------------------------------------------------------
(* Rounds, proposers and the stored proposals *)

LEMMA BoundsPositive ==
  /\ MaxTerm \in Nat /\ MaxHeight \in Nat \ {0} /\ MaxBlocks \in Nat
  /\ LOG_START \in Heights
  BY BoundsAssumption DEF Heights, LOG_START

LEMMA EntryAt ==
  ASSUME NEW s \in NodeState, NEW h \in Heights
  PROVE  GetLogEntryAggregate(s, h) \in Entry(AnyHash)
<1>1. s.logs[h] \in Entry(AnyHash) /\ s.blocks[h] \in [hash : AnyHash, parent : AnyHash]
  BY DEF NodeState
<1>2. [s.logs[h] EXCEPT !.hash = s.blocks[h].hash, !.parent = s.blocks[h].parent] \in Entry(AnyHash)
  BY <1>1 DEF Entry
<1> QED BY <1>1, <1>2 DEF GetLogEntryAggregate

LEMMA SetLogEntryQuiet ==
  ASSUME NEW s \in NodeState, NEW e \in Entry(AnyHash)
  PROVE  SetLogEntry(s, e) \in NodeState /\ Quiet(s, SetLogEntry(s, e))
<1>1. SetLogEntry(s, e) \in NodeState
  BY DEF SetLogEntry, NodeState
<1>2. Quiet(s, SetLogEntry(s, e))
  BY DEF SetLogEntry, NodeState, Quiet
<1> QED BY <1>1, <1>2

LEMMA QuietTrans ==
  ASSUME NEW s, NEW t, NEW r, Quiet(s, t), Quiet(t, r)
  PROVE  Quiet(s, r)
  BY DEF Quiet

LEMMA RevertQuiet ==
  ASSUME NEW s \in NodeState
  PROVE  Revert(s) \in NodeState /\ Quiet(s, Revert(s))
  BY DEF Revert, NodeState, Quiet

LEMMA AppendLogEntryQuiet ==
  ASSUME NEW s \in NodeState, NEW e \in Entry(AnyHash)
  PROVE  AppendLogEntry(s, e) \in NodeState /\ Quiet(s, AppendLogEntry(s, e))
<1> DEFINE t == [s EXCEPT !.lastLogIndex = e.index]
<1>1. t \in NodeState /\ Quiet(s, t)
  BY DEF NodeState, Entry, Quiet
<1> HIDE DEF t
<1>2. AppendLogEntry(s, e) \in {SetLogEntry(s, e), Revert(s), SetLogEntry(t, e)}
  BY DEF AppendLogEntry, t
<1> QED BY <1>1, <1>2, SetLogEntryQuiet, RevertQuiet, QuietTrans

LEMMA ProcessAppendEntryQuiet ==
  ASSUME NEW s \in NodeState, NEW e \in Entry(AnyHash)
  PROVE  ProcessAppendEntry(s, e) \in NodeState /\ Quiet(s, ProcessAppendEntry(s, e))
<1>1. ASSUME NEW t \in NodeState
      PROVE  /\ [t EXCEPT !.nextHash = e.hash] \in NodeState
             /\ Quiet(t, [t EXCEPT !.nextHash = e.hash])
  BY DEF NodeState, Entry, Quiet
<1> QED BY <1>1, AppendLogEntryQuiet, RevertQuiet, QuietTrans DEF ProcessAppendEntry

LEMMA StoreNewBlockQuiet ==
  ASSUME NEW s \in NodeState, NEW e \in Entry(AnyHash)
  PROVE  /\ StoreNewBlockOutOfOrder(s, e) \in NodeState
         /\ Quiet(s, StoreNewBlockOutOfOrder(s, e))
<1>1. /\ [s EXCEPT !.lastLogIndex = e.index] \in NodeState
      /\ Quiet(s, [s EXCEPT !.lastLogIndex = e.index])
      /\ Quiet(s, s)
  BY DEF NodeState, Entry, Quiet
<1> QED BY <1>1, SetLogEntryQuiet DEF StoreNewBlockOutOfOrder

LEMMA AdvanceProposerQuiet ==
  ASSUME NEW s \in NodeState, NEW termId \in Rounds, s.proposerQueueTermId <= termId
  PROVE  AdvanceProposer(s, termId) \in NodeState /\ Quiet(s, AdvanceProposer(s, termId))
<1> DEFINE q == AdvanceQueue(s.proposerQueue, s.proposerIndex, termId - s.proposerQueueTermId)
<1>1. termId - s.proposerQueueTermId \in Nat
  BY BoundsPositive DEF NodeState, Rounds
<1>2. q \in QueueState
  <2>1. s.proposerQueue \in [Nodes -> Nat] /\ s.proposerIndex \in Nodes
    BY DEF NodeState
  <2> QED BY <1>1, <2>1, AdvanceQueueType
<1> HIDE DEF q
<1>3. AdvanceProposer(s, termId) =
        [s EXCEPT !.proposerIndex = q.index, !.proposerQueue = q.queue,
                  !.proposerQueueTermId = termId]
  BY DEF AdvanceProposer, q
<1> QED BY <1>2, <1>3 DEF QueueState, NodeState, Quiet

LEMMA SetRoundProposerQuiet ==
  ASSUME NEW s \in NodeState
  PROVE  SetRoundProposer(s) \in NodeState /\ Quiet(s, SetRoundProposer(s))
<1>1. CASE s.proposerQueueTermId >= s.termId
  BY <1>1 DEF SetRoundProposer, NodeState, Quiet
<1>2. CASE ~(s.proposerQueueTermId >= s.termId)
  <2>1. s.termId \in Rounds /\ s.proposerQueueTermId <= s.termId
    BY <1>2, BoundsPositive DEF NodeState, Rounds
  <2> QED BY <1>2, <2>1, AdvanceProposerQuiet DEF SetRoundProposer
<1> QED BY <1>1, <1>2

LEMMA IncrementQuiet ==
  ASSUME NEW s \in NodeState, s.termId < MaxTerm
  PROVE  IncrementCurrentTerm(s) \in NodeState /\ Quiet(s, IncrementCurrentTerm(s))
  BY BoundsPositive DEF IncrementCurrentTerm, NodeState, Quiet, Rounds

LEMMA ResetPrevotesQuiet ==
  ASSUME NEW s \in NodeState
  PROVE  ResetPrevotes(s) \in NodeState /\ Quiet(s, ResetPrevotes(s))
<1>1. 0 \in Rounds
  BY BoundsPositive DEF Rounds
<1>2. ResetPrevotes(s) \in NodeState
  BY <1>1 DEF ResetPrevotes, NodeState
<1>3. Quiet(s, ResetPrevotes(s))
  BY DEF ResetPrevotes, NodeState, Quiet
<1> QED BY <1>2, <1>3

LEMMA ResetPrecommitsQuiet ==
  ASSUME NEW s \in NodeState
  PROVE  ResetPrecommits(s) \in NodeState /\ Quiet(s, ResetPrecommits(s))
<1>1. EmptyPrecommits(NoHash) \in Slots
  BY BoundsPositive DEF EmptyPrecommits, Slots, AnyHash, Rounds
<1>2. \A v \in Nodes : EmptyPrecommits(NoHash)[v].hash = NoHash
  BY DEF EmptyPrecommits
<1> QED BY <1>1, <1>2 DEF ResetPrecommits, NodeState, Quiet

(* Starting a round, whoever turns out to be its proposer. *)
LEMMA NewRoundQuiet ==
  ASSUME NEW s \in NodeState, s.termId < MaxTerm,
         NEW r, r = ResetPrecommits(ResetPrevotes(SetRoundProposer(IncrementCurrentTerm(s))))
  PROVE  r \in NodeState /\ Quiet(s, r)
  BY IncrementQuiet, SetRoundProposerQuiet, ResetPrevotesQuiet, ResetPrecommitsQuiet, QuietTrans

LEMMA ProposalType ==
  ASSUME NEW m \in Message, m.type = "proposal"
  PROVE  /\ m.termId \in Rounds /\ m.proposerIndex \in Nodes
         /\ m.proposerQueue \in [Nodes -> Nat] /\ m.entry \in Entry(Hash)
         /\ m.entry \in Entry(AnyHash)
         /\ m.entry.termId \in Rounds /\ m.entry.hash \in Hash
  BY DEF Message, Entry, AnyHash

LEMMA RollbackQuiet ==
  ASSUME NEW s \in NodeState, NEW m \in Message, m.type = "proposal", NEW termId \in Rounds
  PROVE  /\ RollbackTermIdWithStateChange(s, termId, m) \in NodeState
         /\ Quiet(s, RollbackTermIdWithStateChange(s, termId, m))
  BY ProposalType DEF RollbackTermIdWithStateChange, NodeState, Quiet

LEMMA ForceProposalResetQuiet ==
  ASSUME NEW s \in NodeState, NEW m \in Message, m.type = "proposal"
  PROVE  /\ ForceProposalReset(s, m) \in NodeState
         /\ Quiet(s, ForceProposalReset(s, m))
<1>1. /\ [s EXCEPT !.termId = m.termId] \in NodeState
      /\ Quiet(s, [s EXCEPT !.termId = m.termId])
  BY ProposalType DEF NodeState, Quiet
<1> QED BY <1>1, ProposalType, RollbackQuiet DEF ForceProposalReset

LEMMA ReceiveBlockProposalQuiet ==
  ASSUME NEW s \in NodeState, NEW m \in Message, m.type = "proposal"
  PROVE  /\ ReceiveBlockProposal(s, m) \in NodeState
         /\ Quiet(s, ReceiveBlockProposal(s, m))
<1>1. Quiet(s, s)
  BY DEF Quiet
<1>2. m.entry \in Entry(AnyHash) /\ m.entry.termId \in Rounds
  BY ProposalType
<1> QED BY <1>1, <1>2, StoreNewBlockQuiet, ProcessAppendEntryQuiet, RollbackQuiet, QuietTrans
        DEF ReceiveBlockProposal

------------------------------------------------------------------------------
(* Votes *)

LEMMA MessagesAdd ==
  ASSUME NEW W, MessagesIn(W), NEW m,
         m.type = "precommit" /\ m.hash # Nil => HasQuorum(W, "prevote", m.index, m.hash),
         m.type = "commit" => LOG_START + 1 .. m.index \subseteq Certified(W)
  PROVE  MessagesIn(W \cup {m})
<1> DEFINE V == W \cup {m}
<1>1. W \subseteq V
  OBVIOUS
<1>2. ASSUME NEW k \in V
      PROVE  /\ k.type = "precommit" /\ k.hash # Nil => HasQuorum(V, "prevote", k.index, k.hash)
             /\ k.type = "commit" => LOG_START + 1 .. k.index \subseteq Certified(V)
  <2>1. /\ k.type = "precommit" /\ k.hash # Nil => HasQuorum(W, "prevote", k.index, k.hash)
        /\ k.type = "commit" => LOG_START + 1 .. k.index \subseteq Certified(W)
    BY DEF MessagesIn
  <2> HIDE DEF V
  <2> QED BY <1>1, <2>1, HasQuorumMonotone, CertifiedMonotone
<1> QED BY <1>2 DEF MessagesIn

(* What a handler that only records votes leaves alone. *)
SameButVotes(s, r) ==
    /\ r.nextHeight = s.nextHeight
    /\ r.lastBlockIndex = s.lastBlockIndex
    /\ r.blocks = s.blocks
    /\ r.lockedValue = s.lockedValue
    /\ r.validValue = s.validValue

(* A broadcast of m, along with whatever the node records about it. *)
LEMMA BroadcastHandles ==
  ASSUME NEW s, NEW M, Good(s, M), NEW m \in Message, NEW r \in NodeState,
         SameButVotes(s, r), r.out = s.out \cup {m},
         VotesIn(r, M \cup r.out),
         m.type = "precommit" /\ m.hash # Nil => HasQuorum(M \cup s.out, "prevote", m.index, m.hash),
         m.type = "commit" => LOG_START + 1 .. m.index \subseteq Certified(M \cup s.out)
  PROVE  Handles(s, r, M)
<1> DEFINE W == M \cup s.out
           V == M \cup r.out
<1>1. W \subseteq V /\ V = W \cup {m}
  OBVIOUS
<1>2. s \in NodeState /\ LocksIn(s, W) /\ ChainIn(s, W) /\ MessagesIn(W)
  BY DEF Good
<1>3. MessagesIn(V)
  <2> HIDE DEF W, V
  <2> QED BY <1>1, <1>2, MessagesAdd DEF W
<1>4. LocksIn(s, V) /\ ChainIn(s, V)
  <2> HIDE DEF W, V
  <2> QED BY <1>1, <1>2, NodeMonotone
<1>5. LocksIn(r, V)
  <2> HIDE DEF V
  <2> QED BY <1>4 DEF LocksIn, SameButVotes
<1>6. ChainIn(r, V)
  <2> HIDE DEF V
  <2> QED BY <1>4 DEF ChainIn, SameButVotes
<1>7. SameLedger(s, r)
  BY DEF SameButVotes, SameLedger
<1> QED BY <1>3, <1>5, <1>6, <1>7 DEF Good, Handles

LEMMA CastIn ==
  ASSUME NEW W, NEW m \in W
  PROVE  m.from \in Cast(W, m.type, m.index, m.hash)
  BY DEF Cast

LEMMA VoteType ==
  ASSUME NEW type \in {"prevote", "precommit"}, NEW s \in NodeState, NEW n \in Nodes,
         NEW hash \in Hash \cup {Nil}
  PROVE  Vote(type, s, n, hash) \in Message
  BY DEF Vote, Message, NodeState

(* A vote that was cast at the node's height may be recorded. *)
LEMMA RecordPrevote ==
  ASSUME NEW s \in NodeState, NEW W, VotesIn(s, W), NEW v \in Nodes,
         NEW hash \in Hash \cup {Nil}, v \in Cast(W, "prevote", s.nextHeight, hash),
         NEW r, r = AddToPrevoteArray(s, v, hash)
  PROVE  /\ r \in NodeState /\ r.out = s.out
         /\ VotesIn(r, W)
         /\ SameButVotes(s, r)
<1>1. s.prevotes \in [Nodes -> AnyHash \cup {Nil}]
  BY DEF NodeState
<1>2. hash \in AnyHash \cup {Nil}
  BY DEF AnyHash
<1>3. r \in NodeState
  BY <1>1, <1>2 DEF AddToPrevoteArray, NodeState
<1>4. /\ SameButVotes(s, r) /\ r.out = s.out /\ r.precommits = s.precommits
      /\ r.prevotes = [s.prevotes EXCEPT ![v] = hash]
  BY DEF AddToPrevoteArray, NodeState, SameButVotes
<1>5. VotesIn(r, W)
  BY <1>1, <1>4 DEF VotesIn, SameButVotes
<1> QED BY <1>3, <1>4, <1>5

LEMMA RecordPrecommit ==
  ASSUME NEW s \in NodeState, NEW W, VotesIn(s, W), NEW v \in Nodes, NEW termId \in Rounds,
         NEW hash \in Hash \cup {Nil}, v \in Cast(W, "precommit", s.nextHeight, hash),
         NEW r, r = AddToPrecommitArray(s, v, [termId |-> termId, hash |-> hash])
  PROVE  /\ r \in NodeState /\ r.out = s.out
         /\ VotesIn(r, W)
         /\ SameButVotes(s, r)
<1> DEFINE Full == [Nodes -> [termId : Rounds, hash : AnyHash \cup {Nil, Unaddressed}]]
           old == IF s.precommits # NoPrecommits THEN s.precommits
                  ELSE IF s.lastSigs # NoPrecommits THEN EmptyPrecommits(NoHash)
                  ELSE EmptyPrecommits(Unaddressed)
<1>1. 0 \in Rounds
  BY BoundsPositive DEF Rounds
<1>2. EmptyPrecommits(NoHash) \in Full /\ EmptyPrecommits(Unaddressed) \in Full
  BY <1>1 DEF EmptyPrecommits, AnyHash
<1>3. s.precommits # NoPrecommits => s.precommits \in Full
  BY DEF NodeState, Slots
<1>4. old \in Full
  BY <1>2, <1>3
<1>5. ASSUME NEW u \in Nodes
      PROVE  \/ s.precommits # NoPrecommits /\ old = s.precommits
             \/ old[u].hash \in {NoHash, Unaddressed}
  BY DEF EmptyPrecommits
<1> HIDE DEF old
<1>6. r = [s EXCEPT !.precommits = [old EXCEPT ![v] = [termId |-> termId, hash |-> hash]]]
  BY DEF AddToPrecommitArray, old
<1>7. [old EXCEPT ![v] = [termId |-> termId, hash |-> hash]] \in Full
  BY <1>4 DEF AnyHash
<1>8. r \in NodeState
  <2>1. Full \subseteq Slots
    BY DEF Slots
  <2> HIDE DEF Full
  <2> QED BY <1>6, <1>7, <2>1 DEF NodeState
<1>9. /\ SameButVotes(s, r) /\ r.out = s.out /\ r.prevotes = s.prevotes
      /\ r.precommits = [old EXCEPT ![v] = [termId |-> termId, hash |-> hash]]
  BY <1>6 DEF NodeState, SameButVotes
<1>10. ASSUME NEW u \in Nodes, r.precommits[u].hash \notin {NoHash, Unaddressed}
       PROVE  u \in Cast(W, "precommit", s.nextHeight, r.precommits[u].hash)
  <2>1. CASE u = v
    <3>1. r.precommits[u] = [termId |-> termId, hash |-> hash]
      <4>1. DOMAIN old = Nodes
        BY <1>4
      <4> HIDE DEF Full
      <4> QED BY <4>1, <1>9, <2>1
    <3>2. r.precommits[u].hash = hash
      BY <3>1
    <3> QED BY <2>1, <3>2
  <2>2. CASE u # v
    <3>1. r.precommits[u] = old[u]
      BY <1>4, <1>9, <2>2
    <3>2. s.precommits # NoPrecommits /\ s.precommits[u].hash = r.precommits[u].hash
      BY <1>5, <1>10, <3>1
    <3> QED BY <1>10, <3>2 DEF VotesIn
  <2> QED BY <2>1, <2>2
<1>11. VotesIn(r, W)
  BY <1>9, <1>10 DEF VotesIn, SameButVotes
<1> QED BY <1>8, <1>9, <1>11

LEMMA PrevoteHandles ==
  ASSUME NEW s, NEW M, Good(s, M), NEW n \in Nodes, NEW hash \in Hash \cup {Nil}
  PROVE  Handles(s, Prevote(s, n, hash), M)
<1> DEFINE m == Vote("prevote", s, n, hash)
           a == AddToPrevoteArray(s, n, hash)
           r == Prevote(s, n, hash)
           V == M \cup (s.out \cup {m})
<1>1. s \in NodeState /\ VotesIn(s, M \cup s.out)
  BY DEF Good
<1>2. m \in Message
  BY <1>1, VoteType
<1>3. m.from = n /\ m.type = "prevote" /\ m.index = s.nextHeight /\ m.hash = hash
  BY DEF Vote
<1>4. VotesIn(s, V)
  <2>1. M \cup s.out \subseteq V
    OBVIOUS
  <2> HIDE DEF V
  <2> QED BY <1>1, <2>1, NodeMonotone
<1>5. n \in Cast(V, "prevote", s.nextHeight, hash)
  <2>1. m \in V
    OBVIOUS
  <2> HIDE DEF V, m
  <2> QED BY <1>3, <2>1, CastIn
<1>6. a \in NodeState /\ a.out = s.out /\ VotesIn(a, V) /\ SameButVotes(s, a)
  <2> HIDE DEF V
  <2> QED BY <1>1, <1>4, <1>5, RecordPrevote
<1>7. r = [a EXCEPT !.out = @ \cup {m}]
  BY DEF Prevote, Send
<1> HIDE DEF m, a, r
<1>8. r \in NodeState
  BY <1>2, <1>6, <1>7 DEF NodeState
<1>9. r.out = s.out \cup {m} /\ SameButVotes(s, r)
  BY <1>6, <1>7 DEF NodeState, SameButVotes
<1>10. VotesIn(r, V)
  <2>1. r.prevotes = a.prevotes /\ r.precommits = a.precommits /\ r.nextHeight = a.nextHeight
    BY <1>6, <1>7 DEF NodeState
  <2> HIDE DEF V
  <2> QED BY <1>6, <2>1 DEF VotesIn
<1>11. Handles(s, r, M)
  BY <1>2, <1>3, <1>8, <1>9, <1>10, BroadcastHandles
<1> QED BY <1>11 DEF r

(* A precommit for a block needs the quorum of prevotes. *)
LEMMA PrecommitHandles ==
  ASSUME NEW s, NEW M, Good(s, M), NEW n \in Nodes, NEW hash \in Hash \cup {Nil},
         hash # Nil => HasQuorum(M \cup s.out, "prevote", s.nextHeight, hash)
  PROVE  Handles(s, Precommit(s, n, hash), M)
<1> DEFINE m == Vote("precommit", s, n, hash)
           a == AddToPrecommitArray(s, n, [termId |-> s.termId, hash |-> hash])
           r == Precommit(s, n, hash)
           V == M \cup (s.out \cup {m})
<1>1. s \in NodeState /\ VotesIn(s, M \cup s.out)
  BY DEF Good
<1>2. m \in Message
  BY <1>1, VoteType
<1>3. m.from = n /\ m.type = "precommit" /\ m.index = s.nextHeight /\ m.hash = hash
  BY DEF Vote
<1>4. VotesIn(s, V)
  <2>1. M \cup s.out \subseteq V
    OBVIOUS
  <2> HIDE DEF V
  <2> QED BY <1>1, <2>1, NodeMonotone
<1>5. n \in Cast(V, "precommit", s.nextHeight, hash)
  <2>1. m \in V
    OBVIOUS
  <2> HIDE DEF V, m
  <2> QED BY <1>3, <2>1, CastIn
<1>6. a \in NodeState /\ a.out = s.out /\ VotesIn(a, V) /\ SameButVotes(s, a)
  <2>1. s.termId \in Rounds
    BY <1>1 DEF NodeState
  <2> HIDE DEF V
  <2> QED BY <1>1, <1>4, <1>5, <2>1, RecordPrecommit
<1>7. r = [a EXCEPT !.out = @ \cup {m}]
  BY DEF Precommit, Send
<1> HIDE DEF m, a, r
<1>8. r \in NodeState
  BY <1>2, <1>6, <1>7 DEF NodeState
<1>9. r.out = s.out \cup {m} /\ SameButVotes(s, r)
  BY <1>6, <1>7 DEF NodeState, SameButVotes
<1>10. VotesIn(r, V)
  <2>1. r.prevotes = a.prevotes /\ r.precommits = a.precommits /\ r.nextHeight = a.nextHeight
    BY <1>6, <1>7 DEF NodeState
  <2> HIDE DEF V
  <2> QED BY <1>6, <2>1 DEF VotesIn
<1>11. Handles(s, r, M)
  BY <1>2, <1>3, <1>8, <1>9, <1>10, BroadcastHandles
<1> QED BY <1>11 DEF r

LEMMA SameHandles ==
  ASSUME NEW s, NEW M, Good(s, M)
  PROVE  Handles(s, s, M)
  BY DEF Good, Handles, SameLedger

LEMMA NextHash ==
  ASSUME NEW s \in NodeState, s.nextHash # NoHash
  PROVE  s.nextHash \in Hash
  BY DEF NodeState, AnyHash

LEMMA SendPrevoteHandles ==
  ASSUME NEW s, NEW M, Good(s, M), NEW n \in Nodes
  PROVE  Handles(s, SendPrevote(s, n), M) /\ SameLedger(s, SendPrevote(s, n))
<1>1. s \in NodeState
  BY DEF Good
<1>2. SameLedger(s, SendPrevote(s, n))
  BY <1>1 DEF SendPrevote, Prevote, AddToPrevoteArray, Send, SameLedger, NodeState
<1> QED BY <1>1, <1>2, SameHandles, NextHash, PrevoteHandles DEF SendPrevote

LEMMA SendPrevoteNilHandles ==
  ASSUME NEW s, NEW M, Good(s, M), NEW n \in Nodes
  PROVE  Handles(s, SendPrevoteNil(s, n), M) /\ SameLedger(s, SendPrevoteNil(s, n))
<1>1. s \in NodeState
  BY DEF Good
<1>2. SameLedger(s, SendPrevoteNil(s, n))
  BY <1>1 DEF SendPrevoteNil, Prevote, AddToPrevoteArray, Send, SameLedger, NodeState
<1> QED BY <1>2, PrevoteHandles DEF SendPrevoteNil

LEMMA SendPrecommitNilHandles ==
  ASSUME NEW s, NEW M, Good(s, M), NEW n \in Nodes
  PROVE  Handles(s, SendPrecommitNil(s, n), M) /\ SameLedger(s, SendPrecommitNil(s, n))
<1>1. s \in NodeState
  BY DEF Good
<1>2. SameLedger(s, SendPrecommitNil(s, n))
  BY <1>1 DEF SendPrecommitNil, Precommit, AddToPrecommitArray, Send, SameLedger, NodeState
<1> QED BY <1>2, PrecommitHandles DEF SendPrecommitNil

LEMMA SendPrecommitHandles ==
  ASSUME NEW s, NEW M, Good(s, M), NEW n \in Nodes,
         s.nextHash # NoHash => HasQuorum(M \cup s.out, "prevote", s.nextHeight, s.nextHash)
  PROVE  Handles(s, SendPrecommit(s, n), M) /\ SameLedger(s, SendPrecommit(s, n))
<1>1. s \in NodeState
  BY DEF Good
<1>2. SameLedger(s, SendPrecommit(s, n))
  BY <1>1 DEF SendPrecommit, Precommit, AddToPrecommitArray, Send, SameLedger, NodeState
<1> QED BY <1>1, <1>2, SameHandles, NextHash, PrecommitHandles DEF SendPrecommit

LEMMA ReceivePrevoteHandles ==
  ASSUME NEW s, NEW M, Good(s, M), NEW m \in M, m.type = "prevote"
  PROVE  Handles(s, ReceivePrevote(s, m), M) /\ SameLedger(s, ReceivePrevote(s, m))
<1> DEFINE a == AddToPrevoteArray(s, m.from, m.hash)
           W == M \cup s.out
<1>1. m \in Message /\ s \in NodeState /\ VotesIn(s, W)
  BY DEF Good
<1>2. m.from \in Nodes /\ m.hash \in Hash \cup {Nil}
  BY <1>1 DEF Message
<1>3. CASE m.index = s.nextHeight
  <2>1. m.from \in Cast(W, "prevote", s.nextHeight, m.hash)
    BY <1>3, CastIn
  <2>2. a \in NodeState /\ a.out = s.out /\ VotesIn(a, W) /\ SameButVotes(s, a)
    <3> HIDE DEF W
    <3> QED BY <1>1, <1>2, <2>1, RecordPrevote
  <2> HIDE DEF a
  <2>3. LocksIn(a, W) /\ ChainIn(a, W) /\ SameLedger(s, a)
    BY <2>2 DEF Good, LocksIn, ChainIn, SameButVotes, SameLedger
  <2>4. Handles(s, a, M)
    BY <2>2, <2>3 DEF Good, Handles
  <2> QED BY <1>3, <2>3, <2>4 DEF ReceivePrevote, a
<1>4. CASE m.index # s.nextHeight
  BY <1>4, SameHandles DEF ReceivePrevote, SameLedger
<1> QED BY <1>3, <1>4

LEMMA ReceivePrecommitHandles ==
  ASSUME NEW s, NEW M, Good(s, M), NEW m \in M, m.type = "precommit"
  PROVE  Handles(s, ReceivePrecommit(s, m), M) /\ SameLedger(s, ReceivePrecommit(s, m))
<1> DEFINE a == AddToPrecommitArray(s, m.from, [termId |-> m.termId, hash |-> m.hash])
           W == M \cup s.out
<1>1. m \in Message /\ s \in NodeState /\ VotesIn(s, W)
  BY DEF Good
<1>2. m.from \in Nodes /\ m.termId \in Rounds /\ m.hash \in Hash \cup {Nil}
  BY <1>1 DEF Message
<1>3. CASE m.index = s.nextHeight
  <2>1. m.from \in Cast(W, "precommit", s.nextHeight, m.hash)
    BY <1>3, CastIn
  <2>2. a \in NodeState /\ a.out = s.out /\ VotesIn(a, W) /\ SameButVotes(s, a)
    <3> HIDE DEF W
    <3> QED BY <1>1, <1>2, <2>1, RecordPrecommit
  <2> HIDE DEF a
  <2>3. LocksIn(a, W) /\ ChainIn(a, W) /\ SameLedger(s, a)
    BY <2>2 DEF Good, LocksIn, ChainIn, SameButVotes, SameLedger
  <2>4. Handles(s, a, M)
    BY <2>2, <2>3 DEF Good, Handles
  <2> QED BY <1>3, <2>3, <2>4 DEF ReceivePrecommit, a
<1>4. CASE m.index # s.nextHeight
  BY <1>4, SameHandles DEF ReceivePrecommit, SameLedger
<1> QED BY <1>3, <1>4

(* The stake counted for a hash is stake that voted for it. *)
LEMMA QuorumCast ==
  ASSUME NEW W, NEW type, NEW index, NEW hash, NEW S,
         S \subseteq Cast(W, type, index, hash), CalculateVote(S)
  PROVE  HasQuorum(W, type, index, hash)
<1> DEFINE T == Cast(W, type, index, hash)
<1>1. 3 * Power(S) > 2 * TotalPower
  BY Threshold DEF CalculateVote
<1>2. Power(S) <= Power(T)
  BY PowerMonotone
<1>3. Power(S) \in Nat /\ Power(T) \in Nat /\ TotalPower \in Nat
  BY PowerType DEF TotalPower
<1> HIDE DEF T
<1>4. 3 * Power(T) > 2 * TotalPower
  BY <1>1, <1>2, <1>3
<1> QED BY <1>4 DEF HasQuorum, IsQuorum, T

LEMMA PrevoteQuorum ==
  ASSUME NEW s, NEW M, Good(s, M), IfPrevoteAcceptThreshold(s)
  PROVE  s.nextHash \in Hash /\ HasQuorum(M \cup s.out, "prevote", s.nextHeight, s.nextHash)
<1>1. s.nextHash \in Hash
  BY NextHash DEF Good, IfPrevoteAcceptThreshold
<1>2. PrevoteVoters(s, {s.nextHash}) \subseteq
        Cast(M \cup s.out, "prevote", s.nextHeight, s.nextHash)
  BY <1>1 DEF PrevoteVoters, Good, VotesIn, IfPrevoteAcceptThreshold
<1>3. HasQuorum(M \cup s.out, "prevote", s.nextHeight, s.nextHash)
  BY <1>2, QuorumCast DEF IfPrevoteAcceptThreshold
<1> QED BY <1>1, <1>3

LEMMA PrecommitQuorum ==
  ASSUME NEW s, NEW M, Good(s, M), IfPrecommitAcceptThreshold(s)
  PROVE  s.nextHash \in Hash /\ s.nextHeight \in Certified(M \cup s.out)
<1>1. s.nextHash \in Hash
  BY NextHash DEF Good, IfPrecommitAcceptThreshold
<1>2. s.nextHash \notin {NoHash, Unaddressed}
  BY <1>1, BoundsPositive DEF Hash, NoHash, Unaddressed
<1>3. PrecommitVoters(s, s.nextHash) \subseteq
        Cast(M \cup s.out, "precommit", s.nextHeight, s.nextHash)
  BY <1>2 DEF PrecommitVoters, Good, VotesIn
<1>4. HasQuorum(M \cup s.out, "precommit", s.nextHeight, s.nextHash)
  BY <1>3, QuorumCast DEF IfPrecommitAcceptThreshold
<1>5. s.nextHeight \in Heights
  BY DEF Good, NodeState
<1> QED BY <1>1, <1>4, <1>5 DEF Certified

------------------------------------------------------------------------------
(* Finalization *)

LEMMA LargestExists ==
  ASSUME NEW n \in Nat, NEW S \in SUBSET (0 .. n), S # {}
  PROVE  \E r \in S : \A q \in S : q <= r
<1> DEFINE Largest(R) == \E r \in R : \A q \in R : q <= r
           T == {k \in Nat : \A R \in SUBSET (0 .. k) : R # {} => Largest(R)}
<1>1. 0 \in T
  <2>1. ASSUME NEW R \in SUBSET (0 .. 0), NEW x \in R
        PROVE  \A q \in R : q <= x
    BY <2>1
  <2> QED BY <2>1
<1>2. ASSUME NEW k \in Nat, k \in T
      PROVE  k + 1 \in T
  <2> SUFFICES ASSUME NEW R \in SUBSET (0 .. k + 1), R # {}
               PROVE  Largest(R)
    OBVIOUS
  <2>1. CASE k + 1 \in R
    BY <2>1
  <2>2. CASE k + 1 \notin R
    <3>1. R \in SUBSET (0 .. k)
      BY <2>2
    <3> QED BY <1>2, <3>1
  <2> QED BY <2>1, <2>2
<1>3. \A k \in Nat : k \in T
  <2> HIDE DEF T
  <2> QED BY <1>1, <1>2, SetInduction
<1>4. n \in T
  BY <1>3
<1> QED BY <1>4

LEMMA FinalizeUpToHandles ==
  ASSUME NEW s, NEW M, Good(s, M), NEW k \in s.lastBlockIndex + 1 .. MaxHeight,
         CanFinalize(s, k), s.lastBlockIndex + 1 .. k \subseteq Certified(M \cup s.out)
  PROVE  /\ Handles(s, FinalizeUpTo(s, k), M) /\ FinalizeUpTo(s, k).out = s.out
         /\ KeepsBlock(s, FinalizeUpTo(s, k))
<1> DEFINE first == s.lastBlockIndex + 1
           heights == s.lastBlockIndex + 1 .. k
           rounds == {s.termId} \cup {s.logs[i].termId : i \in heights \ {k}}
           reached == CHOOSE r \in rounds : \A q \in rounds : q <= r
           p == IF s.proposerQueueTermId < reached THEN AdvanceProposer(s, reached) ELSE s
           r == FinalizeUpTo(s, k)
           W == M \cup s.out
<1>1. /\ s \in NodeState /\ s.lastBlockIndex \in LOG_START .. MaxHeight
      /\ s.termId \in Rounds /\ s.proposerQueueTermId \in Rounds
      /\ s.logs \in [Heights -> Entry(AnyHash)]
      /\ s.blocks \in [Heights -> [hash : AnyHash, parent : AnyHash]]
      /\ s.precommits \in Slots
  BY DEF Good, NodeState
<1>2. heights \subseteq Heights /\ k \in heights /\ first \in heights /\ first - 1 \in Heights
  BY <1>1, BoundsPositive DEF Heights, LOG_START
<1>3. reached \in Rounds
  <2>1. rounds \in SUBSET (0 .. MaxTerm) /\ rounds # {}
    <3>1. \A i \in heights : s.logs[i].termId \in Rounds
      <4> HIDE DEF heights
      <4> QED BY <1>1, <1>2 DEF Entry
    <3> QED BY <1>1, <3>1 DEF Rounds
  <2> HIDE DEF rounds
  <2>2. \E x \in rounds : \A q \in rounds : q <= x
    BY <2>1, BoundsPositive, LargestExists
  <2> QED BY <2>1, <2>2 DEF Rounds
<1> HIDE DEF reached
<1>4. /\ p \in NodeState /\ p.out = s.out /\ p.blocks = s.blocks /\ p.logs = s.logs
      /\ p.fsm = s.fsm /\ p.nextHash = s.nextHash
  <2>1. CASE s.proposerQueueTermId < reached
    <3>1. s.proposerQueueTermId <= reached
      BY <1>1, <1>3, <2>1, BoundsPositive DEF Rounds
    <3>2. AdvanceProposer(s, reached) \in NodeState /\ Quiet(s, AdvanceProposer(s, reached))
      BY <1>1, <1>3, <3>1, AdvanceProposerQuiet
    <3>3. /\ AdvanceProposer(s, reached).logs = s.logs
          /\ AdvanceProposer(s, reached).fsm = s.fsm
          /\ AdvanceProposer(s, reached).nextHash = s.nextHash
      BY <1>1 DEF AdvanceProposer, NodeState
    <3> QED BY <2>1, <3>2, <3>3 DEF Quiet
  <2>2. CASE ~(s.proposerQueueTermId < reached)
    BY <1>1, <2>2
  <2> QED BY <2>1, <2>2
<1> DEFINE l == ResetLocks(p)
           blocks == [h \in Heights |->
                IF h \in heights THEN [hash |-> s.logs[h].hash, parent |-> s.logs[h].parent]
                                 ELSE s.blocks[h]]
           logs == [h \in Heights |->
                IF h \in heights THEN [s.logs[h] EXCEPT !.hash = NoHash, !.parent = NoHash]
                                 ELSE s.logs[h]]
           sigs == IF Cardinality(heights) = 1 THEN s.precommits ELSE NoPrecommits
<1>5. /\ l \in NodeState /\ l.out = s.out /\ l.blocks = s.blocks /\ l.logs = s.logs
      /\ l.lockedValue = 0 /\ l.validValue = 0
      /\ l.fsm = s.fsm /\ l.nextHash = s.nextHash
  <2>1. 0 \in Rounds
    BY BoundsPositive DEF Rounds
  <2> HIDE DEF p
  <2> QED BY <1>4, <2>1 DEF ResetLocks, NodeState
<1>5a. r = [l EXCEPT !.nextHeight = k + 1, !.lastBlockIndex = k,
                    !.blocks = blocks, !.logs = logs,
                    !.lastRound = s.logs[k].termId, !.termId = s.logs[k].termId,
                    !.lastSigs = sigs, !.prevotes = EmptyPrevotes, !.precommits = NoPrecommits]
  <2>1. r = [l EXCEPT
          !.nextHeight = k + 1, !.lastBlockIndex = k,
          !.blocks = [h \in Heights |->
              IF h \in heights THEN [hash |-> s.logs[h].hash, parent |-> s.logs[h].parent]
                               ELSE l.blocks[h]],
          !.logs = [h \in Heights |->
              IF h \in heights THEN [l.logs[h] EXCEPT !.hash = NoHash, !.parent = NoHash]
                               ELSE l.logs[h]],
          !.lastRound = s.logs[k].termId, !.termId = s.logs[k].termId,
          !.lastSigs = sigs,
          !.prevotes = EmptyPrevotes, !.precommits = NoPrecommits]
    BY DEF FinalizeUpTo, p, reached
  <2> HIDE DEF l, heights, r
  <2> QED BY <1>5, <2>1
<1> HIDE DEF l, p
<1>6. blocks \in [Heights -> [hash : AnyHash, parent : AnyHash]]
  BY <1>1 DEF Entry
<1>7. logs \in [Heights -> Entry(AnyHash)]
  BY <1>1 DEF Entry, AnyHash
<1>8. sigs \in Slots
  BY <1>1 DEF Slots
<1>9. /\ s.logs[k].termId \in Rounds /\ 0 \in Rounds
      /\ EmptyPrevotes \in [Nodes -> AnyHash \cup {Nil}]
      /\ NoPrecommits \in Slots
      /\ k + 1 \in Heights /\ k \in LOG_START .. MaxHeight
  <2>1. s.logs[k].termId \in Rounds /\ 0 \in Rounds
    BY <1>1, <1>2, BoundsPositive DEF Entry, Rounds
  <2>2. EmptyPrevotes \in [Nodes -> AnyHash \cup {Nil}] /\ NoPrecommits \in Slots
    BY DEF EmptyPrevotes, AnyHash, Slots
  <2>3. k + 1 \in Heights /\ k \in LOG_START .. MaxHeight
    BY <1>1, BoundsPositive DEF Heights, LOG_START
  <2> QED BY <2>1, <2>2, <2>3
<1>10. \A h \in heights :
        /\ s.logs[h].hash # NoHash
        /\ s.logs[h].parent = IF h = first THEN s.blocks[first - 1].hash ELSE s.logs[h - 1].hash
  BY DEF CanFinalize
<1> HIDE DEF sigs, logs, r
<1>11. r \in NodeState
  <2> HIDE DEF blocks
  <2> QED BY <1>5, <1>5a, <1>6, <1>7, <1>8, <1>9 DEF NodeState
<1>12. /\ r.out = s.out /\ r.nextHeight = k + 1 /\ r.lastBlockIndex = k /\ r.blocks = blocks
       /\ r.lockedValue = 0 /\ r.validValue = 0
       /\ r.prevotes = EmptyPrevotes /\ r.precommits = NoPrecommits
       /\ r.fsm = s.fsm /\ r.nextHash = s.nextHash
  <2> HIDE DEF blocks
  <2> QED BY <1>5, <1>5a DEF NodeState
<1>13. VotesIn(r, W) /\ LocksIn(r, W)
  BY <1>12 DEF VotesIn, LocksIn, EmptyPrevotes
<1>14. ChainIn(r, W)
  <2>1. ASSUME NEW h \in Heights
        PROVE  IF h \in LOG_START + 1 .. k
               THEN blocks[h].hash # NoHash /\ h \in Certified(W)
               ELSE blocks[h] = NoBlock
    <3>1. CASE h \in heights
      <4>1. blocks[h].hash # NoHash /\ h \in Certified(W)
        BY <1>10, <3>1
      <4>2. h \in LOG_START + 1 .. k
        BY <1>1, <3>1 DEF LOG_START
      <4> QED BY <4>1, <4>2
    <3>2. CASE h \notin heights
      <4>1. blocks[h] = s.blocks[h]
        BY <3>2
      <4>2. (h \in LOG_START + 1 .. k) <=> (h \in LOG_START + 1 .. s.lastBlockIndex)
        BY <1>1, <3>2, BoundsPositive DEF LOG_START, Heights
      <4>3. ChainIn(s, W)
        BY DEF Good
      <4> HIDE DEF blocks, W
      <4> QED BY <4>1, <4>2, <4>3 DEF ChainIn
    <3> QED BY <3>1, <3>2
  <2> HIDE DEF blocks, W
  <2> QED BY <1>12, <2>1 DEF ChainIn
<1>15. GrowsLedger(s, r)
  <2>1. ASSUME NEW h \in Heights
        PROVE  IF h \in s.lastBlockIndex + 1 .. k
               THEN blocks[h] # NoBlock /\ blocks[h].parent = blocks[h - 1].hash
               ELSE blocks[h] = s.blocks[h]
    <3>1. CASE h \in heights
      <4>1. blocks[h] = [hash |-> s.logs[h].hash, parent |-> s.logs[h].parent]
        BY <3>1
      <4>2. blocks[h] # NoBlock
        BY <1>10, <3>1, <4>1 DEF NoBlock
      <4>3. CASE h = first
        <5>1. blocks[first - 1] = s.blocks[first - 1]
          BY <1>1, <1>2
        <5> HIDE DEF blocks
        <5> QED BY <1>10, <3>1, <4>1, <4>2, <4>3, <5>1
      <4>4. CASE h # first
        <5>1. h - 1 \in heights
          BY <1>1, <3>1, <4>4
        <5>2. blocks[h - 1].hash = s.logs[h - 1].hash
          BY <1>2, <5>1
        <5> HIDE DEF blocks
        <5> QED BY <1>10, <3>1, <4>1, <4>2, <4>4, <5>2
      <4> HIDE DEF blocks
      <4> QED BY <4>3, <4>4
    <3>2. CASE h \notin heights
      BY <3>2
    <3> QED BY <3>1, <3>2
  <2> HIDE DEF blocks
  <2> QED BY <1>12, <2>1 DEF GrowsLedger
<1>16. KeepsBlock(s, r)
  BY <1>12 DEF KeepsBlock
<1> QED BY <1>11, <1>12, <1>13, <1>14, <1>15, <1>16 DEF r, Good, Handles

------------------------------------------------------------------------------
(* FinalizeUpTo says in one step what the code does in a loop, block by block.
   It is that loop: finalizing one more height than k is finalizing up to k and
   then that height, and can be done exactly if both can. *)

(* Where the proposer queue of a node is when it caught up with a round. *)
CaughtUp(s, round) ==
    IF s.proposerQueueTermId < round
    THEN LET r == AdvanceQueue(s.proposerQueue, s.proposerIndex, round - s.proposerQueueTermId)
         IN  [index |-> r.index, queue |-> r.queue, termId |-> round]
    ELSE [index |-> s.proposerIndex, queue |-> s.proposerQueue, termId |-> s.proposerQueueTermId]

LEMMA CaughtUpTwice ==
  ASSUME NEW s \in NodeState, NEW r1 \in Rounds, NEW r2 \in Rounds, NEW r3 \in Rounds,
         r3 = (IF r1 <= r2 THEN r2 ELSE r1), NEW u,
         u.proposerIndex = CaughtUp(s, r1).index, u.proposerQueue = CaughtUp(s, r1).queue,
         u.proposerQueueTermId = CaughtUp(s, r1).termId
  PROVE  CaughtUp(u, r2) = CaughtUp(s, r3)
<1> DEFINE q == s.proposerQueueTermId
           A(n) == AdvanceQueue(s.proposerQueue, s.proposerIndex, n)
<1>1. q \in Int /\ r1 \in Int /\ r2 \in Int /\ q \in Nat /\ r1 \in Nat /\ r2 \in Nat
  BY BoundsPositive DEF NodeState, Rounds
<1>2. s.proposerQueue \in [Nodes -> Nat] /\ s.proposerIndex \in Nodes
  BY DEF NodeState
<1>3. CASE q < r1
  <2>1. /\ u.proposerIndex = A(r1 - q).index /\ u.proposerQueue = A(r1 - q).queue
        /\ u.proposerQueueTermId = r1
    BY <1>3 DEF CaughtUp
  <2>2. CASE r1 < r2
    <3>1. r1 - q \in Nat /\ r2 - r1 \in Nat /\ (r1 - q) + (r2 - r1) = r2 - q /\ r3 = r2 /\ q < r2
      BY <1>1, <1>3, <2>2
    <3>2. AdvanceQueue(A(r1 - q).queue, A(r1 - q).index, r2 - r1) = A((r1 - q) + (r2 - r1))
      BY <1>2, <3>1, RotationComposes
    <3>3. CaughtUp(u, r2) = [index |-> A(r2 - q).index, queue |-> A(r2 - q).queue, termId |-> r2]
      BY <2>1, <2>2, <3>1, <3>2 DEF CaughtUp
    <3>4. CaughtUp(s, r2) = [index |-> A(r2 - q).index, queue |-> A(r2 - q).queue, termId |-> r2]
      BY <3>1 DEF CaughtUp
    <3> QED BY <3>1, <3>3, <3>4
  <2>3. CASE ~ (r1 < r2)
    <3>1. r3 = r1
      BY <1>1, <2>3
    <3>2. CaughtUp(u, r2) = [index |-> A(r1 - q).index, queue |-> A(r1 - q).queue, termId |-> r1]
      BY <2>1, <2>3 DEF CaughtUp
    <3>3. CaughtUp(s, r1) = [index |-> A(r1 - q).index, queue |-> A(r1 - q).queue, termId |-> r1]
      BY <1>3 DEF CaughtUp
    <3> QED BY <3>1, <3>2, <3>3
  <2> QED BY <2>2, <2>3
<1>4. CASE ~ (q < r1)
  <2>1. /\ u.proposerIndex = s.proposerIndex /\ u.proposerQueue = s.proposerQueue
        /\ u.proposerQueueTermId = q
    BY <1>4 DEF CaughtUp
  <2>2. CaughtUp(u, r2) = CaughtUp(s, r2)
    BY <2>1 DEF CaughtUp
  <2>3. CASE r1 <= r2
    BY <2>2, <2>3
  <2>4. CASE ~ (r1 <= r2)
    <3>1. ~ (q < r2) /\ r3 = r1
      BY <1>1, <1>4, <2>4
    <3>2. CaughtUp(s, r2) = CaughtUp(s, r1)
      BY <1>4, <3>1 DEF CaughtUp
    <3> QED BY <2>2, <3>1, <3>2
  <2> QED BY <2>3, <2>4
<1> QED BY <1>3, <1>4

(* The rounds the queue catches up with on the way to height k, and their largest. *)
RoundsTo(s, k) == {s.termId} \cup {s.logs[i].termId : i \in (s.lastBlockIndex + 1 .. k) \ {k}}

Reached(s, k) == CHOOSE r \in RoundsTo(s, k) : \A q \in RoundsTo(s, k) : q <= r

StoredTo(s, k) ==
    [h \in Heights |-> IF h \in s.lastBlockIndex + 1 .. k
                       THEN [hash |-> s.logs[h].hash, parent |-> s.logs[h].parent]
                       ELSE s.blocks[h]]

LogsTo(s, k) ==
    [h \in Heights |-> IF h \in s.lastBlockIndex + 1 .. k
                       THEN [s.logs[h] EXCEPT !.hash = NoHash, !.parent = NoHash]
                       ELSE s.logs[h]]

SigsTo(s, k) ==
    IF Cardinality(s.lastBlockIndex + 1 .. k) = 1 THEN s.precommits ELSE NoPrecommits

(* A node as a record with these fields: two are equal when all fields are. *)
Fields ==
    {"fsm", "termId", "nextHeight", "nextHash", "lockedValue", "lockedRound", "validValue",
     "validRound", "lastRound", "lastSigs", "proposerIndex", "proposerQueue",
     "proposerQueueTermId", "lastLogIndex", "logs", "lastBlockIndex", "blocks", "prevotes",
     "precommits", "out", "ok"}

IsRecord(x) == x = [f \in Fields |-> x[f]]

LEMMA NodeFields ==
  ASSUME NEW s \in NodeState
  PROVE  IsRecord(s)
  BY DEF NodeState, Fields, IsRecord

LEMMA SameRecord ==
  ASSUME NEW x, NEW y, IsRecord(x), IsRecord(y),
   x.fsm = y.fsm, x.termId = y.termId, x.nextHeight = y.nextHeight, x.nextHash = y.nextHash,
   x.lockedValue = y.lockedValue, x.lockedRound = y.lockedRound, x.validValue = y.validValue,
   x.validRound = y.validRound, x.lastRound = y.lastRound, x.lastSigs = y.lastSigs,
   x.proposerIndex = y.proposerIndex, x.proposerQueue = y.proposerQueue,
   x.proposerQueueTermId = y.proposerQueueTermId, x.lastLogIndex = y.lastLogIndex,
   x.logs = y.logs, x.lastBlockIndex = y.lastBlockIndex, x.blocks = y.blocks,
   x.prevotes = y.prevotes, x.precommits = y.precommits, x.out = y.out, x.ok = y.ok
  PROVE x = y
<1>1. \A f \in Fields : x[f] = y[f]
  BY DEF Fields
<1>2. [f \in Fields |-> x[f]] = [f \in Fields |-> y[f]]
  BY <1>1
<1> QED BY <1>2 DEF IsRecord

(* What finalizing up to k leaves of a node s. *)
Decided(r, s, k) ==
    LET c == CaughtUp(s, Reached(s, k))
    IN  /\ IsRecord(r)
        /\ r.fsm = s.fsm /\ r.nextHash = s.nextHash /\ r.lastLogIndex = s.lastLogIndex
        /\ r.out = s.out /\ r.ok = s.ok
        /\ r.lockedValue = 0 /\ r.lockedRound = 0 /\ r.validValue = 0 /\ r.validRound = 0
        /\ r.proposerIndex = c.index /\ r.proposerQueue = c.queue
        /\ r.proposerQueueTermId = c.termId
        /\ r.nextHeight = k + 1 /\ r.lastBlockIndex = k
        /\ r.blocks = StoredTo(s, k) /\ r.logs = LogsTo(s, k)
        /\ r.lastRound = s.logs[k].termId /\ r.termId = s.logs[k].termId
        /\ r.lastSigs = SigsTo(s, k)
        /\ r.prevotes = EmptyPrevotes /\ r.precommits = NoPrecommits

LEMMA FinalizeUpToDecides ==
  ASSUME NEW s, IsRecord(s), NEW k
  PROVE  Decided(FinalizeUpTo(s, k), s, k)
<1> DEFINE c == CaughtUp(s, Reached(s, k))
           q == IF s.proposerQueueTermId < Reached(s, k) THEN AdvanceProposer(s, Reached(s, k)) ELSE s
           l == ResetLocks(q)
           stored == StoredTo(s, k)
           cleared == LogsTo(s, k)
           sigs == SigsTo(s, k)
           round == s.logs[k].termId
<1>1. /\ IsRecord(q)
      /\ q.proposerIndex = c.index /\ q.proposerQueue = c.queue
      /\ q.proposerQueueTermId = c.termId
      /\ \A f \in Fields \ {"proposerIndex", "proposerQueue", "proposerQueueTermId"} : q[f] = s[f]
  <2>1. CASE s.proposerQueueTermId < Reached(s, k)
    <3> DEFINE a == AdvanceQueue(s.proposerQueue, s.proposerIndex,
                                 Reached(s, k) - s.proposerQueueTermId)
               y == [s EXCEPT !.proposerIndex = a.index, !.proposerQueue = a.queue,
                              !.proposerQueueTermId = Reached(s, k)]
    <3>1. q = y /\ c = [index |-> a.index, queue |-> a.queue, termId |-> Reached(s, k)]
      BY <2>1 DEF AdvanceProposer, CaughtUp
    <3> HIDE DEF a, q, c
    <3>2. /\ IsRecord(y)
          /\ y.proposerIndex = a.index /\ y.proposerQueue = a.queue
          /\ y.proposerQueueTermId = Reached(s, k)
          /\ \A f \in Fields \ {"proposerIndex", "proposerQueue", "proposerQueueTermId"} :
               y[f] = s[f]
      BY DEF IsRecord, Fields
    <3> QED BY <3>1, <3>2
  <2>2. CASE ~ (s.proposerQueueTermId < Reached(s, k))
    BY <2>2 DEF CaughtUp
  <2> QED BY <2>1, <2>2
<1> HIDE DEF c, q
<1>2. /\ IsRecord(l)
      /\ l.lockedValue = 0 /\ l.lockedRound = 0 /\ l.validValue = 0 /\ l.validRound = 0
      /\ \A f \in Fields \ {"lockedValue", "lockedRound", "validValue", "validRound"} : l[f] = q[f]
  BY <1>1 DEF ResetLocks, IsRecord, Fields
<1> HIDE DEF l
<1>3. /\ l.proposerIndex = c.index /\ l.proposerQueue = c.queue
      /\ l.proposerQueueTermId = c.termId /\ l.fsm = s.fsm /\ l.nextHash = s.nextHash
      /\ l.lastLogIndex = s.lastLogIndex /\ l.out = s.out /\ l.ok = s.ok
      /\ l.blocks = s.blocks /\ l.logs = s.logs
  BY <1>1, <1>2 DEF Fields
<1> DEFINE y == [l EXCEPT
          !.nextHeight = k + 1, !.lastBlockIndex = k, !.blocks = stored, !.logs = cleared,
          !.lastRound = round, !.termId = round,
          !.lastSigs = sigs, !.prevotes = EmptyPrevotes, !.precommits = NoPrecommits]
<1>4. FinalizeUpTo(s, k) = y
  <2>1. FinalizeUpTo(s, k) = [l EXCEPT
          !.nextHeight = k + 1, !.lastBlockIndex = k,
          !.blocks = [h \in Heights |->
              IF h \in s.lastBlockIndex + 1 .. k
              THEN [hash |-> s.logs[h].hash, parent |-> s.logs[h].parent] ELSE l.blocks[h]],
          !.logs = [h \in Heights |->
              IF h \in s.lastBlockIndex + 1 .. k
              THEN [l.logs[h] EXCEPT !.hash = NoHash, !.parent = NoHash] ELSE l.logs[h]],
          !.lastRound = s.logs[k].termId, !.termId = s.logs[k].termId,
          !.lastSigs = sigs, !.prevotes = EmptyPrevotes, !.precommits = NoPrecommits]
    BY DEF FinalizeUpTo, Reached, RoundsTo, SigsTo, l, q
  <2> QED BY <1>3, <2>1 DEF StoredTo, LogsTo
<1> HIDE DEF stored, cleared, sigs, round
<1>5. /\ IsRecord(y)
      /\ y.nextHeight = k + 1 /\ y.lastBlockIndex = k /\ y.blocks = stored /\ y.logs = cleared
      /\ y.lastRound = round /\ y.termId = round /\ y.lastSigs = sigs
      /\ y.prevotes = EmptyPrevotes /\ y.precommits = NoPrecommits
      /\ y.lockedValue = l.lockedValue /\ y.lockedRound = l.lockedRound
      /\ y.validValue = l.validValue /\ y.validRound = l.validRound
      /\ y.proposerIndex = l.proposerIndex /\ y.proposerQueue = l.proposerQueue
      /\ y.proposerQueueTermId = l.proposerQueueTermId /\ y.fsm = l.fsm
      /\ y.nextHash = l.nextHash /\ y.lastLogIndex = l.lastLogIndex /\ y.out = l.out /\ y.ok = l.ok
  BY <1>2 DEF IsRecord, Fields
<1> HIDE DEF y
<1> QED BY <1>2, <1>3, <1>4, <1>5 DEF Decided, c, stored, cleared, sigs, round

LEMMA LargestIs ==
  ASSUME NEW R \in SUBSET Int, NEW m \in R, \A q \in R : q <= m
  PROVE  (CHOOSE r \in R : \A q \in R : q <= r) = m
<1> DEFINE r == CHOOSE x \in R : \A q \in R : q <= x
<1>1. r \in R /\ \A q \in R : q <= r
  OBVIOUS
<1> HIDE DEF r
<1>2. r = m
  BY <1>1
<1> QED BY <1>2 DEF r

LEMMA ReachedType ==
  ASSUME NEW s \in NodeState, NEW k \in s.lastBlockIndex + 1 .. MaxHeight
  PROVE  /\ RoundsTo(s, k) \in SUBSET Rounds /\ Reached(s, k) \in RoundsTo(s, k)
         /\ \A q \in RoundsTo(s, k) : q <= Reached(s, k)
<1>1. /\ s.termId \in Rounds /\ s.logs \in [Heights -> Entry(AnyHash)]
      /\ s.lastBlockIndex \in LOG_START .. MaxHeight
  BY DEF NodeState
<1>2. s.lastBlockIndex + 1 .. k \subseteq Heights
  BY <1>1, BoundsPositive DEF Heights, LOG_START
<1>3. \A i \in (s.lastBlockIndex + 1 .. k) : s.logs[i].termId \in Rounds
  BY <1>1, <1>2 DEF Entry
<1>4. RoundsTo(s, k) \in SUBSET Rounds /\ RoundsTo(s, k) # {}
  BY <1>1, <1>3 DEF RoundsTo
<1>5. RoundsTo(s, k) \in SUBSET (0 .. MaxTerm)
  BY <1>4 DEF Rounds
<1>6. \E x \in RoundsTo(s, k) : \A q \in RoundsTo(s, k) : q <= x
  BY <1>4, <1>5, BoundsPositive, LargestExists
<1> QED BY <1>4, <1>6 DEF Reached

(* Blocks that become final together, when a commit arrives for a later height,
   leave a node as if each had become final in its turn: the same blocks, round,
   proposer and signatures kept for the next block. *)
THEOREM FinalizesInTurn ==
  ASSUME NEW s \in NodeState, NEW k \in s.lastBlockIndex + 1 .. MaxHeight - 1
  PROVE  /\ CanFinalize(s, k + 1)
              <=> CanFinalize(s, k) /\ CanFinalize(FinalizeUpTo(s, k), k + 1)
         /\ FinalizeUpTo(s, k + 1) = FinalizeUpTo(FinalizeUpTo(s, k), k + 1)
<1> DEFINE first == s.lastBlockIndex + 1
           u == FinalizeUpTo(s, k)
           r == FinalizeUpTo(s, k + 1)
           t == FinalizeUpTo(u, k + 1)
           round == s.logs[k].termId
<1>1. /\ s.lastBlockIndex \in LOG_START .. MaxHeight
      /\ s.logs \in [Heights -> Entry(AnyHash)]
      /\ s.blocks \in [Heights -> [hash : AnyHash, parent : AnyHash]]
      /\ IsRecord(s)
  BY NodeFields DEF NodeState
<1>2. /\ k \in Nat /\ first \in Nat /\ first <= k /\ k + 1 <= MaxHeight /\ s.lastBlockIndex = first - 1
      /\ first - 1 \in Nat
      /\ (first .. k + 1) \subseteq Heights /\ (first .. k) \subseteq Heights
      /\ k \in Heights /\ k + 1 \in Heights /\ first - 1 \in Heights
  BY <1>1, BoundsPositive DEF Heights, LOG_START
<1>3. Decided(u, s, k) /\ Decided(r, s, k + 1)
  BY <1>1, FinalizeUpToDecides
<1>4. IsRecord(u)
  BY <1>3 DEF Decided
<1>5. Decided(t, u, k + 1)
  <2> HIDE DEF u
  <2> QED BY <1>4, FinalizeUpToDecides
<1> HIDE DEF u, r, t, first
<1>6. /\ u.lastBlockIndex = k /\ u.nextHeight = k + 1 /\ u.termId = round
      /\ u.blocks = StoredTo(s, k) /\ u.logs = LogsTo(s, k) /\ u.precommits = NoPrecommits
  BY <1>3 DEF Decided
<1>7. \A h \in Heights : /\ h \notin first .. k => u.logs[h] = s.logs[h] /\ u.blocks[h] = s.blocks[h]
                         /\ h \in first .. k =>
                              /\ u.blocks[h] = [hash |-> s.logs[h].hash, parent |-> s.logs[h].parent]
                              /\ u.logs[h] = [s.logs[h] EXCEPT !.hash = NoHash, !.parent = NoHash]
  BY <1>6 DEF StoredTo, LogsTo, first
<1>8. u.logs[k + 1] = s.logs[k + 1] /\ u.blocks[k].hash = s.logs[k].hash
  <2>1. k + 1 \notin first .. k /\ k \in first .. k
    BY <1>2
  <2>2. u.logs[k + 1] = s.logs[k + 1]
    BY <1>2, <1>7, <2>1
  <2>3. u.blocks[k] = [hash |-> s.logs[k].hash, parent |-> s.logs[k].parent]
    BY <1>2, <1>7, <2>1
  <2> QED BY <2>2, <2>3
(* The proposer queue. *)
<1>9. CaughtUp(u, Reached(u, k + 1)) = CaughtUp(s, Reached(s, k + 1))
  <2>1. /\ RoundsTo(s, k) \in SUBSET Rounds /\ Reached(s, k) \in RoundsTo(s, k)
        /\ \A q \in RoundsTo(s, k) : q <= Reached(s, k)
    <3>1. k \in s.lastBlockIndex + 1 .. MaxHeight
      BY <1>1, BoundsPositive DEF LOG_START
    <3> QED BY <3>1, ReachedType
  <2>2. round \in Rounds
    BY <1>1, <1>2 DEF Entry
  <2>3. RoundsTo(u, k + 1) = {round}
    <3>1. (u.lastBlockIndex + 1 .. k + 1) \ {k + 1} = {}
      BY <1>2, <1>6
    <3> QED BY <1>6, <3>1 DEF RoundsTo
  <2>4. Reached(u, k + 1) = round
    BY <2>3 DEF Reached
  <2>5. RoundsTo(s, k + 1) = RoundsTo(s, k) \cup {round}
    <3>1. (first .. k + 1) \ {k + 1} = ((first .. k) \ {k}) \cup {k}
      BY <1>2
    <3> QED BY <3>1 DEF RoundsTo, first
  <2> DEFINE m == IF Reached(s, k) <= round THEN round ELSE Reached(s, k)
  <2>6. /\ RoundsTo(s, k + 1) \in SUBSET Int /\ m \in RoundsTo(s, k + 1)
        /\ \A q \in RoundsTo(s, k + 1) : q <= m
    BY <2>1, <2>2, <2>5, BoundsPositive DEF Rounds
  <2>7. Reached(s, k + 1) = m
    <3> HIDE DEF m
    <3> QED BY <2>6, LargestIs DEF Reached
  <2>8. Reached(s, k) \in Rounds /\ m \in Rounds
    BY <2>1, <2>2
  <2>9. /\ u.proposerIndex = CaughtUp(s, Reached(s, k)).index
        /\ u.proposerQueue = CaughtUp(s, Reached(s, k)).queue
        /\ u.proposerQueueTermId = CaughtUp(s, Reached(s, k)).termId
    BY <1>3 DEF Decided
  <2> HIDE DEF round
  <2> QED BY <2>2, <2>4, <2>7, <2>8, <2>9, CaughtUpTwice
(* The block store, the log and the signatures. *)
<1>10. StoredTo(u, k + 1) = StoredTo(s, k + 1)
  <2>1. ASSUME NEW h \in Heights
        PROVE  StoredTo(u, k + 1)[h] = StoredTo(s, k + 1)[h]
    <3>1. CASE h = k + 1
      BY <1>2, <1>6, <1>8, <3>1 DEF StoredTo, first
    <3>2. CASE h \in first .. k
      <4>1. h \notin k + 1 .. k + 1 /\ h \in first .. k + 1
        BY <1>2, <3>2
      <4> QED BY <1>6, <1>7, <3>2, <4>1 DEF StoredTo, first
    <3>3. CASE h # k + 1 /\ h \notin first .. k
      <4>1. h \notin k + 1 .. k + 1 /\ h \notin first .. k + 1
        BY <1>2, <3>3
      <4> QED BY <1>6, <1>7, <3>3, <4>1 DEF StoredTo, first
    <3> QED BY <3>1, <3>2, <3>3
  <2> QED BY <2>1 DEF StoredTo
<1>11. LogsTo(u, k + 1) = LogsTo(s, k + 1)
  <2>1. ASSUME NEW h \in Heights
        PROVE  LogsTo(u, k + 1)[h] = LogsTo(s, k + 1)[h]
    <3>1. CASE h = k + 1
      <4>1. h \in k + 1 .. k + 1 /\ h \in first .. k + 1 /\ u.logs[h] = s.logs[h]
        BY <1>2, <1>8, <3>1
      <4> QED BY <1>6, <4>1 DEF LogsTo, first
    <3>2. CASE h \in first .. k
      <4>1. h \notin k + 1 .. k + 1 /\ h \in first .. k + 1
        BY <1>2, <3>2
      <4> QED BY <1>6, <1>7, <3>2, <4>1 DEF LogsTo, first
    <3>3. CASE h # k + 1 /\ h \notin first .. k
      <4>1. h \notin k + 1 .. k + 1 /\ h \notin first .. k + 1
        BY <1>2, <3>3
      <4> QED BY <1>6, <1>7, <3>3, <4>1 DEF LogsTo, first
    <3> QED BY <3>1, <3>2, <3>3
  <2> QED BY <2>1 DEF LogsTo
<1>12. SigsTo(u, k + 1) = NoPrecommits /\ SigsTo(s, k + 1) = NoPrecommits
  <2>1. SigsTo(u, k + 1) = NoPrecommits
    BY <1>6 DEF SigsTo
  <2>2. Cardinality(first .. k + 1) = (k + 1) - first + 1
    BY <1>2, FS_Interval
  <2>3. Cardinality(first .. k + 1) # 1
    BY <1>2, <2>2
  <2> QED BY <2>1, <2>3 DEF SigsTo, first
<1>13. t = r
  BY <1>3, <1>5, <1>8, <1>9, <1>10, <1>11, <1>12, SameRecord DEF Decided
(* The conditions. *)
<1>14. CanFinalize(s, k + 1) <=> CanFinalize(s, k) /\ CanFinalize(u, k + 1)
  <2> DEFINE P(x, i, low) == /\ x.logs[i].index = i /\ x.logs[i].hash # NoHash
                             /\ x.logs[i].parent = IF i = low THEN x.blocks[low - 1].hash
                                                              ELSE x.logs[i - 1].hash
  <2>1. CanFinalize(s, k + 1) <=> s.nextHeight = first /\ \A i \in first .. k + 1 : P(s, i, first)
    BY DEF CanFinalize, first
  <2>2. CanFinalize(s, k) <=> s.nextHeight = first /\ \A i \in first .. k : P(s, i, first)
    BY DEF CanFinalize, first
  <2>3. CanFinalize(u, k + 1) <=> P(u, k + 1, k + 1)
    <3>1. u.lastBlockIndex + 1 = k + 1 /\ u.nextHeight = k + 1
      BY <1>6
    <3>2. CanFinalize(u, k + 1) <=> \A i \in k + 1 .. k + 1 : P(u, i, k + 1)
      BY <3>1 DEF CanFinalize
    <3>3. \A i : i \in k + 1 .. k + 1 <=> i = k + 1
      BY <1>2
    <3> HIDE DEF P
    <3> QED BY <3>2, <3>3
  <2>4. P(u, k + 1, k + 1) <=> P(s, k + 1, first)
    <3>1. k + 1 # first /\ (k + 1) - 1 = k
      BY <1>2
    <3> QED BY <1>8, <3>1
  <2>5. \A i : i \in first .. k + 1 <=> i \in first .. k \/ i = k + 1
    BY <1>2
  <2> HIDE DEF P
  <2> QED BY <2>1, <2>2, <2>3, <2>4, <2>5
<1> QED BY <1>13, <1>14 DEF u, r, t


LEMMA FinalizeThroughHandles ==
  ASSUME NEW s, NEW M, Good(s, M), NEW last \in Heights,
         s.lastBlockIndex + 1 .. last \subseteq Certified(M \cup s.out)
  PROVE  /\ Handles(s, FinalizeThrough(s, last), M) /\ FinalizeThrough(s, last).out = s.out
         /\ KeepsBlock(s, FinalizeThrough(s, last))
<1> DEFINE heights == {k \in s.lastBlockIndex + 1 .. last : CanFinalize(s, k)}
           k == CHOOSE x \in heights : \A y \in heights : y <= x
<1>1. s \in NodeState /\ s.lastBlockIndex \in LOG_START .. MaxHeight
  BY DEF Good, NodeState
<1>2. CASE heights = {}
  BY <1>2, SameHandles DEF FinalizeThrough, KeepsBlock
<1>3. CASE heights # {} /\ PrecommitVoters(s, Unaddressed) # {}
  <2>1. Handles(s, Revert(s), M) /\ Revert(s).out = s.out
    BY <1>1, RevertQuiet, QuietHandles DEF Quiet
  <2>2. KeepsBlock(s, Revert(s))
    BY <1>1 DEF Revert, NodeState, KeepsBlock
  <2> QED BY <1>3, <2>1, <2>2 DEF FinalizeThrough
<1>4. CASE heights # {} /\ ~(PrecommitVoters(s, Unaddressed) # {})
  <2>1. k \in heights
    <3>1. heights \in SUBSET (0 .. MaxHeight + 1)
      BY <1>1, BoundsPositive DEF Heights, LOG_START
    <3> HIDE DEF heights
    <3>2. \E x \in heights : \A y \in heights : y <= x
      <4>1. MaxHeight + 1 \in Nat
        BY BoundsPositive
      <4> QED BY <1>4, <3>1, <4>1, LargestExists
    <3> QED BY <3>2
  <2>2. FinalizeThrough(s, last) = FinalizeUpTo(s, k)
    BY <1>4 DEF FinalizeThrough
  <2> HIDE DEF k
  <2>3. CanFinalize(s, k) /\ k \in s.lastBlockIndex + 1 .. last
    BY <2>1
  <2>4. k \in Heights /\ k \in s.lastBlockIndex + 1 .. k
    BY <1>1, <2>3, BoundsPositive DEF Heights, LOG_START
  <2>5. s.logs[k].index = k
    BY <2>3, <2>4 DEF CanFinalize
  <2>6. s.logs[k].index \in 0 .. MaxHeight
    BY <1>1, <2>4 DEF NodeState, Entry
  <2>7. k \in s.lastBlockIndex + 1 .. MaxHeight
    BY <1>1, <2>3, <2>5, <2>6, BoundsPositive DEF LOG_START
  <2>8. s.lastBlockIndex + 1 .. k \subseteq Certified(M \cup s.out)
    <3>1. s.lastBlockIndex + 1 .. k \subseteq s.lastBlockIndex + 1 .. last
      BY <1>1, <2>3 DEF LOG_START, Heights
    <3> QED BY <3>1
  <2> QED BY <2>2, <2>3, <2>7, <2>8, FinalizeUpToHandles
<1> QED BY <1>2, <1>3, <1>4

LEMMA SetNextHash ==
  ASSUME NEW s \in NodeState, NEW hash \in AnyHash
  PROVE  [s EXCEPT !.nextHash = hash] \in NodeState /\ Quiet(s, [s EXCEPT !.nextHash = hash])
  BY DEF NodeState, Quiet

LEMMA StoreTrustedQuiet ==
  ASSUME NEW s \in NodeState, NEW e \in Entry(AnyHash)
  PROVE  StoreTrusted(s, e) \in NodeState /\ Quiet(s, StoreTrusted(s, e))
<1>1. /\ [s EXCEPT !.lastLogIndex = e.index] \in NodeState
      /\ Quiet(s, [s EXCEPT !.lastLogIndex = e.index])
  BY DEF NodeState, Entry, Quiet
<1> QED BY <1>1, SetLogEntryQuiet, QuietTrans DEF StoreTrusted

LEMMA CommitType ==
  ASSUME NEW m \in Message, m.type = "commit"
  PROVE  /\ m.index \in 0 .. MaxHeight /\ m.hash \in Hash
         /\ m.entry \in Entry(AnyHash) /\ m.entry.hash \in Hash
  BY DEF Message, Entry, AnyHash

LEMMA ReceiveCommitHandles ==
  ASSUME NEW s, NEW M, Good(s, M), NEW m \in M, m.type = "commit"
  PROVE  Handles(s, ReceiveCommit(s, m), M) /\ KeepsBlock(s, ReceiveCommit(s, m))
<1>1. s \in NodeState /\ s.lastBlockIndex \in LOG_START .. MaxHeight /\ m \in Message
  BY DEF Good, NodeState
<1>2. CASE s.lastBlockIndex >= m.index
  BY <1>2, SameHandles DEF ReceiveCommit, KeepsBlock
<1>3. CASE ~(s.lastBlockIndex >= m.index)
  <2>1. m.index \in Heights
    BY <1>1, <1>3, CommitType, BoundsPositive DEF Heights, LOG_START
  <2>2. s.lastBlockIndex + 1 .. m.index \subseteq Certified(M \cup s.out)
    <3>1. LOG_START + 1 .. m.index \subseteq Certified(M \cup s.out)
      BY DEF Good, MessagesIn
    <3>2. s.lastBlockIndex + 1 .. m.index \subseteq LOG_START + 1 .. m.index
      BY <1>1, <2>1 DEF LOG_START, Heights
    <3> QED BY <3>1, <3>2
  <2>3. ASSUME NEW t \in NodeState, Quiet(s, t), KeepsBlock(s, t)
        PROVE  /\ Handles(s, FinalizeThrough(t, m.index), M)
               /\ KeepsBlock(s, FinalizeThrough(t, m.index))
    <3>1. Good(t, M) /\ t.out = s.out /\ t.lastBlockIndex = s.lastBlockIndex /\ SameLedger(s, t)
      BY <2>3, QuietHandles DEF Handles, Quiet, SameLedger
    <3>2. /\ Handles(t, FinalizeThrough(t, m.index), M)
          /\ KeepsBlock(t, FinalizeThrough(t, m.index))
      BY <2>1, <2>2, <3>1, FinalizeThroughHandles
    <3> QED BY <2>3, <3>1, <3>2, HandlesThen, KeepsTrans
  <2>4. m.entry \in Entry(AnyHash) /\ m.entry.hash \in AnyHash
    BY <1>1, CommitType DEF AnyHash
  <2>5. CASE m.entry.index # s.nextHeight
    <3> DEFINE t == StoreTrusted(s, m.entry)
    <3>1. t \in NodeState /\ Quiet(s, t)
      BY <1>1, <2>4, StoreTrustedQuiet
    <3>2. KeepsBlock(s, t)
      BY <1>1 DEF StoreTrusted, SetLogEntry, NodeState, KeepsBlock
    <3>3. ReceiveCommit(s, m) = FinalizeThrough(t, m.index)
      BY <1>3, <2>5 DEF ReceiveCommit
    <3> HIDE DEF t
    <3> QED BY <2>3, <3>1, <3>2, <3>3
  <2>6. CASE m.entry.index = s.nextHeight /\ ~VerifyBlockProposal(s, m.entry)
    <3>1. Handles(s, Revert(s), M)
      BY <1>1, RevertQuiet, QuietHandles
    <3>2. KeepsBlock(s, Revert(s))
      BY <1>1 DEF Revert, NodeState, KeepsBlock
    <3> QED BY <1>3, <2>6, <3>1, <3>2 DEF ReceiveCommit
  <2>7. CASE m.entry.index = s.nextHeight /\ VerifyBlockProposal(s, m.entry)
    <3> DEFINE t == [StoreTrusted(s, m.entry) EXCEPT !.nextHash = m.entry.hash]
    <3>1. t \in NodeState /\ Quiet(s, t)
      BY <1>1, <2>4, StoreTrustedQuiet, SetNextHash, QuietTrans
    <3>2. KeepsBlock(s, t)
      BY <1>1, CommitType DEF StoreTrusted, SetLogEntry, NodeState, KeepsBlock
    <3>3. ReceiveCommit(s, m) = FinalizeThrough(t, m.index)
      BY <1>3, <2>7 DEF ReceiveCommit
    <3> HIDE DEF t
    <3> QED BY <2>3, <3>1, <3>2, <3>3
  <2> QED BY <2>5, <2>6, <2>7
<1> QED BY <1>2, <1>3

LEMMA CommitBlockHandles ==
  ASSUME NEW s, NEW M, Good(s, M), s.nextHeight \in Certified(M \cup s.out)
  PROVE  Handles(s, CommitBlock(s), M) /\ CommitBlock(s).out = s.out
<1>1. s.nextHeight \in Heights /\ s.nextHeight = s.lastBlockIndex + 1
  BY DEF Good, NodeState, ChainIn
<1>2. s.lastBlockIndex + 1 .. s.nextHeight \subseteq Certified(M \cup s.out)
  BY <1>1 DEF Heights, LOG_START
<1> QED BY <1>1, <1>2, FinalizeThroughHandles, SameHandles DEF CommitBlock

LEMMA SendCommitHandles ==
  ASSUME NEW s, NEW M, Good(s, M)
  PROVE  Handles(s, SendCommit(s), M) /\ SameLedger(s, SendCommit(s))
<1> DEFINE e == GetLogEntryAggregate(s, s.nextHeight - 1)
           m == [type |-> "commit", index |-> s.nextHeight - 1, hash |-> s.nextHash, entry |-> e]
           r == [Send(s, m) EXCEPT !.nextHash = NoHash]
<1>1. /\ s \in NodeState /\ s.lastBlockIndex \in LOG_START .. MaxHeight
      /\ s.nextHeight = s.lastBlockIndex + 1 /\ VotesIn(s, M \cup s.out)
      /\ ChainIn(s, M \cup s.out)
  BY DEF Good, NodeState, ChainIn
<1>2. s.nextHeight - 1 \in Heights /\ s.nextHeight - 1 \in 0 .. MaxHeight
  BY <1>1, BoundsPositive DEF Heights, LOG_START
<1>3. CASE s.nextHash = NoHash \/ e.hash = NoHash
  BY <1>3, SameHandles DEF SendCommit, SameLedger
<1>4. CASE ~(s.nextHash = NoHash \/ e.hash = NoHash)
  <2>1. m \in Message
    <3>1. e \in Entry(AnyHash)
      BY <1>1, <1>2, EntryAt
    <3>2. e \in Entry(Hash)
      <4> HIDE DEF e
      <4> QED BY <1>4, <3>1 DEF Entry, AnyHash
    <3>3. s.nextHash \in Hash
      BY <1>1, <1>4, NextHash
    <3> HIDE DEF e
    <3> QED BY <1>2, <3>2, <3>3 DEF Message
  <2>2. m.type = "commit" /\ m.index = s.nextHeight - 1
    OBVIOUS
  <2>3. SendCommit(s) = r
    BY <1>4 DEF SendCommit
  <2> HIDE DEF m
  <2>4. r \in NodeState
    BY <1>1, <2>1 DEF Send, NodeState, AnyHash
  <2>5. /\ r.out = s.out \cup {m} /\ SameButVotes(s, r)
        /\ r.prevotes = s.prevotes /\ r.precommits = s.precommits
    BY <1>1 DEF Send, NodeState, SameButVotes
  <2> HIDE DEF r
  <2>6. VotesIn(r, M \cup r.out)
    <3>1. M \cup s.out \subseteq M \cup r.out
      BY <2>5
    <3>2. VotesIn(s, M \cup r.out)
      BY <1>1, <3>1, NodeMonotone
    <3> QED BY <2>5, <3>2 DEF VotesIn, SameButVotes
  <2>7. LOG_START + 1 .. m.index \subseteq Certified(M \cup s.out)
    <3>1. ASSUME NEW h \in LOG_START + 1 .. s.lastBlockIndex
          PROVE  h \in Certified(M \cup s.out)
      <4>1. h \in Heights
        BY <1>1, BoundsPositive DEF Heights, LOG_START
      <4> QED BY <1>1, <4>1 DEF ChainIn
    <3>2. m.index = s.lastBlockIndex
      BY <1>1, <2>2
    <3> QED BY <3>1, <3>2
  <2>8. Handles(s, r, M)
    BY <2>1, <2>2, <2>4, <2>5, <2>6, <2>7, BroadcastHandles
  <2>9. SameLedger(s, r)
    BY <2>5 DEF SameButVotes, SameLedger
  <2> QED BY <2>3, <2>8, <2>9
<1> QED BY <1>3, <1>4

------------------------------------------------------------------------------
(* Proposing *)

LEMMA ReuseProposalQuiet ==
  ASSUME NEW s \in NodeState, NEW n \in Nodes, s.lastBlockIndex < s.lastLogIndex
  PROVE  ReuseProposal(s, n) \in NodeState /\ Quiet(s, ReuseProposal(s, n))
<1> DEFINE h == s.lastLogIndex
           kept == IF s.logs[h].index = 0 THEN s.logs
                   ELSE [s.logs EXCEPT ![h] = [@ EXCEPT !.termId = s.termId, !.leaderId = n]]
           forgotten == [v \in Nodes |-> [termId |-> 0, hash |->
                            IF s.precommits[v].hash = Unaddressed THEN Unaddressed ELSE NoHash]]
           cleared == IF h = s.nextHeight /\ s.precommits # NoPrecommits
                      THEN forgotten ELSE s.precommits
           hash == GetLogEntryAggregate(s, h).hash
<1>1. h \in Heights
  BY BoundsPositive DEF NodeState, Heights, LOG_START
<1>2. kept \in [Heights -> Entry(AnyHash)]
  <2>1. s.logs \in [Heights -> Entry(AnyHash)] /\ s.termId \in Rounds
    BY DEF NodeState
  <2>2. [s.logs[h] EXCEPT !.termId = s.termId, !.leaderId = n] \in Entry(AnyHash)
    BY <1>1, <2>1 DEF Entry
  <2>3. kept = IF s.logs[h].index = 0 THEN s.logs
               ELSE [s.logs EXCEPT ![h] = [s.logs[h] EXCEPT !.termId = s.termId, !.leaderId = n]]
    OBVIOUS
  <2> HIDE DEF h, kept
  <2> QED BY <1>1, <2>1, <2>2, <2>3
<1>3. forgotten \in Slots
  BY BoundsPositive DEF Slots, AnyHash, Rounds
<1>4. \A v \in Nodes : forgotten[v].hash \in {NoHash, Unaddressed}
  OBVIOUS
<1>5. hash \in AnyHash
  <2>1. GetLogEntryAggregate(s, h) \in Entry(AnyHash)
    BY <1>1, EntryAt
  <2> QED BY <2>1 DEF Entry
<1>6. cleared \in Slots
  <2> HIDE DEF forgotten
  <2> QED BY <1>3 DEF NodeState
<1>7. ReuseProposal(s, n) =
        [s EXCEPT !.logs = kept, !.precommits = cleared, !.nextHash = hash]
  BY DEF ReuseProposal
<1> HIDE DEF kept, forgotten, hash
<1>8. ReuseProposal(s, n) \in NodeState
  <2> HIDE DEF cleared
  <2> QED BY <1>2, <1>5, <1>6, <1>7 DEF NodeState
<1>9. Quiet(s, ReuseProposal(s, n))
  BY <1>4, <1>7 DEF NodeState, Quiet
<1> QED BY <1>8, <1>9

LEMMA ProposeBlockQuiet ==
  ASSUME NEW s \in NodeState, NEW n \in Nodes, NEW b \in Hash, s.lastBlockIndex < MaxHeight
  PROVE  ProposeBlock(s, n, b) \in NodeState /\ Quiet(s, ProposeBlock(s, n, b))
<1>1. Quiet(s, s)
  BY DEF Quiet
<1>2. CASE s.validValue > 0
  BY <1>1, <1>2 DEF ProposeBlock
<1>3. CASE ~(s.validValue > 0) /\ s.lastBlockIndex < s.lastLogIndex
  BY <1>3, ReuseProposalQuiet DEF ProposeBlock
<1>4. CASE /\ ~(s.validValue > 0) /\ ~(s.lastBlockIndex < s.lastLogIndex)
           /\ s.lastSigs = NoPrecommits /\ s.lastLogIndex > LOG_START
  <2>1. s.lastLogIndex \in Heights
    BY <1>4, BoundsPositive DEF NodeState, Heights, LOG_START
  <2>2. GetLogEntryAggregate(s, s.lastLogIndex).hash \in AnyHash
    BY <2>1, EntryAt DEF Entry
  <2>3. ProposeBlock(s, n, b) = SkipProposal(s)
    BY <1>4 DEF ProposeBlock
  <2> QED BY <2>2, <2>3, SetNextHash DEF SkipProposal
<1>5. CASE /\ ~(s.validValue > 0) /\ ~(s.lastBlockIndex < s.lastLogIndex)
           /\ ~(s.lastSigs = NoPrecommits /\ s.lastLogIndex > LOG_START)
  <2> DEFINE e == [index |-> s.lastLogIndex + 1, termId |-> s.termId, leaderId |-> n,
                   hash |-> b, parent |-> s.blocks[s.lastBlockIndex].hash]
             t == [s EXCEPT !.lastLogIndex = e.index]
  <2>1. s.lastBlockIndex \in Heights /\ s.lastLogIndex + 1 \in 0 .. MaxHeight
    BY <1>5, BoundsPositive DEF NodeState, Heights, LOG_START
  <2>2. e \in Entry(AnyHash)
    BY <2>1 DEF NodeState, Entry, AnyHash
  <2>3. ProposeBlock(s, n, b) = [SetLogEntry(t, e) EXCEPT !.nextHash = b]
    BY <1>5 DEF ProposeBlock, BuildProposal
  <2>4. t \in NodeState /\ Quiet(s, t)
    BY <2>1 DEF NodeState, Quiet
  <2> HIDE DEF e, t
  <2>5. SetLogEntry(t, e) \in NodeState /\ Quiet(s, SetLogEntry(t, e))
    BY <2>2, <2>4, SetLogEntryQuiet, QuietTrans
  <2>6. b \in AnyHash
    BY DEF AnyHash
  <2> QED BY <2>3, <2>5, <2>6, SetNextHash, QuietTrans
<1> QED BY <1>2, <1>3, <1>4, <1>5

LEMMA SendBlockProposalHandles ==
  ASSUME NEW s, NEW M, Good(s, M), NEW n \in Nodes
  PROVE  Handles(s, SendBlockProposal(s, n), M) /\ SameLedger(s, SendBlockProposal(s, n))
<1> DEFINE e == GetLogEntryAggregate(s, s.nextHeight)
           m == [type |-> "proposal", from |-> n, termId |-> s.termId,
                 proposerIndex |-> s.proposerIndex, proposerQueue |-> s.proposerQueue,
                 entry |-> e]
           r == Send(s, m)
<1>1. s \in NodeState /\ s.nextHeight \in Heights /\ VotesIn(s, M \cup s.out)
  BY DEF Good, NodeState
<1>2. CASE e.hash = NoHash
  BY <1>2, SameHandles DEF SendBlockProposal, SameLedger
<1>3. CASE e.hash # NoHash
  <2>1. m \in Message
    <3>1. e \in Entry(AnyHash)
      BY <1>1, EntryAt
    <3> HIDE DEF e
    <3>2. e \in Entry(Hash)
      BY <1>3, <3>1 DEF Entry, AnyHash
    <3> QED BY <1>1, <3>2 DEF Message, NodeState
  <2>2. m.type = "proposal"
    OBVIOUS
  <2>3. SendBlockProposal(s, n) = r
    BY <1>3 DEF SendBlockProposal
  <2> HIDE DEF m
  <2>4. r \in NodeState
    BY <1>1, <2>1 DEF Send, NodeState
  <2>5. /\ r.out = s.out \cup {m} /\ SameButVotes(s, r)
        /\ r.prevotes = s.prevotes /\ r.precommits = s.precommits
    BY <1>1 DEF Send, NodeState, SameButVotes
  <2> HIDE DEF r
  <2>6. VotesIn(r, M \cup r.out)
    <3>1. M \cup s.out \subseteq M \cup r.out
      BY <2>5
    <3>2. VotesIn(s, M \cup r.out)
      BY <1>1, <3>1, NodeMonotone
    <3> QED BY <2>5, <3>2 DEF VotesIn, SameButVotes
  <2>7. Handles(s, r, M)
    BY <2>1, <2>2, <2>4, <2>5, <2>6, BroadcastHandles
  <2>8. SameLedger(s, r)
    BY <2>5 DEF SameButVotes, SameLedger
  <2> QED BY <2>3, <2>7, <2>8
<1> QED BY <1>2, <1>3

------------------------------------------------------------------------------
(* The states of the machine *)

LEMMA ThenSame ==
  ASSUME NEW s, NEW t, NEW r, NEW M, Handles(s, t, M), Handles(t, r, M), SameLedger(t, r)
  PROVE  Handles(s, r, M)
  BY DEF Handles, SameLedger, GrowsLedger

LEMMA QuietSame ==
  ASSUME NEW s, NEW r, Quiet(s, r)
  PROVE  SameLedger(s, r) /\ s.out \subseteq r.out
  BY DEF Quiet, SameLedger

LEMMA QuietThen ==
  ASSUME NEW s, NEW M, Good(s, M), NEW t \in NodeState, Quiet(s, t)
  PROVE  Good(t, M) /\ SameLedger(s, t) /\ s.out \subseteq t.out
  BY QuietHandles, QuietSame DEF Handles

LEMMA SetFsm ==
  ASSUME NEW s \in NodeState, NEW state \in {"active", "prevote", "precommit", "commit"}
  PROVE  [s EXCEPT !.fsm = state] \in NodeState /\ Quiet(s, [s EXCEPT !.fsm = state])
  BY DEF NodeState, Quiet

LEMMA CommitAndSendHandles ==
  ASSUME NEW s, NEW M, Good(s, M), s.nextHeight \in Certified(M \cup s.out)
  PROVE  Handles(s, CommitAndSend(s), M)
<1> DEFINE c == CommitBlock(s)
           d == SendCommit(c)
           r == [ResetLocks(d) EXCEPT !.fsm = "commit", !.nextHash = NoHash]
<1>1. Handles(s, c, M)
  BY CommitBlockHandles
<1>2. Handles(c, d, M) /\ SameLedger(c, d)
  <2> HIDE DEF c
  <2> QED BY <1>1, SendCommitHandles DEF Handles
<1>3. CASE ~c.ok
  BY <1>1, <1>3 DEF CommitAndSend
<1>4. CASE c.ok
  <2>1. CommitAndSend(s) = r
    BY <1>4 DEF CommitAndSend
  <2> HIDE DEF c, d
  <2>2. Good(d, M) /\ d \in NodeState
    BY <1>2 DEF Handles, Good
  <2>3. 0 \in Rounds
    BY BoundsPositive DEF Rounds
  <2>4. r \in NodeState
    BY <2>2, <2>3 DEF ResetLocks, NodeState, AnyHash
  <2>5. Quiet(d, r)
    BY <2>2 DEF ResetLocks, NodeState, Quiet
  <2>6. Handles(d, r, M) /\ SameLedger(d, r)
    BY <2>2, <2>4, <2>5, QuietHandles, QuietSame
  <2> QED BY <1>1, <1>2, <2>1, <2>6, ThenSame
<1> QED BY <1>3, <1>4

LEMMA EnterPrecommitHandles ==
  ASSUME NEW s, NEW M, Good(s, M)
  PROVE  Handles(s, EnterPrecommit(s), M)
<1>1. CASE IfPrecommitAcceptThreshold(s)
  BY <1>1, PrecommitQuorum, CommitAndSendHandles DEF EnterPrecommit
<1>2. CASE ~IfPrecommitAcceptThreshold(s)
  BY <1>2, SetFsm, QuietHandles DEF EnterPrecommit, Good
<1> QED BY <1>1, <1>2

LEMMA LockAndPrecommitHandles ==
  ASSUME NEW s, NEW M, Good(s, M), NEW n \in Nodes, IfPrevoteAcceptThreshold(s)
  PROVE  Handles(s, LockAndPrecommit(s, n), M) /\ SameLedger(s, LockAndPrecommit(s, n))
<1> DEFINE l == [s EXCEPT !.lockedValue = s.nextHeight, !.lockedRound = s.termId]
           p == SendPrecommit(l, n)
           r == [p EXCEPT !.validValue = s.nextHeight, !.validRound = s.termId]
           W == M \cup s.out
<1>1. /\ s \in NodeState /\ s.nextHeight \in Heights /\ s.termId \in Rounds
      /\ s.nextHash \in Hash /\ HasQuorum(W, "prevote", s.nextHeight, s.nextHash)
  BY PrevoteQuorum DEF Good, NodeState
<1>2. /\ l \in NodeState /\ l.out = s.out /\ l.nextHeight = s.nextHeight
      /\ l.nextHash = s.nextHash /\ l.termId = s.termId
      /\ l.lastBlockIndex = s.lastBlockIndex /\ l.blocks = s.blocks
      /\ l.lockedValue = s.nextHeight /\ l.validValue = s.validValue
      /\ l.prevotes = s.prevotes /\ l.precommits = s.precommits
  BY <1>1 DEF NodeState
<1> HIDE DEF l
<1>3. Good(l, M)
  <2>1. VotesIn(l, W)
    BY <1>2 DEF Good, VotesIn
  <2>2. LocksIn(l, W)
    BY <1>1, <1>2 DEF Good, LocksIn
  <2>3. ChainIn(l, W)
    BY <1>2 DEF Good, ChainIn
  <2> QED BY <1>2, <2>1, <2>2, <2>3 DEF Good
<1>4. Handles(l, p, M) /\ SameLedger(l, p)
  BY <1>1, <1>2, <1>3, SendPrecommitHandles
<1>5. p.nextHeight = s.nextHeight
  BY <1>2 DEF SendPrecommit, Precommit, AddToPrecommitArray, Send, NodeState
<1> HIDE DEF p
<1>6. p \in NodeState /\ Good(p, M) /\ s.out \subseteq p.out
  BY <1>2, <1>4 DEF Handles, Good
<1>7. /\ r \in NodeState /\ r.out = p.out /\ r.nextHeight = p.nextHeight
      /\ r.lastBlockIndex = p.lastBlockIndex /\ r.blocks = p.blocks
      /\ r.lockedValue = p.lockedValue /\ r.validValue = s.nextHeight
      /\ r.prevotes = p.prevotes /\ r.precommits = p.precommits
  BY <1>1, <1>6 DEF NodeState
<1>8. r = LockAndPrecommit(s, n)
  BY DEF LockAndPrecommit, p, l
<1> HIDE DEF r
<1>9. Good(r, M)
  <2> DEFINE V == M \cup p.out
  <2>1. VotesIn(r, V)
    BY <1>6, <1>7 DEF Good, VotesIn
  <2>2. LocksIn(r, V)
    <3>1. W \subseteq V
      BY <1>6
    <3>2. HasQuorum(V, "prevote", s.nextHeight, s.nextHash)
      <4> HIDE DEF V, W
      <4> QED BY <1>1, <3>1, HasQuorumMonotone
    <3> QED BY <1>1, <1>5, <1>6, <1>7, <3>2 DEF Good, LocksIn
  <2>3. ChainIn(r, V)
    BY <1>6, <1>7 DEF Good, ChainIn
  <2> QED BY <1>6, <1>7, <2>1, <2>2, <2>3 DEF Good
<1>10. SameLedger(s, r)
  BY <1>2, <1>4, <1>7 DEF SameLedger
<1> QED BY <1>6, <1>7, <1>8, <1>9, <1>10 DEF Handles

LEMMA EnterPrevoteHandles ==
  ASSUME NEW s, NEW M, Good(s, M), NEW n \in Nodes
  PROVE  Handles(s, EnterPrevote(s, n), M)
<1>1. CASE IfPrevoteAcceptThreshold(s)
  <2> DEFINE l == LockAndPrecommit(s, n)
  <2>1. Handles(s, l, M) /\ SameLedger(s, l)
    BY <1>1, LockAndPrecommitHandles
  <2>2. EnterPrevote(s, n) = EnterPrecommit(l)
    BY <1>1 DEF EnterPrevote
  <2> HIDE DEF l
  <2>3. Handles(l, EnterPrecommit(l), M)
    BY <2>1, EnterPrecommitHandles DEF Handles
  <2> QED BY <2>1, <2>2, <2>3, HandlesThen DEF Handles
<1>2. CASE ~IfPrevoteAcceptThreshold(s)
  BY <1>2, SetFsm, QuietHandles DEF EnterPrevote, Good
<1> QED BY <1>1, <1>2

(* Whatever leads up to it, a round goes on with a prevote. *)
LEMMA PrevoteThenEnter ==
  ASSUME NEW s, NEW M, Good(s, M), NEW n \in Nodes
  PROVE  Handles(s, EnterPrevote(SendPrevote(s, n), n), M)
<1> DEFINE t == SendPrevote(s, n)
<1>1. Handles(s, t, M) /\ SameLedger(s, t)
  BY SendPrevoteHandles
<1> HIDE DEF t
<1>2. Handles(t, EnterPrevote(t, n), M)
  BY <1>1, EnterPrevoteHandles DEF Handles
<1>3. Handles(s, EnterPrevote(t, n), M)
  BY <1>1, <1>2, HandlesThen DEF Handles
<1> QED BY <1>3 DEF t

LEMMA EnterProposerHandles ==
  ASSUME NEW s, NEW M, Good(s, M), NEW n \in Nodes, NEW b \in Hash, s.lastBlockIndex < MaxHeight
  PROVE  Handles(s, EnterProposer(s, n, b), M)
<1> DEFINE p == ProposeBlock(s, n, b)
           d == SendBlockProposal(p, n)
<1>1. Good(p, M) /\ SameLedger(s, p) /\ s.out \subseteq p.out
  BY ProposeBlockQuiet, QuietThen DEF Good
<1> HIDE DEF p
<1>2. Handles(p, d, M) /\ SameLedger(p, d)
  BY <1>1, SendBlockProposalHandles
<1> HIDE DEF d
<1>3. Handles(d, EnterPrevote(SendPrevote(d, n), n), M)
  BY <1>2, PrevoteThenEnter DEF Handles
<1>4. Handles(p, EnterPrevote(SendPrevote(d, n), n), M)
  BY <1>2, <1>3, HandlesThen DEF Handles
<1>5. Handles(s, EnterPrevote(SendPrevote(d, n), n), M)
  BY <1>1, <1>4, HandlesThen
<1> QED BY <1>5 DEF EnterProposer, p, d

LEMMA EnterActiveHandles ==
  ASSUME NEW s, NEW M, Good(s, M), NEW n \in Nodes, NEW b \in Hash,
         s.termId < MaxTerm, s.lastBlockIndex < MaxHeight
  PROVE  Handles(s, EnterActive(s, n, b), M)
<1> DEFINE r == ResetPrecommits(ResetPrevotes(SetRoundProposer(IncrementCurrentTerm(s))))
<1>1. r \in NodeState /\ Quiet(s, r)
  BY NewRoundQuiet DEF Good
<1>2. EnterActive(s, n, b) =
        IF r.proposerIndex = n THEN EnterProposer(r, n, b) ELSE [r EXCEPT !.fsm = "active"]
  BY DEF EnterActive
<1> HIDE DEF r
<1>3. Good(r, M) /\ SameLedger(s, r) /\ s.out \subseteq r.out /\ r.lastBlockIndex < MaxHeight
  BY <1>1, QuietThen DEF SameLedger
<1>4. Handles(r, EnterActive(s, n, b), M)
  <2>1. CASE r.proposerIndex = n
    BY <1>2, <1>3, <2>1, EnterProposerHandles
  <2>2. CASE r.proposerIndex # n
    <3>1. [r EXCEPT !.fsm = "active"] \in NodeState /\ Quiet(r, [r EXCEPT !.fsm = "active"])
      BY <1>1, SetFsm
    <3> QED BY <1>2, <1>3, <2>2, <3>1, QuietHandles
  <2> QED BY <2>1, <2>2
<1> QED BY <1>3, <1>4, HandlesThen

------------------------------------------------------------------------------
(* A node does not come to wait for precommits without a block to commit. *)

WaitsWithBlock(r) == r.ok /\ r.fsm = "precommit" => r.nextHash # NoHash

LEMMA KeepsWaiting ==
  ASSUME NEW s, NEW r, KeepsBlock(s, r), s.fsm = "precommit" => s.nextHash # NoHash
  PROVE  WaitsWithBlock(r)
  BY BoundsPositive DEF KeepsBlock, WaitsWithBlock, Hash, NoHash

LEMMA VoteKeeps ==
  ASSUME NEW s \in NodeState, NEW n \in Nodes
  PROVE  /\ KeepsBlock(s, SendPrevote(s, n)) /\ KeepsBlock(s, SendPrevoteNil(s, n))
         /\ KeepsBlock(s, SendPrecommitNil(s, n)) /\ KeepsBlock(s, SendPrecommit(s, n))
<1>1. ASSUME NEW hash
      PROVE  KeepsBlock(s, Prevote(s, n, hash)) /\ KeepsBlock(s, Precommit(s, n, hash))
  BY DEF Prevote, Precommit, AddToPrevoteArray, AddToPrecommitArray, Send, NodeState, KeepsBlock
<1>2. KeepsBlock(s, s)
  BY DEF KeepsBlock
<1> QED BY <1>1, <1>2 DEF SendPrevote, SendPrevoteNil, SendPrecommit, SendPrecommitNil

LEMMA ReceiveVoteKeeps ==
  ASSUME NEW s \in NodeState, NEW m
  PROVE  KeepsBlock(s, ReceivePrevote(s, m)) /\ KeepsBlock(s, ReceivePrecommit(s, m))
  BY DEF ReceivePrevote, ReceivePrecommit, AddToPrevoteArray, AddToPrecommitArray,
         NodeState, KeepsBlock

LEMMA SetRoundProposerKeeps ==
  ASSUME NEW s \in NodeState
  PROVE  KeepsBlock(s, SetRoundProposer(s)) /\ KeepsBlock(s, ResetPrevotes(s))
  BY DEF SetRoundProposer, AdvanceProposer, ResetPrevotes, NodeState, KeepsBlock

LEMMA ForceProposalResetKeeps ==
  ASSUME NEW s \in NodeState, NEW m
  PROVE  KeepsBlock(s, ForceProposalReset(s, m))
  BY DEF ForceProposalReset, RollbackTermIdWithStateChange, NodeState, KeepsBlock

LEMMA ReceiveBlockProposalKeeps ==
  ASSUME NEW s \in NodeState, NEW m \in Message, m.type = "proposal"
  PROVE  KeepsBlock(s, ReceiveBlockProposal(s, m))
<1> DEFINE e == m.entry
           p == ProcessAppendEntry(s, e)
<1>1. e \in Entry(AnyHash) /\ e.hash \in Hash
  BY ProposalType
<1>2. KeepsBlock(s, s)
  BY DEF KeepsBlock
<1>3. KeepsBlock(s, StoreNewBlockOutOfOrder(s, e))
  BY DEF StoreNewBlockOutOfOrder, SetLogEntry, NodeState, KeepsBlock
<1>4. KeepsBlock(s, p)
  <2>1. KeepsBlock(s, Revert(s))
    BY DEF Revert, NodeState, KeepsBlock
  <2>2. ASSUME NEW a \in NodeState, a.fsm = s.fsm
        PROVE  KeepsBlock(s, [a EXCEPT !.nextHash = e.hash])
    BY <1>1, <2>2 DEF NodeState, KeepsBlock
  <2>3. AppendLogEntry(s, e).fsm = s.fsm
    BY DEF AppendLogEntry, SetLogEntry, Revert, NodeState
  <2>4. AppendLogEntry(s, e) \in NodeState
    BY <1>1, AppendLogEntryQuiet
  <2> QED BY <2>1, <2>2, <2>3, <2>4 DEF ProcessAppendEntry
<1>5. p \in NodeState
  BY <1>1, ProcessAppendEntryQuiet
<1>6. ASSUME NEW termId
      PROVE  KeepsBlock(p, RollbackTermIdWithStateChange(p, termId, m))
  <2> HIDE DEF p
  <2> QED BY <1>5 DEF RollbackTermIdWithStateChange, NodeState, KeepsBlock
<1> HIDE DEF p
<1> QED BY <1>2, <1>3, <1>4, <1>6, KeepsTrans DEF ReceiveBlockProposal, p

LEMMA EnterPrecommitWaits ==
  ASSUME NEW s, NEW M, Good(s, M), s.nextHash # NoHash
  PROVE  WaitsWithBlock(EnterPrecommit(s))
<1>1. s \in NodeState
  BY DEF Good
<1>2. CASE ~IfPrecommitAcceptThreshold(s)
  BY <1>1, <1>2 DEF EnterPrecommit, NodeState, WaitsWithBlock
<1>3. CASE IfPrecommitAcceptThreshold(s)
  <2> DEFINE c == CommitBlock(s)
             d == SendCommit(c)
  <2>1. Handles(s, c, M)
    BY <1>3, PrecommitQuorum, CommitBlockHandles
  <2>2. d \in NodeState
    <3> HIDE DEF c
    <3> QED BY <2>1, SendCommitHandles DEF Handles, Good
  <2>3. CASE ~c.ok
    BY <1>3, <2>3 DEF EnterPrecommit, CommitAndSend, WaitsWithBlock
  <2>4. CASE c.ok
    <3>1. EnterPrecommit(s) = [ResetLocks(d) EXCEPT !.fsm = "commit", !.nextHash = NoHash]
      BY <1>3, <2>4 DEF EnterPrecommit, CommitAndSend
    <3> HIDE DEF d
    <3>2. EnterPrecommit(s).fsm = "commit"
      BY <2>2, <3>1 DEF ResetLocks, NodeState
    <3> QED BY <3>2 DEF WaitsWithBlock
  <2> QED BY <2>3, <2>4
<1> QED BY <1>2, <1>3

LEMMA EnterPrevoteWaits ==
  ASSUME NEW s, NEW M, Good(s, M), NEW n \in Nodes
  PROVE  WaitsWithBlock(EnterPrevote(s, n))
<1>1. s \in NodeState
  BY DEF Good
<1>2. CASE ~IfPrevoteAcceptThreshold(s)
  BY <1>1, <1>2 DEF EnterPrevote, NodeState, WaitsWithBlock
<1>3. CASE IfPrevoteAcceptThreshold(s)
  <2> DEFINE l == LockAndPrecommit(s, n)
  <2>1. Good(l, M)
    BY <1>3, LockAndPrecommitHandles DEF Handles
  <2>2. l.nextHash = s.nextHash
    BY <1>1 DEF LockAndPrecommit, SendPrecommit, Precommit, AddToPrecommitArray, Send, NodeState
  <2>3. EnterPrevote(s, n) = EnterPrecommit(l)
    BY <1>3 DEF EnterPrevote
  <2> HIDE DEF l
  <2>4. l.nextHash # NoHash
    BY <1>3, <2>2 DEF IfPrevoteAcceptThreshold
  <2> QED BY <2>1, <2>3, <2>4, EnterPrecommitWaits
<1> QED BY <1>2, <1>3

LEMMA PrevoteThenWaits ==
  ASSUME NEW s, NEW M, Good(s, M), NEW n \in Nodes
  PROVE  WaitsWithBlock(EnterPrevote(SendPrevote(s, n), n))
<1> DEFINE t == SendPrevote(s, n)
<1>1. Good(t, M)
  BY SendPrevoteHandles DEF Handles
<1> HIDE DEF t
<1>2. WaitsWithBlock(EnterPrevote(t, n))
  BY <1>1, EnterPrevoteWaits
<1> QED BY <1>2 DEF t

LEMMA EnterActiveWaits ==
  ASSUME NEW s, NEW M, Good(s, M), NEW n \in Nodes, NEW b \in Hash,
         s.termId < MaxTerm, s.lastBlockIndex < MaxHeight
  PROVE  WaitsWithBlock(EnterActive(s, n, b))
<1> DEFINE r == ResetPrecommits(ResetPrevotes(SetRoundProposer(IncrementCurrentTerm(s))))
           p == ProposeBlock(r, n, b)
           d == SendBlockProposal(p, n)
<1>1. r \in NodeState /\ Quiet(s, r)
  BY NewRoundQuiet DEF Good
<1>2. EnterActive(s, n, b) =
        IF r.proposerIndex = n THEN EnterPrevote(SendPrevote(d, n), n)
                               ELSE [r EXCEPT !.fsm = "active"]
  BY DEF EnterActive, EnterProposer
<1> HIDE DEF r
<1>3. Good(r, M) /\ r.lastBlockIndex < MaxHeight
  BY <1>1, QuietThen DEF SameLedger
<1>4. Good(p, M)
  BY <1>3, ProposeBlockQuiet, QuietThen DEF Good
<1> HIDE DEF p
<1>5. Good(d, M)
  BY <1>4, SendBlockProposalHandles DEF Handles
<1> HIDE DEF d
<1>6. WaitsWithBlock(EnterPrevote(SendPrevote(d, n), n))
  BY <1>5, PrevoteThenWaits
<1>7. WaitsWithBlock([r EXCEPT !.fsm = "active"])
  BY <1>1 DEF NodeState, WaitsWithBlock
<1> QED BY <1>2, <1>6, <1>7


------------------------------------------------------------------------------
(* The inductive invariant.  Beyond the properties of TendermintP2P it says
   that a node works on the height right after its last block, that no block
   is missing below that, and that a commit on the network speaks of a prefix of
   certified heights: without these a commit could make final a height nobody
   voted on. *)
IInv ==
    /\ TypeOK
    /\ \A n \in Nodes : Good(node[n], msgs)
    /\ MessagesIn(msgs)
    /\ PrecommitHasBlock

(* What a step of the network is. *)
Step(n, r) == Handles(node[n], r, msgs) /\ WaitsWithBlock(r) /\ Install(n, r)

LEMMA InitIInv == Init => IInv
<1> SUFFICES ASSUME Init PROVE IInv
  OBVIOUS
<1> DEFINE s == InitNode
<1>1. /\ 0 \in Rounds /\ 0 \in Nodes /\ LOG_START + 1 \in Heights
      /\ LOG_START \in 0 .. MaxHeight /\ LOG_START \in LOG_START .. MaxHeight
      /\ NoHash \in AnyHash
  BY BoundsPositive, NAssumption DEF Rounds, Nodes, Heights, LOG_START, AnyHash
<1>2. /\ [h \in Heights |-> NoEntry] \in [Heights -> Entry(AnyHash)]
      /\ [h \in Heights |-> NoBlock] \in [Heights -> [hash : AnyHash, parent : AnyHash]]
      /\ EmptyPrevotes \in [Nodes -> AnyHash \cup {Nil}]
      /\ NoPrecommits \in Slots
  BY <1>1, BoundsPositive DEF NoEntry, NoBlock, Entry, AnyHash, EmptyPrevotes, Slots
<1>3. s \in NodeState
  BY <1>1, <1>2 DEF InitNode, NodeState
<1>4. s.out = {} /\ s.ok /\ s.fsm = "unstarted"
  BY DEF InitNode
<1>5. VotesIn(s, {}) /\ LocksIn(s, {}) /\ MessagesIn({})
  BY DEF InitNode, VotesIn, LocksIn, MessagesIn, EmptyPrevotes
<1>6. ChainIn(s, {})
  BY DEF InitNode, ChainIn, LOG_START
<1> HIDE DEF s
<1>7. Good(s, {})
  BY <1>3, <1>4, <1>5, <1>6 DEF Good
<1>8. node = [n \in Nodes |-> s] /\ msgs = {} /\ built = 0
  BY DEF Init, s
<1>9. TypeOK /\ PrecommitHasBlock
  BY <1>3, <1>4, <1>8, BoundsPositive DEF TypeOK, PrecommitHasBlock
<1> QED BY <1>5, <1>7, <1>8, <1>9 DEF IInv

------------------------------------------------------------------------------
(* The actions *)

LEMMA ReceivedMessage ==
  ASSUME IInv, NEW n \in Nodes, NEW type, NEW m \in Received(n, type)
  PROVE  m \in msgs /\ m \in Message /\ m.type = type
  BY DEF IInv, TypeOK, Received

LEMMA EnterRoundStep ==
  ASSUME IInv, NEW n \in Nodes, EnterRound(n)
  PROVE  \E r : Step(n, r)
<1>1. PICK b \in FreshHash : Install(n, EnterActive(node[n], n, b))
  BY DEF EnterRound
<1>2. b \in Hash /\ Good(node[n], msgs)
  BY DEF FreshHash, IInv
<1>3. node[n].termId < MaxTerm /\ node[n].lastBlockIndex < MaxHeight
  BY DEF EnterRound, MayEnterRound
<1> QED BY <1>1, <1>2, <1>3, EnterActiveHandles, EnterActiveWaits DEF Step

LEMMA TimeoutProposeStep ==
  ASSUME IInv, NEW n \in Nodes, TimeoutPropose(n)
  PROVE  \E r : Step(n, r)
<1> DEFINE t == SendPrevoteNil(node[n], n)
<1>1. Good(node[n], msgs)
  BY DEF IInv
<1>2. Handles(node[n], t, msgs) /\ SameLedger(node[n], t)
  BY <1>1, SendPrevoteNilHandles
<1>3. Install(n, EnterPrevote(t, n))
  BY DEF TimeoutPropose
<1> HIDE DEF t
<1>4. Handles(t, EnterPrevote(t, n), msgs) /\ WaitsWithBlock(EnterPrevote(t, n))
  BY <1>2, EnterPrevoteHandles, EnterPrevoteWaits DEF Handles
<1>5. Handles(node[n], EnterPrevote(t, n), msgs)
  BY <1>2, <1>4, HandlesThen DEF Handles
<1> QED BY <1>3, <1>4, <1>5 DEF Step

LEMMA TimeoutPrevoteStep ==
  ASSUME IInv, NEW n \in Nodes, TimeoutPrevote(n)
  PROVE  \E r : Step(n, r)
<1> DEFINE t == SendPrecommitNil(node[n], n)
<1>1. Good(node[n], msgs) /\ node[n] \in NodeState
  BY DEF IInv, Good
<1>2. CASE IfPrevoteAnyThreshold(node[n]) /\ Install(n, EnterPrecommit(t))
  <2>1. Handles(node[n], t, msgs) /\ SameLedger(node[n], t)
    BY <1>1, SendPrecommitNilHandles
  <2>2. t.nextHash # NoHash
    <3>1. node[n].nextHash # NoHash /\ KeepsBlock(node[n], t)
      BY <1>1, <1>2, VoteKeeps DEF IfPrevoteAnyThreshold
    <3> HIDE DEF t
    <3> QED BY <3>1, BoundsPositive DEF KeepsBlock, Hash, NoHash
  <2> HIDE DEF t
  <2>3. Handles(t, EnterPrecommit(t), msgs) /\ WaitsWithBlock(EnterPrecommit(t))
    BY <2>1, <2>2, EnterPrecommitHandles, EnterPrecommitWaits DEF Handles
  <2>4. Handles(node[n], EnterPrecommit(t), msgs)
    BY <2>1, <2>3, HandlesThen DEF Handles
  <2> QED BY <1>2, <2>3, <2>4 DEF Step
<1>3. CASE EnterRound(n)
  BY <1>3, EnterRoundStep
<1> QED BY <1>2, <1>3 DEF TimeoutPrevote

LEMMA ReceiveProposalStep ==
  ASSUME IInv, NEW n \in Nodes, ReceiveProposal(n)
  PROVE  \E r : Step(n, r)
<1>1. PICK m \in Received(n, "proposal") :
        LET s == ReceiveBlockProposal(node[n], m)
        IN Install(n, IF s.ok /\ InState(n, {"active"})
                      THEN EnterPrevote(SendPrevote(s, n), n) ELSE s)
  BY DEF ReceiveProposal
<1> DEFINE s == ReceiveBlockProposal(node[n], m)
<1>2. /\ m \in Message /\ m.type = "proposal" /\ Good(node[n], msgs) /\ node[n] \in NodeState
      /\ node[n].fsm = "precommit" => node[n].nextHash # NoHash
  BY ReceivedMessage DEF IInv, Good, PrecommitHasBlock
<1>3. s \in NodeState /\ Quiet(node[n], s)
  BY <1>2, ReceiveBlockProposalQuiet
<1>4. WaitsWithBlock(s)
  BY <1>2, ReceiveBlockProposalKeeps, KeepsWaiting
<1>5. Install(n, IF s.ok /\ InState(n, {"active"})
                 THEN EnterPrevote(SendPrevote(s, n), n) ELSE s)
  BY <1>1
<1> HIDE DEF s
<1>6. Handles(node[n], s, msgs) /\ SameLedger(node[n], s)
  BY <1>2, <1>3, QuietHandles, QuietSame
<1>7. /\ Handles(s, EnterPrevote(SendPrevote(s, n), n), msgs)
      /\ WaitsWithBlock(EnterPrevote(SendPrevote(s, n), n))
  BY <1>6, PrevoteThenEnter, PrevoteThenWaits DEF Handles
<1>8. Handles(node[n], EnterPrevote(SendPrevote(s, n), n), msgs)
  BY <1>6, <1>7, HandlesThen DEF Handles
<1> QED BY <1>4, <1>5, <1>6, <1>7, <1>8 DEF Step

LEMMA ReceiveForcedProposalStep ==
  ASSUME IInv, NEW n \in Nodes, ReceiveForcedProposal(n)
  PROVE  \E r : Step(n, r)
<1>1. PICK m \in Received(n, "proposal") :
        LET s == ReceiveBlockProposal(ForceProposalReset(node[n], m), m)
            v == SendPrevote(SetRoundProposer(ResetPrevotes(s)), n)
        IN Install(n, IF ~s.ok THEN s
                      ELSE IF InState(n, {"precommit"}) THEN EnterPrecommit(v)
                      ELSE EnterPrevote(v, n))
  BY DEF ReceiveForcedProposal
<1> DEFINE f == ForceProposalReset(node[n], m)
           s == ReceiveBlockProposal(f, m)
           p == ResetPrevotes(s)
           q == SetRoundProposer(p)
           v == SendPrevote(q, n)
<1>2. /\ m \in Message /\ m.type = "proposal" /\ Good(node[n], msgs) /\ node[n] \in NodeState
      /\ node[n].fsm = "precommit" => node[n].nextHash # NoHash
  BY ReceivedMessage DEF IInv, Good, PrecommitHasBlock
<1>3. f \in NodeState /\ Quiet(node[n], f) /\ KeepsBlock(node[n], f)
  BY <1>2, ForceProposalResetQuiet, ForceProposalResetKeeps
<1>4. Install(n, IF ~s.ok THEN s
                 ELSE IF InState(n, {"precommit"}) THEN EnterPrecommit(v)
                 ELSE EnterPrevote(v, n))
  BY <1>1
<1> HIDE DEF f
<1>5. s \in NodeState /\ Quiet(node[n], s) /\ KeepsBlock(node[n], s)
  BY <1>2, <1>3, ReceiveBlockProposalQuiet, ReceiveBlockProposalKeeps, QuietTrans, KeepsTrans
<1> HIDE DEF s
<1>6. p \in NodeState /\ Quiet(node[n], p) /\ KeepsBlock(node[n], p)
  BY <1>5, ResetPrevotesQuiet, SetRoundProposerKeeps, QuietTrans, KeepsTrans
<1> HIDE DEF p
<1>7. q \in NodeState /\ Quiet(node[n], q) /\ KeepsBlock(node[n], q)
  BY <1>6, SetRoundProposerQuiet, SetRoundProposerKeeps, QuietTrans, KeepsTrans
<1> HIDE DEF q
<1>8. Handles(node[n], q, msgs) /\ SameLedger(node[n], q)
  BY <1>2, <1>7, QuietHandles, QuietSame
<1>9. Handles(q, v, msgs) /\ SameLedger(q, v) /\ KeepsBlock(node[n], v)
  BY <1>7, <1>8, SendPrevoteHandles, VoteKeeps, KeepsTrans DEF Handles
<1> HIDE DEF v
<1>10. Good(v, msgs) /\ SameLedger(node[n], v) /\ node[n].out \subseteq v.out
  BY <1>8, <1>9 DEF Handles, SameLedger
<1>11. CASE ~s.ok
  <2>1. Handles(node[n], s, msgs) /\ WaitsWithBlock(s)
    BY <1>2, <1>5, <1>11, QuietHandles DEF WaitsWithBlock
  <2> QED BY <1>4, <1>11, <2>1 DEF Step
<1>12. CASE s.ok /\ InState(n, {"precommit"})
  <2>1. v.nextHash # NoHash
    BY <1>2, <1>9, <1>12, BoundsPositive DEF InState, KeepsBlock, Hash, NoHash
  <2>2. Handles(v, EnterPrecommit(v), msgs) /\ WaitsWithBlock(EnterPrecommit(v))
    BY <1>10, <2>1, EnterPrecommitHandles, EnterPrecommitWaits
  <2>3. Handles(node[n], EnterPrecommit(v), msgs)
    BY <1>10, <2>2, HandlesThen
  <2> QED BY <1>4, <1>12, <2>2, <2>3 DEF Step
<1>13. CASE s.ok /\ ~InState(n, {"precommit"})
  <2>1. Handles(v, EnterPrevote(v, n), msgs) /\ WaitsWithBlock(EnterPrevote(v, n))
    BY <1>10, EnterPrevoteHandles, EnterPrevoteWaits
  <2>2. Handles(node[n], EnterPrevote(v, n), msgs)
    BY <1>10, <2>1, HandlesThen
  <2> QED BY <1>4, <1>13, <2>1, <2>2 DEF Step
<1> QED BY <1>11, <1>12, <1>13

LEMMA RejectForcedProposalStep ==
  ASSUME IInv, NEW n \in Nodes, RejectForcedProposal(n)
  PROVE  \E r : Step(n, r)
<1>1. PICK m \in Received(n, "proposal") : Install(n, ForceProposalReset(node[n], m))
  BY DEF RejectForcedProposal
<1> DEFINE f == ForceProposalReset(node[n], m)
<1>2. /\ m \in Message /\ m.type = "proposal" /\ Good(node[n], msgs) /\ node[n] \in NodeState
      /\ node[n].fsm = "precommit" => node[n].nextHash # NoHash
  BY ReceivedMessage DEF IInv, Good, PrecommitHasBlock
<1>3. f \in NodeState /\ Quiet(node[n], f) /\ KeepsBlock(node[n], f)
  BY <1>2, ForceProposalResetQuiet, ForceProposalResetKeeps
<1> HIDE DEF f
<1>4. Handles(node[n], f, msgs) /\ WaitsWithBlock(f)
  BY <1>2, <1>3, QuietHandles, KeepsWaiting
<1> QED BY <1>1, <1>4 DEF Step, f

LEMMA ReceiveNextProposalStep ==
  ASSUME IInv, NEW n \in Nodes, ReceiveNextProposal(n)
  PROVE  \E r : Step(n, r)
<1> DEFINE r == ResetPrecommits(ResetPrevotes(SetRoundProposer(IncrementCurrentTerm(node[n]))))
<1>1. PICK m \in Received(n, "proposal") :
        LET s == ReceiveBlockProposal(r, m)
        IN Install(n, IF s.ok THEN EnterPrevote(SendPrevote(s, n), n) ELSE s)
  BY DEF ReceiveNextProposal
<1> DEFINE s == ReceiveBlockProposal(r, m)
<1>2. /\ m \in Message /\ m.type = "proposal" /\ Good(node[n], msgs) /\ node[n] \in NodeState
      /\ node[n].termId < MaxTerm
  BY ReceivedMessage DEF IInv, Good, ReceiveNextProposal, MayEnterRound
<1>3. r \in NodeState /\ Quiet(node[n], r)
  BY <1>2, NewRoundQuiet
<1>4. Install(n, IF s.ok THEN EnterPrevote(SendPrevote(s, n), n) ELSE s)
  BY <1>1
<1> HIDE DEF r
<1>5. s \in NodeState /\ Quiet(node[n], s)
  BY <1>2, <1>3, ReceiveBlockProposalQuiet, QuietTrans
<1> HIDE DEF s
<1>6. Handles(node[n], s, msgs) /\ SameLedger(node[n], s)
  BY <1>2, <1>5, QuietHandles, QuietSame
<1>7. /\ Handles(s, EnterPrevote(SendPrevote(s, n), n), msgs)
      /\ WaitsWithBlock(EnterPrevote(SendPrevote(s, n), n))
  BY <1>6, PrevoteThenEnter, PrevoteThenWaits DEF Handles
<1>8. Handles(node[n], EnterPrevote(SendPrevote(s, n), n), msgs)
  BY <1>6, <1>7, HandlesThen DEF Handles
<1>9. CASE s.ok
  BY <1>4, <1>7, <1>8, <1>9 DEF Step
<1>10. CASE ~s.ok
  BY <1>4, <1>6, <1>10 DEF Step, WaitsWithBlock
<1> QED BY <1>9, <1>10

LEMMA ReceivePrevoteStep ==
  ASSUME IInv, NEW n \in Nodes, ReceivePrevoteMsg(n)
  PROVE  \E r : Step(n, r)
<1>1. PICK m \in Received(n, "prevote") :
        LET s == ReceivePrevote(node[n], m)
        IN Install(n, IF InState(n, {"prevote"}) THEN EnterPrevote(s, n) ELSE s)
  BY DEF ReceivePrevoteMsg
<1> DEFINE s == ReceivePrevote(node[n], m)
<1>2. /\ m \in msgs /\ m.type = "prevote" /\ Good(node[n], msgs) /\ node[n] \in NodeState
      /\ node[n].fsm = "precommit" => node[n].nextHash # NoHash
  BY ReceivedMessage DEF IInv, Good, PrecommitHasBlock
<1>3. Handles(node[n], s, msgs) /\ SameLedger(node[n], s)
  BY <1>2, ReceivePrevoteHandles
<1>4. WaitsWithBlock(s)
  BY <1>2, ReceiveVoteKeeps, KeepsWaiting
<1>5. Install(n, IF InState(n, {"prevote"}) THEN EnterPrevote(s, n) ELSE s)
  BY <1>1
<1> HIDE DEF s
<1>6. Handles(s, EnterPrevote(s, n), msgs) /\ WaitsWithBlock(EnterPrevote(s, n))
  BY <1>3, EnterPrevoteHandles, EnterPrevoteWaits DEF Handles
<1>7. Handles(node[n], EnterPrevote(s, n), msgs)
  BY <1>3, <1>6, HandlesThen DEF Handles
<1> QED BY <1>3, <1>4, <1>5, <1>6, <1>7 DEF Step

LEMMA ReceivePrecommitStep ==
  ASSUME IInv, NEW n \in Nodes, ReceivePrecommitMsg(n)
  PROVE  \E r : Step(n, r)
<1>1. PICK m \in Received(n, "precommit") :
        LET s == ReceivePrecommit(node[n], m)
        IN Install(n, IF InState(n, {"precommit"}) THEN EnterPrecommit(s) ELSE s)
  BY DEF ReceivePrecommitMsg
<1> DEFINE s == ReceivePrecommit(node[n], m)
<1>2. /\ m \in msgs /\ m.type = "precommit" /\ Good(node[n], msgs) /\ node[n] \in NodeState
      /\ node[n].fsm = "precommit" => node[n].nextHash # NoHash
  BY ReceivedMessage DEF IInv, Good, PrecommitHasBlock
<1>3. Handles(node[n], s, msgs) /\ SameLedger(node[n], s)
  BY <1>2, ReceivePrecommitHandles
<1>4. WaitsWithBlock(s) /\ KeepsBlock(node[n], s)
  BY <1>2, ReceiveVoteKeeps, KeepsWaiting
<1>5. Install(n, IF InState(n, {"precommit"}) THEN EnterPrecommit(s) ELSE s)
  BY <1>1
<1> HIDE DEF s
<1>6. CASE InState(n, {"precommit"})
  <2>1. s.nextHash # NoHash
    BY <1>2, <1>4, <1>6, BoundsPositive DEF InState, KeepsBlock, Hash, NoHash
  <2>2. Handles(s, EnterPrecommit(s), msgs) /\ WaitsWithBlock(EnterPrecommit(s))
    BY <1>3, <2>1, EnterPrecommitHandles, EnterPrecommitWaits DEF Handles
  <2>3. Handles(node[n], EnterPrecommit(s), msgs)
    BY <1>3, <2>2, HandlesThen DEF Handles
  <2> QED BY <1>5, <1>6, <2>2, <2>3 DEF Step
<1>7. CASE ~InState(n, {"precommit"})
  BY <1>3, <1>4, <1>5, <1>7 DEF Step
<1> QED BY <1>6, <1>7

LEMMA ReceiveCommitStep ==
  ASSUME IInv, NEW n \in Nodes, ReceiveCommitMsg(n)
  PROVE  \E r : Step(n, r)
<1>1. PICK m \in msgs : m.type = "commit" /\ Install(n, ReceiveCommit(node[n], m))
  BY DEF ReceiveCommitMsg
<1>2. /\ Good(node[n], msgs)
      /\ node[n].fsm = "precommit" => node[n].nextHash # NoHash
  BY DEF IInv, PrecommitHasBlock
<1>3. Handles(node[n], ReceiveCommit(node[n], m), msgs)
  BY <1>1, <1>2, ReceiveCommitHandles
<1>4. WaitsWithBlock(ReceiveCommit(node[n], m))
  BY <1>1, <1>2, ReceiveCommitHandles, KeepsWaiting
<1> QED BY <1>1, <1>3, <1>4 DEF Step

LEMMA StepHandles ==
  ASSUME IInv, Next
  PROVE  \E n \in Nodes : \E r : Step(n, r)
<1>1. PICK n \in Nodes :
        \/ Start(n) \/ TimeoutPropose(n) \/ TimeoutPrevote(n) \/ TimeoutRound(n)
        \/ ReceiveProposal(n) \/ ReceiveForcedProposal(n) \/ RejectForcedProposal(n)
        \/ ReceiveNextProposal(n)
        \/ ReceivePrevoteMsg(n) \/ ReceivePrecommitMsg(n) \/ ReceiveCommitMsg(n)
  BY DEF Next
<1>2. CASE Start(n)
  BY <1>2, EnterRoundStep DEF Start
<1>3. CASE TimeoutPropose(n)
  BY <1>3, TimeoutProposeStep
<1>4. CASE TimeoutPrevote(n)
  BY <1>4, TimeoutPrevoteStep
<1>5. CASE TimeoutRound(n)
  BY <1>5, EnterRoundStep DEF TimeoutRound
<1>6. CASE ReceiveProposal(n)
  BY <1>6, ReceiveProposalStep
<1>7. CASE ReceiveForcedProposal(n)
  BY <1>7, ReceiveForcedProposalStep
<1>8. CASE RejectForcedProposal(n)
  BY <1>8, RejectForcedProposalStep
<1>9. CASE ReceiveNextProposal(n)
  BY <1>9, ReceiveNextProposalStep
<1>10. CASE ReceivePrevoteMsg(n)
  BY <1>10, ReceivePrevoteStep
<1>11. CASE ReceivePrecommitMsg(n)
  BY <1>11, ReceivePrecommitStep
<1>12. CASE ReceiveCommitMsg(n)
  BY <1>12, ReceiveCommitStep
<1> QED BY <1>1, <1>2, <1>3, <1>4, <1>5, <1>6, <1>7, <1>8, <1>9, <1>10, <1>11, <1>12

------------------------------------------------------------------------------
(* What a node leaves behind becomes its state, and the others only see more
   messages. *)

LEMMA InstallKeeps ==
  ASSUME IInv, NEW n \in Nodes, NEW r, Step(n, r)
  PROVE  IInv'
<1>1. /\ node \in [Nodes -> NodeState] /\ \A k \in Nodes : node[k].ok /\ node[k].out = {}
      /\ msgs \subseteq Message /\ built \in 0 .. MaxBlocks
      /\ \A k \in Nodes : Good(node[k], msgs)
  BY DEF IInv, TypeOK
<1>2. /\ node' = IF r.ok THEN [node EXCEPT ![n] = [r EXCEPT !.out = {}]] ELSE node
      /\ msgs' = msgs \cup r.out
      /\ built' = IF \E m \in r.out : m.type = "proposal" /\ m.entry.hash > built
                  THEN built + 1 ELSE built
      /\ Good(r, msgs) /\ WaitsWithBlock(r)
  BY DEF Step, Install, Handles
<1> DEFINE t == [r EXCEPT !.out = {}]
<1>3. /\ r \in NodeState /\ r.out \subseteq Message
      /\ VotesIn(r, msgs') /\ LocksIn(r, msgs') /\ ChainIn(r, msgs') /\ MessagesIn(msgs')
  BY <1>2 DEF Good, NodeState
<1>4. /\ t \in NodeState /\ t.out = {} /\ t.ok = r.ok /\ t.fsm = r.fsm /\ t.nextHash = r.nextHash
      /\ t.nextHeight = r.nextHeight /\ t.lastBlockIndex = r.lastBlockIndex /\ t.blocks = r.blocks
      /\ t.lockedValue = r.lockedValue /\ t.validValue = r.validValue
      /\ t.prevotes = r.prevotes /\ t.precommits = r.precommits
  BY <1>3 DEF NodeState
<1>5. node' = IF r.ok THEN [node EXCEPT ![n] = t] ELSE node
  BY <1>2
<1> HIDE DEF t
<1>6. Good(t, msgs')
  <2>1. VotesIn(t, msgs')
    BY <1>3, <1>4 DEF VotesIn
  <2>2. LocksIn(t, msgs')
    BY <1>3, <1>4 DEF LocksIn
  <2>3. ChainIn(t, msgs')
    BY <1>3, <1>4 DEF ChainIn
  <2>4. msgs' \subseteq Message /\ msgs' \cup t.out = msgs'
    BY <1>1, <1>2, <1>3, <1>4
  <2> QED BY <1>3, <1>4, <2>1, <2>2, <2>3, <2>4 DEF Good
<1>7. ASSUME NEW k \in Nodes
      PROVE  Good(node[k], msgs')
  <2>1. node[k] \in NodeState /\ msgs \cup node[k].out = msgs /\ node[k].out = {}
    BY <1>1
  <2>2. VotesIn(node[k], msgs) /\ LocksIn(node[k], msgs) /\ ChainIn(node[k], msgs)
    BY <1>1, <2>1 DEF Good
  <2>3. VotesIn(node[k], msgs') /\ LocksIn(node[k], msgs') /\ ChainIn(node[k], msgs')
    BY <1>2, <2>1, <2>2, NodeMonotone
  <2>4. msgs' \subseteq Message /\ msgs' \cup node[k].out = msgs'
    BY <1>1, <1>2, <1>3, <2>1
  <2> QED BY <1>3, <2>1, <2>3, <2>4 DEF Good
<1>8. \A k \in Nodes : Good(node'[k], msgs')
  BY <1>1, <1>5, <1>6, <1>7
<1>9. built' \in 0 .. MaxBlocks
  <2>1. CASE \E m \in r.out : m.type = "proposal" /\ m.entry.hash > built
    <3>1. PICK m \in r.out : m.type = "proposal" /\ m.entry.hash > built
      BY <2>1
    <3>2. m.entry.hash \in Hash
      BY <1>3, <3>1, ProposalType
    <3> QED BY <1>1, <1>2, <2>1, <3>1, <3>2, BoundsPositive DEF Hash
  <2>2. CASE ~(\E m \in r.out : m.type = "proposal" /\ m.entry.hash > built)
    BY <1>1, <1>2, <2>2
  <2> QED BY <2>1, <2>2
<1>10. TypeOK'
  <2>1. node' \in [Nodes -> NodeState]
    BY <1>1, <1>4, <1>5
  <2>2. \A k \in Nodes : node'[k].ok /\ node'[k].out = {}
    BY <1>1, <1>4, <1>5
  <2>3. msgs' \subseteq Message
    BY <1>1, <1>2, <1>3
  <2> QED BY <1>9, <2>1, <2>2, <2>3 DEF TypeOK
<1>11. PrecommitHasBlock'
  BY <1>1, <1>2, <1>4, <1>5 DEF IInv, PrecommitHasBlock, WaitsWithBlock
<1> QED BY <1>3, <1>8, <1>10, <1>11 DEF IInv

LEMMA NextIInv == IInv /\ [Next]_vars => IInv'
<1> SUFFICES ASSUME IInv, [Next]_vars PROVE IInv'
  OBVIOUS
<1>1. CASE Next
  BY <1>1, StepHandles, InstallKeeps
<1>2. CASE UNCHANGED vars
  BY <1>2 DEF vars, IInv, TypeOK, PrecommitHasBlock
<1> QED BY <1>1, <1>2

LEMMA Invariance == Spec => []IInv
<1> QED BY InitIInv, NextIInv, PTL DEF Spec

------------------------------------------------------------------------------
(* The properties *)

(* Whatever happens, a node's record and the network's messages stay within
   their types, and no call that reverted or is half done is ever seen by
   another event. *)
THEOREM TypeCorrect == Spec => []TypeOK
<1>1. IInv => TypeOK
  BY DEF IInv
<1> QED BY <1>1, Invariance, PTL

(* receivePrevote and receivePrecommit never fill a slot of the current height
   with a vote that was cast at another one, or by nobody. *)
THEOREM VotesAreGenuine == Spec => []VotesWereCast
<1>1. IInv => VotesWereCast
  <2> SUFFICES ASSUME IInv, NEW n \in Nodes
               PROVE  VotesIn(node[n], msgs)
    BY DEF VotesWereCast, VotesIn
  <2>1. Good(node[n], msgs) /\ node[n].out = {}
    BY DEF IInv, TypeOK
  <2>2. msgs \cup node[n].out = msgs
    BY <2>1
  <2> QED BY <2>1, <2>2 DEF Good
<1> QED BY <1>1, Invariance, PTL

(* sendPrecommit is only reached with a quorum of prevotes for the same block
   at the same height, whatever happened to the node's round in between. *)
THEOREM PrecommitsAreJustified == Spec => []PrecommitJustified
<1>1. IInv => PrecommitJustified
  BY DEF IInv, MessagesIn, PrecommitJustified
<1> QED BY <1>1, Invariance, PTL

(* A lock or valid block is of the height the node works on, and of a block a
   quorum prevoted there, on every path that leaves a height. *)
THEOREM LocksAreJustified == Spec => []LockJustified
<1>1. IInv => LockJustified
  <2> SUFFICES ASSUME IInv, NEW n \in Nodes
               PROVE  LocksIn(node[n], msgs)
    BY DEF LockJustified, LocksIn
  <2>1. Good(node[n], msgs) /\ node[n].out = {}
    BY DEF IInv, TypeOK
  <2>2. msgs \cup node[n].out = msgs
    BY <2>1
  <2> QED BY <2>1, <2>2 DEF Good
<1> QED BY <1>1, Invariance, PTL

(* A node in precommit has a block, so that ifPrecommitAcceptThreshold counts
   the votes for it. *)
THEOREM WaitsForABlock == Spec => []PrecommitHasBlock
<1>1. IInv => PrecommitHasBlock
  BY DEF IInv
<1> QED BY <1>1, Invariance, PTL

(* A height is final at a node only if more than two thirds of the stake
   precommitted one block there. *)
LEMMA FinalIsCertified ==
  ASSUME IInv, NEW n \in Nodes, NEW h \in Heights, node[n].blocks[h].hash # NoHash
  PROVE  h \in Certified(msgs)
<1>1. Good(node[n], msgs) /\ node[n].out = {}
  BY DEF IInv, TypeOK
<1>2. msgs \cup node[n].out = msgs
  BY <1>1
<1>3. ChainIn(node[n], msgs)
  BY <1>1, <1>2 DEF Good
<1> QED BY <1>3 DEF ChainIn, NoBlock

THEOREM FinalityNeedsQuorum == Spec => []FinalByQuorum
<1>1. IInv => FinalByQuorum
  BY FinalIsCertified DEF FinalByQuorum
<1> QED BY <1>1, Invariance, PTL

------------------------------------------------------------------------------
(* Refinement *)

LEMMA LedgerInit == Init => Ledger!Init
<1> SUFFICES ASSUME Init PROVE Ledger!Init
  OBVIOUS
<1>1. \A n \in Nodes : node[n].lastBlockIndex = LOG_START
                       /\ node[n].blocks = [h \in Heights |-> NoBlock]
  BY DEF Init, InitNode
<1>2. Certified(msgs) = {}
  <2>1. ASSUME NEW h \in Heights, NEW b \in Hash
        PROVE  ~HasQuorum({}, "precommit", h, b)
    <3>1. Cast({}, "precommit", h, b) = {}
      BY DEF Cast
    <3>2. Power(Cast({}, "precommit", h, b)) = 0
      BY <3>1, PowerEmpty
    <3>3. TotalPower \in Nat
      BY PowerType DEF TotalPower
    <3>4. ~(3 * 0 > 2 * TotalPower)
      BY <3>3
    <3> QED BY <3>2, <3>4 DEF HasQuorum, IsQuorum
  <2>2. msgs = {}
    BY DEF Init
  <2> QED BY <2>1, <2>2 DEF Certified
<1> QED BY <1>1, <1>2 DEF Ledger!Init, Heights

LEMMA LedgerStep == IInv /\ IInv' /\ [Next]_vars => [Ledger!Next]_Ledger!vars
<1> SUFFICES ASSUME IInv, IInv', [Next]_vars PROVE [Ledger!Next]_Ledger!vars
  OBVIOUS
<1>1. CASE UNCHANGED vars
  BY <1>1 DEF vars, Ledger!vars
<1>2. CASE Next
  <2>0. PICK n \in Nodes : \E r : Step(n, r)
    BY <1>2, StepHandles
  <2>1. PICK r : Step(n, r)
    BY <2>0
  <2>2. /\ node' = IF r.ok THEN [node EXCEPT ![n] = [r EXCEPT !.out = {}]] ELSE node
        /\ msgs' = msgs \cup r.out
        /\ r \in NodeState
        /\ SameLedger(node[n], r) \/ GrowsLedger(node[n], r)
    BY <2>1 DEF Step, Install, Handles, Good
  <2>3. /\ node \in [Nodes -> NodeState] /\ node' \in [Nodes -> NodeState]
        /\ node[n].lastBlockIndex \in LOG_START .. MaxHeight
    BY DEF IInv, TypeOK, NodeState
  <2>4. Ledger!Certify
    <3>1. Certified(msgs) \subseteq Certified(msgs')
      BY <2>2, CertifiedMonotone
    <3>2. Certified(msgs') \subseteq Heights
      BY DEF Certified
    <3> QED BY <3>1, <3>2 DEF Ledger!Certify, Heights
  <2>5. /\ r.ok => node'[n].lastBlockIndex = r.lastBlockIndex /\ node'[n].blocks = r.blocks
        /\ ~r.ok => node' = node
        /\ \A k \in Nodes \ {n} : node'[k] = node[k]
    BY <2>2, <2>3 DEF NodeState
  <2>6. CASE r.ok /\ GrowsLedger(node[n], r)
    <3>1. /\ node'[n].lastBlockIndex \in node[n].lastBlockIndex + 1 .. MaxHeight
          /\ \A h \in Heights :
               IF h \in node[n].lastBlockIndex + 1 .. node'[n].lastBlockIndex
               THEN /\ node'[n].blocks[h] # NoBlock
                    /\ node'[n].blocks[h].parent = node'[n].blocks[h - 1].hash
               ELSE node'[n].blocks[h] = node[n].blocks[h]
      BY <2>5, <2>6 DEF GrowsLedger
    <3>2. node[n].lastBlockIndex + 1 .. node'[n].lastBlockIndex \subseteq Certified(msgs')
      <4>1. ASSUME NEW h \in node[n].lastBlockIndex + 1 .. node'[n].lastBlockIndex
            PROVE  h \in Certified(msgs')
        <5>1. Good(node'[n], msgs') /\ node'[n].out = {}
          BY DEF IInv, TypeOK
        <5>2. msgs' \cup node'[n].out = msgs'
          BY <5>1
        <5>3. ChainIn(node'[n], msgs')
          BY <5>1, <5>2 DEF Good
        <5>4. h \in Heights /\ h \in LOG_START + 1 .. node'[n].lastBlockIndex
          BY <2>3, <3>1, BoundsPositive DEF Heights, LOG_START
        <5> QED BY <5>3, <5>4 DEF ChainIn
      <4> QED BY <4>1
    <3>3. Ledger!Append(n)
      <4>1. node'[n].lastBlockIndex \in node[n].lastBlockIndex + 1 .. MaxHeight + 1
        BY <2>3, <3>1, BoundsPositive DEF LOG_START
      <4> QED BY <2>3, <2>5, <3>1, <3>2, <4>1 DEF Ledger!Append, Heights
    <3> QED BY <2>4, <3>3 DEF Ledger!Next
  <2>7. CASE ~r.ok \/ SameLedger(node[n], r)
    <3>1. \A k \in Nodes : /\ node'[k].lastBlockIndex = node[k].lastBlockIndex
                           /\ node'[k].blocks = node[k].blocks
      BY <2>5, <2>7 DEF SameLedger
    <3> QED BY <2>4, <3>1 DEF Ledger!Next
  <2> QED BY <2>2, <2>6, <2>7
<1> QED BY <1>1, <1>2

(* The network of block stores is an implementation of the certified ledger:
   every step appends certified blocks at the end of one chain, or leaves all
   chains alone. *)
THEOREM Refinement == Spec => ImplementsLedger
<1>1. Init => Ledger!Init
  BY LedgerInit
<1>2. IInv /\ IInv' /\ [Next]_vars => [Ledger!Next]_Ledger!vars
  BY LedgerStep
<1> QED BY <1>1, <1>2, Invariance, PTL DEF Spec, ImplementsLedger, Ledger!Spec


------------------------------------------------------------------------------
(* The pool of transactions.  What the loop of batch has gathered stays within the
   limits (Batches, GatherKeeps): the gas is that of the batch, the bytes are at least
   those of the batch, and after an atomic transaction it is done. *)

(* The sums on the way. *)
Summing(r, weight, txs) ==
    /\ r \in [0..Len(txs) -> Nat]
    /\ r[0] = 0 /\ r[Len(txs)] = SumOf(weight, txs)
    /\ \A i \in 1..Len(txs) : r[i] = r[i - 1] + weight[txs[i]]

LEMMA SumRuns ==
  ASSUME NEW weight \in [Tx -> Nat], NEW txs \in Seq(Tx)
  PROVE  \E r : Summing(r, weight, txs)
<1> DEFINE n == Len(txs)
           D == DOMAIN txs
           next(q, i) == q + weight[txs[i]]
           Fold(F) == F = [w \in SUBSET D |-> IF w = {} THEN 0 ELSE next(F[w \ {Max(w)}], Max(w))]
           F0 == CHOOSE F : Fold(F)
           step == [p \in Nat \X (1..n) |-> next(p[1], p[2])]
<1>1. SumOf(weight, txs) = F0[D]
  BY Zenon DEF SumOf, FoldLeft, MapThenFoldSet
<1>2. n \in Nat /\ D = 1..n /\ 0 \in Nat /\ \A i \in 1..n : txs[i] \in Tx
  OBVIOUS
<1>3. \A q \in Nat, i \in 1..n : next(q, i) \in Nat
  <2>1. \A i \in 1..n : weight[txs[i]] \in Nat
    BY <1>2
  <2> QED BY <2>1
<1> HIDE DEF next, D, n
<1>4. step \in [Nat \X (1..n) -> Nat] /\ \A q \in Nat, i \in 1..n : step[<<q, i>>] = next(q, i)
  BY <1>3
<1> HIDE DEF step
<1>5. PICK F : Folding(F, n, Nat, 0, step)
  BY <1>2, <1>4, FoldingExists
<1>6. Fold(F)
  <2>1. ASSUME NEW w \in SUBSET D, w # {}
        PROVE  F[w] = next(F[w \ {Max(w)}], Max(w))
    <3>1. Max(w) \in 1..n /\ w \ {Max(w)} \in SUBSET (1..n) /\ F[w] = step[<<F[w \ {Max(w)}], Max(w)>>]
      BY <1>2, <1>5, <2>1 DEF Folding
    <3>2. F[w \ {Max(w)}] \in Nat
      BY <1>5, <3>1 DEF Folding
    <3> QED BY <1>4, <3>1, <3>2
  <2>2. F = [w \in SUBSET D |-> F[w]] /\ F[{}] = 0
    BY <1>2, <1>5 DEF Folding
  <2> QED BY <2>1, <2>2
<1>7. Fold(F0)
  <2> HIDE DEF Fold
  <2> QED BY <1>6
<1> HIDE DEF F0
<1>8. Follows(F0, n, Nat, 0, step)
  <2>1. F0[{}] = 0 /\ \A w \in SUBSET D : w # {} => F0[w] = next(F0[w \ {Max(w)}], Max(w))
    BY <1>7
  <2> HIDE DEF Fold
  <2>2. ASSUME NEW w \in SUBSET (1..n), w # {}, F0[w \ {Max(w)}] \in Nat
        PROVE  F0[w] = step[<<F0[w \ {Max(w)}], Max(w)>>]
    <3>1. Max(w) \in 1..n /\ w \in SUBSET D
      BY <1>2, <1>5, <2>2 DEF Folding
    <3> QED BY <1>4, <2>1, <2>2, <3>1
  <2> QED BY <2>1, <2>2 DEF Follows
<1>9. PICK r : Run(r, F0, n, Nat, 0, step)
  BY <1>2, <1>4, <1>8, FoldRuns
<1>10. \A i \in 1..n : r[i] = r[i - 1] + weight[txs[i]]
  <2> SUFFICES ASSUME NEW i \in 1..n
               PROVE  r[i] = r[i - 1] + weight[txs[i]]
    OBVIOUS
  <2>1. i - 1 \in 0..n
    BY <1>2
  <2> QED BY <1>4, <1>9, <2>1 DEF Run, next
<1>11. r \in [0..n -> Nat] /\ r[0] = 0 /\ r[n] = SumOf(weight, txs)
  BY <1>1, <1>2, <1>9 DEF Run
<1>12. Summing(r, weight, txs)
  BY <1>10, <1>11 DEF Summing, n
<1> QED BY <1>12

(* A sum is that of what comes first and the last one. *)
LEMMA SumOfLonger ==
  ASSUME NEW weight \in [Tx -> Nat], NEW txs \in Seq(Tx), NEW tx \in Tx
  PROVE  /\ SumOf(weight, txs) \in Nat
         /\ SumOf(weight, Append(txs, tx)) = SumOf(weight, txs) + weight[tx]
<1> DEFINE longer == Append(txs, tx)
           n == Len(txs)
<1>1. /\ n \in Nat /\ longer \in Seq(Tx) /\ Len(longer) = n + 1 /\ longer[n + 1] = tx
      /\ \A i \in 1..n : longer[i] = txs[i] /\ txs[i] \in Tx
  OBVIOUS
<1> HIDE DEF longer, n
<1>2. PICK r : Summing(r, weight, txs)
  BY SumRuns
<1>3. PICK l : Summing(l, weight, longer)
  BY <1>1, SumRuns
<1>4. /\ r \in [0..n -> Nat] /\ r[0] = 0 /\ r[n] = SumOf(weight, txs)
      /\ \A i \in 1..n : r[i] = r[i - 1] + weight[txs[i]]
  BY <1>2 DEF Summing, n
<1>5. /\ l[0] = 0 /\ l[n + 1] = SumOf(weight, longer)
      /\ \A i \in 1..(n + 1) : l[i] = l[i - 1] + weight[longer[i]]
  BY <1>1, <1>3 DEF Summing
<1> DEFINE Holds == {i \in 0..n : l[i] = r[i]}
<1>6. 0 \in Holds
  BY <1>1, <1>4, <1>5
<1>7. \A i \in 0..n : i \in Holds /\ i < n => i + 1 \in Holds
  <2> SUFFICES ASSUME NEW i \in 0..n, i \in Holds, i < n
               PROVE  i + 1 \in Holds
    OBVIOUS
  <2>1. i + 1 \in 1..n /\ i + 1 \in 1..(n + 1) /\ (i + 1) - 1 = i /\ i + 1 \in 0..n
    BY <1>1
  <2>2. l[i + 1] = l[i] + weight[longer[i + 1]] /\ r[i + 1] = r[i] + weight[txs[i + 1]]
    BY <1>4, <1>5, <2>1
  <2> QED BY <1>1, <2>1, <2>2
<1>8. n \in Holds
  <2> HIDE DEF Holds
  <2>1. 0 \in Int /\ n \in Int /\ n \in 0..n
    BY <1>1
  <2> QED BY <1>6, <1>7, <2>1, IntervalInduction
<1>9. n + 1 \in 1..(n + 1) /\ (n + 1) - 1 = n /\ n \in 0..n
  BY <1>1
<1>10. SumOf(weight, longer) = l[n] + weight[tx]
  BY <1>1, <1>5, <1>9
<1> QED BY <1>4, <1>8, <1>9, <1>10 DEF longer

LEMMA SumOfNone == ASSUME NEW weight \in [Tx -> Nat] PROVE SumOf(weight, <<>>) = 0
<1>1. <<>> \in Seq(Tx) /\ Len(<<>>) = 0
  OBVIOUS
<1>2. PICK r : Summing(r, weight, <<>>)
  BY <1>1, SumRuns
<1> QED BY <1>1, <1>2 DEF Summing

(* What the loop of batch has gathered. *)
Batches ==
    {b \in [txs : Seq(Tx), gas : Nat, bytes : Nat, atomic : BOOLEAN, done : BOOLEAN] :
        /\ b.gas = GasOf(b.txs) /\ BytesOf(b.txs) <= b.bytes
        /\ b.gas <= MaxGas /\ b.bytes <= MaxBytes
        /\ \A i \in DOMAIN b.txs : IsAtomic(b.txs[i]) => Len(b.txs) = 1 /\ b.done}

LEMMA GatherKeeps ==
  ASSUME NEW b \in Batches, NEW tx \in Tx, NEW executing
  PROVE  Gather(tx, b, executing) \in Batches
<1> DEFINE a == IF IsAtomic(tx) THEN Alone(b) ELSE b
           more == [a EXCEPT !.txs = Append(@, tx), !.gas = @ + Gas[tx], !.bytes = @ + Size[tx], !.done = IsAtomic(tx)]
<1>1. Gas \in [Tx -> Nat] /\ Size \in [Tx -> Nat] /\ MaxGas \in Nat /\ MaxBytes \in Nat
  BY MempoolAssumption DEF MempoolAssumption
<1>2. b \in [txs : Seq(Tx), gas : Nat, bytes : Nat, atomic : BOOLEAN, done : BOOLEAN]
  BY DEF Batches
<1>3. Alone(b) \in Batches /\ Alone(b).txs = <<>>
  <2>1. GasOf(<<>>) = 0 /\ BytesOf(<<>>) = 0
    BY <1>1, SumOfNone DEF GasOf, BytesOf
  <2> DEFINE x1 == [b EXCEPT !.txs = <<>>]
             x2 == [x1 EXCEPT !.gas = 0]
             x3 == [x2 EXCEPT !.atomic = TRUE]
  <2>4. Alone(b) = x3
    BY Zenon DEF Alone
  <2>5. x1 = [txs |-> <<>>, gas |-> b.gas, bytes |-> b.bytes, atomic |-> b.atomic, done |-> b.done]
    BY <1>2
  <2>6. x2 = [txs |-> <<>>, gas |-> 0, bytes |-> b.bytes, atomic |-> b.atomic, done |-> b.done]
    <3> HIDE DEF x1
    <3> QED BY <2>5
  <2>2. Alone(b) = [txs |-> <<>>, gas |-> 0, bytes |-> b.bytes, atomic |-> TRUE, done |-> b.done]
    <3> HIDE DEF x2
    <3> QED BY <2>4, <2>6
  <2>3. <<>> \in Seq(Tx) /\ DOMAIN <<>> = {}
    OBVIOUS
  <2> QED BY <1>1, <2>1, <2>2, <2>3 DEF Batches
<1>4. a \in Batches /\ (~b.done => \A i \in DOMAIN a.txs : ~IsAtomic(a.txs[i])) /\ (IsAtomic(tx) => a.txs = <<>>)
  BY <1>3 DEF Batches
<1> HIDE DEF a
<1>5. [a EXCEPT !.done = TRUE] \in Batches
  BY <1>4 DEF Batches
<1>6. ASSUME ~b.done, a.gas + Gas[tx] <= MaxGas, a.bytes + Size[tx] <= MaxBytes
      PROVE  more \in Batches
  <2> DEFINE txs == Append(a.txs, tx)
             gas == a.gas + Gas[tx]
             bytes == a.bytes + Size[tx]
  <2>1. a.txs \in Seq(Tx) /\ a.gas \in Nat /\ a.bytes \in Nat /\ a.gas = GasOf(a.txs) /\ BytesOf(a.txs) <= a.bytes
    BY <1>4 DEF Batches
  <2>2. GasOf(txs) = gas /\ BytesOf(txs) = BytesOf(a.txs) + Size[tx] /\ BytesOf(a.txs) \in Nat
    BY <1>1, <2>1, SumOfLonger DEF GasOf, BytesOf
  <2>3. gas \in Nat /\ bytes \in Nat /\ BytesOf(txs) <= bytes /\ gas <= MaxGas /\ bytes <= MaxBytes
    BY <1>1, <1>6, <2>1, <2>2
  <2>4. /\ txs \in Seq(Tx) /\ Len(txs) = Len(a.txs) + 1 /\ Len(a.txs) \in Nat
        /\ \A i \in DOMAIN txs : txs[i] = tx \/ (i \in DOMAIN a.txs /\ txs[i] = a.txs[i])
    BY <2>1
  <2> DEFINE x1 == [a EXCEPT !.txs = txs]
             x2 == [x1 EXCEPT !.gas = gas]
             x3 == [x2 EXCEPT !.bytes = bytes]
             x4 == [x3 EXCEPT !.done = IsAtomic(tx)]
  <2>8. a = [txs |-> a.txs, gas |-> a.gas, bytes |-> a.bytes, atomic |-> a.atomic, done |-> a.done]
    BY <1>4 DEF Batches
  <2>9. more = x4
    BY <2>8
  <2>10. x1 = [txs |-> txs, gas |-> a.gas, bytes |-> a.bytes, atomic |-> a.atomic, done |-> a.done]
    <3> HIDE DEF txs
    <3> QED BY <2>8
  <2>11. x2 = [txs |-> txs, gas |-> gas, bytes |-> a.bytes, atomic |-> a.atomic, done |-> a.done]
    <3> HIDE DEF x1, txs, gas
    <3> QED BY <2>10
  <2>12. x3 = [txs |-> txs, gas |-> gas, bytes |-> bytes, atomic |-> a.atomic, done |-> a.done]
    <3> HIDE DEF x2, txs, gas, bytes
    <3> QED BY <2>11
  <2>5. more = [txs |-> txs, gas |-> gas, bytes |-> bytes, atomic |-> a.atomic, done |-> IsAtomic(tx)]
    <3> HIDE DEF x3, more, txs, gas, bytes
    <3> QED BY <2>9, <2>12
  <2>6. IsAtomic(tx) \in BOOLEAN /\ a.atomic \in BOOLEAN
    BY <1>4 DEF IsAtomic, Batches
  <2>7. \A i \in DOMAIN txs : IsAtomic(txs[i]) => IsAtomic(tx) /\ Len(txs) = 1
    <3>1. IsAtomic(tx) => Len(txs) = 1
      BY <1>4, <2>4
    <3> QED BY <1>4, <1>6, <2>4, <3>1
  <2> HIDE DEF txs, gas, bytes
  <2> QED BY <2>2, <2>3, <2>4, <2>5, <2>6, <2>7 DEF Batches
<1>7. Gather(tx, b, executing) \in {b, [a EXCEPT !.done = TRUE]}
      \/ (~b.done /\ a.gas + Gas[tx] <= MaxGas /\ a.bytes + Size[tx] <= MaxBytes /\ Gather(tx, b, executing) = more)
  <2>1. a.gas \in Nat /\ a.bytes \in Nat
    BY <1>4 DEF Batches
  <2>2. Gas[tx] \in Nat /\ Size[tx] \in Nat
    BY <1>1
  <2>3. ~(a.gas + Gas[tx] > MaxGas) => a.gas + Gas[tx] <= MaxGas
    BY <1>1, <2>1, <2>2
  <2>4. ~(a.bytes + Size[tx] > MaxBytes) => a.bytes + Size[tx] <= MaxBytes
    BY <1>1, <2>1, <2>2
  <2> QED BY Zenon, <2>3, <2>4 DEF Gather, a
<1> HIDE DEF more
<1> QED BY <1>5, <1>6, <1>7

(* Whatever the pool and the weights of its transactions: a batch is within the gas
   and the bytes of a block, with what an atomic transaction pushed out still counted
   in the bytes, and an atomic transaction is alone in it. *)
THEOREM BatchesFit ==
  ASSUME NEW pool, pool.map \in Seq(Tx), NEW executing
  PROVE  Fits(Batch(pool, executing))
<1> DEFINE n == Len(pool.map)
           D == DOMAIN pool.map
           next(b, i) == Gather(pool.map[i], b, executing)
           Fold(F) == F = [w \in SUBSET D |-> IF w = {} THEN EmptyBatch ELSE next(F[w \ {Max(w)}], Max(w))]
           F0 == CHOOSE F : Fold(F)
           step == [p \in Batches \X (1..n) |-> next(p[1], p[2])]
<1>1. Batch(pool, executing) = F0[D]
  BY Zenon DEF Batch, FoldLeft, MapThenFoldSet
<1>2. n \in Nat /\ D = 1..n /\ \A i \in 1..n : pool.map[i] \in Tx
  OBVIOUS
<1>13. EmptyBatch \in Batches
  <2>1. Gas \in [Tx -> Nat] /\ Size \in [Tx -> Nat] /\ MaxGas \in Nat /\ MaxBytes \in Nat
    BY MempoolAssumption DEF MempoolAssumption
  <2>2. GasOf(<<>>) = 0 /\ BytesOf(<<>>) = 0 /\ <<>> \in Seq(Tx) /\ DOMAIN <<>> = {}
    BY <2>1, SumOfNone DEF GasOf, BytesOf
  <2> QED BY <2>1, <2>2 DEF EmptyBatch, Batches
<1>3. \A b \in Batches, i \in 1..n : next(b, i) \in Batches
  BY <1>2, GatherKeeps
<1> HIDE DEF next, D, n
<1>4. step \in [Batches \X (1..n) -> Batches] /\ \A b \in Batches, i \in 1..n : step[<<b, i>>] = next(b, i)
  BY <1>3
<1> HIDE DEF step
<1>5. PICK F : Folding(F, n, Batches, EmptyBatch, step)
  BY <1>2, <1>4, <1>13, FoldingExists
<1>6. Fold(F)
  <2>1. ASSUME NEW w \in SUBSET D, w # {}
        PROVE  F[w] = next(F[w \ {Max(w)}], Max(w))
    <3>1. Max(w) \in 1..n /\ w \ {Max(w)} \in SUBSET (1..n) /\ F[w] = step[<<F[w \ {Max(w)}], Max(w)>>]
      BY <1>2, <1>5, <2>1 DEF Folding
    <3>2. F[w \ {Max(w)}] \in Batches
      BY <1>5, <3>1 DEF Folding
    <3> QED BY <1>4, <3>1, <3>2
  <2>2. F = [w \in SUBSET D |-> F[w]] /\ F[{}] = EmptyBatch
    BY <1>2, <1>5 DEF Folding
  <2> QED BY <2>1, <2>2
<1>7. Fold(F0)
  <2> HIDE DEF Fold
  <2> QED BY <1>6
<1> HIDE DEF F0
<1>8. Follows(F0, n, Batches, EmptyBatch, step)
  <2>1. F0[{}] = EmptyBatch /\ \A w \in SUBSET D : w # {} => F0[w] = next(F0[w \ {Max(w)}], Max(w))
    BY <1>7
  <2> HIDE DEF Fold
  <2>2. ASSUME NEW w \in SUBSET (1..n), w # {}, F0[w \ {Max(w)}] \in Batches
        PROVE  F0[w] = step[<<F0[w \ {Max(w)}], Max(w)>>]
    <3>1. Max(w) \in 1..n /\ w \in SUBSET D
      BY <1>2, <1>5, <2>2 DEF Folding
    <3> QED BY <1>4, <2>1, <2>2, <3>1
  <2> QED BY <2>1, <2>2 DEF Follows
<1>9. PICK r : Run(r, F0, n, Batches, EmptyBatch, step)
  BY <1>2, <1>4, <1>8, <1>13, FoldRuns
<1>10. F0[D] \in Batches
  BY <1>2, <1>9 DEF Run
<1>11. \A b \in Batches : Fits(b)
  <2> SUFFICES ASSUME NEW b \in Batches
               PROVE  Fits(b)
    OBVIOUS
  <2>1. b.txs \in Seq(Tx) /\ b.bytes \in Nat /\ MaxBytes \in Nat /\ Size \in [Tx -> Nat]
    BY MempoolAssumption DEF MempoolAssumption, Batches
  <2>2. BytesOf(b.txs) \in Nat
    <3>1. PICK r2 : Summing(r2, Size, b.txs)
      BY <2>1, SumRuns
    <3> QED BY <2>1, <3>1 DEF Summing, BytesOf
  <2> QED BY <2>1, <2>2 DEF Fits, Batches
<1> QED BY <1>1, <1>10, <1>11
==============================================================================
