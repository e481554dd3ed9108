-------------------------- MODULE Agreement_proofs ---------------------------
EXTENDS Governance, Lobby, Induction, SequenceTheorems

(* Governance for every number of accounts, proposals and votes, and every
   length of the two periods.

   A queue is sound (Queue) when it holds each proposal of a set once, in the
   order of the ends: what the end of a block takes from its front is then all
   that is over.  A queue stays in that order because an end is the time of the
   block plus a constant, and no end is later than that (Known). *)

(* What the queue q must be for the proposals S with the ends e. *)
Queue(q, S, e) ==
    /\ q \in Seq(Ids)
    /\ \A i, j \in 1..Len(q) : i # j => q[i] # q[j]
    /\ S = {q[i] : i \in 1..Len(q)}
    /\ \A i, j \in 1..Len(q) : i < j => e[q[i]] <= e[q[j]]

LEMMA QueueAppend ==
  ASSUME NEW q, NEW S, NEW e \in [Ids -> Int], Queue(q, S, e),
         NEW id \in Ids, id \notin S, \A x \in S : e[x] <= e[id]
  PROVE  Queue(Append(q, id), S \cup {id}, e)
<1> DEFINE r == Append(q, id)
<1>1. q \in Seq(Ids) /\ Len(q) \in Nat
  BY DEF Queue
<1>2. /\ r \in Seq(Ids) /\ Len(r) = Len(q) + 1 /\ r[Len(q) + 1] = id
      /\ \A i \in 1..Len(q) : r[i] = q[i] /\ q[i] \in S
  BY <1>1 DEF Queue
<1> HIDE DEF r
<1>3. \A i \in 1..Len(r) : i \in 1..Len(q) \/ i = Len(q) + 1
  BY <1>1, <1>2
<1>4. \A i, j \in 1..Len(r) : i # j => r[i] # r[j]
  BY <1>2, <1>3 DEF Queue
<1>5. S \cup {id} = {r[i] : i \in 1..Len(r)}
  <2>1. S = {q[i] : i \in 1..Len(q)}
    BY DEF Queue
  <2>2. \A x \in S : \E i \in 1..Len(r) : x = r[i]
    BY <1>1, <1>2, <2>1
  <2>3. \A i \in 1..Len(r) : r[i] \in S \cup {id}
    BY <1>2, <1>3
  <2>4. Len(q) + 1 \in 1..Len(r)
    BY <1>1, <1>2
  <2> QED BY <1>2, <2>2, <2>3, <2>4
<1>6. ASSUME NEW i \in 1..Len(r), NEW j \in 1..Len(r), i < j
      PROVE  e[r[i]] <= e[r[j]]
  <2>1. i \in 1..Len(q)
    BY <1>1, <1>2, <1>6
  <2>2. CASE j \in 1..Len(q)
    BY <1>2, <1>6, <2>1, <2>2 DEF Queue
  <2>3. CASE j = Len(q) + 1
    BY <1>2, <2>1, <2>3
  <2> QED BY <1>3, <2>2, <2>3
<1> QED BY <1>2, <1>4, <1>5, <1>6 DEF Queue, r

LEMMA QueueSame ==
  ASSUME NEW q, NEW S, NEW e, NEW f, Queue(q, S, e), \A x \in S : f[x] = e[x]
  PROVE  Queue(q, S, f)
<1>1. \A i \in 1..Len(q) : f[q[i]] = e[q[i]]
  BY DEF Queue
<1> QED BY <1>1 DEF Queue

(* Taking the first k out. *)
LEMMA QueueSpliced ==
  ASSUME NEW q, NEW S, NEW e \in [Ids -> Int], Queue(q, S, e), NEW k \in 0..Len(q)
  PROVE  Queue(Spliced(q, k), S \ {q[i] : i \in 1..k}, e)
<1> DEFINE r == Spliced(q, k)
<1>1. q \in Seq(Ids) /\ Len(q) \in Nat /\ k + 1 \in 1..(Len(q) + 1)
  BY DEF Queue
<1>2. /\ r \in Seq(Ids) /\ Len(r) = Len(q) - k
      /\ \A i \in 1..Len(r) : r[i] = q[i + k] /\ i + k \in 1..Len(q)
  BY <1>1 DEF Spliced
<1> HIDE DEF r
<1>3. \A i \in 1..Len(q) : i > k => i - k \in 1..Len(r) /\ (i - k) + k = i
  BY <1>1, <1>2
<1>4. ASSUME NEW i \in 1..Len(r), NEW j \in 1..Len(r)
      PROVE  (i # j => r[i] # r[j]) /\ (i < j => e[r[i]] <= e[r[j]])
  <2>1. r[i] = q[i + k] /\ r[j] = q[j + k] /\ i + k \in 1..Len(q) /\ j + k \in 1..Len(q)
    BY <1>2
  <2>2. (i # j => i + k # j + k) /\ (i < j => i + k < j + k)
    BY <1>1
  <2> QED BY <2>1, <2>2 DEF Queue
<1>6. ASSUME NEW x \in S \ {q[i] : i \in 1..k}
      PROVE  \E i \in 1..Len(r) : x = r[i]
  <2>1. PICK i \in 1..Len(q) : x = q[i]
    BY DEF Queue
  <2>2. i > k
    BY <1>1, <2>1
  <2> QED BY <1>2, <1>3, <2>1, <2>2
<1>7. ASSUME NEW i \in 1..Len(r)
      PROVE  r[i] \in S \ {q[j] : j \in 1..k}
  <2>1. r[i] = q[i + k] /\ i + k \in 1..Len(q) /\ \A j \in 1..k : j \in 1..Len(q) /\ j # i + k
    BY <1>1, <1>2
  <2> QED BY <2>1 DEF Queue
<1>8. S \ {q[i] : i \in 1..k} = {r[i] : i \in 1..Len(r)}
  BY <1>6, <1>7
<1> QED BY <1>2, <1>4, <1>8 DEF Queue, r

(* Taking one proposal out, wherever it is. *)
LEMMA QueueRemove ==
  ASSUME NEW q, NEW S, NEW e \in [Ids -> Int], Queue(q, S, e), NEW id \in S
  PROVE  Queue(RemoveActive(q, id), S \ {id}, e)
<1> DEFINE Places == {i \in 1..Len(q) : q[i] = id}
<1>1. q \in Seq(Ids) /\ Len(q) \in Nat
  BY DEF Queue
<1>2. PICK k \in 1..Len(q) : q[k] = id
  BY DEF Queue
<1>3. Places = {k}
  BY <1>2 DEF Queue
<1> DEFINE r == RemoveActive(q, id)
           a == SubSeq(q, 1, k - 1)
           b == SubSeq(q, k + 1, Len(q))
<1>4. r = a \o b
  <2>1. SelectInSeq(q, LAMBDA v : v = id) = k
    <3>1. SelectInSeq(q, LAMBDA v : v = id) = IF Places # {} THEN Min(Places) ELSE 0
      BY Zenon DEF SelectInSeq
    <3>2. Min({k}) = k
      BY <1>1, <1>2 DEF Min
    <3> QED BY <1>3, <3>1, <3>2
  <2>2. \E i \in 1..Len(q) : q[i] = id
    BY <1>2
  <2>3. r = RemoveAt(q, SelectInSeq(q, LAMBDA v : v = id))
    BY <2>2, Zenon DEF RemoveActive, RemoveFirst
  <2> QED BY <2>1, <2>3 DEF RemoveAt
<1>5. /\ a \in Seq(Ids) /\ Len(a) = k - 1 /\ \A i \in 1..(k - 1) : a[i] = q[i]
      /\ b \in Seq(Ids) /\ Len(b) = Len(q) - k /\ \A i \in 1..(Len(q) - k) : b[i] = q[k + i]
  BY <1>1, <1>2
<1> HIDE DEF a, b, r
<1> DEFINE From(i) == IF i < k THEN i ELSE i + 1
<1>6. /\ r \in Seq(Ids) /\ Len(r) = Len(q) - 1
      /\ \A i \in 1..Len(r) : r[i] = q[From(i)] /\ From(i) \in 1..Len(q) /\ From(i) # k
  <2>1. /\ a \o b \in Seq(Ids) /\ Len(a \o b) = Len(a) + Len(b)
        /\ \A i \in 1..(Len(a) + Len(b)) : (a \o b)[i] = IF i <= Len(a) THEN a[i] ELSE b[i - Len(a)]
    BY <1>5, ConcatProperties
  <2>2. Len(r) = Len(q) - 1 /\ k \in Int
    BY <1>1, <1>2, <1>4, <1>5, <2>1
  <2>3. ASSUME NEW i \in 1..Len(r)
        PROVE  r[i] = q[From(i)] /\ From(i) \in 1..Len(q) /\ From(i) # k
    <3>1. CASE i < k
      <4>1. i \in 1..(k - 1) /\ i <= Len(a) /\ i \in 1..(Len(a) + Len(b)) /\ i \in 1..Len(q)
        BY <1>1, <1>2, <1>5, <2>2, <3>1
      <4>2. r[i] = a[i] /\ a[i] = q[i]
        BY <1>4, <1>5, <2>1, <4>1
      <4> QED BY <1>2, <3>1, <4>1, <4>2
    <3>2. CASE ~ (i < k)
      <4>1. i - (k - 1) \in 1..(Len(q) - k) /\ k + (i - (k - 1)) = i + 1
        BY <1>1, <1>2, <2>2, <3>2
      <4>2. ~ (i <= Len(a)) /\ i \in 1..(Len(a) + Len(b)) /\ i - Len(a) = i - (k - 1)
            /\ i + 1 \in 1..Len(q) /\ i + 1 # k
        BY <1>1, <1>2, <1>5, <2>2, <3>2
      <4>3. r[i] = b[i - (k - 1)]
        BY <1>4, <2>1, <4>2
      <4>4. b[i - (k - 1)] = q[i + 1]
        BY <1>5, <4>1
      <4>5. From(i) = i + 1
        BY <3>2
      <4> HIDE DEF From
      <4> QED BY <4>2, <4>3, <4>4, <4>5
    <3> QED BY <3>1, <3>2
  <2> QED BY <1>4, <2>1, <2>2, <2>3
<1>7. \A i, j \in 1..Len(r) : (i < j => From(i) < From(j)) /\ (i # j => From(i) # From(j))
  <2>1. Len(r) \in Int /\ k \in Int
    BY <1>1, <1>2, <1>6
  <2>2. \A i, j \in Int : i < j => From(i) < From(j)
    BY <2>1
  <2>3. \A i, j \in 1..Len(r) : i \in Int /\ j \in Int /\ From(i) \in Int /\ From(j) \in Int
    BY <2>1
  <2> HIDE DEF From
  <2> QED BY <2>2, <2>3
<1>8. \A i \in 1..Len(q) : i # k => \E j \in 1..Len(r) : From(j) = i
  <2> SUFFICES ASSUME NEW i \in 1..Len(q), i # k
               PROVE  \E j \in 1..Len(r) : From(j) = i
    OBVIOUS
  <2>1. CASE i < k
    <3>1. i \in 1..Len(r) /\ From(i) = i
      BY <1>1, <1>2, <1>6, <2>1
    <3> QED BY <3>1
  <2>2. CASE i > k
    <3>1. i - 1 \in 1..Len(r) /\ From(i - 1) = i
      BY <1>1, <1>2, <1>6, <2>2
    <3> QED BY <3>1
  <2> QED BY <1>1, <1>2, <2>1, <2>2
<1> HIDE DEF From
<1>9. \A i, j \in 1..Len(r) : i # j => r[i] # r[j]
  BY <1>6, <1>7 DEF Queue
<1>10. \A i, j \in 1..Len(r) : i < j => e[r[i]] <= e[r[j]]
  <2> SUFFICES ASSUME NEW i \in 1..Len(r), NEW j \in 1..Len(r), i < j
               PROVE  e[r[i]] <= e[r[j]]
    OBVIOUS
  <2>1. r[i] = q[From(i)] /\ r[j] = q[From(j)] /\ From(i) < From(j)
        /\ From(i) \in 1..Len(q) /\ From(j) \in 1..Len(q)
    BY <1>6, <1>7
  <2> QED BY <2>1 DEF Queue
<1>11. S \ {id} = {r[i] : i \in 1..Len(r)}
  <2>1. \A i \in 1..Len(r) : r[i] \in S \ {id}
    BY <1>2, <1>6 DEF Queue
  <2>2. ASSUME NEW x \in S \ {id}
        PROVE  \E i \in 1..Len(r) : x = r[i]
    <3>1. PICK i \in 1..Len(q) : x = q[i]
      BY DEF Queue
    <3> QED BY <1>2, <1>6, <1>8, <3>1
  <2> QED BY <2>1, <2>2
<1> QED BY <1>6, <1>9, <1>10, <1>11 DEF Queue, r

(* What is over at the front of a queue: all of it, and what follows is not. *)
LEMMA EndingIsLast ==
  ASSUME NEW q \in Seq(Ids), NEW over
  PROVE  /\ Ending(q, over) \in 0..Len(q)
         /\ \A i \in 1..Ending(q, over) : q[i] \in over
         /\ Ending(q, over) < Len(q) => q[Ending(q, over) + 1] \notin over
<1> DEFINE fronts == {n \in 0..Len(q) : \A i \in 1..n : q[i] \in over}
           Rest == {k \in Nat : k <= Len(q) /\ Len(q) - k \in fronts}
<1>1. Len(q) \in Nat
  OBVIOUS
<1>2. 0 \in fronts
  BY <1>1
<1>3. PICK k \in Rest : \A j \in Rest : k <= j
  <2>1. Rest \subseteq Nat /\ Len(q) \in Rest
    BY <1>1, <1>2
  <2> HIDE DEF Rest
  <2> QED BY <2>1, NatMinimum
<1>4. Len(q) - k \in fronts /\ k \in Nat
  BY <1>3
<1>5. \A m \in fronts : m <= Len(q) - k
  <2> SUFFICES ASSUME NEW m \in fronts
               PROVE  m <= Len(q) - k
    OBVIOUS
  <2>1. Len(q) - m \in Rest
    <3>1. m \in 0..Len(q)
      OBVIOUS
    <3> HIDE DEF fronts
    <3> QED BY <1>1, <3>1
  <2>2. k <= Len(q) - m /\ m \in Int
    <3>1. m \in 0..Len(q)
      OBVIOUS
    <3> HIDE DEF Rest
    <3> QED BY <1>3, <2>1, <3>1
  <2> QED BY <1>1, <1>4, <2>2
<1> DEFINE n == Ending(q, over)
<1>6. n \in fronts /\ \A m \in fronts : m <= n
  <2>1. n = CHOOSE x \in fronts : \A m \in fronts : m <= x
    BY DEF Ending
  <2> HIDE DEF fronts, n
  <2> QED BY <1>4, <1>5, <2>1
<1> HIDE DEF n
<1>7. n \in 0..Len(q) /\ \A i \in 1..n : q[i] \in over
  BY <1>6
<1>8. ASSUME n < Len(q), q[n + 1] \in over
      PROVE  FALSE
  <2>1. n + 1 \in fronts
    BY <1>1, <1>7, <1>8
  <2> QED BY <1>6, <1>7, <2>1
<1> QED BY <1>7, <1>8 DEF n

------------------------------------------------------------------------------
DepositEnds(p) == [id \in Ids |-> IF p[id] = Absent THEN 0 ELSE p[id].depositEnd]
VotingEnds(p) == [id \in Ids |-> IF p[id] = Absent THEN 0 ELSE p[id].votingEnd]
InDeposit(p) == {id \in Ids : p[id].status = "deposit"}
Open(p, time) == {id \in Ids : p[id].status = "voting" /\ p[id].votingEnd > time}

(* Identifiers are given in order, and no period ends later than one that
   starts now. *)
Known ==
    \A id \in Ids : Exists(id) =>
        /\ id <= lastId
        /\ proposals[id].depositEnd <= now + DepositPeriod
        /\ proposals[id].votingEnd <= now + VotingPeriod

DepositQueue ==
    /\ Queue(activeDeposit, InDeposit(proposals), DepositEnds(proposals))
    /\ \A id \in InDeposit(proposals) : proposals[id].depositEnd > ended

VotingQueue == Queue(activeVoting, Open(proposals, ended), VotingEnds(proposals))

IInv ==
    /\ TypeOK /\ now = ended + 1 /\ Known
    /\ DepositQueue /\ VotingQueue /\ DepositsHeld

(* The step of DecidedOnce. *)
StaysDecided ==
    \A id \in Ids : proposals[id].status \in {"passed", "failed", "rejected"} =>
        proposals'[id].status = proposals[id].status

StepSound == IInv' /\ StaysDecided

Inputs ==
    /\ DepositPeriod \in Nat /\ VotingPeriod \in Nat /\ StartingId \in Nat /\ MaxProposals \in Nat
    /\ \A x \in Amounts : x \in Nat

LEMMA InputsHold == Inputs
  BY GovernanceAssumption DEF GovernanceAssumption, Inputs

LEMMA IdsFinite == IsFiniteSet(Ids) /\ Ids \subseteq Nat
<1>1. StartingId + 1 \in Int /\ StartingId + MaxProposals \in Int
  BY InputsHold DEF Inputs
<1> QED BY <1>1, FS_Interval, InputsHold DEF Ids, Inputs

(* A proposal is there when it has a status. *)
LEMMA ProposalOrAbsent ==
  ASSUME NEW p \in [Ids -> Proposal \cup {Absent}], NEW id \in Ids
  PROVE  /\ p[id] # Absent => p[id] \in Proposal
         /\ p[id] = Absent <=> p[id].status \notin {"deposit", "voting", "passed", "failed", "rejected"}
         /\ p[id] = Absent => p[id].status = "absent"
<1>1. p[id] \in Proposal \/ p[id] = Absent
  OBVIOUS
<1>2. Absent.status = "absent"
  BY DEF Absent
<1>3. p[id] \in Proposal => p[id].status \in {"deposit", "voting", "passed", "failed", "rejected"}
  BY DEF Proposal
<1> QED BY <1>1, <1>2, <1>3

LEMMA EndsTyped ==
  ASSUME NEW p \in [Ids -> Proposal \cup {Absent}]
  PROVE  /\ DepositEnds(p) \in [Ids -> Int] /\ VotingEnds(p) \in [Ids -> Int]
         /\ \A id \in Ids : p[id] # Absent =>
               /\ DepositEnds(p)[id] = p[id].depositEnd /\ VotingEnds(p)[id] = p[id].votingEnd
               /\ p[id].depositEnd \in Nat /\ p[id].votingEnd \in Nat /\ p[id].total \in Nat
<1>1. \A id \in Ids : p[id] # Absent =>
         p[id].depositEnd \in Nat /\ p[id].votingEnd \in Nat /\ p[id].total \in Nat
  BY ProposalOrAbsent DEF Proposal
<1> QED BY <1>1 DEF DepositEnds, VotingEnds

(* The sum of the deposits is that of the fold. *)
Totals(p) == [id \in Ids |-> IF p[id] # Absent THEN p[id].total ELSE 0]

LEMMA HeldIsTotal ==
  /\ DepositsHeld <=> Total(Totals(proposals)) <= held + spent
  /\ DepositsHeld' <=> Total(Totals(proposals')) <= held' + spent'
<1>1. Deposited = Totals(proposals) /\ Deposited' = Totals(proposals')
  BY DEF Deposited, Totals, Exists
<1>2. SumOf(Deposited) = Total(Deposited) /\ SumOf(Deposited') = Total(Deposited')
  BY DEF SumOf, Total
<1> QED BY <1>1, <1>2 DEF DepositsHeld

LEMMA TotalsTyped ==
  ASSUME NEW p \in [Ids -> Proposal \cup {Absent}]
  PROVE  Totals(p) \in [Ids -> Int] /\ Total(Totals(p)) \in Int
<1>1. Totals(p) \in [Ids -> Int]
  BY EndsTyped DEF Totals
<1> QED BY <1>1, TotalType, IdsFinite

LEMMA InitInv == Init => IInv
<1> SUFFICES ASSUME Init
             PROVE  IInv
  OBVIOUS
<1>1. TypeOK
  BY GovernanceAssumption, InputsHold DEF Init, TypeOK, GovernanceAssumption, Inputs
<1>2. proposals = [id \in Ids |-> Absent] /\ \A id \in Ids : proposals[id].status = "absent"
  BY DEF Init, Absent
<1>3. Known /\ now = ended + 1
  BY <1>2 DEF Known, Exists, Init
<1>4. InDeposit(proposals) = {} /\ Open(proposals, ended) = {}
  BY <1>2 DEF InDeposit, Open
<1>5. \A e : Queue(<<>>, {}, e)
  BY DEF Queue
<1>6. DepositQueue /\ VotingQueue
  BY <1>4, <1>5 DEF DepositQueue, VotingQueue, Init
<1>7. DepositsHeld
  <2>1. Totals(proposals) = [id \in Ids |-> 0]
    BY <1>2 DEF Totals
  <2>2. Total(Totals(proposals)) = 0
    BY <2>1, TotalOfZeros, IdsFinite
  <2> QED BY <2>2, HeldIsTotal DEF Init
<1> QED BY <1>1, <1>3, <1>6, <1>7 DEF IInv

------------------------------------------------------------------------------
(* A queue of the proposals, when another one has changed. *)
LEMMA QueueKept ==
  ASSUME NEW p \in [Ids -> Proposal \cup {Absent}], NEW r \in [Ids -> Proposal \cup {Absent}],
         NEW q, NEW S,
         \A id \in S : id \in Ids /\ p[id] # Absent /\ r[id] # Absent
                       /\ r[id].depositEnd = p[id].depositEnd /\ r[id].votingEnd = p[id].votingEnd
  PROVE  /\ Queue(q, S, DepositEnds(p)) => Queue(q, S, DepositEnds(r))
         /\ Queue(q, S, VotingEnds(p)) => Queue(q, S, VotingEnds(r))
<1>1. \A id \in S : DepositEnds(r)[id] = DepositEnds(p)[id] /\ VotingEnds(r)[id] = VotingEnds(p)[id]
  BY EndsTyped
<1> QED BY <1>1, QueueSame

(* Two states of the proposals that differ in their tallies only. *)
SameButTallies(p, r) ==
    \A x \in Ids :
        /\ r[x].status = p[x].status
        /\ r[x] = Absent <=> p[x] = Absent
        /\ p[x] # Absent => /\ r[x].total = p[x].total
                            /\ r[x].depositEnd = p[x].depositEnd
                            /\ r[x].votingEnd = p[x].votingEnd

LEMMA SameSets ==
  ASSUME NEW p \in [Ids -> Proposal \cup {Absent}], NEW r, SameButTallies(p, r), NEW time
  PROVE  /\ InDeposit(r) = InDeposit(p) /\ Open(r, time) = Open(p, time) /\ Totals(r) = Totals(p)
         /\ \A x \in InDeposit(p) \cup Open(p, time) :
               /\ x \in Ids /\ p[x] # Absent /\ r[x] # Absent
               /\ r[x].depositEnd = p[x].depositEnd /\ r[x].votingEnd = p[x].votingEnd
<1>1. \A x \in Ids : p[x] = Absent => p[x].status = "absent"
  BY ProposalOrAbsent
<1>2. \A x \in Ids : p[x].status \in {"deposit", "voting"} =>
         p[x] # Absent /\ r[x] # Absent /\ r[x].depositEnd = p[x].depositEnd /\ r[x].votingEnd = p[x].votingEnd
  BY <1>1 DEF SameButTallies
<1>3. InDeposit(r) = InDeposit(p)
  BY DEF InDeposit, SameButTallies
<1>4. Open(r, time) = Open(p, time)
  <2>1. \A x \in Ids : (r[x].status = "voting" /\ r[x].votingEnd > time)
                         <=> (p[x].status = "voting" /\ p[x].votingEnd > time)
    BY <1>2 DEF SameButTallies
  <2> QED BY <2>1 DEF Open
<1>5. Totals(r) = Totals(p)
  <2>1. \A x \in Ids : (IF r[x] # Absent THEN r[x].total ELSE 0) = (IF p[x] # Absent THEN p[x].total ELSE 0)
    BY DEF SameButTallies
  <2> QED BY <2>1 DEF Totals
<1>6. \A x \in InDeposit(p) \cup Open(p, time) : x \in Ids /\ p[x].status \in {"deposit", "voting"}
  BY DEF InDeposit, Open
<1> QED BY <1>2, <1>3, <1>4, <1>5, <1>6

(* Votes change nothing but a tally. *)
LEMMA TalliedStep ==
  ASSUME IInv, NEW id \in Ids, NEW amounts \in [Options -> Nat],
         Exists(id), Tallied(id, amounts)
  PROVE  StepSound
<1> DEFINE p == proposals
           r == proposals'
           tally == [o \in Options |-> p[id].tally[o] + amounts[o]]
<1>1. p \in [Ids -> Proposal \cup {Absent}] /\ p[id] \in Proposal
  BY ProposalOrAbsent DEF IInv, TypeOK, Exists
<1>2. tally \in [Options -> Nat]
  BY <1>1 DEF Proposal
<1>3. r = [p EXCEPT ![id] = [p[id] EXCEPT !.tally = tally]]
  BY DEF Tallied
<1> HIDE DEF tally
<1>4. r \in [Ids -> Proposal \cup {Absent}] /\ SameButTallies(p, r)
  <2> DEFINE u == [p[id] EXCEPT !.tally = tally]
  <2>1. /\ u \in Proposal /\ u.status = p[id].status /\ u.total = p[id].total
        /\ u.depositEnd = p[id].depositEnd /\ u.votingEnd = p[id].votingEnd
    BY <1>1, <1>2 DEF Proposal
  <2> HIDE DEF u
  <2>2. r = [p EXCEPT ![id] = u]
    BY <1>3 DEF u
  <2>3. r \in [Ids -> Proposal \cup {Absent}]
    BY <1>1, <2>1, <2>2
  <2>4. r[id] = u /\ \A x \in Ids : x # id => r[x] = p[x]
    BY <1>1, <2>2
  <2>5. u # Absent /\ p[id] # Absent
    BY <1>1, <2>1, <2>3, <2>4, ProposalOrAbsent DEF Proposal
  <2> HIDE DEF r
  <2>6. SameButTallies(p, r)
    BY <2>1, <2>4, <2>5 DEF SameButTallies
  <2> QED BY <2>3, <2>6
<1>5. UNCHANGED <<now, ended, lastId, activeDeposit, activeVoting, wallet, held, spent>> /\ votes' = votes + 1
  BY DEF Tallied
<1>6. TypeOK'
  BY <1>4, <1>5 DEF IInv, TypeOK
<1>7. Known' /\ now' = ended' + 1
  BY <1>4, <1>5 DEF IInv, Known, Exists, SameButTallies
<1>8. /\ InDeposit(r) = InDeposit(p) /\ Open(r, ended) = Open(p, ended) /\ Totals(r) = Totals(p)
      /\ \A x \in InDeposit(p) \cup Open(p, ended) :
            /\ x \in Ids /\ p[x] # Absent /\ r[x] # Absent
            /\ r[x].depositEnd = p[x].depositEnd /\ r[x].votingEnd = p[x].votingEnd
  <2> HIDE DEF r, p
  <2> QED BY <1>1, <1>4, SameSets
<1>9. DepositQueue'
  <2>1. Queue(activeDeposit, InDeposit(p), DepositEnds(r))
    BY <1>1, <1>4, <1>8, QueueKept DEF IInv, DepositQueue
  <2> QED BY <1>5, <1>8, <2>1 DEF IInv, DepositQueue
<1>10. VotingQueue'
  <2>1. Queue(activeVoting, Open(p, ended), VotingEnds(r))
    BY <1>1, <1>4, <1>8, QueueKept DEF IInv, VotingQueue
  <2> QED BY <1>5, <1>8, <2>1 DEF VotingQueue
<1>11. DepositsHeld'
  BY <1>5, <1>8, HeldIsTotal DEF IInv
<1>12. StaysDecided
  BY <1>4 DEF StaysDecided, SameButTallies
<1> QED BY <1>6, <1>7, <1>9, <1>10, <1>11, <1>12 DEF IInv, StepSound

LEMMA VoteSteps ==
  ASSUME IInv, NEW a \in Account, NEW id \in Ids
  PROVE  /\ \A option \in Options : DoVote(a, id, option) => StepSound
         /\ \A w \in Weights : VoteWeighted(a, id, w) => StepSound
<1>1. Stake[a] \in Nat
  BY GovernanceAssumption DEF GovernanceAssumption
<1>2. ASSUME NEW option \in Options, DoVote(a, id, option)
      PROVE  StepSound
  <2>1. [NoVotes EXCEPT ![option] = Stake[a]] \in [Options -> Nat]
    BY <1>1 DEF NoVotes
  <2> QED BY <1>2, <2>1, TalliedStep DEF DoVote
<1>3. ASSUME NEW w \in Weights, VoteWeighted(a, id, w)
      PROVE  StepSound
  <2>1. w \in [Options -> Nat]
    BY GovernanceAssumption DEF GovernanceAssumption
  <2>2. \A x \in Nat : x \div 10 \in Nat
    OBVIOUS
  <2>3. ASSUME NEW o \in Options
        PROVE  (Stake[a] * w[o]) \div 10 \in Nat
    <3>1. Stake[a] * w[o] \in Nat
      BY <1>1, <2>1
    <3> QED BY <2>2, <3>1
  <2>4. [o \in Options |-> (Stake[a] * w[o]) \div 10] \in [Options -> Nat]
    BY <2>3
  <2>5. Exists(id)
    <3>1. proposals[id].status = "voting"
      BY <1>3 DEF VoteWeighted
    <3> QED BY <3>1, ProposalOrAbsent DEF Exists, IInv, TypeOK
  <2> QED BY <1>3, <2>4, <2>5, TalliedStep DEF VoteWeighted
<1> QED BY <1>2, <1>3

------------------------------------------------------------------------------
(* What storing one proposal does to the sets and the sum. *)
Stored(p, id, u, r, time) ==
    /\ r \in [Ids -> Proposal \cup {Absent}] /\ r[id] = u /\ u # Absent
    /\ \A x \in Ids : x # id => r[x] = p[x]
    /\ u.status = "deposit" => InDeposit(r) = InDeposit(p) \cup {id}
    /\ u.status # "deposit" => InDeposit(r) = InDeposit(p) \ {id}
    /\ u.status = "voting" /\ u.votingEnd > time => Open(r, time) = Open(p, time) \cup {id}
    /\ u.status # "voting" => Open(r, time) = Open(p, time) \ {id}
    /\ p[id] = Absent => Total(Totals(r)) = Total(Totals(p)) + u.total
    /\ p[id] # Absent => Total(Totals(r)) = Total(Totals(p)) + u.total - p[id].total

LEMMA StoredSets ==
  ASSUME NEW p \in [Ids -> Proposal \cup {Absent}], NEW id \in Ids, NEW u \in Proposal, NEW time
  PROVE  Stored(p, id, u, [p EXCEPT ![id] = u], time)
<1> DEFINE r == [p EXCEPT ![id] = u]
<1>1. r \in [Ids -> Proposal \cup {Absent}] /\ r[id] = u /\ \A x \in Ids : x # id => r[x] = p[x]
  OBVIOUS
<1> HIDE DEF r
<1>2. u # Absent
  BY <1>1, ProposalOrAbsent DEF Proposal
<1>3. /\ u.status = "deposit" => InDeposit(r) = InDeposit(p) \cup {id}
      /\ u.status # "deposit" => InDeposit(r) = InDeposit(p) \ {id}
  BY <1>1 DEF InDeposit
<1>4. /\ u.status = "voting" /\ u.votingEnd > time => Open(r, time) = Open(p, time) \cup {id}
      /\ u.status # "voting" => Open(r, time) = Open(p, time) \ {id}
  BY <1>1 DEF Open
<1>5. /\ p[id] = Absent => Total(Totals(r)) = Total(Totals(p)) + u.total
      /\ p[id] # Absent => Total(Totals(r)) = Total(Totals(p)) + u.total - p[id].total
  <2>1. Totals(p) \in [Ids -> Int] /\ Totals(r) \in [Ids -> Int] /\ IsFiniteSet(Ids) /\ Total(Totals(p)) \in Int
    BY <1>1, TotalsTyped, IdsFinite
  <2>2. \A x \in Ids \ {id} : Totals(r)[x] = Totals(p)[x]
    BY <1>1 DEF Totals
  <2>3. Totals(r)[id] = u.total /\ (p[id] = Absent => Totals(p)[id] = 0) /\ (p[id] # Absent => Totals(p)[id] = p[id].total)
    BY <1>1, <1>2 DEF Totals
  <2>4. Total(Totals(r)) = Total(Totals(p)) + Totals(r)[id] - Totals(p)[id]
    BY <2>1, <2>2, TotalOfChange
  <2>5. Totals(r)[id] \in Int
    BY <2>1
  <2> QED BY <2>1, <2>3, <2>4, <2>5
<1>6. Stored(p, id, u, r, time)
  BY <1>1, <1>2, <1>3, <1>4, <1>5 DEF Stored
<1> QED BY <1>6 DEF r

(* A proposal that enters its voting period now goes to the end of the queue. *)
LEMMA EntersVoting ==
  ASSUME IInv, NEW id \in Ids, id \notin Open(proposals, ended), NEW u \in Proposal,
         u.status = "voting", u.votingEnd = now + VotingPeriod,
         NEW r, r = [proposals EXCEPT ![id] = u]
  PROVE  Queue(Append(activeVoting, id), Open(r, ended), VotingEnds(r))
<1> DEFINE S == Open(proposals, ended)
<1>1. proposals \in [Ids -> Proposal \cup {Absent}] /\ now \in Nat /\ ended \in Nat /\ now = ended + 1
  BY DEF IInv, TypeOK
<1>2. /\ r \in [Ids -> Proposal \cup {Absent}] /\ r[id] = u /\ u # Absent
      /\ \A x \in Ids : x # id => r[x] = proposals[x]
      /\ u.votingEnd > ended => Open(r, ended) = S \cup {id}
  <2>1. Stored(proposals, id, u, r, ended)
    BY <1>1, StoredSets
  <2> QED BY <2>1 DEF Stored
<1>3. \A x \in S : x \in Ids /\ proposals[x] # Absent
  BY <1>1, ProposalOrAbsent DEF Open
<1>4. Queue(activeVoting, S, VotingEnds(r))
  BY <1>1, <1>2, <1>3, QueueKept DEF IInv, VotingQueue
<1>5. VotingEnds(r) \in [Ids -> Int] /\ VotingEnds(r)[id] = u.votingEnd
      /\ \A x \in S : VotingEnds(r)[x] = proposals[x].votingEnd
  BY <1>2, <1>3, EndsTyped
<1>6. \A x \in S : proposals[x].votingEnd <= now + VotingPeriod
  BY <1>3 DEF IInv, Known, Exists
<1>7. u.votingEnd > ended
  BY <1>1, InputsHold DEF Inputs
<1> HIDE DEF S
<1>8. Queue(Append(activeVoting, id), S \cup {id}, VotingEnds(r))
  BY <1>4, <1>5, <1>6, QueueAppend DEF S
<1> QED BY <1>2, <1>7, <1>8

(* The queue of votes when a proposal changes that is not voted on. *)
LEMMA StaysOutOfVoting ==
  ASSUME IInv, NEW id \in Ids, id \notin Open(proposals, ended), NEW u \in Proposal,
         u.status = "deposit", NEW r, r = [proposals EXCEPT ![id] = u]
  PROVE  Queue(activeVoting, Open(r, ended), VotingEnds(r))
<1> DEFINE S == Open(proposals, ended)
<1>1. proposals \in [Ids -> Proposal \cup {Absent}]
  BY DEF IInv, TypeOK
<1>2. /\ r \in [Ids -> Proposal \cup {Absent}]
      /\ \A x \in Ids : x # id => r[x] = proposals[x]
      /\ Open(r, ended) = S
  <2>1. Stored(proposals, id, u, r, ended)
    BY <1>1, StoredSets
  <2>2. Open(r, ended) = S \ {id}
    BY <2>1 DEF Stored
  <2>3. Open(r, ended) = S
    <3> HIDE DEF S
    <3>1. id \notin S
      BY DEF S
    <3> QED BY <2>2, <3>1
  <2> HIDE DEF S
  <2> QED BY <2>1, <2>3 DEF Stored
<1>3. \A x \in S : x \in Ids /\ proposals[x] # Absent
  BY <1>1, ProposalOrAbsent DEF Open
<1>4. Queue(activeVoting, S, VotingEnds(r))
  BY <1>1, <1>2, <1>3, QueueKept DEF IInv, VotingQueue
<1> QED BY <1>2, <1>4

LEMMA Paid ==
  ASSUME IInv, NEW a \in Account, NEW amount \in Nat, PayFrom(a, amount)
  PROVE  /\ wallet' \in [Account -> Nat] /\ held' \in Nat /\ held' = held + amount /\ held \in Nat
         /\ spent' = spent /\ spent \in Nat
<1>1. wallet \in [Account -> Nat] /\ held \in Nat /\ spent \in Nat /\ wallet[a] >= amount
  BY DEF IInv, TypeOK, PayFrom
<1>2. wallet[a] - amount \in Nat
  BY <1>1
<1>3. wallet' = [wallet EXCEPT ![a] = wallet[a] - amount] /\ held' = held + amount /\ spent' = spent
  BY DEF PayFrom
<1> QED BY <1>1, <1>2, <1>3

LEMMA PaidByMessages ==
  ASSUME IInv, NEW executed, NEW amount \in Nat, NEW to \in Account, PaidBy(executed, amount, to)
  PROVE  /\ wallet' \in [Account -> Nat] /\ held' \in Nat /\ spent' \in Nat
         /\ held' + spent' = held + spent
<1>1. wallet \in [Account -> Nat] /\ held \in Nat /\ spent \in Nat
  BY DEF IInv, TypeOK
<1>2. /\ held >= amount /\ held' = held - amount /\ spent' = spent + amount
      /\ wallet' = [wallet EXCEPT ![to] = wallet[to] + amount]
  BY DEF PaidBy
<1> QED BY <1>1, <1>2

LEMMA SubmitStep ==
  ASSUME IInv, NEW a \in Account, NEW amount \in Amounts, SubmitProposal(a, amount)
  PROVE  StepSound
<1> DEFINE p0 == [status |-> "deposit", total |-> amount, tally |-> NoVotes,
                  depositEnd |-> now + DepositPeriod, votingEnd |-> 0]
           u == IF Enough(amount) THEN InVoting(p0) ELSE p0
           id == lastId + 1
           p == proposals
           r == proposals'
<1>0. now \in Nat /\ ended \in Nat /\ now = ended + 1 /\ lastId \in Nat /\ amount \in Nat
      /\ DepositPeriod \in Nat /\ VotingPeriod \in Nat
  BY InputsHold DEF IInv, TypeOK, Inputs
<1>1. /\ id \in Ids /\ PayFrom(a, amount) /\ lastId' = id
      /\ r = [p EXCEPT ![id] = u]
      /\ activeDeposit' = (IF Enough(amount) THEN activeDeposit ELSE Append(activeDeposit, id))
      /\ activeVoting' = (IF Enough(amount) THEN Append(activeVoting, id) ELSE activeVoting)
      /\ UNCHANGED <<now, ended, votes>>
  BY DEF SubmitProposal
<1>2. /\ u \in Proposal /\ u.total = amount /\ u.depositEnd = now + DepositPeriod
      /\ Enough(amount) => u.status = "voting" /\ u.votingEnd = now + VotingPeriod
      /\ ~Enough(amount) => u.status = "deposit" /\ u.votingEnd = 0
  <2>1. NoVotes \in [Options -> Nat] /\ now + DepositPeriod \in Nat /\ now + VotingPeriod \in Nat
    BY <1>0 DEF NoVotes
  <2> QED BY <1>0, <2>1 DEF Proposal, InVoting
<1>3. p \in [Ids -> Proposal \cup {Absent}]
  BY DEF IInv, TypeOK
<1>4. p[id] = Absent /\ p[id].status = "absent"
  <2>1. ~Exists(id)
    BY <1>0, <1>1 DEF IInv, Known
  <2> QED BY <1>1, <1>3, <2>1, ProposalOrAbsent DEF Exists
<1> HIDE DEF u, id
<1>5. /\ r \in [Ids -> Proposal \cup {Absent}] /\ r[id] = u /\ u # Absent
      /\ \A x \in Ids : x # id => r[x] = p[x]
      /\ u.status = "deposit" => InDeposit(r) = InDeposit(p) \cup {id}
      /\ u.status # "deposit" => InDeposit(r) = InDeposit(p) \ {id}
      /\ Total(Totals(r)) = Total(Totals(p)) + u.total
  <2>1. Stored(p, id, u, r, ended)
    BY <1>1, <1>2, <1>3, StoredSets
  <2> QED BY <1>4, <2>1 DEF Stored
<1>6. id \notin InDeposit(p) /\ id \notin Open(p, ended)
  BY <1>4 DEF InDeposit, Open
<1>7. VotingQueue'
  <2>1. CASE Enough(amount)
    BY <1>1, <1>2, <1>6, <2>1, EntersVoting DEF VotingQueue
  <2>2. CASE ~Enough(amount)
    BY <1>1, <1>2, <1>6, <2>2, StaysOutOfVoting DEF VotingQueue
  <2> QED BY <2>1, <2>2
<1>8. DepositQueue'
  <2> DEFINE S == InDeposit(p)
             e == DepositEnds(r)
  <2>1. \A x \in S : x \in Ids /\ x # id /\ p[x] # Absent /\ r[x] = p[x]
    BY <1>3, <1>5, <1>6, ProposalOrAbsent DEF InDeposit
  <2>2. Queue(activeDeposit, S, e)
    BY <1>3, <1>5, <2>1, QueueKept DEF IInv, DepositQueue
  <2>3. e \in [Ids -> Int] /\ e[id] = u.depositEnd /\ \A x \in S : e[x] = p[x].depositEnd
    BY <1>1, <1>5, <2>1, EndsTyped
  <2>4. \A x \in S : p[x].depositEnd <= now + DepositPeriod /\ p[x].depositEnd > ended
    BY <2>1 DEF IInv, Known, Exists, DepositQueue
  <2> HIDE DEF S, e
  <2>5. CASE Enough(amount)
    <3>1. InDeposit(r) = S
      BY <1>2, <1>5, <1>6, <2>5 DEF S
    <3>2. \A x \in S : r[x].depositEnd > ended
      BY <2>1, <2>4
    <3> QED BY <1>1, <2>2, <2>5, <3>1, <3>2 DEF DepositQueue, e
  <2>6. CASE ~Enough(amount)
    <3>1. InDeposit(r) = S \cup {id}
      BY <1>2, <1>5, <2>6 DEF S
    <3>2. Queue(Append(activeDeposit, id), S \cup {id}, e)
      BY <1>1, <1>2, <1>6, <2>2, <2>3, <2>4, QueueAppend DEF S
    <3>3. r[id].depositEnd > ended
      BY <1>0, <1>2, <1>5
    <3>4. \A x \in S \cup {id} : r[x].depositEnd > ended
      BY <2>1, <2>4, <3>3
    <3> QED BY <1>1, <2>6, <3>1, <3>2, <3>4 DEF DepositQueue, e
  <2> QED BY <2>5, <2>6
<1>9. TypeOK'
  <2>1. activeDeposit' \in Seq(Ids) /\ activeVoting' \in Seq(Ids)
    BY <1>7, <1>8 DEF DepositQueue, VotingQueue, Queue
  <2>2. wallet' \in [Account -> Nat] /\ held' \in Nat /\ spent' \in Nat
    BY <1>0, <1>1, Paid
  <2>3. lastId' \in Nat
    BY <1>0, <1>1 DEF id
  <2> QED BY <1>1, <1>5, <2>1, <2>2, <2>3 DEF IInv, TypeOK
<1>10. Known'
  <2>1. ASSUME NEW x \in Ids, r[x] # Absent
        PROVE  /\ x <= lastId' /\ r[x].depositEnd <= now + DepositPeriod
               /\ r[x].votingEnd <= now + VotingPeriod
    <3>1. CASE x = id
      BY <1>0, <1>1, <1>2, <1>5, <3>1 DEF id
    <3>2. CASE x # id
      <4>1. r[x] = p[x] /\ Exists(x)
        BY <1>5, <2>1, <3>2 DEF Exists
      <4>2. x <= lastId /\ x \in Int
        BY <4>1, IdsFinite DEF IInv, Known
      <4> QED BY <1>0, <1>1, <4>1, <4>2 DEF IInv, Known, id
    <3> QED BY <3>1, <3>2
  <2> QED BY <1>1, <2>1 DEF Known, Exists
<1>11. DepositsHeld'
  <2>1. Total(Totals(r)) = Total(Totals(p)) + amount /\ Total(Totals(p)) \in Int
    BY <1>2, <1>3, <1>4, <1>5, TotalsTyped, <1>0
  <2>2. held' = held + amount /\ held \in Nat /\ spent' = spent /\ spent \in Nat
    BY <1>0, <1>1, Paid
  <2>3. Total(Totals(p)) <= held + spent
    BY HeldIsTotal DEF IInv
  <2> QED BY <1>0, <2>1, <2>2, <2>3, HeldIsTotal
<1>12. StaysDecided
  BY <1>4, <1>5 DEF StaysDecided
<1>13. now' = ended' + 1
  BY <1>0, <1>1
<1> QED BY <1>7, <1>8, <1>9, <1>10, <1>11, <1>12, <1>13 DEF IInv, StepSound

LEMMA DepositStep ==
  ASSUME IInv, NEW a \in Account, NEW id \in Ids, NEW amount \in Amounts, Deposit(a, id, amount)
  PROVE  StepSound
<1> DEFINE p == proposals
           r == proposals'
           sum == p[id].total + amount
           p0 == [p[id] EXCEPT !.total = sum]
           u == IF Enough(sum) THEN InVoting(p0) ELSE p0
<1>0. now \in Nat /\ ended \in Nat /\ now = ended + 1 /\ lastId \in Nat /\ amount \in Nat
      /\ DepositPeriod \in Nat /\ VotingPeriod \in Nat
  BY InputsHold DEF IInv, TypeOK, Inputs
<1>1. p \in [Ids -> Proposal \cup {Absent}] /\ p[id].status = "deposit"
  BY DEF IInv, TypeOK, Deposit
<1>2. p[id] \in Proposal /\ p[id] # Absent /\ p[id].total \in Nat /\ sum \in Nat
      /\ p[id].depositEnd \in Nat /\ p[id].votingEnd \in Nat /\ p0.total = sum
  BY <1>0, <1>1, ProposalOrAbsent DEF Proposal
<1>3. /\ PayFrom(a, amount)
      /\ r = [p EXCEPT ![id] = u]
      /\ activeVoting' = (IF Enough(sum) THEN Append(activeVoting, id) ELSE activeVoting)
      /\ activeDeposit' = (IF Enough(sum) THEN RemoveActive(activeDeposit, id) ELSE activeDeposit)
      /\ UNCHANGED <<now, ended, lastId, votes>>
  BY <1>2 DEF Deposit
<1>4. /\ u \in Proposal /\ u.total = sum /\ u.depositEnd = p[id].depositEnd
      /\ Enough(sum) => u.status = "voting" /\ u.votingEnd = now + VotingPeriod
      /\ ~Enough(sum) => u.status = "deposit" /\ u.votingEnd = p[id].votingEnd
  <2>1. now + VotingPeriod \in Nat
    BY <1>0
  <2> HIDE DEF sum
  <2> QED BY <1>0, <1>1, <1>2, <2>1 DEF Proposal, InVoting
<1> HIDE DEF u, sum
<1>5. /\ r \in [Ids -> Proposal \cup {Absent}] /\ r[id] = u /\ u # Absent
      /\ \A x \in Ids : x # id => r[x] = p[x]
      /\ u.status = "deposit" => InDeposit(r) = InDeposit(p) \cup {id}
      /\ u.status # "deposit" => InDeposit(r) = InDeposit(p) \ {id}
      /\ Total(Totals(r)) = Total(Totals(p)) + u.total - p[id].total
  <2>1. Stored(p, id, u, r, ended)
    BY <1>1, <1>3, <1>4, StoredSets
  <2> QED BY <1>2, <2>1 DEF Stored
<1>6. id \in InDeposit(p) /\ id \notin Open(p, ended)
  BY <1>1 DEF InDeposit, Open
<1>7. VotingQueue'
  <2>1. CASE Enough(sum)
    BY <1>3, <1>4, <1>6, <2>1, EntersVoting DEF VotingQueue
  <2>2. CASE ~Enough(sum)
    BY <1>3, <1>4, <1>6, <2>2, StaysOutOfVoting DEF VotingQueue
  <2> QED BY <2>1, <2>2
<1>8. DepositQueue'
  <2> DEFINE S == InDeposit(p)
             e == DepositEnds(p)
  <2>1. \A x \in S : x \in Ids /\ p[x] # Absent /\ p[x].depositEnd > ended
    BY <1>1, ProposalOrAbsent DEF InDeposit, IInv, DepositQueue
  <2>2. \A x \in Ids : r[x].depositEnd = p[x].depositEnd
    BY <1>4, <1>5
  <2>3. Queue(activeDeposit, S, e) /\ e \in [Ids -> Int]
    BY <1>1, EndsTyped DEF IInv, DepositQueue
  <2>4. \A x \in S : r[x] # Absent /\ DepositEnds(r)[x] = e[x]
    <3>1. \A x \in S : r[x] # Absent
      BY <1>5, <2>1
    <3> QED BY <1>1, <1>5, <2>1, <2>2, <3>1, EndsTyped
  <2> HIDE DEF S, e
  <2>5. CASE Enough(sum)
    <3>1. InDeposit(r) = S \ {id} /\ id \in S
      BY <1>4, <1>5, <1>6, <2>5 DEF S
    <3>2. Queue(RemoveActive(activeDeposit, id), S \ {id}, e)
      BY <2>3, <3>1, QueueRemove
    <3>3. Queue(RemoveActive(activeDeposit, id), S \ {id}, DepositEnds(r))
      BY <2>4, <3>2, QueueSame
    <3>4. \A x \in S \ {id} : r[x].depositEnd > ended
      BY <2>1, <2>2
    <3> QED BY <1>3, <2>5, <3>1, <3>3, <3>4 DEF DepositQueue
  <2>6. CASE ~Enough(sum)
    <3>1. InDeposit(r) = S
      <4>1. InDeposit(r) = S \cup {id} /\ id \in S
        BY <1>4, <1>5, <1>6, <2>6 DEF S
      <4> QED BY <4>1
    <3>2. Queue(activeDeposit, S, DepositEnds(r))
      BY <2>3, <2>4, QueueSame
    <3>3. \A x \in S : r[x].depositEnd > ended
      BY <2>1, <2>2
    <3> QED BY <1>3, <2>6, <3>1, <3>2, <3>3 DEF DepositQueue
  <2> QED BY <2>5, <2>6
<1>9. TypeOK'
  <2>1. activeDeposit' \in Seq(Ids) /\ activeVoting' \in Seq(Ids)
    BY <1>7, <1>8 DEF DepositQueue, VotingQueue, Queue
  <2>2. wallet' \in [Account -> Nat] /\ held' \in Nat /\ spent' \in Nat
    BY <1>0, <1>3, Paid
  <2> QED BY <1>3, <1>5, <2>1, <2>2 DEF IInv, TypeOK
<1>10. Known'
  <2>1. ASSUME NEW x \in Ids, r[x] # Absent
        PROVE  /\ x <= lastId /\ r[x].depositEnd <= now + DepositPeriod
               /\ r[x].votingEnd <= now + VotingPeriod
    <3>1. Exists(x)
      BY <1>2, <1>5, <2>1 DEF Exists
    <3>2. x <= lastId /\ p[x].depositEnd <= now + DepositPeriod /\ p[x].votingEnd <= now + VotingPeriod
      BY <3>1 DEF IInv, Known
    <3>3. CASE x = id
      BY <1>0, <1>4, <1>5, <3>2, <3>3
    <3>4. CASE x # id
      BY <1>5, <3>2, <3>4
    <3> QED BY <3>3, <3>4
  <2> QED BY <1>3, <2>1 DEF Known, Exists
<1>11. DepositsHeld'
  <2>1. Total(Totals(p)) \in Int
    BY <1>1, TotalsTyped
  <2>2. Total(Totals(r)) = Total(Totals(p)) + amount
    BY <1>0, <1>2, <1>4, <1>5, <2>1 DEF sum
  <2>3. held' = held + amount /\ held \in Nat /\ spent' = spent /\ spent \in Nat
    BY <1>0, <1>3, Paid
  <2>4. Total(Totals(p)) <= held + spent
    BY HeldIsTotal DEF IInv
  <2> QED BY <1>0, <2>1, <2>2, <2>3, <2>4, HeldIsTotal
<1>12. StaysDecided
  BY <1>1, <1>5 DEF StaysDecided
<1>13. now' = ended' + 1
  BY <1>0, <1>3
<1> QED BY <1>7, <1>8, <1>9, <1>10, <1>11, <1>12, <1>13 DEF IInv, StepSound

(* The end of a block takes from the front of a queue all that is over. *)
Taken(q, S, e, n, time) ==
    /\ n \in 0..Len(q)
    /\ {q[i] : i \in 1..n} = {x \in S : e[x] <= time}
    /\ Queue(Spliced(q, n), {x \in S : e[x] > time}, e)

LEMMA FrontIsOver ==
  ASSUME NEW q, NEW S, NEW e \in [Ids -> Int], Queue(q, S, e), NEW over, NEW time \in Int,
         \A x \in S : x \in over <=> e[x] <= time
  PROVE  Taken(q, S, e, Ending(q, over), time)
<1> DEFINE n == Ending(q, over)
<1>1. q \in Seq(Ids) /\ Len(q) \in Nat
  BY DEF Queue
<1>2. n \in 0..Len(q) /\ (\A i \in 1..n : q[i] \in over) /\ (n < Len(q) => q[n + 1] \notin over)
  BY <1>1, EndingIsLast
<1> HIDE DEF n
<1>3. \A i \in 1..Len(q) : q[i] \in S /\ q[i] \in Ids /\ e[q[i]] \in Int
  BY <1>1 DEF Queue
<1>4. \A i \in 1..n : i \in 1..Len(q) /\ e[q[i]] <= time
  BY <1>1, <1>2, <1>3
<1>5. ASSUME NEW i \in 1..Len(q), i > n
      PROVE  e[q[i]] > time
  <2>1. n + 1 \in 1..Len(q)
    BY <1>1, <1>2, <1>5
  <2>2. e[q[n + 1]] > time
    BY <1>2, <1>3, <1>5, <2>1
  <2>3. e[q[n + 1]] <= e[q[i]]
    <3>1. CASE i = n + 1
      BY <1>3, <3>1
    <3>2. CASE i > n + 1
      BY <2>1, <3>2 DEF Queue
    <3> QED BY <1>2, <1>5, <3>1, <3>2
  <2> QED BY <1>3, <2>1, <2>2, <2>3
<1>6. \A x \in S : \E i \in 1..Len(q) : x = q[i]
  BY DEF Queue
<1>7. {q[i] : i \in 1..n} = {x \in S : e[x] <= time}
  <2>1. \A i \in 1..n : q[i] \in S /\ e[q[i]] <= time
    BY <1>3, <1>4
  <2>2. ASSUME NEW x \in S, e[x] <= time
        PROVE  \E i \in 1..n : x = q[i]
    <3>1. PICK i \in 1..Len(q) : x = q[i]
      BY <1>6
    <3>2. ~ (i > n)
      BY <1>3, <1>5, <2>2, <3>1
    <3> QED BY <1>2, <3>1, <3>2
  <2> QED BY <2>1, <2>2
<1>8. S \ {q[i] : i \in 1..n} = {x \in S : e[x] > time}
  <2>1. \A x \in S : e[x] \in Int
    BY <1>3, <1>6
  <2> QED BY <1>7, <2>1
<1>9. Queue(Spliced(q, n), {x \in S : e[x] > time}, e)
  BY <1>2, <1>8, QueueSpliced
<1> QED BY <1>2, <1>7, <1>9 DEF n, Taken

(* What EndBlock leaves of the proposals: the expired ones are gone, the decided
   ones have their verdict. *)
Closed(p, r, expired, decided) ==
    \A x \in Ids :
        /\ x \in expired => r[x] = Absent
        /\ x \notin expired /\ x \in decided =>
              \E s \in {"passed", "failed", "rejected"} : r[x] = [p[x] EXCEPT !.status = s]
        /\ x \notin expired /\ x \notin decided => r[x] = p[x]

(* The proposals r that the end of the block at time + 1 makes of p. *)
AfterEnd(p, r, time) ==
    /\ r \in [Ids -> Proposal \cup {Absent}]
    /\ InDeposit(r) = {x \in InDeposit(p) : p[x].depositEnd > time + 1}
    /\ Open(r, time + 1) = {x \in Open(p, time) : p[x].votingEnd > time + 1}
    /\ \A x \in Ids : r[x] # Absent =>
          /\ p[x] # Absent
          /\ r[x].depositEnd = p[x].depositEnd /\ r[x].votingEnd = p[x].votingEnd
          /\ r[x].total = p[x].total
    /\ \A x \in Ids : p[x].status \in {"passed", "failed", "rejected"} => r[x] = p[x]

LEMMA ClosedSound ==
  ASSUME NEW p \in [Ids -> Proposal \cup {Absent}], NEW r, DOMAIN r = Ids, r = [x \in Ids |-> r[x]],
         NEW expired, NEW decided, NEW time \in Nat,
         Closed(p, r, expired, decided),
         expired = {x \in InDeposit(p) : p[x].depositEnd <= time + 1},
         \A x \in decided : x \in Open(p, time) /\ p[x].votingEnd <= time + 1
  PROVE  AfterEnd(p, r, time)
<1>1. \A x \in Ids : /\ p[x] # Absent => /\ p[x] \in Proposal
                                         /\ p[x].depositEnd \in Nat /\ p[x].votingEnd \in Nat
                     /\ p[x].status \in {"deposit", "voting", "passed", "failed", "rejected"} => p[x] # Absent
                     /\ p[x] = Absent => p[x].status = "absent"
  <2> SUFFICES ASSUME NEW x \in Ids
               PROVE  /\ p[x] # Absent => /\ p[x] \in Proposal
                                          /\ p[x].depositEnd \in Nat /\ p[x].votingEnd \in Nat
                      /\ p[x].status \in {"deposit", "voting", "passed", "failed", "rejected"} => p[x] # Absent
                      /\ p[x] = Absent => p[x].status = "absent"
    OBVIOUS
  <2>1. p[x] # Absent => p[x] \in Proposal
    BY ProposalOrAbsent
  <2>2. p[x] # Absent => p[x].depositEnd \in Nat /\ p[x].votingEnd \in Nat
    BY EndsTyped
  <2>3. p[x] = Absent => p[x].status = "absent"
    BY ProposalOrAbsent
  <2> QED BY <2>1, <2>2, <2>3
<1>2. \A x \in decided : x \in Ids /\ p[x].status = "voting" /\ p[x] \in Proposal /\ x \notin expired
  BY <1>1 DEF Open, InDeposit
<1>3. ASSUME NEW x \in decided
      PROVE  /\ r[x] \in Proposal /\ r[x].status \in {"passed", "failed", "rejected"}
             /\ r[x].depositEnd = p[x].depositEnd /\ r[x].votingEnd = p[x].votingEnd
             /\ r[x].total = p[x].total
  <2>1. PICK s \in {"passed", "failed", "rejected"} : r[x] = [p[x] EXCEPT !.status = s]
    BY <1>2 DEF Closed
  <2>2. p[x] \in Proposal
    BY <1>2
  <2> QED BY <2>1, <2>2 DEF Proposal
<1>4. \A x \in Ids : x \in expired => r[x] = Absent
  BY DEF Closed
<1>5. \A x \in Ids : x \notin expired /\ x \notin decided => r[x] = p[x]
  BY DEF Closed
<1>6. r \in [Ids -> Proposal \cup {Absent}]
  <2>1. \A x \in Ids : r[x] \in Proposal \cup {Absent}
    BY <1>3, <1>4, <1>5
  <2> QED BY <2>1
<1>7. \A x \in Ids : r[x] # Absent =>
         /\ p[x] # Absent
         /\ r[x].depositEnd = p[x].depositEnd /\ r[x].votingEnd = p[x].votingEnd
         /\ r[x].total = p[x].total
  BY <1>1, <1>2, <1>3, <1>4, <1>5
<1>8. Absent.status = "absent"
  BY DEF Absent
<1>9. InDeposit(r) = {x \in InDeposit(p) : p[x].depositEnd > time + 1}
  <2>1. ASSUME NEW x \in Ids
        PROVE  r[x].status = "deposit" <=> p[x].status = "deposit" /\ p[x].depositEnd > time + 1
    <3>1. CASE x \in expired
      <4>1. p[x].status = "deposit" /\ p[x].depositEnd <= time + 1 /\ p[x].depositEnd \in Nat
        BY <1>1, <3>1 DEF InDeposit
      <4> QED BY <1>4, <1>8, <3>1, <4>1
    <3>2. CASE x \in decided
      BY <1>2, <1>3, <3>2
    <3>3. CASE x \notin expired /\ x \notin decided
      <4>1. p[x].status = "deposit" => p[x].depositEnd > time + 1
        BY <1>1, <3>3 DEF InDeposit
      <4> QED BY <1>5, <3>3, <4>1
    <3> QED BY <3>1, <3>2, <3>3
  <2> QED BY <2>1 DEF InDeposit
<1>10. Open(r, time + 1) = {x \in Open(p, time) : p[x].votingEnd > time + 1}
  <2>1. ASSUME NEW x \in Ids
        PROVE  (r[x].status = "voting" /\ r[x].votingEnd > time + 1)
               <=> (p[x].status = "voting" /\ p[x].votingEnd > time /\ p[x].votingEnd > time + 1)
    <3>1. CASE x \in expired
      BY <1>4, <1>8, <3>1 DEF InDeposit
    <3>2. CASE x \in decided
      <4>1. p[x].votingEnd <= time + 1 /\ p[x].votingEnd \in Nat
        BY <1>1, <1>2, <3>2
      <4> QED BY <1>3, <3>2, <4>1
    <3>3. CASE x \notin expired /\ x \notin decided
      <4>1. r[x] = p[x]
        BY <1>5, <3>3
      <4>2. CASE p[x] = Absent
        BY <1>1, <4>1, <4>2
      <4>3. CASE p[x] # Absent
        BY <1>1, <4>1, <4>3
      <4> QED BY <4>2, <4>3
    <3> QED BY <3>1, <3>2, <3>3
  <2> QED BY <2>1 DEF Open
<1>11. \A x \in Ids : p[x].status \in {"passed", "failed", "rejected"} => r[x] = p[x]
  BY <1>2, <1>5 DEF InDeposit
<1> QED BY <1>6, <1>7, <1>9, <1>10, <1>11 DEF AfterEnd

LEMMA EndBlockStep ==
  ASSUME IInv, NEW failing, NEW amount \in Nat, NEW to \in Account, EndBlock(failing, amount, to)
  PROVE  StepSound
<1> DEFINE p == proposals
           r == proposals'
           overDeposit == {id \in Ids : ~Exists(id) \/ proposals[id].depositEnd <= now}
           overVoting == {id \in Ids : ~Exists(id) \/ proposals[id].votingEnd <= now}
           nd == Ending(activeDeposit, overDeposit)
           nv == Ending(activeVoting, overVoting)
           expired == Range(SubSeq(activeDeposit, 1, nd))
           decided == {activeVoting[i] : i \in {j \in 1..nv : \A k \in 1..(j - 1) : Accepted(proposals[activeVoting[k]])}}
<1>0. /\ wallet' \in [Account -> Nat] /\ held' \in Nat /\ spent' \in Nat
      /\ held' + spent' = held + spent
  <2> DEFINE executed == {id \in decided : Accepted(proposals[id])}
  <2>1. PaidBy(executed, amount, to)
    BY DEF EndBlock
  <2> HIDE DEF executed
  <2> QED BY <2>1, PaidByMessages
<1>1. /\ activeDeposit' = Spliced(activeDeposit, nd) /\ activeVoting' = Spliced(activeVoting, nv)
      /\ ended' = now /\ now' = now + 1 /\ UNCHANGED <<lastId, votes>>
      /\ r = [id \in Ids |->
               IF id \in expired THEN Absent
               ELSE IF id \in decided
                    THEN [proposals[id] EXCEPT !.status =
                            IF ~Accepted(proposals[id]) THEN "rejected"
                            ELSE IF id \in failing THEN "failed" ELSE "passed"]
                    ELSE proposals[id]]
  BY DEF EndBlock
<1>2. /\ p \in [Ids -> Proposal \cup {Absent}] /\ now \in Nat /\ ended \in Nat /\ now = ended + 1
      /\ activeDeposit \in Seq(Ids) /\ activeVoting \in Seq(Ids)
  BY DEF IInv, TypeOK
<1>3. Closed(p, r, expired, decided)
  <2> HIDE DEF expired, decided
  <2> QED BY <1>1 DEF Closed
<1>4. DOMAIN r = Ids /\ r = [x \in Ids |-> r[x]]
  <2> HIDE DEF expired, decided
  <2> QED BY <1>1
<1> DEFINE D == InDeposit(p)
           V == Open(p, ended)
<1>5. /\ \A x \in D : x \in Ids /\ p[x] # Absent /\ DepositEnds(p)[x] = p[x].depositEnd
      /\ \A x \in V : x \in Ids /\ p[x] # Absent /\ VotingEnds(p)[x] = p[x].votingEnd
      /\ DepositEnds(p) \in [Ids -> Int] /\ VotingEnds(p) \in [Ids -> Int]
  <2>1. \A x \in D \cup V : x \in Ids /\ p[x] # Absent
    BY <1>2, ProposalOrAbsent DEF InDeposit, Open
  <2> HIDE DEF D, V
  <2> QED BY <1>2, <2>1, EndsTyped
<1>6. Queue(activeDeposit, D, DepositEnds(p)) /\ Queue(activeVoting, V, VotingEnds(p))
  BY DEF IInv, DepositQueue, VotingQueue
<1>7. /\ nd \in 0..Len(activeDeposit)
      /\ {activeDeposit[i] : i \in 1..nd} = {x \in D : DepositEnds(p)[x] <= now}
      /\ Queue(Spliced(activeDeposit, nd), {x \in D : DepositEnds(p)[x] > now}, DepositEnds(p))
  <2>1. \A x \in D : x \in overDeposit <=> DepositEnds(p)[x] <= now
    BY <1>5 DEF Exists
  <2> DEFINE e == DepositEnds(p)
  <2>2. e \in [Ids -> Int] /\ Queue(activeDeposit, D, e) /\ now \in Int /\ \A x \in D : x \in overDeposit <=> e[x] <= now
    BY <1>2, <1>5, <1>6, <2>1
  <2> HIDE DEF D, overDeposit, e
  <2>3. Taken(activeDeposit, D, e, Ending(activeDeposit, overDeposit), now)
    BY <2>2, FrontIsOver
  <2> QED BY <2>3 DEF Taken, e
<1>8. /\ nv \in 0..Len(activeVoting)
      /\ {activeVoting[i] : i \in 1..nv} = {x \in V : VotingEnds(p)[x] <= now}
      /\ Queue(Spliced(activeVoting, nv), {x \in V : VotingEnds(p)[x] > now}, VotingEnds(p))
  <2>1. \A x \in V : x \in overVoting <=> VotingEnds(p)[x] <= now
    BY <1>5 DEF Exists
  <2> DEFINE e == VotingEnds(p)
  <2>2. e \in [Ids -> Int] /\ Queue(activeVoting, V, e) /\ now \in Int /\ \A x \in V : x \in overVoting <=> e[x] <= now
    BY <1>2, <1>5, <1>6, <2>1
  <2> HIDE DEF V, overVoting, e
  <2>3. Taken(activeVoting, V, e, Ending(activeVoting, overVoting), now)
    BY <2>2, FrontIsOver
  <2> QED BY <2>3 DEF Taken, e
<1>9. expired = {x \in InDeposit(p) : p[x].depositEnd <= ended + 1}
  <2>1. expired = {activeDeposit[i] : i \in 1..nd}
    <3> HIDE DEF nd
    <3>1. /\ Len(SubSeq(activeDeposit, 1, nd)) = nd /\ SubSeq(activeDeposit, 1, nd) \in Seq(Ids)
          /\ \A i \in 1..nd : SubSeq(activeDeposit, 1, nd)[i] = activeDeposit[i]
      BY <1>2, <1>7
    <3>2. DOMAIN SubSeq(activeDeposit, 1, nd) = 1..nd
      BY <3>1
    <3> QED BY <3>1, <3>2 DEF Range
  <2>2. {x \in D : DepositEnds(p)[x] <= now} = {x \in D : p[x].depositEnd <= ended + 1}
    BY <1>2, <1>5
  <2> HIDE DEF nd, expired
  <2> QED BY <1>7, <2>1, <2>2
<1>10. \A x \in decided : x \in Open(p, ended) /\ p[x].votingEnd <= ended + 1
  <2>1. \A x \in decided : x \in {activeVoting[i] : i \in 1..nv}
    OBVIOUS
  <2> HIDE DEF nv, decided
  <2>2. \A x \in decided : x \in V /\ VotingEnds(p)[x] <= now
    BY <1>8, <2>1
  <2> QED BY <1>2, <1>5, <2>2
<1> HIDE DEF expired, decided, nd, nv, overDeposit, overVoting
<1>11. /\ r \in [Ids -> Proposal \cup {Absent}]
       /\ InDeposit(r) = {x \in InDeposit(p) : p[x].depositEnd > ended + 1}
       /\ Open(r, ended + 1) = {x \in Open(p, ended) : p[x].votingEnd > ended + 1}
       /\ \A x \in Ids : r[x] # Absent =>
             /\ p[x] # Absent
             /\ r[x].depositEnd = p[x].depositEnd /\ r[x].votingEnd = p[x].votingEnd
             /\ r[x].total = p[x].total
       /\ \A x \in Ids : p[x].status \in {"passed", "failed", "rejected"} => r[x] = p[x]
  <2>1. AfterEnd(p, r, ended)
    BY <1>2, <1>3, <1>4, <1>9, <1>10, ClosedSound
  <2> QED BY <2>1 DEF AfterEnd
<1>12. DepositQueue'
  <2> DEFINE S == InDeposit(r)
  <2>1. S = {x \in D : DepositEnds(p)[x] > now}
    BY <1>2, <1>5, <1>11
  <2>2. \A x \in S : x \in Ids /\ p[x] # Absent /\ r[x] # Absent
                     /\ r[x].depositEnd = p[x].depositEnd /\ r[x].votingEnd = p[x].votingEnd
                     /\ p[x].depositEnd > now
    <3>1. \A x \in S : x \in Ids /\ r[x] # Absent
      BY <1>11, ProposalOrAbsent DEF InDeposit
    <3> QED BY <1>2, <1>11, <3>1
  <2> HIDE DEF S, D
  <2>3. Queue(Spliced(activeDeposit, nd), S, DepositEnds(r))
    BY <1>2, <1>7, <1>11, <2>1, <2>2, QueueKept
  <2>4. \A x \in S : r[x].depositEnd > ended'
    BY <1>1, <2>2
  <2> QED BY <1>1, <2>3, <2>4 DEF DepositQueue, S
<1>13. VotingQueue'
  <2> DEFINE S == Open(r, now)
  <2>1. S = {x \in V : VotingEnds(p)[x] > now}
    BY <1>2, <1>5, <1>11
  <2>2. \A x \in S : x \in Ids /\ p[x] # Absent /\ r[x] # Absent
                     /\ r[x].depositEnd = p[x].depositEnd /\ r[x].votingEnd = p[x].votingEnd
    <3>1. \A x \in S : x \in Ids /\ r[x] # Absent
      BY <1>11, ProposalOrAbsent DEF Open
    <3> QED BY <1>11, <3>1
  <2> HIDE DEF S, V
  <2>3. Queue(Spliced(activeVoting, nv), S, VotingEnds(r))
    BY <1>2, <1>8, <1>11, <2>1, <2>2, QueueKept
  <2> QED BY <1>1, <2>3 DEF VotingQueue, S
<1>14. TypeOK'
  <2>1. activeDeposit' \in Seq(Ids) /\ activeVoting' \in Seq(Ids)
    BY <1>12, <1>13 DEF DepositQueue, VotingQueue, Queue
  <2>2. now' \in Nat /\ ended' \in Nat
    BY <1>1, <1>2
  <2> QED BY <1>0, <1>1, <1>11, <2>1, <2>2 DEF IInv, TypeOK
<1>15. Known'
  <2>1. ASSUME NEW x \in Ids, r[x] # Absent
        PROVE  /\ x <= lastId /\ r[x].depositEnd <= (now + 1) + DepositPeriod
               /\ r[x].votingEnd <= (now + 1) + VotingPeriod
    <3>1. p[x] # Absent /\ r[x].depositEnd = p[x].depositEnd /\ r[x].votingEnd = p[x].votingEnd
      BY <1>11, <2>1
    <3>2. x <= lastId /\ p[x].depositEnd <= now + DepositPeriod /\ p[x].votingEnd <= now + VotingPeriod
      BY <3>1 DEF IInv, Known, Exists
    <3>3. p[x].depositEnd \in Nat /\ p[x].votingEnd \in Nat /\ DepositPeriod \in Nat /\ VotingPeriod \in Nat
      BY <1>2, <3>1, EndsTyped, InputsHold DEF Inputs
    <3> QED BY <1>2, <3>1, <3>2, <3>3
  <2> QED BY <1>1, <2>1 DEF Known, Exists
<1>16. DepositsHeld'
  <2>1. Totals(p) \in [Ids -> Int] /\ Totals(r) \in [Ids -> Int]
        /\ Total(Totals(p)) \in Int /\ Total(Totals(r)) \in Int
    BY <1>2, <1>11, TotalsTyped
  <2>2. \A x \in Ids : Totals(r)[x] <= Totals(p)[x]
    <3> SUFFICES ASSUME NEW x \in Ids
                 PROVE  Totals(r)[x] <= Totals(p)[x]
      OBVIOUS
    <3>1. CASE r[x] # Absent
      <4>1. Totals(r)[x] = r[x].total /\ Totals(p)[x] = p[x].total /\ r[x].total = p[x].total
        BY <1>11, <3>1 DEF Totals
      <4> QED BY <2>1, <4>1
    <3>2. CASE r[x] = Absent
      <4>1. Totals(r)[x] = 0 /\ Totals(p)[x] >= 0
        BY <1>2, <3>2, EndsTyped DEF Totals
      <4> QED BY <4>1
    <3> QED BY <3>1, <3>2
  <2>3. Total(Totals(r)) <= Total(Totals(p))
    BY <2>1, <2>2, TotalOfSmaller, IdsFinite
  <2>4. Total(Totals(p)) <= held + spent /\ held \in Nat /\ spent \in Nat
    BY HeldIsTotal DEF IInv, TypeOK
  <2>5. Total(Totals(r)) <= held' + spent'
    <3> DEFINE i == Total(Totals(p))
               j == Total(Totals(r))
    <3>1. i \in Int /\ j \in Int /\ j <= i /\ i <= held + spent
      BY <2>1, <2>3, <2>4
    <3> HIDE DEF i, j
    <3>2. held' + spent' = held + spent /\ held \in Nat /\ spent \in Nat
      BY <1>0, <2>4
    <3>3. j <= held + spent
      BY <3>1, <3>2
    <3> QED BY <3>2, <3>3 DEF j
  <2> QED BY <2>5, HeldIsTotal
<1>17. StaysDecided
  BY <1>11 DEF StaysDecided
<1>18. now' = ended' + 1
  BY <1>1
<1> QED BY <1>12, <1>13, <1>14, <1>15, <1>16, <1>17, <1>18 DEF IInv, StepSound

LEMMA NextStep == IInv /\ [Next]_vars => StepSound
<1> SUFFICES ASSUME IInv, [Next]_vars
             PROVE  StepSound
  OBVIOUS
<1>1. CASE UNCHANGED vars
  <2>1. UNCHANGED <<now, ended, proposals, lastId, activeDeposit, activeVoting, wallet, held, spent, votes>>
    BY <1>1 DEF vars
  <2>2. IInv'
    BY <2>1 DEF IInv, TypeOK, Known, Exists, DepositQueue, VotingQueue, DepositsHeld, Deposited
  <2> QED BY <2>1, <2>2 DEF StepSound, StaysDecided
<1>2. ASSUME NEW failing, NEW amount \in Amounts \cup {0}, NEW to \in Account, EndBlock(failing, amount, to)
      PROVE  StepSound
  <2>1. amount \in Nat
    BY InputsHold DEF Inputs
  <2> QED BY <1>2, <2>1, EndBlockStep
<1> QED BY <1>1, <1>2, SubmitStep, DepositStep, VoteSteps DEF Next

LEMMA Invariance == Spec => []IInv
<1>1. IInv /\ [Next]_vars => IInv'
  BY NextStep DEF StepSound
<1> QED BY <1>1, InitInv, PTL DEF Spec

------------------------------------------------------------------------------
(* The invariant in the words of the queues' properties. *)
LEMMA QueueIsInjective ==
  ASSUME NEW q, NEW S, NEW e, Queue(q, S, e)
  PROVE  IsInjective(q) /\ Range(q) = S /\ DOMAIN q = 1..Len(q)
<1>1. DOMAIN q = 1..Len(q)
  BY DEF Queue
<1> QED BY <1>1 DEF Queue, IsInjective, Range

(* Every proposal in its deposit period is in the queue once, in the order of
   the ends, and none is over at a block that has ended. *)
THEOREM Expires == Spec => []DepositsExpire
<1>1. ASSUME IInv
      PROVE  DepositsExpire
  <2>1. Queue(activeDeposit, InDeposit(proposals), DepositEnds(proposals))
    BY <1>1 DEF IInv, DepositQueue
  <2>2. InDeposit(proposals) = WithStatus("deposit")
    BY DEF InDeposit, WithStatus
  <2>3. /\ IsInjective(activeDeposit) /\ Range(activeDeposit) = WithStatus("deposit")
        /\ DOMAIN activeDeposit = 1..Len(activeDeposit)
    BY <2>1, <2>2, QueueIsInjective
  <2>4. \A i \in 1..Len(activeDeposit) :
           DepositEnds(proposals)[activeDeposit[i]] = proposals[activeDeposit[i]].depositEnd
    <3>1. \A x \in InDeposit(proposals) : x \in Ids /\ proposals[x] # Absent
      BY <1>1, ProposalOrAbsent DEF InDeposit, IInv, TypeOK
    <3>2. \A i \in 1..Len(activeDeposit) : activeDeposit[i] \in InDeposit(proposals)
      BY <2>1 DEF Queue
    <3> QED BY <1>1, <3>1, <3>2, EndsTyped DEF IInv, TypeOK
  <2>5. \A i, j \in DOMAIN activeDeposit :
           i < j => proposals[activeDeposit[i]].depositEnd <= proposals[activeDeposit[j]].depositEnd
    BY <2>1, <2>3, <2>4 DEF Queue
  <2>6. \A id \in WithStatus("deposit") : proposals[id].depositEnd > ended
    BY <1>1, <2>2 DEF IInv, DepositQueue
  <2> QED BY <2>3, <2>5, <2>6 DEF DepositsExpire
<1> QED BY <1>1, Invariance, PTL

(* The queue of votes holds exactly the proposals whose voting is not over. *)
THEOREM QueuesVotes == Spec => []VotingQueued
<1>1. ASSUME IInv
      PROVE  VotingQueued
  <2>1. Queue(activeVoting, Open(proposals, ended), VotingEnds(proposals))
    BY <1>1 DEF IInv, VotingQueue
  <2>2. Open(proposals, ended) = {id \in WithStatus("voting") : proposals[id].votingEnd > ended}
    BY DEF Open, WithStatus
  <2> QED BY <2>1, <2>2, QueueIsInjective DEF VotingQueued
<1> QED BY <1>1, Invariance, PTL

(* The contract has the deposits of all the proposals there are, but for what messages
   of proposals paid of its coins. *)
THEOREM HoldsDeposits == Spec => []DepositsHeld
<1>1. IInv => DepositsHeld
  BY DEF IInv
<1> QED BY <1>1, Invariance, PTL

(* A proposal is decided once. *)
THEOREM DecidesOnce == Spec => DecidedOnce
<1>1. IInv /\ [Next]_vars => StaysDecided
  BY NextStep DEF StepSound
<1> QED BY <1>1, Invariance, PTL DEF Spec, DecidedOnce, StaysDecided

------------------------------------------------------------------------------
(* The lobby, for every number of nodes, every length of the list asked for and any
   number of messages and starts.

   What a node keeps and what is on its way is described for the set S of those
   that have signed (Responses, Geneses, Bodies, Nodes), which only grows, so that
   what was in order stays so (Grows).  Each step on the way of a list keeps it in
   order: inserting and sorting (SortType), merging and cutting (MergeType,
   AtMostType), copying signatures to the same place (CopyType) and signing one's
   own (SignedByType).  A list is taken over only by a node that is in it, so the
   default of OurIndex is never met there; in genesis data the first place is
   signed already, so that default changes nothing. *)

(* Who signed what, a place of a list, and the places that are as they should be
   in the list for chain id, of S who signed for which chain. *)
Signature == {NoSig} \cup (Node \X Nat \X Seq(Node))
Place == [val : Node, sig : Signature]

Owned(e, id, S) == e.sig = NoSig \/ (e.sig[1] = e.val /\ e.sig[2] = id /\ <<e.val, id>> \in S)
Places(id, S) == {e \in Place : Owned(e, id, S)}

LEMMA NodesAreNumbers == Node \subseteq Nat /\ 0 \notin Node /\ FirstValidators \subseteq Node
BY LobbyAssumption DEF LobbyAssumption

Has(es, x) == \E i \in DOMAIN es : es[i] = x

LEMMA InsertedType ==
  ASSUME NEW E \in SUBSET Place, NEW es \in Seq(E), NEW e \in E
  PROVE  /\ Inserted(es, e) \in Seq(E)
         /\ \A x \in E : (x = e \/ Has(es, x)) => Has(Inserted(es, e), x)
<1> DEFINE below == {i \in DOMAIN es : es[i].val <= e.val}
           k == Cardinality(below) + 1
           r == SubSeq(es, 1, k - 1) \o <<e>> \o SubSeq(es, k, Len(es))
<1>1. Inserted(es, e) = r
  BY DEF Inserted, InsertAt
<1>2. k \in 1..(Len(es) + 1) /\ Len(es) \in Nat
  <2>1. Len(es) \in Nat /\ DOMAIN es = 1..Len(es)
    OBVIOUS
  <2>2. IsFiniteSet(1..Len(es)) /\ Cardinality(1..Len(es)) = Len(es)
    <3>1. 1 \in Int /\ Len(es) \in Int
      BY <2>1
    <3> QED BY <2>1, <3>1, FS_Interval
  <2>3. Cardinality(below) \in Nat /\ Cardinality(below) <= Len(es)
    <3>1. below \in SUBSET (1..Len(es))
      BY <2>1
    <3> HIDE DEF below
    <3>2. IsFiniteSet(below) /\ Cardinality(below) <= Cardinality(1..Len(es))
      BY <2>2, <3>1, FS_Subset
    <3> QED BY <2>2, <3>2, FS_CardinalityType
  <2> HIDE DEF below
  <2> QED BY <2>1, <2>3
<1> HIDE DEF k
<1> DEFINE a == SubSeq(es, 1, k - 1)
           b == SubSeq(es, k, Len(es))
<1>3. a \in Seq(E) /\ Len(a) = k - 1 /\ \A i \in 1..(k - 1) : a[i] = es[i]
  BY <1>2
<1>4. b \in Seq(E) /\ Len(b) = Len(es) - k + 1 /\ \A i \in 1..Len(b) : b[i] = es[k + i - 1]
  BY <1>2
<1> HIDE DEF a, b
<1>5. r = (a \o <<e>>) \o b
  BY DEF a, b
<1> HIDE DEF r
<1> DEFINE c == a \o <<e>>
<1>6. c \in Seq(E) /\ Len(c) = k /\ c[k] = e /\ \A i \in 1..(k - 1) : c[i] = a[i]
  BY <1>2, <1>3
<1> HIDE DEF c
<1>7. /\ r \in Seq(E) /\ Len(r) = Len(es) + 1 /\ \A i \in 1..k : r[i] = c[i]
      /\ \A i \in 1..Len(b) : r[k + i] = b[i]
  <2>1. r = c \o b
    BY <1>5 DEF c
  <2> QED BY <1>2, <1>4, <1>6, <2>1
<1>8. ASSUME NEW i \in DOMAIN es
      PROVE  \E j \in DOMAIN r : r[j] = es[i]
  <2>1. i \in 1..Len(es)
    OBVIOUS
  <2>2. CASE i < k
    <3>1. i \in 1..(k - 1) /\ i \in 1..k /\ i \in DOMAIN r
      BY <1>2, <1>7, <2>1, <2>2
    <3> QED BY <1>3, <1>6, <1>7, <3>1
  <2>3. CASE i >= k
    <3> DEFINE j == i - k + 1
    <3>1. j \in 1..Len(b) /\ k + j - 1 = i /\ k + j \in DOMAIN r
      BY <1>2, <1>4, <1>7, <2>1, <2>3
    <3> HIDE DEF j
    <3>2. r[k + j] = es[i]
      BY <1>4, <1>7, <3>1
    <3> QED BY <3>1, <3>2
  <2> QED BY <1>2, <2>1, <2>2, <2>3
<1>9. \E j \in DOMAIN r : r[j] = e
  <2>1. k \in DOMAIN r /\ r[k] = e
    BY <1>2, <1>6, <1>7
  <2> QED BY <2>1
<1> QED BY <1>1, <1>7, <1>8, <1>9 DEF Has

(* The lists on the way of the sort. *)
Sorting(r, entries, E) ==
    /\ r \in [0..Len(entries) -> Seq(E)]
    /\ r[0] = <<>> /\ r[Len(entries)] = SortEntries(entries)
    /\ \A i \in 1..Len(entries) : r[i] = Inserted(r[i - 1], entries[i])

LEMMA SortRuns ==
  ASSUME NEW E \in SUBSET Place, NEW entries \in Seq(E)
  PROVE  \E r : Sorting(r, entries, E)
<1> DEFINE n == Len(entries)
           D == DOMAIN entries
           V == Seq(E)
           next(q, i) == Inserted(q, entries[i])
           Fits(F) == F = [w \in SUBSET D |-> IF w = {} THEN <<>> ELSE next(F[w \ {Max(w)}], Max(w))]
           F0 == CHOOSE F : Fits(F)
           step == [p \in V \X (1..n) |-> next(p[1], p[2])]
<1>1. SortEntries(entries) = F0[D]
  BY Zenon DEF SortEntries, FoldLeft, MapThenFoldSet
<1>2. n \in Nat /\ D = 1..n /\ <<>> \in V /\ \A i \in 1..n : entries[i] \in E
  OBVIOUS
<1>3. \A q \in V, i \in 1..n : next(q, i) \in V
  BY <1>2, InsertedType
<1> HIDE DEF next, D, V, n
<1>4. step \in [V \X (1..n) -> V] /\ \A q \in V, i \in 1..n : step[<<q, i>>] = next(q, i)
  BY <1>3
<1> HIDE DEF step
<1>5. PICK F : Folding(F, n, V, <<>>, step)
  BY <1>2, <1>4, FoldingExists
<1>6. Fits(F)
  <2>1. ASSUME NEW w \in SUBSET D, w # {}
        PROVE  F[w] = next(F[w \ {Max(w)}], Max(w))
    <3>1. Max(w) \in 1..n /\ w \ {Max(w)} \in SUBSET (1..n) /\ F[w] = step[<<F[w \ {Max(w)}], Max(w)>>]
      BY <1>2, <1>5, <2>1 DEF Folding
    <3>2. F[w \ {Max(w)}] \in V
      BY <1>5, <3>1 DEF Folding
    <3> QED BY <1>4, <3>1, <3>2
  <2>2. F = [w \in SUBSET D |-> F[w]] /\ F[{}] = <<>>
    BY <1>2, <1>5 DEF Folding
  <2> QED BY <2>1, <2>2
<1>7. Fits(F0)
  <2> HIDE DEF Fits
  <2> QED BY <1>6
<1> HIDE DEF F0
<1>8. Follows(F0, n, V, <<>>, step)
  <2>1. F0[{}] = <<>> /\ \A w \in SUBSET D : w # {} => F0[w] = next(F0[w \ {Max(w)}], Max(w))
    BY <1>7
  <2> HIDE DEF Fits
  <2>2. ASSUME NEW w \in SUBSET (1..n), w # {}, F0[w \ {Max(w)}] \in V
        PROVE  F0[w] = step[<<F0[w \ {Max(w)}], Max(w)>>]
    <3>1. Max(w) \in 1..n /\ w \in SUBSET D
      BY <1>2, <1>5, <2>2 DEF Folding
    <3> QED BY <1>4, <2>1, <2>2, <3>1
  <2> QED BY <2>1, <2>2 DEF Follows
<1>9. PICK r : Run(r, F0, n, V, <<>>, step)
  BY <1>2, <1>4, <1>8, FoldRuns
<1>10. \A i \in 1..n : r[i] = Inserted(r[i - 1], entries[i])
  <2> SUFFICES ASSUME NEW i \in 1..n
               PROVE  r[i] = Inserted(r[i - 1], entries[i])
    OBVIOUS
  <2>1. i - 1 \in 0..n
    BY <1>2
  <2> QED BY <1>4, <1>9, <2>1 DEF Run, next
<1>11. r \in [0..n -> V] /\ r[0] = <<>> /\ r[n] = SortEntries(entries)
  BY <1>1, <1>2, <1>9 DEF Run
<1>12. Sorting(r, entries, E)
  BY <1>10, <1>11 DEF Sorting, n, V
<1> QED BY <1>12

(* A sorted list has places of the list, the first of them among them. *)
LEMMA SortType ==
  ASSUME NEW E \in SUBSET Place, NEW entries \in Seq(E)
  PROVE  /\ SortEntries(entries) \in Seq(E)
         /\ entries # <<>> => Has(SortEntries(entries), entries[1])
<1>1. PICK r : Sorting(r, entries, E)
  BY SortRuns
<1> DEFINE n == Len(entries)
           Holds == {i \in 1..n : Has(r[i], entries[1])}
<1>2. n \in Nat /\ \A i \in 1..n : entries[i] \in E
  OBVIOUS
<1>3. /\ r \in [0..n -> Seq(E)] /\ r[0] = <<>> /\ r[n] = SortEntries(entries)
      /\ \A i \in 1..n : r[i] = Inserted(r[i - 1], entries[i])
  BY <1>1 DEF Sorting
<1>4. SortEntries(entries) \in Seq(E)
  BY <1>2, <1>3
<1>5. ASSUME entries # <<>>
      PROVE  Has(SortEntries(entries), entries[1])
  <2>1. n >= 1 /\ 1 \in 1..n
    BY <1>5
  <2> HIDE DEF n
  <2>2. 1 \in Holds
    <3>1. r[0] \in Seq(E) /\ r[1] = Inserted(r[0], entries[1])
      <4>1. 1 - 1 = 0 /\ 0 \in 0..n
        BY <1>2
      <4> QED BY <1>3, <2>1, <4>1
    <3>2. entries[1] \in E
      BY <1>2, <2>1
    <3>3. \A x \in E : (x = entries[1] \/ Has(r[0], x)) => Has(Inserted(r[0], entries[1]), x)
      BY Zenon, <3>1, <3>2, InsertedType
    <3> QED BY <2>1, <3>1, <3>2, <3>3
  <2>3. \A i \in 1..n : i \in Holds /\ i < n => i + 1 \in Holds
    <3> SUFFICES ASSUME NEW i \in 1..n, i \in Holds, i < n
                 PROVE  i + 1 \in Holds
      OBVIOUS
    <3>1. i + 1 \in 1..n /\ (i + 1) - 1 = i /\ i \in 0..n
      BY <1>2
    <3>2. r[i] \in Seq(E) /\ r[i + 1] = Inserted(r[i], entries[i + 1]) /\ entries[1] \in E /\ entries[i + 1] \in E
      BY <1>2, <1>3, <2>1, <3>1
    <3>3. \A x \in E : (x = entries[i + 1] \/ Has(r[i], x)) => Has(Inserted(r[i], entries[i + 1]), x)
      <4>1. PICK e \in E : e = entries[i + 1]
        BY <3>2
      <4>2. PICK q \in Seq(E) : q = r[i]
        BY <3>2
      <4>3. \A x \in E : (x = e \/ Has(q, x)) => Has(Inserted(q, e), x)
        BY InsertedType
      <4> QED BY <4>1, <4>2, <4>3
    <3>4. Has(r[i + 1], entries[1])
      BY <3>2, <3>3
    <3> QED BY <3>1, <3>4
  <2>4. n \in Holds
    <3> HIDE DEF Holds
    <3>1. 1 \in Int /\ n \in Int /\ n \in 1..n
      BY <1>2, <2>1
    <3> QED BY <2>2, <2>3, <3>1, IntervalInduction
  <2> QED BY <1>3, <2>4
<1> QED BY <1>4, <1>5

(* A merged list has places of both. *)
LEMMA MergeType ==
  ASSUME NEW E, NEW entries \in Seq(E), NEW more \in Seq(E)
  PROVE  MergeEntries(entries, more) \in Seq(E)
<1> DEFINE n == Len(more)
           D == DOMAIN more
           V == Seq(E)
           next(q, i) == IF more[i].val \in Range(Vals(q)) THEN q ELSE Append(q, more[i])
           Fits(F) == F = [w \in SUBSET D |-> IF w = {} THEN entries ELSE next(F[w \ {Max(w)}], Max(w))]
           F0 == CHOOSE F : Fits(F)
           step == [p \in V \X (1..n) |-> next(p[1], p[2])]
<1>1. MergeEntries(entries, more) = F0[D]
  BY Zenon DEF MergeEntries, FoldLeft, MapThenFoldSet
<1>2. n \in Nat /\ D = 1..n /\ entries \in V /\ \A i \in 1..n : more[i] \in E
  OBVIOUS
<1>3. \A q \in V, i \in 1..n : next(q, i) \in V
  BY <1>2
<1> HIDE DEF next, D, V, n
<1>4. step \in [V \X (1..n) -> V] /\ \A q \in V, i \in 1..n : step[<<q, i>>] = next(q, i)
  BY <1>3
<1> HIDE DEF step
<1>5. PICK F : Folding(F, n, V, entries, step)
  BY <1>2, <1>4, FoldingExists
<1>6. Fits(F)
  <2>1. ASSUME NEW w \in SUBSET D, w # {}
        PROVE  F[w] = next(F[w \ {Max(w)}], Max(w))
    <3>1. Max(w) \in 1..n /\ w \ {Max(w)} \in SUBSET (1..n) /\ F[w] = step[<<F[w \ {Max(w)}], Max(w)>>]
      BY <1>2, <1>5, <2>1 DEF Folding
    <3>2. F[w \ {Max(w)}] \in V
      BY <1>5, <3>1 DEF Folding
    <3> QED BY <1>4, <3>1, <3>2
  <2>2. F = [w \in SUBSET D |-> F[w]] /\ F[{}] = entries
    BY <1>2, <1>5 DEF Folding
  <2> QED BY <2>1, <2>2
<1>7. Fits(F0)
  <2> HIDE DEF Fits
  <2> QED BY <1>6
<1> HIDE DEF F0
<1>8. Follows(F0, n, V, entries, step)
  <2>1. F0[{}] = entries /\ \A w \in SUBSET D : w # {} => F0[w] = next(F0[w \ {Max(w)}], Max(w))
    BY <1>7
  <2> HIDE DEF Fits
  <2>2. ASSUME NEW w \in SUBSET (1..n), w # {}, F0[w \ {Max(w)}] \in V
        PROVE  F0[w] = step[<<F0[w \ {Max(w)}], Max(w)>>]
    <3>1. Max(w) \in 1..n /\ w \in SUBSET D
      BY <1>2, <1>5, <2>2 DEF Folding
    <3> QED BY <1>4, <2>1, <2>2, <3>1
  <2> QED BY <2>1, <2>2 DEF Follows
<1>9. PICK r : Run(r, F0, n, V, entries, step)
  BY <1>2, <1>4, <1>8, FoldRuns
<1>10. r[n] \in V /\ r[n] = F0[D]
  BY <1>2, <1>9 DEF Run
<1> QED BY <1>1, <1>10 DEF V

(* Responses and genesis data as they should be when those of S have signed. *)
Responses(S) == {r \in [id : Nat, entries : Seq(Place)] : \A i \in DOMAIN r.entries : Owned(r.entries[i], r.id, S)}

Geneses(S) ==
    {g \in [id : Nat, vals : Seq(Node), genTxs : Seq(BOOLEAN), sigs : Seq(Nat)] :
        /\ Len(g.sigs) = Len(g.vals)
        /\ g # NoGenesis => g.vals # <<>> /\ g.sigs[1] = g.vals[1]
        /\ \A i \in DOMAIN g.vals : g.sigs[i] \in {0, g.vals[i]} /\ <<g.vals[i], g.id>> \in S}

Bodies(S) ==
    [type : {"request"}, from : Node] \cup [type : {"response"}, data : Responses(S)]
        \cup [type : {"genesis"}, data : Geneses(S) \ {NoGenesis}] \cup [type : {"lastId"}, id : Nat]

(* A list of the length asked for that everybody in it has signed. *)
Agreed(r) == Len(r.entries) >= min /\ \A i \in DOMAIN r.entries : r.entries[i].sig # NoSig

Nodes(S) ==
    {s \in [fsm : {"unstarted", "requesting", "negotiating", "initializing", "initialized"}, starts : Nat,
            requests : Seq(Node), response : Responses(S), genesis : Geneses(S), lastId : Nat,
            out : SUBSET Bodies(S)] :
        s.fsm \in {"initializing", "initialized"} => Agreed(s.response)}

LEMMA Grows ==
  ASSUME NEW S, NEW T, S \subseteq T
  PROVE  /\ Responses(S) \subseteq Responses(T) /\ Geneses(S) \subseteq Geneses(T)
         /\ Bodies(S) \subseteq Bodies(T) /\ Nodes(S) \subseteq Nodes(T)
<1>1. Responses(S) \subseteq Responses(T)
  BY DEF Responses, Owned
<1>2. Geneses(S) \subseteq Geneses(T)
  BY DEF Geneses
<1>3. Bodies(S) \subseteq Bodies(T)
  BY <1>1, <1>2 DEF Bodies
<1>4. Nodes(S) \subseteq Nodes(T)
  BY <1>1, <1>2, <1>3 DEF Nodes
<1> QED BY <1>1, <1>2, <1>3, <1>4

LEMMA ResponsesOf ==
  ASSUME NEW S, NEW id \in Nat, NEW es
  PROVE  es \in Seq(Places(id, S)) <=> [id |-> id, entries |-> es] \in Responses(S)
<1>1. ASSUME es \in Seq(Places(id, S))
      PROVE  [id |-> id, entries |-> es] \in Responses(S)
  <2>1. \A i \in DOMAIN es : es[i] \in Places(id, S)
    BY <1>1
  <2>2. es \in Seq(Place)
    BY <1>1 DEF Places
  <2>3. \A i \in DOMAIN es : Owned(es[i], id, S)
    BY <2>1 DEF Places
  <2> QED BY <2>2, <2>3 DEF Responses
<1>2. ASSUME [id |-> id, entries |-> es] \in Responses(S)
      PROVE  es \in Seq(Places(id, S))
  <2>1. es \in Seq(Place) /\ \A i \in DOMAIN es : Owned(es[i], id, S)
    BY <1>2 DEF Responses
  <2>2. \A i \in 1..Len(es) : es[i] \in Places(id, S)
    BY <2>1 DEF Places
  <2> QED BY <2>1, <2>2
<1> QED BY <1>1, <1>2

LEMMA ResponseParts ==
  ASSUME NEW S, NEW r \in Responses(S)
  PROVE  /\ r.id \in Nat /\ r.entries \in Seq(Place) /\ r.entries \in Seq(Places(r.id, S))
         /\ r = [id |-> r.id, entries |-> r.entries]
<1>1. r.id \in Nat /\ r.entries \in Seq(Place) /\ r = [id |-> r.id, entries |-> r.entries]
  BY DEF Responses
<1> QED BY <1>1, ResponsesOf

LEMMA ValsType ==
  ASSUME NEW es \in Seq(Place)
  PROVE  Vals(es) \in Seq(Node) /\ DOMAIN Vals(es) = DOMAIN es /\ \A i \in DOMAIN es : Vals(es)[i] = es[i].val
<1>1. \A i \in 1..Len(es) : es[i].val \in Node
  <2>1. \A i \in 1..Len(es) : es[i] \in Place
    OBVIOUS
  <2> QED BY <2>1 DEF Place
<1>2. DOMAIN es = 1..Len(es) /\ Len(es) \in Nat
  OBVIOUS
<1>3. Vals(es) = [i \in 1..Len(es) |-> es[i].val]
  BY <1>2 DEF Vals
<1> QED BY <1>1, <1>2, <1>3

LEMMA OurPlace ==
  ASSUME NEW vals \in Seq(Node), NEW n
  PROVE  /\ Slot(vals, n) = {} => OurIndex(vals, n) = 1
         /\ Slot(vals, n) # {} => OurIndex(vals, n) \in DOMAIN vals /\ vals[OurIndex(vals, n)] = n
<1> DEFINE S == Slot(vals, n)
<1>1. S \in SUBSET (1..Len(vals)) /\ S \in SUBSET Nat /\ Len(vals) \in Nat /\ DOMAIN vals = 1..Len(vals)
  BY DEF Slot
<1>2. ASSUME S # {}
      PROVE  \E i \in S : \A j \in S : j <= i
  <2>1. Max(S) \in S /\ \A y \in S : Max(S) >= y
    BY <1>1, <1>2, MaxIsMember
  <2>2. \A y \in S : y <= Max(S)
    BY <1>1, <2>1
  <2> QED BY <2>1, <2>2
<1>3. ASSUME S # {}
      PROVE  OurIndex(vals, n) \in S
  BY <1>2, <1>3 DEF OurIndex
<1> QED BY <1>1, <1>3 DEF OurIndex, Slot

(* A place that its validator signs. *)
Signed(es, i, n, id, vals) == [es EXCEPT ![i].sig = Sig(n, id, vals)]

LEMMA SignedPlace ==
  ASSUME NEW n \in Node, NEW id \in Nat, NEW S, <<n, id>> \in S, NEW es \in Seq(Places(id, S)),
         NEW i \in DOMAIN es, es[i].val = n, NEW vals \in Seq(Node)
  PROVE  /\ Signed(es, i, n, id, vals) \in Seq(Places(id, S))
         /\ i \in DOMAIN Signed(es, i, n, id, vals)
         /\ Signed(es, i, n, id, vals)[i].sig = <<n, id, vals>>
<1>1. es[i] \in Place
  BY DEF Places
<1> DEFINE e == [es[i] EXCEPT !.sig = <<n, id, vals>>]
<1>2. Signed(es, i, n, id, vals) = [es EXCEPT ![i] = e]
  BY DEF Sig, Signed
<1>3. e.val = n /\ e.sig = <<n, id, vals>> /\ e \in Place
  <2>1. <<n, id, vals>> \in Signature
    BY DEF Signature
  <2> QED BY <1>1, <2>1 DEF Place
<1> HIDE DEF e
<1>4. e \in Places(id, S)
  BY <1>3 DEF Places, Owned
<1>5. [es EXCEPT ![i] = e] \in Seq(Places(id, S)) /\ [es EXCEPT ![i] = e][i] = e /\ i \in DOMAIN [es EXCEPT ![i] = e]
  BY <1>4, ExceptSeq
<1> QED BY <1>2, <1>3, <1>5

------------------------------------------------------------------------------
(* What is sent. *)
LEMMA SendKeeps ==
  ASSUME NEW S, NEW s \in Nodes(S), NEW m \in Bodies(S)
  PROVE  Send(s, m) \in Nodes(S) /\ Send(s, m).response = s.response /\ Send(s, m).fsm = s.fsm
BY DEF Nodes, Send

LEMMA RequestSent ==
  ASSUME NEW S, NEW s \in Nodes(S), NEW n \in Node
  PROVE  SendNewChainRequest(s, n) \in Nodes(S) /\ SendNewChainRequest(s, n).fsm = s.fsm
<1>1. [type |-> "request", from |-> n] \in Bodies(S)
  BY DEF Bodies
<1> QED BY <1>1, SendKeeps DEF SendNewChainRequest

LEMMA SendsKeep ==
  ASSUME NEW S, NEW s \in Nodes(S)
  PROVE  /\ SendNewChainResponse(s) \in Nodes(S) /\ SendNewChainResponse(s).response = s.response
         /\ SendNewChainResponse(s).fsm = s.fsm
         /\ s.genesis # NoGenesis => SendGenesis(s) \in Nodes(S) /\ SendGenesis(s).response = s.response
                                     /\ SendGenesis(s).fsm = s.fsm
         /\ SendLastChainId(s) \in Nodes(S) /\ SendLastChainId(s).response = s.response
<1>1. s.response \in Responses(S) /\ s.genesis \in Geneses(S) /\ s.lastId \in Nat
  BY DEF Nodes
<1>2. [type |-> "response", data |-> s.response] \in Bodies(S)
  BY <1>1 DEF Bodies
<1>3. s.genesis # NoGenesis => [type |-> "genesis", data |-> s.genesis] \in Bodies(S)
  BY <1>1 DEF Bodies
<1>4. [type |-> "lastId", id |-> s.lastId] \in Bodies(S)
  BY <1>1 DEF Bodies
<1>5. /\ SendNewChainResponse(s) \in Nodes(S) /\ SendNewChainResponse(s).response = s.response
      /\ SendNewChainResponse(s).fsm = s.fsm
  BY <1>2, SendKeeps DEF SendNewChainResponse
<1>6. s.genesis # NoGenesis => SendGenesis(s) \in Nodes(S) /\ SendGenesis(s).response = s.response /\ SendGenesis(s).fsm = s.fsm
  BY <1>3, SendKeeps DEF SendGenesis
<1>7. SendLastChainId(s) \in Nodes(S) /\ SendLastChainId(s).response = s.response
  BY <1>4, SendKeeps DEF SendLastChainId
<1> QED BY <1>5, <1>6, <1>7

------------------------------------------------------------------------------
(* The list of validators.  A node changes it only before it is initializing. *)
LEMMA ListChanges ==
  ASSUME NEW S, NEW s \in Nodes(S), s.fsm \in {"requesting", "negotiating"}, NEW r \in Responses(S)
  PROVE  LET t == [s EXCEPT !.response = r]
         IN  t \in Nodes(S) /\ t.fsm = s.fsm /\ t.response = r
BY DEF Nodes

LEMMA RequestKeeps ==
  ASSUME NEW S, NEW s \in Nodes(S), s.fsm \in {"requesting", "negotiating"}, NEW n \in Node, NEW from \in Node
  PROVE  ReceiveNewChainRequest(s, n, from) \in Nodes(S) /\ ReceiveNewChainRequest(s, n, from).fsm = s.fsm
<1> DEFINE es == s.response.entries
           id == s.response.id
           more == Append(es, [val |-> from, sig |-> NoSig])
           r == [id |-> id, entries |-> SortEntries(more)]
<1>1. s.response \in Responses(S)
  BY DEF Nodes
<1>2. id \in Nat /\ es \in Seq(Places(id, S)) /\ s.response = [id |-> id, entries |-> es]
  BY <1>1, ResponseParts
<1> HIDE DEF es, id
<1>3. [val |-> from, sig |-> NoSig] \in Places(id, S)
  BY DEF Places, Place, Signature, Owned
<1>4. more \in Seq(Places(id, S)) /\ Places(id, S) \in SUBSET Place
  BY <1>2, <1>3 DEF Places
<1> HIDE DEF more
<1>5. SortEntries(more) \in Seq(Places(id, S))
  BY <1>4, SortType
<1>6. r \in Responses(S)
  BY <1>2, <1>5, ResponsesOf
<1>7. [s EXCEPT !.response.entries = SortEntries(more)] = [s EXCEPT !.response = r]
  BY <1>2 DEF Nodes
<1>8. [s EXCEPT !.response = r] \in Nodes(S) /\ [s EXCEPT !.response = r].fsm = s.fsm
  BY <1>6, ListChanges
<1>9. AddNewChainRequest(s, from) \in Nodes(S) /\ AddNewChainRequest(s, from).fsm = s.fsm
  <2>1. s.requests \in Seq(Node)
    BY DEF Nodes
  <2> DEFINE longer == Append(s.requests, from)
  <2>2. longer \in Seq(Node)
    BY <2>1
  <2>3. AddNewChainRequest(s, from) \in {s, [s EXCEPT !.requests = longer]}
    BY DEF AddNewChainRequest, Nodes
  <2> HIDE DEF longer
  <2> QED BY <2>2, <2>3 DEF Nodes
<1>10. ReceiveNewChainRequest(s, n, from) \in {s, AddNewChainRequest(s, from), [s EXCEPT !.response.entries = SortEntries(more)]}
  BY DEF ReceiveNewChainRequest, more, es
<1> QED BY <1>7, <1>8, <1>9, <1>10

LEMMA AtMostType ==
  ASSUME NEW E, NEW seq \in Seq(E), NEW k \in Nat
  PROVE  AtMost(seq, k) \in Seq(E)
<1> DEFINE l == IF Len(seq) < k THEN Len(seq) ELSE k
<1>1. l \in 0..Len(seq) /\ Len(seq) \in Nat
  OBVIOUS
<1> HIDE DEF l
<1>2. SubSeq(seq, 1, l) \in Seq(E)
  <2>1. \A i \in 1..l : seq[i] \in E
    BY <1>1
  <2> QED BY <1>1, <2>1
<1> QED BY <1>2 DEF AtMost, l

(* The list of the node and of those that asked has a place of the node. *)
LEMMA UnsignedType ==
  ASSUME NEW S, NEW T, NEW s \in Nodes(T), NEW n \in Node, NEW id \in Nat, min \in Nat \ {0}
  PROVE  /\ Unsigned(s, n) \in Seq(Places(id, S))
         /\ \E i \in DOMAIN Unsigned(s, n) : Unsigned(s, n)[i].val = n
<1> DEFINE vals == <<n>> \o AtMost(s.requests, min - 1)
           es == [i \in DOMAIN vals |-> [val |-> vals[i], sig |-> NoSig]]
<1>1. AtMost(s.requests, min - 1) \in Seq(Node)
  <2>1. s.requests \in Seq(Node) /\ min - 1 \in Nat
    BY DEF Nodes
  <2> QED BY <2>1, AtMostType
<1>2. vals \in Seq(Node) /\ vals # <<>> /\ vals[1] = n
  BY <1>1
<1> HIDE DEF vals
<1>3. es \in Seq(Places(id, S)) /\ es # <<>> /\ es[1].val = n
  <2>1. \A i \in 1..Len(vals) : es[i] \in Places(id, S)
    <3>1. \A v \in Node : [val |-> v, sig |-> NoSig] \in Places(id, S)
      BY DEF Places, Place, Signature, Owned
    <3> QED BY <1>2, <3>1
  <2>2. DOMAIN vals = 1..Len(vals) /\ Len(vals) \in Nat /\ 1 \in DOMAIN vals
    BY <1>2
  <2>3. es \in Seq(Places(id, S)) /\ Len(es) = Len(vals)
    BY <2>1, <2>2
  <2>4. es[1].val = n
    BY <1>2, <2>2
  <2> HIDE DEF es
  <2> QED BY <2>2, <2>3, <2>4
<1>4. Unsigned(s, n) = SortEntries(es)
  BY DEF Unsigned, vals
<1> HIDE DEF es
<1>5. Places(id, S) \in SUBSET Place
  BY DEF Places
<1>6. SortEntries(es) \in Seq(Places(id, S)) /\ Has(SortEntries(es), es[1])
  BY <1>3, <1>5, SortType
<1> QED BY <1>3, <1>4, <1>6 DEF Has

LEMMA OwnSlot ==
  ASSUME NEW es \in Seq(Place), NEW n, \E i \in DOMAIN es : es[i].val = n
  PROVE  OurIndex(Vals(es), n) \in DOMAIN es /\ es[OurIndex(Vals(es), n)].val = n
<1>1. Vals(es) \in Seq(Node) /\ DOMAIN Vals(es) = DOMAIN es /\ \A i \in DOMAIN es : Vals(es)[i] = es[i].val
  BY ValsType
<1>2. Slot(Vals(es), n) # {}
  BY <1>1 DEF Slot
<1> QED BY <1>1, <1>2, OurPlace

(* The list es for chain id, signed by n in its place. *)
SignedBy(es, id, n) ==
    [id |-> id, entries |-> [es EXCEPT ![OurIndex(Vals(es), n)].sig = Sig(n, id, Vals(es))]]

HasSig(es, n, id, vals) == \E i \in DOMAIN es : es[i].sig = <<n, id, vals>>

LEMMA SignedByType ==
  ASSUME NEW S, NEW n \in Node, NEW id \in Nat, NEW es \in Seq(Places(id, S)), \E i \in DOMAIN es : es[i].val = n,
         <<n, id>> \in S
  PROVE  /\ SignedBy(es, id, n) \in Responses(S) /\ SignedBy(es, id, n).id = id
         /\ HasSig(SignedBy(es, id, n).entries, n, id, Vals(es))
<1> DEFINE our == OurIndex(Vals(es), n)
           vals == Vals(es)
           new == Signed(es, our, n, id, vals)
<1>1. es \in Seq(Place)
  BY DEF Places
<1>2. our \in DOMAIN es /\ es[our].val = n /\ vals \in Seq(Node)
  BY <1>1, OwnSlot, ValsType
<1> HIDE DEF our, vals
<1>3. new \in Seq(Places(id, S)) /\ our \in DOMAIN new /\ new[our].sig = <<n, id, vals>>
  BY <1>2, SignedPlace
<1>4. SignedBy(es, id, n) = [id |-> id, entries |-> new]
  BY DEF SignedBy, Signed, our, vals
<1> HIDE DEF new
<1>5. [id |-> id, entries |-> new] \in Responses(S)
  BY <1>3, ResponsesOf
<1>6. [id |-> id, entries |-> new].entries = new /\ [id |-> id, entries |-> new].id = id
  OBVIOUS
<1> QED BY <1>3, <1>4, <1>5, <1>6 DEF vals, HasSig

LEMMA CreateKeeps ==
  ASSUME NEW S, NEW s \in Nodes(S), s.fsm \in {"requesting", "negotiating"}, NEW n \in Node, min \in Nat \ {0},
         <<n, s.lastId + 1>> \in S
  PROVE  /\ CreateNewChainResponse(s, n) \in Nodes(S) /\ CreateNewChainResponse(s, n).fsm = s.fsm
         /\ CreateNewChainResponse(s, n).response = SignedBy(Unsigned(s, n), s.lastId + 1, n)
<1> DEFINE id == s.lastId + 1
           r == SignedBy(Unsigned(s, n), id, n)
           t == [s EXCEPT !.response = r]
           u == [t EXCEPT !.requests = <<>>]
<1>1. id \in Nat
  BY DEF Nodes
<1>2. CreateNewChainResponse(s, n) = [s EXCEPT !.response = r, !.requests = <<>>]
  BY DEF CreateNewChainResponse, SignedBy
<1> HIDE DEF id
<1>3. Unsigned(s, n) \in Seq(Places(id, S)) /\ \E i \in DOMAIN Unsigned(s, n) : Unsigned(s, n)[i].val = n
  BY <1>1, UnsignedType
<1>4. <<n, id>> \in S
  BY DEF id
<1>5. r \in Responses(S)
  BY <1>1, <1>3, <1>4, SignedByType
<1> HIDE DEF r
<1>6. t \in Nodes(S) /\ t.fsm = s.fsm /\ t.response = r
  BY <1>5, ListChanges
<1>7. CreateNewChainResponse(s, n) = u
  BY <1>2 DEF Nodes
<1> HIDE DEF t
<1>8. u \in Nodes(S) /\ u.fsm = s.fsm /\ u.response = r
  <2>1. <<>> \in Seq(Node)
    OBVIOUS
  <2> QED BY <1>6, <2>1 DEF Nodes
<1> QED BY <1>7, <1>8 DEF r, id

LEMMA TakeOverKeeps ==
  ASSUME NEW S, NEW s \in Nodes(S), s.fsm \in {"requesting", "negotiating"}, NEW n \in Node,
         NEW new \in Responses(S), \E i \in DOMAIN new.entries : new.entries[i].val = n, <<n, new.id>> \in S
  PROVE  /\ TakeOver(s, n, new) \in Nodes(S) /\ TakeOver(s, n, new).fsm = s.fsm
         /\ TakeOver(s, n, new).response = SignedBy(new.entries, new.id, n)
<1> DEFINE r == SignedBy(new.entries, new.id, n)
           t == [s EXCEPT !.response = r]
<1>1. new.id \in Nat /\ new.entries \in Seq(Places(new.id, S)) /\ new = [id |-> new.id, entries |-> new.entries]
  BY ResponseParts
<1>2. r \in Responses(S)
  BY <1>1, SignedByType
<1>3. r = [new EXCEPT !.entries[OurIndex(Vals(new.entries), n)].sig = Sig(n, new.id, Vals(new.entries))]
  <2> DEFINE i == OurIndex(Vals(new.entries), n)
             sig == Sig(n, new.id, Vals(new.entries))
             es == [new.entries EXCEPT ![i].sig = sig]
  <2>1. r = [id |-> new.id, entries |-> es]
    BY Zenon DEF SignedBy
  <2>2. [new EXCEPT !.entries[i].sig = sig] = [new EXCEPT !.entries = es]
    OBVIOUS
  <2> HIDE DEF i, sig, es, r
  <2>3. [new EXCEPT !.entries = es] = [id |-> new.id, entries |-> es]
    BY <1>1
  <2> QED BY <2>1, <2>2, <2>3 DEF i, sig
<1>4. TakeOver(s, n, new) = SendNewChainResponse(t)
  BY <1>3 DEF TakeOver
<1> HIDE DEF r
<1>5. t \in Nodes(S) /\ t.fsm = s.fsm /\ t.response = r
  BY <1>2, ListChanges
<1> HIDE DEF t
<1> QED BY <1>4, <1>5, SendsKeep DEF r

(* A list that is merged with another one. *)
LEMMA CopyType ==
  ASSUME NEW E, NEW old \in Seq(E), NEW new \in Seq(E)
  PROVE  CopySignatures(old, new) \in Seq(E)
<1>1. \A i \in 1..Len(old) : old[i] \in E /\ (i \in DOMAIN new => new[i] \in E)
  OBVIOUS
<1>2. DOMAIN old = 1..Len(old) /\ Len(old) \in Nat
  OBVIOUS
<1> QED BY <1>1, <1>2 DEF CopySignatures

LEMMA ResponseKeeps ==
  ASSUME NEW S, NEW s \in Nodes(S), s.fsm \in {"requesting", "negotiating"}, NEW n \in Node, min \in Nat \ {0},
         NEW new \in Responses(S), ReceiveNewChainResponse(s, n, new) # TakeOver(s, n, new)
  PROVE  ReceiveNewChainResponse(s, n, new) \in Nodes(S) /\ ReceiveNewChainResponse(s, n, new).fsm = s.fsm
<1> DEFINE old == s.response.entries
           id == s.response.id
           all == SortEntries(MergeEntries(CopySignatures(old, new.entries), new.entries))
           r == [id |-> id, entries |-> AtMost(all, min)]
<1>1. s.response \in Responses(S)
  BY DEF Nodes
<1>2. id \in Nat /\ old \in Seq(Places(id, S)) /\ s.response = [id |-> id, entries |-> old]
  BY <1>1, ResponseParts
<1>3. \/ ReceiveNewChainResponse(s, n, new) = s
      \/ new.id = id /\ ReceiveNewChainResponse(s, n, new) = [s EXCEPT !.response.entries = AtMost(all, min)]
  BY Zenon DEF ReceiveNewChainResponse
<1> HIDE DEF old, id
<1>4. ASSUME new.id = id
      PROVE  r \in Responses(S)
  <2>1. new.entries \in Seq(Places(id, S)) /\ Places(id, S) \in SUBSET Place
    BY <1>4, ResponseParts DEF Places
  <2> DEFINE a == CopySignatures(old, new.entries)
             b == MergeEntries(a, new.entries)
  <2>2. a \in Seq(Places(id, S))
    BY <1>2, <2>1, CopyType
  <2> HIDE DEF a
  <2>3. b \in Seq(Places(id, S))
    BY <2>1, <2>2, MergeType
  <2> HIDE DEF b
  <2>4. all \in Seq(Places(id, S))
    BY <2>1, <2>3, SortType DEF a, b
  <2> HIDE DEF all
  <2>5. AtMost(all, min) \in Seq(Places(id, S))
    BY <2>4, AtMostType
  <2> QED BY <1>2, <2>5, ResponsesOf
<1> HIDE DEF all
<1>5. [s EXCEPT !.response.entries = AtMost(all, min)] = [s EXCEPT !.response = r]
  BY <1>2 DEF Nodes
<1> HIDE DEF r
<1>6. ASSUME new.id = id
      PROVE  [s EXCEPT !.response = r] \in Nodes(S) /\ [s EXCEPT !.response = r].fsm = s.fsm
  BY <1>4, <1>6, ListChanges
<1> QED BY <1>3, <1>5, <1>6

------------------------------------------------------------------------------
(* The genesis data. *)
LEMMA InitializingKeeps ==
  ASSUME NEW S, NEW s \in Nodes(S), Agreed(s.response)
  PROVE  EnterInitializing(s) \in Nodes(S) /\ EnterInitializing(s).response = s.response
<1> DEFINE t == [s EXCEPT !.lastId = s.genesis.id, !.fsm = "initialized"]
           u == [s EXCEPT !.fsm = "initializing"]
<1>1. s.genesis.id \in Nat
  BY DEF Nodes, Geneses
<1>2. t \in Nodes(S) /\ t.response = s.response
  BY <1>1 DEF Nodes
<1>3. u \in Nodes(S) /\ u.response = s.response
  BY DEF Nodes
<1>4. EnterInitializing(s) \in {u, SendLastChainId(t)}
  BY DEF EnterInitializing, InitializeChain
<1> HIDE DEF t, u
<1>5. SendLastChainId(t) \in Nodes(S) /\ SendLastChainId(t).response = s.response
  BY <1>2, SendsKeep
<1> QED BY <1>3, <1>4, <1>5

LEMMA CreateGenesisKeeps ==
  ASSUME NEW S, NEW s \in Nodes(S), Agreed(s.response), NEW n \in Node, min \in Nat \ {0}
  PROVE  /\ TryCreateNewChainGenesisData(s, n) \in Nodes(S)
         /\ TryCreateNewChainGenesisData(s, n).response = s.response
<1> DEFINE es == s.response.entries
           id == s.response.id
           vals == Vals(es)
           none == [i \in DOMAIN vals |-> FALSE]
           sigs == [i \in DOMAIN vals |-> IF vals[i] = n THEN n ELSE 0]
           g == [id |-> id, vals |-> vals, genTxs |-> none, sigs |-> sigs]
           t == [s EXCEPT !.genesis = g]
<1>1. s.response \in Responses(S)
  BY DEF Nodes
<1>2. id \in Nat /\ es \in Seq(Place) /\ \A i \in DOMAIN es : Owned(es[i], id, S) /\ es[i].sig # NoSig
  BY <1>1 DEF Agreed, Responses
<1>3. Len(es) >= 1 /\ Len(es) \in Nat
  BY <1>2 DEF Agreed
<1>4. TryCreateNewChainGenesisData(s, n) = IF vals[1] # n THEN s ELSE SendGenesis(t)
  BY Zenon DEF TryCreateNewChainGenesisData
<1> HIDE DEF es, id
<1>5. vals \in Seq(Node) /\ DOMAIN vals = DOMAIN es /\ \A i \in DOMAIN es : vals[i] = es[i].val
  BY <1>2, ValsType
<1>6. \A i \in DOMAIN vals : <<vals[i], id>> \in S
  BY <1>2, <1>5 DEF Owned
<1> HIDE DEF vals
<1>7. DOMAIN vals = 1..Len(vals) /\ Len(vals) \in Nat /\ 1 \in DOMAIN vals /\ vals # <<>>
  <2>1. DOMAIN vals = 1..Len(vals) /\ Len(vals) \in Nat /\ DOMAIN es = 1..Len(es) /\ 1 \in DOMAIN es
    BY <1>2, <1>3, <1>5
  <2> QED BY <1>5, <2>1
<1>8. sigs \in Seq(Nat) /\ Len(sigs) = Len(vals) /\ \A i \in DOMAIN vals : sigs[i] \in {0, vals[i]}
  BY <1>7, NodesAreNumbers
<1>9. none \in Seq(BOOLEAN)
  BY <1>7
<1>10. vals[1] = n => sigs[1] = vals[1]
  BY <1>7
<1> HIDE DEF none, sigs
<1>11. ASSUME vals[1] = n
       PROVE  g \in Geneses(S) /\ g # NoGenesis
  <2>1. g.vals # <<>> /\ NoGenesis.vals = <<>>
    BY <1>7 DEF NoGenesis
  <2>2. g \in [id : Nat, vals : Seq(Node), genTxs : Seq(BOOLEAN), sigs : Seq(Nat)]
    BY <1>2, <1>5, <1>8, <1>9
  <2>3. g.id = id /\ g.vals = vals /\ g.sigs = sigs
    OBVIOUS
  <2> HIDE DEF g
  <2> QED BY <1>6, <1>8, <1>10, <1>11, <2>1, <2>2, <2>3 DEF Geneses
<1> HIDE DEF g
<1>12. ASSUME vals[1] = n
       PROVE  SendGenesis(t) \in Nodes(S) /\ SendGenesis(t).response = s.response
  <2>1. t \in Nodes(S) /\ t.response = s.response /\ t.genesis # NoGenesis
    BY <1>11, <1>12 DEF Nodes
  <2> HIDE DEF t
  <2> QED BY <2>1, SendsKeep
<1> QED BY <1>4, <1>12

LEMMA NegotiatingKeeps ==
  ASSUME NEW S, NEW s \in Nodes(S), NEW n \in Node, min \in Nat \ {0}
  PROVE  EnterNegotiating(s, n) \in Nodes(S) /\ EnterNegotiating(s, n).response = s.response
<1> DEFINE t == TryCreateNewChainGenesisData(s, n)
<1>1. CASE IfValidatorThreshold(s)
  <2>1. Agreed(s.response)
    BY <1>1 DEF IfValidatorThreshold, Agreed
  <2>2. t \in Nodes(S) /\ t.response = s.response
    BY <2>1, CreateGenesisKeeps
  <2>3. EnterNegotiating(s, n) = EnterInitializing(t)
    BY <1>1 DEF EnterNegotiating
  <2> HIDE DEF t
  <2> QED BY <2>1, <2>2, <2>3, InitializingKeeps
<1>2. CASE ~IfValidatorThreshold(s)
  <2>1. EnterNegotiating(s, n) = [s EXCEPT !.fsm = "negotiating"]
    BY <1>2 DEF EnterNegotiating
  <2> QED BY <2>1 DEF Nodes
<1> QED BY <1>1, <1>2

LEMMA GenesisKeeps ==
  ASSUME NEW S, NEW s \in Nodes(S), NEW n \in Node, NEW data \in Geneses(S), data # NoGenesis
  PROVE  /\ ReceiveNewChainGenesisData(s, n, data) \in Nodes(S)
         /\ ReceiveNewChainGenesisData(s, n, data).response = s.response
<1> DEFINE our == OurIndex(data.vals, n)
           sigs == [data.sigs EXCEPT ![our] = IF @ = 0 THEN n ELSE @]
           g == [data EXCEPT !.sigs = sigs]
<1>1. /\ data.id \in Nat /\ data.vals \in Seq(Node) /\ data.genTxs \in Seq(BOOLEAN) /\ data.sigs \in Seq(Nat)
      /\ Len(data.sigs) = Len(data.vals) /\ data.vals # <<>> /\ data.sigs[1] = data.vals[1]
      /\ \A i \in DOMAIN data.vals : data.sigs[i] \in {0, data.vals[i]} /\ <<data.vals[i], data.id>> \in S
  BY DEF Geneses
<1>2. [data EXCEPT !.sigs[our] = IF @ = 0 THEN n ELSE @] = g
  OBVIOUS
<1>3. our \in DOMAIN data.vals /\ (data.vals[our] = n \/ our = 1)
  <2>1. 1 \in DOMAIN data.vals
    BY <1>1
  <2> QED BY <1>1, <2>1, OurPlace
<1> HIDE DEF our
<1>4. DOMAIN data.sigs = DOMAIN data.vals /\ DOMAIN data.vals = 1..Len(data.vals) /\ Len(data.vals) \in Nat
  BY <1>1
<1>5. n \in Nat /\ n # 0 /\ data.sigs[1] # 0
  <2>1. data.vals[1] \in Node
    BY <1>1, <1>4
  <2> QED BY <1>1, <2>1, NodesAreNumbers
<1>6. sigs \in Seq(Nat) /\ Len(sigs) = Len(data.vals) /\ sigs[1] = data.sigs[1]
      /\ \A i \in DOMAIN data.vals : sigs[i] \in {0, data.vals[i]}
  <2>1. \A i \in DOMAIN data.vals : sigs[i] = IF i = our /\ data.sigs[i] = 0 THEN n ELSE data.sigs[i]
    BY <1>3, <1>4
  <2>2. sigs \in Seq(Nat) /\ Len(sigs) = Len(data.sigs)
    BY <1>1, <1>3, <1>4, <1>5
  <2>3. 1 \in DOMAIN data.vals
    BY <1>1
  <2>4. sigs[1] = data.sigs[1]
    BY <1>5, <2>1, <2>3
  <2> HIDE DEF sigs
  <2>5. ASSUME NEW i \in DOMAIN data.vals
        PROVE  sigs[i] \in {0, data.vals[i]}
    BY <1>1, <1>3, <1>5, <2>1
  <2> QED BY <1>1, <2>2, <2>4, <2>5
<1> HIDE DEF sigs
<1>7. g \in [id : Nat, vals : Seq(Node), genTxs : Seq(BOOLEAN), sigs : Seq(Nat)]
      /\ g.id = data.id /\ g.vals = data.vals /\ g.sigs = sigs
  BY <1>1, <1>6 DEF Geneses
<1> HIDE DEF g
<1>8. g \in Geneses(S)
  BY <1>1, <1>6, <1>7 DEF Geneses
<1>9. ReceiveNewChainGenesisData(s, n, data) \in {s, [s EXCEPT !.genesis = g], [s EXCEPT !.genesis = data]}
  BY <1>2 DEF ReceiveNewChainGenesisData, our
<1> QED BY <1>8, <1>9 DEF Nodes

LEMMA AddedKeeps ==
  ASSUME NEW S, NEW s \in Nodes(S), s.genesis # NoGenesis, NEW n
  PROVE  LET g == s.genesis
             added == [g EXCEPT !.genTxs = [i \in DOMAIN @ |-> @[i] \/ g.vals[i] = n]]
             t == SendGenesis([s EXCEPT !.genesis = added])
         IN  t \in Nodes(S) /\ t.response = s.response /\ t.fsm = s.fsm
<1> DEFINE g == s.genesis
           txs == [i \in DOMAIN g.genTxs |-> g.genTxs[i] \/ g.vals[i] = n]
           added == [g EXCEPT !.genTxs = txs]
           t == [s EXCEPT !.genesis = added]
<1>1. g \in Geneses(S) /\ g.genTxs \in Seq(BOOLEAN)
  BY DEF Nodes, Geneses
<1>2. [g EXCEPT !.genTxs = [i \in DOMAIN @ |-> @[i] \/ g.vals[i] = n]] = added
  OBVIOUS
<1>3. txs \in Seq(BOOLEAN)
  <2>1. DOMAIN g.genTxs = 1..Len(g.genTxs) /\ Len(g.genTxs) \in Nat
    BY <1>1
  <2>2. \A i \in DOMAIN g.genTxs : (g.genTxs[i] \/ g.vals[i] = n) \in BOOLEAN
    OBVIOUS
  <2> HIDE DEF g
  <2> QED BY <2>1, <2>2
<1> HIDE DEF txs
<1>4. g # NoGenesis
  OBVIOUS
<1> HIDE DEF g
<1>5. /\ added \in [id : Nat, vals : Seq(Node), genTxs : Seq(BOOLEAN), sigs : Seq(Nat)]
      /\ added.id = g.id /\ added.vals = g.vals /\ added.sigs = g.sigs
  BY <1>1, <1>3 DEF Geneses
<1> HIDE DEF added
<1>6. added \in Geneses(S) /\ added # NoGenesis
  BY <1>1, <1>4, <1>5 DEF Geneses, NoGenesis
<1>7. t \in Nodes(S) /\ t.response = s.response /\ t.fsm = s.fsm /\ t.genesis # NoGenesis
  BY <1>6 DEF Nodes
<1> HIDE DEF t
<1>8. SendGenesis(t) \in Nodes(S) /\ SendGenesis(t).response = s.response /\ SendGenesis(t).fsm = s.fsm
  BY <1>7, SendsKeep
<1> QED BY <1>2, <1>8 DEF t, g

------------------------------------------------------------------------------
(* The inductive invariant: what every node keeps and what is on its way is as it
   should be for those that have signed so far. *)
LobbyInv ==
    /\ min \in Nat \ {0}
    /\ node \in [Node -> Nodes(signed)]
    /\ msgs \subseteq [to : Node, body : Bodies(signed)]

LEMMA LobbyInitInv == LobbyInit => LobbyInv
<1> SUFFICES ASSUME LobbyInit
             PROVE  LobbyInv
  OBVIOUS
<1>1. NoResponse \in Responses(signed)
  BY DEF Responses, NoResponse
<1>2. NoGenesis \in Geneses(signed)
  BY DEF Geneses, NoGenesis
<1>3. InitNode \in Nodes(signed)
  <2>1. <<>> \in Seq(Node)
    OBVIOUS
  <2> QED BY <1>1, <1>2, <2>1 DEF InitNode, Nodes, INIT_CHAIN_INDEX
<1>4. min \in Nat \ {0}
  BY LobbyAssumption DEF LobbyInit, LobbyAssumption
<1> QED BY <1>3, <1>4 DEF LobbyInit, LobbyInv

LEMMA InstallKeeps ==
  ASSUME LobbyInv, NEW n \in Node, NEW r \in Nodes(signed'), NEW got, Install(n, r, got)
  PROVE  LobbyInv'
<1> DEFINE T == signed'
           t == [r EXCEPT !.out = {}]
<1>1. min' = min /\ signed \subseteq T /\ node' = [node EXCEPT ![n] = t]
  BY DEF Install
<1>2. PICK sent \in SUBSET {p \in [to : Node \ {n}, body : r.out] : Takes(node[p.to], p.body)} :
          msgs' = {p \in (msgs \ got) \cup sent : Takes(node'[p.to], p.body)}
  BY DEF Install
<1>3. Bodies(signed) \subseteq Bodies(T) /\ Nodes(signed) \subseteq Nodes(T)
  BY <1>1, Grows
<1>4. r.out \subseteq Bodies(T) /\ t \in Nodes(T)
  BY DEF Nodes
<1> HIDE DEF t
<1>5. node' \in [Node -> Nodes(T)]
  BY <1>1, <1>3, <1>4 DEF LobbyInv
<1>6. msgs' \subseteq [to : Node, body : Bodies(T)]
  BY <1>2, <1>3, <1>4 DEF LobbyInv
<1>7. Bodies(signed)' = Bodies(T)
  BY DEF Bodies, Responses, Geneses
<1>8. Nodes(signed)' = Nodes(T)
  BY <1>1, <1>7 DEF Nodes, Responses, Geneses, Agreed
<1>9. min' \in Nat \ {0}
  BY <1>1 DEF LobbyInv
<1> HIDE DEF T
<1> QED BY <1>5, <1>6, <1>7, <1>8, <1>9 DEF LobbyInv

LEMMA InstallOld ==
  ASSUME LobbyInv, NEW n \in Node, NEW r \in Nodes(signed), NEW got, Install(n, r, got)
  PROVE  LobbyInv'
<1>1. signed \subseteq signed'
  BY DEF Install
<1>2. r \in Nodes(signed')
  BY <1>1, Grows
<1> QED BY <1>2, InstallKeeps

(* The list that a node installs is signed by it now. *)
LEMMA InstallSigned ==
  ASSUME LobbyInv, NEW n \in Node, NEW id \in Nat, NEW es \in Seq(Places(id, signed \cup {<<n, id>>})),
         \E i \in DOMAIN es : es[i].val = n,
         NEW r \in Nodes(signed \cup {<<n, id>>}), r.response = SignedBy(es, id, n), NEW got, Install(n, r, got)
  PROVE  LobbyInv'
<1> DEFINE S == signed \cup {<<n, id>>}
           q == SignedBy(es, id, n)
<1>1. <<n, id>> \in S
  OBVIOUS
<1>11. es \in Seq(Places(id, S)) /\ q = r.response
  OBVIOUS
<1> HIDE DEF S
<1>2. q.id = id /\ HasSig(q.entries, n, id, Vals(es))
  <2>1. PICK x \in Seq(Places(id, S)) : x = es
    BY <1>11
  <2>2. \E i \in DOMAIN x : x[i].val = n
    BY <2>1
  <2>3. SignedBy(x, id, n).id = id
    BY DEF SignedBy
  <2>4. HasSig(SignedBy(x, id, n).entries, n, id, Vals(x))
    BY <1>1, <2>1, <2>2, SignedByType
  <2> QED BY <2>1, <2>3, <2>4
<1> HIDE DEF q
<1>4. PICK i \in DOMAIN r.response.entries : r.response.entries[i].sig = <<n, id, Vals(es)>>
  BY <1>2, <1>11 DEF HasSig
<1> DEFINE e == r.response.entries[i]
<1>5. e \in Range(r.response.entries)
  BY DEF Range
<1>6. e.sig # NoSig /\ e.sig[1] = n
  BY <1>4 DEF NoSig
<1>7. signed' = signed \cup {<<n, r.response.id>> : x \in {x \in Range(r.response.entries) : x.sig # NoSig /\ x.sig[1] = n}}
  BY DEF Install
<1> HIDE DEF e
<1>8. <<n, r.response.id>> \in signed'
  BY <1>5, <1>6, <1>7
<1>9. S \subseteq signed'
  BY <1>2, <1>7, <1>8, <1>11 DEF S
<1>12. r \in Nodes(S)
  BY DEF S
<1>10. r \in Nodes(signed')
  BY <1>9, <1>12, Grows
<1> QED BY <1>10, InstallKeeps

LEMMA NodeIn ==
  ASSUME LobbyInv, NEW n \in Node
  PROVE  node[n] \in Nodes(signed) /\ min \in Nat \ {0}
BY DEF LobbyInv

LEMMA StartKeeps ==
  ASSUME LobbyInv, NEW n \in Node, Start(n)
  PROVE  LobbyInv'
<1> DEFINE s == [node[n] EXCEPT !.fsm = "requesting", !.starts = @ + 1]
<1>4. node[n] \in Nodes(signed)
  BY NodeIn
<1>1. s \in Nodes(signed)
  <2> DEFINE k == node[n].starts + 1
             t == [node[n] EXCEPT !.fsm = "requesting"]
             u == [t EXCEPT !.starts = k]
  <2>1. k \in Nat
    BY <1>4 DEF Nodes
  <2>2. s = u
    BY <1>4 DEF Nodes
  <2> HIDE DEF k
  <2>3. t \in Nodes(signed)
    BY <1>4 DEF Nodes
  <2> HIDE DEF t
  <2>4. u \in Nodes(signed)
    BY <2>1, <2>3 DEF Nodes
  <2> HIDE DEF s, u
  <2> QED BY <2>2, <2>4
<1>2. Install(n, SendNewChainRequest(s, n), {})
  BY DEF Start
<1> HIDE DEF s
<1>3. SendNewChainRequest(s, n) \in Nodes(signed)
  BY <1>1, RequestSent
<1> QED BY <1>2, <1>3, InstallOld

LEMMA TimeoutKeeps ==
  ASSUME LobbyInv, NEW n \in Node, Timeout(n)
  PROVE  LobbyInv'
<1> DEFINE id == node[n].lastId + 1
           S == signed \cup {<<n, id>>}
           c == CreateNewChainResponse(node[n], n)
           d == SendNewChainResponse(c)
           r == EnterNegotiating(d, n)
           es == Unsigned(node[n], n)
<1>8. node[n] \in Nodes(signed) /\ min \in Nat \ {0}
  BY NodeIn
<1>1. node[n] \in Nodes(signed) /\ min \in Nat \ {0} /\ id \in Nat /\ <<n, id>> \in S
  BY <1>8 DEF Nodes
<1>9. signed \subseteq S
  OBVIOUS
<1>2. node[n] \in Nodes(S)
  <2> HIDE DEF S
  <2> QED BY <1>1, <1>9, Grows
<1>3. node[n].fsm \in {"requesting", "negotiating"} /\ Install(n, r, {})
  BY DEF Timeout
<1>4. es \in Seq(Places(id, S)) /\ \E i \in DOMAIN es : es[i].val = n
  BY <1>1, UnsignedType
<1> HIDE DEF S
<1>5. c \in Nodes(S) /\ c.response = SignedBy(es, id, n)
  BY <1>1, <1>2, <1>3, CreateKeeps
<1> HIDE DEF c
<1>6. d \in Nodes(S) /\ d.response = SignedBy(es, id, n)
  BY <1>5, SendsKeep
<1> HIDE DEF d
<1>7. r \in Nodes(S) /\ r.response = SignedBy(es, id, n)
  BY <1>1, <1>6, NegotiatingKeeps
<1> HIDE DEF r, es, id
<1> QED BY <1>1, <1>3, <1>4, <1>7, InstallSigned DEF S

LEMMA RequestMessageKeeps ==
  ASSUME LobbyInv, NEW m \in msgs, ReceiveRequest(m)
  PROVE  LobbyInv'
<1> DEFINE n == m.to
           t == ReceiveNewChainRequest(node[n], n, m.body.from)
           r == IF node[n].fsm = "negotiating" THEN SendNewChainResponse(t) ELSE t
<1>1. n \in Node /\ m.body \in Bodies(signed) /\ m.body.type = "request"
  BY DEF LobbyInv, ReceiveRequest
<1>2. m.body.from \in Node
  BY <1>1 DEF Bodies
<1>3. Install(n, r, {m}) /\ node[n].fsm \in {"requesting", "negotiating"}
  BY Zenon DEF ReceiveRequest, Started
<1>4. node[n] \in Nodes(signed)
  BY <1>1, NodeIn
<1> HIDE DEF n
<1>5. t \in Nodes(signed)
  BY <1>1, <1>2, <1>3, <1>4, RequestKeeps
<1> HIDE DEF t
<1>6. SendNewChainResponse(t) \in Nodes(signed)
  BY <1>5, SendsKeep
<1>7. r \in Nodes(signed)
  BY <1>5, <1>6
<1> HIDE DEF r
<1> QED BY <1>1, <1>3, <1>7, InstallOld

LEMMA ResponseMessageKeeps ==
  ASSUME LobbyInv, NEW m \in msgs, ReceiveResponse(m)
  PROVE  LobbyInv'
<1> DEFINE n == m.to
           new == m.body.data
           s == node[n]
           t == ReceiveNewChainResponse(s, n, new)
           r == EnterNegotiating(t, n)
           S == signed \cup {<<n, new.id>>}
<1>1. n \in Node /\ m.body \in Bodies(signed) /\ m.body.type = "response"
  BY DEF LobbyInv, ReceiveResponse
<1>2. new \in Responses(signed)
  BY <1>1 DEF Bodies
<1>3. Install(n, r, {m}) /\ s.fsm \in {"requesting", "negotiating"} /\ IfIncludesUs(n, new)
  BY Zenon DEF ReceiveResponse, Started
<1>4. s \in Nodes(signed) /\ min \in Nat \ {0}
  BY <1>1, NodeIn
<1> HIDE DEF n, s, new
<1>5. CASE t = TakeOver(s, n, new)
  <2>1. new.id \in Nat /\ new.entries \in Seq(Place)
    BY <1>2, ResponseParts
  <2>2. s \in Nodes(S) /\ new \in Responses(S) /\ <<n, new.id>> \in S
    BY <1>2, <1>4, Grows
  <2>3. \E i \in DOMAIN new.entries : new.entries[i].val = n
    <3>1. PICK i \in DOMAIN Vals(new.entries) : Vals(new.entries)[i] = n
      BY <1>3 DEF IfIncludesUs, Range
    <3> QED BY <2>1, <3>1, ValsType
  <2>4. new.entries \in Seq(Places(new.id, S))
    BY <2>2, ResponseParts
  <2> HIDE DEF S
  <2>5. t \in Nodes(S) /\ t.response = SignedBy(new.entries, new.id, n)
    BY <1>1, <1>3, <1>5, <2>2, <2>3, TakeOverKeeps
  <2> HIDE DEF t
  <2>6. r \in Nodes(S) /\ r.response = SignedBy(new.entries, new.id, n)
    BY <1>1, <1>4, <2>5, NegotiatingKeeps
  <2> HIDE DEF r
  <2> QED BY <1>1, <1>3, <2>1, <2>3, <2>4, <2>6, InstallSigned DEF S
<1>6. CASE t # TakeOver(s, n, new)
  <2>1. t \in Nodes(signed)
    BY <1>1, <1>2, <1>3, <1>4, <1>6, ResponseKeeps
  <2> HIDE DEF t
  <2>2. r \in Nodes(signed)
    BY <1>1, <1>4, <2>1, NegotiatingKeeps
  <2> HIDE DEF r
  <2> QED BY <1>1, <1>3, <2>2, InstallOld
<1> QED BY <1>5, <1>6

LEMMA GenesisMessageKeeps ==
  ASSUME LobbyInv, NEW m \in msgs, ReceiveGenesis(m)
  PROVE  LobbyInv'
<1> DEFINE n == m.to
           t == ReceiveNewChainGenesisData(node[n], n, m.body.data)
<1>1. n \in Node /\ m.body \in Bodies(signed) /\ m.body.type = "genesis"
  BY DEF LobbyInv, ReceiveGenesis
<1>2. m.body.data \in Geneses(signed) /\ m.body.data # NoGenesis
  BY <1>1 DEF Bodies
<1>3. Install(n, EnterInitializing(t), {m}) /\ node[n].fsm = "initializing"
  BY Zenon DEF ReceiveGenesis
<1>4. node[n] \in Nodes(signed)
  BY <1>1, NodeIn
<1>5. Agreed(node[n].response)
  BY <1>3, <1>4 DEF Nodes
<1> HIDE DEF n
<1>6. t \in Nodes(signed) /\ t.response = node[n].response
  BY <1>1, <1>2, <1>4, GenesisKeeps
<1> HIDE DEF t
<1>7. EnterInitializing(t) \in Nodes(signed)
  BY <1>5, <1>6, InitializingKeeps
<1> QED BY <1>1, <1>3, <1>7, InstallOld

LEMMA AddGenTxKeeps ==
  ASSUME LobbyInv, NEW n \in Node, AddGenTx(n)
  PROVE  LobbyInv'
<1> DEFINE g == node[n].genesis
           added == [g EXCEPT !.genTxs = [i \in DOMAIN @ |-> @[i] \/ g.vals[i] = n]]
           t == SendGenesis([node[n] EXCEPT !.genesis = added])
<1>1. node[n].fsm = "initializing" /\ g # NoGenesis /\ Install(n, EnterInitializing(t), {})
  BY Zenon DEF AddGenTx
<1>2. node[n] \in Nodes(signed)
  BY NodeIn
<1>3. Agreed(node[n].response)
  BY <1>1, <1>2 DEF Nodes
<1>4. t \in Nodes(signed) /\ t.response = node[n].response
  BY <1>1, <1>2, AddedKeeps
<1> HIDE DEF t
<1>5. EnterInitializing(t) \in Nodes(signed)
  BY <1>3, <1>4, InitializingKeeps
<1> QED BY <1>1, <1>5, InstallOld

LEMMA HeartbeatKeeps ==
  ASSUME LobbyInv, NEW n \in Node, Heartbeat(n)
  PROVE  LobbyInv'
<1>1. SendLastChainId(node[n]) \in Nodes(signed)
  BY NodeIn, SendsKeep
<1> QED BY <1>1, InstallOld DEF Heartbeat

LEMMA LastIdMessageKeeps ==
  ASSUME LobbyInv, NEW m \in msgs, ReceiveLastChainId(m)
  PROVE  LobbyInv'
<1> DEFINE s == node[m.to]
           t == [s EXCEPT !.lastId = m.body.id]
           r == IF s.lastId < m.body.id THEN t ELSE s
<1>1. m.to \in Node /\ m.body \in Bodies(signed) /\ m.body.type = "lastId"
  BY DEF LobbyInv, ReceiveLastChainId
<1>2. m.body.id \in Nat
  BY <1>1 DEF Bodies
<1>3. s \in Nodes(signed)
  BY <1>1, NodeIn
<1>4. t \in Nodes(signed)
  BY <1>2, <1>3 DEF Nodes
<1>5. r \in Nodes(signed)
  BY <1>3, <1>4
<1>6. Install(m.to, r, {m})
  BY Zenon DEF ReceiveLastChainId
<1> HIDE DEF r
<1> QED BY <1>1, <1>5, <1>6, InstallOld

LEMMA LobbyStepInv == LobbyInv /\ [LobbyNext]_lobbyVars => LobbyInv'
<1> SUFFICES ASSUME LobbyInv, [LobbyNext]_lobbyVars
             PROVE  LobbyInv'
  OBVIOUS
<1>1. ASSUME NEW n \in Node, Start(n) \/ Timeout(n) \/ AddGenTx(n) \/ Heartbeat(n)
      PROVE  LobbyInv'
  BY <1>1, StartKeeps, TimeoutKeeps, AddGenTxKeeps, HeartbeatKeeps
<1>2. ASSUME NEW m \in msgs, ReceiveRequest(m) \/ ReceiveResponse(m) \/ ReceiveGenesis(m) \/ ReceiveLastChainId(m)
      PROVE  LobbyInv'
  BY <1>2, RequestMessageKeeps, ResponseMessageKeeps, GenesisMessageKeeps, LastIdMessageKeeps
<1>3. CASE UNCHANGED lobbyVars
  <2>1. min' = min /\ node' = node /\ msgs' = msgs /\ signed' = signed
    BY <1>3 DEF lobbyVars
  <2>2. Bodies(signed)' = Bodies(signed)
    BY <2>1 DEF Bodies, Responses, Geneses
  <2>3. Nodes(signed)' = Nodes(signed)
    BY <2>1, <2>2 DEF Nodes, Responses, Geneses, Agreed
  <2> QED BY <2>1, <2>2, <2>3 DEF LobbyInv
<1> QED BY <1>1, <1>2, <1>3 DEF LobbyNext

(* Everything a node of the lobby keeps or sends is as it should be: places and
   genesis data of validators that signed, and an agreed list from initializing on. *)
THEOREM LobbyInvariant == LobbySpec => []LobbyInv
BY LobbyInitInv, LobbyStepInv, PTL DEF LobbySpec

(* However lists are sorted, merged, cut and copied, of any number of nodes and any
   lists with places taken twice: a signature stays beside the validator that made it,
   for the chain of the list. *)
THEOREM SlotsStayOwn == LobbySpec => []SlotsAreOwn
<1>1. LobbyInv => SlotsAreOwn
  <2> SUFFICES ASSUME LobbyInv, NEW n \in Node
               PROVE  /\ \A e \in Range(node[n].response.entries) :
                             e.sig = NoSig \/ (e.sig[1] = e.val /\ e.sig[2] = node[n].response.id)
                      /\ \A i \in DOMAIN node[n].genesis.sigs : node[n].genesis.sigs[i] \in {0, node[n].genesis.vals[i]}
    BY DEF SlotsAreOwn
  <2>1. node[n].response \in Responses(signed) /\ node[n].genesis \in Geneses(signed)
    BY NodeIn DEF Nodes
  <2>2. \A i \in DOMAIN node[n].response.entries : Owned(node[n].response.entries[i], node[n].response.id, signed)
    BY <2>1 DEF Responses
  <2>3. DOMAIN node[n].genesis.sigs = DOMAIN node[n].genesis.vals
    <3>1. \A a \in Seq(Nat), b \in Seq(Node) : Len(a) = Len(b) => DOMAIN a = DOMAIN b
      OBVIOUS
    <3> QED BY <2>1, <3>1 DEF Geneses
  <2> QED BY <2>1, <2>2, <2>3 DEF Owned, Range, Geneses
<1> QED BY <1>1, LobbyInvariant, PTL

(* Whatever is lost or late and whoever starts again: no chain is set up, and no
   genesis data goes round, with a validator that has not signed for that chain. *)
THEOREM NoChainWithoutConsent == LobbySpec => []Consent
<1>1. LobbyInv => Consent
  <2> SUFFICES ASSUME LobbyInv, NEW n \in Node
               PROVE  /\ node[n].fsm \in {"initializing", "initialized"} =>
                             /\ Len(node[n].response.entries) >= min
                             /\ \A e \in Range(node[n].response.entries) : <<e.val, node[n].response.id>> \in signed
                      /\ \A v \in Range(node[n].genesis.vals) : <<v, node[n].genesis.id>> \in signed
    BY Zenon DEF Consent
  <2>1. node[n].response \in Responses(signed) /\ node[n].genesis \in Geneses(signed) /\ node[n] \in Nodes(signed)
    BY NodeIn DEF Nodes
  <2>2. \A i \in DOMAIN node[n].response.entries : Owned(node[n].response.entries[i], node[n].response.id, signed)
    BY <2>1 DEF Responses
  <2>3. node[n].fsm \in {"initializing", "initialized"} => Agreed(node[n].response)
    BY <2>1 DEF Nodes
  <2>4. \A i \in DOMAIN node[n].genesis.vals : <<node[n].genesis.vals[i], node[n].genesis.id>> \in signed
    BY <2>1 DEF Geneses
  <2> QED BY <2>2, <2>3, <2>4 DEF Owned, Agreed, Range
<1> QED BY <1>1, LobbyInvariant, PTL
==============================================================================
