---------------------------- MODULE Stake_proofs ----------------------------
(* Proofs about the stake of the validators: StakingLedger in the first part,
   Slashing in the second. *)
EXTENDS StakingLedger, Slashing, Induction, FiniteSetTheorems, FunctionTheorems, SequenceTheorems, TLAPS

------------------------------------------------------------------------------
(* Proofs about StakingLedger.  The inductive invariant is Sound: the types, and
   the books of the staking token (Books).  Two of the books are kept by any
   call: the lists mirror one another, and what the delegators have is the
   supply, with coins behind it.  The rest lasts until some call takes more from
   a validator than the delegator has there: a difference below zero is stored
   as a positive number, so the validators have more than the supply from then
   on, and Books says no more of them than that.  Until then the individual
   amounts of each validator add up to no more than its total (Covered), which
   is what the distribution of fees needs: it divides by the total and pays by
   the amounts, so the shares, each rounded down, stay within the fees
   (EarnedWithin), if the commission does.  Worth, the coins of both kinds less
   those of transfers to oneself, is then what no step lets grow. *)

(* The accounts of the modules are three, and none of a user. *)
LEMMA AccountsHold ==
  /\ IsFiniteSet(Account) /\ IsFiniteSet(User) /\ User \in SUBSET Account
  /\ {Staking, StakedToken, FeeCollector} \subseteq Account
  /\ Staking \notin User /\ StakedToken \notin User /\ FeeCollector \notin User
  /\ Staking # StakedToken /\ FeeCollector # Staking /\ FeeCollector # StakedToken
<1>1. User \subseteq Account
  BY StakingAssumption DEF StakingAssumption
<1>2. IsFiniteSet(Account) /\ IsFiniteSet(User)
  BY <1>1, AccountAssumption, FS_Subset DEF AccountAssumption
<1> QED BY <1>1, <1>2, StakingAssumption DEF StakingAssumption

LEMMA SumIsTotal == ASSUME NEW f PROVE SumOf(f) = Total(f)
  BY DEF SumOf, Total

(* What a balance that changes does to the sum of S's. *)
LEMMA SumOfChange ==
  ASSUME NEW S, IsFiniteSet(S), NEW b \in [S -> Int], NEW x \in S, NEW v \in Int
  PROVE  SumOf([b EXCEPT ![x] = v]) = SumOf(b) + v - b[x] /\ SumOf(b) \in Int
<1> DEFINE c == [b EXCEPT ![x] = v]
<1>1. c \in [S -> Int] /\ c[x] = v /\ \A y \in S \ {x} : c[y] = b[y]
  OBVIOUS
<1> HIDE DEF c
<1>2. Total(c) = Total(b) + c[x] - b[x] /\ Total(b) \in Int
  BY <1>1, TotalOfChange, TotalType
<1> QED BY <1>1, <1>2, SumIsTotal DEF c

LEMMA SumOfNat == ASSUME NEW S, IsFiniteSet(S), NEW f \in [S -> Nat] PROVE SumOf(f) \in Nat
<1> DEFINE z == [x \in S |-> 0]
<1>1. z \in [S -> Int] /\ f \in [S -> Int] /\ \A x \in S : z[x] <= f[x]
  OBVIOUS
<1>2. Total(z) = 0
  BY TotalOfZeros
<1> HIDE DEF z
<1>3. Total(z) <= Total(f) /\ Total(f) \in Int
  BY <1>1, TotalOfSmaller, TotalType
<1> QED BY <1>2, <1>3, SumIsTotal

LEMMA SumOfZeros == ASSUME NEW S, IsFiniteSet(S) PROVE SumOf([x \in S |-> 0]) = 0
  BY TotalOfZeros, SumIsTotal

LEMMA MinusType == ASSUME NEW a \in Nat, NEW b \in Nat
                   PROVE  /\ Minus(a, b) \in Nat /\ Minus(a, b) >= a - b
                          /\ b <= a => Minus(a, b) = a - b
  BY DEF Minus

(* A figure of one user that grows, or shrinks. *)
Changed(b, c, v, n) == c[v] = n /\ \A u \in User \ {v} : c[u] = b[u]

LEMMA SumOfMore ==
  ASSUME NEW b \in [User -> Nat], NEW c \in [User -> Nat], NEW v \in User, NEW n \in Nat,
         Changed(b, c, v, b[v] + n)
  PROVE  SumOf(c) = SumOf(b) + n /\ SumOf(b) \in Int /\ SumOf(c) \in Int
<1>1. b \in [User -> Int] /\ c \in [User -> Int] /\ b[v] \in Nat
  OBVIOUS
<1>2. c[v] = b[v] + n /\ \A u \in User \ {v} : c[u] = b[u]
  BY DEF Changed
<1>3. Total(c) = Total(b) + c[v] - b[v] /\ Total(b) \in Int
  BY <1>1, <1>2, TotalOfChange, TotalType, AccountsHold
<1> QED BY <1>1, <1>2, <1>3, SumIsTotal

LEMMA SumOfLess ==
  ASSUME NEW b \in [User -> Nat], NEW c \in [User -> Nat], NEW v \in User, NEW n \in Nat,
         Changed(b, c, v, Minus(b[v], n))
  PROVE  /\ SumOf(c) \in Int /\ SumOf(b) \in Int
         /\ SumOf(c) >= SumOf(b) - n
         /\ n <= b[v] => SumOf(c) = SumOf(b) - n
<1>1. b \in [User -> Int] /\ c \in [User -> Int] /\ b[v] \in Nat /\ c[v] \in Nat
  OBVIOUS
<1>2. c[v] >= b[v] - n /\ (n <= b[v] => c[v] = b[v] - n)
  BY <1>1, MinusType DEF Changed
<1>3. \A u \in User \ {v} : c[u] = b[u]
  BY DEF Changed
<1>4. Total(c) = Total(b) + c[v] - b[v] /\ Total(b) \in Int
  BY <1>1, <1>3, TotalOfChange, TotalType, AccountsHold
<1> QED BY <1>1, <1>2, <1>4, SumIsTotal

------------------------------------------------------------------------------
(* Gas that changes hands: nobody but the payer has less of it, and the coins
   are as many, but for those a transfer to oneself makes. *)
Paid(t, r, from, to, amount) ==
    /\ r \in Token /\ SumOf(r.bal) - r.made = SumOf(t.bal) - t.made
    /\ from # to => r.bal[from] = t.bal[from] - amount /\ r.bal[to] = t.bal[to] + amount
    /\ \A o \in Account \ {from, to} : r.bal[o] = t.bal[o]

LEMMA MovePays ==
  ASSUME NEW t \in Token, NEW from \in Account, NEW to \in Account, NEW amount \in Nat,
         Move(t, from, to, amount).ok
  PROVE  Paid(t, Move(t, from, to, amount).token, from, to, amount)
<1> DEFINE b == t.bal
           b1 == [b EXCEPT ![from] = b[from] - amount]
           b2 == [b1 EXCEPT ![to] = b[to] + amount]
           made == IF from = to THEN t.made + amount ELSE t.made
           r == Move(t, from, to, amount).token
<1>1. b \in [Account -> Nat] /\ b[from] \in Nat /\ b[to] \in Nat /\ t.made \in Nat
  BY DEF Token
<1>2. ~ (b[from] < amount)
  BY DEF Move, Reverted
<1>3. r = Moved(t, from, to, amount)
  BY <1>2 DEF Move, Done
<1>4. Moved(t, from, to, amount) = [t EXCEPT !.bal = b2, !.made = made]
  BY <1>1 DEF Moved, Token
<1>5. b[from] - amount \in Nat /\ b[to] + amount \in Nat /\ made \in Nat
  BY <1>1, <1>2
<1>6. /\ b1 \in [Account -> Nat] /\ b2 \in [Account -> Nat]
      /\ b1[to] = IF from = to THEN b[to] - amount ELSE b[to]
  BY <1>1, <1>5
<1>7. SumOf(b1) = SumOf(b) + (b[from] - amount) - b[from] /\ SumOf(b) \in Int
  <2>1. b \in [Account -> Int] /\ b[from] - amount \in Int
    BY <1>1, <1>5
  <2> HIDE DEF b
  <2> QED BY <2>1, SumOfChange, AccountsHold
<1>8. SumOf(b2) = SumOf(b1) + (b[to] + amount) - b1[to]
  <2>1. b1 \in [Account -> Int] /\ b[to] + amount \in Int
    BY <1>5, <1>6
  <2> HIDE DEF b, b1
  <2> QED BY <2>1, SumOfChange, AccountsHold DEF b2
<1>9. /\ from # to => b2[to] = b[to] + amount /\ b2[from] = b[from] - amount
      /\ \A o \in Account \ {from, to} : b2[o] = b[o]
  BY <1>1, <1>5, <1>6
<1> HIDE DEF r, b2, b1
<1>10. SumOf(b2) - made = SumOf(b) - t.made
  <2> DEFINE B == SumOf(b)
             n == b1[to]
  <2>1. B \in Int /\ b[from] \in Nat /\ b[to] \in Nat /\ n = IF from = to THEN b[to] - amount ELSE b[to]
    BY <1>1, <1>6, <1>7
  <2>2. SumOf(b2) = (B + (b[from] - amount) - b[from]) + (b[to] + amount) - n
    BY <1>7, <1>8
  <2> HIDE DEF B, b, n
  <2> QED BY <1>1, <2>1, <2>2 DEF B
<1> HIDE DEF made
<1>11. r \in Token /\ r.bal = b2 /\ r.made = made
  BY <1>3, <1>4, <1>5, <1>6 DEF Token
<1>12. Paid(t, r, from, to, amount)
  BY <1>9, <1>10, <1>11 DEF Paid
<1> QED BY <1>12 DEF r

(* All the coins of an account burnt, and coins minted. *)
LEMMA BurntAll ==
  ASSUME NEW t \in Token, NEW a \in Account
  PROVE  LET r == Burn(t, a, t.bal[a]).token
         IN  /\ r \in Token /\ r.made = t.made /\ r.bal = [t.bal EXCEPT ![a] = 0]
             /\ SumOf(r.bal) = SumOf(t.bal) - t.bal[a] /\ SumOf(t.bal) \in Int /\ t.bal[a] \in Nat
<1> DEFINE n == t.bal[a]
           b == [t.bal EXCEPT ![a] = 0]
           supply == Minus(t.supply, n)
           wrapped == t.wrapped + supply - (t.supply - n)
           r == Burn(t, a, n).token
<1>1. t.bal \in [Account -> Nat] /\ n \in Nat /\ t.supply \in Nat /\ t.wrapped \in Nat
  BY DEF Token
<1>2. supply \in Nat /\ supply >= t.supply - n
  BY <1>1, MinusType
<1>3. r = [t EXCEPT !.bal = b, !.supply = supply, !.wrapped = wrapped]
  <2>1. ~ (t.bal[a] < n) /\ t.bal[a] - n = 0
    BY <1>1
  <2>2. r = [t EXCEPT !.bal[a] = t.bal[a] - n, !.supply = supply, !.wrapped = wrapped]
    <3> HIDE DEF n
    <3> QED BY <2>1 DEF Burn, Done, Token
  <2> HIDE DEF r, n, supply, wrapped
  <2> QED BY <2>1, <2>2 DEF Token
<1> HIDE DEF supply
<1>4. wrapped \in Nat
  BY <1>1, <1>2
<1>5. b \in [Account -> Nat]
  BY <1>1
<1>6. SumOf(b) = SumOf(t.bal) + 0 - t.bal[a] /\ SumOf(t.bal) \in Int
  <2> DEFINE f == t.bal
  <2>1. f \in [Account -> Int] /\ 0 \in Int
    BY <1>1
  <2> HIDE DEF f
  <2>2. SumOf([f EXCEPT ![a] = 0]) = SumOf(f) + 0 - f[a] /\ SumOf(f) \in Int
    BY <2>1, SumOfChange, AccountsHold
  <2> QED BY <2>2 DEF f
<1> HIDE DEF r, wrapped, b
<1>7. r \in Token /\ r.made = t.made /\ r.bal = b
  BY <1>2, <1>3, <1>4, <1>5 DEF Token
<1> QED BY <1>1, <1>6, <1>7 DEF r, b

LEMMA MintedMore ==
  ASSUME NEW t \in Token, NEW a \in Account, NEW n \in Nat
  PROVE  LET r == Mint(t, a, n).token
         IN  /\ r \in Token /\ r.made = t.made /\ r.bal = [t.bal EXCEPT ![a] = t.bal[a] + n]
             /\ SumOf(r.bal) = SumOf(t.bal) + n /\ SumOf(t.bal) \in Int
<1> DEFINE r == Mint(t, a, n).token
           b == [t.bal EXCEPT ![a] = t.bal[a] + n]
<1>1. t.bal \in [Account -> Nat] /\ t.bal[a] \in Nat /\ t.supply + n \in Nat
  BY DEF Token
<1>2. r = [t EXCEPT !.bal = b, !.supply = t.supply + n]
  BY DEF Mint, Done, Token
<1>3. b \in [Account -> Nat]
  BY <1>1
<1>4. SumOf(b) = SumOf(t.bal) + n /\ SumOf(t.bal) \in Int
  <2> DEFINE f == t.bal
  <2>1. f \in [Account -> Int] /\ f[a] + n \in Int /\ f[a] \in Int
    BY <1>1
  <2> HIDE DEF f
  <2>2. SumOf([f EXCEPT ![a] = f[a] + n]) = SumOf(f) + (f[a] + n) - f[a] /\ SumOf(f) \in Int
    BY <2>1, SumOfChange, AccountsHold
  <2>3. SumOf([f EXCEPT ![a] = f[a] + n]) = SumOf(f) + n /\ SumOf(f) \in Int
    BY <2>1, <2>2
  <2> QED BY <2>3 DEF f
<1> HIDE DEF r, b
<1>5. r \in Token /\ r.made = t.made /\ r.bal = b
  BY <1>1, <1>2, <1>3 DEF Token
<1> QED BY <1>4, <1>5 DEF r, b

------------------------------------------------------------------------------
(* What the staking token's books say of one another. *)
Column(s, v) == [d \in User |-> s.delegation[d][v]]

(* The individual amounts of a validator are covered by its total: a new
   delegation replaces the amount there was and adds to the total. *)
Covered(s) == \A v \in User : SumOf(Column(s, v)) <= s.total[v]

Mirrored(s) == \A d, v \in User : v \in s.validatorsOf[d] <=> d \in s.delegatorsOf[v]

Listed(s) == \A d, v \in User : s.delegation[d][v] > 0 => v \in s.validatorsOf[d]

Books(s, o) ==
    /\ s \in Stake /\ Mirrored(s)
    /\ SumOf(s.bal) = s.supply
    /\ s.total = s.validator
    /\ SumOf(s.validator) >= s.supply
    /\ ~o => Covered(s) /\ Listed(s) /\ SumOf(s.validator) = s.supply

LEMMA ColumnType ==
  ASSUME NEW s \in Stake, NEW v \in User
  PROVE  Column(s, v) \in [User -> Nat] /\ \A d \in User : Column(s, v)[d] = s.delegation[d][v]
  BY DEF Column, Stake

LEMMA ColumnOfMember ==
  ASSUME NEW s \in Stake, Covered(s), NEW d \in User, NEW v \in User
  PROVE  s.delegation[d][v] <= s.total[v]
<1>1. Column(s, v)[d] <= Total(Column(s, v)) /\ Total(Column(s, v)) \in Nat
  BY ColumnType, TotalOfMember, AccountsHold
<1>2. Total(Column(s, v)) <= s.total[v]
  BY SumIsTotal DEF Covered
<1>3. s.delegation[d][v] \in Nat /\ s.total[v] \in Nat
  BY DEF Stake
<1> QED BY <1>1, <1>2, <1>3, ColumnType

(* One cell of the delegations becomes n and the total of its validator t. *)
CellSet(s, s2, d, v, n, t) ==
    /\ s2.delegation[d][v] = n /\ s2.total[v] = t
    /\ \A e, w \in User : <<e, w>> # <<d, v>> => s2.delegation[e][w] = s.delegation[e][w]
    /\ \A w \in User \ {v} : s2.total[w] = s.total[w]
    /\ n - s.delegation[d][v] <= t - s.total[v]

LEMMA CellCovered ==
  ASSUME NEW s \in Stake, Covered(s), NEW d \in User, NEW v \in User, NEW n \in Nat, NEW t \in Nat,
         NEW s2 \in Stake, CellSet(s, s2, d, v, n, t)
  PROVE  Covered(s2)
<1> SUFFICES ASSUME NEW w \in User
             PROVE  SumOf(Column(s2, w)) <= s2.total[w]
  BY DEF Covered
<1>1. s.delegation \in [User -> [User -> Nat]] /\ s.total \in [User -> Nat]
  BY DEF Stake
<1>2. SumOf(Column(s, w)) <= s.total[w]
  BY DEF Covered
<1>3. CASE w # v
  <2>1. \A e \in User : s2.delegation[e][w] = s.delegation[e][w]
    BY <1>3 DEF CellSet
  <2>2. Column(s2, w) = Column(s, w)
    BY <2>1 DEF Column
  <2>3. s2.total[w] = s.total[w]
    BY <1>3 DEF CellSet
  <2> QED BY <1>2, <2>2, <2>3
<1>4. CASE w = v
  <2> DEFINE c == Column(s, v)
             c2 == Column(s2, v)
  <2>1. c \in [User -> Int] /\ c2 \in [User -> Int]
    BY ColumnType
  <2>2. c[d] = s.delegation[d][v] /\ c2[d] = n /\ \A e \in User \ {d} : c2[e] = c[e]
    BY ColumnType DEF CellSet
  <2> HIDE DEF c, c2
  <2>3. Total(c2) = Total(c) + c2[d] - c[d] /\ Total(c) \in Int
    BY <2>1, <2>2, TotalOfChange, TotalType, AccountsHold
  <2>4. s2.total[v] = t /\ s.delegation[d][v] \in Nat /\ s.total[v] \in Nat
        /\ n - s.delegation[d][v] <= t - s.total[v]
    BY <1>1 DEF CellSet
  <2>5. Total(c) <= s.total[v]
    BY <1>2, <1>4, SumIsTotal DEF c
  <2>6. Total(c2) <= s2.total[v]
    BY <2>2, <2>3, <2>4, <2>5
  <2> QED BY <1>4, <2>6, SumIsTotal DEF c2
<1> QED BY <1>3, <1>4

LEMMA JoinSound ==
  ASSUME NEW s \in Stake, NEW d \in User, NEW v \in User, NEW amount \in Nat
  PROVE  LET j == Join(s, d, v, amount)
         IN  /\ j \in Stake /\ (Mirrored(s) => Mirrored(j))
             /\ (Covered(s) => Covered(j)) /\ (Listed(s) => Listed(j))
             /\ j.bal = s.bal /\ j.supply = s.supply /\ j.validator = s.validator
             /\ j.total = [s.total EXCEPT ![v] = s.total[v] + amount]
<1> DEFINE j == Join(s, d, v, amount)
<1>1. /\ s.delegation \in [User -> [User -> Nat]] /\ s.total \in [User -> Nat]
      /\ s.validatorsOf \in [User -> SUBSET User] /\ s.delegatorsOf \in [User -> SUBSET User]
      /\ s.total[v] + amount \in Nat /\ s.delegation[d][v] \in Nat /\ s.total[v] \in Nat
  BY DEF Stake
<1>2. /\ [s.validatorsOf EXCEPT ![d] = s.validatorsOf[d] \cup {v}] \in [User -> SUBSET User]
      /\ [s.delegatorsOf EXCEPT ![v] = s.delegatorsOf[v] \cup {d}] \in [User -> SUBSET User]
      /\ [s.delegation EXCEPT ![d][v] = amount] \in [User -> [User -> Nat]]
      /\ [s.total EXCEPT ![v] = s.total[v] + amount] \in [User -> Nat]
  BY <1>1
<1>3. /\ j.bal = s.bal /\ j.supply = s.supply /\ j.validator = s.validator
      /\ j.validatorsOf = [s.validatorsOf EXCEPT ![d] = s.validatorsOf[d] \cup {v}]
      /\ j.delegatorsOf = [s.delegatorsOf EXCEPT ![v] = s.delegatorsOf[v] \cup {d}]
      /\ j.delegation = [s.delegation EXCEPT ![d][v] = amount]
      /\ j.total = [s.total EXCEPT ![v] = s.total[v] + amount]
  BY DEF Join, Stake
<1>4. j \in Stake
  BY <1>2 DEF Join, Stake
<1> HIDE DEF j
<1>5. Covered(s) => Covered(j)
  <2>1. amount - s.delegation[d][v] <= (s.total[v] + amount) - s.total[v]
    BY <1>1
  <2>2. CellSet(s, j, d, v, amount, s.total[v] + amount)
    BY <1>1, <1>3, <2>1 DEF CellSet
  <2> QED BY <1>1, <1>4, <2>2, CellCovered
<1>6. Mirrored(s) => Mirrored(j)
  <2> SUFFICES ASSUME Mirrored(s), NEW e \in User, NEW w \in User
               PROVE  w \in j.validatorsOf[e] <=> e \in j.delegatorsOf[w]
    BY DEF Mirrored
  <2>1. w \in s.validatorsOf[e] <=> e \in s.delegatorsOf[w]
    BY DEF Mirrored
  <2> QED BY <1>1, <1>3, <2>1
<1>7. Listed(s) => Listed(j)
  <2> SUFFICES ASSUME Listed(s), NEW e \in User, NEW w \in User, j.delegation[e][w] > 0
               PROVE  w \in j.validatorsOf[e]
    BY DEF Listed
  <2>1. s.delegation[e][w] > 0 => w \in s.validatorsOf[e]
    BY DEF Listed
  <2> QED BY <1>1, <1>3, <2>1
<1> QED BY <1>3, <1>4, <1>5, <1>6, <1>7 DEF j

LEMMA LeaveSound ==
  ASSUME NEW s \in Stake, NEW d \in User, NEW v \in User, NEW amount \in Nat
  PROVE  LET j == Leave(s, d, v, amount)
         IN  /\ j \in Stake /\ (Mirrored(s) => Mirrored(j))
             /\ amount <= s.delegation[d][v] => (Covered(s) => Covered(j)) /\ (Listed(s) => Listed(j))
             /\ j.bal = s.bal /\ j.supply = s.supply /\ j.validator = s.validator
             /\ j.total = [s.total EXCEPT ![v] = Minus(s.total[v], amount)]
<1> DEFINE j == Leave(s, d, v, amount)
           last == s.delegation[d][v] = amount
           vs == IF last THEN s.validatorsOf[d] \ {v} ELSE s.validatorsOf[d]
           ds == IF last THEN s.delegatorsOf[v] \ {d} ELSE s.delegatorsOf[v]
           left == Minus(s.delegation[d][v], amount)
           total == Minus(s.total[v], amount)
<1>1. /\ s.delegation \in [User -> [User -> Nat]] /\ s.total \in [User -> Nat]
      /\ s.validatorsOf \in [User -> SUBSET User] /\ s.delegatorsOf \in [User -> SUBSET User]
      /\ s.delegation[d][v] \in Nat /\ s.total[v] \in Nat
  BY DEF Stake
<1>2. /\ left \in Nat /\ total \in Nat /\ total >= s.total[v] - amount
      /\ amount <= s.delegation[d][v] => left = s.delegation[d][v] - amount
  BY <1>1, MinusType
<1>3. vs \in SUBSET User /\ ds \in SUBSET User
  BY <1>1
<1>4. j = [s EXCEPT !.validatorsOf[d] = vs, !.delegatorsOf[v] = ds,
                    !.delegation[d][v] = left, !.total[v] = total]
  BY DEF Leave, Stake
<1> HIDE DEF j, vs, ds, left, total
<1>5. /\ [s.validatorsOf EXCEPT ![d] = vs] \in [User -> SUBSET User]
      /\ [s.delegatorsOf EXCEPT ![v] = ds] \in [User -> SUBSET User]
      /\ [s.delegation EXCEPT ![d][v] = left] \in [User -> [User -> Nat]]
      /\ [s.total EXCEPT ![v] = total] \in [User -> Nat]
  BY <1>1, <1>2, <1>3
<1>6. /\ j.bal = s.bal /\ j.supply = s.supply /\ j.validator = s.validator
      /\ j.validatorsOf = [s.validatorsOf EXCEPT ![d] = vs]
      /\ j.delegatorsOf = [s.delegatorsOf EXCEPT ![v] = ds]
      /\ j.delegation = [s.delegation EXCEPT ![d][v] = left]
      /\ j.total = [s.total EXCEPT ![v] = total]
  BY <1>4 DEF Stake
<1>7. j \in Stake
  BY <1>4, <1>5 DEF Stake
<1>8. amount <= s.delegation[d][v] /\ Covered(s) => Covered(j)
  <2> SUFFICES ASSUME amount <= s.delegation[d][v], Covered(s)
               PROVE  Covered(j)
    OBVIOUS
  <2>1. left - s.delegation[d][v] <= total - s.total[v]
    BY <1>1, <1>2
  <2>2. CellSet(s, j, d, v, left, total)
    BY <1>1, <1>6, <2>1 DEF CellSet
  <2> QED BY <1>2, <1>7, <2>2, CellCovered
<1>9. Mirrored(s) => Mirrored(j)
  <2> SUFFICES ASSUME Mirrored(s), NEW e \in User, NEW w \in User
               PROVE  w \in j.validatorsOf[e] <=> e \in j.delegatorsOf[w]
    BY DEF Mirrored
  <2>1. /\ w \in s.validatorsOf[e] <=> e \in s.delegatorsOf[w]
        /\ v \in s.validatorsOf[d] <=> d \in s.delegatorsOf[v]
    BY DEF Mirrored
  <2>2. w \in j.validatorsOf[e] <=> w \in s.validatorsOf[e] /\ ~(last /\ e = d /\ w = v)
    BY <1>1, <1>6 DEF vs
  <2>3. e \in j.delegatorsOf[w] <=> e \in s.delegatorsOf[w] /\ ~(last /\ e = d /\ w = v)
    BY <1>1, <1>6 DEF ds
  <2> QED BY <2>1, <2>2, <2>3
<1>10. amount <= s.delegation[d][v] /\ Listed(s) => Listed(j)
  <2> SUFFICES ASSUME amount <= s.delegation[d][v], Listed(s), NEW e \in User, NEW w \in User, j.delegation[e][w] > 0
               PROVE  w \in j.validatorsOf[e]
    BY DEF Listed
  <2>1. s.delegation[e][w] > 0 => w \in s.validatorsOf[e]
    BY DEF Listed
  <2>2. CASE e = d /\ w = v
    <3>1. left > 0 /\ left = s.delegation[d][v] - amount
      BY <1>1, <1>2, <1>6, <2>2
    <3>2. ~last /\ s.delegation[d][v] > 0
      BY <1>1, <3>1
    <3> QED BY <1>1, <1>6, <2>1, <2>2, <3>2 DEF vs
  <2>3. CASE ~ (e = d /\ w = v)
    <3>1. j.delegation[e][w] = s.delegation[e][w]
      BY <1>1, <1>6, <2>3
    <3>2. w \in j.validatorsOf[e] <=> w \in s.validatorsOf[e]
      BY <1>1, <1>6, <2>3 DEF vs
    <3> QED BY <2>1, <3>1, <3>2
  <2> QED BY <2>2, <2>3
<1> QED BY <1>6, <1>7, <1>8, <1>9, <1>10 DEF j, total

(* Division, rounded down. *)
LEMMA DivisionBounds ==
  ASSUME NEW x \in Int, NEW n \in Nat \ {0}
  PROVE  x \div n \in Int /\ n * (x \div n) <= x /\ (x >= 0 => x \div n >= 0)
  BY SMT

LEMMA RateWithin ==
  ASSUME NEW x \in Nat, NEW n \in Nat, NEW d \in Nat \ {0}, n <= d
  PROVE  (x * n) \div d <= x
<1> DEFINE q == (x * n) \div d
<1>1. x * n \in Int /\ x * n <= x * d
  BY SMT
<1>2. q \in Int /\ d * q <= x * n
  BY <1>1, DivisionBounds
<1> HIDE DEF q
<1>3. d * q <= d * x
  BY <1>1, <1>2
<1>4. q <= x
  BY <1>2, <1>3
<1> QED BY <1>4 DEF q

------------------------------------------------------------------------------
(* The staking contract's moves leave the books as they were but for the stake. *)
LEMMA SameLists ==
  ASSUME NEW s \in Stake, NEW s1 \in Stake,
         s1.delegation = s.delegation, s1.total = s.total,
         s1.validatorsOf = s.validatorsOf, s1.delegatorsOf = s.delegatorsOf
  PROVE  /\ Mirrored(s) => Mirrored(s1)
         /\ Covered(s) => Covered(s1)
         /\ Listed(s) => Listed(s1)
<1>1. \A v \in User : Column(s1, v) = Column(s, v)
  BY DEF Column
<1>2. Covered(s) => Covered(s1)
  BY <1>1 DEF Covered
<1> QED BY <1>2 DEF Listed, Mirrored

Sound(g, r, s, o) ==
    /\ g \in Token /\ r \in Token /\ o \in BOOLEAN
    /\ Books(s, o)
    /\ g.bal[Staking] + g.bal[StakedToken] >= s.supply

Worth(g, r) == SumOf(g.bal) + SumOf(r.bal) - g.made

LEMMA InputsHold ==
  /\ \A n \in Amount : n \in Nat
  /\ \A n \in Wrapped : n \in Nat
  /\ \A a \in Payees : a \in Account
  /\ \A t \in Rates : t.integ \in Nat /\ t.digits \in Nat /\ t.scale \in Nat \ {0}
BY StakingAssumption DEF StakingAssumption

LEMMA WorthTypes ==
  ASSUME NEW g \in Token, NEW r \in Token
  PROVE  SumOf(g.bal) \in Int /\ SumOf(r.bal) \in Int /\ g.made \in Nat /\ Worth(g, r) \in Int
<1>1. g.bal \in [Account -> Int] /\ r.bal \in [Account -> Int] /\ g.made \in Nat
  BY DEF Token
<1>2. Total(g.bal) \in Int /\ Total(r.bal) \in Int
  BY <1>1, TotalType, AccountsHold
<1> QED BY <1>1, <1>2, SumIsTotal DEF Worth

LEMMA DelegatedSound ==
  ASSUME Sound(gas, rewards, staked, overtaken), NEW d \in User, NEW v \in User, NEW amount \in Nat,
         Delegated(d, v, amount)
  PROVE  Sound(gas', rewards, staked', overtaken) /\ Worth(gas', rewards) = Worth(gas, rewards)
<1> DEFINE g == Move(gas, d, Staking, amount).token
           s1 == [staked EXCEPT !.bal[d] = @ + amount, !.supply = @ + amount, !.validator[v] = @ + amount]
           j == Join(s1, d, v, amount)
<1>1. gas \in Token /\ rewards \in Token /\ Books(staked, overtaken) /\ staked \in Stake
  BY DEF Sound, Books
<1>2. Move(gas, d, Staking, amount).ok /\ gas' = g /\ staked' = j
  BY DEF Delegated
<1>3. Paid(gas, g, d, Staking, amount) /\ d # Staking
  BY <1>1, <1>2, MovePays, AccountsHold
<1>4. /\ staked.bal \in [User -> Nat] /\ staked.supply \in Nat /\ staked.validator \in [User -> Nat]
      /\ staked.total = staked.validator
  BY <1>1 DEF Stake, Books
<1>5. /\ s1.bal = [staked.bal EXCEPT ![d] = staked.bal[d] + amount]
      /\ s1.supply = staked.supply + amount
      /\ s1.validator = [staked.validator EXCEPT ![v] = staked.validator[v] + amount]
      /\ s1.delegation = staked.delegation /\ s1.total = staked.total
      /\ s1.validatorsOf = staked.validatorsOf /\ s1.delegatorsOf = staked.delegatorsOf
  BY <1>1 DEF Stake
<1>6. s1 \in Stake
  <2>1. staked.bal[d] + amount \in Nat /\ staked.supply + amount \in Nat /\ staked.validator[v] + amount \in Nat
    BY <1>4
  <2> QED BY <1>1, <2>1 DEF Stake
<1> HIDE DEF g, s1
<1>7. /\ Mirrored(staked) => Mirrored(s1) 
      /\ Covered(staked) => Covered(s1) 
      /\ Listed(staked) => Listed(s1)
  BY <1>1, <1>5, <1>6, SameLists
<1>8. /\ j \in Stake /\ (Mirrored(s1) => Mirrored(j)) /\ (Covered(s1) => Covered(j)) /\ (Listed(s1) => Listed(j))
      /\ j.bal = s1.bal /\ j.supply = s1.supply
      /\ j.validator = s1.validator /\ j.total = [s1.total EXCEPT ![v] = s1.total[v] + amount]
  BY <1>6, JoinSound
<1> HIDE DEF j
<1>9. /\ SumOf(j.bal) = SumOf(staked.bal) + amount /\ SumOf(j.validator) = SumOf(staked.validator) + amount
      /\ SumOf(staked.bal) \in Int /\ SumOf(staked.validator) \in Int
  <2> DEFINE b == staked.bal
             c == j.bal
             e == staked.validator
             f == j.validator
  <2>1. /\ b \in [User -> Nat] /\ c = [b EXCEPT ![d] = b[d] + amount] /\ b[d] + amount \in Nat
        /\ e \in [User -> Nat] /\ f = [e EXCEPT ![v] = e[v] + amount] /\ e[v] + amount \in Nat
    BY <1>4, <1>5, <1>8
  <2>4. b \in [User -> Nat] /\ c \in [User -> Nat] /\ Changed(b, c, d, b[d] + amount)
    BY <2>1 DEF Changed
  <2>5. e \in [User -> Nat] /\ f \in [User -> Nat] /\ Changed(e, f, v, e[v] + amount)
    BY <2>1 DEF Changed
  <2> HIDE DEF b, c, e, f
  <2>2. SumOf(c) = SumOf(b) + amount /\ SumOf(b) \in Int
    BY <2>4, SumOfMore
  <2>3. SumOf(f) = SumOf(e) + amount /\ SumOf(e) \in Int
    BY <2>5, SumOfMore
  <2> QED BY <2>2, <2>3 DEF b, c, e, f
<1>10. Books(j, overtaken)
  <2>1. j.supply = staked.supply + amount /\ j.total = j.validator
    BY <1>4, <1>5, <1>8
  <2> QED BY <1>1, <1>4, <1>7, <1>8, <1>9, <2>1 DEF Books
<1>11. /\ g.bal[Staking] = gas.bal[Staking] + amount /\ g.bal[StakedToken] = gas.bal[StakedToken]
       /\ gas.bal[Staking] \in Nat /\ gas.bal[StakedToken] \in Nat /\ g \in Token
  BY <1>1, <1>3, AccountsHold DEF Paid, Token
<1>12. g.bal[Staking] + g.bal[StakedToken] >= j.supply
  <2>1. gas.bal[Staking] + gas.bal[StakedToken] >= staked.supply
    BY DEF Sound
  <2> QED BY <1>4, <1>5, <1>8, <1>11, <2>1
<1>13. Worth(g, rewards) = Worth(gas, rewards)
  <2>1. SumOf(g.bal) - g.made = SumOf(gas.bal) - gas.made
    BY <1>3 DEF Paid
  <2>2. SumOf(g.bal) \in Int /\ SumOf(gas.bal) \in Int /\ SumOf(rewards.bal) \in Int /\ g.made \in Nat /\ gas.made \in Nat
    BY <1>1, <1>11, WorthTypes
  <2> QED BY <2>1, <2>2 DEF Worth
<1>14. Sound(g, rewards, j, overtaken)
  BY <1>1, <1>10, <1>11, <1>12 DEF Sound
<1> QED BY <1>2, <1>13, <1>14

(* The ghost says when a call takes too much. *)
LEMMA TakenWithin ==
  ASSUME NEW o \in BOOLEAN, NEW n \in Nat, NEW held \in Nat, NEW o2, o2 = (o \/ n > held)
  PROVE  o2 \in BOOLEAN /\ (~o2 => ~o /\ n <= held)
<1>1. CASE n > held
  <2>1. o2 = TRUE
    BY <1>1, Zenon
  <2> QED BY <2>1
<1>2. CASE ~ (n > held)
  <2>1. n <= held
    BY <1>2
  <2>2. o2 = o
    BY <1>2, Zenon
  <2> QED BY <2>1, <2>2
<1> QED BY <1>1, <1>2

LEMMA UndelegateSound ==
  ASSUME Sound(gas, rewards, staked, overtaken), NEW d \in User, NEW v \in User, NEW amount \in Nat,
         Undelegate(d, v, amount)
  PROVE  Sound(gas', rewards, staked', overtaken') /\ Worth(gas', rewards) = Worth(gas, rewards)
<1> DEFINE g == Move(gas, StakedToken, d, amount).token
           s1 == Unstaked(staked, d, v, amount)
           j == Leave(s1, d, v, amount)
<1>1. gas \in Token /\ rewards \in Token /\ Books(staked, overtaken) /\ staked \in Stake /\ overtaken \in BOOLEAN
  BY DEF Sound, Books
<1>2. /\ Move(gas, StakedToken, d, amount).ok /\ gas' = g /\ staked' = j
      /\ staked.bal[d] >= amount /\ staked.supply >= amount
      /\ overtaken' = (overtaken \/ amount > staked.delegation[d][v])
  BY DEF Undelegate, TakenFrom
<1>3. Paid(gas, g, StakedToken, d, amount) /\ d # StakedToken
  BY <1>1, <1>2, MovePays, AccountsHold
<1>4. /\ staked.bal \in [User -> Nat] /\ staked.supply \in Nat /\ staked.validator \in [User -> Nat]
      /\ staked.total = staked.validator /\ staked.delegation[d][v] \in Nat
      /\ staked.validator[v] \in Nat /\ staked.bal[d] \in Nat
  BY <1>1 DEF Stake, Books
<1>5. /\ s1.bal = [staked.bal EXCEPT ![d] = staked.bal[d] - amount]
      /\ s1.supply = staked.supply - amount
      /\ s1.validator = [staked.validator EXCEPT ![v] = Minus(staked.validator[v], amount)]
      /\ s1.delegation = staked.delegation /\ s1.total = staked.total
      /\ s1.validatorsOf = staked.validatorsOf /\ s1.delegatorsOf = staked.delegatorsOf
  BY <1>1 DEF Stake, Unstaked
<1>6. s1 \in Stake
  <2>1. staked.bal[d] - amount \in Nat /\ staked.supply - amount \in Nat /\ Minus(staked.validator[v], amount) \in Nat
    BY <1>2, <1>4, MinusType
  <2> QED BY <1>1, <2>1 DEF Stake, Unstaked
<1> HIDE DEF g, s1
<1>7. /\ Mirrored(staked) => Mirrored(s1) 
      /\ Covered(staked) => Covered(s1) 
      /\ Listed(staked) => Listed(s1)
  BY <1>1, <1>5, <1>6, SameLists
<1>8. /\ j \in Stake /\ (Mirrored(s1) => Mirrored(j))
      /\ amount <= staked.delegation[d][v] => (Covered(s1) => Covered(j)) /\ (Listed(s1) => Listed(j))
      /\ j.bal = s1.bal /\ j.supply = s1.supply
      /\ j.validator = s1.validator /\ j.total = [s1.total EXCEPT ![v] = Minus(s1.total[v], amount)]
  BY <1>5, <1>6, LeaveSound
<1> HIDE DEF j
<1>9. SumOf(j.bal) = SumOf(staked.bal) - amount /\ SumOf(staked.bal) \in Int
  <2> DEFINE b == staked.bal
             c == j.bal
  <2>1. Minus(b[d], amount) = b[d] - amount /\ amount <= b[d] /\ Minus(b[d], amount) \in Nat
    BY <1>2, <1>4, MinusType
  <2>4. b \in [User -> Nat] /\ c = [b EXCEPT ![d] = Minus(b[d], amount)]
    BY <1>4, <1>5, <1>8, <2>1
  <2>2. c \in [User -> Nat] /\ b \in [User -> Nat] /\ Changed(b, c, d, Minus(b[d], amount))
    BY <2>1, <2>4 DEF Changed
  <2> HIDE DEF b, c
  <2>3. SumOf(c) = SumOf(b) - amount /\ SumOf(b) \in Int
    BY <2>1, <2>2, SumOfLess
  <2> QED BY <2>3 DEF b, c
<1>10. /\ SumOf(j.validator) >= SumOf(staked.validator) - amount
       /\ amount <= staked.validator[v] => SumOf(j.validator) = SumOf(staked.validator) - amount
       /\ SumOf(j.validator) \in Int /\ SumOf(staked.validator) \in Int
  <2> DEFINE b == staked.validator
             c == j.validator
  <2>3. b \in [User -> Nat] /\ c = [b EXCEPT ![v] = Minus(b[v], amount)] /\ Minus(b[v], amount) \in Nat
    BY <1>4, <1>5, <1>8, MinusType
  <2>1. b \in [User -> Nat] /\ c \in [User -> Nat] /\ Changed(b, c, v, Minus(b[v], amount))
    BY <2>3 DEF Changed
  <2> HIDE DEF b, c
  <2>2. /\ SumOf(c) \in Int /\ SumOf(b) \in Int /\ SumOf(c) >= SumOf(b) - amount
        /\ amount <= b[v] => SumOf(c) = SumOf(b) - amount
    BY <2>1, SumOfLess
  <2> QED BY <2>2 DEF b, c
<1>11. overtaken' \in BOOLEAN /\ (~overtaken' => ~overtaken /\ amount <= staked.delegation[d][v])
  BY <1>1, <1>2, <1>4, TakenWithin
<1>12. ~overtaken' => amount <= staked.validator[v]
  <2> SUFFICES ASSUME ~overtaken'
               PROVE  amount <= staked.validator[v]
    OBVIOUS
  <2>1. Covered(staked) /\ amount <= staked.delegation[d][v]
    BY <1>1, <1>11 DEF Books
  <2>2. staked.delegation[d][v] <= staked.validator[v]
    BY <1>1, <1>4, <2>1, ColumnOfMember
  <2> QED BY <1>4, <2>1, <2>2
<1>13. Books(j, overtaken')
  <2>1. j.supply = staked.supply - amount /\ j.total = j.validator
    BY <1>4, <1>5, <1>8
  <2>2. /\ SumOf(staked.bal) = staked.supply /\ SumOf(staked.validator) >= staked.supply /\ Mirrored(staked)
        /\ ~overtaken => Covered(staked) /\ Listed(staked) /\ SumOf(staked.validator) = staked.supply
    BY <1>1 DEF Books
  <2>3. SumOf(j.bal) = j.supply /\ SumOf(j.validator) >= j.supply
    BY <1>4, <1>9, <1>10, <2>1, <2>2
  <2>4. ~overtaken' => Covered(j) /\ Listed(j) /\ SumOf(j.validator) = j.supply
    BY <1>4, <1>7, <1>8, <1>10, <1>11, <1>12, <2>1, <2>2
  <2> QED BY <1>7, <1>8, <2>1, <2>2, <2>3, <2>4 DEF Books
<1>14. /\ g.bal[StakedToken] = gas.bal[StakedToken] - amount /\ g.bal[Staking] = gas.bal[Staking]
       /\ gas.bal[Staking] \in Nat /\ gas.bal[StakedToken] \in Nat /\ g \in Token
  BY <1>1, <1>3, AccountsHold DEF Paid, Token
<1>15. g.bal[Staking] + g.bal[StakedToken] >= j.supply
  <2>1. gas.bal[Staking] + gas.bal[StakedToken] >= staked.supply
    BY DEF Sound
  <2> QED BY <1>4, <1>5, <1>8, <1>14, <2>1
<1>16. Worth(g, rewards) = Worth(gas, rewards)
  <2>1. SumOf(g.bal) - g.made = SumOf(gas.bal) - gas.made
    BY <1>3 DEF Paid
  <2>2. SumOf(g.bal) \in Int /\ SumOf(gas.bal) \in Int /\ SumOf(rewards.bal) \in Int /\ g.made \in Nat /\ gas.made \in Nat
    BY <1>1, <1>14, WorthTypes
  <2> QED BY <2>1, <2>2 DEF Worth
<1>17. Sound(g, rewards, j, overtaken')
  BY <1>1, <1>11, <1>13, <1>14, <1>15 DEF Sound
<1> QED BY <1>2, <1>16, <1>17

LEMMA RedelegateSound ==
  ASSUME Sound(gas, rewards, staked, overtaken), NEW d \in User, NEW from \in User, NEW to \in User, NEW amount \in Nat,
         Redelegate(d, from, to, amount)
  PROVE  Sound(gas, rewards, staked', overtaken')
<1> DEFINE b == staked.validator
           b1 == [b EXCEPT ![from] = Minus(b[from], amount)]
           b2 == [b1 EXCEPT ![to] = b1[to] + amount]
           s1 == [staked EXCEPT !.validator[from] = Minus(@, amount)]
           s2 == [s1 EXCEPT !.validator[to] = @ + amount]
           l == Leave(s2, d, from, amount)
           j == Join(l, d, to, amount)
<1>1. gas \in Token /\ rewards \in Token /\ Books(staked, overtaken) /\ staked \in Stake /\ overtaken \in BOOLEAN
  BY DEF Sound, Books
<1>2. staked' = j /\ overtaken' = (overtaken \/ amount > staked.delegation[d][from])
  BY DEF Redelegate, TakenFrom
<1>3. /\ b \in [User -> Nat] /\ staked.total = b /\ b[from] \in Nat
      /\ staked.delegation[d][from] \in Nat /\ staked.supply \in Nat
  BY <1>1 DEF Stake, Books
<1>4. /\ b1 \in [User -> Nat] /\ SumOf(b1) \in Int /\ SumOf(b) \in Int /\ SumOf(b1) >= SumOf(b) - amount
      /\ amount <= b[from] => SumOf(b1) = SumOf(b) - amount
  <2>1. Minus(b[from], amount) \in Nat
    BY <1>3, MinusType
  <2>2. b1 \in [User -> Nat] /\ Changed(b, b1, from, Minus(b[from], amount))
    BY <1>3, <2>1 DEF Changed
  <2> HIDE DEF b, b1
  <2> QED BY <1>3, <2>2, SumOfLess
<1>5. b2 \in [User -> Nat] /\ SumOf(b2) = SumOf(b1) + amount
  <2>1. b1[to] + amount \in Nat
    BY <1>4
  <2>2. b2 \in [User -> Nat] /\ Changed(b1, b2, to, b1[to] + amount)
    BY <1>4, <2>1 DEF Changed
  <2> HIDE DEF b, b1, b2
  <2> QED BY <1>4, <2>2, SumOfMore
<1>6. s2 = [staked EXCEPT !.validator = b2]
  BY <1>1 DEF Stake
<1> HIDE DEF s1, s2, b2
<1>7. /\ s2 \in Stake /\ s2.bal = staked.bal /\ s2.supply = staked.supply /\ s2.validator = b2
      /\ s2.delegation = staked.delegation /\ s2.total = staked.total
      /\ s2.validatorsOf = staked.validatorsOf /\ s2.delegatorsOf = staked.delegatorsOf
  BY <1>1, <1>5, <1>6 DEF Stake
<1>8. /\ Mirrored(staked) => Mirrored(s2)
      /\ Covered(staked) => Covered(s2)
      /\ Listed(staked) => Listed(s2)
  BY <1>1, <1>7, SameLists
<1>9. /\ l \in Stake /\ (Mirrored(s2) => Mirrored(l))
      /\ amount <= staked.delegation[d][from] => (Covered(s2) => Covered(l)) /\ (Listed(s2) => Listed(l))
      /\ l.bal = s2.bal /\ l.supply = s2.supply
      /\ l.validator = s2.validator /\ l.total = [s2.total EXCEPT ![from] = Minus(s2.total[from], amount)]
  BY <1>7, LeaveSound
<1> HIDE DEF l
<1>10. /\ j \in Stake /\ (Mirrored(l) => Mirrored(j)) /\ (Covered(l) => Covered(j)) /\ (Listed(l) => Listed(j))
       /\ j.bal = l.bal /\ j.supply = l.supply
       /\ j.validator = l.validator /\ j.total = [l.total EXCEPT ![to] = l.total[to] + amount]
  BY <1>9, JoinSound
<1> HIDE DEF j
<1>11. j.total = j.validator
  BY <1>3, <1>7, <1>9, <1>10 DEF b1, b2
<1> HIDE DEF b, b1
<1>12. overtaken' \in BOOLEAN /\ (~overtaken' => ~overtaken /\ amount <= staked.delegation[d][from])
  BY <1>1, <1>2, <1>3, TakenWithin
<1>13. ~overtaken' => amount <= b[from]
  <2> SUFFICES ASSUME ~overtaken'
               PROVE  amount <= b[from]
    OBVIOUS
  <2>1. Covered(staked) /\ amount <= staked.delegation[d][from]
    BY <1>1, <1>12 DEF Books
  <2>2. staked.delegation[d][from] <= b[from]
    BY <1>1, <1>3, <2>1, ColumnOfMember
  <2> QED BY <1>3, <2>1, <2>2
<1>14. Books(j, overtaken')
  <2>1. /\ SumOf(staked.bal) = staked.supply /\ SumOf(b) >= staked.supply /\ Mirrored(staked)
        /\ ~overtaken => Covered(staked) /\ Listed(staked) /\ SumOf(b) = staked.supply
    BY <1>1 DEF Books, b
  <2>2. SumOf(j.bal) = j.supply /\ SumOf(j.validator) >= j.supply
    BY <1>3, <1>4, <1>5, <1>7, <1>9, <1>10, <2>1
  <2>3. ~overtaken' => Covered(j) /\ Listed(j)
    BY <1>8, <1>9, <1>10, <1>12, <2>1
  <2>4. ~overtaken' => SumOf(j.validator) = j.supply
    BY <1>3, <1>4, <1>5, <1>7, <1>9, <1>10, <1>12, <1>13, <2>1
  <2> QED BY <1>8, <1>9, <1>10, <1>11, <2>1, <2>2, <2>3, <2>4 DEF Books
<1>15. Sound(gas, rewards, j, overtaken')
  BY <1>1, <1>7, <1>9, <1>10, <1>12, <1>14 DEF Sound
<1> QED BY <1>2, <1>15

LEMMA WithdrawSound ==
  ASSUME Sound(gas, rewards, staked, overtaken), NEW u \in User, WithdrawRewards(u)
  PROVE  Sound(gas', rewards', staked, overtaken) /\ Worth(gas', rewards') = Worth(gas, rewards)
<1> DEFINE n == rewards.bal[u]
<1>1. gas \in Token /\ rewards \in Token /\ u \in Account
  BY AccountsHold DEF Sound
<1>2. /\ rewards' = Burn(rewards, u, n).token /\ gas' = Mint(gas, u, n).token
  BY DEF WithdrawRewards
<1>3. /\ rewards' \in Token /\ SumOf(rewards'.bal) = SumOf(rewards.bal) - n /\ SumOf(rewards.bal) \in Int /\ n \in Nat
  BY <1>1, <1>2, BurntAll
<1>4. /\ gas' \in Token /\ gas'.made = gas.made /\ gas'.bal = [gas.bal EXCEPT ![u] = gas.bal[u] + n]
      /\ SumOf(gas'.bal) = SumOf(gas.bal) + n /\ SumOf(gas.bal) \in Int
  BY <1>1, <1>2, <1>3, MintedMore
<1> HIDE DEF n
<1>5. gas'.bal[Staking] = gas.bal[Staking] /\ gas'.bal[StakedToken] = gas.bal[StakedToken]
  BY <1>1, <1>4, AccountsHold DEF Token
<1>6. gas.made \in Nat
  BY <1>1, WorthTypes
<1>7. Worth(gas', rewards') = Worth(gas, rewards)
  BY <1>3, <1>4, <1>6 DEF Worth
<1> QED BY <1>3, <1>4, <1>5, <1>7 DEF Sound

LEMMA SentSound ==
  ASSUME Sound(gas, rewards, staked, overtaken), NEW u \in User, NEW to \in Account, NEW amount \in Nat,
         Send(u, to, amount)
  PROVE  Sound(gas', rewards, staked, overtaken) /\ Worth(gas', rewards) = Worth(gas, rewards)
<1> DEFINE g == Move(gas, u, to, amount).token
<1>1. gas \in Token /\ rewards \in Token
  BY DEF Sound
<1>2. Move(gas, u, to, amount).ok /\ gas' = g
  BY DEF Send
<1>3. u \in Account
  BY AccountsHold
<1>4. Paid(gas, g, u, to, amount)
  BY <1>1, <1>2, <1>3, MovePays
<1> HIDE DEF g
<1>5. g \in Token /\ \A a \in Account : gas.bal[a] \in Nat /\ g.bal[a] \in Nat
  BY <1>1, <1>4 DEF Token, Paid
<1>6. \A a \in {Staking, StakedToken} : g.bal[a] >= gas.bal[a]
  <2> SUFFICES ASSUME NEW a \in {Staking, StakedToken}
               PROVE  g.bal[a] >= gas.bal[a]
    OBVIOUS
  <2>1. a \in Account /\ a # u
    BY AccountsHold
  <2>2. g.bal[a] = gas.bal[a] \/ g.bal[a] = gas.bal[a] + amount
    BY <1>4, <2>1 DEF Paid
  <2> QED BY <1>5, <2>1, <2>2
<1>7. g.bal[Staking] + g.bal[StakedToken] >= staked.supply
  <2>1. gas.bal[Staking] + gas.bal[StakedToken] >= staked.supply /\ staked.supply \in Nat
    BY DEF Sound, Stake, Books
  <2>2. g.bal[Staking] >= gas.bal[Staking] /\ g.bal[StakedToken] >= gas.bal[StakedToken]
    BY <1>6
  <2> QED BY <1>5, <2>1, <2>2, AccountsHold
<1>8. Worth(g, rewards) = Worth(gas, rewards)
  <2>1. SumOf(g.bal) - g.made = SumOf(gas.bal) - gas.made
    BY <1>4 DEF Paid
  <2>2. SumOf(g.bal) \in Int /\ SumOf(gas.bal) \in Int /\ SumOf(rewards.bal) \in Int /\ g.made \in Nat /\ gas.made \in Nat
    BY <1>1, <1>5, WorthTypes
  <2> QED BY <2>1, <2>2 DEF Worth
<1>9. Sound(g, rewards, staked, overtaken)
  BY <1>5, <1>7 DEF Sound
<1> QED BY <1>2, <1>8, <1>9

------------------------------------------------------------------------------
(* What a validator's delegators get of an amount are numbers, and within the
   amount, since the individual amounts are within the total. *)
LEMMA SharesType ==
  ASSUME NEW s \in Stake, NEW v \in User, NEW a \in Nat
  PROVE  /\ Shares(s, v, a) \in [s.delegatorsOf[v] -> Nat]
         /\ \A u \in s.delegatorsOf[v] : s.validator[v] * Shares(s, v, a)[u] <= s.delegation[u][v] * a
<1> DEFINE T == s.validator[v]
           ds == s.delegatorsOf[v]
           f == [d \in ds |-> IF T = 0 THEN 0 ELSE (s.delegation[d][v] * a) \div T]
<1>1. Shares(s, v, a) = f
  BY DEF Shares, Delegations, Tokens
<1>2. T \in Nat /\ \A u \in ds : s.delegation[u][v] \in Nat
  BY DEF Stake
<1>3. ASSUME NEW u \in ds
      PROVE  f[u] \in Nat /\ T * f[u] <= s.delegation[u][v] * a
  <2> DEFINE x == s.delegation[u][v]
  <2>1. x \in Nat
    BY <1>2
  <2>2. f[u] = (IF T = 0 THEN 0 ELSE (x * a) \div T) /\ x = s.delegation[u][v]
    OBVIOUS
  <2> HIDE DEF f, x
  <2>3. x * a \in Int /\ x * a >= 0
    BY <2>1
  <2>4. CASE T = 0
    <3>1. f[u] = 0 /\ T * 0 = 0
      BY <2>2, <2>4
    <3> QED BY <2>2, <2>3, <3>1
  <2>5. CASE T # 0
    <3>1. f[u] = (x * a) \div T
      BY <2>2, <2>5
    <3> HIDE DEF T
    <3>2. T \in Nat \ {0}
      BY <1>2, <2>5
    <3>3. (x * a) \div T \in Int /\ T * ((x * a) \div T) <= x * a /\ (x * a) \div T >= 0
      BY <2>3, <3>2, DivisionBounds
    <3> QED BY <2>2, <3>1, <3>3
  <2> QED BY <2>4, <2>5
<1>4. f \in [ds -> Nat]
  <2>1. \A u \in ds : f[u] \in Nat
    BY <1>3
  <2>2. f = [u \in ds |-> f[u]]
    OBVIOUS
  <2> HIDE DEF f
  <2> QED BY <2>1, <2>2
<1> HIDE DEF f
<1> QED BY <1>1, <1>3, <1>4

LEMMA SharesFit ==
  ASSUME NEW s \in Stake, Covered(s), s.total = s.validator, NEW v \in User, NEW a \in Nat,
         NEW sh \in [User -> Nat],
         \A u \in User : sh[u] = IF u \in s.delegatorsOf[v] THEN Shares(s, v, a)[u] ELSE 0
  PROVE  SumOf(sh) <= a
<1> DEFINE T == s.validator[v]
           x == Column(s, v)
<1>1. T \in Nat /\ x \in [User -> Nat] /\ \A u \in User : x[u] = s.delegation[u][v]
  BY ColumnType DEF Stake
<1>2. Total(x) <= T
  BY SumIsTotal DEF Covered
<1> HIDE DEF x
<1>3. ASSUME NEW u \in User
      PROVE  T * sh[u] <= x[u] * a
  <2>1. CASE u \in s.delegatorsOf[v]
    <3>1. T * Shares(s, v, a)[u] <= s.delegation[u][v] * a /\ sh[u] = Shares(s, v, a)[u]
      BY <2>1, SharesType
    <3> QED BY <1>1, <3>1
  <2>2. CASE u \notin s.delegatorsOf[v]
    <3>1. sh[u] = 0
      BY <2>2
    <3>2. T * 0 = 0 /\ x[u] * a >= 0
      BY <1>1
    <3> QED BY <3>1, <3>2
  <2> QED BY <2>1, <2>2
<1>4. CASE T = 0
  <2>1. ASSUME NEW u \in User
        PROVE  sh[u] = 0
    <3>1. CASE u \in s.delegatorsOf[v]
      <4>1. Shares(s, v, a)[u] = 0
        BY <1>4, <3>1 DEF Shares, Delegations, Tokens
      <4> QED BY <3>1, <4>1
    <3> QED BY <3>1
  <2>2. sh = [u \in User |-> 0]
    BY <2>1
  <2>3. SumOf(sh) = 0
    BY <2>2, SumOfZeros, AccountsHold
  <2> QED BY <2>3
<1>5. CASE T # 0
  <2> HIDE DEF T
  <2>1. T \in Nat \ {0}
    BY <1>1, <1>5
  <2>2. Total(sh) <= a
    BY <1>1, <1>2, <1>3, <2>1, SharesWithin, AccountsHold
  <2> QED BY <2>2, SumIsTotal
<1> QED BY <1>4, <1>5

(* What a proposer and its delegators earn: the commission, and the shares. *)
EarnedOf(v, c, shares) ==
    [u \in User |-> (IF u = v THEN c ELSE 0) + (IF u \in DOMAIN shares THEN shares[u] ELSE 0)]

LEMMA EarnedWithin ==
  ASSUME staked \in Stake, NEW v \in User, NEW c \in Nat,
         NEW shares \in [staked.delegatorsOf[v] -> Nat]
  PROVE  /\ EarnedOf(v, c, shares) \in [User -> Nat]
         /\ \A a \in Nat : Covered(staked) /\ staked.total = staked.validator /\ shares = Shares(staked, v, a)
                               => SumOf(EarnedOf(v, c, shares)) <= c + a
<1> DEFINE sh == [u \in User |-> IF u \in staked.delegatorsOf[v] THEN shares[u] ELSE 0]
           e == EarnedOf(v, c, shares)
<1>1. staked.delegatorsOf[v] \subseteq User /\ DOMAIN shares = staked.delegatorsOf[v]
  BY DEF Stake
<1>2. sh \in [User -> Nat] /\ \A u \in User : sh[u] = IF u \in staked.delegatorsOf[v] THEN shares[u] ELSE 0
  OBVIOUS
<1>3. \A u \in User : e[u] = (IF u = v THEN c ELSE 0) + sh[u]
  BY <1>1 DEF EarnedOf
<1>4. e = [u \in User |-> e[u]]
  BY Zenon DEF EarnedOf
<1> HIDE DEF sh, e
<1>5. e \in [User -> Nat]
  <2>1. \A u \in User : e[u] \in Nat
    BY <1>2, <1>3
  <2> QED BY <1>4, <2>1
<1>6. SumOf(e) = SumOf(sh) + c /\ SumOf(sh) \in Int
  <2>1. sh \in [User -> Int] /\ e \in [User -> Int]
    BY <1>2, <1>5
  <2>2. e[v] = c + sh[v] /\ sh[v] \in Int /\ \A u \in User \ {v} : e[u] = sh[u]
    BY <1>2, <1>3
  <2>3. Total(e) = Total(sh) + e[v] - sh[v] /\ Total(sh) \in Int
    BY <2>1, <2>2, TotalOfChange, TotalType, AccountsHold
  <2>4. Total(e) = Total(sh) + c
    BY <2>2, <2>3
  <2> QED BY <2>3, <2>4, SumIsTotal
<1>7. ASSUME NEW a \in Nat, Covered(staked), staked.total = staked.validator, shares = Shares(staked, v, a)
      PROVE  SumOf(e) <= c + a
  <2>1. SumOf(sh) <= a
    BY <1>2, <1>7, SharesFit
  <2> QED BY <1>6, <2>1
<1> QED BY <1>5, <1>7 DEF e

LEMMA CommissionType ==
  ASSUME NEW v \in User, rate[v] \in Rates, NEW fees \in Nat
  PROVE  /\ Commission(v, fees) \in Nat
         /\ AtMostOne(rate[v]) => Commission(v, fees) <= fees
<1> DEFINE n == ParseBigFloat(rate[v]).num
           d == ParseBigFloat(rate[v]).denom
<1>1. n \in Nat /\ d \in Nat \ {0}
  <2> DEFINE t == rate[v]
  <2>1. t.integ \in Nat /\ t.digits \in Nat /\ t.scale \in Nat \ {0}
    BY InputsHold
  <2> HIDE DEF t
  <2>2. t.integ * t.scale \in Nat
    BY <2>1
  <2>3. t.integ * t.scale + (IF t.scale = 1 THEN 1 ELSE t.digits) \in Nat
    BY <2>1, <2>2
  <2> QED BY <2>1, <2>3 DEF ParseBigFloat, t
<1>2. Commission(v, fees) = (fees * n) \div d
  BY DEF Commission
<1>3. AtMostOne(rate[v]) => n <= d
  BY DEF AtMostOne
<1> HIDE DEF n, d
<1>4. fees * n \in Int /\ fees * n >= 0
  BY <1>1
<1>5. (fees * n) \div d \in Int /\ (fees * n) \div d >= 0
  BY <1>1, <1>4, DivisionBounds
<1> QED BY <1>1, <1>2, <1>3, <1>5, RateWithin

LEMMA DistributeSound ==
  ASSUME Sound(gas, rewards, staked, overtaken), rate \in [bonded -> Rates],
         NEW v \in User, DistributeFees(v)
  PROVE  /\ Sound(gas', rewards', staked, overtaken)
         /\ ~overtaken /\ AtMostOne(rate[v]) => Worth(gas', rewards') <= Worth(gas, rewards)
<1> DEFINE fees == gas.bal[FeeCollector]
           c == Commission(v, fees)
<1>1. /\ gas \in Token /\ rewards \in Token /\ FeeCollector \in Account /\ fees \in Nat
      /\ staked \in Stake /\ Books(staked, overtaken)
  BY AccountsHold DEF Sound, Token, Books
<1>2. v \in bonded /\ gas' = Burn(gas, FeeCollector, fees).token
  BY DEF DistributeFees
<1>3. rate[v] \in Rates
  BY <1>2
<1>4. c \in Nat /\ (AtMostOne(rate[v]) => c <= fees)
  BY <1>1, <1>3, CommissionType
<1>5. PICK shares \in SharesOfRest(v, fees) :
         rewards' = [rewards EXCEPT !.bal = [a \in Account |-> rewards.bal[a] + (IF a \in User THEN EarnedOf(v, c, shares)[a] ELSE 0)],
                                    !.supply = rewards.supply + SumOf(EarnedOf(v, c, shares))]
  BY Zenon DEF DistributeFees, EarnedOf
<1> HIDE DEF c, fees
<1>6. /\ shares \in [staked.delegatorsOf[v] -> Nat]
      /\ c <= fees => shares = Shares(staked, v, fees - c)
  <2>1. CASE c <= fees
    <3>1. shares = Shares(staked, v, fees - c) /\ fees - c \in Nat
      BY <1>1, <1>4, <2>1 DEF SharesOfRest, c
    <3> QED BY <1>1, <3>1, SharesType
  <2>2. CASE ~ (c <= fees)
    <3>1. shares \in [staked.delegatorsOf[v] -> Wrapped]
      BY <2>2 DEF SharesOfRest, c
    <3> QED BY <2>2, <3>1, InputsHold
  <2> QED BY <2>1, <2>2
<1> DEFINE e == EarnedOf(v, c, shares)
           all == [a \in Account |-> IF a \in User THEN e[a] ELSE 0]
           rb == [a \in Account |-> rewards.bal[a] + all[a]]
<1>7. /\ e \in [User -> Nat]
      /\ Covered(staked) /\ staked.total = staked.validator /\ c <= fees => SumOf(e) <= fees
  <2>1. c <= fees => fees - c \in Nat /\ c + (fees - c) = fees
    BY <1>1, <1>4
  <2> QED BY <1>1, <1>4, <1>6, <2>1, EarnedWithin
<1> HIDE DEF e
<1>8. \A a \in Account : all[a] = IF a \in User THEN e[a] ELSE 0
  OBVIOUS
<1>9. all \in [Account -> Nat] /\ SumOf(all) = SumOf(e) /\ SumOf(e) \in Nat
  <2>1. all \in [Account -> Nat] /\ all \in [Account -> Int] /\ e \in [User -> Int]
    BY <1>7
  <2> HIDE DEF all
  <2>2. Total(all) = Total(e)
    BY <1>8, <2>1, TotalOnSubset, AccountsHold
  <2>3. SumOf(e) \in Nat
    BY <1>7, SumOfNat, AccountsHold
  <2> QED BY <2>1, <2>2, <2>3, SumIsTotal
<1>10. rewards' = [rewards EXCEPT !.bal = rb, !.supply = rewards.supply + SumOf(e)]
  BY <1>5, <1>8 DEF e
<1> HIDE DEF all
<1>11. rewards.bal \in [Account -> Nat] /\ rewards.supply \in Nat /\ rewards.supply + SumOf(e) \in Nat
  BY <1>1, <1>9 DEF Token
<1>12. rb \in [Account -> Nat] /\ SumOf(rb) = SumOf(rewards.bal) + SumOf(e) /\ SumOf(rewards.bal) \in Int
  <2> DEFINE b == rewards.bal
  <2>1. rb \in [Account -> Nat] /\ rb \in [Account -> Int] /\ b \in [Account -> Int] /\ all \in [Account -> Int]
    BY <1>9, <1>11
  <2>2. rb = [a \in Account |-> b[a] + all[a]]
    OBVIOUS
  <2> HIDE DEF b, rb
  <2>3. Total(rb) = Total(b) + Total(all) /\ Total(b) \in Int
    BY <2>1, <2>2, TotalOfPairs, TotalType, AccountsHold
  <2> QED BY <1>9, <2>1, <2>3, SumIsTotal DEF b
<1> HIDE DEF rb
<1>13. rewards' \in Token /\ rewards'.bal = rb
  BY <1>1, <1>10, <1>11, <1>12 DEF Token
<1>14. /\ gas' \in Token /\ gas'.made = gas.made /\ gas'.bal = [gas.bal EXCEPT ![FeeCollector] = 0]
       /\ SumOf(gas'.bal) = SumOf(gas.bal) - fees /\ SumOf(gas.bal) \in Int
  BY <1>1, <1>2, BurntAll DEF fees
<1>15. gas'.bal[Staking] = gas.bal[Staking] /\ gas'.bal[StakedToken] = gas.bal[StakedToken]
  BY <1>1, <1>14, AccountsHold DEF Token
<1>16. Sound(gas', rewards', staked, overtaken)
  <2>1. overtaken \in BOOLEAN /\ gas.bal[Staking] + gas.bal[StakedToken] >= staked.supply
    BY DEF Sound
  <2> QED BY <1>1, <1>13, <1>14, <1>15, <2>1 DEF Sound
<1>17. ASSUME ~overtaken, AtMostOne(rate[v])
       PROVE  Worth(gas', rewards') <= Worth(gas, rewards)
  <2>1. Covered(staked) /\ staked.total = staked.validator
    BY <1>1, <1>17 DEF Books
  <2>2. SumOf(e) <= fees
    BY <1>4, <1>7, <1>17, <2>1
  <2>3. gas.made \in Int
    BY <1>1 DEF Token
  <2> QED BY <1>1, <1>9, <1>12, <1>13, <1>14, <2>2, <2>3 DEF Worth
<1> QED BY <1>16, <1>17

------------------------------------------------------------------------------
(* The invariant, and when rewards come out of fees: as long as no commission is
   above one and no call took too much. *)
Good ==
    /\ Sound(gas, rewards, staked, overtaken)
    /\ bonded \subseteq User /\ rate \in [bonded -> Rates]

Fair == ~overtaken /\ \A v \in bonded : AtMostOne(rate[v])

LEMMA InitGood == Init => Good /\ Worth(gas, rewards) = SumOf(Genesis)
<1> SUFFICES ASSUME Init
             PROVE  Good /\ Worth(gas, rewards) = SumOf(Genesis)
  OBVIOUS
<1> DEFINE gb == [a \in Account |-> IF a \in User THEN Genesis[a] ELSE 0]
           none == [a \in Account |-> 0]
           nothing == [a \in Account |-> none]
           total == SumOf(Genesis)
<1>1. Genesis \in [User -> Nat] /\ Genesis \in [User -> Int]
  BY StakingAssumption DEF StakingAssumption
<1>2. gas = [NewToken EXCEPT !.bal = gb, !.supply = total] /\ rewards = NewToken
  BY DEF Init
<1>3. NewToken = [bal |-> none, supply |-> 0, allowance |-> nothing, made |-> 0, wrapped |-> 0]
  BY DEF NewToken
<1>4. gb \in [Account -> Nat] /\ none \in [Account -> Nat] /\ nothing \in [Account -> [Account -> Nat]]
  BY <1>1
<1>5. SumOf(gb) = total /\ total \in Nat
  <2>1. Total(gb) = Total(Genesis)
    BY <1>1, TotalOnSubset, AccountsHold
  <2>2. SumOf(Genesis) \in Nat
    BY <1>1, SumOfNat, AccountsHold
  <2> QED BY <2>1, <2>2, SumIsTotal
<1>6. SumOf(none) = 0
  BY SumOfZeros, AccountsHold
<1> HIDE DEF gb, none, nothing, total
<1>7. /\ gas \in Token /\ gas.bal = gb /\ gas.made = 0
      /\ rewards \in Token /\ rewards.bal = none
  <2>1. gas = [bal |-> gb, supply |-> total, allowance |-> nothing, made |-> 0, wrapped |-> 0]
    BY <1>2, <1>3
  <2>2. gas \in Token /\ gas.bal = gb /\ gas.made = 0
    BY <1>4, <1>5, <2>1 DEF Token
  <2>3. rewards \in Token /\ rewards.bal = none
    BY <1>2, <1>3, <1>4 DEF Token
  <2> QED BY <2>2, <2>3
<1>8. Worth(gas, rewards) = total
  BY <1>5, <1>6, <1>7 DEF Worth
<1>9. /\ staked.bal = None /\ staked.supply = 0 /\ staked.validator = None /\ staked.total = None
      /\ staked.delegation = [d \in User |-> None]
      /\ staked.validatorsOf = [d \in User |-> {}] /\ staked.delegatorsOf = [v \in User |-> {}]
      /\ staked = [bal |-> staked.bal, supply |-> staked.supply, validator |-> staked.validator, total |-> staked.total,
                   delegation |-> staked.delegation, validatorsOf |-> staked.validatorsOf, delegatorsOf |-> staked.delegatorsOf]
      /\ overtaken = FALSE
  BY DEF Init
<1>10. None \in [User -> Nat] /\ (\A u \in User : None[u] = 0) /\ SumOf(None) = 0
  BY SumOfZeros, AccountsHold DEF None
<1>11. staked \in Stake
  BY <1>9, <1>10 DEF Stake
<1>12. Covered(staked)
  <2>1. ASSUME NEW v \in User
        PROVE  SumOf(Column(staked, v)) = 0 /\ staked.total[v] = 0
    <3>1. Column(staked, v) = [d \in User |-> 0]
      BY <1>9, <1>10 DEF Column
    <3> QED BY <1>9, <1>10, <3>1, SumOfZeros, AccountsHold
  <2> QED BY <2>1 DEF Covered
<1>13. Listed(staked) /\ Mirrored(staked)
  BY <1>9, <1>10 DEF Listed, Mirrored
<1>14. Books(staked, overtaken)
  BY <1>9, <1>10, <1>11, <1>12, <1>13 DEF Books
<1>15. gas.bal[Staking] + gas.bal[StakedToken] >= staked.supply
  <2>1. gas.bal[Staking] \in Nat /\ gas.bal[StakedToken] \in Nat
    BY <1>7, AccountsHold DEF Token
  <2> QED BY <1>9, <2>1
<1>16. bonded = {} /\ rate \in [bonded -> Rates]
  BY DEF Init, bonded
<1>17. Good
  BY <1>7, <1>9, <1>14, <1>15, <1>16 DEF Good, Sound
<1> QED BY <1>8, <1>17 DEF total

(* What every step does. *)
Kept ==
    /\ Good'
    /\ Fair' => Fair /\ Worth(gas', rewards') <= Worth(gas, rewards)

LEMMA SameValidators ==
  ASSUME Good, rate' = rate, Sound(gas', rewards', staked', overtaken'),
         overtaken => overtaken',
         Fair => Worth(gas', rewards') <= Worth(gas, rewards)
  PROVE  Kept
<1>1. bonded' = bonded
  BY DEF bonded
<1>2. Good'
  BY <1>1 DEF Good
<1>3. Fair' => Fair
  BY <1>1 DEF Fair
<1> QED BY <1>2, <1>3 DEF Kept

LEMMA StepKept ==
  ASSUME Good, [Next]_vars
  PROVE  Kept
<1>1. Sound(gas, rewards, staked, overtaken) /\ bonded \subseteq User /\ rate \in [bonded -> Rates]
      /\ Worth(gas, rewards) \in Int
  BY WorthTypes DEF Good, Sound, Worth
<1>2. ASSUME NEW d \in User, NEW v \in User, NEW n \in Amount, Delegate(d, v, n)
      PROVE  Kept
  <2>1. Delegated(d, v, n) /\ rewards' = rewards /\ rate' = rate /\ overtaken' = overtaken /\ n \in Nat
    BY <1>2, InputsHold DEF Delegate
  <2>2. Sound(gas', rewards, staked', overtaken) /\ Worth(gas', rewards) = Worth(gas, rewards)
    BY <1>1, <2>1, DelegatedSound
  <2> QED BY <1>1, <2>1, <2>2, SameValidators
<1>3. ASSUME NEW d \in User, NEW v \in User, NEW n \in Amount, Undelegate(d, v, n)
      PROVE  Kept
  <2>1. rewards' = rewards /\ rate' = rate /\ n \in Nat
    BY <1>3, InputsHold DEF Undelegate
  <2>2. overtaken => overtaken'
    BY <1>3, Zenon DEF Undelegate, TakenFrom
  <2>3. Sound(gas', rewards, staked', overtaken') /\ Worth(gas', rewards) = Worth(gas, rewards)
    BY <1>1, <1>3, <2>1, UndelegateSound
  <2> QED BY <1>1, <2>1, <2>2, <2>3, SameValidators
<1>4. ASSUME NEW d \in User, NEW from \in User, NEW to \in User, NEW n \in Amount, Redelegate(d, from, to, n)
      PROVE  Kept
  <2>1. gas' = gas /\ rewards' = rewards /\ rate' = rate /\ n \in Nat
    BY <1>4, InputsHold DEF Redelegate
  <2>2. overtaken => overtaken'
    BY <1>4, Zenon DEF Redelegate, TakenFrom
  <2>3. Sound(gas, rewards, staked', overtaken')
    BY <1>1, <1>4, <2>1, RedelegateSound
  <2> QED BY <1>1, <2>1, <2>2, <2>3, SameValidators
<1>5. ASSUME NEW v \in User, NEW r \in Rates, NEW n \in Amount, CreateValidator(v, r, n)
      PROVE  Kept
  <2>1. /\ Delegated(v, v, n) /\ rewards' = rewards /\ overtaken' = overtaken /\ n \in Nat
        /\ v \notin bonded /\ rate' = [u \in bonded \cup {v} |-> IF u = v THEN r ELSE rate[u]]
    BY <1>5, InputsHold DEF CreateValidator
  <2>2. Sound(gas', rewards, staked', overtaken) /\ Worth(gas', rewards) = Worth(gas, rewards)
    BY <1>1, <2>1, DelegatedSound
  <2>3. bonded' = bonded \cup {v}
    BY <2>1 DEF bonded
  <2>4. bonded' \subseteq User /\ rate' \in [bonded' -> Rates]
    BY <1>1, <1>5, <2>1, <2>3
  <2>5. \A u \in bonded : u \in bonded' /\ rate'[u] = rate[u]
    BY <2>1, <2>3
  <2>6. Fair' => Fair
    BY <2>1, <2>5 DEF Fair
  <2> QED BY <1>1, <2>1, <2>2, <2>4, <2>6 DEF Kept, Good
<1>6. ASSUME NEW v \in User, DistributeFees(v)
      PROVE  Kept
  <2>1. staked' = staked /\ rate' = rate /\ overtaken' = overtaken /\ v \in bonded
    BY <1>6 DEF DistributeFees
  <2>2. /\ Sound(gas', rewards', staked, overtaken)
        /\ ~overtaken /\ AtMostOne(rate[v]) => Worth(gas', rewards') <= Worth(gas, rewards)
    BY <1>1, <1>6, DistributeSound
  <2>3. Fair => Worth(gas', rewards') <= Worth(gas, rewards)
    BY <2>1, <2>2 DEF Fair
  <2> QED BY <1>1, <2>1, <2>2, <2>3, SameValidators
<1>7. ASSUME NEW u \in User, WithdrawRewards(u)
      PROVE  Kept
  <2>1. staked' = staked /\ rate' = rate /\ overtaken' = overtaken
    BY <1>7 DEF WithdrawRewards
  <2>2. Sound(gas', rewards', staked, overtaken) /\ Worth(gas', rewards') = Worth(gas, rewards)
    BY <1>1, <1>7, WithdrawSound
  <2> QED BY <1>1, <2>1, <2>2, SameValidators
<1>8. ASSUME NEW u \in User, NEW to \in Payees, NEW n \in Amount, Send(u, to, n)
      PROVE  Kept
  <2>1. /\ rewards' = rewards /\ staked' = staked /\ rate' = rate /\ overtaken' = overtaken
        /\ n \in Nat /\ to \in Account
    BY <1>8, InputsHold DEF Send
  <2>2. Sound(gas', rewards, staked, overtaken) /\ Worth(gas', rewards) = Worth(gas, rewards)
    BY <1>1, <1>8, <2>1, SentSound
  <2> QED BY <1>1, <2>1, <2>2, SameValidators
<1>9. ASSUME UNCHANGED vars
      PROVE  Kept
  BY <1>1, <1>9, SameValidators DEF vars
<1> QED BY <1>2, <1>3, <1>4, <1>5, <1>6, <1>7, <1>8, <1>9 DEF Next

LEMMA GoodHolds == Spec => []Good
<1>1. Init => Good
  BY InitGood
<1>2. Good /\ [Next]_vars => Good'
  BY StepKept DEF Kept
<1> QED BY <1>1, <1>2, PTL DEF Spec

------------------------------------------------------------------------------
(* What derc20 keeps of one stake agrees and there are coins behind it, whatever
   is delegated, moved between validators, taken back and paid; the validators'
   part is more than the delegators' after a call that took too much. *)
THEOREM StakesAgree == Spec => []StakeAgrees
<1>1. Good => StakeAgrees
  <2> SUFFICES ASSUME Good
               PROVE  StakeAgrees
    OBVIOUS
  <2>1. Books(staked, overtaken) /\ gas.bal[Staking] + gas.bal[StakedToken] >= staked.supply
    BY DEF Good, Sound
  <2> QED BY <2>1 DEF Books, StakeAgrees
<1> QED BY <1>1, GoodHolds, PTL

(* The lists of a delegator's validators and of a validator's delegators are one
   relation, over any calls, and every amount delegated is in it until a call
   took too much. *)
THEOREM ListsMatch == Spec => []ListsAgree
<1>1. Good => ListsAgree
  <2> SUFFICES ASSUME Good
               PROVE  ListsAgree
    OBVIOUS
  <2>1. Mirrored(staked) /\ (~overtaken => Listed(staked))
    BY DEF Good, Sound, Books
  <2> QED BY <2>1 DEF Mirrored, Listed, ListsAgree
<1> QED BY <1>1, GoodHolds, PTL

(* Rewards come out of fees, as long as no commission registered is above one
   and no call took too much: the rounding of every share is down, and the
   shares' parts add up to no more than the validator's balance. *)
THEOREM NoneFromNothing == Spec => []NoInflation
<1> DEFINE Bounded == Fair => Worth(gas, rewards) <= SumOf(Genesis)
<1>1. SumOf(Genesis) \in Int
  <2>1. Genesis \in [User -> Nat]
    BY StakingAssumption DEF StakingAssumption
  <2> QED BY <2>1, SumOfNat, AccountsHold
<1>2. Init => Bounded
  BY <1>1, InitGood
<1>3. Good /\ Bounded /\ [Next]_vars => Bounded'
  <2> SUFFICES ASSUME Good, Bounded, [Next]_vars, Fair'
               PROVE  Worth(gas', rewards') <= SumOf(Genesis)
    BY DEF Bounded
  <2>1. Good' /\ Fair /\ Worth(gas', rewards') <= Worth(gas, rewards)
    BY StepKept DEF Kept
  <2>2. Worth(gas, rewards) \in Int /\ Worth(gas', rewards') \in Int
    BY <2>1, WorthTypes DEF Good, Sound, Worth
  <2> QED BY <1>1, <2>1, <2>2
<1>4. Good /\ Bounded => NoInflation
  <2> SUFFICES ASSUME Good, Bounded, Fair
               PROVE  SumOf(gas.bal) + SumOf(rewards.bal) <= SumOf(Genesis) + gas.made
    BY DEF NoInflation, Fair
  <2>1. Worth(gas, rewards) <= SumOf(Genesis)
    OBVIOUS
  <2>2. SumOf(gas.bal) \in Int /\ SumOf(rewards.bal) \in Int /\ gas.made \in Nat
    BY WorthTypes DEF Good, Sound
  <2> QED BY <1>1, <2>1, <2>2 DEF Worth
<1> QED BY <1>2, <1>3, <1>4, GoodHolds, PTL DEF Spec

(* No balance, stake or supply is stored below zero, and every validator has a
   commission. *)
THEOREM TypeCorrect == Spec => []TypeOK
<1>1. Good => TypeOK
  BY DEF Good, Sound, Books, TypeOK
<1> QED BY <1>1, GoodHolds, PTL

------------------------------------------------------------------------------
(* Proofs about Slashing.  For any window, jail time and set of validators, and
   whatever the host deletes up to an empty key, the ring of bits and its counter
   are a sliding window until a jailing sets them apart, and err one way from
   then on; jail is for who missed too much and for the whole time.

   The counter moves by the bit it overwrites, so it is the number of blocks missed
   in the window only if that bit is of the block that leaves the window: the ring
   that bits not deleted would be, from its index on, is the window from its oldest
   block on (RingOf).  The bits there are have less than that ring, or more (Tied),
   and the counter has more, or less (Errs), since what one vote adds to it is
   monotonic in the bit, the other way round (CountedOrder). *)

(* A window and its ring of bits. *)
RingOf(bits, i, s) ==
    /\ s \in Seq(BOOLEAN) /\ Len(s) <= Window
    /\ Len(s) < Window => i = Len(s) /\ \A j \in 0..(Window - 1) : bits[j] = (j < i /\ s[j + 1])
    /\ Len(s) = Window =>
          \A j \in 0..(Window - 1) : bits[j] = s[IF j < i THEN j - i + Window + 1 ELSE j - i + 1]

Inputs ==
    /\ Validator \subseteq Nat /\ IsFiniteSet(Validator)
    /\ Window \in Nat \ {0} /\ MaxMissed \in Nat /\ JailTime \in Nat /\ MaxHeight \in Nat

LEMMA SlashInputs == Inputs
  BY SlashingAssumption DEF SlashingAssumption, Inputs

------------------------------------------------------------------------------
(* How many are TRUE in a sequence. *)
LEMMA MissedOfType ==
  ASSUME NEW s \in Seq(BOOLEAN)
  PROVE  /\ IsFiniteSet({i \in DOMAIN s : s[i]})
         /\ MissedOf(s) \in Nat
         /\ \A i \in DOMAIN s : s[i] => MissedOf(s) > 0
<1> DEFINE T == {i \in DOMAIN s : s[i]}
<1>1. IsFiniteSet(1..Len(s))
  BY FS_Interval
<1>2. IsFiniteSet(T)
  BY <1>1, FS_Subset
<1>3. Cardinality(T) \in Nat
  BY <1>2, FS_CardinalityType
<1>4. Cardinality(T) = 0 <=> T = {}
  BY <1>2, FS_EmptySet
<1>5. MissedOf(s) = Cardinality(T)
  BY DEF MissedOf
<1>6. \A i \in DOMAIN s : s[i] => T # {}
  OBVIOUS
<1> HIDE DEF T
<1>7. \A i \in DOMAIN s : s[i] => MissedOf(s) > 0
  BY <1>3, <1>4, <1>5, <1>6
<1> QED BY <1>2, <1>3, <1>5, <1>7 DEF T

LEMMA MissedOfEmpty == MissedOf(<<>>) = 0
<1>1. {i \in DOMAIN <<>> : (<<>>)[i]} = {}
  OBVIOUS
<1> QED BY <1>1, FS_EmptySet DEF MissedOf

LEMMA MissedOfAppend ==
  ASSUME NEW s \in Seq(BOOLEAN), NEW m \in BOOLEAN
  PROVE  MissedOf(Append(s, m)) = IF m THEN MissedOf(s) + 1 ELSE MissedOf(s)
<1> DEFINE T == {i \in DOMAIN s : s[i]}
           U == {i \in DOMAIN Append(s, m) : Append(s, m)[i]}
           n == Len(s) + 1
<1>1. IsFiniteSet(T) /\ MissedOf(s) = Cardinality(T)
  BY MissedOfType DEF MissedOf
<1>2. U = IF m THEN T \cup {n} ELSE T
  OBVIOUS
<1>3. n \notin T
  OBVIOUS
<1>4. Cardinality(T \cup {n}) = Cardinality(T) + 1
  BY <1>1, <1>3, FS_AddElement
<1> QED BY <1>1, <1>2, <1>4 DEF MissedOf

(* What leaves at the front is no longer counted. *)
LEMMA MissedOfTail ==
  ASSUME NEW s \in Seq(BOOLEAN), s # <<>>
  PROVE  MissedOf(Tail(s)) = IF s[1] THEN MissedOf(s) - 1 ELSE MissedOf(s)
<1> DEFINE T == {i \in DOMAIN s : s[i]}
           U == {i \in DOMAIN Tail(s) : Tail(s)[i]}
           f == [i \in U |-> i + 1]
<1>1. Len(Tail(s)) = Len(s) - 1 /\ \A i \in 1..(Len(s) - 1) : Tail(s)[i] = s[i + 1]
  OBVIOUS
<1>2. Tail(s) \in Seq(BOOLEAN)
  OBVIOUS
<1>3. IsFiniteSet(T) /\ IsFiniteSet(U) /\ MissedOf(s) = Cardinality(T) /\ MissedOf(Tail(s)) = Cardinality(U)
  BY <1>2, MissedOfType DEF MissedOf
<1>4. f \in Bijection(U, T \ {1})
  <2>1. f \in [U -> T \ {1}]
    BY <1>1
  <2>2. \A i, j \in U : f[i] = f[j] => i = j
    OBVIOUS
  <2>3. \A k \in T \ {1} : \E i \in U : f[i] = k
    <3> TAKE k \in T \ {1}
    <3>1. k - 1 \in U
      BY <1>1
    <3>2. f[k - 1] = k
      BY <3>1
    <3> QED BY <3>1, <3>2
  <2> QED BY <2>1, <2>2, <2>3 DEF Bijection, Injection, Surjection, IsInjective
<1>5. Cardinality(T \ {1}) = Cardinality(U)
  <2> HIDE DEF T, U, f
  <2>1. ExistsBijection(U, T \ {1})
    BY <1>4 DEF ExistsBijection
  <2> QED BY <1>3, <2>1, FS_Bijection
<1>6. Cardinality(T \ {1}) = IF 1 \in T THEN Cardinality(T) - 1 ELSE Cardinality(T)
  BY <1>3, FS_RemoveElement
<1>7. 1 \in T <=> s[1]
  OBVIOUS
<1> QED BY <1>3, <1>5, <1>6, <1>7

------------------------------------------------------------------------------
(* One step of the window. *)
LEMMA NextIndex ==
  ASSUME NEW i \in 0..(Window - 1)
  PROVE  (i + 1) % Window = IF i + 1 = Window THEN 0 ELSE i + 1
<1>1. Window \in Nat \ {0}
  BY SlashInputs DEF Inputs
<1>2. CASE i + 1 = Window
  BY <1>1, <1>2
<1>3. CASE i + 1 # Window
  BY <1>1, <1>3
<1> QED BY <1>2, <1>3

LEMMA LastOfAppend ==
  ASSUME NEW s \in Seq(BOOLEAN), NEW m \in BOOLEAN, Len(s) <= Window
  PROVE  LastOf(Append(s, m), Window) = IF Len(s) < Window THEN Append(s, m) ELSE Append(Tail(s), m)
<1>1. Window \in Nat \ {0}
  BY SlashInputs DEF Inputs
<1>2. CASE Len(s) < Window
  BY <1>1, <1>2 DEF LastOf
<1>3. CASE Len(s) = Window
  <2> DEFINE t == Append(s, m)
             u == Append(Tail(s), m)
             v == SubSeq(t, 2, Window + 1)
  <2>1. Len(t) = Window + 1 /\ LastOf(t, Window) = v
    BY <1>1, <1>3 DEF LastOf
  <2>2. Tail(s) \in Seq(BOOLEAN) /\ Len(Tail(s)) = Window - 1
    BY <1>1, <1>3
  <2>3. u \in Seq(BOOLEAN) /\ Len(u) = Window
    BY <1>1, <2>2
  <2>4. v \in Seq(BOOLEAN) /\ Len(v) = Window
    BY <1>1, <2>1
  <2>5. ASSUME NEW k \in 1..Window
        PROVE  u[k] = v[k]
    <3>1. v[k] = t[k + 1]
      BY <1>1, <2>1
    <3>2. CASE k < Window
      <4>1. t[k + 1] = s[k + 1] /\ u[k] = Tail(s)[k] /\ Tail(s)[k] = s[k + 1]
        BY <1>1, <1>3, <2>2, <3>2
      <4> QED BY <3>1, <4>1
    <3>3. CASE k = Window
      <4>1. u[Len(Tail(s)) + 1] = m /\ t[Len(s) + 1] = m
        BY <2>2
      <4>2. Len(Tail(s)) + 1 = k /\ Len(s) + 1 = k + 1
        BY <1>1, <1>3, <2>2, <3>3
      <4> QED BY <3>1, <4>1, <4>2
    <3>4. k < Window \/ k = Window
      BY <1>1
    <3> QED BY <3>2, <3>3, <3>4
  <2> HIDE DEF u, v, t
  <2>6. u = v
    BY <1>1, <2>3, <2>4, <2>5, SeqEqual
  <2> QED BY <1>1, <1>3, <2>1, <2>6 DEF u, t
<1> QED BY <1>1, <1>2, <1>3

(* The ring after a bit was written at the index, and the count that goes with it. *)
LEMMA RingStep ==
  ASSUME NEW bits \in [0..(Window - 1) -> BOOLEAN], NEW i \in 0..(Window - 1), NEW s, NEW m \in BOOLEAN,
         RingOf(bits, i, s)
  PROVE  /\ RingOf([bits EXCEPT ![i] = m], (i + 1) % Window, LastOf(Append(s, m), Window))
         /\ MissedOf(LastOf(Append(s, m), Window)) = Counted(MissedOf(s), bits[i], m)
<1> DEFINE w == LastOf(Append(s, m), Window)
           b == [bits EXCEPT ![i] = m]
           n == (i + 1) % Window
<1>1. Window \in Nat \ {0} /\ s \in Seq(BOOLEAN) /\ Len(s) <= Window /\ Len(s) \in Nat
  BY SlashInputs DEF Inputs, RingOf
<1>2. n = IF i + 1 = Window THEN 0 ELSE i + 1
  BY NextIndex
<1>3. w = IF Len(s) < Window THEN Append(s, m) ELSE Append(Tail(s), m)
  BY <1>1, LastOfAppend
<1>4. \A j \in 0..(Window - 1) : b[j] = IF j = i THEN m ELSE bits[j]
  OBVIOUS
<1> HIDE DEF n, b
<1>5. CASE Len(s) < Window
  <2>1. i = Len(s) /\ \A j \in 0..(Window - 1) : bits[j] = (j < i /\ s[j + 1])
    BY <1>5 DEF RingOf
  <2>2. w = Append(s, m) /\ w \in Seq(BOOLEAN) /\ Len(w) = i + 1
    BY <1>1, <1>3, <1>5, <2>1
  <2>3. \A k \in 1..(i + 1) : w[k] = IF k = i + 1 THEN m ELSE s[k]
    BY <1>1, <2>1, <2>2
  <2> HIDE DEF w
  <2>4. ASSUME NEW j \in 0..(Window - 1), j <= i
        PROVE  b[j] = w[j + 1]
    <3>1. CASE j = i
      BY <1>4, <2>1, <2>3, <3>1
    <3>2. CASE j < i
      <4>1. b[j] = bits[j] /\ j + 1 \in 1..(i + 1) /\ j + 1 # i + 1
        BY <1>4, <3>2
      <4>2. bits[j] = s[j + 1] /\ w[j + 1] = s[j + 1]
        BY <1>1, <2>1, <2>3, <3>2, <4>1
      <4> QED BY <4>1, <4>2
    <3> QED BY <2>4, <3>1, <3>2
  <2>5. ASSUME NEW j \in 0..(Window - 1), j > i
        PROVE  b[j] = FALSE
    BY <1>4, <2>1, <2>5
  <2>6. RingOf(b, n, w)
    <3>1. CASE i + 1 < Window
      <4>1. n = Len(w) /\ Len(w) < Window
        BY <1>1, <1>2, <2>2, <3>1
      <4>2. ASSUME NEW j \in 0..(Window - 1)
            PROVE  b[j] = (j < n /\ w[j + 1])
        <5>1. CASE j <= i
          <6>1. j < n /\ b[j] = w[j + 1]
            BY <2>2, <2>4, <4>1, <5>1
          <6>2. b[j] \in BOOLEAN
            BY <1>4
          <6> QED BY <6>1, <6>2
        <5>2. CASE j > i
          <6>1. ~(j < n)
            BY <2>2, <4>1, <5>2
          <6> QED BY <2>5, <5>2, <6>1
        <5> QED BY <5>1, <5>2
      <4>3. Len(w) # Window /\ Len(w) <= Window
        BY <1>1, <2>2, <4>1
      <4> QED BY <2>2, <4>1, <4>2, <4>3 DEF RingOf
    <3>2. CASE i + 1 = Window
      <4>1. n = 0 /\ Len(w) = Window
        BY <1>2, <2>2, <3>2
      <4>2. ASSUME NEW j \in 0..(Window - 1)
            PROVE  b[j] = w[IF j < n THEN j - n + Window + 1 ELSE j - n + 1]
        <5>1. (IF j < n THEN j - n + Window + 1 ELSE j - n + 1) = j + 1 /\ j <= i
          BY <1>1, <3>2, <4>1
        <5> QED BY <2>4, <5>1
      <4> QED BY <1>1, <2>2, <4>1, <4>2 DEF RingOf
    <3> QED BY <1>1, <3>1, <3>2
  <2>7. bits[i] = FALSE
    BY <2>1
  <2>8. MissedOf(w) = Counted(MissedOf(s), bits[i], m)
    <3>1. MissedOf(s) \in Nat
      BY <1>1, MissedOfType
    <3>2. MissedOf(w) = IF m THEN MissedOf(s) + 1 ELSE MissedOf(s)
      BY <1>1, <2>2, MissedOfAppend
    <3> QED BY <2>7, <3>1, <3>2 DEF Counted
  <2> QED BY <2>6, <2>8 DEF w, b, n
<1>6. CASE Len(s) = Window
  <2>1. \A j \in 0..(Window - 1) : bits[j] = s[IF j < i THEN j - i + Window + 1 ELSE j - i + 1]
    BY <1>6 DEF RingOf
  <2>2. w = Append(Tail(s), m) /\ Tail(s) \in Seq(BOOLEAN) /\ Len(Tail(s)) = Window - 1
    BY <1>1, <1>3, <1>6
  <2>3. w \in Seq(BOOLEAN) /\ Len(w) = Window
    BY <1>1, <2>2
  <2>4. \A k \in 1..Window : w[k] = IF k = Window THEN m ELSE s[k + 1]
    BY <1>1, <1>6, <2>2
  <2>5. bits[i] = s[1]
    <3>1. (IF i < i THEN i - i + Window + 1 ELSE i - i + 1) = 1
      OBVIOUS
    <3> QED BY <2>1, <3>1
  <2> HIDE DEF w
  <2>6. ASSUME NEW j \in 0..(Window - 1)
        PROVE  b[j] = w[IF j < n THEN j - n + Window + 1 ELSE j - n + 1]
    <3> DEFINE k == IF j < n THEN j - n + Window + 1 ELSE j - n + 1
               old == IF j < i THEN j - i + Window + 1 ELSE j - i + 1
    <3>1. CASE j = i
      <4>1. k = Window
        BY <1>1, <1>2, <3>1
      <4>2. w[Window] = m
        BY <1>1, <2>4
      <4> QED BY <1>4, <3>1, <4>1, <4>2
    <3>2. CASE j # i
      <4>1. k \in 1..Window /\ k # Window /\ old = k + 1
        BY <1>1, <1>2, <3>2
      <4>2. b[j] = s[old]
        BY <1>4, <2>1, <3>2
      <4>3. w[k] = s[k + 1]
        BY <2>4, <4>1
      <4> QED BY <4>1, <4>2, <4>3
    <3> QED BY <3>1, <3>2
  <2>7. RingOf(b, n, w)
    BY <1>1, <2>3, <2>6 DEF RingOf
  <2>8. MissedOf(w) = Counted(MissedOf(s), bits[i], m)
    <3>1. MissedOf(s) \in Nat /\ (s[1] => MissedOf(s) > 0)
      BY <1>1, <1>6, MissedOfType
    <3>2. MissedOf(Tail(s)) = IF s[1] THEN MissedOf(s) - 1 ELSE MissedOf(s)
      BY <1>1, <1>6, MissedOfTail
    <3>3. MissedOf(w) = IF m THEN MissedOf(Tail(s)) + 1 ELSE MissedOf(Tail(s))
      BY <2>2, MissedOfAppend
    <3>4. s[1] \in BOOLEAN
      BY <2>5
    <3> QED BY <2>5, <3>1, <3>2, <3>3, <3>4 DEF Counted
  <2> QED BY <2>7, <2>8 DEF w, b, n
<1> QED BY <1>1, <1>5, <1>6

------------------------------------------------------------------------------
(* What one vote does to one validator. *)
Info == [start : Nat, index : 0..(Window - 1), missed : Nat, until : Nat]

OneOf == [info : Info, bits : [0..(Window - 1) -> BOOLEAN], jailed : BOOLEAN,
          recent : Seq(BOOLEAN), misses : Nat, since : Nat, apart : BOOLEAN]

(* The bits there are, and the ring they would be: fewer when bits of other
   validators are deleted, more when none are. *)
Tied(bits, ring, set) ==
    \A j \in 0..(Window - 1) :
        /\ ~set => bits[j] = ring[j]
        /\ emptyEnd = "rest" => (bits[j] => ring[j])
        /\ emptyEnd = "nothing" => (ring[j] => bits[j])

Errs(count, missed, set) ==
    /\ ~set => count = missed
    /\ emptyEnd = "rest" => count >= missed
    /\ emptyEnd = "nothing" => count <= missed

Ringed(s) ==
    \E ring \in [0..(Window - 1) -> BOOLEAN] :
        RingOf(ring, s.info.index, s.recent) /\ Tied(s.bits, ring, s.apart)

Accounted(s) ==
    /\ s \in OneOf /\ Ringed(s)
    /\ Errs(s.info.missed, MissedOf(s.recent), s.apart)
    /\ s.info.missed <= s.misses
    /\ s.jailed => s.info.until = s.since + JailTime

(* A validator not bonded yet. *)
Blank(s) ==
    s \in OneOf /\ s.bits = NoBits /\ s.recent = <<>> /\ s.misses = 0 /\ ~s.apart /\ ~s.jailed

LEMMA CountedType ==
  ASSUME NEW i \in Nat, NEW p \in BOOLEAN, NEW m \in BOOLEAN
  PROVE  Counted(i, p, m) \in Nat /\ Counted(i, p, m) <= i + (IF m THEN 1 ELSE 0)
  BY DEF Counted

LEMMA CountedOrder ==
  ASSUME NEW c \in Nat, NEW p \in BOOLEAN, NEW d \in Nat, NEW q \in BOOLEAN, NEW m \in BOOLEAN,
         c <= d, q => p
  PROVE  Counted(c, p, m) <= Counted(d, q, m)
  BY DEF Counted

LEMMA ErrsCounted ==
  ASSUME NEW c \in Nat, NEW p \in BOOLEAN, NEW d \in Nat, NEW q \in BOOLEAN, NEW m \in BOOLEAN,
         NEW set \in BOOLEAN, Errs(c, d, set), ~set => p = q,
         emptyEnd = "rest" => (p => q), emptyEnd = "nothing" => (q => p)
  PROVE  Errs(Counted(c, p, m), Counted(d, q, m), set)
<1>1. ~set => Counted(c, p, m) = Counted(d, q, m)
  BY DEF Errs
<1>2. ASSUME emptyEnd = "rest"
      PROVE  Counted(c, p, m) >= Counted(d, q, m)
  <2>1. d <= c /\ (p => q)
    BY <1>2 DEF Errs
  <2>2. Counted(d, q, m) <= Counted(c, p, m)
    BY <2>1, CountedOrder
  <2> QED BY <2>2, CountedType
<1>3. ASSUME emptyEnd = "nothing"
      PROVE  Counted(c, p, m) <= Counted(d, q, m)
  <2>1. c <= d /\ (q => p)
    BY <1>3 DEF Errs
  <2> QED BY <2>1, CountedOrder
<1> QED BY <1>1, <1>2, <1>3 DEF Errs

LEMMA FreshRing == RingOf(NoBits, 0, <<>>) /\ NoBits \in [0..(Window - 1) -> BOOLEAN]
<1>1. Window \in Nat \ {0}
  BY SlashInputs DEF Inputs
<1> DEFINE s == <<>>
<1>2. s \in Seq(BOOLEAN) /\ Len(s) = 0
  OBVIOUS
<1>3. NoBits \in [0..(Window - 1) -> BOOLEAN] /\ \A j \in 0..(Window - 1) : NoBits[j] = FALSE
  BY DEF NoBits
<1> HIDE DEF s
<1>4. Len(s) < Window /\ Len(s) # Window /\ \A j \in 0..(Window - 1) : NoBits[j] = (j < 0 /\ s[j + 1])
  BY <1>1, <1>2, <1>3
<1>5. RingOf(NoBits, 0, s)
  BY <1>1, <1>2, <1>4 DEF RingOf
<1> QED BY <1>3, <1>5 DEF s

LEMMA MarkedSound ==
  ASSUME NEW s, Accounted(s), NEW m \in BOOLEAN
  PROVE  LET t == Marked(s, m)
         IN  /\ t \in OneOf /\ Ringed(t)
             /\ Errs(t.info.missed, MissedOf(t.recent), t.apart)
             /\ t.info.missed <= t.misses
             /\ t.jailed = s.jailed /\ t.since = s.since /\ t.apart = s.apart
             /\ t.info.start = s.info.start /\ t.info.until = s.info.until
             /\ t.recent = LastOf(Append(s.recent, m), Window)
             /\ t.misses = s.misses + (IF m THEN 1 ELSE 0)
<1> DEFINE i == s.info.index
           t == Marked(s, m)
           w == LastOf(Append(s.recent, m), Window)
           b == [s.bits EXCEPT ![i] = m]
           c == Counted(s.info.missed, s.bits[i], m)
           f == [s.info EXCEPT !.index = (i + 1) % Window, !.missed = c]
           n == IF m THEN s.misses + 1 ELSE s.misses
<1>1. /\ s.info \in Info /\ s.bits \in [0..(Window - 1) -> BOOLEAN] /\ i \in 0..(Window - 1) /\ s \in OneOf
      /\ s.info.missed \in Nat /\ s.misses \in Nat /\ s.apart \in BOOLEAN /\ s.info.missed <= s.misses
      /\ s.recent \in Seq(BOOLEAN)
  BY DEF Accounted, OneOf, Info
<1>2. PICK ring \in [0..(Window - 1) -> BOOLEAN] :
         RingOf(ring, i, s.recent) /\ Tied(s.bits, ring, s.apart)
  BY DEF Accounted, Ringed
<1> DEFINE r == [ring EXCEPT ![i] = m]
<1>3. RingOf(r, (i + 1) % Window, w) /\ MissedOf(w) = Counted(MissedOf(s.recent), ring[i], m)
  BY <1>1, <1>2, RingStep
<1>4. r \in [0..(Window - 1) -> BOOLEAN] /\ Tied(b, r, s.apart)
  <2>1. r \in [0..(Window - 1) -> BOOLEAN]
    OBVIOUS
  <2>2. \A j \in 0..(Window - 1) : /\ r[j] = IF j = i THEN m ELSE ring[j]
                                   /\ b[j] = IF j = i THEN m ELSE s.bits[j]
    BY <1>1
  <2> HIDE DEF r, b
  <2> QED BY <1>2, <2>1, <2>2 DEF Tied
<1>5. Errs(c, MissedOf(w), s.apart)
  <2>1. MissedOf(s.recent) \in Nat
    BY <1>1, MissedOfType
  <2>2. s.bits[i] \in BOOLEAN /\ ring[i] \in BOOLEAN
    BY <1>1
  <2>3. /\ ~s.apart => s.bits[i] = ring[i]
        /\ emptyEnd = "rest" => (s.bits[i] => ring[i])
        /\ emptyEnd = "nothing" => (ring[i] => s.bits[i])
    BY <1>1, <1>2 DEF Tied
  <2>4. Errs(s.info.missed, MissedOf(s.recent), s.apart)
    BY DEF Accounted
  <2> DEFINE d == s.info.missed
             set == s.apart
             p == s.bits[i]
             q == ring[i]
             k == MissedOf(s.recent)
  <2>5. d \in Nat /\ p \in BOOLEAN /\ k \in Nat /\ q \in BOOLEAN /\ set \in BOOLEAN /\ Errs(d, k, set)
    BY <1>1, <2>1, <2>2, <2>4
  <2>6. (~set => p = q) /\ (emptyEnd = "rest" => (p => q)) /\ (emptyEnd = "nothing" => (q => p))
    BY <2>3
  <2> HIDE DEF d, set, p, q, k
  <2>7. Errs(Counted(d, p, m), Counted(k, q, m), set)
    BY <2>5, <2>6, ErrsCounted
  <2> QED BY <1>3, <2>7 DEF d, set, p, q, k
<1>6. (i + 1) % Window \in 0..(Window - 1) /\ c \in Nat /\ n \in Nat /\ c <= n
  <2>1. Window \in Nat \ {0}
    BY SlashInputs DEF Inputs
  <2>2. (i + 1) % Window \in 0..(Window - 1)
    BY <1>1, <2>1, NextIndex
  <2>3. c \in Nat /\ c <= s.info.missed + (IF m THEN 1 ELSE 0)
    BY <1>1, CountedType
  <2> HIDE DEF c
  <2> QED BY <1>1, <2>2, <2>3
<1>7. /\ f \in Info /\ f.index = (i + 1) % Window /\ f.missed = c
      /\ f.start = s.info.start /\ f.until = s.info.until
  <2> HIDE DEF c
  <2> QED BY <1>1, <1>6 DEF Info
<1>8. t = [s EXCEPT !.info = f, !.bits = b, !.recent = w, !.misses = n]
  BY <1>1 DEF Marked, OneOf
<1>9. b \in [0..(Window - 1) -> BOOLEAN] /\ w \in Seq(BOOLEAN)
  BY <1>1, <1>3 DEF RingOf
<1>10. n = s.misses + (IF m THEN 1 ELSE 0)
  BY <1>1
<1> HIDE DEF f, b, w, t, c, n, r
<1>11. /\ t \in OneOf /\ t.info = f /\ t.bits = b /\ t.recent = w /\ t.misses = n
       /\ t.jailed = s.jailed /\ t.since = s.since /\ t.apart = s.apart
  BY <1>1, <1>6, <1>7, <1>8, <1>9 DEF OneOf
<1>12. Ringed(t)
  BY <1>3, <1>4, <1>7, <1>11 DEF Ringed
<1> QED BY <1>5, <1>6, <1>7, <1>10, <1>11, <1>12 DEF t, w

(* A validator whose bits are deleted. *)
Deprived(s) == [s EXCEPT !.bits = NoBits, !.apart = s.apart \/ s.bits # NoBits]

LEMMA DeprivedSound ==
  ASSUME NEW s \in OneOf, Ringed(s), NEW missed, Errs(s.info.missed, missed, s.apart), emptyEnd = "rest"
  PROVE  LET t == Deprived(s)
         IN  /\ t \in OneOf /\ Ringed(t) /\ Errs(t.info.missed, missed, t.apart) /\ t.bits = NoBits
             /\ t.info = s.info /\ t.jailed = s.jailed /\ t.recent = s.recent
             /\ t.misses = s.misses /\ t.since = s.since
<1> DEFINE t == Deprived(s)
           set == s.apart \/ s.bits # NoBits
<1>1. NoBits \in [0..(Window - 1) -> BOOLEAN] /\ \A j \in 0..(Window - 1) : NoBits[j] = FALSE
  BY DEF NoBits
<1>2. set \in BOOLEAN /\ (~set => ~s.apart /\ s.bits = NoBits)
  BY Zenon
<1>3. t = [s EXCEPT !.bits = NoBits, !.apart = set]
  BY DEF Deprived
<1> HIDE DEF t, set
<1>4. /\ t \in OneOf /\ t.bits = NoBits /\ t.info = s.info /\ t.jailed = s.jailed /\ t.recent = s.recent
      /\ t.misses = s.misses /\ t.since = s.since /\ t.apart = set
  BY <1>1, <1>2, <1>3 DEF OneOf
<1>5. PICK ring \in [0..(Window - 1) -> BOOLEAN] :
         RingOf(ring, s.info.index, s.recent) /\ Tied(s.bits, ring, s.apart)
  BY DEF Ringed
<1>6. Tied(NoBits, ring, set)
  <2> SUFFICES ASSUME NEW j \in 0..(Window - 1)
               PROVE  (~set => NoBits[j] = ring[j]) /\ (NoBits[j] => ring[j])
    BY DEF Tied
  <2>1. ~set => s.bits[j] = ring[j] /\ s.bits = NoBits
    BY <1>2, <1>5 DEF Tied
  <2> QED BY <1>1, <2>1
<1>7. Ringed(t)
  BY <1>4, <1>5, <1>6 DEF Ringed
<1>8. Errs(t.info.missed, missed, set)
  BY <1>2, <1>4 DEF Errs
<1> QED BY <1>4, <1>7, <1>8 DEF t

LEMMA JailedSound ==
  ASSUME NEW s \in OneOf, NEW h \in Nat, emptyEnd = "rest" => s.bits = NoBits
  PROVE  LET t == Jailed(s, h) IN Accounted(t) /\ t.jailed
<1> DEFINE t == Jailed(s, h)
           u == h + JailTime
           f == [s.info EXCEPT !.until = u, !.missed = 0, !.index = 0]
           set == s.bits # NoBits
<1>1. s.info \in Info /\ s.bits \in [0..(Window - 1) -> BOOLEAN]
  BY DEF OneOf
<1>2. Window \in Nat \ {0} /\ u \in Nat
  BY SlashInputs DEF Inputs
<1> HIDE DEF u
<1>3. f \in Info /\ f.index = 0 /\ f.missed = 0 /\ f.until = u
  <2>1. 0 \in 0..(Window - 1) /\ 0 \in Nat
    BY <1>2
  <2> QED BY <1>1, <1>2, <2>1 DEF Info
<1>4. t = [s EXCEPT !.jailed = TRUE, !.recent = <<>>, !.misses = 0, !.since = h, !.apart = set, !.info = f]
  BY DEF Jailed, u
<1>5. set \in BOOLEAN /\ (~set => s.bits = NoBits)
  BY Zenon
<1> HIDE DEF f, t, set
<1>6. <<>> \in Seq(BOOLEAN) /\ 0 \in Nat
  OBVIOUS
<1>7. /\ t \in OneOf /\ t.info = f /\ t.bits = s.bits /\ t.recent = <<>> /\ t.misses = 0
      /\ t.jailed = TRUE /\ t.since = h /\ t.apart = set
  BY <1>3, <1>4, <1>5, <1>6 DEF OneOf
<1>8. Tied(s.bits, NoBits, set)
  <2>1. \A j \in 0..(Window - 1) : NoBits[j] = FALSE
    BY DEF NoBits
  <2> QED BY <1>5, <2>1 DEF Tied
<1>9. Ringed(t)
  BY <1>3, <1>7, <1>8, FreshRing DEF Ringed
<1>10. Errs(0, 0, set)
  BY DEF Errs
<1>11. Accounted(t)
  BY <1>3, <1>7, <1>9, <1>10, MissedOfEmpty DEF Accounted, u
<1> QED BY <1>7, <1>11 DEF t

------------------------------------------------------------------------------
(* What one vote does to all validators: the others may lose their bits. *)
One(v, s) == IF v \in signing THEN Accounted(s) ELSE Blank(s)

AllSound(all) == all \in [Validator -> OneOf] /\ \A v \in Validator : One(v, all[v])

Same(s, t) ==
    t.info = s.info /\ t.jailed = s.jailed /\ t.recent = s.recent /\ t.misses = s.misses /\ t.since = s.since

(* Why a vote jails a validator. *)
Absent(s, m) == MissedOf(LastOf(Append(s.recent, m), Window)) > MaxMissed

LEMMA DeletedSound ==
  ASSUME NEW all \in [Validator -> OneOf], NEW v \in Validator, Validator \subseteq Nat
  PROVE  LET left == DeleteMissedBlockBitmap(all, v)
         IN  /\ left \in [Validator -> OneOf]
             /\ \A u \in Validator : u # v /\ One(u, all[u]) =>
                    /\ One(u, left[u]) /\ Same(all[u], left[u])
                    /\ left[u].apart => all[u].apart \/ (emptyEnd = "rest" /\ v < u)
             /\ emptyEnd = "rest" => left[v].bits = NoBits
<1> DEFINE left == DeleteMissedBlockBitmap(all, v)
<1>1. ASSUME NEW u \in Validator
      PROVE  left[u] = IF emptyEnd = "rest" /\ u >= v THEN Deprived(all[u]) ELSE all[u]
  BY DEF DeleteMissedBlockBitmap, Deleted, Deprived
<1>2. left = [u \in Validator |-> left[u]]
  BY DEF DeleteMissedBlockBitmap
<1> HIDE DEF left
<1>3. ASSUME NEW s \in OneOf
      PROVE  Deprived(s) \in OneOf /\ Deprived(s).bits = NoBits
  <2>1. NoBits \in [0..(Window - 1) -> BOOLEAN]
    BY DEF NoBits
  <2> DEFINE set == s.apart \/ s.bits # NoBits
  <2>2. set \in BOOLEAN
    BY Zenon
  <2>3. Deprived(s) = [s EXCEPT !.bits = NoBits, !.apart = set]
    BY DEF Deprived
  <2> HIDE DEF set
  <2> QED BY <2>1, <2>2, <2>3 DEF OneOf
<1>4. left \in [Validator -> OneOf]
  <2>1. \A u \in Validator : left[u] \in OneOf
    BY <1>1, <1>3
  <2> QED BY <1>2, <2>1
<1>5. ASSUME NEW u \in Validator, u # v, One(u, all[u])
      PROVE  /\ One(u, left[u]) /\ Same(all[u], left[u])
             /\ left[u].apart => all[u].apart \/ (emptyEnd = "rest" /\ v < u)
  <2> DEFINE s == all[u]
  <2>1. CASE ~(emptyEnd = "rest" /\ u >= v)
    BY <1>1, <1>5, <2>1 DEF Same
  <2>2. CASE emptyEnd = "rest" /\ u >= v
    <3>1. left[u] = Deprived(s) /\ v < u
      BY <1>1, <1>5, <2>2
    <3>2. CASE u \in signing
      <4>1. Accounted(s) /\ s \in OneOf
        BY <1>5, <3>2 DEF One, Accounted
      <4> DEFINE k == MissedOf(s.recent)
      <4>2. Ringed(s) /\ Errs(s.info.missed, k, s.apart)
        BY <4>1 DEF Accounted
      <4> HIDE DEF s, k
      <4>3. /\ Deprived(s) \in OneOf /\ Ringed(Deprived(s)) /\ Errs(Deprived(s).info.missed, k, Deprived(s).apart)
            /\ Same(s, Deprived(s))
        BY <2>2, <4>1, <4>2, DeprivedSound DEF Same
      <4>4. Accounted(Deprived(s))
        BY <4>1, <4>3 DEF Accounted, Same, k
      <4> QED BY <2>2, <3>1, <3>2, <4>3, <4>4 DEF One, s
    <3>3. CASE u \notin signing
      <4>1. Blank(s) /\ s \in OneOf
        BY <1>5, <3>3 DEF One, Blank
      <4> HIDE DEF s
      <4>2. Deprived(s) = [s EXCEPT !.bits = NoBits, !.apart = FALSE]
        BY <4>1, Zenon DEF Deprived, Blank
      <4>3. NoBits \in [0..(Window - 1) -> BOOLEAN]
        BY DEF NoBits
      <4>4. Deprived(s) \in OneOf /\ Deprived(s).bits = NoBits /\ Deprived(s).apart = FALSE /\ Same(s, Deprived(s))
        BY <4>1, <4>2, <4>3 DEF OneOf, Same
      <4>5. Blank(Deprived(s))
        BY <4>1, <4>4 DEF Blank, Same
      <4> QED BY <2>2, <3>1, <3>3, <4>4, <4>5 DEF One, s
    <3> QED BY <3>2, <3>3
  <2> QED BY <2>1, <2>2
<1>6. emptyEnd = "rest" => left[v].bits = NoBits
  <2>1. v >= v
    OBVIOUS
  <2> QED BY <1>1, <1>3, <2>1
<1> QED BY <1>4, <1>5, <1>6 DEF left

LEMMA PunishedSound ==
  ASSUME NEW all \in [Validator -> OneOf], NEW v \in Validator, v \in signing, NEW h \in Nat,
         \A u \in Validator \ {v} : One(u, all[u])
  PROVE  LET new == PunishValidator(all, v, h)
         IN  /\ AllSound(new) /\ new[v].jailed
             /\ \A u \in Validator \ {v} :
                    /\ Same(all[u], new[u])
                    /\ new[u].apart => all[u].apart \/ (emptyEnd = "rest" /\ v < u)
<1> DEFINE left == DeleteMissedBlockBitmap(all, v)
           new == PunishValidator(all, v, h)
           t == Jailed(left[v], h)
<1>1. Validator \subseteq Nat
  BY SlashInputs DEF Inputs
<1>2. /\ left \in [Validator -> OneOf]
      /\ \A u \in Validator : u # v /\ One(u, all[u]) =>
             /\ One(u, left[u]) /\ Same(all[u], left[u])
             /\ left[u].apart => all[u].apart \/ (emptyEnd = "rest" /\ v < u)
      /\ emptyEnd = "rest" => left[v].bits = NoBits
  BY <1>1, DeletedSound
<1>3. new = [left EXCEPT ![v] = t]
  BY DEF PunishValidator
<1> HIDE DEF left, new
<1>4. Accounted(t) /\ t.jailed /\ t \in OneOf
  BY <1>2, JailedSound DEF Accounted
<1> HIDE DEF t
<1>5. new \in [Validator -> OneOf] /\ new[v] = t /\ \A u \in Validator \ {v} : new[u] = left[u]
  BY <1>2, <1>3, <1>4
<1>6. AllSound(new)
  BY <1>2, <1>4, <1>5 DEF AllSound, One
<1> QED BY <1>2, <1>4, <1>5, <1>6 DEF new

LEMMA SignatureSound ==
  ASSUME NEW all, AllSound(all), NEW v \in Validator, v \in signing, NEW h \in Nat, NEW m \in BOOLEAN
  PROVE  LET new == HandleValidatorSignature(all, v, h, m)
         IN  /\ AllSound(new)
             /\ all[v].jailed => new = all
             /\ \A u \in Validator \ {v} :
                    /\ Same(all[u], new[u])
                    /\ new[u].apart => all[u].apart \/ (emptyEnd = "rest" /\ v < u /\ new[v].jailed /\ ~all[v].jailed)
             /\ new[v].jailed /\ ~all[v].jailed =>
                    /\ all[v].misses + (IF m THEN 1 ELSE 0) > MaxMissed
                    /\ emptyEnd = "nothing" \/ ~all[v].apart => Absent(all[v], m)
<1> DEFINE t == Marked(all[v], m)
           marked == [all EXCEPT ![v] = t]
           new == HandleValidatorSignature(all, v, h, m)
<1>1. all \in [Validator -> OneOf] /\ Accounted(all[v]) /\ \A u \in Validator : One(u, all[u])
  BY DEF AllSound, One
<1>2. CASE all[v].jailed
  <2>1. new = all
    BY <1>2 DEF HandleValidatorSignature
  <2> QED BY <1>2, <2>1 DEF Same
<1>3. CASE ~all[v].jailed
  <2>1. /\ t \in OneOf /\ Ringed(t)
        /\ Errs(t.info.missed, MissedOf(t.recent), t.apart)
        /\ t.info.missed <= t.misses
        /\ t.jailed = all[v].jailed /\ t.apart = all[v].apart
        /\ t.recent = LastOf(Append(all[v].recent, m), Window)
        /\ t.misses = all[v].misses + (IF m THEN 1 ELSE 0)
    BY <1>1, MarkedSound
  <2>2. Accounted(t)
    BY <1>3, <2>1 DEF Accounted
  <2> HIDE DEF t
  <2>3. /\ marked \in [Validator -> OneOf] /\ marked[v] = t
        /\ \A u \in Validator \ {v} : marked[u] = all[u]
    BY <1>1, <2>1
  <2>4. new = IF marked[v].info.missed > MaxMissed /\ h > marked[v].info.start + Window
              THEN PunishValidator(marked, v, h) ELSE marked
    BY <1>3 DEF HandleValidatorSignature, t
  <2> HIDE DEF marked, new
  <2>5. \A u \in Validator \ {v} : One(u, marked[u])
    BY <1>1, <2>3
  <2>6. CASE ~(marked[v].info.missed > MaxMissed /\ h > marked[v].info.start + Window)
    <3>1. new = marked
      BY <2>4, <2>6
    <3>2. AllSound(marked)
      BY <2>2, <2>3, <2>5 DEF AllSound, One
    <3>3. ~new[v].jailed
      BY <1>3, <2>1, <2>3, <3>1
    <3> QED BY <1>3, <2>3, <3>1, <3>2, <3>3 DEF Same, new
  <2>7. CASE marked[v].info.missed > MaxMissed /\ h > marked[v].info.start + Window
    <3>1. new = PunishValidator(marked, v, h)
      BY <2>4, <2>7
    <3>2. /\ AllSound(new) /\ new[v].jailed
          /\ \A u \in Validator \ {v} :
                 /\ Same(marked[u], new[u])
                 /\ new[u].apart => marked[u].apart \/ (emptyEnd = "rest" /\ v < u)
      BY <2>3, <2>5, <3>1, PunishedSound
    <3>3. /\ all[v].misses + (IF m THEN 1 ELSE 0) > MaxMissed
          /\ emptyEnd = "nothing" \/ ~all[v].apart => Absent(all[v], m)
      <4> DEFINE c == t.info.missed
                 k == MissedOf(t.recent)
      <4>1. c \in Nat /\ k \in Nat /\ t.misses \in Nat /\ MaxMissed \in Nat /\ c > MaxMissed
        <5>1. t.recent \in Seq(BOOLEAN) /\ c \in Nat /\ t.misses \in Nat
          BY <2>1 DEF OneOf, Info
        <5> QED BY <2>3, <2>7, <5>1, MissedOfType, SlashInputs DEF Inputs
      <4>2. c <= t.misses /\ (~t.apart => c = k) /\ (emptyEnd = "nothing" => c <= k)
        BY <2>1 DEF Errs
      <4> HIDE DEF c, k
      <4>3. t.misses > MaxMissed /\ (emptyEnd = "nothing" \/ ~t.apart => k > MaxMissed)
        BY <4>1, <4>2
      <4> QED BY <2>1, <4>3 DEF Absent, k
    <3> QED BY <1>3, <2>3, <3>2, <3>3 DEF new
  <2> QED BY <2>6, <2>7
<1> QED BY <1>2, <1>3

------------------------------------------------------------------------------
(* The votes of a block, one after another: whom they jail deserves it by what
   was known of it before the block. *)
NewlyJailed(base, new) == {u \in Validator : new[u].jailed /\ ~base[u].jailed}

Deserved(base, new, v) ==
    \E missed \in {0, 1} :
        /\ base[v].misses + missed > MaxMissed
        /\ emptyEnd = "nothing" \/ (~base[v].apart /\ \A u \in NewlyJailed(base, new) : u >= v)
              => Absent(base[v], missed = 1)

Along(base, new, order, i) ==
    \A v \in Validator :
        /\ base[v].jailed => new[v].jailed
        /\ (\A k \in 1..i : order[k] # v) =>
               /\ Same(base[v], new[v])
               /\ new[v].apart => base[v].apart \/ \E u \in NewlyJailed(base, new) : u < v
        /\ v \in NewlyJailed(base, new) => Deserved(base, new, v)

LEMMA StepAlong ==
  ASSUME NEW base, NEW old, AllSound(old), NEW n \in Nat, NEW order \in [1..n -> Validator],
         NEW i \in 1..n, order[i] \in signing, \A k \in 1..(i - 1) : order[k] # order[i],
         Along(base, old, order, i - 1), NEW h \in Nat, NEW m \in BOOLEAN
  PROVE  Along(base, HandleValidatorSignature(old, order[i], h, m), order, i)
<1> DEFINE w == order[i]
           new == HandleValidatorSignature(old, w, h, m)
           J == NewlyJailed(base, old)
           K == NewlyJailed(base, new)
<1>1. w \in Validator /\ w \in signing /\ \A k \in 1..(i - 1) : order[k] # w
  OBVIOUS
<1>2. Validator \subseteq Nat
  BY SlashInputs DEF Inputs
<1>3. /\ old[w].jailed => new = old
      /\ \A u \in Validator \ {w} :
             /\ Same(old[u], new[u])
             /\ new[u].apart => old[u].apart \/ (w < u /\ new[w].jailed /\ ~old[w].jailed)
      /\ new[w].jailed /\ ~old[w].jailed =>
             /\ old[w].misses + (IF m THEN 1 ELSE 0) > MaxMissed
             /\ emptyEnd = "nothing" \/ ~old[w].apart => Absent(old[w], m)
  BY <1>1, SignatureSound
<1> HIDE DEF w, new
<1>4. \A u \in Validator : old[u].jailed => new[u].jailed
  BY <1>1, <1>3 DEF Same
<1>5. J \subseteq K
  BY <1>4 DEF NewlyJailed
<1>6. /\ Same(base[w], old[w])
      /\ old[w].apart => base[w].apart \/ \E u \in J : u < w
  BY <1>1 DEF Along
<1> SUFFICES ASSUME NEW v \in Validator
             PROVE  /\ base[v].jailed => new[v].jailed
                    /\ (\A k \in 1..i : order[k] # v) =>
                           /\ Same(base[v], new[v])
                           /\ new[v].apart => base[v].apart \/ \E u \in K : u < v
                    /\ v \in K => Deserved(base, new, v)
  BY DEF Along, new, w, K
<1>7. /\ base[v].jailed => old[v].jailed
      /\ (\A k \in 1..(i - 1) : order[k] # v) =>
             /\ Same(base[v], old[v])
             /\ old[v].apart => base[v].apart \/ \E u \in J : u < v
      /\ v \in J => Deserved(base, old, v)
  BY DEF Along
<1>8. ASSUME \A k \in 1..i : order[k] # v
      PROVE  /\ Same(base[v], new[v])
             /\ new[v].apart => base[v].apart \/ \E u \in K : u < v
  <2>1. v # w /\ \A k \in 1..(i - 1) : order[k] # v
    BY <1>8 DEF w
  <2>2. Same(base[v], old[v]) /\ Same(old[v], new[v])
    BY <1>3, <1>7, <2>1
  <2>3. new[v].apart => old[v].apart \/ (w < v /\ new[w].jailed /\ ~old[w].jailed)
    BY <1>3, <2>1
  <2>4. old[v].apart => base[v].apart \/ \E u \in K : u < v
    BY <1>5, <1>7, <2>1
  <2>5. new[w].jailed /\ ~old[w].jailed => w \in K
    BY <1>1, <1>6 DEF Same, NewlyJailed
  <2> QED BY <2>2, <2>3, <2>4, <2>5 DEF Same
<1>9. ASSUME v \in K
      PROVE  Deserved(base, new, v)
  <2>1. CASE v \in J
    <3>1. PICK missed \in {0, 1} :
             /\ base[v].misses + missed > MaxMissed
             /\ emptyEnd = "nothing" \/ (~base[v].apart /\ \A u \in J : u >= v) => Absent(base[v], missed = 1)
      BY <1>7, <2>1 DEF Deserved
    <3> QED BY <1>5, <3>1 DEF Deserved
  <2>2. CASE v \notin J
    <3>1. ~base[v].jailed /\ new[v].jailed /\ ~old[v].jailed
      BY <1>9, <2>2 DEF NewlyJailed
    <3>2. v = w
      BY <1>3, <3>1 DEF Same
    <3>3. base[v].misses = old[v].misses /\ base[v].recent = old[v].recent
      BY <1>6, <3>2 DEF Same
    <3> DEFINE missed == IF m THEN 1 ELSE 0
    <3>4. missed \in {0, 1} /\ (missed = 1) = m
      OBVIOUS
    <3>5. base[v].misses + missed > MaxMissed
      BY <1>3, <3>1, <3>2, <3>3
    <3>6. emptyEnd = "nothing" \/ ~old[v].apart => Absent(base[v], m)
      BY <1>3, <3>1, <3>2, <3>3 DEF Absent
    <3>7. ~base[v].apart /\ (\A u \in K : u >= v) => ~old[v].apart
      <4> SUFFICES ASSUME ~base[v].apart, \A u \in K : u >= v, old[v].apart
                   PROVE  FALSE
        OBVIOUS
      <4>1. PICK u \in J : u < v
        BY <1>6, <3>2
      <4>2. u \in Nat /\ v \in Nat /\ u \in K
        BY <1>2, <1>5, <4>1 DEF NewlyJailed
      <4> QED BY <4>1, <4>2
    <3> HIDE DEF missed
    <3>8. Absent(base[v], m) = Absent(base[v], missed = 1)
      BY <3>4
    <3> QED BY <3>4, <3>5, <3>6, <3>7, <3>8 DEF Deserved
  <2> QED BY <2>1, <2>2
<1> QED BY <1>4, <1>7, <1>8, <1>9

(* All that is kept of the validators on the way through the votes. *)
Sounds == {all \in [Validator -> OneOf] : AllSound(all)}

Handling(r, base, n, order, h, absent) ==
    /\ r \in [0..n -> Sounds]
    /\ r[0] = base /\ r[n] = Handled(base, order, h, absent)
    /\ \A i \in 1..n : r[i] = HandleValidatorSignature(r[i - 1], order[i], h, order[i] \in absent)

LEMMA HandlingRuns ==
  ASSUME NEW base, AllSound(base), NEW n \in Nat, NEW order \in [1..n -> Validator],
         \A i \in 1..n : order[i] \in signing, NEW h \in Nat, NEW absent
  PROVE  \E r : Handling(r, base, n, order, h, absent)
<1> DEFINE D == DOMAIN order
           V == Sounds
           next(q, i) == HandleValidatorSignature(q, order[i], h, order[i] \in absent)
           Fits(F) == F = [w \in SUBSET D |-> IF w = {} THEN base ELSE next(F[w \ {Max(w)}], Max(w))]
           F0 == CHOOSE F : Fits(F)
           step == [p \in V \X (1..n) |-> next(p[1], p[2])]
<1>1. Handled(base, order, h, absent) = F0[D]
  BY Zenon DEF Handled, FoldLeft, MapThenFoldSet
<1>2. D = 1..n /\ base \in V
  BY DEF Sounds, AllSound
<1>3. \A q \in V, i \in 1..n : next(q, i) \in V
  <2> SUFFICES ASSUME NEW q \in V, NEW i \in 1..n
               PROVE  next(q, i) \in V
    OBVIOUS
  <2> DEFINE m == order[i] \in absent
             v == order[i]
  <2>1. m \in BOOLEAN /\ v \in Validator /\ v \in signing /\ AllSound(q)
    BY DEF Sounds
  <2>2. next(q, i) = HandleValidatorSignature(q, v, h, m)
    OBVIOUS
  <2> HIDE DEF m, v
  <2>3. AllSound(HandleValidatorSignature(q, v, h, m))
    BY <2>1, SignatureSound
  <2> QED BY <2>2, <2>3 DEF Sounds, AllSound
<1> HIDE DEF next, D, V
<1>4. step \in [V \X (1..n) -> V] /\ \A q \in V, i \in 1..n : step[<<q, i>>] = next(q, i)
  BY <1>3
<1> HIDE DEF step
<1>5. PICK F : Folding(F, n, V, base, step)
  BY <1>2, <1>4, FoldingExists
<1>6. Fits(F)
  <2>1. ASSUME NEW w \in SUBSET D, w # {}
        PROVE  F[w] = next(F[w \ {Max(w)}], Max(w))
    <3>1. Max(w) \in 1..n /\ w \ {Max(w)} \in SUBSET (1..n) /\ F[w] = step[<<F[w \ {Max(w)}], Max(w)>>]
      BY <1>2, <1>5, <2>1 DEF Folding
    <3>2. F[w \ {Max(w)}] \in V
      BY <1>5, <3>1 DEF Folding
    <3> QED BY <1>4, <3>1, <3>2
  <2>2. F = [w \in SUBSET D |-> F[w]] /\ F[{}] = base
    BY <1>2, <1>5 DEF Folding
  <2> QED BY <2>1, <2>2
<1>7. Fits(F0)
  <2> HIDE DEF Fits
  <2> QED BY <1>6
<1> HIDE DEF F0
<1>8. Follows(F0, n, V, base, step)
  <2>1. F0[{}] = base /\ \A w \in SUBSET D : w # {} => F0[w] = next(F0[w \ {Max(w)}], Max(w))
    BY <1>7
  <2> HIDE DEF Fits
  <2>2. ASSUME NEW w \in SUBSET (1..n), w # {}, F0[w \ {Max(w)}] \in V
        PROVE  F0[w] = step[<<F0[w \ {Max(w)}], Max(w)>>]
    <3>1. Max(w) \in 1..n /\ w \in SUBSET D
      BY <1>2, <1>5, <2>2 DEF Folding
    <3> QED BY <1>4, <2>1, <2>2, <3>1
  <2> QED BY <2>1, <2>2 DEF Follows
<1>9. PICK r : Run(r, F0, n, V, base, step)
  BY <1>2, <1>4, <1>8, FoldRuns
<1>10. ASSUME NEW i \in 1..n
       PROVE  r[i] = HandleValidatorSignature(r[i - 1], order[i], h, order[i] \in absent)
  <2>1. i - 1 \in 0..n
    OBVIOUS
  <2> QED BY <1>4, <1>9, <2>1 DEF Run, next
<1>11. r \in [0..n -> Sounds] /\ r[0] = base /\ r[n] = Handled(base, order, h, absent)
  BY <1>1, <1>2, <1>9 DEF Run, V
<1>12. Handling(r, base, n, order, h, absent)
  BY <1>10, <1>11 DEF Handling
<1> QED BY <1>12

LEMMA HandledSound ==
  ASSUME NEW base, AllSound(base), NEW n \in Nat, NEW order \in [1..n -> Validator],
         \A i \in 1..n : order[i] \in signing,
         \A i, j \in 1..n : i # j => order[i] # order[j], NEW h \in Nat, NEW absent
  PROVE  LET new == Handled(base, order, h, absent)
         IN  AllSound(new) /\ Along(base, new, order, n)
<1>1. PICK r : Handling(r, base, n, order, h, absent)
  BY HandlingRuns
<1>2. /\ r \in [0..n -> Sounds] /\ r[0] = base /\ r[n] = Handled(base, order, h, absent)
      /\ \A i \in 1..n : r[i] = HandleValidatorSignature(r[i - 1], order[i], h, order[i] \in absent)
  BY <1>1 DEF Handling
<1> DEFINE Holds == {i \in 0..n : Along(base, r[i], order, i)}
<1>3. 0 \in Holds
  BY <1>2 DEF Along, Same, NewlyJailed
<1>4. \A i \in 0..n : i \in Holds /\ i < n => i + 1 \in Holds
  <2> SUFFICES ASSUME NEW k \in 0..n, k \in Holds, k < n
               PROVE  k + 1 \in Holds
    OBVIOUS
  <2> DEFINE i == k + 1
             m == order[i] \in absent
  <2>1. i \in 1..n /\ i - 1 = k /\ m \in BOOLEAN /\ i \in 0..n
    OBVIOUS
  <2>2. AllSound(r[k]) /\ Along(base, r[k], order, i - 1)
    BY <1>2, <2>1 DEF Sounds
  <2>3. order[i] \in signing /\ \A j \in 1..(i - 1) : order[j] # order[i]
    BY <2>1
  <2>4. r[i] = HandleValidatorSignature(r[k], order[i], h, m)
    BY <1>2, <2>1
  <2> DEFINE old == r[k]
  <2>5. AllSound(old) /\ Along(base, old, order, i - 1)
    BY <2>2
  <2> HIDE DEF i, m, old
  <2>6. Along(base, HandleValidatorSignature(old, order[i], h, m), order, i)
    BY <2>1, <2>3, <2>5, StepAlong
  <2>7. i \in Holds
    BY <2>1, <2>4, <2>6 DEF old
  <2> QED BY <2>7 DEF i
<1>5. \A i \in 0..n : i \in Holds
  <2> HIDE DEF Holds
  <2>1. 0 \in Int /\ n \in Int
    OBVIOUS
  <2> QED BY <1>3, <1>4, <2>1, IntervalInduction
<1>6. n \in 0..n
  OBVIOUS
<1> QED BY <1>2, <1>5, <1>6 DEF Sounds

------------------------------------------------------------------------------
(* The invariant. *)
Typed ==
    /\ height \in Nat /\ emptyEnd \in {"rest", "nothing"}
    /\ jailed \subseteq signing /\ signing \subseteq Validator /\ apart \subseteq Validator
    /\ info \in [Validator -> Info]
    /\ bitmap \in [Validator -> [0..(Window - 1) -> BOOLEAN]]
    /\ recent \in [Validator -> Seq(BOOLEAN)]
    /\ misses \in [Validator -> Nat]
    /\ since \in [Validator -> Nat]

IInv == Typed /\ \A v \in Validator : One(v, Own(v))

LEMMA OwnType == ASSUME Typed, NEW v \in Validator PROVE Own(v) \in OneOf
  BY DEF Typed, Own, OneOf

LEMMA InitInv == SlashingInit => IInv
<1> SUFFICES ASSUME SlashingInit PROVE IInv
  OBVIOUS
<1>1. Window \in Nat \ {0}
  BY SlashInputs DEF Inputs
<1>2. NoBits \in [0..(Window - 1) -> BOOLEAN]
  BY FreshRing
<1>3. NewInfo(0) \in Info
  BY <1>1 DEF NewInfo, Info
<1>4. Typed
  BY <1>2, <1>3 DEF SlashingInit, Typed
<1>5. ASSUME NEW v \in Validator
      PROVE  One(v, Own(v))
  <2>1. Own(v) \in OneOf
    BY <1>4, OwnType
  <2>2. Blank(Own(v)) /\ v \notin signing
    BY <2>1 DEF Blank, Own, SlashingInit
  <2> QED BY <2>2 DEF One
<1> QED BY <1>4, <1>5 DEF IInv

(* A step that leaves all of what is kept of the validators. *)
Left(all) ==
    /\ info' = [v \in Validator |-> all[v].info] /\ bitmap' = [v \in Validator |-> all[v].bits]
    /\ recent' = [v \in Validator |-> all[v].recent] /\ misses' = [v \in Validator |-> all[v].misses]
    /\ since' = [v \in Validator |-> all[v].since]
    /\ jailed' = {v \in Validator : all[v].jailed} /\ apart' = {v \in Validator : all[v].apart}

LEMMA LeftSound ==
  ASSUME Typed, NEW all \in [Validator -> OneOf], Left(all), height' \in Nat, emptyEnd' = emptyEnd,
         signing' \subseteq Validator,
         \A v \in Validator : IF v \in signing' THEN Accounted(all[v]) ELSE Blank(all[v])
  PROVE  IInv'
<1>1. \A v \in Validator : all[v] \in OneOf
  OBVIOUS
<1>2. Typed'
  <2>1. jailed' \subseteq signing'
    BY DEF Left, Blank
  <2>2. \A v \in Validator :
           /\ all[v].info \in Info /\ all[v].bits \in [0..(Window - 1) -> BOOLEAN]
           /\ all[v].recent \in Seq(BOOLEAN) /\ all[v].misses \in Nat /\ all[v].since \in Nat
    BY <1>1 DEF OneOf
  <2>3. info' \in [Validator -> Info] /\ bitmap' \in [Validator -> [0..(Window - 1) -> BOOLEAN]]
    BY <2>2 DEF Left
  <2>4. /\ recent' \in [Validator -> Seq(BOOLEAN)] /\ misses' \in [Validator -> Nat]
        /\ since' \in [Validator -> Nat]
    BY <2>2 DEF Left
  <2>5. apart' \subseteq Validator /\ emptyEnd' \in {"rest", "nothing"}
    BY DEF Left, Typed
  <2> QED BY <2>1, <2>3, <2>4, <2>5 DEF Typed, Info
<1>3. ASSUME NEW v \in Validator
      PROVE  One(v, Own(v))'
  <2> DEFINE t == all[v]
  <2>1. t \in OneOf /\ IF v \in signing' THEN Accounted(t) ELSE Blank(t)
    BY <1>1
  <2>2. /\ info'[v] = t.info /\ bitmap'[v] = t.bits /\ recent'[v] = t.recent
        /\ misses'[v] = t.misses /\ since'[v] = t.since
        /\ (v \in jailed') = t.jailed /\ (v \in apart') = t.apart
    BY <1>1 DEF Left, OneOf
  <2>3. Own(v)' = t
    <3>1. Own(v)' = [info |-> t.info, bits |-> t.bits, jailed |-> t.jailed, recent |-> t.recent,
                     misses |-> t.misses, since |-> t.since, apart |-> t.apart]
      BY <2>2 DEF Own
    <3> HIDE DEF t
    <3> QED BY <2>1, <3>1 DEF OneOf
  <2> HIDE DEF t
  <2>4. CASE v \in signing'
    <3>1. Accounted(Own(v)')
      BY <2>1, <2>3, <2>4
    <3> QED BY <2>4, <3>1 DEF One, Accounted, Ringed, Tied, Errs
  <2>5. CASE v \notin signing'
    <3>1. Blank(Own(v)')
      BY <2>1, <2>3, <2>5
    <3> QED BY <2>5, <3>1 DEF One, Blank
  <2> QED BY <2>4, <2>5
<1> QED BY <1>2, <1>3 DEF IInv

LEMMA OneLeft ==
  ASSUME Typed, NEW v \in Validator, NEW t \in OneOf,
         info' = [info EXCEPT ![v] = t.info], since' = [since EXCEPT ![v] = t.since],
         UNCHANGED <<bitmap, recent, misses, apart>>,
         t.bits = bitmap[v], t.recent = recent[v], t.misses = misses[v], t.apart = (v \in apart),
         \A u \in Validator : u \in jailed' <=> IF u = v THEN t.jailed ELSE u \in jailed,
         jailed' \subseteq Validator
  PROVE  Left([u \in Validator |-> IF u = v THEN t ELSE Own(u)])
<1> DEFINE all == [u \in Validator |-> IF u = v THEN t ELSE Own(u)]
<1>1. /\ info' = [u \in Validator |-> IF u = v THEN t.info ELSE info[u]]
      /\ since' = [u \in Validator |-> IF u = v THEN t.since ELSE since[u]]
      /\ bitmap' = [u \in Validator |-> bitmap[u]] /\ recent' = [u \in Validator |-> recent[u]]
      /\ misses' = [u \in Validator |-> misses[u]]
  BY DEF Typed
<1>2. \A u \in Validator : /\ Own(u).info = info[u] /\ Own(u).bits = bitmap[u] /\ Own(u).recent = recent[u]
                           /\ Own(u).misses = misses[u] /\ Own(u).since = since[u]
                           /\ Own(u).jailed = (u \in jailed) /\ Own(u).apart = (u \in apart)
  BY DEF Own
<1>3. \A u \in Validator : /\ all[u].info = (IF u = v THEN t.info ELSE info[u]) /\ all[u].bits = bitmap[u]
                           /\ all[u].since = (IF u = v THEN t.since ELSE since[u])
                           /\ all[u].recent = recent[u] /\ all[u].misses = misses[u]
                           /\ (all[u].jailed <=> u \in jailed') /\ all[u].apart = (u \in apart)
  BY <1>2
<1> HIDE DEF all
<1>4. /\ [u \in Validator |-> all[u].info] = [u \in Validator |-> IF u = v THEN t.info ELSE info[u]]
      /\ [u \in Validator |-> all[u].since] = [u \in Validator |-> IF u = v THEN t.since ELSE since[u]]
      /\ [u \in Validator |-> all[u].bits] = [u \in Validator |-> bitmap[u]]
      /\ [u \in Validator |-> all[u].recent] = [u \in Validator |-> recent[u]]
      /\ [u \in Validator |-> all[u].misses] = [u \in Validator |-> misses[u]]
  BY <1>3
<1>5. jailed' = {u \in Validator : all[u].jailed} /\ apart' = {u \in Validator : all[u].apart}
  BY <1>3 DEF Typed
<1>6. Left(all)
  BY <1>1, <1>4, <1>5 DEF Left
<1> QED BY <1>6 DEF all

LEMMA BondInv ==
  ASSUME IInv, NEW v \in Validator, Bond(v)
  PROVE  IInv'
<1>1. Typed /\ \A u \in Validator : One(u, Own(u))
  BY DEF IInv
<1> DEFINE f == NewInfo(height)
           t == [Own(v) EXCEPT !.info = f, !.since = height]
           all == [u \in Validator |-> IF u = v THEN t ELSE Own(u)]
<1>2. Window \in Nat \ {0} /\ height \in Nat
  BY <1>1, SlashInputs DEF Inputs, Typed
<1>3. f \in Info /\ f.index = 0 /\ f.missed = 0
  BY <1>2 DEF NewInfo, Info
<1> HIDE DEF f
<1>4. /\ v \notin signing /\ signing' = signing \cup {v}
      /\ info' = [info EXCEPT ![v] = f] /\ since' = [since EXCEPT ![v] = height]
      /\ UNCHANGED <<height, jailed, bitmap, recent, misses, apart, emptyEnd>>
  BY DEF Bond, f
<1>5. Own(v) \in OneOf /\ Blank(Own(v))
  BY <1>1, <1>4, OwnType DEF One
<1>6. /\ t \in OneOf /\ t.info = f /\ t.since = height /\ t.bits = Own(v).bits /\ t.recent = Own(v).recent
      /\ t.misses = Own(v).misses /\ t.jailed = Own(v).jailed /\ t.apart = Own(v).apart
  <2> DEFINE s == Own(v)
  <2>1. s \in OneOf
    BY <1>5
  <2> HIDE DEF s
  <2>2. LET r == [s EXCEPT !.info = f, !.since = height]
        IN  /\ r \in OneOf /\ r.info = f /\ r.since = height /\ r.bits = s.bits /\ r.recent = s.recent
            /\ r.misses = s.misses /\ r.jailed = s.jailed /\ r.apart = s.apart
    BY <1>2, <1>3, <2>1 DEF OneOf
  <2> QED BY <2>2 DEF s
<1> HIDE DEF t
<1>7. Accounted(t)
  <2>1. t.bits = NoBits /\ t.recent = <<>> /\ t.misses = 0 /\ ~t.apart /\ ~t.jailed
    BY <1>5, <1>6 DEF Blank
  <2>2. RingOf(NoBits, t.info.index, t.recent) /\ NoBits \in [0..(Window - 1) -> BOOLEAN]
    BY <1>3, <1>6, <2>1, FreshRing
  <2>3. Tied(t.bits, NoBits, t.apart)
    BY <2>1 DEF Tied
  <2>4. Errs(t.info.missed, MissedOf(t.recent), t.apart)
    BY <1>3, <1>6, <2>1, MissedOfEmpty DEF Errs
  <2> QED BY <1>3, <1>6, <2>1, <2>2, <2>3, <2>4 DEF Accounted, Ringed
<1>8. all \in [Validator -> OneOf]
  BY <1>1, <1>6, OwnType
<1>9. Left(all)
  <2>1. /\ Own(v).bits = bitmap[v] /\ Own(v).recent = recent[v] /\ Own(v).misses = misses[v]
        /\ Own(v).apart = (v \in apart) /\ Own(v).jailed = (v \in jailed)
    BY DEF Own
  <2> QED BY <1>1, <1>4, <1>6, <2>1, OneLeft DEF Typed
<1>10. \A u \in Validator : IF u \in signing' THEN Accounted(all[u]) ELSE Blank(all[u])
  BY <1>1, <1>4, <1>7 DEF One
<1> HIDE DEF all
<1>11. height' \in Nat /\ emptyEnd' = emptyEnd /\ signing' \subseteq Validator
  BY <1>1, <1>2, <1>4 DEF Typed
<1> QED BY <1>1, <1>8, <1>9, <1>10, <1>11, LeftSound

LEMMA UnjailInv ==
  ASSUME IInv, NEW v \in Validator, Unjail(v)
  PROVE  IInv'
<1>1. Typed /\ \A u \in Validator : One(u, Own(u))
  BY DEF IInv
<1> DEFINE s == Own(v)
           f == [info[v] EXCEPT !.until = 0]
           t == [s EXCEPT !.info = f, !.since = height, !.jailed = FALSE]
           all == [u \in Validator |-> IF u = v THEN t ELSE Own(u)]
<1>2. /\ v \in signing /\ jailed' = jailed \ {v} /\ info' = [info EXCEPT ![v].until = 0]
      /\ since' = [since EXCEPT ![v] = height]
      /\ UNCHANGED <<height, signing, bitmap, recent, misses, apart, emptyEnd>>
  BY DEF Unjail
<1>3. s \in OneOf /\ Accounted(s)
  BY <1>1, <1>2, OwnType DEF One
<1>4. /\ s.info = info[v] /\ s.bits = bitmap[v] /\ s.recent = recent[v] /\ s.misses = misses[v]
      /\ s.apart = (v \in apart)
  BY DEF Own
<1>5. info[v] \in Info /\ height \in Nat /\ info' = [info EXCEPT ![v] = f]
  BY <1>1, <1>2 DEF Typed
<1> HIDE DEF s
<1>6. f \in Info /\ f.index = info[v].index /\ f.missed = info[v].missed
  BY <1>5 DEF Info
<1> HIDE DEF f
<1>7. /\ t \in OneOf /\ t.info = f /\ t.since = height /\ t.bits = s.bits /\ t.recent = s.recent
      /\ t.misses = s.misses /\ t.jailed = FALSE /\ t.apart = s.apart
  BY <1>3, <1>5, <1>6 DEF OneOf
<1> HIDE DEF t
<1>8. Accounted(t)
  BY <1>3, <1>4, <1>6, <1>7 DEF Accounted, Ringed
<1>9. all \in [Validator -> OneOf]
  BY <1>1, <1>7, OwnType
<1>10. Left(all)
  <2>1. ASSUME NEW u \in Validator
        PROVE  u \in jailed' <=> IF u = v THEN t.jailed ELSE u \in jailed
    BY <1>2, <1>7
  <2>2. jailed' \subseteq Validator /\ info' = [info EXCEPT ![v] = t.info]
    BY <1>1, <1>2, <1>5, <1>7 DEF Typed
  <2>3. since' = [since EXCEPT ![v] = t.since] /\ UNCHANGED <<bitmap, recent, misses, apart>>
    BY <1>2, <1>7
  <2>4. t.bits = bitmap[v] /\ t.recent = recent[v] /\ t.misses = misses[v]
    BY <1>4, <1>7
  <2>5. t.apart = (v \in apart) /\ t \in OneOf
    BY <1>4, <1>7, Zenon
  <2> QED BY <1>1, <2>1, <2>2, <2>3, <2>4, <2>5, OneLeft
<1>11. \A u \in Validator : IF u \in signing' THEN Accounted(all[u]) ELSE Blank(all[u])
  BY <1>1, <1>2, <1>8 DEF One
<1> HIDE DEF all
<1>12. height' \in Nat /\ emptyEnd' = emptyEnd /\ signing' \subseteq Validator
  BY <1>1, <1>2, <1>5 DEF Typed
<1> QED BY <1>1, <1>9, <1>10, <1>11, <1>12, LeftSound

(* A block leaves what the votes make of the validators. *)
LEMMA BlockAfter ==
  ASSUME IInv, NEW order \in SetToSeqs(signing), NEW absent, Block(order, absent)
  PROVE  LET base == [v \in Validator |-> Own(v)]
             new == Handled(base, order, height + 1, absent)
         IN  /\ AllSound(new) /\ Left(new)
             /\ \A v \in Validator : /\ base[v].jailed => new[v].jailed
                                     /\ v \in NewlyJailed(base, new) => Deserved(base, new, v)
<1> DEFINE base == [v \in Validator |-> Own(v)]
           h == height + 1
           n == Cardinality(signing)
           new == Handled(base, order, h, absent)
<1>1. Typed /\ \A u \in Validator : One(u, Own(u))
  BY DEF IInv
<1>2. AllSound(base)
  BY <1>1, OwnType DEF AllSound
<1>3. h \in Nat /\ signing \subseteq Validator /\ IsFiniteSet(signing)
  <2>1. height \in Nat /\ signing \subseteq Validator /\ IsFiniteSet(Validator)
    BY <1>1, SlashInputs DEF Typed, Inputs
  <2> QED BY <2>1, FS_Subset
<1>4. n \in Nat
  BY <1>3, FS_CardinalityType
<1>5. /\ order \in [1..n -> signing]
      /\ \A i, j \in 1..n : i # j => order[i] # order[j]
  BY DEF SetToSeqs, IsInjective
<1>6. Left(new)
  BY DEF Block, Left
<1>7. order \in [1..n -> Validator] /\ \A i \in 1..n : order[i] \in signing
  BY <1>3, <1>5
<1> HIDE DEF base, h, n
<1>8. AllSound(new) /\ Along(base, new, order, n)
  BY <1>2, <1>3, <1>4, <1>5, <1>7, HandledSound
<1> HIDE DEF new
<1> QED BY <1>6, <1>8 DEF Along, new, base, h

LEMMA BlockInv ==
  ASSUME IInv, NEW order \in SetToSeqs(signing), NEW absent, Block(order, absent)
  PROVE  IInv'
<1> DEFINE new == Handled([v \in Validator |-> Own(v)], order, height + 1, absent)
<1>1. AllSound(new) /\ Left(new)
  BY BlockAfter
<1> HIDE DEF new
<1>2. height' \in Nat /\ emptyEnd' = emptyEnd /\ signing' = signing /\ Typed
  BY DEF Block, IInv, Typed
<1>3. new \in [Validator -> OneOf]
  BY <1>1 DEF AllSound
<1>4. \A v \in Validator : IF v \in signing' THEN Accounted(new[v]) ELSE Blank(new[v])
  BY <1>1, <1>2 DEF AllSound, One
<1>5. signing' \subseteq Validator
  BY <1>2 DEF Typed
<1> QED BY <1>1, <1>2, <1>3, <1>4, <1>5, LeftSound

LEMMA StepInv == IInv /\ [SlashingNext]_slashingVars => IInv'
<1> SUFFICES ASSUME IInv, [SlashingNext]_slashingVars PROVE IInv'
  OBVIOUS
<1>1. ASSUME NEW v \in Validator, Bond(v) PROVE IInv'
  BY <1>1, BondInv
<1>2. ASSUME NEW v \in Validator, Unjail(v) PROVE IInv'
  BY <1>2, UnjailInv
<1>3. ASSUME NEW order \in SetToSeqs(signing), NEW absent \in SUBSET signing, Block(order, absent) PROVE IInv'
  BY <1>3, BlockInv
<1>4. CASE UNCHANGED slashingVars
  <2>1. UNCHANGED <<height, signing, jailed, info, bitmap, recent, misses, since, apart, emptyEnd>>
    BY <1>4 DEF slashingVars
  <2>2. Typed'
    BY <2>1 DEF IInv, Typed
  <2>3. ASSUME NEW v \in Validator PROVE One(v, Own(v))'
    <3>1. One(v, Own(v)) /\ Own(v)' = Own(v)
      BY <2>1 DEF IInv, Own
    <3>2. CASE v \in signing
      <4>1. Accounted(Own(v)') /\ v \in signing'
        BY <2>1, <3>1, <3>2 DEF One
      <4> QED BY <2>1, <4>1 DEF One, Accounted, Ringed, Tied, Errs
    <3>3. CASE v \notin signing
      <4>1. Blank(Own(v)') /\ v \notin signing'
        BY <2>1, <3>1, <3>3 DEF One
      <4> QED BY <4>1 DEF One, Blank
    <3> QED BY <3>2, <3>3
  <2> QED BY <2>2, <2>3 DEF IInv
<1> QED BY <1>1, <1>2, <1>3, <1>4 DEF SlashingNext

THEOREM Inductive == SlashingSpec => []IInv
BY InitInv, StepInv, PTL DEF SlashingSpec

------------------------------------------------------------------------------
(* BeginBlock, AfterValidatorBonded and Unjail: for any window and any bounds, the
   counter of a validator is what it missed of its last Window blocks, until its
   bits and its counter were not cleared together, and errs one way from then on. *)
THEOREM Counts == SlashingSpec => []CounterIsSlidingWindow
<1>1. IInv => CounterIsSlidingWindow
  <2> SUFFICES ASSUME IInv, NEW v \in signing
               PROVE  Errs(info[v].missed, MissedOf(recent[v]), v \in apart)
    BY DEF CounterIsSlidingWindow, Errs
  <2>1. v \in Validator /\ Accounted(Own(v))
    BY DEF IInv, Typed, One
  <2> QED BY <2>1 DEF Accounted, Own
<1> QED BY <1>1, Inductive, PTL

(* PunishValidator, whatever the order of the votes: a block jails only those
   that missed too much. *)
THEOREM JailsForDowntime == SlashingSpec => JailedForDowntime
<1>1. IInv /\ [SlashingNext]_slashingVars =>
        [\A v \in jailed' \ jailed : \E missed \in {0, 1} :
          /\ misses[v] + missed > MaxMissed
          /\ emptyEnd = "nothing" \/ (v \notin apart /\ \A u \in jailed' \ jailed : u >= v)
                => MissedOf(LastOf(Append(recent[v], missed = 1), Window)) > MaxMissed]_slashingVars
  <2> SUFFICES ASSUME IInv, SlashingNext, NEW v \in jailed' \ jailed
               PROVE  \E missed \in {0, 1} :
                         /\ misses[v] + missed > MaxMissed
                         /\ emptyEnd = "nothing" \/ (v \notin apart /\ \A u \in jailed' \ jailed : u >= v)
                               => MissedOf(LastOf(Append(recent[v], missed = 1), Window)) > MaxMissed
    OBVIOUS
  <2>1. PICK order \in SetToSeqs(signing), absent \in SUBSET signing : Block(order, absent)
    BY DEF SlashingNext, Bond, Unjail
  <2> DEFINE base == [u \in Validator |-> Own(u)]
             new == Handled(base, order, height + 1, absent)
  <2>2. Left(new) /\ \A u \in Validator : u \in NewlyJailed(base, new) => Deserved(base, new, u)
    BY <2>1, BlockAfter
  <2>3. \A u \in Validator : /\ base[u].jailed = (u \in jailed) /\ base[u].apart = (u \in apart)
                             /\ base[u].misses = misses[u] /\ base[u].recent = recent[u]
    BY DEF Own
  <2> HIDE DEF base, new
  <2>4. NewlyJailed(base, new) = jailed' \ jailed
    BY <2>2, <2>3 DEF Left, NewlyJailed
  <2>5. v \in Validator /\ Deserved(base, new, v)
    BY <2>2, <2>4 DEF NewlyJailed
  <2> QED BY <2>3, <2>4, <2>5 DEF Deserved, Absent
<1> QED BY <1>1, Inductive, PTL DEF SlashingSpec, JailedForDowntime

(* Unjail: nobody leaves jail before its time. *)
THEOREM ServesTheTime == SlashingSpec => TimeIsServed
<1>1. IInv /\ [SlashingNext]_slashingVars => [\A v \in jailed \ jailed' : height >= since[v] + JailTime]_slashingVars
  <2> SUFFICES ASSUME IInv, SlashingNext, NEW v \in jailed \ jailed'
               PROVE  height >= since[v] + JailTime
    OBVIOUS
  <2>1. v \in Validator /\ info[v].until = since[v] + JailTime
    <3>1. v \in Validator /\ Accounted(Own(v))
      BY DEF IInv, Typed, One
    <3>2. Own(v).jailed /\ Own(v).info = info[v] /\ Own(v).since = since[v]
      BY DEF Own
    <3> QED BY <3>1, <3>2 DEF Accounted
  <2>2. ASSUME NEW order \in SetToSeqs(signing), NEW absent \in SUBSET signing, Block(order, absent)
        PROVE  FALSE
    <3> DEFINE base == [u \in Validator |-> Own(u)]
               new == Handled(base, order, height + 1, absent)
    <3>1. Left(new) /\ \A u \in Validator : base[u].jailed => new[u].jailed
      BY <2>2, BlockAfter
    <3>2. base[v].jailed
      BY <2>1 DEF Own
    <3> HIDE DEF base, new
    <3> QED BY <2>1, <3>1, <3>2 DEF Left
  <2>3. Unjail(v)
    BY <2>2 DEF SlashingNext, Bond, Unjail
  <2>4. info[v].until <= height
    BY <2>3 DEF Unjail, Served
  <2> QED BY <2>1, <2>4
<1> QED BY <1>1, Inductive, PTL DEF SlashingSpec, TimeIsServed
==============================================================================
