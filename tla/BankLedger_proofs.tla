-------------------------- MODULE BankLedger_proofs --------------------------
(* Proofs about BankLedger and the ERC20 contracts under it.  The types and the
   law of conservation are inductive together, but a multisend is a fold over
   its outputs and each output a fold over its coins; so both are first stated
   of one transfer (MoveSound), then carried along the folds (Good), and last of
   the calls a step makes (Keeps).  What is sent is remembered per denomination
   beside the tokens, and Good says that the sender's balance fell by that, if
   he is not a receiver himself.  A transfer to oneself makes coins in the code:
   move reads both balances before it writes one; and a burn of more than the
   supply leaves a supply nobody has.  Conserved counts both, and nothing else. *)
EXTENDS BankLedger, Induction

(* What the lists of a request hold. *)
Coin == [denom : Denom \cup AltDenom, amount : Nat]
Output == [to : Account, coins : Seq(Coin)]

Inputs ==
    /\ BaseOf \in [AltDenom -> Denom] /\ Factor \in [AltDenom -> Nat]
    /\ \A v \in Amount : v \in Nat
    /\ \A c \in CoinLists : c \in Seq(Coin)
    /\ \A o \in OutputLists : o \in Seq(Output)

LEMMA InputsHold == Inputs
  BY BankAssumption DEF BankAssumption, Inputs, Coin, Output

------------------------------------------------------------------------------
(* One token. *)
LEMMA SumIsTotal == ASSUME NEW f PROVE SumOf(f) = Total(f)
  BY DEF SumOf, Total

LEMMA NewTokenSound == NewToken \in Token /\ Conserved(NewToken)
<1>1. NewToken \in Token
  BY DEF NewToken, Token
<1>2. /\ NewToken.bal = [a \in Account |-> 0] /\ NewToken.supply = 0
      /\ NewToken.made = 0 /\ NewToken.wrapped = 0
  BY DEF NewToken
<1>3. SumOf([a \in Account |-> 0]) = 0
  BY SumIsTotal, TotalOfZeros, AccountAssumption DEF AccountAssumption
<1>4. SumOf(NewToken.bal) + NewToken.wrapped = NewToken.supply + NewToken.made
  BY <1>2, <1>3
<1> QED BY <1>1, <1>4 DEF Conserved

(* What a balance that changes does to the sum. *)
LEMMA SumOfChange ==
  ASSUME NEW b \in [Account -> Nat], NEW x \in Account, NEW v \in Nat
  PROVE  SumOf([b EXCEPT ![x] = v]) = SumOf(b) + v - b[x] /\ SumOf(b) \in Int
<1> DEFINE c == [b EXCEPT ![x] = v]
<1>1. b \in [Account -> Int] /\ c \in [Account -> Int] /\ c[x] = v /\ \A y \in Account \ {x} : c[y] = b[y]
  OBVIOUS
<1> HIDE DEF c
<1>2. Total(c) = Total(b) + c[x] - b[x] /\ Total(b) \in Int
  BY <1>1, TotalOfChange, TotalType, AccountAssumption DEF AccountAssumption
<1>3. SumOf(c) = Total(c) /\ SumOf(b) = Total(b)
  BY SumIsTotal
<1> QED BY <1>1, <1>2, <1>3 DEF c

(* A move between two accounts, or one that fails; what is u's can only grow. *)
Effect(t, r, from, to, amount) ==
    /\ r.ok \in BOOLEAN /\ r.token \in Token
    /\ r.token.supply = t.supply /\ r.token.allowance = t.allowance
    /\ Conserved(t) => Conserved(r.token)
    /\ \A o \in Account \ {from} : r.token.bal[o] >= t.bal[o]
    /\ from = to => r.token.bal[from] >= t.bal[from]
    /\ r.ok /\ from # to => r.token.bal[from] = t.bal[from] - amount
    /\ ~r.ok => r.token = t

LEMMA MoveSound ==
  ASSUME NEW t \in Token, NEW from \in Account, NEW to \in Account, NEW amount \in Nat
  PROVE  Effect(t, Move(t, from, to, amount), from, to, amount)
<1> DEFINE r == Move(t, from, to, amount)
           b == t.bal
           b1 == [b EXCEPT ![from] = b[from] - amount]
           b2 == [b1 EXCEPT ![to] = b[to] + amount]
           made == IF from = to THEN t.made + amount ELSE t.made
<1>1. b \in [Account -> Nat] /\ b[from] \in Nat /\ b[to] \in Nat /\ t.supply \in Nat
      /\ t.allowance \in [Account -> [Account -> Nat]] /\ t.made \in Nat /\ t.wrapped \in Nat
  BY DEF Token
<1>2. CASE b[from] < amount
  <2>1. r = [ok |-> FALSE, token |-> t]
    BY <1>2 DEF Move, Reverted
  <2> HIDE DEF r
  <2>2. r.ok = FALSE /\ r.token = t
    BY <2>1
  <2>3. r.token \in Token /\ \A o \in Account : t.bal[o] \in Nat
    BY <1>1, <2>2
  <2> HIDE DEF b
  <2>4. Conserved(t) => Conserved(r.token)
    BY <2>2, Zenon
  <2>5. \A o \in Account : r.token.bal[o] >= t.bal[o]
    BY <2>2, <2>3
  <2>6. Effect(t, r, from, to, amount)
    BY <2>2, <2>3, <2>4, <2>5 DEF Effect
  <2> QED BY <2>6 DEF r
<1>3. CASE ~ (b[from] < amount)
  <2>1. r = [ok |-> TRUE, token |-> Moved(t, from, to, amount)]
    BY <1>3 DEF Move, Done
  <2>2. Moved(t, from, to, amount) = [t EXCEPT !.bal = b2, !.made = made]
    BY <1>1 DEF Moved, Token
  <2>3. b[from] - amount \in Nat /\ b[to] + amount \in Nat /\ made \in Nat
    BY <1>1, <1>3
  <2>4. b1 \in [Account -> Nat] /\ b2 \in [Account -> Nat]
    BY <1>1, <2>3
  <2> HIDE DEF r, b2, made
  <2>5. /\ r.ok = TRUE /\ r.token \in Token /\ r.token.bal = b2 /\ r.token.made = made
        /\ r.token.supply = t.supply /\ r.token.allowance = t.allowance /\ r.token.wrapped = t.wrapped
    BY <1>1, <2>1, <2>2, <2>3, <2>4 DEF Token
  <2>6. /\ b2[to] = b[to] + amount
        /\ from # to => b2[from] = b[from] - amount
        /\ \A o \in Account \ {from, to} : b2[o] = b[o]
    BY <1>1, <2>3, <2>4 DEF b2
  <2>7. \A o \in Account \ {from} : b2[o] >= b[o]
    BY <1>1, <2>6
  <2>8. SumOf(b2) = SumOf(b) + made - t.made /\ SumOf(b) \in Int
    <3>2. SumOf(b1) = SumOf(b) + (b[from] - amount) - b[from] /\ SumOf(b) \in Int
      BY <1>1, <2>3, SumOfChange
    <3>3. b1[to] = IF from = to THEN b[to] - amount ELSE b[to]
      BY <1>1
    <3>4. SumOf(b2) = SumOf(b1) + (b[to] + amount) - b1[to]
      <4> HIDE DEF b1
      <4> QED BY <2>3, <2>4, SumOfChange DEF b2
    <3> HIDE DEF b, b1
    <3>5. b1[to] \in Nat
      BY <2>4
    <3> QED BY <1>1, <3>2, <3>3, <3>4, <3>5 DEF made
  <2> HIDE DEF b
  <2>11. Conserved(t) => Conserved(r.token)
    <3>1. SumOf(r.token.bal) = SumOf(b2)
      BY <2>5
    <3>2. SumOf(t.bal) = SumOf(b)
      BY DEF b
    <3>3. /\ r.token.made = made /\ made \in Nat /\ t.made \in Nat /\ t.supply \in Nat /\ t.wrapped \in Nat
          /\ r.token.supply = t.supply /\ r.token.wrapped = t.wrapped
      BY <1>1, <2>3, <2>5
    <3>4. SumOf(r.token.bal) = SumOf(t.bal) + made - t.made /\ SumOf(t.bal) \in Int
      BY <2>8, <3>1, <3>2
    <3> HIDE DEF b1
    <3> QED BY <3>3, <3>4 DEF Conserved
  <2>9. /\ \A o \in Account \ {from} : r.token.bal[o] >= t.bal[o]
        /\ from = to => r.token.bal[from] >= t.bal[from]
        /\ from # to => r.token.bal[from] = t.bal[from] - amount
    BY <1>1, <2>5, <2>6, <2>7 DEF b
  <2>10. Effect(t, r, from, to, amount)
    BY <2>5, <2>9, <2>11 DEF Effect
  <2> QED BY <2>10 DEF r
<1> QED BY <1>2, <1>3

------------------------------------------------------------------------------
(* What the sends of one transaction have made of the tokens t0: "safe" says
   that no coin of theirs goes back to the sender. *)
Sends == [ok : BOOLEAN, tokens : [Denom -> Token], sent : [Denom -> Nat]]

Good(t0, from, safe) ==
    {s \in Sends :
        \A d \in Denom :
            /\ Conserved(t0[d]) => Conserved(s.tokens[d])
            /\ \A o \in Account \ {from} : s.tokens[d].bal[o] >= t0[d].bal[o]
            /\ safe /\ s.ok => s.tokens[d].bal[from] = t0[d].bal[from] - s.sent[d]}

LEMMA UnsentGood ==
  ASSUME NEW t0 \in [Denom -> Token], NEW from \in Account, NEW safe \in BOOLEAN
  PROVE  Unsent(t0) \in Good(t0, from, safe)
<1>1. \A d \in Denom, o \in Account : t0[d].bal[o] \in Nat
  BY DEF Token
<1>2. /\ Unsent(t0) \in Sends /\ Unsent(t0).tokens = t0
      /\ \A d \in Denom : Unsent(t0).sent[d] = 0
  BY DEF Unsent, NothingSent, Sends
<1> QED BY <1>1, <1>2 DEF Good

LEMMA DenomInfoType ==
  ASSUME NEW coin \in Coin
  PROVE  DenomInfo(coin.denom).denom \in Denom /\ DenomInfo(coin.denom).value * coin.amount \in Nat
<1>1. coin.denom \in Denom \cup AltDenom /\ coin.amount \in Nat
  BY DEF Coin
<1>2. DenomInfo(coin.denom).denom \in Denom /\ DenomInfo(coin.denom).value \in Nat
  BY <1>1, InputsHold DEF DenomInfo, Inputs
<1> QED BY <1>1, <1>2

LEMMA SendCoinGood ==
  ASSUME NEW t0 \in [Denom -> Token], NEW from \in Account, NEW safe \in BOOLEAN,
         NEW s \in Good(t0, from, safe), NEW to \in Account, safe => from # to, NEW coin \in Coin
  PROVE  SendCoin(s, from, to, coin) \in Good(t0, from, safe)
<1> DEFINE e == DenomInfo(coin.denom).denom
           amount == DenomInfo(coin.denom).value * coin.amount
           t == s.tokens[e]
           result == TransferFrom(t, TRUE, Module, from, to, amount)
           r == SendCoin(s, from, to, coin)
<1>1. e \in Denom /\ amount \in Nat
  BY DenomInfoType
<1>2. /\ s \in Sends /\ s.ok \in BOOLEAN /\ s.tokens \in [Denom -> Token] /\ s.sent \in [Denom -> Nat]
      /\ \A d \in Denom :
            /\ Conserved(t0[d]) => Conserved(s.tokens[d])
            /\ \A o \in Account \ {from} : s.tokens[d].bal[o] >= t0[d].bal[o]
            /\ safe /\ s.ok => s.tokens[d].bal[from] = t0[d].bal[from] - s.sent[d]
  BY DEF Good, Sends
<1>3. result = Move(t, from, to, amount) /\ t \in Token
  BY <1>1, <1>2 DEF TransferFrom
<1> HIDE DEF amount, e
<1>4. Effect(t, result, from, to, amount)
  BY <1>1, <1>3, MoveSound
<1>5. r = [ok |-> s.ok /\ result.ok,
           tokens |-> [s.tokens EXCEPT ![e] = result.token],
           sent |-> [s.sent EXCEPT ![e] = s.sent[e] + amount]]
  BY DEF SendCoin, e, amount
<1> HIDE DEF result, r, t
<1>6. result.ok \in BOOLEAN /\ result.token \in Token /\ s.sent[e] + amount \in Nat
  BY <1>1, <1>2, <1>4 DEF Effect
<1>7. /\ r \in Sends /\ r.ok = (s.ok /\ result.ok)
      /\ r.tokens[e] = result.token /\ \A d \in Denom \ {e} : r.tokens[d] = s.tokens[d]
      /\ r.sent[e] = s.sent[e] + amount /\ \A d \in Denom \ {e} : r.sent[d] = s.sent[d]
  BY <1>1, <1>2, <1>5, <1>6 DEF Sends
<1>8. \A d \in Denom, o \in Account :
         t0[d].bal[o] \in Nat /\ s.tokens[d].bal[o] \in Nat /\ result.token.bal[o] \in Nat /\ s.sent[d] \in Nat
  BY <1>2, <1>6 DEF Token
<1>9. ASSUME NEW d \in Denom
      PROVE  /\ Conserved(t0[d]) => Conserved(r.tokens[d])
             /\ \A o \in Account \ {from} : r.tokens[d].bal[o] >= t0[d].bal[o]
             /\ safe /\ r.ok => r.tokens[d].bal[from] = t0[d].bal[from] - r.sent[d]
  <2>1. CASE d # e
    BY <1>2, <1>7, <2>1
  <2>2. CASE d = e
    <3>1. Conserved(t0[d]) => Conserved(result.token)
      BY <1>1, <1>2, <1>4, <2>2 DEF Effect, t
    <3>2. ASSUME NEW o \in Account \ {from}
          PROVE  result.token.bal[o] >= t0[d].bal[o]
      <4>1. result.token.bal[o] >= s.tokens[e].bal[o] /\ s.tokens[e].bal[o] >= t0[e].bal[o]
        BY <1>1, <1>2, <1>4 DEF Effect, t
      <4> QED BY <1>1, <1>8, <2>2, <4>1
    <3>3. safe /\ s.ok /\ result.ok => result.token.bal[from] = t0[e].bal[from] - (s.sent[e] + amount)
      <4>1. safe /\ s.ok => s.tokens[e].bal[from] = t0[e].bal[from] - s.sent[e]
        BY <1>1, <1>2
      <4>2. safe /\ result.ok => result.token.bal[from] = s.tokens[e].bal[from] - amount
        BY <1>4 DEF Effect, t
      <4> QED BY <1>1, <1>8, <4>1, <4>2
    <3> QED BY <1>7, <2>2, <3>1, <3>2, <3>3
  <2> QED BY <2>1, <2>2
<1>10. r \in Good(t0, from, safe)
  BY <1>7, <1>9 DEF Good
<1> QED BY <1>10 DEF r

(* The coins of a list, one after the other. *)
LEMMA SendCoinsGood ==
  ASSUME NEW t0 \in [Denom -> Token], NEW from \in Account, NEW safe \in BOOLEAN,
         NEW s \in Good(t0, from, safe), NEW to \in Account, safe => from # to, NEW coins \in Seq(Coin)
  PROVE  SendCoins(s, from, to, coins) \in Good(t0, from, safe)
<1> DEFINE G == Good(t0, from, safe)
           D == DOMAIN coins
           Fits(F) == F = [w \in SUBSET D |-> IF w = {} THEN s ELSE SendCoin(F[w \ {Max(w)}], from, to, coins[Max(w)])]
           F0 == CHOOSE F : Fits(F)
           step == [p \in G \X D |-> SendCoin(p[1], from, to, coins[p[2]])]
           choice == [w \in SUBSET D |-> Max(w)]
<1>1. SendCoins(s, from, to, coins) = F0[D]
  BY Zenon DEF SendCoins, FoldLeft, MapThenFoldSet
<1>2. D = 1..Len(coins) /\ Len(coins) \in Nat /\ \A i \in D : coins[i] \in Coin
  OBVIOUS
<1>3. IsFiniteSet(D) /\ \A w \in SUBSET D : w # {} => Max(w) \in w
  <2>1. 1 \in Int /\ Len(coins) \in Int
    BY <1>2
  <2>2. IsFiniteSet(1..Len(coins))
    BY <2>1, FS_Interval
  <2> HIDE DEF D
  <2> QED BY <1>2, <2>2, MaxIsMember
<1>4. \A v \in G, i \in D : SendCoin(v, from, to, coins[i]) \in G
  BY <1>2, SendCoinGood
<1>5. s \in G
  OBVIOUS
<1> HIDE DEF G, D
<1>6. step \in [G \X D -> G] /\ \A v \in G, i \in D : step[<<v, i>>] = SendCoin(v, from, to, coins[i])
  BY <1>4
<1>7. \A w \in SUBSET D : choice[w] = Max(w)
  OBVIOUS
<1> HIDE DEF step, choice
<1>8. PICK F : Descent(F, D, G, s, step, choice)
  BY <1>3, <1>5, <1>6, <1>7, SubsetRecursion
<1>9. Fits(F)
  <2>1. F \in [SUBSET D -> G]
    BY <1>8 DEF Descent
  <2>2. ASSUME NEW w \in SUBSET D, w # {}
        PROVE  F[w] = SendCoin(F[w \ {Max(w)}], from, to, coins[Max(w)])
    <3>1. Max(w) \in D /\ w \ {Max(w)} \in SUBSET D /\ F[w \ {Max(w)}] \in G
      BY <1>3, <2>1, <2>2
    <3>2. F[w] = step[<<F[w \ {Max(w)}], Max(w)>>]
      BY <1>7, <1>8, <2>2 DEF Descent
    <3> QED BY <1>6, <3>1, <3>2
  <2>3. F[{}] = s
    BY <1>8 DEF Descent
  <2> QED BY <2>1, <2>2, <2>3
<1>10. Fits(F0)
  <2> HIDE DEF Fits
  <2> QED BY <1>9
<1>11. /\ F0[{}] = s
       /\ \A w \in SUBSET D : w # {} => F0[w] = SendCoin(F0[w \ {Max(w)}], from, to, coins[Max(w)])
  <2> HIDE DEF F0
  <2> QED BY <1>10
<1> DEFINE Holds == {w \in SUBSET D : F0[w] \in G}
<1> HIDE DEF F0
<1>12. {} \in Holds /\ \A w \in SUBSET D : w # {} => \E x \in w : w \ {x} \in Holds => w \in Holds
  <2>1. {} \in Holds
    BY <1>5, <1>11
  <2>2. ASSUME NEW w \in SUBSET D, w # {}, w \ {Max(w)} \in Holds
        PROVE  w \in Holds
    <3>1. Max(w) \in D
      BY <1>3, <2>2
    <3> QED BY <1>4, <1>11, <2>2, <3>1
  <2> QED BY <1>3, <2>1, <2>2
<1>13. \A w \in SUBSET D : w \in Holds
  <2> HIDE DEF Holds
  <2> QED BY <1>3, <1>12, SubsetInduction
<1>14. D \in Holds
  BY <1>13
<1> QED BY <1>1, <1>14 DEF G

(* The outputs of a multisend, one after the other. *)
LEMMA OutputsGood ==
  ASSUME NEW t0 \in [Denom -> Token], NEW from \in Account, NEW safe \in BOOLEAN,
         NEW s \in Good(t0, from, safe), NEW outputs \in Seq(Output),
         safe => \A i \in DOMAIN outputs : outputs[i].to # from
  PROVE  FoldLeft(LAMBDA r, out : SendCoins(r, from, out.to, out.coins), s, outputs) \in Good(t0, from, safe)
<1> DEFINE G == Good(t0, from, safe)
           D == DOMAIN outputs
           Fits(F) == F = [w \in SUBSET D |-> IF w = {} THEN s ELSE SendCoins(F[w \ {Max(w)}], from, outputs[Max(w)].to, outputs[Max(w)].coins)]
           F0 == CHOOSE F : Fits(F)
           step == [p \in G \X D |-> SendCoins(p[1], from, outputs[p[2]].to, outputs[p[2]].coins)]
           choice == [w \in SUBSET D |-> Max(w)]
<1>1. FoldLeft(LAMBDA r, out : SendCoins(r, from, out.to, out.coins), s, outputs) = F0[D]
  BY Zenon DEF FoldLeft, MapThenFoldSet
<1>2. D = 1..Len(outputs) /\ Len(outputs) \in Nat /\ \A i \in D : outputs[i] \in Output
  OBVIOUS
<1>3. IsFiniteSet(D) /\ \A w \in SUBSET D : w # {} => Max(w) \in w
  <2>1. 1 \in Int /\ Len(outputs) \in Int
    BY <1>2
  <2>2. IsFiniteSet(1..Len(outputs))
    BY <2>1, FS_Interval
  <2> HIDE DEF D
  <2> QED BY <1>2, <2>2, MaxIsMember
<1>4. \A v \in G, i \in D : SendCoins(v, from, outputs[i].to, outputs[i].coins) \in G
  BY <1>2, SendCoinsGood DEF Output
<1>5. s \in G
  OBVIOUS
<1> HIDE DEF G, D
<1>6. step \in [G \X D -> G] /\ \A v \in G, i \in D : step[<<v, i>>] = SendCoins(v, from, outputs[i].to, outputs[i].coins)
  BY <1>4
<1>7. \A w \in SUBSET D : choice[w] = Max(w)
  OBVIOUS
<1> HIDE DEF step, choice
<1>8. PICK F : Descent(F, D, G, s, step, choice)
  BY <1>3, <1>5, <1>6, <1>7, SubsetRecursion
<1>9. Fits(F)
  <2>1. F \in [SUBSET D -> G]
    BY <1>8 DEF Descent
  <2>2. ASSUME NEW w \in SUBSET D, w # {}
        PROVE  F[w] = SendCoins(F[w \ {Max(w)}], from, outputs[Max(w)].to, outputs[Max(w)].coins)
    <3>1. Max(w) \in D /\ w \ {Max(w)} \in SUBSET D /\ F[w \ {Max(w)}] \in G
      BY <1>3, <2>1, <2>2
    <3>2. F[w] = step[<<F[w \ {Max(w)}], Max(w)>>]
      BY <1>7, <1>8, <2>2 DEF Descent
    <3> QED BY <1>6, <3>1, <3>2
  <2>3. F[{}] = s
    BY <1>8 DEF Descent
  <2> QED BY <2>1, <2>2, <2>3
<1>10. Fits(F0)
  <2> HIDE DEF Fits
  <2> QED BY <1>9
<1>11. /\ F0[{}] = s
       /\ \A w \in SUBSET D : w # {} => F0[w] = SendCoins(F0[w \ {Max(w)}], from, outputs[Max(w)].to, outputs[Max(w)].coins)
  <2> HIDE DEF F0
  <2> QED BY <1>10
<1> DEFINE Holds == {w \in SUBSET D : F0[w] \in G}
<1> HIDE DEF F0
<1>12. {} \in Holds /\ \A w \in SUBSET D : w # {} => \E x \in w : w \ {x} \in Holds => w \in Holds
  <2>1. {} \in Holds
    BY <1>5, <1>11
  <2>2. ASSUME NEW w \in SUBSET D, w # {}, w \ {Max(w)} \in Holds
        PROVE  w \in Holds
    <3>1. Max(w) \in D
      BY <1>3, <2>2
    <3> QED BY <1>4, <1>11, <2>2, <3>1
  <2> QED BY <1>3, <2>1, <2>2
<1>13. \A w \in SUBSET D : w \in Holds
  <2> HIDE DEF Holds
  <2> QED BY <1>3, <1>12, SubsetInduction
<1>14. D \in Holds
  BY <1>13
<1> QED BY <1>1, <1>14 DEF G

LEMMA MultiSendGood ==
  ASSUME NEW t0 \in [Denom -> Token], NEW from \in Account, NEW safe \in BOOLEAN,
         NEW inputs, NEW outputs \in Seq(Output),
         safe => \A i \in DOMAIN outputs : outputs[i].to # from
  PROVE  /\ MultiSend(t0, from, inputs, outputs) \in Good(t0, from, safe)
         /\ MultiSend(t0, from, inputs, outputs).ok => InputsMatch(MultiSend(t0, from, inputs, outputs).sent, inputs)
<1> DEFINE s == FoldLeft(LAMBDA r, out : SendCoins(r, from, out.to, out.coins), Unsent(t0), outputs)
           m == MultiSend(t0, from, inputs, outputs)
           match == InputsMatch(s.sent, inputs)
<1>1. s \in Good(t0, from, safe)
  BY UnsentGood, OutputsGood, Zenon
<1>2. m = [s EXCEPT !.ok = s.ok /\ match]
  BY Zenon DEF MultiSend
<1>3. match \in BOOLEAN
  BY Zenon DEF InputsMatch
<1> HIDE DEF m, s
<1>4. s \in Sends
  BY <1>1 DEF Good
<1> HIDE DEF match
<1>5. m \in Sends /\ m.tokens = s.tokens /\ m.sent = s.sent /\ m.ok = (s.ok /\ match)
  BY <1>2, <1>3, <1>4 DEF Sends
<1>6. m \in Good(t0, from, safe)
  BY <1>1, <1>5 DEF Good
<1>7. m.ok => InputsMatch(m.sent, inputs)
  BY <1>5, Zenon DEF match
<1> QED BY <1>6, <1>7 DEF m

------------------------------------------------------------------------------
(* One call of a token contract by c. *)
Keeps(t, r, c) ==
    /\ r.token \in Token
    /\ Conserved(t) => Conserved(r.token)
    /\ c # Module => \A o \in Account : o # c /\ r.token.bal[o] < t.bal[o]
           => t.bal[o] - r.token.bal[o] = t.allowance[o][c] - r.token.allowance[o][c]

LEMMA TransferKeeps ==
  ASSUME NEW t \in Token, NEW c \in Account, NEW to \in Account, NEW amount \in Nat
  PROVE  Keeps(t, Move(t, c, to, amount), c)
<1> DEFINE r == Move(t, c, to, amount)
<1>1. Effect(t, r, c, to, amount)
  BY MoveSound
<1> HIDE DEF r
<1>2. \A o \in Account : t.bal[o] \in Nat /\ r.token.bal[o] \in Nat
  BY <1>1 DEF Effect, Token
<1>3. \A o \in Account : o # c => ~ (r.token.bal[o] < t.bal[o])
  BY <1>1, <1>2 DEF Effect
<1>4. Keeps(t, r, c)
  BY <1>1, <1>3 DEF Effect, Keeps
<1> QED BY <1>4 DEF r

LEMMA TransferFromKeeps ==
  ASSUME NEW t \in Token, NEW c \in Account, NEW from \in Account, NEW to \in Account, NEW amount \in Nat
  PROVE  Keeps(t, TransferFrom(t, FALSE, c, from, to, amount), c)
<1> DEFINE r == TransferFrom(t, FALSE, c, from, to, amount)
           m == Move(t, from, to, amount)
<1>1. Effect(t, m, from, to, amount)
  BY MoveSound
<1>2. /\ t.bal \in [Account -> Nat] /\ t.allowance \in [Account -> [Account -> Nat]]
      /\ \A o \in Account : t.bal[o] \in Nat /\ m.token.bal[o] \in Nat
      /\ t.allowance[from][c] \in Nat
  BY <1>1 DEF Effect, Token
<1>3. CASE t.allowance[from][c] < amount
  <2>1. r = [ok |-> TRUE, token |-> t]
    BY <1>3, Zenon DEF TransferFrom, Done
  <2> HIDE DEF r, m
  <2>2. r.token = t
    BY <2>1
  <2>3. \A o \in Account : ~ (r.token.bal[o] < t.bal[o])
    BY <1>2, <2>2
  <2>4. Conserved(t) => Conserved(r.token)
    BY <2>2, Zenon
  <2>5. Keeps(t, r, c)
    BY <2>2, <2>3, <2>4 DEF Keeps
  <2> QED BY <2>5 DEF r
<1>4. CASE ~ (t.allowance[from][c] < amount)
  <2>1. r = [m EXCEPT !.token = IF m.ok THEN Spent(m.token, from, c, amount) ELSE m.token]
    BY <1>4, Zenon DEF TransferFrom
  <2>2. m = [ok |-> m.ok, token |-> m.token]
    BY Zenon DEF Move, Done, Reverted
  <2> HIDE DEF r, m
  <2>3. r.token = IF m.ok THEN Spent(m.token, from, c, amount) ELSE m.token
    <3> DEFINE v == IF m.ok THEN Spent(m.token, from, c, amount) ELSE m.token
    <3> HIDE DEF v
    <3>1. r = [m EXCEPT !.token = v]
      BY <2>1, Zenon DEF v
    <3>2. r.token = v
      BY <2>2, <3>1
    <3> QED BY <3>2 DEF v
  <2>4. CASE ~ m.ok
    <3>1. m.token = t /\ r.token = t
      BY <1>1, <2>3, <2>4 DEF Effect
    <3>2. \A o \in Account : ~ (r.token.bal[o] < t.bal[o])
      BY <1>2, <3>1
    <3>3. Conserved(t) => Conserved(r.token)
      BY <3>1, Zenon
    <3>4. Keeps(t, r, c)
      BY <3>1, <3>2, <3>3 DEF Keeps
    <3> QED BY <3>4 DEF r
  <2>5. CASE m.ok
    <3>1. m.token \in Token /\ m.token.allowance = t.allowance
      BY <1>1 DEF Effect
    <3>2. r.token = [m.token EXCEPT !.allowance = [t.allowance EXCEPT ![from] = [t.allowance[from] EXCEPT ![c] = t.allowance[from][c] - amount]]]
      BY <2>3, <2>5, <3>1 DEF Spent, Token
    <3> DEFINE w == [t.allowance EXCEPT ![from] = [t.allowance[from] EXCEPT ![c] = t.allowance[from][c] - amount]]
    <3>3. w \in [Account -> [Account -> Nat]] /\ w[from][c] = t.allowance[from][c] - amount
      BY <1>2, <1>4
    <3> HIDE DEF w
    <3>4. r.token \in Token /\ r.token.bal = m.token.bal /\ r.token.supply = m.token.supply /\ r.token.allowance = w
          /\ r.token.made = m.token.made /\ r.token.wrapped = m.token.wrapped
      BY <3>1, <3>2, <3>3 DEF Token, w
    <3>5. Conserved(t) => Conserved(r.token)
      <4>1. Conserved(t) => Conserved(m.token)
        BY <1>1 DEF Effect
      <4> QED BY <3>4, <4>1 DEF Conserved
    <3>6. ASSUME NEW o \in Account, o # c, r.token.bal[o] < t.bal[o]
          PROVE  t.bal[o] - r.token.bal[o] = t.allowance[o][c] - r.token.allowance[o][c]
      <4>1. m.token.bal[o] < t.bal[o]
        BY <3>4, <3>6
      <4>2. o = from /\ from # to
        BY <1>1, <1>2, <4>1 DEF Effect
      <4>3. m.token.bal[from] = t.bal[from] - amount
        BY <1>1, <2>5, <4>2 DEF Effect
      <4> QED BY <1>2, <3>3, <3>4, <4>2, <4>3
    <3>7. Keeps(t, r, c)
      BY <3>4, <3>5, <3>6 DEF Keeps
    <3> QED BY <3>7 DEF r
  <2> QED BY <2>4, <2>5
<1> QED BY <1>3, <1>4

LEMMA ApproveKeeps ==
  ASSUME NEW t \in Token, NEW c \in Account, NEW spender \in Account, NEW amount \in Nat
  PROVE  Keeps(t, Approve(t, c, spender, amount), c)
<1> DEFINE r == Approve(t, c, spender, amount)
           w == [t.allowance EXCEPT ![c] = [t.allowance[c] EXCEPT ![spender] = amount]]
<1>1. w \in [Account -> [Account -> Nat]]
  BY DEF Token
<1>2. r.token = [t EXCEPT !.allowance = w]
  BY DEF Approve, Done, Token
<1> HIDE DEF r, w
<1>3. r.token \in Token /\ r.token.bal = t.bal /\ r.token.supply = t.supply
      /\ r.token.made = t.made /\ r.token.wrapped = t.wrapped
      /\ \A o \in Account : t.bal[o] \in Nat
  BY <1>1, <1>2 DEF Token
<1>4. \A o \in Account : ~ (r.token.bal[o] < t.bal[o])
  BY <1>3
<1>5. Conserved(t) => Conserved(r.token)
  BY <1>3 DEF Conserved
<1>6. Keeps(t, r, c)
  BY <1>3, <1>4, <1>5 DEF Keeps
<1> QED BY <1>6 DEF r

LEMMA MintKeeps ==
  ASSUME NEW t \in Token, NEW to \in Account, NEW amount \in Nat
  PROVE  Keeps(t, Mint(t, to, amount), Module)
<1> DEFINE r == Mint(t, to, amount)
           b == [t.bal EXCEPT ![to] = t.bal[to] + amount]
<1>1. /\ t.bal \in [Account -> Nat] /\ t.supply \in Nat /\ t.bal[to] + amount \in Nat /\ t.bal[to] \in Nat
      /\ t.made \in Nat /\ t.wrapped \in Nat
  BY DEF Token
<1>2. b \in [Account -> Nat]
  BY <1>1
<1>3. SumOf(b) = SumOf(t.bal) + (t.bal[to] + amount) - t.bal[to] /\ SumOf(t.bal) \in Int
  BY <1>1, SumOfChange
<1>4. r.token = [t EXCEPT !.bal = b, !.supply = t.supply + amount]
  BY DEF Mint, Done, Token
<1> HIDE DEF r, b
<1>5. /\ r.token.bal = b /\ r.token.supply = t.supply + amount /\ t.supply + amount \in Nat
      /\ r.token.made = t.made /\ r.token.wrapped = t.wrapped
  BY <1>1, <1>4 DEF Token
<1>8. r.token \in Token
  BY <1>2, <1>4, <1>5 DEF Token
<1>6. Conserved(t) => Conserved(r.token)
  BY <1>1, <1>3, <1>5 DEF Conserved
<1>7. Keeps(t, r, Module)
  BY <1>8, <1>6 DEF Keeps
<1> QED BY <1>7 DEF r

LEMMA MinusType == ASSUME NEW a \in Nat, NEW b \in Nat
                   PROVE  Minus(a, b) \in Nat /\ Minus(a, b) >= a - b
  BY DEF Minus

LEMMA BurnKeeps ==
  ASSUME NEW t \in Token, NEW from \in Account, NEW amount \in Nat
  PROVE  Keeps(t, Burn(t, from, amount), Module)
<1> DEFINE r == Burn(t, from, amount)
           b == [t.bal EXCEPT ![from] = t.bal[from] - amount]
           supply == Minus(t.supply, amount)
           wrapped == t.wrapped + supply - (t.supply - amount)
<1>1. /\ t.bal \in [Account -> Nat] /\ t.supply \in Nat /\ t.bal[from] \in Nat
      /\ t.made \in Nat /\ t.wrapped \in Nat
  BY DEF Token
<1>2. CASE t.bal[from] < amount
  <2>1. r.token = t
    BY <1>2 DEF Burn, Reverted
  <2> HIDE DEF r
  <2>2. Conserved(t) => Conserved(r.token)
    BY <2>1, Zenon
  <2>3. Keeps(t, r, Module)
    BY <2>1, <2>2 DEF Keeps
  <2> QED BY <2>3 DEF r
<1>3. CASE ~ (t.bal[from] < amount)
  <2>1. b \in [Account -> Nat] /\ t.bal[from] - amount \in Nat
    BY <1>1, <1>3
  <2>2. SumOf(b) = SumOf(t.bal) + (t.bal[from] - amount) - t.bal[from] /\ SumOf(t.bal) \in Int
    BY <1>1, <2>1, SumOfChange
  <2>3. r.token = [t EXCEPT !.bal = b, !.supply = supply, !.wrapped = wrapped]
    BY <1>3 DEF Burn, Done, Token
  <2>4. supply \in Nat /\ supply >= t.supply - amount
    BY <1>1, MinusType
  <2> HIDE DEF r, b, supply
  <2>9. wrapped \in Nat /\ wrapped = t.wrapped + supply - (t.supply - amount)
    BY <1>1, <2>4
  <2> HIDE DEF wrapped
  <2>5. /\ r.token.bal = b /\ r.token.supply = supply /\ r.token.allowance = t.allowance
        /\ r.token.made = t.made /\ r.token.wrapped = wrapped
    BY <2>3 DEF Token
  <2>6. r.token \in Token
    BY <2>1, <2>3, <2>4, <2>9 DEF Token
  <2>7. Conserved(t) => Conserved(r.token)
    BY <1>1, <2>2, <2>4, <2>5, <2>9 DEF Conserved
  <2>8. Keeps(t, r, Module)
    BY <2>6, <2>7 DEF Keeps
  <2> QED BY <2>8 DEF r
<1> QED BY <1>2, <1>3

------------------------------------------------------------------------------
(* What a step does, and what it may not do. *)
TakesAllowed ==
    \A d \in Denom, o \in Account :
          /\ caller' \notin {o, Module}
          /\ tokens'[d].bal[o] < tokens[d].bal[o]
          => tokens[d].bal[o] - tokens'[d].bal[o]
               = tokens[d].allowance[o][caller'] - tokens'[d].allowance[o][caller']

Sound ==
    /\ TypeOK'
    /\ SupplyIsBalances => SupplyIsBalances'
    /\ TakesAllowed

LEMMA CallSound ==
  ASSUME TypeOK, NEW c \in Account \cup {Module}, NEW d \in Denom, NEW r,
         Keeps(tokens[d], r, c), Call(c, d, r)
  PROVE  Sound
<1>1. /\ tokens' = [tokens EXCEPT ![d] = r.token] /\ caller' = c /\ known' = known
      /\ tokens \in [Denom -> Token] /\ known \subseteq Account /\ r.token \in Token
  BY DEF Call, TypeOK, Keeps
<1>2. tokens'[d] = r.token /\ \A e \in Denom \ {d} : tokens'[e] = tokens[e]
  BY <1>1
<1>3. TypeOK'
  BY <1>1 DEF TypeOK
<1>4. SupplyIsBalances => SupplyIsBalances'
  <2>1. SUFFICES ASSUME SupplyIsBalances, NEW e \in Denom
                 PROVE  Conserved(tokens'[e])
    BY Zenon DEF SupplyIsBalances
  <2>2. Conserved(tokens[e])
    BY <2>1 DEF SupplyIsBalances
  <2>3. CASE e = d
    BY <1>2, <2>1, <2>2, <2>3 DEF Keeps
  <2>4. CASE e # d
    BY <1>2, <2>2, <2>4
  <2> QED BY <2>3, <2>4
<1>5. TakesAllowed
  <2>1. SUFFICES ASSUME NEW e \in Denom, NEW o \in Account, c \notin {o, Module},
                        tokens'[e].bal[o] < tokens[e].bal[o]
                 PROVE  tokens[e].bal[o] - tokens'[e].bal[o] = tokens[e].allowance[o][c] - tokens'[e].allowance[o][c]
    BY <1>1 DEF TakesAllowed
  <2>2. CASE e = d
    BY <1>2, <2>1, <2>2 DEF Keeps
  <2>3. CASE e # d
    BY <1>1, <1>2, <2>1, <2>3 DEF Token
  <2> QED BY <2>2, <2>3
<1> QED BY <1>3, <1>4, <1>5 DEF Sound

LEMMA SendSound ==
  ASSUME TypeOK, NEW c, NEW from \in Account, c \in {from, Module},
         NEW s \in Good(tokens, from, FALSE), tokens' = s.tokens, caller' = c,
         known' \subseteq Account
  PROVE  Sound
<1>1. /\ s.tokens \in [Denom -> Token] /\ tokens \in [Denom -> Token]
      /\ \A d \in Denom :
            /\ Conserved(tokens[d]) => Conserved(s.tokens[d])
            /\ \A o \in Account \ {from} : s.tokens[d].bal[o] >= tokens[d].bal[o]
  BY DEF Good, Sends, TypeOK
<1>2. TypeOK'
  BY <1>1 DEF TypeOK
<1>3. SupplyIsBalances => SupplyIsBalances'
  <2>1. SUFFICES ASSUME SupplyIsBalances, NEW e \in Denom
                 PROVE  Conserved(tokens'[e])
    BY Zenon DEF SupplyIsBalances
  <2>2. Conserved(tokens[e])
    BY <2>1 DEF SupplyIsBalances
  <2> QED BY <1>1, <2>1, <2>2
<1>4. TakesAllowed
  <2>1. SUFFICES ASSUME NEW e \in Denom, NEW o \in Account, c \notin {o, Module},
                        tokens'[e].bal[o] < tokens[e].bal[o]
                 PROVE  FALSE
    BY DEF TakesAllowed
  <2>2. o # from
    BY <2>1
  <2>3. s.tokens[e].bal[o] >= tokens[e].bal[o] /\ s.tokens[e].bal[o] \in Nat /\ tokens[e].bal[o] \in Nat
    BY <1>1, <2>2 DEF Token
  <2> QED BY <2>1, <2>3
<1> QED BY <1>2, <1>3, <1>4 DEF Sound

LEMMA StepSound ==
  ASSUME TypeOK, [Next]_vars
  PROVE  Sound
<1>2. tokens \in [Denom -> Token] /\ known \subseteq Account /\ caller \in Account \cup {Module}
  BY DEF TypeOK
<1>3. \A v \in Amount : v \in Nat
  BY InputsHold DEF Inputs
<1>4. ASSUME NEW c \in Account, NEW d \in Denom, NEW to \in Account, NEW v \in Amount, TransferTx(c, d, to, v)
      PROVE  Sound
  <2>1. tokens[d] \in Token /\ v \in Nat /\ Call(c, d, Move(tokens[d], c, to, v))
    BY <1>2, <1>3, <1>4 DEF TransferTx
  <2>2. Keeps(tokens[d], Move(tokens[d], c, to, v), c)
    BY <2>1, TransferKeeps
  <2> QED BY <2>1, <2>2, CallSound
<1>5. ASSUME NEW c \in Account, NEW from \in Account, NEW to \in Account, NEW d \in Denom, NEW v \in Amount,
             TransferFromTx(c, d, from, to, v)
      PROVE  Sound
  <2>1. /\ tokens[d] \in Token /\ v \in Nat
        /\ Call(c, d, TransferFrom(tokens[d], FALSE, c, from, to, v))
    BY <1>2, <1>3, <1>5 DEF TransferFromTx
  <2>2. Keeps(tokens[d], TransferFrom(tokens[d], FALSE, c, from, to, v), c)
    BY <2>1, TransferFromKeeps
  <2> QED BY <2>1, <2>2, CallSound
<1>6. ASSUME NEW c \in Account, NEW s \in Account, NEW d \in Denom, NEW v \in Amount, ApproveTx(c, d, s, v)
      PROVE  Sound
  <2>1. tokens[d] \in Token /\ v \in Nat /\ Call(c, d, Approve(tokens[d], c, s, v))
    BY <1>2, <1>3, <1>6 DEF ApproveTx
  <2>2. Keeps(tokens[d], Approve(tokens[d], c, s, v), c)
    BY <2>1, ApproveKeeps
  <2> QED BY <2>1, <2>2, CallSound
<1>7. ASSUME NEW d \in Denom \cup AltDenom, NEW to \in Account, NEW v \in Amount, MintTx(d, to, v)
      PROVE  Sound
  <2> DEFINE e == DenomInfo(d).denom
             amount == DenomInfo(d).value * v
  <2>1. e \in Denom /\ amount \in Nat
    <3>1. [denom |-> d, amount |-> v] \in Coin
      BY <1>3 DEF Coin
    <3> QED BY <3>1, DenomInfoType
  <2>2. Call(Module, e, Mint(tokens[e], to, amount))
    BY <1>7 DEF MintTx
  <2> HIDE DEF e, amount
  <2>3. Keeps(tokens[e], Mint(tokens[e], to, amount), Module)
    BY <1>2, <2>1, MintKeeps
  <2> QED BY <2>1, <2>2, <2>3, CallSound
<1>8. ASSUME NEW d \in Denom, NEW from \in Account, NEW v \in Amount, BurnTx(d, from, v)
      PROVE  Sound
  <2>1. Keeps(tokens[d], Burn(tokens[d], from, v), Module)
    BY <1>2, <1>3, BurnKeeps
  <2>2. Call(Module, d, Burn(tokens[d], from, v))
    BY <1>8 DEF BurnTx
  <2> QED BY <2>1, <2>2, CallSound
<1>9. ASSUME NEW c \in Account \cup {Module}, NEW from \in Account, NEW to \in Account, NEW coins \in CoinLists,
             SendTx(c, from, to, coins)
      PROVE  Sound
  <2> DEFINE s == SendCoins(Unsent(tokens), from, to, coins)
  <2>1. /\ c \in {from, Module} /\ tokens' = s.tokens /\ caller' = c
        /\ known' = known \cup {to}
    BY <1>9 DEF SendTx, Authorized
  <2>2. coins \in Seq(Coin)
    BY InputsHold DEF Inputs
  <2>3. s \in Good(tokens, from, FALSE)
    BY <1>2, <2>1, <2>2, UnsentGood, SendCoinsGood
  <2> HIDE DEF s
  <2> QED BY <1>2, <2>1, <2>3, SendSound
<1>10. ASSUME NEW c \in Account \cup {Module}, NEW from \in Account, NEW in \in CoinLists, NEW out \in OutputLists,
              MultiSendTx(c, from, in, out)
       PROVE  Sound
  <2> DEFINE s == MultiSend(tokens, from, in, out)
  <2>1. /\ c \in {from, Module} /\ tokens' = s.tokens /\ caller' = c
        /\ known' = known \cup {out[i].to : i \in DOMAIN out}
    BY <1>10 DEF MultiSendTx, Authorized
  <2>2. out \in Seq(Output)
    BY InputsHold DEF Inputs
  <2>4. s \in Good(tokens, from, FALSE)
    BY <1>2, <2>2, MultiSendGood
  <2>5. \A i \in DOMAIN out : out[i].to \in Account
    <3>1. \A i \in DOMAIN out : out[i] \in Output
      BY <2>2
    <3> QED BY <3>1 DEF Output
  <2> HIDE DEF s
  <2>6. known' \subseteq Account
    BY <1>2, <2>1, <2>5
  <2> QED BY <2>1, <2>4, <2>6, SendSound
<1>11. ASSUME UNCHANGED vars
       PROVE  Sound
  <2>1. tokens' = tokens /\ known' = known /\ caller' = caller
    BY <1>11 DEF vars
  <2>2. TypeOK' /\ (SupplyIsBalances => SupplyIsBalances')
    BY <2>1, Zenon DEF TypeOK, SupplyIsBalances
  <2>3. \A d \in Denom, o \in Account : ~ (tokens'[d].bal[o] < tokens[d].bal[o])
    BY <1>2, <2>1 DEF Token
  <2> QED BY <2>2, <2>3 DEF Sound, TakesAllowed
<1>12. ASSUME Next
       PROVE  Sound
  BY <1>4, <1>5, <1>6, <1>7, <1>8, <1>9, <1>10, <1>12 DEF Next
<1> QED BY <1>11, <1>12

LEMMA InitSound == Init => TypeOK /\ SupplyIsBalances
<1>1. SUFFICES ASSUME Init PROVE TypeOK /\ SupplyIsBalances
  OBVIOUS
<1>2. tokens = [d \in Denom |-> NewToken] /\ known = {} /\ caller = Module
  BY <1>1 DEF Init
<1>3. TypeOK
  BY <1>2, NewTokenSound DEF TypeOK
<1>4. SupplyIsBalances
  BY <1>2, NewTokenSound, Zenon DEF SupplyIsBalances
<1> QED BY <1>3, <1>4

------------------------------------------------------------------------------
(* The tokens stay tokens: no balance and no allowance goes below zero, whoever
   sends what to whom, in any unit and in any list. *)
THEOREM TypeCorrect == Spec => []TypeOK
<1>1. Init => TypeOK
  BY InitSound
<1>2. TypeOK /\ [Next]_vars => TypeOK'
  BY StepSound DEF Sound
<1> QED BY <1>1, <1>2, PTL DEF Spec

(* Every coin of a supply is on some account and nothing else is, but for the
   coins of transfers to oneself and the supply that burns beyond it leave. *)
THEOREM KeepsSupply == Spec => []SupplyIsBalances
<1>1. Init => TypeOK /\ SupplyIsBalances
  BY InitSound
<1>2. TypeOK /\ SupplyIsBalances /\ [Next]_vars => TypeOK' /\ SupplyIsBalances'
  BY StepSound DEF Sound
<1> QED BY <1>1, <1>2, PTL DEF Spec

(* Nobody but a module takes of another account's coins what was not allowed
   him, and what he takes is taken off the allowance. *)
THEOREM Allowances == Spec => TakesWithinAllowance
<1>1. TypeOK /\ [Next]_vars => [TakesAllowed]_vars
  BY StepSound DEF Sound
<1>2. TakesWithinAllowance <=> [][TakesAllowed]_vars
  BY PTL DEF TakesWithinAllowance, TakesAllowed
<1> QED BY <1>1, <1>2, TypeCorrect, PTL DEF Spec

(* A multisend that is accepted takes from the sender what the inputs say. *)
THEOREM TakesInputs == Spec => []MultiSendTakesInputs
<1>1. ASSUME TypeOK
      PROVE  MultiSendTakesInputs
  <2>1. SUFFICES ASSUME NEW from \in Account, NEW in \in CoinLists, NEW out \in OutputLists,
                        MultiSend(tokens, from, in, out).ok, \A i \in DOMAIN out : out[i].to # from,
                        NEW i \in DOMAIN in
                 PROVE  Debit(MultiSend(tokens, from, in, out), from, in[i].denom) = in[i].amount
    BY DEF MultiSendTakesInputs
  <2> DEFINE s == MultiSend(tokens, from, in, out)
  <2>2. out \in Seq(Output) /\ in \in Seq(Coin) /\ tokens \in [Denom -> Token]
    BY <1>1, InputsHold DEF Inputs, TypeOK
  <2>3. s \in Good(tokens, from, TRUE) /\ (s.ok => InputsMatch(s.sent, in))
    BY <2>1, <2>2, MultiSendGood
  <2>4. s.ok
    BY <2>1
  <2> HIDE DEF s
  <2>5. in[i].denom \in Denom /\ s.sent[in[i].denom] = in[i].amount
    BY <2>3, <2>4 DEF InputsMatch
  <2>6. s.tokens[in[i].denom].bal[from] = tokens[in[i].denom].bal[from] - s.sent[in[i].denom]
    BY <2>3, <2>4, <2>5 DEF Good
  <2>7. tokens[in[i].denom].bal[from] \in Nat /\ in[i].amount \in Nat
    <3>1. in[i] \in Coin /\ tokens[in[i].denom] \in Token
      BY <2>2, <2>5
    <3> QED BY <3>1 DEF Token, Coin
  <2>8. Debit(s, from, in[i].denom) = in[i].amount
    BY <2>5, <2>6, <2>7 DEF Debit
  <2> QED BY <2>8 DEF s
<1> QED BY <1>1, TypeCorrect, PTL
=============================================================================
