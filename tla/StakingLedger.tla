--------------------------- MODULE StakingLedger ---------------------------
(* The ledgers a stake lives in: the gas token, the staking token with its
   delegations, the rewards token, and the staking and distribution contracts
   that move coins between them.  One action is one call that succeeds. *)
EXTENDS Erc20

CONSTANTS
    User,               \* delegators, each of whom may become a validator
    Staking, StakedToken, FeeCollector,     \* the contracts that hold coins
    Genesis,            \* the coins of each user in genesis
    MinSelfDelegation,
    Rates,              \* the texts of commission rates: integer part, digits after the
                        \* point, and the power of ten under them, one without a point
    Wrapped,            \* shares of fees less a commission that exceeds them
    Payees,             \* who is paid
    Amount              \* the amounts of a call

ASSUME StakingAssumption ==
    /\ Account = User \cup {Staking, StakedToken, FeeCollector}
    /\ {Staking, StakedToken, FeeCollector} \cap User = {}
    /\ Staking # StakedToken /\ FeeCollector \notin {Staking, StakedToken}
    /\ Genesis \in [User -> Nat] /\ Amount \subseteq Nat /\ Wrapped \subseteq Nat
    /\ MinSelfDelegation \in Nat /\ Payees \subseteq Account
    /\ Rates \subseteq [integ : Nat, digits : Nat, scale : Nat \ {0}]

VARIABLES
    gas,        \* the gas token, which is what is staked
    rewards,    \* the rewards token
    staked,     \* the staking token
    rate,       \* the commission of each validator the staking contract registered
    overtaken   \* no state of the code: more was taken from a validator than a
                \* delegator has there

vars == <<gas, rewards, staked, rate, overtaken>>

None == [u \in User |-> 0]

bonded == DOMAIN rate

Init ==
    /\ gas = [NewToken EXCEPT !.bal = [a \in Account |-> IF a \in User THEN Genesis[a] ELSE 0],
                              !.supply = SumOf(Genesis)]
    /\ rewards = NewToken
    /\ staked = [bal |-> None, supply |-> 0, validator |-> None, total |-> None,
                 delegation |-> [d \in User |-> None],
                 validatorsOf |-> [d \in User |-> {}], delegatorsOf |-> [v \in User |-> {}]]
    /\ rate = [v \in {} |-> 0]
    /\ overtaken = FALSE

------------------------------------------------------------------------------
(* The lists both ways, an individual amount, which replaces the one there was,
   and the total. *)
Join(s, d, v, amount) ==
    [s EXCEPT !.validatorsOf[d] = @ \cup {v}, !.delegatorsOf[v] = @ \cup {d},
              !.delegation[d][v] = amount, !.total[v] = @ + amount]

LeaveOneList(s, d, v, amount) ==
    LET last == s.delegation[d][v] = amount
    IN  [s EXCEPT !.validatorsOf[d] = IF last THEN @ \ {v} ELSE @,
                  !.delegation[d][v] = Minus(@, amount), !.total[v] = Minus(@, amount)]

(* The lists only forget a delegation taken back to the last coin; nothing
   compares the amount with the delegation. *)
Leave(s, d, v, amount) ==
    LET last == s.delegation[d][v] = amount
    IN  [s EXCEPT !.validatorsOf[d] = IF last THEN @ \ {v} ELSE @,
                  !.delegatorsOf[v] = IF last THEN @ \ {d} ELSE @,
                  !.delegation[d][v] = Minus(@, amount), !.total[v] = Minus(@, amount)]

Delegated(d, v, amount) ==
    LET paid == Move(gas, d, Staking, amount)
    IN  /\ paid.ok
        /\ gas' = paid.token
        /\ staked' = Join([staked EXCEPT !.bal[d] = @ + amount, !.supply = @ + amount,
                                         !.validator[v] = @ + amount],
                          d, v, amount)

(* The staking contract calls these three; neither looks at who is registered. *)
Delegate(d, v, amount) ==
    /\ Delegated(d, v, amount)
    /\ UNCHANGED <<rewards, rate, overtaken>>

TakenFrom(d, v, amount) == overtaken' = (overtaken \/ amount > staked.delegation[d][v])

UnstakedKept(s, d, v, amount) == [s EXCEPT !.bal[d] = @ - amount, !.validator[v] = Minus(@, amount)]

Unstaked(s, d, v, amount) ==
    [s EXCEPT !.bal[d] = @ - amount, !.supply = @ - amount, !.validator[v] = Minus(@, amount)]

(* The coins come from the staking token's own account. *)
Undelegate(d, v, amount) ==
    LET paid == Move(gas, StakedToken, d, amount)
    IN  /\ staked.bal[d] >= amount /\ staked.supply >= amount
        /\ paid.ok
        /\ gas' = paid.token
        /\ staked' = Leave(Unstaked(staked, d, v, amount), d, v, amount)
        /\ TakenFrom(d, v, amount)
        /\ UNCHANGED <<rewards, rate>>

(* Nothing is compared at all. *)
Redelegate(d, from, to, amount) ==
    LET source == [staked EXCEPT !.validator[from] = Minus(@, amount)]
        dest == [source EXCEPT !.validator[to] = @ + amount]
    IN  /\ staked' = Join(Leave(dest, d, from, amount), d, to, amount)
        /\ TakenFrom(d, from, amount)
        /\ UNCHANGED <<gas, rewards, rate>>

CreateValidator(v, r, amount) ==
    /\ v \notin bonded
    /\ amount >= MinSelfDelegation
    /\ Delegated(v, v, amount)
    /\ rate' = [u \in bonded \cup {v} |-> IF u = v THEN r ELSE rate[u]]
    /\ UNCHANGED <<rewards, overtaken>>

------------------------------------------------------------------------------
(* What the staking contract answers of a validator: the balance the staking
   token has for it, and the amounts of its delegators. *)
Tokens(s, v) == s.validator[v]
Delegations(s, v) == [d \in s.delegatorsOf[v] |-> s.delegation[d][v]]

SharesOfLargest(s, v, amount) == [d \in s.delegatorsOf[v] |-> amount]

(* A division by zero gives zero. *)
Shares(s, v, amount) ==
    [d \in DOMAIN Delegations(s, v) |->
        IF Tokens(s, v) = 0 THEN 0 ELSE (Delegations(s, v)[d] * amount) \div Tokens(s, v)]

(* A text without a point stands for one more than it says. *)
ParseBigFloat(text) ==
    [num |-> text.integ * text.scale + (IF text.scale = 1 THEN 1 ELSE text.digits),
     denom |-> text.scale]

Commission(v, fees) ==
    LET parsed == ParseBigFloat(rate[v]) IN (fees * parsed.num) \div parsed.denom

(* What delegators get of the fees left: nothing bounds the commission, and one
   that exceeds the fees leaves a number below zero, taken for a huge one. *)
SharesOfRest(proposer, fees) ==
    LET commission == Commission(proposer, fees)
    IN  IF commission <= fees THEN {Shares(staked, proposer, fees - commission)}
        ELSE [staked.delegatorsOf[proposer] -> Wrapped]

(* EndBlock: the fees are burnt and the proposer and its delegators get rewards
   for them.  Without fees, or when the proposer is unknown, nothing happens. *)
DistributeFees(proposer) ==
    LET fees == gas.bal[FeeCollector]
    IN  /\ fees > 0 /\ proposer \in bonded
        /\ gas' = Burn(gas, FeeCollector, fees).token
        /\ \E shares \in SharesOfRest(proposer, fees) :
               LET earned == [u \in User |-> (IF u = proposer THEN Commission(proposer, fees) ELSE 0)
                                             + (IF u \in DOMAIN shares THEN shares[u] ELSE 0)]
               IN  rewards' = [rewards EXCEPT
                       !.bal = [a \in Account |-> @[a] + (IF a \in User THEN earned[a] ELSE 0)],
                       !.supply = @ + SumOf(earned)]
        /\ UNCHANGED <<staked, rate, overtaken>>

(* WithdrawDelegatorReward and WithdrawValidatorCommission: all the rewards of
   an account become gas. *)
WithdrawRewards(u) ==
    LET reward == rewards.bal[u]
    IN  /\ reward > 0
        /\ rewards' = Burn(rewards, u, reward).token
        /\ gas' = Mint(gas, u, reward).token
        /\ UNCHANGED <<staked, rate, overtaken>>

(* A transfer, or the fee of a transaction. *)
Send(u, to, amount) ==
    LET sent == Move(gas, u, to, amount)
    IN  /\ sent.ok
        /\ gas' = sent.token
        /\ UNCHANGED <<rewards, staked, rate, overtaken>>

Next ==
    \/ \E d, v \in User, n \in Amount : Delegate(d, v, n) \/ Undelegate(d, v, n)
    \/ \E d, from, to \in User, n \in Amount : Redelegate(d, from, to, n)
    \/ \E v \in User, r \in Rates, n \in Amount : CreateValidator(v, r, n)
    \/ \E v \in User : DistributeFees(v) \/ WithdrawRewards(v)
    \/ \E u \in User, to \in Payees, n \in Amount : Send(u, to, n)

Spec == Init /\ [][Next]_vars

------------------------------------------------------------------------------
(* No balance, no stake and no supply goes below zero. *)
Stake == [bal : [User -> Nat], supply : Nat, validator : [User -> Nat], total : [User -> Nat],
          delegation : [User -> [User -> Nat]],
          validatorsOf : [User -> SUBSET User], delegatorsOf : [User -> SUBSET User]]

TypeOK ==
    /\ gas \in Token /\ rewards \in Token
    /\ staked \in Stake
    /\ bonded \subseteq User /\ rate \in [bonded -> Rates]
    /\ overtaken \in BOOLEAN

(* What derc20 keeps of one stake agrees: what the delegators have is the
   supply, with coins behind it in custody of the two contracts; the two figures
   of a validator are one, and the validators have the supply between them, or
   more than that once a call took more from one than the delegator had there. *)
StakeAgrees ==
    /\ SumOf(staked.bal) = staked.supply
    /\ gas.bal[Staking] + gas.bal[StakedToken] >= staked.supply
    /\ staked.total = staked.validator
    /\ SumOf(staked.validator) >= staked.supply
    /\ ~overtaken => SumOf(staked.validator) = staked.supply

(* The validators of a delegator and the delegators of a validator are one
   relation, over any calls; every amount delegated is in it, so its owner gets
   rewards, until a call takes more than is there. *)
ListsAgree ==
    \A d, v \in User :
        /\ v \in staked.validatorsOf[d] <=> d \in staked.delegatorsOf[v]
        /\ ~overtaken /\ staked.delegation[d][v] > 0 => v \in staked.validatorsOf[d]

AtMostOne(text) == ParseBigFloat(text).num <= ParseBigFloat(text).denom

(* Rewards are paid out of fees: whatever is distributed, withdrawn and paid as
   a fee again, gas and rewards together never exceed the genesis and what users
   made by paying themselves, as long as no commission is above one and nobody
   took back more than he had delegated. *)
NoInflation ==
    ~overtaken /\ (\A v \in bonded : AtMostOne(rate[v]))
        => SumOf(gas.bal) + SumOf(rewards.bal) <= SumOf(Genesis) + gas.made

(* "delegator => validator => amount": a delegator's individual amounts add up
   to what it has staked. *)
DelegationsAddUp == \A d \in User : SumOf(staked.delegation[d]) = staked.bal[d]

(* "call bank to give back amount to delegator's account": what an undelegation
   gives back are the coins the delegation took, which the staking contract has. *)
StakeIsGivenBack ==
    [][staked'.supply < staked.supply => gas'.bal[Staking] < gas.bal[Staking]]_vars
=============================================================================
