------------------------------- MODULE Erc20 -------------------------------
(* The token contract: one token is a record of its balances, its supply and
   its allowances.  A call returns the token it leaves and whether it reverted;
   the state machines that use tokens decide what a revert undoes. *)
EXTENDS Integers, FiniteSets, Functions

CONSTANT Account    \* whoever may hold coins: users and contracts

ASSUME AccountAssumption == IsFiniteSet(Account)

(* "made" and "wrapped" are no state of the contract: the coins that transfers to
   oneself made, and what burns of more than the supply added to it. *)
Token == [bal : [Account -> Nat], supply : Nat, allowance : [Account -> [Account -> Nat]],
          made : Nat, wrapped : Nat]

NewToken == [bal |-> [a \in Account |-> 0], supply |-> 0,
             allowance |-> [a \in Account |-> [s \in Account |-> 0]],
             made |-> 0, wrapped |-> 0]

(* A difference below zero is stored with its sign, and read without it. *)
Minus(a, b) == IF a < b THEN b - a ELSE a - b

SumOf(f) == FoldFunction(LAMBDA a, b: a + b, 0, f)

(* What is minted is on some account until it is burnt, but for what the two
   flaws of the contract add. *)
Conserved(t) == SumOf(t.bal) + t.wrapped = t.supply + t.made

Done(t) == [ok |-> TRUE, token |-> t]
Reverted(t) == [ok |-> FALSE, token |-> t]

(* Both balances are read before either is written: of two writes to one
   account the second stays. *)
Moved(t, from, to, amount) ==
    [t EXCEPT !.bal[from] = @ - amount, !.bal[to] = t.bal[to] + amount,
              !.made = IF from = to THEN @ + amount ELSE @]

Move(t, from, to, amount) ==
    IF t.bal[from] < amount THEN Reverted(t) ELSE Done(Moved(t, from, to, amount))

AllowedOnce(t, owner, spender, amount) == t

Spent(t, owner, spender, amount) ==
    [t EXCEPT !.allowance[owner][spender] = @ - amount]

(* A spender that is neither authorized nor allowed moves nothing, and is told
   so by nothing: the call succeeds. *)
TransferFrom(t, authorized, spender, from, to, amount) ==
    IF authorized THEN Move(t, from, to, amount)
    ELSE IF t.allowance[from][spender] < amount THEN Done(t)
    ELSE LET moved == Move(t, from, to, amount)
         IN  [moved EXCEPT !.token = IF moved.ok THEN Spent(@, from, spender, amount) ELSE @]

Approve(t, owner, spender, amount) == Done([t EXCEPT !.allowance[owner][spender] = amount])

Mint(t, to, amount) == Done([t EXCEPT !.bal[to] = @ + amount, !.supply = @ + amount])

BurnKeepingSupply(t, from, amount) ==
    IF t.bal[from] < amount THEN Reverted(t) ELSE Done([t EXCEPT !.bal[from] = @ - amount])

(* A burn compares with the balance, not with the supply. *)
Burn(t, from, amount) ==
    IF t.bal[from] < amount THEN Reverted(t)
    ELSE Done([t EXCEPT !.bal[from] = @ - amount, !.supply = Minus(@, amount),
                        !.wrapped = @ + Minus(t.supply, amount) - (t.supply - amount)])
=============================================================================
