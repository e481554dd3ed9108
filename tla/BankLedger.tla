----------------------------- MODULE BankLedger -----------------------------
(* The bank contract and the token contracts of its denominations, with the
   users that call them.  One action is one transaction: a call that reverts
   changes nothing, so only those that succeed are steps. *)
EXTENDS Erc20, SequencesExt

CONSTANTS
    Denom,          \* the base denominations, one token contract each
    AltDenom,       \* the other units a denomination is known by
    BaseOf, Factor, \* the denomination an alternative unit is of, and how many
    MaxSupply,      \* bound on what is minted
    Amount,         \* the amounts of a call
    CoinLists,      \* the lists of coins of a send, and of the inputs of a multisend
    OutputLists     \* the lists of outputs of a multisend

ASSUME BankAssumption ==
    /\ BaseOf \in [AltDenom -> Denom] /\ Factor \in [AltDenom -> Nat]
    /\ MaxSupply \in Nat /\ Amount \subseteq Nat
    /\ CoinLists \subseteq Seq([denom : Denom \cup AltDenom, amount : Nat])
    /\ OutputLists \subseteq Seq([to : Account, coins : Seq([denom : Denom \cup AltDenom, amount : Nat])])

VARIABLES
    tokens,     \* the token contract of each base denomination
    known,      \* the accounts the auth contract has
    caller      \* who sent the last transaction

vars == <<tokens, known, caller>>

(* The bank, the staking, governance and distribution contracts: admins and
   minters of the tokens, authorities of the bank. *)
Module == "module"

Init ==
    /\ tokens = [d \in Denom |-> NewToken]
    /\ known = {}
    /\ caller = Module

DenomInfo(denom) ==
    IF denom \in Denom THEN [denom |-> denom, value |-> 1]
    ELSE [denom |-> BaseOf[denom], value |-> Factor[denom]]

------------------------------------------------------------------------------
NothingSent == [d \in Denom |-> 0]

(* One coin of a transfer the bank makes, as an admin of every token; "sent" is
   the coin map, in base units. *)
SendCoin(s, from, to, coin) ==
    LET info == DenomInfo(coin.denom)
        amount == info.value * coin.amount
        result == TransferFrom(s.tokens[info.denom], TRUE, Module, from, to, amount)
    IN  [ok |-> s.ok /\ result.ok,
         tokens |-> [s.tokens EXCEPT ![info.denom] = result.token],
         sent |-> [s.sent EXCEPT ![info.denom] = @ + amount]]

SendCoins(s, from, to, coins) ==
    FoldLeft(LAMBDA t, coin: SendCoin(t, from, to, coin), s, coins)

Unsent(t) == [ok |-> TRUE, tokens |-> t, sent |-> NothingSent]

InputsUnchecked(sent, inputs) == TRUE

(* The amounts of the inputs are compared with what was sent in base units. *)
InputsMatch(sent, inputs) ==
    \A i \in DOMAIN inputs :
        /\ inputs[i].denom \in Denom /\ sent[inputs[i].denom] > 0
        /\ sent[inputs[i].denom] = inputs[i].amount

MultiSend(t, from, inputs, outputs) ==
    LET s == FoldLeft(LAMBDA r, out: SendCoins(r, from, out.to, out.coins), Unsent(t), outputs)
    IN  [s EXCEPT !.ok = @ /\ InputsMatch(s.sent, inputs)]

Authorized(c, owner) == c \in {owner, Module}

------------------------------------------------------------------------------
Call(c, d, result) ==
    /\ result.ok
    /\ tokens' = [tokens EXCEPT ![d] = result.token]
    /\ caller' = c
    /\ UNCHANGED known

TransferTx(c, d, to, amount) == Call(c, d, Move(tokens[d], c, to, amount))

TransferFromTx(c, d, from, to, amount) == Call(c, d, TransferFrom(tokens[d], FALSE, c, from, to, amount))

ApproveTx(c, d, spender, amount) == Call(c, d, Approve(tokens[d], c, spender, amount))

(* MintCoins, of the bank: in any unit, by a module. *)
MintTx(d, to, amount) ==
    LET info == DenomInfo(d)
    IN  /\ tokens[info.denom].supply + info.value * amount <= MaxSupply
        /\ Call(Module, info.denom, Mint(tokens[info.denom], to, info.value * amount))

BurnTx(d, from, amount) == Call(Module, d, Burn(tokens[d], from, amount))

SendTx(c, from, to, coins) ==
    LET s == SendCoins(Unsent(tokens), from, to, coins)
    IN  /\ Authorized(c, from)
        /\ s.ok
        /\ tokens' = s.tokens
        /\ known' = known \cup {to}
        /\ caller' = c

MultiSendTx(c, from, inputs, outputs) ==
    LET s == MultiSend(tokens, from, inputs, outputs)
    IN  /\ Authorized(c, from)
        /\ s.ok
        /\ tokens' = s.tokens
        /\ known' = known \cup {outputs[i].to : i \in DOMAIN outputs}
        /\ caller' = c

Next ==
    \/ \E c \in Account, d \in Denom, to \in Account, v \in Amount : TransferTx(c, d, to, v)
    \/ \E c, from, to \in Account, d \in Denom, v \in Amount : TransferFromTx(c, d, from, to, v)
    \/ \E c, s \in Account, d \in Denom, v \in Amount : ApproveTx(c, d, s, v)
    \/ \E d \in Denom \cup AltDenom, to \in Account, v \in Amount : MintTx(d, to, v)
    \/ \E d \in Denom, from \in Account, v \in Amount : BurnTx(d, from, v)
    \/ \E c \in Account \cup {Module}, from, to \in Account, coins \in CoinLists : SendTx(c, from, to, coins)
    \/ \E c \in Account \cup {Module}, from \in Account, in \in CoinLists, out \in OutputLists :
           MultiSendTx(c, from, in, out)

Spec == Init /\ [][Next]_vars

------------------------------------------------------------------------------
(* Balances, supplies and allowances never go below zero. *)
TypeOK ==
    /\ tokens \in [Denom -> Token]
    /\ known \subseteq Account
    /\ caller \in Account \cup {Module}

(* Every coin of a supply is on some account and nothing else is, through
   transfers, allowances, sends in any unit, multisends and burns: nothing but
   a transfer to oneself makes coins, and nothing but a burn of more than the
   supply leaves a supply without coins. *)
SupplyIsBalances == \A d \in Denom : Conserved(tokens[d])

(* Nobody but a module takes coins of another account beyond what that account
   allowed him, and what he takes he cannot take again. *)
TakesWithinAllowance ==
    [][\A d \in Denom, o \in Account :
          /\ caller' \notin {o, Module}
          /\ tokens'[d].bal[o] < tokens[d].bal[o]
          => tokens[d].bal[o] - tokens'[d].bal[o]
               = tokens[d].allowance[o][caller'] - tokens'[d].allowance[o][caller']]_vars

Debit(s, from, d) == tokens[d].bal[from] - s.tokens[d].bal[from]

(* A multisend accepted with inputs that name every denomination sent takes
   from the sender what the inputs say, and the outputs receive it. *)
MultiSendTakesInputs ==
    \A from \in Account, in \in CoinLists, out \in OutputLists :
        LET s == MultiSend(tokens, from, in, out)
        IN  /\ s.ok /\ \A i \in DOMAIN out : out[i].to # from
            /\ \A d \in Denom : s.sent[d] > 0 => \E i \in DOMAIN in : in[i].denom = d
            => \A i \in DOMAIN in : Debit(s, from, in[i].denom) = in[i].amount

(* "check that inputs are == sum of outputs": a multisend takes nothing from
   the sender that its inputs do not name. *)
InputsAreOutputs ==
    \A from \in Account, in \in CoinLists, out \in OutputLists :
        LET s == MultiSend(tokens, from, in, out)
        IN  s.ok /\ (\A i \in DOMAIN out : out[i].to # from)
            => \A d \in Denom : Debit(s, from, d) > 0 => \E i \in DOMAIN in : in[i].denom = d
=============================================================================
