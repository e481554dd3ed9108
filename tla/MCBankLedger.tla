---------------------------- MODULE MCBankLedger ----------------------------
(* Two holders, a gas denomination with a unit of two, and a second one. *)
EXTENDS BankLedger

CONSTANTS alice, bob

MCBaseOf == [u \in {"unit"} |-> "gas"]
MCFactor == [u \in {"unit"} |-> 2]

Of(denom, amount) == [denom |-> denom, amount |-> amount]
To(to, coins) == [to |-> to, coins |-> coins]

MCCoinLists == {<<Of("gas", 1)>>, <<Of("gas", 2)>>, <<Of("unit", 1)>>,
                <<Of("gas", 1), Of("rew", 1)>>, <<Of("gas", 1), Of("unit", 1)>>}

MCOutputLists ==
    {<<To(to, coins)>> : to \in Account, coins \in MCCoinLists \ {<<Of("gas", 2)>>}}
      \cup {<<To(to, <<Of("gas", 1)>>), To(to, <<Of("gas", 1)>>)>> : to \in Account}

(* Allowances of one holder to the other, of the first denomination, and one
   coin of the second; a coin made of the first, for a burn of more than its
   supply. *)
Few ==
    /\ tokens["gas"].made <= 1 /\ tokens["gas"].wrapped <= 2
    /\ tokens["rew"].made = 0 /\ tokens["rew"].supply <= 1
    /\ \A d \in Denom, o, s \in Account :
           <<d, o, s>> # <<"gas", alice, bob>> => tokens[d].allowance[o][s] = 0
=============================================================================
