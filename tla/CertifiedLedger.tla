--------------------------- MODULE CertifiedLedger ---------------------------
(* What the consensus promises to the application: every validator has a chain
   of final blocks that only grows, at its end and one block on top of another,
   and no block becomes final at a height the network has not certified. *)
EXTENDS Integers

CONSTANTS
    Validators,
    Genesis, Last,  \* the height of the genesis block and the highest one
    NoBlock         \* the content of a height that is not final

VARIABLES
    height,     \* height[v]: the last final height of validator v
    ledger,     \* ledger[v][h]: the block v has at height h
    certified   \* the heights for which a quorum has precommitted a block

vars == <<height, ledger, certified>>

Init ==
    /\ height = [v \in Validators |-> Genesis]
    /\ ledger = [v \in Validators |-> [h \in Genesis .. Last |-> NoBlock]]
    /\ certified = {}

(* Certificates are never taken back. *)
Certify == certified \subseteq certified' /\ certified' \subseteq Genesis .. Last

(* Validator v appends the blocks of one or more certified heights. *)
Append(v) ==
    /\ height'[v] \in height[v] + 1 .. Last
    /\ height[v] + 1 .. height'[v] \subseteq certified'
    /\ \A h \in Genesis .. Last :
        IF h \in height[v] + 1 .. height'[v]
        THEN /\ ledger'[v][h] # NoBlock
             /\ ledger'[v][h].parent = ledger'[v][h - 1].hash
        ELSE ledger'[v][h] = ledger[v][h]
    /\ \A w \in Validators \ {v} : height'[w] = height[w] /\ ledger'[w] = ledger[w]

Next == Certify /\ (UNCHANGED <<height, ledger>> \/ \E v \in Validators : Append(v))

Spec == Init /\ [][Next]_vars

==============================================================================
