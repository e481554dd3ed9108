----------------------------- MODULE BlockStore ------------------------------
(* The block store of a node (wasmx-blocks): the final blocks by height and the
   consensus parameters in force at a height.  Parameters that did not change are
   kept as the height at which they last did. *)
EXTENDS Naturals

CONSTANTS
    Unchanged,    \* the parameters "" of a height at which they did not change
    Missing       \* what reading parameters that are not there gives: the call reverts

LOG_START == 1

(* The entry for height h, with the parameters p of which the last change is at c. *)
Info(c, p) == [changed |-> c, params |-> p]

EmptyStore(p) ==
    [last |-> LOG_START, blocks |-> {}, params |-> [k \in {LOG_START + 1} |-> Info(k, p)],
     paramsLast |-> LOG_START + 1]

ParamsAt(st, h) ==
    IF h \notin DOMAIN st.params THEN Missing
    ELSE LET info == st.params[h]
         IN  IF info.params # Unchanged THEN info.params
             ELSE IF info.changed \notin DOMAIN st.params THEN Missing
             ELSE st.params[info.changed].params

(* Height 0 stands for the latest one. *)
GetConsensusParams(st, h) == ParamsAt(st, IF h = 0 THEN st.paramsLast ELSE h)

SetConsensusParams(st, h, info) ==
    [st EXCEPT !.params = [k \in DOMAIN @ \cup {h} |-> IF k = h THEN info ELSE @[k]], !.paramsLast = h]

(* The mistake of forgetting when unchanged parameters did change. *)
SaveConsensusParamsHere(st, h, p) ==
    LET same == st.paramsLast \in DOMAIN st.params /\ p = Unchanged
    IN  SetConsensusParams(st, h, Info(IF same THEN st.paramsLast ELSE h, p))

SaveConsensusParams(st, h, p) ==
    LET known == st.paramsLast \in DOMAIN st.params
        same == known /\ p \in {Unchanged, GetConsensusParams(st, 0)}
    IN  SetConsensusParams(st, h,
            IF same THEN Info(st.params[st.paramsLast].changed, Unchanged) ELSE Info(h, p))

(* setBlock reverts on any other height. *)
MaySetBlock(st, h) == h = st.last + 1
SetBlock(st, h) == [st EXCEPT !.blocks = @ \cup {h}, !.last = h]

(* A node the host brought to height h has none of the blocks up to there. *)
Bootstrapped(st, h, p) == [SetConsensusParams(st, h, Info(h, p)) EXCEPT !.last = h]

(* The last block, of which the parameters of the next height are taken back too. *)
MayRollbackBlock(st, h) == h = st.last /\ h = st.paramsLast - 1
RollbackBlock(st, h) ==
    [st EXCEPT !.blocks = @ \ {h}, !.last = h - 1,
               !.params = [k \in DOMAIN @ \ {h + 1} |-> @[k]], !.paramsLast = h]
==============================================================================
