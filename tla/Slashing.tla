------------------------------ MODULE Slashing ------------------------------
(* The slashing contract over the validators of the staking contract: the votes
   of each block's last commit move a window of missed blocks, a validator that
   missed too many is jailed, and may be unjailed when its time is served. *)
EXTENDS Integers, FiniteSets, SequencesExt

CONSTANTS
    Validator,      \* known by their consensus addresses, and in the order of those
    Window,         \* signed_blocks_window
    MaxMissed,      \* the window without min_signed_per_window of it
    JailTime,       \* downtime_jail_duration, in blocks
    MaxHeight       \* bound on the blocks

ASSUME SlashingAssumption ==
    /\ Validator \subseteq Nat /\ IsFiniteSet(Validator)
    /\ Window \in Nat \ {0} /\ MaxMissed \in 0..Window
    /\ JailTime \in Nat /\ MaxHeight \in Nat

VARIABLES
    height,     \* of the last block, which is also the time
    signing,    \* the validators that have signing info
    jailed,     \* the jailed ones, by the staking contract
    info,       \* start_height, index_offset, missed_blocks_counter, jailed_until
    bitmap,     \* the missed blocks of the window
    recent,     \* what was missed of the last blocks, since the counting began
    misses,     \* how many blocks were, since the counting began
    since,      \* when the validator became one, was jailed or unjailed last
    apart,      \* the validators whose bits were cleared without their counter, or
                \* whose counter was without the bits
    emptyEnd    \* what the host deletes of a range that ends at an empty key

slashingVars == <<height, signing, jailed, info, bitmap, recent, misses, since, apart, emptyEnd>>

NoBits == [i \in 0..(Window - 1) |-> FALSE]

NewInfo(h) == [start |-> h, index |-> 0, missed |-> 0, until |-> 0]

SlashingInit ==
    /\ height = 0
    /\ signing = {} /\ jailed = {}
    /\ info = [v \in Validator |-> NewInfo(0)]
    /\ bitmap = [v \in Validator |-> NoBits]
    /\ recent = [v \in Validator |-> <<>>] /\ misses = [v \in Validator |-> 0]
    /\ since = [v \in Validator |-> 0]
    /\ apart = {}
    /\ emptyEnd \in {"rest", "nothing"}

LastOf(s, n) == IF Len(s) <= n THEN s ELSE SubSeq(s, Len(s) - n + 1, Len(s))

------------------------------------------------------------------------------
(* CreateValidator of the staking contract and its hook AfterValidatorBonded. *)
Bond(v) ==
    /\ v \notin signing
    /\ signing' = signing \cup {v}
    /\ info' = [info EXCEPT ![v] = NewInfo(height)]
    /\ since' = [since EXCEPT ![v] = height]
    /\ UNCHANGED <<height, jailed, bitmap, recent, misses, apart, emptyEnd>>

CountedForever(i, previous, missed) == IF ~previous /\ missed THEN i + 1 ELSE i

Counted(i, previous, missed) ==
    IF ~previous /\ missed THEN i + 1
    ELSE IF previous /\ ~missed /\ i > 0 THEN i - 1 ELSE i

(* What the contracts keep of one validator. *)
Own(v) ==
    [info |-> info[v], bits |-> bitmap[v], jailed |-> v \in jailed, recent |-> recent[v],
     misses |-> misses[v], since |-> since[v], apart |-> v \in apart]

(* The bit and the counter, and the next place in the window. *)
Marked(s, missed) ==
    LET i == s.info.index
    IN  [s EXCEPT !.info = [s.info EXCEPT !.index = (i + 1) % Window,
                                          !.missed = Counted(s.info.missed, s.bits[i], missed)],
                  !.bits = [s.bits EXCEPT ![i] = missed],
                  !.recent = LastOf(Append(s.recent, missed), Window),
                  !.misses = IF missed THEN s.misses + 1 ELSE s.misses]

(* The range from the validator's own bits to an empty end key: the bits of the
   later addresses too, or none, as the host takes it. *)
Deleted(v) == IF emptyEnd = "rest" THEN {u \in Validator : u >= v} ELSE {}

DeleteMissedBlockBitmap(all, v) ==
    [u \in Validator |->
        IF u \in Deleted(v) THEN [all[u] EXCEPT !.bits = NoBits, !.apart = @ \/ all[u].bits # NoBits]
        ELSE all[u]]

JailedKeepingCounter(s, h) ==
    [s EXCEPT !.jailed = TRUE, !.recent = <<>>, !.misses = 0, !.since = h, !.apart = s.bits # NoBits,
              !.info = [s.info EXCEPT !.until = h + JailTime, !.index = 0]]

(* Slash, which takes nothing yet, and Jail of the staking contract. *)
Jailed(s, h) ==
    [s EXCEPT !.jailed = TRUE, !.recent = <<>>, !.misses = 0, !.since = h, !.apart = s.bits # NoBits,
              !.info = [s.info EXCEPT !.until = h + JailTime, !.missed = 0, !.index = 0]]

PunishValidator(all, v, h) ==
    LET left == DeleteMissedBlockBitmap(all, v) IN [left EXCEPT ![v] = Jailed(left[v], h)]

HandleValidatorSignature(all, v, h, missed) ==
    LET marked == [all EXCEPT ![v] = Marked(all[v], missed)]
        one == marked[v].info
    IN  IF all[v].jailed THEN all
        ELSE IF one.missed > MaxMissed /\ h > one.start + Window THEN PunishValidator(marked, v, h)
        ELSE marked

(* The votes one after another. *)
Handled(all, order, h, absent) ==
    FoldLeft(LAMBDA one, v : HandleValidatorSignature(one, v, h, v \in absent), all, order)

(* BeginBlock, with the votes of the last commit in any order. *)
Block(order, absent) ==
    LET h == height + 1
        after == Handled([v \in Validator |-> Own(v)], order, h, absent)
    IN  /\ height < MaxHeight
        /\ height' = h
        /\ info' = [v \in Validator |-> after[v].info]
        /\ bitmap' = [v \in Validator |-> after[v].bits]
        /\ jailed' = {v \in Validator : after[v].jailed}
        /\ recent' = [v \in Validator |-> after[v].recent]
        /\ misses' = [v \in Validator |-> after[v].misses]
        /\ since' = [v \in Validator |-> after[v].since]
        /\ apart' = {v \in Validator : after[v].apart}
        /\ UNCHANGED <<signing, emptyEnd>>

ServedEarly(v) == info[v].until <= height + 1

Served(v) == info[v].until <= height

Unjail(v) ==
    /\ v \in signing
    /\ Served(v)
    /\ v \in jailed
    /\ jailed' = jailed \ {v}
    /\ info' = [info EXCEPT ![v].until = 0]
    /\ since' = [since EXCEPT ![v] = height]
    /\ UNCHANGED <<height, signing, bitmap, recent, misses, apart, emptyEnd>>

SlashingNext ==
    \/ \E v \in Validator : Bond(v) \/ Unjail(v)
    \/ \E order \in SetToSeqs(signing), absent \in SUBSET signing : Block(order, absent)

SlashingSpec == SlashingInit /\ [][SlashingNext]_slashingVars

------------------------------------------------------------------------------
SlashingTypeOK ==
    /\ height \in 0..MaxHeight
    /\ jailed \subseteq signing /\ signing \subseteq Validator /\ apart \subseteq signing
    /\ info \in [Validator -> [start : 0..MaxHeight, index : 0..(Window - 1),
                               missed : 0..MaxHeight, until : 0..(MaxHeight + JailTime)]]
    /\ bitmap \in [Validator -> [0..(Window - 1) -> BOOLEAN]]

MissedOf(s) == Cardinality({i \in DOMAIN s : s[i]})

(* The ring of bits, its index and the counter are a sliding window: the
   counter is what the validator missed of the last Window blocks it was to
   sign, since it was bonded or last jailed.  Once its bits and its counter were
   not cleared together the counter is wrong, but one way only: never too small
   if the bits went, never too large if they stayed. *)
CounterIsSlidingWindow ==
    \A v \in signing :
        LET missed == MissedOf(recent[v])
        IN  /\ v \notin apart => info[v].missed = missed
            /\ emptyEnd = "rest" => info[v].missed >= missed
            /\ emptyEnd = "nothing" => info[v].missed <= missed

(* A validator is jailed for a block only when it missed more than MaxMissed of
   the window that ends there, that block included; if its bits went with those
   of an earlier address, before or in that block, more than that since the
   counting began, in whatever window. *)
JailedForDowntime ==
    [][\A v \in jailed' \ jailed : \E missed \in {0, 1} :
          /\ misses[v] + missed > MaxMissed
          /\ emptyEnd = "nothing" \/ (v \notin apart /\ \A u \in jailed' \ jailed : u >= v)
                => MissedOf(LastOf(Append(recent[v], missed = 1), Window)) > MaxMissed]_slashingVars

(* Whoever is unjailed was in jail for the whole of JailTime. *)
TimeIsServed == [][\A v \in jailed \ jailed' : height >= since[v] + JailTime]_slashingVars

(* "Height at which validator was first a candidate OR was un-jailed". *)
StartIsUnjailHeight == \A v \in signing \ jailed : info[v].start = since[v]

(* "We need to reset the counter & bitmap so that the validator won't be
   immediately slashed for downtime upon re-bonding". *)
ResetTogether == apart = {}
=============================================================================
