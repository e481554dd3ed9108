---------------------------- MODULE StateMachine -----------------------------
(* The interpreter of state machines, for one contract.  A call runs an event or
   a timer to completion: it takes one transition and then all the "always"
   transitions that follow, and sets the timers of the states it enters.

   A state is named by its path.  Machine gives for each the names of its children,
   the transitions of its events, of its delays and of "always", and its entry and
   exit actions.  A transition has a target, or none (Targetless), a guard, or
   none (Unguarded), and actions. *)
EXTENDS Integers, SequencesExt

CONSTANTS
    Machine,           \* path -> [kids, on, after, always, entry, exit]
    Holds(_, _, _),    \* does a guard hold: guard, data, event
    Effect(_, _, _)    \* what an action does: action, data, event

Targetless == <<>>
Unguarded == "none"
NoEvent == [type |-> ""]

Delays(p) == DOMAIN Machine[p].after
Keys == UNION {{<<p, d>> : d \in Delays(p)} : p \in DOMAIN Machine}

Timer(p, d, id) == [state |-> p, delay |-> d, id |-> id]

(* A contract: its storage, and what the call under way asked of the host. *)
Instantiated(initial, data) ==
    [value |-> initial, prev |-> <<>>, data |-> data,
     last |-> 0,                          \* the last interval identifier
     lastOf |-> [k \in Keys |-> 0],       \* the last one of a state and a delay
     active |-> {},                       \* the intervals registered and not removed
     dropped |-> [p \in DOMAIN Machine |-> 0],  \* transitions its "always" lost in the call
     started |-> {}, cancelled |-> {}]

AtRest(c) == [c EXCEPT !.dropped = [p \in DOMAIN Machine |-> 0], !.started = {}, !.cancelled = {}]

------------------------------------------------------------------------------
(* runAfterTransitions *)
SetTimer(c, p, d) ==
    LET t == Timer(p, d, c.last + 1)
    IN  [c EXCEPT !.last = @ + 1, !.lastOf[<<p, d>>] = t.id,
                  !.active = @ \cup {t}, !.started = @ \cup {t}]

SetTimers(c, p) == FoldSeq(LAMBDA d, x : SetTimer(x, p, d), c, SetToSeq(Delays(p)))

(* tryCancelIntervals walks down from the last identifier of the state and the
   delay and stops at the first that is not active.  It asks the host to cancel
   that one too, whatever state it belongs to. *)
Walked(c, p, d) ==
    LET last == c.lastOf[<<p, d>>]
    IN  {i \in 1..last : \A j \in (i + 1)..last : Timer(p, d, j) \in c.active}

CancelIntervals(c, p, d) ==
    IF <<p, d>> \notin Keys THEN c
    ELSE [c EXCEPT !.active = @ \ {Timer(p, d, i) : i \in Walked(c, p, d)},
                   !.cancelled = @ \cup Walked(c, p, d)]

CancelActiveIntervals(c, d) == CancelIntervals(CancelIntervals(c, c.prev, d), c.value, d)

ExecuteAction(c, a, e) ==
    IF a.type = "cancelActiveIntervals" THEN CancelActiveIntervals(c, a.after)
    ELSE [c EXCEPT !.data = Effect(a, @, e)]

------------------------------------------------------------------------------
(* The transitions of an event are those of the state, or of its closest parent
   that has any. *)
Handles(p, type) == type \in DOMAIN Machine[p].on
TransitionsFor(p, type) ==
    LET ks == {k \in 1..Len(p) : Handles(SubSeq(p, 1, k), type)}
    IN  IF ks = {} THEN <<>> ELSE Machine[SubSeq(p, 1, CHOOSE k \in ks : \A j \in ks : j <= k)].on[type]

FirstThatHolds(c, ts, skipped, e) ==
    LET is == {i \in DOMAIN ts : i > skipped /\ (ts[i].guard = Unguarded \/ Holds(ts[i].guard, c.data, e))}
    IN  IF is = {} THEN 0 ELSE CHOOSE i \in is : \A j \in is : i <= j

(* A target with children is entered at its first child. *)
Resolved(target) ==
    IF Machine[target].kids = <<>> THEN target ELSE Append(target, Head(Machine[target].kids))

(* The exit actions of the state, those of the transition, and the entry actions
   of the target and of its child. *)
ActionsOf(p, t) ==
    IF t.target = Targetless THEN t.actions
    ELSE Machine[p].exit \o t.actions \o Machine[t.target].entry
            \o (IF Resolved(t.target) = t.target THEN <<>> ELSE Machine[Resolved(t.target)].entry)

Moved(c, t) ==
    IF t.target = Targetless THEN [c EXCEPT !.prev = c.value]
    ELSE LET x == IF Resolved(t.target) = t.target THEN c ELSE SetTimers(c, t.target)
         IN  [x EXCEPT !.prev = c.value, !.value = Resolved(t.target)]

Acted(c, actions, e) == FoldLeft(LAMBDA x, a : ExecuteAction(x, a, e), c, actions)

EnteredTimersFirst(c, p, t, e) == Acted(SetTimers(c, c.value), ActionsOf(p, t), e)

(* The new state is stored, its actions run, and then its timers are set. *)
Entered(c, p, t, e) == SetTimers(Acted(c, ActionsOf(p, t), e), c.value)

(* executeStateActions, and the "always" transitions that follow; those whose
   guard fails are removed from the machine's list for the rest of the call. *)
RECURSIVE Take(_, _, _)
Take(c, t, e) ==
    IF t.target = Targetless THEN Acted(Moved(c, t), t.actions, e)
    ELSE LET x == Entered(Moved(c, t), c.value, t, e)
             ts == Machine[x.value].always
             i == FirstThatHolds(x, ts, x.dropped[x.value], NoEvent)
             y == [x EXCEPT !.dropped[x.value] = IF i = 0 THEN Len(ts) ELSE i - 1]
         IN  IF i = 0 THEN y ELSE Take(y, ts[i], NoEvent)

TakeFirst(c, ts, e) ==
    LET i == FirstThatHolds(c, ts, 0, e) IN IF i = 0 THEN c ELSE Take(c, ts[i], e)

(* send: an event of the network or of an operator. *)
Send(c, e) == TakeFirst(AtRest(c), TransitionsFor(c.value, e.type), e)

EqualOrIncluded(p, q) == IsPrefix(p, q) \/ IsPrefix(q, p)

EventualUnchecked(c, t) ==
    LET x == [AtRest(c) EXCEPT !.active = @ \ {t}]
    IN  IF ~EqualOrIncluded(c.value, t.state) THEN AtRest(c)
        ELSE TakeFirst(x, Machine[t.state].after[t.delay], NoEvent)

EventualAnywhere(c, t) ==
    LET x == [AtRest(c) EXCEPT !.active = @ \ {t}]
    IN  IF t \notin c.active THEN AtRest(c)
        ELSE TakeFirst(x, Machine[t.state].after[t.delay], NoEvent)

(* eventual: a timer the host delivers.  It is removed, and acts in its state
   only. *)
Eventual(c, t) ==
    LET x == [AtRest(c) EXCEPT !.active = @ \ {t}]
    IN  IF t \notin c.active THEN AtRest(c)
        ELSE IF ~EqualOrIncluded(c.value, t.state) THEN x
        ELSE TakeFirst(x, Machine[t.state].after[t.delay], NoEvent)
=============================================================================
