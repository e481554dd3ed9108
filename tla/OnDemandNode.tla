---------------------------- MODULE OnDemandNode -----------------------------
(* One validator of an on-demand chain: the interpreter running the machine of
   wasmx-level0-ondemand, with its pool of transactions and its timers.  A chain
   of this kind waits until it has transactions and then makes a block.

   Events come from the network in any order; what the guards read of the rest of
   the consensus (who proposes, how many votes there are) is chosen anew for
   each call.  The node may be started again, and then the host has lost its timers. *)
EXTENDS Mempool, TLC

CONSTANTS MaxTimers      \* bound: after so many timers only transactions are received

VARIABLES
    c,       \* the contract
    host     \* the timers the host will deliver

vars == <<c, host>>

------------------------------------------------------------------------------
(* The machine. *)
Initialized == <<"initialized">>
Unstarted == Initialized \o <<"unstarted">>
Prestart == Initialized \o <<"prestart">>
Started == Initialized \o <<"started">>
FullNode == Started \o <<"Node">>
Validator == Started \o <<"Validator">>
Active == Validator \o <<"active">>
Precommit == Validator \o <<"precommit">>
Commit == Validator \o <<"commit">>
Waiting == Started \o <<"waiting">>
Proposer == Started \o <<"Proposer">>
Proposing == Proposer \o <<"active">>
Stopped == <<"stopped">>
Uninitialized == <<"uninitialized">>

Goes(target, guard, actions) == [target |-> target, guard |-> guard, actions |-> actions]
Does(name) == [type |-> name]
Cancel(delay) == [type |-> "cancelActiveIntervals", after |-> delay]
To(target) == <<Goes(target, "none", <<>>)>>
Nothing == [x \in {} |-> <<>>]

State(kids, on, after, always) ==
    [kids |-> kids, on |-> on, after |-> after, always |-> always, entry |-> <<>>, exit |-> <<>>]

AddTx == Does("addToMempool")
Finalize == Does("commitBlock")

OnProposal(refuse, delay) ==
    << Goes(IF refuse THEN <<>> ELSE Precommit, "ifSenderIsProposer",
            IF refuse THEN <<>> ELSE <<Cancel(delay)>>),
       Goes(Precommit, "ifForceProposalReset", <<Cancel(delay)>>) >>

(* A transaction that reaches an empty pool enters "waiting" again, which sets
   its timer. *)
WaitingTransactions(first) ==
    << Goes(<<>>, "ifOldTransaction", <<>>),
       Goes(first, "ifMempoolEmpty", <<AddTx>>),
       Goes(Active, "ifMempoolFull", <<AddTx, Cancel("batchTimeout")>>),
       Goes(<<>>, "none", <<AddTx>>) >>

StaysTargetless == WaitingTransactions(<<>>)

OnTransaction == WaitingTransactions(Waiting)

Machine ==
    Uninitialized :> State(<<>>, [initialize |-> To(Initialized)], Nothing, <<>>)
 @@ Initialized :> State(<<"unstarted", "prestart", "started">>, Nothing, Nothing, <<>>)
 @@ Unstarted :> State(<<>>, [prestart |-> To(Prestart), start |-> To(Started)], Nothing, <<>>)
 @@ Prestart :> State(<<>>, Nothing, [t500 |-> To(Started)], <<>>)
 @@ Started :> State(<<"Node", "Validator", "waiting", "Proposer">>,
                     [newTransaction |-> <<Goes(<<>>, "ifNewTransaction", <<AddTx>>)>>], Nothing, <<>>)
 @@ FullNode :> State(<<>>, [becomeValidator |-> To(Validator), start |-> <<Goes(<<>>, "none", <<>>)>>,
                             receiveCommit |-> <<Goes(<<>>, "none", <<Finalize>>)>>],
                      Nothing, <<Goes(Validator, "ifNodeIsValidator", <<>>)>>)
 @@ Validator :> State(<<"active", "precommit", "commit">>,
                       [receiveBlockProposal |-> <<Goes(<<>>, "ifSenderIsProposer", <<>>)>>,
                        stop |-> To(Stopped), start |-> To(Validator),
                        receiveCommit |-> <<Goes(<<>>, "none", <<Finalize>>)>>,
                        receivePrecommit |-> <<Goes(<<>>, "none", <<>>)>>], Nothing, <<>>)
 @@ Active :> State(<<>>, [receiveBlockProposal |-> OnProposal(FALSE, "timeoutPropose")],
                    [timeoutPropose |-> To(Precommit)], <<Goes(Proposer, "isNextProposer", <<>>)>>)
 @@ Precommit :> State(<<>>, [receivePrecommit |-> To(Precommit),
                              receiveBlockProposal |-> OnProposal(TRUE, "timeoutPrecommit")],
                       [timeoutPrecommit |-> To(Active)],
                       <<Goes(Commit, "ifPrecommitAcceptThreshold", <<Finalize, Cancel("timeoutPrecommit")>>)>>)
 @@ Commit :> State(<<>>, [receivePrecommit |-> <<Goes(<<>>, "none", <<>>)>>,
                           receiveBlockProposal |-> <<Goes(Precommit, "ifNextBlockProposal", <<Cancel("roundTimeout")>>)>>],
                    [roundTimeout |-> To(Waiting)], <<>>)
 @@ Waiting :> State(<<>>, [newTransaction |-> OnTransaction, start |-> To(Validator)],
                     [batchTimeout |-> <<Goes(Active, "ifMempoolNotEmpty", <<>>)>>], <<>>)
 @@ Proposer :> State(<<"active">>, [start |-> To(Validator), stop |-> To(Stopped)], Nothing, <<>>)
 @@ Proposing :> State(<<>>, Nothing, Nothing, To(Precommit))
 @@ Stopped :> State(<<>>, [restart |-> To(Unstarted)], Nothing, <<>>)

------------------------------------------------------------------------------
(* What a call finds of the rest of the consensus is the set of these guards that
   hold.  A call reads those of "always" in the order of the chain, and goes on only
   while they hold, so that the prefixes of the chain are all it can find. *)
Chain == <<"ifNodeIsValidator", "isNextProposer", "ifPrecommitAcceptThreshold">>
ProposalGuards == {{}, {"ifSenderIsProposer", "ifNextBlockProposal"}, {"ifForceProposalReset", "ifNextBlockProposal"}}

Holds(g, data, e) ==
    CASE g = "ifNewTransaction" -> ~HasSeen(data.pool, e.tx)
      [] g = "ifOldTransaction" -> HasSeen(data.pool, e.tx)
      [] g = "ifMempoolEmpty" -> data.pool.map = <<>>
      [] g = "ifMempoolNotEmpty" -> data.pool.map # <<>>
      [] g = "ifMempoolFull" -> IsBatchFull(data.pool)
      [] OTHER -> g \in data.holding

Effect(a, data, e) ==
    CASE a.type = "addToMempool" -> [data EXCEPT !.pool = AddTransaction(@, e.tx, data.valid)]
      [] a.type = "commitBlock" -> [data EXCEPT !.pool = Removed(@, data.block)]
      [] OTHER -> data

SM == INSTANCE StateMachine

Idle(pool) == [pool |-> pool, holding |-> {}, block |-> <<>>, valid |-> FALSE]

Finalizing == {"receiveCommit", "receivePrecommit", "receiveBlockProposal"}

(* A call also finds whether CheckTx accepts its transaction, and which transactions
   of the pool are in the block it may finalize. *)
Found(x, e) ==
    [pool: {x.data.pool},
     holding: {Range(SubSeq(Chain, 1, n)) \cup proposal :
                  n \in 0..Len(Chain),
                  proposal \in IF e.type = "receiveBlockProposal" THEN ProposalGuards ELSE {{}}},
     valid: IF e.type = "newTransaction" THEN BOOLEAN ELSE {FALSE},
     block: IF e.type \in Finalizing
            THEN {SelectSeq(x.data.pool.map, LAMBDA tx : tx \in included) : included \in SUBSET Tx} ELSE {<<>>}]

Init ==
    /\ c = SM!Instantiated(Uninitialized, Idle(EmptyPool))
    /\ host = {}

Before(e) == {[c EXCEPT !.data = found] : found \in Found(c, e)}

(* How the calls of a set may end; what they found of the consensus is forgotten. *)
Outcomes(ended) == {[y EXCEPT !.data = Idle(y.data.pool)] : y \in ended}

(* The end of a call that succeeded.  The host may have a timer on its way when
   it is asked to cancel it. *)
Done(x, delivered) ==
    /\ c' = SM!AtRest(x)
    /\ \E tooLate \in BOOLEAN :
         host' = x.started \cup
                 IF tooLate THEN host \ delivered
                 ELSE {t \in host \ delivered : t.id \notin x.cancelled}

Events == [type: {"initialize", "prestart", "start", "stop", "restart", "becomeValidator", "receiveBlockProposal",
                  "receivePrecommit", "receiveCommit"}] \cup [type: {"newTransaction"}, tx: Tx]

Receive(e) ==
    /\ e.type = "newTransaction" \/ c.last < MaxTimers
    /\ SM!TransitionsFor(c.value, e.type) # <<>>
    /\ \E x \in Outcomes({SM!Send(y, e) : y \in Before(e)}) : Done(x, {})

TimerFires(t) ==
    /\ t \in host /\ c.last < MaxTimers
    /\ \E x \in Outcomes({SM!Eventual(y, t) : y \in Before(SM!NoEvent)}) : Done(x, {t})

(* The node starts again and runs its StartNode hook. *)
Restart ==
    /\ c.last < MaxTimers
    /\ \E x \in Outcomes({SM!Send(y, [type |-> "start"]) : y \in Before([type |-> "start"])}) :
          c' = SM!AtRest(x) /\ host' = x.started

Next ==
    \/ \E e \in Events : Receive(e)
    \/ \E t \in host : TimerFires(t)
    \/ Restart

Spec == Init /\ [][Next]_vars

------------------------------------------------------------------------------
TypeOK ==
    /\ c.value \in DOMAIN Machine
    /\ c.prev \in DOMAIN Machine \cup {<<>>}
    /\ \A t \in c.active \cup host : <<t.state, t.delay>> \in SM!Keys /\ t.id \in 1..c.last
    /\ Range(c.data.pool.map) \subseteq Tx

HasTimer == \E t \in host \cap c.active : t.state = c.value

(* A validator in the middle of a round has a timer of its state on its way: entering
   a state again or cancelling, which walks over identifiers of other states, never takes
   the one it will need, and a restart sets one. *)
RoundHasTimer == c.value \in {Active, Precommit, Commit} => HasTimer

(* So has one that waits with transactions, although the timer of "waiting" is set
   only on entry and spent for nothing while there are none. *)
PendingTxHasTimer == c.value = Waiting /\ c.data.pool.map # <<>> => HasTimer

(* A timer moves the contract only in the state that set it, and never after it was
   cancelled, however late the host is. *)
TimersActWhereSet ==
    [][c'.value # c.value =>
          \A t \in host : t \notin c.active \/ c.value # t.state => ~TimerFires(t)]_vars

(* Whatever is in the pool, and whichever atomic transactions are in execution
   elsewhere, a batch is within the gas and the bytes of a block, and an atomic
   transaction is alone in it. *)
BatchFits == \A executing \in SUBSET {tx \in Tx : IsAtomic(tx)} : Fits(Batch(c.data.pool, executing))
=============================================================================
