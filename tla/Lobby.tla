------------------------------- MODULE Lobby --------------------------------
(* The lobby (wasmx-lobby): nodes of one level find each other by gossip, agree on
   the validators of a new chain, collect its genesis transactions and start it.

   A node is named by the place of its address in the alphabet.  A signature is
   who signed what; nobody checks the one on an answer, only that it is the same. *)
EXTENDS Naturals, Sequences, SequencesExt, FiniteSetsExt, FiniteSets

CONSTANTS
    Node,              \* a set of numbers
    FirstValidators,   \* the nodes that are first among the validators of their chain
    MinCounts,         \* what min_validators_count may be
    MaxStarts,         \* bound on the starts of all nodes
    MaxInFlight        \* bound on the messages not delivered

ASSUME LobbyAssumption ==
    /\ Node \subseteq Nat \ {0} /\ FirstValidators \subseteq Node
    /\ MinCounts \subseteq Nat \ {0}

VARIABLES
    min,      \* min_validators_count, the same for all
    node,     \* node[n]: the machine and the storage of the lobby contract of n
    msgs,     \* what was gossiped and not yet delivered, for each receiver
    signed    \* not of the code: <<n, id>> when n signed a list for chain id

lobbyVars == <<min, node, msgs, signed>>

NoSig == <<>>
Sig(n, id, vals) == <<n, id, vals>>

(* getNewChainResponse and getSubChainData when nothing is stored. *)
NoResponse == [id |-> 0, entries |-> <<>>]
NoGenesis == [id |-> 0, vals |-> <<>>, genTxs |-> <<>>, sigs |-> <<>>]

INIT_CHAIN_INDEX == 1

Vals(entries) == [i \in DOMAIN entries |-> entries[i].val]

Slot(vals, n) == {i \in DOMAIN vals : vals[i] = n}

(* The last of several, and the first of the list when there is none. *)
OurIndex(vals, n) ==
    IF Slot(vals, n) = {} THEN 1 ELSE CHOOSE i \in Slot(vals, n) : \A j \in Slot(vals, n) : j <= i

(* A stable sort by the address. *)
Inserted(es, e) == InsertAt(es, Cardinality({i \in DOMAIN es : es[i].val <= e.val}) + 1, e)

SortEntries(entries) == FoldLeft(Inserted, <<>>, entries)

MergeEntries(entries, more) ==
    FoldLeft(LAMBDA es, e : IF e.val \in Range(Vals(es)) THEN es ELSE Append(es, e), entries, more)

AtMost(seq, k) == SubSeq(seq, 1, IF Len(seq) < k THEN Len(seq) ELSE k)

------------------------------------------------------------------------------
(* What a handler leaves: the record, and in out what it sends. *)
Send(s, m) == [s EXCEPT !.out = @ \cup {m}]

SendNewChainRequest(s, n) ==
    IF n \in FirstValidators THEN Send(s, [type |-> "request", from |-> n]) ELSE s

SendNewChainResponse(s) == Send(s, [type |-> "response", data |-> s.response])

SendGenesis(s) == Send(s, [type |-> "genesis", data |-> s.genesis])

SendLastChainId(s) == Send(s, [type |-> "lastId", id |-> s.lastId])

AddNewChainRequest(s, from) ==
    IF from \in Range(s.requests) THEN s ELSE [s EXCEPT !.requests = Append(@, from)]

(* The place of a request is looked at nowhere: a validator that asks again is
   there twice. *)
ReceiveNewChainRequest(s, n, from) ==
    LET entries == Append(s.response.entries, [val |-> from, sig |-> NoSig])
    IN  IF n \notin FirstValidators THEN s
        ELSE IF s.response = NoResponse THEN AddNewChainRequest(s, from)
        ELSE IF Len(s.response.entries) >= min THEN s
        ELSE [s EXCEPT !.response.entries = SortEntries(entries)]

(* The list of n and those that asked, nobody's signature in it yet. *)
Unsigned(s, n) ==
    LET vals == <<n>> \o AtMost(s.requests, min - 1)
    IN  SortEntries([i \in DOMAIN vals |-> [val |-> vals[i], sig |-> NoSig]])

(* The mistake of taking the place it had before sorting. *)
CreateUnsorted(s, n) ==
    LET id == s.lastId + 1
        list == Unsigned(s, n)
    IN  [s EXCEPT !.response = [id |-> id, entries |-> [list EXCEPT ![1].sig = Sig(n, id, Vals(list))]],
                  !.requests = <<>>]

CreateNewChainResponse(s, n) ==
    LET id == s.lastId + 1
        list == Unsigned(s, n)
        our == OurIndex(Vals(list), n)
    IN  [s EXCEPT !.response = [id |-> id, entries |-> [list EXCEPT ![our].sig = Sig(n, id, Vals(list))]],
                  !.requests = <<>>]

(* A node without a list, or with one of only itself, takes the list over and
   signs it. *)
TakeOver(s, n, new) ==
    LET vals == Vals(new.entries)
    IN  SendNewChainResponse(
            [s EXCEPT !.response = [new EXCEPT !.entries[OurIndex(vals, n)].sig = Sig(n, new.id, vals)]])

(* Signatures are copied to empty slots at the same place. *)
CopySignatures(old, new) ==
    [i \in DOMAIN old |->
        IF i \in DOMAIN new /\ new[i].val = old[i].val /\ old[i].sig = NoSig THEN new[i] ELSE old[i]]

ReceiveNewChainResponse(s, n, new) ==
    LET old == s.response.entries
        our == OurIndex(Vals(new.entries), n)
        all == SortEntries(MergeEntries(CopySignatures(old, new.entries), new.entries))
    IN  IF s.response = NoResponse \/ (Len(old) = 1 /\ Len(new.entries) > 1) THEN TakeOver(s, n, new)
        ELSE IF new.id # s.response.id THEN s
        ELSE IF Len(old) = Len(new.entries) /\ old[our].sig # new.entries[our].sig THEN s
        ELSE [s EXCEPT !.response.entries = AtMost(all, min)]

IfIncludesUs(n, new) == n \in Range(Vals(new.entries))

(* The mistake of counting the validators and not what they signed. *)
CountedOnly(s) == s.response # NoResponse /\ Len(s.response.entries) >= min

IfValidatorThreshold(s) ==
    /\ s.response # NoResponse /\ Len(s.response.entries) >= min
    /\ \A i \in DOMAIN s.response.entries : s.response.entries[i].sig # NoSig

------------------------------------------------------------------------------
(* The first validator of the list makes the genesis data and signs it. *)
TryCreateNewChainGenesisData(s, n) ==
    LET vals == Vals(s.response.entries)
        none == [i \in DOMAIN vals |-> FALSE]
        sigs == [i \in DOMAIN vals |-> IF vals[i] = n THEN n ELSE 0]
    IN  IF vals[1] # n THEN s
        ELSE SendGenesis([s EXCEPT !.genesis = [id |-> s.response.id, vals |-> vals, genTxs |-> none, sigs |-> sigs]])

(* Data with as many genesis transactions replaces what the node has, its own
   transaction included; only the first data it gets is signed. *)
ReceiveNewChainGenesisData(s, n, data) ==
    LET our == OurIndex(data.vals, n)
    IN  IF s.genesis = NoGenesis
        THEN [s EXCEPT !.genesis = [data EXCEPT !.sigs[our] = IF @ = 0 THEN n ELSE @]]
        ELSE IF Len(s.genesis.genTxs) > Len(data.genTxs) THEN s
        ELSE [s EXCEPT !.genesis = data]

IfGenesisDataComplete(s) ==
    /\ Len(s.response.entries) >= min
    /\ s.genesis # NoGenesis /\ Len(s.genesis.genTxs) >= Len(s.response.entries)
    /\ \A i \in DOMAIN s.response.entries : s.response.entries[i].sig # NoSig /\ s.genesis.genTxs[i]

(* A node that is not among the validators starts nothing. *)
InitializeChain(s) == SendLastChainId([s EXCEPT !.lastId = s.genesis.id, !.fsm = "initialized"])

EnterInitializing(s) ==
    IF IfGenesisDataComplete(s) THEN InitializeChain(s) ELSE [s EXCEPT !.fsm = "initializing"]

EnterNegotiating(s, n) ==
    IF IfValidatorThreshold(s) THEN EnterInitializing(TryCreateNewChainGenesisData(s, n))
    ELSE [s EXCEPT !.fsm = "negotiating"]

------------------------------------------------------------------------------
InitNode == [fsm |-> "unstarted", starts |-> 0, requests |-> <<>>, response |-> NoResponse,
             genesis |-> NoGenesis, lastId |-> INIT_CHAIN_INDEX, out |-> {}]

LobbyInit ==
    /\ min \in MinCounts
    /\ node = [n \in Node |-> InitNode]
    /\ msgs = {}
    /\ signed = {}

Started(n) == node[n].fsm \in {"requesting", "negotiating"}

(* What a machine takes in its state: the lobby room, and the room of a new chain,
   of which only those that listen already get a message. *)
Takes(s, m) ==
    CASE m.type \in {"request", "response"} -> s.fsm \in {"requesting", "negotiating"}
      [] m.type = "genesis" -> s.fsm = "initializing" /\ s.response.id = m.data.id
      [] m.type = "lastId" -> s.fsm \in {"requesting", "negotiating", "initialized"} /\ s.lastId < m.id

(* The end of an event of n that received what is in got: any of what it sends
   may be lost, and what comes to a state that does not take it is. *)
Install(n, r, got) ==
    /\ node' = [node EXCEPT ![n] = [r EXCEPT !.out = {}]]
    /\ \E sent \in SUBSET {p \in [to : Node \ {n}, body : r.out] : Takes(node[p.to], p.body)} :
           /\ msgs' = {p \in (msgs \ got) \cup sent : Takes(node'[p.to], p.body)}
           /\ Cardinality(msgs') <= MaxInFlight
    /\ signed' = signed \cup
           {<<n, r.response.id>> : e \in {e \in Range(r.response.entries) : e.sig # NoSig /\ e.sig[1] = n}}
    /\ UNCHANGED min

Start(n) ==
    /\ node[n].fsm \in {"unstarted", "requesting", "negotiating"}
    /\ MapThenSumSet(LAMBDA k : node[k].starts, Node) < MaxStarts
    /\ Install(n, SendNewChainRequest([node[n] EXCEPT !.fsm = "requesting", !.starts = @ + 1], n), {})

(* newchainTimeout *)
Timeout(n) ==
    /\ node[n].fsm = "requesting"
    /\ Install(n, EnterNegotiating(SendNewChainResponse(CreateNewChainResponse(node[n], n)), n), {})

(* In negotiating every request is answered with the list, also when it is full. *)
ReceiveRequest(m) ==
    LET n == m.to
        r == ReceiveNewChainRequest(node[n], n, m.body.from)
    IN  /\ m.body.type = "request" /\ Started(n)
        /\ Install(n, IF node[n].fsm = "negotiating" THEN SendNewChainResponse(r) ELSE r, {m})

ReceiveResponse(m) ==
    /\ m.body.type = "response" /\ Started(m.to)
    /\ IfIncludesUs(m.to, m.body.data)
    /\ Install(m.to, EnterNegotiating(ReceiveNewChainResponse(node[m.to], m.to, m.body.data), m.to), {m})

ReceiveGenesis(m) ==
    /\ m.body.type = "genesis" /\ node[m.to].fsm = "initializing"
    /\ Install(m.to, EnterInitializing(ReceiveNewChainGenesisData(node[m.to], m.to, m.body.data)), {m})

(* A user adds the genesis transaction of the node. *)
AddGenTx(n) ==
    /\ node[n].fsm = "initializing" /\ node[n].genesis # NoGenesis
    /\ LET g == node[n].genesis
           added == [g EXCEPT !.genTxs = [i \in DOMAIN @ |-> @[i] \/ g.vals[i] = n]]
       IN  Install(n, EnterInitializing(SendGenesis([node[n] EXCEPT !.genesis = added])), {})

(* heartbeatTimeout *)
Heartbeat(n) == node[n].fsm = "initialized" /\ Install(n, SendLastChainId(node[n]), {})

ReceiveLastChainId(m) ==
    LET s == node[m.to]
    IN  /\ m.body.type = "lastId" /\ s.fsm \in {"requesting", "negotiating", "initialized"}
        /\ Install(m.to, IF s.lastId < m.body.id THEN [s EXCEPT !.lastId = m.body.id] ELSE s, {m})

LobbyNext ==
    \/ \E n \in Node : Start(n) \/ Timeout(n) \/ AddGenTx(n) \/ Heartbeat(n)
    \/ \E m \in msgs : ReceiveRequest(m) \/ ReceiveResponse(m) \/ ReceiveGenesis(m) \/ ReceiveLastChainId(m)

LobbySpec == LobbyInit /\ [][LobbyNext]_lobbyVars

------------------------------------------------------------------------------
(* Lists are sorted, merged, cut and copied slot by slot between nodes: a
   signature is always beside the validator that made it, for the chain of the
   list, in the list of validators as in the genesis data. *)
SlotsAreOwn ==
    \A n \in Node :
        /\ \A e \in Range(node[n].response.entries) :
               e.sig = NoSig \/ (e.sig[1] = e.val /\ e.sig[2] = node[n].response.id)
        /\ \A i \in DOMAIN node[n].genesis.sigs : node[n].genesis.sigs[i] \in {0, node[n].genesis.vals[i]}

(* No chain is set up with a validator that has not signed for it, in a list of
   the length asked for, and genesis data goes round only with those that have. *)
Consent ==
    \A n \in Node :
        LET s == node[n]
        IN  /\ s.fsm \in {"initializing", "initialized"} =>
                  /\ Len(s.response.entries) >= min
                  /\ \A e \in Range(s.response.entries) : <<e.val, s.response.id>> \in signed
            /\ \A v \in Range(s.genesis.vals) : <<v, s.genesis.id>> \in signed
==============================================================================
