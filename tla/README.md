# Formal models of wasmx-as-contracts

This directory holds TLA+ models of the contracts of this repository,
configurations that check them with TLC on small instances, and proofs that TLAPS
checks for every value of the constants.

The repository is a set of WebAssembly contracts, written in AssemblyScript, from
which a `wasmx` chain is assembled: the consensus protocol itself is a contract
(a state machine interpreted by `xstate-fsm-as`, with handlers in a library
contract), and so are the block store, staking, bank, governance and the rest.
The consensus the chains run on is `wasmx-tendermint-p2p`: Tendermint over a
gossip network. It is where concurrency, message loss and timeouts meet, and so
it is the core of this project: the other parts are modelled around it.

Contents: 1 inventory, 2 modules, 3 runs, 4 proofs, 5 what is not modelled, 6 plan.

## 1. Inventory

| component | state | operations | what makes it hard | what must hold |
|---|---|---|---|---|
| Tendermint-P2P machine (`tests/stately.ts`, `actions.ts`) | machine state, round (`termId`), `CurrentState` (next height and hash, locked/valid values, proposer queue) | `start`, `receiveBlockProposal`, `receivePrevote`, `receivePrecommit`, `receiveCommit`, three round timers, state sync, node sync, `stop` | messages late, lost, repeated, out of order; timers racing votes; rounds forced back by old proposals | votes genuine, locks justified, blocks final only with a quorum, chain linked |
| Vote counting and finalization (`action_utils.ts`, `types_blockchain.ts`) | vote arrays per height, commit signatures | `calculateVote`, `startBlockFinalization*`, `getCommitSigsFromPrecommitArray`, `resize` | rounding, votes of several rounds in one array, arrays of a changing set | strict two thirds; complete addresses |
| Proposer rotation (`action_utils.ts`, `setRoundProposer`) | weighted queue, index, round of the queue | `updateProposerQueue`, `getNextProposer`, catching up | nodes at different rounds, changing validator sets | same round, same proposer |
| Tendermint library (`wasmx-tendermint`) | mempool, parameters | `proposeBlockInternalAndStore`, `buildBlockProposal`, `verifyBlockProposal` | proposing a block again in a later round; pool limits | a verified block builds on the last one; a batch fits a block |
| Block store (`wasmx-blocks`) | blocks, consensus parameters kept as changes | `setBlock`, `setConsensusParams`, `rollback`, snapshots | rollback, bootstrapping | the store is a prefix of the chain |
| Interpreter (`xstate-fsm-as`) | state value, context, timers | `run`, `transition`, `eventual` | guards with effects, timers that outlive their state | a state's timer fires only there |
| State and node sync | node lists, batches of blocks | `receiveStateSyncRequest/Response`, `receiveUpdateNodeResponse` | batches overlapping with rounds, late answers | no gap, no overwrite by older data |
| Raft, Raft-P2P | term, vote, log, `nextIndex`, commit index | election, append entries, commit | leader change, lost messages | logs grow, final by a majority, a leader finalizes |
| Avalanche Snowman | preferred block, confidence counters | sample, count, accept | lost answers, failing calls | decide once, after enough rounds of enough answers |
| Level 0 and on-demand chains | the machine, its timers, the pool | transactions, timers, votes | timers lost, cancelled or late | a pending transaction is never without a timer |
| Lobby | candidate lists, signatures, genesis data | requests, answers, last chain id, genesis transactions | several lobbies at a time, merged lists | a validator's slots are its own, nobody starts a chain alone |
| Staking, slashing, distribution | delegations, windows of missed blocks, rewards | delegate, undelegate, redelegate, jail, unjail, withdraw | rounding, the window at its limit | what is bonded is what was delegated |
| Bank and tokens | balances, allowances, supply | send, multisend, mint, burn, approve | aliasing, units, calls that fail silently | conservation, allowances bound what is taken |
| Governance | proposals, deposits, votes, two queues | submit, deposit, vote, end of block | several proposals ending at once | nothing is decided early or twice |
| Big integers (`as-tally`) | numbers of any length | arithmetic, comparison, shifts, text | carries, borrows, quotient digits | agreement with integers |
| Multichain registries, roles, hooks, code registries | maps | register, look up, dispatch | levels of chains | names resolve to one contract |
| Applications, EVM interpreter, host bindings, tests | | | not state machines of the chain's core | |

`PROJECT.json` lists these components with their source files, and the hazards of
the code with the lines where they bite.

How they interact: the interpreter runs the handlers of the consensus contract for
an event from the network, a timer or an operator. Handlers read and write the
contract's storage, call the block store, staking and host contracts
synchronously, and broadcast to a gossip topic. Two handlers of one node never
interleave, so all concurrency is between nodes: one event is one atomic step of a
node, and messages are the only shared state. The chain's own contracts (staking,
bank, governance, slashing) run inside a block, one call after the other: there the
difficulty is in sequences of calls, in what a failing call leaves, and in rounding.

## 2. Modules

| module | models |
|---|---|
| `ProposerQueue` | validators, stake, the two-thirds threshold, the weighted rotation of proposers (`action_utils.ts`, `setRoundProposer`) |
| `TendermintNode` | one validator: its storage as a record, and every guard and handler as an operator from that record to the next |
| `TendermintP2P` | the network: one action per event the machine of `tests/stately.ts` accepts in a Validator state; invariants |
| `CertifiedLedger` | the abstract specification: what the consensus promises the application |
| `TendermintClaims` | sentences of the code's comments as properties; the code does not keep them (section 3) |
| `RaftP2P` | the RAFT-P2P-1 machine on every node of a fixed network |
| `Snowman` | the Snowman-BFT machine on every node: rounds of samples inside one call |
| `BlockStore`, `ChainSync` | the block store of a node; state sync, snapshots, commits, node sync and joining validators, with the rounds of consensus as one step |
| `StateMachine` | the interpreter, for any machine given as a constant |
| `Mempool`, `OnDemandNode` | the pool of transactions; one validator of an on-demand chain as `StateMachine` running its machine |
| `Lobby` | nodes that find each other and agree on the validators of a new chain |
| `Erc20`, `BankLedger` | the token contract as operators; the bank over the tokens of its denominations |
| `StakingLedger` | staking, the staking token and distribution, over the tokens of `Erc20` |
| `Slashing` | windows of missed blocks, jailing and unjailing |
| `Governance` | proposals, deposits, votes and the end of a block |
| `Tally` | the big integers, digit by digit |
| `MC*` | the values of constants for TLC |
| `Induction` | what the proofs rest on: induction over numbers and sets, recursive functions, folds and sums |
| `*_proofs` | theorems and proofs about the module of that name; `Stake_proofs` about `StakingLedger` and `Slashing`, `Agreement_proofs` about `Governance` and `Lobby`, the end of `TendermintP2P_proofs` about `Mempool` |

`OnDemandNode` composes three of these: it instantiates `StateMachine` with the
machine of the on-demand chain and extends `Mempool`; `BankLedger` and `StakingLedger` extend
`Erc20`; `ChainSync` extends `BlockStore`. The refinement mapping from `TendermintP2P` to
`CertifiedLedger` is the instance `Ledger` at the end of `TendermintP2P`: the height and
chain of a validator are those of its block store, and a height is certified when
the network holds precommits of a quorum for one hash.

### Tendermint-P2P

A node's record is the contract's storage: `termId` (`getTermId`), `nextHeight`,
`nextHash`, `lockedValue`, `lockedRound`, `validValue`, `validRound`, `proposerIndex`,
`proposerQueue`, `proposerQueueTermId` and `lastRound` (`last_round`) of `CurrentState`; `lastLogIndex` and
`logs` (`getLogEntryObj`); `lastBlockIndex` and `blocks` (the block store);
`prevotes` and `precommits`, the arrays of the *next* height, since the code drops
the others when a block is final; `lastSigs`, the precommits kept as
`last_block_signatures`. `fsm` is the state of the machine that is left when the
event is over. `out` collects what the handler broadcasts, `ok` becomes FALSE when
it reverts. Both are empty between events.

A block hash is the ordinal of the block among all
blocks built; `NoHash` is the empty string and `Nil` is `"nil"`. A header is the height
and the parent hash, the part of `verifyBlockProposal` that tells blocks apart.
A validator's index is its identity, as in the code's arrays. Signatures
are not modelled: a vote in `msgs` is one its sender broadcast, and a handler that
verifies it accepts it. A slot of a vote array keeps the fields some decision
reads: the hash, and for precommits the round; `Unaddressed` is a slot whose
validator address was never set.

An action of `TendermintP2P` is one event: guard, exit and transition actions, the entry
actions of the target state, then every `always` transition whose guard holds,
as `machine.ts` runs them. The operators `EnterActive`, `EnterProposer`,
`EnterPrevote`, `EnterPrecommit` and `CommitAndSend` are the entry lists of the
states, each followed by the transition it may fall through to. So a timeout of a
proposer goes from `commit` through `active` and `Proposer` to `prevote`, and
further if it is a quorum by itself, in one step, as in the code.

| event | action |
|---|---|
| `start` | `Start`, also from any state: a node that was stopped starts again with its storage |
| `timeoutPropose` in `active` | `TimeoutPropose` |
| `timeoutPrevote` in `prevote` | `TimeoutPrevote`, to `precommit` with a vote for nil, or to a new round |
| `timeoutPrecommit`, `roundTimeout` | `TimeoutRound` |
| `receiveBlockProposal` | `ReceiveProposal` (the sender is the proposer), `ReceiveForcedProposal`, `RejectForcedProposal` (the guard refuses, its effects stay), `ReceiveNextProposal` (in `commit`) |
| `receivePrevote`, `receivePrecommit`, `receiveCommit` | `ReceivePrevoteMsg`, `ReceivePrecommitMsg`, `ReceiveCommitMsg` |

A child state's handler hides the one of its parent for the same event, also when its
guard refuses it (`machine.ts`, `transition`); the guards of the receive actions
follow from that.

`msgs` only grows and every message in it can be received at any time, any number
of times, by any node other than its sender. So loss, delay, duplication and
reordering need no action of their own. A revert restores the storage of the node
and not what it broadcast, which is a host call.

`FinalizeUpTo` gives in closed form what the loop of `receiveCommit` does for
several heights: which of the heights can be finalized (`CanFinalize`), the queue
catching up with the highest round met on the way, and the values of the last block.

### State sync (`ChainSync`)

The votes of a round are one step, `Certify`: the network decides a block for the next height,
and commits of it are broadcast. What is modelled in detail is how nodes come to have
those blocks: the batches of `sendStateSyncBatch`, the snapshot a node bootstraps
from, the commits it hears, restarts, `rollback` by an operator, and validators that
join, with the lists of nodes and the proposer queues that `receiveUpdateNodeResponse`
overwrites. Field `base` of a node is a ghost: the block of the snapshot it started from.

Proposals are modelled for what they do to logs, rounds and queues: `receiveBlockProposal` stores entries, also ahead
of the node's height, and `ifForceProposalReset` and `rollbackTermIdWithStateChange` roll the round back and replace the proposer and
its queue by the sender's. The fsm state `active` stands for `active`, `prevote` and `precommit`, whose handlers for a proposal
are alike here. There is one block per height: a stored proposal that lost to another block is not told apart from the block that
won, which `ProcessAndFinalize` would overwrite. `last_round` and the lock are left open, so a forced proposal may be
accepted, refused after the roll back, or turned down. A proposer has the signatures of the last block.

The code differs from what one might expect in several places, and the model follows the code:
after a rollback to the block of a snapshot the node has no consensus parameters
(`StoreFollowsChain` allows it); `rollback` keeps the last block id, application hash and time of
the removed block, so the node cannot verify it again; a node bootstrapped from a snapshot reverts on the first block that
changes the parameters back to a height before it; a joining node may list the nodes in
another order than the validators, and a late answer may replace a longer list by a shorter one;
and the agreement of proposer queues fails after the proposal of a block that its proposer kept from an earlier round: the
receiver goes back to the round of the block and takes the queue the sender has now. The ghost `mixed` marks such
a queue, and is handed on with it. `QueuesAgree` is about the other queues, those of rolled-back nodes included, and as long as
no validator joined; without the exception TLC refutes it.

### Raft (`RaftP2P`)

One action per event of the machine: election timers, `becomeCandidate`, vote requests and
their answers, heartbeats with entries, answers that move `nextIndex`, the commit of a
block. Messages are lost, duplicated in the sense that an old one may still arrive, and reordered. The code does
not cut a follower's log and does not step down, so the properties are what is
left of Raft: logs only grow, chains are linked, what a leader finalizes of its *own* blocks had a majority
(`FinalizedByMajority`). For a block of an earlier leader that is false from five nodes on: `initializeNextIndex` presets the
next index of every node past the log the leader was elected with, and `checkCommits` counts a next index as an answer.
`AppliedIsFinal`, `CommittedByMajority`, `OneVotePerTerm` and `VoteForUpToDate`, which one would expect of Raft, do not hold.

### Snowman (`Snowman`)

A node that has a block samples inside one call of its contract: each round asks `SampleSize` nodes one after
another. A question may fail, and a busy node answers only questions. What the call changed is undone when
the call fails. A question whose answer is lost may have taken effect. The interpreter removes failed `always` transitions from the machine's own list, which
`dropProposer` and `dropLimbo` count. The confidence of blocks is left out: the guard that reads it fails
on a missing parameter, which counts as false.

### Interpreter and on-demand chain (`StateMachine`, `OnDemandNode`)

`StateMachine` is parameterised by the machine, the guards (`Holds`) and the effects
(`Effect`). It has the order of exits, actions and entries, parents' transitions, `always`, timers
with their identifiers, and `cancelActiveIntervals`, which walks down the identifiers and stops at the first inactive one.
`OnDemandNode` gives it the machine of `wasmx-level0-ondemand/tests/stately.ts`. What the
guards read of the consensus is chosen anew for each call, with one restriction: in a chain of
`always` transitions the answers for one vote count are a prefix (a block that has two thirds has a vote). A block that is
finalized has any of the transactions of the pool. The host
keeps timers until it delivered them, possibly after they were cancelled; a restart loses them.

### Lobby

Requests, lists of validators, signatures, genesis data and transactions, last chain ids. Loss is chosen when a message is sent
(`Install` keeps any subset), and a message for a state that does not take it is dropped (`Takes`). Lists are
sorted by inserting one place after another, and merged, cut and copied as in the code. `SlotsAreOwn` says that a signature stays beside the
validator that made it through all of this; `Consent` says that a chain is started only when every validator of the list has signed for that
chain. Neither says that the signatures are over one and the same list, or that a validator has one seat: signatures over different lists are
counted together, and a validator can be seated twice (section 3). The model
also shows, without a property: chain ids are not unique across groups; two nodes whose timers end together can wedge each other;
`receiveNewChainGenesisData` overwrites the genesis data, so a genesis transaction added at the same time is lost; a
node cut out of its own list goes on.

### Tokens, staking, slashing, governance

In these contracts one action is one transaction that succeeds, because a revert undoes all of it. `Erc20` is the
token as operators that return the next token and whether the call reverted. `transferFrom` without an allowance returns
without moving anything and without failing, as in the code. `move` reads both balances before it writes one, so a transfer to
oneself makes coins, and `burn` compares with the balance and not with the supply, which then is the absolute value of a number below zero (`Minus`).
Both happen in the models; the ghosts `made` and `wrapped` of a token count them, and conservation is conservation but for those two amounts.

`StakingLedger` holds the five figures in which the code keeps a
stake and the two lists of who delegated to whom; distribution rounds shares down one by one. No contract compares what is undelegated or
redelegated with the delegation, so the amounts of a delegator and of a validator may become the absolute values of
numbers below zero; the ghost `overtaken` says that a call took more than was there, and the properties say what holds until then and what holds always.
`ParseBigFloat` reads a commission as the code does: a text without a point stands for one more than it says, and
nothing bounds it. Where it exceeds the fees, what is left is a huge unsigned number; the shares of it are any of `Wrapped`.

`Slashing` keeps the ring of missed
blocks and, as ghosts, the window itself (`recent`), the blocks missed (`misses`) and when the counting began (`since`). `deleteMissedBlockBitmap` deletes
the range from a validator's own bits to an *empty* end key. What a host makes of that is not in this repository: the variable
`emptyEnd` is "rest" when it deletes the bits of the later addresses too, "nothing" when it deletes none, and the properties are about both. The ghost `apart` has the validators
whose bits and counter were not cleared together. Counters then err one way: with "rest" a counter is at least what was missed in the window, so a validator may be
jailed for fewer; with "nothing" it is at most that.

`Governance` has one `EndBlock` per block, with both queues; the
list of deposits is read by nothing and left out; the stake of an account is constant. The messages of a passed proposal run as this contract, and may
pay of the deposits it holds: `PaidBy` pays any amount to any account, also when a later message of the proposal fails, and `spent` counts it. A rejected proposal ends the loop that decides
proposals, so the later ones stay undecided (`VotesAreDecided` does not hold); a plain vote checks neither the status
nor whether the account voted.

### Big integers (`Tally`)

A half digit (16 bits) is one of `H`, a word is two. Loops are recursive functions. A number carries its length, which decides where
results wrap. Known defects of the code are in the model: `add` loses a carry that passes through a word of all ones, and
`fromString` skips the sign (`AddIsExact` and `TextRoundTrip` do not hold).

## 3. Runs

| run | module, instance, states | properties | shows |
|---|---|---|---|
| `ledger` | `MCTendermintP2P`: 2 validators, stakes 1 and 3, rounds and heights to 3, 3 blocks; 20,460 | `TypeOK`, `VotesWereCast`, `PrecommitJustified`, `LockJustified`, `PrecommitHasBlock`, `FinalByQuorum`, `ImplementsLedger` | one validator decides heights while the other lags, so votes, locks and commits of different rounds and heights meet; refinement of `CertifiedLedger` |
| `raft_trio` | `MCRaftP2P`: 3 nodes, terms and heights to 2, two messages on their way; 749,252 | `LogsOnlyGrow`, `ChainLinked`, `CommitWithinLog`, `FinalizedByMajority` | safety with two leaders at a time |
| `raft_leader` | `MCRaftP2P`: 2 nodes, 1 term; 1,488 | `LeaderFinalizes` | liveness: a leader's block becomes final although messages are lost |
| `bank_units` | `MCBankLedger`: 2 holders, 2 denominations, one with a unit of two, supply 2; 1,944 | `SupplyIsBalances`, `MultiSendTakesInputs`, `TakesWithinAllowance` | conservation through nested calls, transfers to oneself and burns beyond the supply |
| `stake_ledger` | `MCStakingLedger`: 2 users with 2 coins and 1, one of them registered; 172,605 | `StakeAgrees`, `ListsAgree`, `NoInflation` | any sequence of delegations, redelegations, withdrawals, also of more than there is, with commissions of a half and of two |
| `slash_window` | `Slashing`: 2 validators, window 3, 8 blocks, either meaning of an empty end key; 58,913 | `CounterIsSlidingWindow`, `JailedForDowntime`, `TimeIsServed` | the ring goes round twice, with jailing in between that takes the bits of the later address along or leaves its own |
| `tally_exact` | `MCTally`: all pairs of numbers of one or two words of base-4 digits; 4,096 | `MulSubExact`, `OrderAndShiftAgree`, `DivisionAgrees` | the digit algorithms agree with integers |
| `snow_trio` | `MCSnowman`: 3 nodes, 2 blocks, 2 heights; 366,429 | `FinalNeverChanges`, `AtLeastBetaRounds`, `ThresholdWasReached` | decisions under lost answers and failing calls |
| `demand_node` | `MCOnDemandNode`: 2 transactions, 5 timers; 177,209 | `RoundHasTimer`, `PendingTxHasTimer`, `BatchFits`, `TimersActWhereSet` | no lost wake-up; timers act only where they were set |
| `gov_periods` | `MCGovernance`: 2 accounts with 1 coin and 3, 3 proposals, 4 times; 240,979 | `DepositsExpire`, `VotingQueued`, `DepositsHeld`, `DecidedOnce` | queues with several proposals ending in one block |
| `chain_sync` | `MCChainSync`: 2 founders and a joiner, 2 blocks; 637,229 | `StoreFollowsChain`, `OwnIdIsOwn`, `QueuesAgree` | sync overlapping with proposals, commits, restarts and rollbacks of blocks and of rounds |
| `lobby_trio` | `MCLobby`: 3 nodes, groups of 2 or 3; 247,631 | `SlotsAreOwn`, `Consent` | overlapping lobbies |

What each property says is in the comment above it. Every property has at least one mutant in
`PROJECT.json`: a plausible mistake in one of the definitions, written as an operator beside it, under which the run finds the property violated.

`CHECK_DEADLOCK FALSE` appears where the bounds stop the model (no block, term or timer is left to
use) and where the system itself rests, such as a ledger in which nobody has coins. In `ledger` deadlock is
checked: within its bounds no state is stuck.

### Bounds

Every bound is a constant named `Max...` and is a guard of the actions that use up what it bounds, or a
`CONSTRAINT` of the MC module.

- *Consensus*: three rounds let a block be proposed, kept and proposed again, and let a node be
  forced forward and back between them. `ifForceProposalReset` rolls back when no block is
  final yet, which the run reaches; its other
  condition, more than two rounds since the last block, takes a fourth round and is left to the proofs: the step
  it allows is the same. With stakes 1 and 3 no set of validators has exactly two thirds: that strictly more is asked for, at every total, is
  theorem `Threshold`. Height 3 lets a commit arrive for a height the node cannot finalize yet.
- *Raft*: two terms give two leaders at once, two heights a block committed by either; a majority of three is two. Two messages on their
  way are what a reordering needs.
- *Snowman*: with three nodes a sample is everybody else. Beta is 2, so a decision needs two rounds; the threshold at three answers in `Limbo` is not reached.
- *Tokens and staking*: a supply of two is a unit of the larger denomination, and amounts of one and two are below, at and above
  every balance, allowance and delegation. In staking the `CONSTRAINT` `Few` bounds the coins and stakes that transfers to
  oneself and calls of more than there is make; 2 coins and 1 make shares that do not divide.
- *Slashing*: window 3 with limit 1 and 8 blocks; every index of the ring is overwritten, and a validator can be jailed twice.
- *On-demand*: no call but that of a transaction begins once five timers were set. The fourth is the first that "waiting" can set, so the
  first transaction sets the fifth and a second one, or the block it brings about, may set more.
- *Governance*: with periods of 1 and 4 times, three proposals end before, with and after each other.
- *Sync*: batches of one block, so that a chain of two blocks takes two of them and a late one overlaps with a commit.
- *Lobby*: three nodes, of which two or three make a chain; four starts let one restart.
- *Numbers*: with `H = 4` and two words, every carry, borrow, quotient guess and correction occurs; the algorithms treat
  words uniformly above that.

The theorems of section 4 are for every value of these constants.

### Where the code differs from its words

Some definitions state what a comment, a name or a test suggests, and the code does not keep them. They are kept beside the properties
as documentation and no run checks them: in `TendermintClaims` (signatures of an earlier round in a commit, a kept block proposed
with its old round, a block ahead of its height that is not stored, slots without an address, a queue more than one
round behind, a refused proposal that still rolls the round back, a prevote for the previous block); in `RaftP2P`
(`AppliedIsFinal`, `CommittedByMajority`, `OneVotePerTerm`, `VoteForUpToDate`); in `Governance` (`VotesAreDecided`); in `Tally` (`AddIsExact`, `TextRoundTrip`);
in `Slashing` (`StartIsUnjailHeight`, `ResetTogether`: counter and bits are not cleared together, whatever an empty end key means); in `BankLedger` (`InputsAreOutputs`: a multisend takes a denomination that only its outputs name); in
`StakingLedger` (`DelegationsAddUp`: a second delegation replaces the first; `StakeIsGivenBack`: an undelegation pays from the staking
token's own account).

A validator can have two seats in a new chain, from four nodes on and without a restart. Nodes 2, 1 and 4 start, 2 lists the three, and 4 and 1 sign. Only
then does the request that 4 sent at the start reach 1, which seats it again without looking (`receiveNewChainRequest`): 1, 2, 4, 4. Meanwhile
3 asks another node, whose list is 1, 2, 3, 4; when it arrives, 4 is at the same place in both lists, so its signature is copied to its second seat. Of the
five validators asked for, all have then signed, and four exist. No comment or test speaks of it, so it is not a finding;
`Consent` says what is left, that nobody is listed who has not signed.

Agreement on *which* block is final at a height is not among the invariants of Tendermint-P2P. The
code clears the lock on entering a round (`resetPrevotes`), `sendPrevote` does not look at
locks and vote counts do not look at rounds, so quorums for two blocks at one
height are possible with three validators (TLC needs 14 steps). Nothing in the repository
claims otherwise, so this is a hazard and not a finding.

### Fairness

Only `RaftP2P` states fairness (`FairSpec`): weak fairness of becoming a leader and of the leader's heartbeat timer,
which the host delivers whatever else happens, and strong fairness of delivering each kind of message, since the
network loses messages but not all of those sent again and again. `LeaderFinalizes` is about the first leader: after
a second election a log with a gap makes `processAppendEntries` revert, no answer goes out, and the leader never lowers the
index. Tendermint-P2P has no liveness property: an old proposal may force nodes back for ever.

## 4. Proofs

TLAPS checks the following for every value of the constants that satisfies the assumptions declared with them
(`...Assumption` in each module): any number of nodes, validators or accounts, any stake, any bound.

| module | theorem | statement |
|---|---|---|
| `TendermintP2P_proofs` | `TypeCorrect` | `Spec => []TypeOK` |
| | `VotesAreGenuine` | `Spec => []VotesWereCast` |
| | `PrecommitsAreJustified` | `Spec => []PrecommitJustified` |
| | `LocksAreJustified` | `Spec => []LockJustified` |
| | `WaitsForABlock` | `Spec => []PrecommitHasBlock` |
| | `FinalityNeedsQuorum` | `Spec => []FinalByQuorum` |
| | `Refinement` | `Spec => ImplementsLedger` |
| | `Threshold` | `Power(S) > BFTThreshold` exactly when `3 * Power(S) > 2 * TotalPower` |
| | `RotationComposes` | `AdvanceQueue` by `a` rounds and then by `b` is `AdvanceQueue` by `a + b` |
| | `FinalizesInTurn` | `FinalizeUpTo` a height is `FinalizeUpTo` the one below and then that one; `CanFinalize` likewise |
| | `BatchesFit` | `Fits(Batch(pool, executing))` for any pool, gas and sizes |
| `RaftP2P_proofs` | `TypeCorrect` | `Spec => []TypeOK` |
| | `ChainsAreLinked` | `Spec => []ChainLinked` |
| | `CommitsWithinLogs` | `Spec => []CommitWithinLog` |
| | `LogsGrow` | `Spec => LogsOnlyGrow` |
| | `FinalizesByMajority` | `Spec => FinalizedByMajority` |
| `Snowman_proofs` | `TypeCorrect` | `Spec => []TypeOK` |
| | `FinalityLasts` | `Spec => FinalNeverChanges` |
| | `RunsBetaRounds` | `Spec => AtLeastBetaRounds` |
| | `ReachesThreshold` | `Spec => ThresholdWasReached` |
| `BankLedger_proofs` | `TypeCorrect` | `Spec => []TypeOK` |
| | `KeepsSupply` | `Spec => []SupplyIsBalances` |
| | `Allowances` | `Spec => TakesWithinAllowance` |
| | `TakesInputs` | `Spec => []MultiSendTakesInputs` |
| `Stake_proofs` | `StakesAgree` | `Spec => []StakeAgrees` |
| | `ListsMatch` | `Spec => []ListsAgree` |
| | `NoneFromNothing` | `Spec => []NoInflation` |
| | `TypeCorrect` | `Spec => []TypeOK` |
| | `Counts` | `SlashingSpec => []CounterIsSlidingWindow` |
| | `JailsForDowntime` | `SlashingSpec => JailedForDowntime` |
| | `ServesTheTime` | `SlashingSpec => TimeIsServed` |
| `Agreement_proofs` | `Expires` | `Spec => []DepositsExpire` |
| | `QueuesVotes` | `Spec => []VotingQueued` |
| | `HoldsDeposits` | `Spec => []DepositsHeld` |
| | `DecidesOnce` | `Spec => DecidedOnce` |
| | `LobbyInvariant` | `LobbySpec => []LobbyInv` |
| | `SlotsStayOwn` | `LobbySpec => []SlotsAreOwn` |
| | `NoChainWithoutConsent` | `LobbySpec => []Consent` |
| `ChainSync_proofs` | `SyncInvariant` | `Spec => []IInv` |
| | `StoresFollowTheChain` | `Spec => []StoreFollowsChain` |
| | `IdsAreTheirOwn` | `Spec => []OwnIdIsOwn` |
| | `QueuesAreOfTheirRounds` | `Spec => []QueuesAgree` |

**Tendermint: the inductive invariant.** `IInv` is `TypeOK`, `PrecommitHasBlock`,
`Good(node[n], msgs)` for each node, and `MessagesIn(msgs)`. The properties are not
inductive by themselves. A block can become final without the node ever counting a
vote, from a commit message, so `FinalByQuorum` needs to know that a *commit in the
network* is for a certified height, which is in `MessagesIn`; that a commit comes
from `buildCommitMessage`, after the sender finalized that height, which is in
`ChainIn`; and that the sender finalized only after a quorum, whose votes
`VotesIn` says are in the network. The clause `LocksIn` does for locks what `ChainIn`
does for blocks. All of these grow with `msgs`: a lemma says that a node that is good
for a set of messages is good for a larger one, which covers every node
that does not move.

The first part of `TendermintP2P_proofs` has one lemma per handler:
a good record goes to a good record, and what it broadcast is justified.
Handlers are composed as in the code, so the lemmas of `EnterPrevote` cite those of
`SendPrecommit` and `EnterPrecommit`, down to `FinalizeUpTo`. The second part has
one lemma per action, which adds the guard, the choice of the message and `Install`,
the step that puts a record and its messages into the network. The refinement adds that
`lastBlockIndex` and `blocks` change in `FinalizeUpTo` only, and there by linked blocks at
certified heights.

Two theorems justify definitions that stand for a loop of the code. `FinalizeUpTo` gives the result of the loop of `receiveCommit` at
once; `FinalizesInTurn` says that finalizing up to a height is finalizing up to the one below it and then that height alone, which is
the loop. It rests on `RotationComposes`: a queue that catches up in several goes ends where it would in one, so
nodes that catch up at different moments have the same proposer in the same round.

**Raft.** `ChainLinked` and `CommitWithinLog` follow from a fact about each node, `NodesSound`: the block of height `i` is at index `i`
of the log, and the chain is the linked beginning of the log up to the commit index. Heartbeats carry the same fact
(`MessagesSound`). `FinalizedByMajority` needs three more: the proposer of every entry is a leader (`LogsLed`), since no leader steps down;
an answer's last index is within the log of its sender, now and later (`MessagesSound`); and at an index the leader filled itself,
another node's next index beyond it stands for such an answer (`Acks`). The last says nothing of the indexes below, which is why the
property is about a leader's own blocks.

**Snowman.** A decision is read off the node's proposal, its call and the state it would fall back to. `NodeSound` says of the three that no
proposal at or below a node's height differs from the final block there, that a call under way has run more rounds than its
counter says and changed no final block, and that a call that dropped the transition for rounds below the
threshold had a round that reached it. Finalizing would roll the application back for a block at
the last height; `FinalityLasts` shows that it never changes a block by that.

**Tokens and bank.** A multisend is a fold over outputs, and an output a fold over coins. `MoveSound` says what one
transfer does to balances, supply and allowances; `Good` is carried along both folds and remembers what was sent of each
denomination; `Keeps` is about the calls of a step. Conservation is about sums over all accounts, which `Induction` takes apart. Nobody is kept from paying himself or from burning beyond the
supply: the invariant says by how much each of the two puts the sum off.

**Staking.** `Sound` has the types, the coins of the two contracts behind the stake, and `Books`: the sums of a stake that agree, the two lists, which
are one relation over any calls (`Mirrored`), and, until a call takes more from a validator than its delegator has there, that every amount is in the
lists (`Listed`), that the validators have the supply between them, and that individual amounts add up to no more than the validator's total (`Covered`).
Distribution divides by the total and pays by the amounts, so `Covered` is what keeps the shares within the fees, and
with it the coins of both kinds less those made by paying oneself (`Worth`) never grow. `NoInflation` says so of states in which no registered commission is above one and
nothing was overtaken, since the code keeps neither from happening: a commission of "1" is read as two, and mints more than the fees.
`StakesAgree`, `ListsMatch` and `TypeCorrect` need neither.

**Slashing.** The counter is kept beside a ring of bits, and moves by the difference of the new bit and the one it overwrites. That it equals the
number of missed blocks of the window is inductive only with `Ringed`: there is a ring which, read from the index on, is the
window from its oldest block on, with zeros for blocks before the counting began, and the bits are that ring (`Tied`). Then the bit overwritten is the block that leaves the
window. Once bits and counter were not cleared together, the bits are that ring with some cleared, or with some left, by what the host makes of an empty end key, and
`Errs` says which way the counter is off. One validator's punishment reaches the bits of others, so the votes of a block are
followed one after another (`Handling`), for any order of them. The two other theorems are action properties from the same invariant.

**Governance.** The two queues are sorted by the ends of the proposals, because an end is the time of a block plus a
constant and blocks have growing times (`Known`); so the loop that stops at the first proposal whose time has not come
stops at the right one. `DepositQueue` and `VotingQueue` say that the queues hold, once and in order, exactly the proposals in deposit and those in voting whose period is not over; the
splice that removes one from the middle keeps both. `DepositsHeld` is inductive as it stands: what the deposits lose the contract has lost or paid for messages (`spent`). A proposal that was decided is then in neither queue, which is `DecidesOnce`.

**Chain sync.** What a node keeps is compared with a chain that grows while the node is behind, and an answer with what was right when it was sent;
so the invariant is about both, and has to survive a later block (`LaterBlock`). A node is good (`NodeSound`) when its store has the blocks
from its snapshot to its last one and the parameters that were in force (`StoreSound`), when its own entry of the list is its own, and, as long
as no validator has joined and the queue is not `mixed`, when its proposer queue is the one its round gives from the founders (`AtRound`); a proposal
carries a queue of the round it names, which is what a roll back to that round needs. The parameters are the
delicate part: a height at which they did not change holds only a pointer to the height of the last change, and `Linked` says that this height is
kept and holds them, which a rollback must not break. An answer carries entries of the chain from its start on, and a queue of the round it
names. Every handler takes a good node and good messages to good ones, also when it gives up in the middle: what reverts keeps the node it had.

**Lobby.** The invariant `LobbyInv` describes nodes and messages for the set of those that have signed: `Responses`, `Geneses` and `Nodes` of that
set. It grows only, and what was in order for a smaller set is for a larger one (`Grows`), so a late message stays in order. Inserting, sorting,
merging, cutting and copying keep every place owned: signed by its validator for the chain of the list, or by nobody (`Owned`). From initializing on a node
has a list that is long enough and signed in full (`Agreed`), which the thresholds establish and nothing that arrives later changes. `OurIndex` is 0 in
the code, the first place, for a node that is not in the list: a list is taken over only by a node in it, and the first place of
genesis data is signed already, so the default never signs for somebody else.

**Pool.** `Batches` is what the loop of `batch` may have gathered: the gas is exactly that of the batch, the bytes are at least those of the
batch, because an atomic transaction empties the batch and not the count of bytes, and a batch with an atomic transaction is done. The theorem is about every
pool; `BatchFits` of `OnDemandNode` is the same for the pools its runs reach.

**Induction over data.** The library's induction theorems take an operator as a parameter, which the provers cannot
instantiate. `Induction` has them for sets instead: what is to be shown for every number is membership of a set, and the
least number outside it is the case that cannot be (`NatMinimum`). From that come recursive functions,
folds and sums over finite sets. `FoldLeft` of the community modules chooses a function on the sets of places; `Folding` says that there is
one, and `FoldRuns` turns it into the values on the way (`Run`), one for each place, about which ordinary induction can
speak. The stable sort, merging lists, handling a batch of blocks and gathering transactions are proved about in this way.

**Only model-checked**: `LeaderFinalizes`, since liveness and `ENABLED` are out of the prover's reach; `MCTally`'s properties, which are
about digit algorithms that nest several recursions with nonlinear arithmetic; `RoundHasTimer`, `PendingTxHasTimer` and `TimersActWhereSet`
of `OnDemandNode`, whose interpreter runs a call to completion with a recursive operator.

## 5. What is not modelled

- Tendermint-P2P: a network of a single validator, which sends nothing and takes shortcuts
  the models do not have (the theorems cover `N = 1` of the model only); reverts of host calls, optimistic
  execution, sub-chain creation at the end of a block; validators that leave; `weAreNotAlone`; the
  `stop`, `prestart` and `setup` events, which change no state of a round.
- The own, older state machines of `wasmx-tendermint` and `wasmx-raft`, over gRPC.
- Interpreter: `raise`, wildcard events, forced timers, the actions for tokens and counters. A stale timer behind a gap
  of identifiers, which stays active, is in the model.
- Bank: deployment of denominations and paging; staking: storage migration; slashing: a host that refuses an empty end key, so that
  jailing reverts; governance: genesis proposals, parameter changes, the continuous
  variant, and messages of passed proposals that do anything but pay the contract's coins, such as calling this contract again or changing
  stakes; the pool: unlimited gas (-1), with which a batch has no limit to keep within; Chain sync: what two blocks of one height
  would do to a log; block store: indexes of transactions and topics; lobby: the start after `prestart`.
- Contracts without concurrency or protocol state, listed in `PROJECT.json` with the reason.

## 6. Plan

1. *(done)* Consensus from proposal to final block with proofs; state and node sync; interpreter with timers; on-demand
   chain; Raft; Snowman; lobby; tokens, bank, staking, slashing, governance; big integers.
2. The EVM interpreter over `Tally`; the multichain registry; the continuous governance; roles, hooks and the code registry.
3. The older Tendermint over gRPC, and the simple nodes of its list.
4. *(done)* Proofs for Raft, Snowman, governance, tokens, bank, staking, slashing, state sync, the lobby and the batches of a
   proposer; the closed form of `FinalizeUpTo`.
5. More proofs: the interpreter's timers (for a machine whose `always` transitions end, without the recursive operator), single-word
   steps of `Tally`.
