# A verification project for KCoin

KCoin is a small permissioned blockchain: four fixed validators agree on one
block per height with a Tendermint-style protocol, observers follow, and wallets
earn and transfer coins. This directory holds TLA+ models of its core and of what
it shows to the outside, the TLC runs that check them, and TLAPS proofs of the
safety of consensus, from the voting rules down to the nodes with their stores,
of the ledger, mempool and explorer tables, and of synchronization, redialling
and the views. Every definition follows the Rust source under `src/crates`, or the
TypeScript under `src/web`; `PROJECT.json` gives the lines.

## 1. Inventory

| Component | Source | State | Operations | Module |
|---|---|---|---|---|
| Validator set | `types.rs`, `commit.rs` | the genesis list | quorum size, proposer rotation | `Validators` |
| Voting rules | `engine.rs` | durable votes | prevote, precommit, lock, release | `Voting`, `Finality` |
| Consensus engine | `engine.rs` | round, phase, vote and proposal caches, lock, valid value, decisions | start, message, proposal ready, persisted, timeout | `ConsensusEngine` |
| Consensus driver | `runtime.rs` | engine, block bytes, timers, sync target, queue of events and effects | commands of the actor loop, effects, import, restart | `Consensus`, `TimelyConsensus` |
| Consensus rows | `storage.rs` | signer slots, safety row, proposals, evidence, finalized chain | one SQLite transaction each | `Consensus` |
| Ledger | `ledger.rs`, `transaction.rs`, `block.rs` | accounts, supply, challenge, applied ids, tip, time | validate, apply, build, apply block, replay | `LedgerState` |
| Mempool, block production | `runtime.rs` | pending transactions, built proposals | admit, revalidate, propose, commit | `NodeLedger` |
| Synchronization | `runtime.rs`, `network.rs` | target, peer, active request, deadline, known peers; requests and connections of the network task | status, range, failure, watchdog, connect, disconnect, gossip | `Sync` |
| Bootstrap redial | `network.rs` | per address: known identity, pending dial; cursor | pass, established, failed | `Bootstrap` |
| Transport, event bridge | `network.rs`, `runtime.rs` | broadcast bus, command channel | gossip, events | partly, in `Consensus` and `Sync` |
| Explorer tables | `storage.rs`, `runtime.rs`, `kcoin-cli` | transaction and account rows, metadata, derived block columns | project with every block, clear, refresh, rebuild, verify | `Explorer` |
| History lists | `api.rs`, `web/src/lib` | event stream, list, cursor, requests under way | announce, page, refresh, load older, reset | `HistoryView` |
| Telemetry, snapshot | `runtime.rs` | last status per validator, published snapshot | publish, accept, note activity, snapshot | `Telemetry` |
| Crypto, WASM, simulation, formatting, wallet files | `kcoin-protocol`, `simulation.rs`, `api.rs`, `kcoin-cli`, `web` | | | not modelled |

How they interact. One actor task owns engine, ledger, mempool and sync state
and handles one `Command` at a time; the network task, the tickers and the
timers send it commands. It changes the store in SQLite transactions and
publishes through the network task. So two nodes share nothing but messages, but
within a node a command may find that the height, the target, the active
request or the round has changed since a timer was armed or a request was sent.
The API reads the store and the last published snapshot beside the actor, and
tells browsers by a broadcast stream that there is something to fetch. The
command line works on the store of a stopped node.

What is hard here: a crash between signing, storing and broadcasting; restoring
a lock; timers and completions that outlive what they were for; a bus that drops
events; faulty validators and peers that show different things to different
nodes; mempools that race; a rebuild of tables that stops half way; answers
that overtake each other on the way to a browser. The list with source lines is "hazards" in
`PROJECT.json`; every hazard names the properties that would catch it.

What makes each part correct:
- voting: one decision per height (`Agreement`);
- engine and driver: they vote by those rules through crashes
  (`ImplementsVoting`, `NoSlotConflict`, `DurableBeforeBroadcast`,
  `LockCoversPrecommits`), can always restart (`AlwaysRecoverable`), accuse only
  the faulty, and make progress (`Progress`);
- ledger and mempool: coins come from rewards only, each challenge pays once,
  nonces run without gaps, admitted transactions stay executable, replay gives
  the same state;
- sync: only certified heights count, stale answers change nothing, it ends;
- bootstrap: every live node is connected in the end, none twice;
- explorer tables: they say what the stored chain says, or less, never something
  else, and a completed rebuild makes them complete again;
- views: a list is a piece of the history without holes and follows it; a
  validator shown as running was alive recently.

## 2. Modules

```
Validators <- Voting                                       (MCVoting)
Validators <- ConsensusEngine <- Consensus <- TimelyConsensus  (MCConsensus)
LedgerState <- NodeLedger <- Explorer                      (MCNodeLedger)
HistoryView        Telemetry                               (MCViews)
Sync        Bootstrap                                      (run as they are)

Validators <- ValidatorsProofs <- VotingProofs             (about Voting)
              ValidatorsProofs <- EngineProofs <- ConsensusProofs
LedgerProofs                              (about LedgerState, NodeLedger, Explorer)
ViewsProofs                               (about HistoryView and Telemetry)
SyncProofs    BootstrapProofs             (about the modules so named)
```

An arrow is EXTENDS. `Consensus` instantiates `Voting` for all heights together,
with the votes in the decision rows of the honest nodes as its variable
(`DurableVotes`), and `Voting` instantiates `Finality`: both refinements are
checked and proved. `ConsensusProofs` instantiates `VotingProofs` in the same way.

A definition marked *wrong on purpose* is the form its successor would have under
a plausible bug; `PROJECT.json` ("mutants") names the property that notices.

**Voting** keeps only the set of votes that honest validators have made durable,
at every height. A validator's lock is its latest durable block precommit. Faulty validators cast
no votes of their own: each counts for every value.

**ConsensusEngine** is the state machine of `engine.rs` as pure operators: an
engine and an event give an engine, effects, and whether the step failed. The
Rust code changes the engine before a failing `?`, and so does the model. Blocks
are the round they were declared for and a stamp (timestamp, transactions);
signatures are reduced to who signed; two stamps may differ in whether the block
executes (`BadStamps`).

**Consensus** runs the engines. `node[v]` is memory, lost by `Crash`; `disk[v]`
are the SQLite rows. A command becomes a list of jobs; every effect is its own
action, so a crash can fall between any two transactions, in particular between
the two of `sign_and_persist`. The first error abandons the command
(`Abort`), and halts the node while it resumes an interrupted round. Messages
stay in `net` for ever and may be delivered any number of times, in any order
or never. Faulty validators add the votes, proposals and certificates of the
constants. `RestartFresh` and `RestartInterrupted` are
`initialize_consensus_recovery`.

**TimelyConsensus** restricts `Consensus` to a timely network, see 4.

**LedgerState** has the ledger rules as pure operators. Hashes are the values
that are hashed, so no two different values collide; a state root is the ledger
without its tip. The ledgers along the transactions of a block (`States`) and along
the blocks of a chain (`Replays`) are recursive functions over an interval, so
that a proof can speak of every one of them. A transaction says whether it is authentic and whether its
answer is right. u64 overflow is not modelled: `SupplyIsBalances` bounds every
balance by the supply cap, far below 2^64, and nonces and challenge ids count
executed transactions.

**NodeLedger** adds mempool, proposals, commit, standalone production, sync and
restart. Blocks of other proposers hold any executable transactions and any
timestamp `apply_block` accepts.

**Sync** models one node and what its peers answer. There is one certified
chain (that is `Agreement`), so a record is a height and whether it verifies.
Request ids are compared only with the active one and those still in flight;
the model takes the smallest unused id for the code's counter. The deadline is
set and cleared together with the active id and needs no variable. `linked` are
the connections of the network task, `node.peers` those the actor was told of:
`LosePeerEvent` is the lagging bus. Conflicting
certificates, which halt the node, are in `Consensus`.

**Bootstrap** models the redial passes: identities change when a node restarts,
nodes also connect by themselves, dials are refused or fail, connections drop.

**Explorer** puts the explorer tables beside the node of `NodeLedger`. A block
that the node finalizes is projected (`Persisted`: `build_projection` and the
explorer part of `persist_finalized`) in the step that stores it, as in the code's
single transaction. A stopped node can be rebuilt: the read-only pass, the
clearing, and per block the refresh of the derived columns and the projection
are actions of their own, because they are separate transactions, and
`Interrupt` may fall between any two. `verify_store` and the metadata check of
`kcoin db verify` end it. `SpoilColumns` and `SpoilChallenge` are the corruptions
of the repository's tests (`corrupt_*_for_test`), `SpoilBlock` damages a block
itself, also while a rebuild runs on the rows it has read. The history variable
`trusted` says that nothing was spoiled or cleared since the last complete
rebuild. A transaction is its own id; `last_height`, nonces and kinds of rows
follow from the transaction and are left out.

**HistoryView** is one browser list and the node it reads. A row is a number in
the order of the history, so the same model stands for the block list (cursor:
height) and the transaction list (cursor: height and index). A request is asked,
answered at some moment by the state of the store at that moment, and shown at
a later one; the three kinds of requests (`first`, `refresh`, `older`) overlap as
in `usePaginatedResource`. An abort or a newer generation is the return of the
request to `Idle`: its answer has no effect afterwards. `promised` and `gap` are
history variables for the properties.

**Telemetry** is one node's view of one other validator. `air` holds statuses
with their age. Time advances by `Second`; ages saturate just above the largest
limit the code compares with. The phases of a running validator other than
`syncing` are one value, `current`. `voted` is the set of heights the other validator
has signed a vote or a proposal for. Those messages stay on the network: `HearMessage`
takes one of the open height at any time and any number of times, as
`handle_consensus_message` has no age check and notes the signer of a duplicate
too. It replaces the entry only after the snapshot is published, and may finalize the
block first. `CommitBlock` notes the signers of a certificate. A message that meets a node
that synchronizes or is halted has no effect. `silence` and `closed` are
history variables: seconds since the other validator signed anything, and since
this node last worked on a height it has signed for. Clock skew
between nodes is not modelled: the code's `abs_diff` also admits timestamps up to
ten seconds ahead.

## 3. Runs

| Run | Shows |
|---|---|
| `voting` | the rules of `Voting` keep agreement, and implement `Finality` |
| `recovery` | one validator with two crashes: slots, lock and stored rows stay consistent, restart is always possible |
| `locks` | one validator against three faulty ones: it votes only by `Voting`, only for executable blocks, and only for the height after its ledger, whatever timers, imports or syncs are left over |
| `crash` | two honest validators, two heights, one crash: the same chain, certificates backed by durable precommits, no evidence against honest validators |
| `progress` | three of four finalize although the faulty first proposer splits them |
| `ledger` | supply, rewards, nonces, mempool, own proposals, replay; explorer tables through commits, restarts, faults and interrupted rebuilds |
| `sync` | certified heights only, no stale completion, always a request under way, catches up unless it was not told of the helpful peer |
| `bootstrap` | all live addresses are connected in the end, none dialled twice |
| `views` | history lists have no holes or doubles and follow the announced rows; a validator shown as running signed recently or for the open height, and the view settles |
| `timer_lost`, `crash_halts`, `sync_rotation` | violations: the code does not do what a document says, section 6 |

Bounds. `voting` has four validators, one faulty, two symmetric blocks, three
rounds: a lock, its release and a third round in which an old proof could do
harm need three. TLC bounds the number of votes (`FewVotes`: nine, with nil votes
weighted so that the budget goes to block votes); the proofs need no bound.
The consensus runs have one or two honest validators that
execute the complete code, because an engine's state is large; the others are
faulty and send what the constants list, which is picked so that locks,
conflicting proofs, double votes and conflicting certificates occur. The proofs
(`NodesImplementVoting`, `NodesAgree`) need none of these bounds. In `locks` the height
limit is one, so timers left over on a started later height, and in `crash` a message
delivered twice without a restart, are covered by the theorems only
(`SigningDiscipline`, `EvidenceIsSound`). With one honest validator of two in `recovery`, quorums need both,
so the faulty peer decides what commits. Two rounds cached of three exercise
pruning. `MaxTimers` keeps the newest timers: an older timer belongs to a phase
already left, and `handle_timeout` ignores it. `MaxCrashes` is two in
`recovery`, so a crash can hit recovery itself.

`ledger` has two wallets, eleven signed transactions, among them racing
claims, a nonce signed for several of them, a self-transfer, an expiring and an unfunded
transfer; a supply of 4 with rewards 3 and 2 makes the last reward partial; the
clock values stand still, or exceed both the step and the ceiling; three blocks. The node is stopped
after the second block, so that a rebuild has a block behind it and a block in
front of it, and one row is spoiled: two independent faults are repaired in two
steps of the same loop. An interrupted rebuild can be followed by another one, or
by a start and a third block.
`sync` has one helpful and one unhelpful peer, two heights, ranges of up to two
records (partial answers make a second range necessary), two requests in flight
(one range and one status, or a range and a stale one) and three faults of any
kind. `bootstrap` has dead addresses in front and one dial
per pass, the worst case for the ones behind.
`views` has pages of two rows, a stream of two events, blocks of one or two rows,
four rows, and two resets, failures, reconnections or admissions: enough for a second page,
for more rows than a page between two refreshes, and for an answer that
survives a reset. In `Telemetry`, limits of one and two seconds keep the code's
order (3.5 s < 10 s); two statuses can overtake each other; one block makes
messages of an open, a finished and a later height; two changes let a validator stop
and return, or end a synchronization, and it may be down at first. The two modules share no variable, so
`MCViews` lets each behaviour belong to one of them (`part`) instead of
interleaving them.

Deadlock is checked in `progress` and `bootstrap`. It is switched off where the
bounds end every behaviour (heights, rounds, faults used up).

## 4. Liveness and fairness

`progress` holds under partial synchrony, the assumption under which the
documentation promises later rounds: published messages reach every node while
their round is cached, timeouts are longer than handling all that is under way,
and, as they grow with the round, the node furthest behind times out first.
Faulty validators speak in the phase of their message or not at all, and are
never obliged to. Fairness asks that something happens while an honest node or a
timer has something to do: the actor loop, tokio timers and gossip tasks do not
stop by themselves. Commands of different nodes are taken one at a time
(`OthersWait`): nodes share only messages, which accumulate, so every
interleaving equals a serial one. Without the timing assumption, asynchronous
delivery makes progress impossible for any such protocol.

`sync`: weak fairness of completion (libp2p completes or times out each
request after 10 s), of handling, of the watchdog (the 250 ms ticker) and of
reconnecting helpful peers (redial). Gossip and faults are not fair. A pending
request is never cut short by the watchdog, as 12 s exceed the 10 s.
`CatchesUp` excepts a node that was not told of the connection to a helpful
peer: the bus dropped the event, the network task sees no reason to dial, and
nothing but a gossiped block from that peer makes the actor ask it. TLC finds
this behaviour when the exception is removed.
`views`: weak fairness of announcing (the actor goes on after storing), of
serving and showing answers and of consuming events; no fairness of
loading older pages, of new blocks or of upsets. An unbroken chain of events
faster than an answer would abort every refresh; the finite number of rows
and of admissions (`AdmitTransaction`) excludes it. For telemetry, time passes and a running validator publishes (the
tick); a status does not stay on its way for ever, and of those that are fresh
some arrive (strong fairness: gossip loses messages, not all of them); an observer, which publishes
no status of its own, gets a snapshot from time to time by the status of a third
validator. Without that last one an observer's snapshot stays as it was when the
last validator stopped, which is why `ShownMeansRecent` speaks of validators only.
Votes and proposals may arrive for ever while their height is open, so
`ShownSettles` excepts behaviours in which they do: TLC finds them when the
exception is removed. Once the height is finalized they count no more.
`bootstrap`: weak fairness of the redial interval, of each dial's end and of
closing dead connections.

## 5. Proofs

All theorems hold for every value of the constants that the named assumptions
admit: any number of validators, any set of faulty ones, any blocks, heights,
rounds, crashes, wallets, transactions, reward schedules, peers, addresses, rows
and windows. `MaxHeight`, `MaxRounds`, `MaxCrashes`,
`MaxFaults` and the like are constants of the theorems, not the values of the runs.

| Module | Theorems | Assumptions |
|---|---|---|
| `ValidatorsProofs` | `QuorumSizeFormula`: the code's `N - (N-1)/3` is the documented `floor(2N/3) + 1`; quorum intersection | `NAssumption`, `FaultyAssumption` |
| `VotingProofs` | `VotingInvariant`, `VotingTypeCorrect`, `VotingPolcExcludes`, `VotingAgreement`, `VotingImplementsFinality` | also `NilAssumption`, `MaxRoundsAssumption`, `FewFaulty` |
| `EngineProofs` | `StepEngineOK` | also `EngineAssumption`, `OptionAssumption` |
| `ConsensusProofs` | `Invariance`, `TypeCorrect`, `BroadcastsAreDurable`, `SlotsAreFree`, `LocksHold`, `SignedBlocksExecute`, `FinalityIsBacked`, `EvidenceIsSound`, `CrashesAreRecoverable`, `SigningDiscipline`; `NodesImplementVoting`; `NodesAgree`; `ProposerConfirms` | also `ConsensusAssumption`; `NodesAgree` also `FewFaulty` |
| `LedgerProofs` | `LedgerInvariant`, `LedgerTypeCorrect`, `LedgerSupply`, `LedgerRewards`, `LedgerNonces`, `LedgerMempool`, `LedgerProposals`, `LedgerReplay`; `ExplorerInvariant`, `ExplorerMatchesChain`, `ExplorerShowsTruth`, `ExplorerChallengeIssue`, `ExplorerRebuilds` | `LedgerAssumption`, `NodeAssumption` |
| `SyncProofs` | `SyncInvariance`, `SyncTypeCorrect`, `SyncOnlyCertifiedHeights`, `SyncingNodesAreBehind`, `SyncNeverIdle`, `SyncStaleCompletionsIgnored` | `SyncAssumption` |
| `BootstrapProofs` | `BootstrapNoDuplicateDials` | `BootstrapAssumption` |
| `ViewsProofs` | `TelemetryShownMeansRecent`; `HistoryListIsHistory` | `TelemetryAssumption`; `HistoryAssumption` |

`FewFaulty` (three times the faulty are fewer than all) is a hypothesis of the
theorems that need it, not an assumption of a module: that a validator signs each
slot once, keeps its lock and can restart holds with any number of faulty ones.

**Voting.** `Agreement` is not inductive. `IInv` adds: one vote per slot; a block
precommit rests on a proof-of-lock of its round; whoever prevotes against an
earlier block precommit does so after a newer proof-of-lock for the other block;
and `PolcExcludes`: a proof-of-lock in round r makes every other block impossible
in all earlier rounds, because some quorum's honest members have passed those
rounds without precommitting it. The last is the heart: a new proof-of-lock is
formed by a vote of an honest validator in every possible quorum intersection
(`QuorumIntersection`), whose lock, by `LatestLockSuffices`, allowed the block
only if an earlier proof-of-lock already excluded the others. The invariant
speaks of what can no longer happen (`NeverCommits`), which is stable, so each
action adds at most one new case. TLC checks the parts of `IInv` first (`voting`).

**Engine.** The engine is a pure operator, so its theorem is about any engine `e`
of validator `v`, the messages `D` that every honest validator has made durable and
the proposals `S` that `v` has stored. `EngineOK` says what the engine may rely on:
- `LockOK`: lock and valid value rest on durable prevotes and stored blocks, the
  valid value is not older than the lock, the lock not older than any durable
  block precommit of `v`;
- `CachesOK`: what was received is valid and, if from an honest validator,
  durable there; one vote per slot;
- `SlotsOK`: every durable slot of the height is behind the round or known in
  `decisions`, and the phase tells which slots of the round are free. This is what
  a crash could break, because `decisions` is memory and the rows are not.

`StepEngineOK`: every event keeps `EngineOK`, also when the step fails half way,
and every effect satisfies `EffectOK`: a decision to be stored has a free slot,
obeys the rules of `Voting` for its kind, and comes with a safety state that
covers it; a broadcast is durable; a certificate is backed; the accused are
faulty. Each function of `engine.rs` has its lemma (`CastVote`, `EvaluatePrevotes`,
`EvaluatePrecommits`, `EnterRound`, `AcceptProposal`, ...).

**Nodes.** `IInv` of `ConsensusProofs` is a conjunction over the validators of what
holds of a disk and a process given `D`: `DiskOK` (the safety row belongs to the
next height, is the one of the last decision, covers all decisions of the height;
the chain is certified), `NodeOK` (the engine works on the next height and is
`EngineOK`; jobs, events and effects waiting fit it; a node that is down, halted or
synchronizing has none) and `NetOK` (what is on the network is durable at its
signer). The parts need each other: `NoSlotConflict` alone is not inductive,
because a restored engine has free slots only if the safety row is not behind the
decision rows, which in turn holds only because each row was written with a
state that covers it. Every action changes one validator; the others see more
durable messages, under which all parts are stable (`LockLater`, `EngineLater`,
...). The safety properties of `Consensus` then follow from `IInv`, and the action
property `SignsOnlyNextHeight` from the only action that makes a vote durable.

**Refinement and agreement.** `NodesImplementVoting`: no action but
`PersistDecision` changes `DurableVotes`, and what it adds is a step of `Voting`:
`DecisionOK` is the guard of that step. So everything proved of `Voting` holds of
the nodes, and since every stored certificate is backed (`FinalityIsBacked`),
two chains that differ at a height would be two commit certificates:
`NodesAgree`.

**Own proposals.** `ProposerBacksItself` is about a path through several queues,
of which `IInv` says little: the engine asks for a block, the driver builds it
and answers, the engine decides the proposal, the driver signs and stores it, and
only the confirmation makes the engine prevote. `OwnInv`, proved on top of `IInv`,
follows the proposal through these stages: asked for (`AskedFor`: the request is
the last effect, no event waits, the engine `Awaits`), built (`ReadyOK`: the
block is held, fits, and is the valid value or nothing is locked), decided
(`DecidedOK`), signed (`SignedOK`: only its `persisted` event is left, and the
engine `Confirms` it) and prevoted (`PrevotesOK`). In each stage
nothing else waits that could move the engine, so it still answers as it would have
when it asked. The lock accepts the proposal by `LockOK`: the valid value is not
older than the lock and is proposed with its proof-of-lock, and without a valid
value nothing is locked. A crash empties the path, and a restarted
engine enters the round after the last one it signed in.
TLC checked `OwnInv` on the configurations of the recovery, crash and lock runs
before it was proved.

**Ledger.** Executing a block and replaying a chain are recursions over an
interval. Each is unfolded by showing that a function with its equation exists, and
what holds along an interval is proved by `IntervalInduction` (a set of numbers with
0 and with the successor of each member is the interval); the sum of
balances is a recursion over the subsets of a finite set, with `SubsetInduction`. An
executed transaction has an `Effect`: who may differ afterwards, and that balances
and supply grow by the same reward, which the cap cuts. Along a block, nonces of a
wallet and the challenge are counters; along a chain they are a `Tally`: the
places where transactions were executed carry exactly the numbers below the counter,
in order. `OneRewardPerChallenge` and `NoncesInOrder` are tallies. They are not inductive
without the rest of `LedgerInv`: the ledger is the replay of the chain
(`ReplayReproduces`), for a synchronized or restarted node takes its ledger from
there; mempool and proposals execute on the ledger as it is now; and own
proposals exist only below the height limit. The theorems hold both for the node alone
(`Spec`) and for the node beside its explorer tables (`ExplorerSpec`).

**Explorer.** `Shown` says of the tables that every row they hold is one of the
chain's, with the right derived columns; `Complete` to a height, that no row up to it
is missing. `TablesInv` gives what each phase of a rebuild has established: behind
`position` the tables are complete and no column is stale. `TablesMatchChain` asks
for completeness only of trusted tables, and needs both: an interrupted
rebuild followed by new blocks leaves tables that are incomplete and stay `Shown`.

**Sync.** The operators turn an actor's state into another one; `Sound` (heights
are finalized, a target is ahead) and `Busy` (`NeverIdle` of a state) are proved of
each. `IInv` adds that replies under way carry only finalized heights as valid
records or proven statuses, and that ids under way differ, so a completion can be
told from a stale one.

**Bootstrap.** `NoDuplicateDials` needs `DialledIsKnown` (an open connection's
address is known to be its own, and no dial to it is pending) and `NoFutureDials` (no
connection under the identity of a restart still to come).

**Telemetry.** The ages in `air` bound the silence (`AirIsRecent`). While a height the
other validator has signed for is open, `closed` is zero (`OpenIsNow`), so when a
vote or a certificate is noted, it is. The age of the entry hence bounds one of the
two (`EntryIsRecent`), and a validator's snapshot is renewed every second
(`ShownIsFresh`).

**History lists.** A page is a descending run of consecutive rows, and so is the list.
`RunsMerge`: merging two runs that overlap or touch gives the run of both. So
everything rests on knowing that they do touch, which `ListIsHistory` does not say of
answers under way. `HistoryInv` adds it: as long as `gap` records no hole, the
cursor of an older page lies above the list's last row (`OlderOK`), and a refresh
that was answered starts no lower than the list does (`RefreshOK`); the first page
is asked for only while nothing is shown (`FirstOK`).

Only model-checked is all liveness (`Progress`, `CatchesUp`, `Reconnects`,
`ShownSettles`, `AnnouncedRowsAppear`): the prover does not do fairness, so
nothing is proved of `TimelyConsensus`, which exists for `Progress` alone.

`LockRespected` of `Voting` is part of `IInv` and proved with it, without a run of
its own.

## 6. Where code and documents differ

1. `timer_lost`: an error in `evaluate_round` after a timeout's vote drops vote
   and timer; the validator stays in its round.
2. `crash_halts`: a crash between the two transactions of `sign_and_persist`
   leaves a proposer that halts at every start, without conflicting finality.
3. `sync_rotation`: peer rotation alternates between two unhelpful peers and
   starves a third.

The quotations are in `PROJECT.json` ("findings"). A smaller difference has no
run: `docs/persistence.md` says a restarted node replays its durable messages
into the state machine, while `resume_interrupted_consensus` only rebroadcasts
them (`Resumed` of `Consensus` does what the code does).

Other behaviour the models show, which no document denies:
- after an interrupted rebuild and a start, the node writes the metadata of the
  next block, so `kcoin db verify` accepts a store whose transaction rows and
  counts of earlier blocks are missing; the block endpoint then answers with an
  internal error for those blocks (`ServesBlock`), until a complete rebuild. The
  rows that are there are right (`ShownRowsAreTrue`);
- a list that misses more than a page of rows between two refreshes keeps a hole
  (`gap`), which loading older pages does not fill;
- a list whose first page failed ignores events until it is reloaded, and rows
  announced between the first page's answer and its display wait for the next
  event (`AnnouncedRowsAppear` promises only what was announced to an initialized
  list);
- a validator that stopped is shown as running for as long as votes or proposals it
  signed for the open height go on arriving, late or again: the telemetry entry
  takes the time of arrival, without the ten-second limit of statuses
  (`ShownMeansRecent` says what holds instead);
- `validator_status` events share the stream with the events of rows and can
  push them out for a reader that is 1024 events behind (`SendStatus`).

## 7. Not modelled, and the plan

Not modelled:
- byte encodings, hashes and signatures, and their WASM bindings: pure functions
  of byte strings, abstracted to the values they stand for;
- request parsing and JSON formatting of the API, metrics, the offset paging of
  the leaderboard, environment and argument parsing, wallet files, the pages of
  the web client: conversions and I/O without a protocol;
- the simulation (`simulation.rs`): a seeded test harness around the engine whose
  fault schedules are a subset of `Consensus`;
- the engine's `Event::Certificate`, which the runtime never sends, and an error of
  `build_block`;
- the allowlist of validator peers and the size limits of messages: a refused
  message is one that never arrives;
- the mempool has no limit in the code, `MaxMempool` is a bound of the run.

Order of work:
1. done: voting rules and their proof, engine, driver with crashes, timely
   progress, ledger with mempool, sync with lost completions and lost peer
   events, bootstrap, explorer tables with rebuild, history lists, telemetry;
2. open: composition of `Sync` with several nodes that serve each other; how a node
   learns of a target from peers it was connected to before the actor
   subscribed (they are never asked for their status); the halt after
   conflicting finality across a restart;
3. proofs, done: the voting rules, the engine, the nodes, their refinement of
   the voting rules and the way of an own proposal, the ledger, the mempool and the chain, the explorer tables with
   their rebuild, synchronization, redialling, history lists, telemetry;
4. proofs, open: liveness, which this prover does not do.
