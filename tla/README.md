# A TLA+ model of the SDAG ledger node (go-tos)

go-tos keeps a ledger in a directed acyclic graph of blocks. Every block links
to one to three earlier blocks. A chain of *leaders*, at most one per time
slice, runs through the graph; a leader that is old enough is a *main block*
and confirms everything it reaches through links. This directory holds the
specification of the parts of the node that decide what is fetched, what is
stored, what is confirmed, what that does to the balances and what steers the
miner, the small instances TLC checks, and the proofs TLAPS checks.

Paths below are relative to the repository; `main_chain.go` is
`sdag/mainchain/main_chain.go`, `block_pool.go` is `sdag/manager/block_pool.go`,
`bestir.go` is `sdag/mainchain/bestir.go`, `synchroniser.go`, `fetcher.go` and
`relayer.go` are in `sdag/synchronise`, `protohandler.go` is in `sdag`,
`transaction.go` in `sdag/transaction`, `feed.go` in `devbase/event`.

## 1. The system

| Component | State | Operations | Talks to |
|---|---|---|---|
| Main chain (`main_chain.go`, `core/storage`, `core/genesis.go`) | `Tail`, `PervTail`, `MainTail`, a MutableInfo record per block, MainBlockInfo per number | `ComputeCumulativeDiff`, `UpdateTail`, `Confirm` with `RollBackStatus` and `singleBlockConfirm`, restart | called by the pool and by its own goroutine; notices to the transaction part |
| Accounts (`bestir.go`, `core/state_transition.go`) | balances in a StateDB per main block | `CalculatingAccounts`, `TransferAccounts`, `deductCost`, `ComputeConfirmReward`, `CalculatingMinerReward` | called from `singleBlockConfirm`; the EVM |
| Block pool (`block_pool.go`) | `IsolatedBlockMap`, `lackBlockMap`, the unverified blocks, `MaxSyncTime` | `AddBlock`, `linkCheckAndSave`, `addIsolatedBlock`, `deleteIsolatedBlock`, `TimedRequestForIsolatedBlocks`, `loop` | events from miner, fetcher and synchroniser; main chain; requests to the network |
| Synchroniser (`synchronise/synchroniser.go`) | one session, slice cache per peer, `lastSYStimeslice` | `schedule`, `synchroiniseV2`, `handleSYNCBlockResponse(ACK)` | peers; pool; miner through the sync status |
| Fetcher, relayer (`synchronise/fetcher.go`, `relayer.go`) | requests in flight, announcements and their counters | `fetch`, `processResponse`, `detectTimeout`, `MarkAnnounced` | peers; pool |
| Protocol manager, peers (`protohandler.go`, `peerset.go`, `peer.go`) | registered peers, `feeded` | `handle`, `removePeer`, message dispatch, `Stop` | all of the above; miner through the network status |
| Miner (`miner/miner.go`) | `mining`, `SyncState`, `PrivateKey`, listeners and workers | `listen`, `work`, `Start`, `PostStop`, `Stop` | pool; network and sync events through `feed.go` |
| Local transactions (`transaction.go`) | pending amounts per address, a nonce | `transactionCheck`, `transactionRecord`, `ReceiveTransactionAction` | pool; balances and notices of the main chain |
| Queries and RPC, block formats, state and tries, EVM, p2p | | | infrastructure |

Hard to test in this code: workers that store blocks concurrently, with checks
made before the lock that protects the write; reorganisations that undo and
redo confirmations; several database writes that belong together and no
transaction around them; blocks that arrive in any order, twice, or only on
request; answers that are late, repeated or meant for an earlier session; flags
that several goroutines write; unsigned time differences; a recursion over a
shared graph that must settle every block once. `PROJECT.json` lists each hazard at its line with the
properties that watch it.

What makes each part correct, in one line:

- main chain: leaders form one tree that only grows heavier; main blocks are
  one numbered chain whatever was rolled back; the state of a main block
  settles exactly its ancestors; the chain of `Tail` is confirmed in the end;
- block pool: the stored graph has no hole; the two maps describe each other;
  whatever arrives is stored once its ancestors can be had; no tip is lost;
- accounts: money is neither made nor lost; no balance is negative where calls carry
  no value;
- synchroniser: one session at a time; a session that ends as complete is
  complete; every session ends and tasks are taken up;
- fetcher: a request is never forgotten; the pool gets the block or it is given up;
- protocol manager and miner: the miner knows when nobody is connected; its flag
  says whether somebody mines;
- local transactions: what is recorded as pending is what is sent and not
  confirmed, through any reorganisation; what was sent is counted by the next send,
  on record or as spent; nobody waits for anybody in a circle.

## 2. Modules

| Module | Models | Used by |
|---|---|---|
| `MainChain` | the main chain and the part of the pool that feeds it | `MCMainChain`, `MainChainProofs` |
| `BlockPool` | the block pool | `MCBlockPool`, `BlockPoolProofs` |
| `Accounts` | rewards, fees and transfers of the blocks a main block confirms | `MCAccounts`, `AccountsProofs` |
| `AbstractLedger` | what the main chain promises its readers | `MainChainLedger` |
| `MainChainLedger` | the refinement from `MainChain` to `AbstractLedger` | `MCMainChain` |
| `Synchroniser` | sessions with a peer, client and server | `MCSynchroniser`, `SynchroniserProofs` |
| `Miner` | listeners, workers and the feed of events | `ProtocolManager` |
| `ProtocolManager` | peers coming and going, the status, composed with `Miner` | `MCProtocolManager`, `ProtocolManagerProofs` |
| `Fetcher` | announcements, requests, answers, relay | `MCFetcher`, `FetcherProofs` |
| `LocalTx` | sends of this node against the notices of the chain | `MCLocalTx`, `LocalTxProofs` |
| `Sums` | (lemmas) sums over finite sets | `AccountsProofs`, `SynchroniserProofs` |

Operators whose comment begins with "slip:" are wrong variants of the operator
that follows. They occur in no specification; substituting one for its
original must break the property that `PROJECT.json` pairs it with.

### MainChain

A block's content never changes, so links, time, slice, difficulty and work of
the hash are constant functions. `info` is the table of MutableInfo records,
`rlp` the table of blocks; they are written one after the other, as
`WriteBlock` does. A worker goes through `AddBlock` (tests passed), `SaveRlp`
and `SaveInfo` (under `addBlockLock`), `UpdateTailCheck` (read lock) and
`UpdateTailWrite` (write lock). `Confirm` is a program with its own locals in
`conf`: `FindStep` walks from `Tail` to a main block at or below `MainTail`,
`RollbackNext`, `UnwindLink`, `UnwindBlock` undo the old main chain above it,
`LoadState`, `NextMain`, `VisitLink`, `VisitBlock`, `CommitMain`,
`MoveMainTail` confirm the new one. The two recursions of the code are stacks
of frames (block, next link). Between any two of these steps the workers run.
`CrashRestart` forgets all memory and rebuilds `PervTail` as `setPerv` does.

A ledger state is abstracted to the blocks settled in it and those of them that
took effect; `Accepts` says whether a block takes effect in such a state.
`TimeSliceDifference` is computed modulo `WordSize`, as the unsigned
subtraction is. Left out: notices to local addresses, the message queue, error
returns of a failing disk, the cost of the work.

`BlocksAssumption` says what the code enforces of a block graph. `LinksInOrder` says
what the properties need besides: no link is later than its block, and no block is in
the slice of the genesis block. Honest nodes build such graphs, but the code does not
hold every block to it: `deleteIsolatedBlock` compares no times (`block_pool.go:405`), and
`Validation` only asks for a time at or after `GenesisTime`. The graphs of the runs
satisfy it, and it is a hypothesis of every theorem about the main chain.

A block may be stored up to `Skew` slices ahead of the clock. The run `reorg` has
`Skew = 1`, which is what `Validation` admits (`miner_block.go:154`): a tail ahead of
the clock wraps `TimeSliceDifference` and is confirmed at once, and the numbering, the
states, the refinement and the progress of `Confirm` are checked through that, too.

`AbstractLedger` is the ledger as its readers see it: a sequence of main blocks,
each with the state after it. A step keeps a prefix, drops the rest and adds one
block that settles itself and blocks not settled before, closed under links.
`MainChainLedger` maps the index of main blocks to that sequence, up to
`MainTail`, or up to the block whose entry was just written when `MainTail` is
about to move. All the walking, unwinding and visiting of `Confirm` are
stuttering steps. The refinement holds without crashes: after a crash the index
may be ahead of `MainTail`.

### BlockPool

Workers and the timer goroutine have a program counter each; the maps, the two
channels of the tip list and the locks `rwlock` and `addBlockLock` are
variables. The link check reads the database link by link without a lock, so
its result can be out of date when `AddIsolatedBlock` uses it. Of the network
only this is modelled: a message is delivered when it was asked for, or arrives
on its own at most once (`Arrivals`). What storing does to the chain is
`MainChain`'s subject. `NoInfo` is a set of blocks whose record an earlier
crash lost: a block that links to one fails in `ComputeCumulativeDiff`
(`Computed`) and is given up, after it has left the maps. What waits for such a
block stays isolated for good, so the second half of `MapsAgree`, that whoever
waits is listed where it will be released, excepts blocks that are not
`Computed`; and `Drains` is about a pool without `NoInfo`.

### Accounts

The walk of `singleBlockConfirm` as a stack whose frames carry the rewards
collected so far. `SettleBlock` and `SettleMain` are the whole of
`CalculatingAccounts` for one block, plus the hand-up of its shares, or
`CalculatingMinerReward`. What a block holds is chosen when it is settled, among
`Bodies`; as every block is settled once, that is any assignment of contents to
blocks. The order of main blocks is left open. The EVM is external: a call
errs, or fails and pays, or moves its value and pays, for any amount of gas in
its pool. Nonces, receipts, and value that contracts move among themselves are
left out.

### Synchroniser

The client's loop (`lpc`, `tasks`, `idle`), the session goroutine (`sess`, a
record of its locals) and the flag `syncing` they share; the peers as servers; the
two answer channels, and the requests on the wire. A worker of a peer takes any
request that waits and reads the end of the main chain (`TakeRequest`: requests and
acknowledgements are in two channels, so their order is not kept), reads `sliceCache`
(`ReadCache`), packs a batch (`Pack`, which writes `sliceCache`) and sends it
(`SendBatch`). `Samples` is the loop of `handleGetlocatorRequest`: steps of 2, 4, 8 ...
down the main chain of the peer, and the genesis block. `Batch` is the packing loop
of `handleSYNCBlockResponseACK` in closed form: which slices are opened before
the batch is full, where the last one is cut, and what the response says of its
end. Blocks are (peer, slice, index); what a peer holds does not change, the end
of its main chain does. `ForkTimeslice` subtracts modulo `Word`, as the code
does. A send on `netFeed` blocks until every listener has taken it, so it is two
steps: `ScheduleStart` holds the loop until `FedSyncing`, `BlockResponse` the session
until `FedCompleted`. A connection breaks and comes back under a new number, so a
session that holds the old one fails at its next send; what the server has queued may
still be served. `StopCall`, `TakeQuit`, `CancelSession` and `Deliver` are `Stop` up to
the fetcher, where it hangs (`fetcher.go:116`). The pool is `Adopt`: it takes up
any slice that was posted. `dups` bounds repeated requests; `last` remembers how the
last session ended. A session is `fresh` if nothing of an earlier one was under way
when it began and it ends over the connection it began with, and `clean` if, besides, it
repeated neither a request for blocks nor a locator request whose answer was under way.

### Miner and ProtocolManager

Listeners are alike and so are workers: they are counted by where they are.
`Feed.Send` holds its lock from `SendBegin` until every copy is taken; a
listener takes a copy (`TakeEvent`), then runs `schedule`, which reads `mining`
and starts a worker or posts a stop on a channel without buffer. Every
`StartMiner` adds a listener and a subscription of the same channel.
`ProtocolManager` adds one goroutine per peer with every step at which `feeded`,
the peer set, the status or the feed is touched, and the synchroniser's loop and
session as senders. Which sessions run and how they end is left open. The search
for a nonce is left out.

### Fetcher

`announced` and `announceCount` under one lock, `flighting` under another, two
request channels and one for answers, and the workers that select on all three.
A worker looks (`TakeRequest`), asks (`SendRequests`) and marks (`Mark`) in three
steps; `TakeResponse` and `PostResponse`, `DetectTimeout` and `ReportTimeout` are
the two halves of `processResponse` and `detectTimeout` under the two locks.
Peers answer, do not answer, or leave. What the pool does with a block is
`BlockPool`'s subject; here it may store it and have it relayed, isolate it, or refuse
it (`PoolAdd`), and an isolated block is stored or dropped later (`PoolRelease`); an
isolated block may be announced and asked for again. `Open` says where a request can
be; `settled` remembers that the last request for a hash has ended: the block was
handed to the pool, or the request was given up on a full queue, for want of a peer, or
by the timer, which the code reports with an event to which nobody subscribes. A new
request for the hash takes it out of `settled`.

### LocalTx

A send is check, record and queueing, with the lock of the records and
`LocalAddressRWLock` as variables; the chain is a `Confirm` that rolls back and
confirms any stored blocks, with the notice (`NoticeTest`, `NoticeTaken`) after
each; the receiver deletes or restores, and then counts the records for the log
(`ReceiveLog`) before it takes the next notice. A ledger state is the set of these
transfers applied in it. What an address owns in a state and whether a transfer is
applied there depend on fees, contracts, receivers and rewards, which are `Accounts`'s
subject: they are operators of the instance (`BalanceIn`, `Outcomes`), with several
values where the set does not decide, and the theorems hold for all of them. `lastState`
is the StateDB of the running `Confirm` once a main block is done (`aliased`), as in the
code. Own blocks are new when they are sent; signed blocks come from elsewhere and may
be sent again.

## 3. Runs

| Run | Instance | Checks |
|---|---|---|
| `reorg` | 8 blocks, two branches over three slices, one worker, blocks up to one slice ahead of the clock, clock to slice 5, confirmation depth 1 | `MainChainNumbered`, `LocatorOnMainChain`, `StateOfMainBlock`, `ConfirmedByFirstMain`, `EarlyOnlyAhead`, `Converges`, `ImplementsLedger` |
| `shape` | 5 blocks, three in one slice, two workers, every block up to twice, one crash anywhere, a leader whose work is not its difficulty | `ChainShape`, `TailLeads`, `CumIsChainWork`, `CumMonotone`, `PlaceNeverMoves` |
| `races` | two layers of isolated blocks, two workers and the timer, one block announced and also requested, which fails while another waits for it | `MapsAgree`, `Closed` |
| `recovery` | a block and its parent in either order, two workers and the timer, synchronisation starting and ending | `NoTipLost`, `Drains` |
| `supply` | 6 blocks with a diamond, three accounts, up to three main blocks, five kinds of content | `Conserved`, `Solvent` |
| `sync` | one peer whose main chain grows and shares the genesis block only, slices 2 to 10, one slice of three blocks with two to a batch, one retry, two troubles (connections, early timers) | `OneSession`, `CleanEndIsComplete`, `SessionEnds`, `TaskTakenUp` |
| `mining` | two peers, two connections, one peer ahead, one RPC order | `MiningHasWorker`, `ClosedWithoutPeers` |
| `fetch` | two peers announce one block that is also lacking, two workers, limits of one, a pool that stores, isolates or refuses | `NoRequestForgotten`, `AnnouncedSettled` |
| `localtx` | two own transfers of an address that can pay one with its fee, a signed one of another, two callers, two main blocks | `PendingFollows`, `MapExists`, `CountedSomewhere`, `NoCircularWait` |

`TypeOK` of each module is checked in `reorg`, `races`, `supply`, `sync`, `mining`,
`fetch` and `localtx`.

Bounds. `reorg` needs two branches of which the second overtakes the first
after main blocks of the first were confirmed, a side block that both branches
reach and one that only the first does, and a follower that does not lead its
slice: its graph is the smallest that has all four, and the clock goes far
enough for every leader to become deep. `shape` needs a leader that is replaced
inside its slice and a link to it from a later slice. One worker suffices in
`reorg`, where the races are between storing and confirming; two in the others,
where they are between workers. `Copies = 2` is a block that a second worker
takes up before the first has stored it. In the pool, channel capacities of one
and two make every send that can block do so. In `supply`, fees of 0 to 10
against balances of 0 to about 30 make the shares round and some balances too small.
In `sync` one slice is cut, so that its rest must be remembered, the empty slices before
the end and the end that grows during the session are there, and two troubles are
enough for a connection plus one broken or repeated exchange; two peers would only add
the choice among tasks, and are out of reach within minutes. A session that repeats
nothing is the same with one cut slice as with two; where a repetition matters,
in `cutslice`, two neighbouring slices are cut, so that it can move the cached slice
back, and the samples hit a shared main block or pass over it. In `mining` one order is enough
for a second listener and for two workers; in `fetch` both limits are reached;
in `localtx` two main blocks make a reorganisation that confirms a block again
under another number. In `fetch` one hash is asked for up to three times, after it was
isolated or refused among others.
`CHECK_DEADLOCK FALSE` appears in `supply`, `overdraft`, `sync`, `cutslice`, `mining`
and `fetch`, where the bounds end the environment; the other runs check that somebody
can always go on, `localtx` among them.

Fairness. `MainChain`: weak fairness of `Confirm`'s steps, because its
goroutine loops forever and nothing it does blocks in the model; blocks, ticks
and crashes are not forced. `BlockPool`: every goroutine that can go on does
(the Go scheduler is fair to runnable goroutines, and the timer goroutine's
period has no end), each posted message is taken up (its channel is first in
first out), and the network answers what it is asked. Arrivals and changes of
the synchronisation status are not forced; `Drains` assumes that in the end no
synchronisation is under way, which the code does not guarantee: a session that
fails leaves the status behind. `Synchroniser`: weak fairness of the loop, the
session and each peer's workers, and strong fairness of the loop's cases for a
finished session and for a task, because a Go select chooses among its ready
cases at random and the ticker must not win for ever; connections, growth, `Stop`
and the pool are not forced. That the listeners of `netFeed` take what is sent is part
of the fairness of loop and session; the code does not guarantee it (`miner.go:89`). `Fetcher`: workers, pool and timer run; nothing is
assumed of the peers. `ProtocolManager` and `LocalTx` are only checked for
safety: what their goroutines wait for is decided outside.

### Disagreements

These runs find a behaviour that contradicts what the repository says.

- `locator`: after a crash between a main block's status and `MainTail`, a
  rollback ends at a block that is not the locator (`main_chain.go:491`).
- `overdraft`: the fee of a contract call is taken from the balance before the
  call, which its value may have used up: the balance becomes negative, and the
  StateDB cannot encode it (`bestir.go:157`).
- `cutslice`: the server remembers one cut slice per peer and overwrites it when it
  packs a batch. A repeated request for the fork that is served late, after the server
  has gone on from one cut slice to the next, puts the earlier slice back
  (`synchroniser.go:646`); the acknowledgement of the later one finds no rest of it
  (`:577`), which is skipped, and the session still ends as completed. It takes no lost
  connection. What is missing is requested by the pool once a block that needs it
  arrives.

What reading the code for the models showed besides, without a run of its own:

- `main_chain.go:327`, `:452`: with a tail one slice ahead of the clock, which
  `miner_block.go:154` admits, the unsigned difference of slices wraps and the tail and
  the blocks below it become main blocks at once. It happens in `reorg`;
  `EarlyOnlyAhead` says that it is the only way to an early main block.
- `main_chain.go:404`, `miner_block.go:77`: a leader that is replaced through a follower
  of it is subtracted with the work of its hash, signature included, where `GetDiff`,
  without it, was added. It happens in `shape`: `h` replaces `b` through `d` and weighs 6
  instead of 5. `CumIsChainWork` says that a leader's weight is off by no more than that.
- `block_pool.go:405`, `:489`: a block that arrives before the later block it links to is
  isolated, and stored when that one comes; had it come second, it would have been
  refused.
- `main_chain.go:563`: the notice of a confirmation deletes the record of a send, and
  until `lastState` is moved at the end of the main block the next send is let through
  against the old balance. It happens in `localtx`; `CountedSomewhere` says that this is
  the only gap in what is counted.
- `transaction.go:150`: two callers can pass the check before either records.
- `block_pool.go:462`, `:514`: a block taken up by two workers is stored twice; the
  second write erases its confirmation. Its place does not move.
- `miner.go:89`: the miner's channel has no buffer and, after `StartMiner`, several
  subscriptions, although `feed.go:71` says it should have "ample buffer space":
  when all listeners post a stop and no worker is at its select, `Send` keeps the
  feed's lock.
- `miner.go:120`: the worker sets `mining`, not the listener, so two workers can
  run; a worker started just before `SYNCING` mines through the synchronisation.
- `miner.go:237`: `fDiff` is never updated and `Links[0]` is overwritten after
  duplicates were removed.
- `protohandler.go:279`: a peer that joins between the last peer's `CLOSED` and the
  reset of `feeded` stays connected under the status NET_UNVAILABLE.
- `fetcher.go:345`: the answering peer is no longer an announcer when the block is
  relayed, so the hash is sent back to it; `announceCount` counts only the first
  announcer, and once it reaches its limit the peer is disconnected.
- `fetcher.go:116`: `break` leaves the select, so `Stop` does not return.
- `transaction.go:182`: a raw block that is already confirmed when it is sent stays
  pending.

## 4. Proofs

Every theorem holds for all values of the constants that satisfy the named
assumptions of its module and the hypotheses it states, so, but for those, for any
graph of blocks, any number of workers, peers or callers, any capacities and any bounds. Each module of proofs has an
inductive invariant `IInv`, a lemma per action or group of actions that says the
step keeps it, and `Inductive == Spec => []IInv`; the theorems follow from it.

| Module | Theorem | Says |
|---|---|---|
| `MainChainProofs` (all: `LinksInOrder`) | `TypeCorrect` | `TypeOK` |
| | `ChainShapeHolds` | leaders hang on leaders of earlier slices, followers on the leader of their slice |
| | `TailLeadsHolds` | `Tail` and `PervTail` are leaders |
| | `CumMonotoneHolds` | no block is lighter than a block it links to, and all its links have records |
| | `CumIsChainWorkHolds` | a leader's weight is its difficulty on top of the leader it hangs on, but for the excess of replaced rivals (any `Work`) |
| | `PlaceNeverMovesHolds` | no step changes the place of a stored block |
| | `MainChainNumberedHolds` | the main blocks are one chain, numbered without a gap (`SlicesFit`, `Copies <= 1`, no crash) |
| | `LocatorHolds` | a rollback stops on the locator (same conditions) |
| | `EarlyOnlyAheadHolds` | a block becomes a main block too early only through a walk that began ahead of the clock (`ClockFits`, any `Skew`, with crashes and copies) |
| | `StateOfMainBlockHolds` | the state of a main block has settled exactly what the block reaches (`SlicesFit`, `Copies <= 1`, no crash) |
| | `ConfirmedByFirstMainHolds` | a block is confirmed iff a main block reaches it, under the number of the first (same conditions) |
| | `ImplementsLedgerHolds` | the main chain implements `AbstractLedger` (same conditions) |
| `BlockPoolProofs` | `TypeCorrect` | `TypeOK` |
| | `MapsAgreeHolds` | the two maps describe each other |
| | `ClosedHolds` | the stored graph has no hole |
| | `NoTipLostHolds` | no tip is forgotten while the list of unverified blocks refuses nothing new (`NotRefused`) |
| | `NoTipLostWhenTipsFit` | so it is when the list can hold every block (`TipsFit`) |
| `AccountsProofs` | `TypeCorrect` | `TypeOK` |
| | `SolventHolds` | no balance is negative, if contract calls carry no value and gas fits (`PlainUse`) |
| | `ConservedHolds` | money is neither made nor lost, if limits of contract calls fit (`CallLimitsFit`) |
| `SynchroniserProofs` | `TypeCorrect` | `TypeOK`, the bounds on retries among it |
| | `OneSessionHolds` | `idle` and `syncing` tell the truth about the session |
| | `CleanEndIsCompleteHolds` | a clean session that ends as complete is complete |
| `ProtocolManagerProofs` | `TypeCorrect` | `TypeOK` |
| | `MiningHasWorkerHolds` | the flag `mining` is never left without a worker |
| | `ClosedWithoutPeersHolds` | the last peer's end is told and `feeded` is reset |
| `FetcherProofs` | `TypeCorrect` | `TypeOK` |
| | `NoRequestForgottenHolds` | every request is somewhere, or was handed to the pool or given up |
| `LocalTxProofs` | `TypeCorrect` | `TypeOK`: among it, that the rollback stops at the genesis block (`Txs # {}`) |
| | `CountedSomewhereHolds` | what was sent is on record or in `lastState`, or was refused, but for the main block in hand (`Txs # {}`) |
| | `PendingFollowsHolds` | the records are what is sent and not confirmed |
| | `MapExistsHolds` | a notice finds the map of its address |
| | `NoCircularWaitHolds` | nobody waits in a circle |

### The main chain

`IInv` adds to the properties themselves:

- `LinksHaveInfo`: without it `ComputeCumulativeDiff` could read an empty record;
- `Recomputable`: a stored block's record is what `ComputeCumulativeDiff` would
  compute again. This is what makes the second of two workers harmless to the
  graph: it writes the same place. It rests on `BestLinkUnique`, that the choice
  among links is determined, and on `ChainLinkStable`, that what a link offers
  does not change once it is stored;
- `WorkersInv`: what a worker tested is still true when it acts on it, though it
  holds no lock in between: flags and records of leaders are never taken back;
- `ConfInv`: `Confirm`'s list and its recursion only hold blocks with a record,
  so that a rollback in the middle of the work of others cannot step on nothing.

The numbering of main blocks needs a second invariant, `NInv`, which follows
`Confirm` through its steps. `Index(K)` says that the main-block index up to `K` is
a chain along `MaxLinkHash` of leaders in later and later slices, each of which
reaches the ones before it (`Reached`: a block reaches its `MaxLinkHash`); `Mains(k, j)` that
the main blocks are exactly those it names up to `k`, and that those up to `j` carry
their number. Between two calls `k` may be below `MainTail.Number`: a rollback that
no new main block follows leaves `MainTail` where it was, and the next call rolls
back again what is already rolled back. Each step of `Confirm` has its own form
(`FindNumbered`, `RollbackNumbered`, ...), because numbers, bits and index are
written at different times; the list of blocks to confirm stays a chain
(`Chained`) that hangs on the block where the rollback stops (`ListOn`). Besides
`LinksInOrder` three conditions are needed, and each names a way in which the code loses the property:

- `SlicesFit`: slices, and so numbers, fit their word; `(number - 1) % WordSize`
  would wrap;
- `Copies <= 1`: two workers that store the same block (`block_pool.go:504`) would
  erase the status a confirmation wrote between them (hazard list). The run `reorg` has
  the same bound;
- `MaxCrashes = 0`: a crash inside a rollback or a confirmation leaves bits and
  numbers that `Confirm` does not repair; the run `locator` shows it.

What a confirmation settles needs a third invariant, `SInv`, on top of `NInv`. The
two recursions of `Confirm` walk a shared graph by a stack, and a proof of what they
have done at the end would be an induction over the graph. `LinksGoBack` takes its
place: every non-empty set of stored blocks has a member that no member links to,
because a block is stored after its links. With it:

- `FirstMain(a, N)` says that the confirmed blocks are those that main blocks reach,
  each under the number of the first one; it leaves aside the main block `a` that
  is being rolled back and what is confirmed under the number `N` at work.
  `FirstMain(None, -1)` leaves nothing aside, and holds outside the recursions;
- `Unwinding`, for a rollback: whatever still carries the number that is being
  undone (`Remains`) is on the stack, or is a link not yet looked at of a block
  that remains. So nothing remains when the last frame returns;
- `Visiting`, for a confirmation: the blocks settled are the confirmed ones, they
  are closed under links, and the links that a frame has passed are confirmed or
  being visited above it on the stack. So, when the last frame returns, the settled
  blocks are exactly `Ancestors` of the main block;
- `OnTop`: what took effect in the state below still does, and what takes effect
  now was not settled there.

`ImplementsLedgerHolds` follows: seen through the main-block index, only
`CommitMain` is a step of `AbstractLedger` (`OnlyCommitWrites`, `CommitAdds`); the
prefix it keeps is the chain up to the block the rollback stopped on, and the state
it adds extends that block's as `Visiting` and `OnTop` say. Every other step of every
worker stutters.

`EarlyOnlyAheadHolds` allows crashes, blocks stored twice and blocks any number of
slices ahead of the clock: `DInv` says that the first block a walk takes into its list,
which is the only one it compares with the clock, was deep enough when the clock was
read or ahead of it; that the blocks below it are in no later slice; and that time only
goes on. `ClockFits` asks that the clock itself is below its word; it says nothing of
the blocks.

`CumIsChainWorkHolds` needs no more than `IInv`, and nothing of `Work`. The leaders of a
slice that hang on one leader are rivals (`LeadersOn`). A new leader of another slice
than its link's has no excess; one that replaces its link takes over the excess of
that; one that replaces the leader of its link adds the excess of that leader, which is
not yet in it (`ChainLinkWork`). Old leaders keep theirs, because places and weights are
fixed.

### The block pool

`IInv` is `TypeOK`, `StoreInv`, `EntriesInv`, `Closed`, `Apart` and `MapsAgree`.
A worker checks links without a lock and stores the block later; `StoreInv` says
that what it has forgotten in between was stored, and that only the holder of
`rwlock` has taken waiters out of the maps. `EntriesInv` is the same for entries:
what an isolated block does not wait for is stored. `Apart`: a waiter is listed in
one place at a time, in `lackBlockMap`, in the entry of an isolated block, or in
the hands of `deleteIsolatedBlock`; without it two releases could both find it.
`NoTipLost` needs a second invariant on top (`TipInv`): what is on its way out of
the list is linked by a block that is stored or about to be.
It is false once the list refuses a block (`block_pool.go:302`), hence `NotRefused`.

### Accounts

For `SolventHolds` the invariant says that balances and the rewards on the stack
are natural numbers: a negative share handed up would be taken from the sender
of the block above. `TransferAccountsCharged` is its core: after the execution
the sender can still pay what it could pay before. `overdraft` shows that calls
without value are a necessary condition. `ConservedHolds` needs no such
condition: its core is `TransferCovered`, that what leaves the balances while a
block is executed is what reaches them plus what is collected, and that the
shares of a fee at all levels of the recursion add up to it, whatever is rounded.
Sums over accounts and over the frames of the stack are those of the community
modules; `Sums` has the lemmas on them. `PowerAssumption` is the fact that powers
of two are positive, which the installed provers do not know; TLC evaluates it.

### The synchroniser

`OneSession` is kept by the order in which the session and the loop write `done`,
`idle` and `syncing`. Completeness rests on three facts. `BatchGood`: the batch
that answers a point contains everything after that point up to its own end, and
leaves the slice it cut in `sliceCache`; if it says it is the last, it reaches the
end of the main chain. It is proved from the closed form of the packing loop:
`OpenIs` (the opened slices are an interval), `RestIs` and the monotonicity of the
sums `Upto`. `Progress`: of a clean session at most one thing is under way, a
request, a batch that is packed or sent, or an answer not yet read, and each
carries what the next one needs; nothing of another peer is. `CacheOK`: while the
acknowledgement of a batch that cut a slice is under way, the peer still has that
slice cached.

The proof corrected the statement. A session used to count as clean if it did
not repeat a request *whose answer was still under way*. That is not enough, and
TLC confirms it on an instance with two cut slices: `Stop` takes the answer away
instead of the session, the request is repeated with nothing under way, but the
peer has overwritten its cache when it packed the lost answer. The code updates
`sliceCache` when a batch is packed and not when it is acknowledged
(`synchroniser.go:646`), so now any repeated request for blocks makes a session
unclean. In the same way `MapsAgree` was found too strong where a block is given
up while others wait for it; it now excepts those (section 2).

### Protocol manager and miner, fetcher, local transactions

`ProtocolManagerProofs`: the miner's half of `IInv` counts who will still read
the flag or an order, the manager's half says that while something is to be told
or reset a peer is registered or a handler is still on its way (`ToldInv`,
`FeededInv`). `FetcherProofs`: a step takes a request from where it is only by
putting it elsewhere, giving it up or handing the block to the pool (`Kept`); the worker that
holds it between two locks counts as a place. `LocalTxProofs`: a record is
deleted and restored by notices that come late; the invariant says what is known
of a notice while it is under way and who may still touch a record, and
`NoCircularWait` follows from the order in which the locks and the unbuffered
channel are taken. `LocalTxAssumption` asks that no caller is named "free", the
value that stands for a free lock. `CountedSomewhereHolds` rests on an invariant about
the ledger states: what a main block has confirmed and applied is in the state committed
with it and in those above it, and what is confirmed below the main block in hand and not
rolled back is in `lastState` or in the hands of a notice. It asks that there is a
transaction at all (`Txs # {}`), since a call at rest names one; of balances and outcomes
it assumes nothing.

### Only model-checked

Liveness needs fairness or ENABLED and stays with TLC: `Converges`, `Drains`,
`SessionEnds`, `TaskTakenUp`, `AnnouncedSettled`. Every other property that a passing
run checks is a theorem. The conditions of the theorems about the main chain are
those of the run `reorg`; what happens without them is in the hazard list and in the
run `locator`.

## 5. Not modelled, and the plan

The subsystems that carry the node's own logic are modelled, and what the runs check
of their safety is proved. Next: which part of the numbering survives a crash (the
run `locator` shows that not all of it does) and a block stored twice; and an
abstract specification of the pool and of the synchroniser, as `AbstractLedger` is
one of the main chain.

Not modelled inside the modelled parts: `Stop` beyond the point where it hangs;
the first version of the session (`synchroniser.go:705-858`), which nothing
calls; the message queue to the statistics centre; the search for a nonce.

Out of scope, and by far the larger part of the repository's lines: the
dashboard (40,000 lines of generated assets), and what the repository takes over
from go-ethereum: p2p and discovery, RLP, the trie and the state database, the
EVM, the key store, the RPC server, the command line. None of it holds state of
the ledger's protocol; blocks are values here, a state is a value, a call an
outcome, a connection an event. Queries and RPC of the ledger
(`query_block_info.go`, `api.go`) only read. A model of these parts would restate
third-party code, so the share of the repository's lines that is mapped stays
small; of the ledger's own concurrent code (`main_chain.go`, `bestir.go`,
`block_pool.go`, `synchroniser.go`, `fetcher.go`, `miner.go`, `transaction.go`,
the peer handling of `protohandler.go`) most is.
