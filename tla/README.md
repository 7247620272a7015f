# FixedCoin web wallet: TLA+ models, checks and proofs

The FixedCoin web wallet is a browser application: a React user interface, a Web Worker that holds the
keys and signs, and a network layer that keeps one in-memory snapshot of an unlocked wallet in step with
an ElectrumX server over a WebSocket. Nothing of a wallet is persisted; what can go wrong is the order in
which asynchronous work, connection events, blocks, broadcasts, page events and locks meet. This directory
models that.

All paths below are relative to the directory that holds `src/`; `src/src/` is the TypeScript library,
`src/app/` the Next.js pages.

## 1. Inventory

| Component | Source | State it keeps | Operations | Module |
|---|---|---|---|---|
| Wallet network controller | `src/src/services/walletNetworkController.ts` | generation, session, record (fresh, or stale with a reason), view status, `syncPromise`, `pendingReorg`, address listeners, `pendingBroadcast` and its timer | start, stop/close, refresh, refreshKnownAddresses, recoverRanges, broadcast, replacement broadcast, performSync, trackOperation/drainPendingWork, installAddressSubscriptions, handleConnectionState, handleBlockHeight, reconciliation | `WalletNetworkController` |
| Dirty sync queue | `src/src/services/syncDirtyQueue.ts` | one merged pending request | request, flush, clear | the same |
| Broadcast projection | `src/src/wallet/transparentBroadcast.ts` | none | validate, project, project a replacement, visibility | the same |
| Transparent scanner | `src/src/wallet/transparentScan.ts` | the control of one scan (failure, abort), the snapshot it returns | full HD scan with gap limit, single key scan, targeted refresh, range recovery | `GapScan`; refresh and recovery in `WalletNetworkController` |
| Concurrency helpers | `src/src/services/concurrency.ts` | slots, queue | limiter, mapWithConcurrency | `GapScan` |
| Electrum client | `src/src/network/electrum.ts` | socket, connect promise, server index, request queue, requests in flight, script hash listeners, reconnect timer, block height | connect, disconnect, request, subscribe, socket and timer events | `ElectrumClient` |
| Crypto worker and client | `src/src/crypto/` | one session with its sealed secret; outstanding requests with timeouts | open, execute, clear, dispose | `WalletSession` |
| Session locking | `src/app/wallet-access-workspace.tsx`, `src/src/security/` | session, inactivity and background timers | import, verify, lock, visibility and activity events | `WalletSession` |
| Dashboard | `src/app/wallet-dashboard.tsx` | forms, reviews, busy flags, receipts, tracking poll | send, replace, consolidate, receive, recover, lock | `SendFlow`; its requests to the worker in `WalletSession` |
| HD address manager | `src/src/wallet/addressManager.ts` | current addresses, high-water indexes, a reservation queue | currentOrReserve, currentOrPrimary, reserveNew, remember, scanRequirements | `SendFlow` |
| Spend building | `src/src/wallet/transparentSend.ts`, `changePolicy.ts`, `coinbaseMaturity.ts`, `sendRecipientPolicy.ts` | none | selection, maximum, fee replacement, consolidation | `TransparentSend` |
| UTXO metadata cache | `src/src/network/utxoMetadata.ts` | header and transaction promises, generation | fetch, clear | none |
| Policies, helpers | `src/src/domain/`, `src/src/ui/`, `src/src/compat/` | none | tables, conversions | none |
| Native core | `src/native/` | none between calls | derivation, signing | none |
| Presentation, deployment | `src/src/i18n.tsx`, `src/worker.ts`, `src/scripts/` | none | rendering, wording, headers, builds | none |

### How they interact

* The workspace opens a session in the worker, through a client that numbers requests and gives each a
  timeout; the dashboard exists while the workspace holds the session's identifier, and is gone with it.
* The dashboard creates one controller per unlocked session, starts it with the session's HD address
  service and calls refresh, recovery, broadcast and, every four seconds while something is unconfirmed,
  the tracking poll. Its flows take addresses from the address manager, transactions from the spend builder
  and signatures from the worker, each behind an `await`.
* The controller owns an Electrum client and is its listener for connection state, block heights and the
  status of each address. Every one of these callbacks ends in `requestSync`, which starts an operation or
  defers into the dirty queue.
* A sync calls the scanner, which calls the client through a shared limiter and the worker for addresses;
  the scanner's result replaces the record, unless a generation check or a broadcast that is not yet
  reconciled says otherwise.
* A broadcast computes a projected snapshot, sends the transaction, and publishes the projection before the
  server has indexed it. From then on each read is compared with the pending transaction.
* A lock, from inactivity, the background watcher or the user, disposes of the worker and closes the
  controller.

### What is hard

* One JavaScript thread per side, but every `await` is a point at which a stop, a lost connection, a
  notification or another call may come in. The controller guards each with a generation number, the worker
  with a session identifier, the dashboard with closures; missing one leaks one session into the next.
* Requests that arrive while an operation runs are merged. A merge that forgets something forgets it for
  good, because the server does not repeat a notification.
* The server shows an accepted transaction address by address, so the controller reads states in which its
  coins are neither here nor there.
* The client has four sources of connection attempts (requests, retries, its timer, `connect()`) and as many
  ways to lose one; queue, slots, listeners and timer have to agree after each.
* A scan reads three things of each address, in batches, on several branches, through one limiter; reads are
  retried one by one, and the first failure has to stop all of it without losing a slot.
* A background timer that the browser suspends, a wall clock, and three kinds of page events decide together
  whether an absence was too long.
* Timeouts race answers, retries repeat requests, and failures are partial: of one address in a scan, of one
  server in an attempt, of one subscription among several.

### What makes each component correct

* Controller: nothing of an earlier session is published; nothing signalled is lost; a fresh record at rest
  holds what was signalled; an accepted transaction stays in view until it is reconciled, and its coins never
  count twice; the view leaves *scanning*; one operation at a time.
* Queue: a merged request covers what it was merged from.
* Scanner: a snapshot proves discovery; the gap scan goes on behind every used address; a failure stops
  everything; a targeted refresh changes only its targets.
* Client: every request settles; slots are given back; nothing is sent before the handshake; one attempt at a
  time; subscriptions survive a reconnection; a lost connection is repaired.
* Worker and session: an operation answers only with the secret of the session it was asked for; nothing
  survives a lock; page and worker agree on what is open; a hidden wallet is locked within its delay.
* Flows: what is sent is what was reviewed; coins and addresses are not used twice; an address shown is
  covered by the scan; the flows never wait for each other in a circle.
* Address manager: no address index is handed out twice by explicit reservations; the current address follows
  the latest reservation.
* Spend building: inputs = outputs + fee, no output below the dust limit, the fee pays the size, MAX is the
  most that can be sent, a replacement outbids.

`PROJECT.json` lists the same parts under `components` with what is modelled of each, and under `hazards` the
places in the code where these things bite, with the properties that cover them.

## 2. Modules

| Module | Models | Role |
|---|---|---|
| `SyncService` | abstract specification of the sync queue | - |
| `WalletNetworkController` | controller, dirty queue, and what it needs of the scanner, the projection, the client, the server, the chain and the user | a machine |
| `WalletNetworkControllerProofs` | inductive invariant and its consequences; the controller implements `SyncService` | extends the above |
| `WalletNetworkControllerSignals` | one operation at a time; what the record holds of signals and broadcasts | extends the proofs |
| `ElectrumClient` | the client in detail | a machine of its own |
| `ElectrumClientProofs` | inductive invariant and its consequences | extends `ElectrumClient`, `QueueFacts` |
| `WalletSession` | workspace, page, background watcher, worker client and worker, composed | a machine |
| `WalletSessionProofs` | inductive invariant and its consequences | extends `WalletSession` |
| `TransparentSend` | the arithmetic of spending | operators |
| `TransparentSendProofs` | what selection, maximum, replacement and consolidation guarantee | extends `TransparentSend` |
| `SendFlow` | the dashboard's flows, the address manager, and what they meet of the controller and the network | a machine, extends `TransparentSend` |
| `SendFlowProofs` | inductive invariants of the flows and their consequences | extends `SendFlow`, `QueueFacts` |
| `GapScan` | one gap scan with its branches, reads, limiter and control | a machine |
| `GapScanProofs` | inductive invariant and its consequences | extends `GapScan`, `QueueFacts` |
| `QueueFacts` | sequences without repetition as queues of sets | lemmas |
| `MC...` | instances for TLC | extend the machine they name |

In every machine an action is the code between two returns to the event loop. Where one event settles
several promises, an action named `Quiet` or `Settled` in the guards makes further events wait until their
continuations have run, which is the order in which a browser runs microtasks and React its effects.

### WalletNetworkController

*State.* `generation`, `active`, `status`, `record`, `syncPromise`, `dirty`, `pendingReorg`, `listening`,
`pending` and `timer` are the fields of the class with their names shortened (`pendingBroadcast`,
`broadcastReconciliationTimer`, `addressUnsubscribes`). `op` holds the suspended asynchronous functions: for
each operation the point at which it awaits (`stage`), its captured generation, its options, and the
snapshot it is building. `call` holds the user-interface calls that wait in `waitForIdle`. `version`,
`relayed`, `confirmed`, `shown` are the server; `connected`, `everConnected` the link of this session.
`heard`, `owed` and `asked` are history variables, read by properties only: the version of an address when it
was last signalled, accepted transactions the server has not shown, and what signals asked to have read and no
sync of the session has begun on.

*Data.* A snapshot is, per known address, a version of its history and the wallet's own transactions seen
there, confirmed or not. That is what the code's decisions depend on: used or unused, visible or not,
unconfirmed or not. Amounts, outputs, heights and fees are left out.

*Actions.* A sync is `RequestSync` (queue it or launch it, with the synchronous prefix of `performSync`),
`SyncConnected`, `ReadAddress` per address, then `SyncHidden` (the read contradicts the pending broadcast:
withhold it, schedule a retry), or `SyncRead`, for a full scan followed by `SubscribeAddress` per address and
`Installed`. `OperationFails`, `ReadMismatch`, `SyncUnknown` and `Abandon` are its other ends. Each end goes
through `Settle`, the `finally` of `trackOperation`: only the tracked operation drains, first a
reorganisation, then the queue, then what the awaiting caller requests. `Start` and `Stop` reset what the
code resets and leave suspended operations behind, as the code does. `CallController`, `Admit`,
`StartBroadcast`, `Track`, `StartRecovery` and their rejections are the calls that wait for idle: `Quiet`
makes events wait until released callers have run, and lets several callers released by one promise pass
before any goes on. `Relay`, `BroadcastAccepted`, `BroadcastFails` end a broadcast. `ChainActivity`,
`IndexAddress`, `Confirm`, `NextBlock`, `Reorganise`, `LoseConnection`, `Connect` and `RetryReconciliation`
are the environment and the handlers it calls.

*Simplifications worth knowing.* A waiter is released right after `Stop`; the real one may stay behind the
abandoned promise, which is the same as calling later. A broadcast in flight may survive a lost and restored
link, since `request()` retries. Reading an address is one step (history, balance and outputs arrive
separately in the code, and a contradiction between them is `ReadMismatch` or a failure; `GapScan` takes them
apart). A full rescan retains the unused addresses that only a recovery range reached, unread, as the code
does. `broadcastTransaction` without the wallet's own transaction (`walletNetworkController.ts:343-351`) is left
out, since the dashboard always passes one. An output is *seen* through the history of its address, where
`transparentBroadcast.ts:214-219` asks for it among the unspent outputs. Addresses that a transaction of the wallet
spends from begin with a history.

### SyncService

The promise behind the queue, without merging or deferring. `session` counts sessions, `running` says whether
an operation is in progress, `doing` what it covers, `wanted` what was asked for and not begun. `Ask(N)` adds N to
what is wanted while an operation runs; `Begin(N)` starts one on N alone when none runs; `Continue(N)` ends one and
begins the next, which covers everything that was wanted; `Rest` ends one when nothing is wanted. `Cancel` and
`Restart` let requests go, and only together with a change of session, which is what `stop()` and `start()` do. A
lost connection discards nothing: the requests stay in the queue until the operation in progress has ended.

`ImplementsService` is the refinement: `session` is `generation`, `running` is `syncPromise # NoOp`, `doing` what
the tracked sync covers (nothing while a broadcast or a recovery is tracked), `wanted` is `asked`. The mapping takes
`wanted` from what was *signalled*, not from the queue: each handler adds to `asked` what its signal is about
(the address of a notification, the addresses of a transaction, everything for a reorganisation or a reconnection),
and only a sync that covers it takes it out. So a request that is dropped when it is made, merged into something
narrower, or cleared with the queue when the controller drains, leaves something wanted that the next operation does
not cover. The promise is to begin: a sync that fails has let go of what it was doing, which is the matter of
`FreshHoldsSignals` and of the finding `v_failed_scan`.

### ElectrumClient

*State.* `connected` (the socket is set), `currentServerIndex`, `reconnectEnabled`, `reconnectTimer`,
`hasConnectedBefore`, `requestQueue`, `activeRequests` are the fields of the class. `phase`, `tries`,
`byTimer` and `restoring` are the suspended `connectToAvailableServer`: where in the handshake it is, how many
servers it has tried, whether the timer started it. `stage`, `kind` and `attempt` are the suspended callers of
`request()`, `subscribeAddressStatus` and `connect()`; `waiters` those that await `connectPromise`, in order.
`listening` is `scripthashListeners`, `served` what the server will notify on this connection.

*Actions.* `SocketOpens`/`SocketFails`, `VersionAnswered`, `HeadersAnswered`, `Restored`, `HandshakeFails`
are the connection attempt; `ConnectionLost`, `HandshakeLost`, `Malformed`, `Stop` and `SessionUnhealthy` its
losses; `TimerFires` the reconnection; `Issue`, `Answered`, `Refused`, `Fails`, `Retries`, `Unsubscribe` the
life of a request. `Drain` is `drainRequestQueue`, run wherever the code runs it. A socket after `close()`
delivers nothing (the WebSocket standard), so only the current one is kept. The handshake's own requests
travel through the same queue but always alone; this is `HandshakeAlone`, and the reason they need no queue
entries. As in the code, `disconnect()` does not call off an attempt in progress, and a connection lost in
the handshake rotates the server twice.

### WalletSession

*State.* `view`, `sessionRef`, `busy`, `revealedMnemonic`, `sensitiveRevealActive`, `backgroundLockSeconds`
are state and refs of the workspace and the dashboard; `visible`, `focused`, `frozen` the page (`frozen` is
the back/forward cache); `watch` the closure of `watchBackgroundSession` with its deadline, in ticks of the
clock; `asked`, `pending`, `worker` the client; `inbox`, `task`, `activeSession`, `cryptoPromise`, `answers`
the worker: what it has not taken, each command at the `await` where it is suspended, the session it holds,
the promise of its WebAssembly core, and what it posted. `lastLock`, `lost`, `away` are history.

*Data.* A request has a number. The session it opens has the same number, and that number stands for the
secret: what an answer was made with is the session it names. Passwords, payloads and the vault's cipher are
left out, not the awaits they cause (`Derived`, `Sealed`, `Rekeyed`, `Decrypted`).

*Actions.* `Open`, `ContinueVerification`, `VerifyMnemonicBackup`, `Call`, `RevealRecoveryPhrase` and `Leave`
are what the user does; `Deliver`, `Timeout` and `WorkerFailure` what the client hears; `Take`, `Execute` with
its stages and `LoadCrypto` what the worker does; `Hide`, `Show`, `Blur`, `Focus`, `PageHide`, `Restore`,
`Tick` and `LockTimer` the page, its clock and the suspended timer. `DashboardEffect` and `WatchEffect` are
React's effects, which run some time after the state they depend on: until then the old watcher is installed.
`Settled` says that they have run. Every way to lock is `DestroySession`, which terminates the worker with
whatever it is doing.

### TransparentSend and SendFlow

`TransparentSend` holds the arithmetic as operators: `Fund` (what a set of inputs pays, with and without a
change output), `SelectDefault` and `SelectSpend` (the selection and its optimisation by premium), the binary
search `CalculateMax`, the quote and the building of a replacement, and the batches and splits of a
consolidation; what loops in the code is a recursive function or a fold. Coins have a value and one size; so
do outputs. The default selection of the external library
is modelled as the code calls it.

`SendFlow` is the use of it. *State:* the form, the reviews and prepared transactions of the two panels, the
dialog of a broadcast with its quote, the receive panel, the manager (`issued`, `issuedIndices`,
`reservationQueue`), the controller as the flows see it (`ready`, `snapshot`), and the network. `send`, `rbf`
and `receive` are the suspended flows: which function, the promise it awaits, what its closure captured, the
address it obtained, the snapshot it works on.

*Actions:* `Edit` and the clicks begin a flow; `ChangeChosen`, `Derived`, `Refreshed`, `Signed`, `Submit`,
`Accepted`, `BroadcastFails` and their counterparts of the replacement and the receive panel are its
continuations. `Sync`, `Rescan`, `GoStale`, `Confirm`, `Pay` and `Relay` are what happens meanwhile; `Relay` with
no answer is a broadcast the server took and the wallet does not know of. The dialog of a broadcast is
modal, so nothing behind it is clicked.

*Simplifications worth knowing.* The snapshot of a sync contains what was accepted (what happens when it does
not is the controller's subject, and finding `v_second`); a flow passes `waitForIdle` alone (`v_two` is about
two); one session, which is not locked; incoming coins are seen as used addresses, not as new inputs. A
replacement may be quoted although an output of the original was spent (`transparentBroadcast.ts:285-296` refuses
that), so the model allows more than the code. The receive panel stays with one family of addresses
(`wallet-dashboard.tsx:2047-2052` switches it). `sendBusy` serialises the flows that reserve on the internal branch,
so the reservations that overlap are those of the receive panel with them.

### GapScan

*State.* For each branch the point where its scan awaits (`stage`), the batch being scanned (`todo`,
`current`), `nextIndex`, `consecutiveUnused` and what was found (`record`); for each address its three reads
with their attempts; the limiter's queue and active count; `failure` and `aborted`, the scan's control;
`outcome`. `chain` is what the server would answer now, `start` what the scan began with.

*Actions.* `AddressStep` and `BranchStep` are the continuations of one address and one branch, `Derive` the
worker's answer with the next batch, `Answer`, `ReadFails` and `Retry` the reads, `Settle` the end,
`Abort` the end of the session, `Moves` the chain. A slot that is freed goes to the next read in the queue
before the failure that freed it is recorded, as in the code.

*Simplifications worth knowing.* An answer tells the chain at the moment it arrives. History, balance and
coins are three views of one state (never used, funded, emptied). The later scan starts from any previous
snapshot: an unbroken part per branch, and recovered addresses behind it.

### How the machines fit together

They are not composed into one state space; each takes from its neighbours what they promise. The
controller's model takes from the client that reads end or fail, that a lost connection is announced, and that
a reconnection reports each subscribed address before it announces itself: `RequestsSettle` and
`ListenersServed` of the client. From the scanner it takes that a full scan reads the addresses behind used
ones and ends: `Discovered` and `ScanSettles`. `SendFlow` takes from the controller one operation at a time
and a snapshot that covers what was asked for; from the worker that a signature is of the session it was asked
for: `AnsweredBySession`. A silent disconnect after a malformed message exists in the client's model only.

## 3. Runs

`MC*.tla` gives values to functions, each `.cfg` to the rest. `CHECK_DEADLOCK FALSE` throughout: a wallet
with nothing to do comes to rest, and the bounded environment stops acting.

| Run | Instance | Shows | Distinct states |
|---|---|---|---|
| `sync` | HD, two addresses, the second behind the first in the gap scan; two history changes each, one reorganisation, one lost connection, recovery and refresh, a session and its end | `FreshHoldsSignals`, `ImplementsService` | 965 000 |
| `session` | one address and transaction, a session and one that replaces it; broadcasts, one reorganisation, one reconciliation retry, one failure; with fairness | `SnapshotOfSession`, `NoForgottenWork`, `DeferredWorkRuns`, `ScanEnds` | 117 000 |
| `broadcast` | a transaction and its replacement over two addresses, broadcast and tracked; one lost connection | `TypeOK`, `PendingStaysProjected`, `NoDoubleBalance` | 722 000 |
| `electrum` | two subscriptions or requests, two servers, one slot, three attempts, two losses, three faults; with fairness | `TypeOK`, `SlotsAccounted`, `HandshakeAlone`, `TimerAlone`, `ListenersServed`, `RequestsSettle` | 333 000 |
| `wallet` | two ways to open, the delays *Never* and two ticks, three requests, two faults; with fairness | `TypeOK`, `NothingOutlivesLock`, `AnsweredBySession`, `SessionsAgree`, `SensitiveNeverHidden`, `AbsenceBounded`, `AwayLocks` | 178 000 |
| `spend` | four coins, two recipients, two transactions, three reservations, an HD wallet and a single address | `TypeOK`, `SignedIsReviewed`, `NoSelfConflict`, `QuoteFitsReceipt`, `ChangeNotReused`, `NeverGivenTwice`, `ShownIsScanned`, `RefreshCovers`, `NoGridlock`, `MaxIsMost` | 458 000 |
| `scan` | an external and an internal branch, a first scan and a later one, two slots, two attempts, two events; with fairness | `TypeOK`, `Discovered`, `SlotsKept`, `FailureStops`, `ScanSettles` | 97 000 |
| `v_failed_scan`, `v_gap`, `v_second`, `v_two`, `v_reconnect` | as small as the case allows | the findings below | - |

What each is for: `sync` asks whether merging and deferring can lose a signal, `session` whether one session
can reach the next and whether work ends, `broadcast` what the user sees of a transaction between its
acceptance and its confirmation. `electrum` asks whether the client's books survive any mixture of losses and
retries, `wallet` whether a lock locks, `spend` whether flows that overlap stay consistent, `scan` whether a
snapshot may be believed.

*Why the bounds are enough.*

* Controller: two addresses are what it takes for one to be read and another not, for the gap to extend, and
  for the server to index half a transaction. The second session can begin at any await of the first
  (`MaxStart` bounds the starts apart from the stops: in `sync` one session may start and stop). A second
  history change of an address can come before, during and after the read that the first caused. One
  reconciliation retry (seven in the code) reaches the last retry, the reset of the counter and the timer that
  finds nothing to do; in `session` it also arms the timer before the session that finds it ends. The
  reorganisation there makes a rescan that is not silent meet a pending broadcast: it publishes *scanning* and
  returns without a record (`walletNetworkController.ts:605-612`, and after a retry `626-633`), which is what
  `ScanEnds` is about. Two reorganisations with two history changes in one session (46 000 states), and one lost
  connection instead (126 000 states), were checked too, with the same result.
* Client: one slot (six in the code) and two requests make one wait for the other; two losses allow a second
  loss during the repair of the first; three attempts are the code's constant. Three requests were checked for
  the safety properties too, with the same result.
* Session: three requests are an opening, a verification and an operation, or two openings with a lock between
  them and a request of the second; two faults allow a timeout followed by a failure. Two ticks separate *early*, *on
  time* and *late*, and the history variable that measures an absence goes one beyond the longest delay.
* Flows: three coins make a consolidation of two batches (`MinUtxos` 3, batches of two), a fourth lets a send
  and a consolidation overlap. Two transactions are a send and its replacement, or two sends. Three reservations overlap
  in the queue and reach past the gap. The forms have two outputs of two families, so the change follows the
  family of the larger; values have two digits, so that dust, exact matches and a change output just worth
  having all occur.
* Scan: a gap of one and batches of two make the last batch end exactly at, before and behind the gap; the
  highest index makes a branch run out. Two attempts (three in the code) have a first and a last. Two
  events are two failures, a failure and an abort, or either with a move of the chain.

*Fairness.*

* Controller: each operation goes on until it settles, since every request ends by an answer or its 30 s
  timeout (`WF` of `Progress(i)` for some `i`, which contains both the good and the bad ends). A timer that is set
  fires (`SF` of `RetryReconciliation`: the microtasks of calls that are rejected at once come before it, for a
  moment each). The server indexes what it accepted (`SF` of `IndexAddress`, whose handler operations may delay),
  and blocks keep coming while a broadcast is reconciled (`SF` of `AwaitedBlock`). `ScanEnds` needs the blocks: once
  the retries are used up, a rescan that was withheld leaves the view *scanning* until a block or a notification
  starts another sync. The user, history changes, reorganisations and the link are not fair. The `session` run has a
  failure and no lost connection: with both, rejected calls switch `Quiet` on and off for ever, and weak fairness no
  longer says that an operation goes on. That is a limit of the assumption, not of the code; safety is checked with
  both.
* Client: a handshake step ends by an event or the request timeout, a request likewise, and timers fire
  (`WF`); `SF` of `SocketOpens` says that a server is reachable. `RequestsSettle` does not depend on that last
  assumption in substance, `LossIsRepaired` does, and fails even with it.
* Session: time passes, effects run and a suspended timer runs in the end (`WF` of `Tick`, `Effect`,
  `LockTimer`). No worker step is fair: no property needs the worker to answer.
* Scan: one `WF` of `Progress`: reads end by an answer or the client's timeout, timers fire, the worker
  answers, continuations run. Failures and the chain are not fair.
* Flows: none. A broadcast may wait as long as the network likes; instead of liveness `NoGridlock` says
  that some flow in flight is never waiting for another one.

The `broadcast` run has no recovery: `performRecoveryRanges` does not compare what it read with the pending
broadcast, and with it `PendingStaysProjected` does not hold (see *Seen while modelling*). The `session` run has
none either, nor tracking, for its size: with recovery its four properties hold too, in 616 000 states that take too
long to check each time, and the two safety properties are proved for everything (`RecordOfSession`,
`WorkIsRemembered`). In `sync` a session ends and none follows: a recovery that was called in one session and runs in
the next, before there is a record, leads to a rescan that keeps an address unread (`LeavesOut` in §4), and
`FreshHoldsSignals` does not hold of it.

## 4. Proofs

All proofs are for every value of the constants, under the named assumption of each module, which every run of
the module evaluates. `IInv` was checked by TLC as an invariant before it was proved.

### The controller

`WalletNetworkControllerProofs` proves, for any addresses, transactions, callers and bounds, `TypeCorrect`
(`TypeOK`), `RecordOfSession` (`SnapshotOfSession`) and `WorkIsRemembered` (`NoForgottenWork`). None of them
is inductive alone. `IInv` joins them with what they rest on:

* `OpInv(i)` of every suspended operation: its generation is not ahead of the controller's; a sync runs under
  its own generation; one of the present generation implies a session; the snapshot it builds belongs to the
  generation it runs under; a broadcast has a transaction. Without it, `SnapshotOfSession` is not preserved
  when an operation publishes.
* `SyncTracked`: a sync of the present generation is the tracked operation. Without it, launching could
  overwrite one in flight.
* `OneDeferred`: the queue holds at most one merged request.
* `LinkInv`: a link or a reconciliation timer exists only in a session.

The proof has one lemma for `RequestSync`, one for `Settle`, one for the relaunch inside it, which together
carry the queue; a lemma per action then shows what that action adds.

`Refinement`, in the same module, is `Spec => ImplementsService`. It joins what the signals asked for with what
the code remembers: `AskedKept` says that `asked` is within `Wanted`, what the queue and `pendingReorg` ask for, and
is an invariant next to `IInv`. `MergeCovers` says that a merged request covers what its parts do. `RequestCovers` and
`TargetsCover` show, handler by handler, that what the code requests covers what the signal is about; a request
made while an operation runs is then a step *Ask*, otherwise *Begin*. `Settle` is *Continue* with a sync that covers
all that was wanted, or *Rest* with an empty queue, `Stop` and `Start` are *Cancel* and *Restart*, and every other
action leaves the service as it is (`KeepsService`).

`WalletNetworkControllerSignals` proves the three properties that say what the published record is worth. They
do not hold of everything the code can do; each theorem names, as an action that does not happen, the steps
after which the code forgets, and proves that there are no others:

| Theorem | Property | Where |
|---|---|---|
| `OneOperation` | `SingleFlight` | one caller, or one kind of call (`OneAtATime`) |
| `BroadcastStaysProjected` | `PendingStaysProjected` | `[]SingleFlight`, no `RecoversPending` |
| `FreshIsCurrent` | `FreshHoldsSignals` | `[]SingleFlight`, no `Missed("heard")` |
| `ReplacementCountsOnce` | `NoDoubleBalance` | `[]SingleFlight`, no `Missed("shown")`, no `LostAnswer` |

* `SingleFlight` is what `trackOperation` means to assert. Two callers released by one promise break it (run
  `v_two`); `OneOperation` shows that nothing else does: what `waitForIdle` found idle is idle when its caller
  goes on, because no event runs between them.
* `RecoversPending`: `performRecoveryRanges` publishes what it read without asking `pendingBroadcast`.
* `Missed(k)`: a sync that fails while the link is up, so that its request is not repeated (`FailsOnline`,
  the cause of `v_failed_scan`); a full scan withheld for a pending broadcast and followed by a targeted retry
  only (`Withholds`); a broadcast that takes another's place in the reconciliation (`Supersedes`, the cause
  of `v_second`); a rescan that keeps, unread, an address that lags (`LeavesOut`); and, for what the server
  shows rather than what it signalled, a change between the read of an address and its subscription
  (`LateChange`).
* `LostAnswer`: the server takes a transaction and the wallet does not learn of it. A replacement sent by the
  wallet is then not reconciled, and nothing looks for its original.

Except for `SingleFlight` these are conditions on steps, not on states, so a theorem covers every behaviour up
to its first such step. `"gap" \notin Address` says only that this label of the model is not an address.

The argument follows an address that *lags*: whose version in a snapshot is older than what was heard of it, or
whose transactions are not what the server shows (`Lag(k, s)`). `Covered(k)` is the invariant: every address that
lags in the record is being read, asked for, or to be asked for by the reconciliation; one that lags in the
snapshot of an operation is asked for or not yet read by it. It rests on

* `Tracked` and `CallIdle`: the operation with a snapshot in hand is the one waited for, and a call that waits
  has none yet;
* `Disc`: what record, pending broadcast and operation in hand have in common, for instance that a targeted sync
  holds a snapshot with the addresses of the record, and that a full scan that installs has nothing to reconcile;
* `Linked`: what a snapshot knows was learnt over the present link, and no version is ahead of the server's;
* for `NoDoubleBalance`, further `Listening` (an address of the record has a live listener, or a scan that will
  install it is asked for), `ChainSound` (mempool and chain hold no two transactions that spend the same
  coins), `Announced` (while the server shows what settles a broadcast, some address it affects is asked for)
  and `Serves` (the broadcast being reconciled is one the server has, or is on its way out).

At rest nothing is asked for and nothing pends, so nothing lags, and the record is the server's view
(`RestIsSettled`). Steps are grouped by what they do to the operation in hand and the queue (`Renewed`, `Calm`,
`Ended`, `Turned`): one lemma per group and invariant, instead of one per action.

### The client

`ElectrumClientProofs` proves, for any number of requests, servers, slots and attempts and without the bounds
on losses and faults playing a part, every safety property the run `electrum` checks: `TypeCorrect`,
`SlotsComeBack` (`SlotsAccounted`), `HandshakeIsAlone` (`HandshakeAlone`), `OneAttempt` (`TimerAlone`) and
`SubscriptionsSurvive` (`ListenersServed`). Its `IInv` adds to them

* `QueueHolds` and `WaitersHold`: the queue and the list of waiters hold exactly the requests of their stage,
  each once. `SlotsAccounted` rests on this: draining a queue with a repetition would take two slots for one
  request.
* `PhaseHolds`: somebody waits only while there is an attempt, and the socket is set exactly from its opening
  on. `TimerAlone` rests on it.
* `RequestHolds(r)`: what kind of request can be where, a retry only below the last attempt, a listener only
  of a subscription that has not failed.
* `RestoringHolds`: within an attempt, every listener is of a script hash being restored, restored, or of a
  subscription still to be sent. This is what makes `ListenersServed` survive the step in which the attempt
  ends although `restoreScripthashSubscriptions` took its list earlier.

`QueueFacts` holds what this proof and the scan's need of sequences without repetition: their ranges, what
appending, concatenating, splitting and taking the head make of them. On it rest one lemma per idea:
`DrainLemma`, `ReleaseLemma`, `ClosedLemma` for the books; `LossInv`, `NextServerInv`, `EstablishedInv`,
`SettlesInv`, `EnqueueInv`, `JoinInv` for what several actions share.

### The session

`WalletSessionProofs` proves every safety property the run `wallet` checks, for any number of requests and
faults and any delays: `TypesHold`, `PhrasesStayHidden` (`SensitiveNeverHidden`), `AbsencesAreBounded`
(`AbsenceBounded`), `LocksLeaveNothing` (`NothingOutlivesLock`), `AnswersNameTheirSession`
(`AnsweredBySession`) and `SessionsAlwaysAgree` (`SessionsAgree`). `IInv` has four parts:

* `TypeOK`.
* `WatchHolds`: an installed watcher that has not locked knows the page: while it takes the page for hidden
  its deadline is what is left of the delay, and otherwise there is none; one that has locked leaves no
  session. The two properties about absences follow.
* `RequestsHold`: `HeldFresh` (everything in client and worker is of a request since the last lock), `Served`
  (a command under way has the session it was asked for) and `Once` (a request is in one place: inbox,
  command or answer). `Once` is what keeps the others through a step that moves a request.
* `AgreeHolds`: `Turns` says what can be pending in which view; as long as nothing was `lost`, an opening
  under way is still waited for and the session the worker holds is the one shown or about to be heard of.

### The gap scan

`GapScanProofs` proves, for any branches, gap, batch size, slots, attempts, start and chain, `TypesHold`,
`SlotsAreKept` (`SlotsKept`), `DiscoveryIsProved` (`Discovered`) and `FailuresStop` (`FailureStops`). `IInv` is

* `NetworkHolds`: the limiter's queue and count agree with the stages of the reads, and the queue is empty
  unless all slots are used;
* `Placed`: a read belongs to an address being scanned, or to a branch that is broken. Without it a late
  answer could be counted for an address scanned again;
* `Told`: what the server said of an address used from the start is that it is used. The chain moves, but
  a used address never becomes unused;
* `BranchHolds(b)`: every index the branch should have passed is found truly, or still to be scanned; a
  branch that is done ends with a gap of unused indices and has read every issued one;
* `OutcomeHolds`: a snapshot means that all branches are done.

`DrainBooks`, `AskFacts`, `EndsFacts` carry the limiter; `BranchSame`, `BranchFails`, `BranchLess` and
`BranchTakes` what an action may do to a branch; a lemma per action joins the two. `Discovered` then needs
one argument (`GapFound`): a used index that the gap rule reaches, beyond where a branch stopped, would need
a used index among the last unused ones.

### The arithmetic

`TransparentSendProofs` proves, for all coins, amounts, rates and sizes:

* `SelectionConserves`: inputs pay outputs, fee and change and nothing else; change is no dust; the fee pays
  for the size and exceeds that by less than a change output is worth. `SpendAddsUp` carries this through
  the optimisation and the building of the transaction.
* `MaximumIsMost`: the binary search of `CalculateMax` ends with an amount that can be sent, and no larger one
  can. That fitting is monotone in the amount is part of the proof.
* `QuoteOutbids` and `ReplacementOutbids`: a replacement spends what its original spent, has a higher rate
  and a fee higher by one per byte of its own size, and returns the rest.
* `ConsolidationAddsUp`: the transactions of a plan spend disjoint sets of two coins or more, pay nobody but
  the return address, in pieces of the least size or more, and the fee of their size.

The module needs facts about recursively defined functions (sums, least candidates, the search, the batches).
The library's induction theorems cannot be instantiated here; instead each such fact is shown by a least
counterexample: a non-empty set of natural numbers has a least member (`WellFoundedInduction`), at which the
equation of the function fails. The recursion is written as functions throughout, for that reason.

### The flows

`SendFlowProofs` proves of every set of coins, forms, rates, gaps and bounds every property the run `spend`
checks: `TypesHold` (`TypeOK`), `WhatIsSentWasReviewed` (`SignedIsReviewed`), `NoAccidentalConflict`
(`NoSelfConflict`), `QuotesFit` (`QuoteFitsReceipt`), `ChangeStaysPrivate` (`ChangeNotReused`),
`ReservationsAreUnique` (`NeverGivenTwice`), `WhatIsShownIsWatched` (`ShownIsScanned`), `RefreshesCover`
(`RefreshCovers`), `FlowsGoOn` (`NoGridlock`) and `MaxNeverLeavesMore` (`MaxIsMost`). The base is `IInv`:

* `SendHolds`: a flow of the panels runs alone (`sendBusy`) and in front of no dialog, is at an await its
  function has, and the review it captured is the one shown unless an edit has removed it. This is why a signature
  that arrives late cannot be paired with another review.
* `PanelHolds`: what is prepared on a panel is what the panel shows.
* `RbfHolds`: a flow of the dialog is about the transaction on it, and what it signed spends the same coins.
* `MoneyHolds`: no coin of an accepted transaction is spendable any more; a transaction at the network has its
  coins in the snapshot, which nothing replaces while it is there (`QuietNow`); a transaction that the dialog
  can replace has not been replaced. `NoSelfConflict` needs the last part in the step of a replacement: what
  conflicts with the replacement would conflict with the original.

On top of it come, each relative to the ones before:

* `Typed`: what each flow captured and obtained has its type (`CapturedHolds`, `ObtainedHolds`, `SendTyped`,
  `RbfTyped`, `ReceiveTyped`), what a snapshot may know is known (`WorldHolds`), and indices are issued once and
  in the order of the queue (`ManagerHolds`). The indices are bounded without a guard where they grow:
  `RoomLeft` says that the clicks leave room for what the flows in flight may still reserve. `NeverGivenTwice`
  is part of it.
* `QueueHolds`: the reservation queue holds exactly the flows that are queued or derive for a reservation, once
  each, and the one that derives is at its head. `SomeoneGoesOn` then finds a flow that does not wait for another.
* `ScanHolds`: the snapshot reaches the address shown; and while the wallet is ready, or a broadcast of its
  snapshot is under way and will make it ready (`Trusted`), also the address of a flow that waits for its
  refresh to be over. A snapshot never reaches less than the one before.
* `PanelsApart` and `FreshHolds`: a change address that is reviewed, prepared or being broadcast is issued and in
  no accepted transaction, and that of a consolidation at most in those of its own plan, which use it together on
  purpose. The first invariant keeps the second: the two panels are never both at work, nor is either behind the
  dialog of a transaction that can be replaced.
* `QuoteFitsReceipt` is kept by each step as it stands, relative to `IInv` and `Typed`; `MaxIsMost` is
  `MaximumIsMost` at the step that fills in the form.

Two assumptions, evaluated by the run: `FlowAssumption`, in which a form has at least one output (the code
disables the removal of the only row, `wallet-dashboard.tsx:2323`), and `NoneIsNoRecord`: the model value `None`
is not itself a flow, a snapshot or another record.

### Model-checked only

Liveness: `DeferredWorkRuns`, `ScanEnds`, `RequestsSettle`, `AwayLocks`, `ScanSettles`. They need fairness and
`ENABLED`, which are beyond the prover. Every safety property of the passing runs is stated by a theorem; the
three of `WalletNetworkControllerSignals` under the conditions above. The runs check those three without naming
the conditions: in the instances of `sync` and `broadcast` the steps that break them do not occur (no failed
read, no second broadcast of other addresses, no recovery while one is pending) or do no harm.

## 5. Findings

Each is a run that must end in a violation; the behaviours are TLC's.

* `v_failed_scan`: after a failed read of one address, a targeted sync of another publishes the record as
  fresh. The change that was signalled is not in it and nothing asks for it again, against
  `src/docs/SECURITY.md:29`.
* `v_gap`: an address used while the first scan installs its subscriptions is read by a targeted sync and
  recorded as used, so the gap behind it is not scanned, against `src/docs/ARCHITECTURE.md:23`.
* `v_second`: a second broadcast replaces the first in the reconciliation, and the first disappears from the
  snapshot until the server shows it, against `src/docs/ARCHITECTURE.md:39`.
* `v_two`: two callers released by the same `waitForIdle`: the argument of `trackOperation` is already
  running when its assertion throws, so a transaction is sent and its caller told that it was not.
* `v_reconnect`: a request made while the reconnect timer runs cancels it; when its own attempt fails, nothing
  reconnects until something calls `connect()` again.

*Seen while modelling*, without a run of their own (most are under `hazards`):

* `walletNetworkController.ts:640-680`: `performRecoveryRanges` publishes without comparing with the pending
  broadcast; a recovery over known addresses during the reconciliation takes the projection back. With
  `"recover"` added to `Wants` in `broadcast.cfg` TLC finds it as a violation of
  `PendingStaysProjected`.
* A change between the read of an address and its subscription is lost because the status that the
  subscription returns is ignored; a full rescan withheld because of a pending broadcast is followed by a
  targeted retry only; a full scan merged with a targeted request leaves out the targeted addresses if they
  are unused and were reached by a recovery range only.
* An address whose history was read before a payment and whose balance after it is published with coins and
  without history until its next notification (`GapScan` contains the torn read; nothing published decides
  discovery by coins alone).
* `electrum.ts`: a broadcast whose answer timed out is sent again by `request()`; an error answer is retried
  three times and then marks the whole session unhealthy; a request that waits for its retry when
  `disconnect()` is called opens a connection again, and nobody closes it.
* `wallet-dashboard.tsx:878`: every send and every consolidation preview reserves a new internal index, used
  or not. After more of them in one session than the gap limit has addresses, a later change output pays an
  index that the gap scan of a new session does not reach.
* `wallet-dashboard.tsx:933`: an edit while a preview is awaited is followed by the review of the outputs as
  they were. What is signed is that review (`SignedIsReviewed`).
* `wallet-dashboard.tsx:1836`: the consolidation panel is shown only while there are at least 21 spendable
  coins, so the last batch of a prepared consolidation can become unreachable.
* `transparentSend.ts:1019`: an original at the highest fee rate gets a quote above it, which
  `buildTransparentRbfCancellation` refuses.
* The return address of a replacement is the address of the change of the next send, unless something used
  it: only the modality of the dialog keeps the two apart (`ChangeNotReused` holds with it).
* `backgroundSessionLock.ts:49`: a watcher that is installed while the page is hidden begins its delay anew.
  `AbsenceBounded` therefore measures an absence from the later of hiding and installing.
* `cryptoWorkerClient.ts:76`: an opening that timed out goes on in the worker and may open a session nobody
  shows; `SessionsAgree` is conditional on that (`lost`). A worker that fails leaves a dashboard with a dead
  session (`cryptoWorkerClient.ts:48`); a failed load of the core is kept for the life of the worker
  (`crypto.worker.ts:79`).
* A broadcast whose answer is lost leaves its coins spendable until a sync: `NoSelfConflict` is about
  acknowledged transactions.

## 6. Not modelled, and why

* Scripts, PSBTs, key derivation, encryption and signing: bytes, with no order to get wrong. The native core
  keeps no state between calls.
* Different sizes of inputs and outputs, coinbase maturity, owner material: `TransparentSend` has one size of
  each, which keeps the arithmetic of selection, dust and premium and drops the tables.
* The aggregation of a snapshot (totals, legacy transactions, coinbase lookups) and the scan of a single key:
  sums over what was read.
* The metadata cache decorates coins with times and fees that nothing else reads. Block heights, header
  fingerprints, metrics, payload validation and address decoding of the client.
* `estimateHighPriorityFeeRate` appears as a rate the server may recommend; it changes nothing.
* The dashboard's recovery form, settings and the cooldown of manual syncs: they only choose when a call is
  made, and the controller's model lets it be made at any time.
* A session that is locked while a flow of the dashboard is in flight: `WalletSession` locks at every await of
  worker and page, `WalletNetworkController` stops at every await of an operation; the flows' own
  continuations then find no component and no session.
* Rendering, translations, deployment files and build scripts hold no protocol state.

## 7. What could follow

* The flows and the controller in one state space, which would show `v_two` and `v_second` from the dashboard;
  both machines are too large for it as they stand, so it needs an abstract controller that both refine.
* A version of `GapScan` with `subscribe` after `scan`, to compare the status that a subscription returns with
  the history that was read.
