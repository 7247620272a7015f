----------------------- MODULE WalletNetworkController -----------------------
(***************************************************************************)
(* The network controller of an unlocked wallet:                           *)
(* src/src/services/walletNetworkController.ts with the DirtySyncQueue of  *)
(* src/src/services/syncDirtyQueue.ts.                                     *)
(*                                                                         *)
(* The controller keeps one in-memory snapshot of the wallet's addresses   *)
(* in step with an ElectrumX server.  It is driven by the user interface   *)
(* (start, stop, refresh, broadcast, recover, track), by events of the     *)
(* Electrum client (connection lost and restored, address status, block    *)
(* height) and by the completion of its own asynchronous operations.       *)
(*                                                                         *)
(* JavaScript runs one task at a time, with the microtasks it queues, so   *)
(* an action is the code between two points where control returns to the   *)
(* event loop.  The one place where the order of microtasks matters, calls *)
(* that waited for the same promise, is modelled by Admit and Quiet.       *)
(*                                                                         *)
(* A snapshot is abstracted to what a scan read: per address a version of  *)
(* its chain history, and the wallet's own transactions shown there.       *)
(***************************************************************************)
EXTENDS Naturals, FiniteSets

CONSTANTS
    Address,        \* addresses of the wallet's key
    Root,           \* addresses every gap scan covers
    Unlocks,        \* Unlocks[a]: addresses the gap scan reaches once a is used
    Hd,             \* TRUE for an HD wallet, FALSE for a single key
    WalletTx,       \* transactions this wallet may broadcast
    Spends,         \* Spends[t]: wallet addresses t spends from
    Pays,           \* Pays[t]: wallet addresses t pays to
    Original,       \* Original[t]: the transaction t replaces, or NoTx
    NoTx,
    NoOp,           \* syncPromise = undefined
    Caller,         \* concurrent user-interface calls into the controller
    Wants,          \* what the user asks for
    MaxRetries,     \* BROADCAST_RECONCILIATION_MAX_RETRIES
    MaxGeneration,  \* bound: start and stop calls
    MaxStart,       \* bound: of these, the last that may be a start
    MaxVersion,     \* bound: history changes of one address
    MaxReorgs,      \* bound: reorganisation signals
    MaxDrops,       \* bound: connections lost
    MaxFailures     \* bound: operations failing while connected

Generation == 0 .. MaxGeneration
Mark == {"none", "fresh", "network-error", "connection-lost", "reorg"}
Status == {"idle", "connecting", "scanning", "ready", "stale", "error"}

ASSUME ConstantsAssumption ==
    /\ MaxGeneration \in Nat /\ MaxRetries \in Nat
    /\ MaxVersion \in Nat /\ MaxReorgs \in Nat
    /\ MaxDrops \in Nat /\ MaxFailures \in Nat
    /\ Root \subseteq Address
    /\ Unlocks \in [Address -> SUBSET Address]
    /\ Hd \in BOOLEAN
    /\ ~ Hd => Root = Address
    /\ Wants \subseteq {"broadcast", "recover", "track", "refresh"}
    /\ Spends \in [WalletTx -> (SUBSET Address) \ {{}}]
    /\ Pays \in [WalletTx -> SUBSET Address]
    /\ NoTx \notin WalletTx
    /\ Original \in [WalletTx -> WalletTx \cup {NoTx}]
    /\ \A t \in WalletTx : Original[t] # NoTx =>
          /\ Spends[t] = Spends[Original[t]]
          /\ Original[Original[t]] = NoTx
          /\ \A u \in WalletTx : Original[u] = Original[t] => u = t
    /\ Caller \cap Generation = {}
    /\ NoOp \notin Caller \cup Generation

(* A sync runs under the generation that launched it; a call of the user   *)
(* interface runs its operation under its own name.                        *)
OpId == Generation \cup Caller

(***************************************************************************)
(* Snapshots                                                               *)
(***************************************************************************)
Sighting == WalletTx \X BOOLEAN     \* a transaction and whether it is confirmed

Snapshot == [session : Generation,
             known   : SUBSET Address,
             version : [Address -> Nat],
             txs     : [Address -> SUBSET Sighting]]

EmptySnapshot == [session |-> 0, known |-> {},
                  version |-> [a \in Address |-> 0],
                  txs     |-> [a \in Address |-> {}]]

\* state.record: mark "none" when there is no record, else its status or
\* the reason it is stale.
Record == [mark : Mark, snap : Snapshot]
NoRecord == [mark |-> "none", snap |-> EmptySnapshot]
Fresh(s) == [mark |-> "fresh", snap |-> s]
Stale(r, why) == IF r.mark = "none" THEN r ELSE [r EXCEPT !.mark = why]

Used(s, a) == s.version[a] > 0 \/ s.txs[a] # {}

\* The transaction that t replaces, or that replaces t: it spends the same
\* coins.
Rivals(t) == {u \in WalletTx : Original[u] = t \/ Original[t] = u}

\* acceptedTransactionAddresses
Touches(t) == Spends[t] \cup Pays[t]

Shows(s, a, t) == \E c \in BOOLEAN : <<t, c>> \in s.txs[a]

\* The coins that t spends are gone from address a.
Spent(s, a, t) == \E u \in {t} \cup Rivals(t) : Shows(s, a, u)

\* acceptedTransactionIsVisible: the inputs are gone, the outputs are there.
Visible(s, t) == /\ \A a \in Spends[t] : Spent(s, a, t)
                 /\ \A a \in Pays[t] : Shows(s, a, t)

ConfirmedIn(s, t) == \E a \in Address : <<t, TRUE>> \in s.txs[a]

\* walletTransactionIsUnconfirmed
UnconfirmedIn(s, t) ==
    /\ \E a \in Address : <<t, FALSE>> \in s.txs[a]
    /\ ~ ConfirmedIn(s, t)

\* validateAcceptedTransaction: the outputs are known addresses and the
\* inputs are unspent in the snapshot.
Acceptable(s, t) ==
    /\ Touches(t) \subseteq s.known
    /\ \A a \in Spends[t] : ~ Spent(s, a, t)

\* validateReplacementTransaction
Replaceable(s, o, t) ==
    /\ Touches(t) \subseteq s.known
    /\ Visible(s, o) /\ UnconfirmedIn(s, o)

\* projectAcceptedTransparentTransaction, projectReplacementTransparentTransaction
Projected(s, t) ==
    LET o == Original[t]
        affected == Touches(t) \cup (IF o = NoTx THEN {} ELSE Touches(o))
    IN  [s EXCEPT !.txs = [a \in Address |->
            IF a \in affected
            THEN {p \in s.txs[a] : p[1] # o} \cup {<<t, FALSE>>}
            ELSE s.txs[a]]]

(***************************************************************************)
(* Sync requests and their merging                                         *)
(***************************************************************************)
Options == [silent : BOOLEAN, full : BOOLEAN, only : SUBSET Address]

FullSync == [silent |-> FALSE, full |-> TRUE, only |-> {}]
Discovery == [silent |-> TRUE, full |-> TRUE, only |-> {}]
Targeted(A) == [silent |-> TRUE, full |-> FALSE, only |-> A]

\* Mutant of Merge: a full scan is wanted only if every request wants one.
Merge_Narrowed(S) ==
    LET full == \A o \in S : o.full
    IN  [silent |-> \A o \in S : o.silent,
         full   |-> full,
         only   |-> IF full THEN {} ELSE UNION {o.only : o \in S}]

\* mergeOptions, over the set of requests that were deferred
Merge(S) ==
    LET full == \E o \in S : o.full
    IN  [silent |-> \A o \in S : o.silent,
         full   |-> full,
         only   |-> IF full THEN {} ELSE UNION {o.only : o \in S}]

\* DirtySyncQueue.pending is the empty set or one merged request.
Deferred(S) == IF S = {} THEN {} ELSE {Merge(S)}

\* What a request covers: the addresses it reads, and the gap behind them.
Everything == Address \cup {"gap"}
Covers(o) == IF o.full THEN Everything ELSE o.only
Demand(S) == UNION {Covers(o) : o \in S}

VARIABLES
    (* The Electrum server *)
    version,            \* chain history of each address
    relayed,            \* wallet transactions in its mempool or its chain
    confirmed,          \* those in its chain
    shown,              \* what it reports of them for each address
    (* The Electrum client of the current session *)
    connected, everConnected,
    (* The controller *)
    generation, active, status, record,
    syncPromise,        \* the operation waitForIdle waits for
    dirty, pendingReorg,
    listening,          \* addressUnsubscribes
    pending,            \* pendingBroadcast
    timer,              \* broadcastReconciliationTimer is set
    (* Asynchronous operations and the calls that start them *)
    op, call,
    (* History: what the controller has been told, and has promised *)
    asked,              \* what signals asked to have read, not begun on since
    heard,              \* version of an address when last signalled
    owed,               \* accepted transactions not yet seen on the server
    (* Counters for the bounds *)
    reorgs, drops, failures

server == <<version, relayed, confirmed, shown>>
link == <<connected, everConnected>>
view == <<status, record>>
queue == <<syncPromise, dirty, pendingReorg, asked, op>>
reconciliation == <<pending, timer, owed>>
bounds == <<reorgs, drops, failures>>
vars == <<server, link, generation, active, view, queue, listening,
          reconciliation, call, heard, bounds>>

Stage == {"idle", "connecting", "reading", "installing", "sending", "sent"}
Op == [stage : Stage, gen : Generation, recovery : BOOLEAN,
       silent : BOOLEAN, full : BOOLEAN, only : SUBSET Address,
       targeted : BOOLEAN, snap : Snapshot, todo : SUBSET Address,
       tx : WalletTx \cup {NoTx}]

IdleOp == [stage |-> "idle", gen |-> 0, recovery |-> FALSE, silent |-> FALSE,
           full |-> FALSE, only |-> {}, targeted |-> FALSE,
           snap |-> EmptySnapshot, todo |-> {}, tx |-> NoTx]

Pending == [tx : WalletTx \cup {NoTx}, addresses : SUBSET Address,
            retries : 0 .. MaxRetries]
NoPending == [tx |-> NoTx, addresses |-> {}, retries |-> 0]

Call == [stage : {"none", "waiting", "admitted"},
         want  : {"broadcast", "recover", "track"}]
NoCall == [stage |-> "none", want |-> "track"]

TypeOK ==
    /\ version \in [Address -> Nat]
    /\ relayed \subseteq WalletTx /\ confirmed \subseteq WalletTx
    /\ shown \in [Address -> SUBSET Sighting]
    /\ connected \in BOOLEAN /\ everConnected \in BOOLEAN
    /\ generation \in Generation /\ active \in BOOLEAN
    /\ status \in Status /\ record \in Record
    /\ syncPromise \in OpId \cup {NoOp}
    /\ dirty \subseteq Options /\ pendingReorg \in BOOLEAN
    /\ listening \subseteq Address
    /\ pending \in Pending /\ timer \in BOOLEAN
    /\ op \in [OpId -> Op] /\ call \in [Caller -> Call]
    /\ asked \subseteq Everything
    /\ heard \in [Address -> Nat] /\ owed \subseteq WalletTx
    /\ reorgs \in Nat /\ drops \in Nat /\ failures \in Nat

Init ==
    /\ version \in [Address -> {0, 1}]
    /\ \A t \in WalletTx : \A a \in Spends[t] : version[a] = 1
    /\ relayed = {} /\ confirmed = {}
    /\ shown = [a \in Address |-> {}]
    /\ connected = FALSE /\ everConnected = FALSE
    /\ generation = 0 /\ active = FALSE
    /\ status = "idle" /\ record = NoRecord
    /\ syncPromise = NoOp /\ dirty = {} /\ pendingReorg = FALSE
    /\ listening = {}
    /\ pending = NoPending /\ timer = FALSE
    /\ op = [i \in OpId |-> IdleOp]
    /\ call = [c \in Caller |-> NoCall]
    /\ asked = {} /\ heard = [a \in Address |-> 0] /\ owed = {}
    /\ reorgs = 0 /\ drops = 0 /\ failures = 0

\* No microtask is left to run: a call that can be admitted has been, and an
\* admitted call has gone on.  Events and timers wait for that.
Quiet == \A c \in Caller :
            \/ call[c].stage = "none"
            \/ call[c].stage = "waiting" /\ syncPromise # NoOp

(***************************************************************************)
(* What is asked for                                                       *)
(***************************************************************************)
\* What the operation in progress covers: nothing when it is a broadcast or
\* a recovery.
Doing == IF syncPromise \in Generation THEN Covers(op[syncPromise]) ELSE {}

\* A signal asks to have N read.  It is served when a sync that covers it
\* begins; the one in progress may have read N before the signal came.
Asks(N) == asked' = IF syncPromise = NoOp THEN (asked \cup N) \ Doing'
                    ELSE asked \cup N

(***************************************************************************)
(* Launching and settling operations                                       *)
(***************************************************************************)
\* launchSync, and performSync up to its first await.
Launched(o, rec) ==
    [IdleOp EXCEPT !.stage = "connecting", !.gen = generation,
                   !.silent = o.silent /\ rec.mark # "none",
                   !.full = o.full, !.only = o.only]

LaunchStatus(o, st, rec, up) ==
    IF o.silent /\ rec.mark # "none" THEN st
    ELSE IF up THEN "scanning" ELSE "connecting"

\* Mutant of RequestSync: a request made while an operation runs is dropped.
RequestSync_Dropping(first, rest, st, rec, up) ==
    IF syncPromise # NoOp
    THEN status' = st /\ UNCHANGED <<dirty, syncPromise, op>>
    ELSE /\ dirty' = Deferred(dirty \cup rest)
         /\ status' = LaunchStatus(first, st, rec, up)
         /\ syncPromise' = generation
         /\ op' = [op EXCEPT ![generation] = Launched(first, rec)]

\* requestSync(first) and then requestSync of each of rest, with the status,
\* record and link the handler has established so far.
RequestSync(first, rest, st, rec, up) ==
    IF syncPromise # NoOp
    THEN /\ dirty' = Deferred(dirty \cup {first} \cup rest)
         /\ status' = st
         /\ UNCHANGED <<syncPromise, op>>
    ELSE /\ dirty' = Deferred(dirty \cup rest)
         /\ status' = LaunchStatus(first, st, rec, up)
         /\ syncPromise' = generation
         /\ op' = [op EXCEPT ![generation] = Launched(first, rec)]

\* Mutant of Drain: the queue is cleared where it should be flushed.
Drain_Clearing(i, st, rec, after) ==
    /\ status' = st /\ record' = rec
    /\ syncPromise' = NoOp
    /\ op' = [op EXCEPT ![i] = IdleOp]
    /\ dirty' = {} /\ pendingReorg' = FALSE

\* Mutant of Drain: the queue is not flushed when the operation ends.
Drain_Forgetting(i, st, rec, after) ==
    /\ status' = st /\ record' = rec
    /\ syncPromise' = NoOp
    /\ op' = [op EXCEPT ![i] = IdleOp]
    /\ UNCHANGED <<dirty, pendingReorg>>

\* The finally of trackOperation when operation i, the tracked one, ends
\* with status st and record rec: drainPendingWork, and after it the request
\* of the caller that awaited the operation.
Drain(i, st, rec, after) ==
    LET next == IF pendingReorg THEN {FullSync}
                ELSE IF dirty # {} THEN dirty ELSE after
        kept == IF pendingReorg THEN dirty \cup after
                ELSE IF dirty # {} THEN after ELSE {}
        rec2 == IF pendingReorg THEN Stale(rec, "reorg") ELSE rec
        st2  == IF pendingReorg /\ rec.mark # "none" THEN "stale" ELSE st
    IN  /\ record' = rec2
        /\ pendingReorg' = FALSE
        /\ dirty' = Deferred(kept)
        /\ \/ /\ next = {}
              /\ status' = st2
              /\ syncPromise' = NoOp
              /\ op' = [op EXCEPT ![i] = IdleOp]
           \/ \E o \in next :
              /\ status' = LaunchStatus(o, st2, rec2, connected)
              /\ syncPromise' = generation
              /\ op' = [op EXCEPT ![i] = IdleOp,
                                  ![generation] = Launched(o, rec2)]

\* An operation that is not the tracked one leaves the queue alone.
Settle(i, st, rec, after) ==
    IF syncPromise = i
    THEN /\ Drain(i, st, rec, after)
         /\ asked' = (asked \cup Demand(after)) \ Doing'
    ELSE /\ status' = st /\ record' = rec
         /\ op' = [op EXCEPT ![i] = IdleOp]
         /\ UNCHANGED <<syncPromise, dirty, pendingReorg, asked>>

\* publishFailure
SettleFailed(i) ==
    Settle(i, IF record.mark = "none" THEN "error" ELSE "stale",
           Stale(record, "network-error"), {})

\* Mutant of Current: the generation is not checked after an await.
Current_Unchecked(i) == TRUE

\* generation === this.generation
Current(i) == op[i].gen = generation

\* clearBroadcastReconciliation
ClearReconciliation == pending' = NoPending /\ timer' = FALSE

\* Mutant of ScheduleReconciliation: one retry too many.
ScheduleReconciliation_OneMore ==
    IF timer \/ pending.retries > MaxRetries
    THEN UNCHANGED <<pending, timer>>
    ELSE /\ pending' = [pending EXCEPT !.retries = @ + 1]
         /\ timer' = TRUE

\* scheduleBroadcastReconciliation
ScheduleReconciliation ==
    IF timer \/ pending.retries >= MaxRetries
    THEN UNCHANGED <<pending, timer>>
    ELSE /\ pending' = [pending EXCEPT !.retries = @ + 1]
         /\ timer' = TRUE

(***************************************************************************)
(* Sessions                                                                *)
(***************************************************************************)
\* Mutant of Reset: the dirty queue outlives its session.
Reset_KeepsDirty ==
    /\ generation' = generation + 1
    /\ dirty' = dirty /\ pendingReorg' = FALSE
    /\ asked' = {}
    /\ ClearReconciliation
    /\ owed' = {}
    /\ listening' = {}
    /\ connected' = FALSE /\ everConnected' = FALSE
    /\ heard' = [a \in Address |-> 0]
    /\ record' = NoRecord

\* What stop() resets, whatever follows it.
Reset ==
    /\ generation' = generation + 1
    /\ dirty' = {} /\ pendingReorg' = FALSE
    /\ asked' = {}
    /\ ClearReconciliation
    /\ owed' = {}
    /\ listening' = {}
    /\ connected' = FALSE /\ everConnected' = FALSE
    /\ heard' = [a \in Address |-> 0]
    /\ record' = NoRecord

\* stop(), close(), and start() of a session that does not validate.
Stop ==
    /\ Quiet /\ active
    /\ generation < MaxGeneration
    /\ Reset
    /\ active' = FALSE
    /\ status' = "idle"
    /\ syncPromise' = NoOp
    /\ UNCHANGED <<server, op, call, bounds>>

Start ==
    /\ Quiet
    /\ generation < MaxGeneration /\ generation < MaxStart
    /\ Reset
    /\ active' = TRUE
    /\ status' = "connecting"
    /\ syncPromise' = generation + 1
    /\ op' = [op EXCEPT ![generation + 1] =
                [Launched(FullSync, NoRecord) EXCEPT !.gen = generation + 1]]
    /\ UNCHANGED <<server, call, bounds>>

\* refresh()
Refresh ==
    /\ Quiet /\ active /\ "refresh" \in Wants
    /\ RequestSync(FullSync, {}, status, record, connected)
    /\ Asks(Everything)
    /\ UNCHANGED <<server, link, generation, active, record, pendingReorg,
                   listening, reconciliation, call, heard, bounds>>

(***************************************************************************)
(* performSync                                                             *)
(***************************************************************************)
\* The addresses a targeted sync reads; none when the sync is a full scan.
Targets(i) ==
    IF op[i].full THEN {} ELSE op[i].only \cup pending.addresses

\* The gap scan of a branch that reaches the addresses K gets to a: the rest
\* of K was reached by a recovery range only.
InGap(K, a) == a \in Root \/ \E b \in K : a \in Unlocks[b]

\* The addresses a full scan reads first.  A rescan reads the gap coverage of
\* the previous snapshot and, of the addresses that only a recovery range
\* reached, the used ones; the rest of those it retains unread.
GapCovered(s) == {a \in s.known : InGap(s.known, a)}
Retained(s) == {a \in s.known \ GapCovered(s) : ~ Used(s, a)}
ScanStart(s) == Root \cup (s.known \ Retained(s))
ScanBase(s) ==
    [session |-> generation,
     known   |-> Retained(s),
     version |-> [a \in Address |-> IF a \in Retained(s) THEN s.version[a] ELSE 0],
     txs     |-> [a \in Address |-> IF a \in Retained(s) THEN s.txs[a] ELSE {}]]

IsTargeted(g) == record.mark # "none" /\ Targets(g) # {}

Connecting(g) ==
    /\ Quiet
    /\ op[g].stage = "connecting" /\ ~ op[g].recovery
    /\ Current(g) /\ connected

SyncConnected(g) ==
    /\ Connecting(g)
    /\ IsTargeted(g) => Targets(g) \subseteq record.snap.known
    /\ op' = [op EXCEPT
         ![g].stage = "reading",
         ![g].targeted = IsTargeted(g),
         ![g].snap = IF IsTargeted(g) THEN record.snap ELSE ScanBase(record.snap),
         ![g].todo = IF IsTargeted(g) THEN Targets(g) ELSE ScanStart(record.snap)]
    /\ status' = IF op[g].silent THEN status ELSE "scanning"
    /\ UNCHANGED <<server, link, generation, active, record, syncPromise,
                   dirty, pendingReorg, asked, listening, reconciliation, call,
                   heard, bounds>>

\* A targeted sync of an address outside the snapshot is refused.
SyncUnknown(g) ==
    /\ Connecting(g)
    /\ IsTargeted(g) /\ ~ Targets(g) \subseteq record.snap.known
    /\ SettleFailed(g)
    /\ UNCHANGED <<server, link, generation, active, listening, reconciliation,
                   call, heard, bounds>>

\* A gap scan that finds an address used goes on to the addresses behind it.
Behind(i, s, a) ==
    IF /\ Hd /\ ~ op[i].targeted /\ ~ op[i].recovery
       /\ Used(s, a) /\ InGap(s.known \cup op[i].todo, a)
    THEN Unlocks[a] \ s.known ELSE {}

\* scanAddress: one address's history, balance and outputs.
ReadAddress(i, a) ==
    /\ Quiet
    /\ op[i].stage = "reading" /\ Current(i) /\ connected
    /\ a \in op[i].todo
    /\ LET s == [op[i].snap EXCEPT !.known = @ \cup {a},
                                   !.version[a] = version[a],
                                   !.txs[a] = shown[a]]
       IN  op' = [op EXCEPT ![i].snap = s,
                            ![i].todo = (@ \cup Behind(i, s, a)) \ {a}]
    /\ UNCHANGED <<server, link, generation, active, view, syncPromise, dirty,
                   pendingReorg, asked, listening, reconciliation, call, heard, bounds>>

AllRead(i) ==
    /\ Quiet
    /\ op[i].stage = "reading" /\ Current(i) /\ connected
    /\ op[i].todo = {}

\* The snapshot does not show the pending transaction, nor its rival confirmed.
Unreconciled(s) ==
    /\ pending.tx # NoTx
    /\ ~ Visible(s, pending.tx)
    /\ ~ (Original[pending.tx] # NoTx /\ ConfirmedIn(s, Original[pending.tx]))

\* Mutant of SyncHidden: the retry is scheduled and the snapshot published.
SyncHidden_Shown(g) ==
    /\ AllRead(g) /\ ~ op[g].recovery
    /\ Unreconciled(op[g].snap)
    /\ ScheduleReconciliation
    /\ Settle(g, "ready", Fresh(op[g].snap), {})
    /\ UNCHANGED <<server, link, generation, active, listening, owed, call,
                   heard, bounds>>

\* The snapshot is withheld and a retry scheduled.
SyncHidden(g) ==
    /\ AllRead(g) /\ ~ op[g].recovery
    /\ Unreconciled(op[g].snap)
    /\ ScheduleReconciliation
    /\ Settle(g, status, record, {})
    /\ UNCHANGED <<server, link, generation, active, listening, owed, call,
                   heard, bounds>>

\* Accepted transactions that a snapshot shows, or shows to be beaten.
Settled(s) == {t \in owed : Visible(s, t) \/ \E u \in Rivals(t) : ConfirmedIn(s, u)}

\* Mutant of SyncRead: a silent sync publishes its record and not the status.
SyncRead_StatusKept(g) ==
    /\ AllRead(g) /\ ~ op[g].recovery
    /\ ~ Unreconciled(op[g].snap)
    /\ ClearReconciliation
    /\ owed' = owed \ Settled(op[g].snap)
    /\ IF op[g].targeted
       THEN /\ Settle(g, IF op[g].silent THEN status ELSE "ready",
                      Fresh(op[g].snap), {})
            /\ UNCHANGED listening
       ELSE /\ op' = [op EXCEPT ![g].stage = "installing",
                                ![g].todo = op[g].snap.known]
            /\ listening' = {}
            /\ UNCHANGED <<view, syncPromise, dirty, pendingReorg, asked>>
    /\ UNCHANGED <<server, link, generation, active, call, heard, bounds>>

\* The snapshot settles the pending broadcast.  A targeted sync publishes it;
\* a full scan goes on to installAddressSubscriptions.
SyncRead(g) ==
    /\ AllRead(g) /\ ~ op[g].recovery
    /\ ~ Unreconciled(op[g].snap)
    /\ ClearReconciliation
    /\ owed' = owed \ Settled(op[g].snap)
    /\ IF op[g].targeted
       THEN /\ Settle(g, "ready", Fresh(op[g].snap), {})
            /\ UNCHANGED listening
       ELSE /\ op' = [op EXCEPT ![g].stage = "installing",
                                ![g].todo = op[g].snap.known]
            /\ listening' = {}
            /\ UNCHANGED <<view, syncPromise, dirty, pendingReorg, asked>>
    /\ UNCHANGED <<server, link, generation, active, call, heard, bounds>>

\* Addresses whose status listener is live: installed, or being installed.
Live == listening \cup
        UNION {op[i].snap.known \ op[i].todo :
                 i \in {j \in OpId : op[j].stage = "installing" /\ Current(j)}}

SubscribeAddress(i, a) ==
    /\ Quiet
    /\ op[i].stage = "installing" /\ Current(i) /\ connected
    /\ a \in op[i].todo
    /\ op' = [op EXCEPT ![i].todo = @ \ {a}]
    /\ UNCHANGED <<server, link, generation, active, view, syncPromise, dirty,
                   pendingReorg, asked, listening, reconciliation, call, heard, bounds>>

Installed(i) ==
    /\ Quiet
    /\ op[i].stage = "installing" /\ Current(i) /\ connected
    /\ op[i].todo = {}
    /\ listening' = op[i].snap.known
    /\ Settle(i, "ready", Fresh(op[i].snap), {})
    /\ UNCHANGED <<server, link, generation, active, reconciliation, call,
                   heard, bounds>>

\* An operation ends with an error: always possible once the link is down,
\* and bounded while it is up.  What it was installing is unsubscribed.
OperationFails(i) ==
    /\ Quiet
    /\ op[i].stage \in {"connecting", "reading", "installing"} /\ Current(i)
    /\ connected => failures < MaxFailures
    /\ failures' = IF connected THEN failures + 1 ELSE failures
    /\ SettleFailed(i)
    /\ UNCHANGED <<server, link, generation, active, listening, reconciliation,
                   call, heard, reorgs, drops>>

\* A balance/listunspent mismatch while a broadcast is pending is not a
\* failure: the server is still indexing it.
ReadMismatch(g) ==
    /\ Quiet
    /\ op[g].stage = "reading" /\ Current(g) /\ ~ op[g].recovery
    /\ connected /\ op[g].todo # {}
    /\ pending.tx # NoTx
    /\ failures < MaxFailures /\ failures' = failures + 1
    /\ ScheduleReconciliation
    /\ Settle(g, status, record, {})
    /\ UNCHANGED <<server, link, generation, active, listening, owed, call,
                   heard, reorgs, drops>>

\* An operation of an earlier session resumes, finds its generation gone and
\* ends without a trace.
Abandon(i) ==
    /\ Quiet
    /\ op[i].stage # "idle" /\ ~ Current(i)
    /\ Settle(i, status, record, {})
    /\ UNCHANGED <<server, link, generation, active, listening, reconciliation,
                   call, heard, bounds>>

(***************************************************************************)
(* Calls of the user interface that first wait for idle                    *)
(***************************************************************************)
\* What the dashboard awaits in call c: meanwhile its button is disabled, or
\* the poll skipped.
Awaits(c) == IF call[c].stage # "none" THEN call[c].want
             ELSE IF syncPromise # c THEN "nothing"
             ELSE IF op[c].recovery THEN "recover" ELSE "broadcast"

\* A click or the 4 s tracking poll.  Recovery is offered only while ready.
CallController(c, want) ==
    /\ Quiet /\ active
    /\ call[c].stage = "none" /\ op[c].stage = "idle"
    /\ \A d \in Caller : Awaits(d) # want
    /\ want = "recover" => Hd /\ status = "ready"
    /\ call' = [call EXCEPT ![c] = [stage |-> "waiting", want |-> want]]
    /\ UNCHANGED <<server, link, generation, active, view, queue, listening,
                   reconciliation, heard, bounds>>

\* waitForIdle returns.  Calls that waited for the same promise all leave
\* their loops before any of them goes on.
Admit(c) ==
    /\ call[c].stage = "waiting" /\ syncPromise = NoOp
    /\ call' = [call EXCEPT ![c].stage = "admitted"]
    /\ UNCHANGED <<server, link, generation, active, view, queue, listening,
                   reconciliation, heard, bounds>>

Proceeds(c, want) ==
    /\ call[c].stage = "admitted" /\ call[c].want = want
    /\ \A d \in Caller : call[d].stage = "waiting" => syncPromise # NoOp
    /\ call' = [call EXCEPT ![c] = NoCall]

Spendable == active /\ connected /\ status = "ready" /\ record.mark = "fresh"

\* The projection is computed before the network call and needs a snapshot
\* in which the transaction is possible.
Sendable(t) ==
    /\ Spendable
    /\ IF Original[t] = NoTx THEN Acceptable(record.snap, t)
       ELSE Replaceable(record.snap, Original[t], t)

\* broadcastTransaction, broadcastReplacementTransaction: the network call is
\* the argument of trackOperation, so it is under way even when that throws.
StartBroadcast(c, t) ==
    /\ Proceeds(c, "broadcast")
    /\ Sendable(t)
    /\ op' = [op EXCEPT ![c] = [IdleOp EXCEPT
                 !.stage = "sending", !.gen = generation, !.tx = t,
                 !.snap = Projected(record.snap, t)]]
    /\ syncPromise' = IF syncPromise = NoOp THEN c ELSE syncPromise
    /\ UNCHANGED <<server, link, generation, active, view, dirty, pendingReorg,
                   asked, listening, reconciliation, heard, bounds>>

RejectBroadcast(c) ==
    /\ Proceeds(c, "broadcast")
    /\ \E t \in WalletTx : ~ Sendable(t)
    /\ UNCHANGED <<server, link, generation, active, view, queue, listening,
                   reconciliation, heard, bounds>>

\* refreshKnownAddresses
Track(c) ==
    /\ Proceeds(c, "track")
    /\ \E A \in SUBSET Address :
        /\ A # {} /\ A \subseteq record.snap.known
        /\ active /\ status = "ready" /\ record.mark = "fresh"
        /\ RequestSync(Targeted(A), {}, status, record, connected)
        /\ Asks(A)
    /\ UNCHANGED <<server, link, generation, active, record, pendingReorg,
                   listening, reconciliation, heard, bounds>>

RejectTrack(c) ==
    /\ Proceeds(c, "track")
    /\ ~ (active /\ status = "ready" /\ record.mark = "fresh")
    /\ UNCHANGED <<server, link, generation, active, view, queue, listening,
                   reconciliation, heard, bounds>>

\* recoverRanges: performRecoveryRanges runs to its first await before
\* trackOperation looks at syncPromise.
StartRecovery(c) ==
    /\ Proceeds(c, "recover")
    /\ active
    /\ status' = "scanning"
    /\ op' = [op EXCEPT ![c] = [IdleOp EXCEPT
                 !.stage = "connecting", !.gen = generation, !.recovery = TRUE]]
    /\ syncPromise' = IF syncPromise = NoOp THEN c ELSE syncPromise
    /\ UNCHANGED <<server, link, generation, active, record, dirty,
                   pendingReorg, asked, listening, reconciliation, heard, bounds>>

RejectRecovery(c) ==
    /\ Proceeds(c, "recover") /\ ~ active
    /\ UNCHANGED <<server, link, generation, active, view, queue, listening,
                   reconciliation, heard, bounds>>

\* The addresses of the range are read on top of the current snapshot.
RecoveryConnected(c, a) ==
    /\ Quiet
    /\ op[c].stage = "connecting" /\ op[c].recovery
    /\ Current(c) /\ connected
    /\ op' = [op EXCEPT ![c].stage = "reading",
                        ![c].snap = IF record.mark = "none"
                                    THEN [EmptySnapshot EXCEPT !.session = generation]
                                    ELSE record.snap,
                        ![c].todo = {a}]
    /\ UNCHANGED <<server, link, generation, active, view, syncPromise, dirty,
                   pendingReorg, asked, listening, reconciliation, call, heard, bounds>>

RecoveryRead(c) ==
    /\ AllRead(c) /\ op[c].recovery
    /\ op' = [op EXCEPT ![c].stage = "installing",
                        ![c].todo = op[c].snap.known]
    /\ listening' = {}
    /\ UNCHANGED <<server, link, generation, active, view, syncPromise, dirty,
                   pendingReorg, asked, reconciliation, call, heard, bounds>>

\* The server takes the transaction into its mempool, for whichever session.
Relay(c) ==
    /\ Quiet
    /\ op[c].stage = "sending"
    /\ Current(c) => connected
    /\ Rivals(op[c].tx) \cap confirmed = {}
    /\ op' = [op EXCEPT ![c].stage = "sent"]
    /\ relayed' = (relayed \ Rivals(op[c].tx)) \cup {op[c].tx}
    /\ UNCHANGED <<version, confirmed, shown, link, generation, active, view,
                   syncPromise, dirty, pendingReorg, asked, listening, reconciliation,
                   call, heard, bounds>>

\* The txid arrives: the projection is published whatever has become of the
\* record meanwhile, and a targeted sync is requested.
BroadcastAccepted(c) ==
    /\ Quiet
    /\ op[c].stage = "sent" /\ Current(c) /\ connected
    /\ LET t == op[c].tx
           o == Original[t]
           addresses == Touches(t) \cup (IF o = NoTx THEN {} ELSE Touches(o))
       IN  /\ pending' = [tx |-> t, addresses |-> addresses, retries |-> 0]
           /\ timer' = FALSE
           /\ owed' = (owed \ Rivals(t)) \cup {t}
           /\ Settle(c, "ready", Fresh(op[c].snap), {Targeted(addresses)})
    /\ UNCHANGED <<server, link, generation, active, listening, call, heard,
                   bounds>>

\* The request ends in an error, before or after the server took it.
BroadcastFails(c) ==
    /\ Quiet
    /\ op[c].stage \in {"sending", "sent"} /\ Current(c)
    /\ LET refused == op[c].stage = "sending" /\ Rivals(op[c].tx) \cap confirmed # {}
           excused == ~ connected \/ refused
       IN  /\ ~ excused => failures < MaxFailures
           /\ failures' = IF excused THEN failures ELSE failures + 1
    /\ Settle(c, status, record, {})
    /\ UNCHANGED <<server, link, generation, active, listening, reconciliation,
                   call, heard, reorgs, drops>>

(***************************************************************************)
(* Events of the Electrum client                                           *)
(***************************************************************************)
\* The listener of an address: a targeted sync, and gap discovery when the
\* record knows the address as unused.
Discovers(a) == /\ Hd /\ record.mark # "none"
                /\ a \in record.snap.known /\ ~ Used(record.snap, a)

ResetRetries(A) ==
    IF pending.addresses \cap A = {} THEN pending
    ELSE [pending EXCEPT !.retries = 0]

\* The status of address a changed; the server tells a live listener.
Notify(a) ==
    IF connected /\ a \in Live
    THEN /\ heard' = [heard EXCEPT ![a] = version'[a]]
         /\ pending' = ResetRetries({a})
         /\ RequestSync(Targeted({a}),
                        IF Discovers(a) THEN {Discovery} ELSE {},
                        status, record, connected)
         /\ Asks({a} \cup (IF Discovers(a) THEN Everything ELSE {}))
    ELSE UNCHANGED <<heard, pending, status, queue>>

\* Somebody pays to, or is paid from, an address.
ChainActivity(a) ==
    /\ Quiet
    /\ version[a] < MaxVersion
    /\ version' = [version EXCEPT ![a] = @ + 1]
    /\ Notify(a)
    /\ UNCHANGED <<relayed, confirmed, shown, link, generation, active, record,
                   pendingReorg, listening, timer, owed, call, bounds>>

\* The server indexes the wallet's transactions address by address.
ServerView(a) == {p \in Sighting : /\ p[1] \in relayed /\ a \in Touches(p[1])
                                   /\ p[2] = (p[1] \in confirmed)}

IndexAddress(a) ==
    /\ Quiet
    /\ shown[a] # ServerView(a)
    /\ shown' = [shown EXCEPT ![a] = ServerView(a)]
    /\ version' = version
    /\ Notify(a)
    /\ UNCHANGED <<relayed, confirmed, link, generation, active, record,
                   pendingReorg, listening, timer, owed, call, bounds>>

\* A block confirms a wallet transaction, or the one it was to replace.
Confirm(t) ==
    /\ Quiet
    /\ t \in relayed \cup {u \in WalletTx : \E r \in relayed : Original[r] = u}
    /\ ({t} \cup Rivals(t)) \cap confirmed = {}
    /\ confirmed' = confirmed \cup {t}
    /\ relayed' = (relayed \ Rivals(t)) \cup {t}
    /\ UNCHANGED <<version, shown, link, generation, active, view, queue,
                   listening, reconciliation, call, heard, bounds>>

\* handleBlockHeight, a higher block: refresh the addresses with pending
\* activity, the wallet's own and any other.
NextBlock ==
    /\ Quiet /\ active /\ connected
    /\ record.mark # "none"
    /\ pending' = [pending EXCEPT !.retries = 0]
    /\ \E immature \in SUBSET {a \in record.snap.known : record.snap.version[a] > 0} :
         LET A == immature \cup
                  {a \in record.snap.known :
                      \E p \in record.snap.txs[a] : ~ p[2]}
         IN  /\ IF A = {} THEN UNCHANGED <<status, syncPromise, op, dirty>>
                ELSE RequestSync(Targeted(A), {}, status, record, connected)
             /\ Asks(A)
    /\ UNCHANGED <<server, link, generation, active, record, pendingReorg,
                   listening, timer, owed, call, heard, bounds>>

\* Mutant of Reorganise: the signal is lost on an operation in progress.
Reorganise_Unheard ==
    /\ Quiet /\ active /\ connected
    /\ reorgs < MaxReorgs /\ reorgs' = reorgs + 1
    /\ version' = [a \in Address |-> IF version[a] = 0 THEN 0 ELSE version[a] + 1]
    /\ heard' = version'
    /\ IF syncPromise = NoOp
       THEN /\ record' = Stale(record, "reorg")
            /\ RequestSync(FullSync, {},
                           IF record.mark = "none" THEN status ELSE "stale",
                           record', connected)
       ELSE UNCHANGED <<view, syncPromise, op, dirty>>
    /\ Asks(Everything)
    /\ UNCHANGED <<relayed, confirmed, shown, link, generation, active,
                   pendingReorg, listening, reconciliation, call, drops, failures>>

\* handleBlockHeight, not a higher block: any used address may have changed.
Reorganise ==
    /\ Quiet /\ active /\ connected
    /\ reorgs < MaxReorgs /\ reorgs' = reorgs + 1
    /\ version' = [a \in Address |-> IF version[a] = 0 THEN 0 ELSE version[a] + 1]
    /\ heard' = version'
    /\ IF syncPromise = NoOp
       THEN /\ record' = Stale(record, "reorg")
            /\ RequestSync(FullSync, {},
                           IF record.mark = "none" THEN status ELSE "stale",
                           record', connected)
            /\ UNCHANGED pendingReorg
       ELSE /\ pendingReorg' = TRUE
            /\ UNCHANGED <<view, syncPromise, op, dirty>>
    /\ Asks(Everything)
    /\ UNCHANGED <<relayed, confirmed, shown, link, generation, active,
                   listening, reconciliation, call, drops, failures>>

\* handleConnectionState, connection lost
LoseConnection ==
    /\ Quiet /\ active /\ connected
    /\ drops < MaxDrops /\ drops' = drops + 1
    /\ connected' = FALSE
    /\ record' = Stale(record, "connection-lost")
    /\ status' = IF record.mark = "none" THEN status ELSE "stale"
    /\ UNCHANGED <<server, everConnected, generation, active, queue, listening,
                   reconciliation, call, heard, reorgs, failures>>

\* The client (re)connects: it restores the address subscriptions, which
\* reports the status of each to its listener, and then announces itself.
Connect ==
    /\ Quiet /\ active /\ ~ connected
    /\ connected' = TRUE /\ everConnected' = TRUE
    /\ heard' = IF everConnected THEN version ELSE heard
    /\ pending' = ResetRetries(Live)
    /\ LET discovery == {a \in Live : Discovers(a)}
           extra == IF discovery = {} THEN {} ELSE {Discovery}
           announced == IF everConnected THEN {FullSync} ELSE {}
       IN  IF Live = {}
           THEN IF announced = {}
                THEN UNCHANGED <<status, syncPromise, op, dirty>>
                ELSE RequestSync(FullSync, {}, status, record, TRUE)
           ELSE \E a \in Live :
                  RequestSync(Targeted({a}),
                              {Targeted({b}) : b \in Live \ {a}} \cup extra
                                 \cup announced,
                              status, record, TRUE)
    /\ Asks(Live \cup (IF everConnected \/ \E a \in Live : Discovers(a)
                       THEN Everything ELSE {}))
    /\ UNCHANGED <<server, generation, active, record, pendingReorg, listening,
                   timer, owed, call, bounds>>

\* The reconciliation timer
RetryReconciliation ==
    /\ Quiet /\ timer
    /\ timer' = FALSE
    /\ RequestSync(Targeted(pending.addresses), {}, status, record, connected)
    /\ Asks(pending.addresses)
    /\ UNCHANGED <<server, link, generation, active, record, pendingReorg,
                   listening, pending, owed, call, heard, bounds>>

(***************************************************************************)
(* Specification                                                           *)
(***************************************************************************)
SyncStep(g) ==
    \/ SyncConnected(g) \/ SyncUnknown(g)
    \/ SyncHidden(g) \/ SyncRead(g) \/ ReadMismatch(g)

OperationStep(i) ==
    \/ \E a \in Address : ReadAddress(i, a) \/ SubscribeAddress(i, a)
    \/ Installed(i) \/ OperationFails(i) \/ Abandon(i)

CallStep(c) ==
    \/ \E want \in Wants \ {"refresh"} : CallController(c, want)
    \/ Admit(c)
    \/ \E t \in WalletTx : StartBroadcast(c, t)
    \/ RejectBroadcast(c)
    \/ Track(c) \/ RejectTrack(c)
    \/ StartRecovery(c) \/ RejectRecovery(c)
    \/ \E a \in Address : RecoveryConnected(c, a)
    \/ RecoveryRead(c)
    \/ Relay(c) \/ BroadcastAccepted(c) \/ BroadcastFails(c)

ClientEvent ==
    \/ \E a \in Address : ChainActivity(a) \/ IndexAddress(a)
    \/ \E t \in WalletTx : Confirm(t)
    \/ NextBlock \/ Reorganise \/ LoseConnection \/ Connect
    \/ RetryReconciliation

Next ==
    \/ Start \/ Stop \/ Refresh
    \/ \E g \in Generation : SyncStep(g)
    \/ \E i \in OpId : OperationStep(i)
    \/ \E c \in Caller : CallStep(c)
    \/ ClientEvent

Spec == Init /\ [][Next]_vars

\* A step of an operation or of a call that waits.
Progress(i) ==
    /\ \/ op[i].stage # "idle"
       \/ i \in Caller /\ call[i].stage # "none"
    /\ \/ /\ i \in Generation
          /\ \/ SyncConnected(i) \/ SyncUnknown(i)
             \/ SyncHidden(i) \/ SyncRead(i)
       \/ /\ i \in Caller
          /\ \/ Admit(i)
             \/ \E t \in WalletTx : StartBroadcast(i, t)
             \/ RejectBroadcast(i) \/ Track(i) \/ RejectTrack(i)
             \/ StartRecovery(i) \/ RejectRecovery(i)
             \/ \E a \in Address : RecoveryConnected(i, a)
             \/ RecoveryRead(i)
             \/ Relay(i) \/ BroadcastAccepted(i) \/ BroadcastFails(i)
       \/ \E a \in Address : ReadAddress(i, a) \/ SubscribeAddress(i, a)
       \/ Installed(i) \/ OperationFails(i) \/ Abandon(i)

\* A block that comes while an accepted transaction is not yet reconciled.
AwaitedBlock == pending.tx # NoTx /\ NextBlock

\* Every request ends, by an answer or by its 30 s timeout, so what is under
\* way goes on; a timer that is set fires, though the microtasks of a call may
\* come before it again and again; the server indexes what it has accepted,
\* and blocks keep coming.  Nothing obliges the user or the link.
FairSpec == /\ Spec
            /\ WF_vars(\E i \in OpId : Progress(i))
            /\ SF_vars(RetryReconciliation)
            /\ SF_vars(AwaitedBlock)
            /\ \A a \in Address : SF_vars(IndexAddress(a))

(***************************************************************************)
(* Properties                                                              *)
(***************************************************************************)
\* A published snapshot was scanned for the session that is running: nothing
\* an operation of an earlier session does reaches the next one's view.
SnapshotOfSession ==
    record.mark # "none" => active /\ record.snap.session = generation

\* syncPromise is the operation in progress of the current session, and no
\* request is left over when there is none.
NoForgottenWork ==
    IF syncPromise = NoOp
    THEN dirty = {} /\ ~ pendingReorg
    ELSE op[syncPromise].stage # "idle" /\ Current(syncPromise)

Service == INSTANCE SyncService WITH
    Work <- Everything, session <- generation, running <- syncPromise # NoOp,
    doing <- Doing, wanted <- asked

\* Merging, deferring and draining lose no request: whatever a signal asked
\* to have read is covered by the sync that begins at once or by the next
\* one of its session, and the controller does not come to rest before.
ImplementsService == Service!Spec

\* A fresh record at rest holds everything the controller was told of: the
\* status of an address, a reorganisation, a reconnection.  While a broadcast
\* is being reconciled the record stands still on purpose.
FreshHoldsSignals ==
    syncPromise = NoOp /\ connected /\ record.mark = "fresh" /\ pending.tx = NoTx =>
        \A a \in record.snap.known : record.snap.version[a] >= heard[a]

\* While a broadcast is being reconciled the record shows it, whatever part
\* of it the server has indexed.
PendingStaysProjected ==
    pending.tx # NoTx => record.mark # "none" /\ Visible(record.snap, pending.tx)

\* The same of every accepted transaction the server has not yet shown.
AcceptedStaysProjected ==
    \A t \in owed : record.mark # "none" => Visible(record.snap, t)

\* Once the server has indexed what it knows, a replacement and its original
\* are never both in a fresh record at rest: their coins count once.  This is
\* of one connection: a reconnection subscribes anew, and what is indexed
\* before it has done so is not signalled.
NoDoubleBalance ==
    /\ drops = 0
    /\ syncPromise = NoOp /\ connected /\ record.mark = "fresh"
    /\ \A a \in Address : shown[a] = ServerView(a)
    =>
        \A t \in WalletTx : \A a, b \in Address : \A p \in record.snap.txs[a] :
            p[1] = t => \A q \in record.snap.txs[b] : q[1] \notin Rivals(t)

\* The gap scan went on behind every address the fresh record knows as used.
GapExtended ==
    syncPromise = NoOp /\ record.mark = "fresh" =>
        \A a \in record.snap.known :
            Used(record.snap, a) => Unlocks[a] \subseteq record.snap.known

\* One operation of the session runs at a time, as trackOperation asserts:
\* "Wallet network work is already active."
SingleFlight ==
    \A i, j \in OpId :
        (/\ op[i].stage # "idle" /\ Current(i)
         /\ op[j].stage # "idle" /\ Current(j)) => i = j

\* A deferred request is taken up: a sync in flight does not swallow it.
DeferredWorkRuns == dirty # {} ~> dirty = {}

\* The view does not stay connecting or scanning, although performSync may
\* return without publishing when a broadcast is not yet reconciled.
ScanEnds == status \in {"connecting", "scanning"} ~>
            status \notin {"connecting", "scanning"}
=============================================================================
