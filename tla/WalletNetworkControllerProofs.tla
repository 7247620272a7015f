-------------------- MODULE WalletNetworkControllerProofs --------------------
(***************************************************************************)
(* Theorems about WalletNetworkController for every value of its           *)
(* constants: any number of addresses, transactions, sessions and          *)
(* concurrent calls.                                                       *)
(*                                                                         *)
(* The inductive invariant IInv says of every operation in progress which  *)
(* session it belongs to.  One lemma per primitive of the sync queue       *)
(* (RequestSync, Drain, Settle) shows that it keeps the part of IInv it    *)
(* touches; one lemma per group of actions puts them together.  The last   *)
(* part shows that the controller implements SyncService.                  *)
(***************************************************************************)
EXTENDS WalletNetworkController, TLAPS

\* An operation is of the running session or an earlier one; only a session
\* that is running has live operations; what an operation has read, or
\* projected, it has for its own session; and what it sends is a transaction.
OpInv(i) ==
    op[i].stage # "idle" =>
        /\ op[i].gen <= generation
        /\ i \in Generation => op[i].gen = i
        /\ op[i].gen = generation => active
        /\ op[i].stage # "connecting" => op[i].snap.session = op[i].gen
        /\ op[i].stage \in {"sending", "sent"} => op[i].tx \in WalletTx

\* The sync launched in the running session is the operation waited for.
SyncTracked == op[generation].stage # "idle" => syncPromise = generation

\* DirtySyncQueue keeps one request, into which the next is merged.
OneDeferred == \A o, p \in dirty : o = p

LinkInv == (connected \/ timer) => active

IInv ==
    /\ TypeOK
    /\ \A i \in OpId : OpInv(i)
    /\ SyncTracked
    /\ OneDeferred
    /\ NoForgottenWork
    /\ SnapshotOfSession
    /\ LinkInv

(***************************************************************************)
(* The data                                                                *)
(***************************************************************************)
LEMMA GenerationIsNat == Generation \subseteq Nat
BY ConstantsAssumption DEF Generation

LEMMA EmptySnapshotType == EmptySnapshot \in Snapshot
BY ConstantsAssumption DEF EmptySnapshot, Snapshot, Generation

LEMMA IdleOpType == IdleOp \in Op
BY ConstantsAssumption, EmptySnapshotType DEF IdleOp, Op, Stage, Generation

LEMMA NoRecordType == NoRecord \in Record
BY EmptySnapshotType DEF NoRecord, Record, Mark

LEMMA NoPendingType == NoPending \in Pending
BY ConstantsAssumption DEF NoPending, Pending

LEMMA FreshType ==
    ASSUME NEW s \in Snapshot
    PROVE  Fresh(s) \in Record /\ Fresh(s).snap = s
BY DEF Fresh, Record, Mark

LEMMA StaleType ==
    ASSUME NEW r \in Record, NEW why \in {"network-error", "connection-lost", "reorg"}
    PROVE  /\ Stale(r, why) \in Record
           /\ Stale(r, why).snap = r.snap
           /\ Stale(r, why).mark = "none" <=> r.mark = "none"
BY DEF Stale, Record, Mark

LEMMA RequestTypes ==
    /\ FullSync \in Options
    /\ Discovery \in Options
    /\ \A A \in SUBSET Address : Targeted(A) \in Options
BY DEF FullSync, Discovery, Targeted, Options

LEMMA DemandBound ==
    ASSUME NEW S \in SUBSET Options
    PROVE  Demand(S) \in SUBSET Everything
BY DEF Demand, Covers, Options, Everything

\* mergeOptions keeps the form of a request.
LEMMA DeferredType ==
    ASSUME NEW S \in SUBSET Options
    PROVE  /\ Deferred(S) \in SUBSET Options
           /\ \A o, p \in Deferred(S) : o = p
<1>1. Deferred(S) \in SUBSET Options
  BY DEF Deferred, Merge, Options
<1>2. \A o, p \in Deferred(S) : o = p
  BY DEF Deferred
<1>3. QED
  BY <1>1, <1>2

\* Replacing one operation leaves the others alone.
LEMMA OpUpdate ==
    ASSUME op \in [OpId -> Op], NEW i \in OpId, NEW r \in Op,
           op' = [op EXCEPT ![i] = r]
    PROVE  /\ op' \in [OpId -> Op]
           /\ op'[i] = r
           /\ \A j \in OpId : j # i => op'[j] = op[j]
OBVIOUS

LEMMA LaunchedType ==
    ASSUME NEW o \in Options, NEW r \in Record, generation \in Generation
    PROVE  /\ Launched(o, r) \in Op
           /\ Launched(o, r).stage = "connecting"
           /\ Launched(o, r).gen = generation
           /\ Launched(o, r).full = o.full
           /\ Launched(o, r).only = o.only
<1>1. o.silent \in BOOLEAN /\ o.full \in BOOLEAN /\ o.only \in SUBSET Address
  BY DEF Options
<1>2. (o.silent /\ r.mark # "none") \in BOOLEAN
  BY <1>1
<1>3. QED
  BY <1>1, <1>2, IdleOpType DEF Launched, IdleOp, Op, Stage

LEMMA LaunchStatusType ==
    ASSUME NEW o \in Options, NEW r \in Record, NEW st \in Status, NEW up
    PROVE  LaunchStatus(o, st, r, up) \in Status
BY DEF LaunchStatus, Status

(***************************************************************************)
(* The sync queue                                                          *)
(***************************************************************************)
\* The part of IInv that the queue's primitives change.
QueueInv ==
    /\ status \in Status /\ dirty \subseteq Options
    /\ syncPromise \in OpId \cup {NoOp}
    /\ op \in [OpId -> Op]
    /\ \A i \in OpId : OpInv(i)
    /\ SyncTracked
    /\ OneDeferred
    /\ NoForgottenWork
    /\ asked \subseteq Everything

LEMMA AsksNothing ==
    ASSUME Asks({}), syncPromise' = syncPromise
    PROVE  asked' = asked
BY ConstantsAssumption DEF Asks, Doing

LEMMA GenerationIsOp ==
    TypeOK => /\ generation \in OpId
              /\ \A i \in OpId : i # NoOp
BY ConstantsAssumption DEF TypeOK, OpId

\* Ending operation i and launching a sync in the running session, or only
\* the one or the other, keeps the operations in order.
LEMMA RelaunchInv ==
    ASSUME IInv, generation' = generation, active' = active, active,
           NEW o \in Options, NEW r \in Record, NEW i \in OpId,
           op' = [op EXCEPT ![i] = IdleOp, ![generation] = Launched(o, r)],
           syncPromise' = generation
    PROVE  /\ op' \in [OpId -> Op]
           /\ \A j \in OpId : OpInv(j)'
           /\ SyncTracked'
           /\ NoForgottenWork'
<1>1. /\ op \in [OpId -> Op] /\ generation \in Generation
      /\ generation \in OpId /\ generation # NoOp
  BY GenerationIsOp DEF IInv, TypeOK
<1>2. /\ Launched(o, r) \in Op
      /\ Launched(o, r).stage = "connecting"
      /\ Launched(o, r).gen = generation
  BY <1>1, LaunchedType
<1>3. /\ op' \in [OpId -> Op]
      /\ op'[generation] = Launched(o, r)
      /\ \A j \in OpId : j # generation => op'[j] = IF j = i THEN IdleOp ELSE op[j]
  BY <1>1, <1>2, IdleOpType
<1>4. ASSUME NEW j \in OpId PROVE OpInv(j)'
  <2>1. CASE j = generation
    BY <1>1, <1>2, <1>3, <2>1, GenerationIsNat DEF OpInv
  <2>2. CASE j # generation
    BY <1>3, <2>2 DEF OpInv, IInv, IdleOp
  <2>3. QED
    BY <2>1, <2>2
<1>5. SyncTracked' /\ NoForgottenWork'
  BY <1>1, <1>2, <1>3 DEF SyncTracked, NoForgottenWork, Current
<1>6. QED
  BY <1>3, <1>4, <1>5

LEMMA RequestSyncInv ==
    ASSUME IInv, generation' = generation, active' = active, active,
           NEW first \in Options, NEW rest \in SUBSET Options,
           NEW st \in Status, NEW r \in Record, NEW up \in BOOLEAN,
           RequestSync(first, rest, st, r, up),
           NEW N \in SUBSET Everything, Asks(N)
    PROVE  QueueInv'
<1>0. asked' \subseteq Everything
  BY DEF Asks, IInv, TypeOK
<1>1. /\ op \in [OpId -> Op] /\ generation \in OpId /\ dirty \in SUBSET Options
      /\ syncPromise \in OpId \cup {NoOp}
  BY GenerationIsOp DEF IInv, TypeOK
<1>2. CASE syncPromise # NoOp
  <2>1. /\ dirty' = Deferred(dirty \cup {first} \cup rest)
        /\ status' = st
        /\ syncPromise' = syncPromise /\ op' = op
    BY <1>2 DEF RequestSync
  <2>2. dirty' \in SUBSET Options /\ OneDeferred'
    BY <1>1, <2>1, DeferredType DEF OneDeferred
  <2>3. (\A i \in OpId : OpInv(i)') /\ SyncTracked' /\ NoForgottenWork'
    BY <1>2, <2>1 DEF IInv, OpInv, SyncTracked, NoForgottenWork, Current
  <2>4. QED
    BY <1>0, <1>1, <2>1, <2>2, <2>3 DEF QueueInv
<1>3. CASE syncPromise = NoOp
  <2>1. /\ dirty' = Deferred(dirty \cup rest)
        /\ status' = LaunchStatus(first, st, r, up)
        /\ syncPromise' = generation
        /\ op' = [op EXCEPT ![generation] = Launched(first, r)]
    BY <1>3 DEF RequestSync
  <2>2. dirty' \in SUBSET Options /\ OneDeferred' /\ status' \in Status
    BY <1>1, <2>1, DeferredType, LaunchStatusType DEF OneDeferred
  <2>3. op' = [op EXCEPT ![generation] = IdleOp, ![generation] = Launched(first, r)]
    BY <1>1, <2>1
  <2>4. QED
    BY <1>0, <1>1, <2>1, <2>2, <2>3, RelaunchInv DEF QueueInv
<1>4. QED
  BY <1>2, <1>3

\* What Settle needs to know of the record it is given.
OfSession(r) == r.mark # "none" => active /\ r.snap.session = generation

LEMMA SettleInv ==
    ASSUME IInv, generation' = generation, active' = active,
           NEW i \in OpId, op[i].stage # "idle",
           NEW st \in Status, NEW r \in Record, OfSession(r),
           NEW after \in SUBSET Options,
           Settle(i, st, r, after)
    PROVE  /\ QueueInv'
           /\ pendingReorg' \in BOOLEAN
           /\ record' \in Record
           /\ SnapshotOfSession'
<1>0. asked' \subseteq Everything
  BY DemandBound DEF Settle, IInv, TypeOK
<1>1. /\ op \in [OpId -> Op] /\ generation \in OpId /\ dirty \in SUBSET Options
      /\ syncPromise \in OpId \cup {NoOp} /\ pendingReorg \in BOOLEAN
      /\ i # NoOp /\ connected \in BOOLEAN
  BY GenerationIsOp DEF IInv, TypeOK
<1>2. CASE syncPromise # i
  <2>1. /\ status' = st /\ record' = r
        /\ op' = [op EXCEPT ![i] = IdleOp]
        /\ UNCHANGED <<syncPromise, dirty, pendingReorg>>
    BY <1>2 DEF Settle
  <2>2. /\ op' \in [OpId -> Op] /\ op'[i] = IdleOp
        /\ \A j \in OpId : j # i => op'[j] = op[j]
    BY <1>1, <2>1, IdleOpType
  <2>3. \A j \in OpId : OpInv(j)'
    BY <2>2 DEF IInv, OpInv, IdleOp
  <2>4. SyncTracked' /\ NoForgottenWork' /\ OneDeferred'
    BY <1>1, <1>2, <2>1, <2>2
    DEF IInv, SyncTracked, NoForgottenWork, OneDeferred, Current, IdleOp
  <2>5. SnapshotOfSession'
    BY <2>1 DEF SnapshotOfSession, OfSession
  <2>6. QED
    BY <1>0, <1>1, <2>1, <2>2, <2>3, <2>4, <2>5 DEF QueueInv
<1>3. CASE syncPromise = i
  <2> DEFINE next == IF pendingReorg THEN {FullSync}
                     ELSE IF dirty # {} THEN dirty ELSE after
             kept == IF pendingReorg THEN dirty \cup after
                     ELSE IF dirty # {} THEN after ELSE {}
             rec2 == IF pendingReorg THEN Stale(r, "reorg") ELSE r
             st2  == IF pendingReorg /\ r.mark # "none" THEN "stale" ELSE st
  <2>1. Drain(i, st, r, after)
    BY <1>3 DEF Settle
  <2>2. /\ record' = rec2 /\ pendingReorg' = FALSE /\ dirty' = Deferred(kept)
        /\ \/ /\ next = {} /\ status' = st2
              /\ syncPromise' = NoOp /\ op' = [op EXCEPT ![i] = IdleOp]
           \/ \E o \in next :
              /\ status' = LaunchStatus(o, st2, rec2, connected)
              /\ syncPromise' = generation
              /\ op' = [op EXCEPT ![i] = IdleOp,
                                  ![generation] = Launched(o, rec2)]
    BY <2>1 DEF Drain
  <2>3. Current(i) /\ active
    BY <1>1, <1>3 DEF IInv, NoForgottenWork, OpInv, Current
  <2>4. next \in SUBSET Options /\ kept \in SUBSET Options
    BY <1>1, RequestTypes
  <2>5. rec2 \in Record /\ st2 \in Status
    BY StaleType DEF Status
  <2>6. dirty' \in SUBSET Options /\ OneDeferred'
    BY <2>2, <2>4, DeferredType DEF OneDeferred
  <2>7. SnapshotOfSession'
    BY <2>2, <2>3, StaleType DEF SnapshotOfSession, OfSession
  <2>8. CASE /\ next = {} /\ status' = st2
             /\ syncPromise' = NoOp /\ op' = [op EXCEPT ![i] = IdleOp]
    <3>1. /\ op' \in [OpId -> Op] /\ op'[i] = IdleOp
          /\ \A j \in OpId : j # i => op'[j] = op[j]
      BY <1>1, <2>8, IdleOpType
    <3>2. \A j \in OpId : OpInv(j)'
      BY <3>1 DEF IInv, OpInv, IdleOp
    <3>3. SyncTracked'
      BY <1>1, <1>3, <3>1 DEF IInv, SyncTracked, IdleOp
    <3>4. kept = {}
      BY <2>8
    <3>5. NoForgottenWork'
      BY <2>2, <2>8, <3>4 DEF NoForgottenWork, Deferred
    <3>6. QED
      BY <1>0, <2>2, <2>5, <2>6, <2>7, <2>8, <3>1, <3>2, <3>3, <3>5 DEF QueueInv
  <2>9. ASSUME NEW o \in next,
               status' = LaunchStatus(o, st2, rec2, connected),
               syncPromise' = generation,
               op' = [op EXCEPT ![i] = IdleOp, ![generation] = Launched(o, rec2)]
        PROVE  QueueInv'
    <3>1. o \in Options
      BY <2>4
    <3>2. status' \in Status
      BY <2>5, <2>9, <3>1, LaunchStatusType
    <3>3. QED
      BY <1>0, <1>1, <2>3, <2>5, <2>6, <2>9, <3>1, <3>2, RelaunchInv DEF QueueInv
  <2>10. QED
    BY <2>2, <2>5, <2>7, <2>8, <2>9
<1>4. QED
  BY <1>2, <1>3

\* Operation i goes on to another stage in its own session.
LEMMA StageInv ==
    ASSUME IInv, generation' = generation, active' = active,
           syncPromise' = syncPromise, dirty' = dirty,
           pendingReorg' = pendingReorg,
           NEW i \in OpId, op[i].stage # "idle", NEW r \in Op,
           op' = [op EXCEPT ![i] = r],
           r.stage # "idle", r.gen = op[i].gen,
           r.stage # "connecting" => r.snap.session = r.gen,
           r.stage \in {"sending", "sent"} => r.tx \in WalletTx
    PROVE  /\ op' \in [OpId -> Op]
           /\ \A j \in OpId : OpInv(j)'
           /\ SyncTracked'
           /\ OneDeferred'
           /\ NoForgottenWork'
<1>1. /\ op' \in [OpId -> Op] /\ op'[i] = r
      /\ \A j \in OpId : j # i => op'[j] = op[j]
  BY OpUpdate DEF IInv, TypeOK
<1>2. \A j \in OpId : OpInv(j)'
  BY <1>1 DEF IInv, OpInv
<1>3. SyncTracked' /\ OneDeferred' /\ NoForgottenWork'
  BY <1>1, GenerationIsOp
  DEF IInv, TypeOK, SyncTracked, OneDeferred, NoForgottenWork, Current
<1>4. QED
  BY <1>1, <1>2, <1>3

(***************************************************************************)
(* Sessions                                                                *)
(***************************************************************************)
LEMMA InitInv == Init => IInv
<1> SUFFICES ASSUME Init PROVE IInv
  OBVIOUS
<1> USE DEF Init
<1>1. TypeOK
  <2>1. /\ op \in [OpId -> Op] /\ record \in Record /\ pending \in Pending
        /\ call \in [Caller -> Call]
    BY IdleOpType, NoRecordType, NoPendingType DEF NoCall, Call
  <2>2. /\ version \in [Address -> Nat] /\ heard \in [Address -> Nat]
        /\ shown \in [Address -> SUBSET Sighting]
    OBVIOUS
  <2>3. generation \in Generation
    BY ConstantsAssumption DEF Generation
  <2>4. QED
    BY <2>1, <2>2, <2>3 DEF TypeOK, Status
<1>2. \A i \in OpId : OpInv(i)
  BY DEF OpInv, IdleOp
<1>3. SyncTracked
  BY ConstantsAssumption DEF SyncTracked, IdleOp, OpId, Generation
<1>4. OneDeferred /\ NoForgottenWork /\ SnapshotOfSession /\ LinkInv
  BY DEF OneDeferred, NoForgottenWork, SnapshotOfSession, LinkInv, NoRecord
<1>5. QED
  BY <1>1, <1>2, <1>3, <1>4 DEF IInv

\* A new session starts from nothing, and the operations of the old one are
\* of the past.
LEMMA SessionsInv == IInv /\ (Stop \/ Start) => IInv'
<1> SUFFICES ASSUME IInv, Stop \/ Start PROVE IInv'
  OBVIOUS
<1>1. /\ generation \in Nat /\ generation + 1 \in Generation
      /\ generation + 1 \in OpId /\ generation + 1 # generation
      /\ generation + 1 # NoOp
  <2>1. generation \in Generation /\ generation < MaxGeneration
    BY DEF IInv, TypeOK, Stop, Start
  <2>2. generation + 1 \in Generation
    BY <2>1, ConstantsAssumption DEF Generation
  <2>3. QED
    BY <2>1, <2>2, GenerationIsNat, ConstantsAssumption DEF OpId
<1>2. Reset
  BY DEF Stop, Start
<1>3. /\ generation' = generation + 1 /\ dirty' = {} /\ pendingReorg' = FALSE
      /\ asked' = {} /\ pending' = NoPending /\ timer' = FALSE /\ record' = NoRecord
      /\ connected' = FALSE
  BY <1>2 DEF Reset, ClearReconciliation
<1>4. \A i \in OpId : op[i].stage # "idle" => /\ op[i].gen \in Nat
                                             /\ op[i].gen < generation + 1
  <2>1. \A i \in OpId : op[i].gen \in Generation
    BY DEF IInv, TypeOK, Op
  <2>2. \A i \in OpId : op[i].gen \in Nat
    BY <2>1, GenerationIsNat
  <2>3. \A i \in OpId : op[i].stage # "idle" => op[i].gen <= generation
    BY DEF IInv, OpInv
  <2>4. QED
    BY <1>1, <2>2, <2>3
<1>5. SnapshotOfSession' /\ LinkInv' /\ OneDeferred'
  BY <1>3 DEF SnapshotOfSession, LinkInv, OneDeferred, NoRecord
<1>6. CASE Stop
  <2>1. op' = op /\ syncPromise' = NoOp /\ active' = FALSE
    BY <1>6 DEF Stop
  <2>2. TypeOK'
    <3>1. /\ everConnected' = FALSE /\ owed' = {} /\ listening' = {}
          /\ heard' = [a \in Address |-> 0] /\ status' = "idle"
          /\ UNCHANGED <<server, call, bounds>>
      BY <1>2, <1>6 DEF Stop, Reset
    <3>2. QED
      BY <1>1, <1>3, <2>1, <3>1, NoRecordType, NoPendingType
      DEF IInv, TypeOK, Status, server, bounds
  <2>3. \A i \in OpId : OpInv(i)'
    BY <1>1, <1>3, <1>4, <2>1 DEF IInv, OpInv
  <2>4. SyncTracked' /\ NoForgottenWork'
    BY <1>1, <1>3, <1>4, <2>1 DEF IInv, OpInv, SyncTracked, NoForgottenWork
  <2>5. QED
    BY <1>5, <2>2, <2>3, <2>4 DEF IInv
<1>7. CASE Start
  <2> DEFINE r == [Launched(FullSync, NoRecord) EXCEPT !.gen = generation + 1]
  <2>1. /\ op' = [op EXCEPT ![generation + 1] = r]
        /\ syncPromise' = generation + 1 /\ active' = TRUE
    BY <1>7 DEF Start
  <2>2. r \in Op /\ r.stage = "connecting" /\ r.gen = generation + 1
    BY <1>1, LaunchedType, RequestTypes, NoRecordType DEF IInv, TypeOK, Op
  <2>3. /\ op' \in [OpId -> Op] /\ op'[generation + 1] = r
        /\ \A j \in OpId : j # generation + 1 => op'[j] = op[j]
    BY <1>1, <2>1, <2>2 DEF IInv, TypeOK
  <2>4. TypeOK'
    <3>1. /\ everConnected' = FALSE /\ owed' = {} /\ listening' = {}
          /\ heard' = [a \in Address |-> 0] /\ status' = "connecting"
          /\ UNCHANGED <<server, call, bounds>>
      BY <1>2, <1>7 DEF Start, Reset
    <3>2. QED
      BY <1>1, <1>3, <2>1, <2>3, <3>1, NoRecordType, NoPendingType
      DEF IInv, TypeOK, Status, server, bounds
  <2>5. \A i \in OpId : OpInv(i)'
    BY <1>1, <1>3, <1>4, <2>1, <2>2, <2>3 DEF IInv, OpInv
  <2>6. SyncTracked' /\ NoForgottenWork'
    BY <1>1, <1>3, <2>1, <2>2, <2>3 DEF SyncTracked, NoForgottenWork, Current
  <2>7. QED
    BY <1>5, <2>4, <2>5, <2>6 DEF IInv
<1>8. QED
  BY <1>6, <1>7

(***************************************************************************)
(* Actions that ask for a sync                                             *)
(***************************************************************************)
\* The type of everything QueueInv does not speak of.
RestType ==
    /\ version \in [Address -> Nat]
    /\ relayed \subseteq WalletTx /\ confirmed \subseteq WalletTx
    /\ shown \in [Address -> SUBSET Sighting]
    /\ connected \in BOOLEAN /\ everConnected \in BOOLEAN
    /\ generation \in Generation /\ active \in BOOLEAN
    /\ record \in Record /\ pendingReorg \in BOOLEAN
    /\ listening \subseteq Address
    /\ pending \in Pending /\ timer \in BOOLEAN
    /\ call \in [Caller -> Call]
    /\ heard \in [Address -> Nat] /\ owed \subseteq WalletTx
    /\ reorgs \in Nat /\ drops \in Nat /\ failures \in Nat

LEMMA Parts ==
    RestType' /\ QueueInv' /\ SnapshotOfSession' /\ LinkInv' => IInv'
BY DEF IInv, TypeOK, RestType, QueueInv

LEMMA QueueUnchanged ==
    IInv /\ UNCHANGED <<generation, active, status, queue>> => QueueInv'
BY DEF IInv, TypeOK, QueueInv, OpInv, SyncTracked, OneDeferred, NoForgottenWork,
       Current, queue

LEMMA ResetRetriesType ==
    ASSUME pending \in Pending, NEW A
    PROVE  ResetRetries(A) \in Pending
BY ConstantsAssumption DEF ResetRetries, Pending

LEMMA RefreshInv == IInv /\ Refresh => IInv'
<1> SUFFICES ASSUME IInv, Refresh PROVE IInv'
  OBVIOUS
<1>1. RestType' /\ SnapshotOfSession' /\ LinkInv'
  BY DEF Refresh, IInv, TypeOK, RestType, SnapshotOfSession, LinkInv,
         server, link, reconciliation, bounds
<1>2. QueueInv'
  <2>1. /\ status \in Status /\ record \in Record /\ connected \in BOOLEAN
    BY DEF IInv, TypeOK
  <2>2. QED
    BY <2>1, RequestTypes, RequestSyncInv DEF Refresh
<1>3. QED
  BY <1>1, <1>2, Parts

LEMMA RetryInv == IInv /\ RetryReconciliation => IInv'
<1> SUFFICES ASSUME IInv, RetryReconciliation PROVE IInv'
  OBVIOUS
<1>1. RestType' /\ SnapshotOfSession' /\ LinkInv'
  BY DEF RetryReconciliation, IInv, TypeOK, RestType, SnapshotOfSession,
         LinkInv, server, link, bounds
<1>2. QueueInv'
  <2>1. /\ status \in Status /\ record \in Record /\ connected \in BOOLEAN
        /\ pending.addresses \in SUBSET Address /\ active
        /\ pending.addresses \in SUBSET Everything
    BY DEF IInv, TypeOK, Pending, LinkInv, RetryReconciliation, Everything
  <2>2. QED
    BY <2>1, RequestTypes, RequestSyncInv DEF RetryReconciliation
<1>3. QED
  BY <1>1, <1>2, Parts

\* What an address listener does.
LEMMA NotifyInv ==
    ASSUME IInv, NEW a \in Address, version' \in [Address -> Nat], Notify(a),
           UNCHANGED <<generation, active, pendingReorg>>
    PROVE  /\ heard' \in [Address -> Nat]
           /\ pending' \in Pending
           /\ QueueInv'
<1>1. /\ heard \in [Address -> Nat] /\ pending \in Pending
      /\ status \in Status /\ record \in Record /\ connected \in BOOLEAN
  BY DEF IInv, TypeOK
<1>2. CASE connected /\ a \in Live
  <2> DEFINE N == {a} \cup (IF Discovers(a) THEN Everything ELSE {})
  <2>1. /\ heard' = [heard EXCEPT ![a] = version'[a]]
        /\ pending' = ResetRetries({a})
        /\ RequestSync(Targeted({a}),
                       IF Discovers(a) THEN {Discovery} ELSE {},
                       status, record, connected)
        /\ Asks(N)
    BY <1>2 DEF Notify
  <2>2. heard' \in [Address -> Nat] /\ pending' \in Pending
    BY <1>1, <2>1, ResetRetriesType
  <2>3. /\ Targeted({a}) \in Options
        /\ (IF Discovers(a) THEN {Discovery} ELSE {}) \in SUBSET Options
        /\ N \in SUBSET Everything
    BY RequestTypes DEF Everything
  <2> HIDE DEF N
  <2>4. active
    BY <1>2 DEF IInv, LinkInv
  <2>5. QED
    BY <1>1, <2>1, <2>2, <2>3, <2>4, RequestSyncInv
<1>3. CASE ~ (connected /\ a \in Live)
  BY <1>1, <1>3, QueueUnchanged DEF Notify
<1>4. QED
  BY <1>2, <1>3

LEMMA AddressEventInv ==
    ASSUME IInv, NEW a \in Address, ChainActivity(a) \/ IndexAddress(a)
    PROVE  IInv'
<1>1. /\ version' \in [Address -> Nat] /\ shown' \in [Address -> SUBSET Sighting]
      /\ Notify(a)
      /\ UNCHANGED <<relayed, confirmed, link, generation, active, record,
                     pendingReorg, listening, timer, owed, call, bounds>>
  BY DEF IInv, TypeOK, ChainActivity, IndexAddress, ServerView
<1>2. heard' \in [Address -> Nat] /\ pending' \in Pending /\ QueueInv'
  BY <1>1, NotifyInv
<1>3. RestType' /\ SnapshotOfSession' /\ LinkInv'
  BY <1>1, <1>2 DEF IInv, TypeOK, RestType, SnapshotOfSession, LinkInv, link, bounds
<1>4. QED
  BY <1>2, <1>3, Parts

LEMMA NextBlockInv == IInv /\ NextBlock => IInv'
<1> SUFFICES ASSUME IInv, NextBlock PROVE IInv'
  OBVIOUS
<1>1. pending' \in Pending
  BY ConstantsAssumption DEF NextBlock, IInv, TypeOK, Pending
<1>2. RestType' /\ SnapshotOfSession' /\ LinkInv'
  BY <1>1 DEF NextBlock, IInv, TypeOK, RestType, SnapshotOfSession, LinkInv,
              server, link, bounds
<1>3. QueueInv'
  <2>1. /\ status \in Status /\ record \in Record /\ connected \in BOOLEAN
        /\ record.snap.known \in SUBSET Address
        /\ active /\ UNCHANGED <<generation, active, pendingReorg>>
    BY DEF IInv, TypeOK, Record, Snapshot, NextBlock
  <2>2. PICK A \in SUBSET Address :
             /\ IF A = {} THEN UNCHANGED <<status, syncPromise, op, dirty>>
                ELSE RequestSync(Targeted(A), {}, status, record, connected)
             /\ Asks(A)
    BY <2>1 DEF NextBlock
  <2>3. CASE A = {}
    BY <2>1, <2>2, <2>3, AsksNothing, QueueUnchanged DEF queue
  <2>4. CASE A # {}
    <3>1. A \in SUBSET Everything
      BY DEF Everything
    <3>2. QED
      BY <2>1, <2>2, <2>4, <3>1, RequestTypes, RequestSyncInv
  <2>5. QED
    BY <2>3, <2>4
<1>4. QED
  BY <1>2, <1>3, Parts

LEMMA ReorganiseInv == IInv /\ Reorganise => IInv'
<1> SUFFICES ASSUME IInv, Reorganise PROVE IInv'
  OBVIOUS
<1>1. /\ status \in Status /\ record \in Record /\ connected \in BOOLEAN
      /\ version \in [Address -> Nat]
      /\ active /\ UNCHANGED <<generation, active>> /\ Asks(Everything)
  BY DEF IInv, TypeOK, Reorganise
<1>2. version' \in [Address -> Nat]
  BY <1>1 DEF Reorganise
<1>3. CASE syncPromise = NoOp
  <2>1. /\ record' = Stale(record, "reorg") /\ pendingReorg' = pendingReorg
        /\ RequestSync(FullSync, {},
                       IF record.mark = "none" THEN status ELSE "stale",
                       record', connected)
    BY <1>3 DEF Reorganise
  <2>2. record' \in Record /\ SnapshotOfSession'
    BY <1>1, <2>1, StaleType DEF IInv, SnapshotOfSession
  <2>3. (IF record.mark = "none" THEN status ELSE "stale") \in Status
    BY <1>1 DEF Status
  <2>4. QueueInv'
    BY <1>1, <2>1, <2>2, <2>3, RequestTypes, RequestSyncInv
  <2>5. RestType' /\ LinkInv'
    BY <1>2, <2>1, <2>2 DEF Reorganise, IInv, TypeOK, RestType, LinkInv, link,
       reconciliation
  <2>6. QED
    BY <2>2, <2>4, <2>5, Parts
<1>4. CASE syncPromise # NoOp
  <2>1. /\ pendingReorg' = TRUE
        /\ UNCHANGED <<view, syncPromise, op, dirty>>
    BY <1>4 DEF Reorganise
  <2>2. QueueInv'
    BY <1>1, <1>4, <2>1 DEF Asks, IInv, TypeOK, QueueInv, OpInv, SyncTracked,
       OneDeferred, NoForgottenWork, Current, view
  <2>3. RestType' /\ LinkInv' /\ SnapshotOfSession'
    BY <1>2, <2>1 DEF Reorganise, IInv, TypeOK, RestType, LinkInv,
       SnapshotOfSession, link, reconciliation, view
  <2>4. QED
    BY <2>2, <2>3, Parts
<1>5. QED
  BY <1>3, <1>4

LEMMA ConnectInv == IInv /\ Connect => IInv'
<1> SUFFICES ASSUME IInv, Connect PROVE IInv'
  OBVIOUS
<1>1. /\ status \in Status /\ record \in Record
      /\ version \in [Address -> Nat] /\ pending \in Pending
      /\ active
      /\ UNCHANGED <<server, generation, active, record, pendingReorg, listening,
                     timer, owed, call, bounds>>
  BY DEF IInv, TypeOK, Connect
<1>2. heard' \in [Address -> Nat] /\ pending' \in Pending
      /\ connected' \in BOOLEAN /\ everConnected' \in BOOLEAN
  BY <1>1, ResetRetriesType DEF Connect, IInv, TypeOK
<1>3. RestType' /\ LinkInv' /\ SnapshotOfSession'
  BY <1>1, <1>2 DEF IInv, TypeOK, RestType, LinkInv, SnapshotOfSession,
     server, bounds
<1>4. QueueInv'
  <2> DEFINE discovery == {a \in Live : Discovers(a)}
             extra == IF discovery = {} THEN {} ELSE {Discovery}
             announced == IF everConnected THEN {FullSync} ELSE {}
             N == Live \cup (IF everConnected \/ \E a \in Live : Discovers(a)
                             THEN Everything ELSE {})
  <2>1. Live \in SUBSET Address
    BY DEF IInv, TypeOK, Live, Op, Snapshot
  <2>2. extra \cup announced \in SUBSET Options /\ N \in SUBSET Everything
    BY <2>1, RequestTypes DEF Everything
  <2>3. CASE Live = {}
    <3>1. CASE announced = {}
      <4>1. N = {} /\ UNCHANGED <<status, syncPromise, op, dirty>> /\ Asks(N)
        BY <2>3, <3>1 DEF Connect
      <4>2. QED
        BY <1>1, <4>1, AsksNothing, QueueUnchanged DEF queue
    <3>2. CASE announced # {}
      <4>1. RequestSync(FullSync, {}, status, record, TRUE) /\ Asks(N)
        BY <2>3, <3>2 DEF Connect
      <4>2. QED
        BY <1>1, <2>2, <4>1, RequestTypes, RequestSyncInv
    <3>3. QED
      BY <3>1, <3>2
  <2>4. CASE Live # {}
    <3>1. PICK a \in Live :
             RequestSync(Targeted({a}),
                         {Targeted({b}) : b \in Live \ {a}} \cup extra \cup announced,
                         status, record, TRUE)
      BY <2>4 DEF Connect
    <3>2. /\ Targeted({a}) \in Options
          /\ {Targeted({b}) : b \in Live \ {a}} \cup extra \cup announced
               \in SUBSET Options
      BY <2>1, <2>2, RequestTypes
    <3>3. Asks(N)
      BY DEF Connect
    <3>4. QED
      BY <1>1, <2>2, <3>1, <3>2, <3>3, RequestSyncInv
  <2>5. QED
    BY <2>3, <2>4
<1>5. QED
  BY <1>3, <1>4, Parts

LEMMA LinkEventInv == IInv /\ LoseConnection => IInv'
<1> SUFFICES ASSUME IInv, LoseConnection PROVE IInv'
  OBVIOUS
<1>1. record' \in Record /\ SnapshotOfSession'
  BY StaleType DEF LoseConnection, IInv, TypeOK, SnapshotOfSession
<1>2. QueueInv'
  BY DEF LoseConnection, IInv, TypeOK, QueueInv, OpInv, SyncTracked,
     OneDeferred, NoForgottenWork, Current, Status, queue
<1>3. LinkInv'
  BY DEF LoseConnection, IInv, LinkInv, reconciliation
<1>4. RestType'
  <2>1. /\ connected' = FALSE /\ drops' = drops + 1
        /\ UNCHANGED <<server, everConnected, generation, active, queue,
                       listening, reconciliation, call, heard, reorgs, failures>>
    BY DEF LoseConnection
  <2>2. drops' \in Nat
    BY <2>1 DEF IInv, TypeOK
  <2>3. QED
    BY <1>1, <2>1, <2>2 DEF IInv, TypeOK, RestType, server, queue, reconciliation
<1>5. QED
  BY <1>1, <1>2, <1>3, <1>4, Parts

LEMMA ConfirmInv == ASSUME IInv, NEW t \in WalletTx, Confirm(t) PROVE IInv'
<1>1. QueueInv' /\ SnapshotOfSession' /\ LinkInv'
  BY QueueUnchanged DEF IInv, Confirm, SnapshotOfSession, LinkInv, link, view,
     reconciliation
<1>2. RestType'
  BY DEF Confirm, IInv, TypeOK, RestType, link, view, queue, reconciliation, bounds
<1>3. QED
  BY <1>1, <1>2, Parts

(***************************************************************************)
(* Steps of an operation                                                   *)
(***************************************************************************)
\* All of IInv but the operations, when an action leaves the view alone.
LEMMA OpStepInv ==
    ASSUME IInv, NEW i \in OpId, op[i].stage # "idle", NEW r \in Op,
           op' = [op EXCEPT ![i] = r],
           r.stage # "idle", r.gen = op[i].gen,
           r.stage # "connecting" => r.snap.session = r.gen,
           r.stage \in {"sending", "sent"} => r.tx \in WalletTx,
           status' \in Status, listening' \subseteq Address,
           pending' \in Pending, timer' \in BOOLEAN, timer' => timer,
           owed' \subseteq WalletTx,
           relayed' \subseteq WalletTx,
           UNCHANGED <<version, confirmed, shown, link, generation, active,
                       record, syncPromise, dirty, pendingReorg, asked, call,
                       heard, bounds>>
    PROVE  IInv'
<1>1. /\ op' \in [OpId -> Op] /\ (\A j \in OpId : OpInv(j)')
      /\ SyncTracked' /\ OneDeferred' /\ NoForgottenWork'
  BY StageInv
<1>2. QueueInv'
  BY <1>1 DEF IInv, TypeOK, QueueInv
<1>3. RestType'
  BY DEF IInv, TypeOK, RestType, link, bounds
<1>4. SnapshotOfSession' /\ LinkInv'
  BY DEF IInv, SnapshotOfSession, LinkInv, link
<1>5. QED
  BY <1>2, <1>3, <1>4, Parts

\* All of IInv when operation i settles.
LEMMA SettleStepInv ==
    ASSUME IInv, NEW i \in OpId, op[i].stage # "idle",
           NEW st \in Status, NEW r \in Record, OfSession(r),
           NEW after \in SUBSET Options, Settle(i, st, r, after),
           pending' \in Pending, timer' \in BOOLEAN, timer' => active,
           owed' \subseteq WalletTx, listening' \subseteq Address,
           failures' \in Nat,
           UNCHANGED <<server, link, generation, active, call, heard, reorgs, drops>>
    PROVE  IInv'
<1>1. /\ QueueInv' /\ pendingReorg' \in BOOLEAN /\ record' \in Record
      /\ SnapshotOfSession'
  BY SettleInv
<1>2. RestType'
  BY <1>1 DEF IInv, TypeOK, RestType, server, link
<1>3. LinkInv'
  BY DEF IInv, LinkInv, link
<1>4. QED
  BY <1>1, <1>2, <1>3, Parts

LEMMA ScheduleType ==
    ASSUME IInv, ScheduleReconciliation
    PROVE  pending' \in Pending /\ timer' \in BOOLEAN
<1>1. CASE timer \/ pending.retries >= MaxRetries
  BY <1>1 DEF IInv, TypeOK, ScheduleReconciliation
<1>2. CASE ~ (timer \/ pending.retries >= MaxRetries)
  <2>1. pending \in Pending
    BY DEF IInv, TypeOK
  <2>2. pending.retries \in 0 .. MaxRetries /\ pending.retries < MaxRetries
    BY <1>2, <2>1, ConstantsAssumption DEF Pending
  <2>3. pending.retries + 1 \in 0 .. MaxRetries
    BY <2>2, ConstantsAssumption
  <2>4. pending' = [pending EXCEPT !.retries = @ + 1] /\ timer' = TRUE
    BY <1>2 DEF ScheduleReconciliation
  <2>5. QED
    BY <2>1, <2>3, <2>4 DEF Pending
<1>3. QED
  BY <1>1, <1>2

LEMMA ScanBaseType ==
    ASSUME NEW s \in Snapshot, generation \in Generation
    PROVE  /\ ScanBase(s) \in Snapshot
           /\ ScanBase(s).session = generation
           /\ ScanStart(s) \in SUBSET Address
<1>1. s.known \in SUBSET Address /\ Retained(s) \in SUBSET Address
      /\ s.version \in [Address -> Nat] /\ s.txs \in [Address -> SUBSET Sighting]
  BY DEF Snapshot, Retained
<1>2. ScanBase(s) \in Snapshot /\ ScanBase(s).session = generation
  BY <1>1 DEF ScanBase, Snapshot
<1>3. ScanStart(s) \in SUBSET Address
  BY <1>1, ConstantsAssumption DEF ScanStart
<1>4. QED
  BY <1>2, <1>3

LEMMA SyncConnectedInv ==
    ASSUME IInv, NEW g \in Generation, SyncConnected(g)
    PROVE  IInv'
<1> DEFINE previous == record.snap
           targeted == IsTargeted(g)
           snap == IF targeted THEN previous ELSE ScanBase(previous)
           todo == IF targeted THEN Targets(g) ELSE ScanStart(previous)
           r == [op[g] EXCEPT !.stage = "reading", !.targeted = targeted,
                              !.snap = snap, !.todo = todo]
<1>1. /\ g \in OpId /\ op \in [OpId -> Op] /\ op[g] \in Op
      /\ previous \in Snapshot /\ generation \in Generation
      /\ op[g].gen = generation /\ op[g].stage = "connecting"
  BY DEF OpId, IInv, TypeOK, Record, SyncConnected, Connecting, Current
<1>2. snap \in Snapshot /\ snap.session = generation
  BY <1>1, ScanBaseType DEF IInv, SnapshotOfSession, IsTargeted
<1>3. todo \in SUBSET Address
  BY <1>1, ScanBaseType DEF Snapshot, SyncConnected
<1>4. r \in Op /\ r.stage = "reading" /\ r.gen = generation /\ r.snap = snap
  <2>1. targeted \in BOOLEAN
    BY DEF IsTargeted
  <2> HIDE DEF targeted, snap, todo
  <2>2. QED
    BY <1>1, <1>2, <1>3, <2>1 DEF Op, Stage
<1>5. op' = [op EXCEPT ![g] = r]
  BY <1>1 DEF SyncConnected
<1>6. status' \in Status
  BY DEF IInv, TypeOK, SyncConnected, Status
<1>7. UNCHANGED <<server, link, generation, active, record, syncPromise, dirty,
                  pendingReorg, asked, listening, reconciliation, call, heard, bounds>>
  BY DEF SyncConnected
<1>8. /\ listening' \subseteq Address /\ pending' \in Pending
      /\ timer' = timer /\ timer' \in BOOLEAN
      /\ owed' \subseteq WalletTx /\ relayed' \subseteq WalletTx
  BY <1>7 DEF IInv, TypeOK, server, reconciliation
<1> HIDE DEF r
<1>9. QED
  BY <1>1, <1>2, <1>4, <1>5, <1>6, <1>7, <1>8, OpStepInv DEF server

LEMMA ReadAddressInv ==
    ASSUME IInv, NEW i \in OpId, NEW a \in Address, ReadAddress(i, a)
    PROVE  IInv'
<1> DEFINE s == [op[i].snap EXCEPT !.known = @ \cup {a},
                                   !.version[a] = version[a],
                                   !.txs[a] = shown[a]]
           further == Behind(i, s, a)
           r == [op[i] EXCEPT !.snap = s, !.todo = (@ \cup further) \ {a}]
<1>1. /\ op \in [OpId -> Op] /\ op[i] \in Op /\ op[i].stage = "reading"
      /\ op[i].snap \in Snapshot /\ op[i].todo \in SUBSET Address
      /\ op[i].snap.session = op[i].gen
      /\ version \in [Address -> Nat] /\ shown \in [Address -> SUBSET Sighting]
  BY DEF IInv, TypeOK, OpInv, Op, ReadAddress
<1>2. s \in Snapshot /\ s.session = op[i].gen
  BY <1>1 DEF Snapshot
<1>3. further \in SUBSET Address
  BY ConstantsAssumption DEF Behind
<1>4. r \in Op /\ r.stage = "reading" /\ r.gen = op[i].gen /\ r.snap = s
  <2> HIDE DEF s, further
  <2>1. QED
    BY <1>1, <1>2, <1>3 DEF Op
<1>5. /\ op' = [op EXCEPT ![i] = r]
      /\ UNCHANGED <<server, link, generation, active, view, syncPromise, dirty,
                     pendingReorg, asked, listening, reconciliation, call, heard, bounds>>
  <2>1. /\ op' = [op EXCEPT ![i].snap = s, ![i].todo = (@ \cup further) \ {a}]
        /\ UNCHANGED <<server, link, generation, active, view, syncPromise, dirty,
                       pendingReorg, asked, listening, reconciliation, call, heard, bounds>>
    BY DEF ReadAddress
  <2> HIDE DEF s, further
  <2>2. QED
    BY <1>1, <2>1
<1>6. /\ status' \in Status /\ listening' \subseteq Address /\ pending' \in Pending
      /\ timer' = timer /\ timer' \in BOOLEAN
      /\ owed' \subseteq WalletTx /\ relayed' \subseteq WalletTx
  BY <1>5 DEF IInv, TypeOK, server, reconciliation, view
<1> HIDE DEF r, s
<1>7. QED
  BY <1>1, <1>2, <1>4, <1>5, <1>6, OpStepInv DEF server, view

LEMMA SubscribeAddressInv ==
    ASSUME IInv, NEW i \in OpId, NEW a \in Address, SubscribeAddress(i, a)
    PROVE  IInv'
<1> DEFINE r == [op[i] EXCEPT !.todo = @ \ {a}]
<1>1. /\ op \in [OpId -> Op] /\ op[i] \in Op /\ op[i].stage = "installing"
      /\ op[i].snap.session = op[i].gen
  BY DEF IInv, TypeOK, OpInv, SubscribeAddress
<1>2. r \in Op /\ r.stage = "installing" /\ r.gen = op[i].gen /\ r.snap = op[i].snap
  BY <1>1 DEF Op
<1>3. /\ op' = [op EXCEPT ![i] = r]
      /\ UNCHANGED <<server, link, generation, active, view, syncPromise, dirty,
                     pendingReorg, asked, listening, reconciliation, call, heard, bounds>>
  BY <1>1 DEF SubscribeAddress
<1>4. /\ status' \in Status /\ listening' \subseteq Address /\ pending' \in Pending
      /\ timer' = timer /\ timer' \in BOOLEAN
      /\ owed' \subseteq WalletTx /\ relayed' \subseteq WalletTx
  BY <1>3 DEF IInv, TypeOK, server, reconciliation, view
<1> HIDE DEF r
<1>5. QED
  BY <1>1, <1>2, <1>3, <1>4, OpStepInv DEF server, view

\* The record as it stands, or marked stale, or an operation's own snapshot.
LEMMA SessionRecords ==
    ASSUME IInv
    PROVE  /\ OfSession(record)
           /\ \A why \in {"network-error", "connection-lost", "reorg"} :
                 OfSession(Stale(record, why))
           /\ \A i \in OpId :
                 op[i].stage \notin {"idle", "connecting"} /\ Current(i) =>
                     OfSession(Fresh(op[i].snap))
<1>1. record \in Record /\ OfSession(record)
  BY DEF IInv, TypeOK, SnapshotOfSession, OfSession
<1>2. \A i \in OpId : op[i].stage \notin {"idle", "connecting"} /\ Current(i) =>
                         OfSession(Fresh(op[i].snap))
  BY DEF IInv, OpInv, Current, OfSession, Fresh
<1>3. QED
  BY <1>1, <1>2, StaleType DEF OfSession

\* An operation that reads, installs or sends has a snapshot.
LEMMA OpSnapType ==
    ASSUME IInv, NEW i \in OpId
    PROVE  op[i].snap \in Snapshot /\ Fresh(op[i].snap) \in Record
BY FreshType DEF IInv, TypeOK, Op

LEMMA SyncHiddenInv == ASSUME IInv, NEW g \in Generation, SyncHidden(g) PROVE IInv'
<1>1. /\ g \in OpId /\ op[g].stage # "idle"
      /\ status \in Status /\ record \in Record /\ owed \subseteq WalletTx
      /\ listening \subseteq Address /\ failures \in Nat
  BY DEF OpId, IInv, TypeOK, SyncHidden, AllRead
<1>2. /\ ScheduleReconciliation /\ Settle(g, status, record, {})
      /\ UNCHANGED <<server, link, generation, active, listening, owed, call,
                     heard, bounds>>
  BY DEF SyncHidden
<1>3. pending' \in Pending /\ timer' \in BOOLEAN
  BY <1>2, ScheduleType
<1>4. active
  BY <1>1 DEF IInv, LinkInv, SyncHidden, AllRead
<1>5. QED
  BY <1>1, <1>2, <1>3, <1>4, SessionRecords, SettleStepInv DEF bounds

LEMMA ReadMismatchInv == ASSUME IInv, NEW g \in Generation, ReadMismatch(g) PROVE IInv'
<1>1. /\ g \in OpId /\ op[g].stage # "idle"
      /\ status \in Status /\ record \in Record /\ owed \subseteq WalletTx
      /\ listening \subseteq Address /\ failures \in Nat
  BY DEF OpId, IInv, TypeOK, ReadMismatch
<1>2. /\ ScheduleReconciliation /\ Settle(g, status, record, {})
      /\ failures' = failures + 1
      /\ UNCHANGED <<server, link, generation, active, listening, owed, call,
                     heard, reorgs, drops>>
  BY DEF ReadMismatch
<1>3. pending' \in Pending /\ timer' \in BOOLEAN
  BY <1>2, ScheduleType
<1>4. active
  BY DEF IInv, LinkInv, ReadMismatch
<1>5. QED
  BY <1>1, <1>2, <1>3, <1>4, SessionRecords, SettleStepInv

LEMMA SyncReadInv == ASSUME IInv, NEW g \in Generation, SyncRead(g) PROVE IInv'
<1>1. /\ g \in OpId /\ op[g].stage = "reading" /\ Current(g)
      /\ op \in [OpId -> Op] /\ op[g] \in Op /\ op[g].snap.session = op[g].gen
      /\ status \in Status /\ listening \subseteq Address /\ failures \in Nat
  BY DEF OpId, IInv, TypeOK, OpInv, SyncRead, AllRead
<1>2. /\ pending' = NoPending /\ timer' = FALSE /\ pending' \in Pending
      /\ UNCHANGED <<server, link, generation, active, call, heard, bounds>>
  BY NoPendingType DEF SyncRead, ClearReconciliation
<1>3. owed' \subseteq WalletTx
  BY DEF SyncRead, IInv, TypeOK
<1>4. CASE op[g].targeted
  <2>1. Settle(g, "ready", Fresh(op[g].snap), {}) /\ listening' = listening
    BY <1>4 DEF SyncRead
  <2>2. Fresh(op[g].snap) \in Record /\ OfSession(Fresh(op[g].snap))
    BY <1>1, OpSnapType, SessionRecords
  <2>3. "ready" \in Status /\ listening' \subseteq Address /\ failures' \in Nat
        /\ UNCHANGED <<reorgs, drops>> /\ op[g].stage # "idle"
    BY <1>1, <1>2, <2>1 DEF Status, bounds
  <2>4. timer' \in BOOLEAN /\ (timer' => active)
    BY <1>2
  <2>5. QED
    BY <1>1, <1>2, <1>3, <2>1, <2>2, <2>3, <2>4, SettleStepInv
<1>5. CASE ~ op[g].targeted
  <2> DEFINE r == [op[g] EXCEPT !.stage = "installing", !.todo = op[g].snap.known]
  <2>1. /\ op' = [op EXCEPT ![g] = r] /\ listening' = {}
        /\ UNCHANGED <<view, syncPromise, dirty, pendingReorg, asked>>
    BY <1>1, <1>5 DEF SyncRead
  <2>2. /\ r \in Op /\ r.stage = "installing" /\ r.gen = op[g].gen
        /\ r.snap = op[g].snap
    BY <1>1 DEF Op, Stage, Snapshot
  <2>3. relayed' \subseteq WalletTx /\ UNCHANGED <<version, confirmed, shown>>
    BY <1>2 DEF IInv, TypeOK, server
  <2> HIDE DEF r
  <2>4. QED
    BY <1>1, <1>2, <1>3, <2>1, <2>2, <2>3, OpStepInv DEF view
<1>6. QED
  BY <1>4, <1>5

LEMMA InstalledInv == ASSUME IInv, NEW i \in OpId, Installed(i) PROVE IInv'
<1>1. /\ op[i].stage = "installing" /\ Current(i)
      /\ op[i].snap \in Snapshot
      /\ listening' = op[i].snap.known
      /\ Settle(i, "ready", Fresh(op[i].snap), {})
      /\ UNCHANGED <<server, link, generation, active, reconciliation, call,
                     heard, bounds>>
  BY OpSnapType DEF Installed
<1>2. Fresh(op[i].snap) \in Record /\ OfSession(Fresh(op[i].snap))
  BY <1>1, OpSnapType, SessionRecords
<1>3. "ready" \in Status /\ listening' \subseteq Address
  BY <1>1 DEF Status, Snapshot
<1>4. /\ pending' \in Pending /\ timer' \in BOOLEAN /\ (timer' => active)
      /\ owed' \subseteq WalletTx /\ failures' \in Nat
  BY <1>1 DEF IInv, TypeOK, LinkInv, reconciliation, bounds
<1>5. QED
  BY <1>1, <1>2, <1>3, <1>4, SettleStepInv DEF bounds

LEMMA EndsInv ==
    ASSUME IInv, NEW i \in OpId,
           \/ OperationFails(i) \/ SyncUnknown(i)
           \/ Abandon(i) \/ BroadcastFails(i)
    PROVE  IInv'
<1>1. /\ op[i].stage # "idle"
      /\ UNCHANGED <<server, link, generation, active, listening, reconciliation,
                     call, heard, reorgs, drops>>
  BY DEF OperationFails, SyncUnknown, Connecting, Abandon, BroadcastFails, bounds
<1>2. failures' \in Nat
  BY DEF OperationFails, SyncUnknown, Abandon, BroadcastFails, bounds, IInv, TypeOK
<1>3. /\ pending' \in Pending /\ timer' \in BOOLEAN /\ (timer' => active)
      /\ owed' \subseteq WalletTx /\ listening' \subseteq Address
      /\ status \in Status /\ record \in Record
  BY <1>1 DEF IInv, TypeOK, LinkInv, reconciliation
<1>4. CASE OperationFails(i) \/ SyncUnknown(i)
  <2>1. Settle(i, IF record.mark = "none" THEN "error" ELSE "stale",
               Stale(record, "network-error"), {})
    BY <1>4 DEF OperationFails, SyncUnknown, SettleFailed
  <2>2. /\ (IF record.mark = "none" THEN "error" ELSE "stale") \in Status
        /\ Stale(record, "network-error") \in Record
    BY <1>3, StaleType DEF Status
  <2>3. QED
    BY <1>1, <1>2, <1>3, <2>1, <2>2, SessionRecords, SettleStepInv
<1>5. CASE Abandon(i) \/ BroadcastFails(i)
  <2>1. Settle(i, status, record, {})
    BY <1>5 DEF Abandon, BroadcastFails
  <2>2. QED
    BY <1>1, <1>2, <1>3, <2>1, SessionRecords, SettleStepInv
<1>6. QED
  BY <1>4, <1>5

(***************************************************************************)
(* Calls of the user interface                                             *)
(***************************************************************************)
\* A call that starts, waits or is refused touches nothing but itself.
LEMMA CallOnlyInv ==
    ASSUME IInv, call' \in [Caller -> Call],
           UNCHANGED <<server, link, generation, active, view, queue, listening,
                       reconciliation, heard, bounds>>
    PROVE  IInv'
<1>1. QueueInv' /\ SnapshotOfSession' /\ LinkInv'
  BY QueueUnchanged DEF IInv, SnapshotOfSession, LinkInv, link, view, reconciliation
<1>2. RestType'
  BY DEF IInv, TypeOK, RestType, server, link, view, queue, reconciliation, bounds
<1>3. QED
  BY <1>1, <1>2, Parts

LEMMA ProceedsType ==
    ASSUME IInv, NEW c \in Caller, NEW want, Proceeds(c, want)
    PROVE  call' \in [Caller -> Call]
BY DEF IInv, TypeOK, Proceeds, NoCall, Call

LEMMA WaitingInv ==
    ASSUME IInv, NEW c \in Caller,
           \/ \E want \in Wants \ {"refresh"} : CallController(c, want)
           \/ Admit(c) \/ RejectBroadcast(c) \/ RejectTrack(c) \/ RejectRecovery(c)
    PROVE  IInv'
<1>1. call \in [Caller -> Call]
  BY DEF IInv, TypeOK
<1>2. CASE \E want \in Wants \ {"refresh"} : CallController(c, want)
  <2>1. PICK want \in Wants \ {"refresh"} : CallController(c, want)
    BY <1>2
  <2>2. call' \in [Caller -> Call]
    BY <1>1, <2>1, ConstantsAssumption DEF CallController, Call
  <2>3. QED
    BY <2>1, <2>2, CallOnlyInv DEF CallController
<1>3. CASE Admit(c)
  <2>1. call' \in [Caller -> Call]
    BY <1>1, <1>3 DEF Admit, Call
  <2>2. QED
    BY <1>3, <2>1, CallOnlyInv DEF Admit
<1>4. CASE RejectBroadcast(c) \/ RejectTrack(c) \/ RejectRecovery(c)
  <2>1. call' \in [Caller -> Call]
    BY <1>4, ProceedsType DEF RejectBroadcast, RejectTrack, RejectRecovery
  <2>2. QED
    BY <1>4, <2>1, CallOnlyInv DEF RejectBroadcast, RejectTrack, RejectRecovery
<1>5. QED
  BY <1>2, <1>3, <1>4

LEMMA TrackInv == ASSUME IInv, NEW c \in Caller, Track(c) PROVE IInv'
<1>1. PICK A \in SUBSET Address :
           /\ active /\ RequestSync(Targeted(A), {}, status, record, connected)
           /\ Asks(A) /\ A \in SUBSET Everything
  BY DEF Track, Everything
<1>2. /\ status \in Status /\ record \in Record /\ connected \in BOOLEAN
      /\ UNCHANGED <<generation, active>>
  BY DEF IInv, TypeOK, Track
<1>3. QueueInv'
  BY <1>1, <1>2, RequestTypes, RequestSyncInv
<1>4. call' \in [Caller -> Call]
  BY ProceedsType DEF Track
<1>5. RestType' /\ SnapshotOfSession' /\ LinkInv'
  BY <1>4 DEF Track, IInv, TypeOK, RestType, SnapshotOfSession, LinkInv, server,
     link, reconciliation, bounds
<1>6. QED
  BY <1>3, <1>5, Parts

\* An operation begun under the name of a call is tracked, or runs beside
\* the one that is.
LEMMA CallStartsInv ==
    ASSUME IInv, NEW c \in Caller, NEW r \in Op,
           op' = [op EXCEPT ![c] = r],
           r.stage # "idle", r.gen = generation, active,
           r.stage # "connecting" => r.snap.session = generation,
           r.stage \in {"sending", "sent"} => r.tx \in WalletTx,
           syncPromise' = IF syncPromise = NoOp THEN c ELSE syncPromise,
           status' \in Status,
           UNCHANGED <<generation, active, dirty, pendingReorg, asked>>
    PROVE  QueueInv'
<1>1. /\ c \in OpId /\ generation \in OpId /\ c \notin Generation
      /\ generation \in Generation /\ op \in [OpId -> Op]
      /\ asked \subseteq Everything
      /\ c # NoOp /\ generation # NoOp /\ c # generation
      /\ syncPromise \in OpId \cup {NoOp} /\ dirty \subseteq Options
  BY GenerationIsOp, ConstantsAssumption DEF OpId, IInv, TypeOK
<1>2. /\ op' \in [OpId -> Op] /\ op'[c] = r
      /\ \A j \in OpId : j # c => op'[j] = op[j]
  BY <1>1, OpUpdate
<1>3. \A j \in OpId : OpInv(j)'
  BY <1>1, <1>2, GenerationIsNat DEF IInv, OpInv
<1>4. SyncTracked'
  BY <1>1, <1>2 DEF IInv, SyncTracked
<1>5. NoForgottenWork' /\ OneDeferred'
  BY <1>1, <1>2 DEF IInv, NoForgottenWork, OneDeferred, Current
<1>6. syncPromise' \in OpId \cup {NoOp}
  BY <1>1
<1>7. QED
  BY <1>1, <1>2, <1>3, <1>4, <1>5, <1>6 DEF QueueInv

LEMMA ProjectedType ==
    ASSUME NEW s \in Snapshot, NEW t \in WalletTx
    PROVE  Projected(s, t) \in Snapshot /\ Projected(s, t).session = s.session
<1>1. <<t, FALSE>> \in Sighting
  BY DEF Sighting
<1>2. s.txs \in [Address -> SUBSET Sighting]
  BY DEF Snapshot
<1>3. \A a \in Address : {p \in s.txs[a] : p[1] # Original[t]} \cup {<<t, FALSE>>}
                          \in SUBSET Sighting
  BY <1>1, <1>2
<1>4. QED
  BY <1>2, <1>3 DEF Projected, Snapshot

LEMMA StartBroadcastInv ==
    ASSUME IInv, NEW c \in Caller, NEW t \in WalletTx, StartBroadcast(c, t)
    PROVE  IInv'
<1> DEFINE r == [IdleOp EXCEPT !.stage = "sending", !.gen = generation, !.tx = t,
                               !.snap = Projected(record.snap, t)]
<1>1. /\ active /\ record.mark = "fresh" /\ record.snap.session = generation
      /\ record.snap \in Snapshot /\ status \in Status
      /\ generation \in Generation
  BY DEF StartBroadcast, Sendable, Spendable, IInv, TypeOK, SnapshotOfSession, Record
<1>2. Projected(record.snap, t) \in Snapshot
      /\ Projected(record.snap, t).session = generation
  BY <1>1, ProjectedType
<1>3. /\ r \in Op /\ r.stage = "sending" /\ r.gen = generation
      /\ r.snap = Projected(record.snap, t) /\ r.tx = t
  BY <1>1, <1>2, IdleOpType DEF Op, Stage, IdleOp
<1>4. /\ op' = [op EXCEPT ![c] = r]
      /\ syncPromise' = IF syncPromise = NoOp THEN c ELSE syncPromise
      /\ UNCHANGED <<server, link, generation, active, view, dirty, pendingReorg,
                     asked, listening, reconciliation, heard, bounds>>
  BY DEF StartBroadcast
<1> HIDE DEF r
<1>5. status' \in Status /\ record' = record
  BY <1>1, <1>4 DEF view
<1>6. QueueInv'
  BY <1>1, <1>2, <1>3, <1>4, <1>5, CallStartsInv
<1>7. call' \in [Caller -> Call]
  BY ProceedsType DEF StartBroadcast
<1>8. RestType' /\ SnapshotOfSession' /\ LinkInv'
  BY <1>4, <1>5, <1>7 DEF IInv, TypeOK, RestType, SnapshotOfSession, LinkInv,
     server, link, reconciliation, bounds
<1>9. QED
  BY <1>6, <1>8, Parts

LEMMA StartRecoveryInv ==
    ASSUME IInv, NEW c \in Caller, StartRecovery(c)
    PROVE  IInv'
<1> DEFINE r == [IdleOp EXCEPT !.stage = "connecting", !.gen = generation,
                               !.recovery = TRUE]
<1>1. active /\ generation \in Generation
  BY DEF StartRecovery, IInv, TypeOK
<1>2. r \in Op /\ r.stage = "connecting" /\ r.gen = generation
  BY <1>1, IdleOpType DEF Op, Stage, IdleOp
<1>3. /\ op' = [op EXCEPT ![c] = r] /\ status' = "scanning"
      /\ syncPromise' = IF syncPromise = NoOp THEN c ELSE syncPromise
      /\ UNCHANGED <<server, link, generation, active, record, dirty,
                     pendingReorg, asked, listening, reconciliation, heard, bounds>>
  BY DEF StartRecovery
<1> HIDE DEF r
<1>4. status' \in Status
  BY <1>3 DEF Status
<1>5. QueueInv'
  BY <1>1, <1>2, <1>3, <1>4, CallStartsInv
<1>6. call' \in [Caller -> Call]
  BY ProceedsType DEF StartRecovery
<1>7. RestType' /\ SnapshotOfSession' /\ LinkInv'
  BY <1>3, <1>6 DEF IInv, TypeOK, RestType, SnapshotOfSession, LinkInv,
     server, link, reconciliation, bounds
<1>8. QED
  BY <1>5, <1>7, Parts

LEMMA RecoveryConnectedInv ==
    ASSUME IInv, NEW c \in Caller, NEW a \in Address, RecoveryConnected(c, a)
    PROVE  IInv'
<1> DEFINE s == IF record.mark = "none" THEN [EmptySnapshot EXCEPT !.session = generation]
                ELSE record.snap
           r == [op[c] EXCEPT !.stage = "reading", !.snap = s, !.todo = {a}]
<1>1. /\ c \in OpId /\ op \in [OpId -> Op] /\ op[c] \in Op
      /\ op[c].stage = "connecting" /\ op[c].gen = generation
      /\ generation \in Generation /\ record \in Record
  BY DEF OpId, IInv, TypeOK, RecoveryConnected, Current
<1>2. s \in Snapshot /\ s.session = generation
  BY <1>1, EmptySnapshotType DEF IInv, SnapshotOfSession, Record, Snapshot
<1>3. r \in Op /\ r.stage = "reading" /\ r.gen = generation /\ r.snap = s
  <2> HIDE DEF s
  <2>1. QED
    BY <1>1, <1>2 DEF Op, Stage
<1>4. /\ op' = [op EXCEPT ![c] = r]
      /\ UNCHANGED <<server, link, generation, active, view, syncPromise, dirty,
                     pendingReorg, asked, listening, reconciliation, call, heard, bounds>>
  BY <1>1 DEF RecoveryConnected
<1>5. /\ status' \in Status /\ listening' \subseteq Address /\ pending' \in Pending
      /\ timer' = timer /\ timer' \in BOOLEAN
      /\ owed' \subseteq WalletTx /\ relayed' \subseteq WalletTx
  BY <1>4 DEF IInv, TypeOK, server, reconciliation, view
<1> HIDE DEF r, s
<1>6. QED
  BY <1>1, <1>2, <1>3, <1>4, <1>5, OpStepInv DEF server, view

LEMMA RecoveryReadInv ==
    ASSUME IInv, NEW c \in Caller, RecoveryRead(c)
    PROVE  IInv'
<1> DEFINE r == [op[c] EXCEPT !.stage = "installing", !.todo = op[c].snap.known]
<1>1. /\ c \in OpId /\ op \in [OpId -> Op] /\ op[c] \in Op
      /\ op[c].stage = "reading" /\ op[c].snap.session = op[c].gen
  BY DEF OpId, IInv, TypeOK, OpInv, RecoveryRead, AllRead
<1>2. /\ r \in Op /\ r.stage = "installing" /\ r.gen = op[c].gen
      /\ r.snap = op[c].snap
  BY <1>1 DEF Op, Stage, Snapshot
<1>3. /\ op' = [op EXCEPT ![c] = r] /\ listening' = {}
      /\ UNCHANGED <<server, link, generation, active, view, syncPromise, dirty,
                     pendingReorg, asked, reconciliation, call, heard, bounds>>
  BY <1>1 DEF RecoveryRead
<1>4. /\ status' \in Status /\ listening' \subseteq Address /\ pending' \in Pending
      /\ timer' = timer /\ timer' \in BOOLEAN
      /\ owed' \subseteq WalletTx /\ relayed' \subseteq WalletTx
  BY <1>3 DEF IInv, TypeOK, server, reconciliation, view
<1> HIDE DEF r
<1>5. QED
  BY <1>1, <1>2, <1>3, <1>4, OpStepInv DEF server, view

LEMMA RelayInv == ASSUME IInv, NEW c \in Caller, Relay(c) PROVE IInv'
<1> DEFINE r == [op[c] EXCEPT !.stage = "sent"]
<1>1. /\ c \in OpId /\ op \in [OpId -> Op] /\ op[c] \in Op
      /\ op[c].stage = "sending" /\ op[c].snap.session = op[c].gen
      /\ relayed \subseteq WalletTx
  BY DEF OpId, IInv, TypeOK, OpInv, Relay
<1>2. r \in Op /\ r.stage = "sent" /\ r.gen = op[c].gen /\ r.snap = op[c].snap
  BY <1>1 DEF Op, Stage
<1>3. /\ op' = [op EXCEPT ![c] = r]
      /\ UNCHANGED <<version, confirmed, shown, link, generation, active, view,
                     syncPromise, dirty, pendingReorg, asked, listening, reconciliation,
                     call, heard, bounds>>
  BY DEF Relay
<1>4. op[c].tx \in WalletTx /\ r.tx = op[c].tx
  BY <1>1 DEF IInv, OpInv, Op
<1>5. relayed' \subseteq WalletTx
  BY <1>1, <1>4 DEF Relay
<1>6. /\ status' \in Status /\ listening' \subseteq Address /\ pending' \in Pending
      /\ timer' = timer /\ timer' \in BOOLEAN /\ owed' \subseteq WalletTx
  BY <1>3 DEF IInv, TypeOK, reconciliation, view
<1> HIDE DEF r
<1>7. QED
  BY <1>1, <1>2, <1>3, <1>4, <1>5, <1>6, OpStepInv DEF view

LEMMA BroadcastAcceptedInv ==
    ASSUME IInv, NEW c \in Caller, BroadcastAccepted(c)
    PROVE  IInv'
<1> DEFINE t == op[c].tx
           addresses == Touches(t) \cup (IF Original[t] = NoTx THEN {}
                                         ELSE Touches(Original[t]))
<1>1. /\ c \in OpId /\ op[c].stage = "sent" /\ Current(c) /\ connected
      /\ t \in WalletTx /\ owed \subseteq WalletTx
      /\ listening \subseteq Address /\ failures \in Nat
  BY DEF OpId, IInv, TypeOK, OpInv, BroadcastAccepted
<1>2. addresses \in SUBSET Address
  BY <1>1, ConstantsAssumption DEF Touches
<1>3. /\ pending' = [tx |-> t, addresses |-> addresses, retries |-> 0]
      /\ timer' = FALSE /\ owed' = (owed \ Rivals(t)) \cup {t}
      /\ Settle(c, "ready", Fresh(op[c].snap), {Targeted(addresses)})
      /\ UNCHANGED <<server, link, generation, active, listening, call, heard, bounds>>
  BY DEF BroadcastAccepted
<1>4. /\ pending' \in Pending /\ owed' \subseteq WalletTx
      /\ timer' \in BOOLEAN /\ (timer' => active)
  <2>1. 0 \in 0 .. MaxRetries
    BY ConstantsAssumption
  <2>2. owed' \subseteq WalletTx
    BY <1>1, <1>3
  <2>3. timer' \in BOOLEAN /\ (timer' => active)
    BY <1>3
  <2> HIDE DEF addresses, t
  <2>4. pending' \in Pending
    BY <1>1, <1>2, <1>3, <2>1 DEF Pending
  <2>5. QED
    BY <2>2, <2>3, <2>4
<1>5. /\ Fresh(op[c].snap) \in Record /\ OfSession(Fresh(op[c].snap))
      /\ "ready" \in Status /\ {Targeted(addresses)} \in SUBSET Options
  BY <1>1, <1>2, OpSnapType, SessionRecords, RequestTypes DEF Status
<1>6. failures' \in Nat /\ listening' \subseteq Address
      /\ UNCHANGED <<server, link, generation, active, call, heard, reorgs, drops>>
  BY <1>1, <1>3 DEF bounds
<1> HIDE DEF addresses
<1>7. QED
  BY <1>1, <1>3, <1>4, <1>5, <1>6, SettleStepInv

(***************************************************************************)
(* The theorems                                                            *)
(***************************************************************************)
LEMMA NextInv == IInv /\ [Next]_vars => IInv'
<1> SUFFICES ASSUME IInv, [Next]_vars PROVE IInv'
  OBVIOUS
<1>1. CASE Start \/ Stop \/ Refresh
  BY <1>1, SessionsInv, RefreshInv
<1>2. ASSUME NEW g \in Generation, SyncStep(g) PROVE IInv'
  BY <1>2, SyncConnectedInv, EndsInv, SyncHiddenInv, SyncReadInv, ReadMismatchInv
  DEF SyncStep, OpId
<1>3. ASSUME NEW i \in OpId, OperationStep(i) PROVE IInv'
  BY <1>3, ReadAddressInv, SubscribeAddressInv, InstalledInv, EndsInv DEF OperationStep
<1>4. ASSUME NEW c \in Caller, CallStep(c) PROVE IInv'
  <2>1. c \in OpId
    BY DEF OpId
  <2>2. CASE \/ \E want \in Wants \ {"refresh"} : CallController(c, want)
             \/ Admit(c) \/ RejectBroadcast(c) \/ RejectTrack(c) \/ RejectRecovery(c)
    BY <2>2, WaitingInv
  <2>3. CASE Track(c) \/ StartRecovery(c) \/ \E t \in WalletTx : StartBroadcast(c, t)
    BY <2>3, TrackInv, StartRecoveryInv, StartBroadcastInv
  <2>4. CASE RecoveryRead(c) \/ \E a \in Address : RecoveryConnected(c, a)
    BY <2>4, RecoveryReadInv, RecoveryConnectedInv
  <2>5. CASE Relay(c) \/ BroadcastAccepted(c) \/ BroadcastFails(c)
    BY <2>1, <2>5, RelayInv, BroadcastAcceptedInv, EndsInv
  <2>6. QED
    BY <1>4, <2>2, <2>3, <2>4, <2>5 DEF CallStep
<1>5. CASE ClientEvent
  BY <1>5, AddressEventInv, ConfirmInv, NextBlockInv, ReorganiseInv,
     LinkEventInv, ConnectInv, RetryInv DEF ClientEvent
<1>6. CASE UNCHANGED vars
  <2>1. UNCHANGED <<server, link, generation, active, view, queue, listening,
                    reconciliation, heard, bounds>> /\ call' \in [Caller -> Call]
    BY <1>6 DEF vars, IInv, TypeOK
  <2>2. QED
    BY <2>1, CallOnlyInv
<1>7. QED
  BY <1>1, <1>2, <1>3, <1>4, <1>5, <1>6 DEF Next

\* Every behaviour of the controller keeps IInv.
THEOREM Invariance == Spec => []IInv
BY InitInv, NextInv, PTL DEF Spec

\* The state variables keep their types.
THEOREM TypeCorrect == Spec => []TypeOK
<1>1. IInv => TypeOK
  BY DEF IInv
<1>2. QED
  BY <1>1, Invariance, PTL

\* What an operation of an ended session goes on to do never reaches the
\* record of the next one (the generation checks after each await).
THEOREM RecordOfSession == Spec => []SnapshotOfSession
<1>1. IInv => SnapshotOfSession
  BY DEF IInv
<1>2. QED
  BY <1>1, Invariance, PTL

\* No request and no reorganisation signal is left over when nothing runs,
\* and what waitForIdle waits for is an operation of the running session.
THEOREM WorkIsRemembered == Spec => []NoForgottenWork
<1>1. IInv => NoForgottenWork
  BY DEF IInv
<1>2. QED
  BY <1>1, Invariance, PTL

(***************************************************************************)
(* The sync queue implements SyncService.  A signal is a step Ask of the   *)
(* service when an operation runs and Begin when none does, with what the  *)
(* signal asked for; Settle is Continue or Rest; start and stop are        *)
(* Restart and Cancel; everything else is a stuttering step.               *)
(*                                                                         *)
(* The history variable asked grows with each signal and knows nothing of  *)
(* the queue.  That the queue always covers it is AskedKept, the invariant *)
(* the refinement rests on.                                                *)
(***************************************************************************)
\* What the queue will have read once it is drained.
Wanted == Demand(dirty) \cup (IF pendingReorg THEN Everything ELSE {})

\* Whatever was asked for and not begun on is in the queue.
AskedKept == asked \subseteq Wanted

\* A step is one of the service, and keeps what was asked for in the queue.
KeepsService == [Service!Next]_(Service!vars) /\ AskedKept'

\* Merging requests neither loses nor adds anything to cover.
LEMMA MergeCovers ==
    ASSUME NEW S \in SUBSET Options
    PROVE  Demand(Deferred(S)) = Demand(S)
<1>1. CASE S = {}
  BY <1>1 DEF Demand, Deferred
<1>2. CASE S # {}
  <2>1. Demand(Deferred(S)) = Covers(Merge(S))
    BY <1>2 DEF Demand, Deferred
  <2>2. \A o \in S : o.only \subseteq Everything /\ Covers(o) \subseteq Everything
    BY DEF Options, Covers, Everything
  <2>3. CASE \E o \in S : o.full
    <3>1. Covers(Merge(S)) = Everything
      BY <2>3 DEF Covers, Merge
    <3>2. PICK o \in S : o.full
      BY <2>3
    <3>3. Covers(o) = Everything
      BY <3>2 DEF Covers
    <3>4. QED
      BY <2>1, <2>2, <3>1, <3>2, <3>3 DEF Demand
  <2>4. CASE ~ \E o \in S : o.full
    <3>1. Covers(Merge(S)) = UNION {o.only : o \in S}
      BY <2>4 DEF Covers, Merge
    <3>2. \A o \in S : Covers(o) = o.only
      BY <2>4 DEF Covers
    <3>3. QED
      BY <2>1, <3>1, <3>2 DEF Demand
  <2>5. QED
    BY <2>3, <2>4
<1>3. QED
  BY <1>1, <1>2

LEMMA DemandFacts ==
    ASSUME NEW S, NEW T, NEW o
    PROVE  /\ Demand({}) = {}
           /\ Demand({o}) = Covers(o)
           /\ Demand(S \cup T) = Demand(S) \cup Demand(T)
BY DEF Demand

\* A request made while nothing runs begins, and otherwise it is noted.
LEMMA RequestSyncServes ==
    ASSUME IInv, AskedKept, UNCHANGED <<generation, pendingReorg>>,
           NEW first \in Options, NEW rest \in SUBSET Options,
           rest # {} => Covers(first) # {},
           NEW st, NEW r \in Record, NEW up,
           RequestSync(first, rest, st, r, up),
           NEW N, N = Covers(first) \cup Demand(rest), Asks(N)
    PROVE  KeepsService
<1>1. /\ dirty \in SUBSET Options /\ generation \in Generation
      /\ op \in [OpId -> Op] /\ generation \in OpId /\ generation # NoOp
  BY GenerationIsOp DEF IInv, TypeOK
<1>2. N \in SUBSET Everything
  BY DemandBound DEF Covers, Options, Everything
<1>3. CASE syncPromise # NoOp
  <2>1. /\ dirty' = Deferred(dirty \cup {first} \cup rest)
        /\ syncPromise' = syncPromise /\ op' = op
        /\ asked' = asked \cup N
    BY <1>3 DEF RequestSync, Asks
  <2>2. Demand(dirty') = Demand(dirty) \cup N
    <3>1. Demand(dirty') = Demand(dirty \cup {first} \cup rest)
      BY <1>1, <2>1, MergeCovers
    <3>2. Demand(dirty \cup {first} \cup rest) =
             Demand(dirty) \cup Covers(first) \cup Demand(rest)
      BY DEF Demand
    <3>3. QED
      BY <3>1, <3>2
  <2>3. Wanted' = Wanted \cup N /\ Doing' = Doing
    BY <2>1, <2>2 DEF Wanted, Doing, Demand
  <2>4. AskedKept'
    BY <2>1, <2>3 DEF AskedKept
  <2>5. Service!Ask(N)
    BY <1>3, <2>1, <2>3 DEF Service!Ask
  <2>6. QED
    BY <1>2, <2>4, <2>5 DEF KeepsService, Service!Next
<1>4. CASE syncPromise = NoOp
  <2>1. /\ dirty' = Deferred(dirty \cup rest)
        /\ syncPromise' = generation
        /\ op' = [op EXCEPT ![generation] = Launched(first, r)]
        /\ asked' = (asked \cup N) \ Doing'
    BY <1>4 DEF RequestSync, Asks
  <2>2. dirty = {} /\ pendingReorg = FALSE
    BY <1>4 DEF IInv, NoForgottenWork, TypeOK
  <2>3. asked = {} /\ Wanted' = Demand(rest)
    <3>1. Demand(dirty') = Demand(rest)
      BY <1>1, <2>1, <2>2, MergeCovers
    <3>2. QED
      BY <2>2, <3>1 DEF Wanted, Demand, AskedKept
  <2>4. Doing' = Covers(first)
    <3>1. /\ op'[generation] = Launched(first, r)
          /\ Launched(first, r).full = first.full
          /\ Launched(first, r).only = first.only
      BY <1>1, <2>1, LaunchedType
    <3>2. QED
      BY <1>1, <2>1, <3>1 DEF Doing, Covers
  <2>5. AskedKept'
    BY <2>1, <2>3, <2>4 DEF AskedKept
  <2>6. N # {} => Doing' # {}
    BY <2>4 DEF Demand
  <2>7. Service!Begin(N)
    BY <1>1, <1>4, <2>1, <2>3, <2>4, <2>6 DEF Service!Begin
  <2>8. QED
    BY <1>2, <2>5, <2>7 DEF KeepsService, Service!Next
<1>5. QED
  BY <1>3, <1>4

\* The end of the tracked operation begins the next one or leaves nothing
\* wanted; the end of another is not seen.
LEMMA SettleServes ==
    ASSUME IInv, AskedKept, generation' = generation,
           NEW i \in OpId, op[i].stage # "idle",
           NEW st, NEW r \in Record, NEW after \in SUBSET Options,
           \A o, p \in after : o = p,
           Settle(i, st, r, after)
    PROVE  KeepsService
<1> DEFINE N == Demand(after)
<1>1. /\ dirty \in SUBSET Options /\ generation \in Generation
      /\ op \in [OpId -> Op] /\ generation \in OpId
      /\ generation # NoOp /\ i # NoOp
  BY GenerationIsOp DEF IInv, TypeOK
<1>2. N \in SUBSET Everything
  BY DemandBound
<1>3. CASE syncPromise # i
  <2>1. /\ op' = [op EXCEPT ![i] = IdleOp]
        /\ UNCHANGED <<syncPromise, dirty, pendingReorg, asked>>
    BY <1>3 DEF Settle
  <2>2. Doing' = Doing /\ Wanted' = Wanted
    BY <1>1, <1>3, <2>1 DEF Doing, Wanted, OpId
  <2>3. QED
    BY <2>1, <2>2 DEF KeepsService, AskedKept, Service!vars
<1>4. CASE syncPromise = i
  <2> DEFINE next == IF pendingReorg THEN {FullSync}
                     ELSE IF dirty # {} THEN dirty ELSE after
             kept == IF pendingReorg THEN dirty \cup after
                     ELSE IF dirty # {} THEN after ELSE {}
             rec2 == IF pendingReorg THEN Stale(r, "reorg") ELSE r
  <2>1. /\ pendingReorg' = FALSE /\ dirty' = Deferred(kept)
        /\ asked' = (asked \cup N) \ Doing'
        /\ \/ next = {} /\ syncPromise' = NoOp
           \/ \E o \in next :
              /\ syncPromise' = generation
              /\ op' = [op EXCEPT ![i] = IdleOp,
                                  ![generation] = Launched(o, rec2)]
    BY <1>4 DEF Settle, Drain
  <2>2. next \in SUBSET Options /\ kept \in SUBSET Options /\ rec2 \in Record
    BY <1>1, RequestTypes, StaleType
  <2>3. Wanted' = Demand(kept)
    <3>1. Demand(dirty') = Demand(kept)
      BY <2>1, <2>2, MergeCovers
    <3>2. QED
      BY <2>1, <3>1 DEF Wanted, Demand
  <2>4. Demand(next) \cup Demand(kept) = Wanted \cup N
    <3>1. CASE pendingReorg
      <4>1. next = {FullSync} /\ kept = dirty \cup after
        BY <3>1
      <4>2. Covers(FullSync) = Everything
        BY DEF Covers, FullSync
      <4>3. Demand(next) = Everything /\ Demand(kept) = Demand(dirty) \cup N
        BY <4>1, <4>2 DEF Demand
      <4>4. QED
        BY <3>1, <4>3 DEF Wanted
    <3>2. CASE ~ pendingReorg
      BY <3>2, DemandFacts DEF Wanted, Demand
    <3>3. QED
      BY <3>1, <3>2
  <2>5. Wanted \subseteq Demand(next)
    <3>1. CASE pendingReorg
      <4>1. next = {FullSync} /\ Covers(FullSync) = Everything
        BY <3>1 DEF Covers, FullSync
      <4>2. Demand(next) = Everything /\ Demand(dirty) \in SUBSET Everything
        BY <1>1, <4>1, DemandBound DEF Demand
      <4>3. QED
        BY <4>2 DEF Wanted
    <3>2. CASE ~ pendingReorg
      BY <3>2, DemandFacts DEF Wanted, Demand
    <3>3. QED
      BY <3>1, <3>2
  <2>6. CASE next = {} /\ syncPromise' = NoOp
    <3>1. kept = {}
      BY <2>6
    <3>2. asked = {} /\ N = {} /\ Doing' = {}
      BY <2>4, <2>6, <3>1, ConstantsAssumption DEF Demand, Doing, AskedKept
    <3>3. asked' = {}
      BY <2>1, <3>2
    <3>4. Service!Rest
      BY <1>1, <1>4, <2>6, <3>2, <3>3 DEF Service!Rest
    <3>5. QED
      BY <3>3, <3>4 DEF KeepsService, AskedKept, Service!Next
  <2>7. ASSUME NEW o \in next, syncPromise' = generation,
               op' = [op EXCEPT ![i] = IdleOp, ![generation] = Launched(o, rec2)]
        PROVE  KeepsService
    <3>1. Doing' = Covers(o)
      <4>1. o \in Options
        BY <2>2
      <4>2. /\ op'[generation] = Launched(o, rec2)
            /\ Launched(o, rec2).full = o.full
            /\ Launched(o, rec2).only = o.only
        BY <1>1, <2>2, <2>7, <4>1, LaunchedType
      <4>3. QED
        BY <1>1, <2>7, <4>2 DEF Doing, Covers
    <3>2. Demand(next) = Covers(o)
      <4>1. next = {o}
        BY DEF IInv, OneDeferred
      <4>2. QED
        BY <4>1, DemandFacts
    <3>3. asked \subseteq Doing' /\ asked' = N \ Doing'
      BY <2>1, <2>5, <3>1, <3>2 DEF AskedKept
    <3>4. AskedKept'
      BY <2>3, <2>4, <3>1, <3>2, <3>3 DEF AskedKept
    <3>5. Service!Continue(N)
      BY <1>1, <1>4, <2>7, <3>3 DEF Service!Continue
    <3>6. QED
      BY <1>2, <3>4, <3>5 DEF KeepsService, Service!Next
  <2>8. QED
    BY <2>1, <2>6, <2>7
<1>5. QED
  BY <1>3, <1>4

\* An operation that goes on covers what it covered.
LEMMA StageServes ==
    ASSUME IInv, AskedKept, NEW i \in OpId, NEW r,
           op' = [op EXCEPT ![i] = r],
           r.full = op[i].full, r.only = op[i].only,
           UNCHANGED <<generation, syncPromise, dirty, pendingReorg, asked>>
    PROVE  KeepsService
<1>1. op \in [OpId -> Op]
  BY DEF IInv, TypeOK
<1>2. Doing' = Doing /\ Wanted' = Wanted
  BY <1>1 DEF Doing, Wanted, Covers, OpId
<1>3. QED
  BY <1>2 DEF KeepsService, AskedKept, Service!vars

LEMMA QueueStutters ==
    IInv /\ AskedKept /\ UNCHANGED <<generation, queue>> => KeepsService
BY DEF KeepsService, AskedKept, queue, Service!vars, Doing, Wanted

\* A broadcast or a recovery that is tracked covers nothing.
LEMMA CallServes ==
    ASSUME IInv, AskedKept, NEW c \in Caller, NEW r,
           op' = [op EXCEPT ![c] = r],
           syncPromise' = IF syncPromise = NoOp THEN c ELSE syncPromise,
           UNCHANGED <<generation, dirty, pendingReorg, asked>>
    PROVE  KeepsService
<1>1. c \notin Generation /\ c # NoOp /\ op \in [OpId -> Op]
  BY ConstantsAssumption DEF IInv, TypeOK
<1>2. CASE syncPromise = NoOp
  <2>1. asked = {} /\ asked' = {} /\ Doing' = {}
    BY <1>1, <1>2 DEF IInv, NoForgottenWork, AskedKept, Wanted, Demand, Doing
  <2>2. Service!Begin({})
    BY <1>1, <1>2, <2>1 DEF Service!Begin
  <2>3. QED
    BY <2>1, <2>2 DEF KeepsService, AskedKept, Service!Next
<1>3. CASE syncPromise # NoOp
  <2>1. Wanted' = Wanted /\ Doing' = Doing /\ syncPromise' = syncPromise
    BY <1>1, <1>3 DEF Wanted, Doing, OpId
  <2>2. QED
    BY <2>1 DEF KeepsService, AskedKept, Service!vars
<1>4. QED
  BY <1>2, <1>3

LEMMA SessionServes == IInv /\ (Stop \/ Start) => KeepsService
<1> SUFFICES ASSUME IInv, Stop \/ Start PROVE KeepsService
  OBVIOUS
<1>1. asked' = {} /\ generation' = generation + 1 /\ AskedKept'
  BY DEF Stop, Start, Reset, AskedKept
<1>2. CASE Stop
  <2>1. syncPromise' = NoOp /\ Doing' = {}
    BY <1>2, ConstantsAssumption DEF Stop, Doing
  <2>2. Service!Cancel
    BY <1>1, <2>1 DEF Service!Cancel
  <2>3. QED
    BY <1>1, <2>2 DEF KeepsService, Service!Next
<1>3. CASE Start
  <2>1. /\ generation + 1 \in Generation /\ generation + 1 \in OpId
        /\ generation + 1 # NoOp /\ generation \in Generation
        /\ op \in [OpId -> Op]
    <3>1. generation \in Generation /\ generation < MaxGeneration
      BY <1>3 DEF IInv, TypeOK, Start
    <3>2. generation + 1 \in Generation
      BY <3>1, ConstantsAssumption DEF Generation
    <3>3. QED
      BY <3>1, <3>2, ConstantsAssumption DEF OpId, IInv, TypeOK
  <2> DEFINE l == Launched(FullSync, NoRecord)
  <2>2. l \in Op /\ l.full = TRUE
    BY <2>1, LaunchedType, RequestTypes, NoRecordType DEF FullSync
  <2>3. /\ op' = [op EXCEPT ![generation + 1] = [l EXCEPT !.gen = generation + 1]]
        /\ syncPromise' = generation + 1
    BY <1>3 DEF Start
  <2> HIDE DEF l
  <2>4. op'[generation + 1].full = TRUE
    BY <2>1, <2>2, <2>3 DEF Op
  <2>5. Doing' = Everything
    BY <2>1, <2>3, <2>4 DEF Doing, Covers
  <2>6. Service!Restart
    BY <1>1, <2>1, <2>3, <2>5 DEF Service!Restart
  <2>7. QED
    BY <1>1, <2>6 DEF KeepsService, Service!Next
<1>4. QED
  BY <1>2, <1>3

\* What the requests of the handlers cover.
LEMMA RequestCovers ==
    /\ Demand({}) = {}
    /\ Covers(FullSync) = Everything /\ Covers(Discovery) = Everything
    /\ \A A : Covers(Targeted(A)) = A
BY DEF Demand, Covers, FullSync, Discovery, Targeted

\* Requests for one address each cover those addresses.
LEMMA TargetsCover ==
    ASSUME NEW S
    PROVE  Demand({Targeted({b}) : b \in S}) = S
<1> DEFINE T == {Targeted({b}) : b \in S}
<1>1. ASSUME NEW x \in S PROVE x \in Demand(T)
  <2>1. Targeted({x}) \in T /\ x \in Covers(Targeted({x}))
    BY RequestCovers
  <2>2. QED
    BY <2>1 DEF Demand
<1>2. ASSUME NEW x \in Demand(T) PROVE x \in S
  <2>1. PICK o \in T : x \in Covers(o)
    BY DEF Demand
  <2>2. PICK b \in S : o = Targeted({b})
    OBVIOUS
  <2>3. Covers(o) = {b}
    BY <2>2, RequestCovers
  <2>4. QED
    BY <2>1, <2>3
<1>3. QED
  BY <1>1, <1>2

LEMMA RequestersServe ==
    ASSUME IInv, AskedKept, Refresh \/ RetryReconciliation \/ NextBlock \/ Reorganise \/ Connect
    PROVE  KeepsService
<1>1. /\ status \in Status /\ record \in Record /\ connected \in BOOLEAN
      /\ pending.addresses \in SUBSET Address
      /\ record.snap.known \in SUBSET Address
  BY DEF IInv, TypeOK, Pending, Record, Snapshot
<1>2. CASE Refresh
  <2>1. /\ RequestSync(FullSync, {}, status, record, connected) /\ Asks(Everything)
        /\ UNCHANGED <<generation, pendingReorg>>
    BY <1>2 DEF Refresh
  <2>2. Everything = Covers(FullSync) \cup Demand({})
    BY RequestCovers
  <2>3. QED
    BY <1>1, <2>1, <2>2, RequestTypes, RequestSyncServes
<1>3. CASE RetryReconciliation
  <2> DEFINE A == pending.addresses
  <2>1. /\ RequestSync(Targeted(A), {}, status, record, connected) /\ Asks(A)
        /\ UNCHANGED <<generation, pendingReorg>>
    BY <1>3 DEF RetryReconciliation
  <2>2. A = Covers(Targeted(A)) \cup Demand({})
    BY <1>1, RequestCovers
  <2>3. QED
    BY <1>1, <2>1, <2>2, RequestTypes, RequestSyncServes
<1>4. CASE NextBlock
  <2>1. PICK A \in SUBSET Address :
             /\ IF A = {} THEN UNCHANGED <<status, syncPromise, op, dirty>>
                ELSE RequestSync(Targeted(A), {}, status, record, connected)
             /\ Asks(A)
    BY <1>1, <1>4 DEF NextBlock
  <2>2. UNCHANGED <<generation, pendingReorg>>
    BY <1>4 DEF NextBlock
  <2>3. CASE A = {}
    BY <2>1, <2>2, <2>3, AsksNothing, QueueStutters DEF queue
  <2>4. CASE A # {}
    <3>1. A = Covers(Targeted(A)) \cup Demand({})
      BY RequestCovers
    <3>2. QED
      BY <1>1, <2>1, <2>2, <2>4, <3>1, RequestTypes, RequestSyncServes
  <2>5. QED
    BY <2>3, <2>4
<1>5. CASE Reorganise
  <2>1. CASE syncPromise = NoOp
    <3>1. /\ record' \in Record
          /\ RequestSync(FullSync, {},
                         IF record.mark = "none" THEN status ELSE "stale",
                         record', connected)
          /\ UNCHANGED <<generation, pendingReorg>>
      BY <1>1, <1>5, <2>1, StaleType DEF Reorganise
    <3>2. Asks(Everything) /\ Everything = Covers(FullSync) \cup Demand({})
      BY <1>5, RequestCovers DEF Reorganise
    <3>3. QED
      BY <3>1, <3>2, RequestTypes, RequestSyncServes
  <2>2. CASE syncPromise # NoOp
    <3>1. /\ pendingReorg' = TRUE /\ UNCHANGED <<generation, syncPromise, op, dirty>>
          /\ asked' = asked \cup Everything
      BY <1>5, <2>2 DEF Reorganise, Asks
    <3>2. Wanted' = Wanted \cup Everything /\ Doing' = Doing
      BY <3>1 DEF Wanted, Doing
    <3>3. AskedKept'
      BY <3>1, <3>2 DEF AskedKept
    <3>4. Service!Ask(Everything)
      BY <2>2, <3>1, <3>2 DEF Service!Ask
    <3>5. QED
      BY <3>3, <3>4 DEF KeepsService, Service!Next
  <2>3. QED
    BY <2>1, <2>2
<1>6. CASE Connect
  <2> DEFINE discovery == {a \in Live : Discovers(a)}
             extra == IF discovery = {} THEN {} ELSE {Discovery}
             announced == IF everConnected THEN {FullSync} ELSE {}
             N == Live \cup (IF everConnected \/ \E a \in Live : Discovers(a)
                             THEN Everything ELSE {})
  <2>1. Live \in SUBSET Address
    BY DEF IInv, TypeOK, Live, Op, Snapshot
  <2>2. extra \cup announced \in SUBSET Options
        /\ UNCHANGED <<generation, pendingReorg>> /\ Asks(N)
    BY <1>6, RequestTypes DEF Connect
  <2>3. CASE Live = {}
    <3>1. CASE announced = {}
      <4>1. N = {} /\ UNCHANGED <<status, syncPromise, op, dirty>>
        BY <1>6, <2>3, <3>1 DEF Connect
      <4>2. QED
        BY <2>2, <4>1, AsksNothing, QueueStutters DEF queue
    <3>2. CASE announced # {}
      <4>1. RequestSync(FullSync, {}, status, record, TRUE)
        BY <1>6, <2>3, <3>2 DEF Connect
      <4>2. N = Covers(FullSync) \cup Demand({})
        BY <2>3, <3>2, RequestCovers
      <4>3. QED
        BY <1>1, <2>2, <4>1, <4>2, RequestTypes, RequestSyncServes
    <3>3. QED
      BY <3>1, <3>2
  <2>4. CASE Live # {}
    <3>1. PICK a \in Live :
             RequestSync(Targeted({a}),
                         {Targeted({b}) : b \in Live \ {a}} \cup extra \cup announced,
                         status, record, TRUE)
      BY <1>6, <2>4 DEF Connect
    <3>2. /\ Targeted({a}) \in Options
          /\ {Targeted({b}) : b \in Live \ {a}} \cup extra \cup announced
               \in SUBSET Options
      BY <2>1, <2>2, RequestTypes
    <3>3. /\ Covers(Targeted({a})) = {a}
          /\ N = {a} \cup Demand({Targeted({b}) : b \in Live \ {a}} \cup extra
                                  \cup announced)
      <4>1. Demand({Targeted({b}) : b \in Live \ {a}}) = Live \ {a}
        BY TargetsCover
      <4>2. Demand(extra \cup announced) =
               IF everConnected \/ \E b \in Live : Discovers(b)
               THEN Everything ELSE {}
        BY RequestCovers DEF Demand
      <4>3. Live = {a} \cup (Live \ {a})
        OBVIOUS
      <4>4. Demand({Targeted({b}) : b \in Live \ {a}} \cup extra \cup announced) =
               Demand({Targeted({b}) : b \in Live \ {a}}) \cup Demand(extra \cup announced)
        BY DEF Demand
      <4>5. QED
        BY <4>1, <4>2, <4>3, <4>4, RequestCovers
    <3> HIDE DEF N
    <3>4. QED
      BY <1>1, <2>2, <3>1, <3>2, <3>3, RequestSyncServes
  <2>5. QED
    BY <2>3, <2>4
<1>7. QED
  BY <1>2, <1>3, <1>4, <1>5, <1>6

LEMMA AddressEventServes ==
    ASSUME IInv, AskedKept, NEW a \in Address, ChainActivity(a) \/ IndexAddress(a)
    PROVE  KeepsService
<1>1. Notify(a) /\ UNCHANGED <<generation, pendingReorg>>
  BY DEF ChainActivity, IndexAddress
<1>2. CASE connected /\ a \in Live
  <2> DEFINE rest == IF Discovers(a) THEN {Discovery} ELSE {}
             N == {a} \cup (IF Discovers(a) THEN Everything ELSE {})
  <2>1. RequestSync(Targeted({a}), rest, status, record, connected) /\ Asks(N)
    BY <1>1, <1>2 DEF Notify
  <2>2. /\ Targeted({a}) \in Options /\ record \in Record
        /\ rest \in SUBSET Options
    BY RequestTypes DEF IInv, TypeOK
  <2>3. Covers(Targeted({a})) = {a} /\ N = {a} \cup Demand(rest)
    BY RequestCovers DEF Demand
  <2> HIDE DEF N, rest
  <2>4. QED
    BY <1>1, <2>1, <2>2, <2>3, RequestSyncServes
<1>3. CASE ~ (connected /\ a \in Live)
  BY <1>1, <1>3, QueueStutters DEF Notify
<1>4. QED
  BY <1>2, <1>3

LEMMA SyncServes ==
    ASSUME IInv, AskedKept, NEW g \in Generation, SyncStep(g)
    PROVE  KeepsService
<1>1. /\ g \in OpId /\ op \in [OpId -> Op] /\ op[g] \in Op /\ record \in Record
      /\ Fresh(op[g].snap) \in Record
  BY OpSnapType DEF OpId, IInv, TypeOK
<1>2. CASE SyncConnected(g)
  <2> DEFINE targeted == IsTargeted(g)
             r == [op[g] EXCEPT !.stage = "reading", !.targeted = targeted,
                     !.snap = IF targeted THEN record.snap ELSE ScanBase(record.snap),
                     !.todo = IF targeted THEN Targets(g)
                              ELSE ScanStart(record.snap)]
  <2>1. /\ op' = [op EXCEPT ![g] = r]
        /\ UNCHANGED <<generation, syncPromise, dirty, pendingReorg, asked>>
    BY <1>1, <1>2 DEF SyncConnected
  <2>2. r.full = op[g].full /\ r.only = op[g].only
    BY <1>1 DEF Op
  <2> HIDE DEF r
  <2>3. QED
    BY <1>1, <2>1, <2>2, StageServes
<1>3. CASE SyncHidden(g) \/ ReadMismatch(g)
  <2>1. /\ Settle(g, status, record, {}) /\ op[g].stage # "idle"
        /\ generation' = generation
    BY <1>3 DEF SyncHidden, ReadMismatch, AllRead
  <2>2. QED
    BY <1>1, <2>1, SettleServes
<1>4. CASE SyncRead(g)
  <2>1. op[g].stage # "idle" /\ generation' = generation
    BY <1>4 DEF SyncRead, AllRead
  <2>2. CASE op[g].targeted
    <3>1. Settle(g, "ready", Fresh(op[g].snap), {})
      BY <1>4, <2>2 DEF SyncRead
    <3>2. QED
      BY <1>1, <2>1, <3>1, SettleServes
  <2>3. CASE ~ op[g].targeted
    <3> DEFINE r == [op[g] EXCEPT !.stage = "installing", !.todo = op[g].snap.known]
    <3>1. /\ op' = [op EXCEPT ![g] = r]
          /\ UNCHANGED <<generation, syncPromise, dirty, pendingReorg, asked>>
      BY <1>1, <1>4, <2>3 DEF SyncRead
    <3>2. r.full = op[g].full /\ r.only = op[g].only
      BY <1>1 DEF Op
    <3> HIDE DEF r
    <3>3. QED
      BY <1>1, <3>1, <3>2, StageServes
  <2>4. QED
    BY <2>2, <2>3
<1>5. CASE SyncUnknown(g)
  <2>1. /\ Settle(g, IF record.mark = "none" THEN "error" ELSE "stale",
                  Stale(record, "network-error"), {})
        /\ op[g].stage # "idle" /\ generation' = generation
    BY <1>5 DEF SyncUnknown, Connecting, SettleFailed
  <2>2. QED
    BY <1>1, <2>1, StaleType, SettleServes
<1>6. QED
  BY <1>2, <1>3, <1>4, <1>5 DEF SyncStep

LEMMA OperationServes ==
    ASSUME IInv, AskedKept, NEW i \in OpId, OperationStep(i) \/ BroadcastFails(i)
    PROVE  KeepsService
<1>1. /\ op \in [OpId -> Op] /\ op[i] \in Op /\ record \in Record
      /\ Fresh(op[i].snap) \in Record
  BY OpSnapType DEF IInv, TypeOK
<1>2. ASSUME NEW a \in Address, ReadAddress(i, a) PROVE KeepsService
  <2> DEFINE s == [op[i].snap EXCEPT !.known = @ \cup {a},
                                     !.version[a] = version[a],
                                     !.txs[a] = shown[a]]
             further == Behind(i, s, a)
             r == [op[i] EXCEPT !.snap = s, !.todo = (@ \cup further) \ {a}]
  <2>1. /\ op' = [op EXCEPT ![i].snap = s, ![i].todo = (@ \cup further) \ {a}]
        /\ UNCHANGED <<generation, syncPromise, dirty, pendingReorg, asked>>
    BY <1>2 DEF ReadAddress
  <2> HIDE DEF s, further
  <2>2. op' = [op EXCEPT ![i] = r] /\ r.full = op[i].full /\ r.only = op[i].only
    BY <1>1, <2>1 DEF Op
  <2> HIDE DEF r
  <2>3. QED
    BY <2>1, <2>2, StageServes
<1>3. ASSUME NEW a \in Address, SubscribeAddress(i, a) PROVE KeepsService
  <2> DEFINE r == [op[i] EXCEPT !.todo = @ \ {a}]
  <2>1. /\ op' = [op EXCEPT ![i] = r] /\ UNCHANGED <<generation, syncPromise, dirty, pendingReorg, asked>>
    BY <1>1, <1>3 DEF SubscribeAddress
  <2>2. r.full = op[i].full /\ r.only = op[i].only
    BY <1>1 DEF Op
  <2> HIDE DEF r
  <2>3. QED
    BY <2>1, <2>2, StageServes
<1>4. CASE Installed(i)
  <2>1. /\ Settle(i, "ready", Fresh(op[i].snap), {}) /\ op[i].stage # "idle"
        /\ generation' = generation
    BY <1>4 DEF Installed
  <2>2. QED
    BY <1>1, <2>1, SettleServes
<1>5. CASE OperationFails(i)
  <2>1. /\ Settle(i, IF record.mark = "none" THEN "error" ELSE "stale",
                  Stale(record, "network-error"), {})
        /\ op[i].stage # "idle" /\ generation' = generation
    BY <1>5 DEF OperationFails, SettleFailed
  <2>2. QED
    BY <1>1, <2>1, StaleType, SettleServes
<1>6. CASE Abandon(i) \/ BroadcastFails(i)
  <2>1. /\ Settle(i, status, record, {}) /\ op[i].stage # "idle"
        /\ generation' = generation
    BY <1>6 DEF Abandon, BroadcastFails
  <2>2. QED
    BY <1>1, <2>1, SettleServes
<1>7. QED
  BY <1>2, <1>3, <1>4, <1>5, <1>6 DEF OperationStep

LEMMA CallStepServes ==
    ASSUME IInv, AskedKept, NEW c \in Caller, CallStep(c)
    PROVE  KeepsService
<1>1. /\ c \in OpId /\ op \in [OpId -> Op] /\ op[c] \in Op /\ record \in Record
      /\ status \in Status /\ connected \in BOOLEAN
      /\ Fresh(op[c].snap) \in Record
  BY OpSnapType DEF OpId, IInv, TypeOK
<1>2. CASE \/ \E want \in Wants \ {"refresh"} : CallController(c, want)
           \/ Admit(c) \/ RejectBroadcast(c) \/ RejectTrack(c) \/ RejectRecovery(c)
  <2>1. UNCHANGED <<generation, queue>>
    BY <1>2 DEF CallController, Admit, RejectBroadcast, RejectTrack, RejectRecovery
  <2>2. QED
    BY <2>1, QueueStutters
<1>3. CASE Track(c)
  <2>1. PICK A \in SUBSET Address :
             RequestSync(Targeted(A), {}, status, record, connected) /\ Asks(A)
    BY <1>3 DEF Track
  <2>2. UNCHANGED <<generation, pendingReorg>>
    BY <1>3 DEF Track
  <2>3. A = Covers(Targeted(A)) \cup Demand({})
    BY RequestCovers
  <2>4. QED
    BY <1>1, <2>1, <2>2, <2>3, RequestTypes, RequestSyncServes
<1>4. CASE StartRecovery(c)
  BY <1>4, CallServes DEF StartRecovery
<1>5. ASSUME NEW t \in WalletTx, StartBroadcast(c, t) PROVE KeepsService
  BY <1>5, CallServes DEF StartBroadcast
<1>6. ASSUME NEW a \in Address, RecoveryConnected(c, a) PROVE KeepsService
  <2> DEFINE s == IF record.mark = "none"
                  THEN [EmptySnapshot EXCEPT !.session = generation] ELSE record.snap
             r == [op[c] EXCEPT !.stage = "reading", !.snap = s, !.todo = {a}]
  <2>1. /\ op' = [op EXCEPT ![c] = r] /\ UNCHANGED <<generation, syncPromise, dirty, pendingReorg, asked>>
    BY <1>1, <1>6 DEF RecoveryConnected
  <2>2. r.full = op[c].full /\ r.only = op[c].only
    BY <1>1 DEF Op
  <2> HIDE DEF r
  <2>3. QED
    BY <1>1, <2>1, <2>2, StageServes
<1>7. CASE RecoveryRead(c)
  <2> DEFINE r == [op[c] EXCEPT !.stage = "installing", !.todo = op[c].snap.known]
  <2>1. /\ op' = [op EXCEPT ![c] = r] /\ UNCHANGED <<generation, syncPromise, dirty, pendingReorg, asked>>
    BY <1>1, <1>7 DEF RecoveryRead
  <2>2. r.full = op[c].full /\ r.only = op[c].only
    BY <1>1 DEF Op
  <2> HIDE DEF r
  <2>3. QED
    BY <1>1, <2>1, <2>2, StageServes
<1>8. CASE Relay(c)
  <2> DEFINE r == [op[c] EXCEPT !.stage = "sent"]
  <2>1. /\ op' = [op EXCEPT ![c] = r] /\ UNCHANGED <<generation, syncPromise, dirty, pendingReorg, asked>>
    BY <1>8 DEF Relay
  <2>2. r.full = op[c].full /\ r.only = op[c].only
    BY <1>1 DEF Op
  <2> HIDE DEF r
  <2>3. QED
    BY <1>1, <2>1, <2>2, StageServes
<1>9. CASE BroadcastAccepted(c)
  <2> DEFINE t == op[c].tx
             addresses == Touches(t) \cup (IF Original[t] = NoTx THEN {}
                                           ELSE Touches(Original[t]))
  <2>1. /\ t \in WalletTx /\ op[c].stage # "idle" /\ generation' = generation
        /\ Settle(c, "ready", Fresh(op[c].snap), {Targeted(addresses)})
    BY <1>1, <1>9 DEF BroadcastAccepted, IInv, OpInv
  <2>2. addresses \in SUBSET Address
    BY <2>1, ConstantsAssumption DEF Touches
  <2>3. {Targeted(addresses)} \in SUBSET Options
    BY <2>2, RequestTypes
  <2> HIDE DEF addresses
  <2>4. QED
    BY <1>1, <2>1, <2>3, SettleServes
<1>10. CASE BroadcastFails(c)
  BY <1>1, <1>10, OperationServes
<1>11. QED
  BY <1>2, <1>3, <1>4, <1>5, <1>6, <1>7, <1>8, <1>9, <1>10 DEF CallStep

LEMMA NextServes == IInv /\ AskedKept /\ [Next]_vars => KeepsService
<1> SUFFICES ASSUME IInv, AskedKept, [Next]_vars PROVE KeepsService
  OBVIOUS
<1>1. CASE Stop \/ Start
  BY <1>1, SessionServes
<1>2. CASE Refresh
  BY <1>2, RequestersServe
<1>3. ASSUME NEW g \in Generation, SyncStep(g) PROVE KeepsService
  BY <1>3, SyncServes
<1>4. ASSUME NEW i \in OpId, OperationStep(i) PROVE KeepsService
  BY <1>4, OperationServes
<1>5. ASSUME NEW c \in Caller, CallStep(c) PROVE KeepsService
  BY <1>5, CallStepServes
<1>6. CASE ClientEvent
  <2>1. CASE \/ \E t \in WalletTx : Confirm(t)
             \/ LoseConnection
    <3>1. UNCHANGED <<generation, queue>>
      BY <2>1 DEF Confirm, LoseConnection
    <3>2. QED
      BY <3>1, QueueStutters
  <2>2. CASE \E a \in Address : ChainActivity(a) \/ IndexAddress(a)
    BY <2>2, AddressEventServes
  <2>3. CASE NextBlock \/ Reorganise \/ Connect \/ RetryReconciliation
    BY <2>3, RequestersServe
  <2>4. QED
    BY <1>6, <2>1, <2>2, <2>3 DEF ClientEvent
<1>7. CASE UNCHANGED vars
  BY <1>7, QueueStutters DEF vars, queue
<1>8. QED
  BY <1>1, <1>2, <1>3, <1>4, <1>5, <1>6, <1>7 DEF Next

LEMMA InitServes == Init => Service!Init /\ AskedKept
BY ConstantsAssumption DEF Init, Service!Init, Doing, AskedKept

\* Merging, deferring and draining requests, the reorganisation flag and the
\* request a broadcast leaves behind lose nothing (requestSync, trackOperation,
\* drainPendingWork, handleBlockHeight): what a signal asked to have read is
\* covered by the sync that begins at once or by the very next one, unless
\* the session ends.
THEOREM Refinement == Spec => ImplementsService
<1>1. IInv /\ AskedKept /\ [Next]_vars => [Service!Next]_(Service!vars) /\ AskedKept'
  BY NextServes DEF KeepsService
<1>2. Spec => Service!Init /\ [][Service!Next]_(Service!vars)
  BY <1>1, InitServes, Invariance, PTL DEF Spec
<1>3. QED
  BY <1>2 DEF ImplementsService, Service!Spec
=============================================================================
