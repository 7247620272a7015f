------------------ MODULE WalletNetworkControllerSignals ------------------
(***************************************************************************)
(* Theorems about what the record of WalletNetworkController holds, for    *)
(* every value of its constants.                                           *)
(*                                                                         *)
(* The code counts on one operation of a session at a time: syncPromise    *)
(* names it (Tracked), so that what it reads, projects or installs is of   *)
(* the record that it found.  OneOperation says when that is so.  The      *)
(* other theorems take it as a hypothesis, and beside it name, as actions  *)
(* that do not happen, the steps after which the code forgets a change:    *)
(* RecoversPending, Missed and LostAnswer.                                 *)
(*                                                                         *)
(* The argument follows an address that lags behind what was signalled or  *)
(* is shown of it (Lag): a request, an operation or the retry of the       *)
(* pending broadcast covers it until it has been read (Covered).           *)
(***************************************************************************)
EXTENDS WalletNetworkControllerProofs

(***************************************************************************)
(* One operation at a time                                                 *)
(***************************************************************************)
\* An operation of the session that runs, and one that has a snapshot.
Running(i) == op[i].stage # "idle" /\ Current(i)
Holding(i) == op[i].stage \notin {"idle", "connecting"} /\ Current(i)

Tracked == \A i \in OpId : Running(i) => syncPromise = i

\* A call that may go on finds nothing in progress.
FoundIdle == \A c \in Caller : call[c].stage = "admitted" => syncPromise = NoOp

LEMMA HoldingRuns == \A i \in OpId : Holding(i) => Running(i)
BY DEF Holding, Running

LEMMA OpFacts ==
    IInv => /\ op \in [OpId -> Op] /\ generation \in Generation /\ generation \in OpId
            /\ generation # NoOp /\ dirty \in SUBSET Options
            /\ record \in Record /\ record.snap \in Snapshot
            /\ Generation \subseteq OpId /\ Caller \subseteq OpId
            /\ Caller \cap Generation = {} /\ NoOp \notin OpId
BY GenerationIsOp, ConstantsAssumption DEF IInv, TypeOK, OpId, Record

\* What is asked for is covered from then on, by the operation that begins
\* or by the queue, and no operation that holds a snapshot is disturbed.
LEMMA RequestFacts ==
    ASSUME IInv, Tracked, generation' = generation,
           NEW first \in Options, NEW rest \in SUBSET Options,
           NEW st, NEW r \in Record, NEW up, pendingReorg' = pendingReorg,
           RequestSync(first, rest, st, r, up)
    PROVE  /\ Tracked'
           /\ \A i \in OpId : Holding(i)' <=> Holding(i)
           /\ \A i \in OpId : Holding(i) => op'[i] = op[i]
           /\ Doing \cup Wanted \cup Covers(first) \cup Demand(rest) \subseteq Doing' \cup Wanted'
           /\ Wanted \subseteq Wanted'
           /\ syncPromise # NoOp => Covers(first) \cup Demand(rest) \subseteq Wanted'
<1>1. /\ dirty \in SUBSET Options /\ generation \in Generation
      /\ op \in [OpId -> Op] /\ generation \in OpId /\ generation # NoOp
  BY OpFacts
<1>2. CASE syncPromise # NoOp
  <2>1. /\ dirty' = Deferred(dirty \cup {first} \cup rest)
        /\ syncPromise' = syncPromise /\ op' = op
    BY <1>2 DEF RequestSync
  <2>2. Demand(dirty') = Demand(dirty) \cup Covers(first) \cup Demand(rest)
    <3>1. Demand(dirty') = Demand(dirty \cup {first} \cup rest)
      BY <1>1, <2>1, MergeCovers
    <3>2. Demand(dirty \cup {first} \cup rest) =
             Demand(dirty) \cup Covers(first) \cup Demand(rest)
      BY DEF Demand
    <3>3. QED
      BY <3>1, <3>2
  <2>3. Wanted' = Wanted \cup Covers(first) \cup Demand(rest) /\ Doing' = Doing
    BY <2>1, <2>2 DEF Wanted, Doing, Demand
  <2>4. /\ Tracked'
        /\ \A i \in OpId : Holding(i)' <=> Holding(i)
        /\ \A i \in OpId : Holding(i) => op'[i] = op[i]
    BY <2>1 DEF Tracked, Running, Holding, Current
  <2>5. QED
    BY <2>3, <2>4
<1>3. CASE syncPromise = NoOp
  <2>1. /\ dirty' = Deferred(dirty \cup rest)
        /\ syncPromise' = generation
        /\ op' = [op EXCEPT ![generation] = Launched(first, r)]
    BY <1>3 DEF RequestSync
  <2>2. dirty = {} /\ pendingReorg = FALSE
    BY <1>3 DEF IInv, NoForgottenWork, TypeOK
  <2>3. Wanted = {} /\ Wanted' = Demand(rest)
    <3>1. Demand(dirty') = Demand(rest)
      BY <1>1, <2>1, <2>2, MergeCovers
    <3>2. QED
      BY <2>2, <3>1 DEF Wanted, Demand
  <2>4. /\ op'[generation] = Launched(first, r)
        /\ \A i \in OpId : i # generation => op'[i] = op[i]
        /\ Launched(first, r).full = first.full
        /\ Launched(first, r).only = first.only
        /\ Launched(first, r).stage = "connecting"
    BY <1>1, <2>1, LaunchedType
  <2>5. Doing' = Covers(first) /\ Doing = {}
    BY <1>1, <1>3, <2>1, <2>4, ConstantsAssumption DEF Doing, Covers
  <2>6. \A i \in OpId : ~ Running(i)
    BY <1>3, OpFacts DEF Tracked
  <2>7. \A i \in OpId : i # generation => ~ Running(i)'
    BY <2>4, <2>6 DEF Running, Current
  <2>8. Tracked'
    BY <2>1, <2>7 DEF Tracked
  <2>9. ~ Holding(generation)'
    BY <2>4 DEF Holding
  <2>10. \A i \in OpId : ~ Holding(i)' /\ ~ Holding(i)
    BY <2>6, <2>7, <2>9 DEF Holding, Running
  <2>11. QED
    BY <1>3, <2>3, <2>5, <2>8, <2>10
<1>4. QED
  BY <1>2, <1>3

\* The end of the operation of the session leaves nothing in hand, and what
\* the queue and the caller want is covered by what follows.
LEMMA SettleFacts ==
    ASSUME IInv, Tracked, generation' = generation,
           NEW i \in OpId, Running(i),
           NEW st, NEW r \in Record, NEW after \in SUBSET Options,
           \A o, p \in after : o = p,
           Settle(i, st, r, after)
    PROVE  /\ Tracked'
           /\ \A j \in OpId : ~ Holding(j)'
           /\ Wanted \cup Demand(after) \subseteq Doing' \cup Wanted'
           /\ record'.snap = r.snap
           /\ record'.mark = "none" <=> r.mark = "none"
<1> DEFINE next == IF pendingReorg THEN {FullSync}
                   ELSE IF dirty # {} THEN dirty ELSE after
           kept == IF pendingReorg THEN dirty \cup after
                   ELSE IF dirty # {} THEN after ELSE {}
           rec2 == IF pendingReorg THEN Stale(r, "reorg") ELSE r
<1>1. /\ dirty \in SUBSET Options /\ generation \in Generation
      /\ op \in [OpId -> Op] /\ generation \in OpId
      /\ generation # NoOp /\ i # NoOp /\ syncPromise = i
      /\ \A j \in OpId : j # i => ~ Running(j)
  BY OpFacts DEF Tracked
<1>2. /\ pendingReorg' = FALSE /\ dirty' = Deferred(kept) /\ record' = rec2
      /\ \/ /\ next = {} /\ syncPromise' = NoOp /\ op' = [op EXCEPT ![i] = IdleOp]
         \/ \E o \in next :
            /\ syncPromise' = generation
            /\ op' = [op EXCEPT ![i] = IdleOp, ![generation] = Launched(o, rec2)]
  BY <1>1 DEF Settle, Drain
<1>3. /\ rec2 \in Record /\ rec2.snap = r.snap
      /\ rec2.mark = "none" <=> r.mark = "none"
  BY StaleType
<1>4. next \in SUBSET Options /\ kept \in SUBSET Options
  BY <1>1, RequestTypes
<1>5. Wanted' = Demand(kept)
  <2>1. Demand(dirty') = Demand(kept)
    BY <1>2, <1>4, MergeCovers
  <2>2. QED
    BY <1>2, <2>1 DEF Wanted, Demand
<1>6. Demand(next) \cup Demand(kept) = Wanted \cup Demand(after)
  <2>1. CASE pendingReorg
    <3>1. next = {FullSync} /\ kept = dirty \cup after
      BY <2>1
    <3>2. Covers(FullSync) = Everything
      BY DEF Covers, FullSync
    <3>3. Demand(next) = Everything /\ Demand(kept) = Demand(dirty) \cup Demand(after)
      BY <3>1, <3>2 DEF Demand
    <3>4. Demand(after) \in SUBSET Everything
      BY DemandBound
    <3>5. QED
      BY <2>1, <3>3, <3>4 DEF Wanted
  <2>2. CASE ~ pendingReorg
    BY <2>2, DemandFacts DEF Wanted, Demand
  <2>3. QED
    BY <2>1, <2>2
<1>7. CASE next = {} /\ syncPromise' = NoOp /\ op' = [op EXCEPT ![i] = IdleOp]
  <2>1. op'[i] = IdleOp /\ \A j \in OpId : j # i => op'[j] = op[j]
    BY <1>1, <1>7, IdleOpType
  <2>2. \A j \in OpId : ~ Running(j)'
    BY <1>1, <2>1 DEF Running, Current, IdleOp
  <2>3. Demand(next) = {}
    BY <1>7, DemandFacts
  <2>4. QED
    BY <1>2, <1>3, <1>5, <1>6, <2>2, <2>3 DEF Tracked, Holding, Running
<1>8. ASSUME NEW o \in next, syncPromise' = generation,
             op' = [op EXCEPT ![i] = IdleOp, ![generation] = Launched(o, rec2)]
      PROVE  /\ Tracked' /\ \A j \in OpId : ~ Holding(j)'
             /\ Wanted \cup Demand(after) \subseteq Doing' \cup Wanted'
  <2>1. o \in Options
    BY <1>4
  <2> HIDE DEF next, kept, rec2
  <2>2. /\ Launched(o, rec2).full = o.full
        /\ Launched(o, rec2).only = o.only
        /\ Launched(o, rec2).stage = "connecting"
        /\ Launched(o, rec2) \in Op
    BY <1>1, <1>3, <2>1, LaunchedType
  <2>3. /\ op'[generation] = Launched(o, rec2)
        /\ \A j \in OpId : j # generation => op'[j] = IF j = i THEN IdleOp ELSE op[j]
    BY <1>1, <1>8
  <2>4. \A j \in OpId : j # generation => ~ Running(j)'
    BY <1>1, <2>3 DEF Running, Current, IdleOp
  <2>5. ~ Holding(generation)'
    BY <2>2, <2>3 DEF Holding
  <2>6. Doing' = Covers(o)
    BY <1>1, <1>8, <2>2, <2>3 DEF Doing, Covers
  <2>7. Demand(next) = Covers(o)
    <3>1. next = {o}
      BY DEF IInv, OneDeferred, next
    <3>2. QED
      BY <3>1, DemandFacts
  <2>8. Tracked'
    BY <1>8, <2>4 DEF Tracked
  <2>9. \A j \in OpId : ~ Holding(j)'
    BY <2>4, <2>5 DEF Holding, Running
  <2>10. QED
    BY <1>5, <1>6, <2>6, <2>7, <2>8, <2>9
<1>9. QED
  BY <1>2, <1>3, <1>7, <1>8

\* A call that is under way has not started its operation.
CallIdle == \A c \in Caller : call[c].stage # "none" => op[c].stage = "idle"

SameRecord == /\ record'.snap = record.snap
              /\ record'.mark = "none" <=> record.mark = "none"
SamePending == /\ pending'.tx = pending.tx
               /\ pending'.addresses = pending.addresses

\* A step that disturbs no operation in hand and takes back no request.
Calm ==
    /\ \A i \in OpId : Holding(i)' <=> Holding(i)
    /\ \A i \in OpId : Holding(i) => op'[i] = op[i]
    /\ SameRecord /\ SamePending
    /\ generation' = generation /\ listening' = listening
    /\ Doing \cup Wanted \subseteq Doing' \cup Wanted'
    /\ Wanted \subseteq Wanted'

LEMMA CalmQueue ==
    ASSUME Tracked, SamePending,
           UNCHANGED <<generation, syncPromise, dirty, pendingReorg, op, record,
                       listening>>
    PROVE  Tracked' /\ Calm
BY DEF Tracked, Running, Calm, Holding, Current, SameRecord, SamePending, Doing,
       Wanted

LEMMA CalmRequest ==
    ASSUME IInv, Tracked, generation' = generation, listening' = listening,
           SameRecord, SamePending,
           NEW first \in Options, NEW rest \in SUBSET Options,
           NEW st, NEW r \in Record, NEW up, pendingReorg' = pendingReorg,
           RequestSync(first, rest, st, r, up)
    PROVE  Tracked' /\ Calm
<1>1. /\ Tracked'
      /\ \A i \in OpId : Holding(i)' <=> Holding(i)
      /\ \A i \in OpId : Holding(i) => op'[i] = op[i]
      /\ Doing \cup Wanted \subseteq Doing' \cup Wanted'
      /\ Wanted \subseteq Wanted'
  BY RequestFacts
<1>2. QED
  BY <1>1 DEF Calm

LEMMA ResetKeeps ==
    ASSUME pending \in Pending, NEW A
    PROVE  /\ ResetRetries(A).tx = pending.tx
           /\ ResetRetries(A).addresses = pending.addresses
BY DEF ResetRetries, Pending

\* What a user's request, a timer, a block or a poll asks for.
LEMMA RequestsCalm ==
    ASSUME IInv, Tracked, Refresh \/ RetryReconciliation \/ NextBlock
    PROVE  Tracked' /\ Calm
<1>1. /\ record \in Record /\ pending \in Pending
      /\ pending.addresses \in SUBSET Address
      /\ record.snap.known \in SUBSET Address
  BY DEF IInv, TypeOK, Pending, Record, Snapshot
<1>2. /\ UNCHANGED <<generation, listening, record, pendingReorg>>
      /\ SameRecord /\ SamePending
  BY <1>1 DEF Refresh, RetryReconciliation, NextBlock, reconciliation, SameRecord,
     SamePending, Pending
<1>3. CASE Refresh
  BY <1>1, <1>2, <1>3, RequestTypes, CalmRequest DEF Refresh
<1>4. CASE RetryReconciliation
  BY <1>1, <1>2, <1>4, RequestTypes, CalmRequest DEF RetryReconciliation
<1>5. CASE NextBlock
  <2>1. PICK A \in SUBSET Address :
             IF A = {} THEN UNCHANGED <<status, syncPromise, op, dirty>>
             ELSE RequestSync(Targeted(A), {}, status, record, connected)
    BY <1>1, <1>5 DEF NextBlock
  <2>2. CASE A = {}
    BY <1>2, <2>1, <2>2, CalmQueue
  <2>3. CASE A # {}
    BY <1>1, <1>2, <2>1, <2>3, RequestTypes, CalmRequest
  <2>4. QED
    BY <2>2, <2>3
<1>6. QED
  BY <1>3, <1>4, <1>5

LEMMA TrackCalm ==
    ASSUME IInv, Tracked, NEW c \in Caller, Track(c)
    PROVE  Tracked' /\ Calm
<1>1. PICK A \in SUBSET Address :
           RequestSync(Targeted(A), {}, status, record, connected)
  BY DEF Track
<1>2. /\ UNCHANGED <<generation, listening, record, pendingReorg>>
      /\ SameRecord /\ SamePending /\ record \in Record
  BY DEF Track, reconciliation, SameRecord, SamePending, IInv, TypeOK
<1>3. QED
  BY <1>1, <1>2, RequestTypes, CalmRequest

\* The signal of an address: the request for it is covered.
LEMMA NotifyCalm ==
    ASSUME IInv, Tracked, NEW a \in Address, Notify(a),
           UNCHANGED <<generation, listening, record, pendingReorg>>
    PROVE  /\ Tracked' /\ Calm
           /\ connected /\ a \in Live => /\ a \in Doing' \cup Wanted'
                                         /\ syncPromise # NoOp => a \in Wanted'
<1>1. record \in Record /\ pending \in Pending /\ SameRecord
  BY DEF IInv, TypeOK, SameRecord
<1>2. CASE connected /\ a \in Live
  <2> DEFINE rest == IF Discovers(a) THEN {Discovery} ELSE {}
  <2>1. /\ pending' = ResetRetries({a})
        /\ RequestSync(Targeted({a}), rest, status, record, connected)
    BY <1>2 DEF Notify
  <2>2. Targeted({a}) \in Options /\ rest \in SUBSET Options /\ a \in Covers(Targeted({a}))
    BY RequestTypes DEF Covers, Targeted
  <2>3. SamePending
    BY <1>1, <2>1, ResetKeeps DEF SamePending
  <2> HIDE DEF rest
  <2>4. Tracked' /\ Calm
    BY <1>1, <2>1, <2>2, <2>3, CalmRequest
  <2>5. /\ Doing \cup Wanted \cup Covers(Targeted({a})) \cup Demand(rest)
              \subseteq Doing' \cup Wanted'
        /\ syncPromise # NoOp => Covers(Targeted({a})) \cup Demand(rest) \subseteq Wanted'
    BY <1>1, <2>1, <2>2, RequestFacts
  <2>6. QED
    BY <2>2, <2>4, <2>5
<1>3. CASE ~ (connected /\ a \in Live)
  <2>1. UNCHANGED <<queue, pending>>
    BY <1>3 DEF Notify
  <2>2. QED
    BY <1>1, <1>3, <2>1, CalmQueue DEF SamePending, queue
<1>4. QED
  BY <1>2, <1>3

\* A reorganisation and a reconnection ask for everything.
LEMMA ReorganiseCalm ==
    ASSUME IInv, Tracked, Reorganise
    PROVE  /\ Tracked' /\ Calm
           /\ Everything \subseteq Doing' \cup Wanted'
           /\ syncPromise # NoOp => Everything \subseteq Wanted'
<1>1. /\ record \in Record /\ UNCHANGED <<generation, listening>>
      /\ SamePending /\ record' \in Record /\ SameRecord
  BY StaleType DEF Reorganise, reconciliation, SamePending, SameRecord, IInv, TypeOK, view
<1>2. Covers(FullSync) = Everything /\ FullSync \in Options
  BY RequestTypes DEF Covers, FullSync
<1>3. CASE syncPromise = NoOp
  <2>1. /\ RequestSync(FullSync, {},
                       IF record.mark = "none" THEN status ELSE "stale",
                       record', connected)
        /\ pendingReorg' = pendingReorg
    BY <1>3 DEF Reorganise
  <2>2. Tracked' /\ Calm
    BY <1>1, <1>2, <2>1, CalmRequest
  <2>3. Doing \cup Wanted \cup Covers(FullSync) \cup Demand({}) \subseteq Doing' \cup Wanted'
    BY <1>1, <1>2, <2>1, RequestFacts
  <2>4. QED
    BY <1>2, <1>3, <2>2, <2>3
<1>4. CASE syncPromise # NoOp
  <2>1. pendingReorg' = TRUE /\ UNCHANGED <<view, syncPromise, op, dirty>>
    BY <1>4 DEF Reorganise
  <2>2. Wanted' = Wanted \cup Everything /\ Doing' = Doing
    BY <2>1 DEF Wanted, Doing
  <2>3. Tracked' /\ Calm
    BY <1>1, <2>1, <2>2 DEF Tracked, Running, Calm, Holding, Current
  <2>4. QED
    BY <2>2, <2>3
<1>5. QED
  BY <1>3, <1>4

LEMMA ConnectCalm ==
    ASSUME IInv, Tracked, Connect
    PROVE  /\ Tracked' /\ Calm
           /\ everConnected => /\ Everything \subseteq Doing' \cup Wanted'
                               /\ syncPromise # NoOp => Everything \subseteq Wanted'
<1> DEFINE discovery == {a \in Live : Discovers(a)}
           extra == IF discovery = {} THEN {} ELSE {Discovery}
           announced == IF everConnected THEN {FullSync} ELSE {}
<1>1. /\ record \in Record /\ UNCHANGED <<generation, listening, pendingReorg, record>>
      /\ SamePending /\ SameRecord
  BY ResetKeeps DEF Connect, SamePending, SameRecord, IInv, TypeOK
<1>2. Covers(FullSync) = Everything /\ FullSync \in Options
  BY RequestTypes DEF Covers, FullSync
<1>3. Live \in SUBSET Address
  BY DEF IInv, TypeOK, Live, Op, Snapshot
<1>4. CASE Live = {}
  <2>1. CASE announced = {}
    <3>1. UNCHANGED <<status, syncPromise, op, dirty>> /\ ~ everConnected
      BY <1>4, <2>1 DEF Connect
    <3>2. QED
      BY <1>1, <3>1, CalmQueue
  <2>2. CASE announced # {}
    <3>1. RequestSync(FullSync, {}, status, record, TRUE)
      BY <1>4, <2>2 DEF Connect
    <3>2. Tracked' /\ Calm
      BY <1>1, <1>2, <3>1, CalmRequest
    <3>3. /\ Doing \cup Wanted \cup Covers(FullSync) \cup Demand({}) \subseteq Doing' \cup Wanted'
          /\ syncPromise # NoOp => Covers(FullSync) \cup Demand({}) \subseteq Wanted'
      BY <1>1, <1>2, <3>1, RequestFacts
    <3>4. QED
      BY <1>2, <3>2, <3>3
  <2>3. QED
    BY <2>1, <2>2
<1>5. CASE Live # {}
  <2>1. PICK a \in Live :
           RequestSync(Targeted({a}),
                       {Targeted({b}) : b \in Live \ {a}} \cup extra \cup announced,
                       status, record, TRUE)
    BY <1>5 DEF Connect
  <2> DEFINE rest == {Targeted({b}) : b \in Live \ {a}} \cup extra \cup announced
  <2>2. Targeted({a}) \in Options /\ rest \in SUBSET Options
    BY <1>2, <1>3, RequestTypes
  <2>3. everConnected => Everything \subseteq Demand(rest)
    <3>1. everConnected => FullSync \in rest
      OBVIOUS
    <3> HIDE DEF rest
    <3>2. QED
      BY <1>2, <3>1 DEF Demand
  <2>4. RequestSync(Targeted({a}), rest, status, record, TRUE)
    BY <2>1
  <2> HIDE DEF rest
  <2>5. Tracked' /\ Calm
    BY <1>1, <2>2, <2>4, CalmRequest
  <2>6. /\ Doing \cup Wanted \cup Covers(Targeted({a})) \cup Demand(rest)
              \subseteq Doing' \cup Wanted'
        /\ syncPromise # NoOp => Covers(Targeted({a})) \cup Demand(rest) \subseteq Wanted'
    BY <1>1, <2>2, <2>4, RequestFacts
  <2>7. QED
    BY <2>3, <2>5, <2>6
<1>6. QED
  BY <1>4, <1>5

\* Steps that ask for nothing.
LEMMA EventsCalm ==
    ASSUME IInv, Tracked,
           \/ LoseConnection
           \/ \E t \in WalletTx : Confirm(t)
           \/ \E c \in Caller : \/ \E want \in Wants \ {"refresh"} : CallController(c, want)
                                \/ Admit(c) \/ RejectBroadcast(c)
                                \/ RejectTrack(c) \/ RejectRecovery(c)
           \/ UNCHANGED vars
    PROVE  Tracked' /\ Calm
<1>1. record \in Record
  BY DEF IInv, TypeOK
<1>2. /\ UNCHANGED <<generation, queue, listening>> /\ SamePending
      /\ record' = record \/ record' = Stale(record, "connection-lost")
  BY DEF LoseConnection, Confirm, CallController, Admit, RejectBroadcast, RejectTrack,
     RejectRecovery, vars, view, reconciliation, SamePending
<1>3. SameRecord
  BY <1>1, <1>2, StaleType DEF SameRecord
<1>4. Tracked' /\ Calm
  BY <1>2, <1>3 DEF Tracked, Running, Calm, Holding, Current, Doing, Wanted, queue,
     SamePending
<1>5. QED
  BY <1>4

\* An operation of an earlier session that ends disturbs nothing.
LEMMA AbandonCalm ==
    ASSUME IInv, Tracked, NEW i \in OpId, Abandon(i)
    PROVE  Tracked' /\ Calm
<1>1. /\ op \in [OpId -> Op] /\ generation \in OpId /\ generation \in Generation
      /\ NoOp \notin OpId
  BY OpFacts
<1>2. ~ Current(i) /\ syncPromise # i
  BY <1>1 DEF Abandon, IInv, NoForgottenWork
<1>3. /\ record' = record /\ op' = [op EXCEPT ![i] = IdleOp]
      /\ UNCHANGED <<syncPromise, dirty, pendingReorg, generation, pending, listening>>
  BY <1>2 DEF Abandon, Settle, reconciliation
<1>4. /\ op'[i] = IdleOp /\ \A j \in OpId : j # i => op'[j] = op[j]
  BY <1>1, <1>3
<1>5. \A j \in OpId : (Running(j)' <=> Running(j)) /\ (Holding(j)' <=> Holding(j))
  BY <1>2, <1>3, <1>4 DEF Running, Holding, Current, IdleOp
<1>6. \A j \in OpId : Holding(j) => op'[j] = op[j]
  BY <1>2, <1>4 DEF Holding
<1>7. Tracked'
  BY <1>3, <1>5 DEF Tracked
<1>8. syncPromise \in OpId => op'[syncPromise] = op[syncPromise]
  BY <1>2, <1>4
<1>9. Doing' = Doing /\ Wanted' = Wanted
  BY <1>3, <1>8 DEF Doing, Wanted, Covers, OpId
<1>10. QED
  BY <1>3, <1>5, <1>6, <1>7, <1>9 DEF Calm, SameRecord, SamePending

\* An operation of the session that ends without a snapshot.
Ended ==
    /\ Tracked' /\ \A i \in OpId : ~ Holding(i)'
    /\ SameRecord /\ SamePending
    /\ generation' = generation /\ listening' = listening
    /\ Wanted \subseteq Doing' \cup Wanted'

LEMMA ScheduleKeeps ==
    ASSUME pending \in Pending, ScheduleReconciliation
    PROVE  SamePending
BY DEF ScheduleReconciliation, Pending, SamePending

LEMMA EndsQuietly ==
    ASSUME IInv, Tracked, NEW i \in OpId,
           \/ OperationFails(i)
           \/ i \in Generation /\ (SyncUnknown(i) \/ SyncHidden(i) \/ ReadMismatch(i))
           \/ i \in Caller /\ BroadcastFails(i)
    PROVE  Ended
<1>1. record \in Record /\ Running(i) /\ pending \in Pending
  BY DEF IInv, TypeOK, Running, OperationFails, SyncUnknown, Connecting, SyncHidden,
     AllRead, ReadMismatch, BroadcastFails
<1>2. /\ UNCHANGED <<generation, listening>>
      /\ SamePending
  BY <1>1, ScheduleKeeps DEF OperationFails, SyncUnknown, SyncHidden, ReadMismatch,
     BroadcastFails, reconciliation, SamePending
<1>3. \E st : \E r \in Record : /\ Settle(i, st, r, {})
                                /\ r.snap = record.snap
                                /\ r.mark = "none" <=> record.mark = "none"
  BY <1>1, StaleType DEF OperationFails, SyncUnknown, SyncHidden, ReadMismatch,
     BroadcastFails, SettleFailed
<1>4. PICK st : \E r \in Record : /\ Settle(i, st, r, {})
                                  /\ r.snap = record.snap
                                  /\ r.mark = "none" <=> record.mark = "none"
  BY <1>3
<1>5. PICK r \in Record : /\ Settle(i, st, r, {})
                          /\ r.snap = record.snap
                          /\ r.mark = "none" <=> record.mark = "none"
  BY <1>4
<1> DEFINE after == {}
<1>6. /\ after \in SUBSET Options /\ \A o, p \in after : o = p
      /\ Settle(i, st, r, after) /\ generation' = generation
  BY <1>2, <1>5
<1> HIDE DEF after
<1>7. /\ Tracked'
      /\ \A j \in OpId : ~ Holding(j)'
      /\ Wanted \cup Demand(after) \subseteq Doing' \cup Wanted'
      /\ record'.snap = r.snap
      /\ record'.mark = "none" <=> r.mark = "none"
  BY <1>1, <1>6, SettleFacts
<1>8. QED
  BY <1>2, <1>5, <1>7 DEF Ended, SameRecord

\* An operation of the session that ends by publishing its snapshot.
LEMMA Publishes ==
    ASSUME IInv, Tracked, generation' = generation,
           NEW i \in OpId, Running(i),
           NEW after \in SUBSET Options, \A o, p \in after : o = p,
           Settle(i, "ready", Fresh(op[i].snap), after)
    PROVE  /\ Tracked' /\ \A j \in OpId : ~ Holding(j)'
           /\ Wanted \cup Demand(after) \subseteq Doing' \cup Wanted'
           /\ record'.snap = op[i].snap /\ record'.mark # "none"
<1> DEFINE r == Fresh(op[i].snap)
           st == "ready"
<1>1. /\ r \in Record /\ r.snap = op[i].snap /\ r.mark # "none"
      /\ Settle(i, st, r, after)
  BY OpSnapType DEF Fresh
<1> HIDE DEF r, st
<1>2. /\ Tracked'
      /\ \A j \in OpId : ~ Holding(j)'
      /\ Wanted \cup Demand(after) \subseteq Doing' \cup Wanted'
      /\ record'.snap = r.snap
      /\ record'.mark = "none" <=> r.mark = "none"
  BY <1>1, SettleFacts
<1>3. QED
  BY <1>1, <1>2

\* The operation of the session goes on to its next stage as r.
Turned(i, r) ==
    /\ Tracked' /\ op'[i] = r
    /\ \A j \in OpId : Holding(j)' <=> j = i
    /\ SameRecord /\ generation' = generation
    /\ Doing' = Doing /\ Wanted' = Wanted

LEMMA Turns ==
    ASSUME IInv, Tracked, NEW i \in OpId, Running(i), NEW r \in Op,
           op' = [op EXCEPT ![i] = r],
           r.gen = op[i].gen, r.stage \notin {"idle", "connecting"},
           r.full = op[i].full, r.only = op[i].only,
           UNCHANGED <<generation, record, syncPromise, dirty, pendingReorg>>
    PROVE  Turned(i, r)
<1>1. op \in [OpId -> Op] /\ syncPromise = i /\ \A j \in OpId : j # i => ~ Running(j)
  BY OpFacts DEF Tracked
<1>2. op'[i] = r /\ \A j \in OpId : j # i => op'[j] = op[j]
  BY OpUpdate, <1>1
<1>3. \A j \in OpId : j # i => ~ Running(j)' /\ ~ Holding(j)'
  BY <1>1, <1>2 DEF Running, Holding, Current
<1>4. Holding(i)'
  BY <1>2 DEF Holding, Current, Running
<1>5. Tracked'
  BY <1>1, <1>3 DEF Tracked
<1>6. Doing' = Doing /\ Wanted' = Wanted
  BY <1>1, <1>2 DEF Doing, Wanted, Covers
<1>7. QED
  BY <1>2, <1>3, <1>4, <1>5, <1>6 DEF Turned, SameRecord

\* What each step that goes on does to its operation.
LEMMA ConnectedTurn ==
    ASSUME IInv, Tracked, NEW g \in Generation, SyncConnected(g)
    PROVE  /\ g \in OpId /\ Turned(g, op'[g]) /\ listening' = listening /\ SamePending
           /\ op'[g].stage = "reading" /\ ~ op'[g].recovery
           /\ op'[g].full = op[g].full
           /\ op'[g].targeted = IsTargeted(g)
           /\ op'[g].snap = IF IsTargeted(g) THEN record.snap ELSE ScanBase(record.snap)
           /\ op'[g].todo = IF IsTargeted(g) THEN Targets(g) ELSE ScanStart(record.snap)
<1> DEFINE targeted == IsTargeted(g)
           snap == IF targeted THEN record.snap ELSE ScanBase(record.snap)
           todo == IF targeted THEN Targets(g) ELSE ScanStart(record.snap)
           r == [op[g] EXCEPT !.stage = "reading", !.targeted = targeted,
                              !.snap = snap, !.todo = todo]
<1>1. /\ g \in OpId /\ op \in [OpId -> Op] /\ op[g] \in Op
      /\ record.snap \in Snapshot /\ generation \in Generation
      /\ op[g].gen = generation /\ op[g].stage = "connecting" /\ ~ op[g].recovery
      /\ Running(g)
  BY OpFacts DEF OpId, SyncConnected, Connecting, Current, Running
<1>2. snap \in Snapshot /\ todo \in SUBSET Address /\ targeted \in BOOLEAN
  BY <1>1, ScanBaseType DEF Snapshot, SyncConnected, IsTargeted
<1>3. op' = [op EXCEPT ![g] = r]
  BY <1>1 DEF SyncConnected
<1> HIDE DEF targeted, snap, todo
<1>4. /\ r \in Op /\ r.stage = "reading" /\ r.gen = op[g].gen /\ r.snap = snap
      /\ r.todo = todo /\ r.targeted = targeted /\ r.recovery = op[g].recovery
      /\ r.full = op[g].full /\ r.only = op[g].only
  BY <1>1, <1>2 DEF Op, Stage
<1> HIDE DEF r
<1>5. /\ UNCHANGED <<generation, record, syncPromise, dirty, pendingReorg, listening>>
      /\ SamePending
  BY DEF SyncConnected, reconciliation, SamePending
<1>6. Turned(g, r)
  BY <1>1, <1>3, <1>4, <1>5, Turns
<1>7. op'[g] = r
  BY <1>6 DEF Turned
<1>8. QED
  BY <1>1, <1>4, <1>5, <1>6, <1>7 DEF targeted, snap, todo

LEMMA ReadTurn ==
    ASSUME IInv, Tracked, NEW i \in OpId, NEW a \in Address, ReadAddress(i, a)
    PROVE  /\ Turned(i, op'[i]) /\ listening' = listening /\ SamePending
           /\ op'[i].stage = "reading" /\ op'[i].recovery = op[i].recovery
           /\ op'[i].full = op[i].full /\ op'[i].targeted = op[i].targeted
           /\ op'[i].snap.known = op[i].snap.known \cup {a}
           /\ op'[i].snap.version = [op[i].snap.version EXCEPT ![a] = version[a]]
           /\ op'[i].snap.txs = [op[i].snap.txs EXCEPT ![a] = shown[a]]
           /\ op[i].todo \ {a} \subseteq op'[i].todo
           /\ a \notin op'[i].todo
           /\ op[i].targeted => op'[i].todo \subseteq op[i].todo
<1> DEFINE s == [op[i].snap EXCEPT !.known = @ \cup {a},
                                   !.version[a] = version[a],
                                   !.txs[a] = shown[a]]
           further == Behind(i, s, a)
           todo == (op[i].todo \cup further) \ {a}
           r == [op[i] EXCEPT !.snap = s, !.todo = todo]
<1>1. /\ op \in [OpId -> Op] /\ op[i] \in Op /\ op[i].stage = "reading"
      /\ op[i].snap \in Snapshot /\ op[i].todo \in SUBSET Address
      /\ version \in [Address -> Nat] /\ shown \in [Address -> SUBSET Sighting]
      /\ Running(i) /\ a \in op[i].todo
  BY DEF IInv, TypeOK, Op, ReadAddress, Running
<1>2. /\ s \in Snapshot /\ s.known = op[i].snap.known \cup {a}
      /\ s.version = [op[i].snap.version EXCEPT ![a] = version[a]]
      /\ s.txs = [op[i].snap.txs EXCEPT ![a] = shown[a]]
  BY <1>1 DEF Snapshot
<1>3. further \in SUBSET Address /\ (op[i].targeted => further = {})
  BY ConstantsAssumption DEF Behind
<1>4. op' = [op EXCEPT ![i].snap = s, ![i].todo = (@ \cup further) \ {a}]
  BY DEF ReadAddress
<1>5. /\ UNCHANGED <<generation, record, syncPromise, dirty, pendingReorg, listening>>
      /\ SamePending
  BY DEF ReadAddress, reconciliation, view, SamePending
<1> HIDE DEF s, further
<1>6. todo \in SUBSET Address
  BY <1>1, <1>3
<1>7. op' = [op EXCEPT ![i] = r]
  BY <1>1, <1>4
<1>8. /\ op[i].todo \ {a} \subseteq todo /\ a \notin todo
      /\ op[i].targeted => todo \subseteq op[i].todo
  BY <1>3
<1> HIDE DEF todo
<1>9. /\ r \in Op /\ r.stage = "reading" /\ r.gen = op[i].gen /\ r.snap = s
      /\ r.todo = todo /\ r.targeted = op[i].targeted /\ r.recovery = op[i].recovery
      /\ r.full = op[i].full /\ r.only = op[i].only
  BY <1>1, <1>2, <1>6 DEF Op
<1> HIDE DEF r
<1>10. Turned(i, r)
  BY <1>1, <1>5, <1>7, <1>9, Turns
<1>11. op'[i] = r
  BY <1>10 DEF Turned
<1>12. QED
  BY <1>2, <1>5, <1>8, <1>9, <1>10, <1>11

LEMMA SubscribeTurn ==
    ASSUME IInv, Tracked, NEW i \in OpId, NEW a \in Address, SubscribeAddress(i, a)
    PROVE  /\ Turned(i, op'[i]) /\ listening' = listening /\ SamePending
           /\ op'[i].stage = "installing" /\ op'[i].recovery = op[i].recovery
           /\ op'[i].full = op[i].full /\ op'[i].targeted = op[i].targeted
           /\ op'[i].snap = op[i].snap
           /\ op'[i].todo = op[i].todo \ {a}
<1> DEFINE r == [op[i] EXCEPT !.todo = @ \ {a}]
<1>1. /\ op \in [OpId -> Op] /\ op[i] \in Op /\ op[i].stage = "installing"
      /\ Running(i)
  BY DEF IInv, TypeOK, SubscribeAddress, Running
<1>2. /\ r \in Op /\ r.stage = "installing" /\ r.gen = op[i].gen /\ r.snap = op[i].snap
      /\ r.todo = op[i].todo \ {a}
      /\ r.targeted = op[i].targeted /\ r.recovery = op[i].recovery
      /\ r.full = op[i].full /\ r.only = op[i].only
  BY <1>1 DEF Op
<1>3. /\ op' = [op EXCEPT ![i] = r]
      /\ UNCHANGED <<generation, record, syncPromise, dirty, pendingReorg, listening>>
      /\ SamePending
  BY <1>1 DEF SubscribeAddress, reconciliation, view, SamePending
<1> HIDE DEF r
<1>4. Turned(i, r)
  BY <1>1, <1>2, <1>3, Turns
<1>5. op'[i] = r
  BY <1>4 DEF Turned
<1>6. QED
  BY <1>1, <1>2, <1>3, <1>4, <1>5

LEMMA RecoveryConnectedTurn ==
    ASSUME IInv, Tracked, NEW c \in Caller, NEW a \in Address, RecoveryConnected(c, a)
    PROVE  /\ c \in OpId /\ Turned(c, op'[c]) /\ listening' = listening /\ SamePending
           /\ op'[c].stage = "reading" /\ op'[c].recovery
           /\ op'[c].snap = IF record.mark = "none"
                            THEN [EmptySnapshot EXCEPT !.session = generation]
                            ELSE record.snap
           /\ op'[c].todo = {a}
<1> DEFINE snap == IF record.mark = "none"
                   THEN [EmptySnapshot EXCEPT !.session = generation]
                   ELSE record.snap
           r == [op[c] EXCEPT !.stage = "reading", !.snap = snap, !.todo = {a}]
<1>1. /\ c \in OpId /\ op \in [OpId -> Op] /\ op[c] \in Op
      /\ record.snap \in Snapshot /\ generation \in Generation
      /\ op[c].recovery /\ Running(c)
  BY OpFacts DEF RecoveryConnected, Running
<1>2. snap \in Snapshot
  BY <1>1, EmptySnapshotType DEF Snapshot
<1>3. op' = [op EXCEPT ![c] = r]
  BY <1>1 DEF RecoveryConnected
<1>4. /\ UNCHANGED <<generation, record, syncPromise, dirty, pendingReorg, listening>>
      /\ SamePending
  BY DEF RecoveryConnected, reconciliation, view, SamePending
<1> HIDE DEF snap
<1>5. /\ r \in Op /\ r.stage = "reading" /\ r.gen = op[c].gen /\ r.snap = snap
      /\ r.todo = {a} /\ r.recovery = op[c].recovery
      /\ r.full = op[c].full /\ r.only = op[c].only
  BY <1>1, <1>2 DEF Op, Stage
<1> HIDE DEF r
<1>6. Turned(c, r)
  BY <1>1, <1>3, <1>4, <1>5, Turns
<1>7. op'[c] = r
  BY <1>6 DEF Turned
<1>8. QED
  BY <1>1, <1>4, <1>5, <1>6, <1>7 DEF snap

\* A scan that goes on to install its listeners.
LEMMA InstallTurn ==
    ASSUME IInv, Tracked, NEW i \in OpId, Running(i),
           op' = [op EXCEPT ![i].stage = "installing", ![i].todo = op[i].snap.known],
           UNCHANGED <<generation, record, syncPromise, dirty, pendingReorg>>
    PROVE  /\ Turned(i, op'[i])
           /\ op'[i].stage = "installing" /\ op'[i].recovery = op[i].recovery
           /\ op'[i].full = op[i].full /\ op'[i].targeted = op[i].targeted
           /\ op'[i].snap = op[i].snap
           /\ op'[i].todo = op[i].snap.known
<1> DEFINE r == [op[i] EXCEPT !.stage = "installing", !.todo = op[i].snap.known]
<1>1. /\ op \in [OpId -> Op] /\ op[i] \in Op /\ op[i].snap \in Snapshot
      /\ op[i].snap.known \in SUBSET Address
  BY DEF IInv, TypeOK, Op, Snapshot
<1>2. op' = [op EXCEPT ![i] = r]
  BY <1>1
<1>3. /\ r \in Op /\ r.stage = "installing" /\ r.gen = op[i].gen /\ r.snap = op[i].snap
      /\ r.todo = op[i].snap.known
      /\ r.targeted = op[i].targeted /\ r.recovery = op[i].recovery
      /\ r.full = op[i].full /\ r.only = op[i].only
  BY <1>1 DEF Op, Stage
<1> HIDE DEF r
<1>4. Turned(i, r)
  BY <1>2, <1>3, Turns
<1>5. op'[i] = r
  BY <1>4 DEF Turned
<1>6. QED
  BY <1>1, <1>2, <1>3, <1>4, <1>5

LEMMA SyncReadTurn ==
    ASSUME IInv, Tracked, NEW g \in Generation, SyncRead(g), ~ op[g].targeted
    PROVE  /\ g \in OpId /\ Turned(g, op'[g]) /\ listening' = {} /\ pending' = NoPending
           /\ op'[g].stage = "installing" /\ ~ op'[g].recovery
           /\ op'[g].full = op[g].full /\ op'[g].targeted = op[g].targeted
           /\ op'[g].snap = op[g].snap
           /\ op'[g].todo = op[g].snap.known
<1>1. /\ g \in OpId /\ Running(g) /\ pending' = NoPending
      /\ op' = [op EXCEPT ![g].stage = "installing", ![g].todo = op[g].snap.known]
      /\ UNCHANGED <<generation, record, syncPromise, dirty, pendingReorg>>
      /\ listening' = {} /\ ~ op[g].recovery
  BY DEF OpId, SyncRead, AllRead, Running, view, ClearReconciliation
<1>2. QED
  BY <1>1, InstallTurn

LEMMA RecoveryReadTurn ==
    ASSUME IInv, Tracked, NEW c \in Caller, RecoveryRead(c)
    PROVE  /\ c \in OpId /\ Turned(c, op'[c]) /\ listening' = {} /\ SamePending
           /\ op'[c].stage = "installing" /\ op'[c].recovery
           /\ op'[c].snap = op[c].snap
           /\ op'[c].todo = op[c].snap.known
<1>1. /\ c \in OpId /\ Running(c) /\ SamePending
      /\ op' = [op EXCEPT ![c].stage = "installing", ![c].todo = op[c].snap.known]
      /\ UNCHANGED <<generation, record, syncPromise, dirty, pendingReorg>>
      /\ listening' = {} /\ op[c].recovery
  BY DEF OpId, RecoveryRead, AllRead, Running, SamePending, view, reconciliation
<1>2. QED
  BY <1>1, InstallTurn

LEMMA RelayTurn ==
    ASSUME IInv, Tracked, NEW c \in Caller, Relay(c), Current(c)
    PROVE  /\ c \in OpId /\ Turned(c, op'[c]) /\ listening' = listening /\ SamePending
           /\ op'[c].stage = "sent" /\ op'[c].snap = op[c].snap
           /\ op'[c].tx = op[c].tx
<1> DEFINE r == [op[c] EXCEPT !.stage = "sent"]
<1>1. /\ c \in OpId /\ op \in [OpId -> Op] /\ op[c] \in Op /\ Running(c)
  BY OpFacts DEF Relay, Running
<1>2. /\ r \in Op /\ r.stage = "sent" /\ r.gen = op[c].gen /\ r.snap = op[c].snap
      /\ r.full = op[c].full /\ r.only = op[c].only /\ r.tx = op[c].tx
  BY <1>1 DEF Op, Stage
<1>3. /\ op' = [op EXCEPT ![c] = r]
      /\ UNCHANGED <<generation, record, syncPromise, dirty, pendingReorg, listening>>
      /\ SamePending
  BY <1>1 DEF Relay, reconciliation, view, SamePending
<1> HIDE DEF r
<1>4. Turned(c, r)
  BY <1>1, <1>2, <1>3, Turns
<1>5. op'[c] = r
  BY <1>4 DEF Turned
<1>6. QED
  BY <1>1, <1>2, <1>3, <1>4, <1>5

\* Another session's transaction reaches the server.
LEMMA StrayRelayCalm ==
    ASSUME IInv, Tracked, NEW c \in Caller, Relay(c), ~ Current(c)
    PROVE  Tracked' /\ Calm
<1>1. /\ c \in OpId /\ op \in [OpId -> Op] /\ op[c] \in Op
      /\ generation \in Generation /\ Caller \cap Generation = {}
  BY OpFacts
<1>2. /\ UNCHANGED <<generation, record, syncPromise, dirty, pendingReorg, listening>>
      /\ SamePending /\ SameRecord
      /\ op' = [op EXCEPT ![c].stage = "sent"]
  BY DEF Relay, reconciliation, view, SamePending, SameRecord
<1>3. /\ op'[c].gen = op[c].gen /\ op'[c].full = op[c].full /\ op'[c].only = op[c].only
      /\ \A j \in OpId : j # c => op'[j] = op[j]
  BY <1>1, <1>2 DEF Op
<1>4. \A j \in OpId : (Running(j)' <=> Running(j)) /\ (Holding(j)' <=> Holding(j))
  BY <1>2, <1>3 DEF Running, Holding, Current
<1>5. \A j \in OpId : Holding(j) => op'[j] = op[j]
  BY <1>3 DEF Holding
<1>6. syncPromise \in Generation => op'[syncPromise] = op[syncPromise]
  BY <1>1, <1>3 DEF OpId
<1>7. Doing' = Doing /\ Wanted' = Wanted
  BY <1>2, <1>6 DEF Doing, Wanted, Covers
<1>8. QED
  BY <1>2, <1>4, <1>5, <1>7 DEF Calm, Tracked

(***************************************************************************)
(* A call under way has no operation yet                                   *)
(***************************************************************************)
\* No operation of a caller begins.
NoneStarts == \A c \in Caller : op[c].stage = "idle" => op'[c].stage = "idle"

LEMMA RequestStarts ==
    ASSUME IInv, NEW first, NEW rest, NEW st, NEW r, NEW up,
           RequestSync(first, rest, st, r, up)
    PROVE  NoneStarts
<1>1. /\ op \in [OpId -> Op] /\ generation \in Generation
      /\ Caller \cap Generation = {} /\ Caller \subseteq OpId
  BY OpFacts
<1>2. \A c \in Caller : op'[c] = op[c]
  BY <1>1 DEF RequestSync
<1>3. QED
  BY <1>2 DEF NoneStarts

LEMMA SettleStarts ==
    ASSUME IInv, NEW i \in OpId, NEW st, NEW r, NEW after, Settle(i, st, r, after)
    PROVE  NoneStarts
<1>1. /\ op \in [OpId -> Op] /\ generation \in Generation
      /\ Caller \cap Generation = {} /\ Caller \subseteq OpId
  BY OpFacts
<1>2. \/ op' = [op EXCEPT ![i] = IdleOp]
      \/ \E o, s : op' = [op EXCEPT ![i] = IdleOp, ![generation] = Launched(o, s)]
  BY DEF Settle, Drain
<1>3. \A c \in Caller : op'[c] = op[c] \/ op'[c] = IdleOp
  BY <1>1, <1>2
<1>4. QED
  BY <1>3 DEF NoneStarts, IdleOp

LEMMA SyncStarts ==
    ASSUME IInv, NEW g \in Generation, SyncStep(g)
    PROVE  NoneStarts
<1>1. /\ op \in [OpId -> Op] /\ g \in OpId
      /\ Caller \cap Generation = {} /\ Caller \subseteq OpId
  BY OpFacts DEF OpId
<1>2. CASE SyncConnected(g)
  <2>1. \A c \in Caller : c # g
    BY <1>1
  <2>2. \A c \in Caller : op'[c] = op[c]
    BY <1>1, <1>2, <2>1 DEF SyncConnected
  <2>3. QED
    BY <2>2 DEF NoneStarts
<1>3. CASE SyncUnknown(g) \/ SyncHidden(g) \/ ReadMismatch(g)
  BY <1>1, <1>3, SettleStarts DEF SyncUnknown, SyncHidden, ReadMismatch, SettleFailed
<1>4. CASE SyncRead(g)
  <2>1. CASE op[g].targeted
    BY <1>1, <1>4, <2>1, SettleStarts DEF SyncRead
  <2>2. CASE ~ op[g].targeted
    <3>1. \A c \in Caller : op'[c] = op[c]
      BY <1>1, <1>4, <2>2 DEF SyncRead
    <3>2. QED
      BY <3>1 DEF NoneStarts
  <2>3. QED
    BY <2>1, <2>2
<1>5. QED
  BY <1>2, <1>3, <1>4 DEF SyncStep

LEMMA OperationStarts ==
    ASSUME IInv, NEW i \in OpId, OperationStep(i)
    PROVE  NoneStarts
<1>1. op \in [OpId -> Op] /\ Caller \subseteq OpId
  BY OpFacts
<1>2. CASE \E a \in Address : ReadAddress(i, a) \/ SubscribeAddress(i, a)
  <2>1. op[i].stage # "idle" /\ \A c \in Caller : c # i => op'[c] = op[c]
    BY <1>1, <1>2 DEF ReadAddress, SubscribeAddress
  <2>2. QED
    BY <2>1 DEF NoneStarts
<1>3. CASE Installed(i) \/ OperationFails(i) \/ Abandon(i)
  BY <1>3, SettleStarts DEF Installed, OperationFails, SettleFailed, Abandon
<1>4. QED
  BY <1>2, <1>3 DEF OperationStep

LEMMA StageStarts ==
    ASSUME IInv, NEW c \in Caller,
           \/ \E a \in Address : RecoveryConnected(c, a)
           \/ RecoveryRead(c) \/ Relay(c) \/ BroadcastAccepted(c) \/ BroadcastFails(c)
    PROVE  NoneStarts
<1>1. op \in [OpId -> Op] /\ Caller \subseteq OpId /\ c \in OpId
  BY OpFacts
<1>2. CASE \/ \E a \in Address : RecoveryConnected(c, a)
           \/ RecoveryRead(c) \/ Relay(c)
  <2>1. op[c].stage # "idle" /\ \A d \in Caller : d # c => op'[d] = op[d]
    BY <1>1, <1>2 DEF RecoveryConnected, RecoveryRead, AllRead, Relay
  <2>2. QED
    BY <2>1 DEF NoneStarts
<1>3. CASE BroadcastAccepted(c) \/ BroadcastFails(c)
  BY <1>1, <1>3, SettleStarts DEF BroadcastAccepted, BroadcastFails
<1>4. QED
  BY <1>2, <1>3

LEMMA ClientStarts ==
    ASSUME IInv, ClientEvent
    PROVE  NoneStarts
<1>1. CASE \E a \in Address : ChainActivity(a) \/ IndexAddress(a)
  <2>1. PICK a \in Address : Notify(a)
    BY <1>1 DEF ChainActivity, IndexAddress
  <2>2. CASE connected /\ a \in Live
    BY <2>1, <2>2, RequestStarts DEF Notify
  <2>3. CASE ~ (connected /\ a \in Live)
    BY <2>1, <2>3 DEF Notify, queue, NoneStarts
  <2>4. QED
    BY <2>2, <2>3
<1>2. CASE (\E t \in WalletTx : Confirm(t)) \/ LoseConnection
  BY <1>2 DEF Confirm, LoseConnection, queue, NoneStarts
<1>3. CASE NextBlock \/ RetryReconciliation
  <2>1. \/ op' = op
        \/ \E A : RequestSync(Targeted(A), {}, status, record, connected)
    BY <1>3 DEF NextBlock, RetryReconciliation
  <2>2. QED
    BY <2>1, RequestStarts DEF NoneStarts
<1>4. CASE Reorganise
  <2>1. \/ op' = op
        \/ \E st : RequestSync(FullSync, {}, st, record', connected)
    BY <1>4 DEF Reorganise
  <2>2. QED
    BY <2>1, RequestStarts DEF NoneStarts
<1>5. CASE Connect
  <2>1. \/ op' = op
        \/ \E o, S : RequestSync(o, S, status, record, TRUE)
    BY <1>5 DEF Connect
  <2>2. QED
    BY <2>1, RequestStarts DEF NoneStarts
<1>6. QED
  BY <1>1, <1>2, <1>3, <1>4, <1>5 DEF ClientEvent

LEMMA CallIdleNext == IInv /\ CallIdle /\ [Next]_vars => CallIdle'
<1> SUFFICES ASSUME IInv, CallIdle, [Next]_vars PROVE CallIdle'
  OBVIOUS
<1>1. /\ op \in [OpId -> Op] /\ generation \in Generation /\ call \in [Caller -> Call]
      /\ Caller \cap Generation = {} /\ Caller \subseteq OpId
  BY OpFacts DEF IInv, TypeOK
<1>2. ASSUME NoneStarts, \A c \in Caller : call'[c].stage # "none" => call[c].stage # "none"
      PROVE  CallIdle'
  BY <1>2 DEF NoneStarts, CallIdle
<1>3. ASSUME NEW c \in Caller, Proceeds(c, "track") \/ Proceeds(c, "broadcast")
                               \/ Proceeds(c, "recover")
      PROVE  /\ call'[c].stage = "none"
             /\ \A d \in Caller : d # c => call'[d] = call[d]
  BY <1>1, <1>3 DEF Proceeds, NoCall
<1>4. CASE Start
  <2>1. generation + 1 \in Generation
    BY <1>1, <1>4, ConstantsAssumption DEF Start, Generation
  <2>2. \A c \in Caller : op'[c] = op[c]
    BY <1>1, <1>4, <2>1 DEF Start
  <2>3. QED
    BY <1>2, <1>4, <2>2 DEF NoneStarts, Start
<1>5. CASE Stop
  BY <1>2, <1>5 DEF NoneStarts, Stop
<1>6. CASE Refresh
  BY <1>2, <1>6, RequestStarts DEF Refresh
<1>7. ASSUME NEW g \in Generation, SyncStep(g) PROVE CallIdle'
  <2>1. call' = call
    BY <1>7 DEF SyncStep, SyncConnected, SyncUnknown, SyncHidden, SyncRead, ReadMismatch
  <2>2. QED
    BY <1>2, <1>7, <2>1, SyncStarts
<1>8. ASSUME NEW i \in OpId, OperationStep(i) PROVE CallIdle'
  <2>1. call' = call
    BY <1>8 DEF OperationStep, ReadAddress, SubscribeAddress, Installed, OperationFails,
       Abandon
  <2>2. QED
    BY <1>2, <1>8, <2>1, OperationStarts
<1>9. CASE ClientEvent
  <2>1. call' = call
    BY <1>9 DEF ClientEvent, ChainActivity, IndexAddress, Confirm, NextBlock, Reorganise,
       LoseConnection, Connect, RetryReconciliation
  <2>2. QED
    BY <1>2, <1>9, <2>1, ClientStarts
<1>10. ASSUME NEW c \in Caller, CallStep(c) PROVE CallIdle'
  <2>1. CASE \E want \in Wants \ {"refresh"} : CallController(c, want)
    <3>1. op[c].stage = "idle" /\ op' = op
      BY <2>1 DEF CallController, queue
    <3>2. \A d \in Caller : d # c => call'[d] = call[d]
      BY <1>1, <2>1 DEF CallController
    <3>3. QED
      BY <3>1, <3>2 DEF CallIdle
  <2>2. CASE Admit(c)
    <3>1. op' = op /\ call[c].stage # "none" /\ \A d \in Caller : d # c => call'[d] = call[d]
      BY <1>1, <2>2 DEF Admit, queue
    <3>2. QED
      BY <3>1 DEF CallIdle
  <2>3. CASE RejectBroadcast(c) \/ RejectTrack(c) \/ RejectRecovery(c)
    <3>1. NoneStarts
      BY <2>3 DEF RejectBroadcast, RejectTrack, RejectRecovery, queue, NoneStarts
    <3>2. QED
      BY <1>2, <1>3, <2>3, <3>1 DEF RejectBroadcast, RejectTrack, RejectRecovery
  <2>4. CASE Track(c)
    <3>1. \E o : RequestSync(o, {}, status, record, connected)
      BY <2>4 DEF Track
    <3>2. NoneStarts
      BY <3>1, RequestStarts
    <3>3. QED
      BY <1>2, <1>3, <2>4, <3>2 DEF Track
  <2>5. CASE StartRecovery(c) \/ \E t \in WalletTx : StartBroadcast(c, t)
    <3>1. \A d \in Caller : d # c => op'[d] = op[d]
      BY <1>1, <2>5 DEF StartRecovery, StartBroadcast
    <3>2. call'[c].stage = "none" /\ \A d \in Caller : d # c => call'[d] = call[d]
      BY <1>3, <2>5 DEF StartRecovery, StartBroadcast
    <3>3. QED
      BY <3>1, <3>2 DEF CallIdle
  <2>6. CASE \/ \E a \in Address : RecoveryConnected(c, a)
             \/ RecoveryRead(c) \/ Relay(c) \/ BroadcastAccepted(c) \/ BroadcastFails(c)
    <3>1. call' = call
      BY <2>6 DEF RecoveryConnected, RecoveryRead, Relay, BroadcastAccepted, BroadcastFails
    <3>2. QED
      BY <1>2, <2>6, <3>1, StageStarts
  <2>7. QED
    BY <1>10, <2>1, <2>2, <2>3, <2>4, <2>5, <2>6 DEF CallStep
<1>11. CASE UNCHANGED vars
  BY <1>11 DEF vars, queue, CallIdle
<1>12. QED
  BY <1>4, <1>5, <1>6, <1>7, <1>8, <1>9, <1>10, <1>11 DEF Next

(***************************************************************************)
(* The steps of a controller that runs one operation at a time             *)
(***************************************************************************)
\* What a call begins finds nothing in progress.
BeginsAlone ==
    \A c \in Caller :
        (StartRecovery(c) \/ \E t \in WalletTx : StartBroadcast(c, t)) => syncPromise = NoOp

LEMMA StartsAlone ==
    ASSUME IInv, Tracked, CallIdle, SingleFlight'
    PROVE  BeginsAlone
<1> SUFFICES ASSUME NEW c \in Caller,
                    StartRecovery(c) \/ \E t \in WalletTx : StartBroadcast(c, t)
             PROVE  syncPromise = NoOp
  BY DEF BeginsAlone
<1>1. /\ op \in [OpId -> Op] /\ c \in OpId /\ generation' = generation
      /\ op[c].stage = "idle"
  BY OpFacts DEF CallIdle, StartRecovery, StartBroadcast, Proceeds
<1>2. SUFFICES ASSUME syncPromise # NoOp PROVE FALSE
  OBVIOUS
<1>3. /\ syncPromise \in OpId
      /\ op[syncPromise].stage # "idle" /\ Current(syncPromise)
  BY <1>2 DEF IInv, TypeOK, NoForgottenWork
<1>4. syncPromise # c /\ op'[syncPromise] = op[syncPromise]
  BY <1>1, <1>3 DEF StartRecovery, StartBroadcast
<1>5. op'[c].stage # "idle" /\ op'[c].gen = generation
  <2>1. CASE StartRecovery(c)
    <3>1. op'[c] = [IdleOp EXCEPT !.stage = "connecting", !.gen = generation,
                                  !.recovery = TRUE]
      BY <1>1, <2>1 DEF StartRecovery
    <3>2. QED
      BY <3>1 DEF IdleOp
  <2>2. ASSUME NEW t \in WalletTx, StartBroadcast(c, t)
        PROVE  op'[c].stage # "idle" /\ op'[c].gen = generation
    <3>1. op'[c] = [IdleOp EXCEPT !.stage = "sending", !.gen = generation, !.tx = t,
                                  !.snap = Projected(record.snap, t)]
      BY <1>1, <2>2 DEF StartBroadcast
    <3>2. QED
      BY <3>1 DEF IdleOp
  <2>3. QED
    BY <2>1, <2>2
<1>6. QED
  BY <1>1, <1>3, <1>4, <1>5 DEF SingleFlight, Current

LEMMA NothingRuns ==
    ASSUME IInv, Tracked, syncPromise = NoOp
    PROVE  /\ \A i \in OpId : ~ Running(i) /\ ~ Holding(i)
           /\ Doing = {} /\ Wanted = {}
<1>1. NoOp \notin OpId /\ Generation \subseteq OpId
  BY OpFacts
<1>2. \A i \in OpId : ~ Running(i)
  BY <1>1 DEF Tracked
<1>3. Doing = {}
  BY <1>1 DEF Doing
<1>4. Wanted = {}
  BY DEF IInv, NoForgottenWork, Wanted, Demand
<1>5. QED
  BY <1>2, <1>3, <1>4 DEF Running, Holding

LEMMA RecoveryBegins ==
    ASSUME IInv, Tracked, NEW c \in Caller, StartRecovery(c), syncPromise = NoOp
    PROVE  Tracked' /\ Calm
<1>1. /\ op \in [OpId -> Op] /\ c \in OpId /\ Caller \cap Generation = {}
  BY OpFacts
<1>2. /\ UNCHANGED <<generation, record, dirty, pendingReorg, listening, pending>>
      /\ syncPromise' = c
      /\ op'[c] = [IdleOp EXCEPT !.stage = "connecting", !.gen = generation,
                                 !.recovery = TRUE]
      /\ \A j \in OpId : j # c => op'[j] = op[j]
  BY <1>1 DEF StartRecovery, reconciliation
<1>3. op'[c].stage = "connecting"
  BY <1>2 DEF IdleOp
<1>4. (\A i \in OpId : ~ Running(i) /\ ~ Holding(i)) /\ Doing = {} /\ Wanted = {}
  BY NothingRuns
<1>5. \A i \in OpId : i # c => ~ Running(i)' /\ ~ Holding(i)'
  BY <1>2, <1>4 DEF Running, Holding, Current
<1>6. ~ Holding(c)'
  BY <1>3 DEF Holding
<1>7. Tracked'
  BY <1>2, <1>5 DEF Tracked
<1>8. \A i \in OpId : Holding(i)' <=> Holding(i)
  BY <1>4, <1>5, <1>6
<1>9. QED
  BY <1>2, <1>4, <1>7, <1>8 DEF Calm, SameRecord, SamePending

LEMMA BroadcastBegins ==
    ASSUME IInv, Tracked, NEW c \in Caller, NEW t \in WalletTx,
           StartBroadcast(c, t), syncPromise = NoOp
    PROVE  /\ c \in OpId /\ Turned(c, op'[c]) /\ listening' = listening /\ SamePending
           /\ \A i \in OpId : ~ Holding(i)
           /\ op'[c].stage = "sending" /\ op'[c].tx = t
           /\ op'[c].snap = Projected(record.snap, t)
           /\ Sendable(t)
<1>1. /\ op \in [OpId -> Op] /\ c \in OpId /\ Caller \cap Generation = {}
  BY OpFacts
<1>2. /\ UNCHANGED <<generation, record, dirty, pendingReorg, listening, pending>>
      /\ syncPromise' = c /\ Sendable(t)
      /\ op'[c] = [IdleOp EXCEPT !.stage = "sending", !.gen = generation, !.tx = t,
                                 !.snap = Projected(record.snap, t)]
      /\ \A j \in OpId : j # c => op'[j] = op[j]
  BY <1>1 DEF StartBroadcast, reconciliation, view
<1>3. /\ op'[c].stage = "sending" /\ op'[c].tx = t /\ op'[c].gen = generation
      /\ op'[c].snap = Projected(record.snap, t)
  BY <1>2 DEF IdleOp
<1>4. (\A i \in OpId : ~ Running(i) /\ ~ Holding(i)) /\ Doing = {} /\ Wanted = {}
  BY NothingRuns
<1>5. \A i \in OpId : i # c => ~ Running(i)' /\ ~ Holding(i)'
  BY <1>2, <1>4 DEF Running, Holding, Current
<1>6. Holding(c)'
  BY <1>2, <1>3 DEF Holding, Current
<1>7. Tracked'
  BY <1>2, <1>5 DEF Tracked
<1>8. Doing' = {} /\ Wanted' = {}
  <2>1. syncPromise' \notin Generation
    BY <1>1, <1>2
  <2>2. QED
    BY <1>2, <1>4, <2>1 DEF Doing, Wanted
<1>9. QED
  BY <1>1, <1>2, <1>3, <1>4, <1>5, <1>6, <1>7, <1>8 DEF Turned, SameRecord, SamePending

\* stop() and start() leave nothing of the session.
Renewed ==
    /\ Tracked' /\ \A i \in OpId : ~ Holding(i)'
    /\ record' = NoRecord /\ pending' = NoPending /\ listening' = {}
    /\ ~ connected' /\ ~ everConnected'
    /\ heard' = [a \in Address |-> 0] /\ UNCHANGED server

LEMMA SessionsRenew ==
    ASSUME IInv, Stop \/ Start
    PROVE  Renewed
<1>1. /\ op \in [OpId -> Op] /\ generation \in Generation
      /\ generation + 1 \in Generation /\ generation + 1 \in OpId
      /\ generation \in Nat /\ generation + 1 \in Nat
  BY OpFacts, ConstantsAssumption DEF Stop, Start, Generation, OpId
<1>2. /\ record' = NoRecord /\ pending' = NoPending /\ listening' = {}
      /\ connected' = FALSE /\ everConnected' = FALSE
      /\ heard' = [a \in Address |-> 0] /\ UNCHANGED server
      /\ generation' = generation + 1
  BY DEF Stop, Start, Reset, ClearReconciliation
<1>3. \A i \in OpId : op[i].stage # "idle" => op[i].gen # generation + 1
  <2>1. \A i \in OpId : op[i].gen \in Nat
    BY <1>1, GenerationIsNat DEF Op
  <2>2. \A i \in OpId : op[i].stage # "idle" => op[i].gen <= generation
    BY DEF IInv, OpInv
  <2>3. QED
    BY <1>1, <2>1, <2>2
<1>4. CASE Stop
  <2>1. op' = op
    BY <1>4 DEF Stop
  <2>2. \A i \in OpId : ~ Running(i)'
    BY <1>2, <1>3, <2>1 DEF Running, Current
  <2>3. QED
    BY <1>2, <2>2 DEF Renewed, Tracked, Holding, Running
<1>5. CASE Start
  <2> DEFINE r == [Launched(FullSync, NoRecord) EXCEPT !.gen = generation + 1]
  <2>1. /\ syncPromise' = generation + 1 /\ op' = [op EXCEPT ![generation + 1] = r]
        /\ r.stage = "connecting"
    BY <1>5 DEF Start, Launched, IdleOp
  <2> HIDE DEF r
  <2>2. PICK n \in OpId : n = generation + 1
    BY <1>1
  <2>8. op'[n] = r /\ \A j \in OpId : j # n => op'[j] = op[j]
    BY <1>1, <2>1, <2>2
  <2>3. \A i \in OpId : i # n => ~ Running(i)'
    BY <1>2, <1>3, <2>2, <2>8 DEF Running, Current
  <2>4. ~ Holding(n)'
    BY <2>1, <2>8 DEF Holding
  <2>5. Tracked'
    BY <2>1, <2>2, <2>3 DEF Tracked
  <2>6. \A i \in OpId : ~ Holding(i)'
    BY <2>3, <2>4 DEF Holding, Running
  <2>7. QED
    BY <1>2, <2>5, <2>6 DEF Renewed
<1>6. QED
  BY <1>4, <1>5

\* The steps that move or publish the snapshot of the operation in hand.
Moves ==
    \/ \E g \in Generation : SyncConnected(g) \/ SyncRead(g)
    \/ \E i \in OpId : \/ Installed(i)
                       \/ \E a \in Address : ReadAddress(i, a) \/ SubscribeAddress(i, a)
    \/ \E c \in Caller : \/ \E a \in Address : RecoveryConnected(c, a)
                         \/ RecoveryRead(c) \/ BroadcastAccepted(c)
                         \/ Relay(c) /\ Current(c)
                         \/ \E t \in WalletTx : StartBroadcast(c, t) /\ syncPromise = NoOp

\* Those that move nothing.
Calls(c) ==
    \/ \E want \in Wants \ {"refresh"} : CallController(c, want)
    \/ Admit(c) \/ RejectBroadcast(c) \/ RejectTrack(c) \/ RejectRecovery(c)

Idles ==
    \/ Refresh \/ RetryReconciliation \/ NextBlock \/ LoseConnection
    \/ \E i \in OpId : Abandon(i)
    \/ \E c \in Caller : Calls(c)
    \/ \E c \in Caller : Track(c)
    \/ \E c \in Caller : StartRecovery(c) /\ syncPromise = NoOp
    \/ UNCHANGED vars

\* Those by which the server changes.
Signals ==
    \/ \E a \in Address : ChainActivity(a) \/ IndexAddress(a)
    \/ \E t \in WalletTx : Confirm(t)
    \/ \E c \in Caller : Relay(c) /\ ~ Current(c)
    \/ Connect \/ Reorganise

Failing ==
    \/ \E i \in OpId : OperationFails(i)
    \/ \E g \in Generation : SyncUnknown(g) \/ SyncHidden(g) \/ ReadMismatch(g)
    \/ \E c \in Caller : BroadcastFails(c)

LEMMA Kinds ==
    ASSUME IInv, Tracked, BeginsAlone, [Next]_vars
    PROVE  Start \/ Stop \/ Moves \/ Idles \/ Signals \/ Failing
<1>1. \A c \in Caller : (StartRecovery(c) \/ \E t \in WalletTx : StartBroadcast(c, t))
                            => syncPromise = NoOp
  BY DEF BeginsAlone
<1>2. ASSUME NEW c \in Caller, CallStep(c) PROVE Moves \/ Idles \/ Signals \/ Failing
  <2>1. CASE StartRecovery(c) \/ \E t \in WalletTx : StartBroadcast(c, t)
    BY <1>1, <2>1 DEF Moves, Idles
  <2>2. CASE \/ \E want \in Wants \ {"refresh"} : CallController(c, want)
             \/ Admit(c) \/ RejectBroadcast(c)
             \/ RejectTrack(c) \/ RejectRecovery(c) \/ Track(c)
    <3>1. Calls(c) \/ Track(c)
      BY <2>2 DEF Calls
    <3>2. QED
      BY <3>1 DEF Idles
  <2>3. CASE \/ \E a \in Address : RecoveryConnected(c, a)
             \/ RecoveryRead(c) \/ BroadcastAccepted(c)
    BY <2>3 DEF Moves
  <2>4. CASE Relay(c)
    BY <2>4 DEF Moves, Signals
  <2>5. CASE BroadcastFails(c)
    BY <2>5 DEF Failing
  <2>6. QED
    BY <1>2, <2>1, <2>2, <2>3, <2>4, <2>5 DEF CallStep
<1>3. ASSUME NEW g \in Generation, SyncStep(g) PROVE Moves \/ Failing
  BY <1>3 DEF SyncStep, Moves, Failing
<1>4. ASSUME NEW i \in OpId, OperationStep(i) PROVE Moves \/ Idles \/ Failing
  BY <1>4 DEF OperationStep, Moves, Idles, Failing
<1>5. CASE ClientEvent
  BY <1>5 DEF ClientEvent, Idles, Signals
<1>6. CASE UNCHANGED vars
  BY <1>6 DEF Idles
<1>7. CASE Refresh
  BY <1>7 DEF Idles
<1>8. QED
  BY <1>2, <1>3, <1>4, <1>5, <1>6, <1>7 DEF Next

LEMMA IdlesCalm ==
    ASSUME IInv, Tracked, Idles
    PROVE  /\ Tracked' /\ Calm /\ UNCHANGED server
           /\ heard' = heard /\ everConnected' = everConnected
           /\ connected' => connected
<1>1. Tracked' /\ Calm
  <2>1. CASE Refresh \/ RetryReconciliation \/ NextBlock
    BY <2>1, RequestsCalm
  <2>2. CASE \E i \in OpId : Abandon(i)
    BY <2>2, AbandonCalm
  <2>3. CASE \E c \in Caller : Track(c)
    BY <2>3, TrackCalm
  <2>4. CASE \E c \in Caller : StartRecovery(c) /\ syncPromise = NoOp
    BY <2>4, RecoveryBegins
  <2>5. CASE LoseConnection \/ UNCHANGED vars \/ \E c \in Caller : Calls(c)
    BY <2>5, EventsCalm DEF Calls
  <2>6. QED
    BY <2>1, <2>2, <2>3, <2>4, <2>5 DEF Idles
<1>2. /\ UNCHANGED server
      /\ heard' = heard /\ everConnected' = everConnected
      /\ connected' => connected
  BY DEF Idles, Refresh, RetryReconciliation, NextBlock, LoseConnection, Abandon,
     Calls, CallController, Admit, RejectBroadcast, RejectTrack, RejectRecovery, Track,
     StartRecovery, vars, link
<1>3. QED
  BY <1>1, <1>2

LEMMA SignalsCalm ==
    ASSUME IInv, Tracked, Signals
    PROVE  Tracked' /\ Calm
<1>1. ASSUME NEW a \in Address, ChainActivity(a) \/ IndexAddress(a)
      PROVE  Tracked' /\ Calm
  <2>1. Notify(a) /\ UNCHANGED <<generation, listening, record, pendingReorg>>
    BY <1>1 DEF ChainActivity, IndexAddress
  <2>2. QED
    BY <2>1, NotifyCalm
<1>2. ASSUME NEW t \in WalletTx, Confirm(t) PROVE Tracked' /\ Calm
  BY <1>2, EventsCalm
<1>3. ASSUME NEW c \in Caller, Relay(c), ~ Current(c) PROVE Tracked' /\ Calm
  BY <1>3, StrayRelayCalm
<1>4. CASE Connect \/ Reorganise
  BY <1>4, ConnectCalm, ReorganiseCalm
<1>5. QED
  BY <1>1, <1>2, <1>3, <1>4 DEF Signals

LEMMA FailingEnds ==
    ASSUME IInv, Tracked, Failing
    PROVE  /\ Ended /\ UNCHANGED server /\ heard' = heard
           /\ UNCHANGED link
<1>1. Generation \subseteq OpId /\ Caller \subseteq OpId
  BY OpFacts
<1>2. Ended
  BY <1>1, EndsQuietly DEF Failing
<1>3. QED
  BY <1>2 DEF Failing, OperationFails, SyncUnknown, SyncHidden, ReadMismatch, BroadcastFails

\* The end of a targeted sync, of an installation and of a broadcast.
LEMMA TargetedPublishes ==
    ASSUME IInv, Tracked, NEW g \in Generation, SyncRead(g), op[g].targeted
    PROVE  /\ g \in OpId /\ Holding(g) /\ Tracked' /\ \A j \in OpId : ~ Holding(j)'
           /\ Wanted \subseteq Doing' \cup Wanted'
           /\ record'.snap = op[g].snap /\ record'.mark # "none"
           /\ pending' = NoPending /\ listening' = listening
<1> DEFINE after == {}
<1>1. /\ g \in OpId /\ Running(g) /\ Holding(g)
      /\ after \in SUBSET Options /\ \A o, p \in after : o = p
      /\ Settle(g, "ready", Fresh(op[g].snap), after)
      /\ pending' = NoPending /\ listening' = listening /\ generation' = generation
  BY DEF OpId, SyncRead, AllRead, Running, Holding, ClearReconciliation
<1> HIDE DEF after
<1>2. /\ Tracked' /\ \A j \in OpId : ~ Holding(j)'
      /\ Wanted \cup Demand(after) \subseteq Doing' \cup Wanted'
      /\ record'.snap = op[g].snap /\ record'.mark # "none"
  BY <1>1, Publishes
<1>3. QED
  BY <1>1, <1>2

LEMMA InstalledPublishes ==
    ASSUME IInv, Tracked, NEW i \in OpId, Installed(i)
    PROVE  /\ Holding(i) /\ Tracked' /\ \A j \in OpId : ~ Holding(j)'
           /\ Wanted \subseteq Doing' \cup Wanted'
           /\ record'.snap = op[i].snap /\ record'.mark # "none"
           /\ SamePending /\ listening' = op[i].snap.known
<1> DEFINE after == {}
<1>1. /\ Running(i) /\ Holding(i)
      /\ after \in SUBSET Options /\ \A o, p \in after : o = p
      /\ Settle(i, "ready", Fresh(op[i].snap), after)
      /\ SamePending /\ listening' = op[i].snap.known /\ generation' = generation
  BY DEF Installed, Running, Holding, reconciliation, SamePending
<1> HIDE DEF after
<1>2. /\ Tracked' /\ \A j \in OpId : ~ Holding(j)'
      /\ Wanted \cup Demand(after) \subseteq Doing' \cup Wanted'
      /\ record'.snap = op[i].snap /\ record'.mark # "none"
  BY <1>1, Publishes
<1>3. QED
  BY <1>1, <1>2

\* The addresses a transaction touches, and the one it replaces.
Affected(t) == Touches(t) \cup (IF Original[t] = NoTx THEN {} ELSE Touches(Original[t]))

LEMMA AffectedType == \A t \in WalletTx : Affected(t) \in SUBSET Address /\ Affected(t) # {}
BY ConstantsAssumption DEF Affected, Touches

LEMMA BroadcastPublishes ==
    ASSUME IInv, Tracked, NEW c \in Caller, BroadcastAccepted(c)
    PROVE  /\ c \in OpId /\ Holding(c) /\ Tracked' /\ \A j \in OpId : ~ Holding(j)'
           /\ Wanted \cup Affected(op[c].tx) \subseteq Doing' \cup Wanted'
           /\ record'.snap = op[c].snap /\ record'.mark # "none"
           /\ op[c].tx \in WalletTx /\ op[c].stage = "sent"
           /\ pending'.tx = op[c].tx /\ pending'.addresses = Affected(op[c].tx)
           /\ listening' = listening
<1> DEFINE A == Affected(op[c].tx)
           after == {Targeted(A)}
<1>1. c \in OpId /\ op[c].tx \in WalletTx /\ op[c].stage = "sent"
  BY DEF OpId, BroadcastAccepted, IInv, OpInv
<1>2. A \in SUBSET Address
  BY <1>1, AffectedType
<1>3. /\ Running(c) /\ Holding(c) /\ after \in SUBSET Options /\ \A o, p \in after : o = p
  BY <1>1, <1>2, RequestTypes DEF BroadcastAccepted, Running, Holding
<1>4. /\ Settle(c, "ready", Fresh(op[c].snap), after)
      /\ pending' = [tx |-> op[c].tx, addresses |-> A, retries |-> 0]
      /\ listening' = listening /\ generation' = generation
  BY DEF BroadcastAccepted, Affected
<1>5. Demand(after) = A
  BY <1>2 DEF Demand, Covers, Targeted
<1> HIDE DEF after, A
<1>6. /\ Tracked' /\ \A j \in OpId : ~ Holding(j)'
      /\ Wanted \cup Demand(after) \subseteq Doing' \cup Wanted'
      /\ record'.snap = op[c].snap /\ record'.mark # "none"
  BY <1>1, <1>3, <1>4, Publishes
<1>7. QED
  BY <1>1, <1>3, <1>4, <1>5, <1>6 DEF A

LEMMA MovesTracked ==
    ASSUME IInv, Tracked, Moves
    PROVE  Tracked'
BY ConnectedTurn, SyncReadTurn, ReadTurn, SubscribeTurn, RecoveryConnectedTurn,
   RecoveryReadTurn, RelayTurn, BroadcastBegins, TargetedPublishes, InstalledPublishes,
   BroadcastPublishes
DEF Moves, Turned

LEMMA TrackedNext ==
    ASSUME IInv, Tracked, BeginsAlone, [Next]_vars
    PROVE  Tracked'
BY Kinds, MovesTracked, IdlesCalm, SignalsCalm, FailingEnds, SessionsRenew
DEF Renewed, Ended

LEMMA TrackedInit == Init => Tracked /\ CallIdle
BY DEF Init, Tracked, Running, CallIdle, IdleOp, NoCall

\* A controller that runs one operation at a time waits for that one.
LEMMA TracksAlone == Spec /\ []SingleFlight => [](IInv /\ Tracked /\ CallIdle)
<1>1. IInv /\ Tracked /\ CallIdle /\ SingleFlight' /\ [Next]_vars =>
          (IInv /\ Tracked /\ CallIdle)'
  BY NextInv, CallIdleNext, StartsAlone, TrackedNext
<1>2. QED
  BY <1>1, InitInv, TrackedInit, PTL DEF Spec

(***************************************************************************)
(* When calls cannot meet                                                  *)
(***************************************************************************)
\* The dashboard has one call of each kind under way at most: with one
\* caller, or one kind of call, no two wait together.
OneAtATime ==
    \/ \A c, d \in Caller : c = d
    \/ \A v, w \in Wants \ {"refresh"} : v = w

OneCall ==
    /\ \A c \in Caller : call[c].stage # "none" => call[c].want \in Wants \ {"refresh"}
    /\ \A c, d \in Caller : call[c].stage # "none" /\ call[d].stage # "none" => c = d

LEMMA ProceedsAlone ==
    ASSUME IInv, OneCall, NEW c \in Caller,
           \E want \in {"broadcast", "recover", "track"} : Proceeds(c, want)
    PROVE  \A d \in Caller : call'[d].stage = "none"
<1>1. call \in [Caller -> Call] /\ call[c].stage # "none" /\ call' = [call EXCEPT ![c] = NoCall]
  BY DEF IInv, TypeOK, Proceeds
<1>2. \A d \in Caller : d # c => call[d].stage = "none"
  BY <1>1 DEF OneCall
<1>3. QED
  BY <1>1, <1>2 DEF NoCall

\* A step lets the calls be, or one goes on, or one enters or is admitted.
LEMMA CallKinds ==
    ASSUME [Next]_vars
    PROVE  \/ Quiet /\ call' = call
           \/ call' = call /\ syncPromise' = syncPromise
           \/ \E c \in Caller : \/ \E want \in Wants \ {"refresh"} : CallController(c, want)
                                \/ Admit(c)
                                \/ \E want \in {"broadcast", "recover", "track"} :
                                      Proceeds(c, want)
<1>1. ASSUME NEW c \in Caller, CallStep(c)
      PROVE  \/ Quiet /\ call' = call
             \/ \E want \in Wants \ {"refresh"} : CallController(c, want)
             \/ Admit(c)
             \/ \E want \in {"broadcast", "recover", "track"} : Proceeds(c, want)
  BY <1>1 DEF CallStep, StartBroadcast, RejectBroadcast, Track, RejectTrack, StartRecovery,
     RejectRecovery, RecoveryConnected, RecoveryRead, AllRead, Relay, BroadcastAccepted,
     BroadcastFails
<1>2. ASSUME NEW g \in Generation, SyncStep(g) PROVE Quiet /\ call' = call
  BY <1>2 DEF SyncStep, SyncConnected, SyncUnknown, SyncHidden, SyncRead, ReadMismatch,
     Connecting, AllRead
<1>3. ASSUME NEW i \in OpId, OperationStep(i) PROVE Quiet /\ call' = call
  BY <1>3 DEF OperationStep, ReadAddress, SubscribeAddress, Installed, OperationFails, Abandon
<1>4. CASE ClientEvent
  BY <1>4 DEF ClientEvent, ChainActivity, IndexAddress, Confirm, NextBlock, Reorganise,
     LoseConnection, Connect, RetryReconciliation
<1>5. CASE Start \/ Stop \/ Refresh
  BY <1>5 DEF Start, Stop, Refresh
<1>6. CASE UNCHANGED vars
  BY <1>6 DEF vars, queue
<1>7. QED
  BY <1>1, <1>2, <1>3, <1>4, <1>5, <1>6 DEF Next

LEMMA CallsNext ==
    ASSUME OneAtATime, IInv, FoundIdle, OneCall, [Next]_vars
    PROVE  FoundIdle' /\ OneCall'
<1>1. call \in [Caller -> Call]
  BY DEF IInv, TypeOK
<1>2. CASE Quiet /\ call' = call
  BY <1>2 DEF Quiet, FoundIdle, OneCall
<1>3. CASE call' = call /\ syncPromise' = syncPromise
  BY <1>3 DEF FoundIdle, OneCall
<1>4. ASSUME NEW c \in Caller, NEW want \in Wants \ {"refresh"}, CallController(c, want)
      PROVE  FoundIdle' /\ OneCall'
  <2>1. /\ call'[c] = [stage |-> "waiting", want |-> want]
        /\ \A d \in Caller : d # c => call'[d] = call[d]
        /\ syncPromise' = syncPromise
    BY <1>1, <1>4 DEF CallController, queue
  <2>2. \A d \in Caller : call[d].stage # "none" => call[d].want # want
    BY <1>4 DEF CallController, Awaits
  <2>3. \A d \in Caller : call[d].stage # "none" => d = c
    BY <2>2 DEF OneAtATime, OneCall
  <2>4. FoundIdle'
    BY <2>1 DEF FoundIdle
  <2>5. QED
    BY <2>1, <2>3, <2>4 DEF OneCall
<1>5. ASSUME NEW c \in Caller, Admit(c)
      PROVE  FoundIdle' /\ OneCall'
  <2>1. /\ call[c].stage = "waiting" /\ syncPromise = NoOp /\ syncPromise' = syncPromise
        /\ call'[c].want = call[c].want
        /\ \A d \in Caller : d # c => call'[d] = call[d]
    BY <1>1, <1>5 DEF Admit, queue, Call
  <2>2. QED
    BY <2>1 DEF FoundIdle, OneCall
<1>6. ASSUME NEW c \in Caller,
             \E want \in {"broadcast", "recover", "track"} : Proceeds(c, want)
      PROVE  FoundIdle' /\ OneCall'
  <2>1. \A d \in Caller : call'[d].stage = "none"
    BY <1>6, ProceedsAlone
  <2>2. QED
    BY <2>1 DEF FoundIdle, OneCall
<1>7. QED
  BY <1>2, <1>3, <1>4, <1>5, <1>6, CallKinds

LEMMA TrackedOne == Tracked => SingleFlight
BY DEF Tracked, SingleFlight, Running

\* With one call under way at a time the guard of trackOperation ("Wallet
\* network work is already active.", walletNetworkController.ts:492) never
\* meets a running operation: what
\* waitForIdle found idle is still idle when the call goes on, because no
\* event runs between them.
THEOREM OneOperation ==
    ASSUME OneAtATime
    PROVE  Spec => []SingleFlight
<1> DEFINE I == IInv /\ Tracked /\ FoundIdle /\ OneCall
<1>1. Init => I
  BY InitInv, TrackedInit DEF Init, FoundIdle, OneCall, NoCall
<1>2. I /\ [Next]_vars => I'
  <2> SUFFICES ASSUME I, [Next]_vars PROVE I'
    OBVIOUS
  <2>1. BeginsAlone
    BY DEF BeginsAlone, StartRecovery, StartBroadcast, Proceeds, FoundIdle
  <2>2. QED
    BY <2>1, NextInv, TrackedNext, CallsNext
<1>3. I => SingleFlight
  BY TrackedOne
<1> HIDE DEF I
<1>4. QED
  BY <1>1, <1>2, <1>3, PTL DEF Spec

(***************************************************************************)
(* A pending broadcast stays projected                                     *)
(***************************************************************************)
LEMMA ProjectedFacts ==
    ASSUME NEW s \in Snapshot, NEW t \in WalletTx
    PROVE  /\ Projected(s, t).known = s.known
           /\ Projected(s, t).version = s.version
           /\ \A a \in Address : a \notin Affected(t) => Projected(s, t).txs[a] = s.txs[a]
           /\ \A a \in Touches(t) : Shows(Projected(s, t), a, t)
<1> DEFINE o == Original[t]
           affected == Touches(t) \cup (IF o = NoTx THEN {} ELSE Touches(o))
           txs == [a \in Address |-> IF a \in affected
                                     THEN {p \in s.txs[a] : p[1] # o} \cup {<<t, FALSE>>}
                                     ELSE s.txs[a]]
<1>1. Projected(s, t) = [s EXCEPT !.txs = txs]
  BY DEF Projected
<1>2. affected = Affected(t) /\ Touches(t) \subseteq affected /\ Touches(t) \subseteq Address
  BY ConstantsAssumption DEF Affected, Touches
<1>3. \A a \in Address : /\ a \in affected => <<t, FALSE>> \in txs[a]
                         /\ a \notin affected => txs[a] = s.txs[a]
  OBVIOUS
<1> HIDE DEF txs, affected
<1>4. /\ Projected(s, t).known = s.known /\ Projected(s, t).version = s.version
      /\ Projected(s, t).txs = txs
  BY <1>1 DEF Snapshot
<1>5. QED
  BY <1>2, <1>3, <1>4 DEF Shows

LEMMA ProjectedShows ==
    ASSUME NEW s \in Snapshot, NEW t \in WalletTx
    PROVE  Visible(Projected(s, t), t)
<1>1. \A a \in Touches(t) : Shows(Projected(s, t), a, t)
  BY ProjectedFacts
<1>2. QED
  BY <1>1 DEF Visible, Spent, Touches

\* A recovery takes up the record while a broadcast is being reconciled.
RecoversPending ==
    \E c \in Caller : \E a \in Address : RecoveryConnected(c, a) /\ pending.tx # NoTx

ShowsPending(none, s, tx) == tx # NoTx => ~ none /\ Visible(s, tx)
OpProjects(o, tx) ==
    /\ o.stage \in {"sending", "sent"} => Visible(o.snap, o.tx)
    /\ o.stage = "installing" => tx = NoTx
    /\ o.stage = "reading" /\ o.recovery => tx = NoTx
Projects ==
    /\ ShowsPending(record.mark = "none", record.snap, pending.tx)
    /\ \A i \in OpId : Holding(i) => OpProjects(op[i], pending.tx)

LEMMA ProjectsMoves ==
    ASSUME IInv, Tracked, Projects, ~ RecoversPending, Moves
    PROVE  Projects'
<1>0. /\ \A i \in OpId : op[i].snap \in Snapshot
      /\ record.snap \in Snapshot
      /\ Generation \subseteq OpId /\ Caller \subseteq OpId
  BY OpFacts, OpSnapType
<1>1. ASSUME NEW i \in OpId, Turned(i, op'[i]), SamePending \/ pending' = NoPending,
             OpProjects(op'[i], pending'.tx)
      PROVE  Projects'
  <2>1. ShowsPending(record.mark = "none", record.snap, pending.tx)'
    BY <1>1 DEF Projects, ShowsPending, Turned, SameRecord, SamePending, NoPending
  <2>2. \A j \in OpId : Holding(j)' => j = i
    BY <1>1 DEF Turned
  <2>3. QED
    BY <1>1, <2>1, <2>2 DEF Projects
<1>2. ASSUME NEW s \in Snapshot, NEW t \in WalletTx \cup {NoTx},
             \A j \in OpId : ~ Holding(j)', record'.snap = s, record'.mark # "none",
             pending'.tx = t, t # NoTx => Visible(s, t)
      PROVE  Projects'
  BY <1>2 DEF Projects, ShowsPending
<1>3. NoPending.tx = NoTx
  BY DEF NoPending
<1>4. \A i \in OpId : Holding(i) => OpProjects(op[i], pending.tx)
  BY DEF Projects
<1>5. ASSUME NEW g \in Generation, SyncConnected(g) PROVE Projects'
  BY <1>1, <1>5, ConnectedTurn DEF OpProjects
<1>6. ASSUME NEW g \in Generation, SyncRead(g) PROVE Projects'
  <2>1. CASE op[g].targeted
    BY <1>0, <1>2, <1>3, <1>6, <2>1, TargetedPublishes
  <2>2. CASE ~ op[g].targeted
    BY <1>1, <1>3, <1>6, <2>2, SyncReadTurn DEF OpProjects
  <2>3. QED
    BY <2>1, <2>2
<1>7. ASSUME NEW i \in OpId, NEW a \in Address, ReadAddress(i, a) PROVE Projects'
  <2>1. Holding(i) /\ op[i].stage = "reading"
    BY <1>7 DEF Holding, ReadAddress
  <2>2. /\ Turned(i, op'[i]) /\ SamePending
        /\ op'[i].stage = "reading" /\ op'[i].recovery = op[i].recovery
    BY <1>7, ReadTurn
  <2>3. QED
    BY <1>1, <1>4, <2>1, <2>2 DEF OpProjects, SamePending
<1>8. ASSUME NEW i \in OpId, NEW a \in Address, SubscribeAddress(i, a) PROVE Projects'
  <2>1. Holding(i) /\ op[i].stage = "installing"
    BY <1>8 DEF Holding, SubscribeAddress
  <2>2. /\ Turned(i, op'[i]) /\ SamePending /\ op'[i].stage = "installing"
    BY <1>8, SubscribeTurn
  <2>3. QED
    BY <1>1, <1>4, <2>1, <2>2 DEF OpProjects, SamePending
<1>9. ASSUME NEW i \in OpId, Installed(i) PROVE Projects'
  <2>1. Holding(i) /\ op[i].stage = "installing" /\ pending.tx = NoTx
    BY <1>4, <1>9 DEF Holding, Installed, OpProjects
  <2>2. QED
    BY <1>0, <1>2, <1>9, <2>1, InstalledPublishes DEF SamePending
<1>10. ASSUME NEW c \in Caller, NEW a \in Address, RecoveryConnected(c, a) PROVE Projects'
  <2>1. pending.tx = NoTx
    BY <1>10 DEF RecoversPending
  <2>2. /\ Turned(c, op'[c]) /\ SamePending /\ op'[c].stage = "reading"
    BY <1>10, RecoveryConnectedTurn
  <2>3. QED
    BY <1>0, <1>1, <2>1, <2>2 DEF OpProjects, SamePending
<1>11. ASSUME NEW c \in Caller, RecoveryRead(c) PROVE Projects'
  <2>1. Holding(c) /\ op[c].stage = "reading" /\ op[c].recovery
    BY <1>11 DEF Holding, RecoveryRead, AllRead
  <2>2. /\ Turned(c, op'[c]) /\ SamePending /\ op'[c].stage = "installing"
    BY <1>11, RecoveryReadTurn
  <2>3. QED
    BY <1>0, <1>1, <1>4, <2>1, <2>2 DEF OpProjects, SamePending
<1>12. ASSUME NEW c \in Caller, Relay(c), Current(c) PROVE Projects'
  <2>1. Holding(c) /\ op[c].stage = "sending"
    BY <1>12 DEF Holding, Relay
  <2>2. /\ Turned(c, op'[c]) /\ SamePending
        /\ op'[c].stage = "sent" /\ op'[c].snap = op[c].snap /\ op'[c].tx = op[c].tx
    BY <1>12, RelayTurn
  <2>3. QED
    BY <1>0, <1>1, <1>4, <2>1, <2>2 DEF OpProjects, SamePending
<1>13. ASSUME NEW c \in Caller, NEW t \in WalletTx, StartBroadcast(c, t), syncPromise = NoOp
       PROVE  Projects'
  <2>1. /\ Turned(c, op'[c]) /\ SamePending
        /\ op'[c].stage = "sending" /\ op'[c].tx = t
        /\ op'[c].snap = Projected(record.snap, t)
    BY <1>13, BroadcastBegins
  <2>2. OpProjects(op'[c], pending'.tx)
    BY <1>0, <2>1, ProjectedShows DEF OpProjects
  <2>3. QED
    BY <1>0, <1>1, <2>1, <2>2
<1>14. ASSUME NEW c \in Caller, BroadcastAccepted(c) PROVE Projects'
  <2>1. /\ Holding(c) /\ \A j \in OpId : ~ Holding(j)'
        /\ record'.snap = op[c].snap /\ record'.mark # "none"
        /\ op[c].tx \in WalletTx /\ op[c].stage = "sent"
        /\ pending'.tx = op[c].tx
    BY <1>14, BroadcastPublishes
  <2>2. Visible(op[c].snap, op[c].tx)
    BY <1>0, <1>4, <2>1 DEF OpProjects
  <2>3. QED
    BY <1>0, <1>2, <2>1, <2>2
<1>15. QED
  BY <1>5, <1>6, <1>7, <1>8, <1>9, <1>10, <1>11, <1>12, <1>13, <1>14 DEF Moves

LEMMA ProjectsNext ==
    ASSUME IInv, Tracked, BeginsAlone, Projects, ~ RecoversPending, [Next]_vars
    PROVE  Projects'
<1>1. CASE Start \/ Stop
  BY <1>1, SessionsRenew DEF Renewed, Projects, ShowsPending, NoRecord, NoPending
<1>2. ASSUME Calm PROVE Projects'
  BY <1>2 DEF Calm, SameRecord, SamePending, Projects, ShowsPending
<1>3. ASSUME Ended PROVE Projects'
  BY <1>3 DEF Ended, SameRecord, SamePending, Projects, ShowsPending
<1>4. QED
  BY <1>1, <1>2, <1>3, Kinds, ProjectsMoves, IdlesCalm, SignalsCalm, FailingEnds

\* When one operation runs at a time and no recovery takes up the record
\* while a broadcast is being reconciled (performRecoveryRanges,
\* walletNetworkController.ts:641, publishes its snapshot without asking
\* pendingBroadcast, as performSync does at line 595), the record shows the
\* pending transaction until a snapshot of the server shows it too.
THEOREM BroadcastStaysProjected ==
    Spec /\ []SingleFlight /\ [][~ RecoversPending]_vars => []PendingStaysProjected
<1>1. Init => Projects
  BY DEF Init, Projects, ShowsPending, NoPending, Holding, IdleOp
<1>2. IInv /\ Tracked /\ CallIdle /\ Projects /\ SingleFlight' /\ [Next]_vars
        /\ [~ RecoversPending]_vars => Projects'
  <2>1. CASE ~ RecoversPending
    BY <2>1, ProjectsNext, StartsAlone
  <2>2. CASE UNCHANGED vars
    BY <2>2 DEF vars, queue, view, reconciliation, Projects, ShowsPending, Holding, Current
  <2>3. QED
    BY <2>1, <2>2
<1>3. Projects => PendingStaysProjected
  BY DEF Projects, ShowsPending, PendingStaysProjected
<1>4. QED
  BY <1>1, <1>2, <1>3, TracksAlone, PTL DEF Spec

(***************************************************************************)
(* What record, pending broadcast and operation in hand have in common     *)
(***************************************************************************)
\* Transactions are shown at known addresses only.
Located(s) == \A a \in Address : s.txs[a] # {} => a \in s.known

\* The record and the broadcast being reconciled.
RecordDisc(none, s, tx, A) ==
    /\ none => s.known = {}
    /\ Located(s)
    /\ tx = NoTx => A = {}
    /\ tx # NoTx => ~ none /\ A = Affected(tx) /\ A \subseteq s.known

Unread(o) == IF o.stage = "reading" THEN o.todo ELSE {}

\* An operation's snapshot and the record it began with: what it sends was
\* projected from that record, what it scans or installs knows all of its
\* addresses, and a targeted sync reads known addresses only.  A full scan
\* lets no broadcast pend when it installs.
OpDisc(o, none, s, A) ==
    /\ Located(o.snap)
    /\ o.stage \in {"sending", "sent"} =>
          ~ none /\ o.snap = Projected(s, o.tx) /\ Affected(o.tx) \subseteq s.known
    /\ o.stage \in {"reading", "installing"} =>
          s.known \subseteq o.snap.known \cup Unread(o)
    /\ o.stage = "reading" /\ ~ o.recovery /\ o.targeted =>
          ~ none /\ ~ o.full /\ o.snap.known = s.known /\ o.todo \subseteq s.known
    /\ o.stage \in {"reading", "installing"} /\ ~ o.recovery /\ ~ o.targeted =>
          o.full \/ none \/ A = {}
    /\ o.stage = "installing" /\ ~ o.recovery => A = {}

Disc ==
    /\ RecordDisc(record.mark = "none", record.snap, pending.tx, pending.addresses)
    /\ \A i \in OpId : Holding(i) =>
          OpDisc(op[i], record.mark = "none", record.snap, pending.addresses)

LEMMA ProjectedLocated ==
    ASSUME NEW s \in Snapshot, NEW t \in WalletTx, Located(s), Affected(t) \subseteq s.known
    PROVE  Located(Projected(s, t))
BY ProjectedFacts DEF Located

\* validateAcceptedTransaction and validateReplacementTransaction check that
\* the wallet knows every address the transaction affects.
LEMMA SendableKnown ==
    ASSUME NEW t \in WalletTx, Located(record.snap), Sendable(t)
    PROVE  record.mark # "none" /\ Affected(t) \subseteq record.snap.known
<1>1. record.mark # "none"
  BY DEF Sendable, Spendable
<1>2. CASE Original[t] = NoTx
  BY <1>1, <1>2 DEF Sendable, Acceptable, Affected
<1>3. CASE Original[t] # NoTx
  <2>1. /\ Original[t] \in WalletTx /\ Spends[Original[t]] = Spends[t]
    BY <1>3, ConstantsAssumption
  <2>2. Touches(t) \subseteq record.snap.known /\ Visible(record.snap, Original[t])
    BY <1>3 DEF Sendable, Replaceable
  <2>3. Pays[Original[t]] \subseteq record.snap.known
    BY <2>1, <2>2, ConstantsAssumption DEF Visible, Shows, Located
  <2>4. QED
    BY <1>1, <1>3, <2>1, <2>2, <2>3 DEF Affected, Touches
<1>4. QED
  BY <1>1, <1>2, <1>3

LEMMA ScanBaseFacts ==
    ASSUME NEW s \in Snapshot
    PROVE  /\ ScanBase(s).known = Retained(s) /\ Retained(s) \subseteq s.known
           /\ \A a \in Retained(s) : /\ ScanBase(s).version[a] = s.version[a]
                                     /\ ScanBase(s).txs[a] = s.txs[a]
           /\ s.known \subseteq ScanBase(s).known \cup ScanStart(s)
           /\ Located(ScanBase(s))
<1>1. s.known \in SUBSET Address
  BY DEF Snapshot
<1>2. QED
  BY <1>1 DEF ScanBase, Retained, ScanStart, Located

LEMMA DiscMoves ==
    ASSUME IInv, Tracked, Disc, Moves
    PROVE  Disc'
<1> DEFINE none == record.mark = "none"
           s == record.snap
           A == pending.addresses
<1>0. /\ \A i \in OpId : op[i].snap \in Snapshot
      /\ s \in Snapshot /\ pending.tx \in WalletTx \cup {NoTx}
      /\ Generation \subseteq OpId /\ Caller \subseteq OpId
  BY OpFacts, OpSnapType DEF IInv, TypeOK, Pending
<1>1. ASSUME NEW i \in OpId, Turned(i, op'[i]), SamePending, OpDisc(op'[i], none, s, A)
      PROVE  Disc'
  <2>1. /\ \A j \in OpId : Holding(j)' => j = i
        /\ SameRecord
    BY <1>1 DEF Turned
  <2>2. QED
    BY <1>1, <2>1 DEF Disc, SameRecord, SamePending
<1>2. ASSUME NEW u \in Snapshot, \A j \in OpId : ~ Holding(j)',
             record'.snap = u, record'.mark # "none",
             RecordDisc(FALSE, u, pending'.tx, pending'.addresses)
      PROVE  Disc'
  BY <1>2 DEF Disc
<1>3. NoPending.tx = NoTx /\ NoPending.addresses = {}
  BY DEF NoPending
<1>4. /\ \A i \in OpId : Holding(i) => OpDisc(op[i], none, s, A)
      /\ RecordDisc(none, s, pending.tx, A)
  BY DEF Disc
<1>5. ASSUME NEW g \in Generation, SyncConnected(g) PROVE Disc'
  <2>1. /\ g \in OpId /\ Turned(g, op'[g]) /\ listening' = listening /\ SamePending
        /\ op'[g].stage = "reading" /\ ~ op'[g].recovery
        /\ op'[g].full = op[g].full
        /\ op'[g].targeted = IsTargeted(g)
        /\ op'[g].snap = IF IsTargeted(g) THEN record.snap ELSE ScanBase(record.snap)
        /\ op'[g].todo = IF IsTargeted(g) THEN Targets(g) ELSE ScanStart(record.snap)
    BY <1>5, ConnectedTurn
  <2>2. CASE IsTargeted(g)
    <3>1. Targets(g) \subseteq s.known /\ ~ none /\ Targets(g) # {}
      BY <1>5, <2>2 DEF SyncConnected, IsTargeted
    <3>2. ~ op[g].full
      BY <3>1 DEF Targets
    <3>3. OpDisc(op'[g], none, s, A)
      BY <1>4, <2>1, <2>2, <3>1, <3>2 DEF OpDisc, RecordDisc, Unread
    <3>4. QED
      BY <1>1, <2>1, <3>3
  <2>3. CASE ~ IsTargeted(g)
    <3>1. op[g].full \/ none \/ A = {}
      BY <2>3 DEF IsTargeted, Targets
    <3>2. OpDisc(op'[g], none, s, A)
      BY <1>0, <2>1, <2>3, <3>1, ScanBaseFacts DEF OpDisc, Unread
    <3>3. QED
      BY <1>1, <2>1, <3>2
  <2>4. QED
    BY <2>2, <2>3
<1>6. ASSUME NEW g \in Generation, SyncRead(g) PROVE Disc'
  <2>1. g \in OpId /\ Holding(g) /\ op[g].stage = "reading" /\ op[g].todo = {} /\ ~ op[g].recovery
    BY <1>0, <1>6 DEF Holding, SyncRead, AllRead
  <2>2. OpDisc(op[g], none, s, A)
    BY <1>4, <2>1
  <2>3. CASE op[g].targeted
    <3>1. /\ \A j \in OpId : ~ Holding(j)'
          /\ record'.snap = op[g].snap /\ record'.mark # "none" /\ pending' = NoPending
      BY <1>6, <2>3, TargetedPublishes
    <3>2. RecordDisc(FALSE, op[g].snap, pending'.tx, pending'.addresses)
      BY <1>3, <2>2, <3>1 DEF OpDisc, RecordDisc
    <3>3. QED
      BY <1>0, <1>2, <2>1, <3>1, <3>2
  <2>4. CASE ~ op[g].targeted
    <3>1. /\ g \in OpId /\ Turned(g, op'[g]) /\ listening' = {} /\ pending' = NoPending
          /\ op'[g].stage = "installing" /\ ~ op'[g].recovery
          /\ op'[g].full = op[g].full /\ op'[g].targeted = op[g].targeted
          /\ op'[g].snap = op[g].snap
          /\ op'[g].todo = op[g].snap.known
      BY <1>6, <2>4, SyncReadTurn
    <3>2. OpDisc(op'[g], none, s, {})
      BY <2>1, <2>2, <3>1 DEF OpDisc, Unread
    <3>3. RecordDisc(none, s, pending'.tx, pending'.addresses)
      BY <1>3, <1>4, <3>1 DEF RecordDisc
    <3>4. (\A j \in OpId : Holding(j)' => j = g) /\ SameRecord
      BY <3>1 DEF Turned
    <3>5. QED
      BY <1>3, <3>1, <3>2, <3>3, <3>4 DEF Disc, SameRecord
  <2>5. QED
    BY <2>3, <2>4
<1>7. ASSUME NEW i \in OpId, NEW a \in Address, ReadAddress(i, a) PROVE Disc'
  <2>1. Holding(i) /\ op[i].stage = "reading" /\ a \in op[i].todo
    BY <1>7 DEF Holding, ReadAddress
  <2>2. /\ Turned(i, op'[i]) /\ listening' = listening /\ SamePending
        /\ op'[i].stage = "reading" /\ op'[i].recovery = op[i].recovery
        /\ op'[i].full = op[i].full /\ op'[i].targeted = op[i].targeted
        /\ op'[i].snap.known = op[i].snap.known \cup {a}
        /\ op'[i].snap.version = [op[i].snap.version EXCEPT ![a] = version[a]]
        /\ op'[i].snap.txs = [op[i].snap.txs EXCEPT ![a] = shown[a]]
        /\ op[i].todo \ {a} \subseteq op'[i].todo
        /\ a \notin op'[i].todo
        /\ op[i].targeted => op'[i].todo \subseteq op[i].todo
    BY <1>7, ReadTurn
  <2>3. OpDisc(op[i], none, s, A)
    BY <1>4, <2>1
  <2>4. Located(op'[i].snap)
    <3>1. op[i].snap.txs \in [Address -> SUBSET Sighting]
      BY <1>0 DEF Snapshot
    <3>2. Located(op[i].snap)
      BY <2>3 DEF OpDisc
    <3>3. QED
      BY <2>2, <3>1, <3>2 DEF Located
  <2>5. OpDisc(op'[i], none, s, A)
    BY <2>1, <2>2, <2>3, <2>4 DEF OpDisc, Unread
  <2>6. QED
    BY <1>1, <2>2, <2>5
<1>8. ASSUME NEW i \in OpId, NEW a \in Address, SubscribeAddress(i, a) PROVE Disc'
  <2>1. Holding(i) /\ op[i].stage = "installing"
    BY <1>8 DEF Holding, SubscribeAddress
  <2>2. /\ Turned(i, op'[i]) /\ listening' = listening /\ SamePending
        /\ op'[i].stage = "installing" /\ op'[i].recovery = op[i].recovery
        /\ op'[i].full = op[i].full /\ op'[i].targeted = op[i].targeted
        /\ op'[i].snap = op[i].snap
        /\ op'[i].todo = op[i].todo \ {a}
    BY <1>8, SubscribeTurn
  <2>3. OpDisc(op'[i], none, s, A)
    BY <1>4, <2>1, <2>2 DEF OpDisc, Unread
  <2>4. QED
    BY <1>1, <2>2, <2>3
<1>9. ASSUME NEW i \in OpId, Installed(i) PROVE Disc'
  <2>1. Holding(i) /\ op[i].stage = "installing"
    BY <1>9 DEF Holding, Installed
  <2>2. /\ \A j \in OpId : ~ Holding(j)'
        /\ record'.snap = op[i].snap /\ record'.mark # "none" /\ SamePending
    BY <1>9, InstalledPublishes
  <2>3. Located(op[i].snap) /\ s.known \subseteq op[i].snap.known
    BY <1>4, <2>1 DEF OpDisc, Unread
  <2>4. RecordDisc(FALSE, op[i].snap, pending'.tx, pending'.addresses)
    BY <1>4, <2>2, <2>3 DEF RecordDisc, SamePending
  <2>5. QED
    BY <1>0, <1>2, <2>2, <2>4
<1>10. ASSUME NEW c \in Caller, NEW a \in Address, RecoveryConnected(c, a) PROVE Disc'
  <2>1. /\ c \in OpId /\ Turned(c, op'[c]) /\ listening' = listening /\ SamePending
        /\ op'[c].stage = "reading" /\ op'[c].recovery
        /\ op'[c].snap = IF record.mark = "none"
                         THEN [EmptySnapshot EXCEPT !.session = generation]
                         ELSE record.snap
        /\ op'[c].todo = {a}
    BY <1>10, RecoveryConnectedTurn
  <2>2. /\ [EmptySnapshot EXCEPT !.session = generation].known = {}
        /\ Located([EmptySnapshot EXCEPT !.session = generation])
    BY DEF EmptySnapshot, Located
  <2>3. s.known \subseteq op'[c].snap.known /\ Located(op'[c].snap)
    BY <1>4, <2>1, <2>2 DEF RecordDisc
  <2>4. OpDisc(op'[c], none, s, A)
    BY <2>1, <2>3 DEF OpDisc
  <2>5. QED
    BY <1>1, <2>1, <2>4
<1>11. ASSUME NEW c \in Caller, RecoveryRead(c) PROVE Disc'
  <2>1. c \in OpId /\ Holding(c) /\ op[c].stage = "reading" /\ op[c].todo = {}
    BY <1>0, <1>11 DEF Holding, RecoveryRead, AllRead
  <2>2. /\ Turned(c, op'[c]) /\ listening' = {} /\ SamePending
        /\ op'[c].stage = "installing" /\ op'[c].recovery
        /\ op'[c].snap = op[c].snap
    BY <1>11, RecoveryReadTurn
  <2>3. OpDisc(op'[c], none, s, A)
    BY <1>4, <2>1, <2>2 DEF OpDisc, Unread
  <2>4. QED
    BY <1>1, <2>1, <2>2, <2>3
<1>12. ASSUME NEW c \in Caller, Relay(c), Current(c) PROVE Disc'
  <2>1. c \in OpId /\ Holding(c) /\ op[c].stage = "sending"
    BY <1>0, <1>12 DEF Holding, Relay
  <2>2. /\ Turned(c, op'[c]) /\ listening' = listening /\ SamePending
        /\ op'[c].stage = "sent" /\ op'[c].snap = op[c].snap /\ op'[c].tx = op[c].tx
    BY <1>12, RelayTurn
  <2>3. OpDisc(op'[c], none, s, A)
    BY <1>4, <2>1, <2>2 DEF OpDisc
  <2>4. QED
    BY <1>1, <2>1, <2>2, <2>3
<1>13. ASSUME NEW c \in Caller, NEW t \in WalletTx, StartBroadcast(c, t), syncPromise = NoOp
       PROVE  Disc'
  <2>1. /\ c \in OpId /\ Turned(c, op'[c]) /\ listening' = listening /\ SamePending
        /\ op'[c].stage = "sending" /\ op'[c].tx = t
        /\ op'[c].snap = Projected(record.snap, t)
        /\ Sendable(t)
    BY <1>13, BroadcastBegins
  <2>2. ~ none /\ Affected(t) \subseteq s.known /\ Located(s)
    BY <1>4, <2>1, SendableKnown DEF RecordDisc
  <2>3. Located(Projected(s, t))
    BY <1>0, <2>2, ProjectedLocated
  <2>4. OpDisc(op'[c], none, s, A)
    BY <2>1, <2>2, <2>3 DEF OpDisc
  <2>5. QED
    BY <1>1, <2>1, <2>4
<1>14. ASSUME NEW c \in Caller, BroadcastAccepted(c) PROVE Disc'
  <2>1. /\ c \in OpId /\ Holding(c) /\ \A j \in OpId : ~ Holding(j)'
        /\ record'.snap = op[c].snap /\ record'.mark # "none"
        /\ op[c].tx \in WalletTx /\ op[c].stage = "sent"
        /\ pending'.tx = op[c].tx /\ pending'.addresses = Affected(op[c].tx)
    BY <1>14, BroadcastPublishes
  <2>2. /\ Located(op[c].snap) /\ op[c].snap = Projected(s, op[c].tx)
        /\ Affected(op[c].tx) \subseteq s.known
    BY <1>4, <2>1 DEF OpDisc
  <2>3. op[c].snap.known = s.known
    BY <1>0, <2>1, <2>2, ProjectedFacts
  <2>4. RecordDisc(FALSE, op[c].snap, pending'.tx, pending'.addresses)
    BY <2>1, <2>2, <2>3, ConstantsAssumption DEF RecordDisc
  <2>5. QED
    BY <1>0, <1>2, <2>1, <2>4
<1>15. QED
  BY <1>5, <1>6, <1>7, <1>8, <1>9, <1>10, <1>11, <1>12, <1>13, <1>14 DEF Moves

LEMMA DiscNext ==
    ASSUME IInv, Tracked, BeginsAlone, Disc, [Next]_vars
    PROVE  Disc'
<1>1. CASE Start \/ Stop
  <2>1. /\ NoRecord.snap.known = {} /\ Located(NoRecord.snap) /\ NoRecord.mark = "none"
        /\ NoPending.tx = NoTx /\ NoPending.addresses = {}
    BY DEF NoRecord, EmptySnapshot, Located, NoPending
  <2>2. RecordDisc(TRUE, NoRecord.snap, NoTx, {})
    BY <2>1 DEF RecordDisc
  <2>3. QED
    BY <1>1, <2>1, <2>2, SessionsRenew DEF Renewed, Disc
<1>2. ASSUME Calm PROVE Disc'
  BY <1>2 DEF Calm, SameRecord, SamePending, Disc
<1>3. ASSUME Ended PROVE Disc'
  BY <1>3 DEF Ended, SameRecord, SamePending, Disc
<1>4. QED
  BY <1>1, <1>2, <1>3, Kinds, DiscMoves, IdlesCalm, SignalsCalm, FailingEnds

LEMMA DiscInit == Init => Disc
BY DEF Init, Disc, RecordDisc, Located, NoRecord, EmptySnapshot, NoPending, Holding, IdleOp

(***************************************************************************)
(* What the record has not caught up with                                  *)
(***************************************************************************)
\* The addresses of snapshot s that lag behind what was heard of them, or
\* behind what the server shows of the wallet's transactions there.
LagOf(k, s, h, v) ==
    {a \in s.known : IF k = "heard" THEN s.version[a] < h[a] ELSE s.txs[a] # v[a]}
Lag(k, s) == LagOf(k, s, heard, shown)

\* A sync that fails while the link is up: its request is not repeated.
FailsOnline ==
    \/ \E i \in OpId : connected /\ OperationFails(i)
    \/ \E g \in Generation : SyncUnknown(g) \/ ReadMismatch(g)

\* A withheld scan of more than the retry reads again.
Withholds ==
    \E g \in Generation :
        SyncHidden(g) /\ (op[g].full \/ ~ op[g].only \subseteq pending.addresses)

\* A broadcast accepted while one of other addresses is being reconciled.
Supersedes ==
    \E c \in Caller : BroadcastAccepted(c) /\ ~ pending.addresses \subseteq pending'.addresses

\* A rescan that retains unread an address that lags.
LeavesOut(k) ==
    \E g \in Generation :
        /\ SyncConnected(g) /\ ~ IsTargeted(g)
        /\ Retained(record.snap) \cap Lag(k, record.snap) # {}

\* A transaction indexed for an address between the read of that address
\* and its subscription.
LateChange(a) ==
    /\ IndexAddress(a) /\ connected /\ a \notin Live
    /\ \E i \in OpId : /\ op[i].stage \in {"reading", "installing"} /\ Current(i)
                       /\ a \in op[i].snap.known /\ a \notin Unread(op[i])

Missed(k) ==
    \/ FailsOnline \/ Withholds \/ Supersedes \/ LeavesOut(k)
    \/ k = "shown" /\ \E a \in Address : LateChange(a)

\* What lags behind in the record is asked for, or will be by the retry of
\* the broadcast being reconciled; in an operation's snapshot, it is asked
\* for or not yet read.
RecordCovered(k) ==
    connected /\ record.mark # "none" =>
        Lag(k, record.snap) \subseteq Doing \cup Wanted \cup pending.addresses

OpCovered(o, lag, W, A) ==
    o.stage \in {"reading", "installing"} =>
        lag \subseteq W \cup Unread(o) \cup (IF o.recovery THEN A ELSE {})

HeldCovered(k) ==
    connected => \A i \in OpId : Holding(i) =>
        OpCovered(op[i], Lag(k, op[i].snap), Wanted, pending.addresses)

Covered(k) == RecordCovered(k) /\ HeldCovered(k)

\* The link: what is known was learnt over it, and what was heard is true.
Linked ==
    /\ ~ everConnected => /\ ~ connected /\ record.mark = "none"
                          /\ \A i \in OpId : ~ Holding(i)
    /\ \A a \in Address : heard[a] <= version[a]

LEMMA MovesFacts ==
    ASSUME IInv, Moves
    PROVE  connected /\ UNCHANGED <<version, confirmed, shown, link, heard>>
<1>1. UNCHANGED <<version, confirmed, shown, link, heard>>
  BY DEF Moves, SyncConnected, SyncRead, Installed, ReadAddress, SubscribeAddress,
     RecoveryConnected, RecoveryRead, BroadcastAccepted, Relay, StartBroadcast, server
<1>2. connected
  BY DEF Moves, SyncConnected, Connecting, SyncRead, AllRead, Installed, ReadAddress,
     SubscribeAddress, RecoveryConnected, RecoveryRead, BroadcastAccepted, Relay,
     StartBroadcast, Sendable, Spendable
<1>3. QED
  BY <1>1, <1>2

LEMMA LinkedNext ==
    ASSUME IInv, Tracked, BeginsAlone, Linked, [Next]_vars
    PROVE  Linked'
<1>1. /\ version \in [Address -> Nat] /\ heard \in [Address -> Nat]
  BY DEF IInv, TypeOK
<1>2. CASE Start \/ Stop
  <2>1. Renewed
    BY <1>2, SessionsRenew
  <2>2. \A a \in Address : 0 <= version[a]
    BY <1>1
  <2>3. \A a \in Address : heard'[a] <= version'[a]
    BY <2>1, <2>2 DEF Renewed, server
  <2>4. QED
    BY <2>1, <2>3 DEF Renewed, Linked, NoRecord
<1>3. CASE Moves
  <2>1. everConnected'
    BY <1>3, MovesFacts DEF Linked, link
  <2>2. QED
    BY <1>3, <2>1, MovesFacts DEF Linked
<1>4. CASE Idles
  BY <1>4, IdlesCalm DEF Linked, Calm, SameRecord, server
<1>5. CASE Failing
  BY <1>5, FailingEnds DEF Linked, Ended, SameRecord, server, link
<1>6. CASE Signals
  <2>1. Calm
    BY <1>6, SignalsCalm
  <2>2. UNCHANGED <<everConnected, connected>> \/ everConnected'
    BY <1>6 DEF Signals, ChainActivity, IndexAddress, Confirm, Relay, Connect, Reorganise, link
  <2>3. \A a \in Address : heard'[a] <= version'[a]
    <3>1. ASSUME NEW b \in Address, ChainActivity(b)
          PROVE  \A a \in Address : heard'[a] <= version'[a]
      <4>1. version' = [version EXCEPT ![b] = @ + 1]
        BY <3>1 DEF ChainActivity
      <4>2. heard' = [heard EXCEPT ![b] = version'[b]] \/ heard' = heard
        BY <3>1 DEF ChainActivity, Notify
      <4>3. QED
        BY <1>1, <4>1, <4>2 DEF Linked
    <3>2. ASSUME NEW b \in Address, IndexAddress(b)
          PROVE  \A a \in Address : heard'[a] <= version'[a]
      <4>1. version' = version
        BY <3>2 DEF IndexAddress
      <4>2. heard' = [heard EXCEPT ![b] = version'[b]] \/ heard' = heard
        BY <3>2 DEF IndexAddress, Notify
      <4>3. QED
        BY <1>1, <4>1, <4>2 DEF Linked
    <3>3. CASE Reorganise
      <4>1. version' = [a \in Address |-> IF version[a] = 0 THEN 0 ELSE version[a] + 1]
            /\ heard' = version'
        BY <3>3 DEF Reorganise
      <4>2. QED
        BY <1>1, <4>1
    <3>4. CASE Connect \/ (\E t \in WalletTx : Confirm(t)) \/ \E c \in Caller : Relay(c)
      <4>1. version' = version /\ (heard' = heard \/ heard' = version)
        BY <3>4 DEF Connect, Confirm, Relay, server
      <4>2. QED
        BY <1>1, <4>1 DEF Linked
    <3>5. QED
      BY <1>6, <3>1, <3>2, <3>3, <3>4 DEF Signals
  <2>4. QED
    BY <2>1, <2>2, <2>3 DEF Linked, Calm, SameRecord
<1>7. QED
  BY <1>2, <1>3, <1>4, <1>5, <1>6, Kinds

LEMMA LinkedInit == Init => Linked
<1> SUFFICES ASSUME Init PROVE Linked
  OBVIOUS
<1>1. \A a \in Address : heard[a] <= version[a]
  BY DEF Init
<1>2. QED
  BY <1>1 DEF Init, Linked, NoRecord, Holding, IdleOp

\* Lag grows only by the addresses of which something new is known.
LEMMA LagGrows ==
    ASSUME NEW k, NEW s, NEW h, NEW v, NEW h2, NEW v2, NEW D,
           \A a \in s.known \ D : IF k = "heard" THEN h2[a] = h[a] ELSE v2[a] = v[a]
    PROVE  LagOf(k, s, h2, v2) \subseteq LagOf(k, s, h, v) \cup D
BY DEF LagOf

LEMMA LagKnown == \A k, s, h, v : LagOf(k, s, h, v) \subseteq s.known
BY DEF LagOf

LEMMA CoveredParts ==
    ASSUME NEW k,
           connected' /\ record'.mark # "none" =>
               LagOf(k, record'.snap, heard', shown')
                   \subseteq Doing' \cup Wanted' \cup pending'.addresses,
           \A i \in OpId : connected' /\ Holding(i)' =>
               OpCovered(op'[i], LagOf(k, op'[i].snap, heard', shown'), Wanted',
                         pending'.addresses)
    PROVE  Covered(k)'
BY DEF Covered, RecordCovered, HeldCovered, Lag

\* A step that disturbs nothing while the addresses D change.
LEMMA CalmCovers ==
    ASSUME IInv, Disc, NEW k, Covered(k), Calm, connected' => connected,
           NEW D \in SUBSET Address,
           \A a \in Address \ D : IF k = "heard" THEN heard'[a] = heard[a]
                                                 ELSE shown'[a] = shown[a],
           connected /\ record.mark # "none" =>
               D \cap record.snap.known \subseteq Doing' \cup Wanted' \cup pending.addresses,
           \A i \in OpId : /\ connected /\ Holding(i)
                           /\ op[i].stage \in {"reading", "installing"}
                => D \cap op[i].snap.known \subseteq Wanted' \cup Unread(op[i])
    PROVE  Covered(k)'
<1>1. /\ record.snap.known \in SUBSET Address
      /\ \A i \in OpId : op[i].snap.known \in SUBSET Address
  BY OpSnapType, OpFacts DEF Snapshot
<1>2. ASSUME connected', record'.mark # "none"
      PROVE  LagOf(k, record'.snap, heard', shown')
                 \subseteq Doing' \cup Wanted' \cup pending'.addresses
  <2>1. record.mark # "none" /\ record'.snap = record.snap /\ connected
        /\ pending'.addresses = pending.addresses
    BY <1>2 DEF Calm, SameRecord, SamePending
  <2>2. LagOf(k, record.snap, heard, shown) \subseteq Doing \cup Wanted \cup pending.addresses
    BY <2>1 DEF Covered, RecordCovered, Lag
  <2>3. LagOf(k, record.snap, heard', shown') \subseteq LagOf(k, record.snap, heard, shown) \cup D
    BY <1>1, LagGrows
  <2>4. LagOf(k, record.snap, heard', shown') \subseteq record.snap.known
    BY LagKnown
  <2>5. Doing \cup Wanted \subseteq Doing' \cup Wanted'
    BY DEF Calm
  <2>6. D \cap record.snap.known \subseteq Doing' \cup Wanted' \cup pending.addresses
    BY <2>1
  <2>7. QED
    BY <2>1, <2>2, <2>3, <2>4, <2>5, <2>6
<1>3. ASSUME NEW i \in OpId, connected', Holding(i)'
      PROVE  OpCovered(op'[i], LagOf(k, op'[i].snap, heard', shown'), Wanted',
                       pending'.addresses)
  <2>1. Holding(i) /\ op'[i] = op[i] /\ connected /\ pending'.addresses = pending.addresses
        /\ Wanted \subseteq Wanted'
    BY <1>3 DEF Calm, SamePending
  <2>2. SUFFICES ASSUME op[i].stage \in {"reading", "installing"}
                 PROVE  LagOf(k, op[i].snap, heard', shown')
                            \subseteq Wanted' \cup Unread(op[i])
                                      \cup (IF op[i].recovery THEN pending.addresses ELSE {})
    BY <2>1 DEF OpCovered
  <2>3. LagOf(k, op[i].snap, heard, shown)
            \subseteq Wanted \cup Unread(op[i])
                      \cup (IF op[i].recovery THEN pending.addresses ELSE {})
    BY <2>1, <2>2 DEF Covered, HeldCovered, OpCovered, Lag
  <2>4. LagOf(k, op[i].snap, heard', shown') \subseteq LagOf(k, op[i].snap, heard, shown) \cup D
    BY <1>1, LagGrows
  <2>5. LagOf(k, op[i].snap, heard', shown') \subseteq op[i].snap.known
    BY LagKnown
  <2>6. D \cap op[i].snap.known \subseteq Wanted' \cup Unread(op[i])
    BY <2>1, <2>2
  <2>7. QED
    BY <2>1, <2>3, <2>4, <2>5, <2>6
<1>4. QED
  BY <1>2, <1>3, CoveredParts

LEMMA StillCovers ==
    ASSUME IInv, Disc, NEW k, Covered(k), Calm, connected' => connected,
           IF k = "heard" THEN heard' = heard ELSE shown' = shown
    PROVE  Covered(k)'
<1> DEFINE D == {}
<1>1. /\ D \in SUBSET Address
      /\ \A a \in Address \ D : IF k = "heard" THEN heard'[a] = heard[a]
                                              ELSE shown'[a] = shown[a]
      /\ connected /\ record.mark # "none" =>
            D \cap record.snap.known \subseteq Doing' \cup Wanted' \cup pending.addresses
      /\ \A i \in OpId : /\ connected /\ Holding(i)
                         /\ op[i].stage \in {"reading", "installing"}
            => D \cap op[i].snap.known \subseteq Wanted' \cup Unread(op[i])
  OBVIOUS
<1> HIDE DEF D
<1>2. QED
  BY <1>1, CalmCovers

\* The signal of an address that is covered by what is asked for.
LEMMA SignalCovers ==
    ASSUME IInv, Tracked, Disc, NEW k, Covered(k), Calm, connected' => connected,
           NEW a \in Address, a \in Doing' \cup Wanted', syncPromise # NoOp => a \in Wanted',
           \A b \in Address \ {a} : heard'[b] = heard[b] /\ shown'[b] = shown[b]
    PROVE  Covered(k)'
<1> DEFINE D == {a}
<1>1. \A i \in OpId : Holding(i) => syncPromise # NoOp
  BY HoldingRuns, OpFacts DEF Tracked
<1>2. /\ D \in SUBSET Address
      /\ \A b \in Address \ D : IF k = "heard" THEN heard'[b] = heard[b]
                                              ELSE shown'[b] = shown[b]
      /\ connected /\ record.mark # "none" =>
            D \cap record.snap.known \subseteq Doing' \cup Wanted' \cup pending.addresses
      /\ \A i \in OpId : /\ connected /\ Holding(i)
                         /\ op[i].stage \in {"reading", "installing"}
            => D \cap op[i].snap.known \subseteq Wanted' \cup Unread(op[i])
  BY <1>1
<1> HIDE DEF D
<1>3. QED
  BY <1>2, CalmCovers

\* A step that asks for everything.
LEMMA AskingCovers ==
    ASSUME IInv, Tracked, NEW k, Calm, Everything \subseteq Doing' \cup Wanted',
           syncPromise # NoOp => Everything \subseteq Wanted'
    PROVE  Covered(k)'
<1>1. /\ record.snap.known \in SUBSET Address
      /\ \A i \in OpId : op[i].snap.known \in SUBSET Address
  BY OpSnapType, OpFacts DEF Snapshot
<1>2. record'.snap = record.snap
  BY DEF Calm, SameRecord
<1>3. LagOf(k, record'.snap, heard', shown') \subseteq Doing' \cup Wanted'
  BY <1>1, <1>2, LagKnown DEF Everything
<1>4. ASSUME NEW i \in OpId, Holding(i)'
      PROVE  LagOf(k, op'[i].snap, heard', shown') \subseteq Wanted'
  <2>1. Holding(i) /\ op'[i] = op[i]
    BY <1>4 DEF Calm
  <2>2. syncPromise # NoOp
    BY <2>1, HoldingRuns, OpFacts DEF Tracked
  <2>3. QED
    BY <1>1, <2>1, <2>2, LagKnown DEF Everything
<1>5. QED
  BY <1>3, <1>4, CoveredParts DEF OpCovered

\* While a full rescan is asked for, everything is.
LEMMA GapAsksAll ==
    ASSUME "gap" \notin Address, IInv, "gap" \in Doing \cup Wanted
    PROVE  Address \subseteq Doing \cup Wanted
<1>1. /\ \A o \in dirty : o.only \in SUBSET Address
      /\ syncPromise \in Generation => op[syncPromise].only \in SUBSET Address
  BY OpFacts DEF Options, Op
<1>2. CASE "gap" \in Doing
  BY <1>1, <1>2 DEF Doing, Covers, Everything
<1>3. CASE "gap" \in Wanted
  <2>1. CASE pendingReorg
    BY <2>1 DEF Wanted, Everything
  <2>2. CASE ~ pendingReorg
    <3>1. PICK o \in dirty : "gap" \in Covers(o)
      BY <1>3, <2>2 DEF Wanted, Demand
    <3>2. Covers(o) = Everything
      BY <1>1, <3>1 DEF Covers
    <3>3. QED
      BY <3>1, <3>2 DEF Wanted, Demand, Everything
  <2>3. QED
    BY <2>1, <2>2
<1>4. QED
  BY <1>2, <1>3

\* The listeners: those of the record's addresses are live, or are being
\* installed, or a scan that installs them is asked for.
Listening ==
    connected /\ record.mark # "none" =>
        \/ record.snap.known \subseteq Live
        \/ "gap" \in Doing \cup Wanted
        \/ \E i \in OpId : Holding(i) /\ op[i].stage = "installing"

LEMMA LiveFacts ==
    ASSUME IInv, Tracked
    PROVE  /\ \A i \in OpId : Holding(i) /\ op[i].stage = "installing" =>
                 Live = listening \cup (op[i].snap.known \ op[i].todo)
           /\ (\A i \in OpId : Holding(i) => op[i].stage # "installing") => Live = listening
<1> DEFINE I == {j \in OpId : op[j].stage = "installing" /\ Current(j)}
<1>1. \A i \in I : Holding(i) /\ op[i].stage = "installing"
  BY DEF Holding
<1>2. \A i, j \in OpId : Holding(i) /\ Holding(j) => i = j
  BY DEF Holding, Running, Tracked
<1>3. Live = listening \cup UNION {op[i].snap.known \ op[i].todo : i \in I}
  BY DEF Live
<1>4. ASSUME NEW i \in OpId, Holding(i), op[i].stage = "installing"
      PROVE  Live = listening \cup (op[i].snap.known \ op[i].todo)
  <2>1. I = {i}
    BY <1>1, <1>2, <1>4 DEF Holding
  <2> HIDE DEF I
  <2>2. QED
    BY <1>3, <2>1
<1>5. ASSUME \A i \in OpId : Holding(i) => op[i].stage # "installing"
      PROVE  Live = listening
  <2>1. I = {}
    BY <1>1, <1>5
  <2> HIDE DEF I
  <2>2. QED
    BY <1>3, <2>1
<1>6. QED
  BY <1>4, <1>5

\* An address the record knows and nobody listens to is asked for, unless it
\* was read and not yet subscribed.
LEMMA UnheardIsAsked ==
    ASSUME "gap" \notin Address, IInv, Disc, Listening, NEW a \in Address,
           connected, a \notin Live, record.mark # "none", a \in record.snap.known,
           IndexAddress(a), ~ LateChange(a)
    PROVE  a \in Doing \cup Wanted
<1>1. CASE record.snap.known \subseteq Live
  BY <1>1
<1>2. CASE "gap" \in Doing \cup Wanted
  BY <1>2, GapAsksAll
<1>3. ASSUME NEW i \in OpId, Holding(i), op[i].stage = "installing"
      PROVE  FALSE
  <2>1. record.snap.known \subseteq op[i].snap.known
    BY <1>3 DEF Disc, OpDisc, Unread
  <2>2. a \notin op[i].snap.known
    BY <1>3 DEF LateChange, Holding, Unread
  <2>3. QED
    BY <2>1, <2>2
<1>4. QED
  BY <1>1, <1>2, <1>3 DEF Listening

LEMMA IndexCovers ==
    ASSUME "gap" \notin Address, IInv, Tracked, Disc, NEW k \in {"heard", "shown"},
           k = "shown" => Listening, Covered(k), NEW a \in Address,
           IndexAddress(a), k = "shown" => ~ LateChange(a)
    PROVE  Covered(k)'
<1>1. /\ Notify(a) /\ shown' = [shown EXCEPT ![a] = ServerView(a)]
      /\ UNCHANGED <<generation, listening, record, pendingReorg>>
      /\ connected' = connected
      /\ heard \in [Address -> Nat] /\ shown \in [Address -> SUBSET Sighting]
  BY DEF IndexAddress, link, IInv, TypeOK
<1>2. /\ Calm
      /\ connected /\ a \in Live => /\ a \in Doing' \cup Wanted'
                                    /\ syncPromise # NoOp => a \in Wanted'
  BY <1>1, NotifyCalm
<1>4. CASE connected /\ a \in Live
  <2>1. \A b \in Address \ {a} : heard'[b] = heard[b] /\ shown'[b] = shown[b]
    BY <1>1, <1>4 DEF Notify
  <2>2. QED
    BY <1>1, <1>2, <1>4, <2>1, SignalCovers
<1>5. CASE ~ (connected /\ a \in Live) /\ k = "heard"
  <2>1. heard' = heard
    BY <1>1, <1>5 DEF Notify
  <2>2. QED
    BY <1>1, <1>2, <1>5, <2>1, StillCovers
<1>6. CASE ~ connected
  BY <1>1, <1>6, CoveredParts
<1>7. CASE connected /\ a \notin Live /\ k = "shown"
  <2>1. \A b \in Address \ {a} : shown'[b] = shown[b]
    BY <1>1
  <2>2. ASSUME NEW i \in OpId, Holding(i), op[i].stage \in {"reading", "installing"},
               a \in op[i].snap.known
        PROVE  a \in Unread(op[i])
    BY <1>7, <2>2 DEF LateChange, Holding
  <2>4. ASSUME record.mark # "none", a \in record.snap.known
        PROVE  a \in Doing' \cup Wanted'
    BY <1>2, <1>7, <2>4, UnheardIsAsked DEF Calm
  <2>5. connected /\ record.mark # "none" =>
            {a} \cap record.snap.known \subseteq Doing' \cup Wanted' \cup pending.addresses
    BY <2>4
  <2>6. \A i \in OpId : /\ connected /\ Holding(i)
                        /\ op[i].stage \in {"reading", "installing"}
             => {a} \cap op[i].snap.known \subseteq Wanted' \cup Unread(op[i])
    BY <2>2
  <2>7. {a} \in SUBSET Address
    OBVIOUS
  <2>8. QED
    BY <1>1, <1>2, <1>7, <2>1, <2>5, <2>6, <2>7, CalmCovers
<1>8. QED
  BY <1>4, <1>5, <1>6, <1>7

LEMMA SignalsCover ==
    ASSUME "gap" \notin Address, IInv, Tracked, Disc, Linked,
           NEW k \in {"heard", "shown"}, k = "shown" => Listening, Covered(k),
           ~ Missed(k), Signals
    PROVE  Covered(k)'
<1>1. ASSUME NEW a \in Address, IndexAddress(a) PROVE Covered(k)'
  BY <1>1, IndexCovers DEF Missed
<1>2. ASSUME NEW a \in Address, ChainActivity(a) PROVE Covered(k)'
  <2>1. /\ Notify(a) /\ shown' = shown
        /\ UNCHANGED <<generation, listening, record, pendingReorg>>
        /\ connected' = connected /\ heard \in [Address -> Nat]
    BY <1>2 DEF ChainActivity, link, IInv, TypeOK
  <2>2. /\ Calm
        /\ connected /\ a \in Live => /\ a \in Doing' \cup Wanted'
                                      /\ syncPromise # NoOp => a \in Wanted'
    BY <2>1, NotifyCalm
  <2>4. CASE connected /\ a \in Live
    <3>1. \A b \in Address \ {a} : heard'[b] = heard[b] /\ shown'[b] = shown[b]
      BY <2>1, <2>4 DEF Notify
    <3>2. QED
      BY <2>1, <2>2, <2>4, <3>1, SignalCovers
  <2>5. CASE ~ (connected /\ a \in Live)
    <3>1. heard' = heard
      BY <2>1, <2>5 DEF Notify
    <3>2. QED
      BY <2>1, <2>2, <3>1, StillCovers
  <2>6. QED
    BY <2>4, <2>5
<1>3. CASE (\E t \in WalletTx : Confirm(t)) \/ \E c \in Caller : Relay(c) /\ ~ Current(c)
  <2>1. heard' = heard /\ shown' = shown /\ connected' = connected
    BY <1>3 DEF Confirm, Relay, link
  <2>2. Calm
    BY <1>3, SignalsCalm DEF Signals
  <2>3. QED
    BY <2>1, <2>2, StillCovers
<1>4. CASE Reorganise
  BY <1>4, ReorganiseCalm, AskingCovers
<1>5. CASE Connect
  <2>1. CASE everConnected
    BY <1>5, <2>1, ConnectCalm, AskingCovers
  <2>2. CASE ~ everConnected
    <3>1. record.mark = "none" /\ \A i \in OpId : ~ Holding(i)
      BY <2>2 DEF Linked
    <3>2. Calm
      BY <1>5, ConnectCalm
    <3>3. record'.mark = "none" /\ \A i \in OpId : ~ Holding(i)'
      BY <3>1, <3>2 DEF Calm, SameRecord
    <3>4. QED
      BY <3>3, CoveredParts
  <2>3. QED
    BY <2>1, <2>2
<1>6. QED
  BY <1>1, <1>2, <1>3, <1>4, <1>5 DEF Signals

\* What an operation of the session is doing for the queue.
LEMMA DoingFacts ==
    ASSUME IInv, Tracked, NEW i \in OpId, Running(i)
    PROVE  /\ i \in Generation => Doing = Covers(op[i])
           /\ i \in Caller => Doing = {}
<1>1. syncPromise = i /\ Caller \cap Generation = {}
  BY OpFacts DEF Tracked
<1>2. QED
  BY <1>1 DEF Doing

LEMMA FailingCovers ==
    ASSUME IInv, Tracked, NEW k, Covered(k), ~ Missed(k), Failing
    PROVE  Covered(k)'
<1>1. /\ (\A j \in OpId : ~ Holding(j)') /\ Wanted \subseteq Doing' \cup Wanted'
      /\ SameRecord /\ SamePending /\ UNCHANGED <<shown, connected>> /\ heard' = heard
  BY FailingEnds DEF Ended, server, link
<1>2. SUFFICES ASSUME connected', record'.mark # "none"
               PROVE  LagOf(k, record'.snap, heard', shown')
                          \subseteq Doing' \cup Wanted' \cup pending'.addresses
  BY <1>1, CoveredParts
<1>3. connected /\ record.mark # "none" /\ record'.snap = record.snap
      /\ pending'.addresses = pending.addresses
  BY <1>1, <1>2 DEF SameRecord, SamePending
<1>4. LagOf(k, record.snap, heard, shown) \subseteq Doing \cup Wanted \cup pending.addresses
  BY <1>3 DEF Covered, RecordCovered, Lag
<1>5. Doing \subseteq Wanted \cup pending.addresses
  <2>1. ASSUME NEW c \in Caller, BroadcastFails(c) PROVE Doing = {}
    BY <2>1, DoingFacts DEF BroadcastFails, Running, OpId
  <2>2. ASSUME NEW g \in Generation, SyncHidden(g) PROVE Doing \subseteq pending.addresses
    <3>1. ~ op[g].full /\ op[g].only \subseteq pending.addresses
      BY <2>2 DEF Missed, Withholds
    <3>2. Doing = Covers(op[g])
      BY <2>2, DoingFacts DEF SyncHidden, AllRead, Running, OpId
    <3>3. QED
      BY <3>1, <3>2 DEF Covers
  <2>3. QED
    BY <1>3, <2>1, <2>2 DEF Failing, Missed, FailsOnline
<1>6. QED
  BY <1>1, <1>3, <1>4, <1>5

LEMMA MovesCover ==
    ASSUME IInv, Tracked, Disc, Linked, NEW k \in {"heard", "shown"}, Covered(k),
           ~ Missed(k), Moves
    PROVE  Covered(k)'
<1> DEFINE L(s) == LagOf(k, s, heard, shown)
           A == pending.addresses
<1>0. /\ \A i \in OpId : op[i].snap \in Snapshot
      /\ record.snap \in Snapshot
      /\ Generation \subseteq OpId /\ Caller \subseteq OpId
      /\ version \in [Address -> Nat] /\ heard \in [Address -> Nat]
      /\ connected /\ connected' /\ shown' = shown /\ heard' = heard
  BY OpFacts, OpSnapType, MovesFacts DEF IInv, TypeOK, link
<1>1. ASSUME NEW i \in OpId, Turned(i, op'[i]), SamePending,
             OpCovered(op'[i], L(op'[i].snap), Wanted, A)
      PROVE  Covered(k)'
  <2>1. /\ \A j \in OpId : Holding(j)' => j = i
        /\ record'.snap = record.snap /\ (record'.mark = "none" <=> record.mark = "none")
        /\ pending'.addresses = A
        /\ Doing' = Doing /\ Wanted' = Wanted
    BY <1>1 DEF Turned, SameRecord, SamePending
  <2>2. record.mark # "none" => L(record.snap) \subseteq Doing \cup Wanted \cup A
    BY <1>0 DEF Covered, RecordCovered, Lag
  <2>3. QED
    BY <1>0, <1>1, <2>1, <2>2, CoveredParts
<1>2. ASSUME \A j \in OpId : ~ Holding(j)',
             L(record'.snap) \subseteq Doing' \cup Wanted' \cup pending'.addresses
      PROVE  Covered(k)'
  BY <1>0, <1>2, CoveredParts
<1>3. \A i \in OpId : Holding(i) => /\ OpCovered(op[i], L(op[i].snap), Wanted, A)
                                    /\ OpDisc(op[i], record.mark = "none", record.snap, A)
  BY <1>0 DEF Covered, HeldCovered, Lag, Disc
<1>4. record.mark # "none" => L(record.snap) \subseteq Doing \cup Wanted \cup A
  BY <1>0 DEF Covered, RecordCovered, Lag
<1>5. ASSUME NEW g \in Generation, SyncConnected(g) PROVE Covered(k)'
  <2>1. /\ g \in OpId /\ Turned(g, op'[g]) /\ listening' = listening /\ SamePending
        /\ op'[g].stage = "reading" /\ ~ op'[g].recovery
        /\ op'[g].full = op[g].full
        /\ op'[g].targeted = IsTargeted(g)
        /\ op'[g].snap = IF IsTargeted(g) THEN record.snap ELSE ScanBase(record.snap)
        /\ op'[g].todo = IF IsTargeted(g) THEN Targets(g) ELSE ScanStart(record.snap)
    BY <1>5, ConnectedTurn
  <2>2. CASE IsTargeted(g)
    <3>1. ~ op[g].full /\ Targets(g) = op[g].only \cup A /\ record.mark # "none"
      BY <2>2 DEF IsTargeted, Targets
    <3>2. Doing = op[g].only
      BY <1>0, <1>5, <3>1, DoingFacts DEF Covers, SyncConnected, Connecting, Running
    <3>3. L(record.snap) \subseteq Wanted \cup Targets(g)
      BY <1>4, <3>1, <3>2
    <3>4. OpCovered(op'[g], L(op'[g].snap), Wanted, A)
      BY <2>1, <2>2, <3>3 DEF OpCovered, Unread
    <3>5. QED
      BY <1>1, <2>1, <3>4
  <2>3. CASE ~ IsTargeted(g)
    <3>1. Retained(record.snap) \cap L(record.snap) = {}
      BY <1>5, <2>3 DEF Missed, LeavesOut, Lag
    <3>2. L(ScanBase(record.snap)) = {}
      BY <1>0, <3>1, ScanBaseFacts DEF LagOf
    <3>3. OpCovered(op'[g], L(op'[g].snap), Wanted, A)
      BY <2>1, <2>3, <3>2 DEF OpCovered
    <3>4. QED
      BY <1>1, <2>1, <3>3
  <2>4. QED
    BY <2>2, <2>3
<1>6. ASSUME NEW g \in Generation, SyncRead(g) PROVE Covered(k)'
  <2>1. /\ g \in OpId /\ Holding(g) /\ Running(g)
        /\ op[g].stage = "reading" /\ op[g].todo = {} /\ ~ op[g].recovery
    BY <1>0, <1>6 DEF Holding, Running, SyncRead, AllRead
  <2>2. L(op[g].snap) \subseteq Wanted
    BY <1>3, <2>1 DEF OpCovered, Unread
  <2>3. CASE op[g].targeted
    <3>1. /\ \A j \in OpId : ~ Holding(j)'
          /\ Wanted \subseteq Doing' \cup Wanted' /\ record'.snap = op[g].snap
      BY <1>6, <2>3, TargetedPublishes
    <3>2. QED
      BY <1>2, <2>2, <3>1
  <2>4. CASE ~ op[g].targeted
    <3>1. /\ g \in OpId /\ Turned(g, op'[g]) /\ listening' = {} /\ pending' = NoPending
          /\ op'[g].stage = "installing" /\ ~ op'[g].recovery
          /\ op'[g].full = op[g].full /\ op'[g].targeted = op[g].targeted
          /\ op'[g].snap = op[g].snap
          /\ op'[g].todo = op[g].snap.known
      BY <1>6, <2>4, SyncReadTurn
    <3>2. /\ \A j \in OpId : Holding(j)' => j = g
          /\ record'.snap = record.snap /\ (record'.mark = "none" <=> record.mark = "none")
          /\ Doing' = Doing /\ Wanted' = Wanted
      BY <3>1 DEF Turned, SameRecord
    <3>3. op[g].full \/ record.mark = "none" \/ A = {}
      BY <1>3, <2>1, <2>4 DEF OpDisc
    <3>4. op[g].full => Doing = Everything
      BY <2>1, DoingFacts DEF Covers
    <3>5. L(record.snap) \subseteq Address
      BY <1>0, LagKnown DEF Snapshot
    <3>6. record.mark # "none" => L(record.snap) \subseteq Doing \cup Wanted
      BY <1>4, <3>3, <3>4, <3>5 DEF Everything
    <3>7. OpCovered(op'[g], L(op'[g].snap), Wanted', pending'.addresses)
      BY <2>2, <3>1, <3>2 DEF OpCovered
    <3>8. QED
      BY <1>0, <3>2, <3>6, <3>7, CoveredParts
  <2>5. QED
    BY <2>3, <2>4
<1>7. ASSUME NEW i \in OpId, NEW a \in Address, ReadAddress(i, a) PROVE Covered(k)'
  <2>1. Holding(i) /\ op[i].stage = "reading" /\ a \in op[i].todo
    BY <1>7 DEF Holding, ReadAddress
  <2>2. /\ Turned(i, op'[i]) /\ listening' = listening /\ SamePending
        /\ op'[i].stage = "reading" /\ op'[i].recovery = op[i].recovery
        /\ op'[i].full = op[i].full /\ op'[i].targeted = op[i].targeted
        /\ op'[i].snap.known = op[i].snap.known \cup {a}
        /\ op'[i].snap.version = [op[i].snap.version EXCEPT ![a] = version[a]]
        /\ op'[i].snap.txs = [op[i].snap.txs EXCEPT ![a] = shown[a]]
        /\ op[i].todo \ {a} \subseteq op'[i].todo
        /\ a \notin op'[i].todo
        /\ op[i].targeted => op'[i].todo \subseteq op[i].todo
    BY <1>7, ReadTurn
  <2>3. OpCovered(op[i], L(op[i].snap), Wanted, A)
    BY <1>3, <2>1
  <2>4. L(op'[i].snap) \subseteq L(op[i].snap) \ {a}
    <3>1. /\ op[i].snap.version \in [Address -> Nat]
          /\ op[i].snap.txs \in [Address -> SUBSET Sighting]
          /\ op[i].snap.known \in SUBSET Address
      BY <1>0 DEF Snapshot
    <3>2. /\ op'[i].snap.version[a] = version[a] /\ op'[i].snap.txs[a] = shown[a]
          /\ \A b \in Address : b # a => /\ op'[i].snap.version[b] = op[i].snap.version[b]
                                         /\ op'[i].snap.txs[b] = op[i].snap.txs[b]
      BY <2>2, <3>1
    <3>3. ~ version[a] < heard[a]
      BY <1>0 DEF Linked
    <3>4. \A b \in L(op'[i].snap) : b # a
      BY <3>2, <3>3 DEF LagOf
    <3>5. \A b \in L(op'[i].snap) : b \in L(op[i].snap)
      BY <2>2, <3>1, <3>2, <3>4 DEF LagOf
    <3>6. QED
      BY <3>4, <3>5
  <2> HIDE DEF L
  <2>5. OpCovered(op'[i], L(op'[i].snap), Wanted, A)
    BY <2>1, <2>2, <2>3, <2>4 DEF OpCovered, Unread
  <2>6. QED
    BY <1>1, <2>2, <2>5
<1>8. ASSUME NEW i \in OpId, NEW a \in Address, SubscribeAddress(i, a) PROVE Covered(k)'
  <2>1. Holding(i) /\ op[i].stage = "installing"
    BY <1>8 DEF Holding, SubscribeAddress
  <2>2. /\ Turned(i, op'[i]) /\ listening' = listening /\ SamePending
        /\ op'[i].stage = "installing" /\ op'[i].recovery = op[i].recovery
        /\ op'[i].full = op[i].full /\ op'[i].targeted = op[i].targeted
        /\ op'[i].snap = op[i].snap
        /\ op'[i].todo = op[i].todo \ {a}
    BY <1>8, SubscribeTurn
  <2>3. OpCovered(op'[i], L(op'[i].snap), Wanted, A)
    BY <1>3, <2>1, <2>2 DEF OpCovered, Unread
  <2>4. QED
    BY <1>1, <2>2, <2>3
<1>9. ASSUME NEW i \in OpId, Installed(i) PROVE Covered(k)'
  <2>1. Holding(i) /\ op[i].stage = "installing"
    BY <1>9 DEF Holding, Installed
  <2>2. /\ \A j \in OpId : ~ Holding(j)'
        /\ Wanted \subseteq Doing' \cup Wanted'
        /\ record'.snap = op[i].snap /\ SamePending
    BY <1>9, InstalledPublishes
  <2>3. L(op[i].snap) \subseteq Wanted \cup A
    BY <1>3, <2>1 DEF OpCovered, Unread
  <2>4. QED
    BY <1>2, <2>2, <2>3 DEF SamePending
<1>10. ASSUME NEW c \in Caller, NEW a \in Address, RecoveryConnected(c, a) PROVE Covered(k)'
  <2>1. /\ c \in OpId /\ Turned(c, op'[c]) /\ listening' = listening /\ SamePending
        /\ op'[c].stage = "reading" /\ op'[c].recovery
        /\ op'[c].snap = IF record.mark = "none"
                         THEN [EmptySnapshot EXCEPT !.session = generation]
                         ELSE record.snap
        /\ op'[c].todo = {a}
    BY <1>10, RecoveryConnectedTurn
  <2>2. L([EmptySnapshot EXCEPT !.session = generation]) = {}
    BY DEF EmptySnapshot, LagOf
  <2>3. Doing = {}
    BY <1>10, <2>1, DoingFacts DEF RecoveryConnected, Running
  <2>4. L(op'[c].snap) \subseteq Wanted \cup A
    BY <1>4, <2>1, <2>2, <2>3
  <2>5. OpCovered(op'[c], L(op'[c].snap), Wanted, A)
    BY <2>1, <2>4 DEF OpCovered
  <2>6. QED
    BY <1>1, <2>1, <2>5
<1>11. ASSUME NEW c \in Caller, RecoveryRead(c) PROVE Covered(k)'
  <2>1. c \in OpId /\ Holding(c) /\ op[c].stage = "reading" /\ op[c].todo = {} /\ op[c].recovery
    BY <1>0, <1>11 DEF Holding, RecoveryRead, AllRead
  <2>2. /\ Turned(c, op'[c]) /\ listening' = {} /\ SamePending
        /\ op'[c].stage = "installing" /\ op'[c].recovery
        /\ op'[c].snap = op[c].snap
    BY <1>11, RecoveryReadTurn
  <2>3. OpCovered(op'[c], L(op'[c].snap), Wanted, A)
    BY <1>3, <2>1, <2>2 DEF OpCovered, Unread
  <2>4. QED
    BY <1>1, <2>1, <2>2, <2>3
<1>12. ASSUME NEW c \in Caller, Relay(c), Current(c) PROVE Covered(k)'
  <2>1. /\ c \in OpId /\ Turned(c, op'[c]) /\ SamePending /\ op'[c].stage = "sent"
    BY <1>12, RelayTurn
  <2>2. OpCovered(op'[c], L(op'[c].snap), Wanted, A)
    BY <2>1 DEF OpCovered
  <2>3. QED
    BY <1>1, <2>1, <2>2
<1>13. ASSUME NEW c \in Caller, NEW t \in WalletTx, StartBroadcast(c, t), syncPromise = NoOp
       PROVE  Covered(k)'
  <2>1. /\ c \in OpId /\ Turned(c, op'[c]) /\ SamePending /\ op'[c].stage = "sending"
    BY <1>13, BroadcastBegins
  <2>2. OpCovered(op'[c], L(op'[c].snap), Wanted, A)
    BY <2>1 DEF OpCovered
  <2>3. QED
    BY <1>1, <2>1, <2>2
<1>14. ASSUME NEW c \in Caller, BroadcastAccepted(c) PROVE Covered(k)'
  <2>1. /\ c \in OpId /\ Holding(c) /\ \A j \in OpId : ~ Holding(j)'
        /\ Wanted \cup Affected(op[c].tx) \subseteq Doing' \cup Wanted'
        /\ record'.snap = op[c].snap /\ op[c].tx \in WalletTx /\ op[c].stage = "sent"
        /\ pending'.addresses = Affected(op[c].tx)
    BY <1>14, BroadcastPublishes
  <2>2. op[c].snap = Projected(record.snap, op[c].tx) /\ record.mark # "none"
    BY <1>3, <2>1 DEF OpDisc
  <2>3. L(op[c].snap) \subseteq L(record.snap) \cup Affected(op[c].tx)
    <3>1. /\ op[c].snap.known = record.snap.known
          /\ op[c].snap.version = record.snap.version
          /\ \A a \in Address :
                a \notin Affected(op[c].tx) => op[c].snap.txs[a] = record.snap.txs[a]
      BY <1>0, <2>1, <2>2, ProjectedFacts
    <3>2. record.snap.known \in SUBSET Address
      BY <1>0 DEF Snapshot
    <3>3. QED
      BY <3>1, <3>2 DEF LagOf
  <2>4. Doing = {}
    BY <2>1, DoingFacts, HoldingRuns
  <2>5. A \subseteq pending'.addresses
    BY <1>14 DEF Missed, Supersedes
  <2>6. L(record.snap) \subseteq Wanted \cup A
    BY <1>4, <2>2, <2>4
  <2> HIDE DEF L
  <2>7. QED
    BY <1>2, <2>1, <2>3, <2>5, <2>6
<1>15. QED
  BY <1>5, <1>6, <1>7, <1>8, <1>9, <1>10, <1>11, <1>12, <1>13, <1>14 DEF Moves

LEMMA CoveredNext ==
    ASSUME "gap" \notin Address, IInv, Tracked, BeginsAlone, Disc, Linked,
           NEW k \in {"heard", "shown"}, k = "shown" => Listening, Covered(k),
           ~ Missed(k), [Next]_vars
    PROVE  Covered(k)'
<1>1. CASE Start \/ Stop
  BY <1>1, SessionsRenew, CoveredParts DEF Renewed
<1>2. CASE Idles
  BY <1>2, IdlesCalm, StillCovers DEF server
<1>3. QED
  BY <1>1, <1>2, Kinds, MovesCover, SignalsCover, FailingCovers

LEMMA CoveredInit == \A k : Init => Covered(k)
BY DEF Init, Covered, RecordCovered, HeldCovered, NoRecord, Holding, IdleOp

LEMMA IdlesCover ==
    ASSUME IInv, Tracked, Disc, NEW k, Covered(k), Idles
    PROVE  Covered(k)'
BY IdlesCalm, StillCovers DEF server

\* At rest nothing is asked for, so nothing lags.
LEMMA RestIsCovered ==
    ASSUME IInv, Tracked, Disc, NEW k, Covered(k), syncPromise = NoOp, connected,
           record.mark # "none", pending.tx = NoTx
    PROVE  Lag(k, record.snap) = {}
<1>1. Doing = {} /\ Wanted = {}
  BY NothingRuns
<1>2. pending.addresses = {}
  BY DEF Disc, RecordDisc
<1>3. QED
  BY <1>1, <1>2 DEF Covered, RecordCovered

\* When one operation runs at a time, the fresh record at rest holds what
\* the listeners, the reconnections and the reorganisations said: requests
\* are merged, deferred and drained, but what they stand for is read before
\* the record is fresh and the controller idle again.  Missed names what
\* drops a request for good: a sync that fails while the link is up, a
\* withheld full scan (walletNetworkController.ts:605), a second broadcast
\* that replaces the first in pendingBroadcast (line 329), and a rescan that
\* keeps an address it does not read.
THEOREM FreshIsCurrent ==
    ASSUME "gap" \notin Address
    PROVE  Spec /\ []SingleFlight /\ [][~ Missed("heard")]_vars => []FreshHoldsSignals
<1> DEFINE J == Disc /\ Linked /\ Covered("heard")
<1>1. Init => J
  BY DiscInit, LinkedInit, CoveredInit
<1>2. IInv /\ Tracked /\ CallIdle /\ J /\ SingleFlight' /\ [Next]_vars
        /\ [~ Missed("heard")]_vars => J'
  <2> SUFFICES ASSUME IInv, Tracked, CallIdle, J, SingleFlight', [Next]_vars,
                      [~ Missed("heard")]_vars
               PROVE  J'
    OBVIOUS
  <2>1. BeginsAlone
    BY StartsAlone
  <2>2. Disc' /\ Linked'
    BY <2>1, DiscNext, LinkedNext
  <2>3. CASE ~ Missed("heard")
    BY <2>1, <2>2, <2>3, CoveredNext
  <2>4. CASE UNCHANGED vars
    BY <2>2, <2>4, IdlesCover DEF Idles
  <2>5. QED
    BY <2>3, <2>4
<1>3. IInv /\ Tracked /\ J => FreshHoldsSignals
  <2> SUFFICES ASSUME IInv, Tracked, J, syncPromise = NoOp, connected,
                      record.mark = "fresh", pending.tx = NoTx,
                      NEW a \in record.snap.known
               PROVE  record.snap.version[a] >= heard[a]
    BY DEF FreshHoldsSignals
  <2>1. Lag("heard", record.snap) = {}
    BY RestIsCovered
  <2>2. ~ record.snap.version[a] < heard[a]
    BY <2>1 DEF Lag, LagOf
  <2>3. record.snap.version[a] \in Nat /\ heard[a] \in Nat
    BY OpFacts DEF Snapshot, IInv, TypeOK
  <2>4. QED
    BY <2>2, <2>3
<1> HIDE DEF J
<1>4. QED
  BY <1>1, <1>2, <1>3, TracksAlone, PTL DEF Spec

(***************************************************************************)
(* The wallet's transactions on the server                                 *)
(***************************************************************************)
\* The mempool and the chain hold no two transactions that spend the same
\* coins, and a transaction is shown for the addresses it touches.
ChainSound ==
    /\ confirmed \subseteq relayed
    /\ \A t, u \in relayed : u \notin Rivals(t)
    /\ \A a \in Address : \A p \in shown[a] : a \in Touches(p[1])

LEMMA RivalFacts ==
    /\ \A t, u \in WalletTx : u \in Rivals(t) <=> t \in Rivals(u)
    /\ \A t \in WalletTx : t \notin Rivals(t)
    /\ \A t, u, r \in WalletTx : ~ (Original[r] = t /\ Original[t] = u)
BY ConstantsAssumption DEF Rivals

LEMMA ChainNext ==
    ASSUME IInv, ChainSound, [Next]_vars
    PROVE  ChainSound'
<1>1. /\ relayed \in SUBSET WalletTx /\ confirmed \in SUBSET WalletTx
      /\ shown \in [Address -> SUBSET Sighting]
  BY DEF IInv, TypeOK
<1>2. CASE UNCHANGED <<relayed, confirmed, shown>>
  BY <1>2 DEF ChainSound
<1>3. ASSUME NEW c \in Caller, Relay(c) PROVE ChainSound'
  <2>1. /\ op[c].tx \in WalletTx
        /\ Rivals(op[c].tx) \cap confirmed = {}
        /\ relayed' = (relayed \ Rivals(op[c].tx)) \cup {op[c].tx}
        /\ UNCHANGED <<confirmed, shown>>
    BY <1>3 DEF Relay, IInv, OpInv, OpId
  <2>2. \A t, u \in relayed' : u \notin Rivals(t)
    BY <1>1, <2>1, RivalFacts DEF ChainSound
  <2>3. QED
    BY <2>1, <2>2 DEF ChainSound
<1>4. ASSUME NEW t \in WalletTx, Confirm(t) PROVE ChainSound'
  <2>1. /\ Rivals(t) \cap confirmed = {}
        /\ relayed' = (relayed \ Rivals(t)) \cup {t} /\ confirmed' = confirmed \cup {t}
        /\ shown' = shown
    BY <1>4 DEF Confirm
  <2>2. \A v, u \in relayed' : u \notin Rivals(v)
    BY <1>1, <2>1, RivalFacts DEF ChainSound
  <2>3. QED
    BY <2>1, <2>2 DEF ChainSound
<1>5. ASSUME NEW a \in Address, IndexAddress(a) PROVE ChainSound'
  <2>1. shown' = [shown EXCEPT ![a] = ServerView(a)] /\ UNCHANGED <<relayed, confirmed>>
    BY <1>5 DEF IndexAddress
  <2>2. \A p \in ServerView(a) : a \in Touches(p[1])
    BY DEF ServerView
  <2>3. \A b \in Address : \A p \in shown'[b] : b \in Touches(p[1])
    BY <1>1, <2>1, <2>2 DEF ChainSound
  <2>4. QED
    BY <2>1, <2>3 DEF ChainSound
<1>6. \/ UNCHANGED <<relayed, confirmed, shown>>
      \/ \E c \in Caller : Relay(c)
      \/ \E t \in WalletTx : Confirm(t)
      \/ \E a \in Address : IndexAddress(a)
  <2>1. ASSUME NEW c \in Caller, CallStep(c)
        PROVE  Relay(c) \/ UNCHANGED <<relayed, confirmed, shown>>
    BY <2>1 DEF CallStep, CallController, Admit, StartBroadcast, RejectBroadcast, Track,
       RejectTrack, StartRecovery, RejectRecovery, RecoveryConnected, RecoveryRead,
       BroadcastAccepted, BroadcastFails, server
  <2>2. ASSUME NEW g \in Generation, SyncStep(g) PROVE UNCHANGED server
    BY <2>2 DEF SyncStep, SyncConnected, SyncUnknown, SyncHidden, SyncRead, ReadMismatch
  <2>3. ASSUME NEW i \in OpId, OperationStep(i) PROVE UNCHANGED server
    BY <2>3 DEF OperationStep, ReadAddress, SubscribeAddress, Installed, OperationFails,
       Abandon
  <2>4. CASE ClientEvent
    BY <2>4 DEF ClientEvent, ChainActivity, NextBlock, Reorganise, LoseConnection, Connect,
       RetryReconciliation, server
  <2>5. CASE Start \/ Stop \/ Refresh \/ UNCHANGED vars
    BY <2>5 DEF Start, Stop, Refresh, vars, server
  <2>6. QED
    BY <2>1, <2>2, <2>3, <2>4, <2>5 DEF Next, server
<1>7. QED
  BY <1>2, <1>3, <1>4, <1>5, <1>6

LEMMA ChainInit == Init => ChainSound
BY DEF Init, ChainSound

(***************************************************************************)
(* The listeners                                                           *)
(***************************************************************************)
LEMMA CalmLive ==
    ASSUME Calm
    PROVE  Live' = Live
<1> DEFINE I == {j \in OpId : op[j].stage = "installing" /\ Current(j)}
<1>1. \A j \in I : Holding(j)
  BY DEF Holding
<1>2. \A j \in OpId : Holding(j)' => Holding(j) /\ op'[j] = op[j]
  BY DEF Calm
<1>3. \A j \in OpId : (op[j].stage = "installing" /\ Current(j))' => Holding(j)'
  BY DEF Holding
<1>4. I' = I
  BY <1>1, <1>2, <1>3 DEF Calm, Current, Holding
<1>5. \A j \in I : op'[j] = op[j]
  BY <1>1 DEF Calm
<1>6. Live = listening \cup UNION {op[i].snap.known \ op[i].todo : i \in I}
  BY DEF Live
<1>7. Live' = listening' \cup UNION {op'[i].snap.known \ op'[i].todo : i \in I'}
  BY DEF Live
<1> HIDE DEF I
<1>8. {op'[i].snap.known \ op'[i].todo : i \in I'} = {op[i].snap.known \ op[i].todo : i \in I}
  BY <1>4, <1>5
<1>9. QED
  BY <1>6, <1>7, <1>8 DEF Calm

LEMMA CalmListening ==
    ASSUME Listening, Calm, connected' => connected
    PROVE  Listening'
<1>1. Live' = Live
  BY CalmLive
<1>2. ASSUME NEW i \in OpId, Holding(i), op[i].stage = "installing"
      PROVE  (Holding(i) /\ op[i].stage = "installing")'
  BY <1>2 DEF Calm
<1>3. QED
  BY <1>1, <1>2 DEF Listening, Calm, SameRecord

LEMMA RestListening ==
    ASSUME IInv', Tracked', \A i \in OpId : ~ Holding(i)',
           connected' /\ record'.mark # "none" =>
               record'.snap.known \subseteq listening' \/ "gap" \in Doing' \cup Wanted'
    PROVE  Listening'
<1>1. ((\A i \in OpId : Holding(i) => op[i].stage # "installing") => Live = listening)'
  BY LiveFacts, PTL
<1>2. QED
  BY <1>1 DEF Listening

\* An operation other than an installation leaves the listeners as they were.
LEMMA NoneInstalling ==
    ASSUME IInv, Tracked, NEW i \in OpId, Running(i), op[i].stage # "installing"
    PROVE  /\ Live = listening
           /\ \A j \in OpId : Holding(j) => op[j].stage # "installing"
           /\ Listening /\ connected /\ record.mark # "none" =>
                 record.snap.known \subseteq listening \/ "gap" \in Doing \cup Wanted
<1>1. \A j \in OpId : Holding(j) => op[j].stage # "installing"
  BY DEF Tracked, Holding, Running
<1>2. Live = listening
  BY <1>1, LiveFacts
<1>3. QED
  BY <1>1, <1>2 DEF Listening

\* The gap is asked for by a full rescan only.
LEMMA TargetedAsksNoGap ==
    ASSUME "gap" \notin Address, IInv, NEW i \in OpId, ~ op[i].full
    PROVE  "gap" \notin Covers(op[i])
<1>1. op[i].only \in SUBSET Address
  BY OpFacts DEF Op
<1>2. QED
  BY <1>1 DEF Covers

LEMMA FailingListening ==
    ASSUME "gap" \notin Address, IInv, IInv', Tracked, Listening, ~ FailsOnline, ~ Withholds,
           Failing
    PROVE  Listening'
<1>1. /\ Tracked' /\ (\A j \in OpId : ~ Holding(j)') /\ Wanted \subseteq Doing' \cup Wanted'
      /\ SameRecord /\ connected' = connected /\ listening' = listening
  BY FailingEnds DEF Ended, link
<1>2. SUFFICES ASSUME connected', record'.mark # "none"
               PROVE  record'.snap.known \subseteq listening' \/ "gap" \in Doing' \cup Wanted'
  BY <1>1, RestListening
<1>3. connected /\ record.mark # "none" /\ record'.snap = record.snap
  BY <1>1, <1>2 DEF SameRecord
<1>4. ASSUME NEW c \in Caller, BroadcastFails(c)
      PROVE  record.snap.known \subseteq listening \/ "gap" \in Wanted
  <2>1. c \in OpId /\ Running(c) /\ op[c].stage # "installing"
    BY <1>4 DEF BroadcastFails, Running, OpId
  <2>2. Doing = {}
    BY <2>1, DoingFacts
  <2>3. QED
    BY <1>3, <2>1, <2>2, NoneInstalling
<1>5. ASSUME NEW g \in Generation, SyncHidden(g)
      PROVE  record.snap.known \subseteq listening \/ "gap" \in Wanted
  <2>1. g \in OpId /\ Running(g) /\ op[g].stage # "installing" /\ ~ op[g].full
    BY <1>5 DEF SyncHidden, AllRead, Running, OpId, Withholds
  <2>2. Doing = Covers(op[g])
    BY <2>1, DoingFacts
  <2>3. QED
    BY <1>3, <2>1, <2>2, NoneInstalling, TargetedAsksNoGap
<1>6. record.snap.known \subseteq listening \/ "gap" \in Wanted
  BY <1>3, <1>4, <1>5 DEF Failing, FailsOnline
<1>7. QED
  BY <1>1, <1>3, <1>6

LEMMA NextLive ==
    ASSUME IInv', Tracked'
    PROVE  ((\A i \in OpId : Holding(i) => op[i].stage # "installing") => Live = listening)'
<1>0. (IInv /\ Tracked)'
  OBVIOUS
<1>1. ((\A i \in OpId : Holding(i) => op[i].stage # "installing") => Live = listening)'
  BY <1>0, LiveFacts, PTL
<1>2. QED
  BY <1>1

LEMMA TurnListening ==
    ASSUME IInv, IInv', Tracked, Listening, connected' = connected,
           NEW i \in OpId, Turned(i, op'[i]),
           \/ op'[i].stage = "installing"
           \/ /\ \A j \in OpId : Holding(j) => op[j].stage # "installing"
              /\ op'[i].stage # "installing" /\ listening' = listening
    PROVE  Listening'
<1>1. /\ Holding(i)' /\ \A j \in OpId : Holding(j)' => j = i
      /\ SameRecord /\ Tracked' /\ Doing' = Doing /\ Wanted' = Wanted
  BY DEF Turned
<1>2. CASE op'[i].stage = "installing"
  BY <1>1, <1>2 DEF Listening
<1>3. CASE /\ \A j \in OpId : Holding(j) => op[j].stage # "installing"
           /\ op'[i].stage # "installing" /\ listening' = listening
  <2>1. Live = listening
    BY <1>3, LiveFacts
  <2>2. ((\A j \in OpId : Holding(j) => op[j].stage # "installing") => Live = listening)'
    BY <1>1, NextLive
  <2>3. (\A j \in OpId : Holding(j) => op[j].stage # "installing")'
    BY <1>1, <1>3
  <2>4. Live' = Live
    BY <1>3, <2>1, <2>2, <2>3
  <2>5. QED
    BY <1>1, <1>3, <2>4 DEF Listening, SameRecord
<1>4. QED
  BY <1>2, <1>3

LEMMA MovesListening ==
    ASSUME "gap" \notin Address, IInv, IInv', Tracked, Tracked', Disc, Listening, Moves
    PROVE  Listening'
<1>0. /\ \A i \in OpId : op[i].snap \in Snapshot
      /\ record.snap \in Snapshot
      /\ Generation \subseteq OpId /\ Caller \subseteq OpId
      /\ connected /\ connected' /\ connected' = connected
  BY OpFacts, OpSnapType, MovesFacts DEF link
<1>1. ASSUME NEW i \in OpId, Turned(i, op'[i]), op'[i].stage = "installing"
      PROVE  Listening'
  BY <1>0, <1>1, TurnListening
<1>2. ASSUME NEW i \in OpId, Turned(i, op'[i]), Running(i), op[i].stage # "installing",
             op'[i].stage # "installing", listening' = listening
      PROVE  Listening'
  BY <1>0, <1>2, NoneInstalling, TurnListening
<1>3. \A i \in OpId : Holding(i) =>
                         OpDisc(op[i], record.mark = "none", record.snap, pending.addresses)
  BY DEF Disc
<1>4. ASSUME NEW i \in OpId, Running(i), op[i].stage # "installing", record.mark # "none",
             "gap" \notin Doing, Wanted \subseteq Doing' \cup Wanted',
             \A j \in OpId : ~ Holding(j)', record'.snap.known = record.snap.known,
             listening' = listening
      PROVE  Listening'
  <2>1. record.snap.known \subseteq listening \/ "gap" \in Doing \cup Wanted
    BY <1>0, <1>4, NoneInstalling
  <2>2. record'.snap.known \subseteq listening' \/ "gap" \in Doing' \cup Wanted'
    BY <1>4, <2>1
  <2>3. QED
    BY <1>4, <2>2, RestListening
<1>5. ASSUME NEW g \in Generation, SyncConnected(g) PROVE Listening'
  <2>1. g \in OpId /\ Running(g) /\ op[g].stage # "installing"
    BY <1>0, <1>5 DEF SyncConnected, Connecting, Running
  <2>2. QED
    BY <1>2, <1>5, <2>1, ConnectedTurn
<1>6. ASSUME NEW g \in Generation, SyncRead(g) PROVE Listening'
  <2>1. /\ g \in OpId /\ Holding(g) /\ Running(g)
        /\ op[g].stage = "reading" /\ op[g].todo = {} /\ ~ op[g].recovery
    BY <1>0, <1>6 DEF Holding, Running, SyncRead, AllRead
  <2>2. CASE op[g].targeted
    <3>1. /\ \A j \in OpId : ~ Holding(j)'
          /\ Wanted \subseteq Doing' \cup Wanted' /\ record'.snap = op[g].snap
          /\ listening' = listening
      BY <1>6, <2>2, TargetedPublishes
    <3>2. ~ op[g].full /\ op[g].snap.known = record.snap.known /\ record.mark # "none"
      BY <1>3, <2>1, <2>2 DEF OpDisc
    <3>3. "gap" \notin Doing
      BY <2>1, <3>2, DoingFacts, TargetedAsksNoGap
    <3>4. QED
      BY <1>4, <2>1, <3>1, <3>2, <3>3
  <2>3. CASE ~ op[g].targeted
    BY <1>1, <1>6, <2>3, SyncReadTurn
  <2>4. QED
    BY <2>2, <2>3
<1>7. ASSUME NEW i \in OpId, NEW a \in Address, ReadAddress(i, a) PROVE Listening'
  <2>1. Running(i) /\ op[i].stage # "installing"
    BY <1>7 DEF ReadAddress, Running
  <2>2. /\ Turned(i, op'[i]) /\ listening' = listening /\ op'[i].stage = "reading"
    BY <1>7, ReadTurn
  <2>3. QED
    BY <1>2, <2>1, <2>2
<1>8. ASSUME NEW i \in OpId, NEW a \in Address, SubscribeAddress(i, a) PROVE Listening'
  <2>1. /\ Turned(i, op'[i]) /\ op'[i].stage = "installing"
    BY <1>8, SubscribeTurn
  <2>2. QED
    BY <1>1, <2>1
<1>9. ASSUME NEW i \in OpId, Installed(i) PROVE Listening'
  BY <1>9, InstalledPublishes, RestListening
<1>10. ASSUME NEW c \in Caller, NEW a \in Address, RecoveryConnected(c, a) PROVE Listening'
  <2>1. c \in OpId /\ Running(c) /\ op[c].stage # "installing"
    BY <1>0, <1>10 DEF RecoveryConnected, Running
  <2>2. /\ Turned(c, op'[c]) /\ listening' = listening /\ op'[c].stage = "reading"
    BY <1>10, RecoveryConnectedTurn
  <2>3. QED
    BY <1>2, <2>1, <2>2
<1>11. ASSUME NEW c \in Caller, RecoveryRead(c) PROVE Listening'
  <2>1. /\ c \in OpId /\ Turned(c, op'[c]) /\ op'[c].stage = "installing"
    BY <1>11, RecoveryReadTurn
  <2>2. QED
    BY <1>1, <2>1
<1>12. ASSUME NEW c \in Caller, Relay(c), Current(c) PROVE Listening'
  <2>1. c \in OpId /\ Running(c) /\ op[c].stage # "installing"
    BY <1>0, <1>12 DEF Relay, Running
  <2>2. /\ Turned(c, op'[c]) /\ listening' = listening /\ op'[c].stage = "sent"
    BY <1>12, RelayTurn
  <2>3. QED
    BY <1>2, <2>1, <2>2
<1>13. ASSUME NEW c \in Caller, NEW t \in WalletTx, StartBroadcast(c, t), syncPromise = NoOp
       PROVE  Listening'
  <2>1. /\ c \in OpId /\ Turned(c, op'[c]) /\ listening' = listening
        /\ op'[c].stage = "sending" /\ \A i \in OpId : ~ Holding(i)
    BY <1>13, BroadcastBegins
  <2>2. QED
    BY <1>0, <2>1, TurnListening
<1>14. ASSUME NEW c \in Caller, BroadcastAccepted(c) PROVE Listening'
  <2>1. /\ c \in OpId /\ Holding(c) /\ \A j \in OpId : ~ Holding(j)'
        /\ Wanted \cup Affected(op[c].tx) \subseteq Doing' \cup Wanted'
        /\ record'.snap = op[c].snap /\ op[c].tx \in WalletTx /\ op[c].stage = "sent"
        /\ listening' = listening
    BY <1>14, BroadcastPublishes
  <2>2. op[c].snap = Projected(record.snap, op[c].tx) /\ record.mark # "none"
    BY <1>3, <2>1 DEF OpDisc
  <2>3. op[c].snap.known = record.snap.known
    BY <1>0, <2>1, <2>2, ProjectedFacts
  <2>4. Doing = {} /\ Running(c)
    BY <2>1, DoingFacts, HoldingRuns
  <2>5. QED
    BY <1>4, <2>1, <2>2, <2>3, <2>4
<1>15. QED
  BY <1>5, <1>6, <1>7, <1>8, <1>9, <1>10, <1>11, <1>12, <1>13, <1>14 DEF Moves

LEMMA ListeningNext ==
    ASSUME "gap" \notin Address, IInv, IInv', Tracked, Tracked', BeginsAlone, Disc, Linked,
           Listening, ~ FailsOnline, ~ Withholds, [Next]_vars
    PROVE  Listening'
<1>1. CASE Start \/ Stop
  BY <1>1, SessionsRenew DEF Renewed, Listening
<1>2. CASE Idles
  BY <1>2, IdlesCalm, CalmListening
<1>3. CASE Signals
  <2>1. CASE ~ Connect
    <3>1. connected' = connected
      BY <1>3, <2>1 DEF Signals, ChainActivity, IndexAddress, Confirm, Relay, Reorganise, link
    <3>2. QED
      BY <1>3, <3>1, SignalsCalm, CalmListening
  <2>2. CASE Connect /\ everConnected
    BY <2>2, ConnectCalm DEF Listening, Everything
  <2>3. CASE Connect /\ ~ everConnected
    BY <2>3, ConnectCalm DEF Linked, Calm, SameRecord, Listening
  <2>4. QED
    BY <2>1, <2>2, <2>3
<1>4. QED
  BY <1>1, <1>2, <1>3, Kinds, MovesListening, FailingListening

LEMMA ListeningInit == Init => Listening
BY DEF Init, Listening

(***************************************************************************)
(* The reconciliation of a broadcast                                       *)
(***************************************************************************)
\* What the server shows reconciles t: t is there, or what it replaces is
\* confirmed.
Reconciled(v, t) ==
    \/ Visible([txs |-> v], t)
    \/ Original[t] # NoTx /\ ConfirmedIn([txs |-> v], Original[t])

\* While the server shows what settles the broadcast, some address it
\* affects is asked for; a rescan that installs its listeners settled it.
Announced ==
    /\ connected /\ pending.tx # NoTx /\ Reconciled(shown, pending.tx) =>
          pending.addresses \cap (Doing \cup Wanted) # {}
    /\ \A g \in Generation : Holding(g) /\ op[g].stage = "installing" => pending.tx = NoTx

\* Snapshots that agree on the affected addresses reconcile the same.
LEMMA ReconciledAgrees ==
    ASSUME NEW t \in WalletTx, NEW u, NEW v,
           \A a \in Affected(t) : u[a] = v[a],
           \A a \in Address : \A p \in u[a] : a \in Touches(p[1]),
           Reconciled(u, t)
    PROVE  Reconciled(v, t)
<1>1. CASE Visible([txs |-> u], t)
  <2>1. \A a \in Touches(t) : u[a] = v[a]
    BY DEF Affected
  <2>2. Visible([txs |-> v], t)
    BY <1>1, <2>1 DEF Visible, Spent, Shows, Touches
  <2>3. QED
    BY <2>2 DEF Reconciled
<1>2. CASE Original[t] # NoTx /\ ConfirmedIn([txs |-> u], Original[t])
  <2>1. PICK a \in Address : <<Original[t], TRUE>> \in u[a]
    BY <1>2 DEF ConfirmedIn
  <2>2. a \in Affected(t)
    BY <1>2, <2>1 DEF Affected
  <2>3. QED
    BY <1>2, <2>1, <2>2 DEF Reconciled, ConfirmedIn
<1>3. QED
  BY <1>1, <1>2 DEF Reconciled

LEMMA UnreconciledSnap ==
    ASSUME NEW s, Unreconciled(s)
    PROVE  pending.tx # NoTx /\ ~ Reconciled(s.txs, pending.tx)
BY DEF Unreconciled, Reconciled, Visible, Spent, Shows, ConfirmedIn

LEMMA CalmAnnounced ==
    ASSUME Announced, Calm, connected' => connected, shown' = shown
    PROVE  Announced'
<1>1. /\ pending'.tx = pending.tx /\ pending'.addresses = pending.addresses
      /\ Doing \cup Wanted \subseteq Doing' \cup Wanted'
      /\ \A i \in OpId : Holding(i)' => Holding(i) /\ op'[i] = op[i]
      /\ Generation \subseteq OpId
  BY DEF Calm, SamePending, OpId
<1>2. Reconciled(shown, pending.tx)' => Reconciled(shown, pending.tx)
  BY <1>1
<1>3. QED
  BY <1>1, <1>2 DEF Announced

LEMMA IndexAnnounced ==
    ASSUME "gap" \notin Address, IInv, Tracked, Disc, Listening, ChainSound, ChainSound',
           Announced, NEW a \in Address, IndexAddress(a), ~ LateChange(a)
    PROVE  Announced'
<1>1. /\ Notify(a) /\ shown' = [shown EXCEPT ![a] = ServerView(a)]
      /\ UNCHANGED <<generation, listening, record, pendingReorg>>
      /\ connected' = connected /\ shown \in [Address -> SUBSET Sighting]
      /\ pending.tx \in WalletTx \cup {NoTx}
  BY DEF IndexAddress, link, IInv, TypeOK, Pending
<1>2. /\ Calm
      /\ connected /\ a \in Live => a \in Doing' \cup Wanted'
  BY <1>1, NotifyCalm
<1>3. /\ pending'.tx = pending.tx /\ pending'.addresses = pending.addresses
      /\ Doing \cup Wanted \subseteq Doing' \cup Wanted'
      /\ \A i \in OpId : Holding(i)' => Holding(i) /\ op'[i] = op[i]
      /\ Generation \subseteq OpId
  BY <1>2 DEF Calm, SamePending, OpId
<1>4. ASSUME connected, pending.tx # NoTx, Reconciled(shown', pending.tx)
      PROVE  pending.addresses \cap (Doing' \cup Wanted') # {}
  <2>1. CASE Reconciled(shown, pending.tx)
    BY <1>3, <1>4, <2>1 DEF Announced
  <2>2. CASE ~ Reconciled(shown, pending.tx)
    <3>1. /\ record.mark # "none" /\ pending.addresses = Affected(pending.tx)
          /\ pending.addresses \subseteq record.snap.known
      BY <1>4 DEF Disc, RecordDisc
    <3>2. a \in Affected(pending.tx)
      <4>1. SUFFICES ASSUME a \notin Affected(pending.tx) PROVE FALSE
        OBVIOUS
      <4>2. \A b \in Affected(pending.tx) : shown'[b] = shown[b]
        BY <1>1, <1>4, <4>1, AffectedType
      <4>3. \A b \in Address : \A p \in shown'[b] : b \in Touches(p[1])
        BY DEF ChainSound
      <4>4. Reconciled(shown, pending.tx)
        BY <1>1, <1>4, <4>2, <4>3, ReconciledAgrees
      <4>5. QED
        BY <2>2, <4>4
    <3>3. a \in Doing' \cup Wanted'
      <4>1. CASE a \in Live
        BY <1>2, <1>4, <4>1
      <4>2. CASE a \notin Live
        BY <1>3, <1>4, <3>1, <3>2, <4>2, UnheardIsAsked
      <4>3. QED
        BY <4>1, <4>2
    <3>4. QED
      BY <3>1, <3>2, <3>3
  <2>3. QED
    BY <2>1, <2>2
<1>5. Reconciled(shown, pending.tx)' => Reconciled(shown', pending.tx)
  BY <1>3
<1>6. QED
  BY <1>1, <1>3, <1>4, <1>5 DEF Announced

\* A scan that is withheld saw less than the server shows now, so that what
\* changed since is asked for.
LEMMA HiddenAnnounced ==
    ASSUME IInv, Tracked, Disc, ChainSound, Covered("shown"), NEW g \in Generation,
           SyncHidden(g), connected, Reconciled(shown, pending.tx)
    PROVE  pending.addresses \cap Wanted # {}
<1>1. /\ g \in OpId /\ Holding(g) /\ op[g].stage = "reading" /\ op[g].todo = {}
      /\ ~ op[g].recovery /\ Unreconciled(op[g].snap)
  BY DEF OpId, Holding, SyncHidden, AllRead
<1>2. /\ pending.tx # NoTx /\ ~ Reconciled(op[g].snap.txs, pending.tx)
      /\ pending.tx \in WalletTx
  BY <1>1, UnreconciledSnap DEF IInv, TypeOK, Pending
<1>3. /\ pending.addresses = Affected(pending.tx)
      /\ pending.addresses \subseteq op[g].snap.known
  BY <1>1, <1>2 DEF Disc, RecordDisc, OpDisc, Unread
<1>4. Lag("shown", op[g].snap) \subseteq Wanted
  BY <1>1 DEF Covered, HeldCovered, OpCovered, Unread
<1>5. SUFFICES ASSUME pending.addresses \cap Wanted = {} PROVE FALSE
  OBVIOUS
<1>6. \A a \in Affected(pending.tx) : shown[a] = op[g].snap.txs[a]
  BY <1>3, <1>4, <1>5 DEF Lag, LagOf
<1>7. Reconciled(op[g].snap.txs, pending.tx)
  BY <1>2, <1>6, ReconciledAgrees DEF ChainSound
<1>8. QED
  BY <1>2, <1>7

LEMMA FailingAnnounced ==
    ASSUME IInv, Tracked, Disc, ChainSound, Covered("shown"), Announced,
           ~ FailsOnline, Failing
    PROVE  Announced'
<1>1. /\ \A j \in OpId : ~ Holding(j)'
      /\ Wanted \subseteq Doing' \cup Wanted' /\ SamePending
      /\ shown' = shown /\ connected' = connected /\ Generation \subseteq OpId
  BY OpFacts, FailingEnds DEF Ended, link, server
<1>2. /\ pending'.tx = pending.tx /\ pending'.addresses = pending.addresses
  BY <1>1 DEF SamePending
<1>3. ASSUME connected, pending.tx # NoTx, Reconciled(shown, pending.tx)
      PROVE  pending.addresses \cap Wanted # {}
  <2>1. ASSUME NEW g \in Generation, SyncHidden(g)
        PROVE  pending.addresses \cap Wanted # {}
    BY <1>3, <2>1, HiddenAnnounced
  <2>2. ASSUME NEW c \in Caller, BroadcastFails(c)
        PROVE  pending.addresses \cap Wanted # {}
    <3>1. Doing = {}
      BY <2>2, DoingFacts DEF BroadcastFails, Running, OpId
    <3>2. QED
      BY <1>3, <3>1 DEF Announced
  <2>3. QED
    BY <1>3, <2>1, <2>2 DEF Failing, FailsOnline
<1>4. Reconciled(shown, pending.tx)' => Reconciled(shown, pending.tx)
  BY <1>1, <1>2
<1>5. QED
  BY <1>1, <1>2, <1>3, <1>4 DEF Announced

LEMMA MovesAnnounced ==
    ASSUME IInv, Tracked, Disc, Announced, Moves
    PROVE  Announced'
<1>0. /\ Generation \subseteq OpId /\ Caller \subseteq OpId /\ Caller \cap Generation = {}
      /\ connected /\ shown' = shown
      /\ NoPending.tx = NoTx
  BY OpFacts, MovesFacts DEF NoPending
<1>1. ASSUME NEW i \in OpId, Turned(i, op'[i]), SamePending,
             op'[i].stage = "installing" => \/ i \in Caller
                                            \/ Holding(i) /\ op[i].stage = "installing"
      PROVE  Announced'
  <2>1. /\ \A j \in OpId : Holding(j)' => j = i
        /\ pending'.tx = pending.tx /\ pending'.addresses = pending.addresses
        /\ Doing' = Doing /\ Wanted' = Wanted
    BY <1>1 DEF Turned, SamePending
  <2>2. Reconciled(shown, pending.tx)' => Reconciled(shown, pending.tx)
    BY <1>0, <2>1
  <2>3. QED
    BY <1>0, <1>1, <2>1, <2>2 DEF Announced
<1>2. ASSUME \A j \in OpId : ~ Holding(j)',
             pending'.tx # NoTx /\ Reconciled(shown, pending'.tx) =>
                 pending'.addresses \cap (Doing' \cup Wanted') # {}
      PROVE  Announced'
  BY <1>0, <1>2 DEF Announced
<1>3. ASSUME NEW g \in Generation, SyncConnected(g) PROVE Announced'
  <2>1. g \in OpId /\ Turned(g, op'[g]) /\ SamePending /\ op'[g].stage = "reading"
    BY <1>3, ConnectedTurn
  <2>2. QED
    BY <1>1, <2>1
<1>4. ASSUME NEW g \in Generation, SyncRead(g) PROVE Announced'
  BY <1>0, <1>4 DEF SyncRead, ClearReconciliation, Announced
<1>5. ASSUME NEW i \in OpId, NEW a \in Address, ReadAddress(i, a) PROVE Announced'
  <2>1. Turned(i, op'[i]) /\ SamePending /\ op'[i].stage = "reading"
    BY <1>5, ReadTurn
  <2>2. QED
    BY <1>1, <2>1
<1>6. ASSUME NEW i \in OpId, NEW a \in Address, SubscribeAddress(i, a) PROVE Announced'
  <2>1. Turned(i, op'[i]) /\ SamePending
    BY <1>6, SubscribeTurn
  <2>2. Holding(i) /\ op[i].stage = "installing"
    BY <1>6 DEF Holding, SubscribeAddress
  <2>3. QED
    BY <1>1, <2>1, <2>2
<1>7. ASSUME NEW i \in OpId, Installed(i) PROVE Announced'
  <2>1. /\ Holding(i) /\ op[i].stage = "installing" /\ Running(i)
    BY <1>7, HoldingRuns DEF Holding, Installed
  <2>2. /\ \A j \in OpId : ~ Holding(j)'
        /\ Wanted \subseteq Doing' \cup Wanted' /\ SamePending
    BY <1>7, InstalledPublishes
  <2>3. CASE i \in Generation
    BY <1>2, <2>1, <2>2, <2>3 DEF Announced, SamePending
  <2>4. CASE i \in Caller
    <3>1. Doing = {}
      BY <2>1, <2>4, DoingFacts
    <3>2. pending'.tx = pending.tx /\ pending'.addresses = pending.addresses
      BY <2>2 DEF SamePending
    <3>3. pending'.tx # NoTx /\ Reconciled(shown, pending'.tx) =>
              pending'.addresses \cap (Doing' \cup Wanted') # {}
      BY <1>0, <2>2, <3>1, <3>2 DEF Announced
    <3>4. QED
      BY <1>2, <2>2, <3>3
  <2>5. QED
    BY <2>3, <2>4 DEF OpId
<1>8. ASSUME NEW c \in Caller, NEW a \in Address, RecoveryConnected(c, a) PROVE Announced'
  <2>1. c \in OpId /\ Turned(c, op'[c]) /\ SamePending
    BY <1>8, RecoveryConnectedTurn
  <2>2. op'[c].stage = "installing" => \/ c \in Caller
                                       \/ Holding(c) /\ op[c].stage = "installing"
    BY <1>8
  <2>3. QED
    BY <1>1, <2>1, <2>2
<1>9. ASSUME NEW c \in Caller, RecoveryRead(c) PROVE Announced'
  <2>1. c \in OpId /\ Turned(c, op'[c]) /\ SamePending
    BY <1>9, RecoveryReadTurn
  <2>2. op'[c].stage = "installing" => \/ c \in Caller
                                       \/ Holding(c) /\ op[c].stage = "installing"
    BY <1>9
  <2>3. QED
    BY <1>1, <2>1, <2>2
<1>10. ASSUME NEW c \in Caller, Relay(c), Current(c) PROVE Announced'
  <2>1. c \in OpId /\ Turned(c, op'[c]) /\ SamePending
    BY <1>10, RelayTurn
  <2>2. op'[c].stage = "installing" => \/ c \in Caller
                                       \/ Holding(c) /\ op[c].stage = "installing"
    BY <1>10
  <2>3. QED
    BY <1>1, <2>1, <2>2
<1>11. ASSUME NEW c \in Caller, NEW t \in WalletTx, StartBroadcast(c, t), syncPromise = NoOp
       PROVE  Announced'
  <2>1. c \in OpId /\ Turned(c, op'[c]) /\ SamePending
    BY <1>11, BroadcastBegins
  <2>2. op'[c].stage = "installing" => \/ c \in Caller
                                       \/ Holding(c) /\ op[c].stage = "installing"
    BY <1>11
  <2>3. QED
    BY <1>1, <2>1, <2>2
<1>12. ASSUME NEW c \in Caller, BroadcastAccepted(c) PROVE Announced'
  <2>1. /\ \A j \in OpId : ~ Holding(j)'
        /\ Affected(op[c].tx) \subseteq Doing' \cup Wanted'
        /\ op[c].tx \in WalletTx /\ pending'.addresses = Affected(op[c].tx)
    BY <1>12, BroadcastPublishes
  <2>2. Affected(op[c].tx) # {}
    BY <2>1, AffectedType
  <2>3. QED
    BY <1>2, <2>1, <2>2
<1>13. QED
  BY <1>3, <1>4, <1>5, <1>6, <1>7, <1>8, <1>9, <1>10, <1>11, <1>12 DEF Moves

LEMMA AnnouncedNext ==
    ASSUME "gap" \notin Address, IInv, Tracked, BeginsAlone, Disc, Linked, Listening,
           ChainSound, ChainSound', Covered("shown"), Announced,
           ~ FailsOnline, \A a \in Address : ~ LateChange(a), [Next]_vars
    PROVE  Announced'
<1>1. CASE Start \/ Stop
  BY <1>1, SessionsRenew, OpFacts DEF Renewed, Announced, NoPending
<1>2. CASE Idles
  BY <1>2, IdlesCalm, CalmAnnounced DEF server
<1>3. CASE Signals
  <2>1. Calm
    BY <1>3, SignalsCalm
  <2>2. CASE \E a \in Address : IndexAddress(a)
    BY <2>2, IndexAnnounced
  <2>3. CASE Connect
    <3>1. CASE everConnected
      <4>1. Everything \subseteq Doing' \cup Wanted' /\ SamePending /\ shown' = shown
        BY <2>3, <3>1, ConnectCalm DEF Calm, Connect, server
      <4>2. pending.tx # NoTx => pending.addresses # {} /\ pending.addresses \subseteq Address
        BY AffectedType DEF Disc, RecordDisc, IInv, TypeOK, Pending
      <4>3. \A i \in OpId : Holding(i)' => Holding(i) /\ op'[i] = op[i]
        BY <2>1 DEF Calm
      <4>4. QED
        BY <4>1, <4>2, <4>3, OpFacts DEF Announced, Everything, SamePending
    <3>2. CASE ~ everConnected
      <4>1. pending.tx = NoTx
        BY <3>2 DEF Linked, Disc, RecordDisc
      <4>2. pending'.tx = NoTx
        BY <2>1, <4>1 DEF Calm, SamePending
      <4>3. QED
        BY <4>2 DEF Announced
    <3>3. QED
      BY <3>1, <3>2
  <2>4. CASE ~ Connect /\ ~ \E a \in Address : IndexAddress(a)
    <3>1. shown' = shown /\ connected' = connected
      BY <1>3, <2>4 DEF Signals, ChainActivity, Confirm, Relay, Reorganise, link
    <3>2. QED
      BY <2>1, <3>1, CalmAnnounced
  <2>5. QED
    BY <2>2, <2>3, <2>4
<1>4. QED
  BY <1>1, <1>2, <1>3, Kinds, MovesAnnounced, FailingAnnounced

LEMMA AnnouncedInit == Init => Announced
BY OpFacts DEF Init, Announced, NoPending, Holding, IdleOp, OpId

\* The server has t, or the chain has what t was to replace.
Served(t) == t \in relayed \/ Original[t] \in confirmed

\* The broadcast being reconciled is served, or the one that takes its place
\* is on its way; what was sent and is not yet answered is served.
Serves ==
    /\ pending.tx # NoTx =>
          \/ Served(pending.tx)
          \/ \E i \in OpId : /\ Holding(i) /\ op[i].stage = "sent"
                             /\ op[i].tx \in Rivals(pending.tx)
    /\ \A i \in OpId : Holding(i) /\ op[i].stage = "sent" => Served(op[i].tx)

\* A broadcast that fails after the server took it, or one of an earlier
\* session that the server takes now: the wallet does not know of it.
LostAnswer ==
    \E c \in Caller : \/ BroadcastFails(c) /\ op[c].stage = "sent"
                      \/ Relay(c) /\ ~ Current(c)

LEMMA CalmServes ==
    ASSUME IInv, Serves, Calm,
           \A t \in WalletTx : Served(t) => t \in relayed' \/ Original[t] \in confirmed'
    PROVE  Serves'
<1>1. /\ pending'.tx = pending.tx
      /\ \A i \in OpId : Holding(i)' <=> Holding(i)
      /\ \A i \in OpId : Holding(i) => op'[i] = op[i]
  BY DEF Calm, SamePending
<1>2. pending.tx # NoTx => pending.tx \in WalletTx
  BY DEF IInv, TypeOK, Pending
<1>3. \A i \in OpId : Holding(i) /\ op[i].stage = "sent" => op[i].tx \in WalletTx
  BY DEF IInv, OpInv, Holding
<1>4. pending'.tx # NoTx =>
          \/ pending'.tx \in relayed' \/ Original[pending'.tx] \in confirmed'
          \/ \E i \in OpId : /\ Holding(i)' /\ op'[i].stage = "sent"
                             /\ op'[i].tx \in Rivals(pending'.tx)
  BY <1>1, <1>2 DEF Serves
<1>5. \A i \in OpId : Holding(i)' /\ op'[i].stage = "sent" =>
          op'[i].tx \in relayed' \/ Original[op'[i].tx] \in confirmed'
  BY <1>1, <1>3 DEF Serves
<1>6. QED
  BY <1>4, <1>5 DEF Serves, Served, Rivals

\* A step after which no broadcast waits for its answer.
LEMMA SettledServes ==
    ASSUME \A i \in OpId : Holding(i)' => op'[i].stage # "sent",
           pending'.tx # NoTx => pending'.tx \in relayed' \/ Original[pending'.tx] \in confirmed'
    PROVE  Serves'
BY DEF Serves, Served

\* An operation other than a broadcast that was sent leaves no other to be so.
LEMMA NoneSent ==
    ASSUME Tracked, Serves, NEW i \in OpId, Running(i), op[i].stage # "sent"
    PROVE  /\ \A j \in OpId : Holding(j) => op[j].stage # "sent"
           /\ pending.tx # NoTx => Served(pending.tx)
<1>1. \A j \in OpId : Holding(j) => op[j].stage # "sent"
  BY DEF Tracked, Holding, Running
<1>2. QED
  BY <1>1 DEF Serves

\* The chain takes a transaction, or the one it was to replace: of two rivals
\* that leaves one served by the other's confirmation.
LEMMA ConfirmServes ==
    ASSUME IInv, ChainSound, Serves, Calm, NEW t \in WalletTx, Confirm(t)
    PROVE  Serves'
<1>1. /\ relayed \in SUBSET WalletTx
      /\ relayed' = (relayed \ Rivals(t)) \cup {t} /\ confirmed' = confirmed \cup {t}
      /\ t \in relayed \cup {u \in WalletTx : \E r \in relayed : Original[r] = u}
  BY DEF IInv, TypeOK, Confirm
<1>2. ASSUME NEW u \in WalletTx, u \in relayed, u \in Rivals(t), Original[u] # t
      PROVE  FALSE
  <2>1. Original[t] = u
    BY <1>2 DEF Rivals
  <2>2. t \notin relayed
    BY <1>2 DEF ChainSound
  <2>3. PICK r \in relayed : Original[r] = t
    BY <1>1, <2>2
  <2>4. QED
    BY <1>1, <2>1, <2>3, RivalFacts
<1>3. \A u \in WalletTx : Served(u) => u \in relayed' \/ Original[u] \in confirmed'
  BY <1>1, <1>2 DEF Served
<1>4. QED
  BY <1>3, CalmServes

LEMMA RelayServes ==
    ASSUME IInv, Tracked, Serves, NEW c \in Caller, Relay(c), Current(c)
    PROVE  Serves'
<1>1. /\ c \in OpId /\ Turned(c, op'[c]) /\ SamePending
      /\ op'[c].stage = "sent" /\ op'[c].tx = op[c].tx
  BY RelayTurn
<1>2. Running(c) /\ op[c].stage # "sent" /\ op[c].tx \in WalletTx
  BY <1>1 DEF Relay, Running, IInv, OpInv
<1>3. /\ relayed' = (relayed \ Rivals(op[c].tx)) \cup {op[c].tx} /\ confirmed' = confirmed
      /\ pending'.tx = pending.tx
      /\ pending.tx # NoTx => pending.tx \in WalletTx
  BY <1>1 DEF Relay, SamePending, IInv, TypeOK, Pending
<1>4. Holding(c)' /\ \A j \in OpId : Holding(j)' => j = c
  BY <1>1 DEF Turned
<1>5. pending.tx # NoTx => Served(pending.tx)
  BY <1>1, <1>2, NoneSent
<1>6. pending'.tx # NoTx =>
          \/ pending'.tx \in relayed' \/ Original[pending'.tx] \in confirmed'
          \/ op'[c].tx \in Rivals(pending'.tx)
  BY <1>1, <1>2, <1>3, <1>5, RivalFacts DEF Served
<1>7. op'[c].tx \in relayed'
  BY <1>1, <1>3
<1>8. QED
  BY <1>1, <1>4, <1>6, <1>7 DEF Serves, Served, Rivals

LEMMA MovesServes ==
    ASSUME IInv, Tracked, Serves, Moves
    PROVE  Serves'
<1>0. /\ Generation \subseteq OpId /\ Caller \subseteq OpId
      /\ confirmed' = confirmed /\ NoPending.tx = NoTx
  BY OpFacts, MovesFacts DEF NoPending
<1>1. ASSUME NEW i \in OpId, Turned(i, op'[i]), SamePending, op'[i].stage # "sent",
             relayed' = relayed, pending.tx # NoTx => Served(pending.tx)
      PROVE  Serves'
  <2>1. (\A j \in OpId : Holding(j)' => j = i) /\ pending'.tx = pending.tx
    BY <1>1 DEF Turned, SamePending
  <2>2. QED
    BY <1>0, <1>1, <2>1, SettledServes DEF Served
<1>2. ASSUME NEW i \in OpId, Running(i), op[i].stage # "sent"
      PROVE  pending.tx # NoTx => Served(pending.tx)
  BY <1>2, NoneSent
<1>3. ASSUME NEW g \in Generation, SyncConnected(g) PROVE Serves'
  <2>1. /\ g \in OpId /\ Turned(g, op'[g]) /\ SamePending /\ op'[g].stage = "reading"
    BY <1>3, ConnectedTurn
  <2>2. Running(g) /\ op[g].stage # "sent" /\ relayed' = relayed
    BY <1>3 DEF SyncConnected, Connecting, Running, server
  <2>3. QED
    BY <1>1, <1>2, <2>1, <2>2
<1>4. ASSUME NEW g \in Generation, SyncRead(g) PROVE Serves'
  <2>1. pending' = NoPending
    BY <1>4 DEF SyncRead, ClearReconciliation
  <2>2. CASE op[g].targeted
    BY <1>0, <1>4, <2>1, <2>2, TargetedPublishes, SettledServes
  <2>3. CASE ~ op[g].targeted
    BY <1>0, <1>4, <2>1, <2>3, SyncReadTurn, SettledServes DEF Turned
  <2>4. QED
    BY <2>2, <2>3
<1>5. ASSUME NEW i \in OpId, NEW a \in Address, ReadAddress(i, a) PROVE Serves'
  <2>1. Turned(i, op'[i]) /\ SamePending /\ op'[i].stage = "reading"
    BY <1>5, ReadTurn
  <2>2. Running(i) /\ op[i].stage # "sent" /\ relayed' = relayed
    BY <1>5 DEF ReadAddress, Running, server
  <2>3. QED
    BY <1>1, <1>2, <2>1, <2>2
<1>6. ASSUME NEW i \in OpId, NEW a \in Address, SubscribeAddress(i, a) PROVE Serves'
  <2>1. Turned(i, op'[i]) /\ SamePending /\ op'[i].stage = "installing"
    BY <1>6, SubscribeTurn
  <2>2. Running(i) /\ op[i].stage # "sent" /\ relayed' = relayed
    BY <1>6 DEF SubscribeAddress, Running, server
  <2>3. QED
    BY <1>1, <1>2, <2>1, <2>2
<1>7. ASSUME NEW i \in OpId, Installed(i) PROVE Serves'
  <2>1. (\A j \in OpId : ~ Holding(j)') /\ pending'.tx = pending.tx
    BY <1>7, InstalledPublishes DEF SamePending
  <2>2. Running(i) /\ op[i].stage # "sent" /\ relayed' = relayed
    BY <1>7 DEF Installed, Running, server
  <2>3. QED
    BY <1>0, <1>2, <2>1, <2>2, SettledServes DEF Served
<1>8. ASSUME NEW c \in Caller, NEW a \in Address, RecoveryConnected(c, a) PROVE Serves'
  <2>1. c \in OpId /\ Turned(c, op'[c]) /\ SamePending /\ op'[c].stage = "reading"
    BY <1>8, RecoveryConnectedTurn
  <2>2. Running(c) /\ op[c].stage # "sent" /\ relayed' = relayed
    BY <1>8 DEF RecoveryConnected, Running, server
  <2>3. QED
    BY <1>1, <1>2, <2>1, <2>2
<1>9. ASSUME NEW c \in Caller, RecoveryRead(c) PROVE Serves'
  <2>1. c \in OpId /\ Turned(c, op'[c]) /\ SamePending /\ op'[c].stage = "installing"
    BY <1>9, RecoveryReadTurn
  <2>2. Running(c) /\ op[c].stage # "sent" /\ relayed' = relayed
    BY <1>9 DEF RecoveryRead, AllRead, Running, server
  <2>3. QED
    BY <1>1, <1>2, <2>1, <2>2
<1>10. ASSUME NEW c \in Caller, Relay(c), Current(c) PROVE Serves'
  BY <1>10, RelayServes
<1>11. ASSUME NEW c \in Caller, NEW t \in WalletTx, StartBroadcast(c, t), syncPromise = NoOp
       PROVE  Serves'
  <2>1. /\ c \in OpId /\ Turned(c, op'[c]) /\ SamePending /\ op'[c].stage = "sending"
        /\ \A i \in OpId : ~ Holding(i)
    BY <1>11, BroadcastBegins
  <2>2. relayed' = relayed
    BY <1>11 DEF StartBroadcast, server
  <2>3. pending.tx # NoTx => Served(pending.tx)
    BY <2>1 DEF Serves
  <2>4. QED
    BY <1>1, <2>1, <2>2, <2>3
<1>12. ASSUME NEW c \in Caller, BroadcastAccepted(c) PROVE Serves'
  <2>1. /\ c \in OpId /\ Holding(c) /\ \A j \in OpId : ~ Holding(j)'
        /\ op[c].stage = "sent" /\ pending'.tx = op[c].tx
    BY <1>12, BroadcastPublishes
  <2>2. relayed' = relayed
    BY <1>12 DEF BroadcastAccepted, server
  <2>3. Served(op[c].tx)
    BY <2>1 DEF Serves
  <2>4. QED
    BY <1>0, <2>1, <2>2, <2>3, SettledServes DEF Served
<1>13. QED
  BY <1>3, <1>4, <1>5, <1>6, <1>7, <1>8, <1>9, <1>10, <1>11, <1>12 DEF Moves

LEMMA FailingServes ==
    ASSUME IInv, Tracked, Serves, ~ LostAnswer, Failing
    PROVE  Serves'
<1>1. /\ (\A j \in OpId : ~ Holding(j)') /\ pending'.tx = pending.tx
      /\ UNCHANGED <<relayed, confirmed>>
  BY FailingEnds DEF Ended, SamePending, server
<1>2. PICK i \in OpId : Running(i) /\ op[i].stage # "sent"
  <2>1. CASE \E i \in OpId : OperationFails(i)
    BY <2>1 DEF OperationFails, Running
  <2>2. CASE \E g \in Generation : SyncUnknown(g) \/ SyncHidden(g) \/ ReadMismatch(g)
    BY <2>2, OpFacts DEF SyncUnknown, Connecting, SyncHidden, AllRead, ReadMismatch, Running
  <2>3. CASE \E c \in Caller : BroadcastFails(c)
    BY <2>3, OpFacts DEF BroadcastFails, Running, LostAnswer
  <2>4. QED
    BY <2>1, <2>2, <2>3 DEF Failing
<1>3. pending.tx # NoTx => Served(pending.tx)
  BY <1>2, NoneSent
<1>4. QED
  BY <1>1, <1>3, SettledServes DEF Served

LEMMA ServesNext ==
    ASSUME IInv, Tracked, BeginsAlone, ChainSound, Serves, ~ LostAnswer, [Next]_vars
    PROVE  Serves'
<1>1. CASE Start \/ Stop
  BY <1>1, SessionsRenew, SettledServes DEF Renewed, NoPending
<1>2. CASE Idles
  BY <1>2, IdlesCalm, CalmServes DEF server, Served
<1>3. CASE Signals
  <2>1. Calm
    BY <1>3, SignalsCalm
  <2>2. CASE \E t \in WalletTx : Confirm(t)
    BY <2>1, <2>2, ConfirmServes
  <2>3. CASE \E c \in Caller : Relay(c) /\ ~ Current(c)
    BY <2>3 DEF LostAnswer
  <2>4. CASE Connect \/ Reorganise \/ \E a \in Address : ChainActivity(a) \/ IndexAddress(a)
    <3>1. UNCHANGED <<relayed, confirmed>>
      BY <2>4 DEF Connect, Reorganise, ChainActivity, IndexAddress, server
    <3>2. QED
      BY <2>1, <3>1, CalmServes DEF Served
  <2>5. QED
    BY <1>3, <2>2, <2>3, <2>4 DEF Signals
<1>4. QED
  BY <1>1, <1>2, <1>3, Kinds, MovesServes, FailingServes

LEMMA ServesInit == Init => Serves
BY DEF Init, Serves, NoPending, Holding, IdleOp

LEMMA Outside == \A x, S : x \notin S => (x \in S) = FALSE
OBVIOUS

\* Once the server has indexed what it knows, a controller at rest reconciles
\* no broadcast: what settles it was signalled and would be asked for.
LEMMA RestIsSettled ==
    ASSUME IInv, Tracked, Disc, ChainSound, Announced, Serves, syncPromise = NoOp, connected,
           \A a \in Address : shown[a] = ServerView(a)
    PROVE  pending.tx = NoTx
<1>1. SUFFICES ASSUME pending.tx # NoTx PROVE FALSE
  OBVIOUS
<1>2. /\ \A i \in OpId : ~ Holding(i)
      /\ Doing = {} /\ Wanted = {}
  BY NothingRuns
<1>3. pending.tx \in WalletTx /\ Served(pending.tx)
  BY <1>1, <1>2 DEF Serves, IInv, TypeOK, Pending
<1>4. ASSUME NEW u \in relayed, NEW a \in Touches(u)
      PROVE  /\ u \in confirmed => <<u, TRUE>> \in shown[a]
             /\ Shows([txs |-> shown], a, u)
  <2>1. u \in WalletTx /\ a \in Address
    BY ConstantsAssumption DEF Touches, IInv, TypeOK
  <2>2. CASE u \in confirmed
    <3>1. <<u, TRUE>> \in ServerView(a)
      BY <2>1, <2>2 DEF ServerView, Sighting
    <3>2. QED
      BY <2>1, <3>1 DEF Shows
  <2>3. CASE u \notin confirmed
    <3> DEFINE p == <<u, FALSE>>
    <3>1. p \in Sighting /\ p[1] = u /\ p[2] = FALSE
      BY <2>1 DEF Sighting
    <3> HIDE DEF p
    <3>2. p[2] = (p[1] \in confirmed)
      <4>1. (p[1] \in confirmed) = FALSE
        BY <2>3, <3>1, Outside
      <4>2. QED
        BY <3>1, <4>1, Zenon
    <3>3. p \in ServerView(a)
      BY <3>1, <3>2 DEF ServerView
    <3>4. QED
      BY <2>1, <2>3, <3>3 DEF Shows, p
  <2>4. QED
    BY <2>2, <2>3
<1>5. CASE pending.tx \in relayed
  <2>1. Visible([txs |-> shown], pending.tx)
    BY <1>4, <1>5 DEF Visible, Spent, Touches
  <2>2. QED
    BY <1>1, <1>2, <2>1 DEF Announced, Reconciled
<1>6. CASE Original[pending.tx] \in confirmed
  <2>1. /\ Original[pending.tx] \in WalletTx /\ Original[pending.tx] \in relayed
        /\ Original[pending.tx] # NoTx
    BY <1>6, ConstantsAssumption DEF ChainSound, IInv, TypeOK
  <2>2. PICK a \in Address : a \in Touches(Original[pending.tx])
    BY <2>1, ConstantsAssumption DEF Touches
  <2>3. <<Original[pending.tx], TRUE>> \in shown[a]
    BY <1>4, <1>6, <2>1, <2>2
  <2>4. ConfirmedIn([txs |-> shown], Original[pending.tx])
    BY <2>3 DEF ConfirmedIn
  <2>5. QED
    BY <1>1, <1>2, <2>1, <2>4 DEF Announced, Reconciled
<1>7. QED
  BY <1>3, <1>5, <1>6 DEF Served

LEMMA RestIsSingle ==
    ASSUME IInv, Tracked, Disc, ChainSound, Covered("shown"), Announced, Serves
    PROVE  NoDoubleBalance
<1> SUFFICES ASSUME syncPromise = NoOp, connected, record.mark = "fresh",
                    \A a \in Address : shown[a] = ServerView(a),
                    NEW t \in WalletTx, NEW a \in Address, NEW b \in Address,
                    NEW p \in record.snap.txs[a], p[1] = t,
                    NEW q \in record.snap.txs[b]
             PROVE  q[1] \notin Rivals(t)
  BY DEF NoDoubleBalance
<1>1. Lag("shown", record.snap) = {}
  BY RestIsSettled, RestIsCovered
<1>2. \A c \in Address : c \in record.snap.known => record.snap.txs[c] = ServerView(c)
  BY <1>1 DEF Lag, LagOf
<1>3. \A c \in Address : \A r \in record.snap.txs[c] : r[1] \in relayed
  BY <1>2 DEF Disc, RecordDisc, Located, ServerView
<1>4. QED
  BY <1>3 DEF ChainSound

\* Once the server has indexed what it knows, a replacement and its original
\* are never both in a fresh record at rest, for any number of addresses,
\* transactions and replacements, while the controller runs one operation at
\* a time.  Missed names what may leave a change unread: a sync that fails
\* while the link is up, a withheld full scan, a second broadcast that takes
\* the first one's place, a rescan that keeps an address it does not read,
\* and a change between the read of an address and its subscription.
\* LostAnswer: the server took a transaction and the wallet does not know.
THEOREM ReplacementCountsOnce ==
    ASSUME "gap" \notin Address
    PROVE  Spec /\ []SingleFlight /\ [][~ Missed("shown") /\ ~ LostAnswer]_vars
               => []NoDoubleBalance
<1> DEFINE J == /\ Disc /\ Linked /\ Listening /\ ChainSound
                /\ Covered("shown") /\ Announced /\ Serves
<1>1. Init => J
  BY DiscInit, LinkedInit, ListeningInit, ChainInit, CoveredInit, AnnouncedInit, ServesInit
<1>2. /\ IInv /\ Tracked /\ CallIdle /\ J /\ SingleFlight' /\ [Next]_vars
      /\ [~ Missed("shown") /\ ~ LostAnswer]_vars
      => J'
  <2> SUFFICES ASSUME IInv, Tracked, CallIdle, J, SingleFlight', [Next]_vars,
                      [~ Missed("shown") /\ ~ LostAnswer]_vars
               PROVE  J'
    OBVIOUS
  <2>1. BeginsAlone
    BY StartsAlone
  <2>2. IInv' /\ Tracked'
    BY <2>1, NextInv, TrackedNext
  <2>3. Disc' /\ Linked' /\ ChainSound'
    BY <2>1, DiscNext, LinkedNext, ChainNext
  <2>4. CASE ~ Missed("shown") /\ ~ LostAnswer
    <3>1. ~ FailsOnline /\ ~ Withholds /\ \A a \in Address : ~ LateChange(a)
      BY <2>4 DEF Missed
    <3>2. Listening'
      BY <2>1, <2>2, <3>1, ListeningNext
    <3>3. Covered("shown")'
      BY <2>1, <2>4, CoveredNext
    <3>4. Announced'
      BY <2>1, <2>3, <3>1, AnnouncedNext
    <3>5. Serves'
      BY <2>1, <2>4, ServesNext
    <3>6. QED
      BY <2>3, <3>2, <3>3, <3>4, <3>5
  <2>5. CASE UNCHANGED vars
    <3>1. Idles
      BY <2>5 DEF Idles
    <3>2. Calm /\ UNCHANGED server /\ (connected' => connected)
      BY <3>1, IdlesCalm
    <3>3. Listening'
      BY <3>2, CalmListening
    <3>4. Covered("shown")'
      BY <3>1, IdlesCover
    <3>5. Announced'
      BY <3>2, CalmAnnounced DEF server
    <3>6. Serves'
      BY <3>2, CalmServes DEF server, Served
    <3>7. QED
      BY <2>3, <3>3, <3>4, <3>5, <3>6
  <2>6. QED
    BY <2>4, <2>5
<1>3. IInv /\ Tracked /\ J => NoDoubleBalance
  BY RestIsSingle
<1> HIDE DEF J
<1>4. QED
  BY <1>1, <1>2, <1>3, TracksAlone, PTL DEF Spec
=============================================================================
