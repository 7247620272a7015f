------------------------- MODULE WalletSessionProofs -------------------------
(***************************************************************************)
(* An unlocked wallet keeps its promises for every number of requests,     *)
(* faults and ways of opening, and for every set of delays.  The inductive *)
(* invariant has three parts: what the installed watcher knows of the      *)
(* page, where each request is on its way through the worker, and what the *)
(* workspace may conclude about the worker.                                *)
(***************************************************************************)
EXTENDS WalletSession, TLAPS

(***************************************************************************)
(* Types                                                                   *)
(***************************************************************************)
Ask == [kind : Opening \cup Asking, session : Id \cup {NoSession}]
Reply == [id : Id, ok : BOOLEAN, session : Id \cup {NoSession}]
Task == [stage : Stage, session : Id \cup {NoSession}]

UiType ==
    /\ view \in View /\ sessionRef \in Id \cup {NoSession}
    /\ busy \in BOOLEAN /\ revealedMnemonic \in BOOLEAN
    /\ sensitiveRevealActive \in BOOLEAN

PageType == visible \in BOOLEAN /\ focused \in BOOLEAN /\ frozen \in BOOLEAN

ClientType ==
    /\ asked \in Seq(Ask) /\ Len(asked) <= MaxRequests
    /\ pending \subseteq 1 .. Len(asked) /\ worker \in BOOLEAN

InsideType ==
    /\ cryptoPromise \in {"none", "loaded", "failed"}
    /\ inbox \in Seq(Id) /\ task \in [Id -> Task]
    /\ activeSession \in Id \cup {NoSession}
    /\ answers \in Seq(Reply)

LockType == lastLock \in 0 .. Len(asked) /\ lost \in BOOLEAN

LEMMA TypeParts ==
    TypeOK <=> /\ UiType /\ PageType /\ ClientType /\ InsideType /\ LockType
               /\ watch \in Watch /\ backgroundLockSeconds \in Delays
               /\ away \in 0 .. NoDeadline /\ faults \in Nat
BY DEF TypeOK, UiType, PageType, ClientType, InsideType, LockType, Ask, Reply, Task

LEMMA NextTypeParts ==
    TypeOK' <=> /\ UiType' /\ PageType' /\ ClientType' /\ InsideType' /\ LockType'
                /\ watch' \in Watch /\ backgroundLockSeconds' \in Delays
                /\ away' \in 0 .. NoDeadline /\ faults' \in Nat
BY DEF TypeOK, UiType, PageType, ClientType, InsideType, LockType, Ask, Reply, Task

LEMMA DelayFacts ==
    /\ Longest \in Delays /\ Longest \in Nat
    /\ \A d \in Delays : d \in Nat /\ d <= Longest
    /\ NoDeadline \in Nat /\ NoDeadline = Longest + 1
<1>1. PICK d \in Delays : \A e \in Delays : e <= d
  BY SessionAssumption
<1>2. Longest \in Delays /\ \A e \in Delays : e <= Longest
  BY <1>1 DEF Longest
<1> QED
  BY <1>2, SessionAssumption DEF NoDeadline

LEMMA IdFacts == MaxRequests \in Nat /\ Id = 1 .. MaxRequests /\ NoSession = 0
BY SessionAssumption DEF Id, NoSession

LEMMA IdleType == Idle \in Task /\ NotWatching \in Watch
BY DelayFacts DEF Idle, Task, Stage, NoSession, NotWatching, Watching, Watch

\* A lock leaves the types: nothing is pending or held any more.
LEMMA DestroyType ==
    ASSUME TypeOK, DestroySession
    PROVE  UiType' /\ ClientType' /\ InsideType' /\ LockType'
<1>1. UiType'
  BY DEF DestroySession, UiType, View
<1>2. ClientType'
  BY TypeParts DEF DestroySession, Dispose, DestroyWorker, ClientType
<1>3. InsideType'
  BY IdleType DEF DestroySession, Dispose, DestroyWorker, InsideType
<1>4. LockType'
  <2>1. Len(asked) \in Nat /\ Len(asked') = Len(asked)
    BY TypeParts DEF DestroySession, Dispose, DestroyWorker, ClientType
  <2>2. lastLock' = Len(asked) /\ lost' \in BOOLEAN
    BY DEF DestroySession
  <2>3. lastLock' \in 0 .. Len(asked')
    BY <2>1, <2>2
  <2> QED
    BY <2>2, <2>3 DEF LockType
<1> QED
  BY <1>1, <1>2, <1>3, <1>4

LEMMA LockedWatchType ==
    ASSUME NEW w \in Watch
    PROVE  Locked(w) \in Watch
BY DelayFacts DEF Locked, Watch

LEMMA LockingType ==
    ASSUME TypeOK, Lock
    PROVE  UiType' /\ ClientType' /\ InsideType' /\ LockType' /\ watch' \in Watch
<1>1. CASE watch.on /\ ~watch.locked
  BY <1>1, DestroyType, LockedWatchType, TypeParts DEF Lock
<1>2. CASE ~(watch.on /\ ~watch.locked)
  BY <1>2, TypeParts
  DEF Lock, ui, client, inside, UiType, ClientType, InsideType, LockType
<1> QED
  BY <1>1, <1>2

LEMMA ApplyType ==
    ASSUME TypeOK, NEW w \in Watch, NEW does, Apply(w, does)
    PROVE  UiType' /\ ClientType' /\ InsideType' /\ LockType' /\ watch' \in Watch
<1>1. CASE does = "lock"
  BY <1>1, DestroyType, LockedWatchType DEF Apply
<1>2. CASE does # "lock"
  <2>1. /\ watch' = [w EXCEPT !.deadline = CASE does = "keep" -> w.deadline
                                             [] does = "start" -> w.delay
                                             [] OTHER -> NoDeadline]
        /\ UNCHANGED <<ui, client, inside, lastLock, lost>>
    BY <1>2 DEF Apply
  <2>2. watch' \in Watch
    <3>1. CASE does = "keep"
      BY <2>1, <3>1 DEF Watch
    <3>2. CASE does = "start"
      BY <2>1, <3>2, DelayFacts DEF Watch
    <3>3. CASE does # "keep" /\ does # "start"
      BY <2>1, <3>3, DelayFacts DEF Watch
    <3> QED
      BY <3>1, <3>2, <3>3
  <2> QED
    BY <2>1, <2>2, TypeParts
    DEF ui, client, inside, UiType, ClientType, InsideType, LockType
<1> QED
  BY <1>1, <1>2

LEMMA AbsenceType ==
    ASSUME TypeOK, NEW w, NEW v, NEW f
    PROVE  Absence(w, v, f) \in 0 .. NoDeadline
BY DelayFacts, TypeParts DEF Absence

LEMMA PageEventType ==
    ASSUME TypeOK, NEW v \in BOOLEAN, NEW f \in BOOLEAN, NEW heard,
           PageEvent(v, f, heard)
    PROVE  TypeOK'
<1>1. UiType' /\ ClientType' /\ InsideType' /\ LockType' /\ watch' \in Watch
  <2>1. CASE watch.on /\ heard
    BY <2>1, ApplyType, TypeParts DEF PageEvent
  <2>2. CASE ~(watch.on /\ heard)
    BY <2>2, TypeParts
    DEF PageEvent, ui, client, inside, UiType, ClientType, InsideType, LockType
  <2> QED
    BY <2>1, <2>2
<1>2. PageType' /\ backgroundLockSeconds' \in Delays /\ faults' \in Nat
  BY TypeParts DEF PageEvent, PageType
<1>3. away' \in 0 .. NoDeadline
  BY AbsenceType DEF PageEvent
<1> QED
  BY <1>1, <1>2, <1>3, NextTypeParts

LEMMA RequestType ==
    ASSUME TypeOK, NEW kind \in Opening \cup Asking,
           NEW session \in Id \cup {NoSession}, Request(kind, session)
    PROVE  ClientType' /\ InsideType'
<1>1. [kind |-> kind, session |-> session] \in Ask
  BY DEF Ask
<1>2. Len(asked) + 1 \in Id
  BY IdFacts, TypeParts DEF Request, ClientType
<1> QED
  BY <1>1, <1>2, IdFacts, TypeParts DEF Request, ClientType, InsideType

LEMMA InstalledType ==
    ASSUME TypeOK, Installed
    PROVE  UiType' /\ ClientType' /\ InsideType' /\ LockType' /\ watch' \in Watch
<1>1. CASE HasSession
  <2> DEFINE w == Watching(TRUE, Sensitive, backgroundLockSeconds)
  <2>1. Sensitive \in BOOLEAN
    BY TypeParts DEF Sensitive, UiType
  <2>2. w \in Watch
    BY <2>1, DelayFacts, TypeParts DEF Watching, Watch
  <2> QED
    BY <1>1, <2>2, ApplyType DEF Installed
<1>2. CASE ~HasSession
  BY <1>2, IdleType, TypeParts
  DEF Installed, ui, client, inside, UiType, ClientType, InsideType, LockType
<1> QED
  BY <1>1, <1>2

LEMMA PageStepType == TypeOK /\ PageStep => TypeOK'
<1> SUFFICES ASSUME TypeOK, PageStep PROVE TypeOK'
  OBVIOUS
<1> USE TypeParts, NextTypeParts
<1>1. CASE Hide
  BY <1>1, PageEventType DEF Hide, PageType
<1>2. CASE Show
  BY <1>2, PageEventType DEF Show, PageType
<1>3. CASE Blur
  BY <1>3, PageEventType DEF Blur, PageType
<1>4. CASE Focus
  BY <1>4, PageEventType DEF Focus, PageType
<1>5. CASE PageHide
  BY <1>5, LockingType DEF PageHide, PageType
<1>6. CASE Restore
  <2>1. UiType' /\ ClientType' /\ InsideType' /\ LockType' /\ watch' \in Watch
    BY <1>6, LockingType DEF Restore
  <2>2. away' \in 0 .. NoDeadline
    BY <1>6, DelayFacts DEF Restore
  <2> QED
    BY <1>6, <2>1, <2>2 DEF Restore, PageType
<1>7. CASE Tick
  <2>1. watch' \in Watch
    <3>1. watch \in Watch
      OBVIOUS
    <3>2. CASE watch.deadline \in 1 .. Longest
      BY <1>7, <3>1, <3>2, DelayFacts DEF Tick, Watch
    <3>3. CASE watch.deadline \notin 1 .. Longest
      BY <1>7, <3>1, <3>3, DelayFacts DEF Tick, Watch
    <3> QED
      BY <3>2, <3>3
  <2>2. away' \in 0 .. NoDeadline
    <3>1. away \in 0 .. NoDeadline
      OBVIOUS
    <3>2. (away' = away + 1 /\ away < NoDeadline) \/ away' = away
      BY <1>7 DEF Tick
    <3> QED
      BY <3>1, <3>2, DelayFacts
  <2> QED
    BY <1>7, <2>1, <2>2
    DEF Tick, ui, page, client, inside, UiType, PageType, ClientType, InsideType,
        LockType
<1>8. CASE LockTimer
  BY <1>8, LockingType DEF LockTimer, page, PageType
<1> QED
  BY <1>1, <1>2, <1>3, <1>4, <1>5, <1>6, <1>7, <1>8 DEF PageStep

LEMMA EffectType == TypeOK /\ Effect => TypeOK'
<1> SUFFICES ASSUME TypeOK, Effect PROVE TypeOK'
  OBVIOUS
<1> USE TypeParts, NextTypeParts
<1>1. CASE DashboardEffect
  BY <1>1
  DEF DashboardEffect, page, client, inside, UiType, PageType, ClientType,
      InsideType, LockType
<1>2. CASE WatchEffect
  BY <1>2, InstalledType, DelayFacts DEF WatchEffect, page, PageType
<1> QED
  BY <1>1, <1>2 DEF Effect

\* The variables that requests, answers and the worker leave alone.
RestType ==
    /\ PageType /\ watch \in Watch /\ backgroundLockSeconds \in Delays
    /\ away \in 0 .. NoDeadline

LEMMA RestUnchanged ==
    ASSUME TypeOK, UNCHANGED <<backgroundLockSeconds, page, watch, away>>
    PROVE  RestType'
BY TypeParts DEF RestType, page, PageType

LEMMA RequestStepType ==
    ASSUME TypeOK, NEW kind \in Opening \cup Asking,
           NEW session \in Id \cup {NoSession}, Request(kind, session),
           UNCHANGED rest, UiType'
    PROVE  TypeOK'
<1>1. ClientType' /\ InsideType'
  BY RequestType
<1>2. RestType'
  BY RestUnchanged DEF rest
<1>3. LockType' /\ faults' \in Nat
  <2>1. Len(asked) \in Nat /\ Len(asked') = Len(asked) + 1
    BY TypeParts DEF Request, ClientType
  <2>2. lastLock' \in 0 .. Len(asked')
    BY <2>1, TypeParts DEF rest, LockType
  <2> QED
    BY <2>2, TypeParts DEF rest, LockType
<1> QED
  BY <1>1, <1>2, <1>3, NextTypeParts DEF RestType

LEMMA UserStepType == TypeOK /\ UserStep => TypeOK'
<1> SUFFICES ASSUME TypeOK, UserStep PROVE TypeOK'
  OBVIOUS
<1> USE TypeParts
<1>1. CASE \E kind \in OpenKind : Open(kind)
  <2>1. PICK kind \in OpenKind : Open(kind)
    BY <1>1
  <2>2. kind \in Opening
    BY SessionAssumption
  <2>3. UiType'
    BY <2>1 DEF Open, UiType
  <2> QED
    BY <2>1, <2>2, <2>3, RequestStepType DEF Open, rest
<1>2. CASE ContinueVerification
  BY <1>2, NextTypeParts
  DEF ContinueVerification, rest, page, client, inside, UiType, View, PageType,
      ClientType, InsideType, LockType
<1>3. CASE VerifyMnemonicBackup
  <2>1. UiType'
    BY <1>3 DEF VerifyMnemonicBackup, UiType
  <2> QED
    BY <1>3, <2>1, RequestStepType DEF VerifyMnemonicBackup, rest, UiType, Asking
<1>4. CASE Leave
  BY <1>4, DestroyType, NextTypeParts DEF Leave, page, PageType
<1>5. CASE \E d \in Delays : SetBackgroundLockSeconds(d)
  BY <1>5, NextTypeParts
  DEF SetBackgroundLockSeconds, ui, page, client, inside, UiType, PageType,
      ClientType, InsideType, LockType
<1>6. CASE \E kind \in {"derive", "sign"} : Call(kind)
  <2>1. UiType'
    BY <1>6 DEF Call, ui, UiType
  <2> QED
    BY <1>6, <2>1, RequestStepType DEF Call, rest, UiType, Asking
<1>7. CASE RevealRecoveryPhrase
  <2>1. UiType'
    BY <1>7 DEF RevealRecoveryPhrase, ui, UiType
  <2> QED
    BY <1>7, <2>1, RequestStepType DEF RevealRecoveryPhrase, rest, UiType, Asking
<1>8. CASE HideRecoveryPhrase
  BY <1>8, NextTypeParts
  DEF HideRecoveryPhrase, rest, page, client, inside, UiType, PageType,
      ClientType, InsideType, LockType
<1>9. CASE InactivityLock
  BY <1>9, DestroyType, NextTypeParts DEF InactivityLock, page, PageType
<1> QED
  BY <1>1, <1>2, <1>3, <1>4, <1>5, <1>6, <1>7, <1>8, <1>9 DEF UserStep

LEMMA SettleType ==
    ASSUME TypeOK, NEW id \in pending, NEW ok \in BOOLEAN,
           NEW session \in Id \cup {NoSession}, NEW valid \in BOOLEAN,
           Settle(id, ok, session, valid)
    PROVE  UiType'
<1>1. asked[id] \in Ask
  BY TypeParts DEF ClientType
<1>2. asked[id].kind \in Opening \cup Asking /\ asked[id].session \in Id \cup {NoSession}
  BY <1>1 DEF Ask
<1>3. CASE asked[id].kind \in Opening
  <2>1. /\ busy' = FALSE
        /\ sessionRef' = IF ok THEN session ELSE sessionRef
        /\ view' = IF ~ok THEN view
                   ELSE IF asked[id].kind = "create" THEN "backup" ELSE "wallet"
        /\ UNCHANGED <<revealedMnemonic, sensitiveRevealActive>>
    BY <1>3 DEF Settle, Opening
  <2>2. view' \in View
    BY <2>1, TypeParts DEF UiType, View
  <2>3. sessionRef' \in Id \cup {NoSession}
    BY <2>1, TypeParts DEF UiType
  <2> QED
    BY <2>1, <2>2, <2>3, TypeParts DEF UiType
<1>4. CASE asked[id].kind \notin Opening /\ asked[id].kind = "verify"
  BY <1>4, <1>2, TypeParts DEF Settle, UiType, View
<1>5. CASE asked[id].kind \notin Opening /\ asked[id].kind = "reveal"
  BY <1>5, TypeParts DEF Settle, UiType, View
<1>6. CASE asked[id].kind \notin Opening \cup {"verify", "reveal"}
  BY <1>6, TypeParts DEF Settle, UiType, View, ui
<1> QED
  BY <1>3, <1>4, <1>5, <1>6

LEMMA ClientStepType == TypeOK /\ ClientStep => TypeOK'
<1> SUFFICES ASSUME TypeOK, ClientStep PROVE TypeOK'
  OBVIOUS
<1>1. CASE Deliver
  <2> DEFINE a == Head(answers)
  <2>1. a \in Reply /\ Tail(answers) \in Seq(Reply)
    BY <1>1, TypeParts DEF Deliver, InsideType
  <2>2. a.id \in Id /\ a.ok \in BOOLEAN /\ a.session \in Id \cup {NoSession}
    BY <2>1 DEF Reply
  <2>3. UiType'
    <3>1. CASE a.id \in pending
      <4>1. PICK valid \in BOOLEAN : Settle(a.id, a.ok, a.session, valid)
        BY <1>1, <3>1 DEF Deliver
      <4> QED
        BY <4>1, <3>1, <2>2, SettleType
    <3>2. CASE a.id \notin pending
      BY <1>1, <3>2, TypeParts DEF Deliver, ui, UiType
    <3> QED
      BY <3>1, <3>2
  <2>4. ClientType' /\ InsideType' /\ LockType'
    BY <1>1, <2>1, TypeParts DEF Deliver, rest, ClientType, InsideType, LockType
  <2>5. RestType' /\ faults' \in Nat
    BY <1>1, RestUnchanged, TypeParts DEF Deliver, rest
  <2> QED
    BY <2>3, <2>4, <2>5, NextTypeParts DEF RestType
<1>2. CASE \E id \in Id : Timeout(id)
  <2>1. PICK id \in Id : Timeout(id)
    BY <1>2
  <2>2. UiType'
    BY <2>1, SettleType DEF Timeout
  <2>3. ClientType' /\ InsideType'
    BY <2>1, TypeParts DEF Timeout, inside, ClientType, InsideType
  <2>4. LockType'
    <3>1. lost' \in BOOLEAN
      BY <2>1, TypeParts DEF Timeout, LockType
    <3> QED
      BY <2>1, <3>1, TypeParts DEF Timeout, LockType
  <2>5. RestType' /\ faults' \in Nat
    BY <2>1, RestUnchanged, TypeParts DEF Timeout
  <2> QED
    BY <2>2, <2>3, <2>4, <2>5, NextTypeParts DEF RestType
<1>3. CASE WorkerFailure
  <2>1. UiType'
    BY <1>3, TypeParts DEF WorkerFailure, UiType
  <2>2. ClientType' /\ InsideType'
    <3>1. ClientType'
      BY <1>3, TypeParts DEF WorkerFailure, Dispose, DestroyWorker, ClientType
    <3>2. InsideType'
      BY <1>3, IdleType DEF WorkerFailure, Dispose, DestroyWorker, InsideType
    <3> QED
      BY <3>1, <3>2
  <2>3. LockType'
    <3>1. lost' \in BOOLEAN
      BY <1>3 DEF WorkerFailure, HasSession
    <3> QED
      BY <1>3, <3>1, TypeParts DEF WorkerFailure, Dispose, LockType
  <2>4. RestType' /\ faults' \in Nat
    BY <1>3, RestUnchanged, TypeParts DEF WorkerFailure
  <2> QED
    BY <2>1, <2>2, <2>3, <2>4, NextTypeParts DEF RestType
<1> QED
  BY <1>1, <1>2, <1>3 DEF ClientStep

LEMMA OutsideType ==
    ASSUME TypeOK, UNCHANGED outside
    PROVE  UiType' /\ ClientType' /\ LockType' /\ RestType'
<1>1. UiType' /\ ClientType' /\ LockType'
  BY TypeParts DEF outside, ui, client, UiType, ClientType, LockType
<1>2. RestType'
  BY RestUnchanged DEF outside
<1> QED
  BY <1>1, <1>2

LEMMA TaskType ==
    ASSUME TypeOK, NEW id \in Id, NEW t \in Task,
           task' = [task EXCEPT ![id] = t]
    PROVE  task' \in [Id -> Task]
BY TypeParts DEF InsideType

LEMMA AnswerType ==
    ASSUME TypeOK, NEW id \in Id, NEW ok \in BOOLEAN,
           NEW session \in Id \cup {NoSession}, Answer(id, ok, session)
    PROVE  answers' \in Seq(Reply)
BY TypeParts DEF Answer, InsideType, Reply

LEMMA EnterType ==
    ASSUME TypeOK, NEW id \in Id, NEW stage \in Stage,
           NEW session \in Id \cup {NoSession}, Enter(id, stage, session)
    PROVE  task' \in [Id -> Task] /\ answers' \in Seq(Reply)
<1>1. [stage |-> stage, session |-> session] \in Task
  BY DEF Task
<1> QED
  BY <1>1, TaskType, TypeParts DEF Enter, InsideType

LEMMA BeginType ==
    ASSUME TypeOK, NEW id \in Id, BeginSession(id)
    PROVE  /\ task' \in [Id -> Task] /\ answers' \in Seq(Reply)
           /\ activeSession' \in Id \cup {NoSession}
BY EnterType DEF BeginSession, Stage

LEMMA RefuseType ==
    ASSUME TypeOK, NEW id \in Id, Refuse(id)
    PROVE  /\ task' \in [Id -> Task] /\ answers' \in Seq(Reply)
           /\ activeSession' \in Id \cup {NoSession}
BY AnswerType, TypeParts DEF Refuse, InsideType

\* What execute does, in the cases the proofs distinguish.
ServeAs(id, stage) ==
    /\ Enter(id, stage, activeSession) /\ UNCHANGED activeSession
    /\ stage \in {"rekeying", "decrypting"}
    /\ asked[id].kind \notin Opening
    /\ activeSession # NoSession /\ activeSession = asked[id].session

LEMMA ExecuteCases ==
    ASSUME NEW id \in Id, Execute(id)
    PROVE  \/ Refuse(id)
           \/ /\ asked[id].kind \in Opening /\ Enter(id, "deriving", id)
              /\ UNCHANGED activeSession
           \/ asked[id].kind \in Opening /\ BeginSession(id)
           \/ \E stage \in {"rekeying", "decrypting"} : ServeAs(id, stage)
BY DEF Execute, AssertSession, ServeAs

LEMMA ExecuteType ==
    ASSUME TypeOK, NEW id \in Id, Execute(id)
    PROVE  /\ task' \in [Id -> Task] /\ answers' \in Seq(Reply)
           /\ activeSession' \in Id \cup {NoSession}
<1>1. CASE Refuse(id)
  BY <1>1, RefuseType
<1>2. CASE Enter(id, "deriving", id) /\ UNCHANGED activeSession
  BY <1>2, EnterType, TypeParts DEF Stage, InsideType
<1>3. CASE BeginSession(id)
  BY <1>3, BeginType
<1>4. CASE \E stage \in {"rekeying", "decrypting"} : ServeAs(id, stage)
  BY <1>4, EnterType, TypeParts DEF ServeAs, Stage, InsideType
<1> QED
  BY <1>1, <1>2, <1>3, <1>4, ExecuteCases

LEMMA WorkerStepType == TypeOK /\ WorkerStep => TypeOK'
<1> SUFFICES ASSUME TypeOK, WorkerStep PROVE TypeOK'
  OBVIOUS
<1> USE TypeParts
<1>1. CASE \E ok \in BOOLEAN : LoadCrypto(ok)
  BY <1>1, OutsideType, NextTypeParts DEF LoadCrypto, InsideType, RestType
<1>2. CASE Take
  <2>1. Head(inbox) \in Id /\ Tail(inbox) \in Seq(Id)
    BY <1>2 DEF Take, InsideType
  <2>2. InsideType'
    BY <1>2, <2>1, ExecuteType DEF Take, InsideType
  <2> QED
    BY <1>2, <2>2, OutsideType, NextTypeParts DEF Take, RestType
<1>3. CASE \E id \in Id : Derived(id)
  <2>1. InsideType'
    BY <1>3, BeginType DEF Derived, InsideType
  <2> QED
    BY <1>3, <2>1, OutsideType, NextTypeParts DEF Derived, RestType
<1>4. CASE \E id \in Id : Sealed(id)
  <2>1. InsideType'
    BY <1>4, TaskType, AnswerType, IdleType DEF Sealed, InsideType
  <2> QED
    BY <1>4, <2>1, OutsideType, NextTypeParts DEF Sealed, RestType
<1>5. CASE \E id \in Id : Rekeyed(id)
  <2>1. PICK id \in Id : Rekeyed(id)
    BY <1>5
  <2>2. task[id].session \in Id \cup {NoSession} /\ NoSession \in Id \cup {NoSession}
    BY DEF InsideType, Task
  <2>3. CASE Enter(id, "decrypting", task[id].session)
    BY <2>1, <2>2, <2>3, EnterType, OutsideType, NextTypeParts
    DEF Rekeyed, RestType, Stage, InsideType
  <2>4. CASE task' = [task EXCEPT ![id] = Idle] /\ Answer(id, FALSE, NoSession)
    BY <2>1, <2>2, <2>4, TaskType, AnswerType, IdleType, OutsideType, NextTypeParts
    DEF Rekeyed, RestType, InsideType
  <2> QED
    BY <2>1, <2>3, <2>4 DEF Rekeyed
<1>6. CASE \E id \in Id : Decrypted(id)
  <2>1. PICK id \in Id : Decrypted(id)
    BY <1>6
  <2>2. task[id].session \in Id \cup {NoSession} /\ NoSession \in Id \cup {NoSession}
    BY DEF InsideType, Task
  <2>3. answers' \in Seq(Reply)
    BY <2>1, <2>2, AnswerType DEF Decrypted
  <2> QED
    BY <2>1, <2>3, TaskType, IdleType, OutsideType, NextTypeParts
    DEF Decrypted, RestType, InsideType
<1> QED
  BY <1>1, <1>2, <1>3, <1>4, <1>5, <1>6 DEF WorkerStep

LEMMA InitType == Init => TypeOK
<1> SUFFICES ASSUME Init PROVE TypeOK
  OBVIOUS
<1>0. UiType /\ PageType
  BY DEF Init, UiType, PageType, View
<1>1. ClientType /\ LockType
  <2>1. asked = <<>> /\ Len(asked) = 0 /\ asked \in Seq(Ask)
    BY DEF Init
  <2>2. pending = {} /\ worker \in BOOLEAN /\ lastLock = 0 /\ lost \in BOOLEAN
    BY DEF Init
  <2> QED
    BY <2>1, <2>2, IdFacts DEF ClientType, LockType
<1>2. InsideType
  BY IdleType DEF Init, InsideType
<1>3. watch \in Watch /\ backgroundLockSeconds \in Delays /\ away \in 0 .. NoDeadline
      /\ faults \in Nat
  BY IdleType, DelayFacts DEF Init
<1> QED
  BY <1>0, <1>1, <1>2, <1>3, TypeParts

LEMMA StutterType == TypeOK /\ UNCHANGED vars => TypeOK'
BY TypeParts, NextTypeParts
DEF vars, ui, page, client, inside, UiType, PageType, ClientType, InsideType, LockType

LEMMA NextType == TypeOK /\ [Next]_vars => TypeOK'
BY PageStepType, EffectType, UserStepType, ClientStepType, WorkerStepType, StutterType
DEF Next

\* Every variable keeps its type, whatever the number of requests and faults
\* and the delays on offer: no request of the client or task of the worker
\* escapes the numbering.
THEOREM TypesHold == Spec => []TypeOK
BY InitType, NextType, PTL DEF Spec

(***************************************************************************)
(* The watcher                                                             *)
(***************************************************************************)
\* What a watcher w that has not locked knows of a page at v and f that has
\* been in the background for gone ticks.
Knows(w, v, f, gone) ==
    /\ Background(w, v, f) =>
         /\ w.sensitive => w.delay > 0
         /\ w.delay > 0 => /\ gone <= w.delay => w.deadline + gone = w.delay
                           /\ gone > w.delay => w.deadline = 0
    /\ ~Background(w, v, f) => gone = 0 /\ w.deadline = NoDeadline

Closed == ~HasSession /\ sessionRef = NoSession /\ pending = {}

WatchHolds ==
    watch.on => /\ frozen => watch.locked
                /\ watch.locked => Closed
                /\ ~watch.locked => Knows(watch, visible, focused, away)

LEMMA DestroyCloses == DestroySession => Closed'
BY DEF DestroySession, Dispose, Closed, HasSession

LEMMA WatchFacts ==
    ASSUME NEW w \in Watch
    PROVE  /\ w.on \in BOOLEAN /\ w.sensitive \in BOOLEAN /\ w.locked \in BOOLEAN
           /\ w.delay \in Nat /\ w.delay < NoDeadline /\ w.deadline \in 0 .. NoDeadline
<1>1. w.on \in BOOLEAN /\ w.sensitive \in BOOLEAN /\ w.locked \in BOOLEAN
  BY DEF Watch
<1>2. w.delay \in Delays /\ w.deadline \in 0 .. NoDeadline
  BY DEF Watch
<1>3. \A d \in Delays : d \in Nat /\ d < NoDeadline
  BY DelayFacts
<1>4. w.delay \in Nat /\ w.delay < NoDeadline
  BY <1>2, <1>3
<1> QED
  BY <1>1, <1>2, <1>4

LEMMA DeadlineSet ==
    ASSUME NEW w \in Watch, NEW d
    PROVE  LET u == [w EXCEPT !.deadline = d]
           IN  /\ u.on = w.on /\ u.sensitive = w.sensitive /\ u.delay = w.delay
               /\ u.locked = w.locked /\ u.deadline = d
BY DEF Watch

\* An update of a watcher that knew the page, or has just been installed,
\* locks or leaves a watcher that knows the page.
LEMMA UpdateKnows ==
    ASSUME NEW w \in Watch, ~w.locked, NEW gone \in 0 .. NoDeadline,
           NEW v \in BOOLEAN, NEW f \in BOOLEAN,
           \/ Knows(w, visible, focused, gone)
           \/ gone = 0 /\ w.deadline = NoDeadline,
           Apply(w, Update(w, v, f))
    PROVE  /\ watch'.locked => Closed'
           /\ ~watch'.locked =>
                Knows(watch', v, f, IF Background(w, v, f) THEN gone ELSE 0)
<1> USE WatchFacts, DelayFacts
<1>1. CASE Update(w, v, f) = "lock"
  BY <1>1, DestroyCloses DEF Apply, Locked
<1>2. CASE Update(w, v, f) = "clear"
  <2>1. watch' = [w EXCEPT !.deadline = NoDeadline]
    BY <1>2 DEF Apply
  <2>2. ~Background(w, v, f) \/ (w.delay = 0 /\ ~w.sensitive)
    BY <1>2 DEF Update
  <2>3. /\ watch'.on = w.on /\ watch'.sensitive = w.sensitive
        /\ watch'.delay = w.delay /\ watch'.locked = w.locked
        /\ watch'.deadline = NoDeadline
    BY <2>1, DeadlineSet
  <2> QED
    BY <2>2, <2>3 DEF Knows, Background
<1>3. CASE Update(w, v, f) = "start"
  <2>1. watch' = [w EXCEPT !.deadline = w.delay]
    BY <1>3 DEF Apply
  <2>2. Background(w, v, f) /\ w.delay > 0 /\ w.deadline = NoDeadline
    BY <1>3 DEF Update
  <2>3. /\ watch'.on = w.on /\ watch'.sensitive = w.sensitive
        /\ watch'.delay = w.delay /\ watch'.locked = w.locked
        /\ watch'.deadline = w.delay
    BY <2>1, DeadlineSet
  <2>4. gone = 0
    BY <2>2 DEF Knows
  <2> QED
    BY <2>2, <2>3, <2>4 DEF Knows, Background
<1>4. CASE Update(w, v, f) = "keep"
  <2>1. watch' = [w EXCEPT !.deadline = w.deadline]
    BY <1>4 DEF Apply
  <2>2. /\ Background(w, v, f) /\ w.delay > 0
        /\ w.deadline # NoDeadline /\ w.deadline # 0
    BY <1>4 DEF Update
  <2>3. /\ watch'.on = w.on /\ watch'.sensitive = w.sensitive
        /\ watch'.delay = w.delay /\ watch'.locked = w.locked
        /\ watch'.deadline = w.deadline
    BY <2>1, DeadlineSet
  <2>4. gone <= w.delay /\ w.deadline + gone = w.delay
    BY <2>2 DEF Knows
  <2> QED
    BY <2>2, <2>3, <2>4 DEF Knows, Background
<1> QED
  BY <1>1, <1>2, <1>3, <1>4 DEF Update

\* Steps that concern neither the page nor the watcher.
LEMMA ElsewhereUnchanged ==
    UserStep \/ ClientStep \/ WorkerStep \/ DashboardEffect
        => UNCHANGED <<watch, visible, focused, frozen, away>>
<1>1. UserStep => UNCHANGED <<watch, visible, focused, frozen, away>>
  BY DEF UserStep, Open, ContinueVerification, VerifyMnemonicBackup, Leave,
         SetBackgroundLockSeconds, Call, RevealRecoveryPhrase, HideRecoveryPhrase,
         InactivityLock, rest, page
<1>2. ClientStep => UNCHANGED <<watch, visible, focused, frozen, away>>
  BY DEF ClientStep, Deliver, Timeout, WorkerFailure, rest, page
<1>3. WorkerStep => UNCHANGED <<watch, visible, focused, frozen, away>>
  BY DEF WorkerStep, LoadCrypto, Take, Derived, Sealed, Rekeyed, Decrypted, outside, page
<1>4. DashboardEffect => UNCHANGED <<watch, visible, focused, frozen, away>>
  BY DEF DashboardEffect, page
<1> QED
  BY <1>1, <1>2, <1>3, <1>4

LEMMA ClosedStays ==
    ASSUME TypeOK, watch.on, Closed,
           UserStep \/ ClientStep \/ WorkerStep \/ DashboardEffect
    PROVE  Closed'
<1>1. view = "access"
  BY DEF Closed, HasSession
<1>2. ~Present
  BY <1>1 DEF Present, Settled, HasSession
<1>3. CASE UserStep
  BY <1>1, <1>2, <1>3
  DEF UserStep, Open, ContinueVerification, VerifyMnemonicBackup, Leave,
      SetBackgroundLockSeconds, Call, RevealRecoveryPhrase, HideRecoveryPhrase,
      InactivityLock, Closed, HasSession, client
<1>4. CASE ClientStep
  BY <1>4
  DEF ClientStep, Deliver, Timeout, WorkerFailure, Dispose, Closed, HasSession, ui
<1>5. CASE WorkerStep
  BY <1>5
  DEF WorkerStep, LoadCrypto, Take, Derived, Sealed, Rekeyed, Decrypted, outside,
      ui, client, Closed, HasSession
<1>6. CASE DashboardEffect
  BY <1>6 DEF DashboardEffect, client, Closed, HasSession
<1> QED
  BY <1>3, <1>4, <1>5, <1>6

LEMMA PageEventWatch ==
    ASSUME TypeOK, WatchHolds, NEW v \in BOOLEAN, NEW f \in BOOLEAN,
           NEW heard \in BOOLEAN, PageEvent(v, f, heard),
           ~heard => Background(watch, v, f) = Background(watch, visible, focused)
    PROVE  WatchHolds'
<1> USE TypeParts
<1>1. visible' = v /\ focused' = f /\ frozen' = FALSE
  BY DEF PageEvent, PageType
<1>2. away' = IF Background(watch, v, f) THEN away ELSE 0
  BY DEF PageEvent, Absence
<1>3. away' \in 0 .. NoDeadline
  BY PageEventType, NextTypeParts
<1>4. CASE watch.on /\ heard /\ ~watch.locked
  <2>1. Apply(watch, Update(watch, v, f))
    BY <1>4 DEF PageEvent
  <2>2. Knows(watch, visible, focused, away)
    BY <1>4 DEF WatchHolds
  <2>3. /\ watch'.locked => Closed'
        /\ ~watch'.locked => Knows(watch', v, f, away')
    <3>1. /\ watch \in Watch /\ away \in 0 .. NoDeadline
      OBVIOUS
    <3> QED
      BY <1>2, <1>3, <1>4, <2>1, <2>2, <3>1, UpdateKnows
  <2> QED
    BY <1>1, <2>3 DEF WatchHolds, Knows, Background
<1>5. CASE watch.on /\ heard /\ watch.locked
  <2>1. watch' = [watch EXCEPT !.deadline = watch.deadline]
        /\ UNCHANGED <<ui, client>>
    BY <1>5 DEF PageEvent, Apply, Update
  <2>2. watch'.on = watch.on /\ watch'.locked = watch.locked
    BY <2>1, DeadlineSet
  <2> QED
    BY <1>1, <1>5, <2>1, <2>2 DEF WatchHolds, Closed, HasSession, ui, client
<1>6. CASE ~(watch.on /\ heard)
  <2>1. UNCHANGED <<ui, watch, client>>
    BY <1>6 DEF PageEvent
  <2> QED
    BY <1>1, <1>2, <1>6, <2>1
    DEF WatchHolds, Closed, HasSession, ui, client, Knows, Background
<1> QED
  BY <1>4, <1>5, <1>6

LEMMA LockWatch ==
    ASSUME TypeOK, WatchHolds, Lock
    PROVE  watch'.on => watch'.locked /\ Closed'
<1>1. CASE watch.on /\ ~watch.locked
  BY <1>1, DestroyCloses DEF Lock, Locked
<1>2. CASE ~(watch.on /\ ~watch.locked)
  BY <1>2 DEF Lock, WatchHolds, Closed, HasSession, ui, client
<1> QED
  BY <1>1, <1>2

LEMMA TickWatch ==
    ASSUME TypeOK, WatchHolds, Tick
    PROVE  WatchHolds'
<1> USE TypeParts, WatchFacts, DelayFacts
<1>1. UNCHANGED <<visible, focused, frozen, view, sessionRef, pending>>
  BY DEF Tick, page, ui, client
<1>2. PICK d : watch' = [watch EXCEPT !.deadline = d]
               /\ d = IF watch.deadline \in 1 .. Longest
                      THEN watch.deadline - 1 ELSE watch.deadline
  BY DEF Tick
<1>3. /\ watch'.on = watch.on /\ watch'.sensitive = watch.sensitive
      /\ watch'.delay = watch.delay /\ watch'.locked = watch.locked
      /\ watch'.deadline = d
  BY <1>2, DeadlineSet
<1>4. away' = IF watch.on /\ Background(watch, visible, focused) /\ away < NoDeadline
              THEN away + 1 ELSE away
  BY DEF Tick
<1>5. ASSUME watch.on, ~watch.locked
      PROVE  Knows(watch', visible, focused, away')
  <2>1. Knows(watch, visible, focused, away)
    BY <1>5 DEF WatchHolds
  <2>2. CASE Background(watch, visible, focused)
    BY <1>2, <1>3, <1>4, <1>5, <2>1, <2>2 DEF Knows, Background
  <2>3. CASE ~Background(watch, visible, focused)
    BY <1>2, <1>3, <1>4, <1>5, <2>1, <2>3 DEF Knows, Background
  <2> QED
    BY <2>2, <2>3
<1> QED
  BY <1>1, <1>3, <1>5 DEF WatchHolds, Closed, HasSession, Knows, Background

LEMMA InstalledWatch ==
    ASSUME TypeOK, WatchEffect
    PROVE  WatchHolds'
<1> USE TypeParts
<1>1. UNCHANGED <<visible, focused, frozen>> /\ ~frozen /\ away' = 0
  BY DEF WatchEffect, page
<1>2. CASE HasSession
  <2> DEFINE w == Watching(TRUE, Sensitive, backgroundLockSeconds)
  <2>1. Sensitive \in BOOLEAN
    BY DEF Sensitive, UiType
  <2>2. /\ w \in Watch /\ ~w.locked /\ w.deadline = NoDeadline
    BY <2>1, DelayFacts DEF Watching, Watch
  <2>3. Apply(w, Update(w, visible, focused))
    BY <1>2 DEF WatchEffect, Installed
  <2> HIDE DEF w
  <2>4. /\ watch'.locked => Closed'
        /\ ~watch'.locked => Knows(watch', visible, focused, 0)
    <3>1. 0 \in 0 .. NoDeadline
      BY DelayFacts
    <3> QED
      BY <2>2, <2>3, <3>1, UpdateKnows DEF PageType
  <2> QED
    BY <1>1, <2>4 DEF WatchHolds, Knows, Background
<1>3. CASE ~HasSession
  BY <1>3 DEF WatchEffect, Installed, NotWatching, Watching, WatchHolds
<1> QED
  BY <1>2, <1>3

LEMMA WatchStep == TypeOK /\ WatchHolds /\ [Next]_vars => WatchHolds'
<1> SUFFICES ASSUME TypeOK, WatchHolds, [Next]_vars PROVE WatchHolds'
  OBVIOUS
<1> USE TypeParts
<1>1. CASE UserStep \/ ClientStep \/ WorkerStep \/ DashboardEffect
  <2>1. UNCHANGED <<watch, visible, focused, frozen, away>>
    BY <1>1, ElsewhereUnchanged
  <2>2. watch.on /\ watch.locked => Closed'
    BY <1>1, ClosedStays DEF WatchHolds
  <2> QED
    BY <2>1, <2>2 DEF WatchHolds, Knows, Background
<1>2. CASE Hide
  BY <1>2, PageEventWatch DEF Hide, PageType
<1>3. CASE Show
  BY <1>3, PageEventWatch DEF Show, PageType
<1>4. CASE Blur
  <2>1. watch.sensitive \in BOOLEAN
    BY WatchFacts
  <2>2. PageEvent(visible, FALSE, watch.sensitive)
    BY <1>4 DEF Blur
  <2>3. ~watch.sensitive => Background(watch, visible, FALSE)
                              = Background(watch, visible, focused)
    BY DEF Background
  <2> QED
    BY <2>1, <2>2, <2>3, PageEventWatch DEF PageType
<1>5. CASE Focus
  <2>1. watch.sensitive \in BOOLEAN
    BY WatchFacts
  <2>2. PageEvent(visible, TRUE, watch.sensitive)
    BY <1>5 DEF Focus
  <2>3. ~watch.sensitive => Background(watch, visible, TRUE)
                              = Background(watch, visible, focused)
    BY DEF Background
  <2> QED
    BY <2>1, <2>2, <2>3, PageEventWatch DEF PageType
<1>6. CASE PageHide
  BY <1>6, LockWatch DEF PageHide, WatchHolds
<1>7. CASE Restore
  BY <1>7, LockWatch DEF Restore, WatchHolds
<1>8. CASE Tick
  BY <1>8, TickWatch
<1>9. CASE LockTimer
  BY <1>9, LockWatch DEF LockTimer, WatchHolds
<1>10. CASE WatchEffect
  BY <1>10, InstalledWatch
<1>11. CASE UNCHANGED vars
  BY <1>11 DEF vars, ui, page, client, WatchHolds, Closed, HasSession, Knows, Background
<1> QED
  BY <1>1, <1>2, <1>3, <1>4, <1>5, <1>6, <1>7, <1>8, <1>9, <1>10, <1>11
  DEF Next, PageStep, Effect

LEMMA WatchInit == Init => WatchHolds
BY DEF Init, WatchHolds, NotWatching, Watching

LEMMA WatchInvariant == Spec => [](TypeOK /\ WatchHolds)
<1>1. TypeOK /\ WatchHolds /\ [Next]_vars => (TypeOK /\ WatchHolds)'
  BY NextType, WatchStep
<1> QED
  BY <1>1, InitType, WatchInit, PTL DEF Spec

\* A phrase on the screen, or a backup under way, is not left in the
\* background under the delay "Never" once the effects have run: the watcher
\* that is then installed would have locked.
THEOREM PhrasesStayHidden == Spec => []SensitiveNeverHidden
<1>1. TypeOK /\ WatchHolds => SensitiveNeverHidden
  <2> SUFFICES ASSUME TypeOK, WatchHolds, Settled, Sensitive, HasSession,
                      backgroundLockSeconds = 0
               PROVE  ~Background(watch, visible, focused)
    BY DEF SensitiveNeverHidden
  <2>1. watch.on /\ watch.sensitive /\ watch.delay = 0
    BY WatchFacts, TypeParts DEF Settled
  <2>2. ~watch.locked
    BY <2>1 DEF WatchHolds, Closed
  <2> QED
    BY <2>1, <2>2 DEF WatchHolds, Knows
<1> QED
  BY <1>1, WatchInvariant, PTL

\* A page that comes back after an absence as long as the delay finds the
\* session closed, for every delay: the deadline counts down as the absence
\* counts up, whatever events the absence is made of.
THEOREM AbsencesAreBounded == Spec => AbsenceBounded
<1> DEFINE Back == /\ watch.on /\ watch.delay > 0 /\ away >= watch.delay
                   /\ Background(watch, visible, focused)
                   /\ ~Background(watch, visible', focused')
<1>1. ASSUME TypeOK, WatchHolds, [Next]_vars, Back
      PROVE  sessionRef' = NoSession
  <2> USE TypeParts, WatchFacts, DelayFacts
  <2>1. Back
    BY <1>1
  <2>2. ~UNCHANGED <<visible, focused>>
    BY <2>1
  <2>3. CASE watch.locked
    <3>1. watch.locked /\ sessionRef = NoSession /\ pending = {}
      BY <1>1, <2>1, <2>3 DEF WatchHolds, Closed
    <3>2. CASE PageStep
      <4>1. sessionRef' = sessionRef \/ sessionRef' = NoSession
        BY <3>2
        DEF PageStep, Hide, Show, Blur, Focus, PageEvent, Apply, PageHide, Restore,
            Lock, Tick, LockTimer, DestroySession, ui
      <4> QED
        BY <3>1, <4>1
    <3>3. ~PageStep => UNCHANGED <<visible, focused>>
      BY <1>1, ElsewhereUnchanged DEF Next, Effect, WatchEffect, page, vars
    <3> QED
      BY <2>2, <3>2, <3>3
  <2>4. CASE ~watch.locked
    <3>1. watch.deadline = 0
      BY <1>1, <2>1, <2>4 DEF WatchHolds, Knows
    <3>2. CASE PageStep
      <4>1. ASSUME NEW v, NEW f, PageEvent(v, f, TRUE)
            PROVE  sessionRef' = NoSession
        BY <2>1, <2>4, <3>1, <4>1 DEF PageEvent, Update, Apply, DestroySession
      <4>2. ASSUME NEW v, NEW f, PageEvent(v, f, watch.sensitive)
            PROVE  sessionRef' = NoSession \/ ~watch.sensitive
        BY <4>1, <4>2
      <4>3. CASE Blur \/ Focus
        <5>1. sessionRef' = NoSession \/ ~watch.sensitive
          BY <4>2, <4>3 DEF Blur, Focus
        <5>2. ~watch.sensitive => FALSE
          BY <2>1, <4>3 DEF Blur, Focus, PageEvent, Background
        <5> QED
          BY <5>1, <5>2
      <4>4. CASE Hide \/ Show
        BY <4>1, <4>4 DEF Hide, Show
      <4>5. CASE PageHide \/ Restore
        BY <2>1, <2>4, <4>5 DEF PageHide, Restore, Lock, DestroySession
      <4>6. CASE Tick \/ LockTimer
        BY <2>2, <4>6 DEF Tick, LockTimer, page
      <4> QED
        BY <3>2, <4>3, <4>4, <4>5, <4>6 DEF PageStep
    <3>3. ~PageStep => UNCHANGED <<visible, focused>>
      BY <1>1, ElsewhereUnchanged DEF Next, Effect, WatchEffect, page, vars
    <3> QED
      BY <2>2, <3>2, <3>3
  <2> QED
    BY <2>3, <2>4
<1>2. TypeOK /\ WatchHolds /\ [Next]_vars => [Back => sessionRef' = NoSession]_vars
  BY <1>1
<1> QED
  BY <1>2, WatchInvariant, PTL DEF Spec, AbsenceBounded

(***************************************************************************)
(* Requests on their way                                                   *)
(***************************************************************************)
\* A request made since the last lock, or none.
Recent(i, lock, last) == i = NoSession \/ i \in lock + 1 .. last

HeldFresh ==
    /\ Recent(sessionRef, lastLock, Len(asked))
    /\ Recent(activeSession, lastLock, Len(asked))
    /\ \A i \in pending : Recent(i, lastLock, Len(asked))
    /\ \A n \in 1 .. Len(inbox) : Recent(inbox[n], lastLock, Len(asked))
    /\ \A i \in Id :
         /\ Recent(task[i].session, lastLock, Len(asked))
         /\ task[i].stage # "none" => Recent(i, lastLock, Len(asked))
    /\ \A n \in 1 .. Len(answers) :
         /\ Recent(answers[n].id, lastLock, Len(asked))
         /\ Recent(answers[n].session, lastLock, Len(asked))
    /\ \A i \in lastLock + 1 .. Len(asked) : Recent(asked[i].session, lastLock, Len(asked))

\* A task works for the session its request names.
Served ==
    /\ \A i \in Id :
         /\ task[i].stage \in {"deriving", "sealing"} =>
              asked[i].kind \in Opening /\ task[i].session = i
         /\ task[i].stage \in {"rekeying", "decrypting"} =>
              asked[i].kind \notin Opening /\ task[i].session = asked[i].session
    /\ \A n \in 1 .. Len(answers) :
         answers[n].ok => answers[n].session =
           IF asked[answers[n].id].kind \in Opening THEN answers[n].id
           ELSE asked[answers[n].id].session
    /\ activeSession # NoSession => asked[activeSession].kind \in Opening

\* A request is in one place: in the inbox, a task, or answered.
Once ==
    /\ \A m, n \in 1 .. Len(inbox) : inbox[m] = inbox[n] => m = n
    /\ \A n \in 1 .. Len(inbox) : task[inbox[n]].stage = "none"
    /\ \A m, n \in 1 .. Len(answers) : answers[m].id = answers[n].id => m = n
    /\ \A m \in 1 .. Len(answers) :
         /\ task[answers[m].id].stage = "none"
         /\ \A n \in 1 .. Len(inbox) : inbox[n] # answers[m].id
    /\ ~worker => Len(inbox) = 0 /\ Len(answers) = 0
                  /\ \A i \in Id : task[i].stage = "none"

RequestsHold == HeldFresh /\ Served /\ Once

LEMMA TailFacts ==
    ASSUME NEW S, NEW q \in Seq(S), q # <<>>
    PROVE  /\ Len(q) \in Nat /\ Len(q) > 0 /\ Head(q) = q[1] /\ Head(q) \in S
           /\ Tail(q) \in Seq(S) /\ Len(Tail(q)) = Len(q) - 1
           /\ \A n \in 1 .. Len(Tail(q)) : Tail(q)[n] = q[n + 1] /\ n + 1 \in 1 .. Len(q)
OBVIOUS

LEMMA AppendFacts ==
    ASSUME NEW S, NEW q \in Seq(S), NEW e \in S
    PROVE  /\ Append(q, e) \in Seq(S) /\ Len(q) \in Nat /\ Len(Append(q, e)) = Len(q) + 1
           /\ \A n \in 1 .. Len(q) : Append(q, e)[n] = q[n]
           /\ Append(q, e)[Len(q) + 1] = e
OBVIOUS

LEMMA SizeFacts ==
    ASSUME TypeOK
    PROVE  /\ Len(asked) \in Nat /\ Len(asked) <= MaxRequests /\ lastLock \in Nat
           /\ lastLock <= Len(asked) /\ Len(inbox) \in Nat /\ Len(answers) \in Nat
           /\ \A i : Recent(i, lastLock, Len(asked)) /\ i # NoSession => i \in Id /\ i \in 1 .. Len(asked)
                                               /\ i > lastLock
<1>1. /\ Len(asked) \in Nat /\ Len(asked) <= MaxRequests /\ lastLock \in Nat
      /\ lastLock <= Len(asked) /\ Len(inbox) \in Nat /\ Len(answers) \in Nat
  BY TypeParts DEF ClientType, InsideType, LockType
<1>2. ASSUME NEW i, Recent(i, lastLock, Len(asked)), i # NoSession
      PROVE  i \in Id /\ i \in 1 .. Len(asked) /\ i > lastLock
  BY <1>1, <1>2, IdFacts DEF Recent
<1> QED
  BY <1>1, <1>2

\* What a lock or a failure of the worker leaves.
Emptied ==
    /\ pending' = {} /\ worker' = FALSE /\ asked' = asked
    /\ inbox' = <<>> /\ answers' = <<>> /\ task' = [i \in Id |-> Idle]
    /\ activeSession' = NoSession

LEMMA EmptiedRequests ==
    ASSUME TypeOK, RequestsHold, Emptied,
           \/ lastLock' = Len(asked) /\ sessionRef' = NoSession
           \/ lastLock' = lastLock /\ sessionRef' = sessionRef
    PROVE  RequestsHold'
<1> USE SizeFacts, IdFacts
<1>1. Len(inbox') = 0 /\ Len(answers') = 0
  BY DEF Emptied
<1>2. \A i \in Id : task'[i].stage = "none" /\ task'[i].session = NoSession
  BY DEF Emptied, Idle
<1>3. HeldFresh'
  <2>1. \A i \in lastLock' + 1 .. Len(asked') :
          Recent(asked'[i].session, lastLock', Len(asked'))
    <3>1. CASE lastLock' = Len(asked)
      BY <3>1 DEF Emptied
    <3>2. CASE lastLock' = lastLock
      BY <3>2 DEF Emptied, RequestsHold, HeldFresh
    <3> QED
      BY <3>1, <3>2
  <2>2. Recent(sessionRef', lastLock', Len(asked')) /\ Recent(NoSession, lastLock', Len(asked'))
    BY DEF Emptied, RequestsHold, HeldFresh, Recent
  <2> QED
    BY <1>1, <1>2, <2>1, <2>2 DEF Emptied, HeldFresh
<1>4. Served'
  BY <1>1, <1>2 DEF Emptied, Served
<1>5. Once'
  BY <1>1, <1>2 DEF Emptied, Once
<1> QED
  BY <1>3, <1>4, <1>5 DEF RequestsHold

LEMMA UnchangedRequests ==
    ASSUME TypeOK, RequestsHold,
           UNCHANGED <<sessionRef, asked, worker, inbox, task, activeSession, answers,
                       lastLock>>,
           pending' \subseteq pending
    PROVE  RequestsHold'
BY DEF RequestsHold, HeldFresh, Recent, Served, Once

\* Request new was made.
Made(new, kind, session) ==
    /\ new = Len(asked) + 1 /\ pending' = pending \cup {new} /\ worker' = TRUE
    /\ UNCHANGED <<task, activeSession, answers>>
    /\ Len(asked') = new /\ \A i \in 1 .. Len(asked) : asked'[i] = asked[i]
    /\ asked'[new].session = session /\ asked'[new].kind = kind
    /\ Len(inbox') = Len(inbox) + 1 /\ inbox'[Len(inbox) + 1] = new
    /\ \A n \in 1 .. Len(inbox) : inbox'[n] = inbox[n]
    /\ \A n \in 1 .. Len(inbox') :
         \/ n \in 1 .. Len(inbox) /\ inbox'[n] = inbox[n]
         \/ n = Len(inbox) + 1 /\ inbox'[n] = new

LEMMA RequestFacts ==
    ASSUME TypeOK, NEW kind \in Opening \cup Asking,
           NEW session \in {NoSession, sessionRef}, Request(kind, session)
    PROVE  \E new \in Id : Made(new, kind, session)
<1> USE SizeFacts, IdFacts
<1>0. PICK new : new = Len(asked) + 1
  OBVIOUS
<1>1. /\ new \in Id /\ pending' = pending \cup {new} /\ worker' = TRUE
      /\ UNCHANGED <<task, activeSession, answers>>
  BY <1>0 DEF Request
<1>2. /\ Len(asked') = new /\ \A i \in 1 .. Len(asked) : asked'[i] = asked[i]
      /\ asked'[new].session = session /\ asked'[new].kind = kind
  <2>1. session \in Id \cup {NoSession}
    BY TypeParts DEF UiType
  <2>2. [kind |-> kind, session |-> session] \in Ask
    BY <2>1 DEF Ask
  <2>3. asked \in Seq(Ask)
    BY TypeParts DEF ClientType
  <2> QED
    BY <1>0, <2>2, <2>3, AppendFacts DEF Request
<1>3. /\ Len(inbox') = Len(inbox) + 1 /\ inbox'[Len(inbox) + 1] = new
      /\ \A n \in 1 .. Len(inbox) : inbox'[n] = inbox[n]
  BY <1>0, <1>1, AppendFacts, TypeParts DEF Request, InsideType
<1>4. \A n \in 1 .. Len(inbox') :
        \/ n \in 1 .. Len(inbox) /\ inbox'[n] = inbox[n]
        \/ n = Len(inbox) + 1 /\ inbox'[n] = new
  <2> TAKE n \in 1 .. Len(inbox')
  <2>1. Len(inbox) \in Nat /\ n \in 1 .. Len(inbox) + 1
    BY <1>3
  <2>2. n \in 1 .. Len(inbox) \/ n = Len(inbox) + 1
    BY <2>1
  <2> QED
    BY <2>2, <1>3
<1> QED
  BY <1>0, <1>1, <1>2, <1>3, <1>4 DEF Made

LEMMA RequestRequests ==
    ASSUME TypeOK, RequestsHold, NEW kind \in Opening \cup Asking,
           NEW session \in {NoSession, sessionRef}, Request(kind, session),
           UNCHANGED <<sessionRef, lastLock>>
    PROVE  RequestsHold'
<1>0. PICK new \in Id : Made(new, kind, session)
  BY RequestFacts
<1> USE SizeFacts, IdFacts
<1>1. /\ new \in Id /\ pending' = pending \cup {new} /\ worker' = TRUE
      /\ UNCHANGED <<task, activeSession, answers>>
  BY <1>0 DEF Made
<1>2. /\ Len(asked') = new /\ \A i \in 1 .. Len(asked) : asked'[i] = asked[i]
      /\ asked'[new].session = session
  BY <1>0 DEF Made
<1>3. /\ Len(inbox') = Len(inbox) + 1 /\ inbox'[Len(inbox) + 1] = new
      /\ \A n \in 1 .. Len(inbox) : inbox'[n] = inbox[n]
  BY <1>0 DEF Made
<1>4. \A i : Recent(i, lastLock, Len(asked)) => Recent(i, lastLock', Len(asked')) /\ i # new
  BY <1>0, <1>2 DEF Made, Recent
<1>5. Recent(new, lastLock', Len(asked'))
  BY <1>0, <1>2 DEF Made, Recent
<1>6. Recent(session, lastLock', Len(asked')) /\ Recent(session, lastLock, Len(asked))
  <2>1. Recent(session, lastLock, Len(asked))
    BY DEF RequestsHold, HeldFresh, Recent
  <2> QED
    BY <2>1, <1>4
<1>7. \A i : Recent(i, lastLock, Len(asked)) /\ i # NoSession => asked'[i] = asked[i]
  BY <1>2
<1>8. HeldFresh'
  <2>1. \A i \in lastLock' + 1 .. Len(asked') : Recent(asked'[i].session, lastLock', Len(asked'))
    <3> TAKE i \in lastLock' + 1 .. Len(asked')
    <3>1. CASE i = new
      BY <3>1, <1>2, <1>6
    <3>2. CASE i # new
      <4>1. i \in lastLock + 1 .. Len(asked) /\ i \in 1 .. Len(asked)
        BY <1>0, <1>2, <3>2 DEF Made
      <4> QED
        BY <4>1, <1>2, <1>4 DEF RequestsHold, HeldFresh
    <3> QED
      BY <3>1, <3>2
  <2>2. \A n \in 1 .. Len(inbox') : Recent(inbox'[n], lastLock', Len(asked'))
    BY <1>3, <1>4, <1>5 DEF RequestsHold, HeldFresh
  <2> QED
    BY <1>1, <1>4, <1>5, <2>1, <2>2 DEF RequestsHold, HeldFresh
<1>9. Served'
  <2>1. \A i \in Id : task[i].stage # "none" => i # NoSession /\ Recent(i, lastLock, Len(asked))
    BY DEF RequestsHold, HeldFresh
  <2>2. \A n \in 1 .. Len(answers) :
          answers[n].id # NoSession /\ Recent(answers[n].id, lastLock, Len(asked))
    <3>1. \A n \in 1 .. Len(answers) : answers[n] \in Reply
      BY TypeParts DEF InsideType
    <3>2. \A n \in 1 .. Len(answers) : answers[n].id \in Id
      BY <3>1 DEF Reply
    <3> QED
      BY <3>2 DEF RequestsHold, HeldFresh
  <2>3. Recent(activeSession, lastLock, Len(asked))
    BY DEF RequestsHold, HeldFresh
  <2>4. \A i \in Id :
         /\ task[i].stage \in {"deriving", "sealing"} =>
              asked'[i].kind \in Opening /\ task[i].session = i
         /\ task[i].stage \in {"rekeying", "decrypting"} =>
              asked'[i].kind \notin Opening /\ task[i].session = asked'[i].session
    <3> TAKE i \in Id
    <3>1. task[i].stage # "none" => asked'[i] = asked[i]
      BY <1>7, <2>1
    <3> QED
      BY <3>1 DEF RequestsHold, Served
  <2>5. \A n \in 1 .. Len(answers) :
         answers[n].ok => answers[n].session =
           IF asked'[answers[n].id].kind \in Opening THEN answers[n].id
           ELSE asked'[answers[n].id].session
    BY <1>7, <2>2 DEF RequestsHold, Served
  <2>6. activeSession # NoSession => asked'[activeSession].kind \in Opening
    BY <1>7, <2>3 DEF RequestsHold, Served
  <2> QED
    BY <1>1, <2>4, <2>5, <2>6 DEF Served
<1>10. Once'
  <2>1. task[new].stage = "none"
    BY <1>1, <1>4 DEF RequestsHold, HeldFresh
  <2>2. \A n \in 1 .. Len(inbox) : inbox[n] # new
    BY <1>4 DEF RequestsHold, HeldFresh
  <2>3. \A n \in 1 .. Len(answers) : answers[n].id # new
    BY <1>4 DEF RequestsHold, HeldFresh
  <2>4. \A n \in 1 .. Len(inbox') :
          \/ n \in 1 .. Len(inbox) /\ inbox'[n] = inbox[n]
          \/ n = Len(inbox) + 1 /\ inbox'[n] = new
    BY <1>0 DEF Made
  <2>5. \A m, n \in 1 .. Len(inbox') : inbox'[m] = inbox'[n] => m = n
    BY <2>2, <2>4 DEF RequestsHold, Once
  <2>6. \A n \in 1 .. Len(inbox') : task[inbox'[n]].stage = "none"
    BY <2>1, <2>4 DEF RequestsHold, Once
  <2>7. \A m \in 1 .. Len(answers) : \A n \in 1 .. Len(inbox') : inbox'[n] # answers[m].id
    BY <2>3, <2>4 DEF RequestsHold, Once
  <2> QED
    BY <1>1, <2>5, <2>6, <2>7 DEF RequestsHold, Once
<1> QED
  BY <1>8, <1>9, <1>10 DEF RequestsHold

\* An answer is taken off: nothing is left of its request.
LEMMA DeliverRequests ==
    ASSUME TypeOK, RequestsHold, answers # <<>>, answers' = Tail(answers),
           pending' \subseteq pending, sessionRef' \in {sessionRef, Head(answers).session,
                                                       asked[Head(answers).id].session},
           UNCHANGED <<asked, worker, inbox, task, activeSession, lastLock>>
    PROVE  RequestsHold'
<1> USE SizeFacts
<1>1. /\ Len(answers) > 0 /\ Head(answers) = answers[1]
      /\ Len(answers') = Len(answers) - 1
      /\ \A n \in 1 .. Len(answers') : answers'[n] = answers[n + 1] /\ n + 1 \in 1 .. Len(answers)
  BY TailFacts, TypeParts DEF InsideType
<1>2. /\ 1 \in 1 .. Len(answers)
      /\ answers[1].id \in Id
  <2>1. 1 \in 1 .. Len(answers) /\ answers[1] \in Reply
    BY <1>1, TypeParts DEF InsideType
  <2> QED
    BY <2>1 DEF Reply
<1>3. Recent(sessionRef', lastLock', Len(asked'))
  <2>1. /\ Recent(answers[1].id, lastLock, Len(asked))
        /\ Recent(answers[1].session, lastLock, Len(asked))
        /\ Recent(sessionRef, lastLock, Len(asked))
    BY <1>2 DEF RequestsHold, HeldFresh
  <2>2. answers[1].id \in lastLock + 1 .. Len(asked)
    BY <1>2, <2>1, IdFacts DEF Recent
  <2>3. Recent(asked[answers[1].id].session, lastLock, Len(asked))
    BY <2>2 DEF RequestsHold, HeldFresh
  <2> QED
    BY <1>1, <2>1, <2>3
<1>4. HeldFresh'
  BY <1>1, <1>3 DEF RequestsHold, HeldFresh
<1>5. Served'
  BY <1>1 DEF RequestsHold, Served
<1>6. Once'
  <2>1. \A m, n \in 1 .. Len(answers') : answers'[m].id = answers'[n].id => m = n
    <3> TAKE m, n \in 1 .. Len(answers')
    <3>1. answers'[m] = answers[m + 1] /\ m + 1 \in 1 .. Len(answers)
      BY <1>1
    <3>2. answers'[n] = answers[n + 1] /\ n + 1 \in 1 .. Len(answers)
      BY <1>1
    <3>3. answers[m + 1].id = answers[n + 1].id => m + 1 = n + 1
      BY <3>1, <3>2 DEF RequestsHold, Once
    <3> QED
      BY <3>1, <3>2, <3>3
  <2>2. \A m \in 1 .. Len(answers') :
          /\ task[answers'[m].id].stage = "none"
          /\ \A n \in 1 .. Len(inbox) : inbox[n] # answers'[m].id
    BY <1>1 DEF RequestsHold, Once
  <2> QED
    BY <1>1, <2>1, <2>2 DEF RequestsHold, Once
<1> QED
  BY <1>4, <1>5, <1>6 DEF RequestsHold

(***************************************************************************)
(* What one step of the worker does to the requests, in one form for all:  *)
(* request id leaves its place, with its task in the state t, and perhaps  *)
(* an answer.                                                              *)
(***************************************************************************)
\* id is the head of the inbox and leaves it.
Taken(id) == inbox # <<>> /\ id = Head(inbox) /\ inbox' = Tail(inbox)

\* id is under way.
Working(id) == task[id].stage # "none" /\ inbox' = inbox

Untouched == UNCHANGED <<sessionRef, asked, pending, worker, lastLock>>

\* The answer to request id, of session, is posted and its task is over.
Ends(id, ok, session) ==
    /\ answers' = Append(answers, [id |-> id, ok |-> ok, session |-> session])
    /\ \/ task' = [task EXCEPT ![id] = Idle]
       \/ Taken(id) /\ task' = task

\* The same of an opening that succeeds, and of any other answer.
Opens(id) == /\ asked[id].kind \in Opening /\ Ends(id, TRUE, id)
             /\ activeSession' = id
Replies(id) ==
    /\ UNCHANGED activeSession
    /\ \/ Ends(id, FALSE, NoSession)
       \/ asked[id].kind \notin Opening /\ Ends(id, TRUE, asked[id].session)

\* The task of request id goes on.
Goes(id, stage, session) ==
    /\ answers' = answers
    /\ task' = [task EXCEPT ![id] = [stage |-> stage, session |-> session]]

\* The same of an opening, which may clear the active session, and of a
\* command.
Prepares(id) ==
    /\ asked[id].kind \in Opening
    /\ activeSession' \in {activeSession, NoSession}
    /\ \E stage \in {"deriving", "sealing"} : Goes(id, stage, id)
Serves(id) ==
    /\ asked[id].kind \notin Opening /\ UNCHANGED activeSession
    /\ \E stage \in {"rekeying", "decrypting"} : Goes(id, stage, asked[id].session)

Moves(id) ==
    /\ Taken(id) \/ Working(id)
    /\ Opens(id) \/ Replies(id) \/ Prepares(id) \/ Serves(id)

LEMMA PlaceFacts ==
    ASSUME TypeOK, RequestsHold, NEW id \in Id, Taken(id) \/ Working(id)
    PROVE  /\ Recent(id, lastLock, Len(asked)) /\ id # NoSession /\ worker
           /\ \A n \in 1 .. Len(answers) : answers[n].id # id
           /\ Taken(id) => task[id].stage = "none"
           /\ Len(inbox') \in Nat
           /\ \A n \in 1 .. Len(inbox') : inbox'[n] # id
           /\ \A n \in 1 .. Len(inbox') : \E m \in 1 .. Len(inbox) : inbox'[n] = inbox[m]
           /\ \A m, n \in 1 .. Len(inbox') : inbox'[m] = inbox'[n] => m = n
<1> USE SizeFacts
<1>1. id # NoSession
  BY IdFacts
<1>2. worker \in BOOLEAN
  BY TypeParts DEF ClientType
<1>3. CASE Taken(id)
  <2>1. /\ Len(inbox) > 0 /\ id = inbox[1] /\ Len(inbox') = Len(inbox) - 1
        /\ \A n \in 1 .. Len(inbox') : inbox'[n] = inbox[n + 1] /\ n + 1 \in 1 .. Len(inbox)
    BY <1>3, TailFacts, TypeParts DEF Taken, InsideType
  <2>2. 1 \in 1 .. Len(inbox)
    BY <2>1
  <2>3. \A m, n \in 1 .. Len(inbox) : inbox[m] = inbox[n] => m = n
    BY DEF RequestsHold, Once
  <2>4. \A n \in 1 .. Len(inbox') : inbox'[n] # id
    <3> TAKE n \in 1 .. Len(inbox')
    <3>1. inbox'[n] = inbox[n + 1] /\ n + 1 \in 1 .. Len(inbox) /\ n + 1 # 1
      BY <2>1
    <3> QED
      BY <2>1, <2>2, <2>3, <3>1
  <2>5. \A m, n \in 1 .. Len(inbox') : inbox'[m] = inbox'[n] => m = n
    <3> TAKE m, n \in 1 .. Len(inbox')
    <3>1. inbox'[m] = inbox[m + 1] /\ m + 1 \in 1 .. Len(inbox)
      BY <2>1
    <3>2. inbox'[n] = inbox[n + 1] /\ n + 1 \in 1 .. Len(inbox)
      BY <2>1
    <3>3. inbox[m + 1] = inbox[n + 1] => m + 1 = n + 1
      BY <2>3, <3>1, <3>2
    <3> QED
      BY <3>1, <3>2, <3>3
  <2>6. /\ Recent(id, lastLock, Len(asked)) /\ worker
        /\ \A n \in 1 .. Len(answers) : answers[n].id # id
        /\ task[id].stage = "none"
    BY <2>1, <2>2, <1>2 DEF RequestsHold, HeldFresh, Once
  <2> QED
    BY <1>1, <2>1, <2>4, <2>5, <2>6
<1>4. CASE Working(id)
  <2>1. \A n \in 1 .. Len(inbox) : inbox[n] # id
    BY <1>4 DEF Working, RequestsHold, Once
  <2>2. /\ Recent(id, lastLock, Len(asked)) /\ worker
        /\ \A n \in 1 .. Len(answers) : answers[n].id # id
    BY <1>2, <1>4 DEF Working, RequestsHold, HeldFresh, Once
  <2>3. \A m, n \in 1 .. Len(inbox) : inbox[m] = inbox[n] => m = n
    BY DEF RequestsHold, Once
  <2>4. inbox' = inbox /\ ~Taken(id)
    <3>1. inbox' = inbox
      BY <1>4 DEF Working
    <3>2. inbox # <<>> => Len(Tail(inbox)) = Len(inbox) - 1
      BY TailFacts, TypeParts DEF InsideType
    <3> QED
      BY <3>1, <3>2 DEF Taken
  <2> QED
    BY <1>1, <2>1, <2>2, <2>3, <2>4
<1> QED
  BY <1>3, <1>4

LEMMA EndsRequests ==
    ASSUME TypeOK, RequestsHold, Untouched, NEW id \in Id, Taken(id) \/ Working(id),
           NEW ok \in BOOLEAN, NEW session \in Id \cup {NoSession},
           Ends(id, ok, session), Recent(session, lastLock, Len(asked)),
           ok => session = IF asked[id].kind \in Opening THEN id ELSE asked[id].session,
           activeSession' = activeSession
             \/ (activeSession' = id /\ asked[id].kind \in Opening)
    PROVE  RequestsHold'
<1> DEFINE a == [id |-> id, ok |-> ok, session |-> session]
<1>1. /\ Len(answers') = Len(answers) + 1 /\ Len(answers) \in Nat
      /\ \A n \in 1 .. Len(answers) : answers'[n] = answers[n]
      /\ answers'[Len(answers) + 1] = a
  <2>1. a \in Reply /\ answers \in Seq(Reply)
    BY TypeParts DEF Reply, InsideType
  <2> QED
    BY <2>1, AppendFacts DEF Ends
<1>2. \A n \in 1 .. Len(answers') : \/ n \in 1 .. Len(answers) /\ answers'[n] = answers[n]
                                    \/ n = Len(answers) + 1 /\ answers'[n] = a
  <2> TAKE n \in 1 .. Len(answers')
  <2>1. n \in 1 .. Len(answers) \/ n = Len(answers) + 1
    BY <1>1
  <2> QED
    BY <1>1, <2>1
<1>3. a.id = id /\ a.ok = ok /\ a.session = session
  OBVIOUS
<1> HIDE DEF a
<1>4. /\ task'[id].stage = "none"
      /\ task'[id].session = NoSession \/ task'[id].session = task[id].session
      /\ \A i \in Id : i # id => task'[i] = task[i]
  <2>1. CASE task' = [task EXCEPT ![id] = Idle]
    BY <2>1, TypeParts DEF InsideType, Idle
  <2>2. CASE Taken(id) /\ task' = task
    BY <2>2, PlaceFacts
  <2> QED
    BY <2>1, <2>2 DEF Ends
<1>5. /\ Recent(id, lastLock, Len(asked)) /\ id # NoSession /\ worker
      /\ \A n \in 1 .. Len(answers) : answers[n].id # id
      /\ \A n \in 1 .. Len(inbox') : inbox'[n] # id
      /\ \A n \in 1 .. Len(inbox') : \E m \in 1 .. Len(inbox) : inbox'[n] = inbox[m]
      /\ \A m, n \in 1 .. Len(inbox') : inbox'[m] = inbox'[n] => m = n
  BY PlaceFacts
<1>6. UNCHANGED <<sessionRef, asked, pending, worker, lastLock>>
  BY DEF Untouched
<1>7. HeldFresh'
  <2>1. \A n \in 1 .. Len(answers') :
          /\ Recent(answers'[n].id, lastLock, Len(asked))
          /\ Recent(answers'[n].session, lastLock, Len(asked))
    BY <1>2, <1>3, <1>5 DEF RequestsHold, HeldFresh
  <2>2. \A i \in Id : /\ Recent(task'[i].session, lastLock, Len(asked))
                      /\ task'[i].stage # "none" => Recent(i, lastLock, Len(asked))
    BY <1>4 DEF RequestsHold, HeldFresh, Recent
  <2>3. \A n \in 1 .. Len(inbox') : Recent(inbox'[n], lastLock, Len(asked))
    BY <1>5 DEF RequestsHold, HeldFresh
  <2>4. Recent(activeSession', lastLock, Len(asked))
    BY <1>5 DEF RequestsHold, HeldFresh
  <2> QED
    BY <1>6, <2>1, <2>2, <2>3, <2>4 DEF RequestsHold, HeldFresh
<1>8. Served'
  <2>1. \A n \in 1 .. Len(answers') :
          answers'[n].ok => answers'[n].session =
            IF asked[answers'[n].id].kind \in Opening THEN answers'[n].id
            ELSE asked[answers'[n].id].session
    BY <1>2, <1>3 DEF RequestsHold, Served
  <2>2. \A i \in Id :
         /\ task'[i].stage \in {"deriving", "sealing"} =>
              asked[i].kind \in Opening /\ task'[i].session = i
         /\ task'[i].stage \in {"rekeying", "decrypting"} =>
              asked[i].kind \notin Opening /\ task'[i].session = asked[i].session
    BY <1>4 DEF RequestsHold, Served
  <2>3. activeSession' # NoSession => asked[activeSession'].kind \in Opening
    BY DEF RequestsHold, Served
  <2> QED
    BY <1>6, <2>1, <2>2, <2>3 DEF Served
<1>9. Once'
  <2>1. \A m, n \in 1 .. Len(answers') : answers'[m].id = answers'[n].id => m = n
    BY <1>2, <1>3, <1>5 DEF RequestsHold, Once
  <2>2. \A m \in 1 .. Len(answers) : answers[m].id \in Id
    <3>1. \A m \in 1 .. Len(answers) : answers[m] \in Reply
      BY TypeParts DEF InsideType
    <3> QED
      BY <3>1 DEF Reply
  <2>3. \A m \in 1 .. Len(answers') : task'[answers'[m].id].stage = "none"
    BY <1>2, <1>3, <1>4, <2>2 DEF RequestsHold, Once
  <2>4. \A m \in 1 .. Len(answers') : \A n \in 1 .. Len(inbox') : inbox'[n] # answers'[m].id
    <3> TAKE m \in 1 .. Len(answers')
    <3> TAKE n \in 1 .. Len(inbox')
    <3>1. CASE answers'[m] = a
      BY <3>1, <1>3, <1>5
    <3>2. CASE m \in 1 .. Len(answers) /\ answers'[m] = answers[m]
      BY <3>2, <1>5 DEF RequestsHold, Once
    <3> QED
      BY <3>1, <3>2, <1>2
  <2>5. \A n \in 1 .. Len(inbox) : inbox[n] \in Id
    BY TypeParts DEF InsideType
  <2>6. \A n \in 1 .. Len(inbox') : task'[inbox'[n]].stage = "none"
    <3> TAKE n \in 1 .. Len(inbox')
    <3>1. PICK m \in 1 .. Len(inbox) : inbox'[n] = inbox[m]
      BY <1>5
    <3>2. task[inbox[m]].stage = "none"
      BY DEF RequestsHold, Once
    <3>3. inbox[m] \in Id /\ inbox[m] # id
      BY <1>5, <2>5, <3>1
    <3> QED
      BY <1>4, <3>1, <3>2, <3>3
  <2> QED
    BY <1>5, <1>6, <2>1, <2>3, <2>4, <2>6 DEF Once
<1> QED
  BY <1>7, <1>8, <1>9 DEF RequestsHold

LEMMA GoesRequests ==
    ASSUME TypeOK, RequestsHold, Untouched, NEW id \in Id, Taken(id) \/ Working(id),
           NEW stage, NEW session, Goes(id, stage, session),
           Recent(session, lastLock, Len(asked)),
           \/ stage \in {"deriving", "sealing"} /\ asked[id].kind \in Opening /\ session = id
           \/ /\ stage \in {"rekeying", "decrypting"} /\ asked[id].kind \notin Opening
              /\ session = asked[id].session,
           activeSession' \in {activeSession, NoSession}
    PROVE  RequestsHold'
<1>1. /\ task'[id].stage = stage /\ task'[id].session = session
      /\ \A i \in Id : i # id => task'[i] = task[i]
      /\ answers' = answers
  BY TypeParts DEF Goes, InsideType
<1>2. /\ Recent(id, lastLock, Len(asked)) /\ id # NoSession /\ worker
      /\ \A n \in 1 .. Len(answers) : answers[n].id # id
      /\ \A n \in 1 .. Len(inbox') : inbox'[n] # id
      /\ \A n \in 1 .. Len(inbox') : \E m \in 1 .. Len(inbox) : inbox'[n] = inbox[m]
      /\ \A m, n \in 1 .. Len(inbox') : inbox'[m] = inbox'[n] => m = n
  BY PlaceFacts
<1>3. UNCHANGED <<sessionRef, asked, pending, worker, lastLock>>
  BY DEF Untouched
<1>4. HeldFresh'
  <2>1. \A i \in Id : /\ Recent(task'[i].session, lastLock, Len(asked))
                      /\ task'[i].stage # "none" => Recent(i, lastLock, Len(asked))
    BY <1>1, <1>2 DEF RequestsHold, HeldFresh
  <2>2. \A n \in 1 .. Len(inbox') : Recent(inbox'[n], lastLock, Len(asked))
    BY <1>2 DEF RequestsHold, HeldFresh
  <2>3. Recent(activeSession', lastLock, Len(asked))
    BY DEF RequestsHold, HeldFresh, Recent
  <2> QED
    BY <1>1, <1>3, <2>1, <2>2, <2>3 DEF RequestsHold, HeldFresh
<1>5. Served'
  BY <1>1, <1>3 DEF RequestsHold, Served
<1>6. Once'
  <2>1. \A m \in 1 .. Len(answers) : answers[m].id \in Id
    <3>1. \A m \in 1 .. Len(answers) : answers[m] \in Reply
      BY TypeParts DEF InsideType
    <3> QED
      BY <3>1 DEF Reply
  <2>2. \A m \in 1 .. Len(answers) : task'[answers[m].id].stage = "none"
    BY <1>1, <1>2, <2>1 DEF RequestsHold, Once
  <2>3. \A m \in 1 .. Len(answers) : \A n \in 1 .. Len(inbox') : inbox'[n] # answers[m].id
    BY <1>2 DEF RequestsHold, Once
  <2>4. \A n \in 1 .. Len(inbox) : inbox[n] \in Id
    BY TypeParts DEF InsideType
  <2>5. \A n \in 1 .. Len(inbox') : task'[inbox'[n]].stage = "none"
    <3> TAKE n \in 1 .. Len(inbox')
    <3>1. PICK m \in 1 .. Len(inbox) : inbox'[n] = inbox[m]
      BY <1>2
    <3>2. task[inbox[m]].stage = "none"
      BY DEF RequestsHold, Once
    <3>3. inbox[m] \in Id /\ inbox[m] # id
      BY <1>2, <2>4, <3>1
    <3> QED
      BY <1>1, <3>1, <3>2, <3>3
  <2> QED
    BY <1>1, <1>2, <1>3, <2>2, <2>3, <2>5 DEF RequestsHold, Once
<1> QED
  BY <1>4, <1>5, <1>6 DEF RequestsHold

LEMMA MovesRequests ==
    ASSUME TypeOK, RequestsHold, Untouched, NEW id \in Id, Moves(id)
    PROVE  RequestsHold'
<1>1. Recent(id, lastLock, Len(asked)) /\ id \in Id \cup {NoSession}
      /\ Recent(NoSession, lastLock, Len(asked)) /\ NoSession \in Id \cup {NoSession}
  BY PlaceFacts DEF Moves, Recent
<1>2. id \in lastLock + 1 .. Len(asked) /\ id \in 1 .. Len(asked)
  BY <1>1, IdFacts, SizeFacts DEF Recent
<1>3. /\ Recent(asked[id].session, lastLock, Len(asked))
      /\ asked[id].session \in Id \cup {NoSession}
  <2>1. asked[id] \in Ask
    BY <1>2, TypeParts DEF ClientType
  <2> QED
    BY <1>2, <2>1 DEF RequestsHold, HeldFresh, Ask
<1>4. CASE Opens(id)
  BY <1>1, <1>4, EndsRequests DEF Opens, Moves
<1>5. CASE Replies(id)
  BY <1>1, <1>3, <1>5, EndsRequests DEF Replies, Moves
<1>6. CASE Prepares(id)
  BY <1>1, <1>6, GoesRequests DEF Prepares, Moves
<1>7. CASE Serves(id)
  BY <1>3, <1>7, GoesRequests DEF Serves, Moves
<1> QED
  BY <1>4, <1>5, <1>6, <1>7 DEF Moves

LEMMA WorkerMoves ==
    ASSUME TypeOK, RequestsHold, WorkerStep
    PROVE  /\ UNCHANGED outside
           /\ \/ UNCHANGED <<inbox, task, activeSession, answers>>
              \/ \E id \in Id : Moves(id)
<1> USE DEF Ends, Goes, Working
<1>1. CASE \E ok \in BOOLEAN : LoadCrypto(ok)
  BY <1>1 DEF LoadCrypto
<1>2. CASE Take
  <2>1. /\ inbox # <<>> /\ Execute(Head(inbox)) /\ inbox' = Tail(inbox)
        /\ UNCHANGED outside
    BY <1>2 DEF Take
  <2>2. PICK id \in Id : id = Head(inbox)
    BY <2>1, TypeParts DEF InsideType
  <2>3. Taken(id) /\ Execute(id)
    BY <2>1, <2>2 DEF Taken
  <2>4. CASE Refuse(id)
    BY <2>1, <2>3, <2>4 DEF Refuse, Answer, Replies, Moves
  <2>5. CASE asked[id].kind \in Opening /\ Enter(id, "deriving", id) /\ UNCHANGED activeSession
    BY <2>1, <2>3, <2>5 DEF Enter, Prepares, Moves
  <2>6. CASE asked[id].kind \in Opening /\ BeginSession(id)
    BY <2>1, <2>3, <2>6 DEF BeginSession, Enter, Prepares, Moves
  <2>7. CASE \E stage \in {"rekeying", "decrypting"} : ServeAs(id, stage)
    <3>1. PICK stage \in {"rekeying", "decrypting"} : ServeAs(id, stage)
      BY <2>7
    <3>2. Goes(id, stage, asked[id].session) /\ asked[id].kind \notin Opening
          /\ UNCHANGED activeSession
      BY <3>1 DEF ServeAs, Enter
    <3> HIDE DEF Goes
    <3> QED
      BY <2>1, <2>3, <3>2 DEF Serves, Moves
  <2> QED
    BY <2>3, <2>4, <2>5, <2>6, <2>7, ExecuteCases
<1>3. CASE \E id \in Id : Derived(id)
  <2>1. PICK id \in Id : Derived(id)
    BY <1>3
  <2>2. asked[id].kind \in Opening
    BY <2>1 DEF Derived, RequestsHold, Served
  <2> QED
    BY <2>1, <2>2 DEF Derived, BeginSession, Enter, Prepares, Moves
<1>4. CASE \E id \in Id : Sealed(id)
  <2>1. PICK id \in Id : Sealed(id)
    BY <1>4
  <2>2. asked[id].kind \in Opening
    BY <2>1 DEF Sealed, RequestsHold, Served
  <2> QED
    BY <2>1, <2>2 DEF Sealed, Answer, Opens, Moves
<1>5. CASE \E id \in Id : Rekeyed(id)
  <2>1. PICK id \in Id : Rekeyed(id)
    BY <1>5
  <2>2. asked[id].kind \notin Opening /\ task[id].session = asked[id].session
    BY <2>1 DEF Rekeyed, RequestsHold, Served
  <2>3. CASE Enter(id, "decrypting", task[id].session)
    BY <2>1, <2>2, <2>3 DEF Rekeyed, Enter, Serves, Moves
  <2>4. CASE task' = [task EXCEPT ![id] = Idle] /\ Answer(id, FALSE, NoSession)
    BY <2>1, <2>2, <2>4 DEF Rekeyed, Answer, Replies, Moves
  <2> QED
    BY <2>1, <2>3, <2>4 DEF Rekeyed
<1>6. CASE \E id \in Id : Decrypted(id)
  <2>1. PICK id \in Id : Decrypted(id)
    BY <1>6
  <2>2. asked[id].kind \notin Opening /\ task[id].session = asked[id].session
    BY <2>1 DEF Decrypted, RequestsHold, Served
  <2> QED
    BY <2>1, <2>2 DEF Decrypted, Answer, Replies, Moves
<1> QED
  BY <1>1, <1>2, <1>3, <1>4, <1>5, <1>6 DEF WorkerStep

(***************************************************************************)
(* Steps that leave the requests alone, lock, or make one                  *)
(***************************************************************************)
Locks == /\ Emptied /\ view' = "access" /\ sessionRef' = NoSession
         /\ lastLock' = Len(asked) /\ lost' = FALSE

Rests == UNCHANGED <<sessionRef, asked, pending, worker, inbox, task, activeSession,
                     answers, lastLock, lost>>

Asks == \E kind \in Opening \cup Asking : \E session \in {NoSession, sessionRef} :
          /\ Request(kind, session) /\ UNCHANGED <<view, sessionRef, lastLock, lost>>
          /\ kind \in Opening => view = "access" /\ ~busy /\ busy'
          /\ kind \notin Opening => view # "access" /\ session = sessionRef

LEMMA DestroyLocks == DestroySession => Locks
BY DEF DestroySession, Dispose, DestroyWorker, Locks, Emptied

LEMMA ApplyQuiet ==
    ASSUME NEW w, NEW does, Apply(w, does)
    PROVE  Locks \/ (Rests /\ UNCHANGED <<view, busy>>)
BY DestroyLocks DEF Apply, Rests, ui, client, inside

LEMMA LockQuiet == Lock => Locks \/ (Rests /\ UNCHANGED <<view, busy>>)
BY DestroyLocks DEF Lock, Rests, ui, client, inside

LEMMA PageQuiet == PageStep \/ Effect => Locks \/ (Rests /\ UNCHANGED <<view, busy>>)
<1> SUFFICES ASSUME PageStep \/ Effect
             PROVE  Locks \/ (Rests /\ UNCHANGED <<view, busy>>)
  OBVIOUS
<1>1. ASSUME NEW v, NEW f, NEW heard, PageEvent(v, f, heard)
      PROVE  Locks \/ (Rests /\ UNCHANGED <<view, busy>>)
  BY <1>1, ApplyQuiet DEF PageEvent, Rests, ui, client, inside
<1>2. CASE Hide \/ Show \/ Blur \/ Focus
  BY <1>1, <1>2 DEF Hide, Show, Blur, Focus
<1>3. CASE PageHide \/ Restore \/ LockTimer
  BY <1>3, LockQuiet DEF PageHide, Restore, LockTimer
<1>4. CASE Tick \/ DashboardEffect
  BY <1>4 DEF Tick, DashboardEffect, Rests, ui, client, inside
<1>5. CASE WatchEffect
  BY <1>5, ApplyQuiet DEF WatchEffect, Installed, Rests, ui, client, inside
<1> QED
  BY <1>2, <1>3, <1>4, <1>5 DEF PageStep, Effect

LEMMA UserQuiet ==
    ASSUME TypeOK, UserStep
    PROVE  \/ Locks \/ Asks
           \/ /\ Rests /\ UNCHANGED busy
              /\ view' = view \/ (view = "backup" /\ view' = "verify")
<1>1. CASE \E kind \in OpenKind : Open(kind)
  BY <1>1, SessionAssumption DEF Open, Asks, rest
<1>2. CASE ContinueVerification
  BY <1>2 DEF ContinueVerification, Rests, rest, client, inside
<1>3. CASE VerifyMnemonicBackup
  BY <1>3 DEF VerifyMnemonicBackup, Asks, rest, Opening, Asking
<1>4. CASE Leave \/ InactivityLock
  BY <1>4, DestroyLocks DEF Leave, InactivityLock
<1>5. CASE \E d \in Delays : SetBackgroundLockSeconds(d)
  BY <1>5 DEF SetBackgroundLockSeconds, Rests, ui, client, inside
<1>6. CASE \E kind \in {"derive", "sign"} : Call(kind)
  BY <1>6 DEF Call, Asks, rest, ui, Opening, Asking
<1>7. CASE RevealRecoveryPhrase
  BY <1>7 DEF RevealRecoveryPhrase, Asks, rest, ui, Opening, Asking
<1>8. CASE HideRecoveryPhrase
  BY <1>8 DEF HideRecoveryPhrase, Rests, rest, client, inside
<1> QED
  BY <1>1, <1>2, <1>3, <1>4, <1>5, <1>6, <1>7, <1>8 DEF UserStep

\* What the continuation of request id does to the workspace.
LEMMA SettleFacts ==
    ASSUME TypeOK, NEW id \in pending, NEW ok \in BOOLEAN, NEW session, NEW valid,
           Settle(id, ok, session, valid)
    PROVE  /\ asked[id].kind \in Opening =>
                /\ busy' = FALSE
                /\ sessionRef' = IF ok THEN session ELSE sessionRef
                /\ ok => view' # "access"
                /\ ~ok => view' = view
           /\ asked[id].kind \notin Opening =>
                /\ sessionRef' \in {sessionRef, asked[id].session}
                /\ view # "access" => view' # "access"
<1>1. CASE asked[id].kind \in Opening
  <2>1. /\ busy' = FALSE
        /\ sessionRef' = IF ok THEN session ELSE sessionRef
        /\ view' = IF ~ok THEN view
                   ELSE IF asked[id].kind = "create" THEN "backup" ELSE "wallet"
    BY <1>1 DEF Settle, Opening
  <2> QED
    BY <1>1, <2>1
<1>2. CASE asked[id].kind \notin Opening /\ asked[id].kind = "verify"
  BY <1>2 DEF Settle
<1>3. CASE asked[id].kind \notin Opening /\ asked[id].kind = "reveal"
  BY <1>3 DEF Settle
<1>4. CASE asked[id].kind \notin Opening \cup {"verify", "reveal"}
  BY <1>4 DEF Settle, ui
<1> QED
  BY <1>1, <1>2, <1>3, <1>4

LEMMA ClientRequests ==
    ASSUME TypeOK, RequestsHold, ClientStep
    PROVE  RequestsHold'
<1>1. CASE Deliver
  <2> DEFINE a == Head(answers)
  <2>1. /\ answers # <<>> /\ answers' = Tail(answers) /\ pending' = pending \ {a.id}
        /\ UNCHANGED <<asked, worker, inbox, task, activeSession, lastLock>>
        /\ IF a.id \in pending
           THEN \E valid \in BOOLEAN : Settle(a.id, a.ok, a.session, valid)
           ELSE UNCHANGED ui
    BY <1>1 DEF Deliver, rest
  <2>2. a \in Reply
    BY <2>1, TypeParts DEF InsideType
  <2>3. a.ok \in BOOLEAN
    BY <2>2 DEF Reply
  <2>4. sessionRef' \in {sessionRef, a.session, asked[a.id].session}
    <3>1. CASE a.id \in pending
      <4>1. PICK valid \in BOOLEAN : Settle(a.id, a.ok, a.session, valid)
        BY <2>1, <3>1
      <4> HIDE DEF a
      <4> QED
        BY <4>1, <2>3, <3>1, SettleFacts
    <3>2. CASE a.id \notin pending
      BY <2>1, <3>2 DEF ui
    <3> QED
      BY <3>1, <3>2
  <2> QED
    BY <2>1, <2>4, DeliverRequests
<1>2. CASE \E id \in Id : Timeout(id)
  <2>1. PICK id \in Id : Timeout(id)
    BY <1>2
  <2>2. /\ id \in pending /\ Settle(id, FALSE, NoSession, FALSE)
        /\ pending' \subseteq pending
        /\ UNCHANGED <<asked, worker, inbox, task, activeSession, answers, lastLock>>
    BY <2>1 DEF Timeout, inside
  <2>3. sessionRef' \in {sessionRef, asked[id].session}
    BY <2>2, SettleFacts
  <2>4. Recent(sessionRef', lastLock, Len(asked))
    <3>1. id \in lastLock + 1 .. Len(asked)
      BY <2>2, IdFacts DEF RequestsHold, HeldFresh, Recent
    <3> QED
      BY <2>3, <3>1 DEF RequestsHold, HeldFresh
  <2> QED
    BY <2>2, <2>4 DEF RequestsHold, HeldFresh, Served, Once
<1>3. CASE WorkerFailure
  <2>1. Emptied /\ lastLock' = lastLock /\ sessionRef' = sessionRef
    BY <1>3 DEF WorkerFailure, Dispose, DestroyWorker, Emptied
  <2> QED
    BY <2>1, EmptiedRequests
<1> QED
  BY <1>1, <1>2, <1>3 DEF ClientStep

LEMMA RestsRequests == TypeOK /\ RequestsHold /\ Rests => RequestsHold'
BY UnchangedRequests DEF Rests

LEMMA LocksRequests == TypeOK /\ RequestsHold /\ Locks => RequestsHold'
BY EmptiedRequests DEF Locks

LEMMA AsksRequests == TypeOK /\ RequestsHold /\ Asks => RequestsHold'
BY RequestRequests DEF Asks

LEMMA WorkerRequests ==
    ASSUME TypeOK, RequestsHold, WorkerStep
    PROVE  RequestsHold'
<1>1. UNCHANGED outside
  BY WorkerMoves
<1>2. CASE UNCHANGED <<inbox, task, activeSession, answers>>
  BY <1>1, <1>2, UnchangedRequests DEF outside, ui, client
<1>3. CASE \E id \in Id : Moves(id)
  BY <1>1, <1>3, MovesRequests DEF Untouched, outside, ui, client
<1> QED
  BY <1>2, <1>3, WorkerMoves

LEMMA NextRequests == TypeOK /\ RequestsHold /\ [Next]_vars => RequestsHold'
<1> SUFFICES ASSUME TypeOK, RequestsHold, [Next]_vars PROVE RequestsHold'
  OBVIOUS
<1>1. CASE PageStep \/ Effect
  BY <1>1, PageQuiet, RestsRequests, LocksRequests
<1>2. CASE UserStep
  BY <1>2, UserQuiet, RestsRequests, LocksRequests, AsksRequests
<1>3. CASE ClientStep
  BY <1>3, ClientRequests
<1>4. CASE WorkerStep
  BY <1>4, WorkerRequests
<1>5. CASE UNCHANGED vars
  BY <1>5, RestsRequests DEF Rests, vars, ui, client, inside
<1> QED
  BY <1>1, <1>2, <1>3, <1>4, <1>5 DEF Next

LEMMA InitRequests == Init => RequestsHold
<1> SUFFICES ASSUME Init PROVE RequestsHold
  OBVIOUS
<1>1. /\ Len(inbox) = 0 /\ Len(answers) = 0 /\ Len(asked) = 0 /\ pending = {}
      /\ sessionRef = NoSession /\ activeSession = NoSession /\ lastLock = 0
      /\ \A i \in Id : task[i].stage = "none" /\ task[i].session = NoSession
  BY DEF Init, Idle
<1> QED
  BY <1>1 DEF RequestsHold, HeldFresh, Recent, Served, Once

LEMMA RequestsInvariant == Spec => [](TypeOK /\ RequestsHold)
<1>1. TypeOK /\ RequestsHold /\ [Next]_vars => (TypeOK /\ RequestsHold)'
  BY NextType, NextRequests
<1> QED
  BY <1>1, InitType, InitRequests, PTL DEF Spec

\* Locking leaves nothing behind, for every number of requests: the worker is
\* terminated with all it held, and what is asked later is newer than the lock.
THEOREM LocksLeaveNothing == Spec => []NothingOutlivesLock
<1>1. TypeOK /\ RequestsHold => NothingOutlivesLock
  <2> SUFFICES ASSUME TypeOK, RequestsHold PROVE NothingOutlivesLock
    OBVIOUS
  <2>1. inbox \in Seq(Id) /\ answers \in Seq(Reply)
    BY TypeParts DEF InsideType
  <2>2. DOMAIN inbox = 1 .. Len(inbox) /\ DOMAIN answers = 1 .. Len(answers)
    BY <2>1
  <2>3. \A i : Recent(i, lastLock, Len(asked)) => i = NoSession \/ i > lastLock
    BY SizeFacts
  <2>4. \A i \in Held \cup pending : Recent(i, lastLock, Len(asked))
    BY <2>2 DEF Held, RequestsHold, HeldFresh
  <2> QED
    BY <2>3, <2>4 DEF NothingOutlivesLock, RequestsHold, HeldFresh
<1> QED
  BY <1>1, RequestsInvariant, PTL

\* Every answer is made with the secret of the session it was asked for, for
\* every number of requests and timeouts: a task keeps the session its request
\* names from its first step to its answer.
THEOREM AnswersNameTheirSession == Spec => []AnsweredBySession
<1>1. TypeOK /\ RequestsHold => AnsweredBySession
  <2> SUFFICES ASSUME TypeOK, RequestsHold PROVE AnsweredBySession
    OBVIOUS
  <2>1. answers \in Seq(Reply)
    BY TypeParts DEF InsideType
  <2> QED
    BY <2>1 DEF AnsweredBySession, RequestsHold, Served
<1> QED
  BY <1>1, RequestsInvariant, PTL

(***************************************************************************)
(* The workspace and the worker                                            *)
(***************************************************************************)
\* Before the wallet opens at most one opening is pending; afterwards none is.
Turns ==
    /\ view = "access" =>
         /\ \A i, j \in pending : i = j
         /\ \A i \in pending : asked[i].kind \in Opening
         /\ pending # {} => busy
    /\ view # "access" =>
         \A i \in pending : asked[i].kind \notin Opening /\ asked[i].session = sessionRef

\* An opening under way is still waited for.
Awaited ==
    /\ \A n \in 1 .. Len(inbox) : asked[inbox[n]].kind \in Opening => inbox[n] \in pending
    /\ \A i \in Id : task[i].stage # "none" /\ asked[i].kind \in Opening => i \in pending
    /\ \A n \in 1 .. Len(answers) :
         asked[answers[n].id].kind \in Opening => answers[n].id \in pending

\* What the worker holds is what the workspace shows or is about to hear of.
Matches ==
    /\ view = "access" =>
         /\ activeSession # NoSession =>
              \E n \in 1 .. Len(answers) : answers[n].ok /\ answers[n].id = activeSession
         /\ \A n \in 1 .. Len(answers) :
              answers[n].ok /\ asked[answers[n].id].kind \in Opening
                => activeSession = answers[n].id
    /\ view # "access" => activeSession = sessionRef /\ worker

AgreeHolds == Turns /\ (~lost => Awaited /\ Matches)

IInv == TypeOK /\ WatchHolds /\ RequestsHold /\ AgreeHolds

LEMMA LocksAgree ==
    ASSUME TypeOK, Locks
    PROVE  AgreeHolds'
<1>1. Len(inbox') = 0 /\ Len(answers') = 0 /\ \A i \in Id : task'[i].stage = "none"
  BY DEF Locks, Emptied, Idle
<1> QED
  BY <1>1 DEF Locks, Emptied, AgreeHolds, Turns, Awaited, Matches

LEMMA RestsAgree ==
    ASSUME TypeOK, AgreeHolds, Rests, UNCHANGED busy,
           view' = view \/ (view = "backup" /\ view' = "verify")
    PROVE  AgreeHolds'
BY DEF Rests, AgreeHolds, Turns, Awaited, Matches

LEMMA AsksAgree ==
    ASSUME TypeOK, RequestsHold, AgreeHolds, Asks
    PROVE  AgreeHolds'
<1>1. PICK kind \in Opening \cup Asking, session \in {NoSession, sessionRef} :
        /\ Request(kind, session) /\ UNCHANGED <<view, sessionRef, lastLock, lost>>
        /\ kind \in Opening => view = "access" /\ ~busy /\ busy'
        /\ kind \notin Opening => view # "access" /\ session = sessionRef
  BY DEF Asks
<1>2. PICK new \in Id : Made(new, kind, session)
  BY <1>1, RequestFacts
<1>3. /\ \A i : Recent(i, lastLock, Len(asked)) /\ i # NoSession => asked'[i] = asked[i]
      /\ asked'[new].session = session /\ asked'[new].kind = kind
      /\ new \notin pending /\ pending' = pending \cup {new} /\ worker' = TRUE
      /\ UNCHANGED <<task, activeSession, answers>>
  <2>1. new = Len(asked) + 1 /\ \A i \in 1 .. Len(asked) : asked'[i] = asked[i]
    BY <1>2 DEF Made
  <2>2. \A i : Recent(i, lastLock, Len(asked)) /\ i # NoSession => asked'[i] = asked[i]
    BY <2>1, SizeFacts
  <2>3. new \notin pending
    BY <2>1, SizeFacts, TypeParts DEF ClientType
  <2> QED
    BY <1>2, <2>2, <2>3 DEF Made
<1>4. \A i \in pending : asked'[i] = asked[i]
  BY <1>3, SizeFacts, IdFacts, TypeParts DEF RequestsHold, HeldFresh, ClientType
<1>5. \A n \in 1 .. Len(answers) : asked'[answers[n].id] = asked[answers[n].id]
  <2>1. \A n \in 1 .. Len(answers) : answers[n] \in Reply
    BY TypeParts DEF InsideType
  <2>2. \A n \in 1 .. Len(answers) : answers[n].id # NoSession
    BY <2>1, IdFacts DEF Reply
  <2> QED
    BY <1>3, <2>2 DEF RequestsHold, HeldFresh
<1>6. \A i \in Id : task[i].stage # "none" => asked'[i] = asked[i]
  BY <1>3, IdFacts DEF RequestsHold, HeldFresh
<1>7. \A n \in 1 .. Len(inbox) : asked'[inbox[n]] = asked[inbox[n]]
  <2>1. \A n \in 1 .. Len(inbox) : inbox[n] # NoSession
    BY IdFacts, TypeParts DEF InsideType
  <2> QED
    BY <1>3, <2>1 DEF RequestsHold, HeldFresh
<1>8. Turns'
  <2>1. CASE view = "access"
    <3>1. kind \in Opening /\ busy' /\ pending = {}
      BY <1>1, <2>1 DEF AgreeHolds, Turns
    <3> QED
      BY <1>1, <1>3, <2>1, <3>1 DEF Turns
  <2>2. CASE view # "access"
    <3>1. kind \notin Opening /\ session = sessionRef
      BY <1>1, <2>2
    <3> QED
      BY <1>1, <1>3, <1>4, <2>2, <3>1 DEF AgreeHolds, Turns
  <2> QED
    BY <2>1, <2>2
<1>9. ASSUME ~lost
      PROVE  Awaited' /\ Matches'
  <2>1. Awaited /\ Matches
    BY <1>9 DEF AgreeHolds
  <2>2. \A n \in 1 .. Len(inbox') :
          asked'[inbox'[n]].kind \in Opening => inbox'[n] \in pending'
    <3> TAKE n \in 1 .. Len(inbox')
    <3>1. CASE n \in 1 .. Len(inbox) /\ inbox'[n] = inbox[n]
      BY <1>3, <1>7, <2>1, <3>1 DEF Awaited
    <3>2. CASE inbox'[n] = new
      BY <1>3, <3>2
    <3> QED
      BY <1>2, <3>1, <3>2 DEF Made
  <2>3. Awaited'
    BY <1>3, <1>5, <1>6, <2>1, <2>2 DEF Awaited
  <2>4. Matches'
    BY <1>1, <1>3, <1>5, <2>1 DEF Matches
  <2> QED
    BY <2>3, <2>4
<1> QED
  BY <1>1, <1>8, <1>9 DEF AgreeHolds

LEMMA DeliverAgree ==
    ASSUME TypeOK, RequestsHold, AgreeHolds, Deliver
    PROVE  AgreeHolds'
<1> USE SizeFacts
<1>1. PICK a \in Reply : a = Head(answers)
  BY TypeParts DEF Deliver, InsideType
<1>2. /\ answers # <<>> /\ answers' = Tail(answers) /\ pending' = pending \ {a.id}
      /\ UNCHANGED <<asked, worker, inbox, task, activeSession, lost>>
      /\ IF a.id \in pending
         THEN \E valid \in BOOLEAN : Settle(a.id, a.ok, a.session, valid)
         ELSE UNCHANGED ui
  BY <1>1 DEF Deliver, rest
<1>3. /\ Len(answers) > 0 /\ a = answers[1]
      /\ Len(answers') = Len(answers) - 1
      /\ \A n \in 1 .. Len(answers') : answers'[n] = answers[n + 1] /\ n + 1 \in 1 .. Len(answers)
  BY <1>1, <1>2, TailFacts, TypeParts DEF InsideType
<1>4. /\ 1 \in 1 .. Len(answers) /\ a.id \in Id /\ a.ok \in BOOLEAN
  BY <1>1, <1>3 DEF Reply
<1>5. /\ worker
      /\ task[a.id].stage = "none"
      /\ \A n \in 1 .. Len(inbox) : inbox[n] # a.id
  <2>1. worker
    BY <1>3, TypeParts DEF RequestsHold, Once, ClientType
  <2> QED
    BY <1>3, <1>4, <2>1 DEF RequestsHold, Once
<1>6. \A n \in 1 .. Len(answers') : answers'[n].id # a.id
  <2> TAKE n \in 1 .. Len(answers')
  <2>1. answers'[n] = answers[n + 1] /\ n + 1 \in 1 .. Len(answers) /\ n + 1 # 1
    BY <1>3
  <2> QED
    BY <1>3, <1>4, <2>1 DEF RequestsHold, Once
<1>7. ~lost => Awaited'
  <2> SUFFICES ASSUME ~lost PROVE Awaited'
    OBVIOUS
  <2>1. Awaited
    BY DEF AgreeHolds
  <2>2. \A n \in 1 .. Len(answers') :
          asked[answers'[n].id].kind \in Opening => answers'[n].id \in pending'
    BY <1>2, <1>3, <1>6, <2>1 DEF Awaited
  <2>3. \A i \in Id : task[i].stage # "none" /\ asked[i].kind \in Opening => i \in pending'
    BY <1>2, <1>5, <2>1 DEF Awaited
  <2>4. \A n \in 1 .. Len(inbox) : asked[inbox[n]].kind \in Opening => inbox[n] \in pending'
    BY <1>2, <1>5, <2>1 DEF Awaited
  <2> QED
    BY <1>2, <2>2, <2>3, <2>4 DEF Awaited
<1>8. \A n \in 1 .. Len(answers) : n = 1 \/ \E m \in 1 .. Len(answers') : answers'[m] = answers[n]
  <2> TAKE n \in 1 .. Len(answers)
  <2>1. CASE n # 1
    <3>1. n - 1 \in 1 .. Len(answers') /\ (n - 1) + 1 = n
      BY <1>3, <2>1
    <3>2. answers'[n - 1] = answers[n]
      BY <1>3, <3>1
    <3> QED
      BY <3>1, <3>2
  <2> QED
    BY <2>1
<1>9. CASE a.id \in pending /\ asked[a.id].kind \in Opening
  <2>1. view = "access" /\ pending = {a.id}
    BY <1>9 DEF AgreeHolds, Turns
  <2>2. PICK valid \in BOOLEAN : Settle(a.id, a.ok, a.session, valid)
    BY <1>2, <1>9
  <2>3. /\ sessionRef' = IF a.ok THEN a.session ELSE sessionRef
        /\ a.ok => view' # "access"
        /\ ~a.ok => view' = view
    BY <1>4, <1>9, <2>2, SettleFacts
  <2>4. pending' = {}
    BY <1>2, <2>1
  <2>5. Turns'
    BY <2>4 DEF Turns
  <2>6. ~lost => Matches'
    <3> SUFFICES ASSUME ~lost PROVE Matches'
      OBVIOUS
    <3>1. Awaited /\ Matches
      BY DEF AgreeHolds
    <3>2. CASE a.ok
      <4>1. activeSession = a.id
        BY <1>3, <1>4, <1>9, <2>1, <3>1, <3>2 DEF Matches
      <4>2. a.session = a.id
        BY <1>3, <1>4, <1>9, <3>2 DEF RequestsHold, Served
      <4> QED
        BY <1>2, <1>5, <2>3, <3>2, <4>1, <4>2 DEF Matches
    <3>3. CASE ~a.ok
      <4>1. \A n \in 1 .. Len(answers') : answers'[n].ok =>
              asked[answers'[n].id].kind \notin Opening
        BY <1>7, <2>4, <1>2 DEF Awaited
      <4>2. activeSession = NoSession
        <5>1. SUFFICES ASSUME activeSession # NoSession PROVE FALSE
          OBVIOUS
        <5>2. PICK n \in 1 .. Len(answers) : answers[n].ok /\ answers[n].id = activeSession
          BY <2>1, <3>1, <5>1 DEF Matches
        <5>3. n # 1
          BY <1>3, <3>3, <5>2
        <5>4. PICK m \in 1 .. Len(answers') : answers'[m] = answers[n]
          BY <1>8, <5>3
        <5>5. asked[activeSession].kind \in Opening
          BY <5>1 DEF RequestsHold, Served
        <5> QED
          BY <4>1, <5>2, <5>4, <5>5
      <4> QED
        BY <1>2, <2>1, <2>3, <3>3, <4>1, <4>2 DEF Matches
    <3> QED
      BY <3>2, <3>3, <1>4
  <2> QED
    BY <1>2, <1>7, <2>5, <2>6 DEF AgreeHolds
<1>10. CASE a.id \in pending /\ asked[a.id].kind \notin Opening
  <2>1. view # "access" /\ asked[a.id].session = sessionRef
    BY <1>10 DEF AgreeHolds, Turns
  <2>2. PICK valid \in BOOLEAN : Settle(a.id, a.ok, a.session, valid)
    BY <1>2, <1>10
  <2>3. view' # "access" /\ sessionRef' = sessionRef
    BY <1>4, <1>10, <2>1, <2>2, SettleFacts
  <2>4. Turns' /\ (~lost => Matches')
    BY <1>2, <2>1, <2>3 DEF AgreeHolds, Turns, Matches
  <2> QED
    BY <1>2, <1>7, <2>4 DEF AgreeHolds
<1>11. CASE a.id \notin pending
  <2>1. UNCHANGED <<view, sessionRef, busy>> /\ pending' = pending
    BY <1>2, <1>11 DEF ui
  <2>2. Turns'
    BY <1>2, <2>1 DEF AgreeHolds, Turns
  <2>3. ~lost => Matches'
    <3> SUFFICES ASSUME ~lost PROVE Matches'
      OBVIOUS
    <3>1. Awaited /\ Matches
      BY DEF AgreeHolds
    <3>2. asked[a.id].kind \notin Opening
      BY <1>3, <1>4, <1>11, <3>1 DEF Awaited
    <3>3. ASSUME view = "access", activeSession # NoSession
          PROVE  \E n \in 1 .. Len(answers') : answers'[n].ok /\ answers'[n].id = activeSession
      <4>1. PICK n \in 1 .. Len(answers) : answers[n].ok /\ answers[n].id = activeSession
        BY <3>1, <3>3 DEF Matches
      <4>2. asked[activeSession].kind \in Opening
        BY <3>3 DEF RequestsHold, Served
      <4>3. n # 1
        BY <1>3, <3>2, <4>1, <4>2
      <4> QED
        BY <1>8, <4>1, <4>3
    <3>4. view = "access" => \A n \in 1 .. Len(answers') :
            answers'[n].ok /\ asked[answers'[n].id].kind \in Opening
              => activeSession = answers'[n].id
      BY <1>3, <3>1 DEF Matches
    <3> QED
      BY <1>2, <2>1, <3>1, <3>3, <3>4 DEF Matches
  <2> QED
    BY <1>2, <1>7, <2>2, <2>3 DEF AgreeHolds
<1> QED
  BY <1>9, <1>10, <1>11

LEMMA TimeoutAgree ==
    ASSUME TypeOK, RequestsHold, AgreeHolds, NEW id \in Id, Timeout(id)
    PROVE  AgreeHolds'
<1>1. /\ id \in pending /\ Settle(id, FALSE, NoSession, FALSE)
      /\ pending' = pending \ {id} /\ lost' = (lost \/ asked[id].kind \in Opening)
      /\ UNCHANGED <<asked, worker, inbox, task, activeSession, answers>>
  BY DEF Timeout, inside
<1>2. CASE asked[id].kind \in Opening
  <2>1. view = "access" /\ pending = {id}
    BY <1>1, <1>2 DEF AgreeHolds, Turns
  <2>2. pending' = {} /\ lost'
    BY <1>1, <1>2, <2>1
  <2> QED
    BY <2>2 DEF AgreeHolds, Turns
<1>3. CASE asked[id].kind \notin Opening
  <2>1. view # "access" /\ asked[id].session = sessionRef
    BY <1>1, <1>3 DEF AgreeHolds, Turns
  <2>2. view' # "access" /\ sessionRef' = sessionRef
    BY <1>1, <1>3, <2>1, SettleFacts
  <2>3. lost' = lost
    BY <1>1, <1>3, TypeParts DEF LockType
  <2>4. Turns'
    BY <1>1, <2>1, <2>2 DEF AgreeHolds, Turns
  <2>5. ~lost => Awaited' /\ Matches'
    BY <1>1, <1>3, <2>1, <2>2 DEF AgreeHolds, Awaited, Matches
  <2> QED
    BY <2>3, <2>4, <2>5 DEF AgreeHolds
<1> QED
  BY <1>2, <1>3

LEMMA FailureAgree ==
    ASSUME TypeOK, AgreeHolds, WorkerFailure
    PROVE  AgreeHolds'
<1>1. /\ Len(inbox') = 0 /\ Len(answers') = 0 /\ \A i \in Id : task'[i].stage = "none"
      /\ pending' = {} /\ activeSession' = NoSession /\ view' = view
      /\ lost' = (view # "access")
  BY DEF WorkerFailure, Dispose, DestroyWorker, Idle, HasSession
<1>2. Turns'
  BY <1>1 DEF Turns
<1>3. CASE view = "access"
  <2>1. view' = "access"
    BY <1>1, <1>3
  <2>2. Awaited' /\ Matches'
    BY <1>1, <2>1 DEF Awaited, Matches
  <2> QED
    BY <1>2, <2>2 DEF AgreeHolds
<1>4. CASE view # "access"
  <2>1. lost'
    BY <1>1, <1>4
  <2> QED
    BY <1>2, <2>1 DEF AgreeHolds
<1> QED
  BY <1>3, <1>4

\* What the posting of an answer adds to the answers.
LEMMA EndsFacts ==
    ASSUME TypeOK, NEW id \in Id, NEW ok \in BOOLEAN,
           NEW session \in Id \cup {NoSession}, Ends(id, ok, session)
    PROVE  /\ Len(answers') = Len(answers) + 1 /\ Len(answers) \in Nat
           /\ \A n \in 1 .. Len(answers) : n \in 1 .. Len(answers') /\ answers'[n] = answers[n]
           /\ Len(answers') \in 1 .. Len(answers')
           /\ answers'[Len(answers')].id = id /\ answers'[Len(answers')].ok = ok
           /\ \A n \in 1 .. Len(answers') : n \in 1 .. Len(answers) \/ n = Len(answers')
<1>1. [id |-> id, ok |-> ok, session |-> session] \in Reply
  BY DEF Reply
<1> QED
  BY <1>1, AppendFacts, TypeParts DEF Ends, InsideType

\* An opening under way is the only request that is pending, and no answer of
\* an opening waits beside it.
LEMMA OpeningAlone ==
    ASSUME TypeOK, RequestsHold, Turns, Awaited, Matches,
           NEW id \in Id, Taken(id) \/ Working(id), asked[id].kind \in Opening
    PROVE  /\ view = "access" /\ id \in pending /\ activeSession = NoSession
           /\ \A n \in 1 .. Len(answers) : asked[answers[n].id].kind \notin Opening
<1>1. id \in pending
  <2>1. CASE Taken(id)
    <3>1. Len(inbox) > 0 /\ id = inbox[1] /\ Len(inbox) \in Nat
      BY <2>1, TailFacts, TypeParts DEF Taken, InsideType
    <3> QED
      BY <3>1 DEF Awaited
  <2>2. CASE Working(id)
    BY <2>2 DEF Working, Awaited
  <2> QED
    BY <2>1, <2>2
<1>2. view = "access" /\ \A i \in pending : i = id
  BY <1>1 DEF Turns
<1>3. \A n \in 1 .. Len(answers) : asked[answers[n].id].kind \notin Opening
  BY <1>2, PlaceFacts DEF Awaited
<1>4. activeSession = NoSession
  BY <1>2, <1>3 DEF Matches, RequestsHold, Served
<1> QED
  BY <1>1, <1>2, <1>3, <1>4

LEMMA AskedSession ==
    ASSUME TypeOK, RequestsHold, NEW id \in Id, Taken(id) \/ Working(id)
    PROVE  asked[id].session \in Id \cup {NoSession}
<1>1. id \in 1 .. Len(asked)
  BY PlaceFacts, SizeFacts
<1>2. asked \in Seq(Ask)
  BY TypeParts DEF ClientType
<1>3. asked[id] \in Ask
  BY <1>1, <1>2
<1> QED
  BY <1>3 DEF Ask

LEMMA MovesAwaited ==
    ASSUME TypeOK, RequestsHold, Turns, Awaited, Matches, UNCHANGED <<asked, pending>>,
           NEW id \in Id, Moves(id)
    PROVE  Awaited'
<1>1. asked[id].kind \in Opening => id \in pending
  BY OpeningAlone DEF Moves
<1>2. \A n \in 1 .. Len(inbox') : asked[inbox'[n]].kind \in Opening => inbox'[n] \in pending
  BY PlaceFacts DEF Moves, Awaited
<1>3. \A i \in Id : i = id \/ task'[i] = task[i]
  BY TypeParts DEF Moves, Opens, Replies, Prepares, Serves, Ends, Goes, InsideType
<1>4. \A n \in 1 .. Len(answers') :
        asked[answers'[n].id].kind \in Opening => answers'[n].id \in pending
  <2>1. CASE answers' = answers
    BY <2>1 DEF Awaited
  <2>2. ASSUME NEW ok \in BOOLEAN, NEW session \in Id \cup {NoSession}, Ends(id, ok, session)
        PROVE  \A n \in 1 .. Len(answers') :
                 asked[answers'[n].id].kind \in Opening => answers'[n].id \in pending
    BY <1>1, <2>2, EndsFacts DEF Awaited
  <2>3. asked[id].session \in Id \cup {NoSession}
    BY AskedSession DEF Moves
  <2> QED
    BY <2>1, <2>2, <2>3 DEF Moves, Opens, Replies, Prepares, Serves, Goes
<1> QED
  BY <1>1, <1>2, <1>3, <1>4 DEF Awaited

LEMMA MovesMatches ==
    ASSUME TypeOK, RequestsHold, Turns, Awaited, Matches,
           UNCHANGED <<asked, pending, view, sessionRef, worker>>,
           NEW id \in Id, Moves(id)
    PROVE  Matches'
<1>1. CASE Opens(id)
  <2>1. /\ view = "access"
        /\ \A n \in 1 .. Len(answers) : asked[answers[n].id].kind \notin Opening
    BY <1>1, OpeningAlone DEF Moves, Opens
  <2>2. Ends(id, TRUE, id) /\ activeSession' = id
    BY <1>1 DEF Opens
  <2>3. Len(answers') \in 1 .. Len(answers')
    BY <2>2, EndsFacts
  <2>4. \E n \in 1 .. Len(answers') : answers'[n].ok /\ answers'[n].id = activeSession'
    BY <2>2, <2>3, EndsFacts
  <2>5. \A n \in 1 .. Len(answers') :
          answers'[n].ok /\ asked[answers'[n].id].kind \in Opening
            => activeSession' = answers'[n].id
    BY <2>1, <2>2, EndsFacts
  <2> QED
    BY <2>1, <2>4, <2>5 DEF Matches
<1>2. CASE asked[id].kind \in Opening /\ Ends(id, FALSE, NoSession) /\ UNCHANGED activeSession
  <2>1. /\ view = "access" /\ activeSession = NoSession
        /\ \A n \in 1 .. Len(answers) : asked[answers[n].id].kind \notin Opening
    BY <1>2, OpeningAlone DEF Moves
  <2> QED
    BY <1>2, <2>1, EndsFacts DEF Matches
<1>3. CASE Prepares(id)
  <2>1. /\ view = "access" /\ activeSession = NoSession
        /\ \A n \in 1 .. Len(answers) : asked[answers[n].id].kind \notin Opening
    BY <1>3, OpeningAlone DEF Moves, Prepares
  <2>2. activeSession' = NoSession /\ answers' = answers
    BY <1>3, <2>1 DEF Prepares, Goes
  <2> QED
    BY <2>1, <2>2 DEF Matches
<1>4. ASSUME asked[id].kind \notin Opening, UNCHANGED activeSession, NEW ok \in BOOLEAN,
             NEW session \in Id \cup {NoSession}, Ends(id, ok, session)
      PROVE  Matches'
  <2>1. view = "access" /\ activeSession # NoSession =>
          \E n \in 1 .. Len(answers') : answers'[n].ok /\ answers'[n].id = activeSession
    BY <1>4, EndsFacts DEF Matches
  <2>2. view = "access" => \A n \in 1 .. Len(answers') :
          answers'[n].ok /\ asked[answers'[n].id].kind \in Opening
            => activeSession = answers'[n].id
    BY <1>4, EndsFacts DEF Matches
  <2> QED
    BY <1>4, <2>1, <2>2 DEF Matches
<1>5. CASE Serves(id)
  BY <1>5 DEF Serves, Goes, Matches
<1>6. asked[id].session \in Id \cup {NoSession}
  BY AskedSession DEF Moves
<1>7. CASE Replies(id)
  BY <1>2, <1>4, <1>6, <1>7 DEF Replies
<1> QED
  BY <1>1, <1>3, <1>5, <1>7 DEF Moves

LEMMA WorkerAgree ==
    ASSUME TypeOK, RequestsHold, AgreeHolds, WorkerStep
    PROVE  AgreeHolds'
<1>1. UNCHANGED <<view, sessionRef, busy, asked, pending, worker, lost>>
  BY WorkerMoves DEF outside, ui, client
<1>2. Turns'
  BY <1>1 DEF AgreeHolds, Turns
<1>3. ASSUME ~lost
      PROVE  Awaited' /\ Matches'
  <2>1. Turns /\ Awaited /\ Matches
    BY <1>3 DEF AgreeHolds
  <2>2. CASE UNCHANGED <<inbox, task, activeSession, answers>>
    BY <1>1, <2>1, <2>2 DEF Awaited, Matches
  <2>3. CASE \E id \in Id : Moves(id)
    BY <1>1, <2>1, <2>3, MovesAwaited, MovesMatches
  <2> QED
    BY <2>2, <2>3, WorkerMoves
<1> QED
  BY <1>1, <1>2, <1>3 DEF AgreeHolds

LEMMA NextAgree == TypeOK /\ RequestsHold /\ AgreeHolds /\ [Next]_vars => AgreeHolds'
<1> SUFFICES ASSUME TypeOK, RequestsHold, AgreeHolds, [Next]_vars PROVE AgreeHolds'
  OBVIOUS
<1>1. CASE PageStep \/ Effect
  BY <1>1, PageQuiet, RestsAgree, LocksAgree
<1>2. CASE UserStep
  BY <1>2, UserQuiet, RestsAgree, LocksAgree, AsksAgree
<1>3. CASE ClientStep
  BY <1>3, DeliverAgree, TimeoutAgree, FailureAgree DEF ClientStep
<1>4. CASE WorkerStep
  BY <1>4, WorkerAgree
<1>5. CASE UNCHANGED vars
  BY <1>5, RestsAgree DEF Rests, vars, ui, client, inside
<1> QED
  BY <1>1, <1>2, <1>3, <1>4, <1>5 DEF Next

LEMMA InitAgree == Init => AgreeHolds
<1> SUFFICES ASSUME Init PROVE AgreeHolds
  OBVIOUS
<1>1. /\ Len(inbox) = 0 /\ Len(answers) = 0 /\ pending = {} /\ view = "access"
      /\ activeSession = NoSession /\ \A i \in Id : task[i].stage = "none"
  BY DEF Init, Idle
<1> QED
  BY <1>1 DEF AgreeHolds, Turns, Awaited, Matches

\* The inductive invariant of an unlocked wallet: types, what the watcher
\* knows, where each request is, and what the workspace may conclude.
THEOREM SessionInvariant == Spec => []IInv
<1>1. Init => IInv
  BY InitType, WatchInit, InitRequests, InitAgree DEF IInv
<1>2. IInv /\ [Next]_vars => IInv'
  BY NextType, WatchStep, NextRequests, NextAgree DEF IInv
<1> QED
  BY <1>1, <1>2, PTL DEF Spec

\* The workspace and the worker agree on what is open, for every number of
\* requests, ways to open a wallet and moments of locking, until the worker
\* fails or an opening is abandoned by its timeout: the request that could
\* replace the session of the worker is the one the workspace waits for.
THEOREM SessionsAlwaysAgree == Spec => []SessionsAgree
<1>1. IInv => SessionsAgree
  <2> SUFFICES ASSUME IInv, ~lost PROVE
        /\ view = "access" /\ pending = {} => activeSession = NoSession
        /\ HasSession => activeSession = sessionRef /\ worker
    BY DEF SessionsAgree
  <2>1. Awaited /\ Matches /\ Served
    BY DEF IInv, AgreeHolds, RequestsHold
  <2>2. ASSUME view = "access", pending = {}, activeSession # NoSession
        PROVE  FALSE
    <3>1. PICK n \in 1 .. Len(answers) : answers[n].ok /\ answers[n].id = activeSession
      BY <2>1, <2>2 DEF Matches
    <3>2. asked[activeSession].kind \in Opening
      BY <2>1, <2>2 DEF Served
    <3> QED
      BY <2>1, <2>2, <3>1, <3>2 DEF Awaited
  <2> QED
    BY <2>1, <2>2 DEF Matches, HasSession
<1> QED
  BY <1>1, SessionInvariant, PTL
=============================================================================
