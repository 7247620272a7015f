----------------------------- MODULE WalletSession -----------------------------
(***************************************************************************)
(* An unlocked wallet: the access workspace that opens and locks it        *)
(* (wallet-access-workspace.tsx), the Web Worker that holds its secret     *)
(* (crypto.worker.ts), the client between them (cryptoWorkerClient.ts) and *)
(* the watcher that locks it in the background (backgroundSessionLock.ts). *)
(*                                                                         *)
(* A request is numbered when it is made, and the session that an opening  *)
(* request creates has its number: the code draws a fresh identifier for   *)
(* each.  That number also stands for the secret the session holds.        *)
(*                                                                         *)
(* React runs effects some time after the state they depend on changed     *)
(* (DashboardEffect, WatchEffect) and before the next click is handled     *)
(* (Settled).                                                              *)
(***************************************************************************)
EXTENDS Naturals, Sequences

CONSTANTS
    OpenKind,       \* ways to open a wallet that are tried, of Opening below
    Delays,         \* background delays the user may choose, in ticks
    MaxRequests,    \* bound: requests made
    MaxFaults       \* bound: timeouts, worker failures and WASM load failures

Opening == {"create", "mnemonic", "email", "key"}
Asking == {"verify", "derive", "sign", "reveal"}

ASSUME SessionAssumption ==
    /\ OpenKind \subseteq Opening
    /\ Delays \subseteq Nat /\ \E d \in Delays : \A e \in Delays : e <= d
    /\ MaxRequests \in Nat /\ MaxFaults \in Nat

VARIABLES
    \* the workspace and, in it, the dashboard
    view, sessionRef, busy, revealedMnemonic, sensitiveRevealActive,
    backgroundLockSeconds,
    \* the browser page
    visible, focused, frozen,
    \* watchBackgroundSession
    watch,
    \* CryptoWorkerClient
    asked, pending, worker,
    \* crypto.worker.ts
    cryptoPromise, inbox, task, activeSession, answers,
    \* history
    lastLock,   \* the last request made before the last lock
    lost,       \* since then the worker failed, or an opening was abandoned
    away,       \* ticks the installed watcher has seen the page in background
    faults

ui == <<view, sessionRef, busy, revealedMnemonic, sensitiveRevealActive>>
page == <<visible, focused, frozen>>
client == <<asked, pending, worker>>
inside == <<cryptoPromise, inbox, task, activeSession, answers>>
vars == <<ui, backgroundLockSeconds, page, watch, client, inside, lastLock,
          lost, away, faults>>

Id == 1 .. MaxRequests
NoSession == 0
Longest == CHOOSE d \in Delays : \A e \in Delays : e <= d
NoDeadline == Longest + 1

View == {"access", "backup", "verify", "wallet"}
Stage == {"none", "deriving", "sealing", "rekeying", "decrypting"}
Watch == [on : BOOLEAN, sensitive : BOOLEAN, delay : Delays,
          deadline : 0 .. NoDeadline, locked : BOOLEAN]

TypeOK ==
    /\ view \in View /\ sessionRef \in Id \cup {NoSession}
    /\ busy \in BOOLEAN /\ revealedMnemonic \in BOOLEAN
    /\ sensitiveRevealActive \in BOOLEAN
    /\ backgroundLockSeconds \in Delays
    /\ visible \in BOOLEAN /\ focused \in BOOLEAN /\ frozen \in BOOLEAN
    /\ watch \in Watch
    /\ asked \in Seq([kind : Opening \cup Asking, session : Id \cup {NoSession}])
    /\ Len(asked) <= MaxRequests
    /\ pending \subseteq 1 .. Len(asked) /\ worker \in BOOLEAN
    /\ cryptoPromise \in {"none", "loaded", "failed"}
    /\ inbox \in Seq(Id)
    /\ task \in [Id -> [stage : Stage, session : Id \cup {NoSession}]]
    /\ activeSession \in Id \cup {NoSession}
    /\ answers \in Seq([id : Id, ok : BOOLEAN, session : Id \cup {NoSession}])
    /\ lastLock \in 0 .. Len(asked) /\ lost \in BOOLEAN
    /\ away \in 0 .. NoDeadline /\ faults \in Nat

Watching(on, sensitive, delay) ==
    [on |-> on, sensitive |-> sensitive, delay |-> delay,
     deadline |-> NoDeadline, locked |-> FALSE]
NotWatching == Watching(FALSE, FALSE, Longest)
Idle == [stage |-> "none", session |-> NoSession]

\* The delay is read from the browser's storage, which may hold any of those
\* offered, or nothing.
Init ==
    /\ view = "access" /\ sessionRef = NoSession /\ busy = FALSE
    /\ revealedMnemonic = FALSE /\ sensitiveRevealActive = FALSE
    /\ backgroundLockSeconds \in Delays
    /\ visible = TRUE /\ focused = TRUE /\ frozen = FALSE
    /\ watch = NotWatching
    /\ asked = <<>> /\ pending = {} /\ worker = FALSE
    /\ cryptoPromise = "none" /\ inbox = <<>>
    /\ task = [id \in Id |-> Idle]
    /\ activeSession = NoSession /\ answers = <<>>
    /\ lastLock = 0 /\ lost = FALSE /\ away = 0 /\ faults = 0

HasSession == view # "access"
Sensitive == view \in {"backup", "verify"} \/ sensitiveRevealActive

\* Every effect whose dependencies changed has run.
Settled ==
    /\ sensitiveRevealActive = (view = "wallet" /\ revealedMnemonic)
    /\ watch.on = HasSession
    /\ watch.on => /\ watch.sensitive = Sensitive
                   /\ watch.delay = backgroundLockSeconds

(***************************************************************************)
(* The client                                                              *)
(***************************************************************************)
\* request: the worker is created when there is none; the message is posted
\* and the request waits for its answer or its timeout.
Request(kind, session) ==
    /\ Len(asked) < MaxRequests
    /\ asked' = Append(asked, [kind |-> kind, session |-> session])
    /\ pending' = pending \cup {Len(asked) + 1}
    /\ worker' = TRUE
    /\ inbox' = Append(inbox, Len(asked) + 1)
    /\ UNCHANGED <<cryptoPromise, task, activeSession, answers>>

\* destroyWorker: the worker's memory is gone and none of its messages, posted
\* or not, is delivered any more.
DestroyWorker ==
    /\ worker' = FALSE
    /\ cryptoPromise' = "none" /\ inbox' = <<>>
    /\ task' = [id \in Id |-> Idle]
    /\ activeSession' = NoSession /\ answers' = <<>>

\* Mutant of Dispose: the requests are rejected and the worker goes on.
Dispose_Detached ==
    /\ pending' = {} /\ UNCHANGED <<asked, worker>>
    /\ UNCHANGED <<cryptoPromise, inbox, task, activeSession, answers>>

\* dispose: every request is rejected, then the worker is terminated.
Dispose == pending' = {} /\ DestroyWorker /\ UNCHANGED asked

(***************************************************************************)
(* Locking                                                                 *)
(***************************************************************************)
\* destroySession, with the rejected handlers that clear busy.
DestroySession ==
    /\ view' = "access" /\ sessionRef' = NoSession
    /\ busy' = FALSE
    /\ revealedMnemonic' = FALSE /\ sensitiveRevealActive' = FALSE
    /\ Dispose
    /\ lastLock' = Len(asked) /\ lost' = FALSE

\* The watcher w once it has locked.
Locked(w) == [on |-> w.on, sensitive |-> w.sensitive, delay |-> w.delay,
              deadline |-> NoDeadline, locked |-> TRUE]

\* lock() of the installed watcher.
Lock ==
    IF watch.on /\ ~watch.locked
    THEN DestroySession /\ watch' = Locked(watch)
    ELSE UNCHANGED <<ui, watch, client, inside, lastLock, lost>>

\* What the watcher w takes for background when the page is v and f.
Background(w, v, f) == ~v \/ (w.sensitive /\ ~f)

\* Mutants of Update: every event restarts the delay; the elapsed time is not
\* looked at when the page comes back.
Update_Extending(w, v, f) ==
    IF w.locked THEN "keep"
    ELSE IF w.deadline = 0 THEN "lock"
    ELSE IF ~Background(w, v, f) THEN "clear"
    ELSE IF w.delay = 0 THEN IF w.sensitive THEN "lock" ELSE "clear"
    ELSE "start"

Update_Trusting(w, v, f) ==
    IF w.locked THEN "keep"
    ELSE IF ~Background(w, v, f) THEN "clear"
    ELSE IF w.delay = 0 THEN IF w.sensitive THEN "lock" ELSE "clear"
    ELSE IF w.deadline # NoDeadline THEN "keep"
    ELSE "start"

\* update(): what the watcher w does on an event that finds the page v and f.
Update(w, v, f) ==
    IF w.locked THEN "keep"
    ELSE IF w.deadline = 0 THEN "lock"
    ELSE IF ~Background(w, v, f) THEN "clear"
    ELSE IF w.delay = 0 THEN IF w.sensitive THEN "lock" ELSE "clear"
    ELSE IF w.deadline # NoDeadline THEN "keep"
    ELSE "start"

\* Mutant of Apply: a second event adds the delay to the deadline.
Apply_Summed(w, does) ==
    IF does = "lock"
    THEN DestroySession /\ watch' = Locked(w)
    ELSE /\ watch' = [w EXCEPT !.deadline =
                        CASE does = "keep" -> w.deadline + w.delay
                          [] does = "start" -> w.delay
                          [] OTHER -> NoDeadline]
         /\ UNCHANGED <<ui, client, inside, lastLock, lost>>

\* The watcher w, installed, does what update() says of the page as it becomes.
Apply(w, does) ==
    IF does = "lock"
    THEN DestroySession /\ watch' = Locked(w)
    ELSE /\ watch' = [w EXCEPT !.deadline =
                        CASE does = "keep" -> w.deadline
                          [] does = "start" -> w.delay
                          [] OTHER -> NoDeadline]
         /\ UNCHANGED <<ui, client, inside, lastLock, lost>>

\* The absence the installed watcher has seen ends when the page is back.
Absence(w, v, f) == IF Background(w, v, f) THEN away ELSE 0

(***************************************************************************)
(* The page                                                                *)
(***************************************************************************)
\* A page event leaves the page at v and f, and the watcher, if it hears the
\* event, runs update().
PageEvent(v, f, heard) ==
    /\ ~frozen
    /\ visible' = v /\ focused' = f /\ UNCHANGED frozen
    /\ IF watch.on /\ heard THEN Apply(watch, Update(watch, v, f))
       ELSE UNCHANGED <<ui, watch, client, inside, lastLock, lost>>
    /\ away' = Absence(watch, v, f)
    /\ UNCHANGED <<backgroundLockSeconds, faults>>

\* visibilitychange; blur and focus, heard by a sensitive session only.  A
\* focus event may reach a tab that is still hidden.
Hide == visible /\ PageEvent(FALSE, focused, TRUE)
Show == ~visible /\ PageEvent(TRUE, focused, TRUE)
Blur == focused /\ PageEvent(visible, FALSE, watch.sensitive)
Focus == ~focused /\ PageEvent(visible, TRUE, watch.sensitive)

\* pagehide: the user navigates away, and the page stays in the page cache.
PageHide ==
    /\ ~frozen
    /\ visible' = FALSE /\ focused' = FALSE /\ frozen' = TRUE
    /\ Lock
    /\ UNCHANGED <<backgroundLockSeconds, away, faults>>

\* pageshow of a page restored from the cache.
Restore ==
    /\ frozen
    /\ visible' = TRUE /\ focused' = TRUE /\ frozen' = FALSE
    /\ Lock /\ away' = 0
    /\ UNCHANGED <<backgroundLockSeconds, faults>>

\* Time passes, for the deadline and for the absence.
Tick ==
    /\ \/ watch.deadline \in 1 .. Longest
       \/ watch.on /\ Background(watch, visible, focused) /\ away < NoDeadline
    /\ watch' = [watch EXCEPT !.deadline =
                   IF @ \in 1 .. Longest THEN @ - 1 ELSE @]
    /\ away' = IF watch.on /\ Background(watch, visible, focused)
                  /\ away < NoDeadline
               THEN away + 1 ELSE away
    /\ UNCHANGED <<ui, backgroundLockSeconds, page, client, inside, lastLock,
                   lost, faults>>

\* The watcher's timer, which the browser may suspend for any time.
LockTimer ==
    /\ ~frozen /\ watch.deadline = 0
    /\ Lock
    /\ UNCHANGED <<backgroundLockSeconds, page, away, faults>>

(***************************************************************************)
(* Effects                                                                 *)
(***************************************************************************)
\* The dashboard tells the workspace whether a phrase is shown.
DashboardEffect ==
    /\ ~frozen /\ view = "wallet"
    /\ sensitiveRevealActive # revealedMnemonic
    /\ sensitiveRevealActive' = revealedMnemonic
    /\ UNCHANGED <<view, sessionRef, busy, revealedMnemonic,
                   backgroundLockSeconds, page, watch, client, inside,
                   lastLock, lost, away, faults>>

\* Mutant of Installed: the page is not looked at when a watcher is installed.
Installed_Blind ==
    IF HasSession
    THEN Apply(Watching(TRUE, Sensitive, backgroundLockSeconds), "keep")
    ELSE /\ watch' = NotWatching
         /\ UNCHANGED <<ui, client, inside, lastLock, lost>>

\* watchBackgroundSession of the present settings, or none without a session.
Installed ==
    IF HasSession
    THEN LET w == Watching(TRUE, Sensitive, backgroundLockSeconds)
         IN  Apply(w, Update(w, visible, focused))
    ELSE /\ watch' = NotWatching
         /\ UNCHANGED <<ui, client, inside, lastLock, lost>>

\* The watcher is removed, and installed anew for the present settings.
WatchEffect ==
    /\ ~frozen
    /\ \/ watch.on # HasSession
       \/ watch.on /\ \/ watch.sensitive # Sensitive
                      \/ watch.delay # backgroundLockSeconds
    /\ Installed
    /\ away' = 0
    /\ UNCHANGED <<backgroundLockSeconds, page, faults>>

(***************************************************************************)
(* The user                                                                *)
(***************************************************************************)
Present == visible /\ focused /\ ~frozen /\ Settled

rest == <<backgroundLockSeconds, page, watch, lastLock, lost, away, faults>>

\* Mutant of Open: the buttons stay enabled while a request runs.
Open_Impatient(kind) ==
    /\ Present /\ view = "access"
    /\ busy' = TRUE /\ Request(kind, NoSession)
    /\ UNCHANGED <<view, sessionRef, revealedMnemonic, sensitiveRevealActive,
                   rest>>

\* createMnemonic and the three imports.
Open(kind) ==
    /\ Present /\ view = "access" /\ ~busy
    /\ busy' = TRUE /\ Request(kind, NoSession)
    /\ UNCHANGED <<view, sessionRef, revealedMnemonic, sensitiveRevealActive,
                   rest>>

ContinueVerification ==
    /\ Present /\ view = "backup"
    /\ view' = "verify"
    /\ UNCHANGED <<sessionRef, busy, revealedMnemonic, sensitiveRevealActive,
                   client, inside, rest>>

VerifyMnemonicBackup ==
    /\ Present /\ view = "verify" /\ ~busy
    /\ busy' = TRUE /\ Request("verify", sessionRef)
    /\ UNCHANGED <<view, sessionRef, revealedMnemonic, sensitiveRevealActive,
                   rest>>

\* Cancel of the creation, or the lock button of the dashboard.
Leave ==
    /\ Present /\ HasSession
    /\ DestroySession
    /\ UNCHANGED <<backgroundLockSeconds, page, watch, away, faults>>

SetBackgroundLockSeconds(d) ==
    /\ Present /\ view = "wallet" /\ d # backgroundLockSeconds
    /\ backgroundLockSeconds' = d
    /\ UNCHANGED <<ui, page, watch, client, inside, lastLock, lost, away,
                   faults>>

\* The dashboard's deriver and signer, called by clicks and by what follows
\* an await.
Call(kind) ==
    /\ ~frozen /\ view = "wallet"
    /\ Request(kind, sessionRef)
    /\ UNCHANGED <<ui, rest>>

\* revealRecoveryPhrase, one at a time (backupBusy).
RevealRecoveryPhrase ==
    /\ Present /\ view = "wallet" /\ ~revealedMnemonic
    /\ \A id \in pending : asked[id].kind # "reveal"
    /\ Request("reveal", sessionRef)
    /\ UNCHANGED <<ui, rest>>

\* hideRecoveryPhrase, or the timer that hides it.
HideRecoveryPhrase ==
    /\ ~frozen /\ revealedMnemonic
    /\ revealedMnemonic' = FALSE
    /\ UNCHANGED <<view, sessionRef, busy, sensitiveRevealActive, client,
                   inside, rest>>

\* The inactivity timer of an open wallet, or the dashboard's timer after a
\* lost connection.
InactivityLock ==
    /\ ~frozen /\ view = "wallet"
    /\ DestroySession
    /\ UNCHANGED <<backgroundLockSeconds, page, watch, away, faults>>

(***************************************************************************)
(* Answers                                                                 *)
(***************************************************************************)
\* The continuation of request id in the workspace or in the dashboard, given
\* its answer.  valid is the worker's verdict on the words of a backup.
Settle(id, ok, session, valid) ==
    LET kind == asked[id].kind
    IN  CASE kind \in Opening ->
               /\ busy' = FALSE
               /\ sessionRef' = IF ok THEN session ELSE sessionRef
               /\ view' = IF ~ok THEN view
                          ELSE IF kind = "create" THEN "backup" ELSE "wallet"
               /\ UNCHANGED <<revealedMnemonic, sensitiveRevealActive>>
          [] kind = "verify" ->
               /\ busy' = FALSE
               /\ sessionRef' = IF ok /\ valid THEN asked[id].session
                                ELSE sessionRef
               /\ view' = IF ~ok THEN view
                          ELSE IF valid THEN "wallet" ELSE "verify"
               /\ UNCHANGED <<revealedMnemonic, sensitiveRevealActive>>
          [] kind = "reveal" ->
               /\ revealedMnemonic' = ok
               /\ UNCHANGED <<view, sessionRef, busy, sensitiveRevealActive>>
          [] OTHER -> UNCHANGED ui

\* handleMessage: an answer nobody waits for is dropped.
Deliver ==
    /\ ~frozen /\ answers # <<>>
    /\ LET a == Head(answers)
       IN  /\ IF a.id \in pending
              THEN \E valid \in BOOLEAN : Settle(a.id, a.ok, a.session, valid)
              ELSE UNCHANGED ui
           /\ pending' = pending \ {a.id}
    /\ answers' = Tail(answers)
    /\ UNCHANGED <<asked, worker, cryptoPromise, inbox, task, activeSession,
                   rest>>

\* A request waited 120 seconds: it is rejected, and the worker is not told.
Timeout(id) ==
    /\ ~frozen /\ id \in pending /\ faults < MaxFaults
    /\ Settle(id, FALSE, NoSession, FALSE)
    /\ pending' = pending \ {id}
    /\ lost' = (lost \/ asked[id].kind \in Opening)
    /\ faults' = faults + 1
    /\ UNCHANGED <<asked, worker, inside, backgroundLockSeconds, page, watch,
                   lastLock, away>>

\* handleWorkerFailure: the worker is dropped; the workspace only learns that
\* its requests were rejected.
WorkerFailure ==
    /\ ~frozen /\ worker /\ faults < MaxFaults
    /\ busy' = FALSE
    /\ revealedMnemonic' =
         (revealedMnemonic /\ \A id \in pending : asked[id].kind # "reveal")
    /\ Dispose
    /\ lost' = HasSession
    /\ faults' = faults + 1
    /\ UNCHANGED <<view, sessionRef, sensitiveRevealActive,
                   backgroundLockSeconds, page, watch, lastLock, away>>

(***************************************************************************)
(* The worker                                                              *)
(***************************************************************************)
outside == <<ui, backgroundLockSeconds, page, watch, client, lastLock, lost,
             away>>

\* loadCrypto, kept whether it succeeds or fails.
LoadCrypto(ok) ==
    /\ ~frozen /\ inbox # <<>> /\ cryptoPromise = "none"
    /\ ok \/ faults < MaxFaults
    /\ cryptoPromise' = IF ok THEN "loaded" ELSE "failed"
    /\ faults' = IF ok THEN faults ELSE faults + 1
    /\ UNCHANGED <<outside, inbox, task, activeSession, answers>>

Answer(id, ok, session) ==
    answers' = Append(answers, [id |-> id, ok |-> ok, session |-> session])

Refuse(id) == Answer(id, FALSE, NoSession) /\ UNCHANGED <<task, activeSession>>

Enter(id, stage, session) ==
    /\ task' = [task EXCEPT ![id] = [stage |-> stage, session |-> session]]
    /\ UNCHANGED answers

\* openHdSession and openPrivateKeySession up to the await of the vault: the
\* session of before is cleared.
BeginSession(id) == Enter(id, "sealing", id) /\ activeSession' = NoSession

\* What each command refuses: the source of the session has no such secret.
Unavailable(kind, source) ==
    \/ kind = "verify" /\ source \notin {"create", "mnemonic"}
    \/ kind \in {"derive", "reveal"} /\ source = "key"

\* Mutant of AssertSession: whatever session is active serves the command.
AssertSession_Any(session) == activeSession # NoSession

AssertSession(session) == activeSession # NoSession /\ activeSession = session

\* execute up to its first await other than loadCrypto's.
Execute(id) ==
    LET kind == asked[id].kind
    IN  IF cryptoPromise = "failed" THEN Refuse(id)
        ELSE IF kind \in Opening
        THEN \/ kind # "create" /\ Refuse(id)
             \/ kind = "email" /\ Enter(id, "deriving", id)
                /\ UNCHANGED activeSession
             \/ kind # "email" /\ BeginSession(id)
        ELSE IF \/ ~AssertSession(asked[id].session)
                \/ Unavailable(kind, asked[activeSession].kind)
        THEN Refuse(id)
        ELSE /\ Enter(id, IF kind = "reveal" /\ asked[activeSession].kind = "email"
                          THEN "rekeying" ELSE "decrypting", activeSession)
             /\ UNCHANGED activeSession

Take ==
    /\ ~frozen /\ inbox # <<>> /\ cryptoPromise # "none"
    /\ Execute(Head(inbox))
    /\ inbox' = Tail(inbox)
    /\ UNCHANGED <<outside, cryptoPromise, faults>>

\* deriveEmailCredentialMnemonic ends.
Derived(id) ==
    /\ ~frozen /\ task[id].stage = "deriving"
    /\ BeginSession(id)
    /\ UNCHANGED <<outside, cryptoPromise, inbox, faults>>

\* The vault is ready: the session becomes the active one.
Sealed(id) ==
    /\ ~frozen /\ task[id].stage = "sealing"
    /\ activeSession' = id
    /\ task' = [task EXCEPT ![id] = Idle]
    /\ Answer(id, TRUE, id)
    /\ UNCHANGED <<outside, cryptoPromise, inbox, faults>>

\* The key of the password is derived.  The vault of a session that was
\* cleared meanwhile holds zeros; one that was only replaced is intact.
Rekeyed(id) ==
    /\ ~frozen /\ task[id].stage = "rekeying"
    /\ \/ /\ Enter(id, "decrypting", task[id].session)
       \/ /\ activeSession # task[id].session
          /\ task' = [task EXCEPT ![id] = Idle] /\ Answer(id, FALSE, NoSession)
    /\ UNCHANGED <<outside, cryptoPromise, inbox, activeSession, faults>>

\* The secret is decrypted and the command carried out with it, or the secret
\* of a reveal was asked for with a wrong password.
Decrypted(id) ==
    /\ ~frozen /\ task[id].stage = "decrypting"
    /\ task' = [task EXCEPT ![id] = Idle]
    /\ \/ Answer(id, TRUE, task[id].session)
       \/ asked[id].kind = "reveal" /\ asked[task[id].session].kind = "email"
          /\ Answer(id, FALSE, NoSession)
    /\ UNCHANGED <<outside, cryptoPromise, inbox, activeSession, faults>>

(***************************************************************************)
(* The specification                                                       *)
(***************************************************************************)
PageStep == Hide \/ Show \/ Blur \/ Focus \/ PageHide \/ Restore \/ Tick
            \/ LockTimer
Effect == DashboardEffect \/ WatchEffect
UserStep ==
    \/ \E kind \in OpenKind : Open(kind)
    \/ ContinueVerification \/ VerifyMnemonicBackup \/ Leave
    \/ \E d \in Delays : SetBackgroundLockSeconds(d)
    \/ \E kind \in {"derive", "sign"} : Call(kind)
    \/ RevealRecoveryPhrase
    \/ HideRecoveryPhrase \/ InactivityLock
ClientStep == Deliver \/ (\E id \in Id : Timeout(id)) \/ WorkerFailure
WorkerStep ==
    \/ \E ok \in BOOLEAN : LoadCrypto(ok)
    \/ Take
    \/ \E id \in Id : Derived(id) \/ Sealed(id) \/ Rekeyed(id) \/ Decrypted(id)

Next == PageStep \/ Effect \/ UserStep \/ ClientStep \/ WorkerStep

Spec == Init /\ [][Next]_vars

\* Time passes, effects run, and the browser runs a timer it suspended.
FairSpec == Spec /\ WF_vars(Tick) /\ WF_vars(Effect) /\ WF_vars(LockTimer)

(***************************************************************************)
(* Properties                                                              *)
(***************************************************************************)
\* What the worker holds, runs or has posted.
Held == {activeSession} \cup {inbox[n] : n \in DOMAIN inbox}
        \cup {id \in Id : task[id].stage # "none"}
        \cup {task[id].session : id \in Id}
        \cup {answers[n].id : n \in DOMAIN answers}

\* Locking leaves nothing behind: what the worker holds, runs or has posted,
\* and the session shown, come from requests made after the last lock
\* (destroySession, wallet-access-workspace.tsx:260-273, and dispose).
NothingOutlivesLock ==
    /\ \A id \in Held \cup pending : id = NoSession \/ id > lastLock
    /\ sessionRef # NoSession => sessionRef > lastLock

\* A signature, an address or a phrase is made with the secret of the session
\* it was asked for, also when an import that timed out replaces the session
\* while the command runs (crypto.worker.ts:104-109, 292-311).
AnsweredBySession ==
    \A n \in DOMAIN answers :
        LET a == answers[n]
        IN  a.ok => a.session = IF asked[a.id].kind \in Opening THEN a.id
                                ELSE asked[a.id].session

\* The workspace and the worker agree on what is open, unless the worker
\* failed or an opening was abandoned by its timeout: nothing is open when the
\* workspace shows no wallet and waits for none, and a wallet that is shown is
\* the one the worker holds.
SessionsAgree ==
    ~lost => /\ view = "access" /\ pending = {} => activeSession = NoSession
             /\ HasSession => activeSession = sessionRef /\ worker

\* With the delay "Never" a phrase on the screen, or a backup under way, is
\* never left in the background once the effects have run
\* (backgroundSessionLock.ts:43-48, 69; wallet-access-workspace.tsx:329-354).
SensitiveNeverHidden ==
    Settled /\ Sensitive /\ HasSession /\ backgroundLockSeconds = 0 /\ ~frozen
        => ~Background(watch, visible, focused)

\* A page that comes back after an absence as long as the delay finds the
\* session closed, whatever blur, focus and visibility events the absence was
\* made of and whether or not the timer ran (backgroundSessionLock.ts:32-57).
AbsenceBounded ==
    [][ /\ watch.on /\ watch.delay > 0 /\ away >= watch.delay
        /\ Background(watch, visible, focused)
        /\ ~Background(watch, visible', focused')
        => sessionRef' = NoSession ]_vars

\* A page left for good in the background, with a delay, ends without a
\* session.
AwayLocks ==
    <>[](~visible /\ ~frozen) => <>[](backgroundLockSeconds = 0 \/ ~HasSession)
=============================================================================
