----------------------------- MODULE SyncService -----------------------------
(***************************************************************************)
(* What the sync queue of the network controller promises, apart from how  *)
(* it merges and defers requests (trackOperation, drainPendingWork and the *)
(* DirtySyncQueue).  One operation runs at a time.  What is asked for      *)
(* while none runs begins at once; what is asked for while one runs is     *)
(* taken up by the very next one, and there is a next one before the       *)
(* service rests.  Only the end of a session lets a request go.            *)
(*                                                                         *)
(* The promise is to begin: an operation that fails has let go of what it  *)
(* was doing.                                                              *)
(***************************************************************************)
EXTENDS Naturals

CONSTANT Work       \* what a sync may be asked to cover

VARIABLES
    session,        \* counts the sessions
    running,        \* an operation is in progress
    doing,          \* what it covers
    wanted          \* what has been asked for and no operation has begun on

vars == <<session, running, doing, wanted>>

TypeOK ==
    /\ session \in Nat /\ running \in BOOLEAN
    /\ doing \subseteq Work /\ wanted \subseteq Work

Init ==
    /\ session = 0 /\ running = FALSE
    /\ doing = {} /\ wanted = {}

\* N is asked for while an operation runs.
Ask(N) ==
    /\ running
    /\ wanted' = wanted \cup N
    /\ UNCHANGED <<session, running, doing>>

\* N is asked for while none runs: one begins on it and on nothing else.  The
\* operation that begins with nothing is a broadcast or a recovery.
Begin(N) ==
    /\ ~ running /\ running'
    /\ doing' \subseteq N
    /\ N # {} => doing' # {}
    /\ wanted' = N \ doing'
    /\ UNCHANGED session

\* An operation ends, its caller asking for N, and the next one begins: it
\* covers everything that was wanted.
Continue(N) ==
    /\ running /\ running'
    /\ wanted \subseteq doing'
    /\ wanted' = N \ doing'
    /\ UNCHANGED session

\* An operation ends and nothing is left to do.
Rest ==
    /\ running /\ ~ running'
    /\ wanted = {} /\ wanted' = {}
    /\ doing' = {}
    /\ UNCHANGED session

\* The session ends, or another takes its place and covers everything.
Cancel ==
    /\ session' = session + 1
    /\ running' = FALSE
    /\ doing' = {} /\ wanted' = {}

Restart ==
    /\ session' = session + 1
    /\ running' = TRUE
    /\ doing' = Work /\ wanted' = {}

Next ==
    \/ \E N \in SUBSET Work : Ask(N) \/ Begin(N) \/ Continue(N)
    \/ Rest \/ Cancel \/ Restart

Spec == Init /\ [][Next]_vars
=============================================================================
