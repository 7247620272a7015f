---------------------------- MODULE ElectrumClient ----------------------------
(***************************************************************************)
(* The Electrum client of src/src/network/electrum.ts: one WebSocket to    *)
(* one of several ElectrumX servers, a queue of requests with a limit on   *)
(* those in flight, retries, address subscriptions that survive the        *)
(* connection, and a timer that reconnects.                                *)
(*                                                                         *)
(* An action is what runs between two returns to the event loop: a socket  *)
(* event or a timer with every continuation it releases.  A socket whose   *)
(* close() was called delivers nothing more, so only the current one is    *)
(* kept.  The handshake sends its requests through the same queue, but     *)
(* alone (HandshakeAlone), so it is a phase and not queue entries.         *)
(***************************************************************************)
EXTENDS Naturals, Sequences, FiniteSets, Functions

CONSTANTS
    Request,        \* calls of request(), subscribeAddressStatus or connect()
    Hash,           \* Hash[r]: the script hash r subscribes to, if it does
    Servers,        \* number of servers
    MaxConcurrent,  \* maxConcurrentRequests
    MaxAttempts,    \* ELECTRUM_REQUEST_MAX_ATTEMPTS
    MaxLosses,      \* bound: connections closed by the server
    MaxFaults       \* bound: requests timed out or refused, malformed messages

ASSUME ClientAssumption ==
    /\ IsFiniteSet(Request)
    /\ Servers \in Nat \ {0} /\ MaxConcurrent \in Nat \ {0}
    /\ MaxAttempts \in Nat \ {0}
    /\ MaxLosses \in Nat /\ MaxFaults \in Nat

Scripthash == {Hash[r] : r \in Request}

VARIABLES
    connected,          \* this.socket is set
    currentServerIndex,
    phase, tries,       \* connectToAvailableServer; "none": no connectPromise
    byTimer,            \* the attempt was started by the reconnect timer
    restoring,          \* script hashes to subscribe again
    reconnectEnabled, reconnectTimer, hasConnectedBefore,
    observed,           \* connection and block listeners are registered
    told,               \* the last state emitted to them
    kind, stage, attempt,   \* of each request
    waiters,            \* requests that wait for connectPromise
    requestQueue, activeRequests,
    listening,          \* subscriptions in scripthashListeners
    served,             \* script hashes the server reports on this connection
    losses, faults

link == <<connected, currentServerIndex, hasConnectedBefore, told, served>>
attempting == <<phase, tries, byTimer, restoring>>
reconnection == <<reconnectEnabled, reconnectTimer, observed>>
requests == <<kind, stage, attempt, waiters, requestQueue, activeRequests,
              listening>>
vars == <<link, attempting, reconnection, requests, losses, faults>>

Phase == {"none", "opening", "version", "headers", "restoring"}
Kind == {"connect", "read", "subscribe"}
RequestStage == {"idle", "connecting", "queued", "sent", "backoff", "done", "failed"}

TypeOK ==
    /\ connected \in BOOLEAN /\ currentServerIndex \in 0 .. Servers - 1
    /\ hasConnectedBefore \in BOOLEAN /\ told \in BOOLEAN
    /\ phase \in Phase /\ tries \in 0 .. Servers
    /\ byTimer \in BOOLEAN /\ restoring \subseteq Scripthash
    /\ reconnectEnabled \in BOOLEAN /\ reconnectTimer \in BOOLEAN
    /\ observed \in BOOLEAN
    /\ kind \in [Request -> Kind] /\ stage \in [Request -> RequestStage]
    /\ attempt \in [Request -> 1 .. MaxAttempts]
    /\ waiters \in Seq(Request) /\ requestQueue \in Seq(Request)
    /\ activeRequests \in 0 .. MaxConcurrent
    /\ listening \subseteq Request /\ served \subseteq Scripthash
    /\ losses \in Nat /\ faults \in Nat

\* The controller registers its listeners before it connects.
Init ==
    /\ connected = FALSE /\ currentServerIndex = 0
    /\ hasConnectedBefore = FALSE /\ told = FALSE
    /\ phase = "none" /\ tries = 0 /\ byTimer = FALSE /\ restoring = {}
    /\ reconnectEnabled = FALSE /\ reconnectTimer = FALSE
    /\ observed = TRUE
    /\ kind = [r \in Request |-> "read"]
    /\ stage = [r \in Request |-> "idle"]
    /\ attempt = [r \in Request |-> 1]
    /\ waiters = <<>> /\ requestQueue = <<>> /\ activeRequests = 0
    /\ listening = {} /\ served = {}
    /\ losses = 0 /\ faults = 0

At(s) == {r \in Request : stage[r] = s}
Outstanding == At("queued") \cup At("sent")

\* The stages with those of R set to s.
Moved(st, R, s) == [r \in Request |-> IF r \in R THEN s ELSE st[r]]

Rotated(n) == (n + 1) % Servers

(***************************************************************************)
(* The request queue                                                       *)
(***************************************************************************)
\* Mutant of Drained: one request too many.
Drained_OneMore(q, active) ==
    IF Len(q) <= MaxConcurrent - active THEN Len(q) ELSE MaxConcurrent - active + 1

\* drainRequestQueue: how many of queue q are sent while active are in flight.
Drained(q, active) ==
    IF Len(q) <= MaxConcurrent - active THEN Len(q) ELSE MaxConcurrent - active

\* The queue becomes q with active requests in flight and stages st, and is
\* drained.
Drain(q, active, st) ==
    LET n == Drained(q, active)
    IN  /\ requestQueue' = SubSeq(q, n + 1, Len(q))
        /\ activeRequests' = active + n
        /\ stage' = Moved(Moved(st, Range(q), "queued"),
                          Range(SubSeq(q, 1, n)), "sent")

\* Mutants of Release: the slot is not given back, or not given on.
Release_Leaking(r, s) ==
    Drain(requestQueue, activeRequests, [stage EXCEPT ![r] = s])

Release_Undrained(r, s) ==
    /\ activeRequests' = activeRequests - 1
    /\ stage' = [stage EXCEPT ![r] = s]
    /\ UNCHANGED requestQueue

\* A sent request settles with stage s and gives its slot back.
Release(r, s) ==
    Drain(requestQueue, activeRequests - 1, [stage EXCEPT ![r] = s])

(***************************************************************************)
(* Connecting                                                              *)
(***************************************************************************)
\* Mutant of Join: the timer is left running.
Join_Ticking(r, st) ==
    /\ reconnectEnabled' = TRUE /\ UNCHANGED reconnectTimer
    /\ stage' = [st EXCEPT ![r] = "connecting"]
    /\ IF phase = "none"
       THEN /\ phase' = "opening" /\ tries' = 1
            /\ UNCHANGED <<byTimer, restoring>>
       ELSE UNCHANGED attempting

\* connect(), called by r, when it has to wait
Join(r, st) ==
    /\ reconnectEnabled' = TRUE /\ reconnectTimer' = FALSE
    /\ stage' = [st EXCEPT ![r] = "connecting"]
    /\ IF phase = "none"
       THEN /\ phase' = "opening" /\ tries' = 1
            /\ UNCHANGED <<byTimer, restoring>>
       ELSE UNCHANGED attempting

\* Mutant of Ready: a handshake in progress is not waited for.
Ready_Early == connected

\* A request need not call connect().
Ready == connected /\ phase = "none"

\* One turn of the loop of request()
Attempt(r, st) ==
    IF Ready
    THEN /\ Drain(Append(requestQueue, r), activeRequests, st)
         /\ UNCHANGED <<attempting, reconnectEnabled, reconnectTimer, waiters>>
    ELSE /\ Join(r, st)
         /\ waiters' = Append(waiters, r)
         /\ UNCHANGED <<requestQueue, activeRequests>>

\* closeSocket and rejectOutstandingRequests: with no connection left, every
\* outstanding request fails for good, and a subscription with it.  R are
\* requests that fail for a reason of their own.
Closed(R) ==
    /\ connected' = FALSE /\ served' = {}
    /\ stage' = Moved(stage, Outstanding \cup R, "failed")
    /\ listening' = listening \ (Outstanding \cup R)
    /\ requestQueue' = <<>>
    /\ activeRequests' = activeRequests - Cardinality(At("sent"))

\* scheduleReconnect, with no connection and no attempt left.  It runs before
\* the subscriptions that fail with the connection have removed their listeners.
Reconnects(enabled) == enabled /\ (observed \/ listening # {})

\* The attempt ends in failure: everyone who waited for it fails, and only
\* the timer's own connect() is followed by another scheduleReconnect.
AttemptEnds(enabled, timer, emitted) ==
    /\ phase' = "none" /\ tries' = 0 /\ byTimer' = FALSE /\ restoring' = {}
    /\ Closed(At("connecting"))
    /\ waiters' = <<>>
    /\ told' = (emitted /\ ~ byTimer)
    /\ reconnectTimer' = (timer \/ (byTimer /\ Reconnects(enabled)))

\* The catch of connectToAvailableServer: on to the next server, if any.
NextServer(enabled, timer, emitted) ==
    IF tries < Servers
    THEN /\ phase' = "opening" /\ tries' = tries + 1 /\ restoring' = {}
         /\ Closed({})
         /\ told' = emitted /\ reconnectTimer' = timer
         /\ UNCHANGED <<byTimer, waiters>>
    ELSE AttemptEnds(enabled, timer, emitted)

Handshaking == phase \in {"version", "headers", "restoring"}

\* openSocket: the socket opens, whatever was called meanwhile.
SocketOpens ==
    /\ phase = "opening"
    /\ connected' = TRUE
    /\ phase' = "version"
    /\ UNCHANGED <<currentServerIndex, hasConnectedBefore, told, served, tries,
                   byTimer, restoring, reconnection, requests, losses, faults>>

\* openSocket: an error, a close or the timeout
SocketFails ==
    /\ phase = "opening"
    /\ NextServer(reconnectEnabled, reconnectTimer, told)
    /\ currentServerIndex' = Rotated(currentServerIndex)
    /\ UNCHANGED <<hasConnectedBefore, reconnectEnabled, observed, kind,
                   attempt, losses, faults>>

\* The attempt succeeds: the listeners are told, and whoever waited goes on.
Established(now) ==
    /\ phase' = "none" /\ tries' = 0 /\ byTimer' = FALSE /\ restoring' = {}
    /\ hasConnectedBefore' = TRUE /\ told' = TRUE
    /\ served' = now
    /\ waiters' = <<>>
    /\ Drain(requestQueue \o waiters, activeRequests,
             Moved(stage, {r \in At("connecting") : kind[r] = "connect"}, "done"))

VersionAnswered ==
    /\ phase = "version"
    /\ phase' = "headers"
    /\ UNCHANGED <<link, tries, byTimer, restoring, reconnection, requests,
                   losses, faults>>

\* restoreScripthashSubscriptions takes the script hashes listened to now.
HeadersAnswered ==
    /\ phase = "headers"
    /\ LET hashes == {Hash[r] : r \in listening}
       IN  IF hashes = {}
           THEN Established(served)
           ELSE /\ phase' = "restoring" /\ restoring' = hashes
                /\ UNCHANGED <<hasConnectedBefore, told, served, tries, byTimer,
                               waiters, requestQueue, activeRequests, stage>>
    /\ UNCHANGED <<connected, currentServerIndex, reconnection, kind, attempt,
                   listening, losses, faults>>

\* Mutant of Restored: the attempt ends with the first script hash restored.
Restored_First(h) ==
    /\ phase = "restoring" /\ h \in restoring
    /\ Established(served \cup {h})
    /\ UNCHANGED <<connected, currentServerIndex, reconnection, kind, attempt,
                   listening, losses, faults>>

Restored(h) ==
    /\ phase = "restoring" /\ h \in restoring
    /\ IF restoring = {h}
       THEN Established(served \cup {h})
       ELSE /\ restoring' = restoring \ {h}
            /\ served' = served \cup {h}
            /\ UNCHANGED <<hasConnectedBefore, told, phase, tries, byTimer,
                           waiters, requestQueue, activeRequests, stage>>
    /\ UNCHANGED <<connected, currentServerIndex, reconnection, kind, attempt,
                   listening, losses, faults>>

\* A request of the handshake times out or is answered with an error.
HandshakeFails ==
    /\ Handshaking
    /\ faults < MaxFaults /\ faults' = faults + 1
    /\ NextServer(reconnectEnabled, reconnectTimer, told)
    /\ currentServerIndex' = Rotated(currentServerIndex)
    /\ UNCHANGED <<hasConnectedBefore, reconnectEnabled, observed, kind,
                   attempt, losses>>

(***************************************************************************)
(* The connection is lost                                                  *)
(***************************************************************************)
\* onclose of the current socket, between attempts
ConnectionLost ==
    /\ connected /\ phase = "none"
    /\ losses < MaxLosses /\ losses' = losses + 1
    /\ Closed({})
    /\ currentServerIndex' = Rotated(currentServerIndex)
    /\ told' = FALSE
    /\ reconnectTimer' = (reconnectTimer \/ Reconnects(reconnectEnabled))
    /\ UNCHANGED <<hasConnectedBefore, attempting, reconnectEnabled, observed,
                   kind, attempt, waiters, faults>>

\* onclose during the handshake: scheduleReconnect leaves it to the attempt,
\* which has its own catch and rotates once more.
HandshakeLost ==
    /\ connected /\ Handshaking
    /\ losses < MaxLosses /\ losses' = losses + 1
    /\ NextServer(reconnectEnabled, reconnectTimer, FALSE)
    /\ currentServerIndex' = Rotated(Rotated(currentServerIndex))
    /\ UNCHANGED <<hasConnectedBefore, reconnectEnabled, observed, kind,
                   attempt, faults>>

\* disconnect(): the timer is cleared and the socket closed.  An attempt in
\* progress is not called off; its handshake fails and it goes on.
Disconnected ==
    /\ reconnectEnabled' = FALSE
    /\ IF Handshaking
       THEN /\ NextServer(FALSE, FALSE, told)
            /\ currentServerIndex' = Rotated(currentServerIndex)
       ELSE /\ Closed({})
            /\ reconnectTimer' = FALSE
            /\ UNCHANGED <<currentServerIndex, told, attempting, waiters>>
    /\ UNCHANGED <<hasConnectedBefore, kind, attempt>>

\* A message that is not valid JSON-RPC: onmessage disconnects.
Malformed ==
    /\ connected
    /\ faults < MaxFaults /\ faults' = faults + 1
    /\ Disconnected
    /\ UNCHANGED <<observed, losses>>

\* The controller stops: with its subscriptions gone (Unsubscribe) it removes
\* its listeners and disconnects.
Stop ==
    /\ observed /\ observed' = FALSE
    /\ \A r \in listening : stage[r] # "done"
    /\ Disconnected
    /\ UNCHANGED <<losses, faults>>

\* The reconnect timer fires: connect().
TimerFires ==
    /\ reconnectTimer /\ reconnectTimer' = FALSE
    /\ reconnectEnabled' = TRUE
    /\ IF phase = "none" /\ ~ connected
       THEN /\ phase' = "opening" /\ tries' = 1 /\ byTimer' = TRUE
            /\ UNCHANGED restoring
       ELSE UNCHANGED attempting
    /\ UNCHANGED <<link, observed, requests, losses, faults>>

(***************************************************************************)
(* Requests                                                                *)
(***************************************************************************)
\* request(), subscribeAddressStatus (which listens before it asks) and
\* connect() itself
Issue(r, k) ==
    /\ observed /\ stage[r] = "idle"
    /\ kind' = [kind EXCEPT ![r] = k]
    /\ listening' = IF k = "subscribe" THEN listening \cup {r} ELSE listening
    /\ IF k # "connect" THEN Attempt(r, stage)
       ELSE /\ IF Ready
               THEN /\ reconnectEnabled' = TRUE /\ reconnectTimer' = FALSE
                    /\ stage' = [stage EXCEPT ![r] = "done"]
                    /\ UNCHANGED attempting
               ELSE Join(r, stage)
            /\ UNCHANGED <<waiters, requestQueue, activeRequests>>
    /\ UNCHANGED <<link, observed, attempt, losses, faults>>

Answered(r) ==
    /\ stage[r] = "sent"
    /\ Release(r, "done")
    /\ served' = IF kind[r] = "subscribe" THEN served \cup {Hash[r]} ELSE served
    /\ UNCHANGED <<connected, currentServerIndex, hasConnectedBefore, told,
                   attempting, reconnection, kind, attempt, waiters, listening,
                   losses, faults>>

\* The transaction asked for is not known, the one error that is not retried,
\* or the status in the answer is not valid.
Refused(r) ==
    /\ stage[r] = "sent"
    /\ Release(r, "failed")
    /\ listening' = listening \ {r}
    /\ UNCHANGED <<link, attempting, reconnection, kind, attempt, waiters,
                   losses, faults>>

\* A timeout, or an error in the answer: try again a little later.
Fails(r) ==
    /\ stage[r] = "sent" /\ attempt[r] < MaxAttempts
    /\ faults < MaxFaults /\ faults' = faults + 1
    /\ Release(r, "backoff")
    /\ UNCHANGED <<link, attempting, reconnection, kind, attempt, waiters,
                   listening, losses>>

\* The last attempt fails: markSessionUnhealthy.
SessionUnhealthy(r) ==
    /\ stage[r] = "sent" /\ attempt[r] = MaxAttempts
    /\ faults < MaxFaults /\ faults' = faults + 1
    /\ Closed({r})
    /\ currentServerIndex' = Rotated(currentServerIndex)
    /\ told' = FALSE
    /\ reconnectTimer' = (reconnectTimer \/ Reconnects(reconnectEnabled))
    /\ UNCHANGED <<hasConnectedBefore, attempting, reconnectEnabled, observed,
                   kind, attempt, waiters, losses>>

\* The retry delay is over, whatever has become of the connection.
Retries(r) ==
    /\ stage[r] = "backoff"
    /\ attempt' = [attempt EXCEPT ![r] = @ + 1]
    /\ Attempt(r, stage)
    /\ UNCHANGED <<link, observed, kind, listening, losses, faults>>

\* The caller no longer wants the status of its address.
Unsubscribe(r) ==
    /\ stage[r] = "done" /\ r \in listening
    /\ listening' = listening \ {r}
    /\ UNCHANGED <<link, attempting, reconnection, kind, stage, attempt,
                   waiters, requestQueue, activeRequests, losses, faults>>

(***************************************************************************)
(* Specification                                                           *)
(***************************************************************************)
Handshake ==
    \/ SocketOpens \/ SocketFails \/ VersionAnswered \/ HeadersAnswered
    \/ HandshakeFails
    \/ \E h \in Scripthash : Restored(h)

RequestStep(r) ==
    \/ Answered(r) \/ Refused(r) \/ Fails(r) \/ SessionUnhealthy(r) \/ Retries(r)

Next ==
    \/ Handshake
    \/ ConnectionLost \/ HandshakeLost \/ Malformed \/ Stop \/ TimerFires
    \/ \E r \in Request : \/ \E k \in Kind : Issue(r, k)
                          \/ RequestStep(r) \/ Unsubscribe(r)

Spec == Init /\ [][Next]_vars

\* Sockets, requests and timers all end, by an event or by a timeout.
FairSpec == /\ Spec
            /\ WF_vars(Handshake) /\ WF_vars(TimerFires)
            /\ \A r \in Request : WF_vars(RequestStep(r))
            /\ SF_vars(SocketOpens)

(***************************************************************************)
(* Properties                                                              *)
(***************************************************************************)
\* drainRequestQueue: activeRequests counts the requests in flight, whatever
\* ended the others (an answer, a timeout, rejectOutstandingRequests), and a
\* request waits in the queue only when every slot is taken.
SlotsAccounted ==
    /\ activeRequests = Cardinality(At("sent"))
    /\ requestQueue # <<>> => activeRequests = MaxConcurrent

\* request() sends nothing before the handshake of connectToAvailableServer is
\* over, although the socket is open and this.connected is set by then.
HandshakeAlone == Outstanding # {} => connected /\ phase = "none"

\* scheduleReconnect, connect and disconnect: the reconnect timer runs only
\* while there is neither a connection nor an attempt at one, so it never
\* starts a second attempt, and never for a client that was disconnected.
TimerAlone == reconnectTimer => phase = "none" /\ ~ connected /\ reconnectEnabled

\* restoreScripthashSubscriptions and subscribeAddressStatus: once an attempt
\* is over, the server reports every address listened to, or is being asked
\* to, also when the subscription was made while others were restored.
ListenersServed ==
    connected /\ phase = "none" =>
        \A r \in listening :
            Hash[r] \in served \/ stage[r] \in {"queued", "sent", "backoff"}

\* request(), connect() and subscribeAddressStatus: every call settles, over
\* whatever attempts, retries and lost connections.
RequestsSettle ==
    \A r \in Request :
        stage[r] # "idle" ~> stage[r] \in {"done", "failed"}

\* scheduleReconnect: a client that is watched and has lost its connection
\* gets one again, if a server can be reached.
LossIsRepaired ==
    (hasConnectedBefore /\ ~ connected /\ reconnectEnabled /\ observed)
        ~> (connected \/ ~ reconnectEnabled \/ ~ observed)
=============================================================================
