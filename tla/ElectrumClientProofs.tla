------------------------- MODULE ElectrumClientProofs -------------------------
(***************************************************************************)
(* The Electrum client keeps its books, for every number of requests,      *)
(* servers, slots and attempts.  The inductive invariant relates the       *)
(* request queue, the slots and the waiters to the stage of each request,  *)
(* and the subscriptions to what has been restored.                        *)
(***************************************************************************)
EXTENDS ElectrumClient, QueueFacts

\* The queue holds the queued requests, each once.
QueueHolds ==
    /\ Range(requestQueue) = At("queued")
    /\ NoRepeats(requestQueue)

\* Whoever waits for the attempt and is not connect() itself goes on in turn.
WaitersHold ==
    /\ Range(waiters) = {r \in At("connecting") : kind[r] # "connect"}
    /\ NoRepeats(waiters)

PhaseHolds ==
    /\ At("connecting") # {} => phase # "none"
    /\ phase = "opening" => ~ connected
    /\ Handshaking => connected

RequestHolds(r) ==
    /\ kind[r] = "connect" => stage[r] \notin {"queued", "sent", "backoff"}
    /\ stage[r] = "backoff" => attempt[r] < MaxAttempts
    /\ r \in listening => kind[r] = "subscribe" /\ stage[r] \notin {"idle", "failed"}

\* The attempt restores every subscription older than the connection.
RestoringHolds ==
    phase = "restoring" =>
        \A r \in listening :
            Hash[r] \in restoring \cup served \/ stage[r] \in {"connecting", "backoff"}

IInv ==
    /\ TypeOK
    /\ SlotsAccounted /\ QueueHolds
    /\ HandshakeAlone /\ TimerAlone
    /\ WaitersHold /\ PhaseHolds
    /\ \A r \in Request : RequestHolds(r)
    /\ RestoringHolds /\ ListenersServed

(***************************************************************************)
(* The request queue                                                       *)
(***************************************************************************)
InStage(st, s) == {r \in Request : st[r] = s}

\* Queue q and active slots agree with stages st.
BooksHold(q, active, st) ==
    /\ q \in Seq(Request) /\ NoRepeats(q)
    /\ Range(q) = InStage(st, "queued")
    /\ active \in 0 .. MaxConcurrent
    /\ active = Cardinality(InStage(st, "sent"))
    /\ st \in [Request -> RequestStage]

LEMMA RequestsFinite ==
    ASSUME NEW R \in SUBSET Request
    PROVE  IsFiniteSet(R) /\ Cardinality(R) \in Nat
BY FS_Subset, FS_CardinalityType, ClientAssumption

\* Draining fills the slots from the front of the queue.
LEMMA DrainLemma ==
    ASSUME NEW q \in Seq(Request), NoRepeats(q),
           NEW st \in [Request -> RequestStage],
           NEW active \in 0 .. MaxConcurrent,
           active = Cardinality(InStage(st, "sent")),
           InStage(st, "queued") \subseteq Range(q),
           Range(q) \cap InStage(st, "sent") = {},
           Drain(q, active, st)
    PROVE  /\ BooksHold(requestQueue', activeRequests', stage')
           /\ requestQueue' # <<>> => activeRequests' = MaxConcurrent
           /\ \A r \in Request :
                 IF r \in Range(q) THEN stage'[r] \in {"queued", "sent"}
                                     ELSE stage'[r] = st[r]
<1> DEFINE n == Drained(q, active)
           head == SubSeq(q, 1, n)
           rest == SubSeq(q, n + 1, Len(q))
<1>1. Len(q) \in Nat /\ n \in 0 .. Len(q) /\ MaxConcurrent \in Nat
  BY ClientAssumption DEF Drained
<1>2. /\ n <= MaxConcurrent - active
      /\ n = Len(q) \/ n = MaxConcurrent - active
  BY <1>1 DEF Drained
<1>3. /\ requestQueue' = rest /\ activeRequests' = active + n
      /\ stage' = Moved(Moved(st, Range(q), "queued"), Range(head), "sent")
  BY DEF Drain
<1> HIDE DEF n, head, rest
<1>4. /\ rest \in Seq(Request) /\ NoRepeats(rest) /\ Len(rest) = Len(q) - n
      /\ Range(head) \cup Range(rest) = Range(q)
      /\ Range(head) \cap Range(rest) = {}
      /\ Cardinality(Range(head)) = n
      /\ Range(q) \subseteq Request
  BY <1>1, SplitQueue, QueueType DEF head, rest
<1>5. /\ stage' \in [Request -> RequestStage]
      /\ \A r \in Request :
            stage'[r] = IF r \in Range(head) THEN "sent"
                        ELSE IF r \in Range(q) THEN "queued" ELSE st[r]
  BY <1>3 DEF Moved, RequestStage
<1>6. InStage(stage', "queued") = Range(rest)
  BY <1>4, <1>5 DEF InStage
<1>7. InStage(stage', "sent") = InStage(st, "sent") \cup Range(head)
  BY <1>4, <1>5 DEF InStage
<1>8. activeRequests' = Cardinality(InStage(stage', "sent"))
  <2>1. /\ IsFiniteSet(InStage(st, "sent")) /\ IsFiniteSet(Range(head))
        /\ InStage(st, "sent") \cap Range(head) = {}
    BY <1>4, RequestsFinite DEF InStage
  <2>2. Cardinality(InStage(st, "sent") \cup Range(head)) = active + n
    <3>1. Cardinality(InStage(st, "sent") \cup Range(head)) =
             Cardinality(InStage(st, "sent")) + Cardinality(Range(head))
                - Cardinality(InStage(st, "sent") \cap Range(head))
      BY <2>1, FS_Union
    <3>2. Cardinality(InStage(st, "sent") \cap Range(head)) = 0
      BY <2>1, FS_EmptySet
    <3>3. Cardinality(InStage(st, "sent")) = active /\ active \in Nat /\ n \in Nat
      BY <1>1
    <3>4. QED
      BY <1>4, <3>1, <3>2, <3>3
  <2>3. QED
    BY <1>3, <1>7, <2>2
<1>9. activeRequests' \in 0 .. MaxConcurrent
  BY <1>1, <1>2, <1>3
<1>10. requestQueue' # <<>> => activeRequests' = MaxConcurrent
  <2>1. n = Len(q) => rest = <<>>
    BY <1>1, <1>4
  <2>2. QED
    BY <1>1, <1>2, <1>3, <2>1
<1>11. QED
  BY <1>3, <1>4, <1>5, <1>6, <1>8, <1>9, <1>10 DEF BooksHold

\* The books of IInv, and what they are in terms of BooksHold.
Books ==
    /\ BooksHold(requestQueue, activeRequests, stage)
    /\ requestQueue # <<>> => activeRequests = MaxConcurrent

LEMMA BooksOfInv == TypeOK => (Books <=> SlotsAccounted /\ QueueHolds)
BY DEF TypeOK, Books, BooksHold, SlotsAccounted, QueueHolds, InStage, At

\* A request that settles gives its slot back, and on.
LEMMA ReleaseLemma ==
    ASSUME Books, NEW r \in Request, stage[r] = "sent",
           NEW s \in RequestStage \ {"queued", "sent"},
           Release(r, s)
    PROVE  /\ Books'
           /\ stage'[r] = s
           /\ \A x \in Request \ {r} :
                 IF stage[x] = "queued" THEN stage'[x] \in {"queued", "sent"}
                                        ELSE stage'[x] = stage[x]
<1> DEFINE st == [stage EXCEPT ![r] = s]
<1>1. /\ requestQueue \in Seq(Request) /\ NoRepeats(requestQueue)
      /\ Range(requestQueue) = InStage(stage, "queued")
      /\ activeRequests \in 0 .. MaxConcurrent
      /\ activeRequests = Cardinality(InStage(stage, "sent"))
      /\ stage \in [Request -> RequestStage]
  BY DEF Books, BooksHold
<1>2. /\ st \in [Request -> RequestStage]
      /\ \A x \in Request : st[x] = IF x = r THEN s ELSE stage[x]
  BY <1>1
<1>3. Drain(requestQueue, activeRequests - 1, st)
  BY DEF Release
<1> HIDE DEF st
<1>4. /\ InStage(st, "sent") = InStage(stage, "sent") \ {r}
      /\ InStage(st, "queued") = InStage(stage, "queued")
      /\ r \in InStage(stage, "sent")
  BY <1>2 DEF InStage
<1>5. /\ Cardinality(InStage(st, "sent")) = activeRequests - 1
      /\ activeRequests - 1 \in 0 .. MaxConcurrent
  <2>1. /\ IsFiniteSet(InStage(stage, "sent"))
        /\ Cardinality(InStage(stage, "sent") \ {r}) \in Nat
    BY RequestsFinite DEF InStage
  <2>2. Cardinality(InStage(stage, "sent") \ {r}) = Cardinality(InStage(stage, "sent")) - 1
    BY <1>4, <2>1, FS_RemoveElement
  <2>3. QED
    <3>1. Cardinality(InStage(st, "sent")) = activeRequests - 1
      BY <1>1, <1>4, <2>2
    <3>2. activeRequests - 1 \in Nat
      BY <1>1, <2>1, <2>2
    <3>3. QED
      BY <1>1, <3>1, <3>2, ClientAssumption
<1>6. Range(requestQueue) \cap InStage(st, "sent") = {}
  BY <1>1, <1>4 DEF InStage
<1>7. /\ BooksHold(requestQueue', activeRequests', stage')
      /\ requestQueue' # <<>> => activeRequests' = MaxConcurrent
      /\ \A x \in Request :
            IF x \in Range(requestQueue) THEN stage'[x] \in {"queued", "sent"}
                                           ELSE stage'[x] = st[x]
  BY <1>1, <1>2, <1>3, <1>4, <1>5, <1>6, DrainLemma
<1>8. QED
  BY <1>1, <1>2, <1>7 DEF Books, BooksHold, InStage

\* A lost connection settles every outstanding request.
LEMMA ClosedLemma ==
    ASSUME Books, NEW R \in SUBSET Request, Closed(R)
    PROVE  /\ Books'
           /\ \A x \in Request :
                 stage'[x] = IF stage[x] \in {"queued", "sent"} \/ x \in R
                             THEN "failed" ELSE stage[x]
           /\ listening' = listening \ (Outstanding \cup R)
           /\ ~ connected'
<1>1. /\ stage \in [Request -> RequestStage]
      /\ activeRequests = Cardinality(InStage(stage, "sent"))
      /\ activeRequests \in Nat
  BY ClientAssumption DEF Books, BooksHold
<1>2. /\ stage' \in [Request -> RequestStage]
      /\ \A x \in Request :
            stage'[x] = IF stage[x] \in {"queued", "sent"} \/ x \in R
                        THEN "failed" ELSE stage[x]
  BY <1>1 DEF Closed, Moved, Outstanding, At, RequestStage
<1>3. InStage(stage', "queued") = {} /\ InStage(stage', "sent") = {}
  BY <1>2 DEF InStage
<1>4. requestQueue' = <<>> /\ activeRequests' = 0
  BY <1>1 DEF Closed, At, InStage
<1>5. BooksHold(requestQueue', activeRequests', stage')
  <2>1. Range(requestQueue') = {} /\ NoRepeats(requestQueue')
    BY <1>4, EmptyQueue
  <2>2. requestQueue' \in Seq(Request)
    BY <1>4
  <2>3. activeRequests' = Cardinality(InStage(stage', "sent"))
    BY <1>3, <1>4, FS_EmptySet
  <2>4. activeRequests' \in 0 .. MaxConcurrent
    BY <1>4, ClientAssumption
  <2>5. QED
    BY <1>2, <1>3, <2>1, <2>2, <2>3, <2>4 DEF BooksHold
<1>6. QED
  BY <1>2, <1>4, <1>5 DEF Books, Closed

(***************************************************************************)
(* The connection                                                          *)
(***************************************************************************)
LEMMA InvBooks == IInv => Books
BY BooksOfInv DEF IInv

\* The connection is lost or given up, between attempts or in one, and those
\* who waited for an attempt either go on waiting or fail with it.
LEMMA LossInv ==
    ASSUME IInv, NEW R \in SUBSET Request, Closed(R),
           kind' = kind, attempt' = attempt,
           currentServerIndex' \in 0 .. Servers - 1,
           hasConnectedBefore' \in BOOLEAN, told' \in BOOLEAN,
           phase' \in {"none", "opening"}, tries' \in 0 .. Servers,
           byTimer' \in BOOLEAN, restoring' \subseteq Scripthash,
           reconnectEnabled' \in BOOLEAN, observed' \in BOOLEAN,
           reconnectTimer' \in BOOLEAN,
           reconnectTimer' => phase' = "none" /\ reconnectEnabled',
           losses' \in Nat, faults' \in Nat,
           \/ /\ R \cap At("connecting") = {} /\ waiters' = waiters
              /\ At("connecting") # {} => phase' # "none"
           \/ At("connecting") \subseteq R /\ waiters' = <<>>
    PROVE  IInv'
<1>1. /\ TypeOK /\ Books /\ WaitersHold
      /\ \A r \in Request : RequestHolds(r)
  BY InvBooks DEF IInv
<1>2. /\ Books'
      /\ \A x \in Request :
            stage'[x] = IF stage[x] \in {"queued", "sent"} \/ x \in R
                        THEN "failed" ELSE stage[x]
      /\ listening' = listening \ (Outstanding \cup R)
      /\ ~ connected'
  BY <1>1, ClosedLemma
<1>3. TypeOK'
  BY <1>1, <1>2 DEF TypeOK, Books, BooksHold, Closed, Phase
<1>4. SlotsAccounted' /\ QueueHolds'
  BY <1>2 DEF Books, BooksHold, SlotsAccounted, QueueHolds, InStage, At
<1>5. HandshakeAlone'
  BY <1>2 DEF HandshakeAlone, Outstanding, At
<1>6. TimerAlone'
  BY <1>2 DEF TimerAlone
<1>7. WaitersHold' /\ PhaseHolds'
  <2>1. CASE R \cap At("connecting") = {} /\ waiters' = waiters
                /\ (At("connecting") # {} => phase' # "none")
    <3>1. At("connecting")' = At("connecting")
      BY <1>2, <2>1 DEF At
    <3>2. {r \in At("connecting")' : kind'[r] # "connect"} =
             {r \in At("connecting") : kind[r] # "connect"}
      BY <3>1
    <3>3. QED
      BY <1>1, <1>2, <2>1, <3>1, <3>2 DEF WaitersHold, PhaseHolds, Handshaking
  <2>2. CASE At("connecting") \subseteq R /\ waiters' = <<>>
    <3>1. At("connecting")' = {}
      BY <1>2, <2>2 DEF At
    <3>2. QED
      BY <1>2, <2>2, <3>1, EmptyQueue DEF WaitersHold, PhaseHolds, Handshaking
  <2>3. QED
    BY <2>1, <2>2
<1>8. \A r \in Request : RequestHolds(r)'
  BY <1>1, <1>2 DEF RequestHolds, Outstanding, At
<1>9. RestoringHolds' /\ ListenersServed'
  BY <1>2 DEF RestoringHolds, ListenersServed
<1>10. QED
  BY <1>3, <1>4, <1>5, <1>6, <1>7, <1>8, <1>9 DEF IInv

LEMMA RotatedType == \A n \in 0 .. Servers - 1 : Rotated(n) \in 0 .. Servers - 1
BY ClientAssumption DEF Rotated

\* An attempt that cannot go on with its server.
LEMMA NextServerInv ==
    ASSUME IInv, phase # "none",
           NEW enabled \in BOOLEAN, NEW emitted \in BOOLEAN,
           NextServer(enabled, FALSE, emitted),
           reconnectEnabled' = enabled, observed' \in BOOLEAN,
           currentServerIndex' \in 0 .. Servers - 1,
           hasConnectedBefore' = hasConnectedBefore,
           kind' = kind, attempt' = attempt,
           losses' \in Nat, faults' \in Nat
    PROVE  IInv'
<1>1. TypeOK
  BY DEF IInv
<1>2. CASE tries < Servers
  <2>1. /\ phase' = "opening" /\ tries' = tries + 1 /\ restoring' = {}
        /\ Closed({}) /\ told' = emitted /\ reconnectTimer' = FALSE
        /\ byTimer' = byTimer /\ waiters' = waiters
    BY <1>2 DEF NextServer
  <2>2. tries' \in 0 .. Servers
    BY <1>1, <1>2, <2>1, ClientAssumption DEF TypeOK
  <2>3. hasConnectedBefore' \in BOOLEAN /\ byTimer' \in BOOLEAN
    BY <1>1, <2>1 DEF TypeOK
  <2>4. QED
    BY <2>1, <2>2, <2>3, LossInv
<1>3. CASE ~ tries < Servers
  <2>1. /\ phase' = "none" /\ tries' = 0 /\ byTimer' = FALSE /\ restoring' = {}
        /\ Closed(At("connecting")) /\ waiters' = <<>>
        /\ told' = (emitted /\ ~ byTimer)
        /\ reconnectTimer' = (FALSE \/ (byTimer /\ Reconnects(enabled)))
    BY <1>3 DEF NextServer, AttemptEnds
  <2>2. /\ told' \in BOOLEAN /\ reconnectTimer' \in BOOLEAN
        /\ reconnectTimer' => reconnectEnabled'
    BY <2>1 DEF Reconnects
  <2>3. hasConnectedBefore' \in BOOLEAN /\ 0 \in 0 .. Servers
    BY <1>1, ClientAssumption DEF TypeOK
  <2>4. At("connecting") \in SUBSET Request
    BY DEF At
  <2>5. QED
    BY <2>1, <2>2, <2>3, <2>4, LossInv
<1>4. QED
  BY <1>2, <1>3

LEMMA SocketFailsInv == IInv /\ SocketFails => IInv'
<1> SUFFICES ASSUME IInv, SocketFails PROVE IInv'
  OBVIOUS
<1>1. TypeOK /\ (phase # "none" => reconnectTimer = FALSE)
  BY DEF IInv, TypeOK, TimerAlone
<1>2. QED
  BY <1>1, NextServerInv, RotatedType DEF SocketFails, TypeOK

LEMMA HandshakeFailsInv == IInv /\ HandshakeFails => IInv'
<1> SUFFICES ASSUME IInv, HandshakeFails PROVE IInv'
  OBVIOUS
<1>1. TypeOK /\ (phase # "none" => reconnectTimer = FALSE)
  BY DEF IInv, TypeOK, TimerAlone
<1>2. QED
  <2>1. /\ observed' \in BOOLEAN /\ reconnectEnabled \in BOOLEAN
        /\ currentServerIndex \in 0 .. Servers - 1 /\ told \in BOOLEAN
        /\ losses' \in Nat /\ faults' \in Nat
    BY <1>1 DEF HandshakeFails, TypeOK
  <2>2. currentServerIndex' \in 0 .. Servers - 1
    BY <2>1, RotatedType DEF HandshakeFails
  <2>3. QED
    BY <1>1, <2>1, <2>2, NextServerInv DEF HandshakeFails, Handshaking

LEMMA HandshakeLostInv == IInv /\ HandshakeLost => IInv'
<1> SUFFICES ASSUME IInv, HandshakeLost PROVE IInv'
  OBVIOUS
<1>1. TypeOK /\ (phase # "none" => reconnectTimer = FALSE)
  BY DEF IInv, TypeOK, TimerAlone
<1>2. QED
  <2>1. /\ observed' \in BOOLEAN /\ reconnectEnabled \in BOOLEAN
        /\ currentServerIndex \in 0 .. Servers - 1 /\ told \in BOOLEAN
        /\ losses' \in Nat /\ faults' \in Nat
    BY <1>1 DEF HandshakeLost, TypeOK
  <2>2. currentServerIndex' \in 0 .. Servers - 1
    BY <2>1, RotatedType DEF HandshakeLost
  <2>3. QED
    BY <1>1, <2>1, <2>2, NextServerInv DEF HandshakeLost, Handshaking

\* Between attempts nobody waits for one.
LEMMA ConnectionLostInv == IInv /\ ConnectionLost => IInv'
<1> SUFFICES ASSUME IInv, ConnectionLost PROVE IInv'
  OBVIOUS
<1>1. TypeOK
  BY DEF IInv
<1>2. /\ Closed({}) /\ {} \in SUBSET Request
      /\ {} \cap At("connecting") = {} /\ waiters' = waiters
  BY DEF ConnectionLost
<1>3. /\ phase' = "none" /\ tries' \in 0 .. Servers /\ byTimer' \in BOOLEAN
      /\ restoring' \subseteq Scripthash /\ hasConnectedBefore' \in BOOLEAN
      /\ observed' \in BOOLEAN /\ reconnectEnabled' \in BOOLEAN
      /\ kind' = kind /\ attempt' = attempt
      /\ losses' \in Nat /\ faults' \in Nat /\ told' \in BOOLEAN
      /\ currentServerIndex' \in 0 .. Servers - 1
  <2>1. losses' \in Nat /\ faults' \in Nat
    BY <1>1 DEF ConnectionLost, TypeOK
  <2>2. currentServerIndex' \in 0 .. Servers - 1
    BY <1>1, RotatedType DEF ConnectionLost, TypeOK
  <2>3. QED
    BY <1>1, <2>1, <2>2 DEF ConnectionLost, attempting, TypeOK
<1>4. ~ reconnectTimer
  BY DEF IInv, TimerAlone, ConnectionLost
<1>5. /\ reconnectTimer' \in BOOLEAN
      /\ reconnectTimer' => phase' = "none" /\ reconnectEnabled'
  BY <1>3, <1>4 DEF ConnectionLost, Reconnects
<1>6. At("connecting") = {}
  BY DEF IInv, PhaseHolds, ConnectionLost
<1>7. QED
  BY <1>2, <1>3, <1>5, <1>6, LossInv

LEMMA SessionUnhealthyInv ==
    ASSUME IInv, NEW r \in Request, SessionUnhealthy(r) PROVE IInv'
<1>1. TypeOK
  BY DEF IInv
<1>2. r \in Outstanding
  BY DEF SessionUnhealthy, Outstanding, At
<1>3. connected /\ phase = "none"
  BY <1>2 DEF IInv, HandshakeAlone
<1>4. /\ Closed({r}) /\ {r} \in SUBSET Request
      /\ {r} \cap At("connecting") = {} /\ waiters' = waiters
  BY DEF SessionUnhealthy, At
<1>5. /\ phase' = "none" /\ tries' \in 0 .. Servers /\ byTimer' \in BOOLEAN
      /\ restoring' \subseteq Scripthash /\ hasConnectedBefore' \in BOOLEAN
      /\ observed' \in BOOLEAN /\ reconnectEnabled' \in BOOLEAN
      /\ kind' = kind /\ attempt' = attempt
      /\ losses' \in Nat /\ faults' \in Nat /\ told' \in BOOLEAN
      /\ currentServerIndex' \in 0 .. Servers - 1
  <2>1. losses' \in Nat /\ faults' \in Nat
    BY <1>1 DEF SessionUnhealthy, TypeOK
  <2>2. currentServerIndex' \in 0 .. Servers - 1
    BY <1>1, RotatedType DEF SessionUnhealthy, TypeOK
  <2>3. QED
    BY <1>1, <1>3, <2>1, <2>2 DEF SessionUnhealthy, attempting, TypeOK
<1>6. ~ reconnectTimer
  BY <1>3 DEF IInv, TimerAlone
<1>7. /\ reconnectTimer' \in BOOLEAN
      /\ reconnectTimer' => phase' = "none" /\ reconnectEnabled'
  BY <1>5, <1>6 DEF SessionUnhealthy, Reconnects
<1>8. At("connecting") = {}
  BY <1>3 DEF IInv, PhaseHolds
<1>9. QED
  BY <1>4, <1>5, <1>7, <1>8, LossInv

\* disconnect() leaves no timer; an attempt that has its socket open still
\* does not call goes on.
LEMMA DisconnectedInv ==
    ASSUME IInv, Disconnected,
           observed' \in BOOLEAN, losses' \in Nat, faults' \in Nat
    PROVE  IInv'
<1>1. TypeOK
  BY DEF IInv
<1>2. CASE Handshaking
  BY <1>1, <1>2, NextServerInv, RotatedType DEF Disconnected, Handshaking, TypeOK
<1>3. CASE ~ Handshaking
  <2>1. /\ Closed({}) /\ {} \in SUBSET Request
        /\ {} \cap At("connecting") = {} /\ waiters' = waiters
    BY <1>3 DEF Disconnected
  <2>2. /\ phase' = phase /\ phase \in {"none", "opening"}
        /\ tries' \in 0 .. Servers /\ byTimer' \in BOOLEAN
        /\ restoring' \subseteq Scripthash /\ hasConnectedBefore' \in BOOLEAN
        /\ reconnectEnabled' \in BOOLEAN /\ reconnectTimer' = FALSE
        /\ kind' = kind /\ attempt' = attempt /\ told' \in BOOLEAN
        /\ currentServerIndex' \in 0 .. Servers - 1
    BY <1>1, <1>3 DEF Disconnected, Handshaking, attempting, TypeOK, Phase
  <2>3. At("connecting") # {} => phase' # "none"
    BY <2>2 DEF IInv, PhaseHolds
  <2>4. QED
    BY <2>1, <2>2, <2>3, LossInv
<1>4. QED
  BY <1>2, <1>3

LEMMA MalformedInv == IInv /\ Malformed => IInv'
<1> SUFFICES ASSUME IInv, Malformed PROVE IInv'
  OBVIOUS
<1>1. observed' \in BOOLEAN /\ losses' \in Nat /\ faults' \in Nat
  BY DEF Malformed, IInv, TypeOK
<1>2. QED
  BY <1>1, DisconnectedInv DEF Malformed

LEMMA StopInv == IInv /\ Stop => IInv'
<1> SUFFICES ASSUME IInv, Stop PROVE IInv'
  OBVIOUS
<1>1. observed' \in BOOLEAN /\ losses' \in Nat /\ faults' \in Nat
  BY DEF Stop, IInv, TypeOK
<1>2. QED
  BY <1>1, DisconnectedInv DEF Stop

(***************************************************************************)
(* The handshake                                                           *)
(***************************************************************************)
\* The invariant is about everything but the counters of the bounds; a step
\* that leaves the requests alone keeps the books.
LEMMA BooksUnchanged ==
    ASSUME IInv, UNCHANGED <<requestQueue, activeRequests, stage>>
    PROVE  SlotsAccounted' /\ QueueHolds'
BY DEF IInv, SlotsAccounted, QueueHolds, At

LEMMA SocketOpensInv == IInv /\ SocketOpens => IInv'
<1> SUFFICES ASSUME IInv, SocketOpens PROVE IInv'
  OBVIOUS
<1>1. /\ UNCHANGED <<kind, stage, attempt, waiters, requestQueue,
                     activeRequests, listening, served, restoring, reconnectTimer,
                     reconnectEnabled, observed, currentServerIndex,
                     hasConnectedBefore, told, tries, byTimer, losses, faults>>
      /\ phase = "opening" /\ phase' = "version" /\ connected' = TRUE
  BY DEF SocketOpens, reconnection, requests
<1>2. TypeOK'
  BY <1>1 DEF IInv, TypeOK, Phase
<1>3. SlotsAccounted' /\ QueueHolds'
  BY <1>1, BooksUnchanged
<1>4. HandshakeAlone' /\ TimerAlone'
  BY <1>1 DEF IInv, HandshakeAlone, TimerAlone, Outstanding, At
<1>5. WaitersHold' /\ PhaseHolds'
  BY <1>1 DEF IInv, WaitersHold, PhaseHolds, Handshaking, At
<1>6. \A r \in Request : RequestHolds(r)'
  BY <1>1 DEF IInv, RequestHolds
<1>7. RestoringHolds' /\ ListenersServed'
  BY <1>1 DEF RestoringHolds, ListenersServed
<1>8. QED
  BY <1>2, <1>3, <1>4, <1>5, <1>6, <1>7 DEF IInv

\* A step within the handshake that ends neither it nor the connection.
LEMMA HandshakeStepInv ==
    ASSUME IInv, Handshaking, phase' \in {"headers", "restoring"},
           UNCHANGED <<kind, stage, attempt, waiters, requestQueue,
                       activeRequests, listening, reconnectTimer,
                       reconnectEnabled, observed, currentServerIndex, connected,
                       hasConnectedBefore, told, tries, byTimer, losses, faults>>,
           served' \subseteq Scripthash, restoring' \subseteq Scripthash,
           RestoringHolds'
    PROVE  IInv'
<1>1. phase \notin {"none", "opening"} /\ phase' \notin {"none", "opening"}
  BY DEF Handshaking
<1>2. TypeOK'
  BY DEF IInv, TypeOK, Phase
<1>3. SlotsAccounted' /\ QueueHolds'
  BY BooksUnchanged
<1>4. HandshakeAlone' /\ TimerAlone'
  BY <1>1 DEF IInv, HandshakeAlone, TimerAlone, Outstanding, At
<1>5. WaitersHold' /\ PhaseHolds'
  BY <1>1 DEF IInv, WaitersHold, PhaseHolds, Handshaking, At
<1>6. \A r \in Request : RequestHolds(r)'
  BY DEF IInv, RequestHolds
<1>7. ListenersServed'
  BY <1>1 DEF ListenersServed
<1>8. QED
  BY <1>2, <1>3, <1>4, <1>5, <1>6, <1>7 DEF IInv

LEMMA VersionAnsweredInv == IInv /\ VersionAnswered => IInv'
<1> SUFFICES ASSUME IInv, VersionAnswered PROVE IInv'
  OBVIOUS
<1>1. Handshaking /\ phase' = "headers"
  BY DEF VersionAnswered, Handshaking
<1>2. /\ UNCHANGED <<kind, stage, attempt, waiters, requestQueue,
                     activeRequests, listening, reconnectTimer,
                     reconnectEnabled, observed, currentServerIndex, connected,
                     hasConnectedBefore, told, tries, byTimer, losses, faults>>
      /\ UNCHANGED <<served, restoring>>
  BY DEF VersionAnswered, link, reconnection, requests
<1>3. served' \subseteq Scripthash /\ restoring' \subseteq Scripthash
  BY <1>2 DEF IInv, TypeOK
<1>4. RestoringHolds'
  BY <1>1 DEF RestoringHolds
<1>5. QED
  BY <1>1, <1>2, <1>3, <1>4, HandshakeStepInv

\* The end of the handshake releases the waiters into an empty queue.
LEMMA EstablishedInv ==
    ASSUME IInv, Handshaking, NEW now \in SUBSET Scripthash, Established(now),
           UNCHANGED <<connected, currentServerIndex, reconnectEnabled,
                       reconnectTimer, observed, kind, attempt, listening,
                       losses, faults>>,
           \A r \in listening : Hash[r] \in now \/ stage[r] \in {"connecting", "backoff"}
    PROVE  IInv'
<1> DEFINE q == requestQueue \o waiters
           st == Moved(stage, {r \in At("connecting") : kind[r] = "connect"}, "done")
<1>1. /\ TypeOK /\ Books /\ WaitersHold
      /\ \A r \in Request : RequestHolds(r)
  BY InvBooks DEF IInv
<1>2. connected /\ phase # "none" /\ ~ reconnectTimer /\ Outstanding = {}
  BY DEF IInv, PhaseHolds, TimerAlone, HandshakeAlone, Handshaking
<1>3. /\ st \in [Request -> RequestStage]
      /\ \A r \in Request :
            st[r] = IF stage[r] = "connecting" /\ kind[r] = "connect"
                    THEN "done" ELSE stage[r]
  BY <1>1 DEF TypeOK, Moved, At, RequestStage
<1>4. /\ phase' = "none" /\ tries' = 0 /\ byTimer' = FALSE /\ restoring' = {}
      /\ hasConnectedBefore' = TRUE /\ told' = TRUE /\ served' = now
      /\ waiters' = <<>>
      /\ Drain(q, activeRequests, st)
  BY DEF Established
<1> HIDE DEF st
<1>5. /\ requestQueue \in Seq(Request) /\ NoRepeats(requestQueue)
      /\ Range(requestQueue) = {} /\ InStage(st, "queued") = {}
      /\ waiters \in Seq(Request) /\ NoRepeats(waiters)
      /\ Range(waiters) = {r \in Request : stage[r] = "connecting" /\ kind[r] # "connect"}
  <2>1. At("queued") = {} /\ At("sent") = {}
    BY <1>2 DEF Outstanding
  <2>2. Range(requestQueue) = {} /\ InStage(st, "queued") = {}
    BY <1>1, <1>3, <2>1 DEF Books, BooksHold, InStage, At
  <2>3. QED
    BY <1>1, <2>2 DEF TypeOK, Books, BooksHold, WaitersHold, At
<1>6. /\ q \in Seq(Request) /\ NoRepeats(q)
      /\ Range(q) = Range(waiters)
  BY <1>5, ConcatQueue
<1>7. /\ activeRequests \in 0 .. MaxConcurrent
      /\ activeRequests = Cardinality(InStage(st, "sent"))
      /\ InStage(st, "sent") = {}
  <2>1. InStage(st, "sent") = InStage(stage, "sent")
    BY <1>3 DEF InStage
  <2>2. QED
    BY <1>1, <1>2, <2>1 DEF Books, BooksHold, Outstanding, At, InStage
<1> HIDE DEF q
<1>8. /\ BooksHold(requestQueue', activeRequests', stage')
      /\ requestQueue' # <<>> => activeRequests' = MaxConcurrent
      /\ \A r \in Request :
            IF r \in Range(q) THEN stage'[r] \in {"queued", "sent"}
                                ELSE stage'[r] = st[r]
  BY <1>3, <1>4, <1>5, <1>6, <1>7, DrainLemma
<1>9. \A r \in Request :
         IF stage[r] = "connecting"
         THEN IF kind[r] = "connect" THEN stage'[r] = "done"
                                     ELSE stage'[r] \in {"queued", "sent"}
         ELSE stage'[r] = stage[r]
  BY <1>3, <1>5, <1>6, <1>8
<1>10. SlotsAccounted' /\ QueueHolds'
  BY <1>8 DEF BooksHold, SlotsAccounted, QueueHolds, InStage, At
<1>11. TypeOK'
  <2>1. /\ requestQueue' \in Seq(Request) /\ waiters' \in Seq(Request)
        /\ stage' \in [Request -> RequestStage]
        /\ activeRequests' \in 0 .. MaxConcurrent
    BY <1>4, <1>8 DEF BooksHold
  <2>2. /\ phase' \in Phase /\ tries' \in 0 .. Servers /\ byTimer' \in BOOLEAN
        /\ restoring' \subseteq Scripthash /\ served' \subseteq Scripthash
        /\ hasConnectedBefore' \in BOOLEAN /\ told' \in BOOLEAN
    <3>1. 0 \in 0 .. Servers
      BY ClientAssumption
    <3>2. QED
      BY <1>4, <3>1 DEF Phase
  <2>3. QED
    BY <1>1, <2>1, <2>2 DEF TypeOK
<1>12. HandshakeAlone' /\ TimerAlone'
  BY <1>2, <1>4 DEF HandshakeAlone, TimerAlone
<1>13. WaitersHold' /\ PhaseHolds'
  <2>1. At("connecting")' = {}
    BY <1>9 DEF At
  <2>2. QED
    BY <1>4, <2>1, EmptyQueue DEF WaitersHold, PhaseHolds, Handshaking
<1>14. \A r \in Request : RequestHolds(r)'
  BY <1>1, <1>9 DEF RequestHolds
<1>15. ListenersServed'
  BY <1>1, <1>4, <1>9 DEF ListenersServed, RequestHolds, TypeOK
<1>16. RestoringHolds'
  BY <1>4 DEF RestoringHolds
<1>17. QED
  BY <1>10, <1>11, <1>12, <1>13, <1>14, <1>15, <1>16 DEF IInv

LEMMA HeadersAnsweredInv == IInv /\ HeadersAnswered => IInv'
<1> SUFFICES ASSUME IInv, HeadersAnswered PROVE IInv'
  OBVIOUS
<1> DEFINE hashes == {Hash[r] : r \in listening}
<1>1. TypeOK /\ Handshaking
  BY DEF IInv, HeadersAnswered, Handshaking
<1>2. UNCHANGED <<connected, currentServerIndex, reconnectEnabled,
                  reconnectTimer, observed, kind, attempt, listening, losses,
                  faults>>
  BY DEF HeadersAnswered, reconnection
<1>3. CASE hashes = {}
  <2>1. listening = {}
    BY <1>3
  <2>2. Established(served) /\ served \in SUBSET Scripthash
    BY <1>1, <1>3 DEF HeadersAnswered, TypeOK
  <2>3. QED
    BY <1>1, <1>2, <2>1, <2>2, EstablishedInv
<1>4. CASE hashes # {}
  <2>1. /\ phase' = "restoring" /\ restoring' = hashes
        /\ UNCHANGED <<hasConnectedBefore, told, served, tries, byTimer, waiters,
                       requestQueue, activeRequests, stage>>
    BY <1>4 DEF HeadersAnswered
  <2>2. hashes \subseteq Scripthash
    BY <1>1 DEF TypeOK, Scripthash
  <2>3. served' \subseteq Scripthash /\ restoring' \subseteq Scripthash
    BY <1>1, <2>1, <2>2 DEF TypeOK
  <2>4. RestoringHolds'
    BY <1>2, <2>1 DEF RestoringHolds
  <2>5. QED
    BY <1>1, <1>2, <2>1, <2>3, <2>4, HandshakeStepInv
<1>5. QED
  BY <1>3, <1>4

LEMMA RestoredInv ==
    ASSUME IInv, NEW h \in Scripthash, Restored(h) PROVE IInv'
<1>1. /\ TypeOK /\ Handshaking /\ RestoringHolds /\ phase = "restoring"
      /\ \A r \in Request : RequestHolds(r)
  BY DEF IInv, Restored, Handshaking
<1>2. /\ h \in restoring
      /\ UNCHANGED <<connected, currentServerIndex, reconnectEnabled,
                     reconnectTimer, observed, kind, attempt, listening, losses,
                     faults>>
  BY DEF Restored, reconnection
<1>3. served \cup {h} \in SUBSET Scripthash /\ restoring \ {h} \subseteq Scripthash
  BY <1>1 DEF TypeOK
<1>4. \A r \in listening :
         \/ Hash[r] \in (restoring \ {h}) \cup (served \cup {h})
         \/ stage[r] \in {"connecting", "backoff"}
  BY <1>1 DEF RestoringHolds
<1>5. CASE restoring = {h}
  <2>1. Established(served \cup {h})
    BY <1>5 DEF Restored
  <2>2. \A r \in listening :
           Hash[r] \in served \cup {h} \/ stage[r] \in {"connecting", "backoff"}
    BY <1>4, <1>5
  <2>3. QED
    BY <1>1, <1>2, <1>3, <2>1, <2>2, EstablishedInv
<1>6. CASE restoring # {h}
  <2>1. /\ restoring' = restoring \ {h} /\ served' = served \cup {h}
        /\ UNCHANGED <<hasConnectedBefore, told, phase, tries, byTimer, waiters,
                       requestQueue, activeRequests, stage>>
    BY <1>6 DEF Restored
  <2>2. RestoringHolds'
    BY <1>2, <1>4, <2>1 DEF RestoringHolds
  <2>3. QED
    BY <1>1, <1>2, <1>3, <2>1, <2>2, HandshakeStepInv
<1>7. QED
  BY <1>5, <1>6

LEMMA TimerFiresInv == IInv /\ TimerFires => IInv'
<1> SUFFICES ASSUME IInv, TimerFires PROVE IInv'
  OBVIOUS
<1>1. TypeOK /\ phase = "none" /\ ~ connected /\ Outstanding = {}
  BY DEF IInv, TimerAlone, HandshakeAlone, TimerFires
<1>2. /\ phase' = "opening" /\ tries' = 1 /\ byTimer' = TRUE
      /\ restoring' = restoring /\ reconnectTimer' = FALSE
      /\ reconnectEnabled' = TRUE
      /\ UNCHANGED <<connected, currentServerIndex, hasConnectedBefore, told,
                     served, observed, kind, stage, attempt, waiters,
                     requestQueue, activeRequests, listening, losses, faults>>
  BY <1>1 DEF TimerFires, link, requests
<1>3. TypeOK'
  <2>1. 1 \in 0 .. Servers
    BY ClientAssumption
  <2>2. QED
    BY <1>1, <1>2, <2>1 DEF TypeOK, Phase
<1>4. SlotsAccounted' /\ QueueHolds'
  BY <1>2, BooksUnchanged
<1>5. HandshakeAlone' /\ TimerAlone'
  BY <1>1, <1>2 DEF HandshakeAlone, TimerAlone, Outstanding, At
<1>6. WaitersHold' /\ PhaseHolds'
  BY <1>1, <1>2 DEF IInv, WaitersHold, PhaseHolds, Handshaking, At
<1>7. \A r \in Request : RequestHolds(r)'
  BY <1>2 DEF IInv, RequestHolds
<1>8. RestoringHolds' /\ ListenersServed'
  BY <1>2 DEF RestoringHolds, ListenersServed
<1>9. QED
  BY <1>3, <1>4, <1>5, <1>6, <1>7, <1>8 DEF IInv

(***************************************************************************)
(* Requests                                                                *)
(***************************************************************************)
\* A request in flight settles; the others only move up.
LEMMA SettlesInv ==
    ASSUME IInv, NEW r \in Request, stage[r] = "sent",
           NEW s \in {"done", "failed", "backoff"}, Release(r, s),
           s = "backoff" => attempt[r] < MaxAttempts,
           listening' \subseteq listening,
           s = "failed" => r \notin listening',
           served \subseteq served', served' \subseteq Scripthash,
           s = "done" /\ r \in listening' => Hash[r] \in served',
           UNCHANGED <<connected, currentServerIndex, hasConnectedBefore, told,
                       phase, tries, byTimer, restoring, reconnectEnabled,
                       reconnectTimer, observed, kind, attempt, waiters>>,
           losses' \in Nat, faults' \in Nat
    PROVE  IInv'
<1>1. /\ TypeOK /\ Books /\ ListenersServed /\ WaitersHold
      /\ \A x \in Request : RequestHolds(x)
  BY InvBooks DEF IInv
<1>2. connected /\ phase = "none" /\ At("connecting") = {}
  <2>1. r \in Outstanding
    BY DEF Outstanding, At
  <2>2. QED
    BY <2>1 DEF IInv, HandshakeAlone, PhaseHolds
<1>3. s \in RequestStage \ {"queued", "sent"}
  BY DEF RequestStage
<1>4. /\ Books' /\ stage'[r] = s
      /\ \A x \in Request \ {r} :
            IF stage[x] = "queued" THEN stage'[x] \in {"queued", "sent"}
                                   ELSE stage'[x] = stage[x]
  BY <1>1, <1>3, ReleaseLemma
<1>5. SlotsAccounted' /\ QueueHolds'
  BY <1>4 DEF Books, BooksHold, SlotsAccounted, QueueHolds, InStage, At
<1>6. TypeOK'
  BY <1>1, <1>4 DEF TypeOK, Books, BooksHold
<1>7. HandshakeAlone' /\ TimerAlone'
  BY <1>2 DEF IInv, HandshakeAlone, TimerAlone
<1>8. WaitersHold' /\ PhaseHolds'
  <2>1. At("connecting")' = {}
    BY <1>2, <1>4 DEF At
  <2>2. QED
    BY <1>1, <1>2, <2>1 DEF WaitersHold, PhaseHolds, Handshaking
<1>9. \A x \in Request : RequestHolds(x)'
  BY <1>1, <1>4 DEF RequestHolds
<1>10. RestoringHolds' /\ ListenersServed'
  BY <1>1, <1>2, <1>4 DEF RestoringHolds, ListenersServed, TypeOK
<1>11. QED
  BY <1>5, <1>6, <1>7, <1>8, <1>9, <1>10 DEF IInv

LEMMA AnsweredInv ==
    ASSUME IInv, NEW r \in Request, Answered(r) PROVE IInv'
<1>1. TypeOK /\ RequestHolds(r)
  BY DEF IInv
<1>2. /\ served \subseteq served' /\ served' \subseteq Scripthash
      /\ r \in listening => Hash[r] \in served'
  BY <1>1 DEF Answered, TypeOK, Scripthash, RequestHolds
<1>3. QED
  BY <1>1, <1>2, SettlesInv DEF Answered, attempting, reconnection, TypeOK

LEMMA RefusedInv ==
    ASSUME IInv, NEW r \in Request, Refused(r) PROVE IInv'
<1>1. TypeOK
  BY DEF IInv
<1>2. QED
  BY <1>1, SettlesInv DEF Refused, link, attempting, reconnection, TypeOK

LEMMA FailsInv ==
    ASSUME IInv, NEW r \in Request, Fails(r) PROVE IInv'
<1>1. TypeOK
  BY DEF IInv
<1>2. losses' \in Nat /\ faults' \in Nat
  BY <1>1 DEF Fails, TypeOK
<1>3. QED
  BY <1>1, <1>2, SettlesInv DEF Fails, link, attempting, reconnection, TypeOK

LEMMA UnsubscribeInv ==
    ASSUME IInv, NEW r \in Request, Unsubscribe(r) PROVE IInv'
<1>1. /\ listening' = listening \ {r}
      /\ UNCHANGED <<connected, currentServerIndex, hasConnectedBefore, told,
                     served, phase, tries, byTimer, restoring, reconnectEnabled,
                     reconnectTimer, observed, kind, stage, attempt, waiters,
                     requestQueue, activeRequests, losses, faults>>
  BY DEF Unsubscribe, link, attempting, reconnection
<1>2. TypeOK'
  BY <1>1 DEF IInv, TypeOK
<1>3. SlotsAccounted' /\ QueueHolds'
  BY <1>1, BooksUnchanged
<1>4. HandshakeAlone' /\ TimerAlone' /\ WaitersHold' /\ PhaseHolds'
  BY <1>1 DEF IInv, HandshakeAlone, TimerAlone, Outstanding, WaitersHold,
              PhaseHolds, Handshaking, At
<1>5. \A x \in Request : RequestHolds(x)'
  BY <1>1 DEF IInv, RequestHolds
<1>6. RestoringHolds' /\ ListenersServed'
  BY <1>1 DEF IInv, RestoringHolds, ListenersServed
<1>7. QED
  BY <1>2, <1>3, <1>4, <1>5, <1>6 DEF IInv

\* What issuing or retrying request r may do besides queueing it: give it its
\* kind and its listener, or count its attempt.
Takes(r) ==
    /\ kind' \in [Request -> Kind] /\ attempt' \in [Request -> 1 .. MaxAttempts]
    /\ \A x \in Request \ {r} : kind'[x] = kind[x] /\ attempt'[x] = attempt[x]
    /\ listening' \in {listening, listening \cup {r}}
    /\ r \in listening' => kind'[r] = "subscribe"
    /\ UNCHANGED <<connected, currentServerIndex, hasConnectedBefore, told,
                   served, observed, losses, faults>>

\* With a connection, the request enters the queue.
LEMMA EnqueueInv ==
    ASSUME IInv, NEW r \in Request, stage[r] \in {"idle", "backoff"}, Ready,
           Drain(Append(requestQueue, r), activeRequests, stage),
           Takes(r), kind'[r] # "connect",
           UNCHANGED <<phase, tries, byTimer, restoring, reconnectEnabled,
                       reconnectTimer, waiters>>
    PROVE  IInv'
<1> DEFINE q == Append(requestQueue, r)
<1>1. /\ TypeOK /\ Books /\ WaitersHold /\ ListenersServed
      /\ connected /\ phase = "none" /\ At("connecting") = {}
      /\ \A x \in Request : RequestHolds(x)
  BY InvBooks DEF IInv, Ready, PhaseHolds
<1>2. /\ requestQueue \in Seq(Request) /\ NoRepeats(requestQueue)
      /\ Range(requestQueue) = InStage(stage, "queued")
      /\ stage \in [Request -> RequestStage]
      /\ activeRequests \in 0 .. MaxConcurrent
      /\ activeRequests = Cardinality(InStage(stage, "sent"))
      /\ r \notin InStage(stage, "queued") /\ r \notin InStage(stage, "sent")
  BY <1>1 DEF Books, BooksHold, InStage
<1>3. /\ q \in Seq(Request) /\ NoRepeats(q)
      /\ Range(q) = InStage(stage, "queued") \cup {r}
  BY <1>2, AppendQueue
<1> HIDE DEF q
<1>4. Range(q) \cap InStage(stage, "sent") = {}
  BY <1>2, <1>3 DEF InStage
<1>5. Drain(q, activeRequests, stage)
  BY DEF q
<1>6. /\ BooksHold(requestQueue', activeRequests', stage')
      /\ requestQueue' # <<>> => activeRequests' = MaxConcurrent
      /\ \A x \in Request :
            IF x \in Range(q) THEN stage'[x] \in {"queued", "sent"}
                                ELSE stage'[x] = stage[x]
  BY <1>2, <1>3, <1>4, <1>5, DrainLemma
<1>7. /\ stage'[r] \in {"queued", "sent"}
      /\ \A x \in Request \ {r} :
            IF stage[x] = "queued" THEN stage'[x] \in {"queued", "sent"}
                                   ELSE stage'[x] = stage[x]
  BY <1>3, <1>6 DEF InStage
<1>8. SlotsAccounted' /\ QueueHolds'
  BY <1>6 DEF BooksHold, SlotsAccounted, QueueHolds, InStage, At
<1>9. TypeOK'
  BY <1>1, <1>6 DEF TypeOK, Takes, BooksHold
<1>10. HandshakeAlone' /\ TimerAlone'
  BY <1>1 DEF IInv, HandshakeAlone, TimerAlone, Takes
<1>11. WaitersHold' /\ PhaseHolds'
  <2>1. At("connecting")' = {}
    BY <1>1, <1>7 DEF At
  <2>2. QED
    BY <1>1, <2>1 DEF WaitersHold, PhaseHolds, Handshaking
<1>12. \A x \in Request : RequestHolds(x)'
  BY <1>1, <1>7 DEF RequestHolds, Takes
<1>13. RestoringHolds' /\ ListenersServed'
  <2>1. ASSUME NEW x \in listening'
        PROVE  Hash[x] \in served' \/ stage'[x] \in {"queued", "sent", "backoff"}
    <3>1. CASE x = r
      BY <1>7, <3>1
    <3>2. CASE x # r
      <4>1. x \in listening /\ x \in Request
        BY <1>1, <2>1, <3>2 DEF TypeOK, Takes
      <4>2. Hash[x] \in served \/ stage[x] \in {"queued", "sent", "backoff"}
        BY <1>1, <4>1 DEF ListenersServed
      <4>3. QED
        BY <1>7, <3>2, <4>1, <4>2 DEF Takes
    <3>3. QED
      BY <3>1, <3>2
  <2>2. QED
    BY <1>1, <2>1 DEF RestoringHolds, ListenersServed
<1>14. QED
  BY <1>8, <1>9, <1>10, <1>11, <1>12, <1>13 DEF IInv

\* Without one, it waits for the attempt in progress or starts one.
LEMMA JoinInv ==
    ASSUME IInv, NEW r \in Request, stage[r] \in {"idle", "backoff"}, ~ Ready,
           Join(r, stage), Takes(r),
           waiters' = IF kind'[r] = "connect" THEN waiters ELSE Append(waiters, r),
           UNCHANGED <<requestQueue, activeRequests>>
    PROVE  IInv'
<1>1. /\ TypeOK /\ Books /\ WaitersHold /\ PhaseHolds /\ RestoringHolds
      /\ Outstanding = {}
      /\ \A x \in Request : RequestHolds(x)
  BY InvBooks DEF IInv, Ready, HandshakeAlone
<1>2. /\ reconnectEnabled' = TRUE /\ reconnectTimer' = FALSE
      /\ stage' \in [Request -> RequestStage]
      /\ stage'[r] = "connecting"
      /\ \A x \in Request \ {r} : stage'[x] = stage[x]
  BY <1>1 DEF Join, TypeOK, RequestStage
<1>3. /\ byTimer' = byTimer /\ restoring' = restoring
      /\ IF phase = "none" THEN phase' = "opening" /\ tries' = 1
                           ELSE phase' = phase /\ tries' = tries
  BY DEF Join, attempting
<1>4. phase' # "none" /\ (phase = "none" => ~ connected)
  BY <1>3 DEF Ready
<1>5. /\ waiters' \in Seq(Request)
      /\ r \notin Range(waiters)
      /\ Range(Append(waiters, r)) = Range(waiters) \cup {r}
      /\ NoRepeats(Append(waiters, r))
  BY <1>1, AppendQueue DEF TypeOK, WaitersHold, At
<1>6. TypeOK'
  <2>1. phase' \in Phase /\ tries' \in 0 .. Servers
    <3>1. 1 \in 0 .. Servers
      BY ClientAssumption
    <3>2. QED
      BY <1>1, <1>3, <3>1 DEF TypeOK, Phase
  <2>2. listening' \subseteq Request
    BY <1>1 DEF Takes, TypeOK
  <2>3. QED
    BY <1>1, <1>2, <1>3, <1>5, <2>1, <2>2 DEF TypeOK, Takes
<1>7. At("queued")' = At("queued") /\ At("sent")' = At("sent")
  BY <1>2 DEF At
<1>8. SlotsAccounted' /\ QueueHolds'
  BY <1>7 DEF IInv, SlotsAccounted, QueueHolds
<1>9. HandshakeAlone' /\ TimerAlone'
  BY <1>1, <1>2, <1>7 DEF HandshakeAlone, TimerAlone, Outstanding
<1>10. WaitersHold'
  <2>1. At("connecting")' = At("connecting") \cup {r}
    BY <1>2 DEF At
  <2>2. {x \in At("connecting")' : kind'[x] # "connect"} =
           {x \in At("connecting") : kind[x] # "connect"} \cup
           (IF kind'[r] = "connect" THEN {} ELSE {r})
    <3>1. r \notin At("connecting") /\ At("connecting") \subseteq Request
      BY DEF At
    <3>2. \A x \in At("connecting") : kind'[x] = kind[x]
      BY <3>1 DEF Takes
    <3>3. QED
      BY <2>1, <3>1, <3>2
  <2>3. QED
    BY <1>1, <1>5, <2>2 DEF WaitersHold
<1>11. PhaseHolds'
  BY <1>1, <1>3, <1>4 DEF PhaseHolds, Handshaking, Takes
<1>12. \A x \in Request : RequestHolds(x)'
  BY <1>1, <1>2 DEF RequestHolds, Takes
<1>13. RestoringHolds' /\ ListenersServed'
  <2>1. ListenersServed'
    BY <1>4 DEF ListenersServed
  <2>2. RestoringHolds'
    BY <1>1, <1>2, <1>3 DEF RestoringHolds, Takes, TypeOK
  <2>3. QED
    BY <2>1, <2>2
<1>14. QED
  BY <1>6, <1>8, <1>9, <1>10, <1>11, <1>12, <1>13 DEF IInv

LEMMA AttemptInv ==
    ASSUME IInv, NEW r \in Request, stage[r] \in {"idle", "backoff"},
           Attempt(r, stage), Takes(r), kind'[r] # "connect"
    PROVE  IInv'
<1>1. CASE Ready
  BY <1>1, EnqueueInv DEF Attempt, attempting
<1>2. CASE ~ Ready
  BY <1>2, JoinInv DEF Attempt
<1>3. QED
  BY <1>1, <1>2

LEMMA RetriesInv ==
    ASSUME IInv, NEW r \in Request, Retries(r) PROVE IInv'
<1>1. TypeOK /\ RequestHolds(r) /\ stage[r] = "backoff"
  BY DEF IInv, Retries
<1>2. attempt' \in [Request -> 1 .. MaxAttempts]
  <2>1. attempt[r] \in 1 .. MaxAttempts /\ attempt[r] < MaxAttempts
    BY <1>1 DEF TypeOK, RequestHolds
  <2>2. attempt[r] + 1 \in 1 .. MaxAttempts
    BY <2>1, ClientAssumption
  <2>3. QED
    BY <1>1, <2>2 DEF TypeOK, Retries
<1>3. Takes(r) /\ kind'[r] # "connect"
  BY <1>1, <1>2 DEF TypeOK, Retries, Takes, RequestHolds, link
<1>4. QED
  BY <1>1, <1>3, AttemptInv DEF Retries

LEMMA IssueInv ==
    ASSUME IInv, NEW r \in Request, NEW k \in Kind, Issue(r, k) PROVE IInv'
<1>1. TypeOK /\ RequestHolds(r) /\ stage[r] = "idle" /\ r \notin listening
  BY DEF IInv, Issue, RequestHolds
<1>2. Takes(r) /\ kind'[r] = k
  <2>1. kind' \in [Request -> Kind] /\ kind'[r] = k
    BY <1>1 DEF Issue, TypeOK
  <2>2. \A x \in Request \ {r} : kind'[x] = kind[x]
    BY <1>1 DEF Issue, TypeOK
  <2>3. QED
    BY <1>1, <2>1, <2>2 DEF Issue, TypeOK, Takes, link
<1>3. CASE k # "connect"
  BY <1>1, <1>2, <1>3, AttemptInv DEF Issue
<1>4. CASE k = "connect" /\ ~ Ready
  BY <1>1, <1>2, <1>4, JoinInv DEF Issue
<1>5. CASE k = "connect" /\ Ready
  <2>1. /\ reconnectEnabled' = TRUE /\ reconnectTimer' = FALSE
        /\ stage' = [stage EXCEPT ![r] = "done"]
        /\ listening' = listening
        /\ UNCHANGED <<phase, tries, byTimer, restoring, waiters, requestQueue,
                       activeRequests, connected, currentServerIndex,
                       hasConnectedBefore, told, served, observed, attempt,
                       losses, faults>>
    BY <1>5 DEF Issue, attempting, link
  <2>2. /\ stage' \in [Request -> RequestStage] /\ stage'[r] = "done"
        /\ \A x \in Request \ {r} : stage'[x] = stage[x]
        /\ kind' \in [Request -> Kind]
        /\ \A x \in Request \ {r} : kind'[x] = kind[x]
    BY <1>1, <1>2, <2>1 DEF TypeOK, RequestStage, Takes
  <2>3. \A s \in {"queued", "sent", "connecting"} : At(s)' = At(s)
    BY <1>1, <2>2 DEF At
  <2>4. TypeOK'
    BY <1>1, <2>1, <2>2 DEF TypeOK
  <2>5. SlotsAccounted' /\ QueueHolds'
    BY <2>1, <2>3 DEF IInv, SlotsAccounted, QueueHolds
  <2>6. HandshakeAlone' /\ TimerAlone'
    BY <2>1, <2>3 DEF IInv, HandshakeAlone, TimerAlone, Outstanding
  <2>7. At("connecting") = {}
    BY <1>5 DEF IInv, Ready, PhaseHolds
  <2>8. WaitersHold' /\ PhaseHolds'
    BY <2>1, <2>3, <2>7 DEF IInv, WaitersHold, PhaseHolds, Handshaking
  <2>9. \A x \in Request : RequestHolds(x)'
    BY <1>1, <2>1, <2>2 DEF IInv, RequestHolds
  <2>10. RestoringHolds' /\ ListenersServed'
    BY <1>1, <2>1, <2>2 DEF IInv, RestoringHolds, ListenersServed, TypeOK
  <2>11. QED
    BY <2>4, <2>5, <2>6, <2>8, <2>9, <2>10 DEF IInv
<1>6. QED
  BY <1>3, <1>4, <1>5

(***************************************************************************)
(* The theorems                                                            *)
(***************************************************************************)
LEMMA InitInv == Init => IInv
<1> SUFFICES ASSUME Init PROVE IInv
  OBVIOUS
<1>1. /\ At("queued") = {} /\ At("sent") = {} /\ At("connecting") = {}
  BY DEF Init, At
<1>2. TypeOK
  <2>1. 0 \in 0 .. Servers - 1 /\ 0 \in 0 .. Servers /\ 0 \in 0 .. MaxConcurrent
        /\ 1 \in 1 .. MaxAttempts
    BY ClientAssumption
  <2>2. /\ kind \in [Request -> Kind] /\ stage \in [Request -> RequestStage]
        /\ attempt \in [Request -> 1 .. MaxAttempts]
        /\ waiters \in Seq(Request) /\ requestQueue \in Seq(Request)
    BY <2>1 DEF Init, Kind, RequestStage
  <2>3. /\ restoring \subseteq Scripthash /\ served \subseteq Scripthash
        /\ listening \subseteq Request /\ losses \in Nat /\ faults \in Nat
    BY DEF Init
  <2>4. QED
    BY <2>1, <2>2, <2>3 DEF Init, TypeOK, Phase
<1>3. SlotsAccounted /\ QueueHolds /\ WaitersHold
  BY <1>1, EmptyQueue, FS_EmptySet DEF Init, SlotsAccounted, QueueHolds, WaitersHold
<1>4. HandshakeAlone /\ TimerAlone /\ PhaseHolds
  BY <1>1 DEF Init, HandshakeAlone, Outstanding, TimerAlone, PhaseHolds, Handshaking
<1>5. /\ \A r \in Request : RequestHolds(r)
      /\ RestoringHolds /\ ListenersServed
  BY DEF Init, RequestHolds, RestoringHolds, ListenersServed
<1>6. QED
  BY <1>2, <1>3, <1>4, <1>5 DEF IInv

LEMMA NextInv == IInv /\ [Next]_vars => IInv'
<1> SUFFICES ASSUME IInv, [Next]_vars PROVE IInv'
  OBVIOUS
<1>1. CASE Handshake
  BY <1>1, SocketOpensInv, SocketFailsInv, VersionAnsweredInv, HeadersAnsweredInv,
     HandshakeFailsInv, RestoredInv DEF Handshake
<1>2. CASE ConnectionLost \/ HandshakeLost \/ Malformed \/ Stop \/ TimerFires
  BY <1>2, ConnectionLostInv, HandshakeLostInv, MalformedInv, StopInv, TimerFiresInv
<1>3. ASSUME NEW r \in Request, NEW k \in Kind, Issue(r, k) PROVE IInv'
  BY <1>3, IssueInv
<1>4. ASSUME NEW r \in Request, RequestStep(r) PROVE IInv'
  BY <1>4, AnsweredInv, RefusedInv, FailsInv, SessionUnhealthyInv, RetriesInv
     DEF RequestStep
<1>5. ASSUME NEW r \in Request, Unsubscribe(r) PROVE IInv'
  BY <1>5, UnsubscribeInv
<1>6. CASE UNCHANGED vars
  <2>1. UNCHANGED <<connected, currentServerIndex, hasConnectedBefore, told,
                    served, phase, tries, byTimer, restoring, reconnectEnabled,
                    reconnectTimer, observed, kind, stage, attempt, waiters,
                    requestQueue, activeRequests, listening, losses, faults>>
    BY <1>6 DEF vars, link, attempting, reconnection, requests
  <2>2. QED
    BY <2>1 DEF IInv, TypeOK, SlotsAccounted, QueueHolds, HandshakeAlone,
       TimerAlone, WaitersHold, PhaseHolds, Handshaking, RequestHolds,
       RestoringHolds, ListenersServed, Outstanding, At
<1>7. QED
  BY <1>1, <1>2, <1>3, <1>4, <1>5, <1>6 DEF Next

\* The invariant holds of every behaviour of the client.
THEOREM Invariance == Spec => []IInv
<1>1. Init => IInv
  BY InitInv
<1>2. IInv /\ [Next]_vars => IInv'
  BY NextInv
<1>3. QED
  BY <1>1, <1>2, PTL DEF Spec

\* Every field of the client keeps its type; in particular the requests in
\* flight stay within the limit of drainRequestQueue and the attempts of
\* request() within theirs.
THEOREM TypeCorrect == Spec => []TypeOK
<1>1. IInv => TypeOK
  BY DEF IInv
<1>2. QED
  BY <1>1, Invariance, PTL

\* However requests end, by an answer, a timeout, a refusal or a lost
\* connection, activeRequests counts those in flight and none waits for a
\* free slot.
THEOREM SlotsComeBack == Spec => []SlotsAccounted
<1>1. IInv => SlotsAccounted
  BY DEF IInv
<1>2. QED
  BY <1>1, Invariance, PTL

\* request() sends nothing between openSocket and the end of the handshake.
THEOREM HandshakeIsAlone == Spec => []HandshakeAlone
<1>1. IInv => HandshakeAlone
  BY DEF IInv
<1>2. QED
  BY <1>1, Invariance, PTL

\* scheduleReconnect, connect() and disconnect() never leave the timer
\* running beside a connection or an attempt.
THEOREM OneAttempt == Spec => []TimerAlone
<1>1. IInv => TimerAlone
  BY DEF IInv
<1>2. QED
  BY <1>1, Invariance, PTL

\* After restoreScripthashSubscriptions the server reports every address
\* that is listened to, whenever its subscription was made.
THEOREM SubscriptionsSurvive == Spec => []ListenersServed
<1>1. IInv => ListenersServed
  BY DEF IInv
<1>2. QED
  BY <1>1, Invariance, PTL
=============================================================================
