-------------------------------- MODULE GapScan --------------------------------
(***************************************************************************)
(* One gap scan of an HD wallet (scanTransparentHdWallet): every branch    *)
(* reads its addresses in batches until enough of them are unused, all     *)
(* branches share one concurrency limiter (concurrency.ts), a read that    *)
(* fails is retried, and the first failure or the abort of the scan stops  *)
(* them all.  The chain moves meanwhile.                                   *)
(*                                                                         *)
(* Code between two awaits runs at once: nothing arrives from outside      *)
(* while a promise that has settled still has a continuation to run        *)
(* (Quiet).                                                                *)
(***************************************************************************)
EXTENDS Integers, Sequences, FiniteSets, SequencesExt

CONSTANTS
    Branch,         \* a template and a branch of it
    Gap,            \* gapLimit
    Batch,          \* SCAN_BATCH_SIZE
    Slots,          \* maxConcurrentNetworkRequests
    Workers,        \* SCAN_COLLECTION_CONCURRENCY
    MaxAttempts,    \* ELECTRUM_READ_MAX_ATTEMPTS
    MaxIndex,       \* LEGACY_ACCOUNT_ONE_MAX_ALLOCATED_INDEX
    Issued,         \* [Branch -> highest index issued, plus one]
    Starts,         \* what a scan may start from, see below
    MaxEvents       \* bound: failures, the abort and moves of the chain, together

Index == 0 .. MaxIndex
Address == Branch \X Index
Kind == {"history", "balance", "utxos"}
Read == Address \X Kind
State == {"fresh", "funded", "spent"}

\* The chain, and the previous snapshot: how long its unbroken part is on each
\* branch, and of the addresses recovered behind it those found used and the
\* others.
Start == {s \in [chain : [Address -> State], gap : [Branch -> 0 .. MaxIndex + 1],
                 used : SUBSET Address, unused : SUBSET Address] :
            \A a \in s.used \cup s.unused : a[2] > s.gap[a[1]]}

ASSUME ScanAssumption ==
    /\ IsFiniteSet(Branch)
    /\ Gap \in Nat \ {0} /\ Batch \in Nat \ {0} /\ Slots \in Nat \ {0}
    /\ Workers \in Nat \ {0} /\ MaxAttempts \in Nat \ {0} /\ MaxIndex \in Nat
    /\ Issued \in [Branch -> 0 .. MaxIndex + 1]
    /\ Starts \subseteq Start
    /\ MaxEvents \in Nat

VARIABLES
    chain,          \* what the server would say of each address
    stage,          \* of each branch
    todo,           \* its addresses mapWithConcurrency has not taken yet
    current,        \* its addresses being scanned
    broken,         \* one of them failed
    nextIndex, consecutiveUnused,
    record,         \* what the scan found
    read,           \* the reads of every address
    limiter,        \* queue and active of the limiter
    failure,        \* of the scan control: none, any, or one not to be retried
    aborted,        \* its signal
    outcome,
    start,          \* history: what it started from
    events

branches == <<stage, todo, current, broken, nextIndex, consecutiveUnused, record>>
network == <<read, limiter>>
control == <<failure, aborted>>
vars == <<chain, branches, network, control, outcome, start, events>>

InFlight == {x \in Read : read[x].stage = "flight"}

TypeOK ==
    /\ chain \in [Address -> State]
    /\ stage \in [Branch -> {"refresh", "decide", "derive", "batch", "done", "failed"}]
    /\ todo \in [Branch -> Seq(Address)]
    /\ \A b \in Branch : current[b] \subseteq {b} \X Index
    /\ broken \in [Branch -> BOOLEAN]
    /\ nextIndex \in [Branch -> 0 .. MaxIndex + 1]
    /\ consecutiveUnused \in [Branch -> 0 .. MaxIndex + 1]
    /\ record \in [Address -> {"none", "unused", "used"}]
    /\ read \in [Read -> [stage : {"none", "queued", "flight", "waiting", "done",
                                   "failed", "fatal"},
                          attempt : 0 .. MaxAttempts, value : BOOLEAN]]
    /\ limiter.queue \in Seq(Read) /\ limiter.active \in 0 .. Slots
    /\ failure \in {"none", "read", "fatal"} /\ aborted \in BOOLEAN
    /\ outcome \in {"running", "failed", "snapshot"}

On(b, indices) == {<<b, i>> : i \in indices}

\* What is read again of a previous snapshot on a branch: the unbroken part,
\* then what was recovered and used.
Known(s, b) ==
    [n \in 1 .. s.gap[b] |-> <<b, n - 1>>] \o SetToSeq(s.used \cap On(b, Index))

Unread == [stage |-> "none", attempt |-> 0, value |-> FALSE]

Init ==
    /\ start \in Starts /\ chain = start.chain
    /\ stage = [b \in Branch |-> "refresh"]
    /\ todo = [b \in Branch |-> Known(start, b)]
    /\ current = [b \in Branch |-> {}] /\ broken = [b \in Branch |-> FALSE]
    /\ nextIndex = [b \in Branch |-> start.gap[b]]
    /\ consecutiveUnused = [b \in Branch |-> 0]
    /\ record = [a \in Address |-> IF a \in start.unused THEN "unused" ELSE "none"]
    /\ read = [x \in Read |-> Unread]
    /\ limiter = [queue |-> <<>>, active |-> 0]
    /\ failure = "none" /\ aborted = FALSE /\ outcome = "running"
    /\ events = 0

(***************************************************************************)
(* The scan control and the limiter                                        *)
(***************************************************************************)
\* control.check throws.
Stopped == aborted \/ failure # "none"

\* control.fail: the first failure stays.
FailWith(kind) == failure' = IF failure = "none" THEN kind ELSE failure
Cause == IF aborted THEN "fatal" ELSE "read"

\* A read whose turn the check refuses: readElectrumWithRetry takes the error
\* for one of the read, unless it is an abort or an unhealthy session.
Refused(r) ==
    [r EXCEPT !.stage = IF aborted \/ failure = "fatal" THEN "fatal"
                        ELSE IF r.attempt < MaxAttempts THEN "waiting" ELSE "failed"]

\* Mutant of Drain: a refused task keeps its slot.
Drain_Leaking(reads, queue, active) ==
    LET n == Min({Slots - active, Len(queue)})
        turn == {queue[k] : k \in 1 .. n}
    IN  [read |-> [x \in Read |-> IF x \notin turn THEN reads[x]
                                  ELSE IF Stopped THEN Refused(reads[x])
                                  ELSE [reads[x] EXCEPT !.stage = "flight"]],
         limiter |-> [queue |-> SubSeq(queue, n + 1, Len(queue)), active |-> active + n]]

\* drain: the free slots go to the head of the queue.  A task that is refused
\* gives its slot back at once, to the next one.
Drain(reads, queue, active) ==
    LET free == Slots - active
        n == IF Stopped /\ free > 0 THEN Len(queue) ELSE Min({free, Len(queue)})
        turn == {queue[k] : k \in 1 .. n}
    IN  [read |-> [x \in Read |-> IF x \notin turn THEN reads[x]
                                  ELSE IF Stopped THEN Refused(reads[x])
                                  ELSE [reads[x] EXCEPT !.stage = "flight"]],
         limiter |-> [queue |-> SubSeq(queue, n + 1, Len(queue)),
                      active |-> IF Stopped THEN active ELSE active + n]]

Drained(reads, queue, active) ==
    LET d == Drain(reads, queue, active) IN read' = d.read /\ limiter' = d.limiter

\* runNetworkTask: reads, not asked for before or waiting, join the queue.
Ask(reads) ==
    Drained([x \in Read |-> IF x \in Range(reads)
                            THEN [stage |-> "queued", attempt |-> read[x].attempt + 1,
                                  value |-> FALSE]
                            ELSE read[x]],
            limiter.queue \o reads, limiter.active)

\* The first two reads of each address.
Opening(addresses) ==
    [n \in 1 .. 2 * Len(addresses) |->
        <<addresses[(n + 1) \div 2], IF n % 2 = 1 THEN "history" ELSE "balance">>]

(***************************************************************************)
(* Addresses                                                               *)
(***************************************************************************)
Failed(x) == read[x].stage \in {"failed", "fatal"}
Done(x) == read[x].stage = "done"
Value(x) == read[x].value
Shows(a, kind) == Value(<<a, kind>>)

AnyFailed(a) == \E kind \in Kind : Failed(<<a, kind>>)
Answered(a) == Done(<<a, "history">>) /\ Done(<<a, "balance">>)

\* scanAddressUnchecked has something to go on with.
AddressReady(a) ==
    /\ a \in current[a[1]]
    /\ \/ AnyFailed(a)
       \/ Answered(a) /\ read[<<a, "utxos">>].stage \in {"none", "done"}

Leaves(a) == current' = [current EXCEPT ![a[1]] = @ \ {a}]

\* The catch of scanAddress.
Reject(a) ==
    /\ Leaves(a) /\ broken' = [broken EXCEPT ![a[1]] = TRUE]
    /\ FailWith(IF \E kind \in Kind : read[<<a, kind>>].stage = "fatal"
                THEN "fatal" ELSE Cause)
    /\ UNCHANGED <<record, network>>

\* The address is scanned, and its reads forgotten.
Resolve(a, found) ==
    /\ Leaves(a) /\ record' = [record EXCEPT ![a] = found]
    /\ read' = [x \in Read |-> IF x[1] = a THEN Unread ELSE read[x]]
    /\ UNCHANGED <<broken, failure, limiter>>

\* Mutant of Used: the balance alone tells.
Used_Balance(a) == Shows(a, "balance")

Used(a) == Shows(a, "history") \/ Shows(a, "balance")

\* A used address is asked for its coins, which must be worth the balance.
AddressStep(a) ==
    /\ AddressReady(a)
    /\ IF AnyFailed(a) THEN Reject(a)
       ELSE IF ~Used(a) THEN Resolve(a, "unused")
       ELSE IF Done(<<a, "utxos">>)
       THEN IF Shows(a, "utxos") = Shows(a, "balance") THEN Resolve(a, "used") ELSE Reject(a)
       ELSE IF Stopped THEN Reject(a)
       ELSE Ask(<<<<a, "utxos">>>>) /\ UNCHANGED <<current, broken, record, failure>>
    /\ UNCHANGED <<chain, stage, todo, nextIndex, consecutiveUnused, aborted,
                   outcome, start, events>>

(***************************************************************************)
(* Branches                                                                *)
(***************************************************************************)
\* trailingUnusedCount
Trailing(b) ==
    Cardinality({i \in 0 .. nextIndex[b] - 1 :
                    \A j \in i .. nextIndex[b] - 1 : record[<<b, j>>] = "unused"})

\* The catch around scanHdBranch.
Fails(b) == stage' = [stage EXCEPT ![b] = "failed"] /\ FailWith(Cause)

\* mapWithConcurrency: a worker that is free takes the next address.
WorkerTakes(b) ==
    LET a == Head(todo[b])
    IN  /\ stage[b] = "refresh" /\ ~broken[b] /\ todo[b] # <<>>
        /\ Cardinality(current[b]) < Workers
        /\ todo' = [todo EXCEPT ![b] = Tail(@)]
        /\ IF Stopped
           THEN broken' = [broken EXCEPT ![b] = TRUE] /\ UNCHANGED <<current, network>>
           ELSE /\ current' = [current EXCEPT ![b] = @ \cup {a}]
                /\ Ask(Opening(<<a>>)) /\ UNCHANGED broken
        /\ UNCHANGED <<stage, nextIndex, consecutiveUnused, record, failure>>

Refreshed(b) ==
    /\ stage[b] = "refresh" /\ current[b] = {} /\ (broken[b] \/ todo[b] = <<>>)
    /\ IF broken[b] THEN Fails(b) /\ UNCHANGED consecutiveUnused
       ELSE /\ stage' = [stage EXCEPT ![b] = "decide"]
            /\ consecutiveUnused' = [consecutiveUnused EXCEPT ![b] = Trailing(b)]
            /\ UNCHANGED failure
    /\ UNCHANGED <<todo, current, broken, nextIndex, record, network>>

Missing(wanted, had) == IF wanted > had THEN wanted - had ELSE 0

\* The size of the next batch; 0 when the branch is complete.
Size(b) == Min({Batch, Max({Missing(Gap, consecutiveUnused[b]),
                            Missing(Issued[b], nextIndex[b])})})

\* The head of the loop, or createGapCoverage after it.
Decide(b) ==
    /\ stage[b] = "decide"
    /\ IF Size(b) = 0
       THEN IF Trailing(b) >= Gap
            THEN stage' = [stage EXCEPT ![b] = "done"] /\ UNCHANGED failure
            ELSE Fails(b)
       ELSE IF Stopped \/ nextIndex[b] + Size(b) - 1 > MaxIndex
       THEN Fails(b)
       ELSE stage' = [stage EXCEPT ![b] = "derive"] /\ UNCHANGED failure
    /\ UNCHANGED <<todo, current, broken, nextIndex, consecutiveUnused, record, network>>

InBatch(b) == nextIndex[b] .. nextIndex[b] + Size(b) - 1

\* settleAll: every address of the batch has settled.
Scanned(b) ==
    LET used == {i \in InBatch(b) : record[<<b, i>>] = "used"}
    IN  /\ stage[b] = "batch" /\ current[b] = {}
        /\ IF broken[b] THEN Fails(b) /\ UNCHANGED <<nextIndex, consecutiveUnused>>
           ELSE /\ stage' = [stage EXCEPT ![b] = "decide"]
                /\ nextIndex' = [nextIndex EXCEPT ![b] = @ + Size(b)]
                /\ consecutiveUnused' =
                     [consecutiveUnused EXCEPT ![b] =
                        IF used = {} THEN @ + Size(b)
                        ELSE Cardinality({i \in InBatch(b) : \A u \in used : u < i})]
                /\ UNCHANGED failure
        /\ UNCHANGED <<todo, current, broken, record, network>>

BranchReady(b) ==
    \/ stage[b] = "decide"
    \/ stage[b] = "batch" /\ current[b] = {}
    \/ /\ stage[b] = "refresh"
       /\ \/ ~broken[b] /\ todo[b] # <<>> /\ Cardinality(current[b]) < Workers
          \/ (broken[b] \/ todo[b] = <<>>) /\ current[b] = {}

BranchStep(b) ==
    /\ WorkerTakes(b) \/ Refreshed(b) \/ Decide(b) \/ Scanned(b)
    /\ UNCHANGED <<chain, aborted, outcome, start, events>>

\* All branches have settled: the snapshot, or the error.
Over == \A b \in Branch : stage[b] \in {"done", "failed"}

\* Mutant of Settle: the control is not asked once more.
Settle_Unchecked ==
    /\ outcome = "running" /\ Over
    /\ outcome' = IF \E b \in Branch : stage[b] = "failed" THEN "failed" ELSE "snapshot"
    /\ UNCHANGED <<chain, branches, network, control, start, events>>

Settle ==
    /\ outcome = "running" /\ Over
    /\ outcome' = IF Stopped THEN "failed" ELSE "snapshot"
    /\ UNCHANGED <<chain, branches, network, control, start, events>>

Quiet ==
    /\ \A a \in Address : ~AddressReady(a)
    /\ \A b \in Branch : ~BranchReady(b)
    /\ Over => outcome # "running"

(***************************************************************************)
(* What arrives from outside                                               *)
(***************************************************************************)
meanwhile == <<branches, failure, outcome, start>>

Happens == events < MaxEvents /\ events' = events + 1

\* The server's word on an address.
Says(x) == IF x[2] = "history" THEN chain[x[1]] # "fresh" ELSE chain[x[1]] = "funded"

\* Mutants of Ends: the slot is given back twice; nothing is drained.
Ends_Twice(x, ended) ==
    Drained([read EXCEPT ![x] = ended], limiter.queue, limiter.active - 2)

Ends_Undrained(x, ended) ==
    /\ read' = [read EXCEPT ![x] = ended]
    /\ limiter' = [limiter EXCEPT !.active = @ - 1]

\* A read ends: its slot goes to the next in the queue before its own caller
\* goes on.
Ends(x, ended) == Drained([read EXCEPT ![x] = ended], limiter.queue, limiter.active - 1)

Answer(x) ==
    /\ Quiet /\ read[x].stage = "flight"
    /\ Ends(x, [stage |-> "done", attempt |-> read[x].attempt, value |-> Says(x)])
    /\ UNCHANGED <<meanwhile, chain, aborted, events>>

\* A refusal, a malformed answer or a timeout; or a session that is lost.
ReadFails(x) ==
    /\ Quiet /\ read[x].stage = "flight"
    /\ Happens
    /\ \E how \in {IF read[x].attempt < MaxAttempts THEN "waiting" ELSE "failed", "fatal"} :
         Ends(x, [read[x] EXCEPT !.stage = how])
    /\ UNCHANGED <<meanwhile, chain, aborted>>

\* The delay before a retry is over.
Retry(x) ==
    /\ Quiet /\ read[x].stage = "waiting"
    /\ IF Stopped
       THEN read' = [read EXCEPT ![x].stage = "fatal"] /\ UNCHANGED limiter
       ELSE Ask(<<x>>)
    /\ UNCHANGED <<meanwhile, chain, aborted, events>>

\* The worker derives the addresses of a batch, or fails.
Derive(b) ==
    /\ Quiet /\ stage[b] = "derive"
    /\ IF Stopped
       THEN Fails(b)
            /\ UNCHANGED <<current, network, events>>
       ELSE \/ /\ stage' = [stage EXCEPT ![b] = "batch"]
               /\ current' = [current EXCEPT ![b] = On(b, InBatch(b))]
               /\ Ask(Opening([n \in 1 .. Size(b) |-> <<b, nextIndex[b] + n - 1>>]))
               /\ UNCHANGED <<failure, events>>
            \/ /\ Happens
               /\ Fails(b) /\ UNCHANGED <<current, network>>
    /\ UNCHANGED <<chain, todo, broken, nextIndex, consecutiveUnused, record,
                   aborted, outcome, start>>

\* The controller aborts the scan of a session that ends: reads that wait for
\* a retry give up.
Abort ==
    /\ Quiet /\ outcome = "running" /\ ~aborted
    /\ Happens
    /\ aborted' = TRUE
    /\ read' = [x \in Read |-> IF read[x].stage = "waiting"
                               THEN [read[x] EXCEPT !.stage = "fatal"] ELSE read[x]]
    /\ UNCHANGED <<meanwhile, limiter, chain>>

\* A payment to the wallet, or a spend of another device of its owner.
Moves(a) ==
    /\ Quiet /\ outcome = "running"
    /\ Happens
    /\ chain' = [chain EXCEPT ![a] = IF @ = "funded" THEN "spent" ELSE "funded"]
    /\ UNCHANGED <<meanwhile, network, aborted>>

(***************************************************************************)
(* The specification                                                       *)
(***************************************************************************)
Progress ==
    \/ \E a \in Address : AddressStep(a)
    \/ \E b \in Branch : BranchStep(b) \/ Derive(b)
    \/ Settle
    \/ \E x \in Read : Answer(x) \/ Retry(x)

Next ==
    \/ Progress \/ Abort
    \/ \E x \in Read : ReadFails(x)
    \/ \E a \in Address : Moves(a)

Spec == Init /\ [][Next]_vars

\* Every read ends, by its answer or by the timeout of the client, every timer
\* fires, the worker answers and the event loop goes on.
FairSpec == Spec /\ WF_vars(Progress)

(***************************************************************************)
(* Properties                                                              *)
(***************************************************************************)
\* The gap rule of a wallet whose addresses used were the used ones: the scan
\* of the branch does not stop before index i.
Reached(used, i) == \A n \in Gap .. i : \E k \in n - Gap .. n - 1 : k \in used

\* A snapshot proves discovery: every address with a transaction when the scan
\* began, however small its balance, that the gap rule reaches or that was
\* recovered before, is found used, and every index given out was read,
\* whatever moved meanwhile and whichever reads were repeated
\* (transparentScan.ts:863-1020; "The initial HD synchronization proves address
\* discovery", ARCHITECTURE.md:21).
Discovered ==
    outcome = "snapshot" =>
        \A b \in Branch :
            LET used == {i \in Index : start.chain[<<b, i>>] # "fresh"}
            IN  /\ \A i \in used : Reached(used, i) \/ <<b, i>> \in start.used
                                    => record[<<b, i>>] = "used"
                /\ \A i \in Index : i < Issued[b] => record[<<b, i>>] # "none"

\* Slots are given back by answers, failures and refused tasks alike, and none
\* is free while a read waits for one (concurrency.ts:24-41).
SlotsKept ==
    /\ limiter.active = Cardinality(InFlight)
    /\ limiter.queue # <<>> => limiter.active = Slots

\* After the first failure, an abort or the end of the scan no read is sent any
\* more and no snapshot comes out, whatever still waits for a slot, for a retry
\* or for the worker (transparentScan.ts:232-242, 1063-1067, 1097).
FailureStops ==
    [][ Stopped \/ outcome # "running" =>
          /\ InFlight' \subseteq InFlight
          /\ outcome' = "snapshot" => outcome = "snapshot" ]_vars

\* The scan settles, and so do the reads it leaves behind
\* (concurrency.ts:31-34, transparentScan.ts:276-283).
ScanSettles == <>(outcome # "running" /\ InFlight = {} /\ limiter.queue = <<>>)
=============================================================================
