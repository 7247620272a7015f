----------------------------- MODULE GapScanProofs -----------------------------
(***************************************************************************)
(* A gap scan proves discovery, gives its slots back and stops at the      *)
(* first failure, for every set of branches, gap limit, batch size, number *)
(* of slots, workers, attempts and addresses, and every chain.  The        *)
(* inductive invariant has two parts: the reads with the limiter, and what *)
(* each branch has still to scan.                                          *)
(***************************************************************************)
EXTENDS GapScan, QueueFacts

(***************************************************************************)
(* The invariant                                                           *)
(***************************************************************************)
ReadRecord == [stage : {"none", "queued", "flight", "waiting", "done", "failed", "fatal"},
               attempt : 0 .. MaxAttempts, value : BOOLEAN]

\* Where a read is that has not been answered.
Unanswered == {"queued", "flight", "waiting", "failed", "fatal"}

InStage(reads, s) == {x \in Read : reads[x].stage = s}

\* The queue and the active slots agree with the reads.
BooksHold(reads, queue, active) ==
    /\ reads \in [Read -> ReadRecord]
    /\ queue \in Seq(Read) /\ NoRepeats(queue) /\ Range(queue) = InStage(reads, "queued")
    /\ active \in 0 .. Slots /\ active = Cardinality(InStage(reads, "flight"))
    /\ \A x \in Read : /\ reads[x].stage = "none" => reads[x].attempt = 0
                       /\ reads[x].stage = "waiting" => reads[x].attempt < MaxAttempts

NetworkHolds ==
    /\ BooksHold(read, limiter.queue, limiter.active)
    /\ limiter.queue # <<>> => limiter.active = Slots

\* A read belongs to an address that is being scanned, or to one that failed.
Placed ==
    \A x \in Read : read[x].stage # "none" => x[1] \in current[x[1][1]] \/ broken[x[1][1]]

\* What the scan found at an address is true of the chain it started from.
Fine(a) ==
    record[a] # "none" /\ (record[a] = "unused" => start.chain[a] = "fresh")

\* The indices a branch has scanned or will scan before it goes on.
Due(b) ==
    {i \in Index : \/ i < nextIndex[b]
                   \/ stage[b] = "batch" /\ i \in InBatch(b)
                   \/ <<b, i>> \in start.used}

Pending(b, i) == broken[b] \/ <<b, i>> \in current[b] \/ <<b, i>> \in Range(todo[b])

BranchHolds(b) ==
    /\ todo[b] \in Seq({b} \X Index) /\ NoRepeats(todo[b])
    /\ Range(todo[b]) \cap current[b] = {}
    /\ stage[b] \in {"decide", "derive", "batch", "done"} => todo[b] = <<>>
    /\ stage[b] \in {"decide", "derive", "done"} => current[b] = {} /\ ~broken[b]
    /\ stage[b] \in {"derive", "batch"} =>
         Size(b) > 0 /\ nextIndex[b] + Size(b) <= MaxIndex + 1
    /\ consecutiveUnused[b] <= nextIndex[b]
    /\ stage[b] = "done" => Trailing(b) >= Gap /\ Issued[b] <= nextIndex[b]
    /\ stage[b] = "failed" => failure # "none"
    /\ \A i \in Due(b) : Pending(b, i) \/ Fine(<<b, i>>)

\* What the chain has told, and may tell.
Told ==
    \A a \in Address :
        /\ start.chain[a] # "fresh" => chain[a] # "fresh"
        /\ start.chain[a] # "fresh" /\ read[<<a, "history">>].stage = "done"
             => read[<<a, "history">>].value

OutcomeHolds ==
    /\ outcome = "failed" => Stopped
    /\ outcome = "snapshot" => \A b \in Branch : stage[b] = "done"

ScanTypes ==
    /\ start \in Starts /\ chain \in [Address -> State]
    /\ stage \in [Branch -> {"refresh", "decide", "derive", "batch", "done", "failed"}]
    /\ todo \in [Branch -> Seq(Address)]
    /\ current \in [Branch -> SUBSET Address] /\ \A b \in Branch : current[b] \subseteq {b} \X Index
    /\ broken \in [Branch -> BOOLEAN]
    /\ nextIndex \in [Branch -> 0 .. MaxIndex + 1]
    /\ consecutiveUnused \in [Branch -> 0 .. MaxIndex + 1]
    /\ record \in [Address -> {"none", "unused", "used"}]
    /\ failure \in {"none", "read", "fatal"} /\ aborted \in BOOLEAN
    /\ outcome \in {"running", "failed", "snapshot"}

IInv ==
    /\ ScanTypes /\ NetworkHolds /\ Placed /\ Told /\ OutcomeHolds
    /\ \A b \in Branch : BranchHolds(b)

(***************************************************************************)
(* Numbers and addresses                                                   *)
(***************************************************************************)
LEMMA ConstantFacts ==
    /\ IsFiniteSet(Branch) /\ Gap \in Nat /\ Gap > 0 /\ Batch \in Nat /\ Batch > 0
    /\ Slots \in Nat /\ Slots > 0 /\ Workers \in Nat /\ MaxAttempts \in Nat /\ MaxAttempts > 0
    /\ MaxIndex \in Nat /\ Issued \in [Branch -> 0 .. MaxIndex + 1] /\ Starts \subseteq Start
BY ScanAssumption

LEMMA MinOfTwo ==
    ASSUME NEW m \in Int, NEW n \in Int
    PROVE  Min({m, n}) = IF m <= n THEN m ELSE n
<1>1. \E x \in {m, n} : \A y \in {m, n} : x <= y
  OBVIOUS
<1>2. Min({m, n}) \in {m, n} /\ \A y \in {m, n} : Min({m, n}) <= y
  BY <1>1 DEF Min
<1> QED
  BY <1>2

LEMMA MaxOfTwo ==
    ASSUME NEW m \in Int, NEW n \in Int
    PROVE  Max({m, n}) = IF m >= n THEN m ELSE n
<1>1. \E x \in {m, n} : \A y \in {m, n} : x >= y
  OBVIOUS
<1>2. Max({m, n}) \in {m, n} /\ \A y \in {m, n} : Max({m, n}) >= y
  BY <1>1 DEF Max
<1> QED
  BY <1>2

LEMMA ReadsFinite ==
    ASSUME NEW R \in SUBSET Read
    PROVE  IsFiniteSet(R) /\ Cardinality(R) \in Nat
<1>1. IsFiniteSet(Index) /\ IsFiniteSet(Kind)
  <2>1. IsFiniteSet(Index)
    BY ConstantFacts, FS_Interval DEF Index
  <2>2. IsFiniteSet({"history"}) /\ IsFiniteSet({"history"} \cup {"balance"})
    BY FS_Singleton, FS_AddElement
  <2>3. IsFiniteSet(({"history"} \cup {"balance"}) \cup {"utxos"})
    BY <2>2, FS_AddElement
  <2>4. Kind = ({"history"} \cup {"balance"}) \cup {"utxos"}
    BY DEF Kind
  <2> QED
    BY <2>1, <2>3, <2>4
<1>2. IsFiniteSet(Address)
  BY <1>1, ConstantFacts, FS_Product DEF Address
<1>3. IsFiniteSet(Read)
  BY <1>1, <1>2, FS_Product DEF Read
<1> QED
  BY <1>3, FS_Subset, FS_CardinalityType

LEMMA SizeFacts ==
    ASSUME ScanTypes, NEW b \in Branch
    PROVE  /\ nextIndex[b] \in Nat /\ consecutiveUnused[b] \in Nat /\ Issued[b] \in Nat
           /\ nextIndex[b] <= MaxIndex + 1 /\ Issued[b] <= MaxIndex + 1
           /\ Size(b) \in Nat
           /\ Size(b) = 0 => Gap <= consecutiveUnused[b] /\ Issued[b] <= nextIndex[b]
<1>1. /\ nextIndex[b] \in Nat /\ consecutiveUnused[b] \in Nat /\ Issued[b] \in Nat
      /\ nextIndex[b] <= MaxIndex + 1 /\ Issued[b] <= MaxIndex + 1
  BY ConstantFacts DEF ScanTypes
<1> DEFINE g == Missing(Gap, consecutiveUnused[b])
           i == Missing(Issued[b], nextIndex[b])
           m == Max({g, i})
<1>2. g \in Nat /\ i \in Nat
  BY <1>1, ConstantFacts DEF Missing
<1> HIDE DEF g, i
<1>3. m \in Nat /\ (m = 0 => g = 0 /\ i = 0)
  BY <1>2, MaxOfTwo
<1> HIDE DEF m
<1>4. Min({Batch, m}) = IF Batch <= m THEN Batch ELSE m
  BY <1>3, ConstantFacts, MinOfTwo
<1>5. Size(b) = Min({Batch, m})
  BY DEF Size, m, g, i
<1>6. Size(b) \in Nat /\ (Size(b) = 0 => g = 0 /\ i = 0)
  BY <1>3, <1>4, <1>5, ConstantFacts
<1>7. /\ g = 0 => Gap <= consecutiveUnused[b]
      /\ i = 0 => Issued[b] <= nextIndex[b]
  BY <1>1, ConstantFacts DEF g, i, Missing
<1> QED
  BY <1>1, <1>6, <1>7

(***************************************************************************)
(* The limiter                                                             *)
(***************************************************************************)
LEMMA RefusedFacts ==
    ASSUME NEW r \in ReadRecord
    PROVE  /\ Refused(r) \in ReadRecord /\ Refused(r).stage \in {"waiting", "failed", "fatal"}
           /\ Refused(r).stage = "waiting" => Refused(r).attempt < MaxAttempts
<1>1. PICK s \in {"waiting", "failed", "fatal"} :
        Refused(r) = [r EXCEPT !.stage = s] /\ (s = "waiting" => r.attempt < MaxAttempts)
  BY DEF Refused
<1> QED
  BY <1>1 DEF ReadRecord

LEMMA SentFacts ==
    ASSUME NEW r \in ReadRecord
    PROVE  [r EXCEPT !.stage = "flight"] \in ReadRecord /\ [r EXCEPT !.stage = "flight"].stage = "flight"
BY DEF ReadRecord

\* The head of a queue, as the set that gets its turn.
LEMMA TurnFacts ==
    ASSUME NEW queue \in Seq(Read), NoRepeats(queue), NEW n \in 0 .. Len(queue)
    PROVE  LET turn == {queue[k] : k \in 1 .. n}
               rest == SubSeq(queue, n + 1, Len(queue))
           IN  /\ turn \subseteq Read /\ Cardinality(turn) = n
               /\ rest \in Seq(Read) /\ NoRepeats(rest) /\ Len(rest) = Len(queue) - n
               /\ turn \cup Range(rest) = Range(queue) /\ turn \cap Range(rest) = {}
<1> DEFINE turn == {queue[k] : k \in 1 .. n}
           head == SubSeq(queue, 1, n)
           rest == SubSeq(queue, n + 1, Len(queue))
<1>1. head \in Seq(Read) /\ Len(head) = n /\ \A k \in 1 .. n : head[k] = queue[k]
  OBVIOUS
<1>2. Range(head) = {head[k] : k \in 1 .. Len(head)}
  BY <1>1, RangeOfQueue
<1>3. turn = Range(head)
  BY <1>1, <1>2
<1>4. turn \subseteq Read
  OBVIOUS
<1>5. /\ rest \in Seq(Read) /\ NoRepeats(rest) /\ Len(rest) = Len(queue) - n
      /\ Range(head) \cup Range(rest) = Range(queue) /\ Range(head) \cap Range(rest) = {}
      /\ Cardinality(Range(head)) = n
  BY SplitQueue
<1> HIDE DEF turn, head, rest
<1>6. /\ turn \subseteq Read /\ Cardinality(turn) = n
      /\ rest \in Seq(Read) /\ NoRepeats(rest) /\ Len(rest) = Len(queue) - n
      /\ turn \cup Range(rest) = Range(queue) /\ turn \cap Range(rest) = {}
  BY <1>3, <1>4, <1>5
<1> QED
  BY <1>6 DEF turn, rest

\* Draining keeps the books, fills the slots from the head of the queue, and
\* sends nothing once the scan has stopped.
LEMMA DrainBooks ==
    ASSUME NEW reads, NEW queue, NEW active, BooksHold(reads, queue, active),
           Drained(reads, queue, active)
    PROVE  /\ NetworkHolds'
           /\ \A x \in Read : IF x \in Range(queue) THEN read'[x].stage \in Unanswered
                              ELSE read'[x] = reads[x]
           /\ Stopped => InStage(read', "flight") = InStage(reads, "flight")
<1> DEFINE free == Slots - active
           n == IF Stopped /\ free > 0 THEN Len(queue) ELSE Min({free, Len(queue)})
           turn == {queue[k] : k \in 1 .. n}
           rest == SubSeq(queue, n + 1, Len(queue))
<1>1. /\ Len(queue) \in Nat /\ free \in Nat /\ active \in Nat
      /\ Min({free, Len(queue)}) = IF free <= Len(queue) THEN free ELSE Len(queue)
  BY ConstantFacts, MinOfTwo DEF BooksHold
<1>2. /\ n \in 0 .. Len(queue)
      /\ ~Stopped => n <= free /\ (n = Len(queue) \/ n = free)
      /\ Stopped => n = IF free > 0 THEN Len(queue) ELSE 0
  BY <1>1
<1>3. /\ \A x \in Read : read'[x] = IF x \notin turn THEN reads[x]
                                    ELSE IF Stopped THEN Refused(reads[x])
                                    ELSE [reads[x] EXCEPT !.stage = "flight"]
      /\ DOMAIN read' = Read
      /\ read' = [x \in Read |-> read'[x]]
      /\ limiter'.queue = rest
      /\ limiter'.active = IF Stopped THEN active ELSE active + n
  BY DEF Drained, Drain
<1> HIDE DEF n
<1>4. /\ turn \subseteq Read /\ Cardinality(turn) = n
      /\ rest \in Seq(Read) /\ NoRepeats(rest) /\ Len(rest) = Len(queue) - n
      /\ turn \cup Range(rest) = Range(queue) /\ turn \cap Range(rest) = {}
  BY <1>2, TurnFacts DEF BooksHold
<1> HIDE DEF turn, rest
<1>5. \A x \in Read : reads[x] \in ReadRecord
  BY DEF BooksHold
<1>6. \A x \in Read : /\ read'[x] \in ReadRecord
                      /\ x \in turn => read'[x].stage \in {"flight", "waiting", "failed", "fatal"}
                      /\ x \in turn => (read'[x].stage = "flight" <=> ~Stopped)
                      /\ x \in turn /\ read'[x].stage = "waiting" => read'[x].attempt < MaxAttempts
  <2> TAKE x \in Read
  <2>1. CASE x \notin turn
    BY <1>3, <1>5, <2>1
  <2>2. CASE x \in turn /\ Stopped
    BY <1>3, <1>5, <2>2, RefusedFacts
  <2>3. CASE x \in turn /\ ~Stopped
    <3>1. read'[x] = [reads[x] EXCEPT !.stage = "flight"]
      BY <1>3, <2>3
    <3>2. read'[x] \in ReadRecord /\ read'[x].stage = "flight"
      BY <1>5, <3>1, SentFacts
    <3> QED
      BY <2>3, <3>2
  <2> QED
    BY <2>1, <2>2, <2>3
<1>7. \A x \in turn : reads[x].stage = "queued"
  BY <1>4 DEF BooksHold, InStage
<1>8. InStage(read', "queued") = Range(rest)
  BY <1>3, <1>4, <1>6, <1>7 DEF BooksHold, InStage
<1>9. InStage(read', "flight") = IF Stopped THEN InStage(reads, "flight")
                                 ELSE InStage(reads, "flight") \cup turn
  BY <1>3, <1>4, <1>6, <1>7 DEF InStage
<1>10. InStage(reads, "flight") \cap turn = {}
  BY <1>7 DEF InStage
<1>11. limiter'.active = Cardinality(InStage(read', "flight"))
  <2>1. CASE Stopped
    BY <1>3, <1>9, <2>1 DEF BooksHold
  <2>2. CASE ~Stopped
    <3>1. IsFiniteSet(InStage(reads, "flight")) /\ IsFiniteSet(turn)
      BY <1>4, ReadsFinite DEF InStage
    <3>2. Cardinality(InStage(reads, "flight") \cup turn) =
            Cardinality(InStage(reads, "flight")) + Cardinality(turn)
              - Cardinality(InStage(reads, "flight") \cap turn)
      BY <3>1, FS_Union
    <3>3. Cardinality(InStage(reads, "flight") \cap turn) = 0
      BY <1>10, FS_EmptySet
    <3>4. active = Cardinality(InStage(reads, "flight"))
      BY DEF BooksHold
    <3>5. Cardinality(InStage(reads, "flight") \cup turn) = active + n
      BY <1>1, <1>2, <1>4, <3>2, <3>3, <3>4
    <3> QED
      BY <1>3, <1>9, <2>2, <3>5
  <2> QED
    BY <2>1, <2>2
<1>12. limiter'.active \in 0 .. Slots /\ (Len(rest) > 0 => limiter'.active = Slots)
  BY <1>1, <1>2, <1>3, <1>4, ConstantFacts
<1>13. \A x \in Read : /\ read'[x].stage = "none" => read'[x].attempt = 0
                       /\ read'[x].stage = "waiting" => read'[x].attempt < MaxAttempts
  BY <1>3, <1>6 DEF BooksHold
<1>14. rest # <<>> => Len(rest) > 0
  BY <1>4
<1>15. NetworkHolds'
  <2>1. read' \in [Read -> ReadRecord]
    BY <1>3, <1>6
  <2>2. BooksHold(read', limiter'.queue, limiter'.active)
    BY <1>3, <1>4, <1>8, <1>11, <1>12, <1>13, <2>1 DEF BooksHold
  <2> QED
    BY <1>3, <1>12, <1>14, <2>2 DEF NetworkHolds
<1>16. \A x \in Read : IF x \in Range(queue) THEN read'[x].stage \in Unanswered
                       ELSE read'[x] = reads[x]
  BY <1>3, <1>4, <1>6, <1>8 DEF InStage, Unanswered
<1> QED
  BY <1>9, <1>15, <1>16

\* A read that was not asked for stays, or waits in another way.
Kept(x) ==
    \/ read'[x] = read[x]
    \/ read[x].stage \in Unanswered /\ read'[x].stage \in Unanswered

LEMMA AskFacts ==
    ASSUME NetworkHolds, NEW q \in Seq(Read), NoRepeats(q),
           \A x \in Range(q) : read[x].stage \in {"none", "waiting"}, Ask(q)
    PROVE  /\ NetworkHolds'
           /\ \A x \in Read : IF x \in Range(q) THEN read'[x].stage \in Unanswered ELSE Kept(x)
           /\ Stopped => InStage(read', "flight") = InStage(read, "flight")
<1> DEFINE reads == [x \in Read |-> IF x \in Range(q)
                                    THEN [stage |-> "queued", attempt |-> read[x].attempt + 1,
                                          value |-> FALSE]
                                    ELSE read[x]]
           queue == limiter.queue \o q
<1>1. Drained(reads, queue, limiter.active)
  BY DEF Ask
<1>2. /\ limiter.queue \in Seq(Read) /\ NoRepeats(limiter.queue)
      /\ Range(limiter.queue) = InStage(read, "queued")
      /\ \A x \in Read : read[x] \in ReadRecord
      /\ Range(q) \subseteq Read
  BY QueueType DEF NetworkHolds, BooksHold
<1>3. Range(limiter.queue) \cap Range(q) = {}
  BY <1>2 DEF InStage
<1>4. /\ queue \in Seq(Read) /\ NoRepeats(queue)
      /\ Range(queue) = InStage(read, "queued") \cup Range(q)
  BY <1>2, <1>3, ConcatQueue
<1>5. \A x \in Read : reads[x] = IF x \in Range(q)
                                 THEN [stage |-> "queued", attempt |-> read[x].attempt + 1,
                                       value |-> FALSE]
                                 ELSE read[x]
  OBVIOUS
<1>6. reads \in [Read -> ReadRecord]
  <2> SUFFICES ASSUME NEW x \in Read PROVE reads[x] \in ReadRecord
    OBVIOUS
  <2>1. CASE x \in Range(q)
    <3>1. read[x].attempt \in 0 .. MaxAttempts /\ read[x].attempt < MaxAttempts
      BY <1>2, <2>1, ConstantFacts DEF NetworkHolds, BooksHold, ReadRecord
    <3> QED
      BY <2>1, <3>1, ConstantFacts DEF ReadRecord
  <2>2. CASE x \notin Range(q)
    BY <1>2, <2>2
  <2> QED
    BY <2>1, <2>2
<1>s. \A x \in Read : /\ x \in Range(q) => reads[x].stage = "queued"
                      /\ x \in Range(q) => read[x].stage \notin {"queued", "flight"}
                      /\ x \notin Range(q) => reads[x] = read[x]
  BY <1>5
<1> HIDE DEF reads, queue
<1>7. InStage(reads, "queued") = Range(queue)
  <2>1. \A x \in Read : reads[x].stage = "queued" <=>
                          x \in Range(q) \/ read[x].stage = "queued"
    BY <1>s
  <2>2. InStage(reads, "queued") = InStage(read, "queued") \cup Range(q)
    BY <1>2, <2>1 DEF InStage
  <2> QED
    BY <1>4, <2>2
<1>8. InStage(reads, "flight") = InStage(read, "flight")
  <2>1. \A x \in Read : reads[x].stage = "flight" <=> read[x].stage = "flight"
    BY <1>s
  <2> QED
    BY <2>1 DEF InStage
<1>9. BooksHold(reads, queue, limiter.active)
  BY <1>4, <1>5, <1>6, <1>7, <1>8 DEF NetworkHolds, BooksHold
<1>10. /\ NetworkHolds'
       /\ \A x \in Read : IF x \in Range(queue) THEN read'[x].stage \in Unanswered
                          ELSE read'[x] = reads[x]
       /\ Stopped => InStage(read', "flight") = InStage(reads, "flight")
  BY <1>1, <1>9, DrainBooks
<1>11. \A x \in Read : IF x \in Range(q) THEN read'[x].stage \in Unanswered ELSE Kept(x)
  <2> TAKE x \in Read
  <2>1. CASE x \in Range(q)
    BY <1>4, <1>10, <2>1
  <2>2. CASE x \notin Range(q) /\ x \in Range(queue)
    <3>1. read[x].stage = "queued"
      BY <1>4, <2>2 DEF InStage
    <3> QED
      BY <1>10, <2>2, <3>1 DEF Kept, Unanswered
  <2>3. CASE x \notin Range(q) /\ x \notin Range(queue)
    <3>1. read'[x] = reads[x]
      BY <1>10, <2>3
    <3>2. reads[x] = read[x]
      BY <1>s, <2>3
    <3> QED
      BY <2>3, <3>1, <3>2 DEF Kept
  <2> QED
    BY <2>1, <2>2, <2>3
<1> QED
  BY <1>8, <1>10, <1>11

LEMMA EndsFacts ==
    ASSUME NetworkHolds, NEW x \in Read, read[x].stage = "flight",
           NEW ended \in ReadRecord, ended.stage \in {"done", "waiting", "failed", "fatal"},
           ended.stage = "waiting" => ended.attempt < MaxAttempts,
           Ends(x, ended)
    PROVE  /\ NetworkHolds'
           /\ read'[x] = ended
           /\ \A y \in Read : y # x => Kept(y)
           /\ Stopped => InStage(read', "flight") \subseteq InStage(read, "flight")
<1> DEFINE reads == [read EXCEPT ![x] = ended]
<1>1. Drained(reads, limiter.queue, limiter.active - 1)
  BY DEF Ends
<1>2. /\ read \in [Read -> ReadRecord]
      /\ limiter.queue \in Seq(Read) /\ NoRepeats(limiter.queue)
      /\ Range(limiter.queue) = InStage(read, "queued")
      /\ limiter.active \in 0 .. Slots
      /\ limiter.active = Cardinality(InStage(read, "flight"))
  BY DEF NetworkHolds, BooksHold
<1>3. /\ reads \in [Read -> ReadRecord] /\ reads[x] = ended
      /\ \A y \in Read : y # x => reads[y] = read[y]
  BY <1>2
<1> HIDE DEF reads
<1>4. /\ InStage(reads, "queued") = InStage(read, "queued")
      /\ InStage(reads, "flight") = InStage(read, "flight") \ {x}
      /\ x \in InStage(read, "flight")
  BY <1>3 DEF InStage
<1>5. IsFiniteSet(InStage(read, "flight"))
  BY ReadsFinite DEF InStage
<1>6. /\ Cardinality(InStage(reads, "flight")) = limiter.active - 1
      /\ Cardinality(InStage(reads, "flight")) \in Nat
  BY <1>2, <1>4, <1>5, FS_RemoveElement, ReadsFinite DEF InStage
<1>7. limiter.active - 1 \in 0 .. Slots
  BY <1>2, <1>6, ConstantFacts
<1>8. BooksHold(reads, limiter.queue, limiter.active - 1)
  BY <1>2, <1>3, <1>4, <1>6, <1>7 DEF NetworkHolds, BooksHold
<1>9. /\ NetworkHolds'
      /\ \A y \in Read : IF y \in Range(limiter.queue) THEN read'[y].stage \in Unanswered
                         ELSE read'[y] = reads[y]
      /\ Stopped => InStage(read', "flight") = InStage(reads, "flight")
  BY <1>1, <1>8, DrainBooks
<1>10. /\ read'[x] = ended
       /\ \A y \in Read : y # x => Kept(y)
  <2>1. x \notin Range(limiter.queue)
    BY <1>2 DEF InStage
  <2>2. read'[x] = ended
    BY <1>3, <1>9, <2>1
  <2>3. ASSUME NEW y \in Read, y # x, y \in Range(limiter.queue) PROVE Kept(y)
    <3>1. read[y].stage = "queued"
      BY <1>2, <2>3 DEF InStage
    <3> QED
      BY <1>9, <2>3, <3>1 DEF Kept, Unanswered
  <2>4. ASSUME NEW y \in Read, y # x, y \notin Range(limiter.queue) PROVE Kept(y)
    <3>1. read'[y] = reads[y]
      BY <1>9, <2>4
    <3>2. reads[y] = read[y]
      BY <1>3, <2>4
    <3> QED
      BY <3>1, <3>2 DEF Kept
  <2> QED
    BY <2>2, <2>3, <2>4
<1> QED
  BY <1>4, <1>9, <1>10

LEMMA OpeningFacts ==
    ASSUME NEW q \in Seq(Address), NoRepeats(q)
    PROVE  /\ Opening(q) \in Seq(Read) /\ NoRepeats(Opening(q))
           /\ Range(Opening(q)) \subseteq Range(q) \X {"history", "balance"}
<1> DEFINE at(n) == (n + 1) \div 2
           kind(n) == IF n % 2 = 1 THEN "history" ELSE "balance"
<1>1. Len(q) \in Nat /\ \A k \in 1 .. Len(q) : q[k] \in Address
  OBVIOUS
<1>2. \A n \in 1 .. 2 * Len(q) : at(n) \in 1 .. Len(q) /\ n % 2 \in {0, 1}
                                 /\ n = 2 * at(n) - (n % 2)
  BY <1>1
<1> HIDE DEF at
<1>3. \A n \in 1 .. 2 * Len(q) : <<q[at(n)], kind(n)>> \in Read
  BY <1>1, <1>2 DEF Read, Kind
<1>4. Opening(q) = [n \in 1 .. 2 * Len(q) |-> <<q[at(n)], kind(n)>>]
  BY DEF Opening, at
<1>5. 2 * Len(q) \in Nat
  BY <1>1
<1>6. Opening(q) \in Seq(Read) /\ Len(Opening(q)) = 2 * Len(q)
      /\ \A n \in 1 .. 2 * Len(q) : Opening(q)[n] = <<q[at(n)], kind(n)>>
  BY <1>3, <1>4, <1>5
<1>7. NoRepeats(Opening(q))
  <2>1. ASSUME NEW m \in 1 .. 2 * Len(q), NEW n \in 1 .. 2 * Len(q),
               <<q[at(m)], kind(m)>> = <<q[at(n)], kind(n)>>
        PROVE  m = n
    <3>1. q[at(m)] = q[at(n)] /\ kind(m) = kind(n)
      BY <2>1
    <3>2. at(m) = at(n)
      BY <1>2, <3>1 DEF NoRepeats
    <3>3. m % 2 = n % 2
      BY <1>2, <3>1
    <3> HIDE DEF kind
    <3>4. m = 2 * at(m) - (m % 2) /\ n = 2 * at(n) - (n % 2)
      BY <1>2
    <3> QED
      BY <3>2, <3>3, <3>4
  <2> HIDE DEF kind
  <2> QED
    BY <1>6, <2>1 DEF NoRepeats
<1>8. Range(q) = {q[k] : k \in 1 .. Len(q)}
      /\ Range(Opening(q)) = {Opening(q)[n] : n \in 1 .. 2 * Len(q)}
  BY <1>6, RangeOfQueue
<1>9. \A n \in 1 .. 2 * Len(q) : Opening(q)[n] \in Range(q) \X {"history", "balance"}
  <2> TAKE n \in 1 .. 2 * Len(q)
  <2>1. q[at(n)] \in Range(q) /\ kind(n) \in {"history", "balance"}
    BY <1>2, <1>8
  <2>2. Opening(q)[n] = <<q[at(n)], kind(n)>>
    BY <1>6
  <2> HIDE DEF kind
  <2> QED
    BY <2>1, <2>2
<1> QED
  BY <1>6, <1>7, <1>8, <1>9

(***************************************************************************)
(* A branch                                                                *)
(***************************************************************************)
LEMMA TrailingFacts ==
    ASSUME ScanTypes, NEW b \in Branch
    PROVE  Trailing(b) \in 0 .. nextIndex[b]
<1> DEFINE T == {i \in 0 .. nextIndex[b] - 1 :
                    \A j \in i .. nextIndex[b] - 1 : record[<<b, j>>] = "unused"}
<1>1. nextIndex[b] \in Nat
  BY SizeFacts
<1>2. T \subseteq 0 .. nextIndex[b] - 1
  OBVIOUS
<1> HIDE DEF T
<1>3. IsFiniteSet(0 .. nextIndex[b] - 1) /\ Cardinality(0 .. nextIndex[b] - 1) = nextIndex[b]
  BY <1>1, FS_Interval
<1>4. IsFiniteSet(T) /\ Cardinality(T) <= nextIndex[b]
  BY <1>2, <1>3, FS_Subset
<1>5. Cardinality(T) \in 0 .. nextIndex[b]
  BY <1>1, <1>4, FS_CardinalityType
<1> QED
  BY <1>5 DEF Trailing, T

\* A branch that nothing happened to.
LEMMA BranchSame ==
    ASSUME ScanTypes, NEW b \in Branch, BranchHolds(b),
           stage'[b] = stage[b], todo'[b] = todo[b], current'[b] = current[b],
           broken'[b] = broken[b], nextIndex'[b] = nextIndex[b],
           consecutiveUnused'[b] = consecutiveUnused[b],
           \A i \in Index : record'[<<b, i>>] = record[<<b, i>>],
           start' = start, failure # "none" => failure' # "none"
    PROVE  BranchHolds(b)'
<1>1. nextIndex[b] \in Nat /\ nextIndex[b] <= MaxIndex + 1 /\ MaxIndex \in Nat
  BY SizeFacts, ConstantFacts
<1>2. Size(b)' = Size(b)
  BY DEF Size
<1>3. Trailing(b)' = Trailing(b)
  <2>1. \A j \in 0 .. nextIndex[b] - 1 : j \in Index
    BY <1>1 DEF Index
  <2>2. \A i \in 0 .. nextIndex[b] - 1 :
          (\A j \in i .. nextIndex[b] - 1 : record'[<<b, j>>] = "unused") <=>
          (\A j \in i .. nextIndex[b] - 1 : record[<<b, j>>] = "unused")
    BY <1>1, <2>1
  <2> QED
    BY <2>2 DEF Trailing
<1>4. InBatch(b)' = InBatch(b)
  BY <1>2 DEF InBatch
<1>5. Due(b)' = Due(b)
  BY <1>4 DEF Due
<1>6. \A i \in Index : /\ Pending(b, i)' <=> Pending(b, i)
                       /\ Fine(<<b, i>>)' <=> Fine(<<b, i>>)
  BY DEF Pending, Fine
<1>7. Due(b) \subseteq Index
  BY DEF Due
<1>8. \A i \in Due(b)' : Pending(b, i)' \/ Fine(<<b, i>>)'
  BY <1>5, <1>6, <1>7 DEF BranchHolds
<1> QED
  BY <1>2, <1>3, <1>8 DEF BranchHolds

\* A branch that fails.
LEMMA BranchFails ==
    ASSUME ScanTypes, NEW b \in Branch, BranchHolds(b),
           stage'[b] = "failed", failure' # "none",
           todo'[b] = todo[b], current'[b] = current[b], broken'[b] = broken[b],
           nextIndex'[b] = nextIndex[b], consecutiveUnused'[b] = consecutiveUnused[b],
           record' = record, start' = start
    PROVE  BranchHolds(b)'
<1>1. Due(b)' \subseteq Due(b) /\ Due(b) \subseteq Index
  BY DEF Due
<1>2. \A i \in Index : /\ Pending(b, i)' <=> Pending(b, i)
                       /\ Fine(<<b, i>>)' <=> Fine(<<b, i>>)
  BY DEF Pending, Fine
<1>3. \A i \in Due(b)' : Pending(b, i)' \/ Fine(<<b, i>>)'
  BY <1>1, <1>2 DEF BranchHolds
<1> QED
  BY <1>3 DEF BranchHolds

\* A branch of which an address has settled: scanned, or failed.
LEMMA BranchLess ==
    ASSUME ScanTypes, NEW b \in Branch, BranchHolds(b),
           NEW i \in Index, <<b, i>> \in current[b],
           stage'[b] = stage[b], todo'[b] = todo[b],
           current'[b] = current[b] \ {<<b, i>>},
           nextIndex'[b] = nextIndex[b], consecutiveUnused'[b] = consecutiveUnused[b],
           \A k \in Index : k # i => record'[<<b, k>>] = record[<<b, k>>],
           start' = start, failure # "none" => failure' # "none",
           \/ broken'[b]
           \/ broken'[b] = broken[b] /\ Fine(<<b, i>>)'
    PROVE  BranchHolds(b)'
<1>1. stage[b] \in {"refresh", "batch", "failed"}
  BY DEF BranchHolds, ScanTypes
<1>2. Size(b)' = Size(b)
  BY DEF Size
<1>3. InBatch(b)' = InBatch(b)
  BY <1>2 DEF InBatch
<1>4. Due(b)' = Due(b) /\ Due(b) \subseteq Index
  BY <1>3 DEF Due
<1>5. \A k \in Due(b)' : Pending(b, k)' \/ Fine(<<b, k>>)'
  <2> SUFFICES ASSUME NEW k \in Due(b) PROVE Pending(b, k)' \/ Fine(<<b, k>>)'
    BY <1>4
  <2>1. CASE broken'[b]
    BY <2>1 DEF Pending
  <2>2. CASE broken'[b] = broken[b] /\ Fine(<<b, i>>)' /\ k = i
    BY <2>2
  <2>3. CASE broken'[b] = broken[b] /\ k # i
    <3>1. k \in Index /\ <<b, k>> # <<b, i>>
      BY <1>4, <2>3
    <3>2. Pending(b, k) \/ Fine(<<b, k>>)
      BY DEF BranchHolds
    <3>3. Pending(b, k) => Pending(b, k)'
      BY <2>3, <3>1 DEF Pending
    <3>4. Fine(<<b, k>>) => Fine(<<b, k>>)'
      BY <2>3, <3>1 DEF Fine
    <3> QED
      BY <3>2, <3>3, <3>4
  <2> QED
    BY <2>1, <2>2, <2>3
<1> QED
  BY <1>1, <1>2, <1>5 DEF BranchHolds

\* A branch of which a worker takes the next address, or finds the scan stopped.
LEMMA BranchTakes ==
    ASSUME ScanTypes, NEW b \in Branch, BranchHolds(b),
           stage[b] = "refresh", todo[b] # <<>>,
           stage'[b] = stage[b], todo'[b] = Tail(todo[b]),
           nextIndex'[b] = nextIndex[b], consecutiveUnused'[b] = consecutiveUnused[b],
           record' = record, start' = start, failure' = failure,
           \/ broken'[b] /\ current'[b] = current[b]
           \/ broken'[b] = broken[b] /\ current'[b] = current[b] \cup {Head(todo[b])}
    PROVE  BranchHolds(b)'
<1>1. /\ Tail(todo[b]) \in Seq({b} \X Index) /\ NoRepeats(Tail(todo[b]))
      /\ Range(todo[b]) = {Head(todo[b])} \cup Range(Tail(todo[b]))
      /\ Head(todo[b]) \notin Range(Tail(todo[b]))
  BY HeadQueue DEF BranchHolds
<1>2. Range(todo'[b]) \cap current'[b] = {}
  BY <1>1 DEF BranchHolds
<1>3. Due(b)' = Due(b)
  BY DEF Due
<1>4. \A i \in Due(b)' : Pending(b, i)' \/ Fine(<<b, i>>)'
  <2> SUFFICES ASSUME NEW i \in Due(b) PROVE Pending(b, i)' \/ Fine(<<b, i>>)'
    BY <1>3
  <2>1. Pending(b, i) => Pending(b, i)'
    BY <1>1 DEF Pending
  <2>2. Fine(<<b, i>>) => Fine(<<b, i>>)'
    BY DEF Fine
  <2> QED
    BY <2>1, <2>2 DEF BranchHolds
<1> QED
  BY <1>1, <1>2, <1>4 DEF BranchHolds

(***************************************************************************)
(* Every step keeps the invariant                                          *)
(***************************************************************************)
\* ... and sends nothing once the scan has stopped.
StepHolds ==
    /\ IInv'
    /\ Stopped => InStage(read', "flight") \subseteq InStage(read, "flight")

LEMMA FailFacts ==
    ASSUME ScanTypes, NEW kind \in {"read", "fatal"}, FailWith(kind)
    PROVE  failure' \in {"read", "fatal"} /\ Stopped'
BY DEF FailWith, ScanTypes, Stopped

LEMMA CauseFacts == Cause \in {"read", "fatal"}
BY DEF Cause

LEMMA AddressParts ==
    ASSUME NEW a \in Address
    PROVE  a[1] \in Branch /\ a[2] \in Index /\ a = <<a[1], a[2]>>
BY DEF Address

LEMMA ReadParts ==
    ASSUME NEW x \in Read
    PROVE  x[1] \in Address /\ x[2] \in Kind /\ x = <<x[1], x[2]>>
BY DEF Read

LEMMA RejectKeeps ==
    ASSUME IInv, NEW a \in Address, a \in current[a[1]], Reject(a),
           UNCHANGED <<chain, stage, todo, nextIndex, consecutiveUnused, aborted,
                       outcome, start, events>>
    PROVE  StepHolds
<1> DEFINE b == a[1]
<1>1. b \in Branch /\ a[2] \in Index /\ a = <<b, a[2]>>
  BY AddressParts
<1>2. failure' \in {"read", "fatal"} /\ Stopped'
  <2>1. PICK kind \in {"read", "fatal"} : FailWith(kind)
    BY CauseFacts DEF Reject
  <2> QED
    BY <2>1, FailFacts DEF IInv
<1>3. /\ current' = [current EXCEPT ![b] = current[b] \ {a}]
      /\ broken' = [broken EXCEPT ![b] = TRUE]
      /\ record' = record /\ read' = read /\ limiter' = limiter
  BY DEF Reject, Leaves, network
<1> HIDE DEF b
<1>t. ScanTypes
  BY DEF IInv
<1>4. /\ \A c \in Branch : c # b => current'[c] = current[c] /\ broken'[c] = broken[c]
      /\ current'[b] = current[b] \ {a} /\ broken'[b] = TRUE
      /\ current' \in [Branch -> SUBSET Address] /\ broken' \in [Branch -> BOOLEAN]
      /\ \A c \in Branch : current'[c] \subseteq {c} \X Index
  BY <1>1, <1>3, <1>t DEF ScanTypes
<1>5. ScanTypes'
  BY <1>2, <1>3, <1>4, <1>t DEF ScanTypes
<1>6. NetworkHolds'
  BY <1>3 DEF IInv, NetworkHolds
<1>7. Placed'
  <2> SUFFICES ASSUME NEW x \in Read, read[x].stage # "none"
               PROVE  x[1] \in current'[x[1][1]] \/ broken'[x[1][1]]
    BY <1>3 DEF Placed
  <2>1. x[1] \in Address /\ x[1][1] \in Branch
    BY ReadParts, AddressParts
  <2>2. x[1] \in current[x[1][1]] \/ broken[x[1][1]]
    BY DEF IInv, Placed
  <2> QED
    BY <1>4, <2>1, <2>2
<1>8. Told' /\ OutcomeHolds'
  BY <1>2, <1>3 DEF IInv, Told, OutcomeHolds
<1>9. ASSUME NEW c \in Branch PROVE BranchHolds(c)'
  <2>1. BranchHolds(c)
    BY DEF IInv
  <2>2. CASE c = b
    <3>1. \A k \in Index : record'[<<c, k>>] = record[<<c, k>>]
      BY <1>3
    <3>2. <<c, a[2]>> \in current[c] /\ current'[c] = current[c] \ {<<c, a[2]>>}
      BY <1>1, <1>4, <2>2 DEF b
    <3>3. broken'[c] /\ failure' # "none"
      BY <1>2, <1>4, <2>2
    <3> QED
      BY <1>1, <1>t, <2>1, <3>1, <3>2, <3>3, BranchLess
  <2>3. CASE c # b
    BY <1>2, <1>3, <1>4, <1>t, <2>1, <2>3, BranchSame
  <2> QED
    BY <2>2, <2>3
<1> QED
  BY <1>3, <1>5, <1>6, <1>7, <1>8, <1>9 DEF IInv, StepHolds

LEMMA ResolveKeeps ==
    ASSUME IInv, NEW a \in Address, a \in current[a[1]],
           \A kind \in Kind : read[<<a, kind>>].stage \notin {"queued", "flight"},
           NEW found \in {"unused", "used"}, found = "unused" => start.chain[a] = "fresh",
           Resolve(a, found),
           UNCHANGED <<chain, stage, todo, nextIndex, consecutiveUnused, aborted,
                       outcome, start, events>>
    PROVE  StepHolds
<1> DEFINE b == a[1]
<1>1. b \in Branch /\ a[2] \in Index /\ a = <<b, a[2]>>
  BY AddressParts
<1>3. /\ current' = [current EXCEPT ![b] = current[b] \ {a}]
      /\ record' = [record EXCEPT ![a] = found]
      /\ read' = [x \in Read |-> IF x[1] = a THEN Unread ELSE read[x]]
      /\ broken' = broken /\ failure' = failure /\ limiter' = limiter
  BY DEF Resolve, Leaves
<1> HIDE DEF b
<1>t. ScanTypes
  BY DEF IInv
<1>4. /\ \A c \in Branch : c # b => current'[c] = current[c]
      /\ current'[b] = current[b] \ {a}
      /\ current' \in [Branch -> SUBSET Address]
      /\ \A c \in Branch : current'[c] \subseteq {c} \X Index
  BY <1>1, <1>3, <1>t DEF ScanTypes
<1>r. /\ record' \in [Address -> {"none", "unused", "used"}] /\ record'[a] = found
      /\ \A d \in Address : d # a => record'[d] = record[d]
  BY <1>3, <1>t DEF ScanTypes
<1>5. ScanTypes'
  BY <1>3, <1>4, <1>r, <1>t DEF ScanTypes
<1>n. BooksHold(read, limiter.queue, limiter.active)
  BY DEF IInv, NetworkHolds
<1>u. Unread \in ReadRecord /\ Unread.stage = "none" /\ Unread.attempt = 0
  BY ConstantFacts DEF Unread, ReadRecord
<1>v. \A x \in Read : x[1] = a => read[x].stage \notin {"queued", "flight"}
  BY ReadParts
<1>w. \A x \in Read : read'[x] = IF x[1] = a THEN Unread ELSE read[x]
  BY <1>3
<1>6. /\ NetworkHolds' /\ InStage(read', "flight") = InStage(read, "flight")
  <2>1. \A x \in Read : /\ read'[x].stage = "queued" <=> read[x].stage = "queued"
                        /\ read'[x].stage = "flight" <=> read[x].stage = "flight"
    BY <1>u, <1>v, <1>w
  <2>2. InStage(read', "queued") = InStage(read, "queued")
        /\ InStage(read', "flight") = InStage(read, "flight")
    BY <2>1 DEF InStage
  <2>3. read' \in [Read -> ReadRecord]
    BY <1>3, <1>n, <1>u DEF BooksHold
  <2>4. \A x \in Read : /\ read'[x].stage = "none" => read'[x].attempt = 0
                        /\ read'[x].stage = "waiting" => read'[x].attempt < MaxAttempts
    BY <1>n, <1>u, <1>w DEF BooksHold
  <2>5. BooksHold(read', limiter'.queue, limiter'.active)
    BY <1>3, <1>n, <2>2, <2>3, <2>4 DEF BooksHold
  <2> QED
    BY <1>3, <2>2, <2>5 DEF IInv, NetworkHolds
<1>7. Placed'
  <2> SUFFICES ASSUME NEW x \in Read, read'[x].stage # "none"
               PROVE  x[1] \in current'[x[1][1]] \/ broken'[x[1][1]]
    BY DEF Placed
  <2>1. x[1] \in Address /\ x[1][1] \in Branch
    BY ReadParts, AddressParts
  <2>2. x[1] # a /\ read[x].stage # "none"
    BY <1>u, <1>w
  <2>3. x[1] \in current[x[1][1]] \/ broken[x[1][1]]
    BY <2>2 DEF IInv, Placed
  <2> QED
    BY <1>3, <1>4, <2>1, <2>2, <2>3
<1>8. Told'
  <2> SUFFICES ASSUME NEW d \in Address, start.chain[d] # "fresh"
               PROVE  /\ chain[d] # "fresh"
                      /\ read'[<<d, "history">>].stage = "done" => read'[<<d, "history">>].value
    BY DEF Told
  <2>1. <<d, "history">> \in Read
    BY DEF Read, Kind
  <2> QED
    BY <1>u, <1>w, <2>1 DEF IInv, Told
<1>o. OutcomeHolds'
  BY <1>3 DEF IInv, OutcomeHolds, Stopped
<1>9. ASSUME NEW c \in Branch PROVE BranchHolds(c)'
  <2>1. BranchHolds(c)
    BY DEF IInv
  <2>2. CASE c = b
    <3>1. \A k \in Index : k # a[2] => record'[<<c, k>>] = record[<<c, k>>]
      BY <1>1, <1>r, <2>2 DEF Address
    <3>2. Fine(<<c, a[2]>>)'
      BY <1>1, <1>r, <2>2 DEF Fine
    <3>3. <<c, a[2]>> \in current[c] /\ current'[c] = current[c] \ {<<c, a[2]>>}
      BY <1>1, <1>4, <2>2 DEF b
    <3> QED
      BY <1>1, <1>3, <1>t, <2>1, <3>1, <3>2, <3>3, BranchLess
  <2>3. CASE c # b
    <3>1. \A k \in Index : record'[<<c, k>>] = record[<<c, k>>]
      BY <1>1, <1>r, <2>3 DEF Address
    <3> QED
      BY <1>3, <1>4, <1>t, <2>1, <2>3, <3>1, BranchSame
  <2> QED
    BY <2>2, <2>3
<1> QED
  BY <1>5, <1>6, <1>7, <1>8, <1>o, <1>9 DEF IInv, StepHolds

\* What reading leaves as it was: the answers, and the chain they were read from.
LEMMA AskKeeps ==
    ASSUME IInv, NEW q \in Seq(Read), NoRepeats(q),
           \A x \in Range(q) : read[x].stage \in {"none", "waiting"}, Ask(q),
           UNCHANGED <<chain, start>>
    PROVE  /\ NetworkHolds' /\ Told'
           /\ Stopped => InStage(read', "flight") \subseteq InStage(read, "flight")
           /\ \A x \in Read : read'[x].stage # "none" => read[x].stage # "none" \/ x \in Range(q)
<1>1. /\ NetworkHolds'
      /\ \A x \in Read : IF x \in Range(q) THEN read'[x].stage \in Unanswered ELSE Kept(x)
      /\ Stopped => InStage(read', "flight") = InStage(read, "flight")
  BY AskFacts DEF IInv
<1>2. \A x \in Read : read'[x].stage = "done" => read'[x] = read[x]
  BY <1>1 DEF Kept, Unanswered
<1>3. \A x \in Read : read'[x].stage # "none" => read[x].stage # "none" \/ x \in Range(q)
  BY <1>1 DEF Kept, Unanswered
<1>4. Told'
  <2> SUFFICES ASSUME NEW d \in Address, start.chain[d] # "fresh"
               PROVE  /\ chain[d] # "fresh"
                      /\ read'[<<d, "history">>].stage = "done" => read'[<<d, "history">>].value
    BY DEF Told
  <2>1. <<d, "history">> \in Read
    BY DEF Read, Kind
  <2>2. read'[<<d, "history">>].stage = "done" => read'[<<d, "history">>] = read[<<d, "history">>]
    BY <1>2, <2>1
  <2> QED
    BY <2>2 DEF IInv, Told
<1> QED
  BY <1>1, <1>3, <1>4

LEMMA AddressKeeps ==
    ASSUME IInv, NEW a \in Address, AddressStep(a)
    PROVE  StepHolds
<1>1. /\ a \in current[a[1]]
      /\ AnyFailed(a) \/ (Answered(a) /\ read[<<a, "utxos">>].stage \in {"none", "done"})
      /\ UNCHANGED <<chain, stage, todo, nextIndex, consecutiveUnused, aborted,
                     outcome, start, events>>
  BY DEF AddressStep, AddressReady
<1>2. CASE Reject(a)
  BY <1>1, <1>2, RejectKeeps
<1>3. ASSUME NEW found \in {"unused", "used"}, Resolve(a, found), ~AnyFailed(a),
             found = "unused" => ~Used(a)
      PROVE  StepHolds
  <2>1. Answered(a) /\ read[<<a, "utxos">>].stage \in {"none", "done"}
    BY <1>1, <1>3
  <2>2. \A kind \in Kind : read[<<a, kind>>].stage \notin {"queued", "flight"}
    BY <2>1 DEF Answered, Done, Kind
  <2>3. found = "unused" => start.chain[a] = "fresh"
    BY <1>3, <2>1 DEF IInv, Told, Answered, Done, Used, Shows, Value
  <2> QED
    BY <1>1, <1>3, <2>2, <2>3, ResolveKeeps
<1>4. CASE /\ ~AnyFailed(a) /\ ~Done(<<a, "utxos">>)
           /\ Ask(<<<<a, "utxos">>>>) /\ UNCHANGED <<current, broken, record, failure>>
  <2> DEFINE q == <<<<a, "utxos">>>>
  <2>1. <<a, "utxos">> \in Read /\ read[<<a, "utxos">>].stage = "none"
    BY <1>1, <1>4 DEF Done, Read, Kind
  <2>2. q \in Seq(Read) /\ NoRepeats(q) /\ Range(q) = {<<a, "utxos">>}
    BY <2>1 DEF NoRepeats, Range
  <2>3. Ask(q)
    BY <1>4
  <2> HIDE DEF q
  <2>4. /\ NetworkHolds' /\ Told'
        /\ Stopped => InStage(read', "flight") \subseteq InStage(read, "flight")
        /\ \A x \in Read : read'[x].stage # "none" => read[x].stage # "none" \/ x \in Range(q)
    BY <1>1, <2>1, <2>2, <2>3, AskKeeps
  <2>5. ScanTypes' /\ OutcomeHolds'
    BY <1>1, <1>4 DEF IInv, ScanTypes, OutcomeHolds, Stopped
  <2>6. Placed'
    BY <1>1, <1>4, <2>2, <2>4 DEF IInv, Placed
  <2>7. ASSUME NEW c \in Branch PROVE BranchHolds(c)'
    BY <1>1, <1>4, BranchSame DEF IInv
  <2> QED
    BY <2>4, <2>5, <2>6, <2>7 DEF IInv, StepHolds
<1> QED
  BY <1>2, <1>3, <1>4 DEF AddressStep

\* A branch that goes on by itself, or fails: the others stay.
LEMMA MoveKeeps ==
    ASSUME IInv, NEW b \in Branch, stage[b] # "done",
           NEW s \in {"decide", "derive", "done", "failed"}, stage' = [stage EXCEPT ![b] = s],
           NEW n \in 0 .. MaxIndex + 1, nextIndex' = [nextIndex EXCEPT ![b] = n],
           NEW u \in 0 .. MaxIndex + 1,
           consecutiveUnused' = [consecutiveUnused EXCEPT ![b] = u],
           failure' \in {"none", "read", "fatal"}, failure # "none" => failure' # "none",
           UNCHANGED <<todo, current, broken, record, network, chain, aborted, outcome, start>>,
           BranchHolds(b)'
    PROVE  StepHolds
<1>1. /\ \A c \in Branch : c # b => /\ stage'[c] = stage[c] /\ nextIndex'[c] = nextIndex[c]
                                    /\ consecutiveUnused'[c] = consecutiveUnused[c]
      /\ ScanTypes
  BY DEF IInv, ScanTypes
<1>2. ScanTypes'
  BY <1>1 DEF ScanTypes
<1>3. /\ NetworkHolds' /\ Placed' /\ Told'
      /\ InStage(read', "flight") = InStage(read, "flight")
  BY DEF network, IInv, NetworkHolds, Placed, Told
<1>4. OutcomeHolds'
  BY DEF IInv, OutcomeHolds, Stopped
<1>5. ASSUME NEW c \in Branch, c # b PROVE BranchHolds(c)'
  <2>1. BranchHolds(c)
    BY DEF IInv
  <2>2. \A i \in Index : record'[<<c, i>>] = record[<<c, i>>]
    OBVIOUS
  <2> QED
    BY <1>1, <1>5, <2>1, <2>2, BranchSame
<1>6. \A c \in Branch : BranchHolds(c)'
  BY <1>5
<1> QED
  BY <1>2, <1>3, <1>4, <1>6 DEF IInv, StepHolds

LEMMA FailsKeeps ==
    ASSUME IInv, NEW b \in Branch, stage[b] # "done", Fails(b),
           UNCHANGED <<todo, current, broken, nextIndex, consecutiveUnused, record,
                       network, chain, aborted, outcome, start>>
    PROVE  StepHolds
<1>1. failure' \in {"read", "fatal"}
  BY CauseFacts, FailFacts DEF Fails, IInv
<1>2. /\ ScanTypes /\ BranchHolds(b)
      /\ stage' = [stage EXCEPT ![b] = "failed"] /\ stage'[b] = "failed"
      /\ nextIndex' = [nextIndex EXCEPT ![b] = nextIndex[b]]
      /\ consecutiveUnused' = [consecutiveUnused EXCEPT ![b] = consecutiveUnused[b]]
      /\ nextIndex[b] \in 0 .. MaxIndex + 1 /\ consecutiveUnused[b] \in 0 .. MaxIndex + 1
  BY DEF Fails, IInv, ScanTypes
<1>3. BranchHolds(b)'
  BY <1>1, <1>2, BranchFails
<1> QED
  BY <1>1, <1>2, <1>3, MoveKeeps

LEMMA RefreshedKeeps ==
    ASSUME IInv, NEW b \in Branch, Refreshed(b), UNCHANGED <<chain, aborted, outcome, start>>
    PROVE  StepHolds
<1>1. /\ stage[b] = "refresh" /\ current[b] = {} /\ (broken[b] \/ todo[b] = <<>>)
      /\ UNCHANGED <<todo, current, broken, nextIndex, record, network>>
      /\ ScanTypes /\ BranchHolds(b)
  BY DEF Refreshed, IInv
<1>2. CASE broken[b]
  BY <1>1, <1>2, FailsKeeps DEF Refreshed
<1>3. CASE ~broken[b]
  <2>1. /\ stage' = [stage EXCEPT ![b] = "decide"]
        /\ consecutiveUnused' = [consecutiveUnused EXCEPT ![b] = Trailing(b)]
        /\ failure' = failure
    BY <1>3 DEF Refreshed
  <2>2. /\ Trailing(b) \in 0 .. nextIndex[b] /\ nextIndex[b] \in 0 .. MaxIndex + 1
        /\ MaxIndex \in Nat
    BY <1>1, TrailingFacts, ConstantFacts DEF ScanTypes
  <2> DEFINE u == Trailing(b)
  <2> HIDE DEF u
  <2>3. u \in 0 .. nextIndex[b] /\ u \in 0 .. MaxIndex + 1
    BY <2>2 DEF u
  <2>4. stage'[b] = "decide" /\ consecutiveUnused'[b] = u
    BY <1>1, <2>1 DEF ScanTypes, u
  <2>5. Due(b)' = Due(b) /\ Due(b) \subseteq Index
    BY <1>1, <2>4 DEF Due
  <2>6. \A i \in Due(b)' : Pending(b, i)' \/ Fine(<<b, i>>)'
    <3> SUFFICES ASSUME NEW i \in Due(b) PROVE Pending(b, i)' \/ Fine(<<b, i>>)'
      BY <2>5
    <3>1. Pending(b, i) => Pending(b, i)'
      BY <1>1 DEF Pending
    <3>2. Fine(<<b, i>>) => Fine(<<b, i>>)'
      BY <1>1 DEF Fine
    <3> QED
      BY <1>1, <3>1, <3>2 DEF BranchHolds
  <2>7. BranchHolds(b)'
    BY <1>1, <1>3, <2>3, <2>4, <2>6 DEF BranchHolds
  <2>8. nextIndex' = [nextIndex EXCEPT ![b] = nextIndex[b]]
        /\ consecutiveUnused' = [consecutiveUnused EXCEPT ![b] = u]
    BY <1>1, <2>1 DEF ScanTypes, u
  <2>9. failure' \in {"none", "read", "fatal"} /\ (failure # "none" => failure' # "none")
    BY <1>1, <2>1 DEF ScanTypes
  <2> QED
    BY <1>1, <2>1, <2>2, <2>3, <2>7, <2>8, <2>9, MoveKeeps
<1> QED
  BY <1>2, <1>3

LEMMA DecideKeeps ==
    ASSUME IInv, NEW b \in Branch, Decide(b), UNCHANGED <<chain, aborted, outcome, start>>
    PROVE  StepHolds
<1>1. /\ stage[b] = "decide"
      /\ UNCHANGED <<todo, current, broken, nextIndex, consecutiveUnused, record, network>>
      /\ ScanTypes /\ BranchHolds(b)
  BY DEF Decide, IInv
<1>2. CASE Fails(b)
  BY <1>1, <1>2, FailsKeeps
<1>3. ASSUME NEW s \in {"done", "derive"}, stage' = [stage EXCEPT ![b] = s], failure' = failure,
             s = "done" => Size(b) = 0 /\ Trailing(b) >= Gap,
             s = "derive" => Size(b) # 0 /\ ~(nextIndex[b] + Size(b) - 1 > MaxIndex)
      PROVE  StepHolds
  <2>1. /\ nextIndex[b] \in Nat /\ Size(b) \in Nat /\ MaxIndex \in Nat
        /\ Size(b) = 0 => Issued[b] <= nextIndex[b]
    BY <1>1, SizeFacts, ConstantFacts
  <2>2. stage'[b] = s
    BY <1>1, <1>3 DEF ScanTypes
  <2>3. Size(b)' = Size(b) /\ Trailing(b)' = Trailing(b)
    BY <1>1 DEF Size, Trailing
  <2>4. Due(b)' = Due(b) /\ Due(b) \subseteq Index
    BY <1>1, <1>3, <2>2 DEF Due
  <2>5. \A i \in Due(b)' : Pending(b, i)' \/ Fine(<<b, i>>)'
    <3> SUFFICES ASSUME NEW i \in Due(b) PROVE Pending(b, i)' \/ Fine(<<b, i>>)'
      BY <2>4
    <3>1. Pending(b, i) => Pending(b, i)'
      BY <1>1 DEF Pending
    <3>2. Fine(<<b, i>>) => Fine(<<b, i>>)'
      BY <1>1 DEF Fine
    <3> QED
      BY <1>1, <3>1, <3>2 DEF BranchHolds
  <2>6. s = "derive" => Size(b) > 0 /\ nextIndex[b] + Size(b) <= MaxIndex + 1
    BY <1>3, <2>1
  <2>7. BranchHolds(b)'
    BY <1>1, <1>3, <2>1, <2>2, <2>3, <2>5, <2>6 DEF BranchHolds
  <2>8. /\ nextIndex' = [nextIndex EXCEPT ![b] = nextIndex[b]]
        /\ consecutiveUnused' = [consecutiveUnused EXCEPT ![b] = consecutiveUnused[b]]
        /\ nextIndex[b] \in 0 .. MaxIndex + 1 /\ consecutiveUnused[b] \in 0 .. MaxIndex + 1
    BY <1>1 DEF ScanTypes
  <2>9. failure' \in {"none", "read", "fatal"} /\ (failure # "none" => failure' # "none")
    BY <1>1, <1>3 DEF ScanTypes
  <2> QED
    BY <1>1, <1>3, <2>7, <2>8, <2>9, MoveKeeps
<1>4. CASE Size(b) = 0 /\ Trailing(b) >= Gap
           /\ stage' = [stage EXCEPT ![b] = "done"] /\ failure' = failure
  BY <1>3, <1>4
<1>5. CASE Size(b) # 0 /\ ~(nextIndex[b] + Size(b) - 1 > MaxIndex)
           /\ stage' = [stage EXCEPT ![b] = "derive"] /\ failure' = failure
  BY <1>3, <1>5
<1> QED
  BY <1>2, <1>4, <1>5 DEF Decide

LEMMA ScannedKeeps ==
    ASSUME IInv, NEW b \in Branch, Scanned(b), UNCHANGED <<chain, aborted, outcome, start>>
    PROVE  StepHolds
<1>1. /\ stage[b] = "batch" /\ current[b] = {}
      /\ UNCHANGED <<todo, current, broken, record, network>>
      /\ ScanTypes /\ BranchHolds(b)
  BY DEF Scanned, IInv
<1>2. CASE broken[b]
  BY <1>1, <1>2, FailsKeeps DEF Scanned
<1>3. CASE ~broken[b]
  <2> DEFINE n == nextIndex[b] + Size(b)
             used == {i \in InBatch(b) : record[<<b, i>>] = "used"}
             after == {i \in InBatch(b) : \A u \in used : u < i}
             u == IF used = {} THEN consecutiveUnused[b] + Size(b) ELSE Cardinality(after)
  <2>1. /\ stage' = [stage EXCEPT ![b] = "decide"]
        /\ nextIndex' = [nextIndex EXCEPT ![b] = n]
        /\ consecutiveUnused' = [consecutiveUnused EXCEPT ![b] = u]
        /\ failure' = failure
    BY <1>3 DEF Scanned
  <2>2. /\ nextIndex[b] \in Nat /\ consecutiveUnused[b] \in Nat /\ Size(b) \in Nat
        /\ MaxIndex \in Nat /\ nextIndex[b] + Size(b) <= MaxIndex + 1
        /\ consecutiveUnused[b] <= nextIndex[b] /\ todo[b] = <<>>
    BY <1>1, SizeFacts, ConstantFacts DEF BranchHolds
  <2>3. n \in 0 .. MaxIndex + 1
    BY <2>2
  <2>4. IsFiniteSet(InBatch(b)) /\ Cardinality(InBatch(b)) = Size(b)
    <3> DEFINE lo == nextIndex[b]
               hi == nextIndex[b] + Size(b) - 1
    <3>1. lo \in Int /\ hi \in Int /\ (IF lo > hi THEN 0 ELSE hi - lo + 1) = Size(b)
      BY <2>2
    <3>2. InBatch(b) = lo .. hi
      BY DEF InBatch
    <3> HIDE DEF lo, hi
    <3> QED
      BY <3>1, <3>2, FS_Interval
  <2>5. Cardinality(after) \in Nat /\ Cardinality(after) <= Size(b)
    <3>1. after \subseteq InBatch(b)
      OBVIOUS
    <3> HIDE DEF after
    <3> QED
      BY <2>4, <3>1, FS_Subset, FS_CardinalityType
  <2> HIDE DEF used, after
  <2>6. u \in 0 .. MaxIndex + 1 /\ u <= n
    BY <2>2, <2>5
  <2> HIDE DEF u
  <2>7. stage'[b] = "decide" /\ nextIndex'[b] = n /\ consecutiveUnused'[b] = u
    BY <1>1, <2>1 DEF ScanTypes
  <2>8. Due(b)' \subseteq Due(b) /\ Due(b) \subseteq Index
    <3>1. \A i \in Index : i < n => i < nextIndex[b] \/ i \in InBatch(b)
      BY <2>2 DEF InBatch, Index
    <3>2. Due(b)' = {i \in Index : i < n \/ <<b, i>> \in start.used}
      BY <2>7 DEF Due
    <3> HIDE DEF n
    <3> QED
      BY <1>1, <3>1, <3>2 DEF Due
  <2>9. \A i \in Due(b)' : Pending(b, i)' \/ Fine(<<b, i>>)'
    <3> SUFFICES ASSUME NEW i \in Due(b) PROVE Pending(b, i)' \/ Fine(<<b, i>>)'
      BY <2>8
    <3>1. Pending(b, i) => Pending(b, i)'
      BY <1>1 DEF Pending
    <3>2. Fine(<<b, i>>) => Fine(<<b, i>>)'
      BY <1>1 DEF Fine
    <3> QED
      BY <1>1, <3>1, <3>2 DEF BranchHolds
  <2>10. BranchHolds(b)'
    BY <1>1, <1>3, <2>2, <2>6, <2>7, <2>9 DEF BranchHolds
  <2>11. failure' \in {"none", "read", "fatal"} /\ (failure # "none" => failure' # "none")
    BY <1>1, <2>1 DEF ScanTypes
  <2> HIDE DEF n
  <2> QED
    BY <1>1, <2>1, <2>3, <2>6, <2>10, <2>11, MoveKeeps
<1> QED
  BY <1>2, <1>3

LEMMA WorkerTakesKeeps ==
    ASSUME IInv, NEW b \in Branch, WorkerTakes(b), UNCHANGED <<chain, aborted, outcome, start>>
    PROVE  StepHolds
<1> DEFINE a == Head(todo[b])
<1>1. /\ stage[b] = "refresh" /\ ~broken[b] /\ todo[b] # <<>>
      /\ todo' = [todo EXCEPT ![b] = Tail(todo[b])]
      /\ UNCHANGED <<stage, nextIndex, consecutiveUnused, record, failure>>
      /\ ScanTypes /\ BranchHolds(b)
  BY DEF WorkerTakes, IInv
<1>2. /\ a \in {b} \X Index /\ Tail(todo[b]) \in Seq({b} \X Index)
      /\ Range(todo[b]) = {a} \cup Range(Tail(todo[b])) /\ a \notin current[b]
  BY <1>1, HeadQueue DEF BranchHolds
<1> HIDE DEF a
<1>3. a \in Address /\ a[1] = b
  BY <1>2 DEF Address
<1>4. Tail(todo[b]) \in Seq(Address)
  <2>1. \A t \in Seq({b} \X Index) : t \in Seq(Address)
    BY DEF Address
  <2> QED
    BY <1>2, <2>1
<1>5. /\ todo' \in [Branch -> Seq(Address)] /\ todo'[b] = Tail(todo[b])
      /\ \A c \in Branch : c # b => todo'[c] = todo[c]
  BY <1>1, <1>4 DEF ScanTypes
<1>6. OutcomeHolds'
  BY <1>1 DEF IInv, OutcomeHolds, Stopped
<1>7. CASE Stopped
  <2>1. broken' = [broken EXCEPT ![b] = TRUE] /\ UNCHANGED <<current, network>>
    BY <1>7 DEF WorkerTakes
  <2>2. /\ broken' \in [Branch -> BOOLEAN] /\ broken'[b]
        /\ \A c \in Branch : c # b => broken'[c] = broken[c]
        /\ \A c \in Branch : broken[c] => broken'[c]
    BY <1>1, <2>1 DEF ScanTypes
  <2>3. ScanTypes'
    BY <1>1, <1>5, <2>1, <2>2 DEF ScanTypes
  <2>4. NetworkHolds' /\ Told' /\ read' = read
    BY <2>1 DEF network, IInv, NetworkHolds, Told
  <2>5. Placed'
    <3> SUFFICES ASSUME NEW x \in Read, read[x].stage # "none"
                 PROVE  x[1] \in current'[x[1][1]] \/ broken'[x[1][1]]
      BY <2>4 DEF Placed
    <3>1. x[1][1] \in Branch
      BY ReadParts, AddressParts
    <3>2. x[1] \in current[x[1][1]] \/ broken[x[1][1]]
      BY DEF IInv, Placed
    <3> QED
      BY <2>1, <2>2, <3>1, <3>2
  <2>6. ASSUME NEW c \in Branch PROVE BranchHolds(c)'
    <3>1. BranchHolds(c)
      BY DEF IInv
    <3>2. CASE c = b
      BY <1>1, <1>5, <2>1, <2>2, <3>2, BranchTakes
    <3>3. CASE c # b
      BY <1>1, <1>5, <2>1, <2>2, <3>1, <3>3, BranchSame
    <3> QED
      BY <3>2, <3>3
  <2> QED
    BY <1>6, <2>3, <2>4, <2>5, <2>6 DEF IInv, StepHolds
<1>8. CASE ~Stopped
  <2>1. /\ current' = [current EXCEPT ![b] = current[b] \cup {a}]
        /\ Ask(Opening(<<a>>)) /\ broken' = broken
    BY <1>8 DEF WorkerTakes, a
  <2>2. /\ current' \in [Branch -> SUBSET Address] /\ current'[b] = current[b] \cup {a}
        /\ \A c \in Branch : c # b => current'[c] = current[c]
        /\ \A c \in Branch : current'[c] \subseteq {c} \X Index
    BY <1>1, <1>2, <1>3, <2>1 DEF ScanTypes
  <2>3. ScanTypes'
    BY <1>1, <1>5, <2>1, <2>2 DEF ScanTypes
  <2> DEFINE q == <<a>>
             asked == Opening(q)
  <2>4. q \in Seq(Address) /\ NoRepeats(q) /\ Range(q) = {a}
    BY <1>3 DEF NoRepeats, Range
  <2> HIDE DEF q
  <2>5. /\ asked \in Seq(Read) /\ NoRepeats(asked)
        /\ \A x \in Range(asked) : x \in Read /\ x[1] = a
    <3>1. asked \in Seq(Read) /\ NoRepeats(asked)
          /\ Range(asked) \subseteq Range(q) \X {"history", "balance"}
      BY <2>4, OpeningFacts
    <3>2. Range(asked) \subseteq Read
      BY <3>1, QueueType
    <3> QED
      BY <2>4, <3>1, <3>2
  <2> HIDE DEF asked
  <2>6. \A x \in Range(asked) : read[x].stage \in {"none", "waiting"}
    BY <1>1, <1>2, <1>3, <2>5 DEF IInv, Placed
  <2>7. Ask(asked)
    BY <2>1 DEF asked, q
  <2>8. /\ NetworkHolds' /\ Told'
        /\ Stopped => InStage(read', "flight") \subseteq InStage(read, "flight")
        /\ \A x \in Read : read'[x].stage # "none" => read[x].stage # "none" \/ x \in Range(asked)
    BY <2>5, <2>6, <2>7, AskKeeps
  <2>9. Placed'
    <3> SUFFICES ASSUME NEW x \in Read, read'[x].stage # "none"
                 PROVE  x[1] \in current'[x[1][1]] \/ broken'[x[1][1]]
      BY DEF Placed
    <3>1. x[1][1] \in Branch
      BY ReadParts, AddressParts
    <3>2. CASE x \in Range(asked)
      BY <1>3, <2>2, <2>5, <3>2
    <3>3. CASE read[x].stage # "none"
      <4>1. x[1] \in current[x[1][1]] \/ broken[x[1][1]]
        BY <3>3 DEF IInv, Placed
      <4> QED
        BY <2>1, <2>2, <3>1, <4>1
    <3> QED
      BY <2>8, <3>2, <3>3
  <2>10. ASSUME NEW c \in Branch PROVE BranchHolds(c)'
    <3>1. BranchHolds(c)
      BY DEF IInv
    <3>2. CASE c = b
      BY <1>1, <1>5, <2>1, <2>2, <3>2, BranchTakes DEF a
    <3>3. CASE c # b
      BY <1>1, <1>5, <2>1, <2>2, <3>1, <3>3, BranchSame
    <3> QED
      BY <3>2, <3>3
  <2> QED
    BY <1>6, <2>3, <2>8, <2>9, <2>10 DEF IInv, StepHolds
<1> QED
  BY <1>7, <1>8

LEMMA BranchKeeps ==
    ASSUME IInv, NEW b \in Branch, BranchStep(b)
    PROVE  StepHolds
BY WorkerTakesKeeps, RefreshedKeeps, DecideKeeps, ScannedKeeps DEF BranchStep

LEMMA DeriveKeeps ==
    ASSUME IInv, NEW b \in Branch, Derive(b)
    PROVE  StepHolds
<1>1. /\ stage[b] = "derive"
      /\ UNCHANGED <<chain, todo, broken, nextIndex, consecutiveUnused, record,
                     aborted, outcome, start>>
      /\ ScanTypes /\ BranchHolds(b)
  BY DEF Derive, IInv
<1>2. CASE Fails(b) /\ UNCHANGED <<current, network>>
  BY <1>1, <1>2, FailsKeeps
<1> DEFINE list == [n \in 1 .. Size(b) |-> <<b, nextIndex[b] + n - 1>>]
           asked == Opening(list)
<1>3. CASE /\ stage' = [stage EXCEPT ![b] = "batch"]
           /\ current' = [current EXCEPT ![b] = On(b, InBatch(b))]
           /\ Ask(asked) /\ UNCHANGED <<failure, events>>
  <2>1. /\ nextIndex[b] \in Nat /\ Size(b) \in Nat /\ MaxIndex \in Nat /\ Size(b) > 0
        /\ nextIndex[b] + Size(b) <= MaxIndex + 1
        /\ todo[b] = <<>> /\ current[b] = {} /\ ~broken[b]
    BY <1>1, SizeFacts, ConstantFacts DEF BranchHolds
  <2>2. InBatch(b) \subseteq Index
    BY <2>1 DEF InBatch, Index
  <2>3. /\ list \in Seq(Address) /\ NoRepeats(list)
        /\ Range(list) \subseteq On(b, InBatch(b))
    <3>1. \A n \in 1 .. Size(b) : nextIndex[b] + n - 1 \in InBatch(b)
      BY <2>1 DEF InBatch
    <3>2. list \in Seq(Address) /\ Len(list) = Size(b)
      BY <2>1, <2>2, <3>1 DEF Address
    <3>3. \A n \in 1 .. Size(b) : list[n] = <<b, nextIndex[b] + n - 1>>
      OBVIOUS
    <3> HIDE DEF list
    <3>4. NoRepeats(list)
      BY <2>1, <3>2, <3>3 DEF NoRepeats
    <3>5. Range(list) = {list[n] : n \in 1 .. Size(b)}
      BY <3>2, RangeOfQueue
    <3>6. Range(list) \subseteq On(b, InBatch(b))
      BY <3>1, <3>3, <3>5 DEF On
    <3> QED
      BY <3>2, <3>4, <3>6
  <2> HIDE DEF list
  <2>4. /\ asked \in Seq(Read) /\ NoRepeats(asked)
        /\ \A x \in Range(asked) : x \in Read /\ x[1] \in On(b, InBatch(b))
    <3>1. asked \in Seq(Read) /\ NoRepeats(asked)
          /\ Range(asked) \subseteq Range(list) \X {"history", "balance"}
      BY <2>3, OpeningFacts
    <3>2. Range(asked) \subseteq Read
      BY <3>1, QueueType
    <3> QED
      BY <2>3, <3>1, <3>2
  <2> HIDE DEF asked
  <2>5. \A x \in Range(asked) : read[x].stage \in {"none", "waiting"}
    <3>1. \A x \in Range(asked) : x[1][1] = b
      BY <2>4 DEF On
    <3> QED
      BY <2>1, <2>4, <3>1 DEF IInv, Placed
  <2>6. /\ NetworkHolds' /\ Told'
        /\ Stopped => InStage(read', "flight") \subseteq InStage(read, "flight")
        /\ \A x \in Read : read'[x].stage # "none" => read[x].stage # "none" \/ x \in Range(asked)
    BY <1>1, <1>3, <2>4, <2>5, AskKeeps
  <2>7. /\ stage' \in [Branch -> {"refresh", "decide", "derive", "batch", "done", "failed"}]
        /\ stage'[b] = "batch" /\ \A c \in Branch : c # b => stage'[c] = stage[c]
    BY <1>1, <1>3 DEF ScanTypes
  <2>8. /\ On(b, InBatch(b)) \in SUBSET Address /\ On(b, InBatch(b)) \subseteq {b} \X Index
        /\ \A i \in InBatch(b) : <<b, i>> \in On(b, InBatch(b))
    BY <2>2 DEF On, Address
  <2>9. /\ current' \in [Branch -> SUBSET Address] /\ current'[b] = On(b, InBatch(b))
        /\ \A c \in Branch : c # b => current'[c] = current[c]
        /\ \A c \in Branch : current'[c] \subseteq {c} \X Index
    BY <1>1, <1>3, <2>8 DEF ScanTypes
  <2>10. ScanTypes'
    BY <1>1, <1>3, <2>7, <2>9 DEF ScanTypes
  <2>11. OutcomeHolds'
    BY <1>1, <1>3 DEF IInv, OutcomeHolds, Stopped
  <2>12. Placed'
    <3> SUFFICES ASSUME NEW x \in Read, read'[x].stage # "none"
                 PROVE  x[1] \in current'[x[1][1]] \/ broken'[x[1][1]]
      BY DEF Placed
    <3>1. x[1][1] \in Branch
      BY ReadParts, AddressParts
    <3>2. CASE x \in Range(asked)
      <4>1. x[1][1] = b
        BY <2>4, <3>2 DEF On
      <4> QED
        BY <2>4, <2>9, <3>2, <4>1
    <3>3. CASE read[x].stage # "none"
      <4>1. x[1] \in current[x[1][1]] \/ broken[x[1][1]]
        BY <3>3 DEF IInv, Placed
      <4>2. x[1][1] # b
        BY <2>1, <4>1
      <4> QED
        BY <1>1, <2>9, <3>1, <4>1, <4>2
    <3> QED
      BY <2>6, <3>2, <3>3
  <2>13. BranchHolds(b)'
    <3>1. Size(b)' = Size(b)
      BY <1>1 DEF Size
    <3>2. InBatch(b)' = InBatch(b)
      BY <1>1, <3>1 DEF InBatch
    <3>3. Due(b)' \subseteq Due(b) \cup InBatch(b) /\ Due(b) \subseteq Index
      BY <1>1, <3>2 DEF Due
    <3>4. ASSUME NEW i \in Due(b)' PROVE Pending(b, i)' \/ Fine(<<b, i>>)'
      <4>1. CASE i \in InBatch(b)
        BY <2>8, <2>9, <4>1 DEF Pending
      <4>2. CASE i \in Due(b)
        <5>1. Pending(b, i) \/ Fine(<<b, i>>)
          BY <1>1, <4>2 DEF BranchHolds
        <5>2. ~Pending(b, i)
          BY <2>1, EmptyQueue DEF Pending
        <5>3. Fine(<<b, i>>) => Fine(<<b, i>>)'
          BY <1>1 DEF Fine
        <5> QED
          BY <5>1, <5>2, <5>3
      <4> QED
        BY <3>3, <4>1, <4>2
    <3>5. Range(todo'[b]) = {}
      BY <1>1, <2>1, EmptyQueue
    <3> QED
      BY <1>1, <2>1, <2>7, <3>1, <3>4, <3>5 DEF BranchHolds
  <2>14. ASSUME NEW c \in Branch, c # b PROVE BranchHolds(c)'
    <3>1. BranchHolds(c)
      BY DEF IInv
    <3>2. \A i \in Index : record'[<<c, i>>] = record[<<c, i>>]
      BY <1>1
    <3> QED
      BY <1>1, <1>3, <2>7, <2>9, <2>14, <3>1, <3>2, BranchSame
  <2>15. \A c \in Branch : BranchHolds(c)'
    BY <2>13, <2>14
  <2> QED
    BY <2>6, <2>10, <2>11, <2>12, <2>15 DEF IInv, StepHolds
<1> QED
  BY <1>2, <1>3 DEF Derive

LEMMA SettleKeeps ==
    ASSUME IInv, Settle
    PROVE  StepHolds
<1>1. /\ outcome = "running" /\ Over
      /\ outcome' = IF Stopped THEN "failed" ELSE "snapshot"
      /\ UNCHANGED <<chain, start, stage, todo, current, broken, nextIndex,
                     consecutiveUnused, record, read, limiter, failure, aborted>>
  BY DEF Settle, branches, network, control
<1>2. ScanTypes' /\ NetworkHolds' /\ Placed' /\ Told'
      /\ InStage(read', "flight") = InStage(read, "flight")
  BY <1>1 DEF IInv, ScanTypes, NetworkHolds, Placed, Told
<1>3. OutcomeHolds'
  <2>1. CASE Stopped
    BY <1>1, <2>1 DEF OutcomeHolds, Stopped
  <2>2. CASE ~Stopped
    <3>1. \A b \in Branch : stage[b] # "failed"
      BY <2>2 DEF IInv, BranchHolds, Stopped
    <3> QED
      BY <1>1, <2>2, <3>1 DEF OutcomeHolds, Over
  <2> QED
    BY <2>1, <2>2
<1>4. ASSUME NEW c \in Branch PROVE BranchHolds(c)'
  <2>1. BranchHolds(c) /\ ScanTypes
    BY DEF IInv
  <2> QED
    BY <1>1, <2>1, BranchSame
<1> QED
  BY <1>2, <1>3, <1>4 DEF IInv, StepHolds

\* What arrives from outside leaves the branches alone.
LEMMA OutsideKeeps ==
    ASSUME IInv, UNCHANGED meanwhile,
           aborted' \in BOOLEAN, aborted => aborted',
           chain' \in [Address -> State],
           \A a \in Address : chain[a] # "fresh" => chain'[a] # "fresh",
           NetworkHolds',
           \A x \in Read : /\ read'[x].stage # "none" => read[x].stage # "none"
                           /\ read'[x].stage = "done" =>
                                read'[x] = read[x] \/ read'[x].value = Says(x),
           Stopped => InStage(read', "flight") \subseteq InStage(read, "flight")
    PROVE  StepHolds
<1>1. UNCHANGED <<stage, todo, current, broken, nextIndex, consecutiveUnused, record,
                  failure, outcome, start>>
  BY DEF meanwhile, branches
<1>2. ScanTypes' /\ Placed' /\ OutcomeHolds'
  BY <1>1 DEF IInv, ScanTypes, Placed, OutcomeHolds, Stopped
<1>3. Told'
  <2> SUFFICES ASSUME NEW a \in Address, start.chain[a] # "fresh"
               PROVE  /\ chain'[a] # "fresh"
                      /\ read'[<<a, "history">>].stage = "done" => read'[<<a, "history">>].value
    BY <1>1 DEF Told
  <2>1. chain[a] # "fresh" /\ chain'[a] # "fresh"
    BY DEF IInv, Told
  <2>2. <<a, "history">> \in Read
    BY DEF Read, Kind
  <2>3. Says(<<a, "history">>)
    BY <2>1 DEF Says
  <2>4. read[<<a, "history">>].stage = "done" => read[<<a, "history">>].value
    BY DEF IInv, Told
  <2> QED
    BY <2>1, <2>2, <2>3, <2>4
<1>4. ASSUME NEW c \in Branch PROVE BranchHolds(c)'
  <2>1. BranchHolds(c) /\ ScanTypes
    BY DEF IInv
  <2> QED
    BY <1>1, <2>1, BranchSame
<1> QED
  BY <1>2, <1>3, <1>4 DEF IInv, StepHolds

LEMMA AnswerKeeps ==
    ASSUME IInv, NEW x \in Read, Answer(x)
    PROVE  StepHolds
<1> DEFINE ended == [stage |-> "done", attempt |-> read[x].attempt, value |-> Says(x)]
<1>1. /\ read[x].stage = "flight" /\ Ends(x, ended)
      /\ UNCHANGED <<meanwhile, chain, aborted>>
  BY DEF Answer
<1>2. read[x] \in ReadRecord
  BY DEF IInv, NetworkHolds, BooksHold
<1>3. /\ ended \in ReadRecord /\ ended.stage = "done" /\ ended.value = Says(x)
  BY <1>2 DEF ReadRecord, Says
<1> HIDE DEF ended
<1>4. /\ NetworkHolds' /\ read'[x] = ended
      /\ \A y \in Read : y # x => Kept(y)
      /\ Stopped => InStage(read', "flight") \subseteq InStage(read, "flight")
  BY <1>1, <1>3, EndsFacts DEF IInv
<1>5. \A y \in Read : /\ read'[y].stage # "none" => read[y].stage # "none"
                      /\ read'[y].stage = "done" =>
                           read'[y] = read[y] \/ read'[y].value = Says(y)
  BY <1>1, <1>3, <1>4 DEF Kept, Unanswered
<1>6. ScanTypes
  BY DEF IInv
<1> QED
  BY <1>1, <1>4, <1>5, <1>6, OutsideKeeps DEF ScanTypes

LEMMA ReadFailsKeeps ==
    ASSUME IInv, NEW x \in Read, ReadFails(x)
    PROVE  StepHolds
<1>1. read[x] \in ReadRecord
  BY DEF IInv, NetworkHolds, BooksHold
<1>2. PICK how \in {"waiting", "failed", "fatal"} :
        /\ Ends(x, [read[x] EXCEPT !.stage = how])
        /\ how = "waiting" => read[x].attempt < MaxAttempts
  BY DEF ReadFails
<1> DEFINE ended == [read[x] EXCEPT !.stage = how]
<1>3. read[x].stage = "flight" /\ Ends(x, ended) /\ UNCHANGED <<meanwhile, chain, aborted>>
  BY <1>2 DEF ReadFails
<1>4. ended \in ReadRecord /\ ended.stage = how /\ ended.attempt = read[x].attempt
  BY <1>1 DEF ReadRecord
<1> HIDE DEF ended
<1>5. /\ NetworkHolds' /\ read'[x] = ended
      /\ \A y \in Read : y # x => Kept(y)
      /\ Stopped => InStage(read', "flight") \subseteq InStage(read, "flight")
  BY <1>2, <1>3, <1>4, EndsFacts DEF IInv
<1>6. \A y \in Read : /\ read'[y].stage # "none" => read[y].stage # "none"
                      /\ read'[y].stage = "done" =>
                           read'[y] = read[y] \/ read'[y].value = Says(y)
  BY <1>3, <1>4, <1>5 DEF Kept, Unanswered
<1>7. ScanTypes
  BY DEF IInv
<1> QED
  BY <1>3, <1>5, <1>6, <1>7, OutsideKeeps DEF ScanTypes

\* Reads that wait for a retry give up.
LEMMA GiveUp ==
    ASSUME IInv, NEW X \in SUBSET Read, \A x \in X : read[x].stage = "waiting",
           read' = [x \in Read |-> IF x \in X THEN [read[x] EXCEPT !.stage = "fatal"]
                                   ELSE read[x]],
           limiter' = limiter
    PROVE  /\ NetworkHolds' /\ InStage(read', "flight") = InStage(read, "flight")
           /\ \A x \in Read : /\ read'[x].stage # "none" => read[x].stage # "none"
                              /\ read'[x].stage = "done" => read'[x] = read[x]
<1>1. BooksHold(read, limiter.queue, limiter.active)
  BY DEF IInv, NetworkHolds
<1>2. \A x \in Read : read[x] \in ReadRecord
  BY <1>1 DEF BooksHold
<1>3. \A x \in Read : /\ x \notin X => read'[x] = read[x]
                      /\ x \in X => read'[x] \in ReadRecord /\ read'[x].stage = "fatal"
  <2> TAKE x \in Read
  <2>1. CASE x \notin X
    BY <2>1
  <2>2. CASE x \in X
    <3>1. read'[x] = [read[x] EXCEPT !.stage = "fatal"]
      BY <2>2
    <3> QED
      BY <1>2, <2>2, <3>1 DEF ReadRecord
  <2> QED
    BY <2>1, <2>2
<1>4. read' \in [Read -> ReadRecord]
  BY <1>2, <1>3
<1>5. \A x \in Read : /\ read'[x].stage = "queued" <=> read[x].stage = "queued"
                      /\ read'[x].stage = "flight" <=> read[x].stage = "flight"
  BY <1>3
<1>6. InStage(read', "queued") = InStage(read, "queued")
      /\ InStage(read', "flight") = InStage(read, "flight")
  BY <1>5 DEF InStage
<1>7. \A x \in Read : /\ read'[x].stage = "none" => read'[x].attempt = 0
                      /\ read'[x].stage = "waiting" => read'[x].attempt < MaxAttempts
  BY <1>1, <1>3 DEF BooksHold
<1>8. BooksHold(read', limiter'.queue, limiter'.active)
  BY <1>1, <1>4, <1>6, <1>7 DEF BooksHold
<1>9. NetworkHolds'
  BY <1>8 DEF IInv, NetworkHolds
<1> QED
  BY <1>3, <1>6, <1>9

LEMMA RetryKeeps ==
    ASSUME IInv, NEW x \in Read, Retry(x)
    PROVE  StepHolds
<1>1. /\ read[x].stage = "waiting" /\ UNCHANGED <<meanwhile, chain, aborted>>
      /\ ScanTypes /\ read \in [Read -> ReadRecord]
  BY DEF Retry, IInv, NetworkHolds, BooksHold
<1>2. CASE Stopped
  <2>1. /\ read' = [read EXCEPT ![x].stage = "fatal"] /\ limiter' = limiter
    BY <1>2 DEF Retry
  <2>2. read' = [y \in Read |-> IF y \in {x} THEN [read[y] EXCEPT !.stage = "fatal"]
                                ELSE read[y]]
    BY <1>1, <2>1
  <2>3. {x} \in SUBSET Read /\ \A y \in {x} : read[y].stage = "waiting"
    BY <1>1
  <2>4. /\ NetworkHolds' /\ InStage(read', "flight") = InStage(read, "flight")
        /\ \A y \in Read : /\ read'[y].stage # "none" => read[y].stage # "none"
                           /\ read'[y].stage = "done" => read'[y] = read[y]
    BY <2>1, <2>2, <2>3, GiveUp
  <2> QED
    BY <1>1, <2>4, OutsideKeeps DEF ScanTypes
<1>3. CASE ~Stopped /\ Ask(<<x>>)
  <2> DEFINE q == <<x>>
  <2>1. q \in Seq(Read) /\ NoRepeats(q) /\ Range(q) = {x} /\ Ask(q)
    BY <1>3 DEF NoRepeats, Range
  <2> HIDE DEF q
  <2>2. /\ NetworkHolds'
        /\ \A y \in Read : IF y \in Range(q) THEN read'[y].stage \in Unanswered ELSE Kept(y)
        /\ Stopped => InStage(read', "flight") = InStage(read, "flight")
    BY <1>1, <2>1, AskFacts DEF IInv
  <2>3. \A y \in Read : /\ read'[y].stage # "none" => read[y].stage # "none"
                        /\ read'[y].stage = "done" => read'[y] = read[y]
    BY <1>1, <2>1, <2>2 DEF Kept, Unanswered
  <2> QED
    BY <1>1, <2>2, <2>3, OutsideKeeps DEF ScanTypes
<1> QED
  BY <1>2, <1>3 DEF Retry

LEMMA AbortKeeps ==
    ASSUME IInv, Abort
    PROVE  StepHolds
<1> DEFINE X == {x \in Read : read[x].stage = "waiting"}
<1>1. /\ aborted' = TRUE /\ UNCHANGED <<meanwhile, limiter, chain>> /\ ScanTypes
      /\ read' = [x \in Read |-> IF x \in X THEN [read[x] EXCEPT !.stage = "fatal"]
                                 ELSE read[x]]
  BY DEF Abort, IInv
<1>2. X \in SUBSET Read /\ \A x \in X : read[x].stage = "waiting"
  OBVIOUS
<1> HIDE DEF X
<1>3. /\ NetworkHolds' /\ InStage(read', "flight") = InStage(read, "flight")
      /\ \A x \in Read : /\ read'[x].stage # "none" => read[x].stage # "none"
                         /\ read'[x].stage = "done" => read'[x] = read[x]
  BY <1>1, <1>2, GiveUp
<1> QED
  BY <1>1, <1>3, OutsideKeeps DEF ScanTypes

LEMMA MovesKeeps ==
    ASSUME IInv, NEW a \in Address, Moves(a)
    PROVE  StepHolds
<1>1. /\ UNCHANGED <<meanwhile, aborted, read, limiter>> /\ ScanTypes
      /\ chain' = [chain EXCEPT ![a] = IF chain[a] = "funded" THEN "spent" ELSE "funded"]
  BY DEF Moves, network, IInv
<1>2. /\ chain' \in [Address -> State]
      /\ \A d \in Address : chain[d] # "fresh" => chain'[d] # "fresh"
  BY <1>1 DEF ScanTypes, State
<1>3. NetworkHolds'
  BY <1>1 DEF IInv, NetworkHolds
<1> QED
  BY <1>1, <1>2, <1>3, OutsideKeeps DEF ScanTypes

(***************************************************************************)
(* The initial states                                                      *)
(***************************************************************************)
LEMMA SetToSeqFacts ==
    ASSUME NEW S, IsFiniteSet(S)
    PROVE  SetToSeq(S) \in Seq(S) /\ NoRepeats(SetToSeq(S)) /\ Range(SetToSeq(S)) = S
<1> DEFINE n == Cardinality(S)
           f == SetToSeq(S)
<1>1. n \in Nat /\ ExistsBijection(1 .. n, S)
  BY FS_CardinalityType
<1>2. \E g \in [1 .. n -> S] : IsInjective(g)
  BY <1>1 DEF ExistsBijection, Bijection, Injection
<1>3. f \in [1 .. n -> S] /\ IsInjective(f)
  BY <1>2 DEF SetToSeq
<1> HIDE DEF f
<1>4. f \in Seq(S) /\ Len(f) = n /\ NoRepeats(f)
  BY <1>1, <1>3 DEF IsInjective, NoRepeats
<1>5. Range(f) = {f[k] : k \in 1 .. n} /\ Range(f) \subseteq S
  BY <1>4, RangeOfQueue, QueueType
<1>6. f \in Bijection(1 .. n, Range(f))
  BY <1>3, <1>5 DEF Bijection, Injection, Surjection, IsInjective
<1>7. Cardinality(Range(f)) = n
  BY <1>1, <1>6, FS_CountingElements DEF ExistsBijection
<1>8. Range(f) = S
  BY <1>5, <1>7, FS_Subset
<1> QED
  BY <1>4, <1>8 DEF f

LEMMA AddressesFinite ==
    ASSUME NEW b \in Branch
    PROVE  IsFiniteSet(On(b, Index))
<1>1. IsFiniteSet(Index) /\ IsFiniteSet({b})
  <2>1. IsFiniteSet(0 .. MaxIndex)
    BY ConstantFacts, FS_Interval
  <2> QED
    BY <2>1, FS_Singleton DEF Index
<1>2. IsFiniteSet({b} \X Index)
  BY <1>1, FS_Product
<1>3. On(b, Index) = {b} \X Index
  BY DEF On
<1> QED
  BY <1>2, <1>3

LEMMA KnownFacts ==
    ASSUME NEW s \in Start, NEW b \in Branch
    PROVE  /\ Known(s, b) \in Seq({b} \X Index) /\ NoRepeats(Known(s, b))
           /\ \A i \in Index : i < s.gap[b] \/ <<b, i>> \in s.used => <<b, i>> \in Range(Known(s, b))
<1> DEFINE p == [n \in 1 .. s.gap[b] |-> <<b, n - 1>>]
           S == s.used \cap On(b, Index)
           q == SetToSeq(S)
<1>1. /\ s.gap[b] \in Nat /\ s.gap[b] <= MaxIndex + 1 /\ MaxIndex \in Nat
      /\ \A a \in s.used : a[2] > s.gap[a[1]]
  BY ConstantFacts DEF Start
<1>2. p \in Seq({b} \X Index) /\ Len(p) = s.gap[b]
  BY <1>1 DEF Index
<1>3. \A n \in 1 .. s.gap[b] : p[n] = <<b, n - 1>>
  OBVIOUS
<1> HIDE DEF p
<1>4. NoRepeats(p)
  BY <1>1, <1>2, <1>3 DEF NoRepeats
<1>5. Range(p) = {p[n] : n \in 1 .. s.gap[b]}
  BY <1>2, RangeOfQueue
<1>6. \A i \in Index : i < s.gap[b] => <<b, i>> \in Range(p)
  <2> SUFFICES ASSUME NEW i \in Index, i < s.gap[b] PROVE <<b, i>> \in Range(p)
    OBVIOUS
  <2>1. i + 1 \in 1 .. s.gap[b] /\ (i + 1) - 1 = i
    BY <1>1 DEF Index
  <2>2. p[i + 1] = <<b, i>>
    BY <1>3, <2>1
  <2> QED
    BY <1>5, <2>1, <2>2
<1>7. IsFiniteSet(S) /\ S \subseteq {b} \X Index
  <2>1. S \subseteq On(b, Index) /\ IsFiniteSet(On(b, Index))
    BY AddressesFinite
  <2>2. IsFiniteSet(S)
    BY <2>1, FS_Subset
  <2> QED
    BY <2>1, <2>2 DEF On
<1> HIDE DEF S
<1>8. q \in Seq(S) /\ NoRepeats(q) /\ Range(q) = S
  BY <1>7, SetToSeqFacts
<1>9. q \in Seq({b} \X Index)
  BY <1>7, <1>8
<1> HIDE DEF q
<1>10. Range(p) \cap Range(q) = {}
  <2>1. \A a \in Range(p) : a[1] = b /\ a[2] < s.gap[b]
    BY <1>1, <1>3, <1>5
  <2>2. \A a \in S : a[1] = b /\ a[2] > s.gap[b] /\ a[2] \in Nat
    BY <1>1, ConstantFacts DEF S, On, Index
  <2> QED
    BY <1>1, <1>8, <2>1, <2>2
<1>11. p \o q \in Seq({b} \X Index) /\ NoRepeats(p \o q) /\ Range(p \o q) = Range(p) \cup S
  BY <1>2, <1>4, <1>8, <1>9, <1>10, ConcatQueue
<1>12. Known(s, b) = p \o q
  BY DEF Known, p, q, S
<1>13. \A i \in Index : <<b, i>> \in s.used => <<b, i>> \in S
  BY DEF S, On
<1> QED
  BY <1>6, <1>11, <1>12, <1>13

LEMMA InitHolds == Init => IInv
<1> SUFFICES ASSUME Init PROVE IInv
  OBVIOUS
<1>1. /\ start \in Starts /\ start \in Start /\ chain = start.chain
      /\ \A b \in Branch : start.gap[b] \in 0 .. MaxIndex + 1
      /\ chain \in [Address -> State]
  BY ConstantFacts DEF Init, Start
<1>2. \A b \in Branch : todo[b] = Known(start, b)
  BY DEF Init
<1>3. ASSUME NEW b \in Branch
      PROVE  /\ todo[b] \in Seq({b} \X Index) /\ NoRepeats(todo[b])
             /\ \A i \in Index : i < start.gap[b] \/ <<b, i>> \in start.used
                                   => <<b, i>> \in Range(todo[b])
  BY <1>1, <1>2, KnownFacts
<1>4. \A b \in Branch : todo[b] \in Seq(Address)
  <2>1. \A b \in Branch : \A t \in Seq({b} \X Index) : t \in Seq(Address)
    BY DEF Address
  <2> QED
    BY <1>3, <2>1
<1>5. ScanTypes
  <2>1. todo \in [Branch -> Seq(Address)]
    BY <1>4 DEF Init
  <2>2. /\ nextIndex \in [Branch -> 0 .. MaxIndex + 1]
        /\ consecutiveUnused \in [Branch -> 0 .. MaxIndex + 1]
    BY <1>1, ConstantFacts DEF Init
  <2>3. /\ stage \in [Branch -> {"refresh", "decide", "derive", "batch", "done", "failed"}]
        /\ current \in [Branch -> SUBSET Address] /\ broken \in [Branch -> BOOLEAN]
        /\ \A b \in Branch : current[b] \subseteq {b} \X Index
    BY DEF Init
  <2>4. record \in [Address -> {"none", "unused", "used"}]
    BY DEF Init
  <2>5. /\ failure \in {"none", "read", "fatal"} /\ aborted \in BOOLEAN
        /\ outcome \in {"running", "failed", "snapshot"}
    BY DEF Init
  <2> QED
    BY <1>1, <2>1, <2>2, <2>3, <2>4, <2>5 DEF ScanTypes
<1>6. NetworkHolds
  <2>1. Unread \in ReadRecord /\ Unread.stage = "none" /\ Unread.attempt = 0
    BY ConstantFacts DEF Unread, ReadRecord
  <2>2. read \in [Read -> ReadRecord] /\ \A x \in Read : read[x] = Unread
    BY <2>1 DEF Init
  <2>3. InStage(read, "queued") = {} /\ InStage(read, "flight") = {}
    BY <2>1, <2>2 DEF InStage
  <2>4. limiter.queue = <<>> /\ limiter.active = 0
    BY DEF Init
  <2>5. Cardinality(InStage(read, "flight")) = 0
    BY <2>3, FS_EmptySet
  <2> QED
    <3>1. <<>> \in Seq(Read) /\ Range(<<>>) = {} /\ NoRepeats(<<>>)
      BY EmptyQueue
    <3>2. 0 \in 0 .. Slots
      BY ConstantFacts
    <3>3. BooksHold(read, <<>>, 0)
      BY <2>1, <2>2, <2>3, <2>5, <3>1, <3>2 DEF BooksHold
    <3> QED
      BY <2>4, <3>3 DEF NetworkHolds
<1>7. Placed /\ Told /\ OutcomeHolds
  <2>1. \A x \in Read : read[x].stage = "none"
    BY DEF Init, Unread
  <2>2. \A a \in Address : <<a, "history">> \in Read
    BY DEF Read, Kind
  <2> QED
    BY <1>1, <2>1, <2>2 DEF Init, Placed, Told, OutcomeHolds
<1>8. ASSUME NEW b \in Branch PROVE BranchHolds(b)
  <2>1. /\ stage[b] = "refresh" /\ current[b] = {} /\ consecutiveUnused[b] = 0
        /\ nextIndex[b] = start.gap[b] /\ nextIndex[b] \in Nat
    BY <1>1 DEF Init
  <2>2. \A i \in Due(b) : Pending(b, i)
    BY <1>3, <2>1 DEF Due, Pending
  <2> QED
    BY <1>3, <2>1, <2>2 DEF BranchHolds
<1> QED
  BY <1>5, <1>6, <1>7, <1>8 DEF IInv

LEMMA StutterKeeps ==
    ASSUME IInv, UNCHANGED vars
    PROVE  StepHolds
<1>1. /\ UNCHANGED <<meanwhile, aborted, read, limiter, chain>> /\ ScanTypes
  BY DEF vars, network, control, meanwhile, IInv
<1>2. NetworkHolds'
  BY <1>1 DEF IInv, NetworkHolds
<1> QED
  BY <1>1, <1>2, OutsideKeeps DEF ScanTypes

LEMMA StepKeeps == IInv /\ [Next]_vars => StepHolds
<1> SUFFICES ASSUME IInv, [Next]_vars PROVE StepHolds
  OBVIOUS
<1>1. ASSUME NEW a \in Address, AddressStep(a) \/ Moves(a) PROVE StepHolds
  BY <1>1, AddressKeeps, MovesKeeps
<1>2. ASSUME NEW b \in Branch, BranchStep(b) \/ Derive(b) PROVE StepHolds
  BY <1>2, BranchKeeps, DeriveKeeps
<1>3. ASSUME NEW x \in Read, Answer(x) \/ Retry(x) \/ ReadFails(x) PROVE StepHolds
  BY <1>3, AnswerKeeps, RetryKeeps, ReadFailsKeeps
<1>4. CASE Settle \/ Abort \/ UNCHANGED vars
  BY <1>4, SettleKeeps, AbortKeeps, StutterKeeps
<1> QED
  BY <1>1, <1>2, <1>3, <1>4 DEF Next, Progress

(***************************************************************************)
(* The theorems                                                            *)
(***************************************************************************)
\* The invariant on which the other theorems rest: the limiter agrees with the
\* reads it holds, and every index a branch has passed was found used or unused
\* or is still to be scanned (transparentScan.ts:863-1020, concurrency.ts:18-50).
THEOREM ScanInvariant == Spec => []IInv
<1>1. IInv /\ [Next]_vars => IInv'
  BY StepKeeps DEF StepHolds
<1> QED
  BY InitHolds, <1>1, PTL DEF Spec

\* The state of a scan stays what its types say: no branch goes past the highest
\* index, no read has more attempts than allowed and no more reads are under way
\* than there are slots (transparentScan.ts:940-1020, concurrency.ts:18-50).
THEOREM TypesHold == Spec => []TypeOK
<1>1. IInv => TypeOK
  BY DEF IInv, ScanTypes, NetworkHolds, BooksHold, ReadRecord, TypeOK
<1> QED
  BY ScanInvariant, <1>1, PTL

\* Slots are given back by answers, failures and refused tasks alike, and none
\* is free while a read waits for one (concurrency.ts:24-41).
THEOREM SlotsAreKept == Spec => []SlotsKept
<1>1. IInv => SlotsKept
  BY DEF IInv, NetworkHolds, BooksHold, SlotsKept, InFlight, InStage
<1> QED
  BY ScanInvariant, <1>1, PTL

\* At the end of a branch its last Gap indices were found unused.
LEMMA GapFound ==
    ASSUME IInv, NEW b \in Branch, Trailing(b) >= Gap
    PROVE  /\ nextIndex[b] >= Gap
           /\ \A j \in nextIndex[b] - Gap .. nextIndex[b] - 1 : record[<<b, j>>] = "unused"
<1> DEFINE n == nextIndex[b]
           T == {i \in 0 .. n - 1 : \A j \in i .. n - 1 : record[<<b, j>>] = "unused"}
<1>1. ScanTypes /\ n \in Nat /\ Gap \in Nat /\ Gap > 0 /\ Trailing(b) \in 0 .. n
  BY SizeFacts, ConstantFacts, TrailingFacts DEF IInv
<1>2. Cardinality(T) >= Gap
  BY DEF Trailing
<1> HIDE DEF n
<1>3. n >= Gap
  BY <1>1 DEF n
<1>4. PICK i \in T : i <= n - Gap
  <2> SUFFICES ASSUME \A i \in T : i > n - Gap PROVE FALSE
    BY <1>1
  <2>1. T \subseteq n - Gap + 1 .. n - 1
    <3> SUFFICES ASSUME NEW i \in T PROVE i \in n - Gap + 1 .. n - 1
      OBVIOUS
    <3>1. i \in 0 .. n - 1 /\ i > n - Gap
      OBVIOUS
    <3> HIDE DEF T
    <3> QED
      BY <1>1, <3>1
  <2> HIDE DEF T
  <2> DEFINE lo == n - Gap + 1
             hi == n - 1
  <2>2. lo \in Int /\ hi \in Int /\ (IF lo > hi THEN 0 ELSE hi - lo + 1) = Gap - 1
    BY <1>1
  <2>3. T \subseteq lo .. hi
    BY <2>1
  <2> HIDE DEF lo, hi
  <2>4. IsFiniteSet(lo .. hi) /\ Cardinality(lo .. hi) = Gap - 1
    BY <2>2, FS_Interval
  <2>5. Cardinality(T) <= Gap - 1 /\ Cardinality(T) \in Nat
    BY <2>3, <2>4, FS_Subset, FS_CardinalityType
  <2> QED
    BY <1>1, <1>2, <2>5
<1>5. \A j \in i .. n - 1 : record[<<b, j>>] = "unused"
  BY <1>4
<1>6. \A j \in n - Gap .. n - 1 : j \in i .. n - 1
  BY <1>1, <1>4
<1> QED
  BY <1>3, <1>5, <1>6 DEF n

\* A snapshot proves discovery: every address with a transaction when the scan
\* began that the gap rule reaches or that was recovered before is found used,
\* and every index given out was read (transparentScan.ts:863-1020).
THEOREM DiscoveryIsProved == Spec => []Discovered
<1>1. IInv => Discovered
  <2> SUFFICES ASSUME IInv, outcome = "snapshot", NEW b \in Branch
               PROVE  LET used == {i \in Index : start.chain[<<b, i>>] # "fresh"}
                      IN  /\ \A i \in used : Reached(used, i) \/ <<b, i>> \in start.used
                                              => record[<<b, i>>] = "used"
                          /\ \A i \in Index : i < Issued[b] => record[<<b, i>>] # "none"
    BY DEF Discovered
  <2> DEFINE used == {i \in Index : start.chain[<<b, i>>] # "fresh"}
             n == nextIndex[b]
  <2>1. /\ BranchHolds(b) /\ ScanTypes /\ stage[b] = "done"
        /\ Trailing(b) >= Gap /\ Issued[b] <= n
        /\ todo[b] = <<>> /\ current[b] = {} /\ ~broken[b]
    BY DEF IInv, OutcomeHolds, BranchHolds
  <2>2. /\ n \in Nat /\ Issued[b] \in Nat /\ Gap \in Nat /\ Gap > 0 /\ MaxIndex \in Nat
    BY <2>1, SizeFacts, ConstantFacts
  <2>3. /\ n >= Gap
        /\ \A j \in n - Gap .. n - 1 : record[<<b, j>>] = "unused"
    BY <2>1, GapFound
  <2>4. \A i \in Due(b) : Fine(<<b, i>>)
    <3>1. \A i \in Index : ~Pending(b, i)
      BY <2>1, EmptyQueue DEF Pending
    <3>2. Due(b) \subseteq Index
      BY DEF Due
    <3> QED
      BY <2>1, <3>1, <3>2 DEF BranchHolds
  <2>5. \A i \in Index : i < n \/ <<b, i>> \in start.used => Fine(<<b, i>>)
    BY <2>4 DEF Due
  <2>6. n <= MaxIndex + 1
    BY <2>1, <2>2 DEF ScanTypes
  <2> HIDE DEF n
  <2>7. \A i \in Index : i < Issued[b] => record[<<b, i>>] # "none"
    BY <2>1, <2>2, <2>5 DEF Fine, Index
  <2>8. ASSUME NEW i \in used, Reached(used, i) PROVE i < n
    <3> SUFFICES ASSUME i >= n PROVE FALSE
      BY <2>2 DEF Index
    <3>1. n \in Gap .. i
      BY <2>2, <2>3 DEF Index
    <3>2. PICK k \in n - Gap .. n - 1 : k \in used
      BY <2>8, <3>1 DEF Reached
    <3>3. record[<<b, k>>] = "unused" /\ k \in Index /\ k < n
      BY <2>2, <2>3, <3>2
    <3>4. start.chain[<<b, k>>] = "fresh"
      BY <2>5, <3>3 DEF Fine
    <3> QED
      BY <3>2, <3>4
  <2>9. ASSUME NEW i \in used, Reached(used, i) \/ <<b, i>> \in start.used
        PROVE  record[<<b, i>>] = "used"
    <3>1. i \in Index /\ start.chain[<<b, i>>] # "fresh"
      OBVIOUS
    <3>2. i < n \/ <<b, i>> \in start.used
      BY <2>8, <2>9
    <3>3. Fine(<<b, i>>)
      BY <2>5, <3>1, <3>2
    <3>4. record[<<b, i>>] \in {"none", "unused", "used"}
      BY <2>1, <3>1 DEF ScanTypes, Address
    <3> QED
      BY <3>1, <3>3, <3>4 DEF Fine
  <2> QED
    BY <2>7, <2>9
<1> QED
  BY ScanInvariant, <1>1, PTL

\* Once all branches are done nothing is left to ask, and nothing is under way.
LEMMA DoneIsQuiet ==
    ASSUME IInv, outcome = "snapshot"
    PROVE  /\ \A x \in Read : read[x].stage = "none"
           /\ \A a \in Address : a \notin current[a[1]]
           /\ \A b \in Branch : stage[b] = "done"
<1>1. \A b \in Branch : stage[b] = "done" /\ current[b] = {} /\ ~broken[b]
  BY DEF IInv, OutcomeHolds, BranchHolds
<1>2. \A a \in Address : a[1] \in Branch
  BY AddressParts
<1>3. \A x \in Read : x[1][1] \in Branch
  BY ReadParts, AddressParts
<1> QED
  BY <1>1, <1>2, <1>3 DEF IInv, Placed

\* After the first failure, an abort or the end of the scan no read is sent any
\* more and no snapshot comes out (transparentScan.ts:232-242, 1063-1067, 1097).
THEOREM FailuresStop == Spec => FailureStops
<1> DEFINE Stays == Stopped \/ outcome # "running" =>
                      /\ InFlight' \subseteq InFlight
                      /\ outcome' = "snapshot" => outcome = "snapshot"
<1>1. ASSUME IInv, [Next]_vars PROVE Stays
  <2>1. InFlight = InStage(read, "flight") /\ InFlight' = InStage(read', "flight")
    BY DEF InFlight, InStage
  <2>2. StepHolds
    BY <1>1, StepKeeps
  <2>3. outcome' = outcome \/ Settle
    BY <1>1 DEF Next, Progress, AddressStep, BranchStep, Derive, Answer, Retry, ReadFails,
                Abort, Moves, meanwhile, vars
  <2>4. CASE Stopped
    <3>1. outcome' = "snapshot" => outcome = "snapshot"
      BY <2>3, <2>4 DEF Settle
    <3> QED
      BY <2>1, <2>2, <2>4, <3>1 DEF StepHolds
  <2>5. CASE outcome # "running" /\ ~Stopped
    <3>1. outcome = "snapshot" /\ outcome' = outcome
      BY <1>1, <2>3, <2>5 DEF IInv, ScanTypes, OutcomeHolds, Settle
    <3>2. /\ \A x \in Read : read[x].stage = "none"
          /\ \A a \in Address : a \notin current[a[1]]
          /\ \A b \in Branch : stage[b] = "done"
      BY <1>1, <3>1, DoneIsQuiet
    <3>3. read' = read
      <4>1. ASSUME NEW a \in Address, AddressStep(a) PROVE FALSE
        BY <3>2, <4>1 DEF AddressStep, AddressReady
      <4>2. ASSUME NEW b \in Branch, BranchStep(b) \/ Derive(b) PROVE FALSE
        BY <3>2, <4>2 DEF BranchStep, WorkerTakes, Refreshed, Decide, Scanned, Derive
      <4>3. ASSUME NEW x \in Read, Answer(x) \/ Retry(x) \/ ReadFails(x) PROVE FALSE
        BY <3>2, <4>3 DEF Answer, Retry, ReadFails
      <4>4. ~Abort /\ ~Settle /\ \A a \in Address : ~Moves(a)
        BY <3>1 DEF Abort, Settle, Moves
      <4>5. UNCHANGED vars
        BY <1>1, <4>1, <4>2, <4>3, <4>4 DEF Next, Progress
      <4> QED
        BY <4>5 DEF vars, network
    <3> QED
      BY <2>1, <3>1, <3>3
  <2> QED
    BY <2>4, <2>5
<1>2. IInv /\ [Next]_vars => [Stays]_vars
  BY <1>1
<1> QED
  BY ScanInvariant, <1>2, PTL DEF Spec, FailureStops
=============================================================================
