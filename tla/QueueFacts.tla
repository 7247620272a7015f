------------------------------ MODULE QueueFacts -------------------------------
(***************************************************************************)
(* Facts about queues in which nothing occurs twice: the request queue of  *)
(* the Electrum client and the queue of the scan's limiter.                *)
(***************************************************************************)
EXTENDS Sequences, Integers, Functions, FiniteSetTheorems, TLAPS

NoRepeats(q) == \A m, n \in 1 .. Len(q) : q[m] = q[n] => m = n

LEMMA RangeOfQueue ==
    ASSUME NEW S, NEW q \in Seq(S)
    PROVE  Range(q) = {q[n] : n \in 1 .. Len(q)}
BY DEF Range

LEMMA EmptyQueue == Range(<<>>) = {} /\ NoRepeats(<<>>)
BY DEF Range, NoRepeats

LEMMA QueueType ==
    ASSUME NEW S, NEW q \in Seq(S)
    PROVE  Range(q) \subseteq S
BY RangeOfQueue

LEMMA ConcatQueue ==
    ASSUME NEW S, NEW p \in Seq(S), NEW q \in Seq(S)
    PROVE  /\ p \o q \in Seq(S)
           /\ Range(p \o q) = Range(p) \cup Range(q)
           /\ NoRepeats(p) /\ NoRepeats(q) /\ Range(p) \cap Range(q) = {}
                => NoRepeats(p \o q)
<1>1. /\ Len(p) \in Nat /\ Len(q) \in Nat
      /\ p \o q \in Seq(S) /\ Len(p \o q) = Len(p) + Len(q)
      /\ \A n \in 1 .. Len(p) + Len(q) :
            (p \o q)[n] = IF n <= Len(p) THEN p[n] ELSE q[n - Len(p)]
  OBVIOUS
<1>q. /\ Range(p) = {p[n] : n \in 1 .. Len(p)} /\ Range(q) = {q[n] : n \in 1 .. Len(q)}
      /\ Range(p \o q) = {(p \o q)[n] : n \in 1 .. Len(p) + Len(q)}
  BY <1>1, RangeOfQueue
<1> USE <1>q
<1>2. Range(p) \cup Range(q) \subseteq Range(p \o q)
  <2>1. ASSUME NEW n \in 1 .. Len(p) PROVE p[n] \in Range(p \o q)
    <3>1. n \in 1 .. Len(p) + Len(q) /\ (p \o q)[n] = p[n]
      BY <1>1
    <3>2. QED
      BY <3>1, <1>1
  <2>2. ASSUME NEW n \in 1 .. Len(q) PROVE q[n] \in Range(p \o q)
    <3>1. Len(p) + n \in 1 .. Len(p) + Len(q) /\ (p \o q)[Len(p) + n] = q[n]
      BY <1>1
    <3>2. QED
      BY <3>1, <1>1
  <2>3. QED
    BY <2>1, <2>2
<1>3. Range(p \o q) \subseteq Range(p) \cup Range(q)
  <2>1. ASSUME NEW n \in 1 .. Len(p) + Len(q)
        PROVE  (p \o q)[n] \in Range(p) \cup Range(q)
    <3>1. CASE n <= Len(p)
      BY <1>1, <3>1
    <3>2. CASE ~ n <= Len(p)
      <4>1. n - Len(p) \in 1 .. Len(q) /\ (p \o q)[n] = q[n - Len(p)]
        BY <1>1, <3>2
      <4>2. QED
        BY <4>1
    <3>3. QED
      BY <3>1, <3>2
  <2>2. QED
    BY <2>1, <1>1
<1>4. ASSUME NoRepeats(p), NoRepeats(q), Range(p) \cap Range(q) = {},
             NEW m \in 1 .. Len(p) + Len(q), NEW n \in 1 .. Len(p) + Len(q),
             (p \o q)[m] = (p \o q)[n]
      PROVE  m = n
  <2>1. CASE m <= Len(p) /\ n <= Len(p)
    BY <1>1, <1>4, <2>1 DEF NoRepeats
  <2>2. CASE m > Len(p) /\ n > Len(p)
    <3>1. m - Len(p) \in 1 .. Len(q) /\ n - Len(p) \in 1 .. Len(q)
      BY <1>1, <2>2
    <3>2. q[m - Len(p)] = q[n - Len(p)]
      BY <1>1, <1>4, <2>2
    <3>3. m - Len(p) = n - Len(p)
      BY <1>4, <3>1, <3>2 DEF NoRepeats
    <3>4. QED
      BY <1>1, <3>3
  <2>3. CASE m <= Len(p) /\ n > Len(p)
    <3>1. n - Len(p) \in 1 .. Len(q) /\ m \in 1 .. Len(p)
      BY <1>1, <2>3
    <3>2. p[m] = q[n - Len(p)]
      BY <1>1, <1>4, <2>3
    <3>3. QED
      BY <1>4, <3>1, <3>2
  <2>4. CASE m > Len(p) /\ n <= Len(p)
    <3>1. m - Len(p) \in 1 .. Len(q) /\ n \in 1 .. Len(p)
      BY <1>1, <2>4
    <3>2. p[n] = q[m - Len(p)]
      BY <1>1, <1>4, <2>4
    <3>3. QED
      BY <1>4, <3>1, <3>2
  <2>5. QED
    BY <1>1, <2>1, <2>2, <2>3, <2>4
<1>5. QED
  BY <1>1, <1>2, <1>3, <1>4 DEF NoRepeats

LEMMA AppendQueue ==
    ASSUME NEW S, NEW q \in Seq(S), NEW r \in S
    PROVE  /\ Append(q, r) \in Seq(S)
           /\ Range(Append(q, r)) = Range(q) \cup {r}
           /\ NoRepeats(q) /\ r \notin Range(q) => NoRepeats(Append(q, r))
<1>1. Append(q, r) = q \o <<r>> /\ <<r>> \in Seq(S)
  OBVIOUS
<1>2. Range(<<r>>) = {r} /\ NoRepeats(<<r>>)
  BY DEF Range, NoRepeats
<1>3. \A p \in Seq(S) :
        /\ q \o p \in Seq(S)
        /\ Range(q \o p) = Range(q) \cup Range(p)
        /\ NoRepeats(q) /\ NoRepeats(p) /\ Range(q) \cap Range(p) = {}
             => NoRepeats(q \o p)
  BY ConcatQueue
<1>4. PICK p \in Seq(S) : p = <<r>>
  BY <1>1
<1>5. Append(q, r) = q \o p /\ Range(p) = {r} /\ NoRepeats(p)
  BY <1>1, <1>2, <1>4
<1>6. QED
  BY <1>3, <1>5

\* The first n of a sequence and the rest of it.
LEMMA SplitQueue ==
    ASSUME NEW S, NEW q \in Seq(S), NoRepeats(q), NEW n \in 0 .. Len(q)
    PROVE  LET head == SubSeq(q, 1, n)
               rest == SubSeq(q, n + 1, Len(q))
           IN  /\ head \in Seq(S) /\ rest \in Seq(S)
               /\ NoRepeats(rest) /\ Len(rest) = Len(q) - n
               /\ Range(head) \cup Range(rest) = Range(q)
               /\ Range(head) \cap Range(rest) = {}
               /\ IsFiniteSet(Range(head)) /\ Cardinality(Range(head)) = n
<1> DEFINE head == SubSeq(q, 1, n)
           rest == SubSeq(q, n + 1, Len(q))
<1>1. /\ Len(q) \in Nat
      /\ head \in Seq(S) /\ Len(head) = n
      /\ \A m \in 1 .. n : head[m] = q[m]
  OBVIOUS
<1>2. /\ rest \in Seq(S) /\ Len(rest) = Len(q) - n
      /\ \A m \in 1 .. Len(q) - n : rest[m] = q[n + m]
  OBVIOUS
<1>q. /\ Range(q) = {q[m] : m \in 1 .. Len(q)}
      /\ Range(head) = {head[m] : m \in 1 .. n}
      /\ Range(rest) = {rest[m] : m \in 1 .. Len(q) - n}
  BY <1>1, <1>2, RangeOfQueue
<1> USE <1>q
<1>3. Range(head) = {q[m] : m \in 1 .. n}
  BY <1>1
<1>4. Range(rest) = {q[m] : m \in n + 1 .. Len(q)}
  <2>1. ASSUME NEW m \in 1 .. Len(q) - n PROVE rest[m] \in {q[k] : k \in n + 1 .. Len(q)}
    <3>1. n + m \in n + 1 .. Len(q)
      BY <1>1
    <3>2. QED
      BY <1>2, <3>1
  <2>2. ASSUME NEW m \in n + 1 .. Len(q) PROVE q[m] \in Range(rest)
    <3>1. m - n \in 1 .. Len(q) - n /\ n + (m - n) = m
      BY <1>1
    <3>2. rest[m - n] = q[m]
      BY <1>2, <3>1
    <3>3. QED
      BY <1>2, <3>1, <3>2
  <2>3. QED
    BY <1>2, <2>1, <2>2
<1>5. Range(head) \cup Range(rest) = Range(q)
  <2>1. 1 .. Len(q) = (1 .. n) \cup (n + 1 .. Len(q))
    BY <1>1
  <2>2. QED
    BY <1>3, <1>4, <2>1
<1>6. Range(head) \cap Range(rest) = {}
  <2>1. \A k \in 1 .. n, m \in n + 1 .. Len(q) : q[k] # q[m]
    BY <1>1 DEF NoRepeats
  <2>2. QED
    BY <1>3, <1>4, <2>1
<1>7. NoRepeats(rest)
  <2>1. ASSUME NEW k \in 1 .. Len(q) - n, NEW m \in 1 .. Len(q) - n, rest[k] = rest[m]
        PROVE  k = m
    <3>1. n + k \in 1 .. Len(q) /\ n + m \in 1 .. Len(q) /\ q[n + k] = q[n + m]
      BY <1>1, <1>2, <2>1
    <3>2. n + k = n + m
      BY <3>1 DEF NoRepeats
    <3>3. QED
      BY <3>2
  <2>2. QED
    BY <1>2, <2>1 DEF NoRepeats
<1>8. IsFiniteSet(Range(head)) /\ Cardinality(Range(head)) = n
  <2> DEFINE f == [m \in 1 .. n |-> q[m]]
  <2>1. f \in Bijection(1 .. n, Range(head))
    <3>1. f \in [1 .. n -> Range(head)]
      BY <1>3
    <3>2. \A k, m \in 1 .. n : f[k] = f[m] => k = m
      BY <1>1 DEF NoRepeats
    <3>3. \A x \in Range(head) : \E m \in 1 .. n : f[m] = x
      BY <1>3
    <3>4. QED
      BY <3>1, <3>2, <3>3 DEF Bijection, Injection, Surjection, IsInjective
  <2>2. ExistsBijection(1 .. n, Range(head))
    BY <2>1 DEF ExistsBijection
  <2>3. QED
    BY <1>1, <2>2, FS_CountingElements, FS_Interval, FS_Bijection
<1>9. QED
  BY <1>1, <1>2, <1>5, <1>6, <1>7, <1>8

\* The first of a sequence and the rest of it.
LEMMA HeadQueue ==
    ASSUME NEW S, NEW q \in Seq(S), NoRepeats(q), q # <<>>
    PROVE  /\ Head(q) \in S /\ Tail(q) \in Seq(S) /\ NoRepeats(Tail(q))
           /\ Range(q) = {Head(q)} \cup Range(Tail(q)) /\ Head(q) \notin Range(Tail(q))
<1> DEFINE r == Tail(q)
<1>1. /\ Len(q) \in Nat /\ Len(q) > 0 /\ Head(q) = q[1] /\ Head(q) \in S
      /\ r \in Seq(S) /\ Len(r) = Len(q) - 1
      /\ \A n \in 1 .. Len(q) - 1 : r[n] = q[n + 1]
  OBVIOUS
<1> HIDE DEF r
<1>2. Range(q) = {q[n] : n \in 1 .. Len(q)} /\ Range(r) = {r[n] : n \in 1 .. Len(q) - 1}
  BY <1>1, RangeOfQueue
<1>3. \A n \in 2 .. Len(q) : n - 1 \in 1 .. Len(q) - 1 /\ r[n - 1] = q[n]
  BY <1>1
<1>4. Range(q) = {q[1]} \cup Range(r)
  <2>1. \A n \in 1 .. Len(q) : n = 1 \/ n \in 2 .. Len(q)
    BY <1>1
  <2>2. \A n \in 1 .. Len(q) - 1 : r[n] \in Range(q)
    BY <1>1, <1>2
  <2>3. \A n \in 1 .. Len(q) : q[n] \in {q[1]} \cup Range(r)
    BY <1>2, <1>3, <2>1
  <2>4. q[1] \in Range(q)
    BY <1>1, <1>2
  <2> QED
    BY <1>2, <2>2, <2>3, <2>4
<1>5. q[1] \notin Range(r)
  <2>1. ASSUME NEW n \in 1 .. Len(q) - 1 PROVE r[n] # q[1]
    <3>1. n + 1 \in 1 .. Len(q) /\ 1 \in 1 .. Len(q) /\ n + 1 # 1
      BY <1>1
    <3> QED
      BY <1>1, <3>1 DEF NoRepeats
  <2> QED
    BY <1>2, <2>1
<1>6. NoRepeats(r)
  <2>1. ASSUME NEW m \in 1 .. Len(q) - 1, NEW n \in 1 .. Len(q) - 1, r[m] = r[n]
        PROVE  m = n
    <3>1. m + 1 \in 1 .. Len(q) /\ n + 1 \in 1 .. Len(q) /\ q[m + 1] = q[n + 1]
      BY <1>1, <2>1
    <3>2. m + 1 = n + 1
      BY <3>1 DEF NoRepeats
    <3> QED
      BY <3>2
  <2> QED
    BY <1>1, <2>1 DEF NoRepeats
<1> QED
  BY <1>1, <1>4, <1>5, <1>6 DEF r
=============================================================================
