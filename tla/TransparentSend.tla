---------------------------- MODULE TransparentSend ----------------------------
(***************************************************************************)
(* Building a spend (transparentSend.ts): which coins pay for the outputs, *)
(* the most that can be sent, a replacement that cancels a transaction,    *)
(* and the plan of a consolidation.  Pure operators: no state.             *)
(*                                                                         *)
(* Amounts are in a unit of the instance.  Every input has one size and so *)
(* has every output: the table of sizes per script is not modelled.        *)
(***************************************************************************)
EXTENDS Integers, Sequences, FiniteSets, FiniteSetsExt, SequencesExt

CONSTANTS
    None,               \* no such thing
    Coin,               \* coins, numbered in the order of their outpoints
    Value,              \* [Coin -> amount]
    Dust,               \* DUST_LIMIT_SATS
    Overhead, InSize, OutSize,  \* bytes of a transaction, an input, an output
    MaxRate,            \* MAX_FEE_PER_VBYTE
    PremiumCap,         \* cap of the fee premium of a selection
    MaxRecipients,      \* MAX_SEND_RECIPIENTS
    MinUtxos, Steps, MinPerOutput, MaxBatchBytes    \* CONSOLIDATION_*

\* What coin selection answers with, or None.
Selection == [inputs : SUBSET Coin, fee : Nat, change : Nat]

ASSUME SendAssumption ==
    /\ None \notin Selection
    /\ Coin \subseteq Nat /\ IsFiniteSet(Coin)
    /\ Value \in [Coin -> Nat \ {0}]
    /\ Dust \in Nat \ {0}
    /\ Overhead \in Nat \ {0} /\ InSize \in Nat \ {0} /\ OutSize \in Nat \ {0}
    /\ MaxRate \in Nat \ {0} /\ PremiumCap \in Nat
    /\ MaxRecipients \in Nat \ {0} /\ MinUtxos \in Nat
    /\ Steps \in Seq(Nat \ {0}) /\ Steps # <<>>
    /\ MinPerOutput \in Nat \ {0} /\ MaxBatchBytes \in Nat

Total(coins) == MapThenSumSet(LAMBDA c : Value[c], coins)
Sum(numbers) == FoldLeft(+, 0, numbers)
Amount(outputs) == Sum([i \in DOMAIN outputs |-> outputs[i].amount])
Bytes(inputs, outputs) == Overhead + inputs * InSize + outputs * OutSize
ValidRate(rate) == rate \in 1 .. MaxRate
Lesser(a, b) == IF a < b THEN a ELSE b
Larger(a, b) == IF a > b THEN a ELSE b

\* normalizeSendOutputs.  An address is an address of the instance: there is no
\* unreadable one but the empty one.
Sendable(outputs) ==
    /\ Len(outputs) \in 1 .. MaxRecipients
    /\ \A i \in DOMAIN outputs : outputs[i].to # None /\ outputs[i].amount >= Dust

(***************************************************************************)
(* Coin selection                                                          *)
(***************************************************************************)
\* What btc.selectUTXO makes of just these inputs, for n outputs of amount
\* target in all: rest is what they leave, plain the fee without a change output
\* and changed the fee with one.  A change that would be dust goes to the fee.
Settle(inputs, rest, plain, changed) ==
    IF rest >= changed + Dust
    THEN [inputs |-> inputs, fee |-> changed, change |-> rest - changed]
    ELSE IF rest >= plain
    THEN [inputs |-> inputs, fee |-> rest, change |-> 0]
    ELSE None

Fund(inputs, target, n, rate) ==
    Settle(inputs, Total(inputs) - target,
           rate * Bytes(Cardinality(inputs), n),
           rate * Bytes(Cardinality(inputs), n + 1))

Funded(sets, target, n, rate) ==
    {Fund(s, target, n, rate) : s \in sets} \ {None}

Fewest(found) ==
    IF found = {} THEN None
    ELSE CHOOSE f \in found : \A g \in found : f.inputs \subseteq g.inputs

\* btc.selectUTXO "accumBiggest": the biggest coins, as few as will do.
AccumBiggest(coins, target, n, rate) ==
    LET Before(c, d) == Value[c] > Value[d] \/ (Value[c] = Value[d] /\ c <= d)
    IN  Fewest(Funded({{c \in coins : Before(c, d)} : d \in coins}, target, n, rate))

AnyOr(set, other) == IF set = {} THEN other ELSE CHOOSE x \in set : TRUE

\* btc.selectUTXO "default": an exact match, else the biggest coins.
SelectDefault(coins, target, n, rate) ==
    AnyOr({f \in Funded((SUBSET coins) \ {{}}, target, n, rate) :
              f.change = 0 /\ f.fee < rate * Bytes(Cardinality(f.inputs), n) + Dust},
          AccumBiggest(coins, target, n, rate))

Inputs(f) == Cardinality(f.inputs)
TotalInput(f) == Total(f.inputs)

Cheaper(f, g) ==
    \/ f.fee < g.fee
    \/ f.fee = g.fee /\ \/ Inputs(f) < Inputs(g)
                        \/ Inputs(f) = Inputs(g) /\ TotalInput(f) <= TotalInput(g)

\* The order of the second pass.
Leaner(f, g) ==
    \/ Inputs(f) < Inputs(g)
    \/ Inputs(f) = Inputs(g) /\ \/ TotalInput(f) < TotalInput(g)
                                \/ TotalInput(f) = TotalInput(g) /\ f.fee <= g.fee

Cheapest(set) == CHOOSE f \in set : \A g \in set : Cheaper(f, g)
Leanest(set) == CHOOSE f \in set : \A g \in set : Leaner(f, g)

MaxPremium(fee) == Lesser(fee \div 4, PremiumCap)

\* The candidates whose fee is within the premium over the cheapest and that
\* neither add inputs nor move more money.
Eligible(candidates, best) ==
    {f \in candidates : /\ f.fee <= best.fee + MaxPremium(best.fee)
                        /\ Inputs(f) <= Inputs(best)
                        /\ TotalInput(f) <= TotalInput(best)}

Optimized(candidates) == Leanest(Eligible(candidates, Cheapest(candidates)))

\* selectSpend: the first choice, or the leanest of all candidates: the first
\* choice, the biggest coins, and each coin that may pay alone.
Selected(first, coins, target, n, rate, optimize) ==
    IF first = None \/ ~optimize \/ Cardinality(coins) <= 1
    THEN first
    ELSE Optimized(( {first, AccumBiggest(coins, target, n, rate)}
                     \cup {SelectDefault({c}, target, n, rate) :
                             c \in {d \in coins : Value[d] > target}} ) \ {None})

SelectSpend(coins, target, n, rate, optimize) ==
    Selected(SelectDefault(coins, target, n, rate), coins, target, n, rate, optimize)

\* The binary search for the largest feasible amount from low to high; 0 if
\* there is none.  range is what is left between low and high.
MaxFeasible(low, high, feasible) ==
    LET search[range \in SUBSET (low .. high)] ==
          IF range = {} THEN 0
          ELSE LET mid == (Min(range) + Max(range)) \div 2
               IN  IF mid \in feasible
                   THEN Larger(mid, search[{x \in range : x > mid}])
                   ELSE search[{x \in range : x < mid}]
    IN  search[low .. high]

Fits(coins, target, n, rate) == SelectSpend(coins, target, n, rate, FALSE) # None

\* Mutant of CalculateMax: room is kept for a change output.
CalculateMax_WithChange(coins, fixed, n, rate) ==
    MaxFeasible(Dust, Total(coins) - fixed,
                {amount \in Nat : Fits(coins, fixed + amount, n + 1, rate)})

\* calculateMaxTransparentSendAmount for the last of n outputs, the others
\* being fixed; 0 when nothing can be sent.
CalculateMax(coins, fixed, n, rate) ==
    MaxFeasible(Dust, Total(coins) - fixed,
                {amount \in Nat : Fits(coins, fixed + amount, n, rate)})

(***************************************************************************)
(* Transactions                                                            *)
(***************************************************************************)
\* A transaction: own is the address of the wallet's own outputs, of which
\* there are pieces, worth ownValue together.
Transaction(inputs, outputs, own, pieces, ownValue) ==
    [inputs |-> inputs, outputs |-> outputs, own |-> own, pieces |-> pieces,
     ownValue |-> ownValue,
     fee |-> Total(inputs) - Amount(outputs) - ownValue]

VSize(tx) == Bytes(Cardinality(tx.inputs), Len(tx.outputs) + tx.pieces)

\* buildTransparentTx: the coins selected pay the outputs and the change.
Paying(s, outputs, change) ==
    IF s = None THEN None
    ELSE IF s.change = 0
    THEN Transaction(s.inputs, outputs, None, 0, 0)
    ELSE Transaction(s.inputs, outputs, change, 1, s.change)

BuildSend(coins, outputs, rate, change) ==
    IF ~ValidRate(rate) \/ ~Sendable(outputs) \/ coins = {} THEN None
    ELSE Paying(SelectSpend(coins, Amount(outputs), Len(outputs), rate, TRUE),
                outputs, change)

\* estimateTransparentMultiSend, as far as the review keeps it.
Estimate(tx) == [fee |-> tx.fee, inputs |-> Cardinality(tx.inputs),
                 outputs |-> Len(tx.outputs) + tx.pieces,
                 changeUsed |-> tx.pieces > 0]

(***************************************************************************)
(* Replacement                                                             *)
(***************************************************************************)
CeilDiv(a, b) == (a + b - 1) \div b

\* addRbfNetworkFeeMargin: 20 percent more, rounded up.
AddRbfNetworkFeeMargin(rate) == (rate * 120 + 99) \div 100

RbfBytes(inputs) == Bytes(inputs, 1) + Larger(4, inputs)

\* RBF_MINIMUM_ABSOLUTE_INCREASE_PER_VBYTE is 1.
RbfFee(tx, rate, bytes) == Larger(rate * bytes, tx.fee + bytes)

QuoteOf(fee, rate, output, bytes) ==
    IF output < Dust THEN None
    ELSE [fee |-> fee, rate |-> rate, output |-> output, bytes |-> bytes]

QuoteAt(tx, rate, fee) ==
    QuoteOf(fee, rate, Total(tx.inputs) - fee, RbfBytes(Cardinality(tx.inputs)))

\* The rate of a replacement: above the original's.
RbfRate(tx, rate) == Larger(rate, CeilDiv(tx.fee, VSize(tx)) + 1)

\* estimateTransparentRbfCancellation: one output that returns everything, at
\* a rate above the original's and a fee above it by one per byte.
RbfQuote(tx, rate) ==
    IF ~ValidRate(rate) THEN None
    ELSE QuoteAt(tx, RbfRate(tx, rate),
                 RbfFee(tx, RbfRate(tx, rate), RbfBytes(Cardinality(tx.inputs))))

\* buildTransparentRbfCancellation, of the quote at its rate.
Replacing(tx, quote, own) == Transaction(tx.inputs, <<>>, own, 1, quote.output)

RbfAllowed(tx, quote, size) ==
    /\ size <= quote.bytes
    /\ quote.fee >= quote.rate * size
    /\ quote.fee >= tx.fee + size

Replace(tx, quote, own) ==
    IF quote # None /\ RbfAllowed(tx, quote, VSize(Replacing(tx, quote, own)))
    THEN Replacing(tx, quote, own) ELSE None

BuildRbf(tx, rate, own) == Replace(tx, RbfQuote(tx, rate), own)

(***************************************************************************)
(* Consolidation                                                           *)
(***************************************************************************)
BatchSize == Larger(1, (MaxBatchBytes - Bytes(0, Steps[1])) \div InSize)

\* How many coins come before c in ascending order.
Rank(coins, c) ==
    Cardinality({d \in coins : Value[d] < Value[c] \/ (Value[d] = Value[c] /\ d < c)})

\* The coins in ascending order, cut into batches that fit a transaction.
Batch(coins, b) == {c \in coins : Rank(coins, c) \div BatchSize = b - 1}
Batches(coins) == 1 .. CeilDiv(Cardinality(coins), BatchSize)

\* The batches of two coins or more.  A batch of one coin is the last, or else
\* all are.
UsefulBatches(coins) ==
    LET useful == {b \in Batches(coins) : Cardinality(Batch(coins, b)) >= 2}
    IN  [b \in 1 .. Cardinality(useful) |-> Batch(coins, b)]

\* calculateMaxEqualSplit
EqualSplit(coins, n, rate) ==
    MaxFeasible(Dust, Total(coins) \div n,
                {piece \in Nat : Fits(coins, n * piece, n, rate)})

\* A split the plan accepts: every coin goes in, nothing comes back as change.
Splits(coins, n, piece, rate) ==
    /\ piece >= MinPerOutput
    /\ \E s \in {SelectSpend(coins, n * piece, n, rate, FALSE)} :
          s.inputs = coins /\ s.change = 0

\* The transaction of one batch, into the first number of outputs that will
\* do: n(i) of them at the i-th step.
ConsolidateBatch(coins, rate, own) ==
    LET n(i) == Lesser(Steps[i], Cardinality(coins))
        pieces == [i \in DOMAIN Steps |-> EqualSplit(coins, n(i), rate)]
        Made(good) == IF good = {} THEN None
                      ELSE Transaction(coins, <<>>, own, n(Min(good)),
                                       n(Min(good)) * pieces[Min(good)])
    IN  Made({i \in DOMAIN Steps : Splits(coins, n(i), pieces[i], rate)})

AllOrNone(txs) == IF txs = <<>> \/ \E b \in DOMAIN txs : txs[b] = None THEN None ELSE txs

\* planTransparentConsolidation and buildTransparentConsolidation: the
\* transactions, or None.
Consolidate(coins, rate, own) ==
    LET Each(batches) == [b \in DOMAIN batches |-> ConsolidateBatch(batches[b], rate, own)]
    IN  IF ~ValidRate(rate) \/ Cardinality(coins) < MinUtxos THEN None
        ELSE AllOrNone(Each(UsefulBatches(coins)))

PlanOf(txs) == [inputs |-> Sum([b \in DOMAIN txs |-> Cardinality(txs[b].inputs)]),
                outputs |-> Sum([b \in DOMAIN txs |-> txs[b].pieces]),
                fee |-> Sum([b \in DOMAIN txs |-> txs[b].fee])]
=============================================================================
