---------------------------- MODULE SendFlowProofs ----------------------------
(***************************************************************************)
(* What the flows of the dashboard keep for every set of coins, forms,     *)
(* rates and bounds: what is sent was reviewed, no two transactions known  *)
(* to be accepted spend the same coin unless one replaces the other, nor   *)
(* pay the same change address, no address is given twice, an address that *)
(* is shown or that a flow goes on with is scanned, a quote fits its       *)
(* dialog, and the flows never all wait for each other. Every value keeps  *)
(* its type, and the indices never run out of the bounds that the guards   *)
(* of the clicks leave room for.                                           *)
(***************************************************************************)
EXTENDS SendFlow, TransparentSendProofs, QueueFacts, SequenceTheorems

(***************************************************************************)
(* The invariant                                                           *)
(***************************************************************************)
\* Which functions of the panels may be at which await.
MayAwait(kind, stage) ==
    /\ stage = "queued" => kind \in {"broadcast", "plan"}
    /\ stage \in {"derive", "refresh", "resume"} =>
         kind \in {"preview", "max", "broadcast", "plan"}
    /\ stage = "signer" => kind \in {"sign", "signPlan"}
    /\ stage \in {"submit", "network"} => kind \in {"broadcast", "next"}

\* What a flow of the panels may rely on: it runs alone, in front of no dialog,
\* and the review it captured is still the one shown, if one is.
SendHolds ==
    send # None =>
      /\ sendBusy /\ receipt = None /\ MayAwait(send.kind, send.stage)
      /\ send.kind = "preview" => preparedSend = None
      /\ send.kind = "plan" => preparedConsolidation = None
      /\ send.kind = "sign" => sendPreview \in {None, send.closure}
      /\ send.kind = "signPlan" => consolidationPreview \in {None, send.closure}
      /\ send.kind \in {"broadcast", "next"} => send.closure.tx # None
      /\ send.kind = "broadcast" =>
           /\ send.closure.review # None => AsReviewed(send.closure.tx, send.closure.review)
           /\ send.stage # "idle" => send.closure.review # None

PanelHolds ==
    /\ preparedSend # None /\ sendPreview # None => AsReviewed(preparedSend, sendPreview)
    /\ preparedConsolidation # None =>
         /\ consolidationPreview # None => PlanOf(preparedConsolidation) = consolidationPreview.plan
         /\ \A i \in DOMAIN preparedConsolidation : preparedConsolidation[i] # None

\* A flow of the dialog is about the transaction on the dialog.
RbfHolds ==
    rbf # None =>
      /\ rbfBusy /\ receipt # None /\ receipt.rbf # None /\ rbf.closure = receipt
      /\ rbf.stage \in {"submit", "network"} =>
           rbf.tx # None /\ rbf.tx.inputs = receipt.tx.inputs

\* No coin of an accepted transaction is spendable any more, and a transaction
\* on the dialog that can be replaced has not been.
MoneyHolds ==
    /\ \A a \in accepted :
         /\ a.tx \in relayed /\ a.tx # None /\ a.tx.inputs \cap snapshot.coins = {}
         /\ a.original # None => \E o \in accepted : o.tx = a.original
    /\ NoSelfConflict
    /\ At(send, "network") => send.closure.tx.inputs \subseteq snapshot.coins
    /\ receipt # None /\ receipt.rbf # None =>
         /\ [tx |-> receipt.tx, original |-> None] \in accepted
         /\ \A a \in accepted : a.original = receipt.tx => receipt.tx.inputs = {}

IInv == SendHolds /\ PanelHolds /\ RbfHolds /\ MoneyHolds

(***************************************************************************)
(* What is built                                                           *)
(***************************************************************************)
LEMMA PayingFacts ==
    ASSUME NEW s, NEW outputs, NEW change, Paying(s, outputs, change) # None
    PROVE  LET tx == Paying(s, outputs, change)
           IN  tx.outputs = outputs /\ tx.own \in {change, None}
BY DEF Paying, Transaction

LEMMA BuildSendFacts ==
    ASSUME NEW coins, NEW outputs, NEW rate, NEW change,
           BuildSend(coins, outputs, rate, change) # None
    PROVE  LET tx == BuildSend(coins, outputs, rate, change)
           IN  tx.outputs = outputs /\ tx.own \in {change, None}
BY PayingFacts DEF BuildSend

LEMMA ConsolidateFacts ==
    ASSUME NEW coins, NEW rate, NEW own, Consolidate(coins, rate, own) # None
    PROVE  LET txs == Consolidate(coins, rate, own)
           IN  \A b \in DOMAIN txs : txs[b] # None
<1>1. ASSUME NEW txs, AllOrNone(txs) # None
      PROVE  AllOrNone(txs) = txs /\ \A b \in DOMAIN txs : txs[b] # None
  BY <1>1 DEF AllOrNone
<1> QED
  BY <1>1 DEF Consolidate

LEMMA BuildRbfFacts ==
    ASSUME NEW tx, NEW rate, NEW own, BuildRbf(tx, rate, own) # None
    PROVE  BuildRbf(tx, rate, own).inputs = tx.inputs
<1>1. ASSUME NEW q PROVE Replacing(tx, q, own).inputs = tx.inputs
  BY DEF Replacing, Transaction
<1> QED
  BY <1>1 DEF BuildRbf, Replace

(***************************************************************************)
(* What several actions share                                              *)
(***************************************************************************)
\* What the conjuncts of the invariant are about.
shown == <<preparedSend, sendPreview, consolidationPreview, preparedConsolidation>>
money == <<relayed, snapshot, accepted, receipt>>

LEMMA SendUnchanged ==
    SendHolds /\ UNCHANGED <<send, sendBusy, receipt, shown>> => SendHolds'
BY DEF SendHolds, shown, MayAwait, AsReviewed

LEMMA PanelUnchanged == PanelHolds /\ UNCHANGED shown => PanelHolds'
BY DEF PanelHolds, shown, AsReviewed

LEMMA RbfUnchanged == RbfHolds /\ UNCHANGED <<rbf, rbfBusy, receipt>> => RbfHolds'
BY DEF RbfHolds

\* Nothing of the money moves, and no flow gets to the network.
LEMMA MoneyUnchanged ==
    ASSUME MoneyHolds, UNCHANGED money, At(send, "network")' => send' = send
    PROVE  MoneyHolds'
BY DEF MoneyHolds, money, At, NoSelfConflict

LEMMA GotoFacts ==
    ASSUME NEW stage, NEW own, NEW known, Goto(stage, own, known)
    PROVE  send'.kind = send.kind /\ send'.stage = stage /\ send'.closure = send.closure
           /\ send'.own = own /\ send'.known = known
BY DEF Goto

\* A flow goes on to its next await.
LEMMA OnwardKeeps ==
    ASSUME SendHolds, PanelHolds, send # None, UNCHANGED receipt,
           NEW stage, NEW own, NEW known, Onward(stage, own, known),
           MayAwait(send.kind, stage),
           send.kind = "broadcast" => stage = "idle" \/ send.closure.review # None
    PROVE  SendHolds' /\ PanelHolds'
<1>1. /\ send'.kind = send.kind /\ send'.stage = stage /\ send'.closure = send.closure
      /\ UNCHANGED <<sendBusy, receipt, shown>>
  BY GotoFacts DEF Onward, panel, shown
<1>2. SendHolds'
  BY <1>1 DEF SendHolds, shown, MayAwait, AsReviewed
<1> QED
  BY <1>1, <1>2, PanelUnchanged

LEMMA FailKeeps ==
    ASSUME PanelHolds, Fail
    PROVE  SendHolds' /\ PanelHolds' /\ send' = None
<1>1. /\ preparedSend' \in {preparedSend, None} /\ sendPreview' \in {sendPreview, None}
      /\ consolidationPreview' \in {consolidationPreview, None}
      /\ preparedConsolidation' \in {preparedConsolidation, None}
  BY DEF Fail
<1>2. send' = None
  BY DEF Fail, Finish
<1> QED
  BY <1>1, <1>2 DEF SendHolds, PanelHolds, AsReviewed

LEMMA PreviewedKeeps ==
    ASSUME SendHolds, PanelHolds, send # None, send.kind = "preview",
           NEW tx, NEW own, NEW known, Previewed(tx, own, known)
    PROVE  SendHolds' /\ PanelHolds' /\ send' = None
<1>1. CASE tx = None
  BY <1>1, FailKeeps DEF Previewed
<1>2. CASE tx # None
  <2>1. /\ send' = None /\ preparedSend' = None
        /\ UNCHANGED <<consolidationPreview, preparedConsolidation>>
    BY <1>2 DEF Previewed, Finish, SendHolds
  <2> QED
    BY <2>1 DEF SendHolds, PanelHolds, AsReviewed
<1> QED
  BY <1>1, <1>2

LEMMA MaximisedKeeps ==
    ASSUME PanelHolds, NEW max, Maximised(max)
    PROVE  SendHolds' /\ PanelHolds' /\ send' = None
<1>1. CASE max = 0
  BY <1>1, FailKeeps DEF Maximised
<1>2. CASE max # 0
  <2>1. /\ send' = None /\ sendPreview' = None
        /\ UNCHANGED <<preparedSend, consolidationPreview, preparedConsolidation>>
    BY <1>2 DEF Maximised, Finish
  <2> QED
    BY <2>1 DEF SendHolds, PanelHolds, AsReviewed
<1> QED
  BY <1>1, <1>2

LEMMA PlannedKeeps ==
    ASSUME SendHolds, PanelHolds, send # None, send.kind = "plan",
           NEW txs, NEW own, NEW known, Planned(txs, own, known)
    PROVE  SendHolds' /\ PanelHolds' /\ send' = None
<1>1. CASE txs = None
  BY <1>1, FailKeeps DEF Planned
<1>2. CASE txs # None
  <2>1. /\ send' = None /\ preparedConsolidation' = None
        /\ UNCHANGED <<sendPreview, preparedSend>>
    BY <1>2 DEF Planned, Finish, SendHolds
  <2> QED
    BY <2>1 DEF SendHolds, PanelHolds, AsReviewed
<1> QED
  BY <1>1, <1>2

\* A flow that has its address and its snapshot: over, or about to broadcast.
LEMMA EnsuredKeeps ==
    ASSUME SendHolds, PanelHolds, send # None, UNCHANGED receipt,
           NEW own, NEW known, Ensured(own, known),
           send.kind \in {"preview", "max", "broadcast", "plan"},
           send.kind = "broadcast" => send.closure.review # None
    PROVE  SendHolds' /\ PanelHolds' /\ (send' = None \/ send'.stage = "submit")
<1>1. CASE send.kind = "preview"
  BY <1>1, PreviewedKeeps DEF Ensured
<1>2. CASE send.kind = "max"
  BY <1>2, MaximisedKeeps DEF Ensured
<1>3. CASE send.kind = "plan"
  BY <1>3, PlannedKeeps DEF Ensured
<1>4. CASE send.kind = "broadcast"
  <2>1. Onward("submit", own, known)
    BY <1>4 DEF Ensured
  <2>2. MayAwait(send.kind, "submit")
    BY <1>4 DEF MayAwait
  <2>3. send'.stage = "submit"
    BY <2>1, GotoFacts DEF Onward
  <2> QED
    BY <2>1, <2>2, <2>3, OnwardKeeps
<1> QED
  BY <1>1, <1>2, <1>3, <1>4

\* The same, behind a refresh if the snapshot does not cover the address.
LEMMA ObtainedKeeps ==
    ASSUME SendHolds, PanelHolds, send # None, UNCHANGED receipt,
           NEW own, NEW known, Obtained(own, known),
           send.kind \in {"preview", "max", "broadcast", "plan"},
           send.kind = "broadcast" => send.closure.review # None
    PROVE  SendHolds' /\ PanelHolds' /\ (send' = None \/ send'.stage \in {"submit", "refresh"})
<1>1. CASE Covered(known, own)
  BY <1>1, EnsuredKeeps DEF Obtained
<1>2. CASE ~Covered(known, own)
  <2>1. Onward("refresh", own, known)
    BY <1>2 DEF Obtained
  <2>2. MayAwait(send.kind, "refresh") /\ send'.stage = "refresh"
    BY <2>1, GotoFacts DEF MayAwait, Onward
  <2> QED
    BY <2>1, <2>2, OnwardKeeps
<1> QED
  BY <1>1, <1>2

(***************************************************************************)
(* The clicks                                                              *)
(***************************************************************************)
LEMMA BeginFacts ==
    ASSUME NEW kind, NEW closure, Begin(kind, closure)
    PROVE  /\ sendBusy' = TRUE /\ send'.kind = kind /\ send'.stage = "idle"
           /\ send'.closure = closure
BY DEF Begin

LEMMA EditKeeps ==
    ASSUME SendHolds, PanelHolds, Edit
    PROVE  SendHolds' /\ PanelHolds' /\ send' = send
<1>1. /\ UNCHANGED <<send, sendBusy, receipt>>
      /\ sendPreview' = None /\ preparedSend' = None
      /\ consolidationPreview' = None /\ preparedConsolidation' = None
  BY DEF Edit, dialog
<1> QED
  BY <1>1 DEF SendHolds, PanelHolds, MayAwait, AsReviewed

LEMMA PreviewSendKeeps ==
    ASSUME PanelHolds, PreviewSend
    PROVE  SendHolds' /\ PanelHolds' /\ send'.stage = "idle"
<1>1. /\ send'.kind = "preview" /\ send'.stage = "idle" /\ sendBusy' = TRUE
      /\ receipt' = None /\ preparedSend' = None /\ preparedConsolidation' = None
  BY BeginFacts DEF PreviewSend, StatusReady, Shown, dialog
<1> QED
  BY <1>1 DEF SendHolds, PanelHolds, MayAwait, AsReviewed

LEMMA ApplyMaxKeeps ==
    ASSUME PanelHolds, ApplyMax
    PROVE  SendHolds' /\ PanelHolds' /\ send'.stage = "idle"
<1>1. /\ send'.kind = "max" /\ send'.stage = "idle" /\ sendBusy' = TRUE
      /\ receipt' = None /\ preparedSend' = None
      /\ UNCHANGED <<sendPreview, consolidationPreview, preparedConsolidation>>
  BY BeginFacts DEF ApplyMax, Shown, dialog
<1> QED
  BY <1>1 DEF SendHolds, PanelHolds, MayAwait, AsReviewed

LEMMA SignSendKeeps ==
    ASSUME PanelHolds, SignSend
    PROVE  SendHolds' /\ PanelHolds' /\ send'.stage = "idle"
<1>1. /\ send'.kind = "sign" /\ send'.stage = "idle" /\ sendBusy' = TRUE
      /\ receipt' = None /\ send'.closure = sendPreview
      /\ UNCHANGED shown
  BY BeginFacts DEF SignSend, Shown, dialog, shown
<1>2. SendHolds'
  BY <1>1 DEF SendHolds, MayAwait, shown
<1> QED
  BY <1>1, <1>2, PanelUnchanged

LEMMA BroadcastSendKeeps ==
    ASSUME PanelHolds, BroadcastSend
    PROVE  SendHolds' /\ PanelHolds' /\ send'.stage = "idle"
<1>1. /\ send'.kind = "broadcast" /\ send'.stage = "idle" /\ sendBusy' = TRUE
      /\ receipt' = None /\ preparedSend # None
      /\ send'.closure.tx = preparedSend /\ send'.closure.review = sendPreview
      /\ UNCHANGED shown
  <2>1. Begin("broadcast", [tx |-> preparedSend, review |-> sendPreview])
    BY DEF BroadcastSend
  <2>2. /\ send'.kind = "broadcast" /\ send'.stage = "idle" /\ sendBusy' = TRUE
        /\ send'.closure = [tx |-> preparedSend, review |-> sendPreview]
    BY <2>1, BeginFacts
  <2> QED
    BY <2>2 DEF BroadcastSend, StatusReady, Shown, dialog, shown
<1>2. SendHolds'
  BY <1>1 DEF SendHolds, PanelHolds, MayAwait, shown, AsReviewed
<1> QED
  BY <1>1, <1>2, PanelUnchanged

LEMMA CancelPreparedSendKeeps ==
    ASSUME SendHolds, PanelHolds, CancelPreparedSend
    PROVE  SendHolds' /\ PanelHolds' /\ send' = send
<1>1. /\ UNCHANGED <<send, sendBusy, receipt, consolidationPreview, preparedConsolidation>>
      /\ preparedSend' = None /\ sendPreview' = None
  BY DEF CancelPreparedSend, dialog
<1> QED
  BY <1>1 DEF SendHolds, PanelHolds, MayAwait, AsReviewed

LEMMA PreviewConsolidationKeeps ==
    ASSUME PanelHolds, PreviewConsolidation
    PROVE  SendHolds' /\ PanelHolds' /\ send'.stage = "idle"
<1>1. /\ send'.kind = "plan" /\ send'.stage = "idle" /\ sendBusy' = TRUE
      /\ receipt' = None /\ preparedSend' = None /\ preparedConsolidation' = None
  BY BeginFacts DEF PreviewConsolidation, StatusReady, Shown, dialog
<1> QED
  BY <1>1 DEF SendHolds, PanelHolds, MayAwait, AsReviewed

LEMMA SignConsolidationKeeps ==
    ASSUME PanelHolds, SignConsolidation
    PROVE  SendHolds' /\ PanelHolds' /\ send'.stage = "idle"
<1>1. /\ send'.kind = "signPlan" /\ send'.stage = "idle" /\ sendBusy' = TRUE
      /\ receipt' = None /\ send'.closure = consolidationPreview
      /\ UNCHANGED shown
  BY BeginFacts DEF SignConsolidation, Shown, dialog, shown
<1>2. SendHolds'
  BY <1>1 DEF SendHolds, MayAwait, shown
<1> QED
  BY <1>1, <1>2, PanelUnchanged

LEMMA BroadcastNextKeeps ==
    ASSUME PanelHolds, BroadcastNextConsolidation
    PROVE  SendHolds' /\ PanelHolds' /\ send'.stage = "submit"
<1>1. /\ send'.kind = "next" /\ send'.stage = "submit" /\ sendBusy' = TRUE
      /\ receipt' = None /\ preparedConsolidation # None
      /\ \E i \in DOMAIN preparedConsolidation : send'.closure.tx = preparedConsolidation[i]
      /\ UNCHANGED shown
  BY DEF BroadcastNextConsolidation, StatusReady, Shown, dialog, shown
<1>2. SendHolds'
  BY <1>1 DEF SendHolds, PanelHolds, MayAwait, shown
<1> QED
  BY <1>1, <1>2, PanelUnchanged

LEMMA CancelConsolidationKeeps ==
    ASSUME SendHolds, PanelHolds, CancelConsolidation
    PROVE  SendHolds' /\ PanelHolds' /\ send' = send
<1>1. /\ UNCHANGED <<send, sendBusy, receipt, sendPreview, preparedSend>>
      /\ consolidationPreview' = None /\ preparedConsolidation' = None
  BY DEF CancelConsolidation, dialog
<1> QED
  BY <1>1 DEF SendHolds, PanelHolds, MayAwait, AsReviewed

LEMMA ClickKeeps ==
    ASSUME IInv, Click
    PROVE  IInv'
<1>1. /\ UNCHANGED <<rbf, rbfBusy, receipt, money>>
  BY DEF Click, Edit, PreviewSend, ApplyMax, SignSend, BroadcastSend, CancelPreparedSend,
     PreviewConsolidation, SignConsolidation, BroadcastNextConsolidation,
     CancelConsolidation, unclicked, dialog, network, controller, money
<1>2. SendHolds' /\ PanelHolds' /\ (send' = send \/ send'.stage # "network")
  BY EditKeeps, PreviewSendKeeps, ApplyMaxKeeps, SignSendKeeps, BroadcastSendKeeps,
     CancelPreparedSendKeeps, PreviewConsolidationKeeps, SignConsolidationKeeps,
     BroadcastNextKeeps, CancelConsolidationKeeps DEF Click, IInv
<1>3. MoneyHolds'
  BY <1>1, <1>2, MoneyUnchanged DEF At, IInv
<1> QED
  BY <1>1, <1>2, <1>3, RbfUnchanged DEF IInv

(***************************************************************************)
(* The flows of the panels                                                 *)
(***************************************************************************)
LEMMA ChangeChosenKeeps ==
    ASSUME SendHolds, PanelHolds, ChangeChosen
    PROVE  SendHolds' /\ PanelHolds' /\ (send' = None \/ send'.stage # "network")
<1>1. send # None /\ send.kind \in {"preview", "max"} /\ UNCHANGED receipt
  BY DEF ChangeChosen, At, afterwards, dialog
<1> DEFINE a == CurrentOrReserve(snapshot, ChangeAccount(send.closure.outputs))
<1>2. CASE Fail
  BY <1>2, FailKeeps
<1>3. CASE Ensured(Primary, snapshot)
  BY <1>1, <1>3, EnsuredKeeps
<1>4. CASE Obtained(a, snapshot)
  BY <1>1, <1>4, ObtainedKeeps
<1>5. CASE Onward("derive", a, snapshot)
  <2>1. MayAwait(send.kind, "derive") /\ send'.stage = "derive"
    BY <1>1, <1>5, GotoFacts DEF MayAwait, Onward
  <2> QED
    BY <1>1, <1>5, <2>1, OnwardKeeps
<1> QED
  BY <1>2, <1>3, <1>4, <1>5 DEF ChangeChosen

LEMMA ReturnAskedKeeps ==
    ASSUME SendHolds, PanelHolds, ReturnAsked
    PROVE  SendHolds' /\ PanelHolds' /\ (send' = None \/ send'.stage # "network")
<1>1. send # None /\ send.kind \in {"broadcast", "plan"} /\ UNCHANGED receipt
  BY DEF ReturnAsked, At, afterwards, dialog
<1>2. CASE Fail
  BY <1>2, FailKeeps
<1>3. CASE ~Fail
  <2>1. send.kind = "broadcast" => send.closure.review # None
    BY <1>3 DEF ReturnAsked
  <2>2. CASE Ensured(Primary, snapshot)
    BY <1>1, <2>1, <2>2, EnsuredKeeps
  <2>3. CASE Onward("queued", None, snapshot)
    <3>1. MayAwait(send.kind, "queued") /\ send'.stage = "queued"
      BY <1>1, <2>3, GotoFacts DEF MayAwait, Onward
    <3> QED
      BY <1>1, <2>1, <2>3, <3>1, OnwardKeeps
  <2> QED
    BY <1>3, <2>2, <2>3 DEF ReturnAsked
<1> QED
  BY <1>2, <1>3

LEMMA ReviewKept ==
    ASSUME SendHolds, send # None, send.stage # "idle"
    PROVE  /\ MayAwait(send.kind, send.stage)
           /\ send.kind = "broadcast" => send.closure.review # None
BY DEF SendHolds

LEMMA ReturnReservedKeeps ==
    ASSUME SendHolds, PanelHolds, ReturnReserved
    PROVE  SendHolds' /\ PanelHolds' /\ (send' = None \/ send'.stage # "network")
<1> DEFINE a == ReserveNext(send.known, Priority[1])
<1>1. send # None /\ send.stage = "queued" /\ UNCHANGED receipt
  BY DEF ReturnReserved, Turn, At, afterwards, dialog
<1>2. /\ send.kind \in {"broadcast", "plan"}
      /\ send.kind = "broadcast" => send.closure.review # None
  BY <1>1, ReviewKept DEF MayAwait
<1>3. CASE Ensured(a, send.known)
  BY <1>1, <1>2, <1>3, EnsuredKeeps
<1>4. CASE Onward("derive", a, send.known)
  <2>1. MayAwait(send.kind, "derive") /\ send'.stage = "derive"
    BY <1>2, <1>4, GotoFacts DEF MayAwait, Onward
  <2> QED
    BY <1>1, <1>2, <1>4, <2>1, OnwardKeeps
<1> QED
  BY <1>3, <1>4 DEF ReturnReserved

LEMMA DerivedKeeps ==
    ASSUME SendHolds, PanelHolds, Derived
    PROVE  SendHolds' /\ PanelHolds' /\ (send' = None \/ send'.stage # "network")
<1>1. /\ send # None /\ send.stage = "derive" /\ UNCHANGED receipt
      /\ Obtained(send.own, send.known)
  BY DEF Derived, At, afterwards, dialog
<1>2. /\ send.kind \in {"preview", "max", "broadcast", "plan"}
      /\ send.kind = "broadcast" => send.closure.review # None
  BY <1>1, ReviewKept DEF MayAwait
<1> QED
  BY <1>1, <1>2, ObtainedKeeps

LEMMA RefreshedKeeps ==
    ASSUME SendHolds, PanelHolds, Refreshed
    PROVE  SendHolds' /\ PanelHolds' /\ (send' = None \/ send'.stage # "network")
<1>1. /\ send # None /\ send.stage = "resume" /\ UNCHANGED receipt
      /\ Ensured(send.own, snapshot) \/ Fail
  BY DEF Refreshed, At, afterwards, dialog
<1>2. /\ send.kind \in {"preview", "max", "broadcast", "plan"}
      /\ send.kind = "broadcast" => send.closure.review # None
  BY <1>1, ReviewKept DEF MayAwait
<1> QED
  BY <1>1, <1>2, EnsuredKeeps, FailKeeps

LEMMA SignAskedKeeps ==
    ASSUME SendHolds, PanelHolds, SignAsked
    PROVE  SendHolds' /\ PanelHolds' /\ (send' = None \/ send'.stage # "network")
<1>1. /\ send # None /\ send.kind \in {"sign", "signPlan"} /\ UNCHANGED receipt
      /\ Onward("signer", None, snapshot) \/ Fail
  BY DEF SignAsked, At, afterwards, dialog
<1>2. CASE Onward("signer", None, snapshot)
  <2>1. MayAwait(send.kind, "signer") /\ send'.stage = "signer"
    BY <1>1, <1>2, GotoFacts DEF MayAwait, Onward
  <2> QED
    BY <1>1, <1>2, <2>1, OnwardKeeps
<1> QED
  BY <1>1, <1>2, FailKeeps

LEMMA SignedKeeps ==
    ASSUME SendHolds, PanelHolds, Signed
    PROVE  SendHolds' /\ PanelHolds' /\ send' = None
<1> DEFINE review == send.closure
           tx == BuildSend(send.known.coins, review.outputs, review.rate, review.change)
           txs == Consolidate(send.known.coins, review.rate, review.change)
<1>1. send # None
  BY DEF Signed, At
<1>2. CASE send.kind = "sign" /\ SignedSend(tx, review)
  <2> HIDE DEF tx
  <2>1. /\ tx # None /\ Estimate(tx) = review.estimate /\ send' = None /\ preparedSend' = tx
        /\ UNCHANGED <<sendPreview, consolidationPreview, preparedConsolidation>>
    BY <1>2 DEF SignedSend, Finish
  <2>2. tx.outputs = review.outputs /\ tx.own \in {review.change, None}
    BY <2>1, BuildSendFacts DEF tx
  <2>3. sendPreview' # None => sendPreview' = review
    BY <1>1, <1>2, <2>1 DEF SendHolds
  <2> QED
    BY <2>1, <2>2, <2>3 DEF SendHolds, PanelHolds, AsReviewed
<1>3. CASE send.kind = "signPlan" /\ SignedPlan(txs, review)
  <2> HIDE DEF txs
  <2>1. /\ txs # None /\ PlanOf(txs) = review.plan /\ send' = None
        /\ preparedConsolidation' = txs
        /\ UNCHANGED <<sendPreview, preparedSend, consolidationPreview>>
    BY <1>3 DEF SignedPlan, Finish
  <2>2. \A b \in DOMAIN txs : txs[b] # None
    BY <2>1, ConsolidateFacts DEF txs
  <2>3. consolidationPreview' # None => consolidationPreview' = review
    BY <1>1, <1>3, <2>1 DEF SendHolds
  <2> QED
    BY <2>1, <2>2, <2>3 DEF SendHolds, PanelHolds, AsReviewed
<1> QED
  BY <1>2, <1>3, FailKeeps DEF Signed

\* Nothing but the flow moves until a broadcast is submitted.
LEMMA SubmitKeeps ==
    ASSUME IInv, Submit
    PROVE  SendHolds' /\ PanelHolds' /\ MoneyHolds'
<1>1. /\ send # None /\ send.stage = "submit" /\ UNCHANGED money
      /\ Fail \/ (Acceptable(send.closure.tx) /\ Onward("network", send.own, send.known))
  BY DEF Submit, At, afterwards, dialog, network, controller, money
<1>2. CASE Fail
  <2>1. SendHolds' /\ PanelHolds' /\ send' = None
    BY <1>2, FailKeeps DEF IInv
  <2> QED
    BY <1>1, <2>1, MoneyUnchanged DEF At, IInv
<1>3. CASE Acceptable(send.closure.tx) /\ Onward("network", send.own, send.known)
  <2>1. send'.closure = send.closure /\ UNCHANGED receipt
    BY <1>1, <1>3, GotoFacts DEF Onward, money
  <2>2. /\ MayAwait(send.kind, "network")
        /\ send.kind = "broadcast" => send.closure.review # None
    BY <1>1, ReviewKept DEF MayAwait, IInv
  <2>3. SendHolds' /\ PanelHolds'
    BY <1>1, <1>3, <2>1, <2>2, OnwardKeeps DEF IInv
  <2>4. send'.closure.tx.inputs \subseteq snapshot.coins
    BY <1>3, <2>1 DEF Acceptable
  <2>5. MoneyHolds'
    BY <1>1, <2>4 DEF IInv, MoneyHolds, money, At, NoSelfConflict
  <2> QED
    BY <2>3, <2>5
<1> QED
  BY <1>1, <1>2, <1>3

\* The coins of a transaction that is accepted were spendable until then, so no
\* other accepted one has them.
LEMMA AcceptedMoney ==
    ASSUME IInv, Accepted
    PROVE  MoneyHolds'
<1> DEFINE tx == send.closure.tx
           new == [tx |-> tx, original |-> None]
<1>1. /\ send # None /\ send.stage = "network" /\ send' = None
      /\ relayed' = relayed \cup {tx} /\ accepted' = accepted \cup {new}
      /\ snapshot' = Projected(tx, None)
      /\ receipt'.tx = tx
  BY DEF Accepted, At, Relay, Finish
<1>2. snapshot'.coins = snapshot.coins \ tx.inputs /\ tx.inputs \subseteq snapshot.coins
  BY <1>1 DEF Projected, Projection, IInv, MoneyHolds, At
<1>3. tx # None
  BY <1>1, ReviewKept DEF IInv, SendHolds, MayAwait
<1> HIDE DEF tx
<1>4. \A a \in accepted : a.tx.inputs \cap tx.inputs = {}
  BY <1>2 DEF IInv, MoneyHolds
<1>5. \A a \in accepted : a.original = tx => tx.inputs = {}
  BY <1>2, <1>3 DEF IInv, MoneyHolds
<1>6. NoSelfConflict'
  BY <1>1, <1>4 DEF IInv, MoneyHolds, NoSelfConflict
<1>7. ASSUME NEW a \in accepted'
      PROVE  /\ a.tx \in relayed' /\ a.tx # None /\ a.tx.inputs \cap snapshot'.coins = {}
             /\ a.original # None => \E o \in accepted' : o.tx = a.original
  BY <1>1, <1>2, <1>3, <1>7 DEF IInv, MoneyHolds
<1>8. \A a \in accepted' : a.original = tx => tx.inputs = {}
  BY <1>1, <1>3, <1>5
<1>9. new \in accepted' /\ ~At(send, "network")'
  BY <1>1 DEF At
<1> QED
  BY <1>1, <1>6, <1>7, <1>8, <1>9 DEF MoneyHolds, tx

LEMMA AcceptedKeeps ==
    ASSUME IInv, Accepted
    PROVE  IInv'
<1>1. /\ send # None /\ send' = None /\ rbf' = rbf
      /\ preparedSend' \in {preparedSend, None} /\ sendPreview' \in {sendPreview, None}
      /\ UNCHANGED <<consolidationPreview, preparedConsolidation>>
  BY DEF Accepted, At, Finish
<1>2. rbf = None
  BY <1>1 DEF IInv, SendHolds, RbfHolds
<1>3. SendHolds' /\ PanelHolds' /\ RbfHolds'
  BY <1>1, <1>2 DEF IInv, SendHolds, PanelHolds, RbfHolds, AsReviewed
<1> QED
  BY <1>3, AcceptedMoney DEF IInv

\* Transactions the server has are there to stay.
LEMMA MoneyGrows ==
    ASSUME MoneyHolds, relayed \subseteq relayed', UNCHANGED <<snapshot, accepted, receipt>>,
           At(send, "network")' => send' = send
    PROVE  MoneyHolds'
BY DEF MoneyHolds, At, NoSelfConflict

LEMMA BroadcastFailsKeeps ==
    ASSUME IInv, BroadcastFails
    PROVE  IInv'
<1>1. /\ Fail /\ UNCHANGED <<snapshot, accepted, receipt, rbf, rbfBusy>>
      /\ relayed \subseteq relayed'
  BY DEF BroadcastFails, controller, dialog, network, Relay
<1>2. SendHolds' /\ PanelHolds' /\ send' = None
  BY <1>1, FailKeeps DEF IInv
<1>3. MoneyHolds'
  BY <1>1, <1>2, MoneyGrows DEF At, IInv
<1> QED
  BY <1>1, <1>2, <1>3, RbfUnchanged DEF IInv

LEMMA SendStepKeeps ==
    ASSUME IInv, SendStep
    PROVE  IInv'
<1>1. CASE Accepted
  BY <1>1, AcceptedKeeps
<1>2. CASE BroadcastFails
  BY <1>2, BroadcastFailsKeeps
<1>3. CASE ~Accepted /\ ~BroadcastFails
  <2>1. UNCHANGED <<rbf, rbfBusy, receipt, money>>
    BY <1>3 DEF SendStep, ChangeChosen, ReturnAsked, ReturnReserved, Derived, DeriveFails,
       Refreshed, SignAsked, Signed, Submit, afterwards, network, controller, dialog, money
  <2>2. CASE Submit
    BY <2>1, <2>2, SubmitKeeps, RbfUnchanged DEF IInv
  <2>3. CASE ~Submit
    <3>1. SendHolds' /\ PanelHolds' /\ (send' = None \/ send'.stage # "network")
      BY <1>3, <2>3, ChangeChosenKeeps, ReturnAskedKeeps, ReturnReservedKeeps, DerivedKeeps,
         FailKeeps, RefreshedKeeps, SignAskedKeeps, SignedKeeps
         DEF SendStep, DeriveFails, IInv
    <3> QED
      BY <2>1, <3>1, MoneyUnchanged, RbfUnchanged DEF At, IInv
  <2> QED
    BY <2>2, <2>3
<1> QED
  BY <1>1, <1>2, <1>3

(***************************************************************************)
(* The dialog of a broadcast                                               *)
(***************************************************************************)
\* While the dialog is open no flow of the panels runs.
LEMMA DialogFacts ==
    ASSUME IInv, receipt # None
    PROVE  send = None
BY DEF IInv, SendHolds

\* Everything but the flow of the dialog is left alone.
LEMMA IndialogKeeps ==
    ASSUME IInv, UNCHANGED <<indialog, money>>, RbfHolds'
    PROVE  IInv'
<1>1. UNCHANGED <<send, sendBusy, receipt, shown>>
  BY DEF indialog, panel, shown, money
<1> QED
  BY <1>1, SendUnchanged, PanelUnchanged, MoneyUnchanged DEF IInv

LEMMA DialogClickKeeps ==
    ASSUME IInv, DialogClick
    PROVE  IInv'
<1>1. CASE PrepareRbf \/ BroadcastRbf \/ CancelRbf
  <2>1. UNCHANGED <<indialog, money>>
    BY <1>1 DEF PrepareRbf, BroadcastRbf, CancelRbf, network, controller, money
  <2>2. RbfHolds'
    <3>1. CASE PrepareRbf
      BY <3>1 DEF PrepareRbf, RbfHolds
    <3>2. CASE BroadcastRbf
      BY <3>2 DEF BroadcastRbf, RbfHolds
    <3>3. CASE CancelRbf
      BY <3>3 DEF CancelRbf, RbfHolds, IInv
    <3> QED
      BY <1>1, <3>1, <3>2, <3>3
  <2> QED
    BY <2>1, <2>2, IndialogKeeps
<1>2. CASE CloseBroadcastDialog
  <2>1. /\ receipt' = None /\ rbf' = rbf /\ rbf = None /\ send = None /\ send' = None
        /\ UNCHANGED <<relayed, snapshot, accepted, shown>>
    BY <1>2, DialogFacts DEF CloseBroadcastDialog, IInv, RbfHolds, indialog, network, controller,
       panel, shown
  <2>2. MoneyHolds'
    BY <2>1 DEF IInv, MoneyHolds, At, NoSelfConflict
  <2> QED
    BY <2>1, <2>2, PanelUnchanged DEF IInv, SendHolds, RbfHolds
<1> QED
  BY <1>1, <1>2 DEF DialogClick

\* A flow of the dialog that is over, or goes on before the signature.
LEMMA RbfIdleKeeps ==
    ASSUME IInv, RbfIdle
    PROVE  RbfHolds'
<1>1. rbf # None /\ UNCHANGED receipt
  BY DEF RbfIdle, At
<1>2. CASE rbf' = None
  BY <1>2 DEF RbfHolds
<1>3. CASE rbf' # None
  <2>1. /\ rbf'.closure = rbf.closure /\ rbf'.stage \in {"rate", "signer"}
        /\ UNCHANGED rbfBusy
    BY <1>3 DEF RbfIdle, RbfGoto, RbfOver
  <2> QED
    BY <1>1, <2>1 DEF IInv, RbfHolds
<1> QED
  BY <1>2, <1>3

LEMMA RbfSignedKeeps ==
    ASSUME IInv, RbfSigned
    PROVE  RbfHolds'
<1> DEFINE tx == BuildRbf(rbf.closure.tx, rbf.quote.rate, rbf.closure.rbf.own)
<1>1. rbf # None /\ UNCHANGED receipt
  BY DEF RbfSigned, At
<1>2. CASE RbfOver
  BY <1>2 DEF RbfHolds, RbfOver
<1>3. CASE RbfTaken(tx)
  <2> HIDE DEF tx
  <2>1. /\ tx # None /\ rbf'.closure = rbf.closure /\ rbf'.tx = tx /\ UNCHANGED rbfBusy
    BY <1>3 DEF RbfTaken, RbfGoto
  <2>2. tx.inputs = rbf.closure.tx.inputs
    BY <2>1, BuildRbfFacts DEF tx
  <2> QED
    BY <1>1, <2>1, <2>2 DEF IInv, RbfHolds
<1> QED
  BY <1>2, <1>3 DEF RbfSigned

LEMMA RbfSubmitKeeps ==
    ASSUME IInv, RbfSubmit
    PROVE  RbfHolds'
<1>1. rbf # None /\ rbf.stage = "submit" /\ UNCHANGED receipt
  BY DEF RbfSubmit, At
<1>2. CASE rbf' = None
  BY <1>2 DEF RbfHolds
<1>3. CASE rbf' # None
  <2>1. rbf'.closure = rbf.closure /\ rbf'.tx = rbf.tx /\ UNCHANGED rbfBusy
    BY <1>3 DEF RbfSubmit, RbfGoto, RbfOver
  <2> QED
    BY <1>1, <2>1 DEF IInv, RbfHolds
<1> QED
  BY <1>2, <1>3

\* A replacement spends what its original spent: whatever else conflicts with
\* it would conflict with the original, which nothing has replaced yet.
LEMMA RbfAcceptedKeeps ==
    ASSUME IInv, RbfAccepted
    PROVE  IInv'
<1> DEFINE tx == rbf.tx
           old == receipt.tx
           new == [tx |-> tx, original |-> old]
           first == [tx |-> old, original |-> None]
<1>1. /\ rbf # None /\ rbf.stage = "network" /\ rbf' = None
      /\ receipt # None /\ receipt.rbf # None /\ rbf.closure = receipt
      /\ tx # None /\ tx.inputs = old.inputs
  BY DEF RbfAccepted, At, IInv, RbfHolds, RbfOver
<1>2. /\ relayed' = relayed \cup {tx} /\ accepted' = accepted \cup {new}
      /\ snapshot' = Projected(tx, old)
      /\ receipt'.rbf = None
      /\ UNCHANGED indialog
  BY <1>1 DEF RbfAccepted, Relay
<1>3. send = None /\ send' = None
  BY <1>1, <1>2, DialogFacts DEF indialog
<1>4. snapshot'.coins = snapshot.coins \ tx.inputs
  BY <1>2 DEF Projected, Projection
<1>5. first \in accepted /\ \A a \in accepted : a.original = old => old.inputs = {}
  BY <1>1 DEF IInv, MoneyHolds
<1> HIDE DEF tx, old
<1>6. ASSUME NEW a \in accepted'
      PROVE  /\ a.tx \in relayed' /\ a.tx # None /\ a.tx.inputs \cap snapshot'.coins = {}
             /\ a.original # None => \E o \in accepted' : o.tx = a.original
  <2>1. CASE a \in accepted
    BY <1>2, <1>4, <2>1 DEF IInv, MoneyHolds
  <2>2. CASE a = new
    <3>1. first.tx = old /\ first \in accepted'
      BY <1>2, <1>5
    <3> QED
      BY <1>1, <1>2, <1>4, <2>2, <3>1
  <2> QED
    BY <1>2, <1>6, <2>1, <2>2
<1>7. ASSUME NEW a \in accepted, a.tx # tx, a.tx.inputs \cap tx.inputs # {}
      PROVE  a.tx = old
  <2>1. CASE a.tx # old
    <3>1. a.original = old \/ first.original = a.tx
      BY <1>1, <1>5, <1>7, <2>1 DEF IInv, MoneyHolds, NoSelfConflict
    <3>2. a.tx # None
      BY DEF IInv, MoneyHolds
    <3> QED
      BY <1>1, <1>5, <1>7, <3>1, <3>2
  <2> QED
    BY <2>1
<1>8. NoSelfConflict'
  <2> SUFFICES ASSUME NEW a \in accepted', NEW b \in accepted',
                      a.tx # b.tx, a.tx.inputs \cap b.tx.inputs # {}
               PROVE  a.original = b.tx \/ b.original = a.tx
    BY DEF NoSelfConflict
  <2>1. CASE a \in accepted /\ b \in accepted
    BY <2>1 DEF IInv, MoneyHolds, NoSelfConflict
  <2>2. CASE a = new /\ b \in accepted
    BY <1>7, <2>2
  <2>3. CASE a \in accepted /\ b = new
    BY <1>7, <2>3
  <2>4. CASE a = new /\ b = new
    BY <2>4
  <2> QED
    BY <1>2, <2>1, <2>2, <2>3, <2>4
<1>9. MoneyHolds'
  BY <1>2, <1>3, <1>6, <1>8 DEF MoneyHolds, At
<1>10. SendHolds' /\ RbfHolds'
  BY <1>1, <1>3 DEF SendHolds, RbfHolds
<1>11. PanelHolds'
  BY <1>2, PanelUnchanged DEF IInv, indialog, panel, shown
<1> QED
  BY <1>9, <1>10, <1>11 DEF IInv

LEMMA RbfStepKeeps ==
    ASSUME IInv, RbfStep
    PROVE  IInv'
<1>1. CASE RbfAccepted
  BY <1>1, RbfAcceptedKeeps
<1>2. CASE RbfFails
  <2>1. /\ rbf' = None /\ UNCHANGED <<indialog, snapshot, accepted, receipt>>
        /\ relayed \subseteq relayed'
    BY <1>2 DEF RbfFails, RbfOver, Relay, network, controller
  <2>2. UNCHANGED <<send, sendBusy, receipt, shown>>
    BY <2>1 DEF indialog, panel, shown
  <2>3. MoneyHolds'
    BY <2>1, <2>2, MoneyGrows DEF IInv
  <2>4. RbfHolds'
    BY <2>1 DEF RbfHolds
  <2> QED
    BY <2>2, <2>3, <2>4, SendUnchanged, PanelUnchanged DEF IInv
<1>3. CASE RbfIdle \/ Quoted \/ RbfSigned \/ RbfSubmit
  <2>1. UNCHANGED <<indialog, money>>
    BY <1>3 DEF RbfIdle, Quoted, RbfSigned, RbfSubmit, network, controller, money
  <2>2. Quoted => RbfHolds'
    BY DEF Quoted, RbfOver, RbfHolds
  <2> QED
    BY <1>3, <2>1, <2>2, RbfIdleKeeps, RbfSignedKeeps, RbfSubmitKeeps, IndialogKeeps
<1> QED
  BY <1>1, <1>2, <1>3 DEF RbfStep

(***************************************************************************)
(* The network, the controller and the receive panel                       *)
(***************************************************************************)
\* A scan finds no coin that an accepted transaction spent.  No broadcast is
\* under way, so none relies on the coins of the former snapshot.
LEMMA ScanKeepsMoney ==
    ASSUME MoneyHolds, NEW full, snapshot' = Scan(full),
           UNCHANGED <<relayed, accepted, receipt>>, ~At(send, "network")'
    PROVE  MoneyHolds'
<1>1. snapshot'.coins = Coin \ Spent(relayed)
  BY DEF Scan
<1>2. ASSUME NEW a \in accepted PROVE a.tx.inputs \cap snapshot'.coins = {}
  <2>1. a.tx \in relayed
    BY DEF MoneyHolds
  <2>2. a.tx.inputs \subseteq Spent(relayed)
    BY <2>1 DEF Spent
  <2> QED
    BY <1>1, <2>2
<1> QED
  BY <1>2 DEF MoneyHolds, NoSelfConflict

LEMMA SyncKeeps ==
    ASSUME IInv, Sync
    PROVE  IInv'
<1>1. /\ UNCHANGED <<send, sendBusy, receipt, shown>>
      /\ UNCHANGED <<rbf, rbfBusy, relayed, accepted>>
      /\ \E full \in BOOLEAN : snapshot' = Scan(full)
  BY DEF Sync, network, panel, dialog, shown
<1>2. ~At(send, "network")'
  BY <1>1 DEF Sync, QuietNow, At
<1> QED
  BY <1>1, <1>2, ScanKeepsMoney, SendUnchanged, PanelUnchanged, RbfUnchanged DEF IInv

LEMMA RescanKeeps ==
    ASSUME IInv, Rescan
    PROVE  IInv'
<1>1. /\ UNCHANGED <<sendBusy, receipt, shown>>
      /\ UNCHANGED <<rbf, rbfBusy, relayed, accepted>>
      /\ snapshot' = Scan(TRUE) \/ UNCHANGED snapshot
  BY DEF Rescan, network, panel, dialog, shown
<1>2. /\ ~At(send, "network")
      /\ send' = send \/ (At(send, "refresh") /\ Goto("resume", send.own, send.known))
  BY DEF Rescan
<1>3. CASE send' = send
  <2>1. MoneyHolds'
    BY <1>1, <1>2, <1>3, ScanKeepsMoney, MoneyUnchanged DEF IInv, At, money
  <2> QED
    BY <1>1, <1>3, <2>1, SendUnchanged, PanelUnchanged, RbfUnchanged DEF IInv
<1>4. CASE At(send, "refresh") /\ Goto("resume", send.own, send.known)
  <2>1. /\ send # None /\ send.stage = "refresh"
        /\ send'.kind = send.kind /\ send'.stage = "resume" /\ send'.closure = send.closure
    BY <1>4, GotoFacts DEF At
  <2>2. SendHolds'
    BY <1>1, <2>1 DEF IInv, SendHolds, shown, MayAwait, AsReviewed
  <2>3. MoneyHolds'
    BY <1>1, <2>1, ScanKeepsMoney, MoneyUnchanged DEF IInv, At, money
  <2> QED
    BY <1>1, <2>2, <2>3, PanelUnchanged, RbfUnchanged DEF IInv
<1> QED
  BY <1>2, <1>3, <1>4

\* What the flows rely on is left alone.
LEMMA ElsewhereKeeps ==
    ASSUME IInv, UNCHANGED <<money, panel, dialog, send, rbf>>
    PROVE  IInv'
<1>1. UNCHANGED <<send, sendBusy, receipt, shown>> /\ UNCHANGED <<rbf, rbfBusy, receipt>>
  BY DEF panel, dialog, shown
<1> QED
  BY <1>1, SendUnchanged, PanelUnchanged, RbfUnchanged, MoneyUnchanged DEF IInv

LEMMA EnvironmentKeeps ==
    ASSUME IInv, Environment
    PROVE  IInv'
<1>1. CASE GoStale \/ (\E tx \in mempool : Confirm(tx)) \/ Pay
  BY <1>1, ElsewhereKeeps DEF GoStale, Confirm, Pay, network, controller, dialog, money
<1> QED
  BY <1>1, SyncKeeps, RescanKeeps DEF Environment

LEMMA ReceivingKeeps ==
    ASSUME IInv, ShowPrimary \/ ReserveNewAddress \/ ReceiveStep
    PROVE  IInv'
BY ElsewhereKeeps DEF ShowPrimary, ReserveNewAddress, ReceiveStep, ReceiveReserved,
   ReceiveDerived, ReceiveDeriveFails, ReceiveRefreshed, meanwhile, network, controller,
   dialog, money

(***************************************************************************)
(* The theorems                                                            *)
(***************************************************************************)
LEMMA InitHolds == Init => IInv
BY DEF Init, IInv, SendHolds, PanelHolds, RbfHolds, MoneyHolds, NoSelfConflict, At

LEMMA NextKeeps ==
    ASSUME IInv, [Next]_vars
    PROVE  IInv'
<1>1. CASE UNCHANGED vars
  BY <1>1, ElsewhereKeeps DEF vars, network, controller, dialog, money
<1> QED
  BY <1>1, EnvironmentKeeps, ClickKeeps, SendStepKeeps, DialogClickKeeps, RbfStepKeeps,
     ReceivingKeeps DEF Next

\* The flows keep the invariant (wallet-dashboard.tsx:810-1260).
THEOREM FlowInvariant == Spec => []IInv
<1>1. IInv /\ [Next]_vars => IInv'
  BY NextKeeps
<1> QED
  BY InitHolds, <1>1, PTL DEF Spec

\* The transaction ready to be broadcast is the one the panel shows, and what
\* is being broadcast was under review (wallet-dashboard.tsx:914-946, 1013-1037).
THEOREM WhatIsSentWasReviewed == Spec => []SignedIsReviewed
<1>1. IInv => SignedIsReviewed
  BY DEF IInv, SendHolds, PanelHolds, SignedIsReviewed
<1> QED
  BY FlowInvariant, <1>1, PTL

\* No two transactions known to be accepted spend the same coin, unless one was
\* made to replace the other (transparentBroadcast.ts:83-149).
THEOREM NoAccidentalConflict == Spec => []NoSelfConflict
<1>1. IInv => NoSelfConflict
  BY DEF IInv, MoneyHolds
<1> QED
  BY FlowInvariant, <1>1, PTL

(***************************************************************************)
(* The types, and what bounds leave room for                               *)
(***************************************************************************)
\* Addresses the wallet's own outputs go to, and those others pay.
Inner == {a \in Address : a.chain # "receive"}
Outer == {a \in Address : a.chain = "receive"}

\* What the panels and the network hold of the wallet's own.
Sent == {tx \in Tx : tx.own \in Inner \cup {None}}
Reviewed == {r \in Review : r.change \in Inner}
PlanReviewed == {r \in PlanReview : r.change \in Inner}
Receipted == {r \in Receipt : /\ r.tx \in Sent
                              /\ r.rbf # None => r.rbf.own \in Inner}
Entered == {f \in Form : f.outputs # <<>>}

\* A snapshot a flow may work on: it knows of no use that did not happen, and of
\* no scan that the wallet does not remember.
KnownBy(s, used, reach) ==
    s \in Snapshot /\ s.used \subseteq used /\ \A c \in Chain : s.reach[c] <= reach[c]
Known(s) == KnownBy(s, paid \cup Paid(relayed), snapshot.reach)

WorldHolds ==
    /\ hd \in BOOLEAN /\ ready \in BOOLEAN /\ aside \in 0 .. MaxAside
    /\ relayed \subseteq Sent /\ IsFiniteSet(relayed) /\ Cardinality(relayed) <= MaxTxs
    /\ mempool \subseteq relayed /\ buried \subseteq Coin
    /\ paid \subseteq Outer /\ IsFiniteSet(paid) /\ Cardinality(paid) <= MaxPaid
    /\ Known(snapshot) /\ snapshot.pending \subseteq relayed

ManagerHolds ==
    /\ issued \in [Chain -> -1 .. MaxIndex]
    /\ issuedIndices \in [Chain -> SUBSET (0 .. MaxIndex)]
    /\ \A c \in Chain :
         /\ issued[c] # -1 => issued[c] \in issuedIndices[c]
         /\ c # "receive" => \A i \in issuedIndices[c] : i <= issued[c]
    /\ issuedAddress = None => issued["receive"] = -1
    /\ IsABag(reserved)
    /\ \A a \in BagToSet(reserved) :
         a \in Address /\ a.index \in issuedIndices[a.chain] /\ reserved[a] = 1

FormsHold ==
    /\ form \in Entered
    /\ sendPreview \in Reviewed \cup {None} /\ preparedSend \in Sent \cup {None}
    /\ consolidationPreview \in PlanReviewed \cup {None}
    /\ preparedConsolidation \in Seq(Sent) \cup {None}
    /\ broadcasted \subseteq relayed
    /\ receipt \in Receipted \cup {None} /\ rbfQuote \in Quote \cup {None}
    /\ issuedAddress \in Outer \cup {None}

\* What a flow of the panels captured.
CapturedHolds ==
    /\ send.kind \in {"preview", "max"} => send.closure \in Entered
    /\ send.kind = "plan" => send.closure \in Nat
    /\ send.kind = "sign" => send.closure \in Reviewed
    /\ send.kind = "signPlan" => send.closure \in PlanReviewed
    /\ send.kind = "broadcast" =>
         send.closure \in [tx : Sent, review : Reviewed \cup {None}]
    /\ send.kind = "next" =>
         send.closure \in [tx : Sent, done : SUBSET Tx] /\ send.closure.done \subseteq relayed

\* What it obtained, and the room there is for what it may obtain.
ObtainedHolds ==
    /\ send.own \in Inner \cup {None}
    /\ send.known # None => Known(send.known)
    /\ send.stage \in {"queued", "derive", "refresh", "resume", "signer"} => send.known # None
    /\ send.kind = "broadcast" /\ send.stage \in {"submit", "network"} =>
         send.own # None /\ send.known # None
    /\ send.stage \in {"derive", "refresh", "resume"} =>
         send.own # None /\ send.own.chain \in Internal
    /\ send.stage = "derive" => send.own.index > issued[send.own.chain]
    /\ send.stage \in {"refresh", "resume"} =>
         send.own.index \in issuedIndices[send.own.chain]
    /\ send.kind \in {"preview", "max", "broadcast", "plan"} /\ send.stage \in {"idle", "queued"}
         => Room
    /\ send.kind \in {"broadcast", "next"} => Cardinality(relayed) < MaxTxs

SendTyped ==
    /\ sendBusy = (send # None)
    /\ send # None =>
         /\ send.kind \in Kind /\ send.stage \in Awaited \ {"rate"}
         /\ CapturedHolds /\ ObtainedHolds

RbfTyped ==
    /\ rbfBusy = (rbf # None)
    /\ rbf # None =>
         /\ rbf \in RbfFlow /\ rbf.stage \in {"idle", "rate", "signer", "submit", "network"}
         /\ rbf.stage \in {"signer", "submit", "network"} => rbf.kind = "replace"
         /\ rbf.kind = "replace" => rbf.quote # None /\ Cardinality(relayed) < MaxTxs
         /\ rbf.tx \in Sent \cup {None}

\* An index of the receive chain is left for the next address.
RoomBeside(indices, payees) ==
    Cardinality(indices \ {a.index : a \in payees}) + MaxPaid <= MaxIndex
RoomLeft(indices) == RoomBeside(indices, paid)

ReceiveTyped ==
    /\ addressBusy = (receive # None)
    /\ receive # None =>
         /\ receive \in ReceiveFlow /\ receive.stage \in {"queued", "derive", "refresh", "resume"}
         /\ Known(receive.known) /\ issuedAddress # None
         /\ receive.own \in Outer \cup {None}
         /\ receive.stage # "queued" => receive.own # None
         /\ receive.stage = "derive" => receive.own.index \notin issuedIndices["receive"]
         /\ receive.stage \in {"queued", "derive"} => RoomLeft(issuedIndices["receive"])
         /\ receive.stage \in {"refresh", "resume"} =>
              /\ receive.own.index \in issuedIndices["receive"]
              /\ RoomLeft(issuedIndices["receive"] \ {receive.own.index})

Typed == WorldHolds /\ ManagerHolds /\ FormsHold /\ SendTyped /\ RbfTyped /\ ReceiveTyped


LEMMA Chains ==
    /\ Internal \subseteq Chain /\ "receive" \in Chain /\ "primary" \in Chain
    /\ \A c \in Internal : c # "receive" /\ c # "primary"
    /\ \A c \in Chain : c # "receive" /\ c # "primary" => c \in Internal
BY FlowAssumption DEF Chain

LEMMA Addresses ==
    /\ None \notin Address /\ Primary \in Inner /\ Primary.chain = "primary" /\ Primary.index = 0
    /\ \A a \in Address : a.chain \in Chain /\ a.index \in 0 .. MaxIndex
    /\ \A a \in Inner : a \in Address /\ a.chain # "receive"
    /\ \A a \in Outer : a \in Address /\ a.chain = "receive"
<1>1. 0 \in 0 .. MaxIndex
  BY FlowAssumption
<1> QED
  BY <1>1, Chains, FlowAssumption DEF Address, Inner, Outer, Primary

LEMMA AddressOf ==
    ASSUME NEW c \in Chain, NEW i \in 0 .. MaxIndex
    PROVE  /\ [chain |-> c, index |-> i] \in Address
           /\ c # "receive" => [chain |-> c, index |-> i] \in Inner
           /\ c = "receive" => [chain |-> c, index |-> i] \in Outer
BY DEF Address, Inner, Outer

LEMMA LastUsedFacts ==
    ASSUME NEW used, used \subseteq Address, NEW chain \in Chain
    PROVE  /\ LastUsed(used, chain) \in -1 .. MaxIndex
           /\ \A a \in used : a.chain = chain => a.index <= LastUsed(used, chain)
           /\ LastUsed(used, chain) # -1 =>
                \E a \in used : a.chain = chain /\ a.index = LastUsed(used, chain)
<1> DEFINE S == {-1} \cup {a.index : a \in {b \in used : b.chain = chain}}
<1>1. \A a \in used : a.index \in 0 .. MaxIndex /\ MaxIndex \in Nat
  BY FlowAssumption, Addresses
<1>2. S \subseteq -1 .. MaxIndex /\ -1 \in S /\ \A x \in S : x <= MaxIndex
  BY <1>1, FlowAssumption
<1>3. /\ \A a \in used : a.chain = chain => a.index \in S
      /\ \A x \in S : x # -1 => \E a \in used : a.chain = chain /\ a.index = x
  OBVIOUS
<1> HIDE DEF S
<1>4. Max(S) \in S /\ \A x \in S : x <= Max(S)
  <2>1. S \subseteq Int /\ S # {} /\ MaxIndex \in Int
    BY <1>2, FlowAssumption
  <2> QED
    BY <1>2, <2>1, GreatestBelow
<1>5. LastUsed(used, chain) = Max(S)
  BY DEF LastUsed, S
<1> QED
  BY <1>2, <1>3, <1>4, <1>5

LEMMA LastUsedGrows ==
    ASSUME NEW used, NEW more, used \subseteq more, more \subseteq Address, NEW chain \in Chain
    PROVE  LastUsed(used, chain) <= LastUsed(more, chain)
<1>1. /\ LastUsed(used, chain) \in -1 .. MaxIndex /\ LastUsed(more, chain) \in -1 .. MaxIndex
      /\ LastUsed(used, chain) # -1 =>
           \E a \in used : a.chain = chain /\ a.index = LastUsed(used, chain)
      /\ \A a \in more : a.chain = chain => a.index <= LastUsed(more, chain)
  BY LastUsedFacts
<1> QED
  BY <1>1, FlowAssumption

(***************************************************************************)
(* What is built, by its type                                              *)
(***************************************************************************)
LEMMA OutputsPay ==
    ASSUME NEW outputs \in Outputs
    PROVE  Len(outputs) \in Nat /\ Amount(outputs) \in Nat
<1>1. /\ Len(outputs) \in Nat /\ DOMAIN outputs = 1 .. Len(outputs)
      /\ \A i \in 1 .. Len(outputs) : outputs[i].amount \in Nat
  <2>1. outputs \in Seq([to : Recipient \cup {None}, amount : Nat])
    BY DEF Outputs
  <2>2. \A i \in 1 .. Len(outputs) : outputs[i] \in [to : Recipient \cup {None}, amount : Nat]
    BY <2>1, ElementOfSeq
  <2> QED
    BY <2>1, <2>2
<1> QED
  BY <1>1, AmountType

LEMMA RateType ==
    ASSUME NEW rate, ValidRate(rate)
    PROVE  rate \in 1 .. MaxRate /\ rate \in Nat \ {0}
BY SizesPositive DEF ValidRate

LEMMA EstimateType ==
    ASSUME NEW tx \in Tx
    PROVE  Estimate(tx) \in Estimated /\ Len(tx.outputs) + tx.pieces \in Nat
<1>1. /\ tx.inputs \subseteq Coin /\ tx.fee \in Nat /\ tx.pieces \in Nat /\ tx.outputs \in Outputs
  BY DEF Tx
<1>2. Cardinality(tx.inputs) \in Nat /\ Len(tx.outputs) \in Nat
  BY <1>1, CoinsAreFinite, OutputsPay
<1> QED
  BY <1>1, <1>2 DEF Estimate, Estimated

LEMMA BuildSendTyped ==
    ASSUME NEW coins, coins \subseteq Coin, NEW outputs \in Outputs, NEW rate,
           NEW own \in Inner, BuildSend(coins, outputs, rate, own) # None
    PROVE  BuildSend(coins, outputs, rate, own) \in Sent /\ rate \in 1 .. MaxRate
<1> DEFINE tx == BuildSend(coins, outputs, rate, own)
<1>0. Amount(outputs) \in Nat
  BY OutputsPay
<1>1. /\ tx = [inputs |-> tx.inputs, outputs |-> outputs, own |-> tx.own,
               pieces |-> tx.pieces, ownValue |-> tx.ownValue, fee |-> tx.fee]
      /\ tx.inputs \subseteq coins /\ ValidRate(rate)
      /\ Total(tx.inputs) = Amount(outputs) + tx.ownValue + tx.fee
      /\ tx.fee \in Nat /\ tx.fee >= rate * VSize(tx)
      /\ \/ tx.own = None /\ tx.pieces = 0 /\ tx.ownValue = 0
         \/ tx.own = own /\ tx.pieces = 1 /\ tx.ownValue \in Nat /\ tx.ownValue >= Dust
  BY <1>0, SpendAddsUp, Zenon
<1>2. own \in Address
  BY Addresses
<1> HIDE DEF tx
<1>3. tx \in Tx /\ tx.own \in Inner \cup {None}
  <2>1. tx.inputs \in SUBSET Coin /\ tx.pieces \in Nat /\ tx.ownValue \in Nat
        /\ tx.own \in Address \cup {None}
    BY <1>1, <1>2
  <2>2. [inputs |-> tx.inputs, outputs |-> outputs, own |-> tx.own,
         pieces |-> tx.pieces, ownValue |-> tx.ownValue, fee |-> tx.fee] \in Tx
    BY <1>1, <2>1 DEF Tx
  <2> QED
    BY <1>1, <2>2
<1> QED
  BY <1>1, <1>3, RateType DEF Sent, tx

LEMMA EmptyOutputs == <<>> \in Outputs
BY DEF Outputs

LEMMA ConsolidateTyped ==
    ASSUME NEW coins, coins \subseteq Coin, NEW rate, NEW own \in Inner,
           Consolidate(coins, rate, own) # None
    PROVE  LET txs == Consolidate(coins, rate, own)
           IN  /\ txs \in Seq(Sent) /\ PlanOf(txs) \in [inputs : Nat, outputs : Nat, fee : Nat]
               /\ rate \in 1 .. MaxRate
<1> DEFINE txs == Consolidate(coins, rate, own)
<1>1. /\ ValidRate(rate)
      /\ \E m \in Nat \ {0} : DOMAIN txs = 1 .. m /\ txs = [b \in 1 .. m |-> txs[b]]
      /\ \A b \in DOMAIN txs :
           /\ txs[b] # None
           /\ txs[b] = [inputs |-> txs[b].inputs, outputs |-> <<>>, own |-> own,
                        pieces |-> txs[b].pieces, ownValue |-> txs[b].ownValue,
                        fee |-> txs[b].fee]
           /\ txs[b].inputs \subseteq coins /\ Cardinality(txs[b].inputs) >= 2
           /\ txs[b].pieces \in Nat /\ txs[b].pieces > 0 /\ txs[b].ownValue \in Nat
           /\ txs[b].ownValue >= txs[b].pieces * MinPerOutput
           /\ Total(txs[b].inputs) = txs[b].ownValue + txs[b].fee
           /\ txs[b].fee \in Nat /\ txs[b].fee >= rate * VSize(txs[b])
      /\ \A a, b \in DOMAIN txs : a # b => txs[a].inputs \cap txs[b].inputs = {}
  BY ConsolidationAddsUp
<1> HIDE DEF txs
<1>2. PICK m \in Nat : DOMAIN txs = 1 .. m /\ txs = [b \in 1 .. m |-> txs[b]]
  BY <1>1
<1>3. ASSUME NEW b \in 1 .. m
      PROVE  txs[b] \in Sent
  <2>1. /\ txs[b].inputs \in SUBSET Coin /\ own \in Address \cup {None}
        /\ txs[b].pieces \in Nat /\ txs[b].ownValue \in Nat /\ txs[b].fee \in Nat
    BY <1>1, <1>2, Addresses
  <2>2. [inputs |-> txs[b].inputs, outputs |-> <<>>, own |-> own,
         pieces |-> txs[b].pieces, ownValue |-> txs[b].ownValue, fee |-> txs[b].fee] \in Tx
    BY <2>1, EmptyOutputs DEF Tx
  <2>3. txs[b] \in Tx
    BY <1>1, <1>2, <2>2
  <2>4. txs[b] = [inputs |-> txs[b].inputs, outputs |-> <<>>, own |-> own,
                  pieces |-> txs[b].pieces, ownValue |-> txs[b].ownValue, fee |-> txs[b].fee]
    BY <1>1, <1>2
  <2>5. ASSUME NEW r, NEW B, NEW P, NEW V, NEW F,
               r = [inputs |-> B, outputs |-> <<>>, own |-> own, pieces |-> P,
                    ownValue |-> V, fee |-> F]
        PROVE  r.own = own
    BY <2>5
  <2>6. txs[b].own = own
    BY <2>4, <2>5, Zenon
  <2> QED
    BY <2>3, <2>6 DEF Sent
<1>4. txs \in Seq(Sent)
  <2>1. [b \in 1 .. m |-> txs[b]] \in Seq(Sent)
    BY <1>3, SeqDef
  <2> QED
    BY <1>2, <2>1
<1>5. PlanOf(txs) \in [inputs : Nat, outputs : Nat, fee : Nat]
  <2>1. \A b \in 1 .. m : txs[b].inputs \subseteq Coin /\ txs[b].pieces \in Nat /\ txs[b].fee \in Nat
    BY <1>1, <1>2
  <2> QED
    BY <1>2, <2>1, PlanType
<1> QED
  BY <1>1, <1>4, <1>5, RateType DEF txs

LEMMA QuoteTyped ==
    ASSUME NEW tx \in Tx, NEW rate, RbfQuote(tx, rate) # None
    PROVE  LET q == RbfQuote(tx, rate)
           IN  /\ q \in Quote /\ q.output + q.fee = Total(tx.inputs) /\ q.fee > tx.fee
<1>1. tx.fee \in Nat /\ tx.inputs \subseteq Coin /\ Len(tx.outputs) + tx.pieces \in Nat
  BY EstimateType DEF Tx
<1> DEFINE q == RbfQuote(tx, rate)
<1>2. /\ q \in [fee : Nat, rate : Nat, output : Nat, bytes : Nat] /\ q.bytes > 0
      /\ q.fee >= tx.fee + q.bytes /\ q.output + q.fee = Total(tx.inputs)
  BY <1>1, QuoteOutbids
<1> HIDE DEF q
<1>3. q.fee > tx.fee
  BY <1>1, <1>2
<1> QED
  BY <1>2, <1>3 DEF Quote, q

LEMMA BuildRbfTyped ==
    ASSUME NEW tx \in Tx, NEW rate, NEW own \in Inner, BuildRbf(tx, rate, own) # None
    PROVE  LET new == BuildRbf(tx, rate, own)
           IN  new \in Sent /\ new.own = own /\ new.outputs = <<>>
<1> DEFINE q == RbfQuote(tx, rate)
           new == BuildRbf(tx, rate, own)
<1>1. tx.fee \in Nat /\ tx.inputs \subseteq Coin /\ Len(tx.outputs) + tx.pieces \in Nat
  BY EstimateType DEF Tx
<1>2. /\ q # None
      /\ new = [inputs |-> tx.inputs, outputs |-> <<>>, own |-> own, pieces |-> 1,
                ownValue |-> q.output, fee |-> q.fee]
  BY <1>1, ReplacementOutbids
<1>3. q.output \in Nat /\ q.fee \in Nat
  <2>1. q \in Quote
    BY <1>2, QuoteTyped
  <2> HIDE DEF q
  <2> QED
    BY <2>1 DEF Quote
<1> HIDE DEF q, new
<1>4. own \in Address
  BY Addresses
<1>5. new \in Tx /\ new.own = own /\ new.outputs = <<>>
  BY <1>1, <1>2, <1>3, <1>4, EmptyOutputs DEF Tx
<1> QED
  BY <1>5 DEF Sent, new

(***************************************************************************)
(* What a step may add to what the flows know                              *)
(***************************************************************************)
Grows ==
    /\ relayed \subseteq relayed' /\ paid \subseteq paid'
    /\ \A c \in Chain : snapshot.reach[c] <= snapshot.reach'[c]

LEMMA SnapshotFields ==
    ASSUME NEW s \in Snapshot
    PROVE  /\ s.scannedAt \in Nat /\ s.coins \subseteq Coin /\ s.used \subseteq Address
           /\ s.pending \subseteq Tx
           /\ \A c \in Chain : s.reach[c] \in 0 .. MaxIndex + Gap /\ s.reach[c] \in Int
<1>1. /\ s.scannedAt \in Nat /\ s.coins \subseteq Coin /\ s.used \subseteq Address
      /\ s.pending \subseteq Tx /\ s.reach \in [Chain -> 0 .. MaxIndex + Gap]
  BY DEF Snapshot
<1> QED
  BY <1>1, FlowAssumption

\* What a snapshot knows remains known.
LEMMA KnownGrows ==
    ASSUME NEW s, NEW used, NEW more, NEW reach, NEW further, KnownBy(s, used, reach),
           used \subseteq more,
           \A c \in Chain : reach[c] \in Int /\ further[c] \in Int /\ reach[c] <= further[c]
    PROVE  KnownBy(s, more, further)
<1>1. \A c \in Chain : s.reach[c] \in Int
  BY SnapshotFields DEF KnownBy
<1> QED
  BY <1>1 DEF KnownBy

LEMMA PaidType ==
    ASSUME NEW txs, txs \subseteq Sent
    PROVE  /\ Paid(txs) \subseteq Inner /\ \A tx \in txs : Paid({tx}) \subseteq Paid(txs)
           /\ \A tx \in txs : tx.own # None => tx.own \in Paid(txs)
BY DEF Paid, Sent

LEMMA MaxOfThree ==
    ASSUME NEW a \in Int, NEW b \in Int, NEW c \in Int
    PROVE  LET m == Max({a, b, c})
           IN  m \in {a, b, c} /\ a <= m /\ b <= m /\ c <= m
<1>1. \E m \in {a, b, c} : \A x \in {a, b, c} : x <= m
  <2>1. CASE a >= b /\ a >= c
    BY <2>1
  <2>2. CASE b >= a /\ b >= c
    BY <2>2
  <2>3. CASE c >= a /\ c >= b
    BY <2>3
  <2> QED
    BY <2>1, <2>2, <2>3
<1>2. {a, b, c} \subseteq Int /\ {a, b, c} # {}
  OBVIOUS
<1>3. Max({a, b, c}) \in {a, b, c} /\ \A x \in {a, b, c} : x <= Max({a, b, c})
  BY <1>1, <1>2, GreatestBelow
<1> QED
  BY <1>3

LEMMA ScanRequirementsFacts ==
    ASSUME ManagerHolds, NEW c \in Chain
    PROVE  /\ ScanRequirements(c) \in -1 .. MaxIndex
           /\ \A i \in issuedIndices[c] : i <= ScanRequirements(c)
<1> DEFINE S == {-1} \cup issuedIndices[c]
<1>1. issuedIndices[c] \subseteq 0 .. MaxIndex /\ MaxIndex \in Nat
  BY FlowAssumption DEF ManagerHolds
<1>2. S \subseteq -1 .. MaxIndex /\ S # {} /\ \A x \in S : x <= MaxIndex
  BY <1>1
<1>3. \A i \in issuedIndices[c] : i \in S
  OBVIOUS
<1>4. ScanRequirements(c) = Max(S)
  BY DEF ScanRequirements
<1> HIDE DEF S
<1>5. Max(S) \in S /\ \A x \in S : x <= Max(S)
  <2>1. S \subseteq Int /\ MaxIndex \in Int
    BY <1>1, <1>2
  <2> QED
    BY <1>2, <2>1, GreatestBelow
<1> QED
  BY <1>2, <1>3, <1>4, <1>5

\* How far a full scan looks.
Far(c) == Max({snapshot.reach[c], LastUsed(paid \cup Paid(relayed), c) + Gap, ScanRequirements(c)})

\* A scan keeps what was reached; a full one reaches every issued address.
LEMMA ScanFacts ==
    ASSUME WorldHolds, ManagerHolds, NEW full \in BOOLEAN
    PROVE  LET s == Scan(full)
           IN  /\ KnownBy(s, paid \cup Paid(relayed), s.reach) /\ s.pending \subseteq relayed
               /\ s.used = paid \cup Paid(relayed)
               /\ \A c \in Chain : snapshot.reach[c] <= s.reach[c]
               /\ full => \A c \in Chain \ {"primary"} : \A i \in issuedIndices[c] : i <= s.reach[c]
<1> DEFINE used == paid \cup Paid(relayed)
           reach == [c \in Chain |-> IF ~full \/ c = "primary" THEN snapshot.reach[c] ELSE Far(c)]
           s == Scan(full)
<1>1. /\ snapshot \in Snapshot /\ paid \subseteq Outer /\ relayed \subseteq Sent /\ mempool \subseteq relayed
  BY DEF WorldHolds, Known, KnownBy
<1>2. used \subseteq Address
  BY <1>1, PaidType, Addresses
<1>3. ASSUME NEW c \in Chain
      PROVE  /\ Far(c) \in 0 .. MaxIndex + Gap
             /\ snapshot.reach[c] <= Far(c) /\ ScanRequirements(c) <= Far(c)
  <2>1. /\ snapshot.reach[c] \in 0 .. MaxIndex + Gap /\ LastUsed(used, c) \in -1 .. MaxIndex
        /\ ScanRequirements(c) \in -1 .. MaxIndex /\ Gap \in Nat \ {0} /\ MaxIndex \in Nat
    BY <1>1, <1>2, SnapshotFields, LastUsedFacts, ScanRequirementsFacts, FlowAssumption
  <2> DEFINE a == snapshot.reach[c]
             b == LastUsed(used, c) + Gap
             r == ScanRequirements(c)
  <2>2. a \in 0 .. MaxIndex + Gap /\ b \in 0 .. MaxIndex + Gap /\ r \in -1 .. MaxIndex
        /\ a \in Int /\ b \in Int /\ r \in Int /\ Far(c) = Max({a, b, r})
    BY <2>1 DEF Far
  <2> HIDE DEF a, b, r
  <2>3. Far(c) \in {a, b, r} /\ a <= Far(c) /\ b <= Far(c) /\ r <= Far(c)
    BY <2>2, MaxOfThree
  <2> QED
    BY <2>1, <2>2, <2>3 DEF a, r
<1>4. s = [scannedAt |-> snapshot.scannedAt + 1, coins |-> Coin \ Spent(relayed),
           used |-> used, pending |-> mempool, reach |-> reach]
  BY DEF Scan, Far
<1>5. \A c \in Chain : snapshot.reach[c] \in 0 .. MaxIndex + Gap /\ snapshot.reach[c] \in Int
  BY <1>1, SnapshotFields
<1>6. reach \in [Chain -> 0 .. MaxIndex + Gap]
  BY <1>3, <1>5
<1>7. \A c \in Chain : snapshot.reach[c] <= reach[c] /\ reach[c] <= reach[c]
  <2>1. \A c \in Chain : reach[c] = snapshot.reach[c] \/ reach[c] = Far(c)
    OBVIOUS
  <2> HIDE DEF reach
  <2>2. \A c \in Chain : reach[c] \in Int
    BY <1>6, FlowAssumption
  <2> QED
    BY <1>3, <1>5, <2>1, <2>2
<1>8. ASSUME full, NEW c \in Chain \ {"primary"}, NEW i \in issuedIndices[c]
      PROVE  i <= reach[c]
  <2>1. reach[c] = Far(c)
    BY <1>8
  <2>2. i <= ScanRequirements(c) /\ i \in Int /\ ScanRequirements(c) \in Int
    <3>1. i \in 0 .. MaxIndex /\ MaxIndex \in Nat
      BY FlowAssumption DEF ManagerHolds
    <3> QED
      BY <3>1, ScanRequirementsFacts
  <2>3. Far(c) \in Int /\ ScanRequirements(c) <= Far(c)
    <3>1. Far(c) \in 0 .. MaxIndex + Gap /\ ScanRequirements(c) <= Far(c)
      BY <1>3
    <3> QED
      BY <3>1
  <2> HIDE DEF reach
  <2> QED
    BY <2>1, <2>2, <2>3
<1>9. snapshot.scannedAt + 1 \in Nat /\ Coin \ Spent(relayed) \in SUBSET Coin
      /\ mempool \in SUBSET Tx
  BY <1>1, SnapshotFields DEF Sent
<1> HIDE DEF used, reach, s
<1>10. s \in Snapshot
  BY <1>2, <1>4, <1>6, <1>9 DEF Snapshot
<1>11. s.used = used /\ s.reach = reach /\ s.pending = mempool
  BY <1>4
<1> QED
  BY <1>1, <1>7, <1>8, <1>10, <1>11 DEF KnownBy, used, s

\* So does a projection, which reaches no further.
LEMMA ProjectionFacts ==
    ASSUME WorldHolds, NEW tx \in Sent, NEW original
    PROVE  LET s == Projected(tx, original)
               more == relayed \cup {tx}
           IN  /\ KnownBy(s, paid \cup Paid(more), s.reach) /\ s.pending \subseteq more
               /\ s.used = snapshot.used \cup Paid({tx}) /\ s.reach = snapshot.reach
               /\ s.coins = snapshot.coins \ tx.inputs
<1> DEFINE s == Projected(tx, original)
           more == relayed \cup {tx}
           used == snapshot.used \cup Paid({tx})
<1>1. /\ snapshot \in Snapshot /\ relayed \subseteq Sent /\ snapshot.pending \subseteq relayed
      /\ snapshot.used \subseteq paid \cup Paid(relayed)
  BY DEF WorldHolds, Known, KnownBy
<1>2. Paid(relayed) \subseteq Paid(more) /\ Paid({tx}) \subseteq Paid(more) /\ Paid({tx}) \subseteq Address
  <2>1. Paid({tx}) \subseteq Inner
    BY PaidType
  <2>2. Inner \subseteq Address
    BY DEF Inner
  <2> QED
    BY <2>1, <2>2 DEF Paid
<1>3. s = [scannedAt |-> snapshot.scannedAt + 1, coins |-> snapshot.coins \ tx.inputs,
           used |-> used, pending |-> (snapshot.pending \ {original}) \cup {tx},
           reach |-> snapshot.reach]
  BY DEF Projected, Projection
<1>4. /\ snapshot.scannedAt + 1 \in Nat /\ snapshot.coins \ tx.inputs \in SUBSET Coin
      /\ used \in SUBSET Address /\ (snapshot.pending \ {original}) \cup {tx} \in SUBSET Tx
  <2>1. /\ snapshot.scannedAt \in Nat /\ snapshot.coins \subseteq Coin
        /\ snapshot.used \subseteq Address /\ snapshot.pending \subseteq Tx /\ tx \in Tx
    BY <1>1, SnapshotFields DEF Sent
  <2> QED
    BY <1>2, <2>1
<1>5. snapshot.reach \in [Chain -> 0 .. MaxIndex + Gap]
  BY <1>1 DEF Snapshot
<1>6. \A c \in Chain : snapshot.reach[c] <= snapshot.reach[c]
  BY <1>1, SnapshotFields
<1> HIDE DEF s, used
<1>7. s \in Snapshot
  BY <1>3, <1>4, <1>5 DEF Snapshot
<1>8. /\ s.used = used /\ s.reach = snapshot.reach /\ s.coins = snapshot.coins \ tx.inputs
      /\ s.pending = (snapshot.pending \ {original}) \cup {tx}
  BY <1>3
<1>9. used \subseteq paid \cup Paid(more)
  BY <1>1, <1>2 DEF used
<1> QED
  BY <1>1, <1>6, <1>7, <1>8, <1>9 DEF KnownBy, used, s

(***************************************************************************)
(* What a step leaves alone                                                *)
(***************************************************************************)
LEMMA WorldUnchanged ==
    ASSUME WorldHolds, UNCHANGED <<hd, network, controller>>
    PROVE  WorldHolds' /\ Grows
<1>1. UNCHANGED <<hd, relayed, mempool, buried, paid, ready, snapshot, aside>>
  BY DEF network, controller
<1>2. \A c \in Chain : snapshot.reach[c] <= snapshot.reach[c]
  BY DEF WorldHolds, Known, KnownBy
<1> QED
  BY <1>1, <1>2 DEF WorldHolds, Known, Grows

\* The server takes a transaction; the wallet learns of it or not.
LEMMA WorldRelay ==
    ASSUME WorldHolds, NEW tx \in Sent, Cardinality(relayed) < MaxTxs, Relay(tx),
           UNCHANGED <<hd, aside>>, NEW original,
           \/ snapshot' = Projected(tx, original) /\ ready' = TRUE
           \/ UNCHANGED <<snapshot, ready>>
    PROVE  WorldHolds' /\ Grows /\ tx \in relayed'
<1>1. /\ relayed' = relayed \cup {tx} /\ paid' = paid /\ buried' = buried
      /\ mempool' \subseteq mempool \cup {tx}
  BY DEF Relay
<1>2. /\ relayed' \subseteq Sent /\ mempool' \subseteq relayed'
      /\ buried' \subseteq Coin /\ paid' \subseteq Outer /\ IsFiniteSet(paid')
      /\ Cardinality(paid') <= MaxPaid /\ hd' \in BOOLEAN /\ aside' \in 0 .. MaxAside
      /\ ready' \in BOOLEAN
  BY <1>1 DEF WorldHolds
<1>3. IsFiniteSet(relayed') /\ Cardinality(relayed') <= MaxTxs
  <2>1. IsFiniteSet(relayed) /\ Cardinality(relayed) \in Nat
    BY FS_CardinalityType DEF WorldHolds
  <2>2. /\ IsFiniteSet(relayed \cup {tx})
        /\ Cardinality(relayed \cup {tx}) \in {Cardinality(relayed), Cardinality(relayed) + 1}
    BY <2>1, FS_AddElement
  <2> QED
    BY <1>1, <2>1, <2>2, FlowAssumption
<1>4. snapshot \in Snapshot /\ \A c \in Chain : snapshot.reach[c] \in Int
  BY SnapshotFields DEF WorldHolds, Known, KnownBy
<1>5. CASE snapshot' = Projected(tx, original)
  <2>1. /\ KnownBy(snapshot', paid' \cup Paid(relayed'), snapshot'.reach)
        /\ snapshot'.pending \subseteq relayed' /\ snapshot'.reach = snapshot.reach
    BY <1>1, <1>5, ProjectionFacts
  <2> QED
    BY <1>1, <1>2, <1>3, <1>4, <2>1 DEF WorldHolds, Known, Grows
<1>6. CASE UNCHANGED <<snapshot, ready>>
  <2>1. Paid(relayed) \subseteq Paid(relayed')
    BY <1>1 DEF Paid
  <2>2. KnownBy(snapshot', paid' \cup Paid(relayed'), snapshot'.reach)
    BY <1>1, <1>4, <1>6, <2>1 DEF WorldHolds, Known, KnownBy
  <2>3. snapshot'.pending \subseteq relayed'
    BY <1>1, <1>6 DEF WorldHolds
  <2> QED
    BY <1>1, <1>2, <1>3, <1>4, <1>6, <2>2, <2>3 DEF WorldHolds, Known, Grows
<1> QED
  BY <1>5, <1>6

LEMMA WorldScan ==
    ASSUME WorldHolds, ManagerHolds, UNCHANGED <<hd, network>>, aside' \in 0 .. MaxAside,
           ready' \in BOOLEAN, NEW full \in BOOLEAN, snapshot' = Scan(full)
    PROVE  WorldHolds' /\ Grows
<1>1. UNCHANGED <<hd, relayed, mempool, buried, paid>>
  BY DEF network
<1>2. /\ KnownBy(snapshot', paid \cup Paid(relayed), snapshot'.reach)
      /\ snapshot'.pending \subseteq relayed
      /\ \A c \in Chain : snapshot.reach[c] <= snapshot'.reach[c]
  BY ScanFacts
<1> QED
  BY <1>1, <1>2 DEF WorldHolds, Known, Grows

LEMMA ManagerUnchanged ==
    ASSUME ManagerHolds, UNCHANGED <<issued, issuedIndices, reserved>>,
           issuedAddress' = None => issuedAddress = None
    PROVE  ManagerHolds'
BY DEF ManagerHolds

LEMMA FormsUnchanged ==
    ASSUME FormsHold, relayed \subseteq relayed',
           UNCHANGED <<form, sendPreview, preparedSend, consolidationPreview,
                       preparedConsolidation, broadcasted, receipt, rbfQuote, issuedAddress>>
    PROVE  FormsHold'
BY DEF FormsHold

\* What a flow knows it goes on knowing.
LEMMA KnownStays ==
    ASSUME WorldHolds, WorldHolds', Grows, NEW s, KnownBy(s, paid \cup Paid(relayed), snapshot.reach)
    PROVE  KnownBy(s, paid' \cup Paid(relayed'), snapshot'.reach)
<1>1. paid \cup Paid(relayed) \subseteq paid' \cup Paid(relayed')
  BY DEF Grows, Paid
<1>2. /\ \A c \in Chain : snapshot.reach[c] \in Int /\ snapshot'.reach[c] \in Int
      /\ \A c \in Chain : snapshot.reach[c] <= snapshot'.reach[c]
  <2>1. snapshot \in Snapshot /\ snapshot' \in Snapshot
    BY DEF WorldHolds, Known, KnownBy
  <2> QED
    BY <2>1, SnapshotFields DEF Grows
<1> QED
  BY <1>1, <1>2, KnownGrows

\* A flow of the panels is not moved, nor what it counts on.
LEMMA SendUnmoved ==
    ASSUME SendTyped, WorldHolds, WorldHolds', Grows, UNCHANGED <<send, sendBusy>>,
           send # None => relayed' = relayed,
           \A c \in Internal : issued'[c] = issued[c] /\ issuedIndices[c] \subseteq issuedIndices'[c]
    PROVE  SendTyped'
<1>1. CASE send = None
  BY <1>1 DEF SendTyped
<1>2. CASE send # None
  <2>1. CapturedHolds /\ ObtainedHolds /\ relayed' = relayed
    BY <1>2 DEF SendTyped
  <2>2. CapturedHolds'
    BY <2>1 DEF CapturedHolds
  <2>3. Room => Room'
    BY <2>1 DEF Room
  <2>4. send.known # None => Known(send.known)'
    <3>1. send.known # None => KnownBy(send.known, paid \cup Paid(relayed), snapshot.reach)
      BY <2>1 DEF ObtainedHolds, Known
    <3>2. send.known # None => KnownBy(send.known, paid' \cup Paid(relayed'), snapshot'.reach)
      BY <3>1, KnownStays
    <3> QED
      BY <3>2 DEF Known
  <2>5. ObtainedHolds'
    BY <2>1, <2>3, <2>4 DEF ObtainedHolds
  <2> QED
    BY <1>2, <2>2, <2>5 DEF SendTyped
<1> QED
  BY <1>1, <1>2

LEMMA RbfUnmoved ==
    ASSUME RbfTyped, UNCHANGED <<rbf, rbfBusy>>, rbf # None => relayed' = relayed
    PROVE  RbfTyped'
BY DEF RbfTyped

LEMMA ReceiveUnmoved ==
    ASSUME ReceiveTyped, WorldHolds, WorldHolds', Grows,
           UNCHANGED <<receive, addressBusy, issuedAddress, paid>>,
           receive # None => issuedIndices'["receive"] = issuedIndices["receive"]
    PROVE  ReceiveTyped'
<1>1. receive # None => Known(receive.known)'
  BY KnownStays DEF ReceiveTyped, Known
<1> QED
  BY <1>1 DEF ReceiveTyped, RoomLeft, RoomBeside

\* Remembering a new address, reserved or not.
LEMMA RememberKeeps ==
    ASSUME ManagerHolds, NEW a \in Address, a.chain # "receive" => issued[a.chain] < a.index,
           Remember(a),
           issuedAddress' = None => issuedAddress = None /\ a.chain # "receive",
           \/ UNCHANGED reserved
           \/ /\ a.index \notin issuedIndices[a.chain]
              /\ reserved' = reserved (+) SetToBag({a})
    PROVE  /\ ManagerHolds'
           /\ issuedIndices'[a.chain] = issuedIndices[a.chain] \cup {a.index}
           /\ \A c \in Chain : issuedIndices[c] \subseteq issuedIndices'[c]
           /\ \A c \in Chain \ {a.chain} :
                issued'[c] = issued[c] /\ issuedIndices'[c] = issuedIndices[c]
<1>1. a.chain \in Chain /\ a.index \in 0 .. MaxIndex /\ MaxIndex \in Nat
  BY Addresses, FlowAssumption
<1>2. /\ issued \in [Chain -> -1 .. MaxIndex]
      /\ issuedIndices \in [Chain -> SUBSET (0 .. MaxIndex)]
  BY DEF ManagerHolds
<1>3. /\ issued' = [issued EXCEPT ![a.chain] = a.index]
      /\ issuedIndices' = [issuedIndices EXCEPT ![a.chain] = @ \cup {a.index}]
  BY DEF Remember
<1>4. /\ issued' \in [Chain -> -1 .. MaxIndex]
      /\ issuedIndices' \in [Chain -> SUBSET (0 .. MaxIndex)]
      /\ issued'[a.chain] = a.index
      /\ issuedIndices'[a.chain] = issuedIndices[a.chain] \cup {a.index}
      /\ \A c \in Chain \ {a.chain} :
           issued'[c] = issued[c] /\ issuedIndices'[c] = issuedIndices[c]
      /\ \A c \in Chain : issuedIndices[c] \subseteq issuedIndices'[c]
  BY <1>1, <1>2, <1>3
<1>5. ASSUME NEW c \in Chain
      PROVE  /\ issued'[c] # -1 => issued'[c] \in issuedIndices'[c]
             /\ c # "receive" => \A i \in issuedIndices'[c] : i <= issued'[c]
  <2>1. CASE c = a.chain
    <3>1. c # "receive" => issued[c] < a.index /\ issued[c] \in -1 .. MaxIndex
                           /\ \A i \in issuedIndices[c] : i <= issued[c] /\ i \in 0 .. MaxIndex
      BY <1>2, <2>1 DEF ManagerHolds
    <3>2. c # "receive" => \A i \in issuedIndices[c] : i <= a.index
      BY <1>1, <3>1
    <3> QED
      BY <1>1, <1>4, <2>1, <3>2
  <2>2. CASE c # a.chain
    BY <1>4, <2>2 DEF ManagerHolds
  <2> QED
    BY <2>1, <2>2
<1>6. issuedAddress' = None => issued'["receive"] = -1
  BY <1>4, Chains DEF ManagerHolds
<1>7. IsABag(reserved') /\ \A b \in BagToSet(reserved') :
        b \in Address /\ b.index \in issuedIndices'[b.chain] /\ reserved'[b] = 1
  <2>1. /\ IsABag(reserved)
        /\ \A b \in DOMAIN reserved :
             b \in Address /\ b.index \in issuedIndices[b.chain] /\ reserved[b] = 1
    BY DEF ManagerHolds, BagToSet
  <2>2. \A b \in Address : b.chain \in Chain
    BY Addresses
  <2>3. CASE UNCHANGED reserved
    BY <1>4, <2>1, <2>2, <2>3 DEF BagToSet
  <2>4. CASE /\ a.index \notin issuedIndices[a.chain]
             /\ reserved' = reserved (+) SetToBag({a})
    <3>1. a \notin DOMAIN reserved
      BY <2>1, <2>4
    <3>2. DOMAIN SetToBag({a}) = {a} /\ SetToBag({a})[a] = 1
      BY DEF SetToBag
    <3>3. /\ reserved' = [e \in DOMAIN reserved \cup {a} |->
                 (IF e \in DOMAIN reserved THEN reserved[e] ELSE 0)
                 + (IF e \in {a} THEN SetToBag({a})[e] ELSE 0)]
      BY <2>4, <3>2 DEF (+)
    <3>4. /\ DOMAIN reserved' = DOMAIN reserved \cup {a} /\ reserved'[a] = 1
          /\ \A b \in DOMAIN reserved : reserved'[b] = 1
      BY <2>1, <3>1, <3>2, <3>3
    <3>5. IsABag(reserved')
      BY <3>3, <3>4 DEF IsABag
    <3> QED
      BY <1>4, <2>1, <2>2, <3>4, <3>5 DEF BagToSet
  <2> QED
    BY <2>3, <2>4
<1> QED
  BY <1>4, <1>5, <1>6, <1>7 DEF ManagerHolds

(***************************************************************************)
(* The addresses the manager chooses                                       *)
(***************************************************************************)
LEMMA LargerFacts ==
    ASSUME NEW a \in Int, NEW b \in Int
    PROVE  Larger(a, b) \in {a, b} /\ a <= Larger(a, b) /\ b <= Larger(a, b)
BY DEF Larger

\* On an internal chain nobody but the wallet pays.
LEMMA InternalUses ==
    ASSUME WorldHolds, NEW s, Known(s), NEW c \in Internal
    PROVE  /\ LastUsed(s.used, c) \in -1 .. MaxIndex
           /\ LastUsed(s.used, c) <= LastUsed(Paid(relayed), c)
           /\ LastUsed(Paid(relayed), c) \in -1 .. MaxIndex
           /\ \A a \in s.used : a.chain = c => a.index <= LastUsed(s.used, c)
<1>1. /\ s.used \subseteq Address /\ s.used \subseteq paid \cup Paid(relayed)
      /\ paid \subseteq Outer /\ relayed \subseteq Sent
  BY SnapshotFields DEF Known, KnownBy, WorldHolds
<1>2. c \in Chain /\ c # "receive" /\ Paid(relayed) \subseteq Address
  BY <1>1, Chains, PaidType, Addresses
<1>3. /\ LastUsed(s.used, c) \in -1 .. MaxIndex /\ LastUsed(Paid(relayed), c) \in -1 .. MaxIndex
      /\ LastUsed(s.used, c) # -1 => \E a \in s.used : a.chain = c /\ a.index = LastUsed(s.used, c)
      /\ \A a \in Paid(relayed) : a.chain = c => a.index <= LastUsed(Paid(relayed), c)
      /\ \A a \in s.used : a.chain = c => a.index <= LastUsed(s.used, c)
  BY <1>1, <1>2, LastUsedFacts
<1>4. \A a \in s.used : a.chain = c => a \in Paid(relayed)
  BY <1>1, <1>2, Addresses
<1>5. LastUsed(s.used, c) <= LastUsed(Paid(relayed), c)
  <2>1. MaxIndex \in Nat
    BY FlowAssumption
  <2> QED
    BY <1>3, <1>4, <2>1
<1> QED
  BY <1>3, <1>5

LEMMA RoomFacts ==
    ASSUME WorldHolds, ManagerHolds, Room, NEW c \in Internal
    PROVE  /\ issued[c] \in -1 .. MaxIndex /\ issued[c] < MaxIndex
           /\ LastUsed(Paid(relayed), c) < MaxIndex
<1>1. issued[c] \in -1 .. MaxIndex /\ MaxIndex \in Nat
  BY Chains, FlowAssumption DEF ManagerHolds
<1>2. LastUsed(Paid(relayed), c) \in -1 .. MaxIndex
  <2>1. Known(snapshot)
    BY DEF WorldHolds
  <2> QED
    BY <2>1, InternalUses
<1>3. Larger(LastUsed(Paid(relayed), c), issued[c]) < MaxIndex
  BY DEF Room
<1> QED
  BY <1>1, <1>2, <1>3 DEF Larger

\* currentOrReserve: the issued address of the chain, or the one above the last
\* used, unused by what the snapshot knows.
LEMMA CurrentFacts ==
    ASSUME WorldHolds, ManagerHolds, Room, NEW s, Known(s), NEW c \in Internal
    PROVE  LET a == CurrentOrReserve(s, c)
           IN  /\ a \in Inner /\ a.chain = c /\ a \notin s.used
               /\ a.index = issued[c] => a.index \in issuedIndices[c]
               /\ a.index # issued[c] => a.index > issued[c]
<1> DEFINE a == CurrentOrReserve(s, c)
           last == LastUsed(s.used, c)
           i == IF issued[c] > last THEN issued[c] ELSE last + 1
<1>1. a = [chain |-> c, index |-> i]
  BY DEF CurrentOrReserve
<1>2. /\ last \in -1 .. MaxIndex /\ last < MaxIndex
      /\ \A b \in s.used : b.chain = c => b.index <= last
  <2>1. /\ last \in -1 .. MaxIndex /\ last <= LastUsed(Paid(relayed), c)
        /\ LastUsed(Paid(relayed), c) \in -1 .. MaxIndex
        /\ \A b \in s.used : b.chain = c => b.index <= last
    BY InternalUses
  <2>2. LastUsed(Paid(relayed), c) < MaxIndex /\ MaxIndex \in Nat
    BY RoomFacts, FlowAssumption
  <2> HIDE DEF last
  <2> QED
    BY <2>1, <2>2
<1>3. issued[c] \in -1 .. MaxIndex /\ MaxIndex \in Nat
  BY RoomFacts, FlowAssumption
<1>4. i \in 0 .. MaxIndex /\ i > last /\ (i # issued[c] => i > issued[c])
  <2> HIDE DEF last
  <2> QED
    BY <1>2, <1>3
<1>5. c \in Chain /\ c # "receive" /\ (issued[c] # -1 => issued[c] \in issuedIndices[c])
  BY Chains DEF ManagerHolds
<1> HIDE DEF i, last, a
<1>6. a \in Inner /\ a.chain = c /\ a.index = i
  BY <1>1, <1>4, <1>5, AddressOf
<1>7. a \notin s.used
  BY <1>2, <1>3, <1>4, <1>6
<1>8. a.index = issued[c] => a.index \in issuedIndices[c]
  BY <1>3, <1>4, <1>5, <1>6
<1> QED
  BY <1>3, <1>4, <1>6, <1>7, <1>8 DEF a

\* reserveNext on an internal chain: above all that was issued or used.
LEMMA NextFacts ==
    ASSUME WorldHolds, ManagerHolds, Room, NEW s, Known(s), NEW c \in Internal
    PROVE  LET a == ReserveNext(s, c)
           IN  /\ a \in Inner /\ a.chain = c /\ a \notin s.used
               /\ a.index > issued[c]
<1> DEFINE a == ReserveNext(s, c)
           last == LastUsed(s.used, c)
           i == Larger(last, issued[c]) + 1
<1>1. c \in Chain /\ c # "receive"
  BY Chains
<1>2. a = [chain |-> c, index |-> i]
  BY <1>1 DEF ReserveNext
<1>3. /\ last \in -1 .. MaxIndex /\ last < MaxIndex
      /\ \A b \in s.used : b.chain = c => b.index <= last
  <2>1. /\ last \in -1 .. MaxIndex /\ last <= LastUsed(Paid(relayed), c)
        /\ LastUsed(Paid(relayed), c) \in -1 .. MaxIndex
        /\ \A b \in s.used : b.chain = c => b.index <= last
    BY InternalUses
  <2>2. LastUsed(Paid(relayed), c) < MaxIndex /\ MaxIndex \in Nat
    BY RoomFacts, FlowAssumption
  <2> HIDE DEF last
  <2> QED
    BY <2>1, <2>2
<1>4. issued[c] \in -1 .. MaxIndex /\ MaxIndex \in Nat /\ issued[c] < MaxIndex
  BY RoomFacts, FlowAssumption
<1>5. i \in 0 .. MaxIndex /\ i > last /\ i > issued[c]
  <2> HIDE DEF last
  <2> QED
    BY <1>3, <1>4 DEF Larger
<1> HIDE DEF i, last, a
<1>6. a \in Inner /\ a.chain = c /\ a.index = i
  BY <1>1, <1>2, <1>5, AddressOf
<1>7. a \notin s.used
  BY <1>3, <1>4, <1>5, <1>6
<1> QED
  BY <1>4, <1>5, <1>6, <1>7 DEF a

\* reserveNext on the receive chain: as long as there is room, an address that
\* was neither issued nor paid.
LEMMA NextReceiveFacts ==
    ASSUME WorldHolds, ManagerHolds, NEW s, Known(s), RoomLeft(issuedIndices["receive"])
    PROVE  LET a == ReserveNext(s, "receive")
           IN  a \in Outer /\ a.index \notin issuedIndices["receive"] /\ a \notin s.used
<1> DEFINE given == issuedIndices["receive"]
           at(i) == [chain |-> "receive", index |-> i]
           free == {i \in 0 .. MaxIndex : i \notin given /\ at(i) \notin s.used}
           P == {b.index : b \in paid}
           a == ReserveNext(s, "receive")
<1>1. a = at(Min(free))
  BY DEF ReserveNext
<1>2. /\ s.used \subseteq paid \cup Paid(relayed) /\ paid \subseteq Outer /\ relayed \subseteq Sent
      /\ IsFiniteSet(paid) /\ Cardinality(paid) <= MaxPaid
      /\ given \subseteq 0 .. MaxIndex /\ MaxIndex \in Nat /\ MaxPaid \in Nat
  BY Chains, FlowAssumption DEF WorldHolds, ManagerHolds, Known, KnownBy
<1>3. \A i \in 0 .. MaxIndex : at(i) \in s.used => i \in P
  <2>1. ASSUME NEW i \in 0 .. MaxIndex, at(i) \in s.used
        PROVE  i \in P
    <3>1. at(i).chain = "receive" /\ at(i).index = i
      OBVIOUS
    <3>2. at(i) \in paid
      BY <1>2, <2>1, <3>1, PaidType, Addresses
    <3> QED
      BY <3>1, <3>2
  <2> QED
    BY <2>1
<1>4. free # {}
  <2>1. SUFFICES ASSUME free = {} PROVE FALSE
    OBVIOUS
  <2>2. 0 .. MaxIndex \subseteq (given \ P) \cup P
    BY <1>3, <2>1
  <2>3. IsFiniteSet(P) /\ Cardinality(P) \in Nat /\ Cardinality(P) <= MaxPaid
    <3>1. IsFiniteSet(P) /\ Cardinality(P) <= Cardinality(paid)
      <4> DEFINE f == [b \in paid |-> b.index]
      <4>1. P = {f[b] : b \in paid} /\ f \in [paid -> P] /\ \A y \in P : \E b \in paid : f[b] = y
        OBVIOUS
      <4>2. f \in Surjection(paid, P)
        BY <4>1 DEF Surjection
      <4> QED
        BY <1>2, <4>2, FS_Surjection
    <3> QED
      BY <1>2, <3>1, FS_CardinalityType
  <2>4. IsFiniteSet(given \ P) /\ Cardinality(given \ P) \in Nat
    <3>1. IsFiniteSet(0 .. MaxIndex)
      <4>1. 0 \in Int /\ MaxIndex \in Int
        BY <1>2
      <4> QED
        BY <4>1, FS_Interval
    <3>2. given \ P \subseteq 0 .. MaxIndex
      BY <1>2
    <3> QED
      BY <3>1, <3>2, FS_Subset, FS_CardinalityType
  <2>5. /\ IsFiniteSet((given \ P) \cup P)
        /\ Cardinality((given \ P) \cup P)
             = Cardinality(given \ P) + Cardinality(P) - Cardinality((given \ P) \cap P)
    BY <2>3, <2>4, FS_Union
  <2>6. Cardinality((given \ P) \cap P) = 0
    <3>1. (given \ P) \cap P = {}
      OBVIOUS
    <3> QED
      BY <3>1, FS_EmptySet
  <2>7. Cardinality(0 .. MaxIndex) <= Cardinality((given \ P) \cup P)
    BY <2>2, <2>5, FS_Subset
  <2>8. Cardinality(0 .. MaxIndex) = MaxIndex + 1
    <3>1. 0 \in Int /\ MaxIndex \in Int
      BY <1>2
    <3>2. Cardinality(0 .. MaxIndex) = IF 0 > MaxIndex THEN 0 ELSE MaxIndex - 0 + 1
      BY <3>1, FS_Interval
    <3> QED
      BY <1>2, <3>2
  <2>9. Cardinality(given \ P) + MaxPaid <= MaxIndex
    BY DEF RoomLeft, RoomBeside
  <2> HIDE DEF given, P, free
  <2> QED
    BY <1>2, <2>3, <2>4, <2>5, <2>6, <2>7, <2>8, <2>9
<1>5. Min(free) \in free
  <2>1. free \subseteq Int /\ 0 \in Int /\ \A x \in free : 0 <= x
    BY <1>2
  <2> HIDE DEF free
  <2> QED
    BY <1>4, <2>1, LeastAbove
<1>6. Min(free) \in 0 .. MaxIndex /\ Min(free) \notin given /\ at(Min(free)) \notin s.used
  BY <1>5
<1> HIDE DEF free
<1>7. at(Min(free)) \in Outer /\ at(Min(free)).index = Min(free)
  BY <1>6, Chains, AddressOf
<1> QED
  BY <1>1, <1>6, <1>7

LEMMA FirstAccount == Priority[1] \in Internal
BY FlowAssumption DEF Internal

\* changeAccountForWallet names an internal chain.
LEMMA AccountFacts ==
    ASSUME NEW outputs \in Outputs, outputs # <<>>, \A i \in DOMAIN outputs : outputs[i].to # None
    PROVE  ChangeAccount(outputs) \in Internal
<1> DEFINE families == {Family[outputs[i].to] : i \in DOMAIN outputs}
           fit == {i \in DOMAIN Priority : Priority[i] \in families}
<1>1. 1 \in DOMAIN outputs /\ outputs[1].to \in Recipient
  <2>1. outputs \in Seq([to : Recipient \cup {None}, amount : Nat]) /\ Len(outputs) \in Nat
        /\ 1 \in 1 .. Len(outputs) /\ DOMAIN outputs = 1 .. Len(outputs)
    BY EmptySeq, LenProperties DEF Outputs
  <2>2. outputs[1] \in [to : Recipient \cup {None}, amount : Nat]
    BY <2>1, ElementOfSeq
  <2> QED
    BY <2>1, <2>2
<1>2. Family[outputs[1].to] \in Internal /\ Family[outputs[1].to] \in families
  BY <1>1, FlowAssumption
<1>3. fit # {} /\ fit \subseteq DOMAIN Priority
  BY <1>2 DEF Internal
<1>4. DOMAIN Priority \subseteq Int /\ \A i \in DOMAIN Priority : 1 <= i
  BY FlowAssumption
<1>5. Min(fit) \in fit
  <2>1. fit \subseteq Int /\ 1 \in Int /\ \A i \in fit : 1 <= i
    BY <1>3, <1>4
  <2> HIDE DEF fit
  <2> QED
    BY <1>3, <2>1, LeastAbove
<1> QED
  BY <1>3, <1>5 DEF ChangeAccount, Internal

(***************************************************************************)
(* The flows of the panels, by their types                                 *)
(***************************************************************************)
LEMMA FlowIsNotNone ==
    ASSUME NEW kind \in Kind, NEW stage \in Awaited, NEW closure \in Closure,
           NEW own \in Inner \cup {None}, NEW known \in Snapshot \cup {None}
    PROVE  [kind |-> kind, stage |-> stage, closure |-> closure, own |-> own, known |-> known] # None
<1>1. own \in Address \cup {None}
  BY Addresses
<1> QED
  BY <1>1, NoneIsNoRecord DEF PanelFlow

LEMMA CapturedClosure ==
    ASSUME CapturedHolds, send.kind \in Kind
    PROVE  send.closure \in Closure
<1>1. /\ Entered \subseteq Form /\ Reviewed \subseteq Review /\ PlanReviewed \subseteq PlanReview
      /\ Sent \subseteq Tx
  BY DEF Entered, Reviewed, PlanReviewed, Sent
<1>2. [tx : Sent, review : Reviewed \cup {None}] \subseteq [tx : Tx, review : Review \cup {None}]
  BY <1>1
<1>3. [tx : Sent, done : SUBSET Tx] \subseteq [tx : Tx, done : SUBSET Tx]
  BY <1>1
<1>4. CASE send.kind \in {"preview", "max"}
  BY <1>1, <1>4 DEF CapturedHolds, Closure
<1>5. CASE send.kind = "plan"
  BY <1>5 DEF CapturedHolds, Closure
<1>6. CASE send.kind = "sign"
  BY <1>1, <1>6 DEF CapturedHolds, Closure
<1>7. CASE send.kind = "signPlan"
  BY <1>1, <1>7 DEF CapturedHolds, Closure
<1>8. CASE send.kind = "broadcast"
  BY <1>2, <1>8 DEF CapturedHolds, Closure
<1>9. CASE send.kind = "next"
  BY <1>3, <1>9 DEF CapturedHolds, Closure
<1> QED
  BY <1>4, <1>5, <1>6, <1>7, <1>8, <1>9 DEF Kind

\* A flow begins with what its click may capture.
LEMMA BeginTyped ==
    ASSUME NEW kind \in Kind \ {"next"}, NEW closure, Begin(kind, closure),
           kind \in {"preview", "max"} => closure \in Entered,
           kind = "plan" => closure \in Nat,
           kind = "sign" => closure \in Reviewed,
           kind = "signPlan" => closure \in PlanReviewed,
           kind = "broadcast" => closure \in [tx : Sent, review : Reviewed \cup {None}],
           kind \in {"preview", "max", "broadcast", "plan"} => Room',
           kind = "broadcast" => Cardinality(relayed') < MaxTxs
    PROVE  SendTyped'
<1>1. /\ sendBusy' = TRUE
      /\ send' = [kind |-> kind, stage |-> "idle", closure |-> closure, own |-> None, known |-> None]
  BY DEF Begin
<1>2. /\ send'.kind = kind /\ send'.stage = "idle" /\ send'.closure = closure
      /\ send'.own = None /\ send'.known = None
  BY <1>1
<1>3. CapturedHolds'
  BY <1>2 DEF CapturedHolds
<1>4. ObtainedHolds'
  BY <1>2 DEF ObtainedHolds
<1>5. closure \in Closure
  BY <1>2, <1>3, CapturedClosure DEF CapturedHolds, Closure, Kind, Entered, Reviewed, PlanReviewed, Sent
<1>6. send' # None
  BY <1>1, <1>5, FlowIsNotNone DEF Awaited
<1> QED
  BY <1>1, <1>2, <1>3, <1>4, <1>6 DEF SendTyped, Awaited

LEMMA FinishTyped == Finish => SendTyped'
BY DEF Finish, SendTyped

\* What the flows of the panels leave alone: nothing of the network or of the
\* dialog changes with them, unless the transaction is taken.
beside == <<receipt, rbfQuote, issuedAddress>>

LEMMA OnwardTyped ==
    ASSUME FormsHold, SendTyped, send # None, UNCHANGED <<relayed, beside>>,
           NEW stage \in Awaited \ {"rate"}, NEW own \in Inner \cup {None}, NEW known,
           Onward(stage, own, known),
           known # None => KnownBy(known, paid' \cup Paid(relayed'), snapshot'.reach),
           stage \in {"queued", "derive", "refresh", "resume", "signer"} => known # None,
           send.kind = "broadcast" /\ stage \in {"submit", "network"} => own # None /\ known # None,
           stage \in {"derive", "refresh", "resume"} => own # None /\ own.chain \in Internal,
           stage = "derive" => own.index > issued'[own.chain],
           stage \in {"refresh", "resume"} => own.index \in issuedIndices'[own.chain],
           stage \in {"idle", "queued"} => Room'
    PROVE  FormsHold' /\ SendTyped'
<1>1. /\ send' = [kind |-> send.kind, stage |-> stage, closure |-> send.closure,
                  own |-> own, known |-> known]
      /\ UNCHANGED panel
  BY DEF Onward, Goto
<1>2. /\ send'.kind = send.kind /\ send'.stage = stage /\ send'.closure = send.closure
      /\ send'.own = own /\ send'.known = known
  BY <1>1
<1>3. send.kind \in Kind /\ CapturedHolds /\ ObtainedHolds /\ sendBusy
  BY DEF SendTyped
<1>4. CapturedHolds'
  BY <1>2, <1>3 DEF CapturedHolds
<1>5. ObtainedHolds'
  BY <1>2, <1>3 DEF ObtainedHolds, Known
<1>6. send' # None
  <2>1. send.closure \in Closure
    BY <1>3, CapturedClosure
  <2>2. known \in Snapshot \cup {None} /\ stage \in Awaited
    BY DEF KnownBy
  <2> QED
    BY <1>1, <1>3, <2>1, <2>2, FlowIsNotNone
<1>7. SendTyped'
  BY <1>1, <1>2, <1>3, <1>4, <1>5, <1>6 DEF SendTyped, panel
<1>8. FormsHold'
  BY <1>1, FormsUnchanged DEF panel, beside
<1> QED
  BY <1>7, <1>8

LEMMA FailTyped ==
    ASSUME FormsHold, relayed \subseteq relayed', UNCHANGED beside, Fail
    PROVE  FormsHold' /\ SendTyped'
<1>1. /\ preparedSend' \in {preparedSend, None} /\ sendPreview' \in {sendPreview, None}
      /\ consolidationPreview' \in {consolidationPreview, None}
      /\ preparedConsolidation' \in {preparedConsolidation, None}
      /\ UNCHANGED <<form, broadcasted>> /\ Finish
  BY DEF Fail
<1> QED
  BY <1>1, FinishTyped DEF FormsHold, beside

LEMMA PreviewedTyped ==
    ASSUME FormsHold, relayed \subseteq relayed', UNCHANGED beside, send.closure \in Entered,
           NEW own \in Inner, NEW known \in Snapshot, NEW tx,
           tx = BuildSend(known.coins, send.closure.outputs, send.closure.rate, own),
           Previewed(tx, own, known)
    PROVE  FormsHold' /\ SendTyped'
<1>1. CASE tx = None
  BY <1>1, FailTyped DEF Previewed
<1>2. CASE tx # None
  <2> DEFINE review == [outputs |-> send.closure.outputs, rate |-> send.closure.rate,
                        change |-> own, estimate |-> Estimate(tx), scannedAt |-> known.scannedAt]
  <2>1. /\ Finish /\ sendPreview' = review
        /\ UNCHANGED <<form, preparedSend, consolidationPreview, preparedConsolidation, broadcasted>>
    BY <1>2 DEF Previewed
  <2>2. send.closure.outputs \in Outputs /\ known.coins \subseteq Coin /\ known.scannedAt \in Nat
    BY SnapshotFields DEF Entered, Form
  <2>3. tx \in Sent /\ send.closure.rate \in 1 .. MaxRate
    BY <1>2, <2>2, BuildSendTyped
  <2>4. Estimate(tx) \in Estimated
    BY <2>3, EstimateType DEF Sent
  <2>5. review \in Review /\ review.change = own
    BY <2>2, <2>3, <2>4, Addresses DEF Review
  <2> HIDE DEF review
  <2>6. review \in Reviewed
    BY <2>5 DEF Reviewed
  <2> QED
    BY <2>1, <2>6, FinishTyped DEF FormsHold, beside
<1> QED
  BY <1>1, <1>2

LEMMA WithAmountTyped ==
    ASSUME NEW f \in Entered, NEW i \in DOMAIN f.outputs, NEW amount \in Nat
    PROVE  /\ WithAmount(f, i, amount) \in Entered
           /\ WithAmount(f, i, amount).outputs[i].amount = amount
<1> DEFINE E == [to : Recipient \cup {None}, amount : Nat]
           o == f.outputs
           e == [to |-> o[i].to, amount |-> amount]
           w == [o EXCEPT ![i] = e]
<1>1. o \in Seq(E) /\ o # <<>> /\ f.rate \in Nat /\ DOMAIN o = 1 .. Len(o) /\ Len(o) \in Nat
  BY DEF Entered, Form, Outputs
<1>2. o[i] \in E
  BY <1>1, ElementOfSeq
<1>3. e \in E /\ e.amount = amount
  BY <1>2
<1>4. w \in Seq(E) /\ Len(w) = Len(o) /\ w[i] = e
  <2> HIDE DEF E, e, o
  <2> QED
    BY <1>1, <1>3, ExceptSeq DEF o
<1>5. w # <<>>
  <2> HIDE DEF E, e, o, w
  <2> QED
    BY <1>1, <1>4, EmptySeq
<1>6. WithAmount(f, i, amount) = [outputs |-> w, rate |-> f.rate]
  BY DEF WithAmount
<1> HIDE DEF w, o, e
<1> QED
  BY <1>1, <1>3, <1>4, <1>5, <1>6 DEF Entered, Form, Outputs

LEMMA MaximisedTyped ==
    ASSUME FormsHold, relayed \subseteq relayed', UNCHANGED beside,
           NEW max \in Nat, Maximised(max)
    PROVE  FormsHold' /\ SendTyped'
<1>1. CASE max = 0
  BY <1>1, FailTyped DEF Maximised
<1>2. CASE max # 0
  <2> DEFINE last == Len(send.closure.outputs)
  <2>1. /\ Finish /\ sendPreview' = None
        /\ form' = IF last \in DOMAIN form.outputs THEN WithAmount(form, last, max) ELSE form
        /\ UNCHANGED <<preparedSend, consolidationPreview, preparedConsolidation, broadcasted>>
    BY <1>2 DEF Maximised
  <2>2. form' \in Entered
    BY <2>1, WithAmountTyped DEF FormsHold
  <2> HIDE DEF last
  <2> QED
    BY <2>1, <2>2, FinishTyped DEF FormsHold, beside
<1> QED
  BY <1>1, <1>2

LEMMA FixedType ==
    ASSUME NEW outputs \in Outputs, outputs # <<>>
    PROVE  Fixed(outputs) \in Outputs /\ Amount(Fixed(outputs)) \in Nat
<1> DEFINE E == [to : Recipient \cup {None}, amount : Nat]
<1>1. outputs \in Seq(E) /\ Len(outputs) \in Nat /\ Len(outputs) # 0
  BY EmptySeq DEF Outputs
<1> HIDE DEF E
<1>2. \A i \in 1 .. Len(outputs) - 1 : outputs[i] \in E
  BY <1>1, ElementOfSeq
<1>3. SubSeq(outputs, 1, Len(outputs) - 1) \in Seq(E)
  BY <1>1, <1>2, SubSeqProperties
<1>4. Fixed(outputs) \in Outputs
  BY <1>3 DEF Fixed, Outputs, E
<1> QED
  BY <1>4, OutputsPay

LEMMA MaxOfType ==
    ASSUME NEW coins, coins \subseteq Coin, NEW outputs \in Outputs, outputs # <<>>, NEW rate
    PROVE  MaxOf(coins, outputs, rate) \in Nat
<1> DEFINE fixed == Amount(Fixed(outputs))
           n == Len(outputs)
           high == Total(coins) - fixed
           feasible == {amount \in Nat : Fits(coins, fixed + amount, n, rate)}
           max == MaxFeasible(Dust, high, feasible)
<1>1. Dust \in Nat /\ high \in Int
  BY FixedType, TotalType, SizesPositive
<1>2. max = 0 \/ (max \in feasible /\ max \in Dust .. high)
  <2> HIDE DEF high, feasible
  <2> QED
    BY <1>1, SearchFinds
<1>3. max \in Nat
  <2>1. feasible \subseteq Nat
    OBVIOUS
  <2> HIDE DEF feasible, max
  <2> QED
    BY <1>2, <2>1
<1>4. CalculateMax(coins, fixed, n, rate) = max
  BY DEF CalculateMax
<1> HIDE DEF max, fixed, n
<1> QED
  BY <1>3, <1>4 DEF MaxOf, fixed, n

LEMMA PlannedTyped ==
    ASSUME FormsHold, relayed \subseteq relayed', UNCHANGED beside,
           NEW own \in Inner, NEW known \in Snapshot, NEW txs,
           txs = Consolidate(known.coins, send.closure, own), Planned(txs, own, known)
    PROVE  FormsHold' /\ SendTyped'
<1>1. CASE txs = None
  BY <1>1, FailTyped DEF Planned
<1>2. CASE txs # None
  <2> DEFINE review == [plan |-> PlanOf(txs), rate |-> send.closure, change |-> own,
                        scannedAt |-> known.scannedAt]
  <2>1. /\ Finish /\ consolidationPreview' = review
        /\ UNCHANGED <<form, sendPreview, preparedSend, preparedConsolidation, broadcasted>>
    BY <1>2 DEF Planned
  <2>2. known.coins \subseteq Coin /\ known.scannedAt \in Nat
    BY SnapshotFields
  <2>3. PlanOf(txs) \in [inputs : Nat, outputs : Nat, fee : Nat] /\ send.closure \in 1 .. MaxRate
    BY <1>2, <2>2, ConsolidateTyped
  <2>4. review \in PlanReview /\ review.change = own
    BY <2>2, <2>3, Addresses DEF PlanReview
  <2> HIDE DEF review
  <2>5. review \in PlanReviewed
    BY <2>4 DEF PlanReviewed
  <2> QED
    BY <2>1, <2>5, FinishTyped DEF FormsHold, beside
<1> QED
  BY <1>1, <1>2

LEMMA EnsuredTyped ==
    ASSUME FormsHold, SendTyped, WorldHolds, send # None,
           UNCHANGED <<network, controller, beside>>,
           NEW own \in Inner, NEW known, Known(known), Ensured(own, known),
           send.kind \in {"preview", "max", "broadcast", "plan"}
    PROVE  FormsHold' /\ SendTyped'
<1>1. /\ UNCHANGED <<relayed, paid, snapshot, beside>> /\ relayed \subseteq relayed'
      /\ known \in Snapshot /\ KnownBy(known, paid' \cup Paid(relayed'), snapshot'.reach)
      /\ CapturedHolds
  BY DEF network, controller, Known, KnownBy, SendTyped
<1>2. CASE send.kind = "preview"
  <2>1. Previewed(BuildSend(known.coins, send.closure.outputs, send.closure.rate, own), own, known)
        /\ send.closure \in Entered
    BY <1>1, <1>2 DEF Ensured, CapturedHolds
  <2> QED
    BY <1>1, <2>1, PreviewedTyped
<1>3. CASE send.kind = "max"
  <2>1. Maximised(MaxOf(known.coins, send.closure.outputs, send.closure.rate))
        /\ send.closure \in Entered
    BY <1>1, <1>3 DEF Ensured, CapturedHolds
  <2>2. MaxOf(known.coins, send.closure.outputs, send.closure.rate) \in Nat
    BY <1>1, <2>1, SnapshotFields, MaxOfType DEF Entered, Form
  <2> QED
    BY <1>1, <2>1, <2>2, MaximisedTyped
<1>4. CASE send.kind = "plan"
  <2>1. Planned(Consolidate(known.coins, send.closure, own), own, known)
    BY <1>4 DEF Ensured
  <2> QED
    BY <1>1, <2>1, PlannedTyped
<1>5. CASE send.kind = "broadcast"
  <2>1. Onward("submit", own, known)
    BY <1>5 DEF Ensured
  <2>2. "submit" \in Awaited \ {"rate"} /\ own # None /\ known # None
    BY <1>1, Addresses, NoneIsNoRecord DEF Awaited
  <2> QED
    BY <1>1, <2>1, <2>2, OnwardTyped
<1> QED
  BY <1>2, <1>3, <1>4, <1>5

\* What follows in a flow once its address is remembered.
LEMMA ObtainedTyped ==
    ASSUME FormsHold, SendTyped, WorldHolds, send # None,
           UNCHANGED <<network, controller, beside>>,
           NEW own \in Inner, own.chain \in Internal, NEW known, Known(known), Obtained(own, known),
           own.index \in issuedIndices'[own.chain],
           send.kind \in {"preview", "max", "broadcast", "plan"}
    PROVE  FormsHold' /\ SendTyped'
<1>1. CASE Covered(known, own)
  BY <1>1, EnsuredTyped DEF Obtained
<1>2. CASE ~Covered(known, own)
  <2>1. Onward("refresh", own, known)
    BY <1>2 DEF Obtained
  <2>2. /\ UNCHANGED <<relayed, beside>> /\ KnownBy(known, paid' \cup Paid(relayed'), snapshot'.reach)
        /\ known # None /\ own # None
    BY Addresses, NoneIsNoRecord DEF network, controller, Known, KnownBy
  <2>3. "refresh" \in Awaited \ {"rate"}
    BY DEF Awaited
  <2> QED
    BY <2>1, <2>2, <2>3, OnwardTyped
<1> QED
  BY <1>1, <1>2

\* A step of a panel's flow leaves the manager, the panels and the flow typed,
\* and the receive chain alone.
PanelTyped ==
    /\ ManagerHolds' /\ FormsHold' /\ SendTyped'
    /\ issuedIndices'["receive"] = issuedIndices["receive"]

LEMMA ManagerStays ==
    ASSUME ManagerHolds, UNCHANGED <<issued, issuedIndices, reserved, issuedAddress>>
    PROVE  /\ ManagerHolds' /\ issuedIndices'["receive"] = issuedIndices["receive"]
           /\ Room /\ UNCHANGED relayed => Room'
<1>1. Room /\ UNCHANGED relayed => Room'
  BY DEF Room
<1> QED
  BY <1>1, ManagerUnchanged

LEMMA RememberInner ==
    ASSUME ManagerHolds, NEW a \in Inner, issued[a.chain] < a.index, Remember(a),
           UNCHANGED issuedAddress,
           UNCHANGED reserved \/ reserved' = reserved (+) SetToBag({a})
    PROVE  /\ ManagerHolds' /\ issuedIndices'["receive"] = issuedIndices["receive"]
           /\ a.index \in issuedIndices'[a.chain]
<1>1. a \in Address /\ a.chain \in Chain \ {"receive"} /\ "receive" \in Chain \ {a.chain}
  BY Addresses, Chains
<1>2. a.index \notin issuedIndices[a.chain]
  <2>1. /\ \A i \in issuedIndices[a.chain] : i <= issued[a.chain]
        /\ issued[a.chain] \in -1 .. MaxIndex /\ a.index \in 0 .. MaxIndex
    BY <1>1, Addresses DEF ManagerHolds
  <2> QED
    BY <2>1, FlowAssumption
<1>3. /\ ManagerHolds'
      /\ issuedIndices'[a.chain] = issuedIndices[a.chain] \cup {a.index}
      /\ \A c \in Chain : issuedIndices[c] \subseteq issuedIndices'[c]
      /\ \A c \in Chain \ {a.chain} :
           issued'[c] = issued[c] /\ issuedIndices'[c] = issuedIndices[c]
  BY <1>1, <1>2, RememberKeeps
<1> QED
  BY <1>1, <1>3

\* What a flow that waits for an address has.
LEMMA FlowFacts ==
    ASSUME Typed, SendHolds, send # None
    PROVE  /\ WorldHolds /\ ManagerHolds /\ FormsHold /\ SendTyped /\ CapturedHolds /\ ObtainedHolds
           /\ send.kind \in Kind /\ MayAwait(send.kind, send.stage) /\ Known(snapshot)
BY DEF Typed, SendTyped, SendHolds, WorldHolds

LEMMA ChangeChosenTyped ==
    ASSUME Typed, SendHolds, ChangeChosen
    PROVE  PanelTyped
<1>1. /\ send # None /\ send.stage = "idle" /\ send.kind \in {"preview", "max"}
      /\ UNCHANGED <<afterwards, controller, reserved>>
      /\ UNCHANGED <<network, controller, beside, relayed, reserved, issuedAddress>>
  BY DEF ChangeChosen, At, afterwards, beside, network, dialog, receiving
<1>2. /\ WorldHolds /\ ManagerHolds /\ FormsHold /\ SendTyped /\ CapturedHolds /\ ObtainedHolds
      /\ Known(snapshot)
  BY <1>1, FlowFacts
<1>3. send.closure \in Entered /\ Room /\ send.kind \in {"preview", "max", "broadcast", "plan"}
  BY <1>1, <1>2 DEF CapturedHolds, ObtainedHolds
<1>4. CASE Fail /\ UNCHANGED manager
  <2>1. relayed \subseteq relayed' /\ UNCHANGED beside
    BY <1>1
  <2> QED
    BY <1>1, <1>2, <1>4, <2>1, FailTyped, ManagerStays DEF manager, PanelTyped
<1>5. CASE Ensured(Primary, snapshot) /\ UNCHANGED manager
  BY <1>1, <1>2, <1>3, <1>5, Addresses, EnsuredTyped, ManagerStays DEF manager, PanelTyped
<1>6. CASE ready /\ Parsed(send.closure, send.kind = "max") /\ hd
  <2> DEFINE a == CurrentOrReserve(snapshot, ChangeAccount(send.closure.outputs))
  <2>1. ChangeAccount(send.closure.outputs) \in Internal
    BY <1>3, <1>6, AccountFacts DEF Entered, Form, Parsed
  <2>2. /\ a \in Inner /\ a.chain \in Internal
        /\ a.index = issued[a.chain] => a.index \in issuedIndices[a.chain]
        /\ a.index # issued[a.chain] => a.index > issued[a.chain]
    BY <1>2, <1>3, <2>1, CurrentFacts
  <2>3. IF a.index = issued[a.chain]
        THEN Obtained(a, snapshot) /\ UNCHANGED manager
        ELSE IF Covered(snapshot, a)
        THEN Obtained(a, snapshot) /\ Remember(a) /\ UNCHANGED reservationQueue
        ELSE Onward("derive", a, snapshot) /\ UNCHANGED manager
    BY <1>6 DEF ChangeChosen
  <2> HIDE DEF a
  <2>4. CASE a.index = issued[a.chain]
    <3>1. Obtained(a, snapshot) /\ UNCHANGED <<issued, issuedIndices>>
      BY <2>3, <2>4 DEF manager
    <3>2. a.index \in issuedIndices'[a.chain]
      BY <2>2, <2>4, <3>1
    <3> QED
      BY <1>1, <1>2, <1>3, <2>2, <3>1, <3>2, ObtainedTyped, ManagerStays DEF PanelTyped
  <2>5. CASE a.index # issued[a.chain] /\ Covered(snapshot, a)
    <3>1. Obtained(a, snapshot) /\ Remember(a) /\ issued[a.chain] < a.index
      <4>1. issued[a.chain] \in -1 .. MaxIndex /\ a.index \in 0 .. MaxIndex
        BY <1>2, <2>2, Chains, Addresses DEF ManagerHolds
      <4> QED
        BY <2>2, <2>3, <2>5, <4>1, FlowAssumption
    <3>2. /\ ManagerHolds' /\ issuedIndices'["receive"] = issuedIndices["receive"]
          /\ a.index \in issuedIndices'[a.chain]
      BY <1>1, <1>2, <2>2, <3>1, RememberInner
    <3> QED
      BY <1>1, <1>2, <1>3, <2>2, <3>1, <3>2, ObtainedTyped DEF PanelTyped
  <2>6. CASE a.index # issued[a.chain] /\ ~Covered(snapshot, a)
    <3>1. Onward("derive", a, snapshot) /\ UNCHANGED <<issued, issuedIndices, relayed, beside>>
      BY <1>1, <2>3, <2>6 DEF manager
    <3>2. KnownBy(snapshot, paid' \cup Paid(relayed'), snapshot'.reach)
      BY <1>1, <1>2 DEF Known, network, controller
    <3>3. "derive" \in Awaited \ {"rate"} /\ snapshot # None /\ a # None
      BY <2>2, <3>2, Addresses, NoneIsNoRecord DEF Awaited, KnownBy
    <3>4. a.index > issued'[a.chain]
      BY <2>2, <2>6, <3>1
    <3>5. FormsHold' /\ SendTyped'
      BY <1>1, <1>2, <2>2, <3>1, <3>2, <3>3, <3>4, OnwardTyped
    <3> QED
      BY <1>1, <1>2, <3>1, <3>5, ManagerStays DEF PanelTyped
  <2> QED
    BY <2>4, <2>5, <2>6
<1>7. \/ Fail /\ UNCHANGED manager
      \/ Ensured(Primary, snapshot) /\ UNCHANGED manager
      \/ ready /\ Parsed(send.closure, send.kind = "max") /\ hd
  BY DEF ChangeChosen
<1> QED
  BY <1>4, <1>5, <1>6, <1>7

LEMMA ReturnAskedTyped ==
    ASSUME Typed, SendHolds, ReturnAsked
    PROVE  PanelTyped
<1>1. /\ send # None /\ send.stage = "idle" /\ send.kind \in {"broadcast", "plan"}
      /\ UNCHANGED <<afterwards, controller, reserved>>
      /\ UNCHANGED <<network, controller, beside, relayed, reserved, issuedAddress>>
  BY DEF ReturnAsked, At, afterwards, beside, network, dialog, receiving
<1>2. /\ WorldHolds /\ ManagerHolds /\ FormsHold /\ SendTyped /\ CapturedHolds /\ ObtainedHolds
      /\ Known(snapshot)
  BY <1>1, FlowFacts
<1>3. Room /\ send.kind \in {"preview", "max", "broadcast", "plan"}
  BY <1>1, <1>2 DEF ObtainedHolds
<1>4. CASE Fail /\ UNCHANGED manager
  <2>1. relayed \subseteq relayed' /\ UNCHANGED beside
    BY <1>1
  <2> QED
    BY <1>1, <1>2, <1>4, <2>1, FailTyped, ManagerStays DEF manager, PanelTyped
<1>5. CASE Ensured(Primary, snapshot) /\ UNCHANGED manager
  BY <1>1, <1>2, <1>3, <1>5, Addresses, EnsuredTyped, ManagerStays DEF manager, PanelTyped
<1>6. CASE Onward("queued", None, snapshot) /\ UNCHANGED <<issued, issuedIndices>>
  <2>1. KnownBy(snapshot, paid' \cup Paid(relayed'), snapshot'.reach)
    BY <1>1, <1>2 DEF Known, network, controller
  <2>2. "queued" \in Awaited \ {"rate"} /\ snapshot # None
    BY <2>1, NoneIsNoRecord DEF Awaited, KnownBy
  <2>3. /\ ManagerHolds' /\ issuedIndices'["receive"] = issuedIndices["receive"] /\ Room'
    BY <1>1, <1>2, <1>3, <1>6, ManagerStays
  <2>4. FormsHold' /\ SendTyped'
    BY <1>1, <1>2, <1>6, <2>1, <2>2, <2>3, OnwardTyped
  <2> QED
    BY <2>3, <2>4 DEF PanelTyped
<1>7. \/ Fail /\ UNCHANGED manager
      \/ Ensured(Primary, snapshot) /\ UNCHANGED manager
      \/ Onward("queued", None, snapshot) /\ UNCHANGED <<issued, issuedIndices>>
  BY DEF ReturnAsked
<1> QED
  BY <1>4, <1>5, <1>6, <1>7

LEMMA ReturnReservedTyped ==
    ASSUME Typed, SendHolds, ReturnReserved
    PROVE  PanelTyped
<1> DEFINE a == ReserveNext(send.known, Priority[1])
<1>1. /\ send # None /\ send.stage = "queued"
      /\ UNCHANGED <<afterwards, controller>>
      /\ UNCHANGED <<network, controller, beside, relayed, issuedAddress>>
  BY DEF ReturnReserved, Turn, At, afterwards, beside, network, dialog, receiving
<1>2. /\ WorldHolds /\ ManagerHolds /\ FormsHold /\ SendTyped /\ CapturedHolds /\ ObtainedHolds
      /\ MayAwait(send.kind, send.stage)
  BY <1>1, FlowFacts
<1>3. /\ send.kind \in {"preview", "max", "broadcast", "plan"} /\ Room
      /\ Known(send.known) /\ send.known # None
  BY <1>1, <1>2 DEF ObtainedHolds, MayAwait
<1>4. IF Covered(send.known, a)
      THEN Ensured(a, send.known) /\ Given(a)
      ELSE Onward("derive", a, send.known) /\ UNCHANGED <<manager, reserved>>
  BY DEF ReturnReserved
<1>5. a \in Inner /\ a.chain \in Internal /\ a.index > issued[a.chain]
  BY <1>2, <1>3, FirstAccount, NextFacts
<1> HIDE DEF a
<1>6. CASE Covered(send.known, a)
  <2>1. Ensured(a, send.known) /\ Remember(a) /\ reserved' = reserved (+) SetToBag({a})
    BY <1>4, <1>6 DEF Given
  <2>2. issued[a.chain] < a.index
    <3>1. issued[a.chain] \in -1 .. MaxIndex /\ a.index \in 0 .. MaxIndex
      BY <1>2, <1>5, Chains, Addresses DEF ManagerHolds
    <3> QED
      BY <1>5, <3>1, FlowAssumption
  <2> QED
    BY <1>1, <1>2, <1>3, <1>5, <2>1, <2>2, RememberInner, EnsuredTyped DEF PanelTyped
<1>7. CASE ~Covered(send.known, a)
  <2>1. Onward("derive", a, send.known) /\ UNCHANGED <<issued, issuedIndices, reserved>>
    BY <1>4, <1>7 DEF manager
  <2>2. KnownBy(send.known, paid' \cup Paid(relayed'), snapshot'.reach)
    BY <1>1, <1>3 DEF Known, network, controller
  <2>3. "derive" \in Awaited \ {"rate"} /\ a # None
    BY <1>5, Addresses DEF Awaited
  <2>4. a.index > issued'[a.chain]
    BY <1>5, <2>1
  <2>5. FormsHold' /\ SendTyped'
    BY <1>1, <1>2, <1>3, <1>5, <2>1, <2>2, <2>3, <2>4, OnwardTyped
  <2> QED
    BY <1>1, <1>2, <2>1, <2>5, ManagerStays DEF PanelTyped
<1> QED
  BY <1>6, <1>7

LEMMA DerivedTyped ==
    ASSUME Typed, SendHolds, Derived
    PROVE  PanelTyped
<1>1. /\ send # None /\ send.stage = "derive" /\ Obtained(send.own, send.known)
      /\ UNCHANGED <<afterwards, controller>>
      /\ UNCHANGED <<network, controller, beside, relayed, issuedAddress>>
      /\ Remember(send.own)
      /\ UNCHANGED reserved \/ reserved' = reserved (+) SetToBag({send.own})
  BY DEF Derived, At, afterwards, beside, network, dialog, receiving, Given
<1>2. /\ WorldHolds /\ ManagerHolds /\ FormsHold /\ SendTyped /\ CapturedHolds /\ ObtainedHolds
      /\ MayAwait(send.kind, send.stage)
  BY <1>1, FlowFacts
<1>3. /\ send.kind \in {"preview", "max", "broadcast", "plan"}
      /\ Known(send.known) /\ send.own \in Inner /\ send.own.chain \in Internal
      /\ send.own.index > issued[send.own.chain]
  BY <1>1, <1>2 DEF ObtainedHolds, MayAwait
<1>4. issued[send.own.chain] < send.own.index
  <2>1. issued[send.own.chain] \in -1 .. MaxIndex /\ send.own.index \in 0 .. MaxIndex
    BY <1>2, <1>3, Chains, Addresses DEF ManagerHolds
  <2> QED
    BY <1>3, <2>1, FlowAssumption
<1>5. /\ ManagerHolds' /\ issuedIndices'["receive"] = issuedIndices["receive"]
      /\ send.own.index \in issuedIndices'[send.own.chain]
  BY <1>1, <1>2, <1>3, <1>4, RememberInner
<1> QED
  BY <1>1, <1>2, <1>3, <1>5, ObtainedTyped DEF PanelTyped

LEMMA DeriveFailsTyped ==
    ASSUME Typed, SendHolds, DeriveFails
    PROVE  PanelTyped
<1>1. /\ send # None /\ Fail /\ UNCHANGED <<issued, issuedIndices, reserved, issuedAddress>>
      /\ relayed \subseteq relayed' /\ UNCHANGED beside
  BY DEF DeriveFails, At, afterwards, beside, network, dialog, receiving
<1>2. ManagerHolds /\ FormsHold
  BY DEF Typed
<1> QED
  BY <1>1, <1>2, FailTyped, ManagerStays DEF PanelTyped

LEMMA RefreshedTyped ==
    ASSUME Typed, SendHolds, Refreshed
    PROVE  PanelTyped
<1>1. /\ send # None /\ send.stage = "resume"
      /\ UNCHANGED <<network, controller, beside, issued, issuedIndices, reserved, issuedAddress>>
      /\ relayed \subseteq relayed' /\ UNCHANGED beside
      /\ Ensured(send.own, snapshot) \/ Fail
  BY DEF Refreshed, At, afterwards, beside, network, dialog, receiving, manager
<1>2. /\ WorldHolds /\ ManagerHolds /\ FormsHold /\ SendTyped /\ CapturedHolds /\ ObtainedHolds
      /\ MayAwait(send.kind, send.stage) /\ Known(snapshot)
  BY <1>1, FlowFacts
<1>3. send.kind \in {"preview", "max", "broadcast", "plan"} /\ send.own \in Inner
  BY <1>1, <1>2 DEF ObtainedHolds, MayAwait
<1> QED
  BY <1>1, <1>2, <1>3, EnsuredTyped, FailTyped, ManagerStays DEF PanelTyped

LEMMA SignAskedTyped ==
    ASSUME Typed, SendHolds, SignAsked
    PROVE  PanelTyped
<1>1. /\ send # None /\ send.stage = "idle" /\ send.kind \in {"sign", "signPlan"}
      /\ UNCHANGED <<relayed, beside>>
      /\ UNCHANGED <<network, controller, beside, issued, issuedIndices, reserved, issuedAddress>>
      /\ relayed \subseteq relayed' /\ UNCHANGED beside
      /\ Onward("signer", None, snapshot) \/ Fail
  BY DEF SignAsked, At, afterwards, beside, network, dialog, receiving, manager
<1>2. ManagerHolds /\ FormsHold /\ SendTyped /\ Known(snapshot)
  BY <1>1, FlowFacts
<1>3. KnownBy(snapshot, paid' \cup Paid(relayed'), snapshot'.reach)
  BY <1>1, <1>2 DEF Known, network, controller
<1>4. "signer" \in Awaited \ {"rate"} /\ snapshot # None
  BY <1>3, NoneIsNoRecord DEF Awaited, KnownBy
<1>5. FormsHold' /\ SendTyped'
  <2>1. CASE Onward("signer", None, snapshot)
    BY <1>1, <1>2, <1>3, <1>4, <2>1, OnwardTyped
  <2> QED
    BY <1>1, <1>2, <2>1, FailTyped
<1> QED
  BY <1>1, <1>2, <1>5, ManagerStays DEF PanelTyped

LEMMA SignedTyped ==
    ASSUME Typed, SendHolds, Signed
    PROVE  PanelTyped
<1> DEFINE review == send.closure
           coins == send.known.coins
           tx == BuildSend(coins, review.outputs, review.rate, review.change)
           txs == Consolidate(coins, review.rate, review.change)
<1>1. /\ send # None /\ send.stage = "signer"
      /\ UNCHANGED <<network, controller, beside, issued, issuedIndices, reserved, issuedAddress>>
      /\ relayed \subseteq relayed' /\ UNCHANGED beside
  BY DEF Signed, At, afterwards, beside, network, dialog, receiving, manager
<1>2. /\ WorldHolds /\ ManagerHolds /\ FormsHold /\ SendTyped /\ CapturedHolds /\ ObtainedHolds
  BY <1>1, FlowFacts
<1>3. coins \subseteq Coin
  BY <1>1, <1>2, SnapshotFields DEF ObtainedHolds, Known, KnownBy
<1>4. \/ send.kind = "sign" /\ SignedSend(tx, review)
      \/ send.kind = "signPlan" /\ SignedPlan(txs, review)
      \/ Fail
  BY <1>1 DEF Signed
<1>5. FormsHold' /\ SendTyped'
  <2>1. CASE send.kind = "sign" /\ SignedSend(tx, review)
    <3>1. review.outputs \in Outputs /\ review.change \in Inner
      BY <1>2, <2>1 DEF CapturedHolds, Reviewed, Review
    <3>2. /\ tx # None /\ Finish /\ preparedSend' = tx
          /\ UNCHANGED <<form, sendPreview, consolidationPreview, preparedConsolidation, broadcasted>>
      BY <2>1 DEF SignedSend
    <3>3. tx \in Sent
      BY <1>3, <3>1, <3>2, BuildSendTyped
    <3> HIDE DEF tx
    <3> QED
      BY <1>1, <1>2, <3>2, <3>3, FinishTyped DEF FormsHold, beside
  <2>2. CASE send.kind = "signPlan" /\ SignedPlan(txs, review)
    <3>1. review.change \in Inner
      BY <1>2, <2>2 DEF CapturedHolds, PlanReviewed
    <3>2. /\ txs # None /\ Finish /\ preparedConsolidation' = txs
          /\ UNCHANGED <<form, sendPreview, preparedSend, consolidationPreview, broadcasted>>
      BY <2>2 DEF SignedPlan
    <3>3. txs \in Seq(Sent)
      BY <1>3, <3>1, <3>2, ConsolidateTyped
    <3> HIDE DEF txs
    <3> QED
      BY <1>1, <1>2, <3>2, <3>3, FinishTyped DEF FormsHold, beside
  <2>3. CASE Fail
    BY <1>1, <1>2, <2>3, FailTyped
  <2> QED
    BY <1>4, <2>1, <2>2, <2>3
<1> QED
  BY <1>1, <1>2, <1>5, ManagerStays DEF PanelTyped

LEMMA SubmitTyped ==
    ASSUME Typed, SendHolds, Submit
    PROVE  PanelTyped
<1>1. /\ send # None /\ send.stage = "submit"
      /\ UNCHANGED <<relayed, beside>>
      /\ UNCHANGED <<network, controller, beside, issued, issuedIndices, reserved, issuedAddress>>
      /\ relayed \subseteq relayed' /\ UNCHANGED beside
      /\ Onward("network", send.own, send.known) \/ Fail
  BY DEF Submit, At, afterwards, beside, network, dialog, receiving, manager
<1>2. ManagerHolds /\ FormsHold /\ SendTyped /\ ObtainedHolds
  BY <1>1, FlowFacts
<1>3. /\ send.known # None => KnownBy(send.known, paid' \cup Paid(relayed'), snapshot'.reach)
      /\ send.own \in Inner \cup {None}
      /\ send.kind = "broadcast" => send.own # None /\ send.known # None
  BY <1>1, <1>2 DEF Known, network, controller, ObtainedHolds
<1>4. "network" \in Awaited \ {"rate"}
  BY DEF Awaited
<1>5. FormsHold' /\ SendTyped'
  <2>1. CASE Onward("network", send.own, send.known)
    BY <1>1, <1>2, <1>3, <1>4, <2>1, OnwardTyped
  <2> QED
    BY <1>1, <1>2, <2>1, FailTyped
<1> QED
  BY <1>1, <1>2, <1>5, ManagerStays DEF PanelTyped

LEMMA EmptyFormTyped ==
    ASSUME NEW rate \in Nat
    PROVE  EmptyForm(rate) \in Entered
<1> DEFINE E == [to : Recipient \cup {None}, amount : Nat]
           e == [to |-> None, amount |-> 0]
<1>1. e \in E
  OBVIOUS
<1> HIDE DEF E, e
<1>2. <<e>> \in Seq(E) /\ <<e>> # <<>>
  BY <1>1
<1>3. EmptyForm(rate) = [outputs |-> <<e>>, rate |-> rate]
  BY DEF EmptyForm, e
<1> QED
  BY <1>2, <1>3 DEF Entered, Form, Outputs, E

\* The transaction a flow sends, and the room there is for it.
LEMMA SendingFacts ==
    ASSUME Typed, SendHolds, At(send, "network")
    PROVE  /\ send # None /\ send.stage = "network" /\ send.kind \in {"broadcast", "next"}
           /\ send.closure.tx \in Sent /\ Cardinality(relayed) < MaxTxs
           /\ send.kind = "broadcast" => send.own \in Inner /\ send.known.coins \subseteq Coin
           /\ send.kind = "next" => send.closure.done \subseteq relayed
           /\ WorldHolds /\ ManagerHolds /\ FormsHold /\ RbfTyped /\ ReceiveTyped
           /\ receipt = None
<1>1. send # None /\ send.stage = "network"
  BY DEF At
<1>2. /\ CapturedHolds /\ ObtainedHolds /\ MayAwait(send.kind, send.stage) /\ receipt = None
      /\ WorldHolds /\ ManagerHolds /\ FormsHold /\ RbfTyped /\ ReceiveTyped
  BY <1>1, FlowFacts DEF SendHolds, Typed
<1>3. send.kind \in {"broadcast", "next"}
  BY <1>1, <1>2 DEF MayAwait
<1>4. send.kind = "broadcast" => send.own \in Inner /\ send.known.coins \subseteq Coin
  BY <1>1, <1>2, SnapshotFields DEF ObtainedHolds, Known, KnownBy
<1>5. send.closure.tx \in Sent /\ (send.kind = "next" => send.closure.done \subseteq relayed)
  BY <1>2, <1>3 DEF CapturedHolds
<1>6. Cardinality(relayed) < MaxTxs
  BY <1>2, <1>3 DEF ObtainedHolds
<1> QED
  BY <1>1, <1>2, <1>3, <1>4, <1>5, <1>6

LEMMA AcceptedTyped ==
    ASSUME Typed, SendHolds, RbfHolds, Accepted
    PROVE  Typed'
<1> DEFINE tx == send.closure.tx
           quit == IF send.kind = "broadcast" THEN [own |-> send.own, coins |-> send.known.coins]
                   ELSE None
<1>1. /\ send # None /\ send.stage = "network" /\ send.kind \in {"broadcast", "next"}
      /\ tx \in Sent /\ Cardinality(relayed) < MaxTxs
      /\ send.kind = "broadcast" => send.own \in Inner /\ send.known.coins \subseteq Coin
      /\ send.kind = "next" => send.closure.done \subseteq relayed
      /\ WorldHolds /\ ManagerHolds /\ FormsHold /\ RbfTyped /\ ReceiveTyped
      /\ receipt = None
  BY SendingFacts DEF Accepted
<1>2. /\ Relay(tx) /\ snapshot' = Projected(tx, None) /\ ready' = TRUE
      /\ receipt' = [tx |-> tx, original |-> None, rbf |-> quit]
      /\ \/ /\ form' = EmptyForm(form.rate) /\ sendPreview' = None /\ preparedSend' = None
            /\ UNCHANGED broadcasted
         \/ /\ send.kind = "next" /\ broadcasted' = send.closure.done \cup {tx}
            /\ UNCHANGED <<form, sendPreview, preparedSend>>
      /\ Finish /\ rbfQuote' = None
      /\ UNCHANGED <<hd, aside, manager, consolidationPreview, preparedConsolidation,
                     rbfBusy, receiving, rbf, reserved>>
  BY <1>1 DEF Accepted
<1>3. WorldHolds' /\ Grows /\ tx \in relayed' /\ UNCHANGED paid
  <2>1. WorldHolds' /\ Grows /\ tx \in relayed'
    BY <1>1, <1>2, WorldRelay
  <2> QED
    BY <1>2, <2>1 DEF Relay
<1>4. rbf = None
  BY <1>1 DEF RbfHolds
<1>5. receipt' \in Receipted
  <2>1. quit \in [own : Address, coins : SUBSET Coin] \cup {None} /\ (quit # None => quit.own \in Inner)
    <3>1. CASE send.kind = "broadcast"
      BY <1>1, <3>1, Addresses
    <3> QED
      BY <1>1, <3>1
  <2>2. tx \in Tx
    BY <1>1 DEF Sent
  <2> HIDE DEF quit, tx
  <2>3. receipt' \in Receipt /\ receipt'.tx = tx /\ receipt'.rbf = quit
    BY <1>2, <2>1, <2>2 DEF Receipt
  <2> QED
    BY <1>1, <2>1, <2>3 DEF Receipted
<1>6. FormsHold'
  <2>1. form' \in Entered
    BY <1>1, <1>2, EmptyFormTyped DEF FormsHold, Entered, Form
  <2>2. broadcasted' \subseteq relayed'
    BY <1>1, <1>2, <1>3 DEF FormsHold, Grows
  <2> HIDE DEF tx, quit
  <2> QED
    BY <1>1, <1>2, <1>5, <2>1, <2>2 DEF FormsHold, receiving
<1> HIDE DEF tx, quit
<1>7. ManagerHolds' /\ issuedIndices'["receive"] = issuedIndices["receive"]
  BY <1>1, <1>2, ManagerStays DEF manager, receiving
<1>8. RbfTyped' /\ SendTyped'
  BY <1>1, <1>2, <1>4, RbfUnmoved, FinishTyped
<1>9. ReceiveTyped'
  BY <1>1, <1>2, <1>3, <1>7, ReceiveUnmoved DEF receiving
<1> QED
  BY <1>3, <1>6, <1>7, <1>8, <1>9 DEF Typed

\* What a step of a panel's flow leaves to show.
LEMMA PanelStepTyped ==
    ASSUME Typed, PanelTyped, UNCHANGED <<afterwards, controller>>
    PROVE  Typed'
<1>1. WorldHolds /\ RbfTyped /\ ReceiveTyped
  BY DEF Typed
<1>2. WorldHolds' /\ Grows
  BY <1>1, WorldUnchanged DEF afterwards
<1>3. RbfTyped'
  BY <1>1, RbfUnmoved DEF afterwards, dialog, network
<1>4. ReceiveTyped'
  BY <1>1, <1>2, ReceiveUnmoved DEF afterwards, receiving, network, PanelTyped
<1> QED
  BY <1>2, <1>3, <1>4 DEF Typed, PanelTyped

LEMMA BroadcastFailsTyped ==
    ASSUME Typed, SendHolds, RbfHolds, BroadcastFails
    PROVE  Typed'
<1> DEFINE tx == send.closure.tx
<1>1. /\ tx \in Sent /\ Cardinality(relayed) < MaxTxs
      /\ WorldHolds /\ ManagerHolds /\ FormsHold /\ RbfTyped /\ ReceiveTyped
      /\ receipt = None
  BY SendingFacts DEF BroadcastFails
<1>2. /\ Fail /\ (UNCHANGED network \/ Relay(tx))
      /\ UNCHANGED <<hd, controller, manager, dialog, receiving, rbf, accepted, reserved>>
  BY DEF BroadcastFails
<1> HIDE DEF tx
<1>3. WorldHolds' /\ Grows /\ UNCHANGED paid
  <2>1. CASE UNCHANGED network
    BY <1>1, <1>2, <2>1, WorldUnchanged DEF network
  <2>2. CASE Relay(tx)
    BY <1>1, <1>2, <2>2, WorldRelay DEF controller, Relay
  <2> QED
    BY <1>2, <2>1, <2>2
<1>4. rbf = None
  BY <1>1 DEF RbfHolds
<1>5. FormsHold' /\ SendTyped'
  BY <1>1, <1>2, <1>3, FailTyped DEF Grows, beside, dialog, receiving
<1>6. ManagerHolds' /\ issuedIndices'["receive"] = issuedIndices["receive"]
  BY <1>1, <1>2, ManagerStays DEF manager, receiving
<1>7. RbfTyped'
  BY <1>1, <1>2, <1>4, RbfUnmoved DEF dialog
<1>8. ReceiveTyped'
  BY <1>1, <1>2, <1>3, <1>6, ReceiveUnmoved DEF receiving
<1> QED
  BY <1>3, <1>5, <1>6, <1>7, <1>8 DEF Typed

LEMMA SendStepTyped ==
    ASSUME Typed, SendHolds, RbfHolds, SendStep
    PROVE  Typed'
<1>1. CASE ChangeChosen
  BY <1>1, ChangeChosenTyped, PanelStepTyped DEF ChangeChosen
<1>2. CASE ReturnAsked
  BY <1>2, ReturnAskedTyped, PanelStepTyped DEF ReturnAsked
<1>3. CASE ReturnReserved
  BY <1>3, ReturnReservedTyped, PanelStepTyped DEF ReturnReserved
<1>4. CASE Derived
  BY <1>4, DerivedTyped, PanelStepTyped DEF Derived
<1>5. CASE DeriveFails
  BY <1>5, DeriveFailsTyped, PanelStepTyped DEF DeriveFails
<1>6. CASE Refreshed
  BY <1>6, RefreshedTyped, PanelStepTyped DEF Refreshed
<1>7. CASE SignAsked
  BY <1>7, SignAskedTyped, PanelStepTyped DEF SignAsked
<1>8. CASE Signed
  BY <1>8, SignedTyped, PanelStepTyped DEF Signed
<1>9. CASE Submit
  BY <1>9, SubmitTyped, PanelStepTyped DEF Submit
<1> QED
  BY <1>1, <1>2, <1>3, <1>4, <1>5, <1>6, <1>7, <1>8, <1>9, AcceptedTyped, BroadcastFailsTyped
  DEF SendStep

(***************************************************************************)
(* Clicks                                                                  *)
(***************************************************************************)
\* What every click leaves alone.
LEMMA ClickFrame ==
    ASSUME Typed, UNCHANGED <<unclicked, dialog>>, FormsHold', SendTyped'
    PROVE  Typed'
<1>1. WorldHolds /\ RbfTyped /\ ReceiveTyped /\ ManagerHolds
  BY DEF Typed
<1>2. WorldHolds' /\ Grows
  BY <1>1, WorldUnchanged DEF unclicked
<1>3. ManagerHolds' /\ issuedIndices'["receive"] = issuedIndices["receive"]
  BY <1>1, ManagerStays DEF unclicked, manager, receiving
<1>4. RbfTyped'
  BY <1>1, RbfUnmoved DEF unclicked, dialog, network
<1>5. ReceiveTyped'
  BY <1>1, <1>2, <1>3, ReceiveUnmoved DEF unclicked, receiving, network
<1> QED
  BY <1>2, <1>3, <1>4, <1>5 DEF Typed

\* Panels whose reviews and transactions are kept or dropped, and whose form is
\* kept or filled in.
LEMMA PanelsKept ==
    ASSUME FormsHold, UNCHANGED <<unclicked, dialog>>, form' \in Entered,
           sendPreview' \in {sendPreview, None}, preparedSend' \in {preparedSend, None},
           consolidationPreview' \in {consolidationPreview, None},
           preparedConsolidation' \in {preparedConsolidation, None},
           broadcasted' \in {broadcasted, {}}
    PROVE  FormsHold'
BY DEF FormsHold, unclicked, dialog, receiving, network

LEMMA RoomStays ==
    ASSUME UNCHANGED unclicked
    PROVE  /\ relayed' = relayed
           /\ Room => Room'
           /\ UNCHANGED <<send, sendBusy>> /\ Typed => SendTyped'
<1>1. (Room => Room') /\ relayed' = relayed
  BY DEF Room, unclicked, network, manager
<1>2. ASSUME UNCHANGED <<send, sendBusy>>, Typed
      PROVE  SendTyped'
  <2>1. SendTyped /\ WorldHolds
    BY <1>2 DEF Typed
  <2>2. WorldHolds' /\ Grows
    BY <2>1, WorldUnchanged DEF unclicked
  <2>3. \A c \in Internal : issued'[c] = issued[c] /\ issuedIndices[c] \subseteq issuedIndices'[c]
    BY DEF unclicked, manager
  <2> QED
    BY <1>1, <1>2, <2>1, <2>2, <2>3, SendUnmoved
<1> QED
  BY <1>1, <1>2

LEMMA EditTyped ==
    ASSUME Typed, Edit
    PROVE  Typed'
<1>1. /\ UNCHANGED <<unclicked, dialog, send, sendBusy>> /\ form' \in Entered
      /\ sendPreview' = None /\ preparedSend' = None
      /\ consolidationPreview' = None /\ preparedConsolidation' = None /\ broadcasted' = {}
  BY FlowAssumption DEF Edit, Entered, Form, Outputs
<1>2. FormsHold
  BY DEF Typed
<1>3. FormsHold'
  BY <1>1, <1>2, PanelsKept
<1> QED
  BY <1>1, <1>3, RoomStays, ClickFrame

LEMMA PreviewSendTyped ==
    ASSUME Typed, PreviewSend
    PROVE  Typed'
<1>1. /\ UNCHANGED <<unclicked, dialog>> /\ form' = form
      /\ sendPreview' = None /\ preparedSend' = None
      /\ consolidationPreview' = None /\ preparedConsolidation' = None /\ broadcasted' = {}
      /\ Room /\ Begin("preview", form)
  BY DEF PreviewSend
<1>2. FormsHold /\ form \in Entered
  BY DEF Typed, FormsHold
<1>3. FormsHold'
  BY <1>1, <1>2, PanelsKept
<1>4. SendTyped'
  BY <1>1, <1>2, RoomStays, BeginTyped DEF Kind
<1> QED
  BY <1>1, <1>3, <1>4, ClickFrame

LEMMA ApplyMaxTyped ==
    ASSUME Typed, ApplyMax
    PROVE  Typed'
<1>1. /\ UNCHANGED <<unclicked, dialog>> /\ form' = form
      /\ sendPreview' = sendPreview /\ preparedSend' = None
      /\ consolidationPreview' = consolidationPreview
      /\ preparedConsolidation' = preparedConsolidation /\ broadcasted' = broadcasted
      /\ Room /\ Begin("max", form)
  BY DEF ApplyMax
<1>2. FormsHold /\ form \in Entered
  BY DEF Typed, FormsHold
<1>3. FormsHold'
  BY <1>1, <1>2, PanelsKept
<1>4. SendTyped'
  BY <1>1, <1>2, RoomStays, BeginTyped DEF Kind
<1> QED
  BY <1>1, <1>3, <1>4, ClickFrame

LEMMA SignSendTyped ==
    ASSUME Typed, SignSend
    PROVE  Typed'
<1>1. /\ UNCHANGED <<unclicked, dialog, form, sendPreview, preparedSend,
                     consolidationPreview, preparedConsolidation, broadcasted>>
      /\ sendPreview # None /\ Begin("sign", sendPreview)
  BY DEF SignSend
<1>2. FormsHold /\ form \in Entered /\ sendPreview \in Reviewed
  BY <1>1 DEF Typed, FormsHold
<1>3. FormsHold'
  BY <1>1, <1>2, PanelsKept
<1>4. SendTyped'
  BY <1>1, <1>2, BeginTyped DEF Kind
<1> QED
  BY <1>1, <1>3, <1>4, ClickFrame

LEMMA BroadcastSendTyped ==
    ASSUME Typed, BroadcastSend
    PROVE  Typed'
<1> DEFINE closure == [tx |-> preparedSend, review |-> sendPreview]
<1>1. /\ UNCHANGED <<unclicked, dialog, form, sendPreview, preparedSend,
                     consolidationPreview, preparedConsolidation, broadcasted>>
      /\ preparedSend # None /\ Begin("broadcast", closure)
      /\ Room /\ Cardinality(relayed) < MaxTxs
  BY DEF BroadcastSend, RoomInternal
<1>2. FormsHold /\ form \in Entered /\ closure \in [tx : Sent, review : Reviewed \cup {None}]
  BY <1>1 DEF Typed, FormsHold
<1> HIDE DEF closure
<1>3. FormsHold'
  BY <1>1, <1>2, PanelsKept
<1>4. SendTyped'
  BY <1>1, <1>2, RoomStays, BeginTyped DEF Kind
<1> QED
  BY <1>1, <1>3, <1>4, ClickFrame

LEMMA PreviewConsolidationTyped ==
    ASSUME Typed, PreviewConsolidation
    PROVE  Typed'
<1>1. /\ UNCHANGED <<unclicked, dialog>> /\ form' = form
      /\ sendPreview' = None /\ preparedSend' = None
      /\ consolidationPreview' = consolidationPreview
      /\ preparedConsolidation' = None /\ broadcasted' = {}
      /\ Room /\ Begin("plan", form.rate)
  BY DEF PreviewConsolidation, RoomInternal
<1>2. FormsHold /\ form \in Entered /\ form.rate \in Nat
  BY DEF Typed, FormsHold, Entered, Form
<1>3. FormsHold'
  BY <1>1, <1>2, PanelsKept
<1>4. SendTyped'
  BY <1>1, <1>2, RoomStays, BeginTyped DEF Kind
<1> QED
  BY <1>1, <1>3, <1>4, ClickFrame

LEMMA SignConsolidationTyped ==
    ASSUME Typed, SignConsolidation
    PROVE  Typed'
<1>1. /\ UNCHANGED <<unclicked, dialog, form, sendPreview, preparedSend,
                     consolidationPreview, preparedConsolidation, broadcasted>>
      /\ consolidationPreview # None /\ Begin("signPlan", consolidationPreview)
  BY DEF SignConsolidation
<1>2. FormsHold /\ form \in Entered /\ consolidationPreview \in PlanReviewed
  BY <1>1 DEF Typed, FormsHold
<1>3. FormsHold'
  BY <1>1, <1>2, PanelsKept
<1>4. SendTyped'
  BY <1>1, <1>2, BeginTyped DEF Kind
<1> QED
  BY <1>1, <1>3, <1>4, ClickFrame

LEMMA BroadcastNextTyped ==
    ASSUME Typed, BroadcastNextConsolidation
    PROVE  Typed'
<1>1. /\ UNCHANGED <<unclicked, dialog, form, sendPreview, preparedSend,
                     consolidationPreview, preparedConsolidation, broadcasted>>
      /\ preparedConsolidation # None /\ Cardinality(relayed) < MaxTxs
  BY DEF BroadcastNextConsolidation
<1>2. PICK i \in DOMAIN preparedConsolidation :
        /\ sendBusy' = TRUE
        /\ send' = [kind |-> "next", stage |-> "submit",
                    closure |-> [tx |-> preparedConsolidation[i], done |-> broadcasted],
                    own |-> None, known |-> None]
  BY DEF BroadcastNextConsolidation
<1>3. FormsHold /\ form \in Entered /\ WorldHolds /\ preparedConsolidation \in Seq(Sent)
      /\ broadcasted \subseteq relayed /\ relayed \subseteq Sent
  BY <1>1 DEF Typed, FormsHold, WorldHolds
<1>4. preparedConsolidation[i] \in Sent /\ broadcasted \subseteq Tx /\ Sent \subseteq Tx
  BY <1>3, ElementOfSeq DEF Sent
<1>5. FormsHold'
  BY <1>1, <1>3, PanelsKept
<1>6. SendTyped'
  <2> DEFINE closure == [tx |-> preparedConsolidation[i], done |-> broadcasted]
  <2>1. /\ closure \in [tx : Sent, done : SUBSET Tx] /\ closure.done = broadcasted
        /\ closure \in [tx : Tx, done : SUBSET Tx]
    BY <1>4
  <2>2. /\ send' = [kind |-> "next", stage |-> "submit", closure |-> closure, own |-> None, known |-> None]
        /\ relayed' = relayed
    BY <1>1, <1>2, RoomStays
  <2> HIDE DEF closure
  <2>3. send'.kind = "next" /\ send'.stage = "submit" /\ send'.closure = closure
        /\ send'.own = None /\ send'.known = None
    BY <2>2
  <2>4. CapturedHolds'
    BY <1>3, <2>1, <2>2, <2>3 DEF CapturedHolds
  <2>5. ObtainedHolds'
    BY <1>1, <2>2, <2>3 DEF ObtainedHolds
  <2>6. send' # None
    <3>1. "next" \in Kind /\ "submit" \in Awaited /\ closure \in Closure
      BY <2>1 DEF Kind, Awaited, Closure
    <3> QED
      BY <2>2, <3>1, FlowIsNotNone
  <2> QED
    BY <1>2, <2>3, <2>4, <2>5, <2>6 DEF SendTyped, Kind, Awaited
<1> QED
  BY <1>1, <1>5, <1>6, ClickFrame

LEMMA ClickTyped ==
    ASSUME Typed, Click
    PROVE  Typed'
<1>1. FormsHold /\ form \in Entered
  BY DEF Typed, FormsHold
<1>2. CASE CancelPreparedSend
  <2>1. /\ UNCHANGED <<unclicked, dialog, send, sendBusy, form, consolidationPreview,
                       preparedConsolidation, broadcasted>>
        /\ sendPreview' = None /\ preparedSend' = None
    BY <1>2 DEF CancelPreparedSend
  <2>2. FormsHold'
    BY <1>1, <2>1, PanelsKept
  <2> QED
    BY <2>1, <2>2, RoomStays, ClickFrame
<1>3. CASE CancelConsolidation
  <2>1. /\ UNCHANGED <<unclicked, dialog, send, sendBusy, form, sendPreview,
                       preparedSend, broadcasted>>
        /\ consolidationPreview' = None /\ preparedConsolidation' = None
    BY <1>3 DEF CancelConsolidation
  <2>2. FormsHold'
    BY <1>1, <2>1, PanelsKept
  <2> QED
    BY <2>1, <2>2, RoomStays, ClickFrame
<1> QED
  BY <1>2, <1>3, EditTyped, PreviewSendTyped, ApplyMaxTyped, SignSendTyped, BroadcastSendTyped,
     PreviewConsolidationTyped, SignConsolidationTyped, BroadcastNextTyped DEF Click

(***************************************************************************)
(* The dialog                                                              *)
(***************************************************************************)
\* What the dialog and its flows leave alone.
LEMMA DialogFrame ==
    ASSUME Typed, UNCHANGED <<indialog, paid>>, WorldHolds', Grows,
           receipt' \in Receipted \cup {None}, rbfQuote' \in Quote \cup {None}, RbfTyped',
           send # None => relayed' = relayed
    PROVE  Typed'
<1>1. WorldHolds /\ ReceiveTyped /\ ManagerHolds /\ SendTyped /\ FormsHold
  BY DEF Typed
<1>2. ManagerHolds' /\ issuedIndices'["receive"] = issuedIndices["receive"]
  BY <1>1, ManagerStays DEF indialog, manager, receiving
<1>3. FormsHold'
  BY <1>1 DEF FormsHold, indialog, panel, receiving, Grows
<1>4. ReceiveTyped'
  BY <1>1, <1>2, ReceiveUnmoved DEF indialog, receiving
<1>5. SendTyped'
  <2>1. \A c \in Internal : issued'[c] = issued[c] /\ issuedIndices[c] \subseteq issuedIndices'[c]
    BY DEF indialog, manager
  <2> QED
    BY <1>1, <2>1, SendUnmoved DEF indialog, panel
<1> QED
  BY <1>2, <1>3, <1>4, <1>5 DEF Typed

LEMMA ReplacingIsNotNone ==
    ASSUME NEW kind \in {"quote", "replace"}, NEW stage \in Awaited, NEW closure \in Receipted,
           NEW quote \in Quote \cup {None}, NEW tx \in Sent \cup {None}
    PROVE  LET f == [kind |-> kind, stage |-> stage, closure |-> closure, quote |-> quote, tx |-> tx]
           IN  f \in RbfFlow /\ f # None
BY NoneIsNoRecord DEF RbfFlow, Receipted, Sent

\* A flow of the dialog begins.
LEMMA QuotingTyped ==
    ASSUME Typed, receipt # None, UNCHANGED <<indialog, network, controller, receipt, rbfQuote>>,
           NEW kind \in {"quote", "replace"}, NEW quote \in Quote \cup {None}, rbfBusy' = TRUE,
           rbf' = [kind |-> kind, stage |-> "idle", closure |-> receipt, quote |-> quote, tx |-> None],
           kind = "replace" => quote # None /\ Cardinality(relayed) < MaxTxs
    PROVE  Typed'
<1>1. WorldHolds /\ receipt \in Receipted /\ rbfQuote \in Quote \cup {None}
  BY DEF Typed, FormsHold
<1>2. WorldHolds' /\ Grows /\ relayed' = relayed /\ paid' = paid
  BY <1>1, WorldUnchanged DEF indialog, network
<1>3. rbf' \in RbfFlow /\ rbf' # None
  BY <1>1, ReplacingIsNotNone DEF Awaited
<1>4. rbf'.kind = kind /\ rbf'.stage = "idle" /\ rbf'.quote = quote /\ rbf'.tx = None
  OBVIOUS
<1>5. RbfTyped'
  BY <1>2, <1>3, <1>4 DEF RbfTyped
<1> QED
  BY <1>1, <1>2, <1>5, DialogFrame

LEMMA DialogClickTyped ==
    ASSUME Typed, DialogClick
    PROVE  Typed'
<1>1. WorldHolds /\ RbfTyped /\ receipt \in Receipted \cup {None} /\ rbfQuote \in Quote \cup {None}
  BY DEF Typed, FormsHold
<1>2. CASE PrepareRbf
  BY <1>1, <1>2, QuotingTyped DEF PrepareRbf
<1>3. CASE BroadcastRbf
  BY <1>1, <1>3, QuotingTyped DEF BroadcastRbf
<1>4. CASE CancelRbf \/ CloseBroadcastDialog
  <2>1. /\ UNCHANGED <<indialog, network, controller, rbfBusy, rbf>>
        /\ receipt' \in {receipt, None} /\ rbfQuote' = None
    BY <1>4 DEF CancelRbf, CloseBroadcastDialog
  <2>2. WorldHolds' /\ Grows /\ relayed' = relayed /\ paid' = paid
    BY <1>1, <2>1, WorldUnchanged DEF indialog, network
  <2>3. RbfTyped'
    BY <1>1, <2>1, <2>2, RbfUnmoved
  <2> QED
    BY <1>1, <2>1, <2>2, <2>3, DialogFrame
<1> QED
  BY <1>2, <1>3, <1>4 DEF DialogClick

LEMMA RbfGotoTyped ==
    ASSUME RbfTyped, rbf # None, UNCHANGED <<rbfBusy, relayed>>,
           NEW stage \in {"rate", "signer", "submit", "network"}, NEW tx \in Sent \cup {None},
           rbf.closure \in Receipted,
           RbfGoto(stage, tx), stage # "rate" => rbf.kind = "replace"
    PROVE  RbfTyped'
<1>1. /\ rbf' = [kind |-> rbf.kind, stage |-> stage, closure |-> rbf.closure,
                 quote |-> rbf.quote, tx |-> tx]
  BY DEF RbfGoto
<1>2. /\ rbf.kind \in {"quote", "replace"} /\ rbf.quote \in Quote \cup {None}
      /\ rbf.kind = "replace" => rbf.quote # None /\ Cardinality(relayed) < MaxTxs
      /\ rbfBusy /\ rbfBusy \in BOOLEAN
  BY DEF RbfTyped, RbfFlow
<1>3. rbf' \in RbfFlow /\ rbf' # None
  BY <1>1, <1>2, ReplacingIsNotNone DEF Awaited
<1>4. rbf'.kind = rbf.kind /\ rbf'.stage = stage /\ rbf'.quote = rbf.quote /\ rbf'.tx = tx
  BY <1>1
<1> QED
  BY <1>2, <1>3, <1>4 DEF RbfTyped

LEMMA RbfOverTyped == RbfOver => RbfTyped'
BY DEF RbfOver, RbfTyped

\* What a flow of the dialog has.
LEMMA ReplacingFacts ==
    ASSUME Typed, IInv, rbf # None
    PROVE  /\ WorldHolds /\ RbfTyped /\ receipt \in Receipted /\ rbfQuote \in Quote \cup {None}
           /\ rbf.closure = receipt /\ receipt # None /\ rbf.kind \in {"quote", "replace"}
           /\ receipt.tx \in Tx /\ receipt.rbf.own \in Inner /\ rbf.tx \in Sent \cup {None}
           /\ rbf.stage \in {"signer", "submit", "network"} =>
                rbf.kind = "replace" /\ Cardinality(relayed) < MaxTxs
           /\ rbf.stage \in {"submit", "network"} => rbf.tx \in Sent
           /\ send = None
<1>1. /\ WorldHolds /\ RbfTyped /\ receipt \in Receipted \cup {None}
      /\ rbfQuote \in Quote \cup {None}
  BY DEF Typed, FormsHold
<1>2. /\ receipt # None /\ receipt.rbf # None /\ rbf.closure = receipt
      /\ rbf.stage \in {"submit", "network"} => rbf.tx # None
  BY DEF IInv, RbfHolds
<1>3. send = None
  BY <1>2, DialogFacts
<1>4. receipt.tx \in Tx /\ receipt.rbf.own \in Inner
  BY <1>1, <1>2 DEF Receipted, Sent
<1>5. rbf.kind \in {"quote", "replace"}
  BY <1>1 DEF RbfTyped, RbfFlow
<1> QED
  BY <1>1, <1>2, <1>3, <1>4, <1>5 DEF RbfTyped

LEMMA RbfIdleTyped ==
    ASSUME Typed, IInv, RbfIdle
    PROVE  Typed'
<1>1. rbf # None /\ UNCHANGED <<indialog, network, controller, receipt>>
  BY DEF RbfIdle, At
<1>2. WorldHolds /\ RbfTyped /\ receipt \in Receipted /\ rbfQuote \in Quote \cup {None}
      /\ rbf.closure = receipt /\ rbf.kind \in {"quote", "replace"}
  BY <1>1, ReplacingFacts
<1>3. WorldHolds' /\ Grows /\ relayed' = relayed /\ paid' = paid
  BY <1>1, <1>2, WorldUnchanged DEF indialog, network
<1>4. RbfTyped' /\ rbfQuote' \in {rbfQuote, None}
  <2>1. CASE /\ RbfGoto(IF rbf.kind = "quote" THEN "rate" ELSE "signer", None)
             /\ UNCHANGED <<rbfQuote, rbfBusy>>
    BY <1>1, <1>2, <1>3, <2>1, RbfGotoTyped
  <2>2. CASE RbfOver /\ rbfQuote' = IF rbf.kind = "quote" THEN None ELSE rbfQuote
    BY <2>2, RbfOverTyped
  <2> QED
    BY <2>1, <2>2 DEF RbfIdle
<1> QED
  BY <1>1, <1>2, <1>3, <1>4, DialogFrame

LEMMA QuotedTyped ==
    ASSUME Typed, IInv, Quoted
    PROVE  Typed'
<1>1. rbf # None /\ UNCHANGED <<indialog, network, controller, receipt>> /\ RbfOver
  BY DEF Quoted, At
<1>2. WorldHolds /\ receipt \in Receipted /\ rbf.closure = receipt /\ receipt.tx \in Tx
  BY <1>1, ReplacingFacts
<1>3. WorldHolds' /\ Grows /\ relayed' = relayed /\ paid' = paid
  BY <1>1, <1>2, WorldUnchanged DEF indialog, network
<1>4. PICK rate \in HighPriorityRate :
        rbfQuote' = IF receipt.tx.inputs \subseteq receipt.rbf.coins
                    THEN RbfQuote(receipt.tx, rate) ELSE None
  BY <1>2 DEF Quoted
<1>5. rbfQuote' \in Quote \cup {None}
  BY <1>2, <1>4, QuoteTyped
<1> QED
  BY <1>1, <1>2, <1>3, <1>5, RbfOverTyped, DialogFrame

LEMMA RbfSignedTyped ==
    ASSUME Typed, IInv, RbfSigned
    PROVE  Typed'
<1> DEFINE tx == BuildRbf(receipt.tx, rbf.quote.rate, receipt.rbf.own)
<1>1. rbf # None /\ rbf.stage = "signer" /\ UNCHANGED <<indialog, network, controller, receipt, rbfQuote>>
  BY DEF RbfSigned, At
<1>2. /\ WorldHolds /\ RbfTyped /\ receipt \in Receipted /\ rbfQuote \in Quote \cup {None}
      /\ rbf.closure = receipt /\ receipt.tx \in Tx /\ receipt.rbf.own \in Inner
      /\ rbf.kind = "replace"
  BY <1>1, ReplacingFacts
<1>3. WorldHolds' /\ Grows /\ relayed' = relayed /\ paid' = paid
  BY <1>1, <1>2, WorldUnchanged DEF indialog, network
<1>4. RbfTyped'
  <2>1. CASE RbfOver
    BY <2>1, RbfOverTyped
  <2>2. CASE RbfTaken(tx)
    <3>1. tx # None /\ RbfGoto("submit", tx) /\ UNCHANGED rbfBusy
      BY <2>2 DEF RbfTaken
    <3>2. tx \in Sent
      BY <1>2, <3>1, BuildRbfTyped
    <3> HIDE DEF tx
    <3> QED
      BY <1>1, <1>2, <1>3, <3>1, <3>2, RbfGotoTyped
  <2> QED
    BY <1>2, <2>1, <2>2 DEF RbfSigned
<1> QED
  BY <1>1, <1>2, <1>3, <1>4, DialogFrame

LEMMA RbfSubmitTyped ==
    ASSUME Typed, IInv, RbfSubmit
    PROVE  Typed'
<1>1. rbf # None /\ rbf.stage = "submit" /\ UNCHANGED <<indialog, network, controller, receipt, rbfQuote>>
  BY DEF RbfSubmit, At
<1>2. /\ WorldHolds /\ RbfTyped /\ receipt \in Receipted /\ rbfQuote \in Quote \cup {None}
      /\ rbf.closure = receipt /\ rbf.kind = "replace" /\ rbf.tx \in Sent
  BY <1>1, ReplacingFacts
<1>3. WorldHolds' /\ Grows /\ relayed' = relayed /\ paid' = paid
  BY <1>1, <1>2, WorldUnchanged DEF indialog, network
<1>4. RbfTyped'
  BY <1>1, <1>2, <1>3, RbfGotoTyped, RbfOverTyped DEF RbfSubmit
<1> QED
  BY <1>1, <1>2, <1>3, <1>4, DialogFrame

LEMMA RbfAcceptedTyped ==
    ASSUME Typed, IInv, RbfAccepted
    PROVE  Typed'
<1>1. /\ rbf # None /\ rbf.stage = "network" /\ UNCHANGED <<indialog, aside>> /\ RbfOver
      /\ Relay(rbf.tx) /\ snapshot' = Projected(rbf.tx, rbf.closure.tx) /\ ready' = TRUE
      /\ receipt' = [tx |-> rbf.tx, rbf |-> None, original |-> rbf.closure.tx]
      /\ rbfQuote' = None
  BY DEF RbfAccepted, At
<1>2. /\ WorldHolds /\ rbf.closure = receipt /\ receipt.tx \in Tx /\ rbf.tx \in Sent
      /\ Cardinality(relayed) < MaxTxs /\ send = None
  BY <1>1, ReplacingFacts
<1>3. WorldHolds' /\ Grows /\ paid' = paid
  <2>1. UNCHANGED <<hd, aside>> /\ paid' = paid
    BY <1>1 DEF indialog, Relay
  <2> QED
    BY <1>1, <1>2, <2>1, WorldRelay
<1>4. receipt' \in Receipted
  BY <1>1, <1>2 DEF Receipted, Receipt, Sent
<1> QED
  BY <1>1, <1>2, <1>3, <1>4, RbfOverTyped, DialogFrame

LEMMA RbfFailsTyped ==
    ASSUME Typed, IInv, RbfFails
    PROVE  Typed'
<1>1. /\ rbf # None /\ rbf.stage = "network" /\ RbfOver
      /\ UNCHANGED network \/ Relay(rbf.tx)
      /\ UNCHANGED <<indialog, controller, receipt, rbfQuote, accepted>>
  BY DEF RbfFails, At
<1>2. /\ WorldHolds /\ rbf.tx \in Sent /\ Cardinality(relayed) < MaxTxs /\ send = None
      /\ receipt \in Receipted /\ rbfQuote \in Quote \cup {None}
  BY <1>1, ReplacingFacts
<1>3. WorldHolds' /\ Grows /\ paid' = paid
  <2>1. CASE UNCHANGED network
    BY <1>1, <1>2, <2>1, WorldUnchanged DEF network, indialog
  <2>2. CASE Relay(rbf.tx)
    <3>1. UNCHANGED <<hd, aside, snapshot, ready>> /\ paid' = paid
      BY <1>1, <2>2 DEF indialog, controller, Relay
    <3> QED
      BY <1>1, <1>2, <2>2, <3>1, WorldRelay
  <2> QED
    BY <1>1, <2>1, <2>2
<1> QED
  BY <1>1, <1>2, <1>3, RbfOverTyped, DialogFrame

LEMMA RbfStepTyped ==
    ASSUME Typed, IInv, RbfStep
    PROVE  Typed'
BY RbfIdleTyped, QuotedTyped, RbfSignedTyped, RbfSubmitTyped, RbfAcceptedTyped, RbfFailsTyped
DEF RbfStep

(***************************************************************************)
(* The receive panel                                                       *)
(***************************************************************************)
\* What the receive panel and its flow leave alone.
LEMMA ReceiveFrame ==
    ASSUME Typed, UNCHANGED <<meanwhile, snapshot, ready>>, aside' \in 0 .. MaxAside,
           ManagerHolds', issuedAddress' \in Outer \cup {None}, ReceiveTyped',
           \A c \in Internal : issued'[c] = issued[c] /\ issuedIndices[c] \subseteq issuedIndices'[c]
    PROVE  Typed'
<1>1. WorldHolds /\ RbfTyped /\ SendTyped /\ FormsHold
  BY DEF Typed
<1>2. WorldHolds' /\ Grows
  <2>1. WorldHolds'
    BY <1>1 DEF WorldHolds, Known, meanwhile, network
  <2>2. Grows
    BY <1>1, SnapshotFields DEF Grows, meanwhile, network, WorldHolds, Known, KnownBy
  <2> QED
    BY <2>1, <2>2
<1>3. relayed' = relayed /\ UNCHANGED <<send, sendBusy, rbf, rbfBusy>>
  BY DEF meanwhile, network, panel, dialog
<1>4. FormsHold'
  BY <1>1 DEF FormsHold, meanwhile, network, panel, dialog
<1>5. RbfTyped'
  BY <1>1, <1>3, RbfUnmoved
<1>6. SendTyped'
  BY <1>1, <1>2, <1>3, SendUnmoved
<1> QED
  BY <1>2, <1>4, <1>5, <1>6 DEF Typed

\* Outer addresses leave the internal chains as they are.
LEMMA RememberOuter ==
    ASSUME ManagerHolds, NEW a \in Outer, Remember(a), issuedAddress' # None,
           \/ UNCHANGED reserved
           \/ /\ a.index \notin issuedIndices[a.chain]
              /\ reserved' = reserved (+) SetToBag({a})
    PROVE  /\ ManagerHolds'
           /\ issuedIndices'["receive"] = issuedIndices["receive"] \cup {a.index}
           /\ \A c \in Internal :
                issued'[c] = issued[c] /\ issuedIndices[c] \subseteq issuedIndices'[c]
<1>1. a \in Address /\ a.chain = "receive"
  BY Addresses
<1>2. /\ ManagerHolds'
      /\ issuedIndices'[a.chain] = issuedIndices[a.chain] \cup {a.index}
      /\ \A c \in Chain \ {a.chain} :
           issued'[c] = issued[c] /\ issuedIndices'[c] = issuedIndices[c]
  BY <1>1, RememberKeeps
<1>3. \A c \in Internal : c \in Chain \ {a.chain}
  BY <1>1, Chains
<1> QED
  BY <1>1, <1>2, <1>3

\* The flow of the receive panel, wherever it is.
LEMMA ReservingTyped ==
    ASSUME NEW stage \in {"queued", "derive", "refresh", "resume"}, NEW own \in Outer \cup {None},
           NEW known, KnownBy(known, paid' \cup Paid(relayed'), snapshot'.reach),
           receive' = [stage |-> stage, own |-> own, known |-> known],
           addressBusy' = TRUE, issuedAddress' # None,
           stage # "queued" => own # None,
           stage = "derive" => own.index \notin issuedIndices'["receive"],
           stage \in {"queued", "derive"} => RoomBeside(issuedIndices'["receive"], paid'),
           stage \in {"refresh", "resume"} =>
             /\ own.index \in issuedIndices'["receive"]
             /\ RoomBeside(issuedIndices'["receive"] \ {own.index}, paid')
    PROVE  ReceiveTyped'
<1>1. receive'.stage = stage /\ receive'.own = own /\ receive'.known = known
  OBVIOUS
<1>2. receive' \in ReceiveFlow /\ receive' # None
  <2>1. stage \in Awaited /\ own \in Address \cup {None} /\ known \in Snapshot
    BY Addresses DEF Awaited, KnownBy
  <2> QED
    BY <2>1, NoneIsNoRecord DEF ReceiveFlow
<1> QED
  BY <1>1, <1>2 DEF ReceiveTyped, RoomLeft, Known

LEMMA EndedTyped ==
    ASSUME NEW address, Ended(address)
    PROVE  ReceiveTyped'
BY DEF Ended, ReceiveTyped

\* What the flow has at each step.
LEMMA ReservingFacts ==
    ASSUME Typed, receive # None
    PROVE  /\ WorldHolds /\ ManagerHolds /\ ReceiveTyped /\ Known(receive.known)
           /\ issuedAddress # None /\ issuedAddress \in Outer /\ addressBusy = TRUE
           /\ receive.own \in Outer \cup {None} /\ Known(snapshot)
           /\ receive.stage # "queued" => receive.own # None /\ receive.own \in Outer
           /\ receive.stage \in {"queued", "derive", "refresh", "resume"}
BY DEF Typed, ReceiveTyped, FormsHold, WorldHolds

LEMMA ShowPrimaryTyped ==
    ASSUME Typed, ShowPrimary
    PROVE  Typed'
<1> DEFINE a == [chain |-> "receive", index |-> Larger(issued["receive"], 0)]
<1>1. /\ issuedAddress = None /\ Remember(a) /\ issuedAddress' = a
      /\ UNCHANGED <<meanwhile, controller, reservationQueue, addressBusy, receive, reserved>>
  BY DEF ShowPrimary
<1>2. WorldHolds /\ ManagerHolds /\ ReceiveTyped
  BY DEF Typed
<1>3. a \in Outer
  <2>1. issued["receive"] = -1 /\ 0 \in 0 .. MaxIndex
    BY <1>1, <1>2, FlowAssumption DEF ManagerHolds
  <2>2. Larger(issued["receive"], 0) = 0
    BY <2>1 DEF Larger
  <2> QED
    BY <2>1, <2>2, Chains, AddressOf
<1> HIDE DEF a
<1>4. issuedAddress' # None /\ issuedAddress' \in Outer \cup {None}
  BY <1>1, <1>3, Addresses
<1>5. /\ ManagerHolds'
      /\ \A c \in Internal :
           issued'[c] = issued[c] /\ issuedIndices[c] \subseteq issuedIndices'[c]
  BY <1>1, <1>2, <1>3, <1>4, RememberOuter
<1>6. ReceiveTyped'
  BY <1>1, <1>2 DEF ReceiveTyped
<1>7. UNCHANGED <<meanwhile, snapshot, ready>> /\ aside' \in 0 .. MaxAside
  BY <1>1, <1>2 DEF controller, WorldHolds
<1> QED
  BY <1>4, <1>5, <1>6, <1>7, ReceiveFrame

LEMMA RoomShrinks ==
    ASSUME WorldHolds, ManagerHolds, RoomReceive
    PROVE  RoomLeft(issuedIndices["receive"])
<1> DEFINE all == issuedIndices["receive"]
           some == all \ {a.index : a \in paid}
<1>1. all \subseteq 0 .. MaxIndex
  BY Chains DEF ManagerHolds
<1>2. IsFiniteSet(all)
  <2>1. 0 \in Int /\ MaxIndex \in Int
    BY FlowAssumption
  <2> QED
    BY <1>1, <2>1, FS_Interval, FS_Subset
<1>3. IsFiniteSet(some) /\ Cardinality(some) <= Cardinality(all)
  BY <1>2, FS_Subset
<1>4. Cardinality(some) \in Nat /\ Cardinality(all) \in Nat
  BY <1>2, <1>3, FS_CardinalityType
<1>5. Cardinality(all) + MaxPaid <= MaxIndex
  BY DEF RoomReceive
<1> HIDE DEF all, some
<1>6. Cardinality(some) + MaxPaid <= MaxIndex
  BY <1>3, <1>4, <1>5, FlowAssumption
<1> QED
  BY <1>6 DEF RoomLeft, RoomBeside, some, all

LEMMA ReserveNewAddressTyped ==
    ASSUME Typed, ReserveNewAddress
    PROVE  Typed'
<1>1. /\ issuedAddress # None /\ RoomReceive /\ aside < MaxAside /\ aside' = aside + 1
      /\ addressBusy' = TRUE /\ receive' = [stage |-> "queued", own |-> None, known |-> snapshot]
      /\ UNCHANGED <<meanwhile, ready, snapshot, issued, issuedIndices, issuedAddress, reserved>>
  BY DEF ReserveNewAddress
<1>2. WorldHolds /\ ManagerHolds /\ Known(snapshot) /\ issuedAddress \in Outer \cup {None}
  BY DEF Typed, WorldHolds, FormsHold
<1>3. KnownBy(snapshot, paid' \cup Paid(relayed'), snapshot'.reach)
  BY <1>1, <1>2 DEF Known, meanwhile, network
<1>4. RoomBeside(issuedIndices'["receive"], paid')
  BY <1>1, <1>2, RoomShrinks DEF RoomLeft, meanwhile, network
<1>5. ReceiveTyped'
  BY <1>1, <1>3, <1>4, ReservingTyped
<1>6. ManagerHolds' /\ aside' \in 0 .. MaxAside
  BY <1>1, <1>2, ManagerStays, FlowAssumption DEF WorldHolds
<1>7. \A c \in Internal : issued'[c] = issued[c] /\ issuedIndices[c] \subseteq issuedIndices'[c]
  BY <1>1
<1> QED
  BY <1>1, <1>2, <1>5, <1>6, <1>7, ReceiveFrame

LEMMA ReceiveReservedTyped ==
    ASSUME Typed, ReceiveReserved
    PROVE  Typed'
<1> DEFINE a == ReserveNext(receive.known, "receive")
<1>1. /\ receive # None /\ receive.stage = "queued" /\ UNCHANGED <<meanwhile, controller>>
      /\ IF Covered(receive.known, a) THEN Given(a) /\ Ended(a)
         ELSE /\ ReceiveGoto("derive", a)
              /\ UNCHANGED <<manager, issuedAddress, addressBusy, reserved>>
  BY DEF ReceiveReserved, Turn, At
<1>2. /\ WorldHolds /\ ManagerHolds /\ ReceiveTyped /\ Known(receive.known)
      /\ issuedAddress # None /\ issuedAddress \in Outer /\ addressBusy = TRUE
  BY <1>1, ReservingFacts
<1>3. RoomLeft(issuedIndices["receive"])
  BY <1>1, <1>2 DEF ReceiveTyped
<1>4. a \in Outer /\ a.index \notin issuedIndices["receive"]
  BY <1>2, <1>3, NextReceiveFacts
<1> HIDE DEF a
<1>5. UNCHANGED <<meanwhile, snapshot, ready>> /\ aside' \in 0 .. MaxAside
  BY <1>1, <1>2 DEF controller, WorldHolds
<1>6. CASE Given(a) /\ Ended(a)
  <2>1. Remember(a) /\ reserved' = reserved (+) SetToBag({a}) /\ issuedAddress' = a
    BY <1>6 DEF Given, Ended
  <2>2. issuedAddress' # None /\ a.chain = "receive"
    BY <1>4, <2>1, Addresses
  <2>3. /\ ManagerHolds'
        /\ \A c \in Internal :
             issued'[c] = issued[c] /\ issuedIndices[c] \subseteq issuedIndices'[c]
    BY <1>2, <1>4, <2>1, <2>2, RememberOuter
  <2> QED
    BY <1>4, <1>5, <1>6, <2>1, <2>3, EndedTyped, ReceiveFrame
<1>7. CASE /\ ReceiveGoto("derive", a)
           /\ UNCHANGED <<manager, issuedAddress, addressBusy, reserved>>
  <2>1. receive' = [stage |-> "derive", own |-> a, known |-> receive.known]
        /\ UNCHANGED <<issued, issuedIndices, issuedAddress, addressBusy, reserved>>
    BY <1>7 DEF ReceiveGoto, manager
  <2>2. KnownBy(receive.known, paid' \cup Paid(relayed'), snapshot'.reach) /\ paid' = paid
    BY <1>2, <1>5 DEF Known, meanwhile, network
  <2>3. a \in Outer \cup {None} /\ a # None /\ a.index \notin issuedIndices'["receive"]
        /\ RoomBeside(issuedIndices'["receive"], paid')
    BY <1>3, <1>4, <2>1, <2>2, Addresses DEF RoomLeft
  <2>4. ReceiveTyped'
    BY <1>2, <2>1, <2>2, <2>3, ReservingTyped
  <2>5. /\ ManagerHolds'
        /\ \A c \in Internal :
             issued'[c] = issued[c] /\ issuedIndices[c] \subseteq issuedIndices'[c]
    BY <1>2, <2>1, ManagerStays
  <2> QED
    BY <1>2, <1>5, <2>1, <2>4, <2>5, ReceiveFrame
<1> QED
  BY <1>1, <1>6, <1>7

LEMMA ReceiveDerivedTyped ==
    ASSUME Typed, ReceiveDerived
    PROVE  Typed'
<1> DEFINE a == receive.own
<1>1. /\ receive # None /\ receive.stage = "derive"
      /\ UNCHANGED <<meanwhile, controller, issuedAddress, addressBusy>>
      /\ Remember(a) /\ reserved' = reserved (+) SetToBag({a})
      /\ receive' = [stage |-> "refresh", own |-> a, known |-> receive.known]
  BY DEF ReceiveDerived, Given, ReceiveGoto, At
<1>2. /\ WorldHolds /\ ManagerHolds /\ ReceiveTyped /\ Known(receive.known)
      /\ issuedAddress # None /\ issuedAddress \in Outer /\ addressBusy = TRUE
      /\ a # None /\ a \in Outer
  BY <1>1, ReservingFacts
<1>3. RoomLeft(issuedIndices["receive"]) /\ a.index \notin issuedIndices["receive"]
      /\ a.chain = "receive"
  BY <1>1, <1>2, Addresses DEF ReceiveTyped
<1> HIDE DEF a
<1>4. UNCHANGED <<meanwhile, snapshot, ready, paid>> /\ aside' \in 0 .. MaxAside
  BY <1>1, <1>2 DEF controller, WorldHolds, meanwhile, network
<1>5. /\ ManagerHolds'
      /\ issuedIndices'["receive"] = issuedIndices["receive"] \cup {a.index}
      /\ \A c \in Internal :
           issued'[c] = issued[c] /\ issuedIndices[c] \subseteq issuedIndices'[c]
  BY <1>1, <1>2, <1>3, RememberOuter
<1>6. /\ a.index \in issuedIndices'["receive"]
      /\ RoomBeside(issuedIndices'["receive"] \ {a.index}, paid')
  <2>1. issuedIndices'["receive"] \ {a.index} = issuedIndices["receive"]
    BY <1>3, <1>5
  <2> QED
    BY <1>3, <1>4, <1>5, <2>1 DEF RoomLeft
<1>7. KnownBy(receive.known, paid' \cup Paid(relayed'), snapshot'.reach)
  BY <1>2, <1>4 DEF Known, meanwhile, network
<1>8. ReceiveTyped'
  BY <1>1, <1>2, <1>6, <1>7, ReservingTyped
<1> QED
  BY <1>1, <1>2, <1>4, <1>5, <1>8, ReceiveFrame

LEMMA ReceiveDeriveFailsTyped ==
    ASSUME Typed, ReceiveDeriveFails
    PROVE  Typed'
<1>1. /\ receive # None /\ Ended(issuedAddress)
      /\ UNCHANGED <<meanwhile, controller, issued, issuedIndices, reserved, issuedAddress>>
  BY DEF ReceiveDeriveFails, Ended, At
<1>2. WorldHolds /\ ManagerHolds /\ issuedAddress \in Outer
  BY <1>1, ReservingFacts
<1>3. UNCHANGED <<meanwhile, snapshot, ready>> /\ aside' \in 0 .. MaxAside
  BY <1>1, <1>2 DEF controller, WorldHolds
<1>4. /\ ManagerHolds'
      /\ \A c \in Internal :
           issued'[c] = issued[c] /\ issuedIndices[c] \subseteq issuedIndices'[c]
  BY <1>1, <1>2, ManagerStays
<1> QED
  BY <1>1, <1>2, <1>3, <1>4, EndedTyped, ReceiveFrame

LEMMA ReceiveRefreshedTyped ==
    ASSUME Typed, ReceiveRefreshed
    PROVE  Typed'
<1> DEFINE a == receive.own
<1>1. /\ receive # None /\ receive.stage = "resume" /\ UNCHANGED <<meanwhile, controller, reserved>>
      /\ UNCHANGED <<issued, issuedIndices>>
      /\ \/ Ended(issuedAddress)
         \/ Ended(a)
         \/ /\ a \in snapshot.used /\ UNCHANGED <<issuedAddress, addressBusy>>
            /\ receive' = [stage |-> "queued", own |-> None, known |-> snapshot]
  BY DEF ReceiveRefreshed, At, manager
<1>2. /\ WorldHolds /\ ManagerHolds /\ ReceiveTyped /\ Known(snapshot)
      /\ issuedAddress # None /\ issuedAddress \in Outer /\ addressBusy = TRUE
      /\ a # None /\ a \in Outer
  BY <1>1, ReservingFacts
<1>3. a.index \in issuedIndices["receive"] /\ RoomLeft(issuedIndices["receive"] \ {a.index})
  BY <1>1, <1>2 DEF ReceiveTyped
<1> HIDE DEF a
<1>4. UNCHANGED <<meanwhile, snapshot, ready, paid>> /\ aside' \in 0 .. MaxAside
  BY <1>1, <1>2 DEF controller, WorldHolds, meanwhile, network
<1>5. \A c \in Internal : issued'[c] = issued[c] /\ issuedIndices[c] \subseteq issuedIndices'[c]
  BY <1>1
<1>6. issuedAddress' # None => ManagerHolds'
  BY <1>1, <1>2, ManagerUnchanged
<1>7. CASE Ended(issuedAddress) \/ Ended(a)
  <2>1. issuedAddress' \in Outer /\ issuedAddress' # None
    BY <1>2, <1>7 DEF Ended
  <2> QED
    BY <1>4, <1>5, <1>6, <1>7, <2>1, EndedTyped, ReceiveFrame
<1>8. CASE /\ a \in snapshot.used /\ UNCHANGED <<issuedAddress, addressBusy>>
           /\ receive' = [stage |-> "queued", own |-> None, known |-> snapshot]
  <2>1. a \in paid
    <3>1. a \in paid \cup Paid(relayed) /\ a.chain = "receive" /\ relayed \subseteq Sent
      BY <1>2, <1>8, Addresses DEF WorldHolds, Known, KnownBy
    <3> QED
      BY <3>1, PaidType, Addresses
  <2>2. RoomBeside(issuedIndices'["receive"], paid')
    <3> DEFINE P == {b.index : b \in paid}
               I == issuedIndices["receive"]
    <3>1. a.index \in P
      BY <2>1
    <3>2. (I \ {a.index}) \ P = I \ P
      BY <3>1
    <3> QED
      BY <1>1, <1>3, <1>4, <3>2 DEF RoomLeft, RoomBeside
  <2>3. KnownBy(snapshot, paid' \cup Paid(relayed'), snapshot'.reach)
    BY <1>2, <1>4 DEF Known, meanwhile, network
  <2>4. ReceiveTyped'
    BY <1>2, <1>8, <2>2, <2>3, ReservingTyped
  <2> QED
    BY <1>2, <1>4, <1>5, <1>6, <1>8, <2>4, ReceiveFrame
<1> QED
  BY <1>1, <1>7, <1>8

LEMMA ReceivingTyped ==
    ASSUME Typed, ShowPrimary \/ ReserveNewAddress \/ ReceiveStep
    PROVE  Typed'
BY ShowPrimaryTyped, ReserveNewAddressTyped, ReceiveReservedTyped, ReceiveDerivedTyped,
   ReceiveDeriveFailsTyped, ReceiveRefreshedTyped DEF ReceiveStep

(***************************************************************************)
(* The network and the controller                                          *)
(***************************************************************************)
LEMMA EnvironmentFrame ==
    ASSUME Typed, WorldHolds', UNCHANGED <<manager, panel, dialog, issuedAddress, reserved, rbf, relayed>>,
           SendTyped', ReceiveTyped'
    PROVE  Typed'
<1>1. ManagerHolds /\ FormsHold /\ RbfTyped
  BY DEF Typed
<1>2. ManagerHolds'
  BY <1>1, ManagerStays DEF manager
<1>3. FormsHold'
  BY <1>1, FormsUnchanged DEF panel, dialog
<1>4. RbfTyped'
  BY <1>1, RbfUnmoved DEF dialog
<1> QED
  BY <1>2, <1>3, <1>4 DEF Typed

\* A step that leaves the flows and the manager alone, and changes only what
\* the network or the snapshot holds.
LEMMA OutsideTyped ==
    ASSUME Typed, WorldHolds', Grows, UNCHANGED <<manager, panel, dialog, receiving, reserved,
                                                  send, rbf, relayed, paid>>
    PROVE  Typed'
<1>1. WorldHolds /\ SendTyped /\ ReceiveTyped
  BY DEF Typed
<1>2. SendTyped'
  <2>1. \A c \in Internal : issued'[c] = issued[c] /\ issuedIndices[c] \subseteq issuedIndices'[c]
    BY DEF manager
  <2> QED
    BY <1>1, <2>1, SendUnmoved DEF panel
<1>3. ReceiveTyped'
  BY <1>1, ReceiveUnmoved DEF receiving, manager
<1> QED
  BY <1>2, <1>3, EnvironmentFrame DEF receiving

LEMMA SyncTyped ==
    ASSUME Typed, Sync
    PROVE  Typed'
<1>1. PICK full \in BOOLEAN : snapshot' = Scan(full)
  BY DEF Sync
<1>2. /\ aside < MaxAside /\ aside' = aside + 1 /\ ready' = TRUE
      /\ UNCHANGED <<hd, network, manager, panel, dialog, receiving, send, rbf, accepted, reserved>>
  BY DEF Sync
<1>3. WorldHolds /\ ManagerHolds /\ aside' \in 0 .. MaxAside
  BY <1>2, FlowAssumption DEF Typed, WorldHolds
<1>4. WorldHolds' /\ Grows
  BY <1>1, <1>2, <1>3, WorldScan
<1> QED
  BY <1>2, <1>4, OutsideTyped DEF network

LEMMA WorldStays ==
    ASSUME WorldHolds, UNCHANGED <<hd, network, snapshot, aside>>, ready' \in BOOLEAN
    PROVE  WorldHolds' /\ Grows
<1>1. WorldHolds'
  BY DEF WorldHolds, Known, network
<1>2. Grows
  BY SnapshotFields DEF Grows, network, WorldHolds, Known, KnownBy
<1> QED
  BY <1>1, <1>2

LEMMA RescanTyped ==
    ASSUME Typed, Rescan
    PROVE  Typed'
<1>1. /\ \/ ready' = TRUE /\ snapshot' = Scan(TRUE)
         \/ ready' = FALSE /\ UNCHANGED snapshot
      /\ IF At(send, "refresh") THEN Goto("resume", send.own, send.known) ELSE UNCHANGED send
      /\ IF At(receive, "refresh") THEN ReceiveGoto("resume", receive.own) ELSE UNCHANGED receive
      /\ UNCHANGED <<hd, network, aside, manager, panel, dialog, issuedAddress,
                     addressBusy, rbf, accepted, reserved>>
  BY DEF Rescan
<1>2. WorldHolds /\ ManagerHolds /\ FormsHold /\ SendTyped /\ ReceiveTyped
  BY DEF Typed
<1>3. WorldHolds' /\ Grows
  <2>1. CASE ready' = TRUE /\ snapshot' = Scan(TRUE)
    <3>1. TRUE \in BOOLEAN /\ ready' \in BOOLEAN /\ aside' \in 0 .. MaxAside
      BY <1>1, <1>2, <2>1 DEF WorldHolds
    <3> QED
      BY <1>1, <1>2, <2>1, <3>1, WorldScan
  <2>2. CASE ready' = FALSE /\ UNCHANGED snapshot
    BY <1>1, <1>2, <2>2, WorldStays
  <2> QED
    BY <1>1, <2>1, <2>2
<1>4. /\ \A c \in Internal : issued'[c] = issued[c] /\ issuedIndices[c] \subseteq issuedIndices'[c]
      /\ relayed' = relayed /\ paid' = paid /\ UNCHANGED <<relayed, beside>>
      /\ issuedIndices' = issuedIndices
  BY <1>1 DEF manager, network, beside, dialog
<1>5. SendTyped'
  <2>1. CASE At(send, "refresh")
    <3>1. /\ send # None /\ send.stage = "refresh" /\ CapturedHolds /\ ObtainedHolds
          /\ Onward("resume", send.own, send.known)
      BY <1>1, <1>2, <2>1 DEF At, SendTyped, Onward
    <3>2. /\ send.own \in Inner \cup {None} /\ send.own # None /\ send.own.chain \in Internal
          /\ send.own.index \in issuedIndices'[send.own.chain]
          /\ send.known # None /\ Known(send.known)
      BY <1>4, <3>1 DEF ObtainedHolds
    <3>3. KnownBy(send.known, paid' \cup Paid(relayed'), snapshot'.reach)
      BY <1>2, <1>3, <3>2, KnownStays DEF Known
    <3>4. "resume" \in Awaited \ {"rate"}
      BY DEF Awaited
    <3> QED
      BY <1>2, <1>4, <3>1, <3>2, <3>3, <3>4, OnwardTyped
  <2>2. CASE ~At(send, "refresh")
    BY <1>1, <1>2, <1>3, <1>4, <2>2, SendUnmoved DEF panel
  <2> QED
    BY <2>1, <2>2
<1>6. ReceiveTyped'
  <2>1. CASE At(receive, "refresh")
    <3>1. /\ receive # None /\ receive.stage = "refresh"
          /\ receive' = [stage |-> "resume", own |-> receive.own, known |-> receive.known]
      BY <1>1, <2>1 DEF At, ReceiveGoto
    <3>2. /\ Known(receive.known) /\ issuedAddress' # None /\ addressBusy' = TRUE
          /\ receive.own \in Outer \cup {None} /\ receive.own # None
      BY <1>1, <3>1, ReservingFacts
    <3>3. /\ receive.own.index \in issuedIndices'["receive"]
          /\ RoomBeside(issuedIndices'["receive"] \ {receive.own.index}, paid')
      BY <1>2, <1>4, <3>1 DEF ReceiveTyped, RoomLeft
    <3>4. KnownBy(receive.known, paid' \cup Paid(relayed'), snapshot'.reach)
      BY <1>2, <1>3, <3>2, KnownStays DEF Known
    <3> QED
      BY <3>1, <3>2, <3>3, <3>4, ReservingTyped
  <2>2. CASE ~At(receive, "refresh")
    BY <1>1, <1>2, <1>3, <1>4, <2>2, ReceiveUnmoved
  <2> QED
    BY <2>1, <2>2
<1> QED
  BY <1>1, <1>3, <1>4, <1>5, <1>6, EnvironmentFrame

LEMMA GoStaleTyped ==
    ASSUME Typed, GoStale
    PROVE  Typed'
<1>1. /\ ready' = FALSE
      /\ UNCHANGED <<hd, network, snapshot, aside, manager, panel, dialog,
                     receiving, send, rbf, accepted, reserved>>
  BY DEF GoStale
<1>2. WorldHolds
  BY DEF Typed
<1>3. WorldHolds' /\ Grows
  BY <1>1, <1>2, WorldStays
<1> QED
  BY <1>1, <1>3, OutsideTyped DEF network

LEMMA ConfirmTyped ==
    ASSUME Typed, NEW tx \in mempool, Confirm(tx)
    PROVE  Typed'
<1>1. /\ mempool' = mempool \ {tx} /\ buried' = buried \cup tx.inputs
      /\ UNCHANGED <<hd, relayed, paid, controller, manager, panel, dialog,
                     receiving, send, rbf, accepted, reserved>>
  BY DEF Confirm
<1>2. WorldHolds
  BY DEF Typed
<1>3. tx.inputs \subseteq Coin
  BY <1>2 DEF WorldHolds, Sent, Tx
<1>4. WorldHolds'
  BY <1>1, <1>2, <1>3 DEF WorldHolds, Known, controller
<1>5. Grows
  BY <1>1, <1>2, SnapshotFields DEF Grows, controller, WorldHolds, Known, KnownBy
<1> QED
  BY <1>1, <1>4, <1>5, OutsideTyped

LEMMA PayTyped ==
    ASSUME Typed, Pay
    PROVE  Typed'
<1>1. /\ receive # None /\ receive.own # None /\ Cardinality(paid) < MaxPaid
      /\ paid' = paid \cup {receive.own}
      /\ UNCHANGED <<hd, relayed, mempool, buried, controller, manager, panel,
                     dialog, receiving, send, rbf, accepted, reserved>>
  BY DEF Pay
<1>2. WorldHolds /\ ManagerHolds /\ SendTyped /\ ReceiveTyped
  BY DEF Typed
<1>3. receive.own \in Outer
  BY <1>1, ReservingFacts
<1>4. /\ paid' \subseteq Outer /\ IsFiniteSet(paid') /\ Cardinality(paid') <= MaxPaid
      /\ paid \subseteq paid'
  <2>1. paid \subseteq Outer /\ IsFiniteSet(paid) /\ Cardinality(paid) \in Nat
    BY <1>2, FS_CardinalityType DEF WorldHolds
  <2>2. IsFiniteSet(paid') /\ Cardinality(paid') \in {Cardinality(paid), Cardinality(paid) + 1}
    BY <1>1, <2>1, FS_AddElement
  <2> QED
    BY <1>1, <1>3, <2>1, <2>2, FlowAssumption
<1>5. Grows
  BY <1>1, <1>2, <1>4, SnapshotFields DEF Grows, controller, WorldHolds, Known, KnownBy
<1>6. WorldHolds'
  <2>1. KnownBy(snapshot, paid' \cup Paid(relayed), snapshot.reach)
    BY <1>2, <1>4 DEF WorldHolds, Known, KnownBy
  <2> QED
    BY <1>1, <1>2, <1>4, <2>1 DEF WorldHolds, Known, controller
<1>7. SendTyped'
  <2>1. \A c \in Internal : issued'[c] = issued[c] /\ issuedIndices[c] \subseteq issuedIndices'[c]
    BY <1>1 DEF manager
  <2> QED
    BY <1>1, <1>2, <1>5, <1>6, <2>1, SendUnmoved DEF panel
<1>8. ReceiveTyped'
  <2>1. ASSUME NEW I, I \subseteq issuedIndices["receive"], RoomBeside(I, paid)
        PROVE  RoomBeside(I, paid')
    <3> DEFINE now == I \ {a.index : a \in paid}
               then == I \ {a.index : a \in paid'}
    <3>1. IsFiniteSet(now)
      <4>1. issuedIndices["receive"] \subseteq 0 .. MaxIndex
        BY <1>2, Chains DEF ManagerHolds
      <4>2. 0 \in Int /\ MaxIndex \in Int
        BY FlowAssumption
      <4>3. IsFiniteSet(0 .. MaxIndex)
        BY <4>2, FS_Interval
      <4>4. now \subseteq 0 .. MaxIndex
        BY <2>1, <4>1
      <4> QED
        BY <4>3, <4>4, FS_Subset
    <3>2. then \subseteq now
      BY <1>4
    <3>3. /\ IsFiniteSet(then) /\ Cardinality(then) <= Cardinality(now)
          /\ Cardinality(then) \in Nat /\ Cardinality(now) \in Nat
      BY <3>1, <3>2, FS_Subset, FS_CardinalityType
    <3>4. Cardinality(now) + MaxPaid <= MaxIndex
      BY <2>1 DEF RoomBeside
    <3> HIDE DEF now, then
    <3>5. Cardinality(then) + MaxPaid <= MaxIndex
      BY <3>3, <3>4, FlowAssumption
    <3> QED
      BY <3>5 DEF RoomBeside, then
  <2>2. /\ Known(receive.known) /\ issuedAddress' # None /\ addressBusy' = TRUE
        /\ receive.own \in Outer \cup {None}
        /\ receive.stage \in {"queued", "derive", "refresh", "resume"}
    BY <1>1, ReservingFacts DEF receiving
  <2>3. KnownBy(receive.known, paid' \cup Paid(relayed'), snapshot'.reach)
    BY <1>2, <1>5, <1>6, <2>2, KnownStays DEF Known
  <2>4. UNCHANGED <<receive, issuedAddress, addressBusy, issuedIndices>>
    BY <1>1 DEF receiving, manager
  <2>5. receive.stage \in {"queued", "derive"} => RoomBeside(issuedIndices["receive"], paid')
    BY <1>1, <1>2, <2>1 DEF ReceiveTyped, RoomLeft
  <2>6. receive.stage \in {"refresh", "resume"} =>
          RoomBeside(issuedIndices["receive"] \ {receive.own.index}, paid')
    BY <1>1, <1>2, <2>1 DEF ReceiveTyped, RoomLeft
  <2> QED
    BY <1>1, <1>2, <2>2, <2>3, <2>4, <2>5, <2>6 DEF ReceiveTyped, RoomLeft, Known
<1> QED
  BY <1>1, <1>6, <1>7, <1>8, EnvironmentFrame DEF receiving

LEMMA EnvironmentTyped ==
    ASSUME Typed, Environment
    PROVE  Typed'
BY SyncTyped, RescanTyped, GoStaleTyped, ConfirmTyped, PayTyped DEF Environment

LEMMA InitTyped == Init => Typed
<1> SUFFICES ASSUME Init PROVE Typed
  OBVIOUS
<1>1. /\ Gap \in Nat \ {0} /\ MaxIndex \in Nat /\ MaxAside \in Nat /\ MaxTxs \in Nat /\ MaxPaid \in Nat
      /\ DefaultRate \in 1 .. MaxRate /\ DefaultRate \in Nat
  BY FlowAssumption, SizesPositive
<1>2. Paid({}) = {}
  BY DEF Paid
<1>3. IsFiniteSet({}) /\ Cardinality({}) = 0
  BY FS_EmptySet
<1>4. Known(snapshot) /\ snapshot.pending = {}
  <2>1. [c \in Chain |-> IF c = "primary" THEN 0 ELSE Gap - 1] \in [Chain -> 0 .. MaxIndex + Gap]
    BY <1>1
  <2>2. snapshot = [scannedAt |-> 0, coins |-> Coin, used |-> {}, pending |-> {},
                    reach |-> [c \in Chain |-> IF c = "primary" THEN 0 ELSE Gap - 1]]
    BY DEF Init
  <2>3. snapshot \in Snapshot /\ snapshot.used = {} /\ snapshot.pending = {}
    BY <2>1, <2>2 DEF Snapshot
  <2>4. \A c \in Chain : snapshot.reach[c] <= snapshot.reach[c]
    BY <2>3, SnapshotFields
  <2> QED
    BY <2>3, <2>4 DEF Known, KnownBy
<1>5. WorldHolds
  BY <1>1, <1>3, <1>4 DEF Init, WorldHolds
<1>6. ManagerHolds
  <2>1. IsABag(reserved) /\ BagToSet(reserved) = {}
    BY DEF Init, EmptyBag, IsABag, BagToSet, SetToBag
  <2>2. -1 \in -1 .. MaxIndex
    BY <1>1
  <2> QED
    BY <2>1, <2>2, Chains DEF Init, ManagerHolds
<1>7. FormsHold
  BY <1>1, EmptyFormTyped DEF Init, FormsHold
<1>8. SendTyped /\ RbfTyped /\ ReceiveTyped
  BY DEF Init, SendTyped, RbfTyped, ReceiveTyped
<1> QED
  BY <1>5, <1>6, <1>7, <1>8 DEF Typed

LEMMA NextTyped ==
    ASSUME Typed, IInv, [Next]_vars
    PROVE  Typed'
<1>1. CASE UNCHANGED vars
  <2>1. WorldHolds /\ UNCHANGED <<hd, network, snapshot, aside>> /\ ready' \in BOOLEAN
    BY <1>1 DEF vars, controller, Typed, WorldHolds
  <2>2. WorldHolds' /\ Grows
    BY <2>1, WorldStays
  <2> QED
    BY <1>1, <2>2, OutsideTyped DEF vars, network
<1>2. SendHolds /\ RbfHolds
  BY DEF IInv
<1> QED
  BY <1>1, <1>2, EnvironmentTyped, ClickTyped, SendStepTyped, DialogClickTyped, RbfStepTyped,
     ReceivingTyped DEF Next

\* The typed shape of every variable, with the room that the bounds leave, is
\* inductive beside the invariant of the flows.
THEOREM TypesInvariant == Spec => []Typed
<1>1. Init => Typed /\ IInv
  BY InitTyped, InitHolds
<1>2. Typed /\ IInv /\ [Next]_vars => Typed' /\ IInv'
  BY NextTyped, NextKeeps
<1> QED
  BY <1>1, <1>2, PTL DEF Spec

\* reserveNew never gives an address twice (addressManager.ts:117-152).
THEOREM ReservationsAreUnique == Spec => []NeverGivenTwice
<1>1. Typed => NeverGivenTwice
  BY DEF Typed, ManagerHolds, NeverGivenTwice
<1> QED
  BY <1>1, TypesInvariant, PTL

(***************************************************************************)
(* The reservation queue                                                   *)
(***************************************************************************)
\* A flow is in the queue from its reservation to the end of it.
SendQueued == send # None /\ (send.stage = "queued" \/ (send.stage = "derive" /\ InQueue))
ReceiveQueued == receive # None /\ receive.stage \in {"queued", "derive"}

\* The queue of the flows that are in it.
QueueOf(sends, receives, queue) ==
    /\ ~sends /\ ~receives => queue = <<>>
    /\ sends /\ ~receives => queue = <<"send">>
    /\ ~sends /\ receives => queue = <<"receive">>
    /\ sends /\ receives => queue \in {<<"send", "receive">>, <<"receive", "send">>}

QueueHolds ==
    /\ QueueOf(SendQueued, ReceiveQueued, reservationQueue)
    /\ SendQueued /\ send.stage = "derive" => Head(reservationQueue) = "send"
    /\ ReceiveQueued /\ receive.stage = "derive" => Head(reservationQueue) = "receive"
    /\ receive # None => addressBusy
    /\ rbf # None => rbf.stage # "queued"

LEMMA ShortQueues ==
    ASSUME NEW a \in {"send", "receive"}, NEW b \in {"send", "receive"}
    PROVE  /\ Append(<<>>, a) = <<a>> /\ Append(<<a>>, b) = <<a, b>>
           /\ Head(<<a>>) = a /\ Head(<<a, b>>) = a
           /\ Tail(<<a>>) = <<>> /\ Tail(<<a, b>>) = <<b>>
<1>1. <<>> \in Seq({"send", "receive"}) /\ <<a>> \in Seq({"send", "receive"})
      /\ <<a, b>> \in Seq({"send", "receive"})
  OBVIOUS
<1>2. Append(<<>>, a) = <<a>>
  BY <1>1
<1>3. Append(<<a>>, b) = <<a, b>>
  <2> DEFINE q == Append(<<a>>, b)
             r == <<a, b>>
  <2>1. q \in Seq({"send", "receive"}) /\ r \in Seq({"send", "receive"})
        /\ Len(q) = Len(r)
    BY <1>1
  <2>2. Len(r) = 2 /\ q[1] = r[1] /\ q[2] = r[2]
    BY <1>1
  <2> HIDE DEF q, r
  <2>3. \A i \in 1 .. Len(q) : q[i] = r[i]
    BY <2>1, <2>2
  <2> QED
    BY <2>1, <2>3, SeqEqual DEF q, r
<1>4. Head(<<a>>) = a /\ Head(<<a, b>>) = a
  BY <1>1
<1>5. Tail(<<a>>) = <<>>
  BY <1>1
<1>6. Tail(<<a, b>>) = <<b>>
  BY <1>1
<1> QED
  BY <1>2, <1>3, <1>4, <1>5, <1>6

LEMMA JoinQueue ==
    ASSUME NEW sends \in BOOLEAN, NEW receives \in BOOLEAN, NEW queue,
           QueueOf(sends, receives, queue)
    PROVE  /\ ~sends => QueueOf(TRUE, receives, Append(queue, "send"))
           /\ ~receives => QueueOf(sends, TRUE, Append(queue, "receive"))
           /\ ~sends /\ receives => Head(Append(queue, "send")) = Head(queue)
           /\ sends /\ ~receives => Head(Append(queue, "receive")) = Head(queue)
BY ShortQueues DEF QueueOf

LEMMA LeaveQueue ==
    ASSUME NEW sends \in BOOLEAN, NEW receives \in BOOLEAN, NEW queue,
           QueueOf(sends, receives, queue)
    PROVE  /\ sends /\ Head(queue) = "send" => QueueOf(FALSE, receives, Tail(queue))
           /\ receives /\ Head(queue) = "receive" => QueueOf(sends, FALSE, Tail(queue))
BY ShortQueues DEF QueueOf

\* What happens to the queue when a flow of the panels goes on.
LEMMA SendOutside ==
    ASSUME QueueHolds, UNCHANGED <<reservationQueue, receive, addressBusy, rbf>>,
           ~SendQueued, ~SendQueued'
    PROVE  QueueHolds'
BY DEF QueueHolds, QueueOf, ReceiveQueued

LEMMA SendJoins ==
    ASSUME QueueHolds, UNCHANGED <<receive, addressBusy, rbf>>, ~SendQueued, SendQueued',
           send'.stage = "queued", reservationQueue' = Append(reservationQueue, "send")
    PROVE  QueueHolds'
<1>1. SendQueued \in BOOLEAN /\ ReceiveQueued \in BOOLEAN
  BY DEF SendQueued, ReceiveQueued
<1>2. /\ QueueOf(TRUE, ReceiveQueued, reservationQueue')
      /\ ReceiveQueued => Head(reservationQueue') = Head(reservationQueue)
  BY <1>1, JoinQueue DEF QueueHolds
<1> QED
  BY <1>2 DEF QueueHolds, QueueOf, ReceiveQueued

LEMMA SendStays ==
    ASSUME QueueHolds, UNCHANGED <<reservationQueue, receive, addressBusy, rbf>>,
           SendQueued, SendQueued', Head(reservationQueue) = "send"
    PROVE  QueueHolds'
BY DEF QueueHolds, QueueOf, ReceiveQueued

LEMMA SendLeaves ==
    ASSUME QueueHolds, UNCHANGED <<receive, addressBusy, rbf>>, SendQueued, ~SendQueued',
           Head(reservationQueue) = "send", reservationQueue' = Tail(reservationQueue)
    PROVE  QueueHolds'
<1>1. SendQueued \in BOOLEAN /\ ReceiveQueued \in BOOLEAN
  BY DEF SendQueued, ReceiveQueued
<1>2. QueueOf(FALSE, ReceiveQueued, reservationQueue')
  BY <1>1, LeaveQueue DEF QueueHolds
<1>3. ~(ReceiveQueued /\ receive.stage = "derive")
  BY DEF QueueHolds
<1> QED
  BY <1>2, <1>3 DEF QueueHolds, QueueOf, ReceiveQueued

\* And when the flow of the receive panel does.
LEMMA ReceiveOutside ==
    ASSUME QueueHolds, UNCHANGED <<reservationQueue, send, rbf>>,
           ~ReceiveQueued, ~ReceiveQueued', receive' # None => addressBusy'
    PROVE  QueueHolds'
BY DEF QueueHolds, QueueOf, SendQueued, InQueue

LEMMA ReceiveJoins ==
    ASSUME QueueHolds, UNCHANGED <<send, rbf>>, ~ReceiveQueued, ReceiveQueued',
           receive'.stage = "queued", addressBusy',
           reservationQueue' = Append(reservationQueue, "receive")
    PROVE  QueueHolds'
<1>1. SendQueued \in BOOLEAN /\ ReceiveQueued \in BOOLEAN
  BY DEF SendQueued, ReceiveQueued
<1>2. /\ QueueOf(SendQueued, TRUE, reservationQueue')
      /\ SendQueued => Head(reservationQueue') = Head(reservationQueue)
  BY <1>1, JoinQueue DEF QueueHolds
<1> QED
  BY <1>2 DEF QueueHolds, QueueOf, SendQueued, InQueue

LEMMA ReceiveStays ==
    ASSUME QueueHolds, UNCHANGED <<reservationQueue, send, rbf>>, ReceiveQueued,
           ReceiveQueued', addressBusy', Head(reservationQueue) = "receive"
    PROVE  QueueHolds'
BY DEF QueueHolds, QueueOf, SendQueued, InQueue

LEMMA ReceiveLeaves ==
    ASSUME QueueHolds, UNCHANGED <<send, rbf>>, ReceiveQueued, ~ReceiveQueued',
           receive' # None => addressBusy', Head(reservationQueue) = "receive",
           reservationQueue' = Tail(reservationQueue)
    PROVE  QueueHolds'
<1>1. SendQueued \in BOOLEAN /\ ReceiveQueued \in BOOLEAN
  BY DEF SendQueued, ReceiveQueued
<1>2. QueueOf(SendQueued, FALSE, reservationQueue')
  BY <1>1, LeaveQueue DEF QueueHolds
<1>3. ~(SendQueued /\ send.stage = "derive")
  BY DEF QueueHolds
<1> QED
  BY <1>2, <1>3 DEF QueueHolds, QueueOf, SendQueued, InQueue

\* The queue and the flows that may be in it are left alone.
LEMMA QueueElsewhere ==
    ASSUME QueueHolds, UNCHANGED <<reservationQueue, send, receive, addressBusy>>,
           rbf' # None => rbf'.stage # "queued"
    PROVE  QueueHolds'
BY DEF QueueHolds, SendQueued, ReceiveQueued, InQueue

(***************************************************************************)
(* Every step keeps the queue                                              *)
(***************************************************************************)
LEMMA QueueClick ==
    ASSUME IInv, QueueHolds, Click
    PROVE  QueueHolds'
<1>1. UNCHANGED <<reservationQueue, receive, addressBusy, rbf>>
  BY DEF Click, Edit, PreviewSend, ApplyMax, SignSend, BroadcastSend, CancelPreparedSend,
     PreviewConsolidation, SignConsolidation, BroadcastNextConsolidation,
     CancelConsolidation, unclicked, manager, receiving
<1>2. send' = send \/ (~sendBusy /\ send'.stage \in {"idle", "submit"})
  <2>1. CASE Edit \/ CancelPreparedSend \/ CancelConsolidation
    BY <2>1 DEF Edit, CancelPreparedSend, CancelConsolidation
  <2>2. CASE PreviewSend \/ ApplyMax \/ SignSend \/ PreviewConsolidation \/ SignConsolidation
    BY <2>2, BeginFacts DEF PreviewSend, ApplyMax, SignSend, PreviewConsolidation,
       SignConsolidation
  <2>3. CASE BroadcastSend
    <3>1. ~sendBusy /\ Begin("broadcast", [tx |-> preparedSend, review |-> sendPreview])
      BY <2>3 DEF BroadcastSend
    <3> QED
      BY <3>1, BeginFacts
  <2>4. CASE BroadcastNextConsolidation
    BY <2>4 DEF BroadcastNextConsolidation
  <2> QED
    BY <2>1, <2>2, <2>3, <2>4 DEF Click
<1>3. CASE send' = send
  BY <1>1, <1>3, QueueElsewhere DEF QueueHolds
<1>4. CASE ~sendBusy /\ send'.stage \in {"idle", "submit"}
  <2>1. send = None
    BY <1>4 DEF IInv, SendHolds
  <2> QED
    BY <1>1, <1>4, <2>1, SendOutside DEF SendQueued
<1> QED
  BY <1>2, <1>3, <1>4

\* A flow that goes on, to an await outside of the queue.
LEMMA OnwardOutside ==
    ASSUME NEW stage, NEW own, NEW known, Onward(stage, own, known),
           stage # "queued", stage = "derive" => send.kind \notin {"broadcast", "plan"}
    PROVE  ~SendQueued'
<1>1. send'.kind = send.kind /\ send'.stage = stage
  BY GotoFacts DEF Onward
<1> QED
  BY <1>1 DEF SendQueued, InQueue

\* And one that enters it, or stays.
LEMMA OnwardInside ==
    ASSUME SendTyped, SendTyped', send # None,
           NEW stage, NEW own, NEW known, Onward(stage, own, known),
           stage = "queued" \/ (stage = "derive" /\ send.kind \in {"broadcast", "plan"})
    PROVE  SendQueued' /\ send'.stage = stage
<1>1. send'.kind = send.kind /\ send'.stage = stage
  BY GotoFacts DEF Onward
<1>2. send' # None
  BY DEF Onward, panel, SendTyped
<1> QED
  BY <1>1, <1>2 DEF SendQueued, InQueue

LEMMA FailOutside == Fail => ~SendQueued'
BY DEF Fail, Finish, SendQueued

\* A flow that has its address is out of the queue.
LEMMA EnsuredOutside ==
    ASSUME SendHolds, PanelHolds, send # None, UNCHANGED receipt,
           NEW own, NEW known, Ensured(own, known) \/ Obtained(own, known),
           send.kind \in {"preview", "max", "broadcast", "plan"},
           send.kind = "broadcast" => send.closure.review # None
    PROVE  ~SendQueued'
<1>1. send' = None \/ send'.stage \in {"submit", "refresh"}
  BY EnsuredKeeps, ObtainedKeeps
<1> QED
  BY <1>1 DEF SendQueued

LEMMA QueueAsked ==
    ASSUME Typed, Typed', IInv, QueueHolds, ChangeChosen \/ ReturnAsked
    PROVE  QueueHolds'
<1>1. /\ send # None /\ send.stage = "idle" /\ UNCHANGED receipt
      /\ UNCHANGED <<receive, addressBusy, rbf>>
  BY DEF ChangeChosen, ReturnAsked, At, afterwards, dialog, receiving
<1>2. ~SendQueued /\ SendHolds /\ PanelHolds /\ SendTyped /\ SendTyped'
  BY <1>1 DEF SendQueued, IInv, Typed
<1>3. CASE ChangeChosen
  <2> DEFINE a == CurrentOrReserve(snapshot, ChangeAccount(send.closure.outputs))
  <2>1. send.kind \in {"preview", "max"} /\ UNCHANGED reservationQueue
    BY <1>3 DEF ChangeChosen, Remember, manager
  <2>2. \/ Fail \/ Ensured(Primary, snapshot) \/ Obtained(a, snapshot)
        \/ Onward("derive", a, snapshot)
    BY <1>3 DEF ChangeChosen
  <2> HIDE DEF a
  <2>3. ~SendQueued'
    BY <1>1, <1>2, <2>1, <2>2, FailOutside, EnsuredOutside, OnwardOutside
  <2> QED
    BY <1>1, <1>2, <2>1, <2>3, SendOutside
<1>4. CASE ReturnAsked
  <2>1. CASE Fail /\ UNCHANGED reservationQueue
    BY <1>1, <1>2, <2>1, FailOutside, SendOutside
  <2>2. CASE /\ send.kind = "broadcast" => send.closure.review # None
             /\ Ensured(Primary, snapshot) /\ UNCHANGED reservationQueue
    <3>1. send.kind \in {"broadcast", "plan"}
      BY <1>4 DEF ReturnAsked
    <3> QED
      BY <1>1, <1>2, <2>2, <3>1, EnsuredOutside, SendOutside
  <2>3. CASE Onward("queued", None, snapshot)
             /\ reservationQueue' = Append(reservationQueue, "send")
    BY <1>1, <1>2, <2>3, OnwardInside, SendJoins
  <2> QED
    BY <1>4, <2>1, <2>2, <2>3 DEF ReturnAsked, manager
<1> QED
  BY <1>3, <1>4

LEMMA QueueReserved ==
    ASSUME Typed, Typed', IInv, QueueHolds, ReturnReserved
    PROVE  QueueHolds'
<1> DEFINE a == ReserveNext(send.known, Priority[1])
<1>1. /\ send # None /\ send.stage = "queued" /\ UNCHANGED receipt
      /\ Head(reservationQueue) = "send"
      /\ UNCHANGED <<receive, addressBusy, rbf>>
      /\ \/ Ensured(a, send.known) /\ reservationQueue' = Tail(reservationQueue)
         \/ Onward("derive", a, send.known) /\ UNCHANGED reservationQueue
  BY DEF ReturnReserved, Turn, At, afterwards, dialog, receiving, Given, manager
<1>2. /\ send.kind \in {"broadcast", "plan"}
      /\ send.kind = "broadcast" => send.closure.review # None
  BY <1>1, ReviewKept DEF MayAwait, IInv
<1>3. SendQueued /\ SendHolds /\ PanelHolds /\ SendTyped /\ SendTyped'
  BY <1>1 DEF SendQueued, IInv, Typed
<1> HIDE DEF a
<1>4. CASE Ensured(a, send.known) /\ reservationQueue' = Tail(reservationQueue)
  <2>1. ~SendQueued'
    BY <1>1, <1>2, <1>3, <1>4, EnsuredOutside
  <2> QED
    BY <1>1, <1>3, <1>4, <2>1, SendLeaves
<1>5. CASE Onward("derive", a, send.known) /\ UNCHANGED reservationQueue
  BY <1>1, <1>2, <1>3, <1>5, OnwardInside, SendStays
<1> QED
  BY <1>1, <1>4, <1>5

LEMMA QueueDerived ==
    ASSUME IInv, QueueHolds, Derived \/ DeriveFails
    PROVE  QueueHolds'
<1>1. /\ send # None /\ send.stage = "derive" /\ UNCHANGED receipt
      /\ UNCHANGED <<receive, addressBusy, rbf>>
      /\ Obtained(send.own, send.known) \/ Fail
      /\ reservationQueue' = IF InQueue THEN Tail(reservationQueue) ELSE reservationQueue
  BY DEF Derived, DeriveFails, At, afterwards, dialog, receiving, Given
<1>2. /\ send.kind \in {"preview", "max", "broadcast", "plan"}
      /\ send.kind = "broadcast" => send.closure.review # None
  BY <1>1, ReviewKept DEF MayAwait, IInv
<1>3. ~SendQueued'
  BY <1>1, <1>2, FailOutside, EnsuredOutside DEF IInv
<1>4. CASE InQueue
  <2>1. SendQueued /\ Head(reservationQueue) = "send"
    BY <1>1, <1>4 DEF SendQueued, QueueHolds
  <2> QED
    BY <1>1, <1>3, <1>4, <2>1, SendLeaves
<1>5. CASE ~InQueue
  BY <1>1, <1>3, <1>5, SendOutside DEF SendQueued
<1> QED
  BY <1>4, <1>5

LEMMA QueueSendStep ==
    ASSUME Typed, Typed', IInv, QueueHolds, SendStep
    PROVE  QueueHolds'
<1>1. CASE Refreshed \/ SignAsked \/ Signed \/ Submit \/ Accepted \/ BroadcastFails
  <2>1. /\ UNCHANGED <<reservationQueue, receive, addressBusy, rbf>>
        /\ send # None /\ send.stage \notin {"queued", "derive"}
    BY <1>1 DEF Refreshed, SignAsked, Signed, Submit, Accepted, BroadcastFails, At, manager,
       afterwards, receiving
  <2>2. ~SendQueued'
    <3>1. CASE Refreshed \/ Signed
      <4>1. send' = None \/ send'.stage = "submit"
        <5>1. CASE Signed
          BY <5>1, SignedKeeps DEF IInv
        <5>2. CASE Refreshed
          <6>1. /\ send.stage = "resume" /\ UNCHANGED receipt
                /\ Ensured(send.own, snapshot) \/ Fail
            BY <5>2 DEF Refreshed, At, afterwards, dialog
          <6>2. /\ send.kind \in {"preview", "max", "broadcast", "plan"}
                /\ send.kind = "broadcast" => send.closure.review # None
            BY <2>1, <6>1, ReviewKept DEF MayAwait, IInv
          <6> QED
            BY <2>1, <6>1, <6>2, EnsuredKeeps, FailKeeps DEF IInv
        <5> QED
          BY <3>1, <5>1, <5>2
      <4> QED
        BY <4>1 DEF SendQueued
    <3>2. CASE SignAsked
      BY <3>2, FailOutside, OnwardOutside DEF SignAsked
    <3>3. CASE Submit
      BY <3>3, FailOutside, OnwardOutside DEF Submit
    <3>4. CASE Accepted \/ BroadcastFails
      BY <3>4, FailOutside DEF Accepted, BroadcastFails, Finish, SendQueued
    <3> QED
      BY <1>1, <3>1, <3>2, <3>3, <3>4
  <2>3. ~SendQueued
    BY <2>1 DEF SendQueued
  <2> QED
    BY <2>1, <2>2, <2>3, SendOutside
<1> QED
  BY <1>1, QueueAsked, QueueReserved, QueueDerived DEF SendStep

LEMMA QueueReceiving ==
    ASSUME Typed, Typed', QueueHolds, ReserveNewAddress \/ ReceiveStep
    PROVE  QueueHolds'
<1>1. UNCHANGED <<send, rbf>>
  BY DEF ReserveNewAddress, ReceiveStep, ReceiveReserved, ReceiveDerived,
     ReceiveDeriveFails, ReceiveRefreshed, meanwhile
<1>2. ASSUME NEW stage, NEW own, ReceiveGoto(stage, own)
      PROVE  receive'.stage = stage
  BY <1>2 DEF ReceiveGoto
<1>0. addressBusy = (receive # None) /\ addressBusy' = (receive' # None)
  BY DEF Typed, ReceiveTyped
<1>3. ASSUME NEW a, Ended(a)
      PROVE  receive' = None /\ ~ReceiveQueued'
  BY <1>3 DEF Ended, ReceiveQueued
<1>4. CASE ReserveNewAddress
  <2>1. /\ ~ReceiveQueued /\ addressBusy'
        /\ reservationQueue' = Append(reservationQueue, "receive")
    BY <1>4 DEF ReserveNewAddress, ReceiveQueued, QueueHolds
  <2>2. ReceiveQueued' /\ receive'.stage = "queued"
    BY <1>0, <1>4 DEF ReserveNewAddress, ReceiveQueued
  <2> QED
    BY <1>1, <2>1, <2>2, ReceiveJoins
<1>5. CASE ReceiveReserved
  <2> DEFINE a == ReserveNext(receive.known, "receive")
  <2>1. /\ ReceiveQueued /\ Head(reservationQueue) = "receive" /\ addressBusy
        /\ \/ Ended(a) /\ reservationQueue' = Tail(reservationQueue)
           \/ ReceiveGoto("derive", a) /\ UNCHANGED <<reservationQueue, addressBusy>>
    BY <1>5 DEF ReceiveReserved, Turn, At, ReceiveQueued, QueueHolds, Given, manager
  <2> HIDE DEF a
  <2>2. CASE Ended(a) /\ reservationQueue' = Tail(reservationQueue)
    BY <1>1, <1>3, <2>1, <2>2, ReceiveLeaves
  <2>3. CASE ReceiveGoto("derive", a) /\ UNCHANGED <<reservationQueue, addressBusy>>
    <3>1. ReceiveQueued'
      BY <1>0, <1>2, <2>1, <2>3 DEF ReceiveQueued
    <3> QED
      BY <1>1, <2>1, <2>3, <3>1, ReceiveStays
  <2> QED
    BY <2>1, <2>2, <2>3
<1>6. CASE ReceiveDerived \/ ReceiveDeriveFails
  <2>1. /\ ReceiveQueued /\ Head(reservationQueue) = "receive" /\ addressBusy
        /\ reservationQueue' = Tail(reservationQueue)
        /\ Ended(issuedAddress) \/ (ReceiveGoto("refresh", receive.own) /\ UNCHANGED addressBusy)
    BY <1>6 DEF ReceiveDerived, ReceiveDeriveFails, At, ReceiveQueued, QueueHolds, Given
  <2>2. ~ReceiveQueued' /\ (receive' # None => addressBusy')
    <3>1. CASE Ended(issuedAddress)
      BY <1>3, <3>1
    <3>2. CASE ReceiveGoto("refresh", receive.own) /\ UNCHANGED addressBusy
      <4>1. receive'.stage = "refresh"
        BY <1>2, <3>2
      <4> QED
        BY <2>1, <3>2, <4>1 DEF ReceiveQueued
    <3> QED
      BY <2>1, <3>1, <3>2
  <2> QED
    BY <1>1, <2>1, <2>2, ReceiveLeaves
<1>7. CASE ReceiveRefreshed
  <2>1. /\ ~ReceiveQueued /\ addressBusy
        /\ \/ UNCHANGED reservationQueue /\ (Ended(issuedAddress) \/ Ended(receive.own))
           \/ /\ receive' = [stage |-> "queued", own |-> None, known |-> snapshot]
              /\ reservationQueue' = Append(reservationQueue, "receive")
              /\ UNCHANGED addressBusy
    BY <1>7 DEF ReceiveRefreshed, At, ReceiveQueued, QueueHolds, manager
  <2>2. CASE UNCHANGED reservationQueue /\ (Ended(issuedAddress) \/ Ended(receive.own))
    <3>1. receive' = None /\ ~ReceiveQueued'
      BY <1>3, <2>2
    <3> QED
      BY <1>1, <2>1, <2>2, <3>1, ReceiveOutside
  <2>3. CASE /\ receive' = [stage |-> "queued", own |-> None, known |-> snapshot]
             /\ reservationQueue' = Append(reservationQueue, "receive")
             /\ UNCHANGED addressBusy
    <3>1. ReceiveQueued' /\ receive'.stage = "queued"
      BY <1>0, <2>1, <2>3 DEF ReceiveQueued
    <3> QED
      BY <1>1, <2>1, <2>3, <3>1, ReceiveJoins
  <2> QED
    BY <2>1, <2>2, <2>3
<1> QED
  BY <1>4, <1>5, <1>6, <1>7 DEF ReceiveStep

LEMMA QueueDialog ==
    ASSUME QueueHolds, DialogClick \/ RbfStep
    PROVE  QueueHolds'
<1>1. UNCHANGED <<reservationQueue, send, receive, addressBusy>>
  BY DEF DialogClick, RbfStep, PrepareRbf, BroadcastRbf, CancelRbf, CloseBroadcastDialog, RbfIdle,
     Quoted, RbfSigned, RbfSubmit, RbfAccepted, RbfFails, indialog, manager, receiving
<1>2. rbf' # None => rbf' = rbf \/ rbf'.stage # "queued"
  BY DEF DialogClick, RbfStep, PrepareRbf, BroadcastRbf, CancelRbf, CloseBroadcastDialog, RbfIdle,
     Quoted, RbfSigned, RbfTaken, RbfSubmit, RbfAccepted, RbfFails, RbfGoto, RbfOver
<1> QED
  BY <1>1, <1>2, QueueElsewhere DEF QueueHolds

\* A refresh is over: neither flow was in the queue while it lasted.
LEMMA QueueRescan ==
    ASSUME QueueHolds, Rescan
    PROVE  QueueHolds'
<1>1. /\ UNCHANGED <<reservationQueue, addressBusy, rbf>>
      /\ \/ send' = send
         \/ At(send, "refresh") /\ Goto("resume", send.own, send.known)
      /\ \/ receive' = receive
         \/ At(receive, "refresh") /\ ReceiveGoto("resume", receive.own)
  BY DEF Rescan, manager
<1>2. /\ SendQueued' = SendQueued
      /\ SendQueued => send' = send
  <2>1. CASE send' = send
    BY <2>1 DEF SendQueued, InQueue
  <2>2. CASE At(send, "refresh") /\ Goto("resume", send.own, send.known)
    <3>1. send'.stage = "resume" /\ send.stage = "refresh"
      BY <2>2, GotoFacts DEF At
    <3> QED
      BY <3>1 DEF SendQueued
  <2> QED
    BY <1>1, <2>1, <2>2
<1>3. /\ ReceiveQueued' = ReceiveQueued
      /\ ReceiveQueued => receive' = receive
      /\ receive' # None => receive # None
  <2>1. CASE receive' = receive
    BY <2>1 DEF ReceiveQueued
  <2>2. CASE At(receive, "refresh") /\ ReceiveGoto("resume", receive.own)
    BY <2>2 DEF ReceiveQueued, At, ReceiveGoto
  <2> QED
    BY <1>1, <2>1, <2>2
<1> QED
  BY <1>1, <1>2, <1>3 DEF QueueHolds

LEMMA QueueKept ==
    ASSUME Typed, Typed', IInv, QueueHolds, [Next]_vars
    PROVE  QueueHolds'
<1>1. CASE UNCHANGED vars \/ ShowPrimary \/ Sync \/ GoStale
           \/ (\E tx \in mempool : Confirm(tx)) \/ Pay
  <2>1. UNCHANGED <<reservationQueue, send, receive, addressBusy, rbf>>
    BY <1>1 DEF vars, ShowPrimary, Sync, GoStale, Confirm, Pay, manager, receiving, meanwhile
  <2> QED
    BY <2>1, QueueElsewhere DEF QueueHolds
<1> QED
  BY <1>1, QueueRescan, QueueClick, QueueSendStep, QueueDialog, QueueReceiving
     DEF Next, Environment

\* Someone goes on: a derivation, a signature, a broadcast or a refresh that is
\* under way; without one everybody who waits for quiet; without these the
\* first of the queue.
LEMMA SomeoneGoesOn ==
    ASSUME QueueHolds
    PROVE  NoGridlock
<1> DEFINE busy == {f \in {<<send, "send">>, <<rbf, "rbf">>, <<receive, "receive">>} : f[1] # None}
<1>1. /\ send # None => <<send, "send">> \in busy
      /\ rbf # None => <<rbf, "rbf">> \in busy
      /\ receive # None => <<receive, "receive">> \in busy
  OBVIOUS
<1>2. busy # {} => send # None \/ rbf # None \/ receive # None
  OBVIOUS
<1> HIDE DEF busy
<1>3. busy = {} => reservationQueue = <<>>
  BY <1>1 DEF QueueHolds, QueueOf, SendQueued, ReceiveQueued
<1>4. ASSUME busy # {}, \A f \in busy : ~GoesOn(f[1], f[2])
      PROVE  FALSE
  <2>1. /\ send # None => ~GoesOn(send, "send")
        /\ rbf # None => ~GoesOn(rbf, "rbf")
        /\ receive # None => ~GoesOn(receive, "receive")
    BY <1>1, <1>4, Zenon
  <2>2. \A flow \in {send, rbf, receive} :
           flow # None => flow.stage \notin {"network", "derive"}
    BY <2>1 DEF GoesOn
  <2>3. \A flow \in {send, rbf, receive} : flow # None => flow.stage # "refresh"
    BY <2>1, <2>2 DEF GoesOn, At
  <2>4. QuietNow
    BY <2>2, <2>3 DEF QuietNow, At
  <2>5. \A flow \in {send, rbf, receive} : flow # None => flow.stage = "queued"
    BY <2>1, <2>3, <2>4 DEF GoesOn
  <2>6. rbf = None
    BY <2>5 DEF QueueHolds
  <2>7. /\ send # None => SendQueued
        /\ receive # None => ReceiveQueued
    BY <2>5 DEF SendQueued, ReceiveQueued
  <2>8. /\ send # None => Head(reservationQueue) # "send" \/ reservationQueue = <<>>
        /\ receive # None => Head(reservationQueue) # "receive" \/ reservationQueue = <<>>
    BY <2>1, <2>5 DEF GoesOn
  <2>9. send # None \/ receive # None
    BY <1>2, <1>4, <2>6
  <2>10. /\ (SendQueued \/ ReceiveQueued) => reservationQueue # <<>>
         /\ reservationQueue # <<>> =>
              \/ SendQueued /\ Head(reservationQueue) = "send"
              \/ ReceiveQueued /\ Head(reservationQueue) = "receive"
    BY ShortQueues DEF QueueHolds, QueueOf
  <2> QED
    BY <2>7, <2>8, <2>9, <2>10 DEF SendQueued, ReceiveQueued
<1>5. busy # {} => \E f \in busy : GoesOn(f[1], f[2])
  BY <1>4
<1> QED
  BY <1>3, <1>5 DEF NoGridlock, busy

\* The queue holds the flows that wait for a reservation and no other.
THEOREM QueueInvariant == Spec => []QueueHolds
<1>1. Init => QueueHolds
  BY DEF Init, QueueHolds, QueueOf, SendQueued, ReceiveQueued
<1>2. Typed /\ Typed' /\ IInv /\ QueueHolds /\ [Next]_vars => QueueHolds'
  BY QueueKept
<1> QED
  BY <1>1, <1>2, FlowInvariant, TypesInvariant, PTL DEF Spec

\* The flows of the panels never all wait for each other
\* (addressManager.ts:141-150, walletNetworkController.ts:430-436).
THEOREM FlowsGoOn == Spec => []NoGridlock
BY QueueInvariant, SomeoneGoesOn, PTL

\* Every variable keeps its type, and each flow is in flight exactly while its
\* panel is busy.
THEOREM TypesHold == Spec => []TypeOK
<1>1. ASSUME Typed, QueueHolds
      PROVE  TypeOK
  <2>1. WorldHolds /\ ManagerHolds /\ FormsHold /\ SendTyped /\ RbfTyped /\ ReceiveTyped
    BY <1>1 DEF Typed
  <2>2. /\ Sent \subseteq Tx /\ Reviewed \subseteq Review /\ PlanReviewed \subseteq PlanReview
        /\ Receipted \subseteq Receipt /\ Entered \subseteq Form /\ Outer \subseteq Address
    BY DEF Sent, Reviewed, PlanReviewed, Receipted, Entered, Outer
  <2>3. /\ reservationQueue \in Seq({"send", "receive"}) /\ Len(reservationQueue) <= 2
    <3>1. reservationQueue \in {<<>>, <<"send">>, <<"receive">>, <<"send", "receive">>, <<"receive", "send">>}
      BY <1>1 DEF QueueHolds, QueueOf
    <3>2. CASE reservationQueue = <<>>
      BY <3>2
    <3>3. ASSUME NEW a \in {"send", "receive"}, reservationQueue = <<a>>
          PROVE  reservationQueue \in Seq({"send", "receive"}) /\ Len(reservationQueue) <= 2
      BY <3>3
    <3>4. ASSUME NEW a \in {"send", "receive"}, NEW b \in {"send", "receive"},
                 reservationQueue = <<a, b>>
          PROVE  reservationQueue \in Seq({"send", "receive"}) /\ Len(reservationQueue) <= 2
      BY <3>4
    <3> QED
      BY <3>1, <3>2, <3>3, <3>4
  <2>4. preparedConsolidation \in Seq(Tx) \cup {None}
    BY <2>1, <2>2 DEF FormsHold
  <2>5. /\ relayed \subseteq Tx /\ paid \subseteq Address /\ snapshot \in Snapshot
        /\ form \in Form /\ sendPreview \in Review \cup {None}
        /\ preparedSend \in Tx \cup {None} /\ consolidationPreview \in PlanReview \cup {None}
        /\ receipt \in Receipt \cup {None} /\ issuedAddress \in Address \cup {None}
    BY <2>1, <2>2 DEF WorldHolds, FormsHold, Known, KnownBy
  <2>6. /\ send # None => send.stage \in Awaited
        /\ rbf # None => rbf.stage \in Awaited
        /\ receive # None => receive.stage \in Awaited
    BY <2>1 DEF SendTyped, RbfTyped, ReceiveTyped, Awaited
  <2>7. /\ IsABag(reserved) /\ BagToSet(reserved) \subseteq Address
    BY <2>1 DEF ManagerHolds
  <2>8. /\ hd \in BOOLEAN /\ ready \in BOOLEAN /\ aside \in 0 .. MaxAside
        /\ mempool \subseteq relayed /\ Cardinality(relayed) <= MaxTxs /\ buried \subseteq Coin
        /\ issued \in [Chain -> -1 .. MaxIndex]
        /\ issuedIndices \in [Chain -> SUBSET (0 .. MaxIndex)]
        /\ broadcasted \subseteq relayed /\ rbfQuote \in Quote \cup {None}
    BY <2>1 DEF WorldHolds, ManagerHolds, FormsHold
  <2>9. sendBusy = (send # None) /\ rbfBusy = (rbf # None) /\ addressBusy = (receive # None)
    BY <2>1 DEF SendTyped, RbfTyped, ReceiveTyped
  <2> QED
    BY <2>3, <2>4, <2>5, <2>6, <2>7, <2>8, <2>9 DEF TypeOK
<1> QED
  BY <1>1, TypesInvariant, QueueInvariant, PTL

(***************************************************************************)
(* What the scans cover                                                    *)
(***************************************************************************)
\* The snapshot is one that a flow may go on with, or will be: the controller
\* makes it ready again when a broadcast under way is taken.
Trusted == ready \/ At(send, "network") \/ At(rbf, "network")

ScanHolds ==
    /\ ShownIsScanned
    /\ Trusted =>
         /\ At(send, "resume") => Covered(snapshot, send.own)
         /\ At(receive, "resume") => Covered(snapshot, receive.own)

LEMMA CoveredFurther ==
    ASSUME NEW s \in Snapshot, NEW t \in Snapshot, \A c \in Chain : s.reach[c] <= t.reach[c],
           NEW a \in Address, Covered(s, a)
    PROVE  Covered(t, a)
<1>1. a.chain \in Chain /\ a.index \in Int
  BY Addresses
<1>2. s.reach[a.chain] \in Int /\ t.reach[a.chain] \in Int
  BY <1>1, SnapshotFields
<1> QED
  BY <1>1, <1>2 DEF Covered

\* What is known of the addresses that scans are to cover.
LEMMA ToCover ==
    ASSUME Typed
    PROVE  /\ snapshot \in Snapshot /\ WorldHolds /\ ManagerHolds
           /\ issuedAddress # None => issuedAddress \in Address
           /\ At(send, "resume") =>
                /\ send.own \in Address /\ send.own.chain \in Chain \ {"primary"}
                /\ send.own.index \in issuedIndices[send.own.chain]
           /\ At(receive, "resume") =>
                /\ receive.own \in Address /\ receive.own.chain \in Chain \ {"primary"}
                /\ receive.own.index \in issuedIndices[receive.own.chain]
<1>1. snapshot \in Snapshot /\ WorldHolds /\ ManagerHolds
  BY DEF Typed, WorldHolds, Known, KnownBy
<1>2. issuedAddress # None => issuedAddress \in Address
  BY Addresses DEF Typed, FormsHold
<1>3. At(send, "resume") =>
        /\ send.own \in Address /\ send.own.chain \in Chain \ {"primary"}
        /\ send.own.index \in issuedIndices[send.own.chain]
  BY Addresses, Chains DEF Typed, SendTyped, ObtainedHolds, At
<1>4. At(receive, "resume") =>
        /\ receive.own \in Address /\ receive.own.chain \in Chain \ {"primary"}
        /\ receive.own.index \in issuedIndices[receive.own.chain]
  <2>1. "receive" # "primary"
    OBVIOUS
  <2> QED
    BY <2>1, Addresses, Chains DEF Typed, ReceiveTyped, At
<1> QED
  BY <1>1, <1>2, <1>3, <1>4

\* A step that scans nothing and lets no flow resume.
LEMMA CoverStays ==
    ASSUME Typed, Typed', ScanHolds, Grows, Trusted' => Trusted,
           \/ issuedAddress' = issuedAddress
           \/ issuedAddress' # None => Covered(snapshot', issuedAddress'),
           At(send, "resume")' => send' = send,
           At(receive, "resume")' => receive' = receive
    PROVE  ScanHolds'
<1>1. \A a \in Address : Covered(snapshot, a) => Covered(snapshot', a)
  <2>1. snapshot \in Snapshot /\ snapshot' \in Snapshot
    BY ToCover DEF Typed, WorldHolds, Known, KnownBy
  <2>2. \A c \in Chain : snapshot.reach[c] <= snapshot'.reach[c]
    BY DEF Grows
  <2> QED
    BY <2>1, <2>2, CoveredFurther
<1>2. ShownIsScanned'
  BY <1>1, ToCover DEF ScanHolds, ShownIsScanned
<1>3. ASSUME Trusted', At(send, "resume")'
      PROVE  Covered(snapshot', send'.own)
  <2>1. Trusted /\ send' = send /\ At(send, "resume")
    BY <1>3 DEF At
  <2> QED
    BY <1>1, <2>1, ToCover DEF ScanHolds
<1>4. ASSUME Trusted', At(receive, "resume")'
      PROVE  Covered(snapshot', receive'.own)
  <2>1. Trusted /\ receive' = receive /\ At(receive, "resume")
    BY <1>4 DEF At
  <2> QED
    BY <1>1, <2>1, ToCover DEF ScanHolds
<1> QED
  BY <1>2, <1>3, <1>4 DEF ScanHolds

\* What a step leaves of the world.
LEMMA SameWorld ==
    ASSUME Typed, UNCHANGED snapshot, relayed \subseteq relayed', paid \subseteq paid'
    PROVE  Grows
BY ToCover, SnapshotFields DEF Grows

LEMMA CoverEnvironment ==
    ASSUME Typed, Typed', IInv, ScanHolds, Environment
    PROVE  ScanHolds'
<1>1. CASE Sync
  <2>1. PICK full \in BOOLEAN : (full \/ ready) /\ snapshot' = Scan(full)
    BY <1>1 DEF Sync
  <2>2. UNCHANGED <<relayed, paid, issuedAddress, send, receive>>
    BY <1>1 DEF Sync, network, receiving
  <2>3. /\ Grows
        /\ full => \A c \in Chain \ {"primary"} : \A i \in issuedIndices[c] : i <= snapshot'.reach[c]
    <3> DEFINE s == Scan(full)
    <3>1. WorldHolds /\ ManagerHolds
      BY ToCover
    <3>2. /\ KnownBy(s, paid \cup Paid(relayed), s.reach) /\ s.pending \subseteq relayed
          /\ s.used = paid \cup Paid(relayed)
          /\ \A c \in Chain : snapshot.reach[c] <= s.reach[c]
          /\ full => \A c \in Chain \ {"primary"} : \A i \in issuedIndices[c] : i <= s.reach[c]
      BY <3>1, ScanFacts
    <3>3. snapshot' = s
      BY <2>1
    <3> HIDE DEF s
    <3> QED
      BY <2>2, <3>2, <3>3 DEF Grows
  <2>4. CASE full
    <3>1. ShownIsScanned'
      <4>1. issuedAddress # None => Covered(snapshot', issuedAddress)
        BY <2>3, ToCover, CoveredFurther DEF ScanHolds, ShownIsScanned, Grows, Typed, WorldHolds, Known, KnownBy
      <4> QED
        BY <2>2, <4>1 DEF ShownIsScanned
    <3>2. /\ At(send, "resume") => Covered(snapshot', send.own)
          /\ At(receive, "resume") => Covered(snapshot', receive.own)
      BY <2>3, <2>4, ToCover DEF Covered
    <3> QED
      BY <2>2, <3>1, <3>2 DEF ScanHolds, At
  <2>5. CASE ready
    BY <2>2, <2>3, <2>5, CoverStays DEF Trusted
  <2> QED
    BY <2>1, <2>4, <2>5
<1>2. CASE Rescan
  <2>1. /\ ~At(send, "network") /\ ~At(rbf, "network") /\ UNCHANGED <<relayed, paid, issuedAddress, rbf>>
        /\ \/ ready' = TRUE /\ snapshot' = Scan(TRUE)
           \/ ready' = FALSE /\ UNCHANGED snapshot
    BY <1>2 DEF Rescan, network
  <2>2. /\ At(send, "resume")' =>
             send' = send \/ (At(send, "refresh") /\ send'.own = send.own)
        /\ At(receive, "resume")' =>
             receive' = receive \/ (At(receive, "refresh") /\ receive'.own = receive.own)
        /\ ~At(send, "network")' /\ ~At(rbf, "network")'
    BY <1>2, <2>1 DEF Rescan, Goto, ReceiveGoto, At
  <2>3. CASE ready' = TRUE /\ snapshot' = Scan(TRUE)
    <3> DEFINE s == Scan(TRUE)
    <3>1. WorldHolds /\ ManagerHolds /\ TRUE \in BOOLEAN
      BY ToCover
    <3>2. /\ KnownBy(s, paid \cup Paid(relayed), s.reach) /\ s.pending \subseteq relayed
          /\ s.used = paid \cup Paid(relayed)
          /\ \A c \in Chain : snapshot.reach[c] <= s.reach[c]
          /\ TRUE => \A c \in Chain \ {"primary"} : \A i \in issuedIndices[c] : i <= s.reach[c]
      BY <3>1, ScanFacts
    <3>3. snapshot' = s
      BY <2>3
    <3> HIDE DEF s
    <3>4. \A c \in Chain \ {"primary"} : \A i \in issuedIndices'[c] : i <= snapshot'.reach[c]
      BY <1>2, <3>2, <3>3 DEF Rescan, manager
    <3>5. ShownIsScanned'
      <4>1. snapshot \in Snapshot /\ snapshot' \in Snapshot
        BY ToCover DEF Typed, WorldHolds, Known, KnownBy
      <4>2. issuedAddress # None => Covered(snapshot', issuedAddress)
        BY <3>2, <3>3, <4>1, ToCover, CoveredFurther DEF ScanHolds, ShownIsScanned
      <4> QED
        BY <2>1, <4>2 DEF ShownIsScanned
    <3>6. /\ At(send, "resume")' =>
               /\ send'.own.chain \in Chain \ {"primary"}
               /\ send'.own.index \in issuedIndices'[send'.own.chain]
          /\ At(receive, "resume")' =>
               /\ receive'.own.chain \in Chain \ {"primary"}
               /\ receive'.own.index \in issuedIndices'[receive'.own.chain]
      <4>1. At(send, "resume")' =>
               /\ send'.own.chain \in Chain \ {"primary"}
               /\ send'.own.index \in issuedIndices'[send'.own.chain]
        BY Addresses, Chains DEF Typed, SendTyped, ObtainedHolds, At
      <4>2. At(receive, "resume")' =>
               /\ receive'.own.chain \in Chain \ {"primary"}
               /\ receive'.own.index \in issuedIndices'[receive'.own.chain]
        <5>1. "receive" # "primary"
          OBVIOUS
        <5> QED
          BY <5>1, Addresses, Chains DEF Typed, ReceiveTyped, At
      <4> QED
        BY <4>1, <4>2
    <3> QED
      BY <3>4, <3>5, <3>6 DEF ScanHolds, Covered
  <2>4. CASE ready' = FALSE /\ UNCHANGED snapshot
    <3>1. ~Trusted'
      BY <2>2, <2>4 DEF Trusted
    <3>2. ShownIsScanned'
      BY <2>1, <2>4 DEF ScanHolds, ShownIsScanned
    <3> QED
      BY <3>1, <3>2 DEF ScanHolds
  <2> QED
    BY <2>1, <2>3, <2>4
<1>3. CASE GoStale \/ (\E tx \in mempool : Confirm(tx)) \/ Pay
  <2>1. /\ UNCHANGED <<snapshot, relayed, issuedAddress, send, receive, rbf>> /\ paid \subseteq paid'
        /\ ready' => ready
    BY <1>3 DEF GoStale, Confirm, Pay, network, receiving, controller
  <2>2. Grows
    BY <2>1, SameWorld
  <2>3. Trusted' => Trusted
    BY <2>1 DEF Trusted, At
  <2> QED
    BY <2>1, <2>2, <2>3, CoverStays
<1> QED
  BY <1>1, <1>2, <1>3 DEF Environment

LEMMA CoverClick ==
    ASSUME Typed, Typed', ScanHolds, Click
    PROVE  ScanHolds'
<1>1. UNCHANGED <<snapshot, ready, relayed, paid, issuedAddress, receive, rbf>>
  BY DEF Click, Edit, PreviewSend, ApplyMax, SignSend, BroadcastSend, CancelPreparedSend,
     PreviewConsolidation, SignConsolidation, BroadcastNextConsolidation,
     CancelConsolidation, unclicked, network, controller, receiving
<1>2. send' = send \/ send'.stage \in {"idle", "submit"}
  <2>1. CASE Edit \/ CancelPreparedSend \/ CancelConsolidation
    BY <2>1 DEF Edit, CancelPreparedSend, CancelConsolidation
  <2>2. CASE PreviewSend \/ ApplyMax \/ SignSend \/ PreviewConsolidation \/ SignConsolidation
    BY <2>2, BeginFacts DEF PreviewSend, ApplyMax, SignSend, PreviewConsolidation,
       SignConsolidation
  <2>3. CASE BroadcastSend
    <3>1. Begin("broadcast", [tx |-> preparedSend, review |-> sendPreview])
      BY <2>3 DEF BroadcastSend
    <3> QED
      BY <3>1, BeginFacts
  <2>4. CASE BroadcastNextConsolidation
    BY <2>4 DEF BroadcastNextConsolidation
  <2> QED
    BY <2>1, <2>2, <2>3, <2>4 DEF Click
<1>3. Grows
  BY <1>1, SameWorld
<1>4. (Trusted' => Trusted) /\ (At(send, "resume")' => send' = send)
  BY <1>1, <1>2 DEF Trusted, At
<1> QED
  BY <1>1, <1>3, <1>4, CoverStays

\* Where the steps of a panel's flow lead, but for the last ones of a broadcast.
LEMMA WhereTo ==
    ASSUME IInv, SendStep
    PROVE  \/ send' = None
           \/ send'.stage \in {"queued", "derive", "refresh", "signer", "submit"}
           \/ (Submit /\ send'.stage = "network")
<1>0. SendHolds /\ PanelHolds
  BY DEF IInv
<1>1. ASSUME NEW own, NEW known, send # None, UNCHANGED receipt,
             Ensured(own, known) \/ Obtained(own, known),
             send.kind \in {"preview", "max", "broadcast", "plan"},
             send.kind = "broadcast" => send.closure.review # None
      PROVE  send' = None \/ send'.stage \in {"submit", "refresh"}
  BY <1>0, <1>1, EnsuredKeeps, ObtainedKeeps
<1>2. ASSUME NEW stage, NEW own, NEW known, Onward(stage, own, known)
      PROVE  send'.stage = stage
  BY <1>2, GotoFacts DEF Onward
<1>3. Fail \/ Finish => send' = None
  BY DEF Fail, Finish
<1>4. CASE ChangeChosen \/ ReturnAsked
  <2>1. send # None /\ UNCHANGED receipt /\ send.kind \in {"preview", "max", "broadcast", "plan"}
    BY <1>4 DEF ChangeChosen, ReturnAsked, At, afterwards, dialog
  <2>2. \/ Fail \/ (send.kind = "broadcast" => send.closure.review # None)
        \/ ChangeChosen
    BY <1>4 DEF ReturnAsked
  <2>3. CASE ChangeChosen
    <3> DEFINE a == CurrentOrReserve(snapshot, ChangeAccount(send.closure.outputs))
    <3>1. /\ send.kind \in {"preview", "max"}
          /\ \/ Fail \/ Ensured(Primary, snapshot) \/ Obtained(a, snapshot)
             \/ Onward("derive", a, snapshot)
      BY <2>3 DEF ChangeChosen
    <3> HIDE DEF a
    <3> QED
      BY <1>1, <1>2, <1>3, <2>1, <3>1
  <2>4. CASE ReturnAsked
    <3>1. Fail \/ Ensured(Primary, snapshot) \/ Onward("queued", None, snapshot)
      BY <2>4 DEF ReturnAsked
    <3>2. Fail \/ (send.kind = "broadcast" => send.closure.review # None)
      BY <2>4 DEF ReturnAsked
    <3> QED
      BY <1>1, <1>2, <1>3, <2>1, <3>1, <3>2
  <2> QED
    BY <1>4, <2>3, <2>4
<1>5. CASE ReturnReserved \/ Derived \/ Refreshed \/ DeriveFails
  <2> DEFINE a == ReserveNext(send.known, Priority[1])
  <2>1. /\ send # None /\ UNCHANGED receipt /\ send.stage \in {"queued", "derive", "resume"}
        /\ \/ Fail \/ Ensured(a, send.known) \/ Onward("derive", a, send.known)
           \/ Obtained(send.own, send.known) \/ Ensured(send.own, snapshot)
    BY <1>5 DEF ReturnReserved, Derived, Refreshed, DeriveFails, Turn, At, afterwards, dialog
  <2>2. /\ send.kind \in {"preview", "max", "broadcast", "plan"}
        /\ send.kind = "broadcast" => send.closure.review # None
    BY <1>0, <2>1, ReviewKept DEF MayAwait
  <2> HIDE DEF a
  <2> QED
    BY <1>1, <1>2, <1>3, <2>1, <2>2
<1>6. CASE SignAsked \/ Submit
  BY <1>2, <1>3, <1>6 DEF SignAsked, Submit
<1>7. CASE Signed \/ Accepted \/ BroadcastFails
  <2>1. CASE Signed
    BY <1>0, <2>1, SignedKeeps
  <2>2. CASE Accepted \/ BroadcastFails
    BY <1>3, <2>2 DEF Accepted, BroadcastFails
  <2> QED
    BY <1>7, <2>1, <2>2
<1> QED
  BY <1>4, <1>5, <1>6, <1>7 DEF SendStep

LEMMA CoverSendStep ==
    ASSUME Typed, Typed', IInv, ScanHolds, SendStep
    PROVE  ScanHolds'
<1>1. UNCHANGED <<issuedAddress, receive, rbf>>
  BY DEF SendStep, ChangeChosen, ReturnAsked, ReturnReserved, Derived, DeriveFails, Refreshed,
     SignAsked, Signed, Submit, Accepted, BroadcastFails, afterwards, receiving
<1>2. At(send, "resume")' => send' = send
  BY WhereTo DEF At
<1>3. CASE Accepted
  <2>1. At(send, "network") /\ snapshot' = Projected(send.closure.tx, None)
    BY <1>3 DEF Accepted
  <2>2. Grows
    <3>1. WorldHolds /\ send.closure.tx \in Sent /\ Cardinality(relayed) < MaxTxs
      BY <2>1, SendingFacts DEF IInv
    <3>2. /\ Relay(send.closure.tx) /\ UNCHANGED <<hd, aside>>
          /\ snapshot' = Projected(send.closure.tx, None) /\ ready' = TRUE
      BY <1>3 DEF Accepted
    <3> QED
      BY <3>1, <3>2, WorldRelay
  <2> QED
    BY <1>1, <1>2, <2>1, <2>2, CoverStays DEF Trusted
<1>4. CASE BroadcastFails
  <2>1. /\ UNCHANGED <<snapshot, ready>> /\ send' = None
        /\ UNCHANGED network \/ Relay(send.closure.tx)
    BY <1>4 DEF BroadcastFails, Fail, Finish, controller
  <2>2. relayed \subseteq relayed' /\ paid \subseteq paid'
    BY <2>1 DEF Relay, network
  <2>3. Grows
    BY <2>1, <2>2, SameWorld
  <2>4. Trusted' => Trusted
    BY <1>1, <2>1 DEF Trusted, At
  <2> QED
    BY <1>1, <1>2, <2>3, <2>4, CoverStays
<1>5. CASE ~Accepted /\ ~BroadcastFails
  <2>1. UNCHANGED <<snapshot, ready, relayed, paid>>
    BY <1>5 DEF SendStep, ChangeChosen, ReturnAsked, ReturnReserved, Derived, DeriveFails, Refreshed,
       SignAsked, Signed, Submit, afterwards, controller, network
  <2>2. Grows
    BY <2>1, SameWorld
  <2>3. At(send, "network")' => ready
    <3>1. ASSUME Submit, send'.stage = "network", send' # None
          PROVE  ready
      <4>1. Fail => send' = None
        BY DEF Fail, Finish
      <4> QED
        BY <3>1, <4>1 DEF Submit, Acceptable
    <3> QED
      BY <3>1, WhereTo DEF At
  <2>4. Trusted' => Trusted
    BY <1>1, <2>1, <2>3 DEF Trusted, At
  <2> QED
    BY <1>1, <1>2, <2>2, <2>4, CoverStays
<1> QED
  BY <1>3, <1>4, <1>5

LEMMA CoverDialog ==
    ASSUME Typed, Typed', IInv, ScanHolds, DialogClick \/ RbfStep
    PROVE  ScanHolds'
<1>1. UNCHANGED <<issuedAddress, receive, send>>
  BY DEF DialogClick, RbfStep, PrepareRbf, BroadcastRbf, CancelRbf, CloseBroadcastDialog, RbfIdle,
     Quoted, RbfSigned, RbfSubmit, RbfAccepted, RbfFails, indialog, receiving
<1>2. CASE RbfAccepted
  <2>1. /\ rbf # None /\ rbf.stage = "network" /\ Relay(rbf.tx) /\ UNCHANGED <<hd, aside>>
        /\ snapshot' = Projected(rbf.tx, rbf.closure.tx) /\ ready' = TRUE
    BY <1>2 DEF RbfAccepted, At, indialog
  <2>2. WorldHolds /\ rbf.tx \in Sent /\ Cardinality(relayed) < MaxTxs
    BY <2>1, ReplacingFacts
  <2>3. Grows
    BY <2>1, <2>2, WorldRelay
  <2> QED
    BY <1>1, <2>1, <2>3, CoverStays DEF Trusted, At
<1>3. CASE RbfFails
  <2>1. /\ UNCHANGED <<snapshot, ready>> /\ rbf' = None
        /\ UNCHANGED network \/ Relay(rbf.tx)
    BY <1>3 DEF RbfFails, RbfOver, controller
  <2>2. relayed \subseteq relayed' /\ paid \subseteq paid'
    BY <2>1 DEF Relay, network
  <2>3. Grows
    BY <2>1, <2>2, SameWorld
  <2>4. Trusted' => Trusted
    BY <1>1, <2>1 DEF Trusted, At
  <2> QED
    BY <1>1, <2>3, <2>4, CoverStays
<1>4. CASE ~RbfAccepted /\ ~RbfFails
  <2>1. UNCHANGED <<snapshot, ready, relayed, paid>>
    BY <1>4 DEF DialogClick, RbfStep, PrepareRbf, BroadcastRbf, CancelRbf, CloseBroadcastDialog,
       RbfIdle, Quoted, RbfSigned, RbfSubmit, controller, network
  <2>2. Grows
    BY <2>1, SameWorld
  <2>3. rbf' = rbf \/ rbf' = None \/ rbf'.stage # "network" \/ ready
    BY <1>4 DEF DialogClick, RbfStep, PrepareRbf, BroadcastRbf, CancelRbf, CloseBroadcastDialog,
       RbfIdle, Quoted, RbfSigned, RbfTaken, RbfSubmit, RbfGoto, RbfOver, Replaceable
  <2>4. Trusted' => Trusted
    BY <1>1, <2>1, <2>3 DEF Trusted, At
  <2> QED
    BY <1>1, <2>2, <2>4, CoverStays
<1> QED
  BY <1>2, <1>3, <1>4

LEMMA CoverReceiving ==
    ASSUME Typed, Typed', ScanHolds, ShowPrimary \/ ReserveNewAddress \/ ReceiveStep
    PROVE  ScanHolds'
<1>1. UNCHANGED <<snapshot, ready, relayed, paid, send, rbf>>
  BY DEF ShowPrimary, ReserveNewAddress, ReceiveStep, ReceiveReserved, ReceiveDerived,
     ReceiveDeriveFails, ReceiveRefreshed, meanwhile, controller, network
<1>2. Grows /\ (Trusted' => Trusted)
  BY <1>1, SameWorld DEF Trusted, At
<1>3. At(receive, "resume")' => receive' = receive
  BY DEF ShowPrimary, ReserveNewAddress, ReceiveStep, ReceiveReserved, ReceiveDerived,
     ReceiveDeriveFails, ReceiveRefreshed, ReceiveGoto, Ended, At
<1>4. issuedAddress' # issuedAddress => Covered(snapshot, issuedAddress')
  <2>1. CASE ShowPrimary
    <3>1. /\ issuedAddress = None
          /\ issuedAddress' = [chain |-> "receive", index |-> Larger(issued["receive"], 0)]
      BY <2>1 DEF ShowPrimary
    <3>2. issued["receive"] = -1
      BY <3>1, ToCover DEF ManagerHolds
    <3>3. issuedAddress'.chain = "receive" /\ issuedAddress'.index = 0
      BY <3>1, <3>2 DEF Larger
    <3>4. snapshot.reach["receive"] \in 0 .. MaxIndex + Gap
      BY ToCover, Chains, SnapshotFields
    <3> QED
      BY <3>3, <3>4, FlowAssumption DEF Covered
  <2>2. CASE ReceiveReserved
    <3> DEFINE a == ReserveNext(receive.known, "receive")
    <3>1. /\ receive # None /\ receive.stage = "queued"
          /\ issuedAddress' = issuedAddress \/ (issuedAddress' = a /\ Covered(receive.known, a))
      BY <2>2 DEF ReceiveReserved, Turn, At, Ended
    <3>2. /\ WorldHolds /\ ManagerHolds /\ Known(receive.known) /\ RoomLeft(issuedIndices["receive"])
      BY <3>1, ReservingFacts DEF ReceiveTyped
    <3>3. a \in Outer /\ a.index \notin issuedIndices["receive"] /\ a \notin receive.known.used
      BY <3>2, NextReceiveFacts
    <3> HIDE DEF a
    <3>4. a \in Address /\ receive.known \in Snapshot
          /\ \A c \in Chain : receive.known.reach[c] <= snapshot.reach[c]
      BY <3>2, <3>3, Addresses DEF Known, KnownBy
    <3> QED
      BY <3>1, <3>4, ToCover, CoveredFurther
  <2>3. CASE ReceiveRefreshed
    BY <2>3 DEF ReceiveRefreshed, Ended
  <2>4. CASE ReserveNewAddress \/ ReceiveDerived \/ ReceiveDeriveFails
    BY <2>4 DEF ReserveNewAddress, ReceiveDerived, ReceiveDeriveFails, Ended
  <2> QED
    BY <2>1, <2>2, <2>3, <2>4 DEF ReceiveStep
<1> QED
  BY <1>1, <1>2, <1>3, <1>4, CoverStays

\* Scans cover what is shown to be paid, and what flows asked them to cover.
THEOREM ScanInvariant == Spec => []ScanHolds
<1>1. Init => ScanHolds
  BY DEF Init, ScanHolds, ShownIsScanned, At
<1>2. Typed /\ Typed' /\ IInv /\ ScanHolds /\ [Next]_vars => ScanHolds'
  <2> SUFFICES ASSUME Typed, Typed', IInv, ScanHolds, [Next]_vars PROVE ScanHolds'
    OBVIOUS
  <2>1. CASE UNCHANGED vars
    <3>1. UNCHANGED <<snapshot, ready, relayed, paid, issuedAddress, send, rbf, receive>>
      BY <2>1 DEF vars, controller, network, receiving
    <3>2. Grows
      BY <3>1, SameWorld
    <3> QED
      BY <3>1, <3>2, CoverStays DEF Trusted, At
  <2> QED
    BY <2>1, CoverEnvironment, CoverClick, CoverSendStep, CoverDialog, CoverReceiving DEF Next
<1> QED
  BY <1>1, <1>2, FlowInvariant, TypesInvariant, PTL DEF Spec

\* An address shown to be paid is one the snapshot covers
\* (wallet-dashboard.tsx:620-686).
THEOREM WhatIsShownIsWatched == Spec => []ShownIsScanned
<1>1. ScanHolds => ShownIsScanned
  BY DEF ScanHolds
<1> QED
  BY <1>1, ScanInvariant, PTL

\* A refresh covers the address it was asked for (addressManager.ts:105-115,
\* walletNetworkController.ts:580-592).
THEOREM RefreshesCover == Spec => []RefreshCovers
<1>1. ScanHolds => RefreshCovers
  BY DEF ScanHolds, RefreshCovers, Trusted
<1> QED
  BY <1>1, ScanInvariant, PTL

(***************************************************************************)
(* The quote of a replacement, and the maximum                             *)
(***************************************************************************)
LEMMA QuoteKept ==
    ASSUME Typed, IInv, QuoteFitsReceipt, [Next]_vars
    PROVE  QuoteFitsReceipt'
<1>1. CASE UNCHANGED <<receipt, rbfQuote>>
  BY <1>1 DEF QuoteFitsReceipt
<1>2. CASE rbfQuote' = None
  BY <1>2 DEF QuoteFitsReceipt
<1>3. CASE Quoted
  <2>1. rbf # None /\ UNCHANGED receipt
    BY <1>3 DEF Quoted, At
  <2>2. /\ receipt # None /\ receipt.rbf # None /\ rbf.closure = receipt /\ receipt.tx \in Tx
    BY <2>1, ReplacingFacts DEF IInv, RbfHolds
  <2>3. PICK rate \in HighPriorityRate :
          rbfQuote' = IF receipt.tx.inputs \subseteq receipt.rbf.coins
                      THEN RbfQuote(receipt.tx, rate) ELSE None
    BY <1>3, <2>2 DEF Quoted
  <2>4. rbfQuote' = None \/ /\ rbfQuote'.output + rbfQuote'.fee = Total(receipt.tx.inputs)
                            /\ rbfQuote'.fee > receipt.tx.fee
    BY <2>2, <2>3, QuoteTyped
  <2> QED
    BY <2>1, <2>2, <2>4 DEF QuoteFitsReceipt
<1>4. CASE UNCHANGED vars
  BY <1>1, <1>4 DEF vars, dialog
<1>5. CASE Environment
  BY <1>1, <1>5 DEF Environment, Sync, Rescan, GoStale, Confirm, Pay, dialog
<1>6. CASE Click
  BY <1>1, <1>6 DEF Click, Edit, PreviewSend, ApplyMax, SignSend, BroadcastSend, CancelPreparedSend,
     PreviewConsolidation, SignConsolidation, BroadcastNextConsolidation, CancelConsolidation, dialog
<1>7. CASE SendStep
  BY <1>1, <1>2, <1>7 DEF SendStep, ChangeChosen, ReturnAsked, ReturnReserved, Derived, DeriveFails,
     Refreshed, SignAsked, Signed, Submit, Accepted, BroadcastFails, afterwards, dialog
<1>8. CASE DialogClick \/ (RbfStep /\ ~Quoted)
  BY <1>1, <1>2, <1>8 DEF DialogClick, RbfStep, PrepareRbf, BroadcastRbf, CancelRbf,
     CloseBroadcastDialog, RbfIdle, RbfSigned, RbfSubmit, RbfAccepted, RbfFails
<1>9. CASE ShowPrimary \/ ReserveNewAddress \/ ReceiveStep
  BY <1>1, <1>9 DEF ShowPrimary, ReserveNewAddress, ReceiveStep, ReceiveReserved, ReceiveDerived,
     ReceiveDeriveFails, ReceiveRefreshed, meanwhile, dialog
<1> QED
  BY <1>3, <1>4, <1>5, <1>6, <1>7, <1>8, <1>9 DEF Next

\* The quote on the dialog is for the transaction on the dialog: it returns what
\* the inputs hold but for the fee, which outbids the one paid
\* (wallet-dashboard.tsx:283-287, 1094-1141, transparentSend.ts:1019-1072).
THEOREM QuotesFit == Spec => []QuoteFitsReceipt
<1>1. Init => QuoteFitsReceipt
  BY DEF Init, QuoteFitsReceipt
<1>2. Typed /\ IInv /\ QuoteFitsReceipt /\ [Next]_vars => QuoteFitsReceipt'
  BY QuoteKept
<1> QED
  BY <1>1, <1>2, FlowInvariant, TypesInvariant, PTL DEF Spec

\* Only the flow of the maximum changes the form while it waits and then ends.
LEMMA WhoMaximises ==
    ASSUME IInv, Next, At(send, "idle"), send.kind = "max", send' = None, form' # form
    PROVE  ChangeChosen
<1>1. send # None /\ send.stage = "idle" /\ send.kind = "max"
  BY DEF At
<1>2. ASSUME Environment \/ DialogClick \/ RbfStep \/ ShowPrimary \/ ReserveNewAddress \/ ReceiveStep
      PROVE  FALSE
  <2>1. form' = form
    BY <1>2 DEF Environment, Sync, Rescan, GoStale, Confirm, Pay, DialogClick, RbfStep,
       PrepareRbf, BroadcastRbf, CancelRbf, CloseBroadcastDialog, RbfIdle, Quoted, RbfSigned,
       RbfSubmit, RbfAccepted, RbfFails, ShowPrimary, ReserveNewAddress, ReceiveStep, ReceiveReserved,
       ReceiveDerived, ReceiveDeriveFails, ReceiveRefreshed, indialog, meanwhile, panel
  <2> QED
    BY <2>1
<1>3. ASSUME Click
      PROVE  FALSE
  <2>1. form' = form \/ send' = send
    BY <1>3 DEF Click, Edit, PreviewSend, ApplyMax, SignSend, BroadcastSend, CancelPreparedSend,
       PreviewConsolidation, SignConsolidation, BroadcastNextConsolidation, CancelConsolidation
  <2> QED
    BY <1>1, <2>1
<1> QED
  BY <1>1, <1>2, <1>3 DEF Next, SendStep, ReturnAsked, ReturnReserved, Derived, DeriveFails,
     Refreshed, SignAsked, Signed, Submit, Accepted, BroadcastFails, Turn, At

\* What the form is given at the end of the flow.
LEMMA MaximumGiven ==
    ASSUME Typed, IInv, ChangeChosen, send.kind = "max", send' = None, form' # form
    PROVE  LET n == Len(send.closure.outputs)
               max == MaxOf(snapshot.coins, send.closure.outputs, send.closure.rate)
           IN  /\ send.closure \in Entered /\ Parsed(send.closure, TRUE)
               /\ max # 0 /\ form'.outputs[n].amount = max
<1> DEFINE n == Len(send.closure.outputs)
           max == MaxOf(snapshot.coins, send.closure.outputs, send.closure.rate)
           a == CurrentOrReserve(snapshot, ChangeAccount(send.closure.outputs))
<1>1. send # None /\ send.closure \in Entered /\ snapshot \in Snapshot /\ form \in Entered
  BY ToCover DEF ChangeChosen, At, Typed, SendTyped, CapturedHolds, FormsHold
<1>2. ~Fail /\ \A stage, own, known : ~Onward(stage, own, known)
  BY DEF Fail, Onward, panel
<1>3. Parsed(send.closure, TRUE) /\ (Ensured(Primary, snapshot) \/ Obtained(a, snapshot))
  BY <1>2 DEF ChangeChosen
<1> HIDE DEF a
<1>4. Maximised(max)
  BY <1>2, <1>3 DEF Obtained, Ensured
<1>5. /\ max # 0
      /\ form' = IF n \in DOMAIN form.outputs THEN WithAmount(form, n, max) ELSE form
  BY <1>2, <1>4 DEF Maximised
<1>6. max \in Nat
  BY <1>1, MaxOfType, SnapshotFields DEF Entered, Form
<1> HIDE DEF max, n
<1>7. n \in DOMAIN form.outputs /\ form' = WithAmount(form, n, max)
  BY <1>5
<1>8. form'.outputs[n].amount = max
  BY <1>1, <1>6, <1>7, WithAmountTyped
<1> QED
  BY <1>1, <1>3, <1>5, <1>8 DEF max, n

\* MAX offers the most that can be sent: it fits, and one unit more does not
\* (transparentSend.ts:513-553).
THEOREM MaxNeverLeavesMore == Spec => MaxIsMost
<1> DEFINE Offered == At(send, "idle") /\ send.kind = "max" /\ send' = None /\ form' # form
           n == Len(send.closure.outputs)
           fixed == Amount(Fixed(send.closure.outputs))
           given == form'.outputs[n].amount
           Best == /\ Fits(snapshot.coins, fixed + given, n, send.closure.rate)
                   /\ ~Fits(snapshot.coins, fixed + given + 1, n, send.closure.rate)
<1>1. ASSUME Typed, IInv, [Next]_vars, Offered
      PROVE  Best
  <2> DEFINE max == MaxOf(snapshot.coins, send.closure.outputs, send.closure.rate)
             rate == send.closure.rate
             coins == snapshot.coins
             best == CalculateMax(coins, fixed, n, rate)
  <2>1. ChangeChosen
    <3>1. send # None
      BY <1>1 DEF At
    <3>2. Next
      BY <1>1, <3>1 DEF vars
    <3> QED
      BY <1>1, <3>2, WhoMaximises
  <2>2. /\ send.closure \in Entered /\ Parsed(send.closure, TRUE) /\ max # 0 /\ given = max
    BY <1>1, <2>1, MaximumGiven
  <2>3. max = best
    BY <2>2 DEF MaxOf
  <2>4. coins \subseteq Coin /\ n \in Nat /\ fixed \in Nat
    BY <1>1, <2>2, ToCover, SnapshotFields, FixedType, OutputsPay DEF Entered, Form
  <2>5. rate \in Nat \ {0}
    BY <2>2, RateType DEF Parsed
  <2> HIDE DEF n, fixed, given, max, rate, coins, best
  <2>6. /\ best \in Nat /\ (best # 0 => best >= Dust /\ Fits(coins, fixed + best, n, rate))
        /\ \A amount \in Nat :
             amount >= Dust /\ Fits(coins, fixed + amount, n, rate) => amount <= best
    BY <2>4, <2>5, MaximumIsMost DEF best
  <2>7. fixed + (best + 1) = fixed + best + 1 /\ best + 1 \in Nat /\ ~(best + 1 <= best)
    BY <2>4, <2>6
  <2>8. best >= Dust /\ best + 1 >= Dust
    BY <2>2, <2>3, <2>6, SizesPositive
  <2>9. /\ Fits(coins, fixed + given, n, rate)
        /\ ~Fits(coins, fixed + given + 1, n, rate)
    BY <2>2, <2>3, <2>6, <2>7, <2>8
  <2> QED
    BY <2>9 DEF coins, rate
<1>2. Typed /\ IInv /\ [Next]_vars => [Offered => Best]_vars
  BY <1>1
<1>3. Spec => [][Offered => Best]_vars
  <2> HIDE DEF Offered, Best
  <2> QED
    BY <1>2, FlowInvariant, TypesInvariant, PTL DEF Spec
<1> QED
  BY <1>3 DEF MaxIsMost

(***************************************************************************)
(* Own addresses are not used twice                                        *)
(***************************************************************************)
\* The send panel and the consolidation panel are never both at work, nor is
\* either behind the dialog of a transaction that can be replaced.
SendSide == \/ sendPreview # None \/ preparedSend # None
            \/ send # None /\ send.kind \in {"preview", "sign", "broadcast"}
PlanSide == \/ consolidationPreview # None \/ preparedConsolidation # None
            \/ send # None /\ send.kind \in {"plan", "signPlan", "next"}
PanelsApart ==
    /\ ~(SendSide /\ PlanSide)
    /\ receipt # None /\ receipt.rbf # None => ~SendSide /\ ~PlanSide

\* No accepted transaction pays a; nobody else may take it then, if it is an
\* issued address of the wallet; those of one consolidation may share it.
Untaken(a, taken) == \A e \in taken : e.tx.own # a
Fresh(a, taken, indices) ==
    a # None => a.chain \in Internal /\ a.index \in indices[a.chain] /\ Untaken(a, taken)
OfAPlan(a, taken) == \A e \in taken : e.tx.own = a => e.tx.outputs = <<>> /\ e.original = None
Recorded(taken, used) == \A e \in taken : e.tx.own # None => e.tx.own \in used

PanelsFresh ==
    /\ sendPreview # None => Fresh(sendPreview.change, accepted, issuedIndices)
    /\ preparedSend # None => Fresh(preparedSend.own, accepted, issuedIndices)
    /\ consolidationPreview # None => OfAPlan(consolidationPreview.change, accepted)
    /\ preparedConsolidation # None =>
         \A i \in DOMAIN preparedConsolidation :
            /\ preparedConsolidation[i].outputs = <<>>
            /\ OfAPlan(preparedConsolidation[i].own, accepted)

FlowFresh ==
    send # None =>
      /\ send.kind = "sign" => Fresh(send.closure.change, accepted, issuedIndices)
      /\ send.kind = "signPlan" => OfAPlan(send.closure.change, accepted)
      /\ send.kind = "next" =>
           send.closure.tx.outputs = <<>> /\ OfAPlan(send.closure.tx.own, accepted)
      /\ send.kind = "broadcast" => Fresh(send.closure.tx.own, accepted, issuedIndices)
      /\ send.own # None =>
           /\ send.kind \in {"preview", "broadcast", "plan"} => Untaken(send.own, accepted)
           /\ send.kind = "broadcast" => send.own # send.closure.tx.own
      /\ send.stage = "queued" => Recorded(accepted, send.known.used)

DialogFresh ==
    /\ receipt # None /\ receipt.rbf # None => Untaken(receipt.rbf.own, accepted)
    /\ rbf # None /\ rbf.stage \in {"submit", "network"} => rbf.tx.own = receipt.rbf.own

FreshHolds ==
    /\ ChangeNotReused
    /\ hd => /\ Recorded(accepted, snapshot.used)
             /\ PanelsFresh /\ FlowFresh /\ DialogFresh

(***************************************************************************)
(* The panels are apart                                                    *)
(***************************************************************************)
LEMMA ApartShrinks ==
    ASSUME PanelsApart, UNCHANGED receipt, SendSide' => SendSide, PlanSide' => PlanSide
    PROVE  PanelsApart'
BY DEF PanelsApart

LEMMA ApartClick ==
    ASSUME PanelsApart, Click
    PROVE  PanelsApart'
<1>1. receipt = None /\ UNCHANGED receipt
  BY DEF Click, Edit, PreviewSend, ApplyMax, SignSend, BroadcastSend, CancelPreparedSend,
     PreviewConsolidation, SignConsolidation, BroadcastNextConsolidation, CancelConsolidation,
     Shown, StatusReady, dialog
<1>2. CASE Edit \/ CancelPreparedSend \/ CancelConsolidation
  <2>1. (SendSide' => SendSide) /\ (PlanSide' => PlanSide)
    BY <1>2 DEF Edit, CancelPreparedSend, CancelConsolidation, SendSide, PlanSide
  <2> QED
    BY <1>1, <2>1, ApartShrinks
<1>3. CASE PreviewSend \/ PreviewConsolidation
  <2>1. ~SendSide' \/ ~PlanSide'
    <3>1. CASE PreviewSend
      <4>1. /\ send'.kind = "preview"
            /\ consolidationPreview' = None /\ preparedConsolidation' = None
        BY <3>1, BeginFacts DEF PreviewSend
      <4> QED
        BY <4>1 DEF PlanSide
    <3>2. CASE PreviewConsolidation
      <4>1. send'.kind = "plan" /\ sendPreview' = None /\ preparedSend' = None
        BY <3>2, BeginFacts DEF PreviewConsolidation
      <4> QED
        BY <4>1 DEF SendSide
    <3> QED
      BY <1>3, <3>1, <3>2
  <2> QED
    BY <1>1, <2>1 DEF PanelsApart
<1>4. CASE ApplyMax \/ SignSend \/ BroadcastSend \/ SignConsolidation
  <2>1. CASE ApplyMax
    <3>1. /\ send'.kind = "max" /\ preparedSend' = None
          /\ UNCHANGED <<sendPreview, consolidationPreview, preparedConsolidation>>
      BY <2>1, BeginFacts DEF ApplyMax
    <3>2. (SendSide' => SendSide) /\ (PlanSide' => PlanSide)
      BY <3>1 DEF SendSide, PlanSide
    <3> QED
      BY <1>1, <3>2, ApartShrinks
  <2>2. CASE SignSend \/ BroadcastSend
    <3>1. /\ send'.kind \in {"sign", "broadcast"} /\ SendSide
          /\ UNCHANGED <<sendPreview, preparedSend, consolidationPreview, preparedConsolidation>>
      BY <2>2, BeginFacts DEF SignSend, BroadcastSend, SendSide
    <3>2. PlanSide' => PlanSide
      BY <3>1 DEF PlanSide
    <3> QED
      BY <1>1, <3>1, <3>2, ApartShrinks
  <2>3. CASE SignConsolidation
    <3>1. /\ send'.kind = "signPlan" /\ PlanSide
          /\ UNCHANGED <<sendPreview, preparedSend, consolidationPreview, preparedConsolidation>>
      BY <2>3, BeginFacts DEF SignConsolidation, PlanSide
    <3>2. SendSide' => SendSide
      BY <3>1 DEF SendSide
    <3> QED
      BY <1>1, <3>1, <3>2, ApartShrinks
  <2> QED
    BY <1>4, <2>1, <2>2, <2>3
<1>5. CASE BroadcastNextConsolidation
  <2>1. /\ send'.kind = "next" /\ PlanSide
        /\ UNCHANGED <<sendPreview, preparedSend, consolidationPreview, preparedConsolidation>>
    BY <1>5 DEF BroadcastNextConsolidation, PlanSide
  <2>2. SendSide' => SendSide
    BY <2>1 DEF SendSide
  <2> QED
    BY <1>1, <2>1, <2>2, ApartShrinks
<1> QED
  BY <1>2, <1>3, <1>4, <1>5 DEF Click

LEMMA ApartFail ==
    ASSUME Fail
    PROVE  (SendSide' => SendSide) /\ (PlanSide' => PlanSide)
BY DEF Fail, Finish, SendSide, PlanSide

LEMMA ApartOnward ==
    ASSUME NEW stage, NEW own, NEW known, send # None, Onward(stage, own, known)
    PROVE  (SendSide' => SendSide) /\ (PlanSide' => PlanSide)
<1>1. send'.kind = send.kind /\ UNCHANGED panel
  BY GotoFacts DEF Onward
<1> QED
  BY <1>1 DEF panel, SendSide, PlanSide

LEMMA ApartEnsured ==
    ASSUME NEW own, NEW known, send # None, Ensured(own, known) \/ Obtained(own, known),
           send.kind \in {"preview", "max", "broadcast", "plan"}
    PROVE  (SendSide' => SendSide) /\ (PlanSide' => PlanSide)
<1>1. CASE Ensured(own, known)
  <2>1. CASE send.kind = "preview"
    <3>1. PICK tx : Previewed(tx, own, known)
      BY <1>1, <2>1 DEF Ensured
    <3>2. CASE tx # None
      BY <2>1, <3>1, <3>2 DEF Previewed, Finish, SendSide, PlanSide
    <3> QED
      BY <3>1, <3>2, ApartFail DEF Previewed
  <2>2. CASE send.kind = "max"
    <3>1. PICK max : Maximised(max)
      BY <1>1, <2>2 DEF Ensured
    <3>2. CASE max # 0
      BY <2>2, <3>1, <3>2 DEF Maximised, Finish, SendSide, PlanSide
    <3> QED
      BY <3>1, <3>2, ApartFail DEF Maximised
  <2>3. CASE send.kind = "plan"
    <3>1. PICK txs : Planned(txs, own, known)
      BY <1>1, <2>3 DEF Ensured
    <3>2. CASE txs # None
      BY <2>3, <3>1, <3>2 DEF Planned, Finish, SendSide, PlanSide
    <3> QED
      BY <3>1, <3>2, ApartFail DEF Planned
  <2>4. CASE send.kind = "broadcast"
    BY <1>1, <2>4, ApartOnward DEF Ensured
  <2> QED
    BY <2>1, <2>2, <2>3, <2>4
<1>2. CASE Onward("refresh", own, known)
  BY <1>2, ApartOnward
<1> QED
  BY <1>1, <1>2 DEF Obtained

\* The steps of a panel's flow, but for the acceptance.
LEMMA ApartSendStep ==
    ASSUME PanelsApart, SendHolds, SendStep, ~Accepted
    PROVE  PanelsApart'
<1>1. send # None /\ UNCHANGED receipt
  BY DEF SendStep, ChangeChosen, ReturnAsked, ReturnReserved, Derived, DeriveFails, Refreshed,
     SignAsked, Signed, Submit, BroadcastFails, Turn, At, afterwards, dialog
<1>2. (SendSide' => SendSide) /\ (PlanSide' => PlanSide)
  <2>1. CASE ChangeChosen \/ ReturnAsked
    <3> DEFINE a == CurrentOrReserve(snapshot, ChangeAccount(send.closure.outputs))
    <3>1. /\ send.kind \in {"preview", "max", "broadcast", "plan"}
          /\ \/ Fail \/ Ensured(Primary, snapshot) \/ Obtained(a, snapshot)
             \/ Onward("derive", a, snapshot) \/ Onward("queued", None, snapshot)
      BY <2>1 DEF ChangeChosen, ReturnAsked
    <3> HIDE DEF a
    <3> QED
      BY <1>1, <3>1, ApartFail, ApartEnsured, ApartOnward
  <2>2. CASE ReturnReserved \/ Derived \/ Refreshed \/ DeriveFails
    <3> DEFINE a == ReserveNext(send.known, Priority[1])
    <3>1. /\ send.stage \in {"queued", "derive", "resume"}
          /\ \/ Fail \/ Ensured(a, send.known) \/ Onward("derive", a, send.known)
             \/ Obtained(send.own, send.known) \/ Ensured(send.own, snapshot)
      BY <2>2 DEF ReturnReserved, Derived, Refreshed, DeriveFails, Turn, At
    <3>2. send.kind \in {"preview", "max", "broadcast", "plan"}
      BY <1>1, <3>1 DEF SendHolds, MayAwait
    <3> HIDE DEF a
    <3> QED
      BY <1>1, <3>1, <3>2, ApartFail, ApartEnsured, ApartOnward
  <2>3. CASE SignAsked \/ Submit
    <3>1. Fail \/ Onward("signer", None, snapshot) \/ Onward("network", send.own, send.known)
      BY <2>3 DEF SignAsked, Submit
    <3> QED
      BY <1>1, <3>1, ApartFail, ApartOnward
  <2>4. CASE Signed
    <3>1. \/ Fail
          \/ /\ send.kind = "sign" /\ send' = None
             /\ UNCHANGED <<sendPreview, consolidationPreview, preparedConsolidation>>
          \/ /\ send.kind = "signPlan" /\ send' = None
             /\ UNCHANGED <<sendPreview, preparedSend, consolidationPreview>>
      BY <2>4 DEF Signed, SignedSend, SignedPlan, Finish
    <3> QED
      BY <1>1, <3>1, ApartFail DEF SendSide, PlanSide
  <2>5. CASE BroadcastFails
    BY <2>5, ApartFail DEF BroadcastFails
  <2> QED
    BY <2>1, <2>2, <2>3, <2>4, <2>5 DEF SendStep
<1> QED
  BY <1>1, <1>2, ApartShrinks

LEMMA ApartAccepted ==
    ASSUME PanelsApart, SendHolds, Accepted
    PROVE  /\ PanelsApart' /\ send' = None
           /\ send.kind = "broadcast" =>
                /\ ~PlanSide /\ ~SendSide' /\ ~PlanSide'
                /\ sendPreview' = None /\ preparedSend' = None
                /\ consolidationPreview' = None /\ preparedConsolidation' = None
           /\ send.kind = "next" =>
                /\ sendPreview' = None /\ preparedSend' = None /\ receipt'.rbf = None
<1>1. /\ send # None /\ send.stage = "network" /\ send' = None
      /\ UNCHANGED <<consolidationPreview, preparedConsolidation>>
  BY DEF Accepted, At, Finish
<1>2. send.kind \in {"broadcast", "next"}
  BY <1>1 DEF SendHolds, MayAwait
<1>3. CASE send.kind = "broadcast"
  <2>1. sendPreview' = None /\ preparedSend' = None
    BY <1>3 DEF Accepted
  <2>2. ~PlanSide
    BY <1>1, <1>3 DEF PanelsApart, SendSide
  <2>3. ~SendSide' /\ ~PlanSide'
    BY <1>1, <2>1, <2>2 DEF SendSide, PlanSide
  <2> QED
    BY <1>1, <1>3, <2>1, <2>2, <2>3 DEF PanelsApart, PlanSide
<1>4. CASE send.kind = "next"
  <2>1. /\ UNCHANGED <<sendPreview, preparedSend>>
        /\ receipt' = [tx |-> send.closure.tx, original |-> None, rbf |-> None]
    BY <1>4 DEF Accepted
  <2>2. receipt'.rbf = None
    BY <2>1
  <2>3. ~SendSide
    BY <1>1, <1>4 DEF PanelsApart, PlanSide
  <2>4. ~SendSide' /\ sendPreview' = None /\ preparedSend' = None
    BY <1>1, <2>1, <2>3 DEF SendSide
  <2> QED
    BY <1>1, <1>4, <2>2, <2>4 DEF PanelsApart
<1> QED
  BY <1>2, <1>3, <1>4

LEMMA ApartDialog ==
    ASSUME PanelsApart, DialogClick \/ RbfStep
    PROVE  PanelsApart'
<1>1. /\ UNCHANGED <<send, sendPreview, preparedSend, consolidationPreview, preparedConsolidation>>
  BY DEF DialogClick, PrepareRbf, BroadcastRbf, CancelRbf, CloseBroadcastDialog, RbfStep, RbfIdle,
     Quoted, RbfSigned, RbfSubmit, RbfAccepted, RbfFails, indialog, panel
<1>2. UNCHANGED receipt \/ receipt' = None \/ receipt'.rbf = None
  <2>1. CASE RbfAccepted
    <3>1. receipt' = [tx |-> rbf.tx, rbf |-> None, original |-> rbf.closure.tx]
      BY <2>1 DEF RbfAccepted
    <3> QED
      BY <3>1
  <2>2. CASE ~RbfAccepted
    BY <2>2 DEF DialogClick, PrepareRbf, BroadcastRbf, CancelRbf, CloseBroadcastDialog, RbfStep,
       RbfIdle, Quoted, RbfSigned, RbfSubmit, RbfFails
  <2> QED
    BY <2>1, <2>2
<1>3. SendSide' = SendSide /\ PlanSide' = PlanSide
  BY <1>1 DEF SendSide, PlanSide
<1> QED
  BY <1>2, <1>3 DEF PanelsApart

\* A scan, a block or the receive panel changes nothing of the panels.
LEMMA ElsewhereFacts ==
    ASSUME Environment \/ ShowPrimary \/ ReserveNewAddress \/ ReceiveStep
    PROVE  /\ UNCHANGED <<hd, accepted, rbf, receipt, sendPreview, preparedSend, consolidationPreview,
                          preparedConsolidation>>
           /\ \/ UNCHANGED send
              \/ Goto("resume", send.own, send.known)
<1>1. CASE Environment
  BY <1>1 DEF Environment, Sync, Rescan, GoStale, Confirm, Pay, panel, dialog, receiving
<1>2. CASE ShowPrimary \/ ReserveNewAddress \/ ReceiveStep
  BY <1>2 DEF ShowPrimary, ReserveNewAddress, ReceiveStep, ReceiveReserved, ReceiveDerived,
     ReceiveDeriveFails, ReceiveRefreshed, meanwhile, panel, dialog
<1> QED
  BY <1>1, <1>2

LEMMA ApartNext ==
    ASSUME PanelsApart, IInv, [Next]_vars
    PROVE  PanelsApart'
<1>1. CASE Environment \/ ShowPrimary \/ ReserveNewAddress \/ ReceiveStep
  <2>1. /\ UNCHANGED <<receipt, sendPreview, preparedSend, consolidationPreview, preparedConsolidation>>
        /\ UNCHANGED send \/ Goto("resume", send.own, send.known)
    BY <1>1, ElsewhereFacts
  <2>2. UNCHANGED send \/ Rescan
    BY <1>1 DEF Environment, Sync, GoStale, Confirm, Pay, ShowPrimary, ReserveNewAddress,
       ReceiveStep, ReceiveReserved, ReceiveDerived, ReceiveDeriveFails, ReceiveRefreshed,
       meanwhile, panel, dialog
  <2>3. UNCHANGED send \/ (send # None /\ send'.kind = send.kind)
    BY <2>1, <2>2, GotoFacts DEF Rescan, At
  <2>4. (SendSide' => SendSide) /\ (PlanSide' => PlanSide)
    BY <2>1, <2>3 DEF SendSide, PlanSide
  <2> QED
    BY <2>1, <2>4, ApartShrinks
<1>2. CASE Click
  BY <1>2, ApartClick
<1>3. CASE SendStep
  BY <1>3, ApartSendStep, ApartAccepted DEF IInv
<1>4. CASE DialogClick \/ RbfStep
  BY <1>4, ApartDialog
<1>5. CASE UNCHANGED vars
  BY <1>5 DEF vars, panel, dialog, PanelsApart, SendSide, PlanSide
<1> QED
  BY <1>1, <1>2, <1>3, <1>4, <1>5 DEF Next

(***************************************************************************)
(* What keeps an address fresh                                             *)
(***************************************************************************)
LEMMA StaysFresh ==
    ASSUME NEW taken, NEW indices, NEW more, NEW a,
           \A c \in Internal : indices[c] \subseteq more[c], Fresh(a, taken, indices)
    PROVE  Fresh(a, taken, more)
BY DEF Fresh

LEMMA RememberGrows ==
    ASSUME ManagerHolds,
           (\E a : Remember(a)) \/ UNCHANGED issuedIndices
    PROVE  \A c \in Internal : issuedIndices[c] \subseteq issuedIndices'[c]
<1>1. issuedIndices \in [Chain -> SUBSET (0 .. MaxIndex)] /\ Internal \subseteq Chain
  BY Chains DEF ManagerHolds
<1>2. CASE UNCHANGED issuedIndices
  BY <1>2
<1>3. CASE \E a : Remember(a)
  <2>1. PICK a : issuedIndices' = [issuedIndices EXCEPT ![a.chain] = @ \cup {a.index}]
    BY <1>3 DEF Remember
  <2> QED
    BY <1>1, <2>1
<1> QED
  BY <1>2, <1>3

LEMMA IndicesGrow ==
    ASSUME ManagerHolds, [Next]_vars
    PROVE  \A c \in Internal : issuedIndices[c] \subseteq issuedIndices'[c]
<1>1. CASE Environment \/ Click \/ DialogClick \/ RbfStep \/ ReserveNewAddress \/ UNCHANGED vars
  <2>1. UNCHANGED issuedIndices
    BY <1>1 DEF Environment, Sync, Rescan, GoStale, Confirm, Pay, Click, Edit, PreviewSend, ApplyMax,
       SignSend, BroadcastSend, CancelPreparedSend, PreviewConsolidation, SignConsolidation,
       BroadcastNextConsolidation, CancelConsolidation, DialogClick, PrepareRbf, BroadcastRbf,
       CancelRbf, CloseBroadcastDialog, RbfStep, RbfIdle, Quoted, RbfSigned, RbfSubmit,
       RbfAccepted, RbfFails, indialog, manager, unclicked, vars, ReserveNewAddress
  <2> QED
    BY <2>1, RememberGrows
<1>2. CASE SendStep
  <2>1. (\E a : Remember(a)) \/ UNCHANGED issuedIndices
    BY <1>2 DEF SendStep, ChangeChosen, ReturnAsked, ReturnReserved, Derived, DeriveFails, Refreshed,
       SignAsked, Signed, Submit, Accepted, BroadcastFails, manager, Given
  <2> QED
    BY <2>1, RememberGrows
<1>3. CASE ShowPrimary \/ ReceiveStep
  <2>1. (\E a : Remember(a)) \/ UNCHANGED issuedIndices
    BY <1>3 DEF ShowPrimary, ReceiveStep, ReceiveReserved, ReceiveDerived, ReceiveDeriveFails,
       ReceiveRefreshed, manager, Given
  <2> QED
    BY <2>1, RememberGrows
<1> QED
  BY <1>1, <1>2, <1>3 DEF Next

\* The panels change by nothing but cancelling.
LEMMA PanelsFreshStay ==
    ASSUME PanelsFresh, UNCHANGED accepted,
           \A c \in Internal : issuedIndices[c] \subseteq issuedIndices'[c],
           sendPreview' \in {sendPreview, None}, preparedSend' \in {preparedSend, None},
           consolidationPreview' \in {consolidationPreview, None},
           preparedConsolidation' \in {preparedConsolidation, None}
    PROVE  PanelsFresh'
<1>1. sendPreview' # None => Fresh(sendPreview'.change, accepted', issuedIndices')
  BY StaysFresh DEF PanelsFresh
<1>2. preparedSend' # None => Fresh(preparedSend'.own, accepted', issuedIndices')
  BY StaysFresh DEF PanelsFresh
<1> QED
  BY <1>1, <1>2 DEF PanelsFresh

\* The flow waits for something else, with the address that it had or obtained.
LEMMA FlowGoesOn ==
    ASSUME FlowFresh, send # None, UNCHANGED accepted,
           \A c \in Internal : issuedIndices[c] \subseteq issuedIndices'[c],
           NEW stage, NEW own, NEW known, Goto(stage, own, known),
           own # None => /\ send.kind \in {"preview", "broadcast", "plan"} => Untaken(own, accepted)
                         /\ send.kind = "broadcast" => own # send.closure.tx.own,
           stage = "queued" => Recorded(accepted, known.used)
    PROVE  FlowFresh'
<1>1. /\ send'.kind = send.kind /\ send'.stage = stage /\ send'.closure = send.closure
      /\ send'.own = own /\ send'.known = known
  BY GotoFacts
<1>2. send.kind = "sign" => Fresh(send.closure.change, accepted', issuedIndices')
  BY StaysFresh DEF FlowFresh
<1>3. send.kind = "broadcast" => Fresh(send.closure.tx.own, accepted', issuedIndices')
  BY StaysFresh DEF FlowFresh
<1> QED
  BY <1>1, <1>2, <1>3 DEF FlowFresh

\* The flow of the panels and the rest stay, one way or the other.
LEMMA FreshStays ==
    ASSUME FreshHolds, UNCHANGED <<hd, accepted>>,
           hd => Recorded(accepted, snapshot'.used) /\ PanelsFresh' /\ FlowFresh' /\ DialogFresh'
    PROVE  FreshHolds'
BY DEF FreshHolds, ChangeNotReused

(***************************************************************************)
(* The steps of a panel's flow                                             *)
(***************************************************************************)
\* What they leave alone, as long as nothing is accepted.
quiet == <<hd, accepted, snapshot, receipt, rbf>>

LEMMA DialogFreshStays == DialogFresh /\ UNCHANGED <<accepted, receipt, rbf>> => DialogFresh'
BY DEF DialogFresh

LEMMA OnwardFresh ==
    ASSUME FreshHolds, send # None, UNCHANGED quiet,
           \A c \in Internal : issuedIndices[c] \subseteq issuedIndices'[c],
           NEW stage, NEW own, NEW known, Onward(stage, own, known),
           hd /\ own # None =>
             /\ send.kind \in {"preview", "broadcast", "plan"} => Untaken(own, accepted)
             /\ send.kind = "broadcast" => own # send.closure.tx.own,
           hd /\ stage = "queued" => Recorded(accepted, known.used)
    PROVE  FreshHolds'
<1>1. Goto(stage, own, known) /\ UNCHANGED panel
  BY DEF Onward
<1>2. ASSUME hd
      PROVE  Recorded(accepted, snapshot'.used) /\ PanelsFresh' /\ FlowFresh' /\ DialogFresh'
  <2>1. Recorded(accepted, snapshot.used) /\ PanelsFresh /\ FlowFresh /\ DialogFresh
    BY <1>2 DEF FreshHolds
  <2>2. PanelsFresh'
    BY <1>1, <2>1, PanelsFreshStay DEF panel, quiet
  <2>3. FlowFresh'
    BY <1>1, <1>2, <2>1, FlowGoesOn DEF quiet
  <2>4. DialogFresh'
    BY <2>1, DialogFreshStays DEF quiet
  <2> QED
    BY <2>1, <2>2, <2>3, <2>4 DEF quiet
<1> QED
  BY <1>2, FreshStays DEF quiet

LEMMA FailFresh ==
    ASSUME FreshHolds, UNCHANGED quiet, Fail,
           \A c \in Internal : issuedIndices[c] \subseteq issuedIndices'[c]
    PROVE  FreshHolds'
<1>1. /\ sendPreview' \in {sendPreview, None} /\ preparedSend' \in {preparedSend, None}
      /\ consolidationPreview' \in {consolidationPreview, None}
      /\ preparedConsolidation' \in {preparedConsolidation, None} /\ send' = None
  BY DEF Fail, Finish
<1>2. ASSUME hd
      PROVE  Recorded(accepted, snapshot'.used) /\ PanelsFresh' /\ FlowFresh' /\ DialogFresh'
  <2>1. Recorded(accepted, snapshot.used) /\ PanelsFresh /\ DialogFresh
    BY <1>2 DEF FreshHolds
  <2>2. PanelsFresh' /\ DialogFresh'
    BY <1>1, <2>1, PanelsFreshStay, DialogFreshStays DEF quiet
  <2>3. FlowFresh'
    BY <1>1 DEF FlowFresh
  <2> QED
    BY <2>1, <2>2, <2>3 DEF quiet
<1> QED
  BY <1>2, FreshStays DEF quiet

\* The flow has its address: a new review shows it, a broadcast keeps it for a
\* replacement.
LEMMA EnsuredFresh ==
    ASSUME FreshHolds, send # None, UNCHANGED quiet,
           \A c \in Internal : issuedIndices[c] \subseteq issuedIndices'[c],
           send.kind \in {"preview", "max", "broadcast", "plan"},
           NEW own, NEW known, Ensured(own, known),
           hd => /\ own.chain \in Internal /\ own.index \in issuedIndices'[own.chain]
                 /\ send.kind # "max" => Untaken(own, accepted)
                 /\ send.kind = "broadcast" => own # send.closure.tx.own
    PROVE  FreshHolds'
<1>1. ASSUME NEW r, hd, send' = None,
             \/ /\ sendPreview' \in {None, r} /\ r.change = own /\ Untaken(own, accepted)
                /\ UNCHANGED consolidationPreview
             \/ /\ consolidationPreview' = r /\ r.change = own /\ Untaken(own, accepted)
                /\ UNCHANGED sendPreview,
             UNCHANGED <<preparedSend, preparedConsolidation>>
      PROVE  FreshHolds'
  <2>1. Recorded(accepted, snapshot.used) /\ PanelsFresh /\ DialogFresh
    BY <1>1 DEF FreshHolds
  <2>2. DialogFresh' /\ FlowFresh'
    BY <1>1, <2>1, DialogFreshStays DEF quiet, FlowFresh
  <2>3. sendPreview' # None => Fresh(sendPreview'.change, accepted', issuedIndices')
    <3>1. sendPreview # None => Fresh(sendPreview.change, accepted, issuedIndices')
      BY <2>1, StaysFresh DEF PanelsFresh
    <3>2. Untaken(own, accepted) => Fresh(own, accepted, issuedIndices')
      BY <1>1 DEF Fresh
    <3> QED
      BY <1>1, <3>1, <3>2 DEF quiet
  <2>4. preparedSend' # None => Fresh(preparedSend'.own, accepted', issuedIndices')
    BY <1>1, <2>1, StaysFresh DEF PanelsFresh, quiet
  <2>5. consolidationPreview' # None => OfAPlan(consolidationPreview'.change, accepted')
    <3>1. Untaken(own, accepted) => OfAPlan(own, accepted)
      BY DEF Untaken, OfAPlan
    <3> QED
      BY <1>1, <2>1, <3>1 DEF PanelsFresh, quiet
  <2>6. PanelsFresh'
    BY <1>1, <2>1, <2>3, <2>4, <2>5 DEF PanelsFresh, quiet
  <2> QED
    BY <2>1, <2>2, <2>6, FreshStays DEF quiet
<1>2. CASE ~hd
  <2>1. FreshHolds'
    BY <1>2, FreshStays DEF quiet
  <2> QED
    BY <2>1
<1>3. CASE hd /\ Fail
  BY <1>3, FailFresh
<1>4. CASE hd /\ send.kind = "preview" /\ ~Fail
  <2>1. PICK tx : Previewed(tx, own, known)
    BY <1>4 DEF Ensured
  <2> DEFINE r == [outputs |-> send.closure.outputs, rate |-> send.closure.rate,
                   change |-> own, estimate |-> Estimate(tx), scannedAt |-> known.scannedAt]
  <2>2. /\ send' = None /\ sendPreview' = r
        /\ UNCHANGED <<preparedSend, consolidationPreview, preparedConsolidation>>
    BY <1>4, <2>1 DEF Previewed, Finish
  <2>3. r.change = own
    OBVIOUS
  <2> HIDE DEF r
  <2> QED
    BY <1>1, <1>4, <2>2, <2>3
<1>5. CASE hd /\ send.kind = "max" /\ ~Fail
  <2>1. PICK max : Maximised(max)
    BY <1>5 DEF Ensured
  <2>2. /\ send' = None /\ sendPreview' = None
        /\ UNCHANGED <<preparedSend, consolidationPreview, preparedConsolidation>>
    BY <1>5, <2>1 DEF Maximised, Finish
  <2>3. Recorded(accepted, snapshot.used) /\ PanelsFresh /\ DialogFresh
    BY <1>5 DEF FreshHolds
  <2>4. PanelsFresh' /\ DialogFresh' /\ FlowFresh'
    BY <2>2, <2>3, PanelsFreshStay, DialogFreshStays DEF quiet, FlowFresh
  <2> QED
    BY <2>3, <2>4, FreshStays DEF quiet
<1>6. CASE hd /\ send.kind = "plan" /\ ~Fail
  <2>1. PICK txs : Planned(txs, own, known)
    BY <1>6 DEF Ensured
  <2> DEFINE r == [plan |-> PlanOf(txs), rate |-> send.closure,
                   change |-> own, scannedAt |-> known.scannedAt]
  <2>2. /\ send' = None /\ consolidationPreview' = r
        /\ UNCHANGED <<preparedSend, sendPreview, preparedConsolidation>>
    BY <1>6, <2>1 DEF Planned, Finish
  <2>3. r.change = own
    OBVIOUS
  <2> HIDE DEF r
  <2> QED
    BY <1>1, <1>6, <2>2, <2>3
<1>7. CASE hd /\ send.kind = "broadcast" /\ ~Fail
  <2>1. Onward("submit", own, known)
    BY <1>7 DEF Ensured
  <2> QED
    BY <1>7, <2>1, OnwardFresh
<1> QED
  BY <1>2, <1>3, <1>4, <1>5, <1>6, <1>7

LEMMA ObtainedFresh ==
    ASSUME FreshHolds, send # None, UNCHANGED quiet,
           \A c \in Internal : issuedIndices[c] \subseteq issuedIndices'[c],
           send.kind \in {"preview", "max", "broadcast", "plan"},
           NEW own, NEW known, Obtained(own, known),
           hd => /\ own.chain \in Internal /\ own.index \in issuedIndices'[own.chain]
                 /\ send.kind # "max" => Untaken(own, accepted)
                 /\ send.kind = "broadcast" => own # send.closure.tx.own
    PROVE  FreshHolds'
<1>1. CASE Covered(known, own)
  BY <1>1, EnsuredFresh DEF Obtained
<1>2. CASE ~Covered(known, own)
  BY <1>2, OnwardFresh DEF Obtained
<1> QED
  BY <1>1, <1>2

\* What a snapshot has not recorded is untaken.
LEMMA UnusedIsUntaken ==
    ASSUME NEW taken, NEW used, Recorded(taken, used), NEW a, a \notin used, a # None
    PROVE  Untaken(a, taken)
BY DEF Recorded, Untaken

LEMMA FreshChangeChosen ==
    ASSUME Typed, SendHolds, FreshHolds, ChangeChosen,
           \A c \in Internal : issuedIndices[c] \subseteq issuedIndices'[c]
    PROVE  FreshHolds'
<1>1. /\ send # None /\ send.stage = "idle" /\ send.kind \in {"preview", "max"} /\ UNCHANGED quiet
  BY DEF ChangeChosen, At, afterwards, quiet, dialog, controller
<1>2. WorldHolds /\ ManagerHolds /\ CapturedHolds /\ ObtainedHolds /\ Known(snapshot)
  BY <1>1, FlowFacts
<1>3. send.closure \in Entered /\ Room
  BY <1>1, <1>2 DEF CapturedHolds, ObtainedHolds
<1>4. CASE Fail
  BY <1>1, <1>4, FailFresh
<1>5. CASE Ensured(Primary, snapshot) /\ ~hd
  BY <1>1, <1>5, EnsuredFresh
<1>6. CASE ready /\ Parsed(send.closure, send.kind = "max") /\ hd
  <2> DEFINE a == CurrentOrReserve(snapshot, ChangeAccount(send.closure.outputs))
  <2>1. ChangeAccount(send.closure.outputs) \in Internal
    BY <1>3, <1>6, AccountFacts DEF Entered, Form, Parsed
  <2>2. /\ a \in Inner /\ a.chain \in Internal /\ a \notin snapshot.used
        /\ a.index = issued[a.chain] => a.index \in issuedIndices[a.chain]
    BY <1>2, <1>3, <2>1, CurrentFacts
  <2>3. \/ Obtained(a, snapshot) /\ a.index = issued[a.chain]
        \/ Obtained(a, snapshot) /\ Remember(a)
        \/ Onward("derive", a, snapshot)
    BY <1>6 DEF ChangeChosen
  <2> HIDE DEF a
  <2>4. Untaken(a, accepted)
    <3>1. Recorded(accepted, snapshot.used)
      BY <1>6 DEF FreshHolds
    <3>2. a # None
      BY <2>2, Addresses
    <3> QED
      BY <2>2, <3>1, <3>2, UnusedIsUntaken
  <2>5. Remember(a) => a.index \in issuedIndices'[a.chain]
    <3>1. issuedIndices \in [Chain -> SUBSET (0 .. MaxIndex)] /\ a.chain \in Chain
      BY <1>2, <2>2, Chains DEF ManagerHolds
    <3> QED
      BY <3>1 DEF Remember
  <2>6. CASE Onward("derive", a, snapshot)
    BY <1>1, <2>4, <2>6, OnwardFresh
  <2>7. CASE Obtained(a, snapshot) /\ a.index \in issuedIndices'[a.chain]
    BY <1>1, <2>2, <2>4, <2>7, ObtainedFresh
  <2> QED
    BY <2>2, <2>3, <2>5, <2>6, <2>7
<1>7. \/ Fail \/ (Ensured(Primary, snapshot) /\ ~hd)
      \/ ready /\ Parsed(send.closure, send.kind = "max") /\ hd
  BY DEF ChangeChosen
<1> QED
  BY <1>4, <1>5, <1>6, <1>7

LEMMA FreshReturnAsked ==
    ASSUME FreshHolds, ReturnAsked,
           \A c \in Internal : issuedIndices[c] \subseteq issuedIndices'[c]
    PROVE  FreshHolds'
<1>1. /\ send # None /\ send.kind \in {"broadcast", "plan"} /\ UNCHANGED quiet
      /\ Fail \/ (Ensured(Primary, snapshot) /\ ~hd) \/ Onward("queued", None, snapshot)
  BY DEF ReturnAsked, At, afterwards, quiet, dialog, controller
<1>2. hd => Recorded(accepted, snapshot.used)
  BY DEF FreshHolds
<1>3. CASE Fail
  BY <1>1, <1>3, FailFresh
<1>4. CASE Ensured(Primary, snapshot) /\ ~hd
  BY <1>1, <1>4, EnsuredFresh
<1>5. CASE Onward("queued", None, snapshot)
  BY <1>1, <1>2, <1>5, OnwardFresh
<1> QED
  BY <1>1, <1>3, <1>4, <1>5

\* A new address of the manager is none that a panel holds.
LEMMA FreshReturnReserved ==
    ASSUME Typed, SendHolds, FreshHolds, ReturnReserved,
           \A c \in Internal : issuedIndices[c] \subseteq issuedIndices'[c]
    PROVE  FreshHolds'
<1> DEFINE a == ReserveNext(send.known, Priority[1])
<1>1. /\ send # None /\ send.stage = "queued" /\ UNCHANGED quiet
      /\ \/ Ensured(a, send.known) /\ Remember(a)
         \/ Onward("derive", a, send.known)
  BY DEF ReturnReserved, Turn, At, afterwards, quiet, dialog, controller, Given
<1>2. /\ WorldHolds /\ ManagerHolds /\ ObtainedHolds /\ MayAwait(send.kind, send.stage)
  BY <1>1, FlowFacts
<1>3. send.kind \in {"broadcast", "plan"} /\ Room /\ Known(send.known)
  BY <1>1, <1>2 DEF ObtainedHolds, MayAwait
<1>4. a \in Inner /\ a.chain \in Internal /\ a.index > issued[a.chain] /\ a \notin send.known.used
  BY <1>2, <1>3, FirstAccount, NextFacts
<1> HIDE DEF a
<1>5. ASSUME hd
      PROVE  Untaken(a, accepted) /\ (send.kind = "broadcast" => a # send.closure.tx.own)
  <2>1. FlowFresh
    BY <1>5 DEF FreshHolds
  <2>2. Untaken(a, accepted)
    <3>1. Recorded(accepted, send.known.used) /\ a # None
      BY <1>1, <1>4, <2>1, Addresses DEF FlowFresh
    <3> QED
      BY <1>4, <3>1, UnusedIsUntaken
  <2>3. ASSUME send.kind = "broadcast", a = send.closure.tx.own
        PROVE  FALSE
    <3>1. Fresh(send.closure.tx.own, accepted, issuedIndices)
      BY <1>1, <2>1, <2>3 DEF FlowFresh
    <3>2. a # None
      BY <1>4, Addresses
    <3>3. a.index \in issuedIndices[a.chain]
      BY <2>3, <3>1, <3>2 DEF Fresh
    <3>4. a.index <= issued[a.chain] /\ issued[a.chain] \in Int /\ a.index \in Int
      <4>1. a.chain \in Chain /\ a.chain # "receive"
        BY <1>4, Chains
      <4>2. issued[a.chain] \in -1 .. MaxIndex /\ a.index \in 0 .. MaxIndex
        BY <1>2, <1>4, <4>1, Addresses DEF ManagerHolds
      <4> QED
        BY <1>2, <3>3, <4>1, <4>2, FlowAssumption DEF ManagerHolds
    <3> QED
      BY <1>4, <3>4
  <2> QED
    BY <2>2, <2>3
<1>6. CASE Ensured(a, send.known) /\ Remember(a)
  <2>1. a.index \in issuedIndices'[a.chain]
    <3>1. issuedIndices \in [Chain -> SUBSET (0 .. MaxIndex)] /\ a.chain \in Chain
      BY <1>2, <1>4, Chains DEF ManagerHolds
    <3> QED
      BY <1>6, <3>1 DEF Remember
  <2> QED
    BY <1>1, <1>3, <1>4, <1>5, <1>6, <2>1, EnsuredFresh
<1>7. CASE Onward("derive", a, send.known)
  BY <1>1, <1>3, <1>5, <1>7, OnwardFresh
<1> QED
  BY <1>1, <1>6, <1>7

LEMMA FreshDerived ==
    ASSUME Typed, SendHolds, FreshHolds, Derived,
           \A c \in Internal : issuedIndices[c] \subseteq issuedIndices'[c]
    PROVE  FreshHolds'
<1>1. /\ send # None /\ send.stage = "derive" /\ UNCHANGED quiet
      /\ Obtained(send.own, send.known) /\ Remember(send.own)
  BY DEF Derived, At, afterwards, quiet, dialog, controller, Given
<1>2. ManagerHolds /\ ObtainedHolds /\ MayAwait(send.kind, send.stage)
  BY <1>1, FlowFacts
<1>3. /\ send.kind \in {"preview", "max", "broadcast", "plan"}
      /\ send.own # None /\ send.own.chain \in Internal
  BY <1>1, <1>2 DEF ObtainedHolds, MayAwait
<1>4. send.own.index \in issuedIndices'[send.own.chain]
  <2>1. issuedIndices \in [Chain -> SUBSET (0 .. MaxIndex)] /\ send.own.chain \in Chain
    BY <1>2, <1>3, Chains DEF ManagerHolds
  <2> QED
    BY <1>1, <2>1 DEF Remember
<1>5. hd => /\ send.kind # "max" => Untaken(send.own, accepted)
            /\ send.kind = "broadcast" => send.own # send.closure.tx.own
  BY <1>1, <1>3 DEF FreshHolds, FlowFresh
<1> QED
  BY <1>1, <1>3, <1>4, <1>5, ObtainedFresh

LEMMA FreshRefreshed ==
    ASSUME Typed, SendHolds, FreshHolds, Refreshed,
           \A c \in Internal : issuedIndices[c] \subseteq issuedIndices'[c]
    PROVE  FreshHolds'
<1>1. /\ send # None /\ send.stage = "resume" /\ UNCHANGED quiet
      /\ Fail \/ Ensured(send.own, snapshot)
  BY DEF Refreshed, At, afterwards, quiet, dialog, controller
<1>2. ObtainedHolds /\ MayAwait(send.kind, send.stage)
  BY <1>1, FlowFacts
<1>3. /\ send.kind \in {"preview", "max", "broadcast", "plan"}
      /\ send.own # None /\ send.own.chain \in Internal
      /\ send.own.index \in issuedIndices'[send.own.chain]
  BY <1>1, <1>2 DEF ObtainedHolds, MayAwait
<1>4. hd => /\ send.kind # "max" => Untaken(send.own, accepted)
            /\ send.kind = "broadcast" => send.own # send.closure.tx.own
  BY <1>1, <1>3 DEF FreshHolds, FlowFresh
<1>5. CASE Ensured(send.own, snapshot)
  BY <1>1, <1>3, <1>4, <1>5, EnsuredFresh
<1> QED
  BY <1>1, <1>5, FailFresh

LEMMA FreshWaits ==
    ASSUME FreshHolds, DeriveFails \/ SignAsked \/ Submit,
           \A c \in Internal : issuedIndices[c] \subseteq issuedIndices'[c]
    PROVE  FreshHolds'
<1>1. /\ send # None /\ UNCHANGED quiet
      /\ \/ Fail \/ Onward("signer", None, snapshot)
         \/ Onward("network", send.own, send.known)
  BY DEF DeriveFails, SignAsked, Submit, At, afterwards, quiet, dialog, controller
<1>2. CASE Fail
  BY <1>1, <1>2, FailFresh
<1>3. CASE Onward("signer", None, snapshot)
  BY <1>1, <1>3, OnwardFresh
<1>4. CASE Onward("network", send.own, send.known)
  <2>1. hd /\ send.own # None =>
          /\ send.kind \in {"preview", "broadcast", "plan"} => Untaken(send.own, accepted)
          /\ send.kind = "broadcast" => send.own # send.closure.tx.own
    BY <1>1 DEF FreshHolds, FlowFresh
  <2> QED
    BY <1>1, <1>4, <2>1, OnwardFresh
<1> QED
  BY <1>1, <1>2, <1>3, <1>4

\* The transactions of a plan pay the return address and nobody else.
LEMMA PlanPays ==
    ASSUME NEW coins, coins \subseteq Coin, NEW rate, NEW own, Consolidate(coins, rate, own) # None
    PROVE  LET txs == Consolidate(coins, rate, own)
           IN  \A i \in DOMAIN txs : txs[i].outputs = <<>> /\ txs[i].own = own
<1> DEFINE txs == Consolidate(coins, rate, own)
<1>1. /\ ValidRate(rate)
      /\ \E m \in Nat \ {0} : DOMAIN txs = 1 .. m /\ txs = [b \in 1 .. m |-> txs[b]]
      /\ \A b \in DOMAIN txs :
           /\ txs[b] # None
           /\ txs[b] = [inputs |-> txs[b].inputs, outputs |-> <<>>, own |-> own,
                        pieces |-> txs[b].pieces, ownValue |-> txs[b].ownValue,
                        fee |-> txs[b].fee]
           /\ txs[b].inputs \subseteq coins /\ Cardinality(txs[b].inputs) >= 2
           /\ txs[b].pieces \in Nat /\ txs[b].pieces > 0 /\ txs[b].ownValue \in Nat
           /\ txs[b].ownValue >= txs[b].pieces * MinPerOutput
           /\ Total(txs[b].inputs) = txs[b].ownValue + txs[b].fee
           /\ txs[b].fee \in Nat /\ txs[b].fee >= rate * VSize(txs[b])
      /\ \A a, b \in DOMAIN txs : a # b => txs[a].inputs \cap txs[b].inputs = {}
  BY ConsolidationAddsUp
<1> HIDE DEF txs
<1>2. ASSUME NEW r, NEW B, NEW P, NEW V, NEW F,
             r = [inputs |-> B, outputs |-> <<>>, own |-> own, pieces |-> P,
                  ownValue |-> V, fee |-> F]
      PROVE  r.outputs = <<>> /\ r.own = own
  BY <1>2
<1>3. ASSUME NEW b \in DOMAIN txs
      PROVE  txs[b].outputs = <<>> /\ txs[b].own = own
  <2>1. txs[b] = [inputs |-> txs[b].inputs, outputs |-> <<>>, own |-> own,
                  pieces |-> txs[b].pieces, ownValue |-> txs[b].ownValue, fee |-> txs[b].fee]
    BY <1>1, <1>3
  <2> QED
    BY <1>2, <2>1, Zenon
<1> QED
  BY <1>3 DEF txs

\* What is signed pays the address of its review.
LEMMA FreshSigned ==
    ASSUME Typed, SendHolds, FreshHolds, Signed,
           \A c \in Internal : issuedIndices[c] \subseteq issuedIndices'[c]
    PROVE  FreshHolds'
<1> DEFINE review == send.closure
           coins == send.known.coins
           tx == BuildSend(coins, review.outputs, review.rate, review.change)
           txs == Consolidate(coins, review.rate, review.change)
<1>1. /\ send # None /\ send.stage = "signer" /\ UNCHANGED quiet
      /\ \/ send.kind = "sign" /\ SignedSend(tx, review)
         \/ send.kind = "signPlan" /\ SignedPlan(txs, review)
         \/ Fail
  BY DEF Signed, At, afterwards, quiet, dialog, controller
<1>2. CASE Fail
  BY <1>1, <1>2, FailFresh
<1>3. ASSUME hd, send' = None, PanelsFresh'
      PROVE  FreshHolds'
  <2>1. Recorded(accepted, snapshot.used) /\ DialogFresh
    BY <1>3 DEF FreshHolds
  <2>2. DialogFresh' /\ FlowFresh'
    BY <1>1, <1>3, <2>1, DialogFreshStays DEF quiet, FlowFresh
  <2> QED
    BY <1>1, <1>3, <2>1, <2>2, FreshStays DEF quiet
<1>4. CASE ~hd
  BY <1>1, <1>4, FreshStays DEF quiet
<1>5. CASE hd /\ send.kind = "sign" /\ SignedSend(tx, review)
  <2>1. /\ tx # None /\ send' = None /\ preparedSend' = tx
        /\ UNCHANGED <<sendPreview, consolidationPreview, preparedConsolidation>>
    BY <1>5 DEF SignedSend, Finish
  <2>2. tx.own \in {review.change, None}
    BY <2>1, BuildSendFacts
  <2> HIDE DEF tx
  <2>3. PanelsFresh /\ Fresh(review.change, accepted, issuedIndices)
    BY <1>1, <1>5 DEF FreshHolds, FlowFresh
  <2>4. Fresh(tx.own, accepted, issuedIndices')
    BY <2>2, <2>3, StaysFresh DEF Fresh
  <2>5. sendPreview' # None => Fresh(sendPreview'.change, accepted', issuedIndices')
    BY <1>1, <2>1, <2>3, StaysFresh DEF PanelsFresh, quiet
  <2>6. preparedSend' # None => Fresh(preparedSend'.own, accepted', issuedIndices')
    BY <1>1, <2>1, <2>4 DEF quiet
  <2>7. PanelsFresh'
    BY <1>1, <2>1, <2>3, <2>5, <2>6 DEF PanelsFresh, quiet
  <2> QED
    BY <1>3, <1>5, <2>1, <2>7
<1>6. CASE hd /\ send.kind = "signPlan" /\ SignedPlan(txs, review)
  <2>1. /\ txs # None /\ send' = None /\ preparedConsolidation' = txs
        /\ UNCHANGED <<sendPreview, preparedSend, consolidationPreview>>
    BY <1>6 DEF SignedPlan, Finish
  <2>2. coins \subseteq Coin
    BY <1>1, FlowFacts, SnapshotFields DEF ObtainedHolds, Known, KnownBy
  <2>3. \A i \in DOMAIN txs : txs[i].outputs = <<>> /\ txs[i].own = review.change
    BY <2>1, <2>2, PlanPays
  <2> HIDE DEF txs
  <2>4. PanelsFresh /\ OfAPlan(review.change, accepted)
    BY <1>1, <1>6 DEF FreshHolds, FlowFresh
  <2>5. sendPreview' # None => Fresh(sendPreview'.change, accepted', issuedIndices')
    BY <1>1, <2>1, <2>4, StaysFresh DEF PanelsFresh, quiet
  <2>6. preparedSend' # None => Fresh(preparedSend'.own, accepted', issuedIndices')
    BY <1>1, <2>1, <2>4, StaysFresh DEF PanelsFresh, quiet
  <2>7. PanelsFresh'
    BY <1>1, <2>1, <2>3, <2>4, <2>5, <2>6 DEF PanelsFresh, quiet
  <2> QED
    BY <1>3, <1>6, <2>1, <2>7
<1> QED
  BY <1>1, <1>2, <1>4, <1>5, <1>6

LEMMA FreshFails ==
    ASSUME FreshHolds, BroadcastFails,
           \A c \in Internal : issuedIndices[c] \subseteq issuedIndices'[c]
    PROVE  FreshHolds'
BY FailFresh DEF BroadcastFails, quiet, dialog, controller

\* A transaction is accepted: nobody else may pay the address of its change,
\* and the address for a replacement is another one.
LEMMA FreshAccepted ==
    ASSUME Typed, IInv, PanelsApart, FreshHolds, Accepted,
           \A c \in Internal : issuedIndices[c] \subseteq issuedIndices'[c]
    PROVE  FreshHolds'
<1> DEFINE tx == send.closure.tx
           new == [tx |-> tx, original |-> None]
<1>1. /\ send # None /\ send.stage = "network" /\ send' = None /\ UNCHANGED <<hd, rbf>>
      /\ snapshot' = Projected(tx, None) /\ accepted' = accepted \cup {new}
      /\ receipt' = [tx |-> tx, original |-> None,
                     rbf |-> IF send.kind = "broadcast"
                             THEN [own |-> send.own, coins |-> send.known.coins] ELSE None]
      /\ UNCHANGED <<consolidationPreview, preparedConsolidation>>
  BY DEF Accepted, At, Finish
<1>2. /\ WorldHolds /\ ManagerHolds /\ tx \in Sent /\ send.kind \in {"broadcast", "next"}
      /\ ObtainedHolds
  BY <1>1, SendingFacts, FlowFacts DEF IInv, At, MayAwait
<1>3. /\ send.kind = "broadcast" =>
           /\ sendPreview' = None /\ preparedSend' = None
           /\ consolidationPreview' = None /\ preparedConsolidation' = None
      /\ send.kind = "next" =>
           /\ sendPreview' = None /\ preparedSend' = None /\ receipt'.rbf = None
  BY ApartAccepted DEF IInv
<1>4. rbf = None
  BY <1>1 DEF IInv, SendHolds, RbfHolds
<1>5. new.tx = tx /\ new.original = None
  OBVIOUS
<1>6. snapshot'.used = snapshot.used \cup Paid({tx})
  BY <1>1, <1>2, ProjectionFacts
<1> HIDE DEF tx, new
<1>7. ASSUME hd
      PROVE  /\ Recorded(accepted', snapshot'.used)
             /\ \/ tx.own = None \/ Untaken(tx.own, accepted)
                \/ tx.outputs = <<>> /\ OfAPlan(tx.own, accepted)
  <2>1. Recorded(accepted, snapshot.used) /\ FlowFresh
    BY <1>7 DEF FreshHolds
  <2>2. tx.own # None => tx.own \in Paid({tx})
    BY DEF Paid
  <2>3. Recorded(accepted', snapshot'.used)
    BY <1>1, <1>5, <1>6, <2>1, <2>2 DEF Recorded
  <2>4. \/ tx.own = None \/ Untaken(tx.own, accepted)
        \/ tx.outputs = <<>> /\ OfAPlan(tx.own, accepted)
    BY <1>1, <1>2, <2>1 DEF FlowFresh, Fresh, tx
  <2> QED
    BY <2>3, <2>4
<1>8. ChangeNotReused'
  <2>1. ASSUME hd, NEW b \in accepted, tx.own # None, b.tx.own = tx.own
        PROVE  tx.outputs = <<>> /\ b.tx.outputs = <<>> /\ b.original = None
    BY <1>7, <2>1 DEF Untaken, OfAPlan
  <2>2. ChangeNotReused
    BY DEF FreshHolds
  <2> QED
    BY <1>1, <1>5, <2>1, <2>2 DEF ChangeNotReused
<1>9. ASSUME hd
      PROVE  PanelsFresh' /\ FlowFresh' /\ DialogFresh'
  <2>1. PanelsFresh /\ FlowFresh
    BY <1>9 DEF FreshHolds
  <2>2. FlowFresh'
    BY <1>1 DEF FlowFresh
  <2>3. CASE send.kind = "broadcast"
    <3>1. PanelsFresh'
      BY <1>3, <2>3 DEF PanelsFresh
    <3>2. send.own # None /\ Untaken(send.own, accepted) /\ send.own # tx.own
      BY <1>1, <1>2, <2>1, <2>3 DEF ObtainedHolds, FlowFresh, tx
    <3>3. receipt'.rbf.own = send.own
      BY <1>1, <2>3
    <3>4. Untaken(send.own, accepted')
      BY <1>1, <1>5, <3>2 DEF Untaken
    <3>5. DialogFresh'
      BY <1>1, <1>4, <3>3, <3>4 DEF DialogFresh
    <3> QED
      BY <2>2, <3>1, <3>5
  <2>4. CASE send.kind = "next"
    <3>1. tx.outputs = <<>>
      BY <1>1, <2>1, <2>4 DEF FlowFresh, tx
    <3>2. \A a : OfAPlan(a, accepted) => OfAPlan(a, accepted')
      BY <1>1, <1>5, <3>1 DEF OfAPlan
    <3>3. PanelsFresh'
      BY <1>1, <1>3, <2>1, <2>4, <3>2 DEF PanelsFresh
    <3>4. DialogFresh'
      BY <1>1, <1>3, <1>4, <2>4 DEF DialogFresh
    <3> QED
      BY <2>2, <3>3, <3>4
  <2> QED
    BY <1>2, <2>3, <2>4
<1> QED
  BY <1>1, <1>7, <1>8, <1>9 DEF FreshHolds

LEMMA FreshSendStep ==
    ASSUME Typed, IInv, PanelsApart, FreshHolds, SendStep,
           \A c \in Internal : issuedIndices[c] \subseteq issuedIndices'[c]
    PROVE  FreshHolds'
BY FreshChangeChosen, FreshReturnAsked, FreshReturnReserved, FreshDerived, FreshRefreshed,
   FreshWaits, FreshSigned, FreshFails, FreshAccepted DEF SendStep, IInv

(***************************************************************************)
(* The clicks                                                              *)
(***************************************************************************)
LEMMA BeginFresh ==
    ASSUME NEW kind, NEW closure, Begin(kind, closure),
           kind \in {"preview", "max", "plan"}
             \/ (kind = "sign" /\ Fresh(closure.change, accepted', issuedIndices'))
             \/ (kind = "signPlan" /\ OfAPlan(closure.change, accepted'))
             \/ (kind = "broadcast" /\ Fresh(closure.tx.own, accepted', issuedIndices'))
    PROVE  FlowFresh'
<1>1. /\ send'.kind = kind /\ send'.stage = "idle" /\ send'.closure = closure /\ send'.own = None
  BY DEF Begin
<1> QED
  BY <1>1 DEF FlowFresh

LEMMA FreshClick ==
    ASSUME FreshHolds, Click
    PROVE  FreshHolds'
<1>1. UNCHANGED quiet /\ UNCHANGED <<accepted, issuedIndices>>
  BY DEF Click, Edit, PreviewSend, ApplyMax, SignSend, BroadcastSend, CancelPreparedSend,
     PreviewConsolidation, SignConsolidation, BroadcastNextConsolidation, CancelConsolidation,
     unclicked, dialog, quiet, controller, manager
<1>2. /\ sendPreview' \in {sendPreview, None} /\ preparedSend' \in {preparedSend, None}
      /\ consolidationPreview' \in {consolidationPreview, None}
      /\ preparedConsolidation' \in {preparedConsolidation, None}
  BY DEF Click, Edit, PreviewSend, ApplyMax, SignSend, BroadcastSend, CancelPreparedSend,
     PreviewConsolidation, SignConsolidation, BroadcastNextConsolidation, CancelConsolidation
<1>3. ASSUME hd
      PROVE  Recorded(accepted, snapshot'.used) /\ PanelsFresh' /\ FlowFresh' /\ DialogFresh'
  <2>1. Recorded(accepted, snapshot.used) /\ PanelsFresh /\ FlowFresh /\ DialogFresh
    BY <1>3 DEF FreshHolds
  <2>2. PanelsFresh' /\ DialogFresh'
    BY <1>1, <1>2, <2>1, PanelsFreshStay, DialogFreshStays DEF quiet
  <2>3. CASE Edit \/ CancelPreparedSend \/ CancelConsolidation
    <3>1. UNCHANGED send
      BY <2>3 DEF Edit, CancelPreparedSend, CancelConsolidation
    <3>2. FlowFresh'
      BY <1>1, <2>1, <3>1 DEF FlowFresh
    <3> QED
      BY <1>1, <2>1, <2>2, <3>2 DEF quiet
  <2>4. CASE PreviewSend \/ ApplyMax \/ PreviewConsolidation
    <3>1. FlowFresh'
      BY <2>4, BeginFresh DEF PreviewSend, ApplyMax, PreviewConsolidation
    <3> QED
      BY <1>1, <2>1, <2>2, <3>1 DEF quiet
  <2>5. CASE SignSend
    <3>1. Begin("sign", sendPreview) /\ sendPreview # None
      BY <2>5 DEF SignSend
    <3>2. FlowFresh'
      BY <1>1, <2>1, <3>1, BeginFresh DEF PanelsFresh
    <3> QED
      BY <1>1, <2>1, <2>2, <3>2 DEF quiet
  <2>6. CASE BroadcastSend
    <3> DEFINE c == [tx |-> preparedSend, review |-> sendPreview]
    <3>1. Begin("broadcast", c) /\ preparedSend # None /\ c.tx = preparedSend
      BY <2>6 DEF BroadcastSend
    <3> HIDE DEF c
    <3>2. FlowFresh'
      BY <1>1, <2>1, <3>1, BeginFresh DEF PanelsFresh
    <3> QED
      BY <1>1, <2>1, <2>2, <3>2 DEF quiet
  <2>7. CASE SignConsolidation
    <3>1. Begin("signPlan", consolidationPreview) /\ consolidationPreview # None
      BY <2>7 DEF SignConsolidation
    <3>2. FlowFresh'
      BY <1>1, <2>1, <3>1, BeginFresh DEF PanelsFresh
    <3> QED
      BY <1>1, <2>1, <2>2, <3>2 DEF quiet
  <2>8. CASE BroadcastNextConsolidation
    <3>1. PICK i \in DOMAIN preparedConsolidation :
            /\ preparedConsolidation # None
            /\ send' = [kind |-> "next", stage |-> "submit",
                        closure |-> [tx |-> preparedConsolidation[i], done |-> broadcasted],
                        own |-> None, known |-> None]
      BY <2>8 DEF BroadcastNextConsolidation
    <3>2. /\ send'.kind = "next" /\ send'.stage = "submit" /\ send'.own = None
          /\ send'.closure.tx = preparedConsolidation[i]
      BY <3>1
    <3>3. FlowFresh'
      BY <1>1, <2>1, <3>1, <3>2 DEF FlowFresh, PanelsFresh
    <3> QED
      BY <1>1, <2>1, <2>2, <3>3 DEF quiet
  <2> QED
    BY <2>3, <2>4, <2>5, <2>6, <2>7, <2>8 DEF Click
<1> QED
  BY <1>1, <1>3, FreshStays DEF quiet

(***************************************************************************)
(* The dialog, the network and the receive panel                           *)
(***************************************************************************)
LEMMA FlowFreshStays ==
    ASSUME FlowFresh, UNCHANGED <<accepted, send>>,
           \A c \in Internal : issuedIndices[c] \subseteq issuedIndices'[c]
    PROVE  FlowFresh'
<1>1. send # None /\ send.kind = "sign" => Fresh(send.closure.change, accepted, issuedIndices')
  BY StaysFresh DEF FlowFresh
<1>2. send # None /\ send.kind = "broadcast" => Fresh(send.closure.tx.own, accepted, issuedIndices')
  BY StaysFresh DEF FlowFresh
<1> QED
  BY <1>1, <1>2 DEF FlowFresh

\* The replacement pays the address that the broadcast kept for it.
LEMMA FreshRbfAccepted ==
    ASSUME Typed, IInv, PanelsApart, FreshHolds, RbfAccepted
    PROVE  FreshHolds'
<1> DEFINE tx == rbf.tx
           new == [tx |-> tx, original |-> rbf.closure.tx]
<1>1. /\ rbf # None /\ rbf.stage = "network" /\ rbf' = None
      /\ UNCHANGED <<hd, send, sendPreview, preparedSend, consolidationPreview, preparedConsolidation>>
      /\ snapshot' = Projected(tx, rbf.closure.tx) /\ accepted' = accepted \cup {new}
      /\ receipt' = [tx |-> tx, rbf |-> None, original |-> rbf.closure.tx]
  BY DEF RbfAccepted, At, RbfOver, indialog, panel
<1>2. /\ WorldHolds /\ tx \in Sent /\ receipt # None /\ receipt.rbf # None
      /\ receipt.rbf.own \in Inner /\ send = None
  BY <1>1, ReplacingFacts DEF IInv, RbfHolds
<1>3. /\ sendPreview = None /\ preparedSend = None
      /\ consolidationPreview = None /\ preparedConsolidation = None
  BY <1>2 DEF PanelsApart, SendSide, PlanSide
<1>4. new.tx = tx /\ receipt'.rbf = None
  BY <1>1
<1>5. snapshot'.used = snapshot.used \cup Paid({tx})
  BY <1>1, <1>2, ProjectionFacts
<1> HIDE DEF tx, new
<1>6. PanelsFresh' /\ FlowFresh' /\ DialogFresh'
  BY <1>1, <1>2, <1>3, <1>4 DEF PanelsFresh, FlowFresh, DialogFresh
<1>7. ASSUME hd
      PROVE  Untaken(tx.own, accepted) /\ tx.own # None /\ Recorded(accepted', snapshot'.used)
  <2>1. Recorded(accepted, snapshot.used) /\ DialogFresh
    BY <1>7 DEF FreshHolds
  <2>2. Untaken(tx.own, accepted) /\ tx.own # None
    BY <1>1, <1>2, <2>1, Addresses DEF DialogFresh, tx
  <2>3. tx.own \in Paid({tx})
    BY <2>2 DEF Paid
  <2>4. Recorded(accepted', snapshot'.used)
    BY <1>1, <1>4, <1>5, <2>1, <2>3 DEF Recorded
  <2> QED
    BY <2>2, <2>4
<1>8. ChangeNotReused'
  <2>1. ChangeNotReused
    BY DEF FreshHolds
  <2> QED
    BY <1>1, <1>4, <1>7, <2>1 DEF ChangeNotReused, Untaken
<1> QED
  BY <1>1, <1>6, <1>7, <1>8 DEF FreshHolds

LEMMA FreshDialog ==
    ASSUME Typed, IInv, PanelsApart, FreshHolds, DialogClick \/ RbfStep,
           \A c \in Internal : issuedIndices[c] \subseteq issuedIndices'[c]
    PROVE  FreshHolds'
<1>1. CASE RbfAccepted
  BY <1>1, FreshRbfAccepted
<1>2. CASE ~RbfAccepted
  <2>1. /\ UNCHANGED <<hd, send, sendPreview, preparedSend, consolidationPreview, preparedConsolidation>>
        /\ UNCHANGED <<accepted, snapshot>>
        /\ UNCHANGED receipt \/ (receipt' = None /\ UNCHANGED rbf)
    BY <1>2 DEF DialogClick, PrepareRbf, BroadcastRbf, CancelRbf, CloseBroadcastDialog, RbfStep,
       RbfIdle, Quoted, RbfSigned, RbfSubmit, RbfFails, indialog, panel, controller
  <2>2. CASE RbfStep \/ PrepareRbf \/ BroadcastRbf
    <3>1. \/ rbf' = None \/ rbf'.stage \notin {"submit", "network"}
          \/ rbf'.stage \in {"submit", "network"} /\ rbf # None /\
               \/ rbf.stage \in {"submit", "network"} /\ rbf'.tx = rbf.tx
               \/ rbf'.tx.own = receipt.rbf.own
      <4>1. CASE RbfSigned
        <5> DEFINE tx == BuildRbf(rbf.closure.tx, rbf.quote.rate, rbf.closure.rbf.own)
        <5>1. rbf # None /\ (RbfTaken(tx) \/ rbf' = None)
          BY <4>1 DEF RbfSigned, At, RbfOver
        <5>2. rbf.closure = receipt /\ receipt.tx \in Tx /\ receipt.rbf.own \in Inner
          BY <5>1, ReplacingFacts
        <5>3. RbfTaken(tx) => tx # None /\ rbf'.tx = tx /\ rbf'.stage = "submit"
          BY DEF RbfTaken, RbfGoto
        <5>4. tx # None => tx.own = receipt.rbf.own
          BY <5>2, BuildRbfTyped
        <5> HIDE DEF tx
        <5> QED
          BY <5>1, <5>3, <5>4
      <4>2. CASE RbfSubmit
        <5>1. /\ rbf # None /\ rbf.stage = "submit"
              /\ RbfGoto("network", rbf.tx) \/ rbf' = None
          BY <4>2 DEF RbfSubmit, At, RbfOver
        <5>2. RbfGoto("network", rbf.tx) => rbf'.tx = rbf.tx /\ rbf'.stage = "network"
          BY DEF RbfGoto
        <5> QED
          BY <5>1, <5>2
      <4>3. CASE RbfIdle \/ Quoted \/ RbfFails
        <5>1. rbf' = None \/ \E stage \in {"rate", "signer"} : RbfGoto(stage, None)
          BY <4>3 DEF RbfIdle, Quoted, RbfFails, RbfOver
        <5>2. \A stage : RbfGoto(stage, None) => rbf'.stage = stage
          BY DEF RbfGoto
        <5> QED
          BY <5>1, <5>2
      <4>4. CASE PrepareRbf \/ BroadcastRbf
        <5>1. rbf'.stage = "idle"
          BY <4>4 DEF PrepareRbf, BroadcastRbf
        <5> QED
          BY <5>1
      <4> QED
        BY <1>2, <2>2, <4>1, <4>2, <4>3, <4>4 DEF RbfStep
    <3>2. UNCHANGED receipt
      BY <1>2, <2>2 DEF RbfStep, RbfIdle, Quoted, RbfSigned, RbfSubmit, RbfFails, PrepareRbf, BroadcastRbf
    <3>3. DialogFresh => DialogFresh'
      BY <2>1, <3>1, <3>2 DEF DialogFresh
    <3> QED
      BY <2>1, <3>3, FlowFreshStays, PanelsFreshStay, FreshStays DEF FreshHolds
  <2>3. CASE CancelRbf \/ CloseBroadcastDialog
    <3>1. UNCHANGED rbf /\ (CloseBroadcastDialog => rbf = None) /\ (CancelRbf => UNCHANGED receipt)
      <4>1. CloseBroadcastDialog => rbf = None
        BY DEF CloseBroadcastDialog, IInv, RbfHolds
      <4> QED
        BY <2>3, <4>1 DEF CancelRbf, CloseBroadcastDialog
    <3>2. DialogFresh => DialogFresh'
      BY <2>1, <2>3, <3>1 DEF DialogFresh, CloseBroadcastDialog
    <3> QED
      BY <2>1, <3>2, FlowFreshStays, PanelsFreshStay, FreshStays DEF FreshHolds
  <2> QED
    BY <1>2, <2>2, <2>3 DEF DialogClick
<1> QED
  BY <1>1, <1>2

LEMMA FreshElsewhere ==
    ASSUME Typed, IInv, FreshHolds,
           Environment \/ ShowPrimary \/ ReserveNewAddress \/ ReceiveStep,
           \A c \in Internal : issuedIndices[c] \subseteq issuedIndices'[c]
    PROVE  FreshHolds'
<1>1. /\ UNCHANGED <<hd, accepted, rbf, receipt, sendPreview, preparedSend, consolidationPreview,
                     preparedConsolidation>>
  BY ElsewhereFacts
<1>2. UNCHANGED send \/ (send # None /\ Goto("resume", send.own, send.known))
  BY DEF Environment, Sync, Rescan, GoStale, Confirm, Pay, At, receiving, ShowPrimary,
     ReserveNewAddress, ReceiveStep, ReceiveReserved, ReceiveDerived, ReceiveDeriveFails,
     ReceiveRefreshed, meanwhile
<1>3. UNCHANGED snapshot \/ snapshot'.used = paid \cup Paid(relayed)
  <2>1. \A full \in BOOLEAN : Scan(full).used = paid \cup Paid(relayed)
    BY DEF Scan
  <2>2. UNCHANGED snapshot \/ \E full \in BOOLEAN : snapshot' = Scan(full)
    BY DEF Environment, Sync, Rescan, GoStale, Confirm, Pay, ShowPrimary, controller,
       ReserveNewAddress, ReceiveStep, ReceiveReserved, ReceiveDerived, ReceiveDeriveFails,
       ReceiveRefreshed
  <2> QED
    BY <2>1, <2>2
<1>4. Recorded(accepted, paid \cup Paid(relayed))
  <2>1. \A e \in accepted : e.tx \in relayed
    BY DEF IInv, MoneyHolds
  <2> QED
    BY <2>1 DEF Recorded, Paid
<1>5. ASSUME hd
      PROVE  Recorded(accepted, snapshot'.used) /\ PanelsFresh' /\ FlowFresh' /\ DialogFresh'
  <2>1. Recorded(accepted, snapshot.used) /\ PanelsFresh /\ FlowFresh /\ DialogFresh
    BY <1>5 DEF FreshHolds
  <2>2. PanelsFresh' /\ DialogFresh'
    BY <1>1, <2>1, PanelsFreshStay, DialogFreshStays
  <2>3. CASE UNCHANGED send
    BY <1>1, <1>3, <1>4, <2>1, <2>2, <2>3, FlowFreshStays
  <2>4. CASE send # None /\ Goto("resume", send.own, send.known)
    <3>1. send.own # None =>
            /\ send.kind \in {"preview", "broadcast", "plan"} => Untaken(send.own, accepted)
            /\ send.kind = "broadcast" => send.own # send.closure.tx.own
      BY <2>1, <2>4 DEF FlowFresh
    <3>2. FlowFresh'
      BY <1>1, <2>1, <2>4, <3>1, FlowGoesOn
    <3> QED
      BY <1>3, <1>4, <2>1, <2>2, <3>2
  <2> QED
    BY <1>2, <2>3, <2>4
<1> QED
  BY <1>1, <1>5, FreshStays

LEMMA FreshNext ==
    ASSUME Typed, IInv, PanelsApart, FreshHolds, [Next]_vars
    PROVE  FreshHolds'
<1>1. \A c \in Internal : issuedIndices[c] \subseteq issuedIndices'[c]
  BY IndicesGrow DEF Typed
<1>2. CASE UNCHANGED vars
  BY <1>2 DEF vars, panel, dialog, controller, manager, receiving, FreshHolds, ChangeNotReused,
     PanelsFresh, FlowFresh, DialogFresh
<1>3. CASE Next
  BY <1>1, <1>3, FreshSendStep, FreshClick, FreshDialog, FreshElsewhere DEF Next
<1> QED
  BY <1>2, <1>3

\* No panel holds an address that an accepted transaction already pays, unless
\* it belongs to the consolidation under way, and the panels that would compete
\* for one are never at work together.
THEOREM FreshInvariant == Spec => [](PanelsApart /\ FreshHolds)
<1>1. Init => PanelsApart /\ FreshHolds
  BY DEF Init, PanelsApart, SendSide, PlanSide, FreshHolds, ChangeNotReused, Recorded, PanelsFresh,
     FlowFresh, DialogFresh
<1>2. Typed /\ IInv /\ PanelsApart /\ FreshHolds /\ [Next]_vars => PanelsApart' /\ FreshHolds'
  BY ApartNext, FreshNext
<1> QED
  BY <1>1, <1>2, TypesInvariant, FlowInvariant, PTL DEF Spec

\* Change and returned coins of an HD wallet never go twice to one address, but
\* within a consolidation, whatever is edited, reviewed, quoted and lost in
\* between (addressManager.ts:131-152).
THEOREM ChangeStaysPrivate == Spec => []ChangeNotReused
<1>1. FreshHolds => ChangeNotReused
  BY DEF FreshHolds
<1> QED
  BY <1>1, FreshInvariant, PTL
===============================================================================
