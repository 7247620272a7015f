------------------------------- MODULE SendFlow --------------------------------
(***************************************************************************)
(* Spending from an open wallet: the send, consolidation, replacement and  *)
(* receive flows of the dashboard (wallet-dashboard.tsx), the HD address   *)
(* manager they share (addressManager.ts), and what they meet of the       *)
(* network controller: a snapshot that changes while they wait, a          *)
(* connection that comes and goes, broadcasts that are taken, refused or   *)
(* whose answer is lost.  The arithmetic is TransparentSend's.             *)
(*                                                                         *)
(* A flow in flight is a record: kind is the function that runs, stage the *)
(* promise it awaits, closure what it captured when it was called, own the *)
(* address it obtained and known the snapshot it works on.  The dialog of  *)
(* a broadcast is modal: nothing behind it is clicked while it is open.    *)
(***************************************************************************)
EXTENDS TransparentSend, Bags

CONSTANTS
    Recipient,      \* addresses of others
    Family,         \* [Recipient -> family of the address]
    Priority,       \* families in the order of PRIORITY
    Forms,          \* what the user may enter: outputs and fee rate
    NetworkRate,    \* fee rates the server may recommend
    DefaultRate,    \* DEFAULT_FEE_PER_VBYTE
    Gap,            \* unused addresses a scan looks ahead
    MaxIndex, MaxReserved, MaxAside, MaxTxs, MaxPaid    \* bounds

Internal == {Priority[i] : i \in DOMAIN Priority}
Chain == Internal \cup {"receive", "primary"}
Address == [chain : Chain, index : 0 .. MaxIndex]
Primary == [chain |-> "primary", index |-> 0]

ASSUME FlowAssumption ==
    /\ Family \in [Recipient -> Internal] /\ Priority \in Seq(STRING) /\ Priority # <<>>
    /\ "receive" \notin Internal /\ "primary" \notin Internal /\ None \notin Address
    /\ Forms \subseteq [outputs : Seq([to : Recipient \cup {None}, amount : Nat]),
                        rate : Nat]
    /\ \A f \in Forms : f.outputs # <<>>
    /\ NetworkRate \subseteq Nat \ {0} /\ DefaultRate \in 1 .. MaxRate
    /\ Gap \in Nat \ {0}
    /\ MaxIndex \in Nat /\ MaxReserved \in Nat /\ MaxAside \in Nat /\ MaxTxs \in Nat /\ MaxPaid \in Nat

VARIABLES
    \* the session
    hd,
    \* the network: transactions it took, those not yet in a block, coins spent
    \* in a block, addresses of ours that others paid
    relayed, mempool, buried, paid,
    \* the controller
    ready, snapshot, aside,
    \* HdAddressManager
    issued, issuedIndices, reservationQueue,
    \* the send panel and the consolidation panel
    form, sendPreview, preparedSend,
    consolidationPreview, preparedConsolidation, broadcasted, sendBusy,
    \* the dialog of a broadcast
    receipt, rbfQuote, rbfBusy,
    \* the receive panel
    issuedAddress, addressBusy,
    \* flows in flight
    send, rbf, receive,
    \* history: transactions whose acceptance was learnt, with what they
    \* replace; addresses given by reserveNew
    accepted, reserved

network == <<relayed, mempool, buried, paid>>
controller == <<ready, snapshot, aside>>
manager == <<issued, issuedIndices, reservationQueue>>
panel == <<form, sendPreview, preparedSend, consolidationPreview,
           preparedConsolidation, broadcasted, sendBusy>>
dialog == <<receipt, rbfQuote, rbfBusy>>
receiving == <<issuedAddress, addressBusy, receive>>
vars == <<hd, network, controller, manager, panel, dialog, receiving, send,
          rbf, accepted, reserved>>

Spent(txs) == UNION {tx.inputs : tx \in txs}
Paid(txs) == {tx.own : tx \in txs} \ {None}

\* lastUsedIndex: the last used address of a chain, -1 if there is none.
LastUsed(used, chain) ==
    Max({-1} \cup {a.index : a \in {b \in used : b.chain = chain}})
Covered(known, a) == a.index <= known.reach[a.chain]

EmptyForm(rate) == [outputs |-> <<[to |-> None, amount |-> 0]>>, rate |-> rate]

Init ==
    /\ hd \in BOOLEAN
    /\ relayed = {} /\ mempool = {} /\ buried = {} /\ paid = {}
    /\ ready = TRUE /\ aside = 0
    /\ snapshot = [scannedAt |-> 0, coins |-> Coin, used |-> {}, pending |-> {},
                   reach |-> [c \in Chain |-> IF c = "primary" THEN 0 ELSE Gap - 1]]
    /\ issued = [c \in Chain |-> -1] /\ issuedIndices = [c \in Chain |-> {}]
    /\ reservationQueue = <<>>
    /\ form = EmptyForm(DefaultRate)
    /\ sendPreview = None /\ preparedSend = None
    /\ consolidationPreview = None /\ preparedConsolidation = None
    /\ broadcasted = {} /\ sendBusy = FALSE
    /\ receipt = None /\ rbfQuote = None /\ rbfBusy = FALSE
    /\ issuedAddress = None /\ addressBusy = FALSE
    /\ send = None /\ rbf = None /\ receive = None
    /\ accepted = {} /\ reserved = EmptyBag

(***************************************************************************)
(* The network and the controller                                          *)
(***************************************************************************)
At(flow, stage) == flow # None /\ flow.stage = stage

\* waitForIdle resolves: no refresh and no broadcast is under way.
QuietNow ==
    \A flow \in {send, rbf, receive} : ~At(flow, "refresh") /\ ~At(flow, "network")

\* Mutant of ScanRequirements: the controller is not given the manager's.
ScanRequirements_None(chain) == -1

\* scanRequirements: the highest index ever issued on a chain.
ScanRequirements(chain) == Max({-1} \cup issuedIndices[chain])

\* A flow awaits the next promise.
Goto(stage, own, known) ==
    send' = [kind |-> send.kind, stage |-> stage, closure |-> send.closure,
             own |-> own, known |-> known]
ReceiveGoto(stage, own) ==
    receive' = [stage |-> stage, own |-> own, known |-> receive.known]
RbfGoto(stage, tx) ==
    rbf' = [kind |-> rbf.kind, stage |-> stage, closure |-> rbf.closure,
            quote |-> rbf.quote, tx |-> tx]

\* A snapshot read from the server.  Only a full scan extends the chains: the
\* gap behind the last used address, and every issued address.
Scan(full) ==
    LET used == paid \cup Paid(relayed)
    IN  [scannedAt |-> snapshot.scannedAt + 1,
         coins |-> Coin \ Spent(relayed),
         used |-> used,
         pending |-> mempool,
         reach |-> [c \in Chain |->
            IF ~full \/ c = "primary" THEN snapshot.reach[c]
            ELSE Max({snapshot.reach[c], LastUsed(used, c) + Gap,
                      ScanRequirements(c)})]]

\* A sync the dashboard did not ask for, of some addresses or of all; the
\* manual refresh; the tracking poll.
Sync ==
    /\ QuietNow /\ aside < MaxAside /\ aside' = aside + 1
    /\ \E full \in BOOLEAN :
         /\ full \/ ready
         /\ snapshot' = Scan(full)
    /\ ready' = TRUE
    /\ UNCHANGED <<hd, network, manager, panel, dialog, receiving, send, rbf,
                   accepted, reserved>>

\* The refresh that flows asked for: it starts when no broadcast is under way
\* and succeeds or fails; every flow that asked for one then goes on.
Rescan ==
    /\ At(send, "refresh") \/ At(receive, "refresh")
    /\ ~At(send, "network") /\ ~At(rbf, "network")
    /\ \/ ready' = TRUE /\ snapshot' = Scan(TRUE)
       \/ ready' = FALSE /\ UNCHANGED snapshot
    /\ IF At(send, "refresh") THEN Goto("resume", send.own, send.known) ELSE UNCHANGED send
    /\ IF At(receive, "refresh") THEN ReceiveGoto("resume", receive.own) ELSE UNCHANGED receive
    /\ UNCHANGED <<hd, network, aside, manager, panel, dialog, issuedAddress,
                   addressBusy, rbf, accepted, reserved>>

\* A read fails or the connection is lost: the record is stale.
GoStale ==
    /\ ready /\ ready' = FALSE /\ aside < MaxAside
    /\ UNCHANGED <<hd, network, snapshot, aside, manager, panel, dialog,
                   receiving, send, rbf, accepted, reserved>>

\* A block takes a transaction.
Confirm(tx) ==
    /\ mempool' = mempool \ {tx} /\ buried' = buried \cup tx.inputs
    /\ UNCHANGED <<hd, relayed, paid, controller, manager, panel, dialog,
                   receiving, send, rbf, accepted, reserved>>

\* Someone pays the address that is being reserved: another device with the
\* same phrase gave it out.
Pay ==
    /\ receive # None /\ receive.own # None /\ Cardinality(paid) < MaxPaid
    /\ paid' = paid \cup {receive.own}
    /\ UNCHANGED <<hd, relayed, mempool, buried, controller, manager, panel,
                   dialog, receiving, send, rbf, accepted, reserved>>

\* The server takes a transaction; what it conflicts with is replaced.
Relay(tx) ==
    /\ tx.inputs \cap buried = {}
    /\ relayed' = relayed \cup {tx}
    /\ mempool' = {m \in mempool : m.inputs \cap tx.inputs = {}} \cup {tx}
    /\ UNCHANGED <<buried, paid>>

\* The snapshot once tx has taken the place of original.
Projection(coins, tx, original) ==
    [scannedAt |-> snapshot.scannedAt + 1, coins |-> coins,
     used |-> snapshot.used \cup Paid({tx}),
     pending |-> (snapshot.pending \ {original}) \cup {tx},
     reach |-> snapshot.reach]

\* Mutant of Projected: the coins stay in the snapshot until the next sync.
Projected_KeepsInputs(tx, original) ==
    Projection(snapshot.coins, tx, original)

\* projectAcceptedTransparentTransaction, projectReplacementTransparentTransaction
Projected(tx, original) ==
    Projection(snapshot.coins \ tx.inputs, tx, original)

\* validateAcceptedTransaction: the snapshot has the inputs and the outputs.
Acceptable(tx) ==
    /\ ready /\ tx.inputs \subseteq snapshot.coins
    /\ tx.own # None => Covered(snapshot, tx.own)

\* validateReplacementTransaction
Replaceable(tx, original) ==
    /\ ready /\ original \in snapshot.pending
    /\ tx.inputs \cap snapshot.coins = {}
    /\ Covered(snapshot, tx.own)

(***************************************************************************)
(* The address manager                                                     *)
(***************************************************************************)
\* remember
Remember(a) ==
    /\ issued' = [issued EXCEPT ![a.chain] = a.index]
    /\ issuedIndices' = [issuedIndices EXCEPT ![a.chain] = @ \cup {a.index}]

\* Mutant of CurrentOrReserve: a current address is returned even if used.
CurrentOrReserve_Sticky(known, chain) ==
    [chain |-> chain, index |-> IF issued[chain] # -1 THEN issued[chain]
                                ELSE LastUsed(known.used, chain) + 1]

\* The address currentOrReserve returns; it is remembered unless it is current.
CurrentOrReserve(known, chain) ==
    [chain |-> chain, index |-> IF issued[chain] > LastUsed(known.used, chain)
                                THEN issued[chain]
                                ELSE LastUsed(known.used, chain) + 1]

\* Mutant of ReserveNext: the first unused address of the snapshot, issued or
\* not.
ReserveNext_Unused(known, chain) ==
    [chain |-> chain, index |-> LastUsed(known.used, chain) + 1]

\* reserveNext: the lowest receive address neither issued nor used; on an
\* internal chain the one above all of them.
ReserveNext(known, chain) ==
    [chain |-> chain,
     index |-> IF chain = "receive"
               THEN Min({i \in 0 .. MaxIndex : /\ i \notin issuedIndices[chain]
                                               /\ [chain |-> chain, index |-> i] \notin known.used})
               ELSE Larger(LastUsed(known.used, chain), issued[chain]) + 1]

\* The bounds leave room for what a click may remember and reserve.
Room ==
    \A chain \in Internal :
        Larger(LastUsed(Paid(relayed), chain), issued[chain]) < MaxIndex
RoomToReserve ==
    BagCardinality(reserved) + Len(reservationQueue) < MaxReserved
RoomInternal == Room /\ RoomToReserve
RoomReceive ==
    RoomToReserve /\ Cardinality(issuedIndices["receive"]) + MaxPaid <= MaxIndex

(***************************************************************************)
(* Flows of the send and the consolidation panel                           *)
(***************************************************************************)
\* setSendBusy(true) and the first await.
Begin(kind, closure) ==
    /\ sendBusy' = TRUE
    /\ send' = [kind |-> kind, stage |-> "idle", closure |-> closure,
                own |-> None, known |-> None]

\* Mutant of Finish: the panel is not given back.
Finish_StaysBusy == UNCHANGED sendBusy /\ send' = None

\* finally: setSendBusy(false)
Finish == sendBusy' = FALSE /\ send' = None

\* What lies behind the dialog and the scan gate takes no clicks.
Shown == ready /\ receipt = None
\* status is "ready"
StatusReady == Shown /\ ~At(receive, "refresh")

unclicked == <<hd, network, controller, manager, receiving, rbf, accepted, reserved>>

\* updateRecipient, adding and removing recipients, the fee fields; they are
\* not disabled while a flow runs.  invalidateSend.
Edit ==
    /\ Shown
    /\ form' \in Forms \ {form}
    /\ sendPreview' = None /\ preparedSend' = None
    /\ consolidationPreview' = None /\ preparedConsolidation' = None
    /\ broadcasted' = {}
    /\ UNCHANGED <<unclicked, sendBusy, dialog, send>>

\* Mutant of PreviewSend: a transaction already signed stays on the panel.
PreviewSend_KeepsSigned ==
    /\ StatusReady /\ ~sendBusy /\ snapshot.coins # {} /\ Room
    /\ Begin("preview", form)
    /\ sendPreview' = None /\ UNCHANGED preparedSend
    /\ consolidationPreview' = None /\ preparedConsolidation' = None
    /\ broadcasted' = {}
    /\ UNCHANGED <<unclicked, form, dialog>>

PreviewSend ==
    /\ StatusReady /\ ~sendBusy /\ snapshot.coins # {} /\ Room
    /\ Begin("preview", form)
    /\ sendPreview' = None /\ preparedSend' = None
    /\ consolidationPreview' = None /\ preparedConsolidation' = None
    /\ broadcasted' = {}
    /\ UNCHANGED <<unclicked, form, dialog>>

Fixed(outputs) == SubSeq(outputs, 1, Len(outputs) - 1)

\* shouldOfferMaxForRecipient, for the last recipient
OfferMax ==
    \/ Len(form.outputs) = 1
    \/ Total(snapshot.coins) - Amount(Fixed(form.outputs)) >= Dust

ApplyMax ==
    /\ Shown /\ ~sendBusy /\ snapshot.coins # {} /\ OfferMax /\ Room
    /\ Begin("max", form)
    /\ preparedSend' = None
    /\ UNCHANGED <<unclicked, form, sendPreview, consolidationPreview,
                   preparedConsolidation, broadcasted, dialog>>

SignSend ==
    /\ Shown /\ ~sendBusy /\ sendPreview # None /\ preparedSend = None
    /\ Begin("sign", sendPreview)
    /\ UNCHANGED <<unclicked, form, sendPreview, preparedSend,
                   consolidationPreview, preparedConsolidation, broadcasted, dialog>>

BroadcastSend ==
    /\ StatusReady /\ ~sendBusy /\ preparedSend # None
    /\ Cardinality(relayed) < MaxTxs /\ RoomInternal
    /\ Begin("broadcast", [tx |-> preparedSend, review |-> sendPreview])
    /\ UNCHANGED <<unclicked, form, sendPreview, preparedSend,
                   consolidationPreview, preparedConsolidation, broadcasted, dialog>>

CancelPreparedSend ==
    /\ Shown /\ ~sendBusy /\ preparedSend # None
    /\ preparedSend' = None /\ sendPreview' = None
    /\ UNCHANGED <<unclicked, form, consolidationPreview, preparedConsolidation,
                   broadcasted, sendBusy, dialog, send>>

\* The consolidation panel is shown for a wallet of many coins.
Fragmented == Cardinality(snapshot.coins) >= MinUtxos

PreviewConsolidation ==
    /\ StatusReady /\ ~sendBusy /\ Fragmented /\ consolidationPreview = None
    /\ RoomInternal
    /\ Begin("plan", form.rate)
    /\ sendPreview' = None /\ preparedSend' = None
    /\ preparedConsolidation' = None /\ broadcasted' = {}
    /\ UNCHANGED <<unclicked, form, consolidationPreview, dialog>>

SignConsolidation ==
    /\ Shown /\ ~sendBusy /\ Fragmented
    /\ consolidationPreview # None /\ preparedConsolidation = None
    /\ Begin("signPlan", consolidationPreview)
    /\ UNCHANGED <<unclicked, form, sendPreview, preparedSend,
                   consolidationPreview, preparedConsolidation, broadcasted, dialog>>

\* The first transaction of the batch that was not broadcast yet.
BroadcastNextConsolidation ==
    /\ StatusReady /\ ~sendBusy /\ Fragmented
    /\ consolidationPreview # None /\ preparedConsolidation # None
    /\ Cardinality(relayed) < MaxTxs
    /\ \E i \in DOMAIN preparedConsolidation :
         /\ preparedConsolidation[i] \notin broadcasted
         /\ \A j \in 1 .. i - 1 : preparedConsolidation[j] \in broadcasted
         /\ sendBusy' = TRUE
         /\ send' = [kind |-> "next", stage |-> "submit",
                     closure |-> [tx |-> preparedConsolidation[i], done |-> broadcasted],
                     own |-> None, known |-> None]
    /\ UNCHANGED <<unclicked, form, sendPreview, preparedSend,
                   consolidationPreview, preparedConsolidation, broadcasted, dialog>>

\* The two cancel buttons of the consolidation panel.
CancelConsolidation ==
    /\ Shown /\ ~sendBusy /\ Fragmented /\ consolidationPreview # None
    /\ preparedConsolidation # None => broadcasted = {}
    /\ consolidationPreview' = None /\ preparedConsolidation' = None
    /\ UNCHANGED <<unclicked, form, sendPreview, preparedSend, broadcasted,
                   sendBusy, dialog, send>>

Click == \/ Edit \/ PreviewSend \/ ApplyMax \/ SignSend \/ BroadcastSend
         \/ CancelPreparedSend \/ PreviewConsolidation \/ SignConsolidation
         \/ BroadcastNextConsolidation \/ CancelConsolidation

(***************************************************************************)
(* What the flows do when what they await is there                         *)
(***************************************************************************)
\* The catch of each flow, and its finally.
Fail ==
    /\ Finish
    /\ sendPreview' = IF send.kind = "preview" THEN None ELSE sendPreview
    /\ preparedSend' = IF send.kind = "sign" THEN None ELSE preparedSend
    /\ consolidationPreview' = IF send.kind = "plan" THEN None ELSE consolidationPreview
    /\ preparedConsolidation' =
         IF send.kind = "signPlan" THEN None ELSE preparedConsolidation
    /\ UNCHANGED <<form, broadcasted>>

Onward(stage, own, known) ==
    /\ Goto(stage, own, known)
    /\ UNCHANGED panel

\* changeAccountForWallet: the most modern family of a recipient.
ChangeAccount(outputs) ==
    LET families == {Family[outputs[i].to] : i \in DOMAIN outputs}
    IN  Priority[Min({i \in DOMAIN Priority : Priority[i] \in families})]

\* recipientOutputs, parseFeeRate and the addresses the change depends on.
Parsed(entered, max) ==
    /\ ValidRate(entered.rate)
    /\ \A i \in DOMAIN entered.outputs :
         /\ entered.outputs[i].to # None
         /\ entered.outputs[i].amount > 0 \/ (max /\ i = Len(entered.outputs))

\* The review of previewSend, of the transaction tx.
Previewed(tx, own, known) ==
    IF tx = None THEN Fail
    ELSE /\ Finish
         /\ sendPreview' = [outputs |-> send.closure.outputs, rate |-> send.closure.rate,
                            change |-> own, estimate |-> Estimate(tx),
                            scannedAt |-> known.scannedAt]
         /\ UNCHANGED <<form, preparedSend, consolidationPreview,
                        preparedConsolidation, broadcasted>>

WithAmount(entered, i, amount) ==
    [outputs |-> [entered.outputs EXCEPT ![i] = [to |-> entered.outputs[i].to, amount |-> amount]],
     rate |-> entered.rate]

\* The amount max of applyMax, put into the form as it is by now.
Maximised(max) ==
    LET last == Len(send.closure.outputs)
    IN  IF max = 0 THEN Fail
        ELSE /\ Finish
             /\ form' = IF last \in DOMAIN form.outputs THEN WithAmount(form, last, max)
                        ELSE form
             /\ sendPreview' = None
             /\ UNCHANGED <<preparedSend, consolidationPreview,
                            preparedConsolidation, broadcasted>>

MaxOf(coins, outputs, rate) ==
    IF coins = {} \/ (Fixed(outputs) # <<>> /\ ~Sendable(Fixed(outputs))) THEN 0
    ELSE CalculateMax(coins, Amount(Fixed(outputs)), Len(outputs), rate)

\* The review of previewConsolidation, of the transactions txs.
Planned(txs, own, known) ==
    IF txs = None THEN Fail
    ELSE /\ Finish
         /\ consolidationPreview' = [plan |-> PlanOf(txs), rate |-> send.closure,
                                     change |-> own, scannedAt |-> known.scannedAt]
         /\ UNCHANGED <<form, sendPreview, preparedSend,
                        preparedConsolidation, broadcasted>>

\* The flow has its address and a snapshot that covers it.
Ensured(own, known) ==
    CASE send.kind = "preview" ->
            Previewed(BuildSend(known.coins, send.closure.outputs, send.closure.rate, own),
                      own, known)
      [] send.kind = "max" ->
            Maximised(MaxOf(known.coins, send.closure.outputs, send.closure.rate))
      [] send.kind = "plan" ->
            Planned(Consolidate(known.coins, send.closure, own), own, known)
      [] send.kind = "broadcast" -> Onward("submit", own, known)

\* The rest of ensureSendChange and ensureTaprootReturnAddress.
Obtained(own, known) ==
    IF Covered(known, own) THEN Ensured(own, known) ELSE Onward("refresh", own, known)

afterwards == <<hd, network, dialog, receiving, rbf, accepted>>

\* ensureSendChange after waitForIdle, for a preview or a maximum.
ChangeChosen ==
    /\ At(send, "idle") /\ QuietNow /\ send.kind \in {"preview", "max"}
    /\ IF ~ready \/ ~Parsed(send.closure, send.kind = "max")
       THEN Fail /\ UNCHANGED manager
       ELSE IF ~hd THEN Ensured(Primary, snapshot) /\ UNCHANGED manager
       ELSE LET a == CurrentOrReserve(snapshot, ChangeAccount(send.closure.outputs))
            IN  IF a.index = issued[a.chain]
                THEN Obtained(a, snapshot) /\ UNCHANGED manager
                ELSE IF Covered(snapshot, a)
                THEN Obtained(a, snapshot) /\ Remember(a) /\ UNCHANGED reservationQueue
                ELSE Onward("derive", a, snapshot) /\ UNCHANGED manager
    /\ UNCHANGED <<afterwards, controller, reserved>>

\* ensureTaprootReturnAddress after waitForIdle, for a broadcast or a plan.
ReturnAsked ==
    /\ At(send, "idle") /\ QuietNow /\ send.kind \in {"broadcast", "plan"}
    /\ IF \/ ~ready
          \/ send.kind = "broadcast" /\ send.closure.review = None
          \/ send.kind = "plan" /\ ~ValidRate(send.closure)
       THEN Fail /\ UNCHANGED manager
       ELSE IF ~hd THEN Ensured(Primary, snapshot) /\ UNCHANGED manager
       ELSE /\ Onward("queued", None, snapshot)
            /\ reservationQueue' = Append(reservationQueue, "send")
            /\ UNCHANGED <<issued, issuedIndices>>
    /\ UNCHANGED <<afterwards, controller, reserved>>

Given(a) ==
    /\ Remember(a)
    /\ reservationQueue' = Tail(reservationQueue)
    /\ reserved' = reserved (+) SetToBag({a})

Turn(flow, who) ==
    At(flow, "queued") /\ reservationQueue # <<>> /\ Head(reservationQueue) = who

\* reserveNext, at its turn, for a return address.
ReturnReserved ==
    /\ Turn(send, "send")
    /\ LET a == ReserveNext(send.known, Priority[1])
       IN  IF Covered(send.known, a)
           THEN Ensured(a, send.known) /\ Given(a)
           ELSE Onward("derive", a, send.known) /\ UNCHANGED <<manager, reserved>>
    /\ UNCHANGED <<afterwards, controller>>

InQueue == send.kind \in {"broadcast", "plan"}

\* The worker derives the address.
Derived ==
    /\ At(send, "derive")
    /\ Obtained(send.own, send.known)
    /\ IF InQueue THEN Given(send.own)
       ELSE Remember(send.own) /\ UNCHANGED <<reservationQueue, reserved>>
    /\ UNCHANGED <<afterwards, controller>>

\* Mutant of DeriveFails: a failed reservation is never taken off the queue.
DeriveFails_Blocking ==
    /\ At(send, "derive")
    /\ Fail
    /\ UNCHANGED <<afterwards, controller, manager, reserved>>

\* The worker does not, and the reservation behind goes on.
DeriveFails ==
    /\ At(send, "derive")
    /\ Fail
    /\ reservationQueue' = IF InQueue THEN Tail(reservationQueue) ELSE reservationQueue
    /\ UNCHANGED <<afterwards, controller, issued, issuedIndices, reserved>>

\* The flow goes on when nothing is under way, with the snapshot there is.
Refreshed ==
    /\ At(send, "resume") /\ QuietNow
    /\ IF ready /\ Covered(snapshot, send.own) THEN Ensured(send.own, snapshot) ELSE Fail
    /\ UNCHANGED <<afterwards, controller, manager, reserved>>

\* The snapshot is the reviewed one, or SNAPSHOT_CHANGED.
Unchanged(scannedAt) == ready /\ snapshot.scannedAt = scannedAt

\* signSend and signConsolidation after waitForIdle.
SignAsked ==
    /\ At(send, "idle") /\ QuietNow /\ send.kind \in {"sign", "signPlan"}
    /\ IF Unchanged(send.closure.scannedAt)
       THEN Onward("signer", None, snapshot) ELSE Fail
    /\ UNCHANGED <<afterwards, controller, manager, reserved>>

\* The worker signs what was built from the review, or fails.
SignedSend(tx, review) ==
    /\ tx # None /\ Estimate(tx) = review.estimate
    /\ Finish /\ preparedSend' = tx
    /\ UNCHANGED <<form, sendPreview, consolidationPreview,
                   preparedConsolidation, broadcasted>>

SignedPlan(txs, review) ==
    /\ txs # None /\ PlanOf(txs) = review.plan
    /\ Finish /\ preparedConsolidation' = txs
    /\ UNCHANGED <<form, sendPreview, preparedSend, consolidationPreview, broadcasted>>

Signed ==
    /\ At(send, "signer")
    /\ LET review == send.closure
           coins == send.known.coins
       IN  \/ send.kind = "sign"
              /\ SignedSend(BuildSend(coins, review.outputs, review.rate, review.change), review)
           \/ send.kind = "signPlan"
              /\ SignedPlan(Consolidate(coins, review.rate, review.change), review)
           \/ Fail
    /\ UNCHANGED <<afterwards, controller, manager, reserved>>

\* controller.broadcastTransaction up to the call of the server.
Submit ==
    /\ At(send, "submit") /\ QuietNow
    /\ IF Acceptable(send.closure.tx) THEN Onward("network", send.own, send.known)
       ELSE Fail
    /\ UNCHANGED <<afterwards, controller, manager, reserved>>

\* The server takes the transaction and says so: the rest of broadcastSend or
\* of broadcastNextConsolidation.
Accepted ==
    /\ At(send, "network")
    /\ LET tx == send.closure.tx
           plain == send.kind = "broadcast"
       IN  /\ Relay(tx)
           /\ snapshot' = Projected(tx, None) /\ ready' = TRUE
           /\ accepted' = accepted \cup {[tx |-> tx, original |-> None]}
           /\ receipt' = [tx |-> tx, original |-> None,
                          rbf |-> IF plain THEN [own |-> send.own, coins |-> send.known.coins]
                                  ELSE None]
           /\ IF plain
              THEN /\ form' = EmptyForm(form.rate)
                   /\ sendPreview' = None /\ preparedSend' = None
                   /\ UNCHANGED broadcasted
              ELSE /\ broadcasted' = send.closure.done \cup {tx}
                   /\ UNCHANGED <<form, sendPreview, preparedSend>>
    /\ Finish /\ rbfQuote' = None
    /\ UNCHANGED <<hd, aside, manager, consolidationPreview, preparedConsolidation,
                   rbfBusy, receiving, rbf, reserved>>

\* The server refuses, or takes it and the answer is lost.
BroadcastFails ==
    /\ At(send, "network")
    /\ Fail
    /\ UNCHANGED network \/ Relay(send.closure.tx)
    /\ UNCHANGED <<hd, controller, manager, dialog, receiving, rbf, accepted, reserved>>

SendStep == \/ ChangeChosen \/ ReturnAsked \/ ReturnReserved \/ Derived
            \/ DeriveFails \/ Refreshed \/ SignAsked \/ Signed \/ Submit
            \/ Accepted \/ BroadcastFails

(***************************************************************************)
(* The dialog of a broadcast: cancelling by replacement                    *)
(***************************************************************************)
indialog == <<hd, manager, panel, send, receiving, reserved>>

PrepareRbf ==
    /\ receipt # None /\ receipt.rbf # None /\ rbfQuote = None /\ ~rbfBusy
    /\ ready /\ receipt.tx \in snapshot.pending
    /\ rbfBusy' = TRUE
    /\ rbf' = [kind |-> "quote", stage |-> "idle", closure |-> receipt, quote |-> None, tx |-> None]
    /\ UNCHANGED <<indialog, network, controller, receipt, rbfQuote, accepted>>

BroadcastRbf ==
    /\ receipt # None /\ receipt.rbf # None /\ rbfQuote # None /\ ~rbfBusy
    /\ Cardinality(relayed) < MaxTxs
    /\ rbfBusy' = TRUE
    /\ rbf' = [kind |-> "replace", stage |-> "idle", closure |-> receipt, quote |-> rbfQuote, tx |-> None]
    /\ UNCHANGED <<indialog, network, controller, receipt, rbfQuote, accepted>>

CancelRbf ==
    /\ rbfQuote # None /\ ~rbfBusy /\ rbfQuote' = None
    /\ UNCHANGED <<indialog, network, controller, receipt, rbfBusy, rbf, accepted>>

\* Mutant of CloseBroadcastDialog: it closes while a flow of its own runs.
CloseBroadcastDialog_Anytime ==
    /\ receipt # None
    /\ receipt' = None /\ rbfQuote' = None
    /\ UNCHANGED <<indialog, network, controller, rbfBusy, rbf, accepted>>

CloseBroadcastDialog ==
    /\ receipt # None /\ ~rbfBusy
    /\ receipt' = None /\ rbfQuote' = None
    /\ UNCHANGED <<indialog, network, controller, rbfBusy, rbf, accepted>>

RbfOver == rbfBusy' = FALSE /\ rbf' = None

\* Both flows after waitForIdle: the original is still unconfirmed.
RbfIdle ==
    /\ At(rbf, "idle") /\ QuietNow
    /\ IF ready /\ rbf.closure.tx \in snapshot.pending
       THEN /\ RbfGoto(IF rbf.kind = "quote" THEN "rate" ELSE "signer", None)
            /\ UNCHANGED <<rbfQuote, rbfBusy>>
       ELSE RbfOver /\ rbfQuote' = IF rbf.kind = "quote" THEN None ELSE rbfQuote
    /\ UNCHANGED <<indialog, network, controller, receipt, accepted>>

\* estimateHighPriorityFeeRate answers or fails.
HighPriorityRate == {DefaultRate} \cup {AddRbfNetworkFeeMargin(r) : r \in NetworkRate}

Quoted ==
    /\ At(rbf, "rate") /\ RbfOver
    /\ \E rate \in HighPriorityRate :
         rbfQuote' = IF rbf.closure.tx.inputs \subseteq rbf.closure.rbf.coins
                     THEN RbfQuote(rbf.closure.tx, rate) ELSE None
    /\ UNCHANGED <<indialog, network, controller, receipt, accepted>>

\* The worker signs the replacement that was quoted, or the flow fails.
RbfTaken(tx) ==
    /\ tx # None /\ tx.fee = rbf.quote.fee /\ tx.ownValue = rbf.quote.output
    /\ RbfGoto("submit", tx)
    /\ UNCHANGED rbfBusy

RbfSigned ==
    /\ At(rbf, "signer")
    /\ \/ RbfTaken(BuildRbf(rbf.closure.tx, rbf.quote.rate, rbf.closure.rbf.own))
       \/ RbfOver
    /\ UNCHANGED <<indialog, network, controller, receipt, rbfQuote, accepted>>

RbfSubmit ==
    /\ At(rbf, "submit") /\ QuietNow
    /\ IF Replaceable(rbf.tx, rbf.closure.tx)
       THEN RbfGoto("network", rbf.tx) /\ UNCHANGED rbfBusy
       ELSE RbfOver
    /\ UNCHANGED <<indialog, network, controller, receipt, rbfQuote, accepted>>

RbfAccepted ==
    /\ At(rbf, "network") /\ RbfOver
    /\ Relay(rbf.tx)
    /\ snapshot' = Projected(rbf.tx, rbf.closure.tx) /\ ready' = TRUE
    /\ accepted' = accepted \cup {[tx |-> rbf.tx, original |-> rbf.closure.tx]}
    /\ receipt' = [tx |-> rbf.tx, rbf |-> None, original |-> rbf.closure.tx]
    /\ rbfQuote' = None
    /\ UNCHANGED <<indialog, aside>>

RbfFails ==
    /\ At(rbf, "network") /\ RbfOver
    /\ UNCHANGED network \/ Relay(rbf.tx)
    /\ UNCHANGED <<indialog, controller, receipt, rbfQuote, accepted>>

DialogClick == PrepareRbf \/ BroadcastRbf \/ CancelRbf \/ CloseBroadcastDialog
RbfStep == RbfIdle \/ Quoted \/ RbfSigned \/ RbfSubmit \/ RbfAccepted \/ RbfFails

(***************************************************************************)
(* The receive panel                                                       *)
(***************************************************************************)
meanwhile == <<hd, network, panel, dialog, send, rbf, accepted>>

\* The effect that shows the first address, with currentOrPrimary.
ShowPrimary ==
    /\ hd /\ ready /\ issuedAddress = None
    /\ LET a == [chain |-> "receive", index |-> Larger(issued["receive"], 0)]
       IN  Remember(a) /\ issuedAddress' = a
    /\ UNCHANGED <<meanwhile, controller, reservationQueue, addressBusy, receive, reserved>>

ReserveNewAddress ==
    /\ StatusReady /\ ~At(send, "refresh") /\ hd /\ issuedAddress # None
    /\ ~addressBusy /\ RoomReceive
    /\ aside < MaxAside /\ aside' = aside + 1
    /\ addressBusy' = TRUE
    /\ receive' = [stage |-> "queued", own |-> None, known |-> snapshot]
    /\ reservationQueue' = Append(reservationQueue, "receive")
    /\ UNCHANGED <<meanwhile, ready, snapshot, issued, issuedIndices, issuedAddress, reserved>>

Ended(shown) == issuedAddress' = shown /\ addressBusy' = FALSE /\ receive' = None

\* reserveNext at its turn: a covered address is shown at once.
ReceiveReserved ==
    /\ Turn(receive, "receive")
    /\ LET a == ReserveNext(receive.known, "receive")
       IN  IF Covered(receive.known, a)
           THEN Given(a) /\ Ended(a)
           ELSE /\ ReceiveGoto("derive", a)
                /\ UNCHANGED <<manager, issuedAddress, addressBusy, reserved>>
    /\ UNCHANGED <<meanwhile, controller>>

ReceiveDerived ==
    /\ At(receive, "derive")
    /\ Given(receive.own)
    /\ ReceiveGoto("refresh", receive.own)
    /\ UNCHANGED <<meanwhile, controller, issuedAddress, addressBusy>>

ReceiveDeriveFails ==
    /\ At(receive, "derive")
    /\ reservationQueue' = Tail(reservationQueue)
    /\ Ended(issuedAddress)
    /\ UNCHANGED <<meanwhile, controller, issued, issuedIndices, reserved>>

\* Mutant of ReceiveRefreshed: the address is shown without a look at the scan.
ReceiveRefreshed_Unchecked ==
    /\ At(receive, "resume") /\ QuietNow
    /\ Ended(receive.own)
    /\ UNCHANGED <<meanwhile, controller, manager, reserved>>

\* The flow goes on: the address is shown if the scan covers it and found it
\* unused; a used one makes the loop reserve the next.
ReceiveRefreshed ==
    /\ At(receive, "resume") /\ QuietNow
    /\ IF ~ready \/ ~Covered(snapshot, receive.own)
       THEN Ended(issuedAddress) /\ UNCHANGED manager
       ELSE IF receive.own \in snapshot.used
       THEN /\ receive' = [stage |-> "queued", own |-> None, known |-> snapshot]
            /\ reservationQueue' = Append(reservationQueue, "receive")
            /\ UNCHANGED <<issued, issuedIndices, issuedAddress, addressBusy>>
       ELSE Ended(receive.own) /\ UNCHANGED manager
    /\ UNCHANGED <<meanwhile, controller, reserved>>

ReceiveStep == \/ ReceiveReserved \/ ReceiveDerived \/ ReceiveDeriveFails
               \/ ReceiveRefreshed

(***************************************************************************)
(* The specification                                                       *)
(***************************************************************************)
Environment ==
    \/ Sync \/ Rescan \/ GoStale
    \/ \E tx \in mempool : Confirm(tx)
    \/ Pay

Next == \/ Environment \/ Click \/ SendStep \/ DialogClick \/ RbfStep
        \/ ShowPrimary \/ ReserveNewAddress \/ ReceiveStep

Spec == Init /\ [][Next]_vars

(***************************************************************************)
(* Properties                                                              *)
(***************************************************************************)
Outputs == Seq([to : Recipient \cup {None}, amount : Nat])
Form == [outputs : Outputs, rate : Nat]
Tx == [inputs : SUBSET Coin, outputs : Outputs, own : Address \cup {None},
       pieces : Nat, ownValue : Nat, fee : Nat]
Snapshot == [scannedAt : Nat, coins : SUBSET Coin, used : SUBSET Address,
             pending : SUBSET Tx, reach : [Chain -> 0 .. MaxIndex + Gap]]
Estimated == [fee : Nat, inputs : Nat, outputs : Nat, changeUsed : BOOLEAN]
Review == [outputs : Outputs, rate : 1 .. MaxRate, change : Address,
           estimate : Estimated, scannedAt : Nat]
PlanReview == [plan : [inputs : Nat, outputs : Nat, fee : Nat], rate : 1 .. MaxRate,
               change : Address, scannedAt : Nat]
Receipt == [tx : Tx, original : Tx \cup {None},
            rbf : [own : Address, coins : SUBSET Coin] \cup {None}]
Quote == [fee : Nat, rate : Nat, output : Nat, bytes : Nat]
Awaited == {"idle", "queued", "derive", "refresh", "resume", "signer", "rate", "submit", "network"}

\* The flows in flight, by what they captured.
Kind == {"preview", "max", "sign", "broadcast", "plan", "signPlan", "next"}
Closure == Form \cup Nat \cup Review \cup PlanReview
           \cup [tx : Tx, review : Review \cup {None}] \cup [tx : Tx, done : SUBSET Tx]
PanelFlow == [kind : Kind, stage : Awaited, closure : Closure,
              own : Address \cup {None}, known : Snapshot \cup {None}]
RbfFlow == [kind : {"quote", "replace"}, stage : Awaited, closure : Receipt,
            quote : Quote \cup {None}, tx : Tx \cup {None}]
ReceiveFlow == [stage : Awaited, own : Address \cup {None}, known : Snapshot]

ASSUME NoneIsNoRecord ==
    /\ None \notin Snapshot
    /\ None \notin PanelFlow /\ None \notin RbfFlow /\ None \notin ReceiveFlow

TypeOK ==
    /\ hd \in BOOLEAN /\ ready \in BOOLEAN /\ aside \in 0 .. MaxAside
    /\ relayed \subseteq Tx /\ mempool \subseteq relayed
    /\ Cardinality(relayed) <= MaxTxs
    /\ buried \subseteq Coin /\ paid \subseteq Address
    /\ snapshot \in Snapshot
    /\ issued \in [Chain -> -1 .. MaxIndex]
    /\ issuedIndices \in [Chain -> SUBSET (0 .. MaxIndex)]
    /\ reservationQueue \in Seq({"send", "receive"}) /\ Len(reservationQueue) <= 2
    /\ form \in Form /\ sendPreview \in Review \cup {None}
    /\ preparedSend \in Tx \cup {None}
    /\ consolidationPreview \in PlanReview \cup {None}
    /\ preparedConsolidation \in Seq(Tx) \cup {None}
    /\ broadcasted \subseteq relayed
    /\ sendBusy = (send # None) /\ rbfBusy = (rbf # None) /\ addressBusy = (receive # None)
    /\ receipt \in Receipt \cup {None} /\ rbfQuote \in Quote \cup {None}
    /\ issuedAddress \in Address \cup {None}
    /\ send # None => send.stage \in Awaited
    /\ rbf # None => rbf.stage \in Awaited
    /\ receive # None => receive.stage \in Awaited
    /\ IsABag(reserved) /\ BagToSet(reserved) \subseteq Address

\* What a review promises of the transaction signed after it.
AsReviewed(tx, review) ==
    /\ tx.outputs = review.outputs /\ Estimate(tx) = review.estimate
    /\ tx.own \in {review.change, None}

\* The transaction ready to be broadcast is the one the panel shows, however
\* edits, previews and signatures overlap; and what is being broadcast was
\* under review when it was (wallet-dashboard.tsx:914-946, 1013-1020, 1037).
SignedIsReviewed ==
    /\ preparedSend # None /\ sendPreview # None => AsReviewed(preparedSend, sendPreview)
    /\ preparedConsolidation # None /\ consolidationPreview # None
         => PlanOf(preparedConsolidation) = consolidationPreview.plan
    /\ send # None /\ send.kind = "broadcast" /\ send.stage # "idle"
         => AsReviewed(send.closure.tx, send.closure.review)

\* No two transactions the wallet knows to be accepted spend the same coin,
\* except one that was made to replace the other: a second send or a
\* consolidation never cancels an earlier send by accident
\* (transparentBroadcast.ts:83-149).
NoSelfConflict ==
    \A a, b \in accepted :
        a.tx # b.tx /\ a.tx.inputs \cap b.tx.inputs # {}
            => a.original = b.tx \/ b.original = a.tx

\* The quote on the dialog is for the transaction on the dialog: it returns all
\* that its inputs hold but the fee, and the fee outbids the one paid, however
\* quotes, closing and broadcasts follow each other
\* (wallet-dashboard.tsx:283-287, 1094-1141, transparentSend.ts:1019-1072).
QuoteFitsReceipt ==
    rbfQuote # None =>
        /\ receipt # None /\ receipt.rbf # None
        /\ rbfQuote.output + rbfQuote.fee = Total(receipt.tx.inputs)
        /\ rbfQuote.fee > receipt.tx.fee

\* Change and returned coins never go twice to one address of an HD wallet;
\* the transactions of one consolidation share theirs (addressManager.ts:131-152).
ChangeNotReused ==
    hd => \A a, b \in accepted :
            a # b /\ a.tx.own # None /\ a.tx.own = b.tx.own
                => /\ a.tx.outputs = <<>> /\ a.original = None
                   /\ b.tx.outputs = <<>> /\ b.original = None

\* reserveNew never gives an address twice, whatever the snapshot of each call
\* and whichever reservations fail (addressManager.test.ts:123, 175).
NeverGivenTwice == \A a \in BagToSet(reserved) : reserved[a] = 1

\* An address shown to be paid is one the snapshot covers, then and later
\* (wallet-dashboard.tsx:620-686).
ShownIsScanned == issuedAddress # None => Covered(snapshot, issuedAddress)

\* A flow that asked for a refresh finds its address covered, whatever else was
\* broadcast or synced meanwhile, if the wallet is ready at all
\* (addressManager.ts:105-115, walletNetworkController.ts:580-592).
RefreshCovers ==
    \A flow \in {send, receive} :
        At(flow, "resume") /\ ready => Covered(snapshot, flow.own)

\* MAX offers the most that can be sent: it fits, and one unit more does not
\* (transparentSend.ts:513-553).
MaxIsMost ==
    [][ At(send, "idle") /\ send.kind = "max" /\ send' = None /\ form' # form =>
          LET n == Len(send.closure.outputs)
              fixed == Amount(Fixed(send.closure.outputs))
              max == form'.outputs[n].amount
          IN  /\ Fits(snapshot.coins, fixed + max, n, send.closure.rate)
              /\ ~Fits(snapshot.coins, fixed + max + 1, n, send.closure.rate) ]_vars

\* A flow that does not wait for another one; who is its name in the queue.
GoesOn(flow, who) ==
    CASE flow.stage \in {"idle", "resume", "submit"} -> QuietNow
      [] flow.stage = "queued" -> reservationQueue # <<>> /\ Head(reservationQueue) = who
      [] flow.stage = "refresh" -> ~At(send, "network") /\ ~At(rbf, "network")
      [] OTHER -> TRUE

\* The flows of the panels never all wait for each other, be it for a
\* reservation that failed, for a refresh or for a broadcast; and only a busy
\* flow holds the queue (addressManager.ts:141-150,
\* walletNetworkController.ts:430-436).
NoGridlock ==
    LET busy == {f \in {<<send, "send">>, <<rbf, "rbf">>, <<receive, "receive">>} : f[1] # None}
    IN  /\ busy # {} => \E f \in busy : GoesOn(f[1], f[2])
        /\ busy = {} => reservationQueue = <<>>
=============================================================================
