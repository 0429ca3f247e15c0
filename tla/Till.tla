-------------------------------- MODULE Till --------------------------------
(***************************************************************************)
(* Orders and the payment legs that settle them: Checkout, the M-Pesa      *)
(* push, manual confirmation, tab settlement, void and the provider's      *)
(* callbacks (internal/services/orders.go, customers.go, sweeper.go,       *)
(* payments_buni_cloud.go).                                                *)
(*                                                                         *)
(* A database transaction is one step: the till opens SQLite with          *)
(* _txlock=immediate, so write transactions run one after another.  A      *)
(* handler that reads first and writes later, or talks to the provider in  *)
(* between, is several steps, and anything may happen between two of them. *)
(* Such a handler occupies a request slot, which remembers what it read.   *)
(*                                                                         *)
(* Every order sells one unit of every member of Goods to a customer on    *)
(* file.  The part of an M-Pesa split paid on the spot is store credit; a  *)
(* cash part would book nothing but its row.  Order numbers, credit        *)
(* limits, gift cards and the events sent to other tills are kept out of   *)
(* this module.                                                            *)
(***************************************************************************)
EXTENDS Integers, FiniteSets, FiniteSetsExt

CONSTANTS Orders,      \* order ids
          Legs,        \* rows of payments, ids in order of insertion
          Requests,    \* handlers that can be in flight at once
          Goods,       \* products in every basket
          Tracked,     \* those with track_stock = 1
          OnHand,      \* units of each product on the shelf at first
          Prompts,     \* checkouts the providers can open
          Relayed,     \* those opened through the cloud (id prefix "BUNI-");
                       \* the others are the local provider's
          Slips,       \* receipt codes of payments made at the paybill
          Total,       \* the payable of an order, in cents
          CreditPart,  \* what a split order takes from store credit
          Spend,       \* points redeemed at checkout
          Earn,        \* points earned when the order is paid
          MaxCrashes,  \* bound on process deaths
          None

ASSUME TillAssumption ==
    /\ Legs \subseteq Nat
    /\ Tracked \subseteq Goods /\ IsFiniteSet(Orders)
    /\ OnHand \in Nat
    /\ Total \in Nat /\ CreditPart \in 1..(Total - 1)
    /\ Spend \in Nat /\ Earn \in Nat
    /\ Relayed \subseteq Prompts
    /\ MaxCrashes \in Nat
    /\ None \notin Orders \cup Legs \cup Prompts \cup Slips

VARIABLES status,   \* orders.status, "none" before the order exists
          flagged,  \* the orders with discrepancy = 1
          pay,      \* payments
          stock,    \* products.stock_qty
          debt,     \* what an order's customer_ledger rows add up to:
          credit,   \* owed, store credit moved and points moved
          points,
          posted,   \* the orders with a "tab settled" ledger row
          req,      \* request slots
          prompt,   \* external: what became of the checkouts the provider opened
          taken,    \* history: goods the order took off the shelf
          wins,     \* history: times the order's PAID effects have run
          crashes

books == <<status, flagged, stock, debt, credit, points, posted, taken, wins>>
vars == <<status, flagged, pay, stock, debt, credit, points, posted, req, prompt, taken,
          wins, crashes>>

\* A checkout id also names the receipt code of the payment made through it.
Codes == Prompts \cup Slips

\* What became of a checkout the customer paid.  One of the cloud's is an
\* event there ("paid") until a till claims it, which no till can do again:
\* the claimed event is applied ("spent") or lost ("dropped").
Settled == {"paid", "claimed", "spent", "dropped"}

\* The codes a cashier can read off a customer's phone.
Known == Slips \cup {c \in Prompts : prompt[c] \in Settled}

RoundToShilling(cents) == ((cents + 50) \div 100) * 100

(***************************************************************************)
(* Payment rows.  "stk" and "manual" are both method 'mpesa'; only an      *)
(* "stk" leg has the customer's phone number on it.                        *)
(***************************************************************************)
Leg(o, kind, state, cents) ==
    [of |-> o, kind |-> kind, state |-> state, cents |-> cents,
     receipt |-> None, bound |-> None]

NoLeg == Leg(None, "none", "none", 0)

LegsOf(o) == {l \in Legs : pay[l].of = o}
In(o, state) == {l \in LegsOf(o) : pay[l].state = state}
Mpesa == {"stk", "manual"}
Tab(o) == \E l \in LegsOf(o) : pay[l].kind = "account"

\* What a set of an order's legs holds of store credit; Checkout gives an
\* order at most one credit leg.
CreditLegs(S) == {l \in S : pay[l].kind = "credit"}
AnyOf(S) == CHOOSE l \in S : TRUE
CreditIn(S) == IF CreditLegs(S) = {} THEN 0 ELSE pay[AnyOf(CreditLegs(S))].cents

\* The next row ids of payments.
Fresh(l) == pay[l].kind = "none" /\ \A k \in Legs : k < l => pay[k].kind # "none"

\* The handlers loop over order.Payments and keep the last match.
Last(S) == {l \in S : \A k \in S : k <= l}

InState(row, state) == [row EXCEPT !.state = state]
PaidBy(row, code) == [row EXCEPT !.state = "COMPLETED", !.receipt = code]

\* The guarded UPDATE ... WHERE status = 'PENDING' of every failure path.
Fail(l) ==
    pay' = IF pay[l].state = "PENDING" THEN [pay EXCEPT ![l] = InState(@, "FAILED")] ELSE pay

(***************************************************************************)
(* Stock.  A checkout that cannot be covered is refused; a completion      *)
(* takes what it can and flags the rest.                                   *)
(***************************************************************************)
CoveredUnguarded == Tracked                        \* mutant: no "AND stock_qty >= ?"
Covered == {g \in Tracked : stock[g] >= 1}
Sell(S) == [g \in Goods |-> stock[g] - (IF g \in S THEN 1 ELSE 0)]

(***************************************************************************)
(* A request slot: where its handler is, and what the handler remembers.   *)
(* ref is a receipt code, or the checkout id PushBind has to store; after  *)
(* says whether a tab settlement is still to be posted.                    *)
(***************************************************************************)
Handler(pc, o, l, ref, after) ==
    [pc |-> pc, order |-> o, leg |-> l, seen |-> {}, ref |-> ref,
     exact |-> TRUE, after |-> after]

Slot(pc, o) == Handler(pc, o, None, None, "idle")
IdleSlot == Slot("idle", None)
Idle(q) == req[q] = IdleSlot
Set(q, slot) == req' = [req EXCEPT ![q] = slot]
GoTo(q, pc) == req' = [req EXCEPT ![q].pc = pc]
End(q) == Set(q, IdleSlot)

Init ==
    /\ status = [o \in Orders |-> "none"]
    /\ flagged = {}
    /\ pay = [l \in Legs |-> NoLeg]
    /\ stock = [g \in Goods |-> OnHand]
    /\ debt = [o \in Orders |-> 0]
    /\ credit = [o \in Orders |-> 0]
    /\ points = [o \in Orders |-> 0]
    /\ posted = {}
    /\ req = [q \in Requests |-> IdleSlot]
    /\ prompt = [c \in Prompts |-> "none"]
    /\ taken = [o \in Orders |-> {}]
    /\ wins = [o \in Orders |-> 0]
    /\ crashes = 0

-----------------------------------------------------------------------------
(***************************************************************************)
(* Checkout, paid on the spot: cash, store credit, or a split of the two.  *)
(***************************************************************************)
CheckoutInstant(o) ==
    /\ status[o] = "none"
    /\ Covered = Tracked
    /\ \E l \in Legs, fromCredit \in {0, CreditPart, Total} :
          /\ Fresh(l)
          /\ IF fromCredit = CreditPart
               THEN /\ l + 1 \in Legs
                    /\ pay' = [pay EXCEPT
                         ![l]     = Leg(o, "credit", "COMPLETED", CreditPart),
                         ![l + 1] = Leg(o, "cash", "COMPLETED", Total - CreditPart)]
               ELSE pay' = [pay EXCEPT ![l] =
                         Leg(o, IF fromCredit = Total THEN "credit" ELSE "cash",
                             "COMPLETED", Total)]
          /\ credit' = [credit EXCEPT ![o] = 0 - fromCredit]
    /\ points' = [points EXCEPT ![o] = Earn - Spend]
    /\ status' = [status EXCEPT ![o] = "PAID"]
    /\ stock' = Sell(Tracked)
    /\ taken' = [taken EXCEPT ![o] = Tracked]
    /\ wins' = [wins EXCEPT ![o] = @ + 1]
    /\ UNCHANGED <<flagged, debt, posted, req, prompt, crashes>>

(***************************************************************************)
(* Checkout on the customer's tab: stock is only looked at, the balance    *)
(* moves now, the account leg waits for SettleTab.                         *)
(***************************************************************************)
CheckoutTab(o) ==
    /\ status[o] = "none"
    /\ Covered = Tracked
    /\ \E l \in Legs :
          /\ Fresh(l)
          /\ pay' = [pay EXCEPT ![l] = Leg(o, "account", "PENDING", Total)]
    /\ status' = [status EXCEPT ![o] = "PENDING"]
    /\ debt' = [debt EXCEPT ![o] = Total]
    /\ points' = [points EXCEPT ![o] = 0 - Spend]
    /\ UNCHANGED <<flagged, stock, credit, posted, req, prompt, taken, wins, crashes>>

(***************************************************************************)
(* Checkout by M-Pesa, whole or as the one asynchronous leg of a split.    *)
(* An "stk" leg asks for whole shillings and goes on to the push.          *)
(***************************************************************************)
Ask(kind, cents) == IF kind = "stk" THEN RoundToShilling(cents) ELSE cents

CheckoutMpesa(q, o) ==
    /\ Idle(q)
    /\ status[o] = "none"
    /\ \E l \in Legs, kind \in Mpesa, fromCredit \in {0, CreditPart} :
          /\ Fresh(l)
          /\ IF fromCredit = 0
               THEN pay' = [pay EXCEPT ![l] = Leg(o, kind, "PENDING", Ask(kind, Total))]
               ELSE /\ l + 1 \in Legs
                    /\ pay' = [pay EXCEPT
                         ![l]     = Leg(o, "credit", "COMPLETED", CreditPart),
                         ![l + 1] = Leg(o, kind, "PENDING", Ask(kind, Total - CreditPart))]
          /\ credit' = [credit EXCEPT ![o] = 0 - fromCredit]
          /\ IF kind = "stk" THEN Set(q, Slot("push", o)) ELSE UNCHANGED req
    /\ status' = [status EXCEPT ![o] = "PENDING"]
    /\ points' = [points EXCEPT ![o] = 0 - Spend]
    /\ UNCHANGED <<flagged, stock, debt, posted, prompt, taken, wins, crashes>>

-----------------------------------------------------------------------------
(***************************************************************************)
(* completePayment: leg l of order o is paid with the given receipt code.  *)
(* One transaction with four outcomes.                                     *)
(***************************************************************************)
AlreadyDone(l) == pay[l].state = "COMPLETED"

\* Mutant: the order's status is not looked at.
AfterVoidUnseen(l) == FALSE
AfterVoid(l) == ~AlreadyDone(l) /\ status[pay[l].of] = "VOIDED"

DuplicateUnchecked(l, code) == FALSE   \* mutant: receipts are not compared

Duplicate(l, code) ==
    /\ ~AlreadyDone(l) /\ ~AfterVoid(l)
    /\ code # None
    /\ \E k \in Legs : k # l /\ pay[k].receipt = code

LandIf(won, l, code, exact) ==
    LET o    == pay[l].of
        sold == IF won THEN Covered ELSE {}
    IN  /\ status' = IF won THEN [status EXCEPT ![o] = "PAID"] ELSE status
        /\ flagged' = IF exact /\ won /\ sold = Tracked THEN flagged ELSE flagged \cup {o}
        /\ stock' = Sell(sold)
        /\ taken' = [taken EXCEPT ![o] = @ \cup sold]
        /\ wins' = IF won THEN [wins EXCEPT ![o] = @ + 1] ELSE wins
        /\ points' = IF won THEN [points EXCEPT ![o] = @ + Earn] ELSE points
        /\ pay' = [pay EXCEPT ![l] = PaidBy(@, IF code = None THEN @.receipt ELSE code)]
        /\ UNCHANGED <<debt, credit, posted>>

\* Mutant: the UPDATE of orders without "AND status = 'PENDING'".
LandUnguarded(l, code, exact) == LandIf(TRUE, l, code, exact)
Land(l, code, exact) == LandIf(status[pay[l].of] = "PENDING", l, code, exact)

CompletePayment(l, code, exact) ==
    \/ /\ AlreadyDone(l) \/ Duplicate(l, code)
       /\ UNCHANGED <<books, pay>>
    \/ /\ AfterVoid(l)
       /\ pay' = [pay EXCEPT ![l] = InState(@, "FAILED")]
       /\ UNCHANGED books
    \/ /\ ~AlreadyDone(l) /\ ~AfterVoid(l) /\ ~Duplicate(l, code)
       /\ Land(l, code, exact)

\* The caller was told the payment stands.  (Mutant: errors are not looked at.)
AcceptedAnyway(l, code) == TRUE
Accepted(l, code) == ~AfterVoid(l) /\ ~Duplicate(l, code)

-----------------------------------------------------------------------------
(***************************************************************************)
(* InitiateSTK.  Read the order and its last pending leg; on the Buni rail *)
(* supersede the order's other M-Pesa legs; call the cloud ("call"), or    *)
(* the local provider where there is one ("ask"); bind the checkout id     *)
(* while the leg is still pending.  MpesaRoute reads the settings at every *)
(* push, so a till may change rails between two of them.                   *)
(***************************************************************************)
PushRead(q) ==
    LET o == req[q].order
    IN  /\ req[q].pc = "push"
        /\ \/ /\ status[o] = "PENDING"
              /\ \E l \in Last(In(o, "PENDING")) :
                    /\ pay[l].kind = "stk"
                    /\ \E route \in {"supersede", "ask"} :
                          Set(q, Handler(route, o, l, None, "idle"))
           \/ End(q)   \* nothing to push, no phone number, or no rail usable
        /\ UNCHANGED <<books, pay, prompt, crashes>>

\* stkPromptBusy: another leg of the order was pushed less than 75 s ago.
\* Whether it was that recent is left open.
PushBusy(q) ==
    /\ req[q].pc = "supersede"
    /\ \E k \in LegsOf(req[q].order) : k # req[q].leg /\ pay[k].bound \in Relayed
    /\ End(q)
    /\ UNCHANGED <<books, pay, prompt, crashes>>

PushSupersede(q) ==
    LET r == req[q]
    IN  /\ r.pc = "supersede"
        /\ pay' = [k \in Legs |->
                     IF k \in In(r.order, "PENDING") /\ k # r.leg /\ pay[k].kind \in Mpesa
                       THEN InState(pay[k], "FAILED") ELSE pay[k]]
        /\ GoTo(q, "call")
        /\ UNCHANGED <<books, prompt, crashes>>

\* The provider took the push, or the call failed; a call may fail although
\* the prompt went out (its answer was lost).
Opens(q, c) == prompt[c] = "none" /\ (c \in Relayed <=> req[q].pc = "call")

PushSent(q) ==
    /\ req[q].pc \in {"call", "ask"}
    /\ \E c \in Prompts :
          /\ Opens(q, c)
          /\ prompt' = [prompt EXCEPT ![c] = "sent"]
          /\ Set(q, Handler("bind", req[q].order, req[q].leg, c, "idle"))
    /\ UNCHANGED <<books, pay, crashes>>

PushFailed(q) ==
    /\ req[q].pc \in {"call", "ask"}
    /\ \/ UNCHANGED prompt
       \/ \E c \in Prompts : Opens(q, c) /\ prompt' = [prompt EXCEPT ![c] = "sent"]
    /\ Fail(req[q].leg)
    /\ End(q)
    /\ UNCHANGED <<books, crashes>>

PushBind(q) ==
    LET l == req[q].leg
    IN  /\ req[q].pc = "bind"
        /\ pay' = IF pay[l].state = "PENDING"
                     THEN [pay EXCEPT ![l].bound = req[q].ref] ELSE pay
        /\ End(q)
        /\ UNCHANGED <<books, prompt, crashes>>

(***************************************************************************)
(* RetrySTKWithPhone: the pending legs are read before the transaction     *)
(* that fails them and inserts the fresh leg.                              *)
(***************************************************************************)
RetryRead(q, o) ==
    /\ Idle(q)
    /\ status[o] = "PENDING"
    /\ Set(q, [Slot("retry", o) EXCEPT !.seen = In(o, "PENDING")])
    /\ UNCHANGED <<books, pay, prompt, crashes>>

RetryWrite(q) ==
    LET r == req[q]
    IN  /\ r.pc = "retry"
        /\ \E l \in Legs :
              /\ Fresh(l)
              /\ pay' = [k \in Legs |->
                           IF k = l THEN Leg(r.order, "stk", "PENDING", RoundToShilling(Total))
                           ELSE IF k \in r.seen THEN InState(pay[k], "FAILED")
                           ELSE pay[k]]
        /\ Set(q, Slot("push", r.order))
        /\ UNCHANGED <<books, prompt, crashes>>

(***************************************************************************)
(* ManualConfirm: the order is read, a leg for the rest is inserted if     *)
(* none is pending, and the leg is completed with the typed code.          *)
(***************************************************************************)
Collected(o) == MapThenSumSet(LAMBDA l : pay[l].cents, In(o, "COMPLETED"))

ReadToConfirm(q, o, code, after) ==
    \/ /\ status[o] = "PENDING"
       /\ \E l \in Last(In(o, "PENDING")) : Set(q, Handler("complete", o, l, code, after))
    \/ /\ status[o] = "PENDING" /\ In(o, "PENDING") = {}
       /\ Total > Collected(o)
       /\ Set(q, Handler("insert", o, None, code, after))
    \/ /\ \/ status[o] # "PENDING"
          \/ In(o, "PENDING") = {} /\ Total <= Collected(o)
       /\ End(q)

Confirm(q, o, code) ==
    /\ Idle(q) /\ code \in Known
    /\ ReadToConfirm(q, o, code, "idle")
    /\ UNCHANGED <<books, pay, prompt, crashes>>

ConfirmRead(q) ==
    /\ req[q].pc = "confirm"
    /\ ReadToConfirm(q, req[q].order, req[q].ref, req[q].after)
    /\ UNCHANGED <<books, pay, prompt, crashes>>

InsertLeg(q, due) ==
    /\ req[q].pc = "insert"
    /\ \E l \in Legs :
          /\ Fresh(l)
          /\ pay' = [pay EXCEPT ![l] = Leg(req[q].order, "manual", "PENDING", due)]
          /\ Set(q, Handler("complete", req[q].order, l, req[q].ref, req[q].after))
    /\ UNCHANGED <<books, prompt, crashes>>

\* The amount was computed by ConfirmRead; no leg of a pending order becomes
\* COMPLETED without the order becoming PAID, so only the order's credit leg
\* counts, and that never changes.
ConfirmInsertTotal(q) == InsertLeg(q, Total)   \* mutant: the order's total
ConfirmInsert(q) == InsertLeg(q, Total - CreditIn(LegsOf(req[q].order)))

\* Also the last step of a cash settlement, a poll and a recheck.
Complete(q) ==
    LET r == req[q]
    IN  /\ r.pc = "complete"
        /\ CompletePayment(r.leg, r.ref, r.exact)
        /\ IF r.after = "post" /\ Accepted(r.leg, r.ref)
             THEN Set(q, Slot("post", r.order)) ELSE End(q)
        /\ UNCHANGED <<prompt, crashes>>

(***************************************************************************)
(* SettleTab: complete the account leg (cash) or go through ManualConfirm  *)
(* (M-Pesa), then post the ledger payment in a transaction of its own.     *)
(***************************************************************************)
SettleCash(q, o) ==
    /\ Idle(q)
    /\ status[o] = "PENDING"
    /\ \E l \in In(o, "PENDING") :
          /\ pay[l].kind = "account"
          /\ Set(q, Handler("complete", o, l, None, "post"))
    /\ UNCHANGED <<books, pay, prompt, crashes>>

SettleMpesa(q, o, code) ==
    /\ Idle(q) /\ code \in Known
    /\ status[o] = "PENDING"
    /\ \E l \in In(o, "PENDING") : pay[l].kind = "account"
    /\ Set(q, Handler("confirm", o, None, code, "post"))
    /\ UNCHANGED <<books, pay, prompt, crashes>>

SettlePost(q) ==
    LET o == req[q].order
    IN  /\ req[q].pc = "post"
        /\ posted' = posted \cup {o}
        /\ debt' = IF o \in posted THEN debt ELSE [debt EXCEPT ![o] = @ - Total]
        /\ End(q)
        /\ UNCHANGED <<status, flagged, pay, stock, credit, points, prompt, taken, wins, crashes>>

(***************************************************************************)
(* Void, in one transaction.                                               *)
(***************************************************************************)
Voided(o) ==
    [l \in Legs |->
       IF l \in LegsOf(o) /\ pay[l].state \in {"PENDING", "COMPLETED"}
         THEN InState(pay[l], "VOIDED") ELSE pay[l]]

\* The sum is taken after the flip.  (Mutant: of the legs it was to turn.)
CreditUsedUnflipped(o) == CreditIn({l \in LegsOf(o) : Voided(o)[l].state = "COMPLETED"})
CreditUsed(o) == CreditIn({l \in LegsOf(o) : Voided(o)[l].state = "VOIDED"})

CollectedOnline(o) == \E l \in In(o, "COMPLETED") : pay[l].kind \in Mpesa

Void(o) ==
    LET paid == status[o] = "PAID"
    IN  /\ status[o] \in {"PENDING", "PAID"}
        /\ status' = [status EXCEPT ![o] = "VOIDED"]
        /\ pay' = Voided(o)
        /\ flagged' = IF paid /\ CollectedOnline(o) THEN flagged \cup {o} ELSE flagged
        /\ stock' = IF paid THEN [g \in Goods |-> stock[g] + 1] ELSE stock
        /\ debt' = IF Tab(o) THEN [debt EXCEPT ![o] = @ - Total] ELSE debt
        /\ credit' = [credit EXCEPT ![o] = @ + CreditUsed(o)]
        /\ points' = [points EXCEPT ![o] =
                         @ - (IF paid THEN wins[o] * Earn ELSE 0) + Spend]
        /\ UNCHANGED <<posted, req, prompt, taken, wins, crashes>>

-----------------------------------------------------------------------------
(***************************************************************************)
(* The provider's answers.  HandleCallback looks the leg up by checkout    *)
(* id, so it finds only bound legs; for the local provider's checkouts the *)
(* sweeper (tick) and RecheckPayment ask instead, and complete in a later  *)
(* step.  SweepBuni claims the cloud's events for the legs that are not    *)
(* settled; each is handed out once, and applied or lost.                  *)
(***************************************************************************)
CallbackDeclined(l) ==
    /\ pay[l].bound # None /\ prompt[pay[l].bound] = "declined"
    /\ Fail(l)
    /\ UNCHANGED <<books, req, prompt, crashes>>

\* Its amount is not the leg's.  Such an answer may be the claimed event, or
\* a call of the public endpoint.
CallbackMismatch(l) ==
    /\ pay[l].bound \in Relayed
    /\ Fail(l)
    /\ flagged' = flagged \cup {pay[l].of}
    /\ \/ UNCHANGED prompt
       \/ /\ prompt[pay[l].bound] = "claimed"
          /\ prompt' = [prompt EXCEPT ![pay[l].bound] = "dropped"]
    /\ UNCHANGED <<status, stock, debt, credit, points, posted, taken, wins, req, crashes>>

ClaimFor(l, states) ==
    /\ pay[l].bound \in Relayed /\ pay[l].state \in states
    /\ prompt[pay[l].bound] = "paid"
    /\ prompt' = [prompt EXCEPT ![pay[l].bound] = "claimed"]
    /\ UNCHANGED <<books, pay, req, crashes>>

ClaimEventPending(l) == ClaimFor(l, {"PENDING"})   \* mutant: failed legs are not asked for
ClaimEvent(l) == ClaimFor(l, {"PENDING", "FAILED"})

CallbackPaid(l) ==
    /\ pay[l].bound \in Relayed
    /\ prompt[pay[l].bound] = "claimed"
    /\ CompletePayment(l, pay[l].bound, TRUE)
    /\ prompt' = [prompt EXCEPT ![pay[l].bound] = "spent"]
    /\ UNCHANGED <<req, crashes>>

\* The claim's answer did not arrive, or the event could not be applied:
\* that is logged, and the event is gone.
DropEvent(c) ==
    /\ prompt[c] = "claimed"
    /\ prompt' = [prompt EXCEPT ![c] = "dropped"]
    /\ UNCHANGED <<books, pay, req, crashes>>

\* Three minutes without an answer.
Expire(l) ==
    /\ pay[l].bound # None
    /\ Fail(l)
    /\ UNCHANGED <<books, req, prompt, crashes>>

Poll(q, l) ==
    /\ Idle(q)
    /\ pay[l].state = "PENDING" /\ pay[l].bound \in Prompts \ Relayed
    /\ prompt[pay[l].bound] = "paid"
    /\ \E exact \in BOOLEAN :
          Set(q, [Handler("complete", pay[l].of, l, pay[l].bound, "idle") EXCEPT !.exact = exact])
    /\ UNCHANGED <<books, pay, prompt, crashes>>

\* The customer answers the prompt.
Answer(c) ==
    /\ prompt[c] = "sent"
    /\ \E answer \in {"paid", "declined"} : prompt' = [prompt EXCEPT ![c] = answer]
    /\ UNCHANGED <<books, pay, req, crashes>>

\* The till process dies: what its handlers had read is gone, and so is an
\* event it had claimed.
Crash ==
    /\ crashes < MaxCrashes
    /\ crashes' = crashes + 1
    /\ req' = [q \in Requests |-> IdleSlot]
    /\ prompt' = [c \in Prompts |-> IF prompt[c] = "claimed" THEN "dropped" ELSE prompt[c]]
    /\ UNCHANGED <<books, pay>>

-----------------------------------------------------------------------------
Push(q) ==
    \/ PushRead(q) \/ PushBusy(q) \/ PushSupersede(q)
    \/ PushSent(q) \/ PushFailed(q) \/ PushBind(q)

\* The next step of a handler that has started.
Continue(q) ==
    \/ Push(q) \/ RetryWrite(q)
    \/ ConfirmRead(q) \/ ConfirmInsert(q) \/ Complete(q) \/ SettlePost(q)

Ring(o) == CheckoutInstant(o) \/ CheckoutTab(o) \/ \E q \in Requests : CheckoutMpesa(q, o)

Start(q, o) ==
    \/ RetryRead(q, o) \/ SettleCash(q, o)
    \/ \E code \in Codes : Confirm(q, o, code) \/ SettleMpesa(q, o, code)

Callback(l) ==
    \/ CallbackDeclined(l) \/ CallbackMismatch(l)
    \/ ClaimEvent(l) \/ CallbackPaid(l) \/ Expire(l)

Next ==
    \/ \E o \in Orders : Ring(o) \/ Void(o)
    \/ \E q \in Requests, o \in Orders : Start(q, o)
    \/ \E q \in Requests : Continue(q)
    \/ \E l \in Legs : Callback(l)
    \/ \E q \in Requests, l \in Legs : Poll(q, l)
    \/ \E c \in Prompts : Answer(c) \/ DropEvent(c)
    \/ Crash

Spec == Init /\ [][Next]_vars

\* A handler that has started goes on; the sweeper's ticker keeps claiming,
\* and goes through the events it was handed.
Fairness ==
    /\ \A q \in Requests : WF_vars(Continue(q))
    /\ \A l \in Legs : WF_vars(ClaimEvent(l)) /\ WF_vars(CallbackPaid(l))
FairSpec == Spec /\ Fairness

-----------------------------------------------------------------------------
States == {"none", "PENDING", "COMPLETED", "FAILED", "VOIDED"}

Row == [of : Orders \cup {None}, kind : {"none", "cash", "credit", "account"} \cup Mpesa,
        state : States, cents : Int, receipt : Codes \cup {None},
        bound : Prompts \cup {None}]

Slots == [pc : {"idle", "push", "supersede", "call", "ask", "bind", "retry", "confirm",
                "insert", "complete", "post"},
          order : Orders \cup {None}, leg : Legs \cup {None}, seen : SUBSET Legs,
          ref : Codes \cup {None}, exact : BOOLEAN, after : {"idle", "post"}]

TypeOK ==
    /\ status \in [Orders -> {"none", "PENDING", "PAID", "VOIDED"}]
    /\ flagged \subseteq Orders
    /\ pay \in [Legs -> Row]
    /\ stock \in [Goods -> Int]
    /\ debt \in [Orders -> Int]
    /\ credit \in [Orders -> Int]
    /\ points \in [Orders -> Int]
    /\ posted \subseteq Orders
    /\ req \in [Requests -> Slots]
    /\ prompt \in [Prompts -> {"none", "sent", "declined"} \cup Settled]
    /\ taken \in [Orders -> SUBSET Tracked]
    /\ wins \in [Orders -> Nat]
    /\ crashes \in Nat

(***************************************************************************)
(* What the books promise.                                                 *)
(***************************************************************************)
\* The effects of a payment - stock, points - happen exactly once per sale
\* however many legs, callbacks, polls and cashiers complete it.
PaidOnce ==
    \A o \in Orders :
        /\ status[o] \in {"none", "PENDING"} => wins[o] = 0 /\ taken[o] = {}
        /\ status[o] = "PAID" => wins[o] = 1
        /\ status[o] = "VOIDED" => wins[o] <= 1

\* A product is never sold below zero, and as long as every sale could be
\* covered the shelf is what it was, less one unit per paid order.
StockExact ==
    \A g \in Tracked :
        /\ stock[g] >= 0
        /\ (\A o \in Orders : wins[o] = 1 => taken[o] = Tracked) =>
              stock[g] = OnHand - Cardinality({o \in Orders : status[o] = "PAID"})

\* No payment completes on a sale that was voided, whatever was in flight.
NoSaleAfterVoid ==
    \A o \in Orders : status[o] = "VOIDED" => In(o, "COMPLETED") = {}

\* A receipt code stands on one leg, of one order.
OneLegPerReceipt ==
    \A k, l \in Legs : pay[k].receipt = pay[l].receipt /\ pay[k].receipt # None => k = l

\* Store credit and points move with the sale and come back when it is
\* voided, no more and no less.
LoyaltyAndCredit ==
    \A o \in Orders :
        /\ status[o] = "VOIDED" => credit[o] = 0 /\ points[o] = 0
        /\ status[o] = "PENDING" => points[o] = 0 - Spend
        /\ status[o] = "PAID" => points[o] = Earn - Spend
        /\ status[o] \in {"PENDING", "PAID"} =>
              credit[o] = 0 - CreditIn(LegsOf(o))

\* Until it is voided, a tab is owed in full until its settlement is posted,
\* and the settlement is posted only of a paid order.
TabDebt ==
    \A o \in Orders :
        /\ status[o] \in {"PENDING", "PAID"} /\ Tab(o) =>
              debt[o] = IF o \in posted THEN 0 ELSE Total
        /\ o \in posted => status[o] \in {"PAID", "VOIDED"}
        /\ ~Tab(o) => debt[o] = 0

\* A paid sale nobody is told to look at has not collected more than its
\* total and the rounding to a shilling.  The condition leaves out the legs
\* of RetrySTK, which ask for the whole total of a part-paid order again.
NotOvercharged ==
    \A o \in Orders :
        /\ status[o] = "PAID" /\ o \notin flagged
        /\ \A l \in LegsOf(o) : pay[l].kind = "stk" => pay[l].cents = RoundToShilling(Total - CreditIn(LegsOf(o)))
        => Collected(o) <= Total + 50

\* The money of a checkout stands on a leg, or its order is dead.
Recorded(l, c) ==
    \/ \E k \in Legs : pay[k].receipt = c
    \/ pay[l].of # None /\ status[pay[l].of] = "VOIDED"

\* Money the code gives up: its leg was paid with another receipt (a second
\* payment, of which nobody is told), its leg was pushed again and forgot the
\* checkout, or the one claim of its event was wasted.
GivenUp(l, c) ==
    \/ pay[l].state = "COMPLETED" /\ pay[l].receipt # c
    \/ pay[l].bound # c
    \/ prompt[c] = "dropped"

\* Money the cloud confirmed for a checkout a leg is bound to is recorded
\* under its receipt, even if the leg had expired, been superseded or failed
\* a retry before: the claim sweep still asks for failed legs.
MoneyHeals ==
    \A l \in Legs, c \in Prompts :
        pay[l].bound = c /\ c \in Relayed /\ prompt[c] = "paid" ~>
            Recorded(l, c) \/ GivenUp(l, c)

(***************************************************************************)
(* What comments and documents say and the code does not keep.             *)
(***************************************************************************)
\* "Supersede existing pending payments": a completed one is not superseded.
CompletedNotSuperseded ==
    [][\A l \in Legs : pay[l].state = "COMPLETED" => pay'[l].state # "FAILED"]_vars

\* A paid tab ends up owing nothing.
PaidTabClears ==
    \A o \in Orders : status[o] = "PAID" /\ Tab(o) ~> debt[o] = 0 \/ status[o] = "VOIDED"

\* A void puts back what the sale took: shelf and sold units never add up to
\* more than there was.
NoPhantomStock ==
    \A g \in Tracked :
        stock[g] + Cardinality({o \in Orders : status[o] = "PAID" /\ g \in taken[o]}) <= OnHand

\* "A loser flags double-payment discrepancies": a payment the provider
\* confirmed and the till applied stands on a leg, or the sale is flagged.
DoublePaymentFlagged ==
    \A l \in Legs, c \in Prompts :
        pay[l].bound = c /\ prompt[c] = "spent" => Recorded(l, c) \/ pay[l].of \in flagged

=============================================================================
