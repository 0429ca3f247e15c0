----------------------------- MODULE Till_proofs -----------------------------
(***************************************************************************)
(* Proofs about Till, for any number of orders, payment rows, handlers,    *)
(* products and provider checkouts.  The argument has three layers.        *)
(*   - RowsInv: what the rows of payments and the handlers in flight can   *)
(*     look like.  A handler remembers legs across steps of others, so the *)
(*     proofs need that what it remembers stays meaningful.                *)
(*   - StepKinds: every step is a checkout, a void, a payment, the posting *)
(*     of a settlement, or quiet.                                          *)
(*   - One lemma per promise, with one case per kind of step.              *)
(***************************************************************************)
EXTENDS Till, FiniteSetTheorems, TLAPS

RowsOK ==
    \A l \in Legs :
        /\ pay[l].kind = "none" => pay[l] = NoLeg /\ \A k \in Legs : k > l => pay[k].kind = "none"
        /\ pay[l].kind # "none" => pay[l].of \in Orders /\ status[pay[l].of] # "none"

\* A leg that has been paid is of a sale that stands; one a customer or a
\* cashier paid, of a paid sale.  Store credit is taken at checkout.
SettledOK ==
    \A l \in Legs :
        /\ pay[l].kind = "credit" => pay[l].state # "PENDING" /\ pay[l].bound = None
        /\ pay[l].state = "COMPLETED" =>
              /\ status[pay[l].of] # "VOIDED"
              /\ pay[l].kind # "credit" => status[pay[l].of] = "PAID"

\* The legs that can still be waited for.
Async(o) == {l \in LegsOf(o) : pay[l].kind # "credit"}

\* What a handler in flight remembers is still an order and legs of it.
HandlerOK(r) ==
    /\ r.pc # "idle" => r.order \in Orders /\ status[r.order] # "none"
    /\ r.pc \in {"supersede", "call", "ask", "bind", "complete"} => r.leg \in Async(r.order)
    /\ r.pc = "bind" => r.ref \in Prompts
    /\ r.pc = "retry" => r.seen \subseteq Async(r.order)
    /\ r.pc # "idle" /\ r.after = "post" => Tab(r.order)
    /\ r.pc = "post" => Tab(r.order) /\ status[r.order] \in {"PAID", "VOIDED"}

HandlersOK == \A q \in Requests : HandlerOK(req[q])

-----------------------------------------------------------------------------
(***************************************************************************)
(* The records the actions build.                                          *)
(***************************************************************************)
LEMMA LegRow ==
    ASSUME NEW o \in Orders, NEW k \in {"cash", "credit", "account"} \cup Mpesa,
           NEW s \in States, NEW c \in Int
    PROVE  Leg(o, k, s, c) \in Row
BY TillAssumption DEF Leg, Row, Codes

\* Setting the state, the checkout id or the receipt of a row leaves a row.
LEMMA RowEdits ==
    ASSUME NEW r \in Row
    PROVE  /\ \A s \in States : InState(r, s) \in Row
           /\ \A c \in Prompts \cup {None} : [r EXCEPT !.bound = c] \in Row
           /\ \A c \in Codes \cup {None} : PaidBy(r, c) \in Row
BY DEF Row, InState, PaidBy, States

\* The ranges of the fields of a row.
LEMMA RowFields ==
    ASSUME NEW r \in Row
    PROVE  /\ r.state \in States /\ r.bound \in Prompts \cup {None} /\ r.cents \in Int
           /\ r.receipt \in Codes \cup {None} /\ r.of \in Orders \cup {None}
           /\ r.kind \in {"none", "cash", "credit", "account"} \cup Mpesa
BY DEF Row

Pcs == {"idle", "push", "supersede", "call", "ask", "bind", "retry", "confirm",
        "insert", "complete", "post"}

\* What a handler remembers at a step is a slot.
LEMMA HandlerTyped ==
    ASSUME NEW pc \in Pcs, NEW o \in Orders \cup {None}, NEW l \in Legs \cup {None},
           NEW c \in Codes \cup {None}, NEW s \in {"idle", "post"}
    PROVE  Handler(pc, o, l, c, s) \in Slots
BY DEF Handler, Slots, Pcs

\* A handler that remembers its order alone is a slot.
LEMMA SlotTyped ==
    ASSUME NEW pc \in Pcs, NEW o \in Orders \cup {None}
    PROVE  Slot(pc, o) \in Slots
BY HandlerTyped DEF Slot

\* The ranges of the fields of a slot.
LEMMA SlotFields ==
    ASSUME NEW r \in Slots
    PROVE  /\ r.leg \in Legs \cup {None} /\ r.order \in Orders \cup {None}
           /\ r.ref \in Codes \cup {None} /\ r.seen \subseteq Legs
           /\ r.exact \in BOOLEAN /\ r.after \in {"idle", "post"}
BY DEF Slots

\* Moving a handler on leaves a slot.
LEMMA SlotEdits ==
    ASSUME NEW r \in Slots
    PROVE  /\ \A pc \in Pcs : [r EXCEPT !.pc = pc] \in Slots
           /\ \A x \in BOOLEAN : [r EXCEPT !.exact = x] \in Slots
           /\ \A S \in SUBSET Legs : [r EXCEPT !.seen = S] \in Slots
<1>1. \A pc \in Pcs : [r EXCEPT !.pc = pc] \in Slots
  BY DEF Slots, Pcs
<1>2. \A x \in BOOLEAN : [r EXCEPT !.exact = x] \in Slots
  BY DEF Slots
<1>3. \A S \in SUBSET Legs : [r EXCEPT !.seen = S] \in Slots
  BY DEF Slots
<1> QED BY <1>1, <1>2, <1>3

\* Starting, moving and ending a handler keep the slots typed.
LEMMA ReqTyped ==
    ASSUME req \in [Requests -> Slots], NEW q \in Requests
    PROVE  /\ \A slot \in Slots : Set(q, slot) => req' \in [Requests -> Slots]
           /\ \A pc \in Pcs : GoTo(q, pc) => req' \in [Requests -> Slots]
           /\ End(q) => req' \in [Requests -> Slots]
<1>1. \A slot \in Slots : Set(q, slot) => req' \in [Requests -> Slots]
  BY DEF Set
<1>2. \A pc \in Pcs : GoTo(q, pc) => req' \in [Requests -> Slots]
  BY SlotEdits DEF GoTo
<1>3. IdleSlot \in Slots
  BY SlotTyped DEF IdleSlot, Pcs
<1> QED BY <1>1, <1>2, <1>3 DEF End

\* A till with no orders is well typed.
LEMMA TypeInit == Init => TypeOK
<1> SUFFICES ASSUME Init PROVE TypeOK
  OBVIOUS
<1>1. NoLeg \in Row /\ IdleSlot \in Slots
  BY DEF NoLeg, Leg, Row, States, Slots, IdleSlot, Slot, Handler
<1> QED
  BY <1>1, TillAssumption DEF Init, TypeOK

\* Any member of a set that has one is a member.
LEMMA AnyMember ==
    ASSUME NEW S, S # {}
    PROVE  AnyOf(S) \in S
BY DEF AnyOf

\* What a set of legs took from store credit is an integer.
LEMMA CreditTyped ==
    ASSUME TypeOK, NEW S \in SUBSET Legs
    PROVE  CreditIn(S) \in Int
<1>1. CASE CreditLegs(S) = {}
  BY <1>1 DEF CreditIn
<1>2. CASE CreditLegs(S) # {}
  <2>1. AnyOf(CreditLegs(S)) \in Legs
    BY <1>2, AnyMember DEF CreditLegs
  <2> QED BY <1>2, <2>1, RowFields DEF CreditIn, TypeOK
<1> QED BY <1>1, <1>2

\* A checkout that moves on keeps the checkouts typed.
LEMMA PromptTyped ==
    ASSUME TypeOK, NEW x \in {"none", "sent", "declined"} \cup Settled
    PROVE  \A c : [prompt EXCEPT ![c] = x]
                    \in [Prompts -> {"none", "sent", "declined"} \cup Settled]
BY DEF TypeOK

\* completePayment keeps the types.
LEMMA Completion ==
    ASSUME TypeOK, RowsOK, NEW l \in Legs, pay[l].kind # "none",
           NEW code \in Codes \cup {None}, NEW exact \in BOOLEAN,
           CompletePayment(l, code, exact), UNCHANGED crashes,
           req' \in [Requests -> Slots],
           prompt' \in [Prompts -> {"none", "sent", "declined"} \cup Settled]
    PROVE  TypeOK'
<1> USE TillAssumption, RowEdits, RowFields DEF TypeOK
<1>1. pay[l].of \in Orders
  BY DEF RowsOK
<1>2. CASE UNCHANGED <<books, pay>>
  BY <1>2 DEF books
<1>3. CASE pay' = [pay EXCEPT ![l] = InState(@, "FAILED")] /\ UNCHANGED books
  BY <1>3 DEF books, States
<1>4. CASE Land(l, code, exact)
  BY <1>1, <1>4 DEF Land, LandIf, Sell, Covered
<1> QED BY <1>2, <1>3, <1>4 DEF CompletePayment

\* Every step keeps the types.
LEMMA TypeStep ==
    ASSUME TypeOK, RowsOK, HandlersOK, [Next]_vars
    PROVE  TypeOK'
<1> USE TillAssumption DEF TypeOK, books
<1>1. ASSUME NEW o \in Orders, CheckoutInstant(o) PROVE TypeOK'
  <2>1. PICK l \in Legs, c \in {0, CreditPart, Total} : CheckoutInstant(o)!3!(l, c)
    BY <1>1 DEF CheckoutInstant
  <2>4. pay' \in [Legs -> Row]
    BY <2>1, LegRow DEF States
  <2>5. credit' \in [Orders -> Int]
    BY <2>1
  <2>2. points' \in [Orders -> Int] /\ wins' \in [Orders -> Nat] /\ taken' \in [Orders -> SUBSET Tracked]
    BY <1>1 DEF CheckoutInstant
  <2>3. stock' \in [Goods -> Int]
    BY <1>1 DEF CheckoutInstant, Sell
  <2> QED
    BY <1>1, <2>2, <2>3, <2>4, <2>5 DEF CheckoutInstant
<1>2. ASSUME NEW o \in Orders, CheckoutTab(o) PROVE TypeOK'
  <2>1. pay' \in [Legs -> Row]
    BY <1>2, LegRow DEF CheckoutTab, States
  <2> QED
    BY <1>2, <2>1 DEF CheckoutTab
<1>3. ASSUME NEW o \in Orders, NEW q \in Requests, CheckoutMpesa(q, o) PROVE TypeOK'
  <2>1. \A k \in Mpesa : Ask(k, Total) \in Int /\ Ask(k, Total - CreditPart) \in Int
    BY DEF Ask, RoundToShilling
  <2>5. PICK l \in Legs, k \in Mpesa, c \in {0, CreditPart} : CheckoutMpesa(q, o)!3!(l, k, c)
    BY <1>3 DEF CheckoutMpesa
  <2>2. pay' \in [Legs -> Row]
    <3>1. /\ Leg(o, k, "PENDING", Ask(k, Total)) \in Row
          /\ Leg(o, k, "PENDING", Ask(k, Total - CreditPart)) \in Row
      BY <2>1, LegRow DEF States
    <3>2. Leg(o, "credit", "COMPLETED", CreditPart) \in Row
      BY LegRow DEF States
    <3> QED
      BY <2>5, <3>1, <3>2
  <2>3. credit' \in [Orders -> Int]
    BY <2>5
  <2>4. req' \in [Requests -> Slots]
    BY <2>5, ReqTyped, SlotTyped DEF Pcs
  <2> QED
    BY <1>3, <2>2, <2>3, <2>4 DEF CheckoutMpesa
<1>4. ASSUME NEW o \in Orders, Void(o) PROVE TypeOK'
  <2>1. pay' \in [Legs -> Row]
    BY <1>4, LegRow, RowEdits DEF Void, Voided, States
  <2>2. stock' \in [Goods -> Int]
    BY <1>4 DEF Void
  <2>7. debt' \in [Orders -> Int]
    BY <1>4 DEF Void
  <2>3. CreditUsed(o) \in Int
    BY CreditTyped DEF CreditUsed, LegsOf
  <2>4. credit' \in [Orders -> Int]
    BY <1>4, <2>3 DEF Void
  <2>5. wins[o] * Earn \in Int
    OBVIOUS
  <2>6. points' \in [Orders -> Int]
    BY <1>4, <2>5 DEF Void
  <2> QED
    BY <1>4, <2>1, <2>2, <2>4, <2>6, <2>7 DEF Void
<1>5. ASSUME NEW q \in Requests, Push(q) PROVE TypeOK'
  <2>1. CASE PushRead(q)
    <3>1. req[q].order \in Orders
      BY <2>1 DEF PushRead, HandlersOK, HandlerOK
    <3>2. \A l \in Last(In(req[q].order, "PENDING")) : l \in Legs
      BY DEF Last, In, LegsOf
    <3>3. \A pc \in {"supersede", "ask"}, l \in Legs :
             Handler(pc, req[q].order, l, None, "idle") \in Slots
      BY <3>1, HandlerTyped DEF Pcs
    <3>4. req' \in [Requests -> Slots]
      BY <2>1, <3>2, <3>3, ReqTyped DEF PushRead
    <3> QED
      BY <2>1, <3>4 DEF PushRead
  <2>2. CASE PushBusy(q)
    BY <2>2, ReqTyped, SlotTyped DEF PushBusy, Pcs
  <2>3. CASE PushSupersede(q)
    BY <2>3, ReqTyped, RowEdits DEF PushSupersede, Pcs, States
  <2>4. CASE PushSent(q)
    BY <2>4, SlotFields, ReqTyped, HandlerTyped DEF PushSent, Codes, Pcs
  <2>5. CASE PushFailed(q)
    BY <2>5, ReqTyped, SlotTyped, RowEdits DEF PushFailed, Fail, States, Pcs
  <2>6. CASE PushBind(q)
    <3>1. req[q].ref \in Prompts /\ req[q].leg \in Legs
      BY <2>6 DEF PushBind, HandlersOK, HandlerOK, Async, LegsOf
    <3> QED
      BY <2>6, <3>1, ReqTyped, SlotTyped, RowEdits DEF PushBind, Pcs
  <2> QED
    BY <1>5, <2>1, <2>2, <2>3, <2>4, <2>5, <2>6 DEF Push
<1>6. ASSUME NEW q \in Requests, NEW o \in Orders, RetryRead(q, o) PROVE TypeOK'
  BY <1>6, ReqTyped, SlotTyped, SlotEdits DEF RetryRead, In, LegsOf, Pcs
<1>7. ASSUME NEW q \in Requests, RetryWrite(q) PROVE TypeOK'
  <2>1. req[q].order \in Orders
    BY <1>7 DEF RetryWrite, HandlersOK, HandlerOK
  <2>2. RoundToShilling(Total) \in Int
    BY DEF RoundToShilling
  <2>3. pay' \in [Legs -> Row]
    BY <1>7, <2>1, <2>2, LegRow, RowEdits DEF RetryWrite, States, Mpesa
  <2> QED
    BY <1>7, <2>1, <2>3, ReqTyped, SlotTyped DEF RetryWrite, Pcs
<1>8. ASSUME NEW q \in Requests, NEW o \in Orders, NEW c \in Codes, Confirm(q, o, c)
      PROVE  TypeOK'
  BY <1>8, ReqTyped, SlotFields, HandlerTyped
     DEF Confirm, ReadToConfirm, Last, In, LegsOf, Pcs
<1>9. ASSUME NEW q \in Requests, ConfirmRead(q) PROVE TypeOK'
  BY <1>9, ReqTyped, SlotFields, HandlerTyped
     DEF ConfirmRead, ReadToConfirm, Last, In, LegsOf, Pcs
<1>10. ASSUME NEW q \in Requests, ConfirmInsert(q) PROVE TypeOK'
  <2>1. req[q].order \in Orders
    BY <1>10 DEF ConfirmInsert, InsertLeg, HandlersOK, HandlerOK
  <2>2. Total - CreditIn(LegsOf(req[q].order)) \in Int
    BY CreditTyped DEF LegsOf
  <2>3. pay' \in [Legs -> Row]
    BY <1>10, <2>1, <2>2, LegRow DEF ConfirmInsert, InsertLeg, States, Mpesa
  <2> QED
    BY <1>10, <2>1, <2>3, SlotFields, ReqTyped, HandlerTyped DEF ConfirmInsert, InsertLeg, Pcs
<1>11. ASSUME NEW q \in Requests, Complete(q) PROVE TypeOK'
  <2>1. req[q].leg \in Legs /\ pay[req[q].leg].of = req[q].order /\ req[q].order \in Orders
    BY <1>11 DEF Complete, HandlersOK, HandlerOK, Async, LegsOf
  <2>2. pay[req[q].leg].kind # "none"
    <3>1. PICK l \in Legs : l = req[q].leg
      BY <2>1
    <3> QED BY <2>1, <3>1, TillAssumption DEF RowsOK, NoLeg, Leg
  <2>3. req[q].ref \in Codes \cup {None} /\ req[q].exact \in BOOLEAN
    BY SlotFields
  <2>4. req' \in [Requests -> Slots]
    BY <1>11, <2>1, ReqTyped, SlotTyped DEF Complete, Pcs
  <2>5. /\ CompletePayment(req[q].leg, req[q].ref, req[q].exact)
        /\ UNCHANGED crashes
        /\ prompt' \in [Prompts -> {"none", "sent", "declined"} \cup Settled]
    BY <1>11 DEF Complete
  <2>7. /\ UNCHANGED crashes
        /\ prompt' \in [Prompts -> {"none", "sent", "declined"} \cup Settled]
    BY <2>5
  <2> HIDE DEF TypeOK, books
  <2>6. \A code \in Codes \cup {None}, exact \in BOOLEAN :
           CompletePayment(req[q].leg, code, exact) => TypeOK'
    BY <2>1, <2>2, <2>4, <2>7, Completion
  <2> QED
    BY <2>3, <2>5, <2>6
<1>12. ASSUME NEW q \in Requests, NEW o \in Orders, SettleCash(q, o) PROVE TypeOK'
  BY <1>12, ReqTyped, HandlerTyped DEF SettleCash, In, LegsOf, Pcs
<1>13. ASSUME NEW q \in Requests, NEW o \in Orders, NEW c \in Codes, SettleMpesa(q, o, c)
       PROVE  TypeOK'
  BY <1>13, ReqTyped, HandlerTyped DEF SettleMpesa, Pcs
<1>14. ASSUME NEW q \in Requests, SettlePost(q) PROVE TypeOK'
  <2>1. req[q].order \in Orders
    BY <1>14 DEF SettlePost, HandlersOK, HandlerOK
  <2> QED
    BY <1>14, <2>1, ReqTyped, SlotTyped DEF SettlePost, Pcs
<1>15. ASSUME NEW l \in Legs, Callback(l) PROVE TypeOK'
  <2>1. pay[l].bound # None => pay[l].kind # "none" /\ pay[l].of \in Orders
    BY DEF RowsOK, NoLeg, Leg
  <2>2. CASE CallbackDeclined(l) \/ Expire(l)
    BY <2>2, RowEdits DEF CallbackDeclined, Expire, Fail, States
  <2>3. CASE CallbackMismatch(l)
    <3>1. pay' \in [Legs -> Row] /\ flagged' \subseteq Orders
      BY <2>1, <2>3, RowEdits DEF CallbackMismatch, Fail, States
    <3>2. prompt' \in [Prompts -> {"none", "sent", "declined"} \cup Settled]
      BY <2>3, PromptTyped DEF CallbackMismatch, Settled
    <3> QED
      BY <2>3, <3>1, <3>2 DEF CallbackMismatch
  <2>4. CASE CallbackPaid(l)
    <3>1. pay[l].bound \in Codes
      BY <2>4, RowFields DEF CallbackPaid, Codes
    <3>2. prompt' \in [Prompts -> {"none", "sent", "declined"} \cup Settled]
      BY <2>4, PromptTyped DEF CallbackPaid, Settled
    <3> QED
      BY <2>1, <2>4, <3>1, <3>2, Completion DEF CallbackPaid
  <2>5. CASE ClaimEvent(l)
    BY <2>5, PromptTyped DEF ClaimEvent, ClaimFor, Settled
  <2> QED
    BY <1>15, <2>2, <2>3, <2>4, <2>5 DEF Callback
<1>16. ASSUME NEW q \in Requests, NEW l \in Legs, Poll(q, l) PROVE TypeOK'
  <2>1. pay[l].of \in Orders /\ pay[l].bound \in Codes
    BY <1>16, RowFields DEF Poll, RowsOK, NoLeg, Leg, Codes
  <2>2. Handler("complete", pay[l].of, l, pay[l].bound, "idle") \in Slots
    BY <2>1, HandlerTyped DEF Pcs
  <2>3. req' \in [Requests -> Slots]
    BY <1>16, <2>2, SlotEdits, ReqTyped DEF Poll
  <2> QED
    BY <1>16, <2>3 DEF Poll
<1>17. ASSUME NEW c \in Prompts, Answer(c) \/ DropEvent(c) PROVE TypeOK'
  BY <1>17, PromptTyped DEF Answer, DropEvent, Settled
<1>18. CASE Crash
  BY <1>18, SlotTyped DEF Crash, IdleSlot, Pcs, Settled
<1>19. CASE UNCHANGED vars
  BY <1>19 DEF vars
<1> QED
  BY <1>1, <1>2, <1>3, <1>4, <1>5, <1>6, <1>7, <1>8, <1>9, <1>10, <1>11, <1>12, <1>13,
     <1>14, <1>15, <1>16, <1>17, <1>18, <1>19 DEF Next, Ring, Start, Continue

-----------------------------------------------------------------------------
(***************************************************************************)
(* What a step does to a payment row that exists, and to an order.         *)
(***************************************************************************)
Kept(l) ==
    pay[l].kind # "none" =>
        /\ pay'[l].kind = pay[l].kind
        /\ pay'[l].of = pay[l].of
        /\ pay'[l].cents = pay[l].cents

\* Edits of a row keep its order, its kind and its amount.
LEMMA EditKept ==
    ASSUME NEW r \in Row
    PROVE  /\ \A s : /\ InState(r, s).kind = r.kind /\ InState(r, s).of = r.of
                    /\ InState(r, s).cents = r.cents /\ InState(r, s).receipt = r.receipt
                    /\ InState(r, s).state = s /\ InState(r, s).bound = r.bound
           /\ \A c : /\ PaidBy(r, c).kind = r.kind /\ PaidBy(r, c).of = r.of
                    /\ PaidBy(r, c).cents = r.cents /\ PaidBy(r, c).receipt = c
                    /\ PaidBy(r, c).state = "COMPLETED" /\ PaidBy(r, c).bound = r.bound
           /\ \A c : /\ [r EXCEPT !.bound = c].kind = r.kind /\ [r EXCEPT !.bound = c].of = r.of
                    /\ [r EXCEPT !.bound = c].cents = r.cents
                    /\ [r EXCEPT !.bound = c].receipt = r.receipt
                    /\ [r EXCEPT !.bound = c].state = r.state
BY DEF InState, PaidBy, Row

\* completePayment keeps the order, the kind and the amount of every leg.
LEMMA CompletionKept ==
    ASSUME TypeOK, NEW l \in Legs, NEW code, NEW exact, CompletePayment(l, code, exact),
           NEW k \in Legs
    PROVE  Kept(k)
<1>1. CASE UNCHANGED pay
  BY <1>1 DEF Kept
<1>2. CASE pay' = [pay EXCEPT ![l] = InState(@, "FAILED")]
  BY <1>2, EditKept DEF Kept, TypeOK
<1>3. CASE Land(l, code, exact)
  BY <1>3, EditKept DEF Kept, TypeOK, Land, LandIf
<1> QED BY <1>1, <1>2, <1>3 DEF CompletePayment

\* Failing a leg keeps the order, the kind and the amount of every leg.
LEMMA FailKept ==
    ASSUME TypeOK, NEW l \in Legs, Fail(l), NEW k \in Legs
    PROVE  Kept(k)
BY EditKept DEF Fail, Kept, TypeOK

\* Rows are filled in order, so the row after a free one is free.
LEMMA FreshFree ==
    ASSUME RowsOK, NEW l \in Legs, Fresh(l)
    PROVE  pay[l].kind = "none" /\ (l + 1 \in Legs => pay[l + 1].kind = "none")
BY TillAssumption DEF Fresh, RowsOK

\* No step changes the order, the kind or the amount of a leg.
LEMMA RowStep ==
    ASSUME TypeOK, RowsOK, HandlersOK, [Next]_vars, NEW k \in Legs
    PROVE  Kept(k)
<1> USE DEF Kept, TypeOK
<1>1. ASSUME NEW o \in Orders, CheckoutInstant(o) PROVE Kept(k)
  <2>1. PICK l \in Legs, c \in {0, CreditPart, Total} : CheckoutInstant(o)!3!(l, c)
    BY <1>1 DEF CheckoutInstant
  <2>4. Fresh(l)
    BY <2>1
  <2>2. pay[l].kind = "none" /\ (l + 1 \in Legs => pay[l + 1].kind = "none")
    BY <2>4, FreshFree
  <2>3. \E n \in Legs : \E row, next :
           /\ pay[n].kind = "none"
           /\ \/ pay' = [pay EXCEPT ![l] = row]
              \/ pay' = [pay EXCEPT ![l] = row, ![n] = next]
    BY <2>1, <2>2
  <2> QED
    BY <2>2, <2>3
<1>2. ASSUME NEW o \in Orders, CheckoutTab(o) PROVE Kept(k)
  BY <1>2 DEF CheckoutTab, Fresh
<1>3. ASSUME NEW o \in Orders, NEW q \in Requests, CheckoutMpesa(q, o) PROVE Kept(k)
  <2>1. PICK l \in Legs, m \in Mpesa, c \in {0, CreditPart} : CheckoutMpesa(q, o)!3!(l, m, c)
    BY <1>3 DEF CheckoutMpesa
  <2>4. Fresh(l)
    BY <2>1
  <2>2. pay[l].kind = "none" /\ (l + 1 \in Legs => pay[l + 1].kind = "none")
    BY <2>4, FreshFree
  <2>3. \E n \in Legs : \E row, next :
           /\ pay[n].kind = "none"
           /\ \/ pay' = [pay EXCEPT ![l] = row]
              \/ pay' = [pay EXCEPT ![l] = row, ![n] = next]
    BY <2>1, <2>2
  <2> QED
    BY <2>2, <2>3
<1>4. ASSUME NEW o \in Orders, Void(o) PROVE Kept(k)
  BY <1>4, EditKept DEF Void, Voided
<1>5. ASSUME NEW q \in Requests, PushSupersede(q) PROVE Kept(k)
  BY <1>5, EditKept DEF PushSupersede
<1>6. ASSUME NEW q \in Requests, PushFailed(q) PROVE Kept(k)
  BY <1>6, FailKept DEF PushFailed, HandlersOK, HandlerOK, Async, LegsOf
<1>7. ASSUME NEW q \in Requests, PushBind(q) PROVE Kept(k)
  BY <1>7, EditKept DEF PushBind
<1>8. ASSUME NEW q \in Requests, RetryWrite(q) PROVE Kept(k)
  BY <1>8, EditKept DEF RetryWrite, Fresh
<1>9. ASSUME NEW q \in Requests, ConfirmInsert(q) PROVE Kept(k)
  BY <1>9 DEF ConfirmInsert, InsertLeg, Fresh
<1>10. ASSUME NEW q \in Requests, Complete(q) PROVE Kept(k)
  BY <1>10, CompletionKept DEF Complete, HandlersOK, HandlerOK, Async, LegsOf
<1>11. ASSUME NEW l \in Legs, Callback(l) PROVE Kept(k)
  BY <1>11, CompletionKept, FailKept
     DEF Callback, CallbackDeclined, CallbackMismatch, ClaimEvent, ClaimFor, CallbackPaid, Expire
<1>12. CASE UNCHANGED pay
  BY <1>12
<1> QED
  BY <1>1, <1>2, <1>3, <1>4, <1>5, <1>6, <1>7, <1>8, <1>9, <1>10, <1>11, <1>12
     DEF Next, Ring, Start, Continue, Push, PushRead, PushBusy, PushSent, RetryRead, Confirm,
         ConfirmRead, SettleCash, SettleMpesa, SettlePost, Poll, Answer, DropEvent, Crash, vars

\* An order moves forward only: PENDING, PAID, VOIDED.
LEMMA StatusStep ==
    ASSUME TypeOK, RowsOK, HandlersOK, [Next]_vars, NEW o \in Orders
    PROVE  /\ status[o] # "none" => status'[o] # "none"
           /\ status[o] \in {"PAID", "VOIDED"} => status'[o] \in {"PAID", "VOIDED"}
           /\ status[o] = "VOIDED" => status'[o] = "VOIDED"
<1> USE DEF TypeOK
<1>1. ASSUME NEW p \in Orders, Ring(p)
      PROVE  /\ status[p] = "none"
             /\ \/ status' = [status EXCEPT ![p] = "PAID"]
                \/ status' = [status EXCEPT ![p] = "PENDING"]
  BY <1>1 DEF Ring, CheckoutInstant, CheckoutTab, CheckoutMpesa
<1>2. ASSUME NEW p \in Orders, Void(p) PROVE status' = [status EXCEPT ![p] = "VOIDED"]
  BY <1>2 DEF Void
<1>3. ASSUME NEW l \in Legs, NEW code, NEW exact, CompletePayment(l, code, exact)
      PROVE  \/ UNCHANGED status
             \/ status' = [status EXCEPT ![pay[l].of] = "PAID"] /\ status[pay[l].of] # "VOIDED"
  BY <1>3 DEF CompletePayment, books, Land, LandIf, AfterVoid, AlreadyDone
<1>4. ASSUME NEW q \in Requests, Complete(q) PROVE req[q].leg \in Legs
  BY <1>4 DEF Complete, HandlersOK, HandlerOK, Async, LegsOf
<1>5. CASE \E q \in Requests : Complete(q)
  BY <1>3, <1>4, <1>5 DEF Complete
<1>6. CASE \E l \in Legs : CallbackPaid(l)
  BY <1>3, <1>6 DEF CallbackPaid
<1>7. CASE UNCHANGED status
  BY <1>7
<1> QED
  BY <1>1, <1>2, <1>5, <1>6, <1>7
     DEF Next, Start, Continue, Push, PushRead, PushBusy, PushSupersede, PushSent, PushFailed,
         PushBind, RetryRead, RetryWrite, Confirm, ConfirmRead, ConfirmInsert, InsertLeg,
         SettleCash, SettleMpesa, SettlePost, Callback, CallbackDeclined, CallbackMismatch, ClaimEvent, ClaimFor,
         Expire, Poll, Answer, DropEvent, Crash, vars, books

\* So what handlers remember stays true while others take their steps.
LEMMA Remembered ==
    ASSUME TypeOK, RowsOK, HandlersOK, [Next]_vars, NEW o \in Orders
    PROVE  /\ LegsOf(o) \subseteq LegsOf(o)'
           /\ Async(o) \subseteq Async(o)'
           /\ Tab(o) => Tab(o)'
<1>1. \A l \in LegsOf(o) : pay[l].kind # "none"
  BY TillAssumption DEF LegsOf, RowsOK, NoLeg, Leg
<1>2. \A l \in LegsOf(o) : l \in LegsOf(o)' /\ pay'[l].kind = pay[l].kind
  BY <1>1, RowStep DEF Kept, LegsOf
<1> QED
  BY <1>2 DEF Tab, Async

\* What a handler that does not move has read stays true.
LEMMA HandlerKept ==
    ASSUME TypeOK, RowsOK, HandlersOK, [Next]_vars, NEW q \in Requests, req'[q] = req[q]
    PROVE  HandlerOK(req[q])'
<1>1. HandlerOK(req[q])
  BY DEF HandlersOK
<1>2. req[q].pc # "idle" => req[q].order \in Orders
  BY <1>1 DEF HandlerOK
<1>3. CASE req[q].order \in Orders
  <2>1. /\ LegsOf(req[q].order) \subseteq LegsOf(req[q].order)'
        /\ Async(req[q].order) \subseteq Async(req[q].order)'
        /\ Tab(req[q].order) => Tab(req[q].order)'
        /\ status[req[q].order] # "none" => status'[req[q].order] # "none"
        /\ status[req[q].order] \in {"PAID", "VOIDED"} =>
              status'[req[q].order] \in {"PAID", "VOIDED"}
    BY <1>3, Remembered, StatusStep
  <2> QED
    BY <1>1, <2>1 DEF HandlerOK
<1>4. CASE req[q].pc = "idle"
  BY <1>4 DEF HandlerOK
<1> QED BY <1>2, <1>3, <1>4

\* What a step that fills a slot owes.
LEMMA NewHandler ==
    ASSUME NEW q \in Requests, NEW pc, NEW o \in Orders, NEW l, NEW c, NEW s \in {"idle", "post"},
           req'[q] = Handler(pc, o, l, c, s), status'[o] # "none", pc # "retry",
           pc \in {"supersede", "call", "ask", "bind", "complete"} => l \in Async(o)',
           pc = "bind" => c \in Prompts,
           s = "post" => Tab(o)',
           pc = "post" => Tab(o)' /\ status'[o] \in {"PAID", "VOIDED"}
    PROVE  HandlerOK(req[q])'
<1>1. /\ req'[q].pc = pc /\ req'[q].order = o /\ req'[q].leg = l /\ req'[q].ref = c
      /\ req'[q].after = s
  BY DEF Handler
<1> QED BY <1>1 DEF HandlerOK

\* A handler that has ended has nothing to rely on.
LEMMA NewIdle ==
    ASSUME NEW q \in Requests, req'[q] = IdleSlot
    PROVE  HandlerOK(req[q])'
<1>1. req'[q].pc = "idle"
  BY DEF IdleSlot, Slot, Handler
<1> QED BY <1>1 DEF HandlerOK

\* A step that fills one slot leaves the others alone.
LEMMA OthersKept ==
    ASSUME TypeOK, RowsOK, HandlersOK, [Next]_vars, NEW q \in Requests, NEW slot,
           Set(q, slot), req'[q] = slot => HandlerOK(req[q])'
    PROVE  HandlersOK'
<1>1. req'[q] = slot /\ \A p \in Requests : p # q => req'[p] = req[p]
  BY DEF Set, TypeOK
<1>2. \A p \in Requests : p # q => HandlerOK(req[p])'
  BY <1>1, HandlerKept
<1> QED BY <1>1, <1>2 DEF HandlersOK

\* A step that ends a handler keeps what the others rely on.
LEMMA Ended ==
    ASSUME TypeOK, RowsOK, HandlersOK, [Next]_vars, NEW q \in Requests, End(q)
    PROVE  HandlersOK'
<1>1. Set(q, IdleSlot) /\ (req'[q] = IdleSlot => HandlerOK(req[q])')
  BY NewIdle DEF End
<1> QED BY <1>1, OthersKept

\* A handler that moves on relies on what its step has just seen.
LEMMA Handled ==
    ASSUME TypeOK, RowsOK, HandlersOK, [Next]_vars,
           NEW q \in Requests, NEW pc, NEW o \in Orders, NEW l, NEW c, NEW s \in {"idle", "post"},
           Set(q, Handler(pc, o, l, c, s)), status'[o] # "none", pc # "retry",
           pc \in {"supersede", "call", "ask", "bind", "complete"} => l \in Async(o)',
           pc = "bind" => c \in Prompts,
           s = "post" => Tab(o)',
           pc = "post" => Tab(o)' /\ status'[o] \in {"PAID", "VOIDED"}
    PROVE  HandlersOK'
<1>1. req'[q] = Handler(pc, o, l, c, s) => HandlerOK(req[q])'
  BY NewHandler
<1> QED BY <1>1, OthersKept

\* What a handler in flight remembers, on both sides of a step.
LEMMA Recalled ==
    ASSUME TypeOK, RowsOK, HandlersOK, [Next]_vars,
           NEW q \in Requests, NEW o, o = req[q].order, req[q].pc # "idle"
    PROVE  /\ o \in Orders /\ status[o] # "none" /\ status'[o] # "none"
           /\ req[q].pc \in {"supersede", "call", "ask", "bind", "complete"} =>
                 req[q].leg \in Async(o) /\ req[q].leg \in Async(o)'
           /\ req[q].after = "post" => Tab(o) /\ Tab(o)'
<1>1. HandlerOK(req[q])
  BY DEF HandlersOK
<1>2. o \in Orders
  BY <1>1 DEF HandlerOK
<1>3. /\ Async(o) \subseteq Async(o)'
      /\ Tab(o) => Tab(o)'
      /\ status[o] # "none" => status'[o] # "none"
  BY <1>2, Remembered, StatusStep
<1> QED BY <1>1, <1>2, <1>3 DEF HandlerOK

\* Every step keeps what the handlers rely on.
LEMMA HandlersStep ==
    ASSUME TypeOK, RowsOK, HandlersOK, SettledOK, [Next]_vars
    PROVE  HandlersOK'
<1>1. \A o \in Orders : /\ LegsOf(o) \subseteq LegsOf(o)'
                        /\ Async(o) \subseteq Async(o)'
                        /\ Tab(o) => Tab(o)'
                        /\ status[o] # "none" => status'[o] # "none"
                        /\ status[o] \in {"PAID", "VOIDED"} => status'[o] \in {"PAID", "VOIDED"}
  BY Remembered, StatusStep
<1>3. ASSUME NEW o \in Orders, NEW q \in Requests, CheckoutMpesa(q, o) PROVE HandlersOK'
  <2>1. status'[o] # "none"
    BY <1>3 DEF CheckoutMpesa, TypeOK
  <2>2. Set(q, Handler("push", o, None, None, "idle")) \/ UNCHANGED req
    BY <1>3 DEF CheckoutMpesa, Slot
  <2> QED
    <3>1. CASE UNCHANGED req
      BY <3>1, HandlerKept DEF HandlersOK
    <3> QED BY <2>1, <2>2, <3>1, Handled
<1>4. ASSUME NEW q \in Requests, PushRead(q) PROVE HandlersOK'
  <2>1. PICK o : o = req[q].order
    OBVIOUS
  <2>2. o \in Orders /\ status'[o] # "none"
    BY <1>4, <2>1, Recalled DEF PushRead
  <2>3. CASE End(q)
    BY <2>3, Ended
  <2>4. ASSUME NEW l \in Async(o), NEW pc \in {"supersede", "ask"},
               Set(q, Handler(pc, o, l, None, "idle"))
        PROVE  HandlersOK'
    <3>1. l \in Async(o)'
      BY <1>1, <2>2
    <3> QED BY <2>2, <2>4, <3>1, Handled
  <2> QED BY <1>4, <2>1, <2>3, <2>4 DEF PushRead, Last, In, LegsOf, Async, SettledOK
<1>5. ASSUME NEW q \in Requests,
             PushBusy(q) \/ PushFailed(q) \/ PushBind(q) \/ SettlePost(q)
      PROVE  HandlersOK'
  BY <1>5, Ended DEF PushBusy, PushFailed, PushBind, SettlePost
<1>6. ASSUME NEW q \in Requests, PushSupersede(q) PROVE HandlersOK'
  <2>1. PICK o : o = req[q].order
    OBVIOUS
  <2>2. req[q].pc = "supersede" /\ req[q] \in Slots
    BY <1>6 DEF PushSupersede, TypeOK
  <2>3. /\ o \in Orders /\ status'[o] # "none" /\ req[q].leg \in Async(o)'
        /\ req[q].after = "post" => Tab(o)'
    BY <2>1, <2>2, Recalled
  <2>4. Set(q, [req[q] EXCEPT !.pc = "call"])
    BY <1>6 DEF PushSupersede, GoTo, Set, TypeOK
  <2>5. ASSUME req'[q] = [req[q] EXCEPT !.pc = "call"] PROVE HandlerOK(req[q])'
    <3>1. /\ req'[q].pc = "call" /\ req'[q].order = o /\ req'[q].leg = req[q].leg
          /\ req'[q].after = req[q].after
      BY <2>1, <2>2, <2>5 DEF Slots
    <3> QED BY <2>3, <3>1 DEF HandlerOK
  <2> QED BY <2>4, <2>5, OthersKept
<1>7. ASSUME NEW q \in Requests, PushSent(q) PROVE HandlersOK'
  <2>1. PICK o : o = req[q].order
    OBVIOUS
  <2>2. o \in Orders /\ status'[o] # "none" /\ req[q].leg \in Async(o)'
    BY <1>7, <2>1, Recalled DEF PushSent
  <2>3. PICK c \in Prompts : Set(q, Handler("bind", o, req[q].leg, c, "idle"))
    BY <1>7, <2>1 DEF PushSent
  <2>4. PICK l : l = req[q].leg
    OBVIOUS
  <2>5. Set(q, Handler("bind", o, l, c, "idle")) /\ l \in Async(o)'
    BY <2>2, <2>3, <2>4
  <2> QED BY <2>2, <2>5, Handled
<1>8. ASSUME NEW q \in Requests, NEW o \in Orders, RetryRead(q, o) PROVE HandlersOK'
  <2>1. Set(q, [Slot("retry", o) EXCEPT !.seen = In(o, "PENDING")])
    BY <1>8 DEF RetryRead
  <2>2. status'[o] # "none" /\ In(o, "PENDING") \subseteq Async(o)
    BY <1>1, <1>8 DEF RetryRead, In, LegsOf, Async, SettledOK
  <2>3. req'[q] = [Slot("retry", o) EXCEPT !.seen = In(o, "PENDING")] => HandlerOK(req[q])'
    BY <1>1, <2>2 DEF HandlerOK, Slot, Handler
  <2> QED BY <2>1, <2>3, OthersKept
<1>9. ASSUME NEW q \in Requests, RetryWrite(q) PROVE HandlersOK'
  <2>1. PICK o : o = req[q].order
    OBVIOUS
  <2>2. o \in Orders /\ status'[o] # "none"
    BY <1>9, <2>1, Recalled DEF RetryWrite
  <2>3. Set(q, Handler("push", o, None, None, "idle"))
    BY <1>9, <2>1 DEF RetryWrite, Slot
  <2> QED BY <2>2, <2>3, Handled
<1>10. ASSUME NEW q \in Requests, NEW o \in Orders, NEW c, NEW s \in {"idle", "post"},
              ReadToConfirm(q, o, c, s), s = "post" => Tab(o)'
       PROVE  HandlersOK'
  <2>1. \/ End(q)
        \/ /\ status[o] # "none"
           /\ \E l \in Async(o) : Set(q, Handler("complete", o, l, c, s))
        \/ /\ status[o] # "none"
           /\ Set(q, Handler("insert", o, None, c, s))
    BY <1>10 DEF ReadToConfirm, Last, In, LegsOf, Async, SettledOK
  <2>2. CASE End(q)
    BY <2>2, Ended
  <2>3. ASSUME NEW l \in Async(o), status[o] # "none", Set(q, Handler("complete", o, l, c, s))
        PROVE  HandlersOK'
    <3>1. l \in Async(o)' /\ status'[o] # "none"
      BY <1>1, <2>3
    <3> QED BY <1>10, <2>3, <3>1, Handled
  <2>4. ASSUME status[o] # "none", Set(q, Handler("insert", o, None, c, s))
        PROVE  HandlersOK'
    <3>1. status'[o] # "none"
      BY <1>1, <2>4
    <3> QED BY <1>10, <2>4, <3>1, Handled
  <2> QED BY <2>1, <2>2, <2>3, <2>4
<1>11. ASSUME NEW q \in Requests, NEW o \in Orders, NEW c \in Codes, Confirm(q, o, c)
       PROVE  HandlersOK'
  BY <1>10, <1>11 DEF Confirm
<1>12. ASSUME NEW q \in Requests, ConfirmRead(q) PROVE HandlersOK'
  <2>1. PICK o, c, s : o = req[q].order /\ c = req[q].ref /\ s = req[q].after
    OBVIOUS
  <2>2. o \in Orders /\ (s = "post" => Tab(o)')
    BY <1>12, <2>1, Recalled DEF ConfirmRead
  <2>3. s \in {"idle", "post"}
    BY <2>1, SlotFields DEF TypeOK
  <2>4. ReadToConfirm(q, o, c, s)
    BY <1>12, <2>1 DEF ConfirmRead
  <2> QED BY <1>10, <2>2, <2>3, <2>4
<1>13. ASSUME NEW q \in Requests, ConfirmInsert(q) PROVE HandlersOK'
  <2>1. PICK o, c, s : o = req[q].order /\ c = req[q].ref /\ s = req[q].after
    OBVIOUS
  <2>2. o \in Orders /\ status'[o] # "none" /\ (s = "post" => Tab(o)')
    BY <1>13, <2>1, Recalled DEF ConfirmInsert, InsertLeg
  <2>3. s \in {"idle", "post"}
    BY <2>1, SlotFields DEF TypeOK
  <2>4. PICK l \in Legs : \E due :
           /\ pay' = [pay EXCEPT ![l] = Leg(o, "manual", "PENDING", due)]
           /\ Set(q, Handler("complete", o, l, c, s))
    BY <1>13, <2>1 DEF ConfirmInsert, InsertLeg
  <2>5. l \in Async(o)'
    BY <2>4 DEF Async, LegsOf, Leg, TypeOK
  <2> QED BY <2>2, <2>3, <2>4, <2>5, Handled
<1>14. ASSUME NEW q \in Requests, Complete(q) PROVE HandlersOK'
  <2>1. PICK o, l, c, x : o = req[q].order /\ l = req[q].leg /\ c = req[q].ref /\ x = req[q].exact
    OBVIOUS
  <2>2. /\ o \in Orders /\ l \in Async(o) /\ status[o] # "none" /\ status'[o] # "none"
        /\ req[q].after = "post" => Tab(o)'
    BY <1>14, <2>1, Recalled DEF Complete
  <2>3. CASE End(q)
    BY <2>3, Ended
  <2>4. ASSUME req[q].after = "post", Accepted(l, c), Set(q, Handler("post", o, None, None, "idle"))
        PROVE  HandlersOK'
    <3>1. Tab(o)'
      BY <2>2, <2>4
    <3>2. l \in Legs /\ pay[l].of = o /\ pay[l].kind # "credit"
      BY <2>2 DEF Async, LegsOf
    <3>3. status'[o] \in {"PAID", "VOIDED"}
      <4>1. CASE AlreadyDone(l)
        <5>1. status[o] = "PAID"
          BY <3>2, <4>1 DEF AlreadyDone, SettledOK
        <5> QED BY <1>1, <2>2, <5>1
      <4>2. CASE ~AlreadyDone(l)
        <5>1. CompletePayment(l, c, x)
          BY <1>14, <2>1 DEF Complete
        <5>2. Land(l, c, x)
          BY <2>4, <4>2, <5>1 DEF CompletePayment, Accepted
        <5> QED BY <2>2, <3>2, <5>2 DEF Land, LandIf, TypeOK
      <4> QED BY <4>1, <4>2
    <3> QED BY <2>2, <2>4, <3>1, <3>3, Handled
  <2> QED BY <1>14, <2>1, <2>3, <2>4 DEF Complete, Slot
<1>15. ASSUME NEW q \in Requests, NEW o \in Orders, SettleCash(q, o) PROVE HandlersOK'
  <2>1. PICK l \in In(o, "PENDING") :
           /\ pay[l].kind = "account" /\ Set(q, Handler("complete", o, l, None, "post"))
    BY <1>15 DEF SettleCash
  <2>2. l \in Async(o) /\ Tab(o) /\ status[o] # "none"
    BY <1>15, <2>1 DEF SettleCash, In, Async, Tab
  <2>3. l \in Async(o)' /\ Tab(o)' /\ status'[o] # "none"
    BY <1>1, <2>2
  <2> QED BY <2>1, <2>3, Handled
<1>16. ASSUME NEW q \in Requests, NEW o \in Orders, NEW c \in Codes, SettleMpesa(q, o, c)
       PROVE  HandlersOK'
  <2>1. Set(q, Handler("confirm", o, None, c, "post")) /\ Tab(o) /\ status[o] # "none"
    BY <1>16 DEF SettleMpesa, In, Tab
  <2>2. Tab(o)' /\ status'[o] # "none"
    BY <1>1, <2>1
  <2> QED BY <2>1, <2>2, Handled
<1>17. ASSUME NEW q \in Requests, NEW l \in Legs, Poll(q, l) PROVE HandlersOK'
  <2>1. PICK o, c : o = pay[l].of /\ c = pay[l].bound
    OBVIOUS
  <2>2. PICK x \in BOOLEAN : Set(q, [Handler("complete", o, l, c, "idle") EXCEPT !.exact = x])
    BY <1>17, <2>1 DEF Poll
  <2>3. o \in Orders /\ status[o] # "none" /\ l \in Async(o)
    BY <1>17, <2>1 DEF Poll, RowsOK, NoLeg, Leg, SettledOK, Async, LegsOf
  <2>4. l \in Async(o)' /\ status'[o] # "none"
    BY <1>1, <2>3
  <2>5. req'[q] = [Handler("complete", o, l, c, "idle") EXCEPT !.exact = x]
           => HandlerOK(req[q])'
    BY <2>3, <2>4 DEF HandlerOK, Handler
  <2> QED BY <2>2, <2>5, OthersKept
<1>18. CASE Crash
  BY <1>18, NewIdle DEF Crash, HandlersOK
<1>19. CASE UNCHANGED req
  BY <1>19, HandlerKept DEF HandlersOK
<1> QED
  BY <1>3, <1>4, <1>5, <1>6, <1>7, <1>8, <1>9, <1>11, <1>12, <1>13, <1>14, <1>15, <1>16,
     <1>17, <1>18, <1>19
     DEF Next, Ring, CheckoutInstant, CheckoutTab, Void, Start, Continue, Push, Callback,
         CallbackDeclined, CallbackMismatch, ClaimEvent, ClaimFor, CallbackPaid, Expire, Answer, DropEvent, vars

-----------------------------------------------------------------------------
(***************************************************************************)
(* The four kinds of step.  Only a checkout, a void, a payment and the     *)
(* posting of a settlement touch the accounts; every other step is quiet:  *)
(* it fails or binds legs that are waited for, or adds one more.           *)
(***************************************************************************)
accounts == <<status, stock, debt, credit, points, posted, taken, wins>>

QuietRow(k) ==
    \/ pay'[k] = pay[k]
    \/ /\ Fresh(k)
       /\ \E o \in Orders, kind \in Mpesa, c \in Int :
             /\ status[o] # "none" /\ (kind = "manual" => c = Total - CreditIn(LegsOf(o)))
             /\ pay'[k] = Leg(o, kind, "PENDING", c)
    \/ /\ pay[k].kind \notin {"none", "credit"}
       /\ \/ pay'[k] = InState(pay[k], "FAILED")
          \/ \E c \in Prompts : pay'[k] = [pay[k] EXCEPT !.bound = c]

Quiet == UNCHANGED accounts /\ \A k \in Legs : QuietRow(k)

Payment(l, code, exact) ==
    /\ pay[l].kind \notin {"none", "credit"}
    /\ ~AlreadyDone(l) /\ ~AfterVoid(l) /\ ~Duplicate(l, code)
    /\ Land(l, code, exact)

Paid == \E l \in Legs, code \in Codes \cup {None}, exact \in BOOLEAN : Payment(l, code, exact)

\* A payment is of a sale that is open or paid, and leaves it paid.
LEMMA PaymentLands ==
    ASSUME TypeOK, RowsOK, NEW l \in Legs, NEW code, NEW exact, Payment(l, code, exact),
           NEW o, o = pay[l].of
    PROVE  /\ o \in Orders /\ status[o] \in {"PENDING", "PAID"}
           /\ status' = [status EXCEPT ![o] = "PAID"]
<1>1. o \in Orders /\ status[o] \in {"PENDING", "PAID"}
  BY DEF Payment, RowsOK, AfterVoid, AlreadyDone, TypeOK
<1>2. CASE status[o] = "PENDING"
  BY <1>1, <1>2 DEF Payment, Land, LandIf
<1>3. CASE status[o] = "PAID"
  <2>1. status' = status
    BY <1>3 DEF Payment, Land, LandIf
  <2> QED BY <1>1, <1>3, <2>1 DEF TypeOK
<1> QED BY <1>1, <1>2, <1>3

\* completePayment pays an order or leaves the accounts alone.
LEMMA CompletionKinds ==
    ASSUME TypeOK, NEW l \in Legs, pay[l].kind \notin {"none", "credit"},
           NEW code \in Codes \cup {None}, NEW exact \in BOOLEAN,
           CompletePayment(l, code, exact)
    PROVE  Paid \/ Quiet
<1>1. CASE UNCHANGED <<books, pay>>
  BY <1>1 DEF Quiet, QuietRow, accounts, books
<1>2. CASE pay' = [pay EXCEPT ![l] = InState(@, "FAILED")] /\ UNCHANGED books
  BY <1>2 DEF Quiet, QuietRow, accounts, books, TypeOK
<1>3. CASE ~AlreadyDone(l) /\ ~AfterVoid(l) /\ ~Duplicate(l, code) /\ Land(l, code, exact)
  BY <1>3 DEF Paid, Payment
<1> QED BY <1>1, <1>2, <1>3 DEF CompletePayment

\* Failing a leg leaves the accounts alone.
LEMMA FailKinds ==
    ASSUME TypeOK, NEW l \in Legs, pay[l].kind \notin {"none", "credit"}, Fail(l),
           UNCHANGED accounts
    PROVE  Quiet
BY DEF Quiet, QuietRow, Fail, TypeOK

\* A row that is not used yet belongs to no order and has no receipt.
LEMMA FreeRow ==
    ASSUME RowsOK, NEW l \in Legs, pay[l].kind = "none"
    PROVE  /\ pay[l].of = None /\ pay[l].state = "none" /\ pay[l].receipt = None
           /\ pay[l].bound = None /\ pay[l].of \notin Orders
BY TillAssumption DEF RowsOK, NoLeg, Leg

\* A step opens an order, pays one, posts a settlement, voids one, or is quiet.
LEMMA StepKinds ==
    ASSUME TypeOK, RowsOK, HandlersOK, SettledOK, [Next]_vars
    PROVE  \/ \E o \in Orders : \/ CheckoutInstant(o) \/ CheckoutTab(o) \/ Void(o)
                                \/ \E q \in Requests : CheckoutMpesa(q, o)
           \/ Paid
           \/ \E q \in Requests : SettlePost(q)
           \/ Quiet
<1>1. CASE UNCHANGED <<books, pay>>
  BY <1>1 DEF Quiet, QuietRow, accounts, books
<1>2. ASSUME NEW q \in Requests, req[q].pc \in {"supersede", "call", "ask", "bind", "complete"}
      PROVE  /\ req[q].leg \in Legs /\ pay[req[q].leg].kind \notin {"none", "credit"}
  <2>1. HandlerOK(req[q])
    BY DEF HandlersOK
  <2>2. req[q].order \in Orders /\ req[q].leg \in Async(req[q].order)
    BY <1>2, <2>1 DEF HandlerOK
  <2> QED BY <2>2, FreeRow DEF Async, LegsOf
<1>3. ASSUME NEW q \in Requests, PushSupersede(q) PROVE Quiet
  BY <1>3 DEF PushSupersede, In, LegsOf, Mpesa, Quiet, QuietRow, accounts, books
<1>4. ASSUME NEW q \in Requests, PushFailed(q) PROVE Quiet
  BY <1>2, <1>4, FailKinds DEF PushFailed, accounts, books
<1>5. ASSUME NEW q \in Requests, PushBind(q) PROVE Quiet
  <2>1. req[q].leg \in Legs /\ pay[req[q].leg].kind \notin {"none", "credit"}
    BY <1>2, <1>5 DEF PushBind
  <2>2. req[q].ref \in Prompts
    BY <1>5 DEF PushBind, HandlersOK, HandlerOK
  <2> QED BY <1>5, <2>1, <2>2 DEF PushBind, Quiet, QuietRow, accounts, books, TypeOK
<1>6. ASSUME NEW q \in Requests, RetryWrite(q) PROVE Quiet
  <2>1. PICK o, S : o = req[q].order /\ S = req[q].seen
    OBVIOUS
  <2>2. o \in Orders /\ status[o] # "none" /\ S \subseteq Async(o)
    BY <1>6, <2>1 DEF RetryWrite, HandlersOK, HandlerOK
  <2>3. RoundToShilling(Total) \in Int
    BY TillAssumption DEF RoundToShilling
  <2>4. UNCHANGED accounts
    BY <1>6 DEF RetryWrite, accounts, books
  <2>5. PICK l \in Legs :
           /\ Fresh(l)
           /\ pay' = [k \in Legs |->
                        IF k = l THEN Leg(o, "stk", "PENDING", RoundToShilling(Total))
                        ELSE IF k \in S THEN InState(pay[k], "FAILED") ELSE pay[k]]
    BY <1>6, <2>1 DEF RetryWrite
  <2>6. \A k \in S : pay[k].kind \notin {"none", "credit"}
    BY <2>2, TillAssumption DEF Async, LegsOf, RowsOK, NoLeg, Leg
  <2>7. \A k \in Legs : QuietRow(k)
    BY <2>2, <2>3, <2>5, <2>6 DEF QuietRow, Mpesa
  <2> QED BY <2>4, <2>7 DEF Quiet
<1>7. ASSUME NEW q \in Requests, ConfirmInsert(q) PROVE Quiet
  <2>1. PICK o : o = req[q].order
    OBVIOUS
  <2>2. o \in Orders /\ status[o] # "none"
    BY <1>7, <2>1 DEF ConfirmInsert, InsertLeg, HandlersOK, HandlerOK
  <2>3. Total - CreditIn(LegsOf(o)) \in Int
    BY CreditTyped, TillAssumption DEF LegsOf
  <2>4. PICK l \in Legs, c \in Int :
           /\ Fresh(l) /\ pay' = [pay EXCEPT ![l] = Leg(o, "manual", "PENDING", c)]
           /\ c = Total - CreditIn(LegsOf(o))
    BY <1>7, <2>1, <2>3 DEF ConfirmInsert, InsertLeg
  <2>5. UNCHANGED accounts
    BY <1>7 DEF ConfirmInsert, InsertLeg, accounts, books
  <2> QED BY <2>2, <2>4, <2>5 DEF Quiet, QuietRow, Mpesa, TypeOK
<1>8. ASSUME NEW q \in Requests, Complete(q) PROVE Paid \/ Quiet
  <2>1. req[q].leg \in Legs /\ pay[req[q].leg].kind \notin {"none", "credit"}
    BY <1>2, <1>8 DEF Complete
  <2>2. req[q].ref \in Codes \cup {None} /\ req[q].exact \in BOOLEAN
    BY SlotFields DEF TypeOK
  <2>3. CompletePayment(req[q].leg, req[q].ref, req[q].exact)
    BY <1>8 DEF Complete
  <2> QED BY <2>1, <2>2, <2>3, CompletionKinds
<1>9. ASSUME NEW l \in Legs, Callback(l) PROVE Paid \/ Quiet
  <2>1. pay[l].kind \notin {"none", "credit"} /\ pay[l].bound \in Prompts
    <3>1. pay[l].bound # None
      BY <1>9, TillAssumption DEF Callback, CallbackDeclined, CallbackMismatch, ClaimEvent, ClaimFor, CallbackPaid, Expire
    <3>2. pay[l].bound \in Prompts
      BY <3>1, RowFields DEF TypeOK
    <3> QED BY <3>1, <3>2, FreeRow DEF SettledOK
  <2>2. CASE CallbackPaid(l)
    <3>1. pay[l].bound \in Codes \cup {None} /\ TRUE \in BOOLEAN
      BY <2>1 DEF Codes
    <3>2. CompletePayment(l, pay[l].bound, TRUE)
      BY <2>2 DEF CallbackPaid
    <3> QED BY <2>1, <3>1, <3>2, CompletionKinds
  <2>3. CASE Fail(l) /\ UNCHANGED accounts
    BY <2>1, <2>3, FailKinds
  <2>4. CASE ClaimEvent(l)
    BY <2>4 DEF ClaimEvent, ClaimFor, books, accounts, Quiet, QuietRow
  <2> QED
    BY <1>9, <2>2, <2>3, <2>4
       DEF Callback, CallbackDeclined, CallbackMismatch, ClaimEvent, ClaimFor, Expire, accounts, books
<1> QED
  BY <1>1, <1>3, <1>4, <1>5, <1>6, <1>7, <1>8, <1>9
     DEF Next, Ring, Start, Continue, Push, PushRead, PushBusy, PushSent, RetryRead, Confirm,
         ConfirmRead, SettleCash, SettleMpesa, Poll, Answer, DropEvent, Crash, vars, books

\* The rows a checkout adds are the next free ones, and are its order's.
NewRow(o, row) ==
    /\ row.of = o /\ row.kind \in {"cash", "credit", "account"} \cup Mpesa
    /\ row.receipt = None /\ row.bound = None
    /\ row.kind = "credit" => row.state = "COMPLETED"
    /\ row.state = "COMPLETED" => row.kind \in {"cash", "credit"}
    /\ row.kind = "cash" => status'[o] = "PAID"

Adds(o, S) ==
    /\ \A k \in Legs \ S : pay'[k] = pay[k]
    /\ \A k \in S : /\ pay[k].kind = "none" /\ NewRow(o, pay'[k])
                    /\ \A j \in Legs \ S : j < k => pay[j].kind # "none"

\* Inserting one or two payments of an order adds rows to that order only.
LEMMA Adding ==
    ASSUME TypeOK, RowsOK, NEW o \in Orders, NEW l \in Legs, Fresh(l), NEW row, NewRow(o, row)
    PROVE  /\ pay' = [pay EXCEPT ![l] = row] => Adds(o, {l})
           /\ \A next : l + 1 \in Legs /\ NewRow(o, next) =>
                 (pay' = [pay EXCEPT ![l] = row, ![l + 1] = next] => Adds(o, {l, l + 1}))
<1>1. pay[l].kind = "none" /\ (l + 1 \in Legs => pay[l + 1].kind = "none")
  BY FreshFree
<1>2. \A j \in Legs : j < l => pay[j].kind # "none"
  BY DEF Fresh
<1>3. pay' = [pay EXCEPT ![l] = row] => Adds(o, {l})
  BY <1>1, <1>2 DEF Adds, TypeOK
<1>4. ASSUME NEW next, l + 1 \in Legs, NewRow(o, next),
             pay' = [pay EXCEPT ![l] = row, ![l + 1] = next]
      PROVE  Adds(o, {l, l + 1})
  <2>1. l + 1 # l /\ \A j \in Legs : j < l + 1 => j < l \/ j = l
    BY TillAssumption
  <2>2. pay'[l] = row /\ pay'[l + 1] = next /\ \A k \in Legs \ {l, l + 1} : pay'[k] = pay[k]
    BY <1>4, <2>1 DEF TypeOK
  <2> QED BY <1>1, <1>2, <1>4, <2>1, <2>2 DEF Adds
<1> QED BY <1>3, <1>4

\* A checkout opens one order and adds rows to it.
LEMMA Opening ==
    ASSUME TypeOK, RowsOK, NEW o \in Orders,
           CheckoutInstant(o) \/ CheckoutTab(o) \/ \E q \in Requests : CheckoutMpesa(q, o)
    PROVE  /\ status[o] = "none" /\ status'[o] \in {"PENDING", "PAID"}
           /\ status' = [status EXCEPT ![o] = status'[o]]
           /\ \E S \in SUBSET Legs : Adds(o, S)
<1>1. /\ status[o] = "none" /\ status'[o] \in {"PENDING", "PAID"}
      /\ status' = [status EXCEPT ![o] = status'[o]]
  BY DEF CheckoutInstant, CheckoutTab, CheckoutMpesa, TypeOK
<1>2. \A state \in {"PENDING", "COMPLETED"}, kind \in {"cash", "credit", "account"} \cup Mpesa : \A c :
         /\ kind = "credit" => state = "COMPLETED"
         /\ state = "COMPLETED" => kind \in {"cash", "credit"}
         /\ kind = "cash" => status'[o] = "PAID"
         => NewRow(o, Leg(o, kind, state, c))
  BY DEF NewRow, Leg
<1>3. CASE CheckoutInstant(o)
  <2>1. PICK l \in Legs, c \in {0, CreditPart, Total} : CheckoutInstant(o)!3!(l, c)
    BY <1>3 DEF CheckoutInstant
  <2>2. Fresh(l) /\ status'[o] = "PAID"
    BY <1>3, <2>1 DEF CheckoutInstant, TypeOK
  <2>3. /\ NewRow(o, Leg(o, "credit", "COMPLETED", CreditPart))
        /\ NewRow(o, Leg(o, "cash", "COMPLETED", Total - CreditPart))
        /\ NewRow(o, Leg(o, "cash", "COMPLETED", Total))
        /\ NewRow(o, Leg(o, "credit", "COMPLETED", Total))
    BY <1>2, <2>2
  <2>4. CASE c = CreditPart
    <3>1. /\ l + 1 \in Legs
          /\ pay' = [pay EXCEPT ![l]     = Leg(o, "credit", "COMPLETED", CreditPart),
                                ![l + 1] = Leg(o, "cash", "COMPLETED", Total - CreditPart)]
      BY <2>1, <2>4
    <3>2. Adds(o, {l, l + 1})
      BY <2>2, <2>3, <3>1, Adding
    <3> QED BY <1>1, <3>1, <3>2
  <2>5. CASE c # CreditPart
    <3>1. PICK kind \in {"cash", "credit"} :
             pay' = [pay EXCEPT ![l] = Leg(o, kind, "COMPLETED", Total)]
      BY <2>1, <2>5
    <3>2. NewRow(o, Leg(o, kind, "COMPLETED", Total))
      BY <2>3
    <3>3. Adds(o, {l})
      BY <2>2, <3>1, <3>2, Adding
    <3> QED BY <1>1, <3>3
  <2> QED BY <1>1, <2>4, <2>5
<1>4. CASE CheckoutTab(o)
  <2>1. PICK l \in Legs : Fresh(l) /\ pay' = [pay EXCEPT ![l] = Leg(o, "account", "PENDING", Total)]
    BY <1>4 DEF CheckoutTab
  <2>2. NewRow(o, Leg(o, "account", "PENDING", Total))
    BY <1>2
  <2> QED BY <1>1, <2>1, <2>2, Adding
<1>5. ASSUME NEW q \in Requests, CheckoutMpesa(q, o) PROVE \E S \in SUBSET Legs : Adds(o, S)
  <2>1. PICK l \in Legs, m \in Mpesa, c \in {0, CreditPart} : CheckoutMpesa(q, o)!3!(l, m, c)
    BY <1>5 DEF CheckoutMpesa
  <2>2. Fresh(l)
    BY <2>1
  <2>3. /\ NewRow(o, Leg(o, "credit", "COMPLETED", CreditPart))
        /\ NewRow(o, Leg(o, m, "PENDING", Ask(m, Total - CreditPart)))
        /\ NewRow(o, Leg(o, m, "PENDING", Ask(m, Total)))
    BY <1>2 DEF Mpesa
  <2>4. CASE c = 0
    <3>1. pay' = [pay EXCEPT ![l] = Leg(o, m, "PENDING", Ask(m, Total))]
      BY <2>1, <2>4
    <3>2. Adds(o, {l})
      BY <2>2, <2>3, <3>1, Adding
    <3> QED BY <3>2
  <2>5. CASE c # 0
    <3>1. /\ l + 1 \in Legs
          /\ pay' = [pay EXCEPT ![l]     = Leg(o, "credit", "COMPLETED", CreditPart),
                                ![l + 1] = Leg(o, m, "PENDING", Ask(m, Total - CreditPart))]
      BY <2>1, <2>5
    <3>2. Adds(o, {l, l + 1})
      BY <2>2, <2>3, <3>1, Adding
    <3> QED BY <3>1, <3>2
  <2> QED BY <2>4, <2>5
<1> QED BY <1>1, <1>3, <1>4, <1>5

\* What becomes of a free row.
LEMMA FreeStep ==
    ASSUME TypeOK, RowsOK, HandlersOK, SettledOK, [Next]_vars,
           NEW l \in Legs, pay[l].kind = "none"
    PROVE  \/ pay'[l] = pay[l]
           \/ /\ pay'[l].kind # "none" /\ pay'[l].of \in Orders
              /\ status'[pay'[l].of] # "none"
              /\ pay'[l].receipt = None
              /\ \A j \in Legs : j < l => pay'[j].kind # "none"
<1>1. ASSUME NEW o \in Orders, CheckoutInstant(o) \/ CheckoutTab(o)
                              \/ \E q \in Requests : CheckoutMpesa(q, o),
             pay'[l] # pay[l]
      PROVE  /\ pay'[l].kind # "none" /\ pay'[l].of \in Orders
             /\ status'[pay'[l].of] # "none"
             /\ pay'[l].receipt = None
             /\ \A j \in Legs : j < l => pay'[j].kind # "none"
  <2>1. status'[o] # "none"
    BY <1>1, Opening
  <2>2. PICK S \in SUBSET Legs : Adds(o, S)
    BY <1>1, Opening
  <2>3. l \in S
    BY <1>1, <2>2 DEF Adds
  <2>4. pay'[l].kind # "none" /\ pay'[l].of = o /\ pay'[l].receipt = None
    BY <2>2, <2>3 DEF Adds, NewRow, Mpesa
  <2>5. \A j \in S : pay'[j].kind # "none"
    BY <2>2 DEF Adds, NewRow, Mpesa
  <2>6. \A j \in Legs \ S : j < l => pay'[j].kind # "none"
    BY <2>2, <2>3 DEF Adds
  <2> QED BY <2>1, <2>4, <2>5, <2>6
<1>2. ASSUME NEW o \in Orders, Void(o) PROVE pay'[l] = pay[l]
  BY <1>2, FreeRow DEF Void, Voided
<1>3. ASSUME Paid PROVE pay'[l] = pay[l]
  BY <1>3 DEF Paid, Payment, Land, LandIf, TypeOK
<1>4. ASSUME NEW q \in Requests, SettlePost(q) PROVE pay'[l] = pay[l]
  BY <1>4 DEF SettlePost
<1>5. ASSUME Quiet, pay'[l] # pay[l]
      PROVE  /\ pay'[l].kind # "none" /\ pay'[l].of \in Orders
             /\ status'[pay'[l].of] # "none"
             /\ pay'[l].receipt = None
             /\ \A j \in Legs : j < l => pay'[j].kind # "none"
  <2>1. Fresh(l)
    BY <1>5 DEF Quiet, QuietRow
  <2>2. PICK o \in Orders, kind \in Mpesa, c \in Int :
           status[o] # "none" /\ pay'[l] = Leg(o, kind, "PENDING", c)
    BY <1>5 DEF Quiet, QuietRow
  <2>3. status'[o] # "none"
    BY <1>5, <2>2 DEF Quiet, accounts
  <2>4. \A j \in Legs : j < l => pay'[j].kind # "none"
    BY <2>1, RowStep DEF Fresh, Kept
  <2> QED BY <2>2, <2>3, <2>4 DEF Leg, Mpesa
<1> QED BY <1>1, <1>2, <1>3, <1>4, <1>5, StepKinds

\* Every step keeps rows tied to their orders.
LEMMA RowsStep ==
    ASSUME TypeOK, RowsOK, HandlersOK, SettledOK, [Next]_vars
    PROVE  RowsOK'
<1>1. ASSUME NEW l \in Legs, pay[l].kind # "none"
      PROVE  pay'[l].kind # "none" /\ pay'[l].of \in Orders /\ status'[pay'[l].of] # "none"
  <2>1. Kept(l) /\ pay[l].of \in Orders /\ status[pay[l].of] # "none"
    BY <1>1, RowStep DEF RowsOK
  <2> QED BY <1>1, <2>1, StatusStep DEF Kept
<1>2. ASSUME NEW l \in Legs, pay'[l].kind = "none"
      PROVE  pay'[l] = NoLeg /\ \A k \in Legs : k > l => pay'[k].kind = "none"
  <2>1. pay[l].kind = "none"
    BY <1>1, <1>2
  <2>2. pay'[l] = pay[l]
    BY <1>2, <2>1, FreeStep
  <2>3. ASSUME NEW k \in Legs, k > l PROVE pay'[k].kind = "none"
    <3>1. pay[k].kind = "none"
      BY <2>1, <2>3 DEF RowsOK
    <3>2. l < k
      BY <2>3, TillAssumption
    <3>3. pay'[k] = pay[k]
      BY <1>2, <3>1, <3>2, FreeStep
    <3> QED BY <3>1, <3>3
  <2> QED BY <2>1, <2>2, <2>3 DEF RowsOK
<1>3. ASSUME NEW l \in Legs, pay'[l].kind # "none"
      PROVE  pay'[l].of \in Orders /\ status'[pay'[l].of] # "none"
  BY <1>1, <1>3, FreeStep
<1> QED BY <1>2, <1>3 DEF RowsOK

RowSettled(l) ==
    /\ pay[l].kind = "credit" => pay[l].state # "PENDING" /\ pay[l].bound = None
    /\ pay[l].state = "COMPLETED" =>
          /\ status[pay[l].of] # "VOIDED"
          /\ pay[l].kind # "credit" => status[pay[l].of] = "PAID"

\* A completed leg stays with an order that is paid and not voided.
LEMMA SettledStep ==
    ASSUME TypeOK, RowsOK, HandlersOK, SettledOK, [Next]_vars
    PROVE  SettledOK'
<1> SUFFICES ASSUME NEW l \in Legs PROVE RowSettled(l)'
  BY DEF SettledOK, RowSettled
<1>1. RowSettled(l) /\ pay[l] \in Row
  BY DEF SettledOK, RowSettled, TypeOK
<1>2. ASSUME NEW o \in Orders, CheckoutInstant(o) \/ CheckoutTab(o)
                              \/ \E q \in Requests : CheckoutMpesa(q, o)
      PROVE  RowSettled(l)'
  <2>1. /\ status[o] = "none" /\ status'[o] \in {"PENDING", "PAID"}
        /\ status' = [status EXCEPT ![o] = status'[o]]
    BY <1>2, Opening
  <2>2. PICK S \in SUBSET Legs : Adds(o, S)
    BY <1>2, Opening
  <2>3. CASE l \notin S
    <3>1. pay'[l] = pay[l]
      BY <2>2, <2>3 DEF Adds
    <3>2. CASE pay[l].kind = "none"
      BY <3>1, <3>2, FreeRow DEF RowSettled
    <3>3. CASE pay[l].kind # "none"
      <4>1. pay[l].of # o /\ pay[l].of \in Orders
        BY <2>1, <3>3 DEF RowsOK
      <4>2. status'[pay[l].of] = status[pay[l].of]
        BY <2>1, <4>1 DEF TypeOK
      <4> QED BY <1>1, <3>1, <4>2 DEF RowSettled
    <3> QED BY <3>2, <3>3
  <2>4. CASE l \in S
    <3>1. NewRow(o, pay'[l])
      BY <2>2, <2>4 DEF Adds
    <3>2. status'[o] # "VOIDED"
      BY <2>1
    <3> QED BY <3>1, <3>2 DEF RowSettled, NewRow
  <2> QED BY <2>3, <2>4
<1>3. ASSUME NEW o \in Orders, Void(o) PROVE RowSettled(l)'
  <2>1. status' = [status EXCEPT ![o] = "VOIDED"]
    BY <1>3 DEF Void
  <2>2. pay'[l] = IF l \in LegsOf(o) /\ pay[l].state \in {"PENDING", "COMPLETED"}
                    THEN InState(pay[l], "VOIDED") ELSE pay[l]
    BY <1>3 DEF Void, Voided
  <2>3. CASE pay[l].of = o
    BY <1>1, <2>2, <2>3, EditKept DEF RowSettled, LegsOf
  <2>4. CASE pay[l].of # o
    <3>1. pay'[l] = pay[l]
      BY <2>2, <2>4 DEF LegsOf
    <3>2. status'[pay[l].of] = status[pay[l].of] \/ pay[l].of \notin Orders
      BY <2>1, <2>4 DEF TypeOK
    <3>3. CASE pay[l].of \in Orders
      BY <1>1, <3>1, <3>2, <3>3 DEF RowSettled
    <3>4. CASE pay[l].of \notin Orders
      <4>1. pay[l].kind = "none"
        BY <3>4 DEF RowsOK
      <4> QED BY <3>1, <4>1, FreeRow DEF RowSettled
    <3> QED BY <3>3, <3>4
  <2> QED BY <2>3, <2>4
<1>4. ASSUME NEW k \in Legs, NEW c \in Codes \cup {None}, NEW x \in BOOLEAN, Payment(k, c, x)
      PROVE  RowSettled(l)'
  <2>1. PICK o : o = pay[k].of
    OBVIOUS
  <2>2. o \in Orders /\ pay[k].kind \notin {"none", "credit"}
    BY <1>4, <2>1 DEF Payment, RowsOK
  <2>3. status' = [status EXCEPT ![o] = "PAID"]
    BY <1>4, <2>1, PaymentLands
  <2>4. PICK d : pay' = [pay EXCEPT ![k] = PaidBy(@, d)]
    BY <1>4 DEF Payment, Land, LandIf
  <2>5. CASE l = k
    BY <1>1, <2>1, <2>2, <2>3, <2>4, <2>5, EditKept DEF RowSettled, TypeOK
  <2>6. CASE l # k
    <3>1. pay'[l] = pay[l]
      BY <2>4, <2>6 DEF TypeOK
    <3>2. status[pay[l].of] \in {"PAID", "PENDING"} => status'[pay[l].of] \in {"PAID", status[pay[l].of]}
      BY <2>3 DEF TypeOK
    <3>3. CASE pay[l].of = o
      <4>1. status'[pay[l].of] = "PAID"
        BY <2>2, <2>3, <3>3 DEF TypeOK
      <4> QED BY <1>1, <3>1, <4>1 DEF RowSettled
    <3>4. CASE pay[l].of # o
      <4>1. status'[pay[l].of] = status[pay[l].of] \/ pay[l].of \notin Orders
        BY <2>3, <3>4 DEF TypeOK
      <4>2. CASE pay[l].of \in Orders
        BY <1>1, <3>1, <4>1, <4>2 DEF RowSettled
      <4>3. CASE pay[l].of \notin Orders
        <5>1. pay[l].kind = "none"
          BY <4>3 DEF RowsOK
        <5> QED BY <3>1, <5>1, FreeRow DEF RowSettled
      <4> QED BY <4>2, <4>3
    <3> QED BY <3>3, <3>4
  <2> QED BY <2>5, <2>6
<1>5. ASSUME NEW q \in Requests, SettlePost(q) PROVE RowSettled(l)'
  BY <1>1, <1>5 DEF SettlePost, RowSettled
<1>6. ASSUME Quiet PROVE RowSettled(l)'
  <2>1. status' = status /\ QuietRow(l)
    BY <1>6 DEF Quiet, accounts
  <2>2. CASE pay'[l] = pay[l]
    BY <1>1, <2>1, <2>2 DEF RowSettled
  <2>3. ASSUME NEW o \in Orders, NEW kind \in Mpesa, NEW c \in Int, pay'[l] = Leg(o, kind, "PENDING", c)
        PROVE  RowSettled(l)'
    BY <2>3 DEF RowSettled, Leg, Mpesa
  <2>4. CASE pay[l].kind \notin {"none", "credit"} /\ pay'[l] = InState(pay[l], "FAILED")
    BY <1>1, <2>4, EditKept DEF RowSettled
  <2>5. ASSUME pay[l].kind \notin {"none", "credit"},
               NEW c \in Prompts, pay'[l] = [pay[l] EXCEPT !.bound = c]
        PROVE  RowSettled(l)'
    BY <1>1, <2>1, <2>5, EditKept DEF RowSettled
  <2> QED BY <2>1, <2>2, <2>3, <2>4, <2>5 DEF QuietRow
<1> QED BY <1>2, <1>3, <1>4, <1>5, <1>6, StepKinds DEF Paid

-----------------------------------------------------------------------------
(***************************************************************************)
(* The promises, one lemma each.                                           *)
(***************************************************************************)
RowsInv == TypeOK /\ RowsOK /\ HandlersOK /\ SettledOK

\* A quiet step keeps the receipt of every leg.
LEMMA QuietFields ==
    ASSUME NEW l \in Legs, pay[l] \in Row, QuietRow(l)
    PROVE  \/ pay'[l] = pay[l]
           \/ pay'[l].kind \in Mpesa /\ pay'[l].receipt = None
           \/ pay[l].kind # "none" /\ pay'[l].receipt = pay[l].receipt
<1>1. ASSUME NEW o \in Orders, NEW kind \in Mpesa, NEW c \in Int,
             pay'[l] = Leg(o, kind, "PENDING", c)
      PROVE  pay'[l].kind \in Mpesa /\ pay'[l].receipt = None
  BY <1>1 DEF Leg
<1>2. CASE pay[l].kind # "none" /\ pay'[l] = InState(pay[l], "FAILED")
  BY <1>2, EditKept
<1>3. ASSUME NEW c \in Prompts, pay'[l] = [pay[l] EXCEPT !.bound = c]
      PROVE  pay'[l].receipt = pay[l].receipt
  BY <1>3 DEF Row
<1> QED BY <1>1, <1>2, <1>3, EditKept DEF QuietRow

\* Every step keeps the effects of a sale to one.
LEMMA PaidOnceStep ==
    ASSUME RowsInv, PaidOnce, [Next]_vars
    PROVE  PaidOnce'
<1> USE DEF PaidOnce, TypeOK, RowsInv
<1>1. ASSUME NEW o \in Orders, CheckoutInstant(o) PROVE PaidOnce'
  BY <1>1 DEF CheckoutInstant
<1>2. ASSUME NEW o \in Orders, CheckoutTab(o) \/ \E q \in Requests : CheckoutMpesa(q, o)
      PROVE  PaidOnce'
  BY <1>2 DEF CheckoutTab, CheckoutMpesa
<1>3. ASSUME NEW o \in Orders, Void(o) PROVE PaidOnce'
  BY <1>3 DEF Void
<1>4. ASSUME NEW l \in Legs, NEW c \in Codes \cup {None}, NEW x \in BOOLEAN, Payment(l, c, x)
      PROVE  PaidOnce'
  <2>1. PICK o \in Orders : o = pay[l].of /\ status[o] \in {"PENDING", "PAID"}
    BY <1>4 DEF Payment, RowsOK, AfterVoid, AlreadyDone
  <2>2. CASE status[o] = "PENDING"
    BY <1>4, <2>1, <2>2 DEF Payment, Land, LandIf
  <2>3. CASE status[o] = "PAID"
    BY <1>4, <2>1, <2>3 DEF Payment, Land, LandIf
  <2> QED BY <2>1, <2>2, <2>3
<1>5. ASSUME NEW q \in Requests, SettlePost(q) PROVE PaidOnce'
  BY <1>5 DEF SettlePost
<1>6. CASE Quiet
  BY <1>6 DEF Quiet, accounts
<1> HIDE DEF PaidOnce, TypeOK
<1> QED BY <1>1, <1>2, <1>3, <1>4, <1>5, <1>6, StepKinds DEF Paid

\* Every step keeps a receipt on one leg.
LEMMA ReceiptStep ==
    ASSUME RowsInv, OneLegPerReceipt, [Next]_vars
    PROVE  OneLegPerReceipt'
<1> USE DEF RowsInv
<1>1. ASSUME \A l \in Legs : pay'[l].receipt \in {pay[l].receipt, None}
      PROVE  OneLegPerReceipt'
  BY <1>1 DEF OneLegPerReceipt
<1>2. ASSUME NEW l \in Legs, pay[l].kind = "none"
      PROVE  pay'[l].receipt \in {pay[l].receipt, None}
  BY <1>2, FreeStep
<1>3. ASSUME NEW o \in Orders, CheckoutInstant(o) \/ CheckoutTab(o)
                              \/ \E q \in Requests : CheckoutMpesa(q, o)
      PROVE  OneLegPerReceipt'
  BY <1>1, <1>3, Opening DEF Adds, NewRow
<1>4. ASSUME NEW o \in Orders, Void(o) PROVE OneLegPerReceipt'
  BY <1>1, <1>4, EditKept DEF Void, Voided, TypeOK
<1>5. ASSUME NEW k \in Legs, NEW c \in Codes \cup {None}, NEW x \in BOOLEAN, Payment(k, c, x)
      PROVE  OneLegPerReceipt'
  <2>1. pay' = [pay EXCEPT ![k] = PaidBy(@, IF c = None THEN @.receipt ELSE c)]
    BY <1>5 DEF Payment, Land, LandIf
  <2>2. pay[k] \in Row
    BY DEF TypeOK
  <2>3. pay'[k].receipt = IF c = None THEN pay[k].receipt ELSE c
    BY <2>1, <2>2, EditKept DEF TypeOK
  <2>4. \A l \in Legs : l # k => pay'[l] = pay[l]
    BY <2>1 DEF TypeOK
  <2>5. c # None => \A l \in Legs : l # k => pay[l].receipt # c
    BY <1>5 DEF Payment, Duplicate
  <2> QED BY <2>3, <2>4, <2>5 DEF OneLegPerReceipt
<1>6. ASSUME NEW q \in Requests, SettlePost(q) PROVE OneLegPerReceipt'
  BY <1>1, <1>6 DEF SettlePost
<1>7. CASE Quiet
  <2>1. ASSUME NEW l \in Legs PROVE pay'[l].receipt \in {pay[l].receipt, None}
    <3>1. QuietRow(l) /\ pay[l] \in Row
      BY <1>7 DEF Quiet, TypeOK
    <3> QED BY <3>1, QuietFields
  <2>2. \A l \in Legs : pay'[l].receipt \in {pay[l].receipt, None}
    BY <2>1
  <2> QED BY <1>1, <2>2
<1> QED BY <1>3, <1>4, <1>5, <1>6, <1>7, StepKinds DEF Paid

\* The account and credit legs of an order are those of its checkout.
SameFunds(o) ==
    \A l \in Legs, kind \in {"account", "credit"} :
        (pay'[l].of = o /\ pay'[l].kind = kind) <=> (pay[l].of = o /\ pay[l].kind = kind)

\* An order that exists keeps the amounts of its account and credit legs.
LEMMA FundsStep ==
    ASSUME RowsInv, [Next]_vars, NEW o \in Orders, status[o] # "none" \/ status'[o] = "none"
    PROVE  SameFunds(o)
<1> USE DEF RowsInv
<1> SUFFICES ASSUME NEW l \in Legs, pay[l].kind = "none", pay'[l].kind \in {"account", "credit"}
             PROVE  pay'[l].of # o
  <2>1. \A k \in Legs : pay[k].kind # "none" => pay'[k].of = pay[k].of /\ pay'[k].kind = pay[k].kind
    BY RowStep DEF Kept
  <2> QED BY <2>1 DEF SameFunds
<1>1. ASSUME NEW p \in Orders, CheckoutInstant(p) \/ CheckoutTab(p)
                              \/ \E q \in Requests : CheckoutMpesa(q, p)
      PROVE  pay'[l].of # o
  <2>1. status[p] = "none" /\ status'[p] # "none"
    BY <1>1, Opening
  <2>2. PICK S \in SUBSET Legs : Adds(p, S)
    BY <1>1, Opening
  <2>3. pay'[l].of = p
    BY <2>2 DEF Adds, NewRow
  <2> QED BY <2>1, <2>3
<1>2. ASSUME NEW p \in Orders, Void(p) PROVE pay'[l].of # o
  <2>1. pay'[l] = pay[l]
    BY <1>2, FreeRow DEF Void, Voided
  <2> QED BY <2>1
<1>3. CASE Paid
  BY <1>3, EditKept DEF Paid, Payment, Land, LandIf, TypeOK
<1>4. ASSUME NEW q \in Requests, SettlePost(q) PROVE pay'[l].of # o
  BY <1>4 DEF SettlePost
<1>5. CASE Quiet
  <2>1. QuietRow(l) /\ pay[l] \in Row
    BY <1>5 DEF Quiet, TypeOK
  <2> QED BY <2>1, QuietFields DEF Mpesa
<1> QED BY <1>1, <1>2, <1>3, <1>4, <1>5, StepKinds

\* An order that is not rung up has no payments.
LEMMA NoRowsBefore ==
    ASSUME RowsOK, NEW o \in Orders, status[o] = "none", NEW l \in Legs
    PROVE  pay[l].of # o
BY FreeRow DEF RowsOK

\* Which checkouts open a tab.
LEMMA TabOpening ==
    ASSUME TypeOK, RowsOK, NEW o \in Orders
    PROVE  /\ CheckoutTab(o) => Tab(o)'
           /\ CheckoutInstant(o) \/ (\E q \in Requests : CheckoutMpesa(q, o)) => ~Tab(o)'
<1>1. ASSUME CheckoutTab(o) PROVE Tab(o)'
  <2>1. PICK l \in Legs : pay' = [pay EXCEPT ![l] = Leg(o, "account", "PENDING", Total)]
    BY <1>1 DEF CheckoutTab
  <2>2. l \in LegsOf(o)' /\ pay'[l].kind = "account"
    BY <2>1 DEF LegsOf, Leg, TypeOK
  <2> QED BY <2>2 DEF Tab
<1>2. ASSUME status[o] = "none",
             \A k \in Legs : pay'[k] = pay[k] \/ pay'[k].kind # "account"
      PROVE  ~Tab(o)'
  BY <1>2, NoRowsBefore DEF Tab, LegsOf
<1>3. ASSUME CheckoutInstant(o) PROVE ~Tab(o)'
  <2>1. PICK l \in Legs, c \in {0, CreditPart, Total} : CheckoutInstant(o)!3!(l, c)
    BY <1>3 DEF CheckoutInstant
  <2>2. CASE c = CreditPart
    <3>1. PICK a, b :
             /\ pay' = [pay EXCEPT ![l] = a, ![l + 1] = b]
             /\ a.kind # "account" /\ b.kind # "account"
      BY <2>1, <2>2 DEF Leg
    <3>2. \A k \in Legs : pay'[k] = pay[k] \/ pay'[k].kind # "account"
      BY <3>1 DEF TypeOK
    <3> QED BY <1>2, <1>3, <3>2 DEF CheckoutInstant
  <2>3. CASE c # CreditPart
    <3>1. PICK kind \in {"cash", "credit"} :
             pay' = [pay EXCEPT ![l] = Leg(o, kind, "COMPLETED", Total)]
      BY <2>1, <2>3
    <3>2. \A k \in Legs : pay'[k] = pay[k] \/ pay'[k].kind # "account"
      BY <3>1 DEF TypeOK, Leg
    <3> QED BY <1>2, <1>3, <3>2 DEF CheckoutInstant
  <2> QED BY <2>2, <2>3
<1>4. ASSUME NEW q \in Requests, CheckoutMpesa(q, o) PROVE ~Tab(o)'
  <2>1. PICK l \in Legs, m \in Mpesa, c \in {0, CreditPart} : CheckoutMpesa(q, o)!3!(l, m, c)
    BY <1>4 DEF CheckoutMpesa
  <2>2. CASE c = 0
    <3>1. pay' = [pay EXCEPT ![l] = Leg(o, m, "PENDING", Ask(m, Total))]
      BY <2>1, <2>2
    <3>2. \A k \in Legs : pay'[k] = pay[k] \/ pay'[k].kind # "account"
      BY <3>1 DEF TypeOK, Leg, Mpesa
    <3> QED BY <1>2, <1>4, <3>2 DEF CheckoutMpesa
  <2>3. CASE c # 0
    <3>1. pay' = [pay EXCEPT ![l]     = Leg(o, "credit", "COMPLETED", CreditPart),
                             ![l + 1] = Leg(o, m, "PENDING", Ask(m, Total - CreditPart))]
      BY <2>1, <2>3
    <3>2. \A k \in Legs : pay'[k] = pay[k] \/ pay'[k].kind # "account"
      BY <3>1 DEF TypeOK, Leg, Mpesa
    <3> QED BY <1>2, <1>4, <3>2 DEF CheckoutMpesa
  <2> QED BY <2>2, <2>3
<1> QED BY <1>1, <1>3, <1>4

\* What TabDebt says of one order.
Owed(o) ==
    /\ status[o] \in {"PENDING", "PAID"} /\ Tab(o) =>
          debt[o] = IF o \in posted THEN 0 ELSE Total
    /\ o \in posted => status[o] \in {"PAID", "VOIDED"}
    /\ ~Tab(o) => debt[o] = 0

\* With the same legs an order stays a tab, or stays none.
LEMMA TabKept ==
    ASSUME NEW o \in Orders, SameFunds(o)
    PROVE  Tab(o)' <=> Tab(o)
BY DEF SameFunds, Tab, LegsOf

\* Every step keeps a tab owed until it is settled.
LEMMA TabDebtStep ==
    ASSUME RowsInv, TabDebt, [Next]_vars
    PROVE  TabDebt'
<1> USE DEF RowsInv
<1> SUFFICES ASSUME NEW o \in Orders PROVE Owed(o)'
  BY DEF TabDebt, Owed
<1>1. Owed(o)
  BY DEF TabDebt, Owed
<1>2. ASSUME status[o] # "none" \/ status'[o] = "none" PROVE Tab(o)' <=> Tab(o)
  BY <1>2, FundsStep, TabKept
<1>3. ASSUME NEW p \in Orders, CheckoutInstant(p) \/ CheckoutTab(p)
                              \/ \E q \in Requests : CheckoutMpesa(q, p)
      PROVE  Owed(o)'
  <2>1. status[p] = "none" /\ status' = [status EXCEPT ![p] = status'[p]] /\ posted' = posted
    BY <1>3, Opening DEF CheckoutInstant, CheckoutTab, CheckoutMpesa
  <2>2. CASE o # p
    <3>1. status'[o] = status[o] /\ debt'[o] = debt[o]
      BY <1>3, <2>1, <2>2 DEF TypeOK, CheckoutInstant, CheckoutTab, CheckoutMpesa
    <3>2. Tab(o)' <=> Tab(o)
      BY <1>2, <3>1
    <3> QED BY <1>1, <2>1, <3>1, <3>2 DEF Owed
  <2>3. CASE o = p
    <3>1. o \notin posted /\ debt[o] = 0
      BY <1>1, <2>1, <2>3, NoRowsBefore DEF Owed, Tab, LegsOf
    <3>2. CASE CheckoutTab(o)
      <4>1. Tab(o)' /\ debt'[o] = Total
        BY <3>2, TabOpening DEF CheckoutTab, TypeOK
      <4> QED BY <2>1, <3>1, <4>1 DEF Owed
    <3>3. CASE CheckoutInstant(o) \/ \E q \in Requests : CheckoutMpesa(q, o)
      <4>1. ~Tab(o)' /\ debt'[o] = 0
        BY <3>1, <3>3, TabOpening DEF CheckoutInstant, CheckoutMpesa
      <4> QED BY <2>1, <3>1, <4>1 DEF Owed
    <3> QED BY <1>3, <2>3, <3>2, <3>3
  <2> QED BY <2>2, <2>3
<1>4. ASSUME NEW p \in Orders, Void(p) PROVE Owed(o)'
  <2>1. status[p] # "none" /\ status' = [status EXCEPT ![p] = "VOIDED"] /\ posted' = posted
        /\ debt' = IF Tab(p) THEN [debt EXCEPT ![p] = @ - Total] ELSE debt
    BY <1>4 DEF Void
  <2>2. Tab(o)' <=> Tab(o)
    BY <1>2, <2>1 DEF TypeOK
  <2> QED BY <1>1, <2>1, <2>2 DEF Owed, TypeOK
<1>5. ASSUME Paid PROVE Owed(o)'
  <2>0. PICK l \in Legs, code \in Codes \cup {None}, exact \in BOOLEAN : Payment(l, code, exact)
    BY <1>5 DEF Paid
  <2>1. PICK p \in Orders : /\ status[p] # "none" /\ status' = [status EXCEPT ![p] = "PAID"]
                            /\ status[p] # "VOIDED" /\ posted' = posted /\ debt' = debt
    BY <2>0, PaymentLands DEF Payment, Land, LandIf
  <2>2. Tab(o)' <=> Tab(o)
    BY <1>2, <2>1 DEF TypeOK
  <2> QED BY <1>1, <2>1, <2>2 DEF Owed, TypeOK
<1>6. ASSUME NEW q \in Requests, SettlePost(q) PROVE Owed(o)'
  <2>1. PICK p : p = req[q].order
    OBVIOUS
  <2>2. p \in Orders /\ Tab(p) /\ status[p] \in {"PAID", "VOIDED"}
    BY <1>6, <2>1 DEF SettlePost, HandlersOK, HandlerOK
  <2>3. /\ status' = status /\ posted' = posted \cup {p}
        /\ debt' = IF p \in posted THEN debt ELSE [debt EXCEPT ![p] = @ - Total]
    BY <1>6, <2>1 DEF SettlePost
  <2>4. Tab(o)' <=> Tab(o)
    BY <1>2, <2>3
  <2>5. CASE o = p
    <3>1. debt'[o] = IF o \in posted THEN debt[o] ELSE debt[o] - Total
      BY <2>2, <2>3, <2>5 DEF TypeOK
    <3> QED BY <1>1, <2>2, <2>3, <2>4, <2>5, <3>1, TillAssumption DEF Owed
  <2>6. CASE o # p
    <3>1. debt'[o] = debt[o] /\ (o \in posted' <=> o \in posted)
      BY <2>3, <2>6 DEF TypeOK
    <3> QED BY <1>1, <2>3, <2>4, <3>1 DEF Owed
  <2> QED BY <2>5, <2>6
<1>7. CASE Quiet
  <2>1. status' = status /\ posted' = posted /\ debt' = debt
    BY <1>7 DEF Quiet, accounts
  <2>2. Tab(o)' <=> Tab(o)
    BY <1>2, <2>1
  <2> QED BY <1>1, <2>1, <2>2 DEF Owed
<1> QED BY <1>3, <1>4, <1>5, <1>6, <1>7, StepKinds

\* What StockExact says of one product.
PaidOrders == {o \in Orders : status[o] = "PAID"}
AllCovered == \A o \in Orders : wins[o] = 1 => taken[o] = Tracked
OnShelf(g) ==
    /\ stock[g] >= 0
    /\ AllCovered => stock[g] = OnHand - Cardinality(PaidOrders)

\* How the number of paid orders moves.
LEMMA PaidCount ==
    ASSUME TypeOK
    PROVE  /\ Cardinality(PaidOrders) \in Nat
           /\ \A p \in Orders : status[p] # "PAID" /\ status' = [status EXCEPT ![p] = "PAID"] =>
                 Cardinality(PaidOrders') = Cardinality(PaidOrders) + 1
           /\ \A p \in Orders : \A s : status[p] = "PAID" /\ s # "PAID" /\ status' = [status EXCEPT ![p] = s] =>
                 Cardinality(PaidOrders') = Cardinality(PaidOrders) - 1
           /\ \A p \in Orders : \A s : status[p] # "PAID" /\ s # "PAID" /\ status' = [status EXCEPT ![p] = s] =>
                 Cardinality(PaidOrders') = Cardinality(PaidOrders)
<1>1. IsFiniteSet(PaidOrders)
  BY FS_Subset, TillAssumption DEF PaidOrders
<1>2. Cardinality(PaidOrders) \in Nat
  BY <1>1, FS_CardinalityType
<1>3. ASSUME NEW p \in Orders, status[p] # "PAID", status' = [status EXCEPT ![p] = "PAID"]
      PROVE  Cardinality(PaidOrders') = Cardinality(PaidOrders) + 1
  <2>1. PaidOrders' = PaidOrders \cup {p} /\ p \notin PaidOrders
    BY <1>3 DEF PaidOrders, TypeOK
  <2> QED BY <1>1, <2>1, FS_AddElement
<1>4. ASSUME NEW p \in Orders, NEW s, status[p] = "PAID", s # "PAID",
             status' = [status EXCEPT ![p] = s]
      PROVE  Cardinality(PaidOrders') = Cardinality(PaidOrders) - 1
  <2>1. PaidOrders' = PaidOrders \ {p} /\ p \in PaidOrders
    BY <1>4 DEF PaidOrders, TypeOK
  <2> QED BY <1>1, <2>1, FS_RemoveElement
<1>5. ASSUME NEW p \in Orders, NEW s, status[p] # "PAID", s # "PAID",
             status' = [status EXCEPT ![p] = s]
      PROVE  Cardinality(PaidOrders') = Cardinality(PaidOrders)
  <2>1. PaidOrders' = PaidOrders
    BY <1>5 DEF PaidOrders, TypeOK
  <2> QED BY <2>1
<1> QED BY <1>2, <1>3, <1>4, <1>5

\* Every step keeps the shelf and the paid orders together.
LEMMA StockStep ==
    ASSUME RowsInv, PaidOnce, StockExact, [Next]_vars
    PROVE  StockExact'
<1> USE TillAssumption DEF RowsInv
<1> SUFFICES ASSUME NEW g \in Tracked PROVE OnShelf(g)'
  BY DEF StockExact, OnShelf, AllCovered, PaidOrders
<1>1. OnShelf(g) /\ g \in Goods /\ stock \in [Goods -> Int]
  BY DEF StockExact, OnShelf, AllCovered, PaidOrders, TypeOK
<1>2. Cardinality(PaidOrders) \in Nat
  BY PaidCount
<1>3. ASSUME NEW o \in Orders, CheckoutInstant(o) PROVE OnShelf(g)'
  <2>1. /\ stock[g] >= 1 /\ stock'[g] = stock[g] - 1
    BY <1>1, <1>3 DEF CheckoutInstant, Covered, Sell
  <2>2. Cardinality(PaidOrders') = Cardinality(PaidOrders) + 1
    BY <1>3, PaidCount DEF CheckoutInstant
  <2>3. AllCovered' => AllCovered
    BY <1>3 DEF CheckoutInstant, AllCovered, PaidOnce, TypeOK
  <2> QED BY <1>1, <1>2, <2>1, <2>2, <2>3 DEF OnShelf
<1>4. ASSUME NEW o \in Orders, CheckoutTab(o) \/ \E q \in Requests : CheckoutMpesa(q, o)
      PROVE  OnShelf(g)'
  <2>1. stock' = stock /\ taken' = taken /\ wins' = wins
    BY <1>4 DEF CheckoutTab, CheckoutMpesa
  <2>2. Cardinality(PaidOrders') = Cardinality(PaidOrders)
    BY <1>4, PaidCount DEF CheckoutTab, CheckoutMpesa
  <2> QED BY <1>1, <2>1, <2>2 DEF OnShelf, AllCovered
<1>5. ASSUME NEW o \in Orders, Void(o) PROVE OnShelf(g)'
  <2>1. taken' = taken /\ wins' = wins
    BY <1>5 DEF Void
  <2>2. CASE status[o] = "PAID"
    <3>1. stock'[g] = stock[g] + 1
      BY <1>1, <1>5, <2>2 DEF Void
    <3>2. Cardinality(PaidOrders') = Cardinality(PaidOrders) - 1
      BY <1>5, <2>2, PaidCount DEF Void
    <3> QED BY <1>1, <1>2, <2>1, <3>1, <3>2 DEF OnShelf, AllCovered
  <2>3. CASE status[o] # "PAID"
    <3>1. stock' = stock
      BY <1>5, <2>3 DEF Void
    <3>2. Cardinality(PaidOrders') = Cardinality(PaidOrders)
      BY <1>5, <2>3, PaidCount DEF Void
    <3> QED BY <1>1, <2>1, <3>1, <3>2 DEF OnShelf, AllCovered
  <2> QED BY <2>2, <2>3
<1>6. ASSUME NEW l \in Legs, NEW c \in Codes \cup {None}, NEW x \in BOOLEAN, Payment(l, c, x)
      PROVE  OnShelf(g)'
  <2>1. PICK o \in Orders : o = pay[l].of /\ status[o] \in {"PENDING", "PAID"}
    BY <1>6 DEF Payment, RowsOK, AfterVoid, AlreadyDone, TypeOK
  <2>2. status' = [status EXCEPT ![o] = "PAID"]
    BY <1>6, <2>1, PaymentLands
  <2>3. CASE status[o] = "PENDING"
    <3>1. /\ stock' = Sell(Covered) /\ wins' = [wins EXCEPT ![o] = @ + 1]
          /\ taken' = [taken EXCEPT ![o] = @ \cup Covered]
      BY <1>6, <2>1, <2>3 DEF Payment, Land, LandIf
    <3>2. Cardinality(PaidOrders') = Cardinality(PaidOrders) + 1
      BY <2>2, <2>3, PaidCount
    <3>3. wins[o] = 0 /\ taken[o] = {}
      BY <2>3 DEF PaidOnce
    <3>4. AllCovered' => AllCovered /\ Covered = Tracked
      <4>1. wins'[o] = 1 /\ taken'[o] = Covered
        BY <3>1, <3>3 DEF TypeOK
      <4>2. \A p \in Orders : p # o => wins'[p] = wins[p] /\ taken'[p] = taken[p]
        BY <3>1 DEF TypeOK
      <4> QED BY <3>3, <4>1, <4>2 DEF AllCovered
    <3>5. stock'[g] = IF g \in Covered THEN stock[g] - 1 ELSE stock[g]
      BY <1>1, <3>1 DEF Sell
    <3>6. g \in Covered => stock[g] >= 1
      BY DEF Covered
    <3> QED BY <1>1, <1>2, <3>2, <3>4, <3>5, <3>6 DEF OnShelf
  <2>4. CASE status[o] = "PAID"
    <3>1. stock' = Sell({}) /\ wins' = wins /\ taken' = [taken EXCEPT ![o] = @ \cup {}]
      BY <1>6, <2>1, <2>4 DEF Payment, Land, LandIf
    <3>2. status' = status /\ taken' = taken
      BY <2>2, <2>4, <3>1 DEF TypeOK
    <3>3. stock'[g] = stock[g]
      BY <1>1, <3>1 DEF Sell
    <3> QED BY <1>1, <3>1, <3>2, <3>3 DEF OnShelf, AllCovered, PaidOrders
  <2> QED BY <2>1, <2>3, <2>4
<1>7. ASSUME NEW q \in Requests, SettlePost(q) PROVE OnShelf(g)'
  BY <1>1, <1>7 DEF SettlePost, OnShelf, AllCovered, PaidOrders
<1>8. CASE Quiet
  BY <1>1, <1>8 DEF Quiet, accounts, OnShelf, AllCovered, PaidOrders
<1> QED BY <1>3, <1>4, <1>5, <1>6, <1>7, <1>8, StepKinds DEF Paid

\* The store credit of an order is what its checkout took.
LEMMA CreditKept ==
    ASSUME RowsInv, [Next]_vars, NEW o \in Orders, SameFunds(o)
    PROVE  /\ CreditLegs(LegsOf(o))' = CreditLegs(LegsOf(o))
           /\ CreditIn(LegsOf(o))' = CreditIn(LegsOf(o))
<1> DEFINE C == CreditLegs(LegsOf(o))
<1>1. C' = C
  BY DEF SameFunds, CreditLegs, LegsOf
<1>2. CASE C = {}
  BY <1>1, <1>2 DEF CreditIn
<1>3. CASE C # {}
  <2>1. AnyOf(C) \in C
    BY <1>3, AnyMember
  <2>2. PICK l \in Legs : l = AnyOf(C) /\ pay[l].kind = "credit"
    BY <2>1 DEF CreditLegs, LegsOf
  <2>3. pay'[l].cents = pay[l].cents
    BY <2>2, RowStep DEF Kept, RowsInv
  <2> QED BY <1>1, <1>3, <2>2, <2>3 DEF CreditIn
<1> QED BY <1>1, <1>2, <1>3

\* What a checkout books of store credit is what its credit leg holds.
CreditTaken(o, c) ==
    /\ CreditIn(LegsOf(o))' = c
    /\ \A l \in CreditLegs(LegsOf(o))' : pay'[l].state = "COMPLETED"

\* A checkout with one store-credit leg takes that amount.
LEMMA OneCredit ==
    ASSUME RowsOK, NEW o \in Orders, status[o] = "none", NEW l \in Legs, NEW c,
           pay'[l].kind = "credit", pay'[l].of = o, pay'[l].cents = c,
           pay'[l].state = "COMPLETED",
           \A k \in Legs : k # l => pay'[k] = pay[k] \/ pay'[k].kind # "credit"
    PROVE  CreditTaken(o, c)
<1>1. CreditLegs(LegsOf(o))' = {l}
  BY NoRowsBefore DEF CreditLegs, LegsOf
<1>2. AnyOf({l}) = l
  BY AnyMember
<1> QED BY <1>1, <1>2 DEF CreditTaken, CreditIn

\* A checkout without a store-credit leg takes nothing.
LEMMA NoCredit ==
    ASSUME RowsOK, NEW o \in Orders, status[o] = "none",
           \A k \in Legs : pay'[k] = pay[k] \/ pay'[k].kind # "credit"
    PROVE  CreditTaken(o, 0)
<1>1. CreditLegs(LegsOf(o))' = {}
  BY NoRowsBefore DEF CreditLegs, LegsOf
<1> QED BY <1>1 DEF CreditTaken, CreditIn

\* A checkout books what its store-credit leg takes.
LEMMA CreditOpening ==
    ASSUME TypeOK, RowsOK, NEW o \in Orders
    PROVE  /\ CheckoutInstant(o) => \E c \in Int : CreditTaken(o, c) /\ credit' = [credit EXCEPT ![o] = 0 - c]
           /\ CheckoutTab(o) => CreditTaken(o, 0) /\ credit' = credit
           /\ \A q \in Requests : CheckoutMpesa(q, o) =>
                 \E c \in Int : CreditTaken(o, c) /\ credit' = [credit EXCEPT ![o] = 0 - c]
<1> USE TillAssumption
<1>1. ASSUME CheckoutInstant(o)
      PROVE  \E c \in Int : CreditTaken(o, c) /\ credit' = [credit EXCEPT ![o] = 0 - c]
  <2>1. PICK l \in Legs, c \in {0, CreditPart, Total} : CheckoutInstant(o)!3!(l, c)
    BY <1>1 DEF CheckoutInstant
  <2>2. c \in Int /\ credit' = [credit EXCEPT ![o] = 0 - c] /\ status[o] = "none"
    <3>1. credit' = [credit EXCEPT ![o] = 0 - c]
      BY <2>1
    <3>2. CreditPart \in Int /\ Total \in Int
      OBVIOUS
    <3>3. status[o] = "none"
      BY <1>1 DEF CheckoutInstant
    <3>4. c \in Int
      BY <3>2
    <3> QED BY <3>1, <3>3, <3>4
  <2>3. CASE c = CreditPart
    <3>1. l + 1 \in Legs /\ l + 1 # l
          /\ pay' = [pay EXCEPT ![l]     = Leg(o, "credit", "COMPLETED", CreditPart),
                                ![l + 1] = Leg(o, "cash", "COMPLETED", Total - CreditPart)]
      BY <2>1, <2>3
    <3>2. /\ pay'[l] = Leg(o, "credit", "COMPLETED", CreditPart)
          /\ pay'[l + 1] = Leg(o, "cash", "COMPLETED", Total - CreditPart)
          /\ \A k \in Legs \ {l, l + 1} : pay'[k] = pay[k]
      BY <3>1 DEF TypeOK
    <3>3. CreditTaken(o, c)
      BY <2>2, <2>3, <3>2, OneCredit DEF Leg
    <3> QED BY <2>2, <3>3
  <2>4. CASE c = Total
    <3>1. pay' = [pay EXCEPT ![l] = Leg(o, "credit", "COMPLETED", Total)]
      BY <2>1, <2>4
    <3>2. pay'[l] = Leg(o, "credit", "COMPLETED", Total) /\ \A k \in Legs \ {l} : pay'[k] = pay[k]
      BY <3>1 DEF TypeOK
    <3>3. CreditTaken(o, c)
      BY <2>2, <2>4, <3>2, OneCredit DEF Leg
    <3> QED BY <2>2, <3>3
  <2>5. CASE c = 0
    <3>1. pay' = [pay EXCEPT ![l] = Leg(o, "cash", "COMPLETED", Total)]
      BY <2>1, <2>5
    <3>2. pay'[l] = Leg(o, "cash", "COMPLETED", Total) /\ \A k \in Legs \ {l} : pay'[k] = pay[k]
      BY <3>1 DEF TypeOK
    <3>3. CreditTaken(o, c)
      BY <2>2, <2>5, <3>2, NoCredit DEF Leg
    <3> QED BY <2>2, <3>3
  <2> QED BY <2>3, <2>4, <2>5
<1>2. ASSUME CheckoutTab(o) PROVE CreditTaken(o, 0) /\ credit' = credit
  <2>1. PICK l \in Legs : pay' = [pay EXCEPT ![l] = Leg(o, "account", "PENDING", Total)]
    BY <1>2 DEF CheckoutTab
  <2>2. \A k \in Legs : pay'[k] = pay[k] \/ pay'[k].kind # "credit"
    BY <2>1 DEF TypeOK, Leg
  <2> QED BY <1>2, <2>2, NoCredit DEF CheckoutTab
<1>3. ASSUME NEW q \in Requests, CheckoutMpesa(q, o)
      PROVE  \E c \in Int : CreditTaken(o, c) /\ credit' = [credit EXCEPT ![o] = 0 - c]
  <2>1. PICK l \in Legs, m \in Mpesa, c \in {0, CreditPart} : CheckoutMpesa(q, o)!3!(l, m, c)
    BY <1>3 DEF CheckoutMpesa
  <2>2. c \in Int /\ credit' = [credit EXCEPT ![o] = 0 - c] /\ status[o] = "none"
    <3>1. credit' = [credit EXCEPT ![o] = 0 - c]
      BY <2>1
    <3>2. CreditPart \in Int
      OBVIOUS
    <3>3. status[o] = "none"
      BY <1>3 DEF CheckoutMpesa
    <3>4. c \in Int
      BY <3>2
    <3> QED BY <3>1, <3>3, <3>4
  <2>3. CASE c # 0
    <3>1. l + 1 \in Legs /\ l + 1 # l /\ c = CreditPart
          /\ pay' = [pay EXCEPT ![l]     = Leg(o, "credit", "COMPLETED", CreditPart),
                                ![l + 1] = Leg(o, m, "PENDING", Ask(m, Total - CreditPart))]
      BY <2>1, <2>3
    <3>2. /\ pay'[l] = Leg(o, "credit", "COMPLETED", CreditPart)
          /\ pay'[l + 1] = Leg(o, m, "PENDING", Ask(m, Total - CreditPart))
          /\ \A k \in Legs \ {l, l + 1} : pay'[k] = pay[k]
      BY <3>1 DEF TypeOK
    <3>3. \A k \in Legs : k # l => pay'[k] = pay[k] \/ pay'[k].kind # "credit"
      BY <3>2 DEF Leg, Mpesa
    <3>4. /\ pay'[l].kind = "credit" /\ pay'[l].of = o /\ pay'[l].cents = c
          /\ pay'[l].state = "COMPLETED"
      BY <3>1, <3>2 DEF Leg
    <3>5. CreditTaken(o, c)
      BY <2>2, <3>3, <3>4, OneCredit
    <3> QED BY <2>2, <3>5
  <2>4. CASE c = 0
    <3>1. pay' = [pay EXCEPT ![l] = Leg(o, m, "PENDING", Ask(m, Total))]
      BY <2>1, <2>4
    <3>2. pay'[l] = Leg(o, m, "PENDING", Ask(m, Total)) /\ \A k \in Legs \ {l} : pay'[k] = pay[k]
      BY <3>1 DEF TypeOK
    <3>3. pay'[l].kind # "credit"
      BY <2>1, <3>2 DEF Leg, Mpesa
    <3>4. \A k \in Legs : pay'[k] = pay[k] \/ pay'[k].kind # "credit"
      BY <3>2, <3>3
    <3>5. CreditTaken(o, c)
      BY <2>2, <2>4, <3>4, NoCredit
    <3> QED BY <2>2, <3>5
  <2> QED BY <2>3, <2>4
<1> QED BY <1>1, <1>2, <1>3

\* LoyaltyAndCredit of one order, with what makes it inductive: nothing is
\* booked before the checkout, and credit stays taken until the void.
Funded(o) ==
    /\ status[o] = "none" => credit[o] = 0
    /\ status[o] = "VOIDED" => credit[o] = 0 /\ points[o] = 0
    /\ status[o] = "PENDING" => points[o] = 0 - Spend
    /\ status[o] = "PAID" => points[o] = Earn - Spend
    /\ status[o] \in {"PENDING", "PAID"} =>
          /\ credit[o] = 0 - CreditIn(LegsOf(o))
          /\ \A l \in CreditLegs(LegsOf(o)) : pay[l].state = "COMPLETED"

FundsOK == \A o \in Orders : Funded(o)

\* Credit legs keep their state until the void.
LEMMA CreditHeld ==
    ASSUME RowsInv, Paid \/ Quiet \/ (\E q \in Requests : SettlePost(q)), NEW o \in Orders,
           \A l \in CreditLegs(LegsOf(o)) : pay[l].state = "COMPLETED",
           CreditLegs(LegsOf(o))' = CreditLegs(LegsOf(o))
    PROVE  \A l \in CreditLegs(LegsOf(o))' : pay'[l].state = "COMPLETED"
<1> SUFFICES ASSUME NEW l \in Legs, pay[l].kind = "credit", pay[l].state = "COMPLETED"
             PROVE  pay'[l].state = "COMPLETED"
  BY DEF CreditLegs, LegsOf
<1>1. CASE Paid
  BY <1>1 DEF Paid, Payment, Land, LandIf, RowsInv, TypeOK
<1>2. CASE Quiet
  BY <1>2 DEF Quiet, QuietRow, Fresh
<1>3. ASSUME NEW q \in Requests, SettlePost(q) PROVE pay'[l].state = "COMPLETED"
  BY <1>3 DEF SettlePost
<1> QED BY <1>1, <1>2, <1>3

\* What a void gives back is what the checkout took.
LEMMA CreditReturned ==
    ASSUME RowsInv, NEW o \in Orders, Void(o), Funded(o)
    PROVE  CreditUsed(o) = CreditIn(LegsOf(o))
<1> DEFINE S == {l \in LegsOf(o) : Voided(o)[l].state = "VOIDED"}
<1>1. \A l \in CreditLegs(LegsOf(o)) : l \in Legs /\ pay[l].state = "COMPLETED"
  BY DEF Void, Funded, CreditLegs, LegsOf
<1>2. \A l \in CreditLegs(LegsOf(o)) : Voided(o)[l].state = "VOIDED"
  BY <1>1, EditKept DEF Voided, CreditLegs, RowsInv, TypeOK
<1>3. CreditLegs(S) = CreditLegs(LegsOf(o))
  BY <1>2 DEF CreditLegs
<1> QED BY <1>3 DEF CreditUsed, CreditIn

\* Every step keeps store credit and points with their sales.
LEMMA FundsOKStep ==
    ASSUME RowsInv, PaidOnce, FundsOK, [Next]_vars
    PROVE  FundsOK'
<1> USE DEF RowsInv
<1> SUFFICES ASSUME NEW o \in Orders PROVE Funded(o)'
  BY DEF FundsOK
<1>1. Funded(o) /\ credit[o] \in Int /\ points[o] \in Int /\ Spend \in Nat /\ Earn \in Nat
  BY TillAssumption DEF FundsOK, TypeOK
<1>2. ASSUME status[o] # "none" \/ status'[o] = "none"
      PROVE  /\ CreditLegs(LegsOf(o))' = CreditLegs(LegsOf(o))
             /\ CreditIn(LegsOf(o))' = CreditIn(LegsOf(o))
  BY <1>2, FundsStep, CreditKept
<1>3. ASSUME NEW p \in Orders, CheckoutInstant(p) \/ CheckoutTab(p)
                              \/ \E q \in Requests : CheckoutMpesa(q, p)
      PROVE  Funded(o)'
  <2>1. status[p] = "none" /\ status' = [status EXCEPT ![p] = status'[p]]
    BY <1>3, Opening
  <2>2. CASE o # p
    <3>1. status'[o] = status[o] /\ credit'[o] = credit[o] /\ points'[o] = points[o]
      BY <1>3, <2>1, <2>2, CreditOpening
         DEF TypeOK, CheckoutInstant, CheckoutTab, CheckoutMpesa
    <3>2. PICK S \in SUBSET Legs : Adds(p, S)
      BY <1>3, Opening
    <3>3. \A l \in CreditLegs(LegsOf(o)) : pay'[l] = pay[l]
      BY <2>1, <2>2, <3>2, FreeRow DEF Adds, CreditLegs, LegsOf
    <3> QED BY <1>1, <1>2, <3>1, <3>3 DEF Funded
  <2>3. CASE o = p
    <3>1. PICK c \in Int : CreditTaken(o, c) /\ credit'[o] = 0 - c
      BY <1>1, <1>3, <2>1, <2>3, CreditOpening DEF TypeOK, Funded
    <3>2. \/ status'[o] = "PAID" /\ points'[o] = Earn - Spend
          \/ status'[o] = "PENDING" /\ points'[o] = 0 - Spend
      BY <1>3, <2>3 DEF TypeOK, CheckoutInstant, CheckoutTab, CheckoutMpesa
    <3> QED BY <3>1, <3>2 DEF Funded, CreditTaken
  <2> QED BY <2>2, <2>3
<1>4. ASSUME NEW p \in Orders, Void(p) PROVE Funded(o)'
  <2>1. status[p] \in {"PENDING", "PAID"} /\ status' = [status EXCEPT ![p] = "VOIDED"]
    BY <1>4 DEF Void
  <2>2. CASE o # p
    <3>1. status'[o] = status[o] /\ credit'[o] = credit[o] /\ points'[o] = points[o]
      BY <1>4, <2>1, <2>2 DEF TypeOK, Void
    <3>2. \A l \in CreditLegs(LegsOf(o)) : pay'[l] = pay[l]
      BY <1>4, <2>2 DEF Void, Voided, CreditLegs, LegsOf
    <3> QED BY <1>1, <1>2, <2>1, <3>1, <3>2 DEF Funded
  <2>3. CASE o = p
    <3>1. CreditUsed(o) = 0 - credit[o] /\ CreditUsed(o) \in Int
      <4>1. CreditUsed(o) = CreditIn(LegsOf(o)) /\ CreditIn(LegsOf(o)) \in Int
        BY <1>1, <1>4, <2>3, CreditReturned, CreditTyped DEF LegsOf
      <4>2. credit[o] = 0 - CreditIn(LegsOf(o))
        BY <1>1, <2>1, <2>3 DEF Funded
      <4> QED BY <4>1, <4>2
    <3>2. credit'[o] = 0
      <4>1. credit'[o] = credit[o] + CreditUsed(o)
        BY <1>4, <2>3 DEF Void, TypeOK
      <4> QED BY <1>1, <3>1, <4>1
    <3>3. points'[o] = 0
      <4>1. CASE status[o] = "PAID"
        <5>1. wins[o] = 1 /\ points[o] = Earn - Spend
          BY <1>1, <4>1 DEF PaidOnce, Funded
        <5>2. points'[o] = points[o] - wins[o] * Earn + Spend
          BY <1>4, <2>3, <4>1 DEF Void, TypeOK
        <5> QED BY <1>1, <5>1, <5>2
      <4>2. CASE status[o] = "PENDING"
        <5>1. points[o] = 0 - Spend
          BY <1>1, <4>2 DEF Funded
        <5>2. points'[o] = points[o] - 0 + Spend
          BY <1>4, <2>3, <4>2 DEF Void, TypeOK
        <5> QED BY <1>1, <5>1, <5>2
      <4> QED BY <2>1, <2>3, <4>1, <4>2
    <3>4. status'[o] = "VOIDED"
      BY <2>1, <2>3 DEF TypeOK
    <3> QED BY <3>2, <3>3, <3>4 DEF Funded
  <2> QED BY <2>2, <2>3
<1>5. ASSUME Paid PROVE Funded(o)'
  <2>1. PICK l \in Legs, c \in Codes \cup {None}, x \in BOOLEAN : Payment(l, c, x)
    BY <1>5 DEF Paid
  <2>2. PICK p \in Orders : p = pay[l].of /\ status[p] \in {"PENDING", "PAID"}
    BY <2>1, PaymentLands
  <2>3. /\ status' = [status EXCEPT ![p] = "PAID"] /\ credit' = credit
        /\ points' = IF status[p] = "PENDING" THEN [points EXCEPT ![p] = @ + Earn] ELSE points
    BY <2>1, <2>2, PaymentLands DEF Payment, Land, LandIf
  <2>4. status[o] # "none" \/ status'[o] = "none"
    BY <2>2, <2>3 DEF TypeOK
  <2>5. status[o] \in {"PENDING", "PAID"} =>
           \A k \in CreditLegs(LegsOf(o))' : pay'[k].state = "COMPLETED"
    BY <1>1, <1>2, <1>5, <2>4, CreditHeld DEF Funded
  <2>6. CASE o # p
    <3>1. status'[o] = status[o] /\ points'[o] = points[o]
      BY <2>2, <2>3, <2>6 DEF TypeOK
    <3> QED BY <1>1, <1>2, <2>3, <2>4, <2>5, <3>1 DEF Funded
  <2>7. CASE o = p
    <3>1. status'[o] = "PAID"
          /\ points'[o] = IF status[o] = "PENDING" THEN points[o] + Earn ELSE points[o]
      BY <2>2, <2>3, <2>7 DEF TypeOK
    <3> QED BY <1>1, <1>2, <2>2, <2>3, <2>4, <2>5, <2>7, <3>1 DEF Funded
  <2> QED BY <2>6, <2>7
<1>6. ASSUME Quiet \/ \E q \in Requests : SettlePost(q) PROVE Funded(o)'
  <2>1. status' = status /\ credit' = credit /\ points' = points
    BY <1>6 DEF Quiet, accounts, SettlePost
  <2>2. status[o] \in {"PENDING", "PAID"} =>
           \A k \in CreditLegs(LegsOf(o))' : pay'[k].state = "COMPLETED"
    BY <1>1, <1>2, <1>6, <2>1, CreditHeld DEF Funded
  <2> QED BY <1>1, <1>2, <2>1, <2>2 DEF Funded
<1> QED BY <1>3, <1>4, <1>5, <1>6, StepKinds

-----------------------------------------------------------------------------
(***************************************************************************)
(* What a sale collects.  Its legs ask for what store credit leaves of the *)
(* total (Priced), and a second leg that is paid flags it (PaidByOne).     *)
(***************************************************************************)
Priced(o) ==
    /\ \A k, l \in CreditLegs(LegsOf(o)) : k = l
    /\ CreditIn(LegsOf(o)) \in 0..Total
    /\ \A l \in LegsOf(o) : pay[l].kind \in {"cash", "manual", "account"} =>
          pay[l].cents = Total - CreditIn(LegsOf(o))
PaidByOne(o) ==
    status[o] = "PAID" /\ o \notin flagged =>
        \A k, l \in In(o, "COMPLETED") : pay[k].kind = "credit" \/ pay[l].kind = "credit" \/ k = l
ChargedOK == \A o \in Orders : Priced(o) /\ PaidByOne(o)

\* A flag is never taken back.
LEMMA FlagsGrow ==
    ASSUME [Next]_vars
    PROVE  flagged \subseteq flagged'
<1>1. ASSUME NEW l, NEW code, NEW exact, CompletePayment(l, code, exact)
      PROVE  flagged \subseteq flagged'
  BY <1>1 DEF CompletePayment, books, Land, LandIf
<1>2. ASSUME NEW o \in Orders, Void(o) PROVE flagged \subseteq flagged'
  BY <1>2 DEF Void
<1>3. ASSUME NEW o \in Orders, Ring(o) PROVE flagged \subseteq flagged'
  BY <1>3 DEF Ring, CheckoutInstant, CheckoutTab, CheckoutMpesa
<1>4. ASSUME NEW q \in Requests, Complete(q) PROVE flagged \subseteq flagged'
  BY <1>1, <1>4 DEF Complete
<1>5. ASSUME NEW l \in Legs, Callback(l) PROVE flagged \subseteq flagged'
  BY <1>1, <1>5
     DEF Callback, CallbackDeclined, CallbackMismatch, ClaimEvent, ClaimFor, CallbackPaid, Expire, books
<1>6. ASSUME NEW q \in Requests, SettlePost(q) PROVE flagged \subseteq flagged'
  BY <1>6 DEF SettlePost
<1>7. CASE UNCHANGED flagged
  BY <1>7
<1> QED
  BY <1>2, <1>3, <1>4, <1>5, <1>6, <1>7
     DEF Next, Start, Continue, Push, PushRead, PushBusy, PushSupersede, PushSent, PushFailed,
         PushBind, RetryRead, RetryWrite, Confirm, ConfirmRead, ConfirmInsert, InsertLeg,
         SettleCash, SettleMpesa, Poll, Answer, DropEvent, Crash, vars, books

\* The legs of an order that is rung up are those its checkout inserts.
LEMMA RowsOfOpening ==
    ASSUME RowsOK, NEW o \in Orders, status[o] = "none", NEW S \in SUBSET Legs,
           \A k \in S : pay'[k].of = o, \A k \in Legs \ S : pay'[k] = pay[k]
    PROVE  LegsOf(o)' = S
BY NoRowsBefore DEF LegsOf

\* A checkout with one leg asks for the whole total.
LEMMA OneLegPriced ==
    ASSUME NEW o, NEW l \in Legs, LegsOf(o)' = {l}, NEW row, pay'[l] = row,
           row.kind # "stk" => row.cents = Total
    PROVE  Priced(o)'
<1>1. AnyOf({l}) = l
  BY AnyMember
<1>2. CASE row.kind = "credit"
  <2>1. CreditLegs(LegsOf(o))' = {l}
    BY <1>2 DEF CreditLegs
  <2>2. CreditIn(LegsOf(o))' = Total
    BY <1>1, <1>2, <2>1 DEF CreditIn
  <2> QED BY <1>2, <2>1, <2>2, TillAssumption DEF Priced
<1>3. CASE row.kind # "credit"
  <2>1. CreditLegs(LegsOf(o))' = {}
    BY <1>3 DEF CreditLegs
  <2>2. CreditIn(LegsOf(o))' = 0
    BY <2>1 DEF CreditIn
  <2> QED BY <1>3, <2>1, <2>2, TillAssumption DEF Priced
<1> QED BY <1>2, <1>3

\* A split asks for what the store credit leaves.
LEMMA SplitPriced ==
    ASSUME NEW o, NEW l \in Legs, NEW m \in Legs, l # m, LegsOf(o)' = {l, m},
           pay'[l].kind = "credit", pay'[l].cents = CreditPart,
           NEW row, pay'[m] = row, row.kind # "credit",
           row.kind # "stk" => row.cents = Total - CreditPart
    PROVE  Priced(o)'
<1>1. AnyOf({l}) = l
  BY AnyMember
<1>2. CreditLegs(LegsOf(o))' = {l}
  BY DEF CreditLegs
<1>3. CreditIn(LegsOf(o))' = CreditPart
  BY <1>1, <1>2 DEF CreditIn
<1>4. CreditPart \in 0..Total
  BY TillAssumption
<1>5. \A k \in LegsOf(o)' : pay'[k].kind \in {"cash", "manual", "account"} =>
         pay'[k].cents = Total - CreditPart
  OBVIOUS
<1> QED BY <1>2, <1>3, <1>4, <1>5 DEF Priced

\* Every checkout prices its legs, and at most one of them is not store credit.
LEMMA OpeningPriced ==
    ASSUME TypeOK, RowsOK, NEW o \in Orders,
           CheckoutInstant(o) \/ CheckoutTab(o) \/ \E q \in Requests : CheckoutMpesa(q, o)
    PROVE  Priced(o)' /\ \E l, m \in Legs : LegsOf(o)' \subseteq {l, m} /\ (l # m => pay'[l].kind = "credit")
<1>0. status[o] = "none"
  BY Opening
<1>1. ASSUME NEW l \in Legs, NEW row, pay' = [pay EXCEPT ![l] = row], row.of = o,
             row.kind # "stk" => row.cents = Total
      PROVE  Priced(o)' /\ LegsOf(o)' \subseteq {l, l}
  <2>1. pay'[l] = row /\ \A k \in Legs \ {l} : pay'[k] = pay[k]
    BY <1>1 DEF TypeOK
  <2>2. LegsOf(o)' = {l}
    <3>1. {l} \in SUBSET Legs /\ \A k \in {l} : pay'[k].of = o
      BY <1>1, <2>1
    <3> QED BY <1>0, <2>1, <3>1, RowsOfOpening
  <2> QED BY <1>1, <2>1, <2>2, OneLegPriced
<1>2. ASSUME NEW l \in Legs, l + 1 \in Legs, NEW row, row.of = o, row.kind # "credit",
             row.kind # "stk" => row.cents = Total - CreditPart,
             pay' = [pay EXCEPT ![l] = Leg(o, "credit", "COMPLETED", CreditPart), ![l + 1] = row]
      PROVE  Priced(o)' /\ LegsOf(o)' \subseteq {l, l + 1} /\ pay'[l].kind = "credit"
  <2>1. l # l + 1
    BY TillAssumption
  <2>2. /\ pay'[l] = Leg(o, "credit", "COMPLETED", CreditPart) /\ pay'[l + 1] = row
        /\ \A k \in Legs \ {l, l + 1} : pay'[k] = pay[k]
    BY <1>2, <2>1 DEF TypeOK
  <2>3. pay'[l].of = o /\ pay'[l].kind = "credit" /\ pay'[l].cents = CreditPart
    BY <2>2 DEF Leg
  <2>4. LegsOf(o)' = {l, l + 1}
    <3>1. {l, l + 1} \in SUBSET Legs /\ \A k \in {l, l + 1} : pay'[k].of = o
      BY <1>2, <2>2, <2>3
    <3> QED BY <1>0, <2>2, <3>1, RowsOfOpening
  <2> QED BY <1>2, <2>1, <2>2, <2>3, <2>4, SplitPriced
<1>3. CASE CheckoutInstant(o)
  <2>1. PICK l \in Legs, c \in {0, CreditPart, Total} : CheckoutInstant(o)!3!(l, c)
    BY <1>3 DEF CheckoutInstant
  <2>2. CASE c = CreditPart
    <3>1. PICK row : /\ row = Leg(o, "cash", "COMPLETED", Total - CreditPart) /\ l + 1 \in Legs
                     /\ pay' = [pay EXCEPT ![l] = Leg(o, "credit", "COMPLETED", CreditPart), ![l + 1] = row]
      BY <2>1, <2>2
    <3>2. row.of = o /\ row.kind = "cash" /\ row.cents = Total - CreditPart
      BY <3>1 DEF Leg
    <3>3. Priced(o)' /\ LegsOf(o)' \subseteq {l, l + 1} /\ pay'[l].kind = "credit"
      BY <1>2, <3>1, <3>2
    <3> QED BY <3>1, <3>3
  <2>3. CASE c # CreditPart
    <3>1. PICK row : row.of = o /\ row.cents = Total /\ pay' = [pay EXCEPT ![l] = row]
      BY <2>1, <2>3 DEF Leg
    <3> QED BY <1>1, <3>1
  <2> QED BY <2>2, <2>3
<1>4. CASE CheckoutTab(o)
  <2>1. PICK l \in Legs : pay' = [pay EXCEPT ![l] = Leg(o, "account", "PENDING", Total)]
    BY <1>4 DEF CheckoutTab
  <2>2. PICK row : row = Leg(o, "account", "PENDING", Total)
    OBVIOUS
  <2>3. row.of = o /\ row.cents = Total /\ pay' = [pay EXCEPT ![l] = row]
    BY <2>1, <2>2 DEF Leg
  <2> QED BY <1>1, <2>3
<1>5. ASSUME NEW q \in Requests, CheckoutMpesa(q, o)
      PROVE  Priced(o)' /\ \E l, m \in Legs : LegsOf(o)' \subseteq {l, m} /\ (l # m => pay'[l].kind = "credit")
  <2>1. PICK l \in Legs, m \in Mpesa, c \in {0, CreditPart} : CheckoutMpesa(q, o)!3!(l, m, c)
    BY <1>5 DEF CheckoutMpesa
  <2>2. CASE c = 0
    <3>1. PICK row : row = Leg(o, m, "PENDING", Ask(m, Total)) /\ pay' = [pay EXCEPT ![l] = row]
      BY <2>1, <2>2
    <3>2. row.of = o /\ (row.kind # "stk" => row.cents = Total)
      BY <3>1 DEF Leg, Ask
    <3> QED BY <1>1, <3>1, <3>2
  <2>3. CASE c # 0
    <3>1. PICK row : /\ row = Leg(o, m, "PENDING", Ask(m, Total - CreditPart)) /\ l + 1 \in Legs
                     /\ pay' = [pay EXCEPT ![l] = Leg(o, "credit", "COMPLETED", CreditPart), ![l + 1] = row]
      BY <2>1, <2>3
    <3>2. /\ row.of = o /\ row.kind # "credit"
          /\ row.kind # "stk" => row.cents = Total - CreditPart
      BY <3>1 DEF Leg, Ask, Mpesa
    <3>3. Priced(o)' /\ LegsOf(o)' \subseteq {l, l + 1} /\ pay'[l].kind = "credit"
      BY <1>2, <3>1, <3>2
    <3> QED BY <3>1, <3>3
  <2> QED BY <2>2, <2>3
<1> QED BY <1>3, <1>4, <1>5

\* What may happen to the legs of an order after its checkout.
LEMMA LaterLegs ==
    ASSUME RowsInv, [Next]_vars, NEW o \in Orders, status[o] # "none" \/ status'[o] = "none",
           NEW l \in Legs, pay'[l].of = o
    PROVE  \/ pay[l].of = o /\ pay'[l].kind = pay[l].kind /\ pay'[l].cents = pay[l].cents
           \/ /\ pay'[l].kind \in Mpesa /\ pay'[l].state = "PENDING"
              /\ pay'[l].kind = "manual" => pay'[l].cents = Total - CreditIn(LegsOf(o))
<1> USE DEF RowsInv
<1>1. CASE pay[l].kind # "none"
  BY <1>1, RowStep DEF Kept
<1>2. CASE pay[l].kind = "none"
  <2>1. pay[l].of # o
    BY <1>2, FreeRow
  <2>2. ASSUME NEW p \in Orders, CheckoutInstant(p) \/ CheckoutTab(p)
                                \/ \E q \in Requests : CheckoutMpesa(q, p)
        PROVE  FALSE
    <3>1. status[p] = "none" /\ status'[p] # "none"
      BY <2>2, Opening
    <3>2. PICK S \in SUBSET Legs : Adds(p, S)
      BY <2>2, Opening
    <3> QED BY <2>1, <3>1, <3>2 DEF Adds, NewRow
  <2>3. ASSUME NEW p \in Orders, Void(p) PROVE FALSE
    BY <2>1, <1>2, <2>3, FreeRow DEF Void, Voided
  <2>4. CASE Paid
    BY <1>2, <2>1, <2>4 DEF Paid, Payment, Land, LandIf, TypeOK
  <2>5. ASSUME NEW q \in Requests, SettlePost(q) PROVE FALSE
    BY <2>1, <2>5 DEF SettlePost
  <2>6. CASE Quiet
    <3>1. PICK p \in Orders, kind \in Mpesa, c \in Int :
             /\ kind = "manual" => c = Total - CreditIn(LegsOf(p))
             /\ pay'[l] = Leg(p, kind, "PENDING", c)
      BY <1>2, <2>1, <2>6 DEF Quiet, QuietRow
    <3> QED BY <3>1 DEF Leg
  <2> QED BY <2>2, <2>3, <2>4, <2>5, <2>6, StepKinds
<1> QED BY <1>1, <1>2

\* After its checkout the price of an order stays.
LEMMA PricedStep ==
    ASSUME RowsInv, [Next]_vars, NEW o \in Orders, Priced(o)
    PROVE  Priced(o)'
<1>1. CASE status[o] # "none" \/ status'[o] = "none"
  <2>1. /\ CreditLegs(LegsOf(o))' = CreditLegs(LegsOf(o))
        /\ CreditIn(LegsOf(o))' = CreditIn(LegsOf(o))
    BY <1>1, FundsStep, CreditKept
  <2>2. ASSUME NEW l \in LegsOf(o)', pay'[l].kind \in {"cash", "manual", "account"}
        PROVE  pay'[l].cents = Total - CreditIn(LegsOf(o))
    <3>1. l \in Legs /\ pay'[l].of = o
      BY DEF LegsOf
    <3> QED BY <1>1, <2>2, <3>1, LaterLegs DEF Priced, LegsOf, Mpesa
  <2> QED BY <2>1, <2>2 DEF Priced
<1>2. CASE status[o] = "none" /\ status'[o] # "none"
  <2>1. CheckoutInstant(o) \/ CheckoutTab(o) \/ \E q \in Requests : CheckoutMpesa(q, o)
    <3>1. ASSUME NEW p \in Orders, CheckoutInstant(p) \/ CheckoutTab(p)
                                  \/ \E q \in Requests : CheckoutMpesa(q, p)
          PROVE  p = o
      BY <1>2, <3>1, Opening DEF RowsInv, TypeOK
    <3>2. ASSUME NEW p \in Orders, Void(p) PROVE FALSE
      BY <1>2, <3>2 DEF Void, RowsInv, TypeOK
    <3>3. ASSUME Paid PROVE FALSE
      <4>1. PICK l \in Legs, c \in Codes \cup {None}, x \in BOOLEAN : Payment(l, c, x)
        BY <3>3 DEF Paid
      <4>2. PICK p \in Orders : status[p] \in {"PENDING", "PAID"} /\ status' = [status EXCEPT ![p] = "PAID"]
        BY <4>1, PaymentLands DEF RowsInv
      <4> QED BY <1>2, <4>2 DEF RowsInv, TypeOK
    <3>4. ASSUME Quiet \/ \E q \in Requests : SettlePost(q) PROVE FALSE
      BY <1>2, <3>4 DEF Quiet, accounts, SettlePost
    <3> QED BY <3>1, <3>2, <3>3, <3>4, StepKinds DEF RowsInv
  <2> QED BY <2>1, OpeningPriced DEF RowsInv
<1> QED BY <1>1, <1>2

\* What was paid of an order and what is: nothing more without a payment.
LEMMA CompletedKept ==
    ASSUME RowsInv, NEW o \in Orders,
           \/ \E p \in Orders : Void(p)
           \/ \E q \in Requests : SettlePost(q)
           \/ Quiet,
           NEW l \in Legs, pay'[l].of = o, pay'[l].state = "COMPLETED"
    PROVE  pay[l].of = o /\ pay[l].state = "COMPLETED" /\ pay'[l].kind = pay[l].kind
<1>0. pay[l] \in Row
  BY DEF RowsInv, TypeOK
<1>1. ASSUME NEW p \in Orders, Void(p)
      PROVE  pay[l].of = o /\ pay[l].state = "COMPLETED" /\ pay'[l].kind = pay[l].kind
  <2>1. pay'[l] = IF l \in LegsOf(p) /\ pay[l].state \in {"PENDING", "COMPLETED"}
                    THEN InState(pay[l], "VOIDED") ELSE pay[l]
    BY <1>1 DEF Void, Voided
  <2>2. InState(pay[l], "VOIDED").state = "VOIDED"
    BY <1>0, EditKept
  <2> QED BY <2>1, <2>2
<1>2. CASE \E q \in Requests : SettlePost(q)
  BY <1>2 DEF SettlePost
<1>3. CASE Quiet
  <2>1. QuietRow(l)
    BY <1>3 DEF Quiet
  <2>2. CASE pay'[l] = pay[l]
    BY <2>2
  <2>3. ASSUME NEW p, NEW kind, NEW c, pay'[l] = Leg(p, kind, "PENDING", c) PROVE FALSE
    BY <2>3 DEF Leg
  <2>4. pay'[l] # InState(pay[l], "FAILED")
    BY <1>0, EditKept
  <2>5. ASSUME NEW c, pay'[l] = [pay[l] EXCEPT !.bound = c]
        PROVE  pay[l].of = o /\ pay[l].state = "COMPLETED" /\ pay'[l].kind = pay[l].kind
    BY <1>0, <2>5 DEF Row
  <2> QED BY <2>1, <2>2, <2>3, <2>4, <2>5 DEF QuietRow
<1> QED BY <1>1, <1>2, <1>3

\* A second payment of a paid order flags it.
LEMMA PaidByOneStep ==
    ASSUME RowsInv, [Next]_vars, NEW o \in Orders, PaidByOne(o)
    PROVE  PaidByOne(o)'
<1> USE DEF RowsInv
<1> SUFFICES ASSUME status'[o] = "PAID", o \notin flagged',
                    NEW k \in In(o, "COMPLETED")', NEW l \in In(o, "COMPLETED")',
                    pay'[k].kind # "credit", pay'[l].kind # "credit"
             PROVE  k = l
  BY DEF PaidByOne
<1>0. /\ k \in Legs /\ pay'[k].of = o /\ pay'[k].state = "COMPLETED"
      /\ l \in Legs /\ pay'[l].of = o /\ pay'[l].state = "COMPLETED"
      /\ o \notin flagged
  BY FlagsGrow DEF In, LegsOf
<1>1. ASSUME NEW p \in Orders, CheckoutInstant(p) \/ CheckoutTab(p)
                              \/ \E q \in Requests : CheckoutMpesa(q, p)
      PROVE  k = l
  <2>1. CASE p = o
    <3>1. PICK m, n \in Legs : LegsOf(o)' \subseteq {m, n} /\ (m # n => pay'[m].kind = "credit")
      BY <1>1, <2>1, OpeningPriced
    <3> QED BY <1>0, <3>1 DEF In
  <2>2. CASE p # o
    <3>1. status[o] = "PAID"
      BY <1>1, <2>2, Opening DEF TypeOK
    <3>2. PICK S \in SUBSET Legs : Adds(p, S)
      BY <1>1, Opening
    <3>3. pay'[k] = pay[k] /\ pay'[l] = pay[l]
      BY <1>0, <2>2, <3>2 DEF Adds, NewRow
    <3> QED BY <1>0, <3>1, <3>3 DEF PaidByOne, In, LegsOf
  <2> QED BY <2>1, <2>2
<1>2. CASE (\E p \in Orders : Void(p)) \/ (\E q \in Requests : SettlePost(q)) \/ Quiet
  <2>1. /\ pay[k].of = o /\ pay[k].state = "COMPLETED" /\ pay'[k].kind = pay[k].kind
        /\ pay[l].of = o /\ pay[l].state = "COMPLETED" /\ pay'[l].kind = pay[l].kind
    BY <1>0, <1>2, CompletedKept
  <2>2. status[o] = "PAID"
    BY <1>0, <2>1 DEF SettledOK
  <2> QED BY <1>0, <2>1, <2>2 DEF PaidByOne, In, LegsOf
<1>3. ASSUME NEW m \in Legs, NEW c \in Codes \cup {None}, NEW x \in BOOLEAN, Payment(m, c, x)
      PROVE  k = l
  <2>1. PICK d : pay' = [pay EXCEPT ![m] = PaidBy(@, d)]
    BY <1>3 DEF Payment, Land, LandIf
  <2>2. \A j \in Legs : /\ pay'[j].of = pay[j].of /\ pay'[j].kind = pay[j].kind
                        /\ j # m => pay'[j] = pay[j]
    BY <2>1, EditKept DEF TypeOK
  <2>3. CASE pay[m].of = o
    <3>1. status[o] = "PENDING"
      BY <1>0, <1>3, <2>3, PaymentLands DEF Payment, Land, LandIf
    <3>2. \A j \in Legs : pay[j].of = o /\ pay[j].kind # "credit" => pay[j].state # "COMPLETED"
      BY <3>1 DEF SettledOK
    <3> QED BY <1>0, <2>2, <3>2
  <2>4. CASE pay[m].of # o
    <3>1. k # m /\ l # m
      BY <1>0, <2>2, <2>4
    <3>2. pay'[k] = pay[k] /\ pay'[l] = pay[l]
      BY <1>0, <2>2, <3>1
    <3>3. status[o] = "PAID"
      BY <1>0, <3>2 DEF SettledOK
    <3> QED BY <1>0, <3>2, <3>3 DEF PaidByOne, In, LegsOf
  <2> QED BY <2>3, <2>4
<1> QED BY <1>1, <1>2, <1>3, StepKinds DEF Paid

\* Every step keeps the prices, and the flags of what was paid twice.
LEMMA ChargedStep ==
    ASSUME RowsInv, ChargedOK, [Next]_vars
    PROVE  ChargedOK'
BY PricedStep, PaidByOneStep DEF ChargedOK

\* Collected adds up what its legs hold one by one.
Tally(g, S) ==
    [s \in SUBSET S |-> IF s = {} THEN 0 ELSE pay[AnyOf(s)].cents + g[s \ {AnyOf(s)}]]

LEMMA CollectedIs ==
    ASSUME NEW o
    PROVE  Collected(o) = (CHOOSE g : g = Tally(g, In(o, "COMPLETED")))[In(o, "COMPLETED")]
BY DEF Collected, MapThenSumSet, MapThenFoldSet, Tally, AnyOf

\* What two legs hold, of which both, one or none is counted.
Part(l, s) == IF l \in s THEN pay[l].cents ELSE 0

\* Of two legs it is the sum of both.
LEMMA CollectedOfTwo ==
    ASSUME NEW o, NEW a, NEW b, a # b, In(o, "COMPLETED") \subseteq {a, b},
           \A l \in In(o, "COMPLETED") : pay[l].cents \in Int
    PROVE  Collected(o) = Part(a, In(o, "COMPLETED")) + Part(b, In(o, "COMPLETED"))
<1> DEFINE S == In(o, "COMPLETED")
           h == [s \in SUBSET S |-> Part(a, s) + Part(b, s)]
<1>1. ASSUME NEW s \in SUBSET S, s # {}
      PROVE  h[s] = pay[AnyOf(s)].cents + h[s \ {AnyOf(s)}]
  <2>1. AnyOf(s) \in s
    BY <1>1 DEF AnyOf
  <2>2. s \ {AnyOf(s)} \in SUBSET S
    OBVIOUS
  <2>3. CASE AnyOf(s) = a
    <3>1. Part(a, s) = pay[a].cents /\ Part(a, s \ {a}) = 0 /\ Part(b, s \ {a}) = Part(b, s)
      BY <2>1, <2>3 DEF Part
    <3>2. Part(b, s) \in Int
      BY DEF Part
    <3> QED BY <2>2, <2>3, <3>1, <3>2
  <2>4. CASE AnyOf(s) = b
    <3>1. Part(b, s) = pay[b].cents /\ Part(b, s \ {b}) = 0 /\ Part(a, s \ {b}) = Part(a, s)
      BY <2>1, <2>4 DEF Part
    <3>2. Part(a, s) \in Int /\ pay[b].cents \in Int
      BY <2>1, <2>4 DEF Part
    <3> QED BY <2>2, <2>4, <3>1, <3>2
  <2> QED BY <2>1, <2>3, <2>4
<1>2. h[{}] = 0
  BY DEF Part
<1>3. h = Tally(h, S)
  BY <1>1, <1>2 DEF Tally
<1> HIDE DEF h
<1>4. PICK g : g = Tally(g, S) /\ Collected(o) = g[S]
  BY <1>3, CollectedIs
<1>5. g[{}] = 0 /\ \A s \in SUBSET S : s # {} => g[s] = pay[AnyOf(s)].cents + g[s \ {AnyOf(s)}]
  BY <1>4 DEF Tally
<1>6. \A l \in S : g[{l}] = pay[l].cents /\ AnyOf({l}) = l
  <2>1. ASSUME NEW l \in S PROVE g[{l}] = pay[l].cents /\ AnyOf({l}) = l
    <3>1. AnyOf({l}) = l
      BY DEF AnyOf
    <3>2. {l} \ {l} = {} /\ {l} \in SUBSET S /\ {l} # {} /\ pay[l].cents \in Int
      OBVIOUS
    <3>3. g[{l}] = pay[l].cents + g[{}]
      BY <1>5, <3>1, <3>2
    <3> QED BY <1>5, <3>1, <3>2, <3>3
  <2> QED BY <2>1
<1>7. CASE S = {}
  <2>1. Part(a, S) = 0 /\ Part(b, S) = 0
    BY <1>7 DEF Part
  <2>2. g[S] = 0
    BY <1>5, <1>7
  <2> QED BY <1>4, <2>1, <2>2
<1>8. CASE S = {a}
  <2>1. Part(a, S) = pay[a].cents /\ Part(b, S) = 0 /\ pay[a].cents \in Int
    BY <1>8 DEF Part
  <2>2. g[S] = pay[a].cents
    BY <1>6, <1>8
  <2> QED BY <1>4, <2>1, <2>2
<1>9. CASE S = {b}
  <2>1. Part(a, S) = 0 /\ Part(b, S) = pay[b].cents /\ pay[b].cents \in Int
    BY <1>9 DEF Part
  <2>2. g[S] = pay[b].cents
    BY <1>6, <1>9
  <2> QED BY <1>4, <2>1, <2>2
<1>10. CASE S = {a, b}
  <2>1. AnyOf(S) \in S
    BY <1>10 DEF AnyOf
  <2>2. g[S] = pay[AnyOf(S)].cents + g[S \ {AnyOf(S)}]
    BY <1>5, <1>10
  <2>3. CASE AnyOf(S) = a
    <3>1. S \ {a} = {b}
      BY <1>10
    <3> QED BY <1>4, <1>6, <1>10, <2>2, <2>3, <3>1 DEF Part
  <2>4. CASE AnyOf(S) = b
    <3>1. S \ {b} = {a}
      BY <1>10
    <3> QED BY <1>4, <1>6, <1>10, <2>2, <2>4, <3>1 DEF Part
  <2> QED BY <1>10, <2>1, <2>3, <2>4
<1> QED BY <1>7, <1>8, <1>9, <1>10

\* Rounding to a shilling adds at most fifty cents.
LEMMA Rounded == ASSUME NEW c \in Int PROVE RoundToShilling(c) \in Int /\ RoundToShilling(c) <= c + 50
BY DEF RoundToShilling

\* A sale that is priced and paid by one leg has not collected too much.
LEMMA ChargedOnce ==
    ASSUME RowsInv, ChargedOK, FundsOK
    PROVE  NotOvercharged
<1> SUFFICES ASSUME NEW o \in Orders, status[o] = "PAID", o \notin flagged,
                    \A l \in LegsOf(o) : pay[l].kind = "stk" =>
                        pay[l].cents = RoundToShilling(Total - CreditIn(LegsOf(o)))
             PROVE  Collected(o) <= Total + 50
  BY DEF NotOvercharged
<1> DEFINE S == In(o, "COMPLETED")
           C == CreditLegs(LegsOf(o))
           due == Total - CreditIn(LegsOf(o))
<1>0. Priced(o) /\ PaidByOne(o) /\ Funded(o) /\ due \in 0..Total /\ Total \in Nat
  BY TillAssumption DEF ChargedOK, FundsOK, Priced
<1>1. \A l \in S : l \in LegsOf(o) /\ l \in Legs /\ pay[l].cents \in Int
  BY RowFields DEF In, LegsOf, RowsInv, TypeOK
<1>2. C \subseteq S /\ \A l \in S \ C : pay[l].kind # "credit"
  BY <1>0 DEF Funded, CreditLegs, In
<1>3. \A l \in C : pay[l].cents = CreditIn(LegsOf(o)) /\ S \cap C = {l}
  <2>1. ASSUME NEW l \in C PROVE pay[l].cents = CreditIn(LegsOf(o)) /\ S \cap C = {l}
    <3>1. C = {l}
      BY <1>0 DEF Priced
    <3>2. AnyOf({l}) = l
      BY AnyMember
    <3> QED BY <1>2, <3>1, <3>2 DEF CreditIn
  <2> QED BY <2>1
<1>4. \A l \in S \ C : pay[l].cents \in Int /\ pay[l].cents <= due + 50
  <2>1. ASSUME NEW l \in S \ C PROVE pay[l].cents <= due + 50
    <3>1. pay[l].kind \in {"cash", "account", "stk", "manual"} /\ l \in LegsOf(o)
      BY <1>1, <1>2, FreeRow, RowFields DEF Mpesa, LegsOf, RowsInv, TypeOK
    <3>2. CASE pay[l].kind = "stk"
      <4>1. pay[l].cents = RoundToShilling(due)
        BY <3>1, <3>2
      <4> QED BY <1>0, <4>1, Rounded
    <3>3. CASE pay[l].kind # "stk"
      <4>1. pay[l].cents = due
        BY <1>0, <3>1, <3>3 DEF Priced
      <4> QED BY <1>0, <4>1
    <3> QED BY <3>2, <3>3
  <2> QED BY <1>1, <2>1
<1>5. \A k, l \in S \ C : k = l
  BY <1>2 , <1>0 DEF PaidByOne
<1>6. C = {} => CreditIn(LegsOf(o)) = 0
  BY DEF CreditIn
<1> HIDE DEF C, S
<1>7. CASE S = {}
  <2>1. Collected(o) = Part(0, S) + Part(1, S)
    BY <1>7, CollectedOfTwo DEF S
  <2>2. Part(0, S) = 0 /\ Part(1, S) = 0
    BY <1>7 DEF Part
  <2> QED BY <1>0, <2>1, <2>2
<1>8. ASSUME NEW l \in S, S = {l} PROVE Collected(o) <= Total + 50
  <2>1. l # l + 1 /\ l \in Nat
    <3>1. l \in Legs
      BY <1>1
    <3> QED BY <3>1, TillAssumption
  <2>2. Collected(o) = Part(l, S) + Part(l + 1, S)
    BY <1>1, <1>8, <2>1, CollectedOfTwo DEF S
  <2>3. Part(l, S) = pay[l].cents /\ Part(l + 1, S) = 0
    BY <1>8, <2>1 DEF Part
  <2>4. pay[l].cents <= Total + 50 /\ pay[l].cents \in Int
    BY <1>0, <1>1, <1>3, <1>4
  <2> QED BY <2>2, <2>3, <2>4
<1>9. ASSUME NEW k \in C, NEW l \in S \ C, S = {k, l} PROVE Collected(o) <= Total + 50
  <2>1. Collected(o) = Part(k, S) + Part(l, S)
    BY <1>1, <1>9, CollectedOfTwo DEF S
  <2>2. Part(k, S) = pay[k].cents /\ Part(l, S) = pay[l].cents
    BY <1>9 DEF Part
  <2>3. pay[k].cents = Total - due /\ pay[l].cents \in Int /\ pay[l].cents <= due + 50
    <3>1. pay[k].cents = CreditIn(LegsOf(o)) /\ CreditIn(LegsOf(o)) \in Int
      BY <1>0, <1>3 DEF Priced
    <3> QED BY <1>0, <1>4, <3>1
  <2> QED BY <1>0, <2>1, <2>2, <2>3
<1> QED
  <2>1. CASE S \ C = {}
    <3>1. S = C
      BY <1>2, <2>1
    <3> QED BY <1>0, <1>7, <1>8, <3>1 DEF Priced, C
  <2>2. ASSUME NEW l \in S \ C PROVE Collected(o) <= Total + 50
    <3>1. S = C \cup {l}
      BY <1>2, <1>5
    <3>2. CASE C = {}
      BY <1>8, <3>1, <3>2
    <3>3. ASSUME NEW k \in C PROVE Collected(o) <= Total + 50
      <4>1. C = {k}
        BY <1>2, <1>3
      <4> QED BY <1>9, <3>1, <4>1
    <3> QED BY <3>2, <3>3
  <2> QED BY <2>1, <2>2

-----------------------------------------------------------------------------
(***************************************************************************)
(* The inductive invariant and the theorems.                               *)
(***************************************************************************)
IInv == RowsInv /\ PaidOnce /\ OneLegPerReceipt /\ TabDebt /\ StockExact /\ FundsOK
        /\ ChargedOK

\* A till with no orders satisfies the inductive invariant.
LEMMA InitIInv == Init => IInv
<1> SUFFICES ASSUME Init PROVE IInv
  OBVIOUS
<1>1. \A l \in Legs : pay[l] = NoLeg
  BY DEF Init
<1>2. \A l \in Legs : /\ pay[l].kind = "none" /\ pay[l].of = None /\ pay[l].state = "none"
                      /\ pay[l].receipt = None
  BY <1>1 DEF NoLeg, Leg
<1>3. RowsOK /\ SettledOK /\ OneLegPerReceipt
  BY <1>1, <1>2 DEF RowsOK, SettledOK, OneLegPerReceipt
<1>4. HandlersOK
  BY DEF Init, HandlersOK, HandlerOK, IdleSlot, Slot, Handler
<1>5. PaidOnce
  BY DEF Init, PaidOnce
<1>6. TabDebt
  BY <1>2, TillAssumption DEF Init, TabDebt, Tab, LegsOf
<1>7. FundsOK
  BY DEF Init, FundsOK, Funded
<1>8. StockExact
  <2>1. {o \in Orders : status[o] = "PAID"} = {}
    BY DEF Init
  <2> QED BY <2>1, FS_EmptySet, TillAssumption DEF Init, StockExact
<1>9. ChargedOK
  <2>1. \A o \in Orders : LegsOf(o) = {}
    BY <1>2, TillAssumption DEF LegsOf
  <2>2. \A o \in Orders : CreditLegs(LegsOf(o)) = {}
    BY <2>1 DEF CreditLegs
  <2> QED BY <2>1, <2>2, TillAssumption DEF Init, ChargedOK, Priced, PaidByOne, CreditIn
<1> QED BY <1>3, <1>4, <1>5, <1>6, <1>7, <1>8, <1>9, TypeInit DEF IInv, RowsInv

\* Every step keeps the inductive invariant.
LEMMA NextIInv == IInv /\ [Next]_vars => IInv'
<1> SUFFICES ASSUME IInv, [Next]_vars PROVE IInv'
  OBVIOUS
<1>1. RowsInv'
  BY TypeStep, RowsStep, HandlersStep, SettledStep DEF IInv, RowsInv
<1> QED
  BY <1>1, PaidOnceStep, ReceiptStep, TabDebtStep, StockStep, FundsOKStep, ChargedStep DEF IInv

\* The inductive invariant has the checked invariants as parts.
LEMMA Promises ==
    ASSUME IInv
    PROVE  /\ TypeOK /\ PaidOnce /\ OneLegPerReceipt /\ TabDebt /\ StockExact
           /\ NoSaleAfterVoid /\ LoyaltyAndCredit /\ NotOvercharged
<1>1. NoSaleAfterVoid
  BY DEF IInv, RowsInv, SettledOK, NoSaleAfterVoid, In, LegsOf
<1>2. LoyaltyAndCredit
  BY DEF IInv, FundsOK, Funded, LoyaltyAndCredit
<1> QED BY <1>1, <1>2, ChargedOnce DEF IInv, RowsInv

\* The invariant holds in every reachable state.
THEOREM Invariance == Spec => []IInv
BY InitIInv, NextIInv, PTL DEF Spec

\* The state of the books stays in its types: no payment row, request slot or
\* balance ever holds a value the handlers do not expect.
THEOREM TypeCorrect == Spec => []TypeOK
<1>1. IInv => TypeOK
  BY Promises
<1> QED BY Invariance, <1>1, PTL

\* completePayment: the stock and points of a sale move exactly once, for any
\* number of legs, tills, callbacks and crashes.
THEOREM PaidExactlyOnce == Spec => []PaidOnce
<1>1. IInv => PaidOnce
  BY Promises
<1> QED BY Invariance, <1>1, PTL

\* completePayment and Void: nothing completes on a voided sale.
THEOREM VoidIsFinal == Spec => []NoSaleAfterVoid
<1>1. IInv => NoSaleAfterVoid
  BY Promises
<1> QED BY Invariance, <1>1, PTL

\* completePayment: an M-Pesa receipt code pays for one leg of one order.
THEOREM ReceiptUsedOnce == Spec => []OneLegPerReceipt
<1>1. IInv => OneLegPerReceipt
  BY Promises
<1> QED BY Invariance, <1>1, PTL

\* SettleTab: however often a settlement is retried, it is posted once.
THEOREM TabOwedOnce == Spec => []TabDebt
<1>1. IInv => TabDebt
  BY Promises
<1> QED BY Invariance, <1>1, PTL

\* The guarded stock decrement: the shelf never goes below zero, and without
\* a short sale it is what it was less the paid orders.
THEOREM ShelfMatchesSales == Spec => []StockExact
<1>1. IInv => StockExact
  BY Promises
<1> QED BY Invariance, <1>1, PTL

\* Checkout, completePayment and Void: a void returns exactly the points and
\* the store credit the sale moved.
THEOREM CreditReturns == Spec => []LoyaltyAndCredit
<1>1. IInv => LoyaltyAndCredit
  BY Promises
<1> QED BY Invariance, <1>1, PTL

\* Checkout, ManualConfirm and completePayment: a paid sale that nobody is told to look
\* at has collected its total, up to the rounding to a shilling.
THEOREM NobodyOvercharged == Spec => []NotOvercharged
<1>1. IInv => NotOvercharged
  BY Promises
<1> QED BY Invariance, <1>1, PTL
=============================================================================
