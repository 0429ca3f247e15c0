------------------------------ MODULE TeamSync ------------------------------
(***************************************************************************)
(* Tills of one team exchanging events through the shop's cloud log        *)
(* (internal/services/teamsync.go, teamsync_emit.go, teamsync_apply.go,    *)
(* outbox_backfill.go).                                                    *)
(*                                                                         *)
(* A till writes an event per change to its outbox, a loop pushes the      *)
(* outbox to the log, pulls the events of the other tills past its cursor, *)
(* applies them, retries the dead letters and emits again what the outbox  *)
(* misses.  Every database statement of the receiving side commits on its  *)
(* own, so a till may die between the effect of an event, its mark in      *)
(* sync_applied and the cursor.                                            *)
(*                                                                         *)
(* There is one product.  Every order sells one unit of it; an order in    *)
(* Tabs is charged to a customer that every till has on file.  Cashiers    *)
(* complete an order, and void one that is not paid yet, on the till that  *)
(* took it; elsewhere the code would move the shelf wrongly.  The events   *)
(* of a change follow its commit in the same step, but for the ledger      *)
(* rows: the backfill can only double what it finds without an event, and  *)
(* a second order event does nothing where the first one arrived.          *)
(*                                                                         *)
(* The other entities (categories, customers, designs, shifts, quotes,     *)
(* settings) travel the same way and are left out, and so is the pruning   *)
(* of rows that are days old.                                              *)
(***************************************************************************)
EXTENDS Integers, FiniteSets, Sequences, SequencesExt, FiniteSetsExt

CONSTANTS Tills, Orders,
          Home,        \* the till that takes an order
          Tabs,        \* the orders put on a customer's account
          Voidable,    \* the orders a cashier may void
          Catalog,     \* the till that enters the product
          OnHand,      \* its units on the shelf
          MaxPush,     \* maxPushAttempts
          Batch,       \* syncBatchSize
          MaxRows,     \* bounds: rows that fail in one push, and changes whose
          MaxFaults    \* emits fail + pushes that fail + deaths, rewound cursors
                       \* included + button presses

ASSUME TeamSyncAssumption ==
    /\ IsFiniteSet(Tills) /\ IsFiniteSet(Orders)
    /\ Home \in [Orders -> Tills] /\ Tabs \subseteq Orders
    /\ Voidable \subseteq Orders /\ Catalog \in Tills
    /\ OnHand \in Nat /\ OnHand >= Cardinality(Orders)
    /\ MaxPush \in Nat \ {0} /\ Batch \in Nat \ {0}
    /\ MaxRows \in Nat /\ MaxFaults \in Nat

VARIABLES rec,      \* orders.status per till, "absent" where the order has no row
          bare,     \* orders whose item rows have product_id = 0
          known,    \* the tills with a products row
          stock,    \* products.stock_qty
          booked,   \* how often a till's customer_ledger has a movement
          unsynced, \* ledger rows with an order_id and an empty synced_at
          outbox,   \* sync_outbox; a row's index is its client_uuid
          clerk,    \* the unsynced rows a handler has read and will emit
          log,      \* external: sync_events in the cloud, ids in order
          cursor,   \* last_event_<team>
          applied,  \* sync_applied
          dead,     \* sync_dead_letter rows with direction 'apply'
          cycle,    \* where TeamSyncNow is, with the batch it still has to do
          button,   \* the batch of RetryFailedSync, which takes no lock
          runs,     \* history: how often an event's effect ran on a till
          torn,     \* history: deaths between an effect and its mark
          rewound,  \* history: the tills whose cursor was set back
          twice,    \* history: ledger rows that two writers emit
          lost, refused, crashes, presses

tables == <<rec, bare, known, stock, booked, unsynced>>
inbound == <<cursor, applied, dead, runs, torn, rewound>>
counters == <<lost, refused, crashes, presses>>
MayFail == lost + refused + crashes + presses < MaxFaults
vars == <<tables, outbox, clerk, twice, log, inbound, cycle, button, counters>>

Movements == Tabs \X {"charge", "payment", "reversal"}

(***************************************************************************)
(* Events.  Emit helpers read the row as it is when they run.              *)
(***************************************************************************)
Product == [kind |-> "product"]
Delta(o, n) == [kind |-> "stock", order |-> o, qty |-> n]
OrderEvent(o, status) == [kind |-> "order", order |-> o, status |-> status]
VoidEvent(o) == [kind |-> "void", order |-> o]
LedgerEvent(m) == [kind |-> "ledger", row |-> m]

Events ==
    {Product} \cup {Delta(o, -1) : o \in Orders} \cup {VoidEvent(o) : o \in Orders}
    \cup {OrderEvent(o, s) : o \in Orders, s \in {"PENDING", "PAID", "VOIDED"}}
    \cup {LedgerEvent(m) : m \in Movements}

Row(ev) == [event |-> ev, state |-> "pending", tries |-> 0]

\* The numbers of a finite set, in order.
Nth(S, k) == CHOOSE i \in S : Cardinality({j \in S : j <= i}) = k
Ascending(S) == [k \in 1..Cardinality(S) |-> Nth(S, k)]

\* The rows of the events at the indices S join the outbox.
Rows(evs, S) == LET sent == Ascending(S) IN [k \in DOMAIN sent |-> Row(evs[sent[k]])]
Send(t, evs, S) == outbox' = [outbox EXCEPT ![t] = @ \o Rows(evs, S)]

\* Emit: an insert that fails, or a death before it, loses the event.
Emit(t, evs) ==
    \E kept \in SUBSET DOMAIN evs :
        /\ kept # DOMAIN evs => MayFail
        /\ lost' = lost + (IF kept = DOMAIN evs THEN 0 ELSE 1)
        /\ Send(t, evs, kept)

Pending(t) == {i \in DOMAIN outbox[t] : outbox[t][i].state = "pending"}
Kept(t) == {i \in DOMAIN outbox[t] : outbox[t][i].state # "quarantined"}
FiledOnce(t, o) ==    \* mutant: a quarantined row still counts
    \E i \in DOMAIN outbox[t] : /\ outbox[t][i].event.kind = "order"
                                /\ outbox[t][i].event.order = o
Filed(t, o) == \E i \in Kept(t) : /\ outbox[t][i].event.kind = "order"
                                  /\ outbox[t][i].event.order = o

Foreign(t) == {i \in DOMAIN log : log[i].by # t}

Idle == [pc |-> "idle", todo |-> <<>>]
At(t, pc) == cycle[t].pc = pc
Goto(t, pc, todo) == cycle' = [cycle EXCEPT ![t] = [pc |-> pc, todo |-> todo]]

Init ==
    /\ rec = [t \in Tills |-> [o \in Orders |-> "absent"]]
    /\ bare = [t \in Tills |-> {}]
    /\ known = {}
    /\ stock = [t \in Tills |-> 0]
    /\ booked = [t \in Tills |-> [m \in Movements |-> 0]]
    /\ unsynced = [t \in Tills |-> {}]
    /\ outbox = [t \in Tills |-> <<>>]
    /\ clerk = [t \in Tills |-> {}]
    /\ twice = [t \in Tills |-> 0]
    /\ log = <<>>
    /\ cursor = [t \in Tills |-> 0]
    /\ applied = [t \in Tills |-> {}]
    /\ dead = [t \in Tills |-> {}]
    /\ cycle = [t \in Tills |-> Idle]
    /\ button = [t \in Tills |-> <<>>]
    /\ runs = [t \in Tills |-> <<>>]
    /\ torn = [t \in Tills |-> 0]
    /\ rewound = {}
    /\ lost = 0 /\ refused = 0 /\ crashes = 0 /\ presses = 0
-----------------------------------------------------------------------------
(***************************************************************************)
(* The shop: changes on one till, with the events they emit.               *)
(***************************************************************************)
Set(t, o, status) == rec' = [rec EXCEPT ![t][o] = status]
Move(t, n) == stock' = [stock EXCEPT ![t] = @ + n]
Book(t, m) == booked' = [booked EXCEPT ![t][m] = @ + 1]

Shop == UNCHANGED <<twice, log, inbound, cycle, button, refused, crashes, presses>>

AddProduct ==
    /\ known = {}
    /\ known' = {Catalog}
    /\ stock' = [stock EXCEPT ![Catalog] = OnHand]
    /\ Emit(Catalog, <<Product>>)
    /\ UNCHANGED <<rec, bare, booked, unsynced, clerk>> /\ Shop

Unsold(o) == rec[Home[o]][o] = "absent"

\* Checkout of an order paid on the spot, and of one that waits for M-Pesa.
\* The shelf of an order that waits is left alone here, yet the delta goes out.
Sell(o) ==
    LET t == Home[o] IN
    /\ o \notin Tabs /\ Unsold(o) /\ t \in known /\ stock[t] >= 1
    /\ \E status \in {"PAID", "PENDING"} :
        /\ Set(t, o, status)
        /\ IF status = "PAID" THEN Move(t, -1) ELSE UNCHANGED stock
        /\ Emit(t, <<OrderEvent(o, status), Delta(o, -1)>>)
    /\ UNCHANGED <<bare, known, booked, unsynced, clerk>> /\ Shop

\* emitLedgerForOrder reads the rows of an order that are not stamped, then emits
\* them, and stamps each whether or not the insert worked.
Owing(t, o) == {m \in unsynced[t] : m[1] = o}
LedgerEvents(S) == SetToSeq({LedgerEvent(m) : m \in S})

\* Checkout on account.
SellOnTab(o) ==
    LET t == Home[o]
        charge == <<o, "charge">>
    IN  /\ o \in Tabs /\ Unsold(o) /\ t \in known /\ stock[t] >= 1 /\ clerk[t] = {}
        /\ Set(t, o, "PENDING")
        /\ Book(t, charge)
        /\ Emit(t, <<OrderEvent(o, "PENDING"), Delta(o, -1)>>)
        /\ unsynced' = [unsynced EXCEPT ![t] = @ \cup {charge}]
        /\ clerk' = [clerk EXCEPT ![t] = {charge}]
        /\ UNCHANGED <<bare, known, stock>> /\ Shop

EmitLedgerUnstamped(t) ==    \* mutant: synced_at stays empty
    /\ clerk[t] # {}
    /\ Emit(t, LedgerEvents(clerk[t]))
    /\ clerk' = [clerk EXCEPT ![t] = {}]
    /\ UNCHANGED tables /\ Shop

EmitLedger(t) ==
    /\ clerk[t] # {}
    /\ Emit(t, LedgerEvents(clerk[t]))
    /\ unsynced' = [unsynced EXCEPT ![t] = @ \ clerk[t]]
    /\ clerk' = [clerk EXCEPT ![t] = {}]
    /\ UNCHANGED <<rec, bare, known, stock, booked>> /\ Shop

TakeOne(t) == IF stock[t] >= 1 THEN Move(t, -1) ELSE UNCHANGED stock

\* completePayment, and behind it SettleTab when the order is on a tab: that
\* one emits its ledger row itself and never stamps synced_at.
Complete(o) ==
    LET t == Home[o] IN
    /\ rec[t][o] = "PENDING" /\ clerk[t] = {}
    /\ Set(t, o, "PAID")
    /\ TakeOne(t)
    /\ clerk' = [clerk EXCEPT ![t] = Owing(t, o)]
    /\ IF o \in Tabs
       THEN /\ Book(t, <<o, "payment">>)
            /\ unsynced' = [unsynced EXCEPT ![t] = @ \cup {<<o, "payment">>}]
            /\ Emit(t, <<OrderEvent(o, "PAID"), LedgerEvent(<<o, "payment">>)>>)
       ELSE /\ Emit(t, <<OrderEvent(o, "PAID")>>)
            /\ UNCHANGED <<booked, unsynced>>
    /\ UNCHANGED <<bare, known>> /\ Shop

\* What a void books for a tab, here and on the receiver: a ledger row with the
\* order's id, and nothing in synced_at.
BookReversal(t, o) ==
    IF o \in Tabs
    THEN /\ Book(t, <<o, "reversal">>)
         /\ unsynced' = [unsynced EXCEPT ![t] = @ \cup {<<o, "reversal">>}]
    ELSE UNCHANGED <<booked, unsynced>>

Unit(t, o) == IF t \in known /\ o \notin bare[t] THEN 1 ELSE 0

\* Void gives back the unit of a paid order only.
Void(t, o) ==
    /\ o \in Voidable /\ rec[t][o] \in {"PENDING", "PAID"}
    /\ rec[t][o] = "PENDING" => t = Home[o]
    /\ Set(t, o, "VOIDED")
    /\ IF rec[t][o] = "PAID" THEN Move(t, Unit(t, o)) ELSE UNCHANGED stock
    /\ BookReversal(t, o)
    /\ Emit(t, <<VoidEvent(o)>>)
    /\ UNCHANGED <<bare, known, clerk>> /\ Shop
-----------------------------------------------------------------------------
(***************************************************************************)
(* push: a batch the server refuses is halved until the offender is alone. *)
(* The cycle is one step here: of the pending rows some reach the log, in  *)
(* the order of the outbox, and of these some answers are lost.  The log   *)
(* ignores a client_uuid it has.                                           *)
(***************************************************************************)
Logged(t, i) == \E k \in DOMAIN log : log[k].by = t /\ log[k].uuid = i

ArrivalsBlind(t, S) ==    \* mutant: no unique client_uuid in the log
    LET new == Ascending(S)
    IN  [k \in DOMAIN new |-> [by |-> t, uuid |-> new[k], event |-> outbox[t][new[k]].event]]

Arrivals(t, S) ==
    LET new == Ascending({i \in S : ~Logged(t, i)})
    IN  [k \in DOMAIN new |-> [by |-> t, uuid |-> new[k], event |-> outbox[t][new[k]].event]]

\* A row that failed once more; the last time it is moved to the dead letters.
Refused(row) ==
    [row EXCEPT !.tries = @ + 1,
                !.state = IF row.tries + 1 >= MaxPush THEN "quarantined" ELSE "pending"]

Push(t) ==
    /\ At(t, "idle")
    /\ \E stored \in SUBSET Pending(t) : \E acked \in SUBSET stored :
        /\ acked # Pending(t) => MayFail
        /\ Cardinality(Pending(t) \ acked) <= MaxRows
        /\ refused' = refused + (IF acked = Pending(t) THEN 0 ELSE 1)
        /\ log' = log \o Arrivals(t, stored)
        /\ LET after(i) == IF i \in acked THEN [outbox[t][i] EXCEPT !.state = "pushed"]
                           ELSE IF i \in Pending(t) THEN Refused(outbox[t][i])
                           ELSE outbox[t][i]
               rows == [i \in DOMAIN outbox[t] |-> after(i)]
           IN  /\ outbox' = [outbox EXCEPT ![t] = rows]
               /\ Goto(t, IF \E i \in DOMAIN rows : rows[i].state = "pending"
                          THEN "idle" ELSE "pull", <<>>)
    /\ UNCHANGED <<tables, clerk, twice, inbound, button, lost, crashes, presses>>

\* pull asks for the events of other devices past the cursor, oldest first.
Pull(t) ==
    /\ At(t, "pull")
    /\ LET new == Ascending({i \in Foreign(t) : i > cursor[t]})
       IN  Goto(t, "apply", SubSeq(new, 1, Min({Batch, Len(new)})))
    /\ UNCHANGED <<tables, outbox, clerk, twice, log, inbound, button, counters>>

(***************************************************************************)
(* applyEvent.  Refuses is the error that sends an event to the dead       *)
(* letters; Effect is what it writes otherwise.                            *)
(***************************************************************************)
Refuses(t, ev) == ev.kind = "stock" /\ t \notin known

\* remoteComplete adopts the payment; no stock moves with an order event.
ApplyOrder(t, ev) ==
    LET o == ev.order IN
    /\ rec' = [rec EXCEPT ![t][o] =
                CASE @ = "absent" /\ ev.status # "VOIDED" -> ev.status
                  [] @ = "PENDING" /\ ev.status = "PAID" -> "PAID"
                  [] OTHER -> @]
    /\ bare' = IF rec[t][o] = "absent" /\ ev.status # "VOIDED" /\ t \notin known
               THEN [bare EXCEPT ![t] = @ \cup {o}] ELSE bare
    /\ UNCHANGED <<known, stock, booked, unsynced>>

ApplyVoidPaid(t, ev) ==    \* mutant: gives the unit of a paid order back, as Void does
    LET o == ev.order IN
    IF rec[t][o] \in {"PENDING", "PAID"}
    THEN /\ Set(t, o, "VOIDED")
         /\ IF rec[t][o] = "PAID" THEN Move(t, Unit(t, o)) ELSE UNCHANGED stock
         /\ BookReversal(t, o)
         /\ UNCHANGED <<bare, known>>
    ELSE UNCHANGED tables

\* A receiver took the delta of the checkout, so it gives the unit back in
\* every state; a void of an order it does not have is dropped.
ApplyVoid(t, ev) ==
    LET o == ev.order IN
    IF rec[t][o] \in {"PENDING", "PAID"}
    THEN /\ Set(t, o, "VOIDED")
         /\ Move(t, Unit(t, o))
         /\ BookReversal(t, o)
         /\ UNCHANGED <<bare, known>>
    ELSE UNCHANGED tables

ApplyStock(t, ev) ==
    /\ stock' = [stock EXCEPT ![t] = Max({0, @ + ev.qty})]
    /\ UNCHANGED <<rec, bare, known, booked, unsynced>>

\* The row of a synced movement has order_id 0, which no backfill looks at.
ApplyLedger(t, ev) ==
    /\ Book(t, ev.row)
    /\ UNCHANGED <<rec, bare, known, stock, unsynced>>

\* The event of a new product says stock_set: the shelf becomes what it names,
\* also when the till has the product.
ApplyProduct(t) ==
    /\ known' = known \cup {t}
    /\ stock' = [stock EXCEPT ![t] = OnHand]
    /\ UNCHANGED <<rec, bare, booked, unsynced>>

Effect(t, ev) ==
    \/ ev.kind = "product" /\ ApplyProduct(t)
    \/ ev.kind = "stock" /\ ApplyStock(t, ev)
    \/ ev.kind = "order" /\ ApplyOrder(t, ev)
    \/ ev.kind = "void" /\ ApplyVoid(t, ev)
    \/ ev.kind = "ledger" /\ ApplyLedger(t, ev)

Ran(t, i) == IF i \in DOMAIN runs[t] THEN runs[t][i] ELSE 0
CountRun(t, i) ==
    runs' = [runs EXCEPT ![t] =
                [j \in DOMAIN runs[t] \cup {i} |-> IF j = i THEN Ran(t, i) + 1 ELSE runs[t][j]]]
Run(t, i) == Effect(t, log[i].event) /\ CountRun(t, i)
Mark(t, i) == applied' = [applied EXCEPT ![t] = @ \cup {i}]
Advance(t, i) == cursor' = [cursor EXCEPT ![t] = i]
-----------------------------------------------------------------------------
(***************************************************************************)
(* applyPulled, one event at a time, and the three places it can die at.   *)
(***************************************************************************)
Local == UNCHANGED <<rewound, outbox, clerk, twice, log, button, lost, refused, presses>>

Next1(t) == Head(cycle[t].todo)
Rest(t, pc) == Goto(t, pc, Tail(cycle[t].todo))
Busy(t, pc) == At(t, pc) /\ cycle[t].todo # <<>>

\* The skip does not move the cursor.
Skip(t) ==
    /\ Busy(t, "apply") /\ Next1(t) \in applied[t]
    /\ Rest(t, "apply")
    /\ UNCHANGED <<tables, inbound, crashes>> /\ Local

NewUnchecked(t) == Busy(t, "apply")    \* mutant: sync_applied is not asked
New(t) == Busy(t, "apply") /\ Next1(t) \notin applied[t]
Accepted(t) == New(t) /\ ~Refuses(t, log[Next1(t)].event)

Apply(t) ==
    /\ Accepted(t)
    /\ Run(t, Next1(t)) /\ Mark(t, Next1(t)) /\ Advance(t, Next1(t))
    /\ Rest(t, "apply")
    /\ UNCHANGED <<dead, torn, crashes>> /\ Local

DeadLetter(t) ==
    /\ New(t) /\ Refuses(t, log[Next1(t)].event)
    /\ dead' = [dead EXCEPT ![t] = @ \cup {Next1(t)}]
    /\ Advance(t, Next1(t))
    /\ Rest(t, "apply")
    /\ UNCHANGED <<tables, applied, runs, torn, crashes>> /\ Local

\* The till dies: what was in memory is gone.
Die(t) ==
    /\ MayFail /\ crashes' = crashes + 1
    /\ cycle' = [cycle EXCEPT ![t] = Idle]
    /\ button' = [button EXCEPT ![t] = <<>>]
    /\ clerk' = [clerk EXCEPT ![t] = {}]
    /\ UNCHANGED <<log, cursor, rewound, lost, refused, presses>>

\* ... among the emits of a ledger, before the insert or before the stamp,
DieEmitting(t) ==
    /\ clerk[t] # {} /\ Die(t)
    /\ \E S \in SUBSET clerk[t] :
        /\ Send(t, LedgerEvents(S), DOMAIN LedgerEvents(S))
        /\ twice' = [twice EXCEPT ![t] = @ + Cardinality(S)]
    /\ UNCHANGED <<tables, applied, dead, runs, torn>>

\* ... before the mark,
DieUnmarked(t) ==
    /\ Accepted(t) /\ Run(t, Next1(t)) /\ Die(t)
    /\ torn' = [torn EXCEPT ![t] = @ + 1]
    /\ UNCHANGED <<outbox, twice, applied, dead>>

\* ... or before the cursor.
DieUnmoved(t) ==
    /\ Accepted(t) /\ Run(t, Next1(t)) /\ Mark(t, Next1(t)) /\ Die(t)
    /\ UNCHANGED <<outbox, twice, dead, torn>>

\* A restored backup or a wiped sync_state takes the cursor back to the start; what
\* was applied is still marked.
Rewind(t) ==
    /\ cursor[t] > 0 /\ cursor' = [cursor EXCEPT ![t] = 0]
    /\ rewound' = rewound \cup {t}
    /\ MayFail /\ crashes' = crashes + 1
    /\ UNCHANGED <<tables, outbox, clerk, twice, log, applied, dead, runs, torn, cycle,
                   button, lost, refused, presses>>

\* The batch is done; retryFailedApplies reads the dead letters.
StartRetry(t) ==
    /\ At(t, "apply") /\ cycle[t].todo = <<>> /\ dead[t] # {}
    /\ Goto(t, "retry", Ascending(dead[t]))
    /\ UNCHANGED <<tables, inbound, crashes>> /\ Local

(***************************************************************************)
(* retryFailedApplies.  It asks neither whether the row is still there nor *)
(* whether the event has been applied; the cycle and the button of the     *)
(* Team panel may work on the same rows.                                   *)
(***************************************************************************)
Recover(t, i) ==
    IF Refuses(t, log[i].event)
    THEN UNCHANGED <<tables, applied, dead, runs>>
    ELSE /\ Run(t, i) /\ Mark(t, i)
         /\ dead' = [dead EXCEPT ![t] = @ \ {i}]

Retry(t) ==
    /\ Busy(t, "retry")
    /\ Recover(t, Next1(t))
    /\ Rest(t, "retry")
    /\ UNCHANGED <<cursor, torn, crashes>> /\ Local

\* The till dies after the effect: before the dead letter is deleted, or after.
DieRecovering(t) ==
    /\ Busy(t, "retry") /\ ~Refuses(t, log[Next1(t)].event)
    /\ Run(t, Next1(t)) /\ torn' = [torn EXCEPT ![t] = @ + 1]
    /\ dead' = dead \/ dead' = [dead EXCEPT ![t] = @ \ {Next1(t)}]
    /\ UNCHANGED <<outbox, twice, applied>> /\ Die(t)

Press(t) ==
    /\ button[t] = <<>> /\ dead[t] # {}
    /\ MayFail /\ presses' = presses + 1
    /\ button' = [button EXCEPT ![t] = Ascending(dead[t])]
    /\ UNCHANGED <<tables, outbox, clerk, twice, log, inbound, cycle, lost, refused, crashes>>

RetryPressed(t) ==
    /\ button[t] # <<>>
    /\ Recover(t, Head(button[t]))
    /\ button' = [button EXCEPT ![t] = Tail(@)]
    /\ UNCHANGED <<outbox, clerk, twice, log, cursor, torn, rewound, cycle, counters>>

(***************************************************************************)
(* BackfillMissingEvents.  The void probe compares orders.status with      *)
(* 'voided', which no order has.                                           *)
(***************************************************************************)
MissingOrders(t) == {o \in Orders : rec[t][o] # "absent" /\ ~Filed(t, o)}
MissingVoids(t) ==
    {o \in Orders : /\ rec[t][o] = "voided"
                    /\ ~\E i \in Kept(t) : outbox[t][i].event = VoidEvent(o)}

Fill(t) ==
    /\ cycle[t].todo = <<>>
    /\ At(t, "retry") \/ (At(t, "apply") /\ dead[t] = {})
    /\ Emit(t, SetToSeq({OrderEvent(o, rec[t][o]) : o \in MissingOrders(t)})
               \o SetToSeq({VoidEvent(o) : o \in MissingVoids(t)})
               \o LedgerEvents(unsynced[t]))
    /\ unsynced' = [unsynced EXCEPT ![t] = {}]
    /\ twice' = [twice EXCEPT ![t] = @ + Cardinality(clerk[t] \cap unsynced[t])]
    /\ Goto(t, "idle", <<>>)
    /\ UNCHANGED <<rec, bare, known, stock, booked, clerk, log, inbound, button,
                   refused, crashes, presses>>
-----------------------------------------------------------------------------
Sync(t) ==
    \/ Push(t) \/ Pull(t) \/ Skip(t) \/ Apply(t) \/ DeadLetter(t)
    \/ StartRetry(t) \/ Retry(t) \/ Fill(t)

Next ==
    \/ AddProduct
    \/ \E o \in Orders : Sell(o) \/ SellOnTab(o) \/ Complete(o)
    \/ \E t \in Tills :
        \/ Sync(t)
        \/ DieEmitting(t) \/ DieUnmarked(t) \/ DieUnmoved(t) \/ DieRecovering(t) \/ Rewind(t)
        \/ EmitLedger(t) \/ Press(t) \/ RetryPressed(t)
        \/ \E o \in Orders : Void(t, o)

Spec == Init /\ [][Next]_vars

\* TeamSyncLoop ticks for as long as the till is up, and deaths are bounded.
FairSpec == Spec /\ \A t \in Tills : WF_vars(Sync(t)) /\ WF_vars(EmitLedger(t))
-----------------------------------------------------------------------------
(***************************************************************************)
(* What holds                                                              *)
(***************************************************************************)
Count == Nat
Todos == {"idle", "pull", "apply", "retry"}

\* Every table keeps its type, and the cursor, the marks and the dead letters
\* are about events of other tills that the log has.
TypeOK ==
    /\ rec \in [Tills -> [Orders -> {"absent", "PENDING", "PAID", "VOIDED"}]]
    /\ bare \in [Tills -> SUBSET Orders] /\ known \subseteq Tills
    /\ stock \in [Tills -> Nat]
    /\ booked \in [Tills -> [Movements -> Count]]
    /\ unsynced \in [Tills -> SUBSET Movements]
    /\ \A t \in Tills :
        /\ \A i \in DOMAIN outbox[t] :
            outbox[t][i] \in [event : Events, state : {"pending", "pushed", "quarantined"},
                             tries : 0..MaxPush]
        /\ cursor[t] \in 0..Len(log)
        /\ applied[t] \cup dead[t] \cup DOMAIN runs[t] \subseteq Foreign(t)
        /\ cycle[t].pc \in Todos /\ ToSet(cycle[t].todo) \subseteq Foreign(t)
        /\ ToSet(button[t]) \subseteq Foreign(t)
        /\ clerk[t] \subseteq Movements /\ torn[t] \in 0..MaxFaults

OneIf(c) == IF c THEN 1 ELSE 0

\* The effect of an event runs once on a till, once more at most for every death
\* between an effect and its mark, once more if the retry button was ever
\* pressed (the cycle may be at the same dead letters), and once more if the
\* cursor was ever set back (an event with a dead letter is then pulled again,
\* applied, and retried all the same).
OnceEach ==
    \A t \in Tills : \A i \in DOMAIN runs[t] :
        runs[t][i] <= 1 + torn[t] + OneIf(presses > 0) + OneIf(t \in rewound)

\* The log has every change once: a push whose answer was lost is not a second
\* event, and what a till marks pushed is there.
LogIsTrue ==
    /\ \A j, k \in DOMAIN log : log[j].by = log[k].by /\ log[j].uuid = log[k].uuid => j = k
    /\ \A t \in Tills : \A i \in DOMAIN outbox[t] :
        outbox[t][i].state = "pushed" => Logged(t, i)

\* No cycle has anything left to do, and nothing waits for a retry.
Quiet ==
    \A t \in Tills :
        /\ cycle[t] = Idle /\ button[t] = <<>> /\ clerk[t] = {}
        /\ Pending(t) = {} /\ dead[t] = {} /\ Foreign(t) \subseteq DOMAIN runs[t]
        /\ MissingOrders(t) = {} /\ unsynced[t] = {}

Before(j, k, o) ==
    /\ log[j].event = VoidEvent(o)
    /\ log[k].event.kind = "order" /\ log[k].event.order = o
    /\ \A i \in 1..(k - 1) : log[i].event.kind = "order" => log[i].event.order # o
    /\ j < k

\* Nothing was lost on the way, ran twice, or was overtaken by the event that
\* undoes it.
Undisturbed ==
    /\ lost = 0
    /\ \A t \in Tills :
        /\ Kept(t) = DOMAIN outbox[t] /\ bare[t] = {}
        /\ \A i \in DOMAIN runs[t] : runs[t][i] = 1
    /\ ~\E j, k \in DOMAIN log, o \in Orders : Before(j, k, o)

Sold(t) == {o \in Orders : rec[t][o] = "PAID"}

\* Once the tills are quiet and no order waits for its money, every till has
\* the orders the others have, and its shelf is what was there at first less
\* what was sold and not voided: no unit moves twice or not at all, whether it
\* was sold here or elsewhere, paid at once or later, voided here or elsewhere.
TillsAgree ==
    Quiet /\ Undisturbed /\ known = Tills =>
        /\ \A t \in Tills, o \in Orders : rec[t][o] = rec[Home[o]][o]
        /\ (\A t \in Tills, o \in Orders : rec[t][o] # "PENDING") =>
              \A t \in Tills : stock[t] = OnHand - Cardinality(Sold(t))

\* Whatever emits, pushes and tills fail on the way, once the tills are quiet
\* an order that was not voided is on all of them: the backfill brings back the
\* order events that were lost or put aside.
OrdersArrive ==
    Quiet => \A t \in Tills, o \in Orders :
        rec[Home[o]][o] \in {"PENDING", "PAID"} => rec[t][o] # "absent"

\* What a till charges to a tab stands on the customer's account of every till
\* in the end, unless its event was lost or put aside; and it stands there once,
\* but for a death in the middle of an emit or an apply and for a backfill that
\* reads the row while the checkout is about to emit it.
ChargedOnce ==
    \A t \in Tills, o \in Tabs :
        LET times == booked[t][<<o, "charge">>] IN
        /\ times <= 1 + torn[t] + twice[Home[o]]
        /\ Quiet /\ lost = 0 /\ Kept(Home[o]) = DOMAIN outbox[Home[o]] /\ rec[Home[o]][o] # "absent"
              => times >= 1
-----------------------------------------------------------------------------
(***************************************************************************)
(* What the comments say and the code does not do                          *)
(***************************************************************************)

\* A void takes the charge back once on every till: "Void reversals are
\* deliberately NOT emitted: applyVoid recomputes them on the receiver (emitting
\* them too would double-reverse)" (teamsync_emit.go:151).
ReversedOnce == \A t \in Tills, o \in Tabs : booked[t][<<o, "reversal">>] <= 1

\* Every till gets through the log: applyPulled advances the cursor "past every event",
\* so "a cursor regression (restored backup, wiped sync_state) replays safely"
\* (teamsync.go:384).  It does not advance it past an event that was applied before.
LogIsRead ==
    \A t \in Tills : <>[](Pending(t) = {} /\ Foreign(t) \subseteq DOMAIN runs[t] \cup dead[t])
=============================================================================
