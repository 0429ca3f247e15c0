----------------------------- MODULE OfflineQueue -----------------------------
(***************************************************************************)
(* Sales rung up while the till cannot be reached                          *)
(* (frontend/src/offline, CheckoutRail.tsx) and the till's side of them    *)
(* (handlers/orders.go, services/queries.go Sync, the two guards of        *)
(* Checkout against a second order).  The screens are windows of one       *)
(* browser: each has its own heartbeat and flush, and they share its       *)
(* stores, IndexedDB and, for a screen that saw it fail, localStorage.     *)
(* A sale is known by its client id; ids are minted in order.  The count   *)
(* of a sale's failed attempts only colours the badge and is left out.     *)
(***************************************************************************)
EXTENDS Naturals, FiniteSets

CONSTANTS Screens,
          Handlers,    \* requests the till serves at once
          FlushBatch,  \* FLUSH_BATCH
          MaxSales,    \* bound on checkouts
          MaxTroubles, \* bound on what goes wrong: answers, errors, storage, reloads, deaths
          Gone         \* the screen of a request nobody waits for any more

ASSUME OfflineAssumption ==
    /\ FlushBatch \in Nat \ {0} /\ MaxSales \in Nat /\ MaxTroubles \in Nat
    /\ Gone \notin Screens

VARIABLES rung,    \* checkouts so far
          ring,    \* each screen's checkout
          flush,   \* each screen's flush
          broken,  \* idbBroken
          online, badge,  \* useNet: online, and pending > 0
          idb, ls, \* the sales in IndexedDB and in localStorage
          call,    \* requests at the till
          orders,  \* orders the till has of each sale
          barred,  \* sales the till turns down without saying that it refuses them
          troubles,
          saved, lost, refused  \* history, as in SaleOnce
screenVars == <<ring, flush, broken, online, badge>>
storeVars == <<idb, ls>>
told == <<saved, lost, refused>>
vars == <<rung, screenVars, storeVars, call, orders, barred, troubles, told>>

Sales == 1..MaxSales
NoRing == [step |-> "none", sale |-> 0, cash |-> FALSE]
NoFlush == [step |-> "none", taken |-> {}, left |-> {}, removed |-> {},
            ok |-> {}, no |-> {}, err |-> {}]
\* A request: who waits for it and for what, its sales still to do, the one that is
\* being done (0 for none), and those done, by their answer.
NoCall == [by |-> Gone, for |-> "none", todo |-> {}, at |-> 0, ok |-> {}, no |-> {}, err |-> {}]
Request(t, what, S) == [NoCall EXCEPT !.by = t, !.for = what, !.todo = S]

Init ==
    /\ rung = 0 /\ ring = [t \in Screens |-> NoRing] /\ flush = [t \in Screens |-> NoFlush]
    /\ broken = [t \in Screens |-> FALSE] /\ online = [t \in Screens |-> TRUE]
    /\ badge = [t \in Screens |-> FALSE]
    /\ idb = {} /\ ls = {} /\ call = [h \in Handlers |-> NoCall]
    /\ orders = [s \in Sales |-> 0] /\ barred = {} /\ troubles = 0
    /\ saved = {} /\ lost = {} /\ refused = {}

Trouble == troubles < MaxTroubles /\ troubles' = troubles + 1
Fine == UNCHANGED troubles
WaitsFor(t, what, h) == call[h].by = t /\ call[h].for = what
Unserved(t, what) == \A h \in Handlers : ~WaitsFor(t, what, h)
Done(h) == call[h] # NoCall /\ call[h].todo = {}

\* The request arrives, or never does.
Post(t, what, S) == \E h \in Handlers : call[h] = NoCall /\ call' = [call EXCEPT ![h] = Request(t, what, S)]
\* Nobody waits for t's requests of these kinds; what has arrived is still served.
Kept(c) == IF c.by = Gone /\ c.todo = {} THEN NoCall ELSE c
Dropped(t, kinds) == call' = [h \in Handlers |->
    IF call[h].by = t /\ call[h].for \in kinds THEN Kept([call[h] EXCEPT !.by = Gone]) ELSE call[h]]

\* An operation on the queue: in IndexedDB, or, once that has failed, in localStorage.
OnStore(t, inIdb, inLs) ==
    \/ /\ ~broken[t] /\ Fine /\ idb' = inIdb /\ UNCHANGED <<ls, broken>>
    \/ /\ IF broken[t] THEN Fine ELSE Trouble
       /\ broken' = [broken EXCEPT ![t] = TRUE] /\ ls' = inLs /\ UNCHANGED idb
View(t) == IF broken'[t] THEN ls ELSE idb

(***************************************************************************)
(* The counter.  A cash sale whose request fails on the way is saved.      *)
(***************************************************************************)
checkout(t) ==
    /\ ring[t].step = "none" /\ rung < MaxSales /\ rung' = rung + 1
    /\ \E cash \in BOOLEAN : ring' = [ring EXCEPT ![t] = [step |-> "waiting", sale |-> rung', cash |-> cash]]
    /\ Post(t, "ring", {rung'}) \/ UNCHANGED call
    /\ UNCHANGED <<flush, broken, online, badge, storeVars, orders, barred, troubles, told>>

ToSave(t) == IF ring[t].cash THEN [ring EXCEPT ![t].step = "saving"] ELSE [ring EXCEPT ![t] = NoRing]

checkoutCut(t) ==
    /\ ring[t].step = "waiting" /\ ring' = ToSave(t)
    /\ \/ Unserved(t, "ring") /\ Fine /\ UNCHANGED call
       \/ ~Unserved(t, "ring") /\ Trouble /\ Dropped(t, {"ring"})
    /\ UNCHANGED <<rung, flush, broken, online, badge, storeVars, orders, barred, told>>

\* A refusal too is saved when the browser itself thinks it is offline (navigator.onLine).
checkoutAnswered(t) ==
    \E h \in Handlers :
        /\ ring[t].step = "waiting" /\ WaitsFor(t, "ring", h) /\ Done(h)
        /\ \/ ring' = [ring EXCEPT ![t] = NoRing]
           \/ call[h].ok = {} /\ ring' = ToSave(t)
        /\ call' = [call EXCEPT ![h] = NoCall]
        /\ UNCHANGED <<rung, flush, broken, online, badge, storeVars, orders, barred, troubles, told>>

\* lsSave swallows its error: a full localStorage loses the sale.
enqueue(t) ==
    LET s == ring[t].sale
    IN /\ ring[t].step = "saving" /\ ring' = [ring EXCEPT ![t] = NoRing]
       /\ saved' = saved \cup {s}
       /\ \/ OnStore(t, idb \cup {s}, ls \cup {s}) /\ UNCHANGED lost
          \/ broken[t] /\ Trouble /\ lost' = lost \cup {s} /\ UNCHANGED <<idb, ls, broken>>
       /\ UNCHANGED <<rung, flush, online, badge, call, orders, barred, refused>>

\* A transaction that aborts resolves no promise (only onerror is listened to): the
\* screen waits for ever.
enqueueHangs(t) ==
    /\ ring[t].step = "saving" /\ ~broken[t] /\ Trouble
    /\ ring' = [ring EXCEPT ![t].step = "hung"]
    /\ UNCHANGED <<rung, flush, broken, online, badge, storeVars, call, orders, barred, told>>

(***************************************************************************)
(* The heartbeat and the flush.                                            *)
(***************************************************************************)
heartbeatFails(t) ==
    /\ online[t] /\ online' = [online EXCEPT ![t] = FALSE]
    /\ UNCHANGED <<rung, ring, flush, broken, badge, storeVars, call, orders, barred, troubles, told>>

Flushing(t) == flush[t].step # "none"
drainQueue(t) == flush' = [flush EXCEPT ![t] = [NoFlush EXCEPT !.step = "sending", !.taken = View(t), !.left = View(t)]]

heartbeat(t) ==
    /\ ~online[t] \/ badge[t]
    /\ online' = [online EXCEPT ![t] = TRUE]
    /\ \/ Flushing(t) /\ ~online[t] /\ Fine /\ UNCHANGED <<flush, storeVars, broken>>
       \/ ~Flushing(t) /\ OnStore(t, idb, ls) /\ drainQueue(t)
    /\ UNCHANGED <<rung, ring, badge, call, orders, barred, told>>

\* At startup and when the socket is back.
refreshPending(t) ==
    /\ OnStore(t, idb, ls) /\ badge' = [badge EXCEPT ![t] = View(t) # {}] /\ badge' # badge
    /\ UNCHANGED <<rung, ring, flush, online, call, orders, barred, told>>

\* mutant: the batch whose answer was lost is not counted
BatchForgotten(t) ==
    /\ flush' = [flush EXCEPT ![t] = NoFlush]
    /\ badge' = [badge EXCEPT ![t] = flush[t].left # {}]

\* The badge counts from what the flush has seen, not from the queue.
FlushEnds(t) ==
    /\ flush' = [flush EXCEPT ![t] = NoFlush]
    /\ badge' = [badge EXCEPT ![t] = flush[t].taken # flush[t].removed]

flushOnce(t) ==
    /\ flush[t].step = "sending" /\ flush[t].left # {}
    /\ \E B \in SUBSET flush[t].left :
          /\ B # {} /\ Cardinality(B) <= FlushBatch
          /\ B = flush[t].left \/ Cardinality(B) = FlushBatch
          /\ flush' = [flush EXCEPT ![t].step = "waiting", ![t].left = @ \ B]
          /\ \/ Post(t, "flush", B) /\ Fine
             \/ Trouble /\ UNCHANGED call
    /\ UNCHANGED <<rung, ring, broken, online, badge, storeVars, orders, barred, told>>

flushDone(t) ==
    /\ flush[t].step = "sending" /\ flush[t].left = {} /\ FlushEnds(t)
    /\ UNCHANGED <<rung, ring, broken, online, storeVars, call, orders, barred, troubles, told>>

flushCut(t) ==
    /\ flush[t].step = "waiting" /\ FlushEnds(t)
    /\ \/ Unserved(t, "flush") /\ Fine /\ UNCHANGED call
       \/ ~Unserved(t, "flush") /\ Trouble /\ Dropped(t, {"flush"})
    /\ UNCHANGED <<rung, ring, broken, online, storeVars, orders, barred, told>>

flushAnswered(t) ==
    \E h \in Handlers :
        /\ WaitsFor(t, "flush", h) /\ Done(h)
        /\ flush' = [flush EXCEPT ![t].step = "settling", ![t].ok = call[h].ok,
                                  ![t].no = call[h].no, ![t].err = call[h].err]
        /\ call' = [call EXCEPT ![h] = NoCall]
        /\ UNCHANGED <<rung, ring, broken, online, badge, storeVars, orders, barred, troubles, told>>

\* One answer after the other; then the next batch.
Crossed(f, s) == [f EXCEPT !.ok = @ \ {s}, !.no = @ \ {s}, !.err = @ \ {s}]
NextAnswer(f) == [f EXCEPT !.step = IF f.ok \cup f.no \cup f.err = {} THEN "sending" ELSE @]
Handled(t, s) == NextAnswer(Crossed(flush[t], s))
Removed(f, s) == [f EXCEPT !.removed = @ \cup {s}]

AnyAnswer(t) == flush[t].ok \cup flush[t].no \cup flush[t].err  \* mutant: any answer settles the sale
Settling(t) == flush[t].ok \cup flush[t].no

removeFromQueue(t) ==
    /\ flush[t].step = "settling"
    /\ \E s \in Settling(t) :
          /\ OnStore(t, idb \ {s}, ls \ {s})
          /\ flush' = [flush EXCEPT ![t] = Removed(Handled(t, s), s)]
          /\ refused' = IF s \in flush[t].no THEN refused \cup {s} ELSE refused
    /\ UNCHANGED <<rung, ring, online, badge, call, orders, barred, saved, lost>>

markQueueAttempt(t) ==
    /\ flush[t].step = "settling"
    /\ \E s \in flush[t].err \ Settling(t) :
          \/ OnStore(t, idb, ls) /\ flush' = [flush EXCEPT ![t] = Handled(t, s)]
          \/ ~broken[t] /\ Trouble /\ flush' = [flush EXCEPT ![t].step = "hung"]
             /\ UNCHANGED <<storeVars, broken>>
    /\ UNCHANGED <<rung, ring, online, badge, call, orders, barred, told>>

\* The page is loaded again: the stores stay, and IndexedDB gets another chance.
Reload(t) ==
    /\ Trouble
    /\ ring' = [ring EXCEPT ![t] = NoRing] /\ flush' = [flush EXCEPT ![t] = NoFlush]
    /\ broken' = [broken EXCEPT ![t] = FALSE] /\ online' = [online EXCEPT ![t] = TRUE]
    /\ badge' = [badge EXCEPT ![t] = idb # {}] /\ Dropped(t, {"ring", "flush"})
    /\ UNCHANGED <<rung, storeVars, orders, barred, told>>

(***************************************************************************)
(* The till: Sync and Checkout take their sales one by one.                *)
(***************************************************************************)
Took(c, s, how) ==
    [c EXCEPT !.todo = @ \ {s}, !.at = 0,
              !.ok = IF how = "ok" THEN @ \cup {s} ELSE @,
              !.no = IF how = "no" THEN @ \cup {s} ELSE @,
              !.err = IF how = "err" THEN @ \cup {s} ELSE @]
Answered(h, s, how) == call' = [call EXCEPT ![h] = Kept(Took(call[h], s, how))]

\* GetOrderByClientUUID, before anything else: an order that cannot be read is not found.
LookUp(h) ==
    /\ call[h].at = 0
    /\ \E s \in call[h].todo :
          \/ orders[s] > 0 /\ Answered(h, s, "ok") /\ Fine
          \/ /\ call' = [call EXCEPT ![h].at = s]
             /\ IF orders[s] > 0 THEN Trouble ELSE Fine
    /\ UNCHANGED <<rung, screenVars, storeVars, orders, barred, told>>

\* The insert; the unique index on client_uuid turns a second one into the first.
InsertTwice(s) == [orders EXCEPT ![s] = @ + 1]  \* mutant: no unique index
InsertOrder(s) == IF orders[s] > 0 THEN orders ELSE [orders EXCEPT ![s] = 1]

Checkout(h) ==
    LET s == call[h].at
    IN /\ s # 0 /\ s \notin barred /\ orders' = InsertOrder(s)
       /\ \/ Answered(h, s, "ok") /\ Fine
          \/ Answered(h, s, "no") /\ Trouble  \* an order that cannot be read back is "not found"
       /\ UNCHANGED <<rung, screenVars, storeVars, barred, told>>

\* isSyncRejection: the shelf is empty, the customer is gone...
isSyncRejection(h) ==
    /\ call[h].at # 0 /\ Answered(h, call[h].at, "no")
    /\ UNCHANGED <<rung, screenVars, storeVars, orders, barred, troubles, told>>

\* The database fails; or the sale may not be made: a product was taken out of the
\* catalogue, the discount or the price needs a right the cashier has not, the split
\* does not add up.  That is an error like any other, and the queue keeps the sale.
CheckoutFails(h) ==
    /\ call[h].at # 0 /\ Answered(h, call[h].at, "err")
    /\ IF call[h].at \in barred THEN Fine ELSE Trouble
    /\ UNCHANGED <<rung, screenVars, storeVars, orders, barred, told>>

\* The catalogue, a right or a setting changes, and comes back.
ShopChanges ==
    /\ \E s \in 1..rung : barred' \in {barred \cup {s}, barred \ {s}}
    /\ UNCHANGED <<rung, screenVars, storeVars, call, orders, troubles, told>>

TillDies ==
    /\ Trouble /\ \E h \in Handlers : call[h] # NoCall
    /\ call' = [h \in Handlers |-> NoCall]
    /\ UNCHANGED <<rung, screenVars, storeVars, orders, barred, told>>

Counter(t) == checkoutCut(t) \/ checkoutAnswered(t) \/ enqueue(t) \/ enqueueHangs(t)
FlushStep(t) == flushOnce(t) \/ flushDone(t) \/ flushCut(t) \/ flushAnswered(t)
                \/ removeFromQueue(t) \/ markQueueAttempt(t)
Sync(h) == LookUp(h) \/ Checkout(h) \/ isSyncRejection(h) \/ CheckoutFails(h)

Next ==
    \/ \E t \in Screens : checkout(t) \/ Counter(t) \/ heartbeatFails(t) \/ heartbeat(t)
                          \/ refreshPending(t) \/ FlushStep(t) \/ Reload(t)
    \/ \E h \in Handlers : Sync(h)
    \/ TillDies \/ ShopChanges

Spec == Init /\ [][Next]_vars

\* The heartbeat comes every ten seconds; a flush, a checkout and a request go on.
Fairness ==
    /\ \A t \in Screens : WF_vars(heartbeat(t)) /\ WF_vars(FlushStep(t))
    /\ WF_vars(\E t \in Screens : Counter(t)) /\ WF_vars(\E h \in Handlers : Sync(h))
FairSpec == Spec /\ Fairness

(***************************************************************************)
(* Properties.                                                             *)
(***************************************************************************)
Promised == INSTANCE SaleOnce WITH kept <- idb \cup ls

\* The queue keeps SaleOnce's promise: whatever is cut off, repeated by two screens or
\* kept in the wrong store, a sale said to be saved stays in a store until its order
\* exists or its refusal was shown, and no sale gets two orders (heartbeat.ts, queue.ts,
\* the client_uuid look-up and index behind Checkout).
KeepsPromise == Promised!SaleSpec

Queued(s) == s \in idb \cup ls
Taken(s) == \E t \in Screens : s \in flush[t].taken
Blind == \E t \in Screens : broken[t] \/ flush[t].step = "hung"

\* A sale that a flush has taken is settled in the end (heartbeat.ts: a batch that fails
\* keeps its sales and is sent again), unless a screen lost sight of IndexedDB or hangs in
\* a transaction, or the till bars the sale again and again or for good: such a sale is
\* parked, and is sent again when the bar is lifted.  Other errors are counted troubles.
TakenIsSettled ==
    \A s \in Sales : <>[](s \notin barred) => (Taken(s) ~> ~Queued(s) \/ Blind)

\* "Will sync when back online" (CheckoutRail.tsx): a saved sale is taken by a flush.
SavedIsSent ==
    \A s \in Sales : Queued(s) ~> ~Queued(s) \/ Taken(s)
=============================================================================
