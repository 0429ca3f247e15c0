-------------------------- MODULE OfflineQueue_proofs --------------------------
(***************************************************************************)
(* The offline queue implements SaleOnce, for any number of screens, of    *)
(* requests the till serves at once, of sales and of troubles.             *)
(* The step that matters is a sale leaving a store: the flush must hold    *)
(* its order or its refusal.  So the invariant follows the answer "ok"     *)
(* from the till through the request to the flush (OkIsBooked).            *)
(***************************************************************************)
EXTENDS OfflineQueue, TLAPS

RingType == [step : {"none", "waiting", "saving", "hung"}, sale : Sales \cup {0}, cash : BOOLEAN]
FlushType == [step : {"none", "sending", "waiting", "settling", "hung"},
              taken : SUBSET Sales, left : SUBSET Sales, removed : SUBSET Sales,
              ok : SUBSET Sales, no : SUBSET Sales, err : SUBSET Sales]
CallType == [by : Screens \cup {Gone}, for : {"none", "ring", "flush"}, todo : SUBSET Sales,
             at : Sales \cup {0}, ok : SUBSET Sales, no : SUBSET Sales, err : SUBSET Sales]

RingsOK ==
    /\ rung \in Nat /\ ring \in [Screens -> RingType]
    /\ \A t \in Screens : ring[t].step # "none" => ring[t].sale \in Sales
StoresOK == idb \in SUBSET Sales /\ ls \in SUBSET Sales
OrdersOK == orders \in [Sales -> {0, 1}]

\* OkIsBooked, for the requests and for the flushes.
CallsOK ==
    /\ call \in [Handlers -> CallType]
    /\ \A h \in Handlers : \A s \in call[h].ok : orders[s] = 1
FlushesOK ==
    /\ flush \in [Screens -> FlushType]
    /\ \A t \in Screens : \A s \in flush[t].ok : orders[s] = 1

IInv == RingsOK /\ StoresOK /\ OrdersOK /\ CallsOK /\ FlushesOK

-----------------------------------------------------------------------------
\* Ids are numbered from 1, so 0 says that there is no sale.
LEMMA NoSaleIsZero == 0 \notin Sales
BY OfflineAssumption DEF Sales

\* A browser and a till without sales satisfy the inductive invariant.
LEMMA InitIInv == Init => IInv
BY OfflineAssumption
   DEF Init, IInv, RingsOK, StoresOK, OrdersOK, CallsOK, FlushesOK, RingType, FlushType, CallType,
       NoRing, NoFlush, NoCall

\* A request that is served, forgotten or given up keeps its type, and its "ok" its order.
LEMMA PostOK ==
    ASSUME CallsOK, NEW t \in Screens, NEW what \in {"ring", "flush"}, NEW S \in SUBSET Sales,
           Post(t, what, S), UNCHANGED orders
    PROVE  CallsOK'
<1>1. Request(t, what, S) \in CallType /\ Request(t, what, S).ok = {}
  BY DEF Request, NoCall, CallType
<1>2. PICK h \in Handlers : call' = [call EXCEPT ![h] = Request(t, what, S)]
  BY DEF Post
<1> QED
  BY <1>1, <1>2 DEF CallsOK

\* Dropping the answers of a screen keeps the requests typed and true.
LEMMA DroppedOK ==
    ASSUME CallsOK, NEW t \in Screens, NEW kinds, Dropped(t, kinds), UNCHANGED orders
    PROVE  CallsOK'
<1>1. NoCall \in CallType /\ NoCall.ok = {}
  BY DEF NoCall, CallType
<1>2. \A c \in CallType : Kept([c EXCEPT !.by = Gone]) \in CallType
                       /\ Kept([c EXCEPT !.by = Gone]).ok \subseteq c.ok
  BY <1>1 DEF Kept, CallType
<1> QED
  BY <1>2 DEF CallsOK, Dropped

\* A handler that has answered keeps the others as they are.
LEMMA FreedOK ==
    ASSUME CallsOK, NEW h \in Handlers, call' = [call EXCEPT ![h] = NoCall], UNCHANGED orders
    PROVE  CallsOK'
<1>1. NoCall \in CallType /\ NoCall.ok = {}
  BY DEF NoCall, CallType
<1> QED
  BY <1>1 DEF CallsOK

\* Orders are only ever added.
LEMMA AnsweredOK ==
    ASSUME CallsOK, NEW h \in Handlers, NEW s \in Sales, NEW how, Answered(h, s, how),
           \A z \in Sales : orders[z] = 1 => orders'[z] = 1,
           how = "ok" => orders'[s] = 1
    PROVE  CallsOK'
<1> DEFINE ok2 == IF how = "ok" THEN call[h].ok \cup {s} ELSE call[h].ok
           no2 == IF how = "no" THEN call[h].no \cup {s} ELSE call[h].no
           err2 == IF how = "err" THEN call[h].err \cup {s} ELSE call[h].err
           c == Took(call[h], s, how)
<1>a. call[h] \in CallType
  BY DEF CallsOK
<1>b. /\ ok2 \in SUBSET Sales /\ no2 \in SUBSET Sales /\ err2 \in SUBSET Sales
      /\ ok2 \subseteq call[h].ok \cup {s} /\ (how # "ok" => ok2 = call[h].ok)
  BY <1>a DEF CallType
<1>0. call' = [call EXCEPT ![h] = Kept(c)]
  BY DEF Answered
<1>c. c = [call[h] EXCEPT !.todo = @ \ {s}, !.at = 0, !.ok = ok2, !.no = no2, !.err = err2]
  BY DEF Took
<1> HIDE DEF ok2, no2, err2, c
<1>1. c \in CallType /\ c.ok = ok2
  BY <1>a, <1>b, <1>c DEF CallType
<1>2. NoCall \in CallType /\ NoCall.ok = {}
  BY DEF NoCall, CallType
<1>3. Kept(c) \in {c, NoCall}
  BY DEF Kept
<1>5. \A g \in Handlers : call[g].ok \subseteq Sales
  BY DEF CallsOK, CallType
<1>6. call' \in [Handlers -> CallType]
  BY <1>0, <1>1, <1>2, <1>3 DEF CallsOK
<1>7. \A z \in call'[h].ok : orders'[z] = 1
  BY <1>0, <1>b, <1>1, <1>2, <1>3, <1>5 DEF CallsOK
<1>8. \A g \in Handlers : \A z \in call'[g].ok : orders'[z] = 1
  BY <1>0, <1>5, <1>7 DEF CallsOK
<1> QED
  BY <1>6, <1>8 DEF CallsOK

\* The insert of Checkout adds the order of its client uuid, at most once.
LEMMA InsertOK ==
    ASSUME orders \in [Sales -> {0, 1}], NEW s \in Sales, orders' = InsertOrder(s)
    PROVE  /\ orders' \in [Sales -> {0, 1}] /\ orders'[s] = 1
           /\ \A z \in Sales : orders[z] = 1 => orders'[z] = 1
           /\ \/ orders' = orders
              \/ orders[s] = 0 /\ orders' = [orders EXCEPT ![s] = 1]
<1>1. CASE orders[s] = 0
  BY <1>1 DEF InsertOrder
<1>2. CASE orders[s] = 1
  BY <1>2 DEF InsertOrder
<1> QED
  BY <1>1, <1>2

\* A change of the queue reaches the one store the screen uses.
LEMMA OnStoreOK ==
    ASSUME StoresOK, NEW t \in Screens, NEW I \in SUBSET Sales, NEW L \in SUBSET Sales,
           OnStore(t, I, L)
    PROVE  /\ StoresOK' /\ View(t) \in SUBSET Sales
           /\ \/ idb' = I /\ ls' = ls
              \/ idb' = idb /\ ls' = L
<1>1. \/ idb' = I /\ ls' = ls
      \/ idb' = idb /\ ls' = L
  BY DEF OnStore
<1>2. View(t) = ls \/ View(t) = idb
  BY DEF View
<1> QED
  BY <1>1, <1>2 DEF StoresOK

\* A checkout that ends or goes on to be saved keeps what the others rely on.
LEMMA RingEndsOK ==
    ASSUME RingsOK, NEW t \in Screens, ring' \in {[ring EXCEPT ![t] = NoRing], ToSave(t)}, UNCHANGED rung,
           ring[t].step = "waiting" \/ ring' = [ring EXCEPT ![t] = NoRing]
    PROVE  RingsOK'
<1>1. NoRing \in RingType /\ NoRing.step = "none"
  BY DEF NoRing, RingType
<1>2. CASE ring' = [ring EXCEPT ![t] = NoRing]
  BY <1>1, <1>2 DEF RingsOK
<1>3. CASE ring' = [ring EXCEPT ![t].step = "saving"] /\ ring[t].step = "waiting"
  <2>1. [ring[t] EXCEPT !.step = "saving"] \in RingType
    BY DEF RingsOK, RingType
  <2>2. ring[t].sale \in Sales /\ [ring[t] EXCEPT !.step = "saving"].sale = ring[t].sale
    BY <1>3 DEF RingsOK, RingType
  <2> QED
    BY <1>3, <2>1, <2>2 DEF RingsOK
<1> QED
  BY <1>2, <1>3 DEF ToSave

\* A flush may remember that a sale is booked if its order exists.
LEMMA FlushOK ==
    ASSUME FlushesOK, NEW t \in Screens, NEW f \in FlushType, \A s \in f.ok : orders[s] = 1,
           flush' = [flush EXCEPT ![t] = f], UNCHANGED orders
    PROVE  FlushesOK'
BY DEF FlushesOK

\* A flush that has ended relies on nothing.
LEMMA FlushEndsOK ==
    ASSUME FlushesOK, NEW t \in Screens, flush' = [flush EXCEPT ![t] = NoFlush], UNCHANGED orders
    PROVE  FlushesOK'
<1>1. NoFlush \in FlushType /\ NoFlush.ok = {}
  BY DEF NoFlush, FlushType
<1> QED
  BY <1>1, FlushOK

\* Handling one answer of a batch learns of no new orders.
LEMMA HandledOK ==
    ASSUME FlushesOK, NEW t \in Screens, NEW s
    PROVE  /\ Handled(t, s) \in FlushType /\ Handled(t, s).ok \subseteq flush[t].ok
<1>1. flush[t] \in FlushType
  BY DEF FlushesOK
<1>2. Crossed(flush[t], s) \in FlushType /\ Crossed(flush[t], s).ok \subseteq flush[t].ok
  BY <1>1 DEF Crossed, FlushType
<1>3. \A f \in FlushType : NextAnswer(f) \in FlushType /\ NextAnswer(f).ok = f.ok
  BY DEF NextAnswer, FlushType
<1> QED
  BY <1>2, <1>3 DEF Handled

-----------------------------------------------------------------------------
\* The counter.
LEMMA CounterOK ==
    ASSUME IInv, NEW t \in Screens, checkout(t) \/ Counter(t)
    PROVE  IInv'
<1> USE DEF IInv
<1>0. FlushesOK /\ UNCHANGED <<flush, orders>> => FlushesOK' /\ OrdersOK'
  BY DEF FlushesOK, OrdersOK
<1>1. CASE checkout(t)
  <2>1. rung' \in Sales /\ rung' \in Nat
    BY <1>1, OfflineAssumption DEF checkout, RingsOK, Sales
  <2>2. RingsOK'
    BY <1>1, <2>1 DEF checkout, RingsOK, RingType
  <2>3. CallsOK'
    <3>1. CASE Post(t, "ring", {rung'})
      BY <1>1, <2>1, <3>1, PostOK DEF checkout
    <3>2. CASE UNCHANGED call
      BY <1>1, <3>2 DEF checkout, CallsOK
    <3> QED
      BY <1>1, <3>1, <3>2 DEF checkout
  <2> QED
    BY <1>0, <1>1, <2>2, <2>3 DEF checkout, storeVars, StoresOK, OrdersOK
<1>2. CASE checkoutCut(t)
  <2>1. CallsOK'
    <3>1. CASE Dropped(t, {"ring"})
      BY <1>2, <3>1, DroppedOK DEF checkoutCut
    <3>2. CASE UNCHANGED call
      BY <1>2, <3>2 DEF checkoutCut, CallsOK
    <3> QED
      BY <1>2, <3>1, <3>2 DEF checkoutCut
  <2> QED
    BY <1>0, <1>2, <2>1, RingEndsOK DEF checkoutCut, storeVars, StoresOK
<1>3. CASE checkoutAnswered(t)
  <2>1. PICK h \in Handlers : call' = [call EXCEPT ![h] = NoCall]
    BY <1>3 DEF checkoutAnswered
  <2>2. CallsOK'
    BY <1>3, <2>1, FreedOK DEF checkoutAnswered
  <2> QED
    BY <1>0, <1>3, <2>2, RingEndsOK DEF checkoutAnswered, storeVars, StoresOK
<1>4. CASE enqueue(t)
  <2>1. ring[t].sale \in Sales
    BY <1>4 DEF enqueue, RingsOK
  <2>2. StoresOK'
    <3>1. CASE OnStore(t, idb \cup {ring[t].sale}, ls \cup {ring[t].sale})
      BY <2>1, <3>1, OnStoreOK DEF StoresOK
    <3>2. CASE UNCHANGED <<idb, ls>>
      BY <3>2 DEF StoresOK
    <3> QED
      BY <1>4, <3>1, <3>2 DEF enqueue
  <2>3. CallsOK'
    BY <1>4 DEF enqueue, CallsOK
  <2> QED
    BY <1>0, <1>4, <2>2, <2>3, RingEndsOK DEF enqueue
<1>5. CASE enqueueHangs(t)
  <2>1. [ring[t] EXCEPT !.step = "hung"] \in RingType /\ ring[t].sale \in Sales
    BY <1>5 DEF enqueueHangs, RingsOK, RingType
  <2>2. ring' = [ring EXCEPT ![t] = [ring[t] EXCEPT !.step = "hung"]] /\ UNCHANGED rung
    BY <1>5 DEF enqueueHangs
  <2>3. [ring[t] EXCEPT !.step = "hung"].sale = ring[t].sale
    BY DEF RingsOK, RingType
  <2>4. RingsOK'
    BY <2>1, <2>2, <2>3 DEF RingsOK
  <2> QED
    BY <1>0, <1>5, <2>4 DEF enqueueHangs, storeVars, StoresOK, CallsOK
<1> QED
  BY <1>1, <1>2, <1>3, <1>4, <1>5 DEF Counter

-----------------------------------------------------------------------------
\* The heartbeat and the flush.
LEMMA HeartbeatOK ==
    ASSUME IInv, NEW t \in Screens, heartbeatFails(t) \/ heartbeat(t) \/ refreshPending(t) \/ Reload(t)
    PROVE  IInv'
<1> USE DEF IInv
<1>1. OrdersOK' /\ UNCHANGED orders
  BY DEF heartbeatFails, heartbeat, refreshPending, Reload, OrdersOK
<1>2. CallsOK'
  <2>1. UNCHANGED call \/ Dropped(t, {"ring", "flush"})
    BY DEF heartbeatFails, heartbeat, refreshPending, Reload
  <2> QED
    BY <1>1, <2>1, DroppedOK DEF CallsOK
<1>3. RingsOK'
  <2>1. UNCHANGED rung /\ (UNCHANGED ring \/ ring' = [ring EXCEPT ![t] = NoRing])
    BY DEF heartbeatFails, heartbeat, refreshPending, Reload
  <2> QED
    BY <2>1, RingEndsOK DEF RingsOK
<1>4. StoresOK' /\ (OnStore(t, idb, ls) => View(t) \in SUBSET Sales)
  <2>1. OnStore(t, idb, ls) \/ UNCHANGED <<idb, ls>>
    BY DEF heartbeatFails, heartbeat, refreshPending, Reload, storeVars
  <2> QED
    BY <2>1, OnStoreOK DEF StoresOK
<1>5. FlushesOK'
  <2>1. CASE UNCHANGED flush
    BY <1>1, <2>1 DEF FlushesOK
  <2>2. CASE flush' = [flush EXCEPT ![t] = NoFlush]
    BY <1>1, <2>2, FlushEndsOK
  <2>3. CASE OnStore(t, idb, ls) /\ drainQueue(t)
    <3> DEFINE f == [NoFlush EXCEPT !.step = "sending", !.taken = View(t), !.left = View(t)]
    <3>1. f \in FlushType /\ f.ok = {}
      BY <1>4, <2>3 DEF NoFlush, FlushType
    <3>2. flush' = [flush EXCEPT ![t] = f]
      BY <2>3 DEF drainQueue
    <3> QED
      BY <1>1, <3>1, <3>2, FlushOK
  <2> QED
    BY <2>1, <2>2, <2>3 DEF heartbeatFails, heartbeat, refreshPending, Reload
<1> QED
  BY <1>1, <1>2, <1>3, <1>4, <1>5

\* Every step of a flush keeps the inductive invariant.
LEMMA FlushStepOK ==
    ASSUME IInv, NEW t \in Screens, FlushStep(t)
    PROVE  IInv'
<1> USE DEF IInv
<1>1. OrdersOK' /\ UNCHANGED orders /\ RingsOK'
  BY DEF FlushStep, flushOnce, flushDone, flushCut, flushAnswered, removeFromQueue,
         markQueueAttempt, OrdersOK, RingsOK
<1>2. flush[t] \in FlushType /\ \A s \in flush[t].ok : orders[s] = 1
  BY DEF FlushesOK
<1>3. UNCHANGED <<idb, ls>> => StoresOK'
  BY DEF StoresOK
<1>4. UNCHANGED call => CallsOK'
  BY <1>1 DEF CallsOK
<1>5. CASE flushOnce(t)
  <2>1. PICK B \in SUBSET flush[t].left :
          /\ flush' = [flush EXCEPT ![t].step = "waiting", ![t].left = @ \ B]
          /\ Post(t, "flush", B) \/ UNCHANGED call
    BY <1>5 DEF flushOnce
  <2>2. B \in SUBSET Sales
    BY <1>2, <2>1 DEF FlushType
  <2>3. CallsOK'
    BY <1>1, <1>4, <2>1, <2>2, PostOK
  <2> DEFINE f == [flush[t] EXCEPT !.step = "waiting", !.left = @ \ B]
  <2>4. f \in FlushType /\ f.ok = flush[t].ok
    BY <1>2 DEF FlushType
  <2>5. flush' = [flush EXCEPT ![t] = f]
    BY <2>1
  <2>6. FlushesOK'
    BY <1>1, <1>2, <2>4, <2>5, FlushOK
  <2> QED
    BY <1>1, <1>3, <1>5, <2>3, <2>6 DEF flushOnce, storeVars
<1>6. CASE flushDone(t)
  BY <1>1, <1>3, <1>4, <1>6, FlushEndsOK DEF flushDone, FlushEnds, storeVars
<1>7. CASE flushCut(t)
  <2>1. CallsOK'
    BY <1>1, <1>4, <1>7, DroppedOK DEF flushCut
  <2> QED
    BY <1>1, <1>3, <1>7, <2>1, FlushEndsOK DEF flushCut, FlushEnds, storeVars
<1>8. CASE flushAnswered(t)
  <2>1. PICK h \in Handlers :
          /\ flush' = [flush EXCEPT ![t].step = "settling", ![t].ok = call[h].ok,
                                    ![t].no = call[h].no, ![t].err = call[h].err]
          /\ call' = [call EXCEPT ![h] = NoCall]
    BY <1>8 DEF flushAnswered
  <2>2. CallsOK'
    BY <1>1, <2>1, FreedOK
  <2> DEFINE f == [flush[t] EXCEPT !.step = "settling", !.ok = call[h].ok,
                                   !.no = call[h].no, !.err = call[h].err]
  <2>3. f \in FlushType /\ f.ok = call[h].ok
    BY <1>2 DEF FlushType, CallsOK, CallType
  <2>4. flush' = [flush EXCEPT ![t] = f]
    BY <2>1
  <2>5. \A s \in f.ok : orders[s] = 1
    BY <2>3 DEF CallsOK
  <2>6. FlushesOK'
    BY <1>1, <2>3, <2>4, <2>5, FlushOK
  <2> QED
    BY <1>1, <1>3, <1>8, <2>2, <2>6 DEF flushAnswered, storeVars
<1>9. CASE removeFromQueue(t)
  <2>1. PICK s \in Settling(t) :
          /\ OnStore(t, idb \ {s}, ls \ {s})
          /\ flush' = [flush EXCEPT ![t] = Removed(Handled(t, s), s)]
    BY <1>9 DEF removeFromQueue
  <2>2. s \in Sales
    BY <1>2 DEF Settling, FlushType
  <2>3. Removed(Handled(t, s), s) \in FlushType /\ Removed(Handled(t, s), s).ok \subseteq flush[t].ok
    BY <2>2, HandledOK DEF Removed, FlushType
  <2>4. FlushesOK'
    BY <1>1, <1>2, <2>1, <2>3, FlushOK
  <2>5. StoresOK'
    BY <2>1, OnStoreOK DEF StoresOK
  <2> QED
    BY <1>1, <1>4, <1>9, <2>4, <2>5 DEF removeFromQueue
<1>10. CASE markQueueAttempt(t)
  <2>1. StoresOK'
    BY <1>3, <1>10, OnStoreOK DEF markQueueAttempt, StoresOK, storeVars
  <2>2. PICK s : \/ flush' = [flush EXCEPT ![t] = Handled(t, s)]
                 \/ flush' = [flush EXCEPT ![t] = [flush[t] EXCEPT !.step = "hung"]]
    BY <1>10 DEF markQueueAttempt
  <2>3. [flush[t] EXCEPT !.step = "hung"] \in FlushType /\ [flush[t] EXCEPT !.step = "hung"].ok = flush[t].ok
    BY <1>2 DEF FlushType
  <2>4. FlushesOK'
    BY <1>1, <1>2, <2>2, <2>3, HandledOK, FlushOK
  <2> QED
    BY <1>1, <1>4, <1>10, <2>1, <2>4 DEF markQueueAttempt
<1> QED
  BY <1>5, <1>6, <1>7, <1>8, <1>9, <1>10 DEF FlushStep

\* The till.
LEMMA SyncOK ==
    ASSUME IInv, NEW h \in Handlers, Sync(h)
    PROVE  IInv'
<1> USE DEF IInv
<1>1. UNCHANGED <<rung, ring, flush, idb, ls>>
  BY DEF Sync, LookUp, Checkout, isSyncRejection, CheckoutFails, screenVars, storeVars
<1>2. RingsOK' /\ StoresOK'
  BY <1>1 DEF RingsOK, StoresOK
<1>3. /\ call[h] \in CallType
      /\ call[h].at # 0 => call[h].at \in Sales
  BY DEF CallsOK, CallType
<1>4. CASE Checkout(h)
  <2>1. call[h].at \in Sales /\ orders' = InsertOrder(call[h].at)
    BY <1>3, <1>4 DEF Checkout
  <2>2. /\ OrdersOK' /\ orders'[call[h].at] = 1
        /\ \A z \in Sales : orders[z] = 1 => orders'[z] = 1
    BY <2>1, InsertOK DEF OrdersOK
  <2>3. CallsOK'
    BY <1>4, <2>1, <2>2, AnsweredOK DEF Checkout
  <2>4. \A t \in Screens : flush[t].ok \subseteq Sales
    BY DEF FlushesOK, FlushType
  <2>5. FlushesOK'
    BY <1>1, <2>2, <2>4 DEF FlushesOK
  <2> QED
    BY <1>2, <2>2, <2>3, <2>5
<1>5. CASE LookUp(h) \/ isSyncRejection(h) \/ CheckoutFails(h)
  <2>1. UNCHANGED orders
    BY <1>5 DEF LookUp, isSyncRejection, CheckoutFails
  <2>2. OrdersOK' /\ FlushesOK'
    BY <1>1, <2>1 DEF OrdersOK, FlushesOK
  <2>3. CASE LookUp(h)
    <3>1. PICK s \in call[h].todo :
            \/ orders[s] > 0 /\ Answered(h, s, "ok")
            \/ call' = [call EXCEPT ![h].at = s]
      BY <2>3 DEF LookUp
    <3>2. s \in Sales
      BY <1>3 DEF CallType
    <3>3. CASE Answered(h, s, "ok") /\ orders[s] > 0
      <4>1. orders[s] = 1
        BY <3>2, <3>3 DEF OrdersOK
      <4> QED
        BY <2>1, <2>2, <3>2, <3>3, <4>1, <1>2, AnsweredOK
    <3>4. CASE call' = [call EXCEPT ![h].at = s]
      <4>1. [call[h] EXCEPT !.at = s] \in CallType /\ [call[h] EXCEPT !.at = s].ok = call[h].ok
        BY <1>3, <3>2 DEF CallType
      <4>2. call' = [call EXCEPT ![h] = [call[h] EXCEPT !.at = s]]
        BY <3>4
      <4>3. CallsOK'
        BY <2>1, <4>1, <4>2 DEF CallsOK
      <4> QED
        BY <1>2, <2>2, <4>3
    <3> QED
      BY <3>1, <3>3, <3>4
  <2>4. CASE isSyncRejection(h) \/ CheckoutFails(h)
    <3>1. call[h].at \in Sales /\ (Answered(h, call[h].at, "no") \/ Answered(h, call[h].at, "err"))
      BY <1>3, <2>4 DEF isSyncRejection, CheckoutFails
    <3>2. CallsOK'
      BY <2>1, <3>1, AnsweredOK
    <3> QED
      BY <1>2, <2>2, <3>2
  <2> QED
    BY <1>5, <2>3, <2>4
<1> QED
  BY <1>4, <1>5 DEF Sync

\* Every step keeps the inductive invariant.
LEMMA StepIInv == IInv /\ [Next]_vars => IInv'
<1> SUFFICES ASSUME IInv, [Next]_vars PROVE IInv'
  OBVIOUS
<1>1. CASE TillDies
  <2>1. NoCall \in CallType /\ NoCall.ok = {}
    BY DEF NoCall, CallType
  <2>2. CallsOK'
    BY <1>1, <2>1 DEF TillDies, CallsOK
  <2> QED
    BY <1>1, <2>2 DEF TillDies, IInv, RingsOK, StoresOK, OrdersOK, FlushesOK, screenVars, storeVars
<1>2. CASE UNCHANGED vars
  BY <1>2 DEF vars, IInv, RingsOK, StoresOK, OrdersOK, CallsOK, FlushesOK, screenVars, storeVars
<1>3. CASE ShopChanges
  BY <1>3 DEF ShopChanges, IInv, RingsOK, StoresOK, OrdersOK, CallsOK, FlushesOK,
              screenVars, storeVars
<1> QED
  BY <1>1, <1>2, <1>3, CounterOK, HeartbeatOK, FlushStepOK, SyncOK DEF Next

\* The invariant the refinement rests on: a sale that a request or a flush calls booked
\* (SyncResult without an error) has its order.
THEOREM AnswersAreTrue == Spec => []IInv
BY InitIInv, StepIInv, PTL DEF Spec

-----------------------------------------------------------------------------
(***************************************************************************)
(* The refinement.                                                         *)
(***************************************************************************)
Abstract == Promised!saleVars

\* The queue starts where the promise starts.
LEMMA InitRefines == Init => Promised!SaleInit
BY DEF Init, Promised!SaleInit

\* What the counter and the stores do to a sale.
LEMMA EnqueueRefines ==
    ASSUME IInv, NEW t \in Screens, enqueue(t)
    PROVE  Promised!SaleNext
<1> DEFINE s == ring[t].sale
<1>1. s \in Sales
  BY DEF enqueue, IInv, RingsOK
<1>2. saved' = saved \cup {s} /\ UNCHANGED <<orders, refused>>
  BY DEF enqueue
<1>3. CASE OnStore(t, idb \cup {s}, ls \cup {s}) /\ UNCHANGED lost
  <2>1. idb' \cup ls' = (idb \cup ls) \cup {s}
    BY <1>3 DEF OnStore
  <2> QED
    BY <1>1, <1>2, <1>3, <2>1 DEF Promised!SaleNext, Promised!Save
<1>4. CASE lost' = lost \cup {s} /\ UNCHANGED <<idb, ls>>
  BY <1>1, <1>2, <1>4 DEF Promised!SaleNext, Promised!Save
<1> QED
  BY <1>3, <1>4 DEF enqueue

\* A sale leaves a store: its order is there, or its refusal was shown.
LEMMA RemoveRefines ==
    ASSUME IInv, NEW t \in Screens, removeFromQueue(t)
    PROVE  Promised!SaleNext \/ UNCHANGED Abstract
<1>1. PICK s \in Settling(t) :
        /\ OnStore(t, idb \ {s}, ls \ {s})
        /\ refused' = IF s \in flush[t].no THEN refused \cup {s} ELSE refused
  BY DEF removeFromQueue
<1>2. UNCHANGED <<orders, saved, lost>>
  BY DEF removeFromQueue
<1>3. s \in Sales /\ (s \notin flush[t].no => orders[s] = 1)
  BY DEF IInv, FlushesOK, FlushType, Settling
<1>4. \/ idb' = idb \ {s} /\ ls' = ls
      \/ idb' = idb /\ ls' = ls \ {s}
  BY <1>1 DEF OnStore
<1>5. idb' \cup ls' \in {idb \cup ls, (idb \cup ls) \ {s}}
  BY <1>4
<1>6. CASE s \in flush[t].no
  BY <1>1, <1>2, <1>3, <1>5, <1>6 DEF Promised!SaleNext, Promised!Refuse
<1>7. CASE s \notin flush[t].no
  <2>1. CASE idb' \cup ls' = idb \cup ls
    BY <1>1, <1>2, <1>7, <2>1 DEF Abstract, Promised!saleVars
  <2>2. CASE idb' \cup ls' = (idb \cup ls) \ {s}
    BY <1>1, <1>2, <1>3, <1>7, <2>2 DEF Promised!SaleNext, Promised!Clear
  <2> QED
    BY <1>5, <2>1, <2>2
<1> QED
  BY <1>6, <1>7

\* The insert of Checkout makes a sale an order, or nothing.
LEMMA CheckoutRefines ==
    ASSUME IInv, NEW h \in Handlers, Checkout(h)
    PROVE  Promised!SaleNext \/ UNCHANGED Abstract
<1>1. /\ call[h].at \in Sales /\ orders' = InsertOrder(call[h].at)
      /\ UNCHANGED <<saved, lost, refused, idb, ls>>
  BY DEF Checkout, IInv, CallsOK, CallType, storeVars, told
<1>2. \/ orders' = orders
      \/ orders[call[h].at] = 0 /\ orders' = [orders EXCEPT ![call[h].at] = 1]
  BY <1>1, InsertOK DEF IInv, OrdersOK
<1>3. CASE orders' = orders
  BY <1>1, <1>3 DEF Abstract, Promised!saleVars
<1>4. CASE orders[call[h].at] = 0 /\ orders' = [orders EXCEPT ![call[h].at] = 1]
  BY <1>1, <1>4 DEF Promised!SaleNext, Promised!Book
<1> QED
  BY <1>2, <1>3, <1>4

\* Every other step leaves the sales as they are.
LEMMA OthersStutter ==
    ASSUME UNCHANGED <<idb, ls, told, orders>>
    PROVE  UNCHANGED Abstract
BY DEF told, Abstract, Promised!saleVars

\* Writing back what a store holds changes no store.
LEMMA StoreKept ==
    ASSUME NEW t \in Screens, OnStore(t, idb, ls)
    PROVE  UNCHANGED <<idb, ls>>
BY DEF OnStore

\* Every step is a step of SaleOnce or leaves its sales alone.
LEMMA StepRefines ==
    ASSUME IInv, [Next]_vars
    PROVE  Promised!SaleNext \/ UNCHANGED Abstract
<1>1. CASE UNCHANGED vars
  BY <1>1, OthersStutter DEF vars, storeVars
<1>2. CASE TillDies \/ ShopChanges
  BY <1>2, OthersStutter DEF TillDies, ShopChanges, storeVars
<1>3. ASSUME NEW h \in Handlers, Sync(h)
      PROVE  Promised!SaleNext \/ UNCHANGED Abstract
  <2>1. CASE LookUp(h) \/ isSyncRejection(h) \/ CheckoutFails(h)
    BY <2>1, OthersStutter DEF LookUp, isSyncRejection, CheckoutFails, storeVars
  <2> QED
    BY <1>3, <2>1, CheckoutRefines DEF Sync
<1>4. ASSUME NEW t \in Screens, checkout(t) \/ Counter(t)
      PROVE  Promised!SaleNext \/ UNCHANGED Abstract
  <2>1. CASE checkout(t) \/ checkoutCut(t) \/ checkoutAnswered(t) \/ enqueueHangs(t)
    BY <2>1, OthersStutter DEF checkout, checkoutCut, checkoutAnswered, enqueueHangs, storeVars
  <2> QED
    BY <1>4, <2>1, EnqueueRefines DEF Counter
<1>5. ASSUME NEW t \in Screens, heartbeatFails(t) \/ heartbeat(t) \/ refreshPending(t) \/ Reload(t)
      PROVE  Promised!SaleNext \/ UNCHANGED Abstract
  <2>1. UNCHANGED <<told, orders>>
    BY <1>5 DEF heartbeatFails, heartbeat, refreshPending, Reload
  <2>2. UNCHANGED <<idb, ls>>
    BY <1>5, StoreKept DEF heartbeatFails, heartbeat, refreshPending, Reload, storeVars
  <2> QED
    BY <2>1, <2>2, OthersStutter
<1>6. ASSUME NEW t \in Screens, FlushStep(t)
      PROVE  Promised!SaleNext \/ UNCHANGED Abstract
  <2>1. CASE flushOnce(t) \/ flushDone(t) \/ flushCut(t) \/ flushAnswered(t)
    BY <2>1, OthersStutter DEF flushOnce, flushDone, flushCut, flushAnswered, storeVars
  <2>2. CASE markQueueAttempt(t)
    <3>1. UNCHANGED <<told, orders>>
      BY <2>2 DEF markQueueAttempt
    <3>2. UNCHANGED <<idb, ls>>
      BY <2>2, StoreKept DEF markQueueAttempt, storeVars
    <3> QED
      BY <3>1, <3>2, OthersStutter
  <2> QED
    BY <1>6, <2>1, <2>2, RemoveRefines DEF FlushStep
<1> QED
  BY <1>1, <1>2, <1>3, <1>4, <1>5, <1>6 DEF Next

\* The queue implements SaleOnce: a sale said to be saved stays in a store until its
\* order exists or its refusal was shown, and becomes one order (queue.ts, heartbeat.ts,
\* the client_uuid guards of Checkout).
THEOREM QueueKeepsPromise == Spec => KeepsPromise
<1>1. IInv /\ [Next]_vars => [Promised!SaleNext]_(Promised!saleVars)
  BY StepRefines DEF Abstract
<1> QED
  BY <1>1, InitRefines, AnswersAreTrue, PTL DEF Spec, KeepsPromise, Promised!SaleSpec

-----------------------------------------------------------------------------
\* A step of SaleOnce keeps its promise.
LEMMA PromiseStep ==
    ASSUME Promised!Promise, [Promised!SaleNext]_(Promised!saleVars)
    PROVE  Promised!Promise'
<1>1. CASE UNCHANGED Promised!saleVars
  BY <1>1 DEF Promised!Promise, Promised!saleVars
<1>2. ASSUME NEW s \in Sales, Promised!Save(s)
      PROVE  Promised!Promise'
  BY <1>2 DEF Promised!Promise, Promised!Save
<1>3. ASSUME NEW s \in Sales, Promised!Book(s)
      PROVE  Promised!Promise'
  BY <1>3 DEF Promised!Promise, Promised!Book
<1>4. ASSUME NEW s \in Sales, Promised!Clear(s)
      PROVE  Promised!Promise'
  BY <1>4 DEF Promised!Promise, Promised!Clear
<1>5. ASSUME NEW s \in Sales, Promised!Refuse(s)
      PROVE  Promised!Promise'
  BY <1>5 DEF Promised!Promise, Promised!Refuse
<1> QED
  BY <1>1, <1>2, <1>3, <1>4, <1>5 DEF Promised!SaleNext

\* "No lost / no duplicated sales" (heartbeat.ts): a sale the cashier was told is saved is
\* in a store, ordered, or refused to the cashier's face, unless the browser had no room
\* for it (lsSave), and no sale has two orders.
THEOREM NothingLostNothingTwice == Spec => []Promised!Promise
<1>1. Promised!SaleInit => Promised!Promise
  BY DEF Promised!SaleInit, Promised!Promise
<1> QED
  BY <1>1, PromiseStep, QueueKeepsPromise, PTL DEF KeepsPromise, Promised!SaleSpec
=============================================================================
