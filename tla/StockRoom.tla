------------------------------ MODULE StockRoom ------------------------------
(***************************************************************************)
(* The back of the shop: purchase orders and stock takes                   *)
(* (internal/services/suppliers.go), count sessions (stocktake.go), the    *)
(* product form, stock adjustments and the CSV import                      *)
(* (internal/handlers/catalog.go, csv.go), beside the sales that go on     *)
(* meanwhile.                                                              *)
(*                                                                         *)
(* Deliveries, sales and adjustments move the shelf by a difference.       *)
(* Takes, count sessions, the form and the import set it to a figure that  *)
(* was written down some time before.  Both kinds are then told to the     *)
(* other tills, after the commit and in statements of their own, so a      *)
(* request goes through several steps and occupies a slot.                 *)
(*                                                                         *)
(* The other till is one that has everything and applies every event as    *)
(* it is emitted; TeamSync is about how events get there.  Only sales paid *)
(* on the spot are here, which an empty shelf refuses; Till has the rest.  *)
(***************************************************************************)
EXTENDS Integers, FiniteSets, Sequences, SequencesExt

CONSTANTS Products,
          Tracked,      \* those with track_stock = 1
          OnHand,       \* units of each product at first, on the shelf and in the books
          FirstCost,    \* products.cost_cents at first
          Deliveries,   \* purchase orders
          Qty(_, _),    \* Qty(d, p): units of p on purchase order d, 0 for no line
          Price(_),     \* Price(d): cost_cents of the lines of d
          Takes,        \* stock takes
          Counts,       \* count sessions
          Sheets,       \* the sets of products a take, a form or an import may be over
          Requests,     \* requests that can be in flight at once
          MaxDocs,      \* bound on documents opened, of all three kinds
          MaxMoves,     \* bound on sales and adjustments
          MaxWrites,    \* bound on sheets opened and figures noted
          MaxCrashes,   \* bound on process deaths
          None

ASSUME StockRoomAssumption ==
    /\ Tracked \subseteq Products /\ IsFiniteSet(Products)
    /\ OnHand \in Nat /\ FirstCost \in Nat
    /\ \A d \in Deliveries : Price(d) \in Nat /\ \A p \in Products : Qty(d, p) \in Nat
    /\ Sheets \subseteq (SUBSET Products) \ {{}}
    /\ MaxDocs \in Nat /\ MaxMoves \in Nat /\ MaxWrites \in Nat /\ MaxCrashes \in Nat
    /\ None \notin Nat

VARIABLES shelf,    \* products.stock_qty
          cost,     \* products.cost_cents
          delivery, \* purchase_orders.status, "none" before the row exists
          take,     \* stock_takes with their items
          count,    \* stock_counts with their lines
          req,      \* request slots
          peer,     \* [stock, cost] of each product on a till that applies what is emitted
          goods,    \* history: what really stands on the shelf
          stale,    \* history: products whose books were set to an outdated figure
          crossed,  \* history: products whose events were lost or met in a harmful order
          moves, writes, crashes

books == <<shelf, cost>>
docs == <<delivery, take, count>>
bounds == <<moves, writes, crashes>>
vars == <<books, docs, req, peer, goods, stale, crossed, bounds>>

AtLeastZero(n) == IF n < 0 THEN 0 ELSE n

\* Figures written over others.
Over(new, old) ==
    [p \in DOMAIN new \cup DOMAIN old |-> IF p \in DOMAIN new THEN new[p] ELSE old[p]]

(***************************************************************************)
(* A take is [status, figure, exact]: figure maps the products on it to    *)
(* counted_qty.  A session is [status, noted, system, tally, variance,     *)
(* exact, late, torn]: noted is counted_qty, None where nothing is noted.  *)
(* exact (history) are the products that have not moved since their figure *)
(* was right; late, that a figure was noted after the session was closed;  *)
(* torn, that a process died between a figure and the tally.               *)
(***************************************************************************)
Nothing == [p \in {} |-> 0]
NoTake == [status |-> "none", figure |-> Nothing, exact |-> {}]
NoCount == [status |-> "none", noted |-> Nothing, system |-> Nothing, tally |-> 0, variance |-> 0,
            exact |-> {}, late |-> FALSE, torn |-> FALSE]

(***************************************************************************)
(* A slot: the step its handler is at, the events it has yet to emit, and  *)
(* the document and the figures it works from.                             *)
(***************************************************************************)
IdleSlot == [step |-> "idle", out |-> <<>>, doc |-> None, figure |-> Nothing,
             price |-> Nothing, exact |-> {}]
Emitting(events) == [IdleSlot EXCEPT !.step = IF events = <<>> THEN "idle" ELSE "emit",
                                     !.out = events]
Idle(q) == req[q] = IdleSlot
Put(q, slot) == req' = [req EXCEPT ![q] = slot]

\* EmitStockDelta, and EmitProduct with and without stockSet.
Delta(p, n) == [kind |-> "delta", item |-> p, qty |-> n]
Absolute(p) == [kind |-> "absolute", item |-> p, qty |-> 0]
Details(p) == [kind |-> "details", item |-> p, qty |-> 0]

InFlight(p, kinds) ==
    {q \in Requests : \E i \in DOMAIN req[q].out :
        req[q].out[i].item = p /\ req[q].out[i].kind \in kinds}

Init ==
    /\ shelf = [p \in Products |-> OnHand]
    /\ cost = [p \in Products |-> FirstCost]
    /\ delivery = [d \in Deliveries |-> "none"]
    /\ take = [t \in Takes |-> NoTake]
    /\ count = [c \in Counts |-> NoCount]
    /\ req = [q \in Requests |-> IdleSlot]
    /\ peer = [p \in Products |-> [stock |-> OnHand, cost |-> FirstCost]]
    /\ goods = [p \in Products |-> OnHand]
    /\ stale = {} /\ crossed = {}
    /\ moves = 0 /\ writes = 0 /\ crashes = 0

\* The bound on documents.
RoomForOne ==
    Cardinality({d \in Deliveries : delivery[d] # "none"})
    + Cardinality({t \in Takes : take[t].status # "none"})
    + Cardinality({c \in Counts : count[c].status # "none"}) < MaxDocs

\* History: goods of S moved, so no figure noted before is exact; slot q becomes slot.
GoodsMoved(S, q, slot) ==
    /\ take' = [t \in Takes |-> [take[t] EXCEPT !.exact = @ \ S]]
    /\ count' = [c \in Counts |-> [count[c] EXCEPT !.exact = @ \ S]]
    /\ req' = [r \in Requests |-> IF r = q THEN slot ELSE [req[r] EXCEPT !.exact = @ \ S]]

\* The shelf of the products of figure is set; the figures of E are exact.
SetShelf(figure, E) ==
    /\ shelf' = Over(figure, shelf)
    /\ stale' = (stale \ (DOMAIN figure \cap E)) \cup (DOMAIN figure \ E)

(***************************************************************************)
(* Sales paid on the spot, and adjustments (a breakage, a find).           *)
(***************************************************************************)
Move(q, p, n) ==
    /\ Idle(q) /\ moves < MaxMoves
    /\ goods[p] + n >= 0
    /\ shelf' = [shelf EXCEPT ![p] = AtLeastZero(@ + n)]
    /\ crossed' = IF shelf[p] + n < 0 THEN crossed \cup {p} ELSE crossed
    /\ goods' = [goods EXCEPT ![p] = @ + n]
    /\ GoodsMoved({p}, q, Emitting(<<Delta(p, n)>>))
    /\ moves' = moves + 1
    /\ UNCHANGED <<cost, delivery, peer, stale, writes, crashes>>

SellOne(q, p) == p \in Tracked /\ shelf[p] >= 1 /\ Move(q, p, -1)

AdjustStock(q, p) == \E n \in {-1, 1} : Move(q, p, n)

(***************************************************************************)
(* Purchase orders.                                                        *)
(***************************************************************************)
CreatePO(d) ==
    /\ delivery[d] = "none" /\ RoomForOne
    /\ delivery' = [delivery EXCEPT ![d] = "PENDING"]
    /\ UNCHANGED <<books, take, count, req, peer, goods, stale, crossed, bounds>>

AvgCostOfReceipt(oldStock, oldCost, recvQty, unitCost) ==  \* mutant: divides by the receipt
    (oldStock * oldCost + recvQty * unitCost + recvQty \div 2) \div recvQty
AvgCost(oldStock, oldCost, recvQty, unitCost) ==
    LET newStock == oldStock + recvQty
    IN IF newStock <= 0 \/ recvQty <= 0 THEN unitCost
       ELSE (oldStock * oldCost + recvQty * unitCost + newStock \div 2) \div newStock

Lines(d) == {p \in Products : Qty(d, p) > 0}
ReceivableAgain(d) ==  \* mutant: the status is not looked at again
    delivery[d] \in {"PENDING", "RECEIVED"}
Receivable(d) == delivery[d] = "PENDING"

\* The events of a delivery: of each line the units, and the product with its cost.
Receipt(d) ==
    LET lines == SetToSeq(Lines(d))
    IN [i \in 1..(2 * Len(lines)) |->
           LET p == lines[(i + 1) \div 2]
           IN IF i % 2 = 1 THEN Delta(p, Qty(d, p)) ELSE Details(p)]

\* Goods come in once, with the order still pending.
ReceivePO(q, d) ==
    /\ Idle(q) /\ Receivable(d)
    /\ delivery' = [delivery EXCEPT ![d] = "RECEIVED"]
    /\ LET moved == Lines(d) \cap Tracked
       IN /\ shelf' = Over([p \in moved |-> shelf[p] + Qty(d, p)], shelf)
          /\ cost' = Over([p \in moved |-> AvgCost(shelf[p], cost[p], Qty(d, p), Price(d))], cost)
    /\ goods' = IF delivery[d] = "PENDING"
                THEN [p \in Products |-> goods[p] + Qty(d, p)] ELSE goods
    /\ GoodsMoved(Lines(d), q, Emitting(Receipt(d)))
    /\ UNCHANGED <<peer, stale, crossed, bounds>>

CancelPO(d) ==
    /\ delivery[d] = "PENDING"
    /\ delivery' = [delivery EXCEPT ![d] = "CANCELLED"]
    /\ UNCHANGED <<books, take, count, req, peer, goods, stale, crossed, bounds>>

(***************************************************************************)
(* Stock takes: a snapshot, figures noted over it, and all of it applied.  *)
(***************************************************************************)
CreateTake(t, S) ==
    /\ take[t].status = "none" /\ RoomForOne
    /\ take' = [take EXCEPT ![t] =
          [status |-> "OPEN", figure |-> [p \in S |-> shelf[p]], exact |-> S \ stale]]
    /\ UNCHANGED <<books, delivery, count, req, peer, goods, stale, crossed, bounds>>

CountTake(t, p) ==
    /\ take[t].status = "OPEN" /\ p \in DOMAIN take[t].figure
    /\ writes < MaxWrites /\ writes' = writes + 1
    /\ take' = [take EXCEPT ![t] =
          [take[t] EXCEPT !.figure[p] = goods[p], !.exact = take[t].exact \cup {p}]]
    /\ UNCHANGED <<books, delivery, count, req, peer, goods, stale, crossed, moves, crashes>>

ApplyTakeQuietly(q, t) ==  \* mutant: the events of the lines carry no stock
    /\ Idle(q) /\ take[t].status = "OPEN"
    /\ SetShelf(take[t].figure, take[t].exact)
    /\ take' = [take EXCEPT ![t].status = "APPLIED"]
    /\ Put(q, Emitting(SetToSeq({Details(p) : p \in DOMAIN take[t].figure})))
    /\ UNCHANGED <<cost, delivery, count, peer, goods, crossed, bounds>>
ApplyTake(q, t) ==
    /\ Idle(q) /\ take[t].status = "OPEN"
    /\ SetShelf(take[t].figure, take[t].exact)
    /\ take' = [take EXCEPT ![t].status = "APPLIED"]
    /\ Put(q, Emitting(SetToSeq({Absolute(p) : p \in DOMAIN take[t].figure})))
    /\ UNCHANGED <<cost, delivery, count, peer, goods, crossed, bounds>>

CancelTake(t) ==
    /\ take[t].status = "OPEN"
    /\ take' = [take EXCEPT ![t].status = "CANCELLED"]
    /\ UNCHANGED <<books, delivery, count, req, peer, goods, stale, crossed, bounds>>

(***************************************************************************)
(* Count sessions.  SaveCountLine looks at the status, writes the line and *)
(* rewrites the tally in three statements.                                 *)
(***************************************************************************)
StartStockCount(c) ==
    /\ count[c].status = "none" /\ RoomForOne
    /\ count' = [count EXCEPT ![c] =
          [NoCount EXCEPT !.status = "OPEN", !.noted = [p \in Tracked |-> None],
                          !.system = [p \in Tracked |-> shelf[p]]]]
    /\ UNCHANGED <<books, delivery, take, req, peer, goods, stale, crossed, bounds>>

\* The cashier notes what is there, or clears the line.
SaveCountRead(q, c, p) ==
    /\ Idle(q) /\ count[c].status = "OPEN" /\ p \in DOMAIN count[c].noted
    /\ writes < MaxWrites /\ writes' = writes + 1
    /\ \E v \in {goods[p], None} :
          Put(q, [IdleSlot EXCEPT !.step = "line", !.doc = c,
                                  !.figure = [x \in {p} |-> v], !.exact = {p}])
    /\ UNCHANGED <<books, docs, peer, goods, stale, crossed, moves, crashes>>

SaveCountWrite(q) ==
    /\ req[q].step = "line"
    /\ LET c == req[q].doc
       IN count' = [count EXCEPT ![c] =
             [count[c] EXCEPT
                 !.noted = Over(req[q].figure, count[c].noted),
                 !.exact = (count[c].exact \ DOMAIN req[q].figure) \cup req[q].exact,
                 !.late = count[c].late \/ count[c].status # "OPEN"]]
    /\ Put(q, [req[q] EXCEPT !.step = "tally", !.figure = Nothing, !.exact = {}])
    /\ UNCHANGED <<books, delivery, take, peer, goods, stale, crossed, bounds>>

NotedOn(c) == {p \in DOMAIN count[c].noted : count[c].noted[p] # None}

SaveCountTally(q) ==
    /\ req[q].step = "tally"
    /\ LET c == req[q].doc
       IN count' = [count EXCEPT ![c] =
             [count[c] EXCEPT !.tally = Cardinality(NotedOn(c)), !.torn = FALSE]]
    /\ Put(q, IdleSlot)
    /\ UNCHANGED <<books, delivery, take, peer, goods, stale, crossed, bounds>>

Off(c, p) == count[c].noted[p] - shelf[p]
Adjusted(c) == {p \in NotedOn(c) : Off(c, p) # 0}
OffFrom(c, figure) == [p \in NotedOn(c) |-> count[c].noted[p] - figure[p]]
VarianceOfSnapshot(c) == SumFunction(OffFrom(c, count[c].system))
    \* mutant: against the snapshot and not against the shelf
Variance(c) == SumFunction(OffFrom(c, shelf))

CompleteStockCount(q, c, apply) ==
    /\ Idle(q) /\ count[c].status = "OPEN"
    /\ count' = [count EXCEPT ![c] =
          [count[c] EXCEPT !.status = "DONE", !.variance = Variance(c),
                           !.system = Over([p \in NotedOn(c) |-> shelf[p]], count[c].system)]]
    /\ IF apply
       THEN /\ SetShelf([p \in Adjusted(c) |-> AtLeastZero(count[c].noted[p])], count[c].exact)
            /\ Put(q, Emitting(SetToSeq({Absolute(p) : p \in Adjusted(c)})))
       ELSE UNCHANGED <<shelf, stale, req>>
    /\ UNCHANGED <<cost, delivery, take, peer, goods, crossed, bounds>>

(***************************************************************************)
(* The product form and the CSV import: what was read some time ago comes  *)
(* back whole.  A form without stockQty and an empty cell mean zero.       *)
(***************************************************************************)
OpenSheet(q, S, filled) ==
    /\ Idle(q) /\ writes < MaxWrites /\ writes' = writes + 1
    /\ Put(q, [IdleSlot EXCEPT !.step = "sheet",
          !.figure = [p \in S |-> IF filled THEN shelf[p] ELSE 0],
          !.price = [p \in S |-> cost[p]],
          !.exact = {p \in S : IF filled THEN p \notin stale ELSE goods[p] = 0}])
    /\ UNCHANGED <<books, docs, peer, goods, stale, crossed, moves, crashes>>

WriteSheet(q) ==
    /\ req[q].step = "sheet"
    /\ SetShelf(req[q].figure, req[q].exact)
    /\ cost' = Over(req[q].price, cost)
    /\ Put(q, Emitting(SetToSeq({Absolute(p) : p \in DOMAIN req[q].figure})))
    /\ UNCHANGED <<docs, peer, goods, crossed, bounds>>

UpdateProduct(q) == Cardinality(DOMAIN req[q].figure) = 1 /\ WriteSheet(q)
ProductsImport(q) == WriteSheet(q)

(***************************************************************************)
(* Events.  EmitProduct reads the row, and puts what it read in the outbox *)
(* in a statement of its own, with everybody at work in between.  The peer *)
(* applies what it gets at once, but for a product event with a stamp      *)
(* older than that of one it has.                                          *)
(***************************************************************************)
EmitProductRead(q) ==
    /\ req[q].step = "emit" /\ Head(req[q].out).kind # "delta"
    /\ LET p == Head(req[q].out).item
       IN Put(q, [req[q] EXCEPT !.step = "send", !.figure = [x \in {p} |-> shelf[p]],
                                                 !.price = [x \in {p} |-> cost[p]]])
    /\ UNCHANGED <<books, docs, peer, goods, stale, crossed, bounds>>

applyStockDelta(e) ==
    /\ peer' = [peer EXCEPT ![e.item].stock = AtLeastZero(@ + e.qty)]
    /\ crossed' = IF peer[e.item].stock + e.qty < 0 THEN crossed \cup {e.item} ELSE crossed

\* What the peer has for the product may be wrong afterwards if what was read is so no
\* longer, or a movement is still under way.  Details that are told again later do no harm.
applyProduct(q, e) ==
    LET p == e.item
        stock == req[q].figure[p]
        price == req[q].price[p]
    IN \/ /\ e.kind = "absolute"
          /\ peer' = [peer EXCEPT ![p] = [stock |-> stock, cost |-> price]]
          /\ crossed' = IF stock = shelf[p] /\ price = cost[p] /\ InFlight(p, {"delta"}) = {}
                        THEN crossed \ {p} ELSE crossed \cup {p}
       \/ /\ e.kind = "details"
          /\ peer' = [peer EXCEPT ![p].cost = price]
          /\ crossed' = IF price = cost[p] \/ InFlight(p, {"absolute", "details"}) \ {q} # {}
                        THEN crossed ELSE crossed \cup {p}

\* Of two events of one product the peer keeps the one with the later stamp.  A request that
\* has read the product may have taken its stamp before the one that queues its event first;
\* what it queues then comes too late.
Overtaken(q, p) == {r \in Requests \ {q} : req[r].step = "send" /\ Head(req[r].out).item = p}

EmitNext(q) ==
    /\ LET e == Head(req[q].out)
           rest == Emitting(Tail(req[q].out))
       IN \/ req[q].step = "emit" /\ e.kind = "delta" /\ applyStockDelta(e) /\ Put(q, rest)
          \/ /\ req[q].step = "send" /\ applyProduct(q, e)
             /\ \E late \in SUBSET Overtaken(q, e.item) :
                   req' = [r \in Requests |-> IF r = q THEN rest
                                              ELSE IF r \in late THEN [req[r] EXCEPT !.step = "late"]
                                              ELSE req[r]]
    /\ UNCHANGED <<books, docs, goods, stale, bounds>>

EmitLate(q) ==
    /\ req[q].step = "late"
    /\ LET p == Head(req[q].out).item
       IN crossed' = IF peer[p] = [stock |-> shelf[p], cost |-> cost[p]] /\ InFlight(p, {"delta"}) = {}
                     THEN crossed ELSE crossed \cup {p}
    /\ Put(q, Emitting(Tail(req[q].out)))
    /\ UNCHANGED <<books, docs, peer, goods, stale, bounds>>

\* The process dies: what was committed stays, what was to be emitted is gone.
Crash ==
    /\ crashes < MaxCrashes /\ crashes' = crashes + 1
    /\ \E q \in Requests : ~Idle(q)
    /\ crossed' = crossed \cup {p \in Products : InFlight(p, {"delta", "absolute", "details"}) # {}}
    /\ count' = [c \in Counts |-> [count[c] EXCEPT
          !.torn = @ \/ \E q \in Requests : req[q].step = "tally" /\ req[q].doc = c]]
    /\ req' = [q \in Requests |-> IdleSlot]
    /\ UNCHANGED <<books, delivery, take, peer, goods, stale, moves, writes>>

(***************************************************************************)
(* The requests, by the handlers that take them.                           *)
(***************************************************************************)
Selling(q) == \E p \in Products : SellOne(q, p) \/ AdjustStock(q, p)

Purchasing(q) == \E d \in Deliveries : CreatePO(d) \/ ReceivePO(q, d) \/ CancelPO(d)

Taking(q) == \E t \in Takes : \/ \E S \in Sheets : CreateTake(t, S)
                              \/ \E p \in Products : CountTake(t, p)
                              \/ ApplyTake(q, t) \/ CancelTake(t)

Counting(q) == \/ \E c \in Counts : \/ StartStockCount(c)
                                    \/ \E p \in Products : SaveCountRead(q, c, p)
                                    \/ \E apply \in BOOLEAN : CompleteStockCount(q, c, apply)
               \/ SaveCountWrite(q) \/ SaveCountTally(q)

Editing(q) == \/ \E S \in Sheets, filled \in BOOLEAN : OpenSheet(q, S, filled)
              \/ UpdateProduct(q) \/ ProductsImport(q)

Next ==
    \/ \E q \in Requests : \/ Selling(q) \/ Purchasing(q) \/ Taking(q) \/ Counting(q)
                           \/ Editing(q)
                           \/ EmitProductRead(q) \/ EmitNext(q) \/ EmitLate(q)
    \/ Crash

Spec == Init /\ [][Next]_vars

(***************************************************************************)
(* Properties.                                                             *)
(***************************************************************************)

\* The books of a tracked product say what stands on the shelf, unless a take, a count, a
\* form or an import wrote an outdated figure (suppliers.go ReceivePO, ApplyTake,
\* stocktake.go CompleteStockCount): deliveries are booked once, and figures that are
\* still right when they are applied lose no sale and no delivery.
BooksMatchGoods == \A p \in Tracked \ stale : shelf[p] = goods[p]

\* When every event is out, a till that applied them all has the same stock and the same
\* cost, unless events were lost in a crash, a figure was sent that the row no longer had
\* (EmitProduct reads it before it stamps and queues it), a figure met a movement under way
\* or came too late, or one of the two shelves was clamped at zero (teamsync_emit.go).
PeerFollows ==
    \A p \in Tracked \ crossed :
        InFlight(p, {"delta", "absolute", "details"}) = {}
            => peer[p] = [stock |-> shelf[p], cost |-> cost[p]]

\* A closed session reports the sum of what its lines were off, and while nobody is saving
\* its progress is the number of lines noted (stocktake.go SaveCountLine,
\* CompleteStockCount), but for a line that slipped in after the close.
CountAddsUp ==
    \A c \in Counts :
        /\ count[c].status = "DONE" /\ ~count[c].late =>
              count[c].variance = SumFunction(OffFrom(c, count[c].system))
        /\ ~count[c].torn /\ (\A q \in Requests : req[q].step # "tally" \/ req[q].doc # c)
              => count[c].tally = Cardinality(NotedOn(c))

Prices == {FirstCost} \cup {Price(d) : d \in Deliveries}

\* The weighted cost stays between the first cost and the prices paid (avgCost), whatever
\* forms and imports bring back, and no shelf goes below zero.
CostBounded ==
    \A p \in Products :
        /\ shelf[p] >= 0
        /\ \E lo \in Prices : lo <= cost[p]
        /\ \E hi \in Prices : cost[p] <= hi
=============================================================================
