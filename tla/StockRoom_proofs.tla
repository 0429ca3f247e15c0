---------------------------- MODULE StockRoom_proofs ----------------------------
(***************************************************************************)
(* What is proved about the stock room, for any number of products,        *)
(* deliveries, takes, counts and requests.                                 *)
(* The books match the goods because a figure that counts as exact is      *)
(* right wherever it is kept: on a take, on a count, in a form that is     *)
(* open and in a line that is being saved.  The weighted cost stays        *)
(* between the prices because a rounded average of two numbers does.       *)
(* The other till follows because what its shelf lacks are the deltas that *)
(* wait.                                                                   *)
(***************************************************************************)
EXTENDS StockRoom, TLAPS, FiniteSetTheorems


\* A weighted cost that is explained by the prices.
Bounded(c) ==
    /\ c \in Nat
    /\ \E lo \in Prices : lo <= c
    /\ \E hi \in Prices : c <= hi

ShelfOK ==
    /\ shelf \in [Products -> Nat] /\ goods \in [Products -> Nat] /\ cost \in [Products -> Nat]
    /\ \A p \in Products : Bounded(cost[p])
    /\ stale \subseteq Products
    /\ delivery \in [Deliveries -> {"none", "PENDING", "RECEIVED", "CANCELLED"}]

\* The figures over some products: on a take, on a count, in a form.
Figure(f, S) == DOMAIN f \subseteq S /\ \A p \in DOMAIN f : f[p] \in Nat

\* What is exact on a take is right.
TakeOK(t) ==
    /\ DOMAIN take[t] = DOMAIN NoTake
    /\ take[t].status \in {"none", "OPEN", "APPLIED", "CANCELLED"}
    /\ Figure(take[t].figure, Products)
    /\ \A p \in take[t].exact \cap DOMAIN take[t].figure \cap Tracked :
           take[t].figure[p] = goods[p]

\* What is exact on a count is right, where something is noted.
CountOK(c) ==
    /\ DOMAIN count[c] = DOMAIN NoCount
    /\ count[c].status \in {"none", "OPEN", "DONE"} /\ count[c].late \in BOOLEAN
    /\ DOMAIN count[c].noted = IF count[c].status = "none" THEN {} ELSE Tracked
    /\ DOMAIN count[c].system = DOMAIN count[c].noted
    /\ \A p \in DOMAIN count[c].noted :
           count[c].noted[p] \in Nat \cup {None} /\ count[c].system[p] \in Nat
    /\ \A p \in count[c].exact \cap NotedOn(c) : count[c].noted[p] = goods[p]

\* A line that is being saved, and a form that is open.
LineOK(slot) ==
    /\ DOMAIN slot.figure \subseteq Tracked /\ slot.exact \subseteq DOMAIN slot.figure
    /\ \A p \in DOMAIN slot.figure :
           /\ slot.figure[p] \in Nat \cup {None}
           /\ p \in slot.exact /\ slot.figure[p] # None => slot.figure[p] = goods[p]
SheetOK(slot) ==
    /\ Figure(slot.figure, Products) /\ DOMAIN slot.price = DOMAIN slot.figure
    /\ \A p \in DOMAIN slot.figure : Bounded(slot.price[p])
    /\ \A p \in slot.exact \cap DOMAIN slot.figure \cap Tracked : slot.figure[p] = goods[p]
SlotOK(slot) ==
    /\ DOMAIN slot = DOMAIN IdleSlot
    /\ slot.step \in {"line", "tally"} => slot.doc \in Counts /\ count[slot.doc].status # "none"
    /\ slot.step = "line" => LineOK(slot)
    /\ slot.step = "sheet" => SheetOK(slot)

TakesOK == DOMAIN take = Takes /\ \A t \in Takes : TakeOK(t)
CountsOK == DOMAIN count = Counts /\ \A c \in Counts : CountOK(c)
SlotsOK == DOMAIN req = Requests /\ \A q \in Requests : SlotOK(req[q])

IInv ==
    /\ ShelfOK /\ TakesOK /\ CountsOK /\ SlotsOK
    /\ BooksMatchGoods /\ CountAddsUp

-----------------------------------------------------------------------------
\* Quotients, by multiplication.
LEMMA Quotient ==
    ASSUME NEW n \in Nat \ {0}, NEW T \in Nat, NEW k \in Nat
    PROVE  /\ T \div n \in Nat
           /\ k * n <= T => k <= T \div n
           /\ T < (k + 1) * n => T \div n <= k
<1>1. T \div n \in Nat
  OBVIOUS
<1>2. PICK q \in Nat, r \in Nat : T = q * n + r /\ r < n /\ q = T \div n
  OBVIOUS
<1>3. ASSUME k * n <= T, q < k PROVE FALSE
  <2>1. (q + 1) * n <= k * n
    BY <1>3
  <2> QED BY <1>2, <1>3, <2>1
<1>4. ASSUME T < (k + 1) * n, k < q PROVE FALSE
  <2>1. (k + 1) * n <= q * n
    BY <1>4
  <2> QED BY <1>2, <1>4, <2>1
<1> QED BY <1>1, <1>2, <1>3, <1>4

\* Products grow with their factors.
LEMMA Times ==
    ASSUME NEW a \in Nat, NEW b \in Nat, NEW c \in Nat, b <= c
    PROVE  a * b <= a * c /\ a * b \in Nat /\ a * c \in Nat
OBVIOUS

\* The weighted average of a receipt (avgCost, suppliers.go) lies between the old cost and
\* the price paid, rounding included.
LEMMA AvgCostBetween ==
    ASSUME NEW o \in Nat, NEW old \in Nat, NEW n \in Nat, NEW unit \in Nat
    PROVE  /\ AvgCost(o, old, n, unit) \in Nat
           /\ AvgCost(o, old, n, unit) <= old \/ AvgCost(o, old, n, unit) <= unit
           /\ old <= AvgCost(o, old, n, unit) \/ unit <= AvgCost(o, old, n, unit)
<1> DEFINE m == o + n
           T == o * old + n * unit + m \div 2
           avg == T \div m
<1>1. CASE m <= 0 \/ n <= 0
  BY <1>1 DEF AvgCost
<1>2. CASE ~(m <= 0 \/ n <= 0)
  <2>1. AvgCost(o, old, n, unit) = avg /\ m \in Nat \ {0}
    BY <1>2 DEF AvgCost
  <2>2. /\ o * old \in Nat /\ n * unit \in Nat /\ m \div 2 \in Nat /\ m \div 2 < m
        /\ T \in Nat
    BY <2>1, Times
  <2>3. ASSUME NEW lo \in Nat, NEW hi \in Nat, lo <= old, lo <= unit, old <= hi, unit <= hi
        PROVE  avg \in Nat /\ lo <= avg /\ avg <= hi
    <3>1. o * lo <= o * old /\ n * lo <= n * unit /\ o * old <= o * hi /\ n * unit <= n * hi
      BY <2>3, Times
    <3>2. lo * m = o * lo + n * lo /\ (hi + 1) * m = o * hi + n * hi + m
      OBVIOUS
    <3>3. lo * m \in Nat /\ (hi + 1) * m \in Nat /\ o * lo \in Nat /\ n * lo \in Nat
          /\ o * hi \in Nat /\ n * hi \in Nat
      BY Times, <2>1
    <3>4. lo * m <= T /\ T < (hi + 1) * m
      <4> DEFINE a == o * lo
                 b == n * lo
                 c == o * old
                 d == n * unit
                 e == o * hi
                 f == n * hi
                 h == m \div 2
      <4>1. a \in Nat /\ b \in Nat /\ c \in Nat /\ d \in Nat /\ e \in Nat /\ f \in Nat
            /\ h \in Nat /\ h < m /\ a <= c /\ b <= d /\ c <= e /\ d <= f /\ m \in Nat
        BY <2>1, <2>2, <3>1, <3>3
      <4> HIDE DEF a, b, c, d, e, f, h, m
      <4>2. a + b <= c + d + h /\ c + d + h < e + f + m
        BY <4>1
      <4> QED BY <3>2, <4>2 DEF a, b, c, d, e, f, h
    <3> HIDE DEF T, m
    <3> QED BY <2>1, <2>2, <3>4, Quotient
  <2>4. CASE old <= unit
    BY <2>1, <2>3, <2>4
  <2>5. CASE unit <= old
    BY <2>1, <2>3, <2>5
  <2> QED BY <2>4, <2>5
<1> QED BY <1>1, <1>2
-----------------------------------------------------------------------------
\* A shop that has just been set up satisfies the inductive invariant.
LEMMA InitIInv == Init => IInv
<1> SUFFICES ASSUME Init PROVE IInv
  OBVIOUS
<1> USE StockRoomAssumption DEF Init
<1>1. ShelfOK
  BY DEF ShelfOK, Bounded, Prices
<1>2. TakesOK
  BY DEF TakesOK, TakeOK, NoTake, Figure, Nothing
<1>3. CountsOK
  BY DEF CountsOK, CountOK, NoCount, NotedOn, Nothing
<1>4. SlotsOK
  BY DEF SlotsOK, SlotOK, IdleSlot
<1>5. BooksMatchGoods
  BY DEF BooksMatchGoods
<1>6. CountAddsUp
  <2> SUFFICES ASSUME NEW c \in Counts PROVE count[c].tally = Cardinality(NotedOn(c))
    BY DEF CountAddsUp, NoCount
  <2>1. NotedOn(c) = {}
    BY DEF NotedOn, NoCount, Nothing
  <2> QED BY <2>1, FS_EmptySet DEF NoCount
<1> QED BY <1>1, <1>2, <1>3, <1>4, <1>5, <1>6 DEF IInv

-----------------------------------------------------------------------------
\* The parts of the invariant, and what they depend on.  A take by itself:
LEMMA TakesStay ==
    ASSUME IInv, UNCHANGED take, UNCHANGED goods
    PROVE  TakesOK'
BY DEF IInv, TakesOK, TakeOK

\* ... the counts, by themselves:
LEMMA CountsStay ==
    ASSUME IInv, UNCHANGED count, UNCHANGED goods
    PROVE  CountsOK'
BY DEF IInv, CountsOK, CountOK, NotedOn

\* ... a request that has its say while counts only advance:
LEMMA SlotsPut ==
    ASSUME IInv, NEW q \in Requests, NEW slot, Put(q, slot) \/ UNCHANGED req, UNCHANGED goods,
           \A c \in Counts : count[c].status # "none" => count'[c].status # "none",
           Put(q, slot) => DOMAIN slot = DOMAIN IdleSlot /\ slot.step \in {"idle", "emit", "send"}
    PROVE  SlotsOK'
<1>1. \A r \in Requests : req'[r] = req[r] \/ (Put(q, slot) /\ req'[r] = slot)
  BY DEF Put, IInv, SlotsOK
<1>2. ASSUME NEW r \in Requests PROVE SlotOK(req[r])'
  <2>1. CASE req'[r] = req[r]
    BY <2>1 DEF IInv, SlotsOK, SlotOK, LineOK, SheetOK, Figure, Bounded
  <2>2. CASE Put(q, slot) /\ req'[r] = slot
    BY <2>2 DEF SlotOK
  <2> QED BY <1>1, <2>1, <2>2
<1> QED BY <1>2 DEF SlotsOK, IInv, Put

\* ... the tallies and variances, while no count is touched but in what is exact:
LEMMA TalliesStay ==
    ASSUME IInv, NEW q \in Requests, req[q].step # "tally",
           \A r \in Requests \ {q} :
               (req'[r].step = "tally" <=> req[r].step = "tally") /\ req'[r].doc = req[r].doc,
           \A c \in Counts : /\ count'[c].status = count[c].status
                             /\ count'[c].noted = count[c].noted
                             /\ count'[c].system = count[c].system
                             /\ count'[c].tally = count[c].tally
                             /\ count'[c].variance = count[c].variance
                             /\ count'[c].late = count[c].late
                             /\ count'[c].torn = count[c].torn
    PROVE  CountAddsUp'
<1> SUFFICES ASSUME NEW c \in Counts
             PROVE  /\ count'[c].status = "DONE" /\ ~count'[c].late =>
                           count'[c].variance = SumFunction(OffFrom(c, count[c].system))'
                    /\ ~count'[c].torn
                       /\ (\A r \in Requests : req'[r].step # "tally" \/ req'[r].doc # c)
                          => count'[c].tally = Cardinality(NotedOn(c))'
  BY DEF CountAddsUp
<1>1. NotedOn(c)' = NotedOn(c)
  BY DEF NotedOn
<1>2. OffFrom(c, count[c].system)' = OffFrom(c, count[c].system)
  BY <1>1 DEF OffFrom
<1> QED BY <1>1, <1>2 DEF IInv, CountAddsUp
\* What an emitting slot looks like.
LEMMA EmittingIs ==
    ASSUME NEW events
    PROVE  DOMAIN Emitting(events) = DOMAIN IdleSlot /\ Emitting(events).step \in {"idle", "emit"}
BY DEF Emitting, IdleSlot

\* Goods that move leave no outdated figure among the exact ones.
LEMMA GoodsMovedOK ==
    ASSUME IInv, NEW S, NEW q \in Requests, NEW events, Idle(q),
           GoodsMoved(S, q, Emitting(events)),
           goods' \in [Products -> Nat], \A p \in Products \ S : goods'[p] = goods[p]
    PROVE  TakesOK' /\ CountsOK' /\ SlotsOK' /\ CountAddsUp'
<1> DEFINE slot == Emitting(events)
<1>0. Tracked \subseteq Products
  BY StockRoomAssumption
<1>1. TakesOK'
  <2>1. DOMAIN take' = Takes /\ \A t \in Takes : take'[t] = [take[t] EXCEPT !.exact = @ \ S]
    BY DEF GoodsMoved
  <2>2. ASSUME NEW t \in Takes PROVE TakeOK(t)'
    <3>1. TakeOK(t)
      BY DEF IInv, TakesOK
    <3>2. /\ DOMAIN take'[t] = DOMAIN NoTake /\ take'[t].status = take[t].status
          /\ take'[t].figure = take[t].figure /\ take'[t].exact = take[t].exact \ S
      BY <2>1, <3>1 DEF TakeOK, NoTake
    <3>3. \A p \in take'[t].exact \cap DOMAIN take'[t].figure \cap Tracked :
              take'[t].figure[p] = goods'[p]
      BY <1>0, <3>1, <3>2 DEF TakeOK
    <3> QED BY <3>1, <3>2, <3>3 DEF TakeOK, Figure
  <2> QED BY <2>1, <2>2 DEF TakesOK
<1>2. \A c \in Counts : /\ DOMAIN count'[c] = DOMAIN NoCount
                        /\ count'[c].exact = count[c].exact \ S
                        /\ count'[c].status = count[c].status
                        /\ count'[c].noted = count[c].noted
                        /\ count'[c].system = count[c].system
                        /\ count'[c].tally = count[c].tally
                        /\ count'[c].variance = count[c].variance
                        /\ count'[c].late = count[c].late
                        /\ count'[c].torn = count[c].torn
  <2> SUFFICES ASSUME NEW c \in Counts
               PROVE  /\ DOMAIN count'[c] = DOMAIN NoCount
                      /\ count'[c].exact = count[c].exact \ S
                      /\ count'[c].status = count[c].status
                      /\ count'[c].noted = count[c].noted
                      /\ count'[c].system = count[c].system
                      /\ count'[c].tally = count[c].tally
                      /\ count'[c].variance = count[c].variance
                      /\ count'[c].late = count[c].late
                      /\ count'[c].torn = count[c].torn
    OBVIOUS
  <2>1. count'[c] = [count[c] EXCEPT !.exact = @ \ S] /\ DOMAIN count[c] = DOMAIN NoCount
    BY DEF GoodsMoved, IInv, CountsOK, CountOK
  <2> QED BY <2>1 DEF NoCount
<1>3. CountsOK'
  <2>1. ASSUME NEW c \in Counts PROVE CountOK(c)'
    <3>1. CountOK(c) /\ NotedOn(c)' = NotedOn(c) /\ NotedOn(c) \subseteq Tracked
      BY <1>2 DEF IInv, CountsOK, CountOK, NotedOn
    <3> QED BY <1>0, <1>2, <3>1 DEF CountOK
  <2>2. DOMAIN count' = Counts
    BY DEF GoodsMoved
  <2> QED BY <2>1, <2>2 DEF CountsOK
<1>4. /\ DOMAIN req' = Requests /\ req'[q] = slot
      /\ \A r \in Requests \ {q} : req'[r] = [req[r] EXCEPT !.exact = @ \ S]
  BY DEF GoodsMoved
<1>5. \A r \in Requests \ {q} : /\ DOMAIN req'[r] = DOMAIN IdleSlot
                                /\ req'[r].exact = req[r].exact \ S
                                /\ req'[r].step = req[r].step /\ req'[r].doc = req[r].doc
                                /\ req'[r].figure = req[r].figure /\ req'[r].price = req[r].price
  BY <1>4 DEF IInv, SlotsOK, SlotOK, IdleSlot
<1>6. SlotsOK'
  <2>1. SlotOK(slot)'
    BY EmittingIs DEF SlotOK
  <2>2. ASSUME NEW r \in Requests \ {q} PROVE SlotOK(req[r])'
    <3>1. SlotOK(req[r])
      BY DEF IInv, SlotsOK
    <3>2. req'[r].step = "line" => LineOK(req[r])'
      BY <1>0, <1>5, <3>1 DEF SlotOK, LineOK
    <3>3. req'[r].step = "sheet" => SheetOK(req[r])'
      BY <1>0, <1>5, <3>1 DEF SlotOK, SheetOK, Figure, Bounded
    <3> QED BY <1>2, <1>5, <3>1, <3>2, <3>3 DEF SlotOK
  <2> HIDE DEF slot
  <2> QED BY <1>4, <2>1, <2>2 DEF SlotsOK
<1>7. CountAddsUp'
  <2>1. req[q].step # "tally"
    BY DEF Idle, IdleSlot
  <2> QED BY <1>2, <1>5, <2>1, TalliesStay
<1> QED BY <1>1, <1>3, <1>6, <1>7
\* Figures laid over the shelf: exact ones are right, the rest are known to be outdated.
LEMMA SetShelfOK ==
    ASSUME IInv, NEW figure, NEW E, SetShelf(figure, E), Figure(figure, Products),
           \A p \in DOMAIN figure \cap E \cap Tracked : figure[p] = goods[p],
           UNCHANGED goods
    PROVE  /\ shelf' \in [Products -> Nat] /\ stale' \subseteq Products
           /\ BooksMatchGoods'
<1>1. /\ shelf' = Over(figure, shelf) /\ shelf \in [Products -> Nat] /\ stale \subseteq Products
      /\ stale' = (stale \ (DOMAIN figure \cap E)) \cup (DOMAIN figure \ E)
      /\ Tracked \subseteq Products
  BY StockRoomAssumption DEF SetShelf, IInv, ShelfOK
<1>2. /\ DOMAIN shelf' = Products
      /\ \A p \in Products : shelf'[p] = IF p \in DOMAIN figure THEN figure[p] ELSE shelf[p]
  BY <1>1 DEF Over, Figure
<1>3. shelf' \in [Products -> Nat]
  <2>1. shelf' = [p \in Products |-> shelf'[p]]
    BY <1>1, <1>2 DEF Over, Figure
  <2>2. \A p \in Products : shelf'[p] \in Nat
    BY <1>1, <1>2 DEF Figure
  <2> QED BY <2>1, <2>2
<1>4. ASSUME NEW p \in Tracked \ stale' PROVE shelf'[p] = goods'[p]
  <2>1. CASE p \in DOMAIN figure
    BY <1>1, <1>2, <1>4, <2>1
  <2>2. CASE p \notin DOMAIN figure
    BY <1>1, <1>2, <1>4, <2>2 DEF IInv, BooksMatchGoods
  <2> QED BY <2>1, <2>2
<1> QED BY <1>1, <1>3, <1>4 DEF BooksMatchGoods, Figure

\* What a step does that leaves the shelf, the prices and the goods alone.
LEMMA ShelfStays ==
    ASSUME IInv, UNCHANGED <<shelf, cost, goods, stale>>,
           delivery' \in [Deliveries -> {"none", "PENDING", "RECEIVED", "CANCELLED"}]
    PROVE  ShelfOK' /\ BooksMatchGoods'
BY DEF IInv, ShelfOK, Bounded, BooksMatchGoods

-----------------------------------------------------------------------------
\* Each step keeps the inductive invariant.  Sales and adjustments:
LEMMA MoveOK == ASSUME IInv, NEW q \in Requests, NEW p \in Products, NEW n \in Int, Move(q, p, n)
                PROVE  IInv'
<1>1. /\ goods[p] + n >= 0 /\ shelf' = [shelf EXCEPT ![p] = AtLeastZero(@ + n)]
      /\ goods' = [goods EXCEPT ![p] = @ + n] /\ UNCHANGED <<cost, delivery, stale>>
      /\ GoodsMoved({p}, q, Emitting(<<Delta(p, n)>>)) /\ Idle(q)
  BY DEF Move
<1>2. /\ shelf \in [Products -> Nat] /\ goods \in [Products -> Nat]
  BY DEF IInv, ShelfOK
<1>3. goods' \in [Products -> Nat] /\ \A x \in Products \ {p} : goods'[x] = goods[x]
  <2>1. goods[p] + n \in Nat
    BY <1>1, <1>2
  <2> QED BY <1>1, <1>2, <2>1
<1>4. shelf' \in [Products -> Nat]
  <2>1. AtLeastZero(shelf[p] + n) \in Nat
    BY <1>2 DEF AtLeastZero
  <2> QED BY <1>1, <1>2, <2>1
<1>5. ShelfOK'
  BY <1>1, <1>3, <1>4 DEF IInv, ShelfOK, Bounded
<1>6. BooksMatchGoods'
  <2> SUFFICES ASSUME NEW x \in Tracked \ stale PROVE shelf'[x] = goods'[x]
    BY <1>1 DEF BooksMatchGoods
  <2>1. shelf[x] = goods[x] /\ x \in Products
    BY StockRoomAssumption DEF IInv, BooksMatchGoods
  <2> QED BY <1>1, <1>2, <2>1 DEF AtLeastZero
<1>7. TakesOK' /\ CountsOK' /\ SlotsOK' /\ CountAddsUp'
  <2>1. \A x \in Products \ {p} : goods'[x] = goods[x]
    BY <1>3
  <2> QED BY <1>1, <1>3, <2>1, GoodsMovedOK
<1> QED BY <1>5, <1>6, <1>7 DEF IInv

\* Goods that come in:
LEMMA ReceiveOK == ASSUME IInv, NEW q \in Requests, NEW d \in Deliveries, ReceivePO(q, d)
                   PROVE  IInv'
<1> DEFINE moved == Lines(d) \cap Tracked
           costs == [p \in moved |-> AvgCost(shelf[p], cost[p], Qty(d, p), Price(d))]
           figure == [p \in moved |-> shelf[p] + Qty(d, p)]
<1>1. /\ Idle(q) /\ delivery[d] = "PENDING" /\ delivery' = [delivery EXCEPT ![d] = "RECEIVED"]
      /\ shelf' = Over(figure, shelf) /\ cost' = Over(costs, cost) /\ UNCHANGED stale
      /\ goods' = [p \in Products |-> goods[p] + Qty(d, p)]
      /\ \E events : GoodsMoved(Lines(d), q, Emitting(events))
  BY DEF ReceivePO, Receivable
<1>2. /\ shelf \in [Products -> Nat] /\ goods \in [Products -> Nat] /\ cost \in [Products -> Nat]
      /\ Price(d) \in Nat /\ \A p \in Products : Qty(d, p) \in Nat
      /\ moved \subseteq Products /\ Tracked \subseteq Products
  BY StockRoomAssumption DEF IInv, ShelfOK, Lines
<1>3. goods' \in [Products -> Nat] /\ \A x \in Products \ Lines(d) : goods'[x] = goods[x]
  BY <1>1, <1>2 DEF Lines
<1>4. /\ shelf' \in [Products -> Nat]
      /\ \A p \in Products : shelf'[p] = IF p \in moved THEN shelf[p] + Qty(d, p) ELSE shelf[p]
  BY <1>1, <1>2 DEF Over
<1>5. /\ cost' \in [Products -> Nat]
      /\ \A p \in Products :
             cost'[p] = IF p \in moved THEN AvgCost(shelf[p], cost[p], Qty(d, p), Price(d))
                        ELSE cost[p]
  <2>1. \A p \in moved : AvgCost(shelf[p], cost[p], Qty(d, p), Price(d)) \in Nat
    BY <1>2, AvgCostBetween
  <2> QED BY <1>1, <1>2, <2>1 DEF Over
<1>6. ASSUME NEW p \in Products PROVE Bounded(cost'[p])
  <2>1. CASE p \notin moved
    BY <1>5, <2>1 DEF IInv, ShelfOK
  <2>2. CASE p \in moved
    <3> DEFINE avg == AvgCost(shelf[p], cost[p], Qty(d, p), Price(d))
    <3>1. /\ avg \in Nat /\ cost'[p] = avg
          /\ avg <= cost[p] \/ avg <= Price(d)
          /\ cost[p] <= avg \/ Price(d) <= avg
      BY <1>2, <1>5, <2>2, AvgCostBetween
    <3>2. PICK lo \in Prices, hi \in Prices : lo <= cost[p] /\ cost[p] <= hi
      BY DEF IInv, ShelfOK, Bounded
    <3>3. lo \in Nat /\ hi \in Nat /\ Price(d) \in Prices /\ cost[p] \in Nat
      BY <1>2, StockRoomAssumption DEF Prices
    <3> HIDE DEF avg
    <3>4. (lo <= avg \/ Price(d) <= avg) /\ (avg <= hi \/ avg <= Price(d))
      BY <1>2, <3>1, <3>2, <3>3
    <3> QED BY <3>1, <3>3, <3>4 DEF Bounded
  <2> QED BY <2>1, <2>2
<1>7. ShelfOK'
  <2>1. \A p \in Products : Bounded(cost[p])'
    BY <1>6 DEF Bounded
  <2> QED BY <1>1, <1>3, <1>4, <1>5, <2>1 DEF IInv, ShelfOK
<1>8. BooksMatchGoods'
  <2> SUFFICES ASSUME NEW x \in Tracked \ stale PROVE shelf'[x] = goods'[x]
    BY <1>1 DEF BooksMatchGoods
  <2>1. shelf[x] = goods[x] /\ x \in Products
    BY <1>2 DEF IInv, BooksMatchGoods
  <2>2. x \notin moved => Qty(d, x) = 0
    BY <1>2, <2>1 DEF Lines
  <2>3. goods'[x] = goods[x] + Qty(d, x)
    BY <1>1, <2>1
  <2>4. shelf'[x] = IF x \in moved THEN shelf[x] + Qty(d, x) ELSE shelf[x]
    BY <1>4, <2>1
  <2> HIDE DEF moved
  <2>5. shelf[x] \in Nat
    BY <1>2, <2>1
  <2> QED BY <2>1, <2>2, <2>3, <2>4, <2>5
<1>9. TakesOK' /\ CountsOK' /\ SlotsOK' /\ CountAddsUp'
  BY <1>1, <1>3, GoodsMovedOK
<1> QED BY <1>7, <1>8, <1>9 DEF IInv
\* A step that lets counts, requests and goods be:
LEMMA QuietOK ==
    ASSUME IInv, UNCHANGED <<count, req, goods>>, ShelfOK', BooksMatchGoods', TakesOK'
    PROVE  IInv'
<1>1. CountsOK'
  BY CountsStay
<1>2. SlotsOK'
  BY DEF IInv, SlotsOK, SlotOK, LineOK, SheetOK, Figure, Bounded
<1>3. CountAddsUp'
  BY DEF IInv, CountAddsUp, NotedOn, OffFrom
<1> QED BY <1>1, <1>2, <1>3 DEF IInv

\* Purchase orders that are opened or cancelled:
LEMMA OrderOK == ASSUME IInv, NEW d \in Deliveries, CreatePO(d) \/ CancelPO(d) PROVE IInv'
<1>1. /\ UNCHANGED <<shelf, cost, take, count, req, goods, stale>>
      /\ delivery' \in [Deliveries -> {"none", "PENDING", "RECEIVED", "CANCELLED"}]
  BY DEF CreatePO, CancelPO, books, IInv, ShelfOK
<1>2. ShelfOK' /\ BooksMatchGoods' /\ TakesOK'
  BY <1>1, ShelfStays, TakesStay
<1> QED BY <1>1, <1>2, QuietOK

\* One take that changes:
LEMMA TakePut ==
    ASSUME IInv, NEW t \in Takes, NEW new, take' = [take EXCEPT ![t] = new], UNCHANGED goods,
           DOMAIN new = DOMAIN NoTake,
           new.status \in {"none", "OPEN", "APPLIED", "CANCELLED"},
           Figure(new.figure, Products),
           \A p \in new.exact \cap DOMAIN new.figure \cap Tracked : new.figure[p] = goods[p]
    PROVE  TakesOK'
<1>1. DOMAIN take' = Takes /\ take'[t] = new /\ \A u \in Takes \ {t} : take'[u] = take[u]
  BY DEF IInv, TakesOK
<1>2. ASSUME NEW u \in Takes PROVE TakeOK(u)'
  <2>1. CASE u = t
    BY <1>1, <2>1 DEF TakeOK, Figure
  <2>2. CASE u # t
    BY <1>1, <2>2 DEF IInv, TakesOK, TakeOK, Figure
  <2> QED BY <2>1, <2>2
<1> QED BY <1>1, <1>2 DEF TakesOK

\* A stock take that is opened, filled in or cancelled:
LEMMA TakeOpenOK ==
    ASSUME IInv, NEW t \in Takes,
           \/ \E S \in Sheets : CreateTake(t, S)
           \/ \E p \in Products : CountTake(t, p)
           \/ CancelTake(t)
    PROVE  IInv'
<1>1. UNCHANGED <<shelf, cost, delivery, count, req, goods, stale>>
  BY DEF CreateTake, CountTake, CancelTake, books
<1>2. /\ shelf \in [Products -> Nat] /\ goods \in [Products -> Nat] /\ TakeOK(t)
      /\ delivery \in [Deliveries -> {"none", "PENDING", "RECEIVED", "CANCELLED"}]
      /\ Tracked \subseteq Products /\ Sheets \subseteq SUBSET Products
      /\ BooksMatchGoods
  BY StockRoomAssumption DEF IInv, ShelfOK, TakesOK
<1>3. ASSUME NEW S \in Sheets, CreateTake(t, S) PROVE TakesOK'
  <2> DEFINE new == [status |-> "OPEN", figure |-> [p \in S |-> shelf[p]], exact |-> S \ stale]
  <2>1. take' = [take EXCEPT ![t] = new]
    BY <1>3 DEF CreateTake
  <2>2. Figure(new.figure, Products)
    BY <1>2 DEF Figure
  <2>3. \A p \in new.exact \cap DOMAIN new.figure \cap Tracked : new.figure[p] = goods[p]
    BY <1>2 DEF BooksMatchGoods
  <2>4. DOMAIN new = DOMAIN NoTake /\ new.status = "OPEN"
    BY DEF NoTake
  <2> HIDE DEF new
  <2> QED BY <1>1, <2>1, <2>2, <2>3, <2>4, TakePut
<1>4. ASSUME NEW p \in Products, CountTake(t, p) PROVE TakesOK'
  <2> DEFINE new == [take[t] EXCEPT !.figure[p] = goods[p], !.exact = take[t].exact \cup {p}]
  <2>1. take' = [take EXCEPT ![t] = new] /\ take[t].status = "OPEN"
        /\ p \in DOMAIN take[t].figure
    BY <1>4 DEF CountTake
  <2>2. /\ DOMAIN new = DOMAIN NoTake /\ new.status = "OPEN"
        /\ new.figure = [take[t].figure EXCEPT ![p] = goods[p]]
        /\ new.exact = take[t].exact \cup {p}
    BY <1>2, <2>1 DEF TakeOK, NoTake
  <2> HIDE DEF new
  <2>3. Figure(new.figure, Products)
    BY <1>2, <2>2 DEF TakeOK, Figure
  <2>4. \A x \in new.exact \cap DOMAIN new.figure \cap Tracked : new.figure[x] = goods[x]
    BY <1>2, <2>1, <2>2 DEF TakeOK
  <2> QED BY <1>1, <2>1, <2>2, <2>3, <2>4, TakePut
<1>5. ASSUME CancelTake(t) PROVE TakesOK'
  <2> DEFINE new == [take[t] EXCEPT !.status = "CANCELLED"]
  <2>1. take' = [take EXCEPT ![t] = new]
    BY <1>5 DEF CancelTake
  <2>2. /\ DOMAIN new = DOMAIN NoTake /\ new.status = "CANCELLED"
        /\ new.figure = take[t].figure /\ new.exact = take[t].exact
    BY <1>2 DEF TakeOK, NoTake
  <2> HIDE DEF new
  <2> QED BY <1>1, <1>2, <2>1, <2>2, TakePut DEF TakeOK
<1>6. ShelfOK' /\ BooksMatchGoods'
  BY <1>1, <1>2, ShelfStays
<1> QED BY <1>1, <1>3, <1>4, <1>5, <1>6, QuietOK

\* A stock take that is applied:
LEMMA ApplyTakeOK == ASSUME IInv, NEW q \in Requests, NEW t \in Takes, ApplyTake(q, t) PROVE IInv'
<1> DEFINE new == [take[t] EXCEPT !.status = "APPLIED"]
<1>1. /\ Idle(q) /\ SetShelf(take[t].figure, take[t].exact) /\ take' = [take EXCEPT ![t] = new]
      /\ \E events : Put(q, Emitting(events)) /\ UNCHANGED <<cost, delivery, count, goods>>
  BY DEF ApplyTake
<1>2. TakeOK(t)
  BY DEF IInv, TakesOK
<1>3. /\ DOMAIN new = DOMAIN NoTake /\ new.status = "APPLIED"
      /\ new.figure = take[t].figure /\ new.exact = take[t].exact
  BY <1>2 DEF TakeOK, NoTake
<1>4. TakesOK'
  <2> HIDE DEF new
  <2> QED BY <1>1, <1>2, <1>3, TakePut DEF TakeOK
<1>5. /\ shelf' \in [Products -> Nat] /\ stale' \subseteq Products
      /\ BooksMatchGoods'
  <2>1. Figure(take[t].figure, Products)
        /\ \A p \in DOMAIN take[t].figure \cap take[t].exact \cap Tracked :
               take[t].figure[p] = goods[p]
    BY <1>2 DEF TakeOK
  <2> QED BY <1>1, <2>1, SetShelfOK
<1>6. ShelfOK'
  BY <1>1, <1>5 DEF IInv, ShelfOK, Bounded
<1>7. PICK events : Put(q, Emitting(events))
  BY <1>1
<1>8. CountsOK' /\ SlotsOK'
  BY <1>1, <1>7, CountsStay, SlotsPut, EmittingIs
<1>9. CountAddsUp'
  <2>1. /\ req[q].step # "tally"
        /\ \A r \in Requests \ {q} : req'[r].step = req[r].step /\ req'[r].doc = req[r].doc
    BY <1>1, <1>7 DEF Idle, IdleSlot, Put, IInv, SlotsOK
  <2> QED BY <1>1, <2>1, TalliesStay
<1> QED BY <1>4, <1>5, <1>6, <1>8, <1>9 DEF IInv
-----------------------------------------------------------------------------
\* One count that changes, while the goods stand still:
LEMMA CountPut ==
    ASSUME IInv, NEW c \in Counts, NEW new, count' = [count EXCEPT ![c] = new], UNCHANGED goods,
           DOMAIN new = DOMAIN NoCount, new.status \in {"OPEN", "DONE"}, new.late \in BOOLEAN,
           DOMAIN new.noted = Tracked, DOMAIN new.system = Tracked,
           \A p \in Tracked : new.noted[p] \in Nat \cup {None} /\ new.system[p] \in Nat,
           \A p \in new.exact \cap Tracked : new.noted[p] # None => new.noted[p] = goods[p]
    PROVE  /\ CountsOK' /\ count'[c] = new /\ \A d \in Counts \ {c} : count'[d] = count[d]
           /\ \A d \in Counts : count[d].status # "none" => count'[d].status # "none"
<1>1. DOMAIN count' = Counts /\ count'[c] = new /\ \A d \in Counts \ {c} : count'[d] = count[d]
  BY DEF IInv, CountsOK
<1>2. ASSUME NEW d \in Counts PROVE CountOK(d)'
  <2>1. CASE d = c
    BY <1>1, <2>1 DEF CountOK, NotedOn
  <2>2. CASE d # c
    BY <1>1, <2>2 DEF IInv, CountsOK, CountOK, NotedOn
  <2> QED BY <2>1, <2>2
<1> QED BY <1>1, <1>2 DEF CountsOK

\* A request that comes to a step of its own:
LEMMA SlotsTurn ==
    ASSUME IInv, NEW q \in Requests, NEW slot, Put(q, slot), SlotOK(slot)', UNCHANGED goods,
           \A c \in Counts : count[c].status # "none" => count'[c].status # "none"
    PROVE  /\ SlotsOK' /\ req'[q] = slot /\ \A r \in Requests \ {q} : req'[r] = req[r]
<1>1. DOMAIN req' = Requests /\ req'[q] = slot /\ \A r \in Requests \ {q} : req'[r] = req[r]
  BY DEF Put, IInv, SlotsOK
<1>2. ASSUME NEW r \in Requests \ {q} PROVE SlotOK(req[r])'
  BY <1>1 DEF IInv, SlotsOK, SlotOK, LineOK, SheetOK, Figure, Bounded
<1> QED BY <1>1, <1>2 DEF SlotsOK

\* The sums of a count that does not change, or whose request is not at its tally:
LEMMA SumsStay ==
    ASSUME IInv, NEW c \in Counts, count'[c] = count[c],
           \A r \in Requests : req[r].step = "tally" /\ req[r].doc = c =>
               req'[r].step = "tally" /\ req'[r].doc = c
    PROVE  /\ count'[c].status = "DONE" /\ ~count'[c].late =>
                  count'[c].variance = SumFunction(OffFrom(c, count[c].system))'
           /\ ~count'[c].torn /\ (\A r \in Requests : req'[r].step # "tally" \/ req'[r].doc # c)
                  => count'[c].tally = Cardinality(NotedOn(c))'
<1>1. NotedOn(c)' = NotedOn(c)
  BY DEF NotedOn
<1>2. OffFrom(c, count[c].system)' = OffFrom(c, count[c].system)
  BY <1>1 DEF OffFrom
<1> QED BY <1>1, <1>2 DEF IInv, CountAddsUp

\* A count session that is opened:
LEMMA StartOK == ASSUME IInv, NEW c \in Counts, StartStockCount(c) PROVE IInv'
<1> DEFINE new == [NoCount EXCEPT !.status = "OPEN", !.noted = [p \in Tracked |-> None],
                                  !.system = [p \in Tracked |-> shelf[p]]]
<1>1. /\ UNCHANGED <<shelf, cost, delivery, take, req, goods, stale>>
      /\ count' = [count EXCEPT ![c] = new] /\ count[c].status = "none"
  BY DEF StartStockCount, books
<1>2. /\ DOMAIN new = DOMAIN NoCount /\ new.status = "OPEN" /\ ~new.late
      /\ new.noted = [p \in Tracked |-> None] /\ new.system = [p \in Tracked |-> shelf[p]]
      /\ new.tally = 0 /\ new.late \in BOOLEAN
  BY DEF NoCount
<1> HIDE DEF new
<1>3. \A p \in Tracked : new.system[p] \in Nat
  BY <1>2, StockRoomAssumption DEF IInv, ShelfOK
<1>4. /\ CountsOK' /\ count'[c] = new /\ \A d \in Counts \ {c} : count'[d] = count[d]
      /\ \A d \in Counts : count[d].status # "none" => count'[d].status # "none"
  BY <1>1, <1>2, <1>3, CountPut
<1>5. SlotsOK'
  BY <1>1, <1>4 DEF IInv, SlotsOK, SlotOK, LineOK, SheetOK, Figure, Bounded
<1>6. CountAddsUp'
  <2>1. NotedOn(c)' = {}
    BY <1>2, <1>4 DEF NotedOn
  <2>2. count'[c].tally = Cardinality(NotedOn(c))'
    BY <1>2, <1>4, <2>1, FS_EmptySet
  <2>3. count'[c].status # "DONE"
    BY <1>2, <1>4
  <2> QED BY <1>1, <1>4, <2>2, <2>3, SumsStay DEF CountAddsUp
<1>7. ShelfOK' /\ BooksMatchGoods' /\ TakesOK'
  BY <1>1, ShelfStays, TakesStay DEF IInv, ShelfOK
<1> QED BY <1>4, <1>5, <1>6, <1>7 DEF IInv

\* A line that is about to be saved:
LEMMA ReadLineOK ==
    ASSUME IInv, NEW q \in Requests, NEW c \in Counts, NEW p \in Products, SaveCountRead(q, c, p)
    PROVE  IInv'
<1>1. /\ UNCHANGED <<shelf, cost, delivery, take, count, goods, stale>> /\ Idle(q)
      /\ count[c].status = "OPEN" /\ p \in DOMAIN count[c].noted
  BY DEF SaveCountRead, books, docs
<1>2. PICK v \in {goods[p], None} :
          Put(q, [IdleSlot EXCEPT !.step = "line", !.doc = c,
                                  !.figure = [x \in {p} |-> v], !.exact = {p}])
  BY DEF SaveCountRead
<1>3. PICK slot : slot = [IdleSlot EXCEPT !.step = "line", !.doc = c,
                                          !.figure = [x \in {p} |-> v], !.exact = {p}]
  OBVIOUS
<1>4. /\ DOMAIN slot = DOMAIN IdleSlot /\ slot.step = "line" /\ slot.doc = c
      /\ slot.figure = [x \in {p} |-> v] /\ slot.exact = {p}
  BY <1>3 DEF IdleSlot
<1>5. p \in Tracked /\ v \in Nat \cup {None}
  BY <1>1, StockRoomAssumption DEF IInv, CountsOK, CountOK, ShelfOK
<1>6. SlotOK(slot)'
  BY <1>1, <1>4, <1>5 DEF SlotOK, LineOK
<1>7. SlotsOK' /\ \A r \in Requests \ {q} : req'[r] = req[r]
  BY <1>1, <1>2, <1>3, <1>6, SlotsTurn
<1>8. CountAddsUp'
  BY <1>1, <1>7, TalliesStay DEF Idle, IdleSlot
<1>9. ShelfOK' /\ BooksMatchGoods' /\ TakesOK' /\ CountsOK'
  BY <1>1, ShelfStays, TakesStay, CountsStay DEF IInv, ShelfOK
<1> QED BY <1>7, <1>8, <1>9 DEF IInv
\* A line that is written:
LEMMA WriteLineOK == ASSUME IInv, NEW q \in Requests, SaveCountWrite(q) PROVE IInv'
<1>1. PICK c : c = req[q].doc
  OBVIOUS
<1>2. PICK line : line = req[q]
  OBVIOUS
<1>3. /\ line.step = "line" /\ c = line.doc /\ c \in Counts /\ count[c].status # "none"
      /\ LineOK(line) /\ DOMAIN line = DOMAIN IdleSlot
      /\ UNCHANGED <<shelf, cost, delivery, take, goods, stale>>
  BY <1>1, <1>2 DEF SaveCountWrite, books, IInv, SlotsOK, SlotOK
<1>4. PICK new : new = [count[c] EXCEPT
                           !.noted = Over(line.figure, count[c].noted),
                           !.exact = (count[c].exact \ DOMAIN line.figure) \cup line.exact,
                           !.late = count[c].late \/ count[c].status # "OPEN"]
  OBVIOUS
<1>5. PICK slot : slot = [line EXCEPT !.step = "tally", !.figure = Nothing, !.exact = {}]
  OBVIOUS
<1>6. count' = [count EXCEPT ![c] = new] /\ Put(q, slot)
  BY <1>1, <1>2, <1>4, <1>5 DEF SaveCountWrite
<1>7. CountOK(c) /\ DOMAIN count[c].noted = Tracked /\ DOMAIN count[c].system = Tracked
  BY <1>3 DEF IInv, CountsOK, CountOK
<1>8. /\ DOMAIN new = DOMAIN NoCount /\ new.status = count[c].status
      /\ new.noted = Over(line.figure, count[c].noted) /\ new.system = count[c].system
      /\ new.exact = (count[c].exact \ DOMAIN line.figure) \cup line.exact
      /\ new.late = (count[c].late \/ count[c].status # "OPEN")
  BY <1>4, <1>7 DEF CountOK, NoCount
<1>9. /\ DOMAIN new.noted = Tracked
      /\ \A p \in Tracked : new.noted[p] = IF p \in DOMAIN line.figure THEN line.figure[p]
                                           ELSE count[c].noted[p]
  BY <1>3, <1>7, <1>8 DEF Over, LineOK
<1>10. /\ \A p \in Tracked : new.noted[p] \in Nat \cup {None} /\ new.system[p] \in Nat
       /\ \A p \in new.exact \cap Tracked : new.noted[p] # None => new.noted[p] = goods[p]
  BY <1>3, <1>7, <1>8, <1>9 DEF LineOK, CountOK, NotedOn
<1>11. /\ CountsOK' /\ count'[c] = new /\ \A d \in Counts \ {c} : count'[d] = count[d]
       /\ \A d \in Counts : count[d].status # "none" => count'[d].status # "none"
  <2>1. new.status \in {"OPEN", "DONE"} /\ new.late \in BOOLEAN
    BY <1>3, <1>7, <1>8 DEF CountOK
  <2>2. DOMAIN new = DOMAIN NoCount /\ DOMAIN new.noted = Tracked /\ DOMAIN new.system = Tracked
    BY <1>7, <1>8, <1>9
  <2>3. c \in Counts /\ UNCHANGED goods /\ count' = [count EXCEPT ![c] = new]
    BY <1>3, <1>6
  <2> QED BY <1>10, <2>1, <2>2, <2>3, CountPut
<1>12. /\ DOMAIN slot = DOMAIN IdleSlot /\ slot.step = "tally" /\ slot.doc = c
  BY <1>3, <1>5 DEF IdleSlot
<1>13. SlotsOK' /\ req'[q] = slot /\ \A r \in Requests \ {q} : req'[r] = req[r]
  <2>1. SlotOK(slot)'
    BY <1>3, <1>11, <1>12 DEF SlotOK
  <2> QED BY <1>3, <1>6, <1>11, <2>1, SlotsTurn
<1>14. CountAddsUp'
  <2>1. count'[c].status = "DONE" => count'[c].late
    BY <1>3, <1>7, <1>8, <1>11 DEF CountOK
  <2>2. req'[q].step = "tally" /\ req'[q].doc = c
    BY <1>12, <1>13
  <2>3. \A d \in Counts \ {c} : \A r \in Requests : req[r].step = "tally" /\ req[r].doc = d =>
            req'[r].step = "tally" /\ req'[r].doc = d
    BY <1>2, <1>3, <1>13
  <2> QED BY <1>11, <2>1, <2>2, <2>3, SumsStay DEF CountAddsUp
<1>15. ShelfOK' /\ BooksMatchGoods' /\ TakesOK'
  BY <1>3, ShelfStays, TakesStay DEF IInv, ShelfOK
<1> QED BY <1>11, <1>13, <1>14, <1>15 DEF IInv

\* The progress of a count:
LEMMA TallyOK == ASSUME IInv, NEW q \in Requests, SaveCountTally(q) PROVE IInv'
<1>1. PICK c : c = req[q].doc
  OBVIOUS
<1>2. /\ req[q].step = "tally" /\ c \in Counts /\ count[c].status # "none"
      /\ UNCHANGED <<shelf, cost, delivery, take, goods, stale>> /\ Put(q, IdleSlot)
  BY <1>1 DEF SaveCountTally, books, IInv, SlotsOK, SlotOK
<1>3. PICK new : new = [count[c] EXCEPT !.tally = Cardinality(NotedOn(c)), !.torn = FALSE]
  OBVIOUS
<1>4. count' = [count EXCEPT ![c] = new]
  BY <1>1, <1>3 DEF SaveCountTally
<1>5. CountOK(c) /\ DOMAIN count[c].noted = Tracked /\ DOMAIN count[c].system = Tracked
  BY <1>2 DEF IInv, CountsOK, CountOK
<1>6. /\ DOMAIN new = DOMAIN NoCount /\ new.status = count[c].status
      /\ new.noted = count[c].noted /\ new.system = count[c].system
      /\ new.exact = count[c].exact /\ new.late = count[c].late
      /\ new.variance = count[c].variance
      /\ new.tally = Cardinality(NotedOn(c)) /\ new.torn = FALSE
  BY <1>3, <1>5 DEF CountOK, NoCount
<1>7. /\ \A p \in Tracked : new.noted[p] \in Nat \cup {None} /\ new.system[p] \in Nat
      /\ \A p \in new.exact \cap Tracked : new.noted[p] # None => new.noted[p] = goods[p]
      /\ new.status \in {"OPEN", "DONE"} /\ new.late \in BOOLEAN
  BY <1>2, <1>5, <1>6 DEF CountOK, NotedOn
<1>8. /\ CountsOK' /\ count'[c] = new /\ \A d \in Counts \ {c} : count'[d] = count[d]
      /\ \A d \in Counts : count[d].status # "none" => count'[d].status # "none"
  BY <1>2, <1>4, <1>5, <1>6, <1>7, CountPut
<1>9. SlotsOK' /\ req'[q] = IdleSlot /\ \A r \in Requests \ {q} : req'[r] = req[r]
  <2>1. SlotOK(IdleSlot)'
    BY DEF SlotOK, IdleSlot
  <2>2. PICK slot : slot = IdleSlot
    OBVIOUS
  <2> QED BY <1>2, <1>8, <2>1, <2>2, SlotsTurn
<1>10. CountAddsUp'
  <2>1. NotedOn(c)' = NotedOn(c)
    BY <1>6, <1>8 DEF NotedOn
  <2>2. OffFrom(c, count[c].system)' = OffFrom(c, count[c].system)
    BY <1>6, <1>8, <2>1 DEF OffFrom
  <2>3. count'[c].tally = Cardinality(NotedOn(c))'
    BY <1>6, <1>8, <2>1
  <2>4. count'[c].status = "DONE" /\ ~count'[c].late =>
            count'[c].variance = SumFunction(OffFrom(c, count[c].system))'
    BY <1>2, <1>6, <1>8, <2>2 DEF IInv, CountAddsUp
  <2>5. \A d \in Counts \ {c} : \A r \in Requests : req[r].step = "tally" /\ req[r].doc = d =>
            req'[r].step = "tally" /\ req'[r].doc = d
    BY <1>1, <1>9
  <2> QED BY <1>8, <2>3, <2>4, <2>5, SumsStay DEF CountAddsUp
<1>11. ShelfOK' /\ BooksMatchGoods' /\ TakesOK'
  BY <1>2, ShelfStays, TakesStay DEF IInv, ShelfOK
<1> QED BY <1>8, <1>9, <1>10, <1>11 DEF IInv

\* A count that is closed:
LEMMA CompleteOK ==
    ASSUME IInv, NEW q \in Requests, NEW c \in Counts, NEW apply \in BOOLEAN,
           CompleteStockCount(q, c, apply)
    PROVE  IInv'
<1> DEFINE figure == [p \in Adjusted(c) |-> AtLeastZero(count[c].noted[p])]
<1>1. /\ Idle(q) /\ count[c].status = "OPEN" /\ UNCHANGED <<cost, delivery, take, goods>>
      /\ \/ SetShelf(figure, count[c].exact) /\ \E events : Put(q, Emitting(events))
         \/ UNCHANGED <<shelf, stale, req>>
  BY DEF CompleteStockCount
<1>2. PICK new : new = [count[c] EXCEPT
            !.status = "DONE", !.variance = Variance(c),
            !.system = Over([p \in NotedOn(c) |-> shelf[p]], count[c].system)]
  OBVIOUS
<1>3. count' = [count EXCEPT ![c] = new]
  BY <1>2 DEF CompleteStockCount
<1>4. /\ CountOK(c) /\ DOMAIN count[c].noted = Tracked /\ DOMAIN count[c].system = Tracked
      /\ NotedOn(c) \subseteq Tracked /\ Tracked \subseteq Products
      /\ shelf \in [Products -> Nat] /\ goods \in [Products -> Nat]
  BY <1>1, StockRoomAssumption DEF IInv, CountsOK, CountOK, NotedOn, ShelfOK
<1>5. /\ DOMAIN new = DOMAIN NoCount /\ new.status = "DONE"
      /\ new.noted = count[c].noted /\ new.exact = count[c].exact /\ new.late = count[c].late
      /\ new.variance = Variance(c) /\ new.tally = count[c].tally /\ new.torn = count[c].torn
      /\ new.system = Over([p \in NotedOn(c) |-> shelf[p]], count[c].system)
  BY <1>2, <1>4 DEF CountOK, NoCount
<1>6. /\ DOMAIN new.system = Tracked
      /\ \A p \in Tracked : new.system[p] = IF p \in NotedOn(c) THEN shelf[p]
                                            ELSE count[c].system[p]
  BY <1>4, <1>5 DEF Over
<1>7. /\ CountsOK' /\ count'[c] = new /\ \A d \in Counts \ {c} : count'[d] = count[d]
      /\ \A d \in Counts : count[d].status # "none" => count'[d].status # "none"
  <2>1. /\ \A p \in Tracked : new.noted[p] \in Nat \cup {None} /\ new.system[p] \in Nat
        /\ \A p \in new.exact \cap Tracked : new.noted[p] # None => new.noted[p] = goods[p]
        /\ new.status \in {"OPEN", "DONE"} /\ new.late \in BOOLEAN
    BY <1>4, <1>5, <1>6 DEF CountOK, NotedOn
  <2> QED BY <1>1, <1>3, <1>4, <1>5, <1>6, <2>1, CountPut
<1>8. /\ shelf' \in [Products -> Nat] /\ stale' \subseteq Products /\ BooksMatchGoods'
  <2>1. CASE SetShelf(figure, count[c].exact)
    <3>1. ASSUME NEW p \in Adjusted(c)
          PROVE  /\ p \in Tracked /\ figure[p] \in Nat
                 /\ p \in count[c].exact => figure[p] = goods[p]
      <4>1. p \in NotedOn(c) /\ count[c].noted[p] \in Nat
        BY <1>4 DEF Adjusted, CountOK, NotedOn
      <4> QED BY <1>4, <4>1 DEF AtLeastZero, CountOK
    <3>2. /\ Figure(figure, Products)
          /\ \A p \in DOMAIN figure \cap count[c].exact \cap Tracked : figure[p] = goods[p]
      BY <1>4, <3>1 DEF Figure
    <3> HIDE DEF figure
    <3> QED BY <1>1, <2>1, <3>2, SetShelfOK
  <2>2. CASE UNCHANGED <<shelf, stale, req>>
    BY <1>1, <2>2 DEF IInv, ShelfOK, BooksMatchGoods
  <2> QED BY <1>1, <2>1, <2>2
<1>9. ShelfOK'
  BY <1>1, <1>8 DEF IInv, ShelfOK, Bounded
<1>10. (\E events : Put(q, Emitting(events))) \/ UNCHANGED req
  BY <1>1
<1>11. /\ SlotsOK'
       /\ \A r \in Requests : req[r].step = "tally" => req'[r] = req[r]
  <2>1. SlotsOK'
    BY <1>1, <1>7, <1>10, EmittingIs, SlotsPut
  <2>2. req[q].step # "tally"
    BY <1>1 DEF Idle, IdleSlot
  <2>3. \A r \in Requests \ {q} : req'[r] = req[r]
    BY <1>10 DEF Put, IInv, SlotsOK
  <2> QED BY <2>1, <2>2, <2>3
<1>12. CountAddsUp'
  <2>1. NotedOn(c)' = NotedOn(c)
    BY <1>5, <1>7 DEF NotedOn
  <2>2. OffFrom(c, count[c].system)' = OffFrom(c, shelf)
    BY <1>4, <1>5, <1>6, <1>7, <2>1 DEF OffFrom
  <2>3. count'[c].variance = SumFunction(OffFrom(c, count[c].system))'
    BY <1>5, <1>7, <2>2 DEF Variance
  <2>4. ~count'[c].torn /\ (\A r \in Requests : req'[r].step # "tally" \/ req'[r].doc # c)
            => count'[c].tally = Cardinality(NotedOn(c))'
    BY <1>5, <1>7, <1>11, <2>1 DEF IInv, CountAddsUp
  <2> QED BY <1>7, <1>11, <2>3, <2>4, SumsStay DEF CountAddsUp
<1>13. TakesOK'
  BY <1>1, TakesStay
<1> QED BY <1>7, <1>8, <1>9, <1>11, <1>12, <1>13 DEF IInv
-----------------------------------------------------------------------------
\* A form, an import file, that is filled in:
LEMMA OpenSheetOK ==
    ASSUME IInv, NEW q \in Requests, NEW S \in Sheets, NEW filled \in BOOLEAN,
           OpenSheet(q, S, filled)
    PROVE  IInv'
<1>1. PICK slot : slot = [IdleSlot EXCEPT !.step = "sheet",
          !.figure = [p \in S |-> IF filled THEN shelf[p] ELSE 0],
          !.price = [p \in S |-> cost[p]],
          !.exact = {p \in S : IF filled THEN p \notin stale ELSE goods[p] = 0}]
  OBVIOUS
<1>2. /\ UNCHANGED <<shelf, cost, delivery, take, count, goods, stale>> /\ Idle(q)
      /\ Put(q, slot)
  BY <1>1 DEF OpenSheet, books, docs
<1>3. /\ DOMAIN slot = DOMAIN IdleSlot /\ slot.step = "sheet"
      /\ slot.figure = [p \in S |-> IF filled THEN shelf[p] ELSE 0]
      /\ slot.price = [p \in S |-> cost[p]]
      /\ slot.exact = {p \in S : IF filled THEN p \notin stale ELSE goods[p] = 0}
  BY <1>1 DEF IdleSlot
<1>4. /\ S \subseteq Products /\ shelf \in [Products -> Nat] /\ goods \in [Products -> Nat]
      /\ \A p \in Products : Bounded(cost[p])
      /\ \A p \in Tracked \ stale : shelf[p] = goods[p]
  BY StockRoomAssumption DEF IInv, ShelfOK, BooksMatchGoods
<1>5. SheetOK(slot)
  <2>1. Figure(slot.figure, Products)
    BY <1>3, <1>4 DEF Figure
  <2>2. /\ DOMAIN slot.price = DOMAIN slot.figure
        /\ \A p \in DOMAIN slot.figure : Bounded(slot.price[p])
    BY <1>3, <1>4
  <2>3. \A p \in slot.exact \cap DOMAIN slot.figure \cap Tracked : slot.figure[p] = goods[p]
    BY <1>3, <1>4
  <2> QED BY <2>1, <2>2, <2>3 DEF SheetOK
<1>6. SlotOK(slot)'
  BY <1>2, <1>3, <1>5 DEF SlotOK, SheetOK, Figure, Bounded
<1>7. SlotsOK' /\ \A r \in Requests \ {q} : req'[r] = req[r]
  BY <1>2, <1>6, SlotsTurn
<1>8. CountAddsUp'
  BY <1>2, <1>7, TalliesStay DEF Idle, IdleSlot
<1>9. ShelfOK' /\ BooksMatchGoods' /\ TakesOK' /\ CountsOK'
  BY <1>2, ShelfStays, TakesStay, CountsStay DEF IInv, ShelfOK
<1> QED BY <1>7, <1>8, <1>9 DEF IInv

\* A form that is sent in, a file that is imported:
LEMMA WriteSheetOK == ASSUME IInv, NEW q \in Requests, WriteSheet(q) PROVE IInv'
<1>1. PICK sheet : sheet = req[q]
  OBVIOUS
<1>2. /\ sheet.step = "sheet" /\ SheetOK(sheet) /\ SetShelf(sheet.figure, sheet.exact)
      /\ cost' = Over(sheet.price, cost)
      /\ \E events : Put(q, Emitting(events)) /\ UNCHANGED <<delivery, take, count, goods>>
  BY <1>1 DEF WriteSheet, docs, IInv, SlotsOK, SlotOK
<1>3. /\ shelf' \in [Products -> Nat] /\ stale' \subseteq Products /\ BooksMatchGoods'
  BY <1>2, SetShelfOK DEF SheetOK
<1>4. cost' \in [Products -> Nat] /\ \A p \in Products : Bounded(cost'[p])
  <2>1. /\ DOMAIN sheet.price \subseteq Products /\ DOMAIN cost = Products
        /\ \A p \in DOMAIN sheet.price : Bounded(sheet.price[p])
        /\ \A p \in Products : Bounded(cost[p])
    BY <1>2 DEF SheetOK, Figure, IInv, ShelfOK
  <2>2. cost' = [p \in Products |-> IF p \in DOMAIN sheet.price THEN sheet.price[p] ELSE cost[p]]
    BY <1>2, <2>1 DEF Over
  <2>3. \A p \in Products : Bounded(cost'[p])
    BY <2>1, <2>2
  <2> QED BY <2>2, <2>3 DEF Bounded
<1>5. ShelfOK'
  <2>1. \A p \in Products : Bounded(cost[p])'
    BY <1>4 DEF Bounded
  <2> QED BY <1>2, <1>3, <1>4, <2>1 DEF IInv, ShelfOK
<1>6. PICK events : Put(q, Emitting(events))
  BY <1>2
<1>7. TakesOK' /\ CountsOK' /\ SlotsOK'
  BY <1>2, <1>6, TakesStay, CountsStay, SlotsPut, EmittingIs
<1>8. CountAddsUp'
  <2>1. /\ req[q].step # "tally"
        /\ \A r \in Requests \ {q} : req'[r].step = req[r].step /\ req'[r].doc = req[r].doc
    BY <1>1, <1>2, <1>6 DEF Put, IInv, SlotsOK
  <2> QED BY <1>2, <2>1, TalliesStay
<1> QED BY <1>3, <1>5, <1>7, <1>8 DEF IInv

\* A request keeps its slot, or its event comes too late.
Same(r) ==
    \/ req'[r] = req[r]
    \/ req[r].step = "send" /\ req'[r] = [req[r] EXCEPT !.step = "late"]

\* A product that is read, to be told of:
LEMMA ReadOK == ASSUME IInv, NEW q \in Requests, EmitProductRead(q) PROVE IInv'
<1>1. /\ UNCHANGED <<shelf, cost, delivery, take, count, goods, stale>>
      /\ req[q].step = "emit"
  BY DEF EmitProductRead, books, docs
<1>2. PICK slot, x : /\ x = Head(req[q].out).item
                     /\ slot = [req[q] EXCEPT !.step = "send", !.figure = [y \in {x} |-> shelf[x]],
                                                              !.price = [y \in {x} |-> cost[x]]]
  OBVIOUS
<1>3. Put(q, slot)
  BY <1>2 DEF EmitProductRead
<1>4. DOMAIN slot = DOMAIN IdleSlot /\ slot.step = "send"
  BY <1>2 DEF IInv, SlotsOK, SlotOK, IdleSlot
<1>6. ShelfOK' /\ BooksMatchGoods' /\ TakesOK' /\ CountsOK' /\ SlotsOK'
  BY <1>1, <1>3, <1>4, ShelfStays, TakesStay, CountsStay, SlotsPut DEF IInv, ShelfOK
<1>7. CountAddsUp'
  <2>1. \A r \in Requests \ {q} : req'[r].step = req[r].step /\ req'[r].doc = req[r].doc
    BY <1>3 DEF Put, IInv, SlotsOK
  <2> QED BY <1>1, <2>1, TalliesStay
<1> QED BY <1>6, <1>7 DEF IInv

\* An event that goes out, or that comes too late:
LEMMA EmitOK == ASSUME IInv, NEW q \in Requests, EmitNext(q) \/ EmitLate(q) PROVE IInv'
<1>1. /\ UNCHANGED <<shelf, cost, delivery, take, count, goods, stale>>
      /\ req[q].step \in {"emit", "send", "late"}
  BY DEF EmitNext, EmitLate, books, docs
<1>2. /\ DOMAIN req' = Requests /\ \E events : req'[q] = Emitting(events)
      /\ \A r \in Requests \ {q} : Same(r)
  BY DEF EmitNext, EmitLate, Put, Overtaken, Same, IInv, SlotsOK
<1>3. ShelfOK' /\ BooksMatchGoods' /\ TakesOK' /\ CountsOK'
  BY <1>1, ShelfStays, TakesStay, CountsStay DEF IInv, ShelfOK
<1>4. \A r \in Requests \ {q} : /\ req'[r].step = "tally" <=> req[r].step = "tally"
                                /\ req'[r].doc = req[r].doc
  BY <1>2 DEF Same, IInv, SlotsOK, SlotOK, IdleSlot
<1>5. CountAddsUp'
  BY <1>1, <1>4, TalliesStay
<1>6. ASSUME NEW r \in Requests PROVE SlotOK(req[r])'
  <2>1. CASE r = q
    BY <1>2, <2>1, EmittingIs DEF SlotOK
  <2>2. CASE r # q /\ req'[r] = req[r]
    BY <1>1, <2>2 DEF IInv, SlotsOK, SlotOK, LineOK, SheetOK, Figure, Bounded
  <2>3. CASE r # q /\ req'[r] = [req[r] EXCEPT !.step = "late"]
    BY <2>3 DEF IInv, SlotsOK, SlotOK, IdleSlot
  <2> QED BY <1>2, <2>1, <2>2, <2>3 DEF Same
<1> QED BY <1>2, <1>3, <1>5, <1>6 DEF IInv, SlotsOK

\* A process that dies: a count whose tally was about to be written is torn.
LEMMA CrashOK == ASSUME IInv, Crash PROVE IInv'
<1>1. /\ UNCHANGED <<shelf, cost, delivery, take, goods, stale>>
      /\ req' = [q \in Requests |-> IdleSlot]
      /\ count' = [c \in Counts |-> [count[c] EXCEPT
            !.torn = @ \/ \E q \in Requests : req[q].step = "tally" /\ req[q].doc = c]]
  BY DEF Crash, books
<1>2. ASSUME NEW c \in Counts
      PROVE  /\ DOMAIN count'[c] = DOMAIN NoCount
             /\ count'[c].status = count[c].status /\ count'[c].noted = count[c].noted
             /\ count'[c].system = count[c].system /\ count'[c].tally = count[c].tally
             /\ count'[c].variance = count[c].variance /\ count'[c].late = count[c].late
             /\ count'[c].exact = count[c].exact
             /\ count'[c].torn =
                   (count[c].torn \/ \E q \in Requests : req[q].step = "tally" /\ req[q].doc = c)
  <2>1. /\ DOMAIN count[c] = DOMAIN NoCount
        /\ count'[c] = [count[c] EXCEPT
               !.torn = @ \/ \E q \in Requests : req[q].step = "tally" /\ req[q].doc = c]
    BY <1>1 DEF IInv, CountsOK, CountOK
  <2> QED BY <2>1 DEF NoCount
<1>3. CountsOK'
  <2>1. DOMAIN count' = Counts
    BY <1>1
  <2>2. ASSUME NEW c \in Counts PROVE CountOK(c)'
    <3>1. CountOK(c) /\ NotedOn(c)' = NotedOn(c)
      BY <1>2 DEF IInv, CountsOK, NotedOn
    <3>2. count'[c].late \in BOOLEAN
      BY <1>2, <3>1 DEF CountOK
    <3> QED BY <1>1, <1>2, <3>1, <3>2 DEF CountOK
  <2> QED BY <2>1, <2>2 DEF CountsOK
<1>4. SlotsOK'
  BY <1>1 DEF SlotsOK, SlotOK, IdleSlot
<1>5. CountAddsUp'
  <2> SUFFICES ASSUME NEW c \in Counts
               PROVE  /\ count'[c].status = "DONE" /\ ~count'[c].late =>
                             count'[c].variance = SumFunction(OffFrom(c, count[c].system))'
                      /\ ~count'[c].torn => count'[c].tally = Cardinality(NotedOn(c))'
    BY DEF CountAddsUp
  <2>1. NotedOn(c)' = NotedOn(c)
    BY <1>2 DEF NotedOn
  <2>2. OffFrom(c, count[c].system)' = OffFrom(c, count[c].system)
    BY <1>2, <2>1 DEF OffFrom
  <2>3. count'[c].status = "DONE" /\ ~count'[c].late =>
            count'[c].variance = SumFunction(OffFrom(c, count[c].system))'
    BY <1>2, <2>2 DEF IInv, CountAddsUp
  <2>4. ~count'[c].torn => /\ ~count[c].torn
                           /\ \A q \in Requests : req[q].step # "tally" \/ req[q].doc # c
    BY <1>2
  <2>5. ~count'[c].torn => count'[c].tally = Cardinality(NotedOn(c))'
    BY <1>2, <2>1, <2>4 DEF IInv, CountAddsUp
  <2> QED BY <2>3, <2>5
<1>6. ShelfOK' /\ BooksMatchGoods' /\ TakesOK'
  BY <1>1, ShelfStays, TakesStay DEF IInv, ShelfOK
<1> QED BY <1>3, <1>4, <1>5, <1>6 DEF IInv

-----------------------------------------------------------------------------
\* Every step of the stock room keeps the inductive invariant.
LEMMA StepIInv == IInv /\ [Next]_vars => IInv'
<1> SUFFICES ASSUME IInv, [Next]_vars PROVE IInv'
  OBVIOUS
<1>1. ASSUME NEW q \in Requests, Selling(q) PROVE IInv'
  BY <1>1, MoveOK DEF Selling, SellOne, AdjustStock
<1>2. ASSUME NEW q \in Requests, Purchasing(q) PROVE IInv'
  BY <1>2, ReceiveOK, OrderOK DEF Purchasing
<1>3. ASSUME NEW q \in Requests, Taking(q) PROVE IInv'
  BY <1>3, TakeOpenOK, ApplyTakeOK DEF Taking
<1>4. ASSUME NEW q \in Requests, Counting(q) PROVE IInv'
  BY <1>4, StartOK, ReadLineOK, CompleteOK, WriteLineOK, TallyOK DEF Counting
<1>5. ASSUME NEW q \in Requests, Editing(q) PROVE IInv'
  BY <1>5, OpenSheetOK, WriteSheetOK DEF Editing, UpdateProduct, ProductsImport
<1>6. CASE UNCHANGED vars
  <2>1. UNCHANGED <<shelf, cost, delivery, take, count, req, goods, stale>>
    BY <1>6 DEF vars, books, docs
  <2>2. ShelfOK' /\ BooksMatchGoods' /\ TakesOK'
    BY <2>1, ShelfStays, TakesStay DEF IInv, ShelfOK
  <2> QED BY <2>1, <2>2, QuietOK
<1> QED BY <1>1, <1>2, <1>3, <1>4, <1>5, <1>6, ReadOK, EmitOK, CrashOK DEF Next

\* The inductive invariant of the stock room holds at all times.
THEOREM StockInvariant == Spec => []IInv
<1> QED BY InitIInv, StepIInv, PTL DEF Spec

\* The books of a tracked product say what stands on the shelf, unless an outdated figure
\* was written over them: deliveries are booked once, and takes, counts, forms and imports
\* whose figures are still right lose no sale and no delivery (suppliers.go ReceivePO,
\* ApplyTake, stocktake.go CompleteStockCount).
THEOREM BooksMatch == Spec => []BooksMatchGoods
<1>1. IInv => BooksMatchGoods
  BY DEF IInv
<1> QED BY <1>1, StockInvariant, PTL

\* A closed session reports the sum of what its lines were off, and its progress is the
\* number of lines noted, whatever requests save meanwhile (stocktake.go SaveCountLine,
\* CompleteStockCount).
THEOREM CountsAddUp == Spec => []CountAddsUp
<1>1. IInv => CountAddsUp
  BY DEF IInv
<1> QED BY <1>1, StockInvariant, PTL

\* However many deliveries, forms and imports there are, a weighted cost is explained by
\* the first cost and the prices paid, rounding included (suppliers.go avgCost), and no
\* shelf goes below zero.
THEOREM CostStaysBounded == Spec => []CostBounded
<1>1. IInv => CostBounded
  BY DEF IInv, ShelfOK, Bounded, CostBounded
<1> QED BY <1>1, StockInvariant, PTL
-----------------------------------------------------------------------------
(***************************************************************************)
(* The other till.  The units of deltas that wait in the slots, those to   *)
(* be added and those to be taken off, are counted one by one: an event    *)
(* comes and goes as a block of units, and no sum has to be unfolded.      *)
(***************************************************************************)
IsDelta(e, p) == e.kind = "delta" /\ e.item = p
Units(out, p, sign) ==
    UNION {1..(sign * out[i].qty) : i \in {j \in DOMAIN out : IsDelta(out[j], p)}}
Waiting(p, sign) == UNION {{q} \X Units(req[q].out, p, sign) : q \in Requests}

\* Only a request that emits has events, and its deltas are of different products; one that
\* is about to send a product has read it.
Event == [kind : {"delta", "absolute", "details"}, item : Products, qty : Int]
OneEach(out) ==
    \A i, j \in DOMAIN out : IsDelta(out[i], out[j].item) /\ out[j].kind = "delta" => i = j
OutOK(slot) ==
    /\ slot.out \in Seq(Event) /\ OneEach(slot.out)
    /\ slot.out = <<>> <=> slot.step \notin {"emit", "send", "late"}
    /\ slot.step \in {"send", "late"} => Head(slot.out).kind # "delta"
    /\ slot.step = "send" => /\ slot.figure[Head(slot.out).item] \in Nat
                             /\ slot.price[Head(slot.out).item] \in Nat

\* Unless an absolute figure is under way, the till misses the units that wait;
\* and unless one or the details are, it has the cost.
StockFollows(p) ==
    peer[p].stock + Cardinality(Waiting(p, 1)) = shelf[p] + Cardinality(Waiting(p, -1))
PeerOK ==
    /\ peer \in [Products -> [stock : Nat, cost : Nat]]
    /\ \A q \in Requests : OutOK(req[q])
    /\ \A p \in Products, sign \in {-1, 1} : IsFiniteSet(Waiting(p, sign))
    /\ \A p \in Tracked \ crossed :
           /\ InFlight(p, {"absolute"}) = {} => StockFollows(p)
           /\ InFlight(p, {"absolute", "details"}) = {} => peer[p].cost = cost[p]

\* SetToSeq lists a finite set, each element once.
LEMMA SetToSeqIs ==
    ASSUME NEW S, IsFiniteSet(S)
    PROVE  /\ SetToSeq(S) \in Seq(S)
           /\ \A i, j \in DOMAIN SetToSeq(S) : SetToSeq(S)[i] = SetToSeq(S)[j] => i = j
           /\ \A x \in S : \E i \in DOMAIN SetToSeq(S) : SetToSeq(S)[i] = x
<1>1. PICK g : g \in Bijection(1..Cardinality(S), S) /\ Cardinality(S) \in Nat
  BY FS_CardinalityType DEF ExistsBijection
<1>2. g \in [1..Cardinality(S) -> S] /\ IsInjective(g)
  BY <1>1 DEF Bijection, Injection, Surjection, IsInjective
<1>3. /\ SetToSeq(S) \in [1..Cardinality(S) -> S]
      /\ IsInjective(SetToSeq(S))
  BY <1>2 DEF SetToSeq
<1>4. \A i, j \in DOMAIN SetToSeq(S) : SetToSeq(S)[i] = SetToSeq(S)[j] => i = j
  BY <1>3 DEF IsInjective
<1>5. SetToSeq(S) \in Injection(1..Cardinality(S), S)
  BY <1>3, <1>4 DEF Injection, IsInjective
<1>6. IsFiniteSet(1..Cardinality(S)) /\ Cardinality(1..Cardinality(S)) = Cardinality(S)
  BY <1>1, FS_Interval
<1>7. SetToSeq(S) \in Surjection(1..Cardinality(S), S)
  BY <1>5, <1>6, FS_Injection
<1>8. \A x \in S : \E i \in DOMAIN SetToSeq(S) : SetToSeq(S)[i] = x
  BY <1>7, <1>3 DEF Surjection
<1> QED BY <1>1, <1>3, <1>4, <1>8

\* What the three kinds of events are.
LEMMA EventsAre ==
    ASSUME NEW p \in Products
    PROVE  /\ Absolute(p) \in Event /\ Absolute(p).kind = "absolute" /\ Absolute(p).item = p
           /\ Details(p) \in Event /\ Details(p).kind = "details" /\ Details(p).item = p
           /\ \A n \in Int : /\ Delta(p, n) \in Event /\ Delta(p, n).kind = "delta"
                             /\ Delta(p, n).item = p /\ Delta(p, n).qty = n
BY DEF Absolute, Details, Delta, Event

\* A block of units.
LEMMA BlockIs ==
    ASSUME NEW q, NEW m \in Int
    PROVE  /\ IsFiniteSet({q} \X (1..m))
           /\ Cardinality({q} \X (1..m)) = AtLeastZero(m)
<1>1. IsFiniteSet({q}) /\ Cardinality({q}) = 1
  BY FS_Singleton
<1>2. IsFiniteSet(1..m) /\ Cardinality(1..m) = AtLeastZero(m)
  BY FS_Interval DEF AtLeastZero
<1>3. PICK Q, B : Q = {q} /\ B = 1..m
  OBVIOUS
<1>4. IsFiniteSet(Q \X B) /\ Cardinality(Q \X B) = Cardinality(Q) * Cardinality(B)
  BY <1>1, <1>2, <1>3, FS_Product
<1>5. 1 * AtLeastZero(m) = AtLeastZero(m)
  BY DEF AtLeastZero
<1> QED BY <1>1, <1>2, <1>3, <1>4, <1>5

\* The units of a slot are those of its one delta of the product, if it has one.
LEMMA UnitsAre ==
    ASSUME NEW out \in Seq(Event), OneEach(out), NEW p \in Products, NEW sign \in {-1, 1}
    PROVE  /\ \A i \in DOMAIN out : IsDelta(out[i], p) =>
                  Units(out, p, sign) = 1..(sign * out[i].qty)
           /\ (\A i \in DOMAIN out : ~IsDelta(out[i], p)) => Units(out, p, sign) = {}
<1>1. ASSUME NEW i \in DOMAIN out, IsDelta(out[i], p)
      PROVE  Units(out, p, sign) = 1..(sign * out[i].qty)
  <2>1. {j \in DOMAIN out : IsDelta(out[j], p)} = {i}
    BY <1>1 DEF OneEach, IsDelta
  <2>2. {1..(sign * out[j].qty) : j \in {i}} = {1..(sign * out[i].qty)}
    OBVIOUS
  <2> QED BY <2>1, <2>2 DEF Units
<1>2. ASSUME \A i \in DOMAIN out : ~IsDelta(out[i], p)
      PROVE  Units(out, p, sign) = {}
  <2>1. {j \in DOMAIN out : IsDelta(out[j], p)} = {}
    BY <1>2
  <2> QED BY <2>1 DEF Units
<1> QED BY <1>1, <1>2

\* When one slot changes, its units come or go.
LEMMA WaitingTurns ==
    ASSUME NEW q \in Requests, NEW p \in Products, NEW sign \in {-1, 1},
           \A r \in Requests \ {q} : req'[r].out = req[r].out,
           IsFiniteSet(Waiting(p, sign)), NEW m \in Int
    PROVE  /\ IsFiniteSet(Waiting(p, sign)) /\ Cardinality(Waiting(p, sign)) \in Nat
           /\ Units(req'[q].out, p, sign) = Units(req[q].out, p, sign) =>
                  Waiting(p, sign)' = Waiting(p, sign)
           /\ Units(req[q].out, p, sign) = {} /\ Units(req'[q].out, p, sign) = 1..m =>
                  /\ IsFiniteSet(Waiting(p, sign)')
                  /\ Cardinality(Waiting(p, sign)') = Cardinality(Waiting(p, sign)) + AtLeastZero(m)
           /\ Units(req[q].out, p, sign) = 1..m /\ Units(req'[q].out, p, sign) = {} =>
                  /\ IsFiniteSet(Waiting(p, sign)')
                  /\ Cardinality(Waiting(p, sign)) = Cardinality(Waiting(p, sign)') + AtLeastZero(m)
<1> DEFINE Rest == UNION {{r} \X Units(req[r].out, p, sign) : r \in Requests \ {q}}
           Before == {q} \X Units(req[q].out, p, sign)
           After == {q} \X Units(req'[q].out, p, sign)
<1>1. Waiting(p, sign) = Rest \cup Before /\ Rest \cap Before = {}
  <2>1. {{r} \X Units(req[r].out, p, sign) : r \in Requests}
            = {{r} \X Units(req[r].out, p, sign) : r \in Requests \ {q}} \cup {Before}
    OBVIOUS
  <2> QED BY <2>1 DEF Waiting
<1>2. Waiting(p, sign)' = Rest \cup After /\ Rest \cap After = {}
  <2>1. {{r} \X Units(req'[r].out, p, sign) : r \in Requests}
            = {{r} \X Units(req[r].out, p, sign) : r \in Requests \ {q}} \cup {After}
    OBVIOUS
  <2>2. Waiting(p, sign)' = UNION {{r} \X Units(req'[r].out, p, sign) : r \in Requests}
    BY DEF Waiting, Units
  <2> QED BY <2>1, <2>2
<1>3. IsFiniteSet(Rest) /\ Cardinality(Rest) \in Nat /\ Cardinality(Waiting(p, sign)) \in Nat
  BY <1>1, FS_Subset, FS_CardinalityType
<1>4. IsFiniteSet({q} \X (1..m)) /\ Cardinality({q} \X (1..m)) = AtLeastZero(m)
      /\ AtLeastZero(m) \in Nat
  <2>1. AtLeastZero(m) \in Nat
    BY DEF AtLeastZero
  <2> QED BY <2>1, BlockIs
<1> HIDE DEF Rest
<1>5. ASSUME Rest \cap ({q} \X (1..m)) = {}
      PROVE  /\ IsFiniteSet(Rest \cup ({q} \X (1..m)))
             /\ Cardinality(Rest \cup ({q} \X (1..m))) = Cardinality(Rest) + AtLeastZero(m)
  <2>1. PICK B : B = {q} \X (1..m)
    OBVIOUS
  <2>2. /\ IsFiniteSet(Rest \cup B)
        /\ Cardinality(Rest \cup B) = Cardinality(Rest) + Cardinality(B) - Cardinality(Rest \cap B)
    BY <1>3, <1>4, <2>1, FS_Union
  <2>3. Cardinality(Rest \cap B) = 0
    BY <1>5, <2>1, FS_EmptySet
  <2> QED BY <1>3, <1>4, <2>1, <2>2, <2>3
<1>6. Units(req[q].out, p, sign) = {} => Before = {}
  OBVIOUS
<1>7. Units(req'[q].out, p, sign) = {} => After = {}
  OBVIOUS
<1>8. CASE Units(req[q].out, p, sign) = {} /\ Units(req'[q].out, p, sign) = 1..m
  <2>1. Waiting(p, sign) = Rest /\ Waiting(p, sign)' = Rest \cup ({q} \X (1..m))
        /\ Rest \cap ({q} \X (1..m)) = {}
    BY <1>1, <1>2, <1>6, <1>8
  <2>2. /\ IsFiniteSet(Waiting(p, sign)')
        /\ Cardinality(Waiting(p, sign)') = Cardinality(Waiting(p, sign)) + AtLeastZero(m)
    BY <1>5, <2>1
  <2> QED BY <1>1, <1>2, <1>3, <2>1, <2>2, <1>8
<1>9. CASE Units(req[q].out, p, sign) = 1..m /\ Units(req'[q].out, p, sign) = {}
  <2>1. Waiting(p, sign)' = Rest /\ Waiting(p, sign) = Rest \cup ({q} \X (1..m))
        /\ Rest \cap ({q} \X (1..m)) = {}
    BY <1>1, <1>2, <1>7, <1>9
  <2> QED BY <1>1, <1>2, <1>3, <1>5, <2>1, <1>9
<1> QED BY <1>1, <1>2, <1>3, <1>8, <1>9
-----------------------------------------------------------------------------
Holds(out, p, kinds) == \E i \in DOMAIN out : out[i].item = p /\ out[i].kind \in kinds

\* What is in flight, by what the slots hold.
LEMMA FlightIs ==
    ASSUME NEW p, NEW kinds
    PROVE  /\ InFlight(p, kinds) = {r \in Requests : Holds(req[r].out, p, kinds)}
           /\ InFlight(p, kinds)' = {r \in Requests : Holds(req'[r].out, p, kinds)}
BY DEF InFlight, Holds

\* A slot with events to emit is as PeerOK wants it.
LEMMA EmittingOK ==
    ASSUME NEW events \in Seq(Event), OneEach(events)
    PROVE  OutOK(Emitting(events)) /\ Emitting(events).out = events
BY DEF OutOK, Emitting, IdleSlot

\* A delta that is done here and waits for the other till.
LEMMA DeltaWaits ==
    ASSUME NEW p, NEW e, IsDelta(e, p), e.qty \in Int, StockFollows(p),
           shelf[p] \in Nat, peer[p].stock \in Nat, peer'[p] = peer[p],
           shelf'[p] = shelf[p] + e.qty,
           \A sign \in {-1, 1} :
               /\ Cardinality(Waiting(p, sign)) \in Nat
               /\ Cardinality(Waiting(p, sign)')
                      = Cardinality(Waiting(p, sign)) + AtLeastZero(sign * e.qty)
    PROVE  StockFollows(p)'
<1>1. PICK a, b, v, w, n : /\ a = Cardinality(Waiting(p, 1)) /\ b = Cardinality(Waiting(p, -1))
                           /\ v = peer[p].stock /\ w = shelf[p] /\ n = e.qty
  OBVIOUS
<1>2. PICK x, y : x = AtLeastZero(1 * n) /\ y = AtLeastZero((-1) * n)
  OBVIOUS
<1>3. /\ a \in Nat /\ b \in Nat /\ v \in Nat /\ w \in Nat /\ n \in Int
      /\ Cardinality(Waiting(p, 1)') = a + x
  BY <1>1, <1>2
<1>4. Cardinality(Waiting(p, -1)') = b + y
  BY <1>1, <1>2
<1>5. v + a = w + b
  BY <1>1 DEF StockFollows
<1>6. v + (a + x) = (w + n) + (b + y)
  <2>1. x = y + n /\ x \in Nat /\ y \in Nat
    BY <1>2, <1>3 DEF AtLeastZero
  <2> QED BY <1>3, <1>5, <2>1
<1> QED BY <1>1, <1>3, <1>4, <1>6 DEF StockFollows

\* What a slot tells of stays as it is.
SameTelling(r) ==
    /\ req'[r].out = req[r].out /\ req'[r].step = req[r].step
    /\ req'[r].figure = req[r].figure /\ req'[r].price = req[r].price

\* A request that comes to have events, of what it did to the shelf and the cost:
LEMMA NewEvents ==
    ASSUME IInv, PeerOK, NEW q \in Requests, NEW events \in Seq(Event), OneEach(events),
           req[q].out = <<>>, req'[q] = Emitting(events),
           \A r \in Requests \ {q} : SameTelling(r),
           UNCHANGED peer, crossed \subseteq crossed',
           \A p \in Tracked \ crossed' :
               \/ Holds(events, p, {"absolute"})
               \/ /\ \/ \E i \in DOMAIN events :
                            IsDelta(events[i], p) /\ shelf'[p] = shelf[p] + events[i].qty
                     \/ (\A i \in DOMAIN events : ~IsDelta(events[i], p)) /\ shelf'[p] = shelf[p]
                  /\ cost'[p] = cost[p] \/ Holds(events, p, {"details"})
    PROVE  PeerOK'
<1>1. req'[q].out = events /\ OutOK(req'[q])
  BY EmittingOK
<1>0. \A r \in Requests \ {q} : req'[r].out = req[r].out /\ req'[r].step = req[r].step
  BY DEF SameTelling
<1>2. ASSUME NEW r \in Requests PROVE OutOK(req[r])'
  <2>1. CASE r = q
    BY <1>1, <2>1 DEF OutOK, OneEach, IsDelta
  <2>2. CASE r # q
    <3>1. SameTelling(r) /\ OutOK(req[r])
      BY <2>2 DEF PeerOK
    <3> QED BY <3>1 DEF OutOK, OneEach, IsDelta, SameTelling
  <2> QED BY <2>1, <2>2
<1>3. ASSUME NEW p \in Products, NEW sign \in {-1, 1}
      PROVE  /\ IsFiniteSet(Waiting(p, sign)) /\ Cardinality(Waiting(p, sign)) \in Nat
             /\ IsFiniteSet(Waiting(p, sign)')
             /\ \A i \in DOMAIN events : IsDelta(events[i], p) =>
                    Cardinality(Waiting(p, sign)')
                        = Cardinality(Waiting(p, sign)) + AtLeastZero(sign * events[i].qty)
             /\ (\A i \in DOMAIN events : ~IsDelta(events[i], p)) =>
                    Waiting(p, sign)' = Waiting(p, sign)
  <2>1. IsFiniteSet(Waiting(p, sign))
    BY DEF PeerOK
  <2>2. Units(req[q].out, p, sign) = {}
    <3>1. {j \in DOMAIN req[q].out : IsDelta(req[q].out[j], p)} = {}
      OBVIOUS
    <3> QED BY <3>1 DEF Units
  <2>3. /\ Cardinality(Waiting(p, sign)) \in Nat
        /\ Units(req'[q].out, p, sign) = {} => Waiting(p, sign)' = Waiting(p, sign)
    BY <1>0, <2>1, <2>2, WaitingTurns, 0 \in Int
  <2>4. ASSUME NEW i \in DOMAIN events, IsDelta(events[i], p)
        PROVE  /\ IsFiniteSet(Waiting(p, sign)')
               /\ Cardinality(Waiting(p, sign)')
                      = Cardinality(Waiting(p, sign)) + AtLeastZero(sign * events[i].qty)
    <3>1. PICK m : m = sign * events[i].qty
      OBVIOUS
    <3>2. m \in Int
      BY <3>1 DEF Event
    <3>3. Units(req'[q].out, p, sign) = 1..m
      BY <1>1, <2>4, <3>1, UnitsAre
    <3> QED BY <1>0, <2>1, <2>2, <3>1, <3>2, <3>3, WaitingTurns
  <2>5. ASSUME \A i \in DOMAIN events : ~IsDelta(events[i], p)
        PROVE  Waiting(p, sign)' = Waiting(p, sign)
    <3>1. Units(req'[q].out, p, sign) = {}
      BY <1>1, <2>5, UnitsAre
    <3> QED BY <2>3, <3>1
  <2> QED BY <2>1, <2>3, <2>4, <2>5
<1>4. ASSUME NEW p, NEW kinds
      PROVE  /\ InFlight(p, kinds) \subseteq InFlight(p, kinds)'
             /\ Holds(events, p, kinds) => InFlight(p, kinds)' # {}
  <2>1. ~Holds(req[q].out, p, kinds)
    BY DEF Holds
  <2> QED BY <1>0, <1>1, <2>1, FlightIs
<1>5. peer' \in [Products -> [stock : Nat, cost : Nat]]
  BY DEF PeerOK
<1>6. ASSUME NEW p \in Tracked \ crossed'
      PROVE  /\ InFlight(p, {"absolute"})' = {} => StockFollows(p)'
             /\ InFlight(p, {"absolute", "details"})' = {} => peer'[p].cost = cost'[p]
  <2>0. /\ p \in Products /\ p \in Tracked \ crossed
        /\ shelf[p] \in Nat /\ peer[p].stock \in Nat
    BY StockRoomAssumption DEF IInv, ShelfOK, PeerOK
  <2>1. CASE Holds(events, p, {"absolute"})
    <3>1. Holds(events, p, {"absolute", "details"})
      BY <2>1 DEF Holds
    <3> QED BY <1>4, <2>1, <3>1
  <2>2. CASE ~Holds(events, p, {"absolute"})
    <3>1. ASSUME InFlight(p, {"absolute"})' = {} PROVE StockFollows(p)'
      <4>1. StockFollows(p)
        BY <1>4, <2>0, <3>1 DEF PeerOK
      <4>2. ASSUME NEW i \in DOMAIN events, IsDelta(events[i], p),
                   shelf'[p] = shelf[p] + events[i].qty
            PROVE  StockFollows(p)'
        <5>1. events[i].qty \in Int
          <6>1. events[i] \in Event
            OBVIOUS
          <6> QED BY <6>1 DEF Event
        <5>2. ASSUME NEW sign \in {-1, 1}
              PROVE  /\ Cardinality(Waiting(p, sign)) \in Nat
                     /\ Cardinality(Waiting(p, sign)')
                            = Cardinality(Waiting(p, sign)) + AtLeastZero(sign * events[i].qty)
          BY <1>3, <2>0, <4>2
        <5> QED BY <2>0, <4>1, <4>2, <5>1, <5>2, DeltaWaits
      <4>3. ASSUME \A i \in DOMAIN events : ~IsDelta(events[i], p), shelf'[p] = shelf[p]
            PROVE  StockFollows(p)'
        <5>1. Waiting(p, 1)' = Waiting(p, 1) /\ Waiting(p, -1)' = Waiting(p, -1)
          BY <1>3, <2>0, <4>3
        <5> QED BY <4>1, <4>3, <5>1 DEF StockFollows
      <4> QED BY <2>2, <4>2, <4>3
    <3>2. ASSUME InFlight(p, {"absolute", "details"})' = {} PROVE peer'[p].cost = cost'[p]
      <4>1. ~Holds(events, p, {"details"})
        BY <1>4, <3>2 DEF Holds
      <4> QED BY <1>4, <2>0, <2>2, <3>2, <4>1 DEF PeerOK
    <3> QED BY <3>1, <3>2
  <2> QED BY <2>1, <2>2
<1>7. \A p \in Products, sign \in {-1, 1} : IsFiniteSet(Waiting(p, sign)')
  BY <1>3
<1>8. \A p \in Products, sign \in {-1, 1} : IsFiniteSet(Waiting(p, sign))'
  <2>1. ASSUME NEW p \in Products, NEW sign \in {-1, 1} PROVE IsFiniteSet(Waiting(p, sign))'
    BY <1>7
  <2> QED BY <2>1
<1> QED BY <1>2, <1>5, <1>6, <1>8 DEF PeerOK
\* The events of figures that were set: one each, of the products they are of.
LEMMA FiguresAre ==
    ASSUME NEW F \in SUBSET Products, NEW events,
           events = SetToSeq({Absolute(p) : p \in F})
    PROVE  /\ events \in Seq(Event) /\ OneEach(events)
           /\ \A i \in DOMAIN events : events[i].item \in F /\ events[i].kind = "absolute"
           /\ \A p \in F : Holds(events, p, {"absolute"})
<1>1. PICK E : E = {Absolute(p) : p \in F}
  OBVIOUS
<1>2. \A e \in E : e \in Event /\ e.kind = "absolute" /\ e.item \in F
  BY <1>1, EventsAre
<1>3. IsFiniteSet(E)
  <2>1. IsFiniteSet(F)
    BY StockRoomAssumption, FS_Subset
  <2> DEFINE f == [p \in F |-> Absolute(p)]
  <2>2. f \in Surjection(F, E)
    BY <1>1 DEF Surjection
  <2> QED BY <2>1, <2>2, FS_Surjection
<1>4. /\ events \in Seq(E) /\ \A e \in E : \E i \in DOMAIN events : events[i] = e
  BY <1>1, <1>3, SetToSeqIs
<1>5. \A i \in DOMAIN events : events[i] \in E
  BY <1>4
<1>6. events \in Seq(Event)
  BY <1>2, <1>4
<1>7. ASSUME NEW p \in F PROVE Holds(events, p, {"absolute"})
  <2>1. Absolute(p) \in E
    BY <1>1
  <2>2. PICK i \in DOMAIN events : events[i] = Absolute(p)
    BY <1>4, <2>1
  <2>3. Absolute(p).kind = "absolute" /\ Absolute(p).item = p
    BY EventsAre
  <2> QED BY <2>2, <2>3 DEF Holds
<1>8. OneEach(events)
  BY <1>2, <1>5 DEF OneEach, IsDelta
<1> QED BY <1>2, <1>5, <1>6, <1>7, <1>8

\* The events of a delivery: of each of its lines the units and the details.
LEMMA ReceiptIs ==
    ASSUME NEW d \in Deliveries
    PROVE  /\ Receipt(d) \in Seq(Event) /\ OneEach(Receipt(d))
           /\ \A i \in DOMAIN Receipt(d) : Receipt(d)[i].item \in Lines(d)
           /\ \A p \in Lines(d) :
                  /\ \E i \in DOMAIN Receipt(d) :
                         IsDelta(Receipt(d)[i], p) /\ Receipt(d)[i].qty = Qty(d, p)
                  /\ Holds(Receipt(d), p, {"details"})
<1>1. PICK s : s = SetToSeq(Lines(d))
  OBVIOUS
<1>2. Lines(d) \subseteq Products /\ IsFiniteSet(Lines(d))
      /\ \A p \in Products : Qty(d, p) \in Int
  BY StockRoomAssumption, FS_Subset DEF Lines
<1>3. /\ s \in Seq(Lines(d)) /\ \A i, j \in DOMAIN s : s[i] = s[j] => i = j
      /\ \A p \in Lines(d) : \E i \in DOMAIN s : s[i] = p
  BY <1>1, <1>2, SetToSeqIs
<1>4. PICK n \in Nat : n = Len(s) /\ DOMAIN s = 1..n
  BY <1>3
<1>5. PICK out : out = Receipt(d)
  OBVIOUS
<1>6. out = [i \in 1..(2 * n) |->
                 IF i % 2 = 1 THEN Delta(s[(i + 1) \div 2], Qty(d, s[(i + 1) \div 2]))
                 ELSE Details(s[(i + 1) \div 2])]
  BY <1>1, <1>4, <1>5 DEF Receipt
<1>7. ASSUME NEW i \in 1..(2 * n)
      PROVE  /\ (i + 1) \div 2 \in 1..n /\ s[(i + 1) \div 2] \in Lines(d)
             /\ out[i] \in Event /\ out[i].item = s[(i + 1) \div 2]
             /\ out[i].kind = "delta" => i % 2 = 1
  <2>1. (i + 1) \div 2 \in 1..n
    BY <1>4
  <2>2. PICK p \in Lines(d) : p = s[(i + 1) \div 2]
    BY <1>3, <1>4, <2>1
  <2>3. out[i] = IF i % 2 = 1 THEN Delta(p, Qty(d, p)) ELSE Details(p)
    BY <1>6, <2>2
  <2>4. p \in Products /\ Qty(d, p) \in Int
    BY <1>2
  <2> QED BY <2>1, <2>2, <2>3, <2>4, EventsAre
<1>8. DOMAIN out = 1..(2 * n) /\ out \in Seq(Event)
  <2>1. DOMAIN out = 1..(2 * n)
    BY <1>6
  <2>2. out \in [1..(2 * n) -> Event]
    BY <1>6, <1>7, <2>1
  <2>3. 2 * n \in Nat
    BY <1>4
  <2> QED BY <2>1, <2>2, <2>3
<1>9. OneEach(out)
  <2> SUFFICES ASSUME NEW i \in 1..(2 * n), NEW j \in 1..(2 * n),
                      out[i].kind = "delta", out[j].kind = "delta", out[i].item = out[j].item
               PROVE  i = j
    BY <1>8 DEF OneEach, IsDelta
  <2>1. (i + 1) \div 2 = (j + 1) \div 2
    <3>1. PICK a \in 1..n, b \in 1..n : a = (i + 1) \div 2 /\ b = (j + 1) \div 2
      BY <1>7
    <3>2. s[a] = s[b]
      BY <1>7, <3>1
    <3> QED BY <1>3, <1>4, <3>1, <3>2
  <2>2. i % 2 = 1 /\ j % 2 = 1
    BY <1>7
  <2> QED BY <1>4, <2>1, <2>2
<1>10. ASSUME NEW p \in Lines(d)
       PROVE  /\ \E i \in DOMAIN out : IsDelta(out[i], p) /\ out[i].qty = Qty(d, p)
              /\ Holds(out, p, {"details"})
  <2>1. PICK k \in 1..n : s[k] = p
    BY <1>3, <1>4
  <2>2. /\ 2 * k \in 1..(2 * n) /\ 2 * k - 1 \in 1..(2 * n)
        /\ (2 * k) % 2 = 0 /\ (2 * k - 1) % 2 = 1
        /\ (2 * k + 1) \div 2 = k /\ (2 * k - 1 + 1) \div 2 = k
    BY <1>4
  <2>3. out[2 * k - 1] = Delta(p, Qty(d, p)) /\ out[2 * k] = Details(p)
    BY <1>6, <2>1, <2>2
  <2>4. p \in Products /\ Qty(d, p) \in Int
    BY <1>2
  <2>5. /\ Delta(p, Qty(d, p)).kind = "delta" /\ Delta(p, Qty(d, p)).item = p
        /\ Delta(p, Qty(d, p)).qty = Qty(d, p)
        /\ Details(p).kind = "details" /\ Details(p).item = p
    BY <2>4, EventsAre
  <2>6. 2 * k - 1 \in DOMAIN out /\ 2 * k \in DOMAIN out
    BY <1>8, <2>2
  <2>7. IsDelta(out[2 * k - 1], p) /\ out[2 * k - 1].qty = Qty(d, p)
    BY <2>3, <2>5 DEF IsDelta
  <2>8. Holds(out, p, {"details"})
    BY <2>3, <2>5, <2>6 DEF Holds
  <2> QED BY <2>6, <2>7, <2>8
<1>11. \A i \in DOMAIN out : out[i].item \in Lines(d)
  BY <1>7, <1>8
<1> QED BY <1>5, <1>8, <1>9, <1>10, <1>11
-----------------------------------------------------------------------------
\* A slot without a request has nothing to emit.
LEMMA NothingToEmit ==
    ASSUME PeerOK, NEW q \in Requests, req[q].step \notin {"emit", "send", "late"} \/ Idle(q)
    PROVE  req[q].out = <<>>
BY DEF PeerOK, OutOK, Idle, IdleSlot

\* A step that emits nothing and lets both tills' books be:
LEMMA OutsStay ==
    ASSUME PeerOK, UNCHANGED <<peer, shelf, cost, crossed>>,
           \A q \in Requests : req'[q].out = req[q].out /\ OutOK(req'[q])
    PROVE  PeerOK'
<1>1. ASSUME NEW p, NEW sign
      PROVE  Waiting(p, sign)' = Waiting(p, sign)
  BY DEF Waiting, Units, IsDelta
<1>2. ASSUME NEW p, NEW kinds PROVE InFlight(p, kinds)' = InFlight(p, kinds)
  BY DEF InFlight
<1>3. \A q \in Requests : OutOK(req[q])'
  BY DEF OutOK, OneEach, IsDelta
<1>4. \A p \in Products, sign \in {-1, 1} : IsFiniteSet(Waiting(p, sign))'
  BY <1>1 DEF PeerOK
<1>5. ASSUME NEW p \in Tracked \ crossed'
      PROVE  /\ InFlight(p, {"absolute"})' = {} => StockFollows(p)'
             /\ InFlight(p, {"absolute", "details"})' = {} => peer'[p].cost = cost'[p]
  BY <1>1, <1>2 DEF PeerOK, StockFollows
<1> QED BY <1>3, <1>4, <1>5 DEF PeerOK

\* A sale, an adjustment:
LEMMA MovePeer ==
    ASSUME IInv, PeerOK, NEW q \in Requests, NEW p \in Products, NEW n \in Int,
           Move(q, p, n)
    PROVE  PeerOK'
<1>1. PICK events : events = <<Delta(p, n)>>
  OBVIOUS
<1>2. /\ Idle(q) /\ shelf' = [shelf EXCEPT ![p] = AtLeastZero(@ + n)]
      /\ crossed' = IF shelf[p] + n < 0 THEN crossed \cup {p} ELSE crossed
      /\ GoodsMoved({p}, q, Emitting(events)) /\ UNCHANGED <<cost, peer>>
  BY <1>1 DEF Move
<1>3. /\ req'[q] = Emitting(events)
      /\ \A r \in Requests \ {q} : SameTelling(r)
  <2>1. \A r \in Requests : req'[r] = IF r = q THEN Emitting(events)
                                      ELSE [req[r] EXCEPT !.exact = @ \ {p}]
    BY <1>2 DEF GoodsMoved
  <2>2. \A r \in Requests : DOMAIN req[r] = DOMAIN IdleSlot
    BY DEF IInv, SlotsOK, SlotOK
  <2> QED BY <2>1, <2>2 DEF IdleSlot, SameTelling
<1>4. req[q].out = <<>>
  BY <1>2, NothingToEmit
<1>5. /\ events \in Seq(Event) /\ DOMAIN events = {1} /\ events[1] = Delta(p, n)
      /\ OneEach(events)
  BY <1>1, EventsAre DEF OneEach
<1>6. ASSUME NEW x \in Tracked \ crossed'
      PROVE  /\ \/ \E i \in DOMAIN events :
                       IsDelta(events[i], x) /\ shelf'[x] = shelf[x] + events[i].qty
                \/ (\A i \in DOMAIN events : ~IsDelta(events[i], x)) /\ shelf'[x] = shelf[x]
             /\ cost'[x] = cost[x]
  <2>1. x \in Products /\ shelf \in [Products -> Nat]
    BY StockRoomAssumption DEF IInv, ShelfOK
  <2>2. CASE x = p
    <3>1. shelf'[x] = shelf[x] + n
      BY <1>2, <2>1, <2>2 DEF AtLeastZero
    <3>2. IsDelta(events[1], x) /\ events[1].qty = n
      BY <1>5, <2>2, EventsAre DEF IsDelta
    <3> QED BY <1>2, <1>5, <3>1, <3>2
  <2>3. CASE x # p
    BY <1>2, <1>5, <2>1, <2>3, EventsAre DEF IsDelta
  <2> QED BY <2>2, <2>3
<1> QED BY <1>2, <1>3, <1>4, <1>5, <1>6, NewEvents

\* A delivery:
LEMMA ReceivePeer ==
    ASSUME IInv, PeerOK, NEW q \in Requests, NEW d \in Deliveries, ReceivePO(q, d)
    PROVE  PeerOK'
<1> DEFINE moved == Lines(d) \cap Tracked
           costs == [p \in moved |-> AvgCost(shelf[p], cost[p], Qty(d, p), Price(d))]
           figure == [p \in moved |-> shelf[p] + Qty(d, p)]
<1>1. /\ Idle(q) /\ shelf' = Over(figure, shelf) /\ cost' = Over(costs, cost)
      /\ GoodsMoved(Lines(d), q, Emitting(Receipt(d))) /\ UNCHANGED <<peer, crossed>>
  BY DEF ReceivePO
<1>2. /\ req'[q] = Emitting(Receipt(d))
      /\ \A r \in Requests \ {q} : SameTelling(r)
  <2>1. \A r \in Requests : req'[r] = IF r = q THEN Emitting(Receipt(d))
                                      ELSE [req[r] EXCEPT !.exact = @ \ Lines(d)]
    BY <1>1 DEF GoodsMoved
  <2>2. \A r \in Requests : DOMAIN req[r] = DOMAIN IdleSlot
    BY DEF IInv, SlotsOK, SlotOK
  <2> QED BY <2>1, <2>2 DEF IdleSlot, SameTelling
<1>3. req[q].out = <<>>
  BY <1>1, NothingToEmit
<1>4. PICK events : events = Receipt(d)
  OBVIOUS
<1>5. /\ events \in Seq(Event) /\ OneEach(events)
      /\ \A i \in DOMAIN events : events[i].item \in Lines(d)
      /\ \A p \in Lines(d) :
             /\ \E i \in DOMAIN events : IsDelta(events[i], p) /\ events[i].qty = Qty(d, p)
             /\ Holds(events, p, {"details"})
  BY <1>4, ReceiptIs
<1>6. ASSUME NEW x \in Tracked \ crossed'
      PROVE  /\ \/ \E i \in DOMAIN events :
                       IsDelta(events[i], x) /\ shelf'[x] = shelf[x] + events[i].qty
                \/ (\A i \in DOMAIN events : ~IsDelta(events[i], x)) /\ shelf'[x] = shelf[x]
             /\ cost'[x] = cost[x] \/ Holds(events, x, {"details"})
  <2>1. x \in Products /\ DOMAIN shelf = Products /\ DOMAIN cost = Products
        /\ moved \subseteq Products
    BY StockRoomAssumption DEF IInv, ShelfOK, Lines
  <2>2. CASE x \in Lines(d)
    <3>1. shelf'[x] = shelf[x] + Qty(d, x)
      BY <1>1, <1>6, <2>1, <2>2 DEF Over
    <3> QED BY <1>5, <2>2, <3>1
  <2>3. CASE x \notin Lines(d)
    <3>1. shelf'[x] = shelf[x] /\ cost'[x] = cost[x]
      BY <1>1, <2>1, <2>3 DEF Over
    <3> QED BY <1>5, <2>3, <3>1 DEF IsDelta
  <2> QED BY <2>2, <2>3
<1> HIDE DEF figure, costs, moved
<1> QED BY <1>1, <1>2, <1>3, <1>4, <1>5, <1>6, NewEvents

\* Figures that are set, by a take, a count, a form or an import:
LEMMA FiguresPeer ==
    ASSUME IInv, PeerOK, NEW q \in Requests, NEW F \in SUBSET Products,
           req[q].step \notin {"emit", "send", "late"} \/ Idle(q), UNCHANGED <<peer, crossed>>,
           Put(q, Emitting(SetToSeq({Absolute(p) : p \in F}))),
           \A p \in Products \ F : shelf'[p] = shelf[p] /\ cost'[p] = cost[p]
    PROVE  PeerOK'
<1>1. PICK events : events = SetToSeq({Absolute(p) : p \in F})
  OBVIOUS
<1>2. /\ events \in Seq(Event) /\ OneEach(events)
      /\ \A i \in DOMAIN events : events[i].item \in F /\ events[i].kind = "absolute"
      /\ \A p \in F : Holds(events, p, {"absolute"})
  BY <1>1, FiguresAre
<1>3. req'[q] = Emitting(events) /\ \A r \in Requests \ {q} : req'[r] = req[r]
  BY <1>1 DEF Put, IInv, SlotsOK
<1>4. req[q].out = <<>>
  BY NothingToEmit
<1>5. ASSUME NEW p \in Tracked \ crossed'
      PROVE  \/ Holds(events, p, {"absolute"})
             \/ /\ (\A i \in DOMAIN events : ~IsDelta(events[i], p)) /\ shelf'[p] = shelf[p]
                /\ cost'[p] = cost[p]
  <2>1. p \in Products
    BY StockRoomAssumption
  <2> QED BY <1>2, <2>1 DEF IsDelta
<1>6. \A r \in Requests \ {q} : SameTelling(r)
  BY <1>3 DEF SameTelling
<1> QED BY <1>2, <1>3, <1>4, <1>5, <1>6, NewEvents

\* A request that goes on, or lets be, without an event:
LEMMA SlotPeer ==
    ASSUME IInv, PeerOK, NEW q \in Requests, NEW slot, Put(q, slot),
           slot.out = <<>>, slot.step \notin {"emit", "send", "late"},
           req[q].step \notin {"emit", "send", "late"} \/ Idle(q),
           UNCHANGED <<peer, shelf, cost, crossed>>
    PROVE  PeerOK'
<1>1. req'[q] = slot /\ \A r \in Requests \ {q} : req'[r] = req[r]
  BY DEF Put, IInv, SlotsOK
<1>2. req[q].out = <<>>
  BY NothingToEmit
<1>3. <<>> \in Seq(Event) /\ OneEach(<<>>)
  <2>1. DOMAIN <<>> = {}
    OBVIOUS
  <2> QED BY <2>1 DEF OneEach
<1>4. OutOK(slot)
  BY <1>3 DEF OutOK
<1> QED BY <1>1, <1>2, <1>4, OutsStay DEF PeerOK

\* No delta in flight, no units that wait.
LEMMA NoDeltas ==
    ASSUME NEW p, InFlight(p, {"delta"}) = {}, NEW sign
    PROVE  Waiting(p, sign) = {}
<1>1. ASSUME NEW q \in Requests PROVE Units(req[q].out, p, sign) = {}
  <2>1. {j \in DOMAIN req[q].out : IsDelta(req[q].out[j], p)} = {}
    BY DEF InFlight, IsDelta
  <2> QED BY <2>1 DEF Units
<1> QED BY <1>1 DEF Waiting

\* A slot whose first event is emitted.
LEMMA FirstGoes ==
    ASSUME NEW out \in Seq(Event), out # <<>>, OneEach(out), NEW e, e = Head(out)
    PROVE  /\ e \in Event /\ Tail(out) \in Seq(Event) /\ OneEach(Tail(out))
           /\ \A p, kinds : Holds(out, p, kinds) <=>
                  (e.item = p /\ e.kind \in kinds) \/ Holds(Tail(out), p, kinds)
           /\ \A p \in Products, sign \in {-1, 1} :
                  IF IsDelta(e, p)
                  THEN Units(out, p, sign) = 1..(sign * e.qty) /\ Units(Tail(out), p, sign) = {}
                  ELSE Units(Tail(out), p, sign) = Units(out, p, sign)
<1>1. PICK n \in Nat : n = Len(out) /\ n >= 1 /\ DOMAIN out = 1..n
  OBVIOUS
<1>2. PICK rest : rest = Tail(out)
  OBVIOUS
<1>3. /\ out[1] = e /\ 1 \in DOMAIN out /\ e \in Event
      /\ rest \in Seq(Event) /\ DOMAIN rest = 1..(n - 1)
      /\ \A i \in 1..(n - 1) : rest[i] = out[i + 1]
  BY <1>1, <1>2
<1>4. \A i \in DOMAIN rest : i + 1 \in DOMAIN out /\ rest[i] = out[i + 1] /\ i + 1 # 1 /\ i \in Int
  BY <1>1, <1>3
<1>5. \A i \in DOMAIN out : i = 1 \/ (i - 1 \in DOMAIN rest /\ rest[i - 1] = out[i])
  BY <1>1, <1>3
<1>6. OneEach(rest)
  <2> SUFFICES ASSUME NEW i \in DOMAIN rest, NEW j \in DOMAIN rest,
                      IsDelta(rest[i], rest[j].item), rest[j].kind = "delta"
               PROVE  i = j
    BY DEF OneEach
  <2>1. i + 1 = j + 1
    BY <1>4 DEF OneEach
  <2> QED BY <1>4, <2>1
<1>7. ASSUME NEW p, NEW kinds
      PROVE  Holds(out, p, kinds) <=> (e.item = p /\ e.kind \in kinds) \/ Holds(rest, p, kinds)
  <2>1. ASSUME Holds(out, p, kinds)
        PROVE  (e.item = p /\ e.kind \in kinds) \/ Holds(rest, p, kinds)
    BY <1>3, <1>5, <2>1 DEF Holds
  <2>2. ASSUME Holds(rest, p, kinds) PROVE Holds(out, p, kinds)
    BY <1>4, <2>2 DEF Holds
  <2>3. ASSUME e.item = p, e.kind \in kinds PROVE Holds(out, p, kinds)
    BY <1>3, <2>3 DEF Holds
  <2> QED BY <2>1, <2>2, <2>3
<1>8. ASSUME NEW p \in Products, NEW sign \in {-1, 1}, IsDelta(e, p)
      PROVE  Units(out, p, sign) = 1..(sign * e.qty) /\ Units(rest, p, sign) = {}
  <2>1. \A i \in DOMAIN rest : ~IsDelta(rest[i], p)
    <3> SUFFICES ASSUME NEW i \in DOMAIN rest, IsDelta(rest[i], p) PROVE FALSE
      OBVIOUS
    <3>1. IsDelta(out[i + 1], out[1].item) /\ out[1].kind = "delta"
      BY <1>3, <1>4, <1>8 DEF IsDelta
    <3> QED BY <1>3, <1>4, <3>1 DEF OneEach
  <2>2. Units(rest, p, sign) = {}
    BY <1>3, <1>6, <2>1, UnitsAre
  <2>3. Units(out, p, sign) = 1..(sign * out[1].qty)
    BY <1>3, <1>8, UnitsAre
  <2> QED BY <1>3, <2>2, <2>3
<1>9. ASSUME NEW p \in Products, NEW sign \in {-1, 1}, ~IsDelta(e, p)
      PROVE  Units(rest, p, sign) = Units(out, p, sign)
  <2>1. ASSUME NEW i \in DOMAIN rest, IsDelta(rest[i], p)
        PROVE  Units(rest, p, sign) = Units(out, p, sign)
    <3>1. IsDelta(out[i + 1], p) /\ i + 1 \in DOMAIN out /\ rest[i] = out[i + 1]
      BY <1>4, <2>1
    <3>2. Units(rest, p, sign) = 1..(sign * rest[i].qty)
      BY <1>3, <1>6, <2>1, UnitsAre
    <3>3. Units(out, p, sign) = 1..(sign * out[i + 1].qty)
      BY <3>1, UnitsAre
    <3> QED BY <3>1, <3>2, <3>3
  <2>2. ASSUME \A i \in DOMAIN rest : ~IsDelta(rest[i], p)
        PROVE  Units(rest, p, sign) = Units(out, p, sign)
    <3>1. \A i \in DOMAIN out : ~IsDelta(out[i], p)
      BY <1>3, <1>5, <1>9, <2>2
    <3> QED BY <1>3, <1>6, <2>2, <3>1, UnitsAre
  <2> QED BY <2>1, <2>2
<1> QED BY <1>2, <1>3, <1>6, <1>7, <1>8, <1>9

\* A product that is read, to be told of:
LEMMA ReadPeer ==
    ASSUME IInv, PeerOK, NEW q \in Requests, EmitProductRead(q)
    PROVE  PeerOK'
<1>1. PICK out, x : out = req[q].out /\ x = Head(out).item
  OBVIOUS
<1>2. /\ req[q].step = "emit" /\ Head(out).kind # "delta"
      /\ UNCHANGED <<peer, shelf, cost, crossed>>
      /\ Put(q, [req[q] EXCEPT !.step = "send", !.figure = [y \in {x} |-> shelf[y]],
                                               !.price = [y \in {x} |-> cost[y]]])
  BY <1>1 DEF EmitProductRead, books
<1>3. PICK slot : slot = [req[q] EXCEPT !.step = "send", !.figure = [y \in {x} |-> shelf[y]],
                                                        !.price = [y \in {x} |-> cost[y]]]
  OBVIOUS
<1>4. /\ slot.out = out /\ slot.step = "send" /\ slot.figure[x] = shelf[x]
      /\ slot.price[x] = cost[x]
  BY <1>1, <1>3 DEF IInv, SlotsOK, SlotOK, IdleSlot
<1>5. out \in Seq(Event) /\ out # <<>> /\ OneEach(out)
  BY <1>1, <1>2 DEF PeerOK, OutOK
<1>6. Head(out) \in Event
  BY <1>5
<1>7. shelf[x] \in Nat /\ cost[x] \in Nat
  BY <1>1, <1>6 DEF Event, IInv, ShelfOK
<1>8. OutOK(slot)
  BY <1>1, <1>2, <1>4, <1>5, <1>7 DEF OutOK
<1>9. req'[q] = slot /\ \A r \in Requests \ {q} : req'[r] = req[r]
  BY <1>2, <1>3 DEF Put, IInv, SlotsOK
<1> QED BY <1>1, <1>2, <1>4, <1>8, <1>9, OutsStay DEF PeerOK

\* An event that goes out, and what the other till makes of it:
LEMMA EmitPeer ==
    ASSUME IInv, PeerOK, NEW q \in Requests, EmitNext(q) \/ EmitLate(q)
    PROVE  PeerOK'
<1>1. PICK out, e, rest : out = req[q].out /\ e = Head(out) /\ rest = Tail(out)
  OBVIOUS
<1>2. /\ \/ req[q].step = "emit" /\ e.kind = "delta" /\ applyStockDelta(e)
         \/ req[q].step = "send" /\ applyProduct(q, e)
         \/ EmitLate(q)
      /\ req[q].step \in {"emit", "send", "late"}
      /\ req'[q] = Emitting(rest) /\ (\A r \in Requests \ {q} : Same(r))
      /\ UNCHANGED <<shelf, cost>>
  BY <1>1 DEF EmitNext, EmitLate, books, Put, Overtaken, Same, IInv, SlotsOK
<1>3. out \in Seq(Event) /\ out # <<>> /\ OneEach(out)
  BY <1>1, <1>2 DEF PeerOK, OutOK
<1>4. /\ e \in Event /\ rest \in Seq(Event) /\ OneEach(rest)
      /\ \A p, kinds : Holds(out, p, kinds) <=>
             (e.item = p /\ e.kind \in kinds) \/ Holds(rest, p, kinds)
      /\ \A p \in Products, sign \in {-1, 1} :
             IF IsDelta(e, p)
             THEN Units(out, p, sign) = 1..(sign * e.qty) /\ Units(rest, p, sign) = {}
             ELSE Units(rest, p, sign) = Units(out, p, sign)
  BY <1>1, <1>3, FirstGoes
<1>5. /\ req'[q].out = rest /\ OutOK(req'[q])
      /\ \A r \in Requests \ {q} : req'[r].out = req[r].out
  <2>1. OutOK(Emitting(rest)) /\ Emitting(rest).out = rest
    BY <1>4, EmittingOK
  <2>2. ASSUME NEW r \in Requests \ {q} PROVE req'[r].out = req[r].out
    <3>1. DOMAIN req[r] = DOMAIN IdleSlot /\ Same(r)
      BY <1>2 DEF IInv, SlotsOK, SlotOK
    <3> QED BY <3>1 DEF Same, IdleSlot
  <2> QED BY <1>2, <2>1, <2>2
<1>6. \A r \in Requests : OutOK(req[r])'
  <2>1. ASSUME NEW r \in Requests \ {q} PROVE OutOK(req'[r])
    <3>1. DOMAIN req[r] = DOMAIN IdleSlot /\ OutOK(req[r]) /\ Same(r)
      BY <1>2 DEF IInv, SlotsOK, SlotOK, PeerOK
    <3>2. CASE req[r].step = "send" /\ req'[r] = [req[r] EXCEPT !.step = "late"]
      <4>1. /\ req'[r].step = "late" /\ req'[r].out = req[r].out
        BY <3>1, <3>2 DEF IdleSlot
      <4> QED BY <3>1, <3>2, <4>1 DEF OutOK
    <3> QED BY <3>1, <3>2 DEF Same
  <2>2. \A r \in Requests : OutOK(req'[r])
    BY <1>5, <2>1
  <2> QED BY <2>2 DEF OutOK, OneEach, IsDelta
<1>7. /\ e.kind \in {"delta", "absolute", "details"} /\ e.item \in Products /\ e.qty \in Int
      /\ peer \in [Products -> [stock : Nat, cost : Nat]]
      /\ shelf \in [Products -> Nat] /\ cost \in [Products -> Nat] /\ Tracked \subseteq Products
  BY <1>4, StockRoomAssumption DEF Event, PeerOK, IInv, ShelfOK
<1>8. ASSUME NEW p \in Products, NEW sign \in {-1, 1}
      PROVE  /\ IsFiniteSet(Waiting(p, sign)')
             /\ ~IsDelta(e, p) => Waiting(p, sign)' = Waiting(p, sign)
             /\ IsDelta(e, p) =>
                  /\ Cardinality(Waiting(p, sign)') \in Nat
                  /\ Cardinality(Waiting(p, sign))
                         = Cardinality(Waiting(p, sign)') + AtLeastZero(sign * e.qty)
  <2>1. IsFiniteSet(Waiting(p, sign)) /\ sign * e.qty \in Int
    BY <1>7 DEF PeerOK
  <2>2. CASE IsDelta(e, p)
    <3>1. PICK m \in Int : m = sign * e.qty
      BY <2>1
    <3>2. Units(req[q].out, p, sign) = 1..m /\ Units(req'[q].out, p, sign) = {}
      BY <1>1, <1>4, <1>5, <2>2, <3>1
    <3>3. /\ IsFiniteSet(Waiting(p, sign)')
          /\ Cardinality(Waiting(p, sign)) = Cardinality(Waiting(p, sign)') + AtLeastZero(m)
      BY <1>5, <2>1, <3>2, WaitingTurns
    <3> QED BY <2>2, <3>1, <3>3, FS_CardinalityType
  <2>3. CASE ~IsDelta(e, p)
    <3>1. Units(req'[q].out, p, sign) = Units(req[q].out, p, sign)
      BY <1>1, <1>4, <1>5, <2>3
    <3> QED BY <1>5, <2>1, <2>3, <3>1, WaitingTurns, 0 \in Int
  <2> QED BY <2>2, <2>3
<1>9. ASSUME NEW p, NEW kinds, ~(e.item = p /\ e.kind \in kinds)
      PROVE  InFlight(p, kinds)' = InFlight(p, kinds)
  <2>1. ASSUME NEW r \in Requests
        PROVE  Holds(req'[r].out, p, kinds) <=> Holds(req[r].out, p, kinds)
    <3>1. CASE r = q
      BY <1>1, <1>4, <1>5, <1>9, <3>1
    <3>2. CASE r # q
      BY <1>5, <3>2
    <3> QED BY <3>1, <3>2
  <2> QED BY <2>1, FlightIs
<1>10. \A p \in Products, sign \in {-1, 1} : IsFiniteSet(Waiting(p, sign))'
  <2>1. ASSUME NEW p \in Products, NEW sign \in {-1, 1} PROVE IsFiniteSet(Waiting(p, sign))'
    BY <1>8
  <2> QED BY <2>1
<1>11. /\ peer' \in [Products -> [stock : Nat, cost : Nat]]
       /\ \A p \in Products \ {e.item} : peer'[p] = peer[p] /\ (p \in crossed' <=> p \in crossed)
       /\ e.kind = "delta" =>
              /\ peer'[e.item].stock = AtLeastZero(peer[e.item].stock + e.qty)
              /\ peer'[e.item].cost = peer[e.item].cost
              /\ e.item \notin crossed' =>
                     e.item \notin crossed /\ peer[e.item].stock + e.qty >= 0
       /\ e.kind = "absolute" /\ e.item \notin crossed' =>
                  /\ peer'[e.item].stock = shelf[e.item] /\ peer'[e.item].cost = cost[e.item]
                  /\ InFlight(e.item, {"delta"}) = {}
       /\ e.kind = "details" =>
              /\ peer'[e.item].stock = peer[e.item].stock
              /\ e.item \notin crossed' =>
                     /\ e.item \notin crossed
                     /\ \/ peer'[e.item].cost = cost[e.item]
                        \/ InFlight(e.item, {"absolute", "details"}) \ {q} # {}
  <2>1. CASE e.kind = "delta" /\ applyStockDelta(e)
    <3>1. AtLeastZero(peer[e.item].stock + e.qty) \in Nat
      BY <1>7 DEF AtLeastZero
    <3> QED BY <1>7, <2>1, <3>1 DEF applyStockDelta
  <2>2. CASE req[q].step = "send" /\ applyProduct(q, e)
    <3>1. PICK stock \in Nat, price \in Nat : /\ stock = req[q].figure[e.item]
                                              /\ price = req[q].price[e.item]
      BY <1>1, <2>2 DEF PeerOK, OutOK
    <3>2. CASE /\ e.kind = "absolute"
               /\ peer' = [peer EXCEPT ![e.item] = [stock |-> stock, cost |-> price]]
               /\ crossed' = IF /\ stock = shelf[e.item] /\ price = cost[e.item]
                                /\ InFlight(e.item, {"delta"}) = {}
                             THEN crossed \ {e.item} ELSE crossed \cup {e.item}
      BY <1>7, <3>2
    <3>3. CASE /\ e.kind = "details" /\ peer' = [peer EXCEPT ![e.item].cost = price]
               /\ crossed' = IF \/ price = cost[e.item]
                                \/ InFlight(e.item, {"absolute", "details"}) \ {q} # {}
                             THEN crossed ELSE crossed \cup {e.item}
      BY <1>7, <3>3
    <3> QED BY <2>2, <3>1, <3>2, <3>3 DEF applyProduct
  <2>3. CASE EmitLate(q)
    <3>1. req[q].step = "late" /\ e.kind # "delta"
      BY <1>1, <2>3 DEF EmitLate, PeerOK, OutOK
    <3>2. /\ peer' = peer
          /\ crossed' = IF /\ peer[e.item] = [stock |-> shelf[e.item], cost |-> cost[e.item]]
                           /\ InFlight(e.item, {"delta"}) = {}
                        THEN crossed ELSE crossed \cup {e.item}
      BY <1>1, <2>3 DEF EmitLate
    <3> QED BY <1>7, <3>1, <3>2
  <2> QED BY <1>2, <2>1, <2>2, <2>3
<1>12. ASSUME NEW p \in Tracked \ crossed'
       PROVE  /\ InFlight(p, {"absolute"})' = {} => StockFollows(p)'
              /\ InFlight(p, {"absolute", "details"})' = {} => peer'[p].cost = cost'[p]
  <2>0. /\ p \in Products
        /\ StockFollows(p)' <=> peer'[p].stock + Cardinality(Waiting(p, 1)')
                                    = shelf'[p] + Cardinality(Waiting(p, -1)')
    BY <1>7 DEF StockFollows
  <2>1. CASE p # e.item
    <3>1. /\ Waiting(p, 1)' = Waiting(p, 1) /\ Waiting(p, -1)' = Waiting(p, -1)
          /\ \A kinds : InFlight(p, kinds)' = InFlight(p, kinds)
          /\ peer'[p] = peer[p] /\ p \notin crossed
      BY <1>8, <1>9, <1>11, <1>12, <2>0, <2>1 DEF IsDelta
    <3> QED BY <1>2, <1>12, <2>0, <3>1 DEF PeerOK, StockFollows
  <2>2. CASE p = e.item /\ e.kind = "delta"
    <3>1. /\ InFlight(p, {"absolute"})' = InFlight(p, {"absolute"})
          /\ InFlight(p, {"absolute", "details"})' = InFlight(p, {"absolute", "details"})
          /\ p \in Tracked \ crossed
      BY <1>9, <1>11, <1>12, <2>2
    <3>2. ASSUME InFlight(p, {"absolute"})' = {} PROVE StockFollows(p)'
      <4>1. PICK a, b, v, w, n : /\ a = Cardinality(Waiting(p, 1)')
                                 /\ b = Cardinality(Waiting(p, -1)')
                                 /\ v = peer[p].stock /\ w = shelf[p] /\ n = e.qty
        OBVIOUS
      <4>2. PICK x, y : x = AtLeastZero(1 * n) /\ y = AtLeastZero((-1) * n)
        OBVIOUS
      <4>3. a \in Nat /\ b \in Nat /\ v \in Nat /\ w \in Nat /\ n \in Int
        BY <1>7, <1>8, <2>0, <2>2, <4>1 DEF IsDelta
      <4>4. x = y + n /\ x \in Nat /\ y \in Nat
        BY <4>2, <4>3 DEF AtLeastZero
      <4>5. v + (a + x) = w + (b + y)
        <5>1. StockFollows(p)
          BY <3>1, <3>2 DEF PeerOK
        <5>2. /\ Cardinality(Waiting(p, 1)) = a + x /\ Cardinality(Waiting(p, -1)) = b + y
          <6>1. IsDelta(e, p)
            BY <2>2 DEF IsDelta
          <6>2. ASSUME NEW sign \in {-1, 1}
                PROVE  Cardinality(Waiting(p, sign))
                           = Cardinality(Waiting(p, sign)') + AtLeastZero(sign * n)
            BY <1>8, <2>0, <4>1, <6>1
          <6>3. Cardinality(Waiting(p, 1)) = Cardinality(Waiting(p, 1)') + AtLeastZero(1 * n)
            BY <6>2
          <6>4. Cardinality(Waiting(p, -1)) = Cardinality(Waiting(p, -1)') + AtLeastZero((-1) * n)
            BY <6>2
          <6> QED BY <4>1, <4>2, <6>3, <6>4
        <5> QED BY <4>1, <5>1, <5>2 DEF StockFollows
      <4>6. peer'[p].stock = v + n
        BY <1>11, <1>12, <2>2, <4>1, <4>3 DEF AtLeastZero
      <4>7. (v + n) + a = w + b
        BY <4>3, <4>4, <4>5
      <4> QED BY <1>2, <2>0, <4>1, <4>6, <4>7
    <3>3. ASSUME InFlight(p, {"absolute", "details"})' = {} PROVE peer'[p].cost = cost'[p]
      BY <1>2, <1>11, <2>2, <3>1, <3>3 DEF PeerOK
    <3> QED BY <3>2, <3>3
  <2>3. CASE p = e.item /\ e.kind = "absolute"
    <3>1. InFlight(p, {"delta"}) = {} /\ ~IsDelta(e, p)
      BY <1>11, <1>12, <2>3 DEF IsDelta
    <3>2. Waiting(p, 1)' = {} /\ Waiting(p, -1)' = {}
      BY <1>8, <2>0, <3>1, NoDeltas
    <3> QED BY <1>2, <1>11, <1>12, <2>0, <2>3, <3>2
  <2>4. CASE p = e.item /\ e.kind = "details"
    <3>1. /\ InFlight(p, {"absolute"})' = InFlight(p, {"absolute"})
          /\ p \in Tracked \ crossed /\ ~IsDelta(e, p)
      BY <1>9, <1>11, <1>12, <2>4 DEF IsDelta
    <3>2. Waiting(p, 1)' = Waiting(p, 1) /\ Waiting(p, -1)' = Waiting(p, -1)
      BY <1>8, <2>0, <3>1
    <3>3. ASSUME InFlight(p, {"absolute", "details"})' = {} PROVE peer'[p].cost = cost'[p]
      <4>1. ASSUME NEW r \in InFlight(p, {"absolute", "details"}) \ {q} PROVE FALSE
        <5>1. r \in Requests /\ req'[r].out = req[r].out /\ Holds(req[r].out, p, {"absolute", "details"})
          BY <1>5, <4>1, FlightIs
        <5> QED BY <3>3, <5>1, FlightIs
      <4> QED BY <1>2, <1>11, <1>12, <2>4, <4>1
    <3> QED BY <1>2, <1>11, <1>12, <2>0, <2>4, <3>1, <3>2, <3>3 DEF PeerOK, StockFollows
  <2> QED BY <1>7, <2>1, <2>2, <2>3, <2>4
<1> QED BY <1>6, <1>10, <1>11, <1>12 DEF PeerOK

\* A process that dies: what it had to tell is lost, and known to be.
LEMMA CrashPeer == ASSUME IInv, PeerOK, Crash PROVE PeerOK'
<1>1. /\ req' = [q \in Requests |-> IdleSlot] /\ UNCHANGED <<peer, shelf, cost>>
      /\ crossed' = crossed \cup
             {p \in Products : InFlight(p, {"delta", "absolute", "details"}) # {}}
  BY DEF Crash, books
<1>2. \A q \in Requests : req'[q].out = <<>> /\ req'[q].step = "idle"
  BY <1>1 DEF IdleSlot
<1>3. \A q \in Requests : OutOK(req[q])'
  <2>1. <<>> \in Seq(Event) /\ DOMAIN <<>> = {}
    OBVIOUS
  <2> QED BY <1>2, <2>1 DEF OutOK, OneEach
<1>4. ASSUME NEW p, NEW sign PROVE Waiting(p, sign)' = {}
  <2>1. InFlight(p, {"delta"})' = {}
    BY <1>2 DEF InFlight
  <2>2. ASSUME NEW q \in Requests PROVE Units(req'[q].out, p, sign) = {}
    <3>1. {j \in DOMAIN req'[q].out : IsDelta(req'[q].out[j], p)} = {}
      BY <1>2
    <3> QED BY <3>1 DEF Units
  <2>3. Waiting(p, sign)' = UNION {{q} \X Units(req'[q].out, p, sign) : q \in Requests}
    BY DEF Waiting, Units, IsDelta
  <2> QED BY <2>2, <2>3
<1>5. ASSUME NEW p \in Tracked \ crossed'
      PROVE  StockFollows(p)' /\ peer'[p].cost = cost'[p]
  <2>1. /\ p \in Tracked \ crossed /\ InFlight(p, {"delta"}) = {}
        /\ InFlight(p, {"absolute"}) = {} /\ InFlight(p, {"absolute", "details"}) = {}
    <3>1. p \in Products
      BY StockRoomAssumption
    <3>2. InFlight(p, {"delta", "absolute", "details"}) = {}
      BY <1>1, <1>5, <3>1
    <3> QED BY <1>1, <1>5, <3>2 DEF InFlight
  <2>2. Waiting(p, 1) = {} /\ Waiting(p, -1) = {}
    BY <2>1, NoDeltas
  <2>3. StockFollows(p) /\ peer[p].cost = cost[p]
    BY <2>1 DEF PeerOK
  <2>4. peer[p].stock + Cardinality({}) = shelf[p] + Cardinality({})
    BY <2>2, <2>3 DEF StockFollows
  <2> QED BY <1>1, <1>4, <2>3, <2>4 DEF StockFollows
<1>6. \A p \in Products, sign \in {-1, 1} : IsFiniteSet(Waiting(p, sign))'
  BY <1>4, FS_EmptySet
<1> QED BY <1>1, <1>3, <1>5, <1>6 DEF PeerOK

\* At first both tills have the same, and nothing is to be told.
LEMMA InitPeer == Init => PeerOK
<1> SUFFICES ASSUME Init PROVE PeerOK
  OBVIOUS
<1>1. \A q \in Requests : req[q].out = <<>> /\ req[q].step = "idle"
  BY DEF Init, IdleSlot
<1>2. \A q \in Requests : OutOK(req[q])
  <2>1. <<>> \in Seq(Event) /\ DOMAIN <<>> = {}
    OBVIOUS
  <2> QED BY <1>1, <2>1 DEF OutOK, OneEach
<1>3. ASSUME NEW p, NEW sign PROVE Waiting(p, sign) = {}
  <2>1. InFlight(p, {"delta"}) = {}
    BY <1>1 DEF InFlight
  <2> QED BY <2>1, NoDeltas
<1>4. /\ peer \in [Products -> [stock : Nat, cost : Nat]]
      /\ \A p \in Products : peer[p].stock = shelf[p] /\ peer[p].cost = cost[p]
  BY StockRoomAssumption DEF Init
<1>5. ASSUME NEW p \in Tracked PROVE StockFollows(p) /\ peer[p].cost = cost[p]
  BY <1>3, <1>4, StockRoomAssumption DEF StockFollows
<1> QED BY <1>2, <1>3, <1>4, <1>5, FS_EmptySet DEF PeerOK

\* Every step leaves the other till as near.
LEMMA StepPeer == IInv /\ PeerOK /\ [Next]_vars => PeerOK'
<1> SUFFICES ASSUME IInv, PeerOK, [Next]_vars PROVE PeerOK'
  OBVIOUS
<1>1. ASSUME UNCHANGED <<peer, shelf, cost, crossed, req>> PROVE PeerOK'
  BY <1>1, OutsStay DEF PeerOK
<1>2. ASSUME NEW q \in Requests, Selling(q) PROVE PeerOK'
  BY <1>2, MovePeer DEF Selling, SellOne, AdjustStock
<1>3. ASSUME NEW q \in Requests, Purchasing(q) PROVE PeerOK'
  <2>1. ASSUME NEW d \in Deliveries, CreatePO(d) \/ CancelPO(d) PROVE PeerOK'
    BY <1>1, <2>1 DEF CreatePO, CancelPO, books
  <2> QED BY <1>3, <2>1, ReceivePeer DEF Purchasing
<1>4. ASSUME NEW q \in Requests, Taking(q) PROVE PeerOK'
  <2>1. ASSUME NEW t \in Takes, \/ \E S \in Sheets : CreateTake(t, S)
                                \/ \E p \in Products : CountTake(t, p)
                                \/ CancelTake(t)
        PROVE  PeerOK'
    BY <1>1, <2>1 DEF CreateTake, CountTake, CancelTake, books
  <2>2. ASSUME NEW t \in Takes, ApplyTake(q, t) PROVE PeerOK'
    <3>1. PICK F \in SUBSET Products : F = DOMAIN take[t].figure
      BY DEF IInv, TakesOK, TakeOK, Figure
    <3>2. /\ Idle(q) /\ UNCHANGED <<peer, crossed, cost>>
          /\ shelf' = Over(take[t].figure, shelf)
          /\ Put(q, Emitting(SetToSeq({Absolute(p) : p \in F})))
      BY <2>2, <3>1 DEF ApplyTake, SetShelf
    <3>3. \A p \in Products \ F : shelf'[p] = shelf[p] /\ cost'[p] = cost[p]
      BY <3>1, <3>2 DEF Over, IInv, ShelfOK
    <3> QED BY <3>2, <3>3, FiguresPeer
  <2> QED BY <1>4, <2>1, <2>2 DEF Taking
<1>5. ASSUME NEW q \in Requests, Counting(q) PROVE PeerOK'
  <2>1. ASSUME NEW c \in Counts, StartStockCount(c) PROVE PeerOK'
    BY <1>1, <2>1 DEF StartStockCount, books
  <2>2. ASSUME NEW c \in Counts, NEW p \in Products, SaveCountRead(q, c, p) PROVE PeerOK'
    <3>1. PICK v : Put(q, [IdleSlot EXCEPT !.step = "line", !.doc = c,
                                  !.figure = [x \in {p} |-> v], !.exact = {p}])
      BY <2>2 DEF SaveCountRead
    <3>2. Idle(q) /\ UNCHANGED <<peer, shelf, cost, crossed>>
      BY <2>2 DEF SaveCountRead, books
    <3>3. PICK slot : slot = [IdleSlot EXCEPT !.step = "line", !.doc = c,
                                  !.figure = [x \in {p} |-> v], !.exact = {p}]
      OBVIOUS
    <3>4. slot.out = <<>> /\ slot.step \notin {"emit", "send", "late"}
      BY <3>3 DEF IdleSlot
    <3> QED BY <3>1, <3>2, <3>3, <3>4, SlotPeer
  <2>3. ASSUME SaveCountWrite(q) PROVE PeerOK'
    <3>1. PICK slot : slot = [req[q] EXCEPT !.step = "tally", !.figure = Nothing, !.exact = {}]
      OBVIOUS
    <3>2. /\ req[q].step = "line" /\ Put(q, slot) /\ UNCHANGED <<peer, shelf, cost, crossed>>
      BY <2>3, <3>1 DEF SaveCountWrite, books
    <3>3. slot.out = req[q].out /\ slot.step = "tally"
      BY <3>1 DEF IInv, SlotsOK, SlotOK, IdleSlot
    <3> QED BY <3>2, <3>3, NothingToEmit, SlotPeer
  <2>4. ASSUME SaveCountTally(q) PROVE PeerOK'
    <3>1. /\ req[q].step = "tally" /\ Put(q, IdleSlot) /\ UNCHANGED <<peer, shelf, cost, crossed>>
      BY <2>4 DEF SaveCountTally, books
    <3>2. IdleSlot.out = <<>> /\ IdleSlot.step \notin {"emit", "send", "late"}
      BY DEF IdleSlot
    <3> QED BY <3>1, <3>2, SlotPeer
  <2>5. ASSUME NEW c \in Counts, CompleteStockCount(q, c, TRUE) PROVE PeerOK'
    <3>1. PICK F : F = Adjusted(c)
      OBVIOUS
    <3>2. F \in SUBSET Products
      BY <3>1, StockRoomAssumption DEF IInv, CountsOK, CountOK, Adjusted, NotedOn
    <3>3. /\ Idle(q) /\ UNCHANGED <<peer, crossed, cost>>
          /\ shelf' = Over([p \in F |-> AtLeastZero(count[c].noted[p])], shelf)
          /\ Put(q, Emitting(SetToSeq({Absolute(p) : p \in F})))
      BY <2>5, <3>1 DEF CompleteStockCount, SetShelf
    <3>4. \A p \in Products \ F : shelf'[p] = shelf[p] /\ cost'[p] = cost[p]
      BY <3>2, <3>3 DEF Over, IInv, ShelfOK
    <3> QED BY <3>2, <3>3, <3>4, FiguresPeer
  <2>6. ASSUME NEW c \in Counts, CompleteStockCount(q, c, FALSE) PROVE PeerOK'
    BY <1>1, <2>6 DEF CompleteStockCount
  <2> QED BY <1>5, <2>1, <2>2, <2>3, <2>4, <2>5, <2>6 DEF Counting
<1>6. ASSUME NEW q \in Requests, Editing(q) PROVE PeerOK'
  <2>1. ASSUME NEW S \in Sheets, NEW filled \in BOOLEAN, OpenSheet(q, S, filled) PROVE PeerOK'
    <3>1. PICK slot : slot = [IdleSlot EXCEPT !.step = "sheet",
          !.figure = [p \in S |-> IF filled THEN shelf[p] ELSE 0],
          !.price = [p \in S |-> cost[p]],
          !.exact = {p \in S : IF filled THEN p \notin stale ELSE goods[p] = 0}]
      OBVIOUS
    <3>2. Idle(q) /\ Put(q, slot) /\ UNCHANGED <<peer, shelf, cost, crossed>>
      BY <2>1, <3>1 DEF OpenSheet, books
    <3>3. slot.out = <<>> /\ slot.step \notin {"emit", "send", "late"}
      BY <3>1 DEF IdleSlot
    <3> QED BY <3>2, <3>3, SlotPeer
  <2>2. ASSUME WriteSheet(q) PROVE PeerOK'
    <3>1. PICK sheet : sheet = req[q]
      OBVIOUS
    <3>2. /\ sheet.step = "sheet" /\ UNCHANGED <<peer, crossed>>
          /\ shelf' = Over(sheet.figure, shelf) /\ cost' = Over(sheet.price, cost)
          /\ Put(q, Emitting(SetToSeq({Absolute(p) : p \in DOMAIN sheet.figure})))
          /\ SheetOK(sheet)
      BY <2>2, <3>1 DEF WriteSheet, SetShelf, IInv, SlotsOK, SlotOK
    <3>3. PICK F \in SUBSET Products : F = DOMAIN sheet.figure /\ DOMAIN sheet.price = F
      BY <3>2 DEF SheetOK, Figure
    <3>4. \A p \in Products \ F : shelf'[p] = shelf[p] /\ cost'[p] = cost[p]
      BY <3>2, <3>3 DEF Over, IInv, ShelfOK
    <3>5. Put(q, Emitting(SetToSeq({Absolute(p) : p \in F})))
      BY <3>2, <3>3
    <3>6. req[q].step \notin {"emit", "send", "late"}
      BY <3>1, <3>2
    <3> QED BY <3>2, <3>4, <3>5, <3>6, FiguresPeer
  <2> QED BY <1>6, <2>1, <2>2 DEF Editing, UpdateProduct, ProductsImport
<1>7. CASE UNCHANGED vars
  BY <1>1, <1>7 DEF vars, books
<1> QED BY <1>2, <1>3, <1>4, <1>5, <1>6, <1>7, ReadPeer, EmitPeer, CrashPeer DEF Next

\* When every event is out, a till that applied them all has the same stock and the same
\* cost, unless events were lost in a crash, a figure was sent that the row no longer had,
\* met a movement under way or came too late, or one of the two shelves was clamped at zero
\* (teamsync_emit.go).
THEOREM AnotherTillFollows == Spec => []PeerFollows
<1>1. IInv /\ PeerOK => PeerFollows
  <2> SUFFICES ASSUME IInv, PeerOK, NEW p \in Tracked \ crossed,
                      InFlight(p, {"delta", "absolute", "details"}) = {}
               PROVE  peer[p] = [stock |-> shelf[p], cost |-> cost[p]]
    BY DEF PeerFollows
  <2>1. /\ InFlight(p, {"delta"}) = {} /\ InFlight(p, {"absolute"}) = {}
        /\ InFlight(p, {"absolute", "details"}) = {}
    BY DEF InFlight
  <2>2. StockFollows(p) /\ peer[p].cost = cost[p]
    BY <2>1 DEF PeerOK
  <2>3. /\ p \in Products /\ peer[p] \in [stock : Nat, cost : Nat] /\ shelf[p] \in Nat
    BY StockRoomAssumption DEF PeerOK, IInv, ShelfOK
  <2>4. Waiting(p, 1) = {} /\ Waiting(p, -1) = {}
    BY <2>1, NoDeltas
  <2>5. peer[p].stock = shelf[p]
    <3>1. peer[p].stock \in Nat /\ Cardinality({}) = 0
      BY <2>3, FS_EmptySet
    <3>2. peer[p].stock + Cardinality({}) = shelf[p] + Cardinality({})
      BY <2>2, <2>4 DEF StockFollows
    <3> QED BY <2>3, <3>1, <3>2
  <2> QED BY <2>2, <2>3, <2>5
<1>2. IInv /\ PeerOK /\ [Next]_vars => IInv' /\ PeerOK'
  BY StepIInv, StepPeer
<1>3. Init => IInv /\ PeerOK
  BY InitIInv, InitPeer
<1> QED BY <1>1, <1>2, <1>3, PTL DEF Spec
==============================================================================
