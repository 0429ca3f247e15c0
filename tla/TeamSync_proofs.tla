---------------------------- MODULE TeamSync_proofs ----------------------------
(***************************************************************************)
(* What is proved about the tills of a team, for any number of tills,      *)
(* orders, batches and failures.                                           *)
(*                                                                         *)
(* LogOK ties the log to the outboxes it came from.  OnceOK counts the     *)
(* runs of an event against what may still run it: its place in the batch  *)
(* of the cycle, in the batch of the button and among the dead letters.    *)
(* TabOK counts a charge against the rows that still announce it.          *)
(* Agreement, in the second half, is what makes the tills agree.           *)
(***************************************************************************)
EXTENDS TeamSync, TLAPS, FiniteSetTheorems, SequenceTheorems, WellFoundedInduction

Status == {"absent", "PENDING", "PAID", "VOIDED"}
OutRows ==
    {r \in [event : Events, state : {"pending", "pushed", "quarantined"}, tries : 0..MaxPush] :
        r.state = "pending" => r.tries < MaxPush}
LogRows == [event : Events, by : Tills, uuid : Nat]
Counted == UNION {[D -> Nat \ {0}] : D \in SUBSET Nat}

TablesOK ==
    /\ rec \in [Tills -> [Orders -> Status]]
    /\ bare \in [Tills -> SUBSET Orders] /\ known \in SUBSET Tills
    /\ stock \in [Tills -> Nat]
    /\ booked \in [Tills -> [Movements -> Nat]]
    /\ unsynced \in [Tills -> SUBSET Movements]

WiresOK ==
    /\ outbox \in [Tills -> Seq(OutRows)]
    /\ clerk \in [Tills -> SUBSET Movements] /\ twice \in [Tills -> Nat]
    /\ log \in Seq(LogRows)

\* What a till holds of other tills' events is in the log.
InboundOK ==
    /\ cursor \in [Tills -> Nat]
    /\ applied \in [Tills -> SUBSET Nat] /\ dead \in [Tills -> SUBSET Nat]
    /\ cycle \in [Tills -> [pc : Todos, todo : Seq(Nat)]]
    /\ button \in [Tills -> Seq(Nat)]
    /\ runs \in [Tills -> Counted]
    /\ rewound \in SUBSET Tills
    /\ \A t \in Tills :
        /\ cursor[t] <= Len(log)
        /\ applied[t] \cup dead[t] \cup DOMAIN runs[t] \subseteq Foreign(t)
        /\ ToSet(cycle[t].todo) \subseteq Foreign(t)
        /\ ToSet(button[t]) \subseteq Foreign(t)

FaultsOK ==
    /\ lost \in Nat /\ refused \in Nat /\ crashes \in Nat /\ presses \in Nat
    /\ lost + refused + crashes + presses <= MaxFaults
    /\ torn \in [Tills -> Nat] /\ \A t \in Tills : torn[t] <= crashes

\* An entry of the log is a row of the outbox it came from.
LogOK ==
    /\ \A k \in DOMAIN log :
        /\ log[k].uuid \in DOMAIN outbox[log[k].by]
        /\ log[k].event = outbox[log[k].by][log[k].uuid].event
    /\ LogIsTrue

Rising(s) == \A i, j \in DOMAIN s : i < j => s[i] < s[j]

\* Batches are in the order of the log; an event that waits for a retry is a
\* stock delta, has a dead letter or is applied, and is behind the cursor,
\* if that was never set back.
BatchesOK(t) ==
    /\ Rising(cycle[t].todo) /\ Rising(button[t])
    /\ button[t] # <<>> => presses > 0
    /\ \A i \in dead[t] : log[i].event.kind = "stock"
    /\ ToSet(button[t]) \subseteq dead[t] \cup applied[t]
    /\ \A i \in ToSet(button[t]) : log[i].event.kind = "stock"
    /\ cycle[t].pc = "retry" => \A i \in ToSet(cycle[t].todo) :
           i \in dead[t] \cup applied[t] /\ log[i].event.kind = "stock"
    /\ t \notin rewound =>
        /\ \A i \in dead[t] : i <= cursor[t]
        /\ cycle[t].pc = "apply" => \A i \in ToSet(cycle[t].todo) : cursor[t] < i

\* The batches that will run an event once more.
Copies(t, i) ==
    OneIf(cycle[t].pc = "retry" /\ i \in ToSet(cycle[t].todo)) + OneIf(i \in ToSet(button[t]))
Spare(t) == OneIf(presses > 0) + OneIf(t \in rewound)

\* How often an event may have run: not at all but for deaths while it is not
\* marked; once as long as its dead letter is still there, which takes a cursor
\* that was set back; and with what still runs it in the end.
OnceOK(t) ==
    \A i \in Foreign(t) :
        /\ i \notin applied[t] => Ran(t, i) <= torn[t]
        /\ i \in applied[t] \cap dead[t] => t \in rewound /\ Ran(t, i) <= 1 + torn[t]
        /\ i \in applied[t] \ dead[t] => Ran(t, i) + Copies(t, i) <= 1 + torn[t] + Spare(t)

\* An order somewhere is an order at home, a voided one in an outbox is voided
\* on that till, and an order event that ran left the order there.
OrdersOK ==
    \A t \in Tills :
        /\ \A o \in Orders : rec[t][o] # "absent" => rec[Home[o]][o] # "absent"
        /\ \A i \in DOMAIN outbox[t] :
            LET ev == outbox[t][i].event IN
            ev.kind = "order" => /\ rec[t][ev.order] # "absent"
                                 /\ ev.status = "VOIDED" => rec[t][ev.order] = "VOIDED"
        /\ \A i \in DOMAIN runs[t] :
            LET ev == log[i].event IN
            ev.kind = "order" /\ ev.status # "VOIDED" => rec[t][ev.order] # "absent"

Charge(o) == <<o, "charge">>
ChargeEvent(o) == LedgerEvent(Charge(o))
Announced(t, o) == {i \in DOMAIN outbox[t] : outbox[t][i].event = ChargeEvent(o)}
Taken(t, h, i) == \E k \in applied[t] : log[k].by = h /\ log[k].uuid = i
\* The rows that may still charge the order on a till.
Due(t, o) == {i \in Announced(Home[o], o) : ~Taken(t, Home[o], i)}
Waits(t, o) == Charge(o) \in unsynced[t] \cup clerk[t]
\* The events that may still announce it: one as long as it waits for that, one
\* before the checkout.
Owed(o) == OneIf(Waits(Home[o], o)) + OneIf(rec[Home[o]][o] = "absent")

TabOK(o) ==
    /\ \A t \in Tills : t # Home[o] => ~Waits(t, o) /\ Announced(t, o) = {}
    /\ booked[Home[o]][Charge(o)] = OneIf(rec[Home[o]][o] # "absent")
    /\ \A t \in Tills : t # Home[o] =>
           booked[t][Charge(o)] + Cardinality(Due(t, o)) + Owed(o)
               <= 1 + torn[t] + twice[Home[o]]
    /\ lost = 0 /\ rec[Home[o]][o] # "absent" =>
           Charge(o) \in unsynced[Home[o]] \/ Announced(Home[o], o) # {}
    /\ \A t \in Tills : \A i \in DOMAIN runs[t] :
           log[i].event = ChargeEvent(o) => booked[t][Charge(o)] >= 1

TypeInv == TablesOK /\ WiresOK /\ InboundOK /\ FaultsOK
IInv ==
    /\ TypeInv /\ LogOK
    /\ \A t \in Tills : BatchesOK(t) /\ OnceOK(t)
    /\ OrdersOK /\ \A o \in Tabs : TabOK(o)
-----------------------------------------------------------------------------
\* A set of natural numbers that is not empty has a least element.
LEMMA Least ==
    ASSUME NEW T \in SUBSET Nat, T # {}
    PROVE  \E x \in T : \A y \in T : x <= y
<1> DEFINE R == OpToRel(<, Nat)
<1>1. PICK x \in T : ~ \E y \in T : <<y, x>> \in R
  BY NatLessThanWellFounded, WFMin
<1> HIDE DEF R
<1>2. \A y \in T : x <= y
  BY <1>1 DEF R, OpToRel
<1> QED BY <1>2

\* The numbers of S up to a given one.
UpTo(S, i) == {j \in S : j <= i}

\* One more number, one more at most.
LEMMA UpToSteps ==
    ASSUME NEW n \in Nat, NEW S \in SUBSET (1..n)
    PROVE  /\ IsFiniteSet(S) /\ Cardinality(S) \in Nat
           /\ \A i \in Nat : IsFiniteSet(UpTo(S, i)) /\ Cardinality(UpTo(S, i)) \in Nat
           /\ Cardinality(UpTo(S, 0)) = 0 /\ UpTo(S, n) = S
           /\ \A i \in Nat : Cardinality(UpTo(S, i + 1)) =
                  Cardinality(UpTo(S, i)) + IF i + 1 \in S THEN 1 ELSE 0
           /\ \A i, j \in S : i < j => Cardinality(UpTo(S, i)) < Cardinality(UpTo(S, j))
<1>0. \A s \in S : s \in Nat /\ 0 < s /\ s <= n
  OBVIOUS
<1>1. IsFiniteSet(S) /\ Cardinality(S) \in Nat
  <2>1. IsFiniteSet(1..n)
    BY FS_Interval
  <2> QED BY <2>1, FS_Subset, FS_CardinalityType
<1>2. ASSUME NEW i \in Nat
      PROVE  IsFiniteSet(UpTo(S, i)) /\ Cardinality(UpTo(S, i)) \in Nat
  <2>1. UpTo(S, i) \in SUBSET S
    BY DEF UpTo
  <2> QED BY <1>1, <2>1, FS_Subset, FS_CardinalityType
<1> DEFINE U(i) == UpTo(S, i)
<1>a. /\ \A i \in Nat : \A x \in Nat : x \in U(i) <=> x \in S /\ x <= i
      /\ \A i \in Nat : \A x \in U(i) : x \in Nat
  <2>1. \A i \in Nat : \A x \in U(i) : x \in S
    BY DEF UpTo
  <2> QED BY <2>1, <1>0 DEF UpTo
<1>b. \A s \in S : s \in Nat /\ 0 < s /\ s <= n
  BY <1>0
<1> HIDE DEF U
<1>3. UpTo(S, 0) = {} /\ UpTo(S, n) = S
  <2>1. U(0) = {}
    <3>1. ASSUME NEW x \in U(0) PROVE FALSE
      <4>1. x \in Nat
        BY <1>a
      <4> QED BY <4>1, <1>a, <1>b
    <3> QED BY <3>1
  <2>2. \A x : x \in U(n) <=> x \in S
    BY <1>a, <1>b
  <2> QED BY <2>1, <2>2 DEF U
<1>4. ASSUME NEW i \in Nat
      PROVE  Cardinality(UpTo(S, i + 1)) =
                 Cardinality(UpTo(S, i)) + IF i + 1 \in S THEN 1 ELSE 0
  <2>1. CASE i + 1 \in S
    <3>0. /\ \A x \in Nat : x \in U(i + 1) <=> x \in U(i) \/ x = i + 1
          /\ i + 1 \notin U(i)
          /\ \A x \in U(i) \cup U(i + 1) : x \in Nat
      BY <2>1, <1>a, <1>b
    <3>1. UpTo(S, i + 1) = UpTo(S, i) \cup {i + 1} /\ i + 1 \notin UpTo(S, i)
      BY <3>0 DEF U
    <3> QED BY <2>1, <3>1, <1>2, FS_AddElement
  <2>2. CASE i + 1 \notin S
    <3>0. /\ \A x \in Nat : x \in U(i + 1) <=> x \in U(i)
          /\ \A x \in U(i) \cup U(i + 1) : x \in Nat
      BY <2>2, <1>a, <1>b
    <3>1. UpTo(S, i + 1) = UpTo(S, i)
      BY <3>0 DEF U
    <3> QED BY <2>2, <3>1, <1>2
  <2> QED BY <2>1, <2>2
<1>5. ASSUME NEW i \in S, NEW j \in S, i < j
      PROVE  Cardinality(UpTo(S, i)) < Cardinality(UpTo(S, j))
  <2>0. /\ i \in Nat /\ j \in Nat /\ j \in U(j) /\ j \notin U(i)
        /\ \A x \in U(i) : x \in U(j)
    BY <1>5, <1>a, <1>b
  <2>1. UpTo(S, i) \in SUBSET UpTo(S, j) /\ UpTo(S, i) # UpTo(S, j)
    BY <2>0 DEF U
  <2> QED BY <2>0, <2>1, <1>2, FS_Subset
<1> QED BY <1>1, <1>2, <1>3, <1>4, <1>5, FS_EmptySet

\* The k-th number of a set is there.
LEMMA NthIs ==
    ASSUME NEW n \in Nat, NEW S \in SUBSET (1..n), NEW k \in 1..Cardinality(S)
    PROVE  Nth(S, k) \in S /\ Cardinality(UpTo(S, Nth(S, k))) = k
<1> DEFINE Enough == {i \in Nat : Cardinality(UpTo(S, i)) >= k}
<1>0. /\ \A s \in S : s \in Nat
      /\ Cardinality(S) \in Nat /\ k \in Nat /\ 0 < k /\ k <= Cardinality(S)
      /\ \A i \in Nat : Cardinality(UpTo(S, i)) \in Nat
  BY UpToSteps
<1>1. n \in Enough
  BY <1>0, UpToSteps
<1>2. PICK m \in Enough : \A i \in Enough : m <= i
  BY <1>1, Least
<1>3. m # 0 /\ m - 1 \in Nat /\ m - 1 \notin Enough
  <2>1. Cardinality(UpTo(S, 0)) = 0
    BY UpToSteps
  <2>2. m \in Nat /\ m # 0
    BY <2>1, <1>2, <1>0
  <2> QED BY <2>2, <1>2
<1>4. Cardinality(UpTo(S, m - 1)) \in Nat /\ Cardinality(UpTo(S, m - 1)) < k
  BY <1>3, <1>0
<1>5. PICK i \in Nat : i = m - 1
  BY <1>3
<1>6. i + 1 = m
  BY <1>5, <1>2
<1>7. /\ Cardinality(UpTo(S, i + 1)) = Cardinality(UpTo(S, i)) + IF i + 1 \in S THEN 1 ELSE 0
  BY UpToSteps
<1>8. m \in S /\ Cardinality(UpTo(S, m)) = k
  BY <1>0, <1>2, <1>4, <1>5, <1>6, <1>7
<1> QED BY <1>8 DEF Nth, UpTo

\* Ascending lists a set of numbers in order.
LEMMA AscendingIs ==
    ASSUME NEW n \in Nat, NEW S \in SUBSET (1..n)
    PROVE  /\ Ascending(S) \in Seq(S) /\ Ascending(S) \in [1..Cardinality(S) -> S]
           /\ Cardinality(S) \in Nat /\ Len(Ascending(S)) = Cardinality(S)
           /\ Rising(Ascending(S))
           /\ \A i \in S : \E k \in 1..Cardinality(S) : Ascending(S)[k] = i
<1>0. Cardinality(S) \in Nat /\ \A s \in S : s \in Nat
  BY UpToSteps
<1>1. \A k \in 1..Cardinality(S) : Nth(S, k) \in S /\ Cardinality(UpTo(S, Nth(S, k))) = k
  BY NthIs
<1>2. Ascending(S) \in [1..Cardinality(S) -> S]
  BY <1>1 DEF Ascending
<1>3. Ascending(S) \in Seq(S) /\ Len(Ascending(S)) = Cardinality(S)
  BY <1>0, <1>2
<1>4. ASSUME NEW i \in 1..Cardinality(S), NEW j \in 1..Cardinality(S), i < j
      PROVE  Nth(S, i) < Nth(S, j)
  <2>1. Nth(S, i) \in S /\ Nth(S, j) \in S /\ Nth(S, i) \in Nat /\ Nth(S, j) \in Nat
    BY <1>0, <1>1
  <2>2. Nth(S, j) < Nth(S, i) => Cardinality(UpTo(S, Nth(S, j))) < Cardinality(UpTo(S, Nth(S, i)))
    BY <2>1, UpToSteps
  <2>3. ~(Nth(S, j) < Nth(S, i)) /\ Nth(S, j) # Nth(S, i)
    BY <2>2, <1>1, <1>4
  <2> QED BY <2>1, <2>3
<1>5. Rising(Ascending(S))
  BY <1>0, <1>4 DEF Rising, Ascending
<1>6. ASSUME NEW i \in S
      PROVE  \E k \in 1..Cardinality(S) : Ascending(S)[k] = i
  <2> DEFINE k == Cardinality(UpTo(S, i))
  <2>1. UpTo(S, i) \in SUBSET S /\ i \in UpTo(S, i) /\ i \in Nat
    BY DEF UpTo
  <2>2. k \in Nat /\ k # 0 /\ k <= Cardinality(S)
    BY <2>1, UpToSteps, FS_Subset, FS_EmptySet
  <2>3. k \in 1..Cardinality(S)
    BY <2>2, <1>0
  <2>4. Nth(S, k) \in S /\ Cardinality(UpTo(S, Nth(S, k))) = k /\ Nth(S, k) \in Nat
    BY <2>3, <1>0, <1>1
  <2> HIDE DEF k
  <2>5. ~(Nth(S, k) < i) /\ ~(i < Nth(S, k))
    <3>1. /\ Nth(S, k) < i => Cardinality(UpTo(S, Nth(S, k))) < Cardinality(UpTo(S, i))
          /\ i < Nth(S, k) => Cardinality(UpTo(S, i)) < Cardinality(UpTo(S, Nth(S, k)))
      BY <2>4, UpToSteps
    <3> QED BY <3>1, <2>4, <2>2 DEF k
  <2>6. Nth(S, k) = i
    BY <2>4, <2>1, <2>5
  <2> QED BY <2>3, <2>6 DEF Ascending
<1> QED BY <1>0, <1>2, <1>3, <1>5, <1>6

\* SetToSeq lists a finite set, each element once.
LEMMA SetToSeqIs ==
    ASSUME NEW S, IsFiniteSet(S)
    PROVE  /\ SetToSeq(S) \in Seq(S)
           /\ \A i, j \in DOMAIN SetToSeq(S) : SetToSeq(S)[i] = SetToSeq(S)[j] => i = j
           /\ \A x \in S : \E i \in DOMAIN SetToSeq(S) : SetToSeq(S)[i] = x
<1>1. PICK g : g \in Bijection(1..Cardinality(S), S) /\ Cardinality(S) \in Nat
  BY FS_CardinalityType DEF ExistsBijection
<1>2. g \in [1..Cardinality(S) -> S] /\ IsInjective(g)
  BY <1>1 DEF Bijection, Injection, Surjection, IsInjective
<1>3. /\ SetToSeq(S) \in [1..Cardinality(S) -> S]
      /\ IsInjective(SetToSeq(S))
  BY <1>2 DEF SetToSeq
<1>4. \A i, j \in DOMAIN SetToSeq(S) : SetToSeq(S)[i] = SetToSeq(S)[j] => i = j
  BY <1>3 DEF IsInjective
<1>5. SetToSeq(S) \in Injection(1..Cardinality(S), S)
  BY <1>3, <1>4 DEF Injection, IsInjective
<1>6. IsFiniteSet(1..Cardinality(S)) /\ Cardinality(1..Cardinality(S)) = Cardinality(S)
  BY <1>1, FS_Interval
<1>7. SetToSeq(S) \in Surjection(1..Cardinality(S), S)
  BY <1>5, <1>6, FS_Injection
<1>8. \A x \in S : \E i \in DOMAIN SetToSeq(S) : SetToSeq(S)[i] = x
  BY <1>7, <1>3 DEF Surjection
<1> QED BY <1>1, <1>3, <1>4, <1>8
-----------------------------------------------------------------------------
\* The five kinds of events.
LEMMA EventIs ==
    /\ Product \in Events /\ Product.kind = "product"
    /\ \A o \in Orders :
        /\ Delta(o, -1) \in Events /\ Delta(o, -1).kind = "stock"
        /\ VoidEvent(o) \in Events /\ VoidEvent(o).kind = "void"
        /\ \A s \in {"PENDING", "PAID", "VOIDED"} :
            /\ OrderEvent(o, s) \in Events /\ OrderEvent(o, s).kind = "order"
            /\ OrderEvent(o, s).order = o /\ OrderEvent(o, s).status = s
    /\ \A m \in Movements :
        /\ LedgerEvent(m) \in Events
        /\ LedgerEvent(m).kind = "ledger" /\ LedgerEvent(m).row = m
<1>1. Product \in Events /\ Product.kind = "product"
  BY DEF Events, Product
<1>2. ASSUME NEW o \in Orders
      PROVE  /\ Delta(o, -1) \in Events /\ Delta(o, -1).kind = "stock"
             /\ VoidEvent(o) \in Events /\ VoidEvent(o).kind = "void"
  <2>1. Delta(o, -1) \in {Delta(x, -1) : x \in Orders}
    OBVIOUS
  <2>2. VoidEvent(o) \in {VoidEvent(x) : x \in Orders}
    OBVIOUS
  <2>3. Delta(o, -1).kind = "stock" /\ VoidEvent(o).kind = "void"
    BY DEF Delta, VoidEvent
  <2> QED BY <2>1, <2>2, <2>3 DEF Events
<1>3. ASSUME NEW o \in Orders, NEW s \in {"PENDING", "PAID", "VOIDED"}
      PROVE  /\ OrderEvent(o, s) \in Events /\ OrderEvent(o, s).kind = "order"
             /\ OrderEvent(o, s).order = o /\ OrderEvent(o, s).status = s
  <2>1. OrderEvent(o, s) \in
            {OrderEvent(x, y) : x \in Orders, y \in {"PENDING", "PAID", "VOIDED"}}
    OBVIOUS
  <2>2. /\ OrderEvent(o, s).kind = "order"
        /\ OrderEvent(o, s).order = o /\ OrderEvent(o, s).status = s
    BY DEF OrderEvent
  <2> QED BY <2>1, <2>2 DEF Events
<1>4. ASSUME NEW m \in Movements
      PROVE  /\ LedgerEvent(m) \in Events
             /\ LedgerEvent(m).kind = "ledger" /\ LedgerEvent(m).row = m
  <2>1. LedgerEvent(m) \in {LedgerEvent(x) : x \in Movements}
    OBVIOUS
  <2>2. LedgerEvent(m).kind = "ledger" /\ LedgerEvent(m).row = m
    BY DEF LedgerEvent
  <2> QED BY <2>1, <2>2 DEF Events
<1> QED BY <1>1, <1>2, <1>3, <1>4

\* What an event of a kind carries.
LEMMA KindOf ==
    ASSUME NEW ev \in Events
    PROVE  /\ ev.kind = "stock" => ev.qty = -1
           /\ ev.kind \in {"order", "void"} => ev.order \in Orders
           /\ ev.kind = "order" => ev.status \in {"PENDING", "PAID", "VOIDED"}
           /\ ev.kind = "void" => ev = VoidEvent(ev.order)
           /\ ev.kind = "ledger" => ev.row \in Movements /\ ev = LedgerEvent(ev.row)
           /\ ev.kind \in {"product", "stock", "order", "void", "ledger"}
<1>1. CASE ev = Product
  BY <1>1 DEF Product
<1>2. CASE \E o \in Orders : ev = Delta(o, -1)
  BY <1>2 DEF Delta
<1>3. CASE \E o \in Orders : ev = VoidEvent(o)
  <2>1. PICK o \in Orders : ev = VoidEvent(o)
    BY <1>3
  <2>2. ev.kind = "void" /\ ev.order = o
    BY <2>1 DEF VoidEvent
  <2> QED BY <2>1, <2>2
<1>4. CASE \E o \in Orders, s \in {"PENDING", "PAID", "VOIDED"} : ev = OrderEvent(o, s)
  BY <1>4 DEF OrderEvent
<1>5. CASE \E m \in Movements : ev = LedgerEvent(m)
  <2>1. PICK m \in Movements : ev = LedgerEvent(m)
    BY <1>5
  <2>2. ev.kind = "ledger" /\ ev.row = m
    BY <2>1 DEF LedgerEvent
  <2> QED BY <2>1, <2>2
<1>6. \/ ev = Product
      \/ \E o \in Orders : ev = Delta(o, -1)
      \/ \E o \in Orders : ev = VoidEvent(o)
      \/ \E o \in Orders, s \in {"PENDING", "PAID", "VOIDED"} : ev = OrderEvent(o, s)
      \/ \E m \in Movements : ev = LedgerEvent(m)
  BY DEF Events
<1> QED BY <1>1, <1>2, <1>3, <1>4, <1>5, <1>6, Zenon

\* What an emit does to the outboxes: the rows that are there stay, and every
\* new one is of an event of its own, of all events if none is lost.
Grown(t, evs, all) ==
    /\ outbox' \in [Tills -> Seq(OutRows)]
    /\ \A u \in Tills : \A i \in DOMAIN outbox[u] :
        i \in DOMAIN outbox'[u] /\ outbox'[u][i] = outbox[u][i]
    /\ \A u \in Tills \ {t} : outbox'[u] = outbox[u]
    /\ \E src \in [DOMAIN outbox'[t] \ DOMAIN outbox[t] -> DOMAIN evs] :
        /\ \A i \in DOMAIN src : /\ outbox'[t][i].event = evs[src[i]]
                                 /\ outbox'[t][i].state = "pending"
        /\ \A i, j \in DOMAIN src : src[i] = src[j] => i = j
        /\ all => \A e \in DOMAIN evs : \E i \in DOMAIN src : src[i] = e

\* Sending makes the outbox grow.
LEMMA SendGrows ==
    ASSUME WiresOK, NEW t \in Tills, NEW evs \in Seq(Events), NEW S \in SUBSET DOMAIN evs,
           NEW all, all => S = DOMAIN evs, Send(t, evs, S)
    PROVE  Grown(t, evs, all)
<1> DEFINE sent == Ascending(S)
           extra == Rows(evs, S)
           n == Len(outbox[t])
           k == Cardinality(S)
           src == [i \in (n + 1)..(n + k) |-> sent[i - n]]
<1>1. /\ outbox[t] \in Seq(OutRows) /\ n \in Nat /\ DOMAIN outbox[t] = 1..n
      /\ \A u \in Tills : outbox[u] \in Seq(OutRows)
  BY DEF WiresOK
<1>2. Len(evs) \in Nat /\ DOMAIN evs = 1..Len(evs) /\ S \in SUBSET (1..Len(evs))
  OBVIOUS
<1>3. /\ sent \in [1..k -> S] /\ k \in Nat /\ Rising(sent)
      /\ \A i \in S : \E j \in 1..k : sent[j] = i
  BY <1>2, AscendingIs
<1> HIDE DEF sent, k
<1>4. extra = [j \in 1..k |-> Row(evs[sent[j]])]
  BY <1>3 DEF Rows, sent
<1>5. ASSUME NEW j \in 1..k
      PROVE  /\ sent[j] \in S /\ sent[j] \in DOMAIN evs /\ evs[sent[j]] \in Events
             /\ extra[j] \in OutRows
             /\ extra[j].event = evs[sent[j]] /\ extra[j].state = "pending"
  <2>1. sent[j] \in S /\ sent[j] \in DOMAIN evs
    BY <1>3
  <2>2. evs[sent[j]] \in Events
    BY <2>1
  <2>3. extra[j] = Row(evs[sent[j]])
    BY <1>4
  <2>4. Row(evs[sent[j]]) \in OutRows
    BY <2>2, TeamSyncAssumption DEF Row, OutRows
  <2> QED BY <2>1, <2>2, <2>3, <2>4 DEF Row
<1>6. extra \in Seq(OutRows) /\ Len(extra) = k
  <2>1. extra \in [1..k -> OutRows]
    BY <1>4, <1>5
  <2> QED BY <2>1, <1>3
<1> HIDE DEF extra
<1>7. outbox' = [outbox EXCEPT ![t] = outbox[t] \o extra]
  BY DEF Send, extra
<1>8. /\ outbox[t] \o extra \in Seq(OutRows)
      /\ Len(outbox[t] \o extra) = n + k
      /\ \A i \in 1..n : (outbox[t] \o extra)[i] = outbox[t][i]
      /\ \A i \in (n + 1)..(n + k) : (outbox[t] \o extra)[i] = extra[i - n]
  <2>1. /\ outbox[t] \o extra \in Seq(OutRows)
        /\ Len(outbox[t] \o extra) = Len(outbox[t]) + Len(extra)
        /\ \A i \in 1..(Len(outbox[t]) + Len(extra)) :
            (outbox[t] \o extra)[i] = IF i <= Len(outbox[t]) THEN outbox[t][i]
                                       ELSE extra[i - Len(outbox[t])]
    BY <1>1, <1>6, ConcatProperties
  <2> HIDE DEF n
  <2>2. n = Len(outbox[t])
    BY DEF n
  <2> QED BY <2>1, <2>2, <1>1, <1>3, <1>6
<1>9. /\ outbox' \in [Tills -> Seq(OutRows)]
      /\ \A u \in Tills \ {t} : outbox'[u] = outbox[u]
      /\ outbox'[t] = outbox[t] \o extra
  BY <1>7, <1>8 DEF WiresOK
<1>10. DOMAIN outbox'[t] = 1..(n + k) /\ DOMAIN outbox'[t] \ DOMAIN outbox[t] = (n + 1)..(n + k)
  BY <1>1, <1>3, <1>8, <1>9
<1>11. ASSUME NEW u \in Tills, NEW i \in DOMAIN outbox[u]
       PROVE  i \in DOMAIN outbox'[u] /\ outbox'[u][i] = outbox[u][i]
  <2>1. CASE u = t
    BY <2>1, <1>1, <1>3, <1>8, <1>9, <1>10
  <2>2. CASE u # t
    BY <2>2, <1>9
  <2> QED BY <2>1, <2>2
<1>12. \A i \in (n + 1)..(n + k) : i - n \in 1..k
  BY <1>1, <1>3
<1>13. src \in [DOMAIN outbox'[t] \ DOMAIN outbox[t] -> DOMAIN evs]
  BY <1>5, <1>10, <1>12
<1>14. \A i \in DOMAIN src : outbox'[t][i].event = evs[src[i]] /\ outbox'[t][i].state = "pending"
  <2>1. SUFFICES ASSUME NEW i \in (n + 1)..(n + k)
                 PROVE  /\ outbox'[t][i].event = evs[sent[i - n]]
                        /\ outbox'[t][i].state = "pending"
    OBVIOUS
  <2> HIDE DEF src, n
  <2>2. outbox'[t][i] = extra[i - n]
    BY <1>8, <1>9
  <2>3. i - n \in 1..k
    BY <1>12
  <2> QED BY <2>2, <2>3, <1>5
<1>15. ASSUME NEW i \in DOMAIN src, NEW j \in DOMAIN src, src[i] = src[j]
       PROVE  i = j
  <2>a. /\ i \in (n + 1)..(n + k) /\ j \in (n + 1)..(n + k)
        /\ src[i] = sent[i - n] /\ src[j] = sent[j - n]
    OBVIOUS
  <2> HIDE DEF src, n
  <2>b. src[i] = src[j]
    BY <1>15
  <2>c. i \in Int /\ j \in Int /\ n \in Nat
    BY <2>a, <1>1, <1>3
  <2>0. i - n \in 1..k /\ j - n \in 1..k /\ sent[i - n] = sent[j - n] /\ i \in Int /\ j \in Int
    BY <2>a, <2>b, <2>c, <1>12
  <2>1. PICK x \in 1..k, y \in 1..k : x = i - n /\ y = j - n
    BY <2>0
  <2>2. sent[x] \in Nat /\ sent[x] = sent[y] /\ DOMAIN sent = 1..k
    BY <2>0, <2>1, <1>2, <1>3
  <2>3. ~(x < y) /\ ~(y < x)
    BY <2>2, <1>3 DEF Rising
  <2> QED BY <2>0, <2>1, <2>3, <1>1
<1>16. ASSUME all, NEW e \in DOMAIN evs
       PROVE  \E i \in DOMAIN src : src[i] = e
  <2>1. PICK j \in 1..k : sent[j] = e
    BY <1>3, <1>16
  <2>2. n + j \in (n + 1)..(n + k) /\ (n + j) - n = j
    BY <1>1, <1>3
  <2> QED BY <2>1, <2>2
<1> HIDE DEF src, n
<1> QED BY <1>9, <1>11, <1>13, <1>14, <1>15, <1>16, Zenon DEF Grown

\* An emit makes the outbox grow, and says whether an event was lost.
LEMMA EmitGrows ==
    ASSUME WiresOK, FaultsOK, NEW t \in Tills, NEW evs \in Seq(Events), Emit(t, evs)
    PROVE  \E all \in BOOLEAN :
               /\ Grown(t, evs, all)
               /\ lost' = lost + (IF all THEN 0 ELSE 1)
               /\ ~all => MayFail
<1>1. PICK kept \in SUBSET DOMAIN evs :
          /\ kept # DOMAIN evs => MayFail
          /\ lost' = lost + (IF kept = DOMAIN evs THEN 0 ELSE 1)
          /\ Send(t, evs, kept)
  BY DEF Emit
<1>2. PICK all \in BOOLEAN : all <=> kept = DOMAIN evs
  OBVIOUS
<1>3. Grown(t, evs, all)
  BY <1>1, <1>2, SendGrows
<1> QED BY <1>1, <1>2, <1>3

\* There are finitely many movements, and those of a ledger are emitted once each.
LEMMA LedgerEventsIs ==
    ASSUME NEW S \in SUBSET Movements
    PROVE  /\ IsFiniteSet(S) /\ Cardinality(S) \in Nat
           /\ LedgerEvents(S) \in Seq(Events)
           /\ \A i \in DOMAIN LedgerEvents(S) : \E m \in S : LedgerEvents(S)[i] = LedgerEvent(m)
           /\ \A i, j \in DOMAIN LedgerEvents(S) :
                  LedgerEvents(S)[i] = LedgerEvents(S)[j] => i = j
           /\ \A m \in S : \E i \in DOMAIN LedgerEvents(S) : LedgerEvents(S)[i] = LedgerEvent(m)
<1> DEFINE E == {LedgerEvent(m) : m \in S}
           f == [m \in S |-> LedgerEvent(m)]
           Acts == {"charge", "payment", "reversal"}
<1>1. IsFiniteSet(Tabs)
  BY TeamSyncAssumption, FS_Subset
<1>2. IsFiniteSet(Acts)
  <2>1. PICK A : A = {"charge"} \cup {"payment"}
    OBVIOUS
  <2>2. IsFiniteSet(A)
    BY <2>1, FS_Singleton, FS_AddElement
  <2>3. IsFiniteSet(A \cup {"reversal"})
    BY <2>2, FS_AddElement
  <2>4. Acts = A \cup {"reversal"}
    BY <2>1
  <2> QED BY <2>3, <2>4
<1>3. IsFiniteSet(Movements)
  BY <1>1, <1>2, FS_Product DEF Movements
<1>4. IsFiniteSet(S) /\ Cardinality(S) \in Nat
  BY <1>3, FS_Subset, FS_CardinalityType
<1>5. f \in Surjection(S, E)
  BY DEF Surjection
<1>6. IsFiniteSet(E)
  BY <1>4, <1>5, FS_Surjection
<1>7. /\ LedgerEvents(S) \in Seq(E)
      /\ \A i, j \in DOMAIN LedgerEvents(S) :
             LedgerEvents(S)[i] = LedgerEvents(S)[j] => i = j
      /\ \A x \in E : \E i \in DOMAIN LedgerEvents(S) : LedgerEvents(S)[i] = x
  BY <1>6, SetToSeqIs, Zenon DEF LedgerEvents
<1>8. E \subseteq Events
  BY EventIs
<1>9. LedgerEvents(S) \in Seq(Events)
  <2> HIDE DEF E
  <2> QED BY <1>7, <1>8
<1>10. \A i \in DOMAIN LedgerEvents(S) : LedgerEvents(S)[i] \in E
  <2> HIDE DEF E
  <2> QED BY <1>7
<1> QED BY <1>4, <1>7, <1>9, <1>10

-----------------------------------------------------------------------------
\* The larger of zero and a number.
LEMMA MaxOfZero ==
    ASSUME NEW n \in Int
    PROVE  Max({0, n}) = IF n > 0 THEN n ELSE 0
<1>1. CASE n > 0
  BY <1>1 DEF Max
<1>2. CASE ~(n > 0)
  BY <1>2 DEF Max
<1> QED BY <1>1, <1>2

\* A reversal is booked in the tables of one till and leaves charges alone.
LEMMA BookReversalIs ==
    ASSUME TablesOK, NEW t \in Tills, NEW o \in Orders, BookReversal(t, o)
    PROVE  /\ booked' \in [Tills -> [Movements -> Nat]]
           /\ unsynced' \in [Tills -> SUBSET Movements]
           /\ \A u \in Tills, x \in Tabs :
               /\ booked'[u][Charge(x)] = booked[u][Charge(x)]
               /\ Charge(x) \in unsynced'[u] <=> Charge(x) \in unsynced[u]
<1>1. CASE o \in Tabs
  <2>1. <<o, "reversal">> \in Movements /\ \A x \in Tabs : Charge(x) # <<o, "reversal">>
    BY <1>1 DEF Movements, Charge
  <2>2. PICK m \in Movements : m = <<o, "reversal">> /\ \A x \in Tabs : Charge(x) # m
    BY <2>1
  <2>3. /\ booked' = [booked EXCEPT ![t][m] = @ + 1]
        /\ unsynced' = [unsynced EXCEPT ![t] = @ \cup {m}]
    BY <1>1, <2>2 DEF BookReversal, Book
  <2>4. \A x \in Tabs : Charge(x) \in Movements
    BY DEF Movements, Charge
  <2>5. booked' \in [Tills -> [Movements -> Nat]]
    BY <2>2, <2>3 DEF TablesOK
  <2>6. unsynced' \in [Tills -> SUBSET Movements]
    <3>1. m \in Movements
      BY <2>1, <2>2
    <3> QED BY <3>1, <2>3 DEF TablesOK
  <2>7. ASSUME NEW u \in Tills, NEW x \in Tabs
        PROVE  /\ booked'[u][Charge(x)] = booked[u][Charge(x)]
               /\ Charge(x) \in unsynced'[u] <=> Charge(x) \in unsynced[u]
    <3>1. PICK c \in Movements : c = Charge(x) /\ c # m
      BY <2>2, <2>4
    <3>2. booked'[u][c] = booked[u][c]
      BY <3>1, <2>3 DEF TablesOK
    <3>3. c \in unsynced'[u] <=> c \in unsynced[u]
      BY <3>1, <2>3 DEF TablesOK
    <3> QED BY <3>1, <3>2, <3>3
  <2> QED BY <2>5, <2>6, <2>7
<1>2. CASE o \notin Tabs
  BY <1>2 DEF BookReversal, TablesOK
<1> QED BY <1>1, <1>2

\* What a step may do to the orders: none disappears and a void is final.
RecGrows ==
    \A u \in Tills, o \in Orders :
        /\ rec[u][o] # "absent" => rec'[u][o] # "absent"
        /\ rec[u][o] = "VOIDED" => rec'[u][o] = "VOIDED"

\* The effect of an event on the tables.
LEMMA EffectIs ==
    ASSUME TablesOK, NEW t \in Tills, NEW ev \in Events, Effect(t, ev)
    PROVE  /\ TablesOK'
           /\ RecGrows
           /\ known \subseteq known'
           /\ \A u \in Tills, o \in Orders : rec[u][o] = "absent" /\ rec'[u][o] # "absent" =>
                  u = t /\ ev.kind = "order" /\ ev.order = o
           /\ ev.kind = "order" /\ ev.status # "VOIDED" => rec'[t][ev.order] # "absent"
           /\ \A u \in Tills, x \in Tabs :
               /\ booked'[u][Charge(x)] =
                      booked[u][Charge(x)] + OneIf(u = t /\ ev = ChargeEvent(x))
               /\ Charge(x) \in unsynced'[u] <=> Charge(x) \in unsynced[u]
<1>0. \A x \in Tabs : Charge(x) \in Movements /\ ChargeEvent(x).kind = "ledger"
  BY EventIs DEF Movements, Charge, ChargeEvent
<1>1. CASE ev.kind = "product" /\ ApplyProduct(t)
  <2>1. \A x \in Tabs : ev # ChargeEvent(x)
    BY <1>0, <1>1
  <2> QED BY <1>0, <1>1, <2>1, TeamSyncAssumption DEF ApplyProduct, TablesOK, RecGrows, OneIf
<1>2. CASE ev.kind = "stock" /\ ApplyStock(t, ev)
  <2>1. \A x \in Tabs : ev # ChargeEvent(x)
    BY <1>0, <1>2
  <2>2. ev.qty = -1
    BY <1>2, KindOf
  <2>3. Max({0, stock[t] + ev.qty}) \in Nat
    <3>1. stock[t] + ev.qty \in Int
      BY <2>2 DEF TablesOK
    <3> QED BY <3>1, MaxOfZero
  <2>4. stock' \in [Tills -> Nat]
    BY <1>2, <2>3 DEF ApplyStock, TablesOK
  <2> QED BY <1>0, <1>2, <2>1, <2>4 DEF ApplyStock, TablesOK, RecGrows, OneIf
<1>3. CASE ev.kind = "order" /\ ApplyOrder(t, ev)
  <2>1. \A x \in Tabs : ev # ChargeEvent(x)
    BY <1>0, <1>3
  <2>2. ev.order \in Orders /\ ev.status \in {"PENDING", "PAID", "VOIDED"}
    BY <1>3, KindOf
  <2>3. PICK o \in Orders, s \in {"PENDING", "PAID", "VOIDED"} : ev.order = o /\ ev.status = s
    BY <2>2
  <2>4. rec' = [rec EXCEPT ![t][o] =
                 CASE rec[t][o] = "absent" /\ s # "VOIDED" -> s
                   [] rec[t][o] = "PENDING" /\ s = "PAID" -> "PAID"
                   [] OTHER -> rec[t][o]]
    BY <1>3, <2>3 DEF ApplyOrder
  <2>5. /\ rec' \in [Tills -> [Orders -> Status]]
        /\ \A u \in Tills, x \in Orders : u # t \/ x # o => rec'[u][x] = rec[u][x]
        /\ rec'[t][o] = IF rec[t][o] = "absent" /\ s # "VOIDED" THEN s
                        ELSE IF rec[t][o] = "PENDING" /\ s = "PAID" THEN "PAID"
                        ELSE rec[t][o]
    BY <2>4 DEF TablesOK, Status
  <2>6. bare' \in [Tills -> SUBSET Orders]
    BY <1>3, <2>3 DEF ApplyOrder, TablesOK
  <2>7. UNCHANGED <<known, stock, booked, unsynced>>
    BY <1>3 DEF ApplyOrder
  <2>8. TablesOK'
    BY <2>5, <2>6, <2>7 DEF TablesOK
  <2>9. RecGrows
    BY <2>5, <2>3 DEF RecGrows
  <2>10. \A u \in Tills, x \in Orders : rec[u][x] = "absent" /\ rec'[u][x] # "absent" =>
            u = t /\ x = o
    BY <2>5
  <2>11. s # "VOIDED" => rec'[t][o] # "absent"
    BY <2>5, <2>3
  <2>12. \A u \in Tills, x \in Tabs :
               /\ booked'[u][Charge(x)] =
                      booked[u][Charge(x)] + OneIf(u = t /\ ev = ChargeEvent(x))
               /\ Charge(x) \in unsynced'[u] <=> Charge(x) \in unsynced[u]
    BY <1>0, <2>1, <2>7 DEF TablesOK, OneIf
  <2> QED BY <1>3, <2>3, <2>7, <2>8, <2>9, <2>10, <2>11, <2>12
<1>4. CASE ev.kind = "void" /\ ApplyVoid(t, ev)
  <2>1. \A x \in Tabs : ev # ChargeEvent(x)
    BY <1>0, <1>4
  <2>2. PICK o \in Orders : ev.order = o
    BY <1>4, KindOf
  <2>3. CASE rec[t][o] \in {"PENDING", "PAID"}
    <3>1. /\ Set(t, o, "VOIDED") /\ Move(t, Unit(t, o)) /\ BookReversal(t, o)
          /\ UNCHANGED <<bare, known>>
      BY <1>4, <2>2, <2>3 DEF ApplyVoid
    <3>2. stock' \in [Tills -> Nat]
      BY <3>1 DEF Move, Unit, TablesOK
    <3>3. /\ rec' \in [Tills -> [Orders -> Status]]
          /\ \A u \in Tills, x \in Orders : u # t \/ x # o => rec'[u][x] = rec[u][x]
          /\ rec'[t][o] = "VOIDED"
      BY <3>1 DEF Set, TablesOK, Status
    <3>4. TablesOK'
      BY <3>1, <3>2, <3>3, BookReversalIs DEF TablesOK
    <3>5. RecGrows
      BY <3>3, <2>3 DEF RecGrows
    <3>6. \A u \in Tills, x \in Orders : rec[u][x] = "absent" => rec'[u][x] = "absent"
      BY <3>3, <2>3
    <3>7. \A u \in Tills, x \in Tabs :
               /\ booked'[u][Charge(x)] = booked[u][Charge(x)]
               /\ Charge(x) \in unsynced'[u] <=> Charge(x) \in unsynced[u]
      BY <3>1, BookReversalIs
    <3>8. \A u \in Tills, x \in Tabs : booked[u][Charge(x)] \in Nat
      BY <1>0 DEF TablesOK
    <3>9. \A u \in Tills, x \in Tabs : OneIf(u = t /\ ev = ChargeEvent(x)) = 0
      BY <2>1 DEF OneIf
    <3> QED BY <1>4, <3>1, <3>4, <3>5, <3>6, <3>7, <3>8, <3>9
  <2>4. CASE rec[t][o] \notin {"PENDING", "PAID"}
    <3>1. UNCHANGED tables
      BY <1>4, <2>2, <2>4 DEF ApplyVoid
    <3> QED BY <1>0, <1>4, <2>1, <3>1 DEF tables, TablesOK, RecGrows, OneIf
  <2> QED BY <2>3, <2>4
<1>5. CASE ev.kind = "ledger" /\ ApplyLedger(t, ev)
  <2>1. ev.row \in Movements /\ ev = LedgerEvent(ev.row)
    BY <1>5, KindOf
  <2>2. PICK m \in Movements : ev.row = m
    BY <2>1
  <2>3. /\ booked' = [booked EXCEPT ![t][m] = @ + 1]
        /\ UNCHANGED <<rec, bare, known, stock, unsynced>>
    BY <1>5, <2>2 DEF ApplyLedger, Book
  <2>4. \A x \in Tabs : ev = ChargeEvent(x) <=> m = Charge(x)
    BY <2>1, <2>2, <1>0, EventIs DEF ChargeEvent
  <2>5. booked' \in [Tills -> [Movements -> Nat]]
    BY <2>3 DEF TablesOK
  <2>6. \A u \in Tills, x \in Tabs :
            booked'[u][Charge(x)] =
                booked[u][Charge(x)] + OneIf(u = t /\ ev = ChargeEvent(x))
    BY <2>3, <2>4, <1>0 DEF TablesOK, OneIf
  <2> QED BY <1>5, <2>3, <2>5, <2>6 DEF TablesOK, RecGrows
<1> QED BY <1>1, <1>2, <1>3, <1>4, <1>5 DEF Effect
-----------------------------------------------------------------------------
(***************************************************************************)
(* Types.                                                                  *)
(***************************************************************************)
\* A change of the shop that emits keeps what its tables leave alone.
LEMMA ShopTypes ==
    ASSUME TypeInv, NEW t \in Tills, NEW evs \in Seq(Events), Emit(t, evs), Shop, TablesOK',
           clerk' \in [Tills -> SUBSET Movements]
    PROVE  TypeInv'
<1>1. WiresOK /\ FaultsOK /\ InboundOK
  BY DEF TypeInv
<1>2. PICK all \in BOOLEAN : /\ Grown(t, evs, all)
                             /\ lost' = lost + (IF all THEN 0 ELSE 1)
                             /\ ~all => MayFail
  BY <1>1, EmitGrows
<1>3. UNCHANGED <<twice, log, cursor, applied, dead, runs, torn, rewound, cycle, button,
                  refused, crashes, presses>>
  BY DEF Shop, inbound
<1>4. WiresOK'
  BY <1>1, <1>2, <1>3 DEF WiresOK, Grown
<1>5. InboundOK'
  BY <1>1, <1>3 DEF InboundOK, Foreign
<1>6. FaultsOK'
  BY <1>1, <1>2, <1>3, TeamSyncAssumption DEF FaultsOK, MayFail
<1> QED BY <1>4, <1>5, <1>6 DEF TypeInv

\* What the shop's changes do to the tables, and the events they emit.
LEMMA AddProductIs ==
    ASSUME TypeInv, AddProduct
    PROVE  TypeInv'
<1>1. Catalog \in Tills /\ OnHand \in Nat
  BY TeamSyncAssumption
<1>2. <<Product>> \in Seq(Events)
  BY EventIs
<1>3. TablesOK'
  BY <1>1 DEF AddProduct, TypeInv, TablesOK
<1>4. clerk' \in [Tills -> SUBSET Movements]
  BY DEF AddProduct, TypeInv, WiresOK
<1> QED BY <1>1, <1>2, <1>3, <1>4, ShopTypes DEF AddProduct

\* A sale moves its order and a unit.
LEMMA SellIs ==
    ASSUME TypeInv, NEW o \in Orders, Sell(o)
    PROVE  TypeInv'
<1> DEFINE t == Home[o]
<1>1. t \in Tills
  BY TeamSyncAssumption
<1>2. PICK status \in {"PAID", "PENDING"} :
          /\ Set(t, o, status)
          /\ IF status = "PAID" THEN Move(t, -1) ELSE UNCHANGED stock
          /\ Emit(t, <<OrderEvent(o, status), Delta(o, -1)>>)
  BY DEF Sell
<1>3. <<OrderEvent(o, status), Delta(o, -1)>> \in Seq(Events)
  BY EventIs
<1>4. stock[t] >= 1 /\ Shop /\ UNCHANGED <<bare, known, booked, unsynced, clerk>>
  BY DEF Sell
<1> HIDE DEF t
<1>5. TablesOK'
  <2>1. rec' \in [Tills -> [Orders -> Status]]
    BY <1>1, <1>2 DEF TypeInv, TablesOK, Set, Status
  <2>2. CASE status = "PAID"
    <3>1. stock' \in [Tills -> Nat]
      BY <1>1, <1>2, <1>4, <2>2 DEF TypeInv, TablesOK, Move
    <3> QED BY <1>4, <2>1, <3>1 DEF TypeInv, TablesOK
  <2>3. CASE status # "PAID"
    BY <1>2, <1>4, <2>1, <2>3 DEF TypeInv, TablesOK
  <2> QED BY <2>2, <2>3
<1>6. clerk' \in [Tills -> SUBSET Movements]
  BY <1>4 DEF TypeInv, WiresOK
<1> QED BY <1>1, <1>2, <1>3, <1>4, <1>5, <1>6, ShopTypes

\* A sale on account books a charge that waits for its event.
LEMMA SellOnTabIs ==
    ASSUME TypeInv, NEW o \in Orders, SellOnTab(o)
    PROVE  TypeInv'
<1>1. PICK t \in Tills : t = Home[o]
  BY TeamSyncAssumption
<1>2. PICK c \in Movements : c = <<o, "charge">>
  BY DEF SellOnTab, Movements
<1>3. /\ Set(t, o, "PENDING") /\ Book(t, c)
      /\ Emit(t, <<OrderEvent(o, "PENDING"), Delta(o, -1)>>)
      /\ unsynced' = [unsynced EXCEPT ![t] = @ \cup {c}]
      /\ clerk' = [clerk EXCEPT ![t] = {c}]
      /\ UNCHANGED <<bare, known, stock>> /\ Shop
  BY <1>1, <1>2 DEF SellOnTab
<1>4. <<OrderEvent(o, "PENDING"), Delta(o, -1)>> \in Seq(Events)
  BY EventIs
<1>5. TablesOK'
  <2>1. rec' \in [Tills -> [Orders -> Status]] /\ UNCHANGED <<bare, known, stock>>
    BY <1>3 DEF TypeInv, TablesOK, Set, Status
  <2>2. booked' \in [Tills -> [Movements -> Nat]]
    BY <1>3 DEF TypeInv, TablesOK, Book
  <2>3. unsynced' \in [Tills -> SUBSET Movements]
    BY <1>3 DEF TypeInv, TablesOK
  <2> QED BY <2>1, <2>2, <2>3 DEF TypeInv, TablesOK
<1>6. clerk' \in [Tills -> SUBSET Movements]
  BY <1>3 DEF TypeInv, WiresOK
<1> QED BY <1>3, <1>4, <1>5, <1>6, ShopTypes

\* The rows a handler emits are stamped.
LEMMA EmitLedgerIs ==
    ASSUME TypeInv, NEW t \in Tills, EmitLedger(t)
    PROVE  TypeInv'
<1>1. clerk[t] \in SUBSET Movements
  BY DEF TypeInv, WiresOK
<1>2. LedgerEvents(clerk[t]) \in Seq(Events)
  BY <1>1, LedgerEventsIs
<1>3. TablesOK'
  BY DEF EmitLedger, TypeInv, TablesOK
<1>4. clerk' \in [Tills -> SUBSET Movements]
  BY DEF EmitLedger, TypeInv, WiresOK
<1> QED BY <1>2, <1>3, <1>4, ShopTypes DEF EmitLedger

\* The rows a payment still has to emit are its own; the events are few.
LEMMA CompleteIs ==
    ASSUME TypeInv, NEW o \in Orders, Complete(o)
    PROVE  /\ TypeInv'
           /\ \E evs \in Seq(Events) :
               /\ Emit(Home[o], evs)
               /\ \A i \in DOMAIN evs :
                      \/ evs[i] = OrderEvent(o, "PAID")
                      \/ o \in Tabs /\ evs[i] = LedgerEvent(<<o, "payment">>)
           /\ \A x \in Tabs, u \in Tills :
               /\ booked'[u][Charge(x)] = booked[u][Charge(x)]
               /\ Charge(x) \in unsynced'[u] <=> Charge(x) \in unsynced[u]
<1>1. PICK t \in Tills : t = Home[o]
  BY TeamSyncAssumption
<1>2. /\ Set(t, o, "PAID") /\ TakeOne(t)
      /\ clerk' = [clerk EXCEPT ![t] = Owing(t, o)]
      /\ UNCHANGED <<bare, known>> /\ Shop
  BY <1>1 DEF Complete
<1>3. /\ rec' \in [Tills -> [Orders -> Status]]
      /\ stock' \in [Tills -> Nat]
  BY <1>2 DEF Set, TakeOne, Move, TypeInv, TablesOK, Status
<1>4. clerk' \in [Tills -> SUBSET Movements]
  <2>1. Owing(t, o) \in SUBSET Movements
    BY DEF Owing, TypeInv, TablesOK
  <2> QED BY <1>2, <2>1 DEF TypeInv, WiresOK
<1>5. CASE o \in Tabs
  <2>1. PICK m \in Movements : m = <<o, "payment">> /\ \A x \in Tabs : Charge(x) # m
    <3>1. <<o, "payment">> \in Movements /\ \A x \in Tabs : Charge(x) # <<o, "payment">>
      BY <1>5 DEF Movements, Charge
    <3> QED BY <3>1
  <2>2. /\ booked' = [booked EXCEPT ![t][m] = @ + 1]
        /\ unsynced' = [unsynced EXCEPT ![t] = @ \cup {m}]
        /\ Emit(t, <<OrderEvent(o, "PAID"), LedgerEvent(m)>>)
    BY <1>1, <1>5, <2>1 DEF Complete, Book
  <2>3. <<OrderEvent(o, "PAID"), LedgerEvent(m)>> \in Seq(Events)
    BY EventIs
  <2>4. booked' \in [Tills -> [Movements -> Nat]] /\ unsynced' \in [Tills -> SUBSET Movements]
    BY <2>2 DEF TypeInv, TablesOK
  <2>5. TypeInv'
    <3>1. TablesOK'
      BY <1>2, <1>3, <2>4 DEF TypeInv, TablesOK
    <3> QED BY <3>1, <1>2, <1>4, <2>2, <2>3, ShopTypes
  <2>6. ASSUME NEW x \in Tabs, NEW u \in Tills
        PROVE  /\ booked'[u][Charge(x)] = booked[u][Charge(x)]
               /\ Charge(x) \in unsynced'[u] <=> Charge(x) \in unsynced[u]
    <3>1. PICK c \in Movements : c = Charge(x) /\ c # m
      <4>1. Charge(x) \in Movements
        BY DEF Charge, Movements
      <4> QED BY <4>1, <2>1
    <3>2. booked'[u][c] = booked[u][c] /\ (c \in unsynced'[u] <=> c \in unsynced[u])
      BY <2>2, <3>1 DEF TypeInv, TablesOK
    <3> QED BY <3>1, <3>2
  <2>7. \A i \in DOMAIN <<OrderEvent(o, "PAID"), LedgerEvent(m)>> :
            <<OrderEvent(o, "PAID"), LedgerEvent(m)>>[i]
                \in {OrderEvent(o, "PAID"), LedgerEvent(<<o, "payment">>)}
    BY <2>1
  <2> QED BY <1>1, <1>5, <2>2, <2>3, <2>5, <2>6, <2>7
<1>6. CASE o \notin Tabs
  <2>1. Emit(t, <<OrderEvent(o, "PAID")>>) /\ UNCHANGED <<booked, unsynced>>
    BY <1>1, <1>6 DEF Complete
  <2>2. <<OrderEvent(o, "PAID")>> \in Seq(Events)
    BY EventIs
  <2>3. TypeInv'
    <3>1. TablesOK'
      BY <1>2, <1>3, <2>1 DEF TypeInv, TablesOK
    <3> QED BY <3>1, <1>2, <1>4, <2>1, <2>2, ShopTypes
  <2>4. \A i \in DOMAIN <<OrderEvent(o, "PAID")>> :
            <<OrderEvent(o, "PAID")>>[i] = OrderEvent(o, "PAID")
    OBVIOUS
  <2> QED BY <1>1, <2>1, <2>2, <2>3, <2>4
<1> QED BY <1>5, <1>6

\* A void books at most a reversal.
LEMMA VoidIs ==
    ASSUME TypeInv, NEW t \in Tills, NEW o \in Orders, Void(t, o)
    PROVE  TypeInv'
<1>1. <<VoidEvent(o)>> \in Seq(Events)
  BY EventIs
<1>2. /\ rec' \in [Tills -> [Orders -> Status]]
      /\ stock' \in [Tills -> Nat]
  <2>1. rec' \in [Tills -> [Orders -> Status]]
    BY DEF Void, Set, TypeInv, TablesOK, Status
  <2>2. Unit(t, o) \in Nat /\ (Move(t, Unit(t, o)) \/ UNCHANGED stock)
    BY DEF Void, Unit
  <2>3. stock' \in [Tills -> Nat]
    <3>1. PICK n \in Nat : n = Unit(t, o)
      BY <2>2
    <3>2. stock' = [stock EXCEPT ![t] = @ + n] \/ stock' = stock
      BY <2>2, <3>1 DEF Move
    <3>3. stock \in [Tills -> Nat]
      BY DEF TypeInv, TablesOK
    <3>4. [stock EXCEPT ![t] = @ + n] \in [Tills -> Nat]
      BY <3>3
    <3> QED BY <3>2, <3>3, <3>4
  <2> QED BY <2>1, <2>3
<1>3. TablesOK'
  BY <1>2, BookReversalIs DEF Void, TypeInv, TablesOK
<1>4. clerk' \in [Tills -> SUBSET Movements]
  BY DEF Void, TypeInv, WiresOK
<1> QED BY <1>1, <1>3, <1>4, ShopTypes DEF Void

\* The first of a batch and what is left of it.
LEMMA HeadIs ==
    ASSUME NEW s \in Seq(Nat), s # <<>>
    PROVE  /\ Head(s) \in Nat /\ Head(s) \in ToSet(s)
           /\ Tail(s) \in Seq(Nat)
           /\ ToSet(s) = {Head(s)} \cup ToSet(Tail(s))
           /\ Rising(s) => /\ Rising(Tail(s))
                           /\ \A i \in ToSet(Tail(s)) : Head(s) < i
<1>1. /\ Len(s) \in Nat /\ Len(s) > 0 /\ Head(s) = s[1] /\ Head(s) \in Nat
      /\ DOMAIN s = 1..Len(s) /\ Tail(s) \in Seq(Nat)
      /\ DOMAIN Tail(s) = 1..(Len(s) - 1)
      /\ \A i \in 1..(Len(s) - 1) : Tail(s)[i] = s[i + 1] /\ i + 1 \in 1..Len(s)
  OBVIOUS
<1>2. Head(s) \in ToSet(s)
  BY <1>1 DEF ToSet
<1>3. ASSUME NEW x \in ToSet(Tail(s)) PROVE x \in ToSet(s)
  BY <1>1 DEF ToSet
<1>4. ASSUME NEW x \in ToSet(s), x # Head(s) PROVE x \in ToSet(Tail(s))
  <2>1. PICK i \in 1..Len(s) : x = s[i] /\ i # 1
    BY <1>1, <1>4 DEF ToSet
  <2>2. i - 1 \in 1..(Len(s) - 1) /\ (i - 1) + 1 = i
    BY <1>1, <2>1
  <2>3. Tail(s)[i - 1] = x
    BY <1>1, <2>1, <2>2
  <2> QED BY <1>1, <2>2, <2>3 DEF ToSet
<1>5. ASSUME Rising(s)
      PROVE  Rising(Tail(s)) /\ \A i \in ToSet(Tail(s)) : Head(s) < i
  <2>1. ASSUME NEW i \in 1..(Len(s) - 1), NEW j \in 1..(Len(s) - 1), i < j
        PROVE  Tail(s)[i] < Tail(s)[j]
    BY <1>1, <1>5, <2>1 DEF Rising
  <2>2. ASSUME NEW i \in 1..(Len(s) - 1) PROVE Head(s) < Tail(s)[i]
    BY <1>1, <1>5 DEF Rising
  <2> QED BY <1>1, <2>1, <2>2 DEF Rising, ToSet
<1>6. ToSet(s) = {Head(s)} \cup ToSet(Tail(s))
  BY <1>2, <1>3, <1>4
<1> QED BY <1>1, <1>2, <1>5, <1>6

\* A run is counted for one event on one till.
LEMMA CountRunIs ==
    ASSUME InboundOK, NEW t \in Tills, NEW i \in Nat, CountRun(t, i)
    PROVE  /\ runs' \in [Tills -> Counted]
           /\ \A u \in Tills \ {t} : runs'[u] = runs[u]
           /\ DOMAIN runs'[t] = DOMAIN runs[t] \cup {i}
           /\ Ran(t, i) \in Nat
           /\ runs'[t][i] = Ran(t, i) + 1
           /\ \A j \in DOMAIN runs[t] \ {i} : runs'[t][j] = runs[t][j]
<1> DEFINE f == [j \in DOMAIN runs[t] \cup {i} |-> IF j = i THEN Ran(t, i) + 1 ELSE runs[t][j]]
<1>1. PICK D \in SUBSET Nat : runs[t] \in [D -> Nat \ {0}]
  BY DEF InboundOK, Counted
<1>2. Ran(t, i) \in Nat
  BY <1>1 DEF Ran
<1>3. f \in [D \cup {i} -> Nat \ {0}] /\ D \cup {i} \in SUBSET Nat
  BY <1>1, <1>2
<1>4. f \in Counted
  BY <1>3 DEF Counted
<1>5. runs' = [runs EXCEPT ![t] = f]
  BY DEF CountRun
<1>6. runs'[t] = f /\ runs' \in [Tills -> Counted] /\ \A u \in Tills \ {t} : runs'[u] = runs[u]
  <2> HIDE DEF f
  <2> QED BY <1>4, <1>5 DEF InboundOK
<1> QED BY <1>2, <1>6

\* The entries a push brings: rows of the till that the log did not have, each once.
LEMMA ArrivalsAre ==
    ASSUME WiresOK, NEW t \in Tills, NEW S \in SUBSET DOMAIN outbox[t]
    PROVE  /\ Arrivals(t, S) \in Seq(LogRows)
           /\ \A k \in DOMAIN Arrivals(t, S) :
               LET e == Arrivals(t, S)[k] IN
               /\ e.by = t /\ e.uuid \in S /\ ~Logged(t, e.uuid)
               /\ e.event = outbox[t][e.uuid].event
           /\ \A j, k \in DOMAIN Arrivals(t, S) :
                  Arrivals(t, S)[j].uuid = Arrivals(t, S)[k].uuid => j = k
           /\ \A i \in S : ~Logged(t, i) =>
                  \E k \in DOMAIN Arrivals(t, S) : Arrivals(t, S)[k].uuid = i
<1> DEFINE N == {i \in S : ~Logged(t, i)}
           new == Ascending(N)
           n == Cardinality(N)
<1>1. outbox[t] \in Seq(OutRows) /\ Len(outbox[t]) \in Nat /\ N \in SUBSET (1..Len(outbox[t]))
  BY DEF WiresOK
<1>2. /\ new \in [1..n -> N] /\ n \in Nat /\ Rising(new)
      /\ \A i \in N : \E k \in 1..n : new[k] = i
  <2> HIDE DEF N
  <2> QED BY <1>1, AscendingIs
<1>a. \A i \in N : i \in S /\ i \in 1..Len(outbox[t]) /\ ~Logged(t, i) /\ i \in Nat
  BY <1>1
<1>b. \A i \in S : ~Logged(t, i) => i \in N
  OBVIOUS
<1>3. Arrivals(t, S) =
          [k \in 1..n |-> [by |-> t, uuid |-> new[k], event |-> outbox[t][new[k]].event]]
  BY <1>2 DEF Arrivals
<1> HIDE DEF N, new, n
<1>4. ASSUME NEW k \in 1..n
      PROVE  /\ Arrivals(t, S)[k] \in LogRows
             /\ Arrivals(t, S)[k].by = t /\ Arrivals(t, S)[k].uuid = new[k]
             /\ Arrivals(t, S)[k].event = outbox[t][new[k]].event
             /\ new[k] \in N
  <2>1. new[k] \in N
    BY <1>2
  <2>2. outbox[t][new[k]] \in OutRows
    <3>1. PICK i \in 1..Len(outbox[t]) : i = new[k]
      BY <2>1, <1>a
    <3>2. outbox[t][i] \in OutRows
      BY <1>1, ElementOfSeq
    <3> QED BY <3>1, <3>2
  <2>3. outbox[t][new[k]].event \in Events
    BY <2>2 DEF OutRows
  <2>4. PICK e : e = [by |-> t, uuid |-> new[k], event |-> outbox[t][new[k]].event]
    OBVIOUS
  <2>5. e \in LogRows /\ e.by = t /\ e.uuid = new[k] /\ e.event = outbox[t][new[k]].event
    BY <2>1, <2>3, <2>4, <1>a DEF LogRows
  <2> QED BY <1>3, <2>1, <2>4, <2>5
<1>5. Arrivals(t, S) \in Seq(LogRows) /\ DOMAIN Arrivals(t, S) = 1..n
  <2>1. Arrivals(t, S) \in [1..n -> LogRows]
    BY <1>3, <1>4
  <2> QED BY <2>1, <1>2
<1>6. ASSUME NEW j \in 1..n, NEW k \in 1..n, new[j] = new[k] PROVE j = k
  <2>1. new[j] \in Nat /\ DOMAIN new = 1..n
    BY <1>2, <1>a
  <2>2. ~(j < k) /\ ~(k < j)
    BY <2>1, <1>2, <1>6 DEF Rising
  <2> QED BY <2>2, <1>2
<1>7. \A k \in DOMAIN Arrivals(t, S) :
          LET e == Arrivals(t, S)[k] IN
          /\ e.by = t /\ e.uuid \in S /\ ~Logged(t, e.uuid)
          /\ e.event = outbox[t][e.uuid].event
  BY <1>4, <1>5, <1>a
<1>8. \A j, k \in DOMAIN Arrivals(t, S) :
          Arrivals(t, S)[j].uuid = Arrivals(t, S)[k].uuid => j = k
  BY <1>4, <1>5, <1>6
<1>9. ASSUME NEW i \in S, ~Logged(t, i)
      PROVE  \E k \in DOMAIN Arrivals(t, S) : Arrivals(t, S)[k].uuid = i
  BY <1>9, <1>2, <1>4, <1>5, <1>b
<1> QED BY <1>5, <1>7, <1>8, <1>9

\* What a push may do to the log and to the outboxes.
LogKept == \A k \in DOMAIN log : k \in DOMAIN log' /\ log'[k] = log[k]
Pushed(t) ==
    /\ \A k \in DOMAIN log' \ DOMAIN log :
        /\ log'[k].by = t /\ log'[k].uuid \in DOMAIN outbox[t] /\ ~Logged(t, log'[k].uuid)
        /\ log'[k].event = outbox[t][log'[k].uuid].event
    /\ \A j, k \in DOMAIN log' \ DOMAIN log : log'[j].uuid = log'[k].uuid => j = k
    /\ \A u \in Tills :
        /\ DOMAIN outbox'[u] = DOMAIN outbox[u]
        /\ \A i \in DOMAIN outbox[u] : outbox'[u][i].event = outbox[u][i].event
    /\ \A u \in Tills \ {t} : outbox'[u] = outbox[u]
    /\ \A i \in DOMAIN outbox[t] : outbox'[t][i].state = "pushed" =>
        outbox[t][i].state = "pushed" \/ \E k \in DOMAIN log' : log'[k].by = t /\ log'[k].uuid = i

\* A push appends what it stored and leaves the events of the outboxes alone.
LEMMA PushIs ==
    ASSUME TypeInv, NEW t \in Tills, Push(t)
    PROVE  /\ TypeInv' /\ LogKept /\ Pushed(t)
           /\ \A u \in Tills \ {t} : cycle'[u] = cycle[u]
           /\ cycle'[t].todo = <<>> /\ cycle'[t].pc \in {"idle", "pull"}
<1>1. TablesOK /\ WiresOK /\ InboundOK /\ FaultsOK
  BY DEF TypeInv
<1>2. PICK stored \in SUBSET Pending(t), acked \in SUBSET Pending(t) :
        /\ acked \subseteq stored
        /\ acked # Pending(t) => MayFail
        /\ refused' = refused + (IF acked = Pending(t) THEN 0 ELSE 1)
        /\ log' = log \o Arrivals(t, stored)
        /\ LET after(i) == IF i \in acked THEN [outbox[t][i] EXCEPT !.state = "pushed"]
                           ELSE IF i \in Pending(t) THEN Refused(outbox[t][i])
                           ELSE outbox[t][i]
               rows == [i \in DOMAIN outbox[t] |-> after(i)]
           IN  /\ outbox' = [outbox EXCEPT ![t] = rows]
               /\ Goto(t, IF \E i \in DOMAIN rows : rows[i].state = "pending"
                          THEN "idle" ELSE "pull", <<>>)
  BY DEF Push
<1>3. UNCHANGED <<tables, clerk, twice, inbound, button, lost, crashes, presses>>
  BY DEF Push
<1> DEFINE after(i) == IF i \in acked THEN [outbox[t][i] EXCEPT !.state = "pushed"]
                       ELSE IF i \in Pending(t) THEN Refused(outbox[t][i])
                       ELSE outbox[t][i]
           rows == [i \in DOMAIN outbox[t] |-> after(i)]
           A == Arrivals(t, stored)
<1>4. outbox[t] \in Seq(OutRows) /\ log \in Seq(LogRows) /\ stored \in SUBSET DOMAIN outbox[t]
      /\ acked \in SUBSET Pending(t)
  BY <1>1 DEF WiresOK, Pending
<1>5. ASSUME NEW i \in DOMAIN outbox[t]
      PROVE  /\ after(i) \in OutRows /\ after(i).event = outbox[t][i].event
             /\ after(i).state = "pushed" => outbox[t][i].state = "pushed" \/ i \in stored
  <2>1. PICK r \in OutRows : r = outbox[t][i]
    BY <1>4
  <2>2. r \in [event : Events, state : {"pending", "pushed", "quarantined"}, tries : 0..MaxPush]
        /\ (r.state = "pending" => r.tries < MaxPush)
    BY <2>1 DEF OutRows
  <2>3. CASE i \in acked
    <3>1. PICK w : w = [r EXCEPT !.state = "pushed"]
      OBVIOUS
    <3>2. w \in OutRows /\ w.event = r.event
      BY <2>2, <3>1 DEF OutRows
    <3>3. after(i) = w /\ i \in stored
      BY <1>2, <2>1, <2>3, <3>1
    <3> HIDE DEF after
    <3> QED BY <2>1, <3>2, <3>3
  <2>4. CASE i \in Pending(t) /\ i \notin acked
    <3>1. r.state = "pending" /\ r.tries \in Nat /\ r.tries + 1 \in 0..MaxPush
      BY <2>1, <2>2, <2>4, TeamSyncAssumption DEF Pending
    <3>2. PICK w : w = Refused(r)
      OBVIOUS
    <3>3. /\ w \in [event : Events, state : {"pending", "pushed", "quarantined"}, tries : 0..MaxPush]
          /\ w.event = r.event /\ w.tries = r.tries + 1
          /\ w.state = IF r.tries + 1 >= MaxPush THEN "quarantined" ELSE "pending"
      BY <2>2, <3>1, <3>2 DEF Refused
    <3>4. w \in OutRows /\ w.state # "pushed"
      BY <3>1, <3>3, TeamSyncAssumption DEF OutRows
    <3> QED BY <2>1, <2>4, <3>2, <3>3, <3>4
  <2>5. CASE i \notin Pending(t)
    BY <2>1, <2>5, <1>4
  <2> QED BY <2>3, <2>4, <2>5
<1> HIDE DEF after
<1>6. rows \in Seq(OutRows) /\ DOMAIN rows = DOMAIN outbox[t] /\ \A i \in DOMAIN rows : rows[i] = after(i)
  <2>1. rows \in [1..Len(outbox[t]) -> OutRows] /\ Len(outbox[t]) \in Nat
    BY <1>4, <1>5
  <2> QED BY <2>1
<1>7. outbox' = [outbox EXCEPT ![t] = rows]
  BY <1>2 DEF after
<1>8. PICK pc \in {"idle", "pull"} : Goto(t, pc, <<>>)
  BY <1>2
<1> HIDE DEF rows
<1>9. /\ outbox' \in [Tills -> Seq(OutRows)] /\ outbox'[t] = rows
      /\ \A u \in Tills \ {t} : outbox'[u] = outbox[u]
  BY <1>1, <1>6, <1>7 DEF WiresOK
<1>10. /\ A \in Seq(LogRows)
       /\ \A k \in DOMAIN A : /\ A[k].by = t /\ A[k].uuid \in stored /\ ~Logged(t, A[k].uuid)
                              /\ A[k].event = outbox[t][A[k].uuid].event
       /\ \A j, k \in DOMAIN A : A[j].uuid = A[k].uuid => j = k
       /\ \A i \in stored : ~Logged(t, i) => \E k \in DOMAIN A : A[k].uuid = i
  BY <1>1, <1>4, ArrivalsAre
<1> HIDE DEF A
<1>11. log' = log \o A
  BY <1>2 DEF A
<1>12. /\ log' \in Seq(LogRows) /\ Len(log') = Len(log) + Len(A)
       /\ \A k \in 1..(Len(log) + Len(A)) :
              log'[k] = IF k <= Len(log) THEN log[k] ELSE A[k - Len(log)]
       /\ Len(log) \in Nat /\ Len(A) \in Nat /\ DOMAIN A = 1..Len(A)
  BY <1>4, <1>10, <1>11, ConcatProperties
<1>13. LogKept
  BY <1>4, <1>12 DEF LogKept
<1>14. ASSUME NEW k \in DOMAIN log' \ DOMAIN log
       PROVE  k - Len(log) \in DOMAIN A /\ log'[k] = A[k - Len(log)] /\ k \in Nat
  <2>1. k \in 1..(Len(log) + Len(A)) /\ ~(k <= Len(log))
    BY <1>4, <1>12
  <2> QED BY <2>1, <1>12
<1>15. ASSUME NEW j \in DOMAIN A
       PROVE  Len(log) + j \in DOMAIN log' /\ log'[Len(log) + j] = A[j]
  <2>1. PICK k \in 1..(Len(log) + Len(A)) : k = Len(log) + j /\ ~(k <= Len(log)) /\ k - Len(log) = j
    <3>1. j \in 1..Len(A) /\ j \in Nat /\ 0 < j /\ j <= Len(A)
      BY <1>12
    <3>2. Len(log) + j \in 1..(Len(log) + Len(A)) /\ ~(Len(log) + j <= Len(log))
          /\ (Len(log) + j) - Len(log) = j
      BY <3>1, <1>12
    <3> QED BY <3>2
  <2>2. DOMAIN log' = 1..(Len(log) + Len(A))
    BY <1>12
  <2> QED BY <2>1, <2>2, <1>12
<1>16. \A i \in stored : \E k \in DOMAIN log' : log'[k].by = t /\ log'[k].uuid = i
  <2>1. SUFFICES ASSUME NEW i \in stored
                 PROVE  \E k \in DOMAIN log' : log'[k].by = t /\ log'[k].uuid = i
    OBVIOUS
  <2>2. CASE Logged(t, i)
    BY <2>2, <1>13 DEF Logged, LogKept
  <2>3. CASE ~Logged(t, i)
    BY <2>3, <1>10, <1>15
  <2> QED BY <2>2, <2>3
<1>17. Pushed(t)
  <2>1. ASSUME NEW k \in DOMAIN log' \ DOMAIN log
        PROVE  /\ log'[k].by = t /\ log'[k].uuid \in DOMAIN outbox[t] /\ ~Logged(t, log'[k].uuid)
               /\ log'[k].event = outbox[t][log'[k].uuid].event
    BY <1>4, <1>10, <1>14
  <2>2. ASSUME NEW j \in DOMAIN log' \ DOMAIN log, NEW k \in DOMAIN log' \ DOMAIN log,
               log'[j].uuid = log'[k].uuid
        PROVE  j = k
    <3>1. j - Len(log) = k - Len(log)
      BY <2>2, <1>10, <1>14
    <3> QED BY <3>1, <1>14, <1>12
  <2>3. ASSUME NEW u \in Tills
        PROVE  /\ DOMAIN outbox'[u] = DOMAIN outbox[u]
               /\ \A i \in DOMAIN outbox[u] : outbox'[u][i].event = outbox[u][i].event
    BY <1>5, <1>6, <1>9
  <2>4. ASSUME NEW i \in DOMAIN outbox[t], outbox'[t][i].state = "pushed"
        PROVE  outbox[t][i].state = "pushed" \/ \E k \in DOMAIN log' : log'[k].by = t /\ log'[k].uuid = i
    BY <2>4, <1>5, <1>6, <1>9, <1>16
  <2> QED BY <2>1, <2>2, <2>3, <2>4, <1>9 DEF Pushed
<1>18. /\ cycle' \in [Tills -> [pc : Todos, todo : Seq(Nat)]]
       /\ \A u \in Tills \ {t} : cycle'[u] = cycle[u]
       /\ cycle'[t].todo = <<>> /\ cycle'[t].pc = pc
  <2>1. PICK c : c = [pc |-> pc, todo |-> <<>>]
    OBVIOUS
  <2>2. c \in [pc : Todos, todo : Seq(Nat)] /\ c.todo = <<>> /\ c.pc = pc
    BY <2>1 DEF Todos
  <2>3. cycle' = [cycle EXCEPT ![t] = c]
    BY <1>8, <2>1 DEF Goto
  <2> QED BY <1>1, <2>2, <2>3 DEF InboundOK
<1>19. TablesOK' /\ WiresOK'
  BY <1>1, <1>3, <1>9, <1>12 DEF TablesOK, WiresOK, tables
<1>20. InboundOK'
  <2>1. \A u \in Tills : Foreign(u) \subseteq Foreign(u)'
    BY <1>13 DEF Foreign, LogKept
  <2>2. Len(log) <= Len(log')
    BY <1>12
  <2>3. ToSet(cycle'[t].todo) = {}
    BY <1>18 DEF ToSet
  <2>4. UNCHANGED <<cursor, applied, dead, runs, rewound, button>>
    BY <1>3 DEF inbound
  <2>5. ASSUME NEW u \in Tills
        PROVE  /\ cursor'[u] <= Len(log')
               /\ applied'[u] \cup dead'[u] \cup DOMAIN runs'[u] \subseteq Foreign(u)'
               /\ ToSet(cycle'[u].todo) \subseteq Foreign(u)'
               /\ ToSet(button'[u]) \subseteq Foreign(u)'
    <3>1. cursor[u] <= Len(log') /\ UNCHANGED <<applied[u], dead[u], runs[u], button[u], cursor[u]>>
      BY <1>1, <1>12, <2>2, <2>4 DEF InboundOK
    <3>2. ToSet(cycle'[u].todo) \subseteq ToSet(cycle[u].todo)
      BY <1>18, <2>3
    <3> QED BY <1>1, <2>1, <2>4, <3>1, <3>2 DEF InboundOK
  <2> QED BY <1>1, <1>18, <2>4, <2>5 DEF InboundOK
<1>21. FaultsOK'
  <2>1. UNCHANGED <<lost, crashes, presses, torn>>
    BY <1>3 DEF inbound
  <2>2. refused' = refused \/ (refused' = refused + 1 /\ MayFail)
    BY <1>1, <1>2 DEF FaultsOK
  <2>3. refused' \in Nat /\ lost + refused' + crashes + presses <= MaxFaults
    BY <1>1, <2>2, TeamSyncAssumption DEF FaultsOK, MayFail
  <2> QED BY <1>1, <2>1, <2>3 DEF FaultsOK
<1> QED BY <1>13, <1>17, <1>18, <1>19, <1>20, <1>21 DEF TypeInv
\* What a till holds when another one moves.
Still(u) ==
    /\ cursor'[u] = cursor[u] /\ applied'[u] = applied[u] /\ dead'[u] = dead[u]
    /\ cycle'[u] = cycle[u] /\ button'[u] = button[u]
    /\ runs'[u] = runs[u] /\ torn'[u] = torn[u]
    /\ u \in rewound' <=> u \in rewound
Others(t) == \A u \in Tills \ {t} : Still(u)

\* A step of one till on events the log has keeps the types of what it holds.
LEMMA InboundTypes ==
    ASSUME InboundOK, NEW t \in Tills, log' = log, Others(t),
           cursor' \in [Tills -> Nat],
           applied' \in [Tills -> SUBSET Nat], dead' \in [Tills -> SUBSET Nat],
           cycle' \in [Tills -> [pc : Todos, todo : Seq(Nat)]], button' \in [Tills -> Seq(Nat)],
           runs' \in [Tills -> Counted], rewound' \in SUBSET Tills,
           cursor'[t] <= Len(log),
           applied'[t] \cup dead'[t] \cup DOMAIN runs'[t] \subseteq Foreign(t),
           ToSet(cycle'[t].todo) \subseteq Foreign(t), ToSet(button'[t]) \subseteq Foreign(t)
    PROVE  InboundOK'
<1>1. \A u \in Tills : Foreign(u)' = Foreign(u)
  BY DEF Foreign
<1>2. ASSUME NEW u \in Tills
      PROVE  /\ cursor'[u] <= Len(log')
             /\ applied'[u] \cup dead'[u] \cup DOMAIN runs'[u] \subseteq Foreign(u)'
             /\ ToSet(cycle'[u].todo) \subseteq Foreign(u)'
             /\ ToSet(button'[u]) \subseteq Foreign(u)'
  <2>1. CASE u = t
    BY <2>1, <1>1
  <2>2. CASE u # t
    <3>1. /\ cursor'[u] = cursor[u] /\ applied'[u] = applied[u] /\ dead'[u] = dead[u]
          /\ cycle'[u] = cycle[u] /\ button'[u] = button[u] /\ runs'[u] = runs[u]
      BY <2>2 DEF Others, Still
    <3> QED BY <3>1, <1>1 DEF InboundOK
  <2> QED BY <2>1, <2>2
<1> QED BY <1>2 DEF InboundOK

\* Where the cycle goes.
LEMMA GotoIs ==
    ASSUME InboundOK, NEW t \in Tills, NEW pc \in Todos, NEW s \in Seq(Nat), Goto(t, pc, s)
    PROVE  /\ cycle' \in [Tills -> [pc : Todos, todo : Seq(Nat)]]
           /\ cycle'[t].pc = pc /\ cycle'[t].todo = s
           /\ \A u \in Tills \ {t} : cycle'[u] = cycle[u]
<1>1. PICK c : c = [pc |-> pc, todo |-> s]
  OBVIOUS
<1>2. c \in [pc : Todos, todo : Seq(Nat)] /\ c.pc = pc /\ c.todo = s
  BY <1>1
<1>3. cycle' = [cycle EXCEPT ![t] = c]
  BY <1>1 DEF Goto
<1> QED BY <1>2, <1>3 DEF InboundOK

\* Events of other tills are in the log.
LEMMA ForeignIs ==
    ASSUME TypeInv, NEW t \in Tills, NEW i \in Foreign(t)
    PROVE  /\ i \in Nat /\ i \in 1..Len(log) /\ i \in DOMAIN log
           /\ log[i] \in LogRows /\ log[i].event \in Events /\ log[i].by # t
<1>1. log \in Seq(LogRows) /\ i \in 1..Len(log) /\ log[i].by # t
  BY DEF TypeInv, WiresOK, Foreign
<1>2. log[i] \in LogRows
  BY <1>1, ElementOfSeq
<1> QED BY <1>1, <1>2 DEF LogRows

\* The event a batch is at, and the rest of the batch.
LEMMA TodoIs ==
    ASSUME TypeInv, NEW t \in Tills, NEW pc, Busy(t, pc)
    PROVE  /\ cycle[t].pc = pc /\ pc \in Todos
           /\ Next1(t) \in Foreign(t) /\ Next1(t) \in ToSet(cycle[t].todo)
           /\ Tail(cycle[t].todo) \in Seq(Nat)
           /\ ToSet(cycle[t].todo) = {Next1(t)} \cup ToSet(Tail(cycle[t].todo))
           /\ ToSet(Tail(cycle[t].todo)) \subseteq Foreign(t)
           /\ Rising(cycle[t].todo) =>
                  /\ Rising(Tail(cycle[t].todo))
                  /\ \A i \in ToSet(Tail(cycle[t].todo)) : Next1(t) < i
<1>1. PICK s \in Seq(Nat) : s = cycle[t].todo /\ s # <<>>
  BY DEF TypeInv, InboundOK, Busy
<1>2. cycle[t].pc = pc /\ pc \in Todos /\ ToSet(cycle[t].todo) \subseteq Foreign(t)
  BY DEF TypeInv, InboundOK, Busy, At
<1>3. Next1(t) = Head(s)
  BY <1>1 DEF Next1
<1>4. /\ Head(s) \in ToSet(s) /\ Tail(s) \in Seq(Nat)
      /\ ToSet(s) = {Head(s)} \cup ToSet(Tail(s))
      /\ Rising(s) => Rising(Tail(s)) /\ \A i \in ToSet(Tail(s)) : Head(s) < i
  BY <1>1, HeadIs
<1> QED BY <1>1, <1>2, <1>3, <1>4

\* The numbers the counts are made of.
LEMMA NumbersAre ==
    ASSUME InboundOK, FaultsOK, NEW t \in Tills
    PROVE  /\ torn[t] \in Nat /\ \A i : Ran(t, i) \in Nat /\ (i \notin DOMAIN runs[t] => Ran(t, i) = 0)
           /\ \A i : Copies(t, i) \in 0..2
           /\ Spare(t) \in 0..2
<1>1. PICK D \in SUBSET Nat : runs[t] \in [D -> Nat \ {0}]
  BY DEF InboundOK, Counted
<1>2. torn[t] \in Nat /\ \A i : Ran(t, i) \in Nat /\ (i \notin DOMAIN runs[t] => Ran(t, i) = 0)
  BY <1>1 DEF FaultsOK, Ran
<1>3. ASSUME NEW i PROVE Copies(t, i) \in 0..2
  BY DEF Copies, OneIf
<1>4. Spare(t) \in 0..2
  BY DEF Spare, OneIf
<1> QED BY <1>2, <1>3, <1>4

\* After a step in which nothing runs and nothing joins a batch, the counts hold.
LEMMA OnceStays ==
    ASSUME TypeInv, TypeInv', NEW t \in Tills, OnceOK(t), LogKept,
           runs'[t] = runs[t], applied'[t] = applied[t], torn'[t] = torn[t],
           presses <= presses', t \in rewound => t \in rewound',
           \A i \in applied[t] : /\ i \in dead'[t] <=> i \in dead[t]
                                 /\ Copies(t, i)' <= Copies(t, i)
    PROVE  OnceOK(t)'
<1>1. SUFFICES ASSUME NEW i \in Foreign(t)'
               PROVE  /\ i \notin applied'[t] => Ran(t, i)' <= torn'[t]
                      /\ i \in applied'[t] \cap dead'[t] => t \in rewound' /\ Ran(t, i)' <= 1 + torn'[t]
                      /\ i \in applied'[t] \ dead'[t] =>
                             Ran(t, i)' + Copies(t, i)' <= 1 + torn'[t] + Spare(t)'
  BY DEF OnceOK
<1>2. Ran(t, i)' = Ran(t, i)
  BY DEF Ran
<1>3. /\ torn[t] \in Nat /\ Ran(t, i) \in Nat /\ Spare(t) \in 0..2 /\ Copies(t, i) \in 0..2
      /\ i \notin DOMAIN runs[t] => Ran(t, i) = 0
  BY NumbersAre DEF TypeInv
<1>4. presses \in Nat /\ presses' \in Nat
  BY DEF TypeInv, FaultsOK
<1>5. Spare(t) <= Spare(t)' /\ Spare(t)' \in 0..2 /\ Copies(t, i)' \in 0..2
  BY <1>4 DEF Spare, OneIf, Copies
<1>6. CASE i \in Foreign(t)
  BY <1>2, <1>3, <1>5, <1>6 DEF OnceOK
<1>7. CASE i \notin Foreign(t)
  <2>1. i \notin applied[t] /\ i \notin DOMAIN runs[t]
    BY <1>7 DEF TypeInv, InboundOK
  <2> QED BY <2>1, <1>2, <1>3
<1> QED BY <1>6, <1>7

\* A till that does not move keeps its batches and its counts.
LEMMA StillStays ==
    ASSUME TypeInv, TypeInv', NEW u \in Tills, Still(u), LogKept, presses <= presses',
           BatchesOK(u), OnceOK(u)
    PROVE  BatchesOK(u)' /\ OnceOK(u)'
<1>1. /\ cursor'[u] = cursor[u] /\ applied'[u] = applied[u] /\ dead'[u] = dead[u]
      /\ cycle'[u] = cycle[u] /\ button'[u] = button[u]
      /\ runs'[u] = runs[u] /\ torn'[u] = torn[u]
      /\ u \in rewound' <=> u \in rewound
  BY DEF Still
<1>2. \A i : Copies(u, i)' = Copies(u, i) /\ Copies(u, i) \in Int
  BY <1>1 DEF Copies, OneIf
<1>3. OnceOK(u)'
  BY <1>1, <1>2, OnceStays
<1>4. presses \in Nat /\ presses' \in Nat
  BY DEF TypeInv, FaultsOK
<1>5. /\ dead[u] \cup ToSet(button[u]) \cup ToSet(cycle[u].todo) \subseteq Foreign(u)
  BY DEF TypeInv, InboundOK
<1>6. \A i \in Foreign(u) : log'[i] = log[i]
  BY DEF LogKept, Foreign
<1>7. BatchesOK(u)'
  BY <1>1, <1>4, <1>5, <1>6 DEF BatchesOK
<1> QED BY <1>3, <1>7
-----------------------------------------------------------------------------
(***************************************************************************)
(* Batches and runs, one action at a time.                                 *)
(***************************************************************************)
Moved(t) ==
    /\ TypeInv' /\ Others(t) /\ LogKept /\ presses <= presses'
    /\ BatchesOK(t)' /\ OnceOK(t)'

\* As long as the log does not grow, what is foreign stays so.
LEMMA SameLog ==
    ASSUME log' = log
    PROVE  LogKept /\ \A t : Foreign(t)' = Foreign(t)
BY DEF LogKept, Foreign

\* The smaller of two numbers.
LEMMA MinOfTwo ==
    ASSUME NEW m \in Nat, NEW n \in Nat
    PROVE  Min({m, n}) \in 0..n
<1>1. CASE m <= n
  BY <1>1 DEF Min
<1>2. CASE ~(m <= n)
  BY <1>2 DEF Min
<1> QED BY <1>1, <1>2

\* A pull fetches events past the cursor, in order.
LEMMA PullMoves ==
    ASSUME TypeInv, NEW t \in Tills, BatchesOK(t), OnceOK(t), Pull(t)
    PROVE  Moved(t)
<1> DEFINE F == {i \in Foreign(t) : i > cursor[t]}
           new == Ascending(F)
           m == Min({Batch, Len(new)})
           s == SubSeq(new, 1, m)
<1>1. F \in SUBSET (1..Len(log)) /\ Len(log) \in Nat /\ \A i \in F : i \in Foreign(t) /\ cursor[t] < i
  BY ForeignIs DEF TypeInv, InboundOK, WiresOK
<1> HIDE DEF F
<1>2. /\ new \in Seq(F) /\ Rising(new) /\ Len(new) \in Nat
      /\ DOMAIN new = 1..Len(new) /\ \A k \in 1..Len(new) : new[k] \in F
  BY <1>1, AscendingIs
<1>3. m \in 0..Len(new)
  BY <1>2, MinOfTwo, TeamSyncAssumption
<1>4. Goto(t, "apply", s) /\ UNCHANGED <<tables, outbox, clerk, twice, log, inbound, button, counters>>
      /\ cycle[t].pc = "pull"
  BY DEF Pull, F, At
<1> HIDE DEF new, m
<1>5. /\ s \in Seq(F) /\ DOMAIN s = 1..m /\ m \in Nat
      /\ \A k \in 1..m : s[k] = new[k] /\ k \in 1..Len(new)
  BY <1>2, <1>3
<1> HIDE DEF s
<1>6. Rising(s) /\ ToSet(s) \subseteq F /\ s \in Seq(Nat)
  <2>1. Rising(s)
    BY <1>2, <1>5 DEF Rising
  <2>2. ToSet(s) \subseteq F
    BY <1>2, <1>5 DEF ToSet
  <2> QED BY <2>1, <2>2, <1>1, <1>5
<1>7. InboundOK /\ FaultsOK
  BY DEF TypeInv
<1>8. /\ cycle' \in [Tills -> [pc : Todos, todo : Seq(Nat)]]
      /\ cycle'[t].pc = "apply" /\ cycle'[t].todo = s
      /\ \A u \in Tills \ {t} : cycle'[u] = cycle[u]
  BY <1>4, <1>6, <1>7, GotoIs DEF Todos
<1>9. UNCHANGED <<cursor, applied, dead, runs, torn, rewound, button, log, presses>>
  BY <1>4 DEF inbound, counters
<1>10. Others(t) /\ LogKept
  BY <1>8, <1>9 DEF Others, Still, LogKept
<1>11. TypeInv'
  <2>1. TablesOK' /\ WiresOK' /\ FaultsOK'
    BY <1>4 DEF TypeInv, TablesOK, WiresOK, FaultsOK, tables, inbound, counters
  <2>2. ToSet(cycle'[t].todo) \subseteq Foreign(t)
    BY <1>1, <1>6, <1>8
  <2>3. InboundOK'
    BY <1>7, <1>8, <1>9, <1>10, <2>2, InboundTypes DEF InboundOK
  <2> QED BY <2>1, <2>3 DEF TypeInv
<1>12. OnceOK(t)'
  <2>1. \A i : Copies(t, i)' <= Copies(t, i)
    BY <1>4, <1>8, <1>9 DEF Copies, OneIf
  <2>2. presses <= presses'
    BY <1>9 DEF TypeInv, FaultsOK
  <2> QED BY <1>9, <1>10, <1>11, <2>1, <2>2, OnceStays
<1>13. BatchesOK(t)'
  <2>1. \A i \in ToSet(s) : cursor[t] < i
    BY <1>1, <1>6
  <2> QED BY <1>6, <1>8, <1>9, <2>1 DEF BatchesOK
<1> QED BY <1>7, <1>9, <1>10, <1>11, <1>12, <1>13 DEF Moved, FaultsOK

\* An event that is marked is passed over.
LEMMA SkipMoves ==
    ASSUME TypeInv, NEW t \in Tills, BatchesOK(t), OnceOK(t), Skip(t)
    PROVE  Moved(t)
<1>1. PICK s \in Seq(Nat) : s = Tail(cycle[t].todo)
  BY TodoIs DEF Skip
<1>2. /\ cycle[t].pc = "apply" /\ ToSet(s) \subseteq ToSet(cycle[t].todo)
      /\ ToSet(s) \subseteq Foreign(t) /\ Rising(s)
  BY <1>1, TodoIs DEF Skip, BatchesOK
<1>3. InboundOK /\ FaultsOK
  BY DEF TypeInv
<1>4. /\ cycle' \in [Tills -> [pc : Todos, todo : Seq(Nat)]]
      /\ cycle'[t].pc = "apply" /\ cycle'[t].todo = s
      /\ \A u \in Tills \ {t} : cycle'[u] = cycle[u]
  BY <1>1, <1>3, GotoIs DEF Todos, Skip, Rest
<1>5. UNCHANGED <<cursor, applied, dead, runs, torn, rewound, button, log, presses>>
  BY DEF Skip, inbound, Local
<1>6. Others(t) /\ LogKept
  BY <1>4, <1>5 DEF Others, Still, LogKept
<1>7. TypeInv'
  <2>1. TablesOK' /\ WiresOK' /\ FaultsOK'
    BY DEF Skip, Local, TypeInv, TablesOK, WiresOK, FaultsOK, tables, inbound
  <2>2. InboundOK'
    BY <1>2, <1>3, <1>4, <1>5, <1>6, InboundTypes DEF InboundOK
  <2> QED BY <2>1, <2>2 DEF TypeInv
<1>8. OnceOK(t)'
  <2>1. \A i : Copies(t, i)' <= Copies(t, i)
    BY <1>2, <1>4, <1>5 DEF Copies, OneIf
  <2>2. presses <= presses'
    BY <1>5 DEF TypeInv, FaultsOK
  <2> QED BY <1>5, <1>6, <1>7, <2>1, <2>2, OnceStays
<1>9. BatchesOK(t)'
  BY <1>2, <1>4, <1>5 DEF BatchesOK
<1> QED BY <1>3, <1>5, <1>6, <1>7, <1>8, <1>9 DEF Moved, FaultsOK

\* An event that is refused gets a dead letter, and the cursor passes it.
LEMMA DeadLetterMoves ==
    ASSUME TypeInv, NEW t \in Tills, BatchesOK(t), OnceOK(t), DeadLetter(t)
    PROVE  Moved(t)
<1>0. Busy(t, "apply")
  BY DEF DeadLetter, New
<1>1. PICK s \in Seq(Nat), i \in Foreign(t) : s = Tail(cycle[t].todo) /\ i = Next1(t)
  BY <1>0, TodoIs
<1>2. /\ cycle[t].pc = "apply" /\ ToSet(s) \subseteq ToSet(cycle[t].todo)
      /\ i \in ToSet(cycle[t].todo)
      /\ ToSet(s) \subseteq Foreign(t) /\ Rising(s) /\ \A j \in ToSet(s) : i < j
  BY <1>0, <1>1, TodoIs DEF BatchesOK
<1>3. InboundOK /\ FaultsOK
  BY DEF TypeInv
<1>4. /\ cycle' \in [Tills -> [pc : Todos, todo : Seq(Nat)]]
      /\ cycle'[t].pc = "apply" /\ cycle'[t].todo = s
      /\ \A u \in Tills \ {t} : cycle'[u] = cycle[u]
  BY <1>1, <1>3, GotoIs DEF Todos, DeadLetter, Rest
<1>5. /\ UNCHANGED <<applied, runs, torn, rewound, button, log, presses>>
      /\ dead' = [dead EXCEPT ![t] = @ \cup {i}] /\ cursor' = [cursor EXCEPT ![t] = i]
      /\ i \notin applied[t] /\ Refuses(t, log[i].event)
  BY <1>1 DEF DeadLetter, Local, Advance, New
<1>6. /\ cursor' \in [Tills -> Nat] /\ cursor'[t] = i
      /\ dead' \in [Tills -> SUBSET Nat] /\ dead'[t] = dead[t] \cup {i}
      /\ \A u \in Tills \ {t} : cursor'[u] = cursor[u] /\ dead'[u] = dead[u]
      /\ i \in Nat /\ i <= Len(log) /\ cursor[t] \in Nat
  BY <1>3, <1>5, ForeignIs DEF InboundOK
<1>7. Others(t) /\ LogKept
  BY <1>4, <1>5, <1>6 DEF Others, Still, LogKept
<1>8. TypeInv'
  <2>1. TablesOK' /\ WiresOK' /\ FaultsOK'
    BY DEF DeadLetter, Local, TypeInv, TablesOK, WiresOK, FaultsOK, tables
  <2>2. InboundOK'
    <3>1. applied'[t] \cup dead'[t] \cup DOMAIN runs'[t] \subseteq Foreign(t)
      BY <1>3, <1>5, <1>6 DEF InboundOK
    <3> QED BY <1>2, <1>3, <1>4, <1>5, <1>6, <1>7, <3>1, InboundTypes DEF InboundOK
  <2> QED BY <2>1, <2>2 DEF TypeInv
<1>9. OnceOK(t)'
  <2>1. \A j : Copies(t, j)' <= Copies(t, j)
    BY <1>2, <1>4, <1>5 DEF Copies, OneIf
  <2>2. presses <= presses'
    BY <1>5 DEF TypeInv, FaultsOK
  <2> QED BY <1>5, <1>6, <1>7, <1>8, <2>1, <2>2, OnceStays
<1>10. BatchesOK(t)'
  <2>1. log[i].event.kind = "stock"
    BY <1>5 DEF Refuses
  <2>2. t \notin rewound => cursor[t] < i /\ \A j \in dead'[t] : j <= i
    <3>1. t \notin rewound => cursor[t] < i
      BY <1>2 DEF BatchesOK
    <3>2. \A j \in dead[t] : j \in Nat
      BY <1>3 DEF InboundOK
    <3>3. t \notin rewound => \A j \in dead[t] : j <= cursor[t]
      BY DEF BatchesOK
    <3> QED BY <1>6, <3>1, <3>2, <3>3
  <2>3. /\ Rising(cycle'[t].todo) /\ Rising(button'[t])
        /\ button'[t] # <<>> => presses' > 0
        /\ \A j \in dead'[t] : log'[j].event.kind = "stock"
        /\ ToSet(button'[t]) \subseteq dead'[t] \cup applied'[t]
        /\ \A j \in ToSet(button'[t]) : log'[j].event.kind = "stock"
    BY <1>2, <1>4, <1>5, <1>6, <2>1 DEF BatchesOK
  <2> QED BY <1>2, <1>4, <1>5, <1>6, <2>2, <2>3 DEF BatchesOK
<1> QED BY <1>3, <1>5, <1>7, <1>8, <1>9, <1>10 DEF Moved, FaultsOK

\* The dead letters of a till, in order.
LEMMA DeadListIs ==
    ASSUME TypeInv, NEW t \in Tills
    PROVE  /\ Ascending(dead[t]) \in Seq(Nat) /\ Rising(Ascending(dead[t]))
           /\ ToSet(Ascending(dead[t])) \subseteq dead[t]
           /\ dead[t] \subseteq Foreign(t)
<1>1. dead[t] \subseteq Foreign(t) /\ dead[t] \in SUBSET (1..Len(log)) /\ Len(log) \in Nat
  BY ForeignIs DEF TypeInv, InboundOK, WiresOK
<1>2. /\ Ascending(dead[t]) \in Seq(dead[t]) /\ Rising(Ascending(dead[t]))
  BY <1>1, AscendingIs
<1>3. PICK s \in Seq(dead[t]) : s = Ascending(dead[t])
  BY <1>2
<1>4. ToSet(s) \subseteq dead[t]
  BY DEF ToSet
<1> QED BY <1>1, <1>2, <1>3, <1>4

\* The batch of a retry is the dead letters, in order.
LEMMA StartRetryMoves ==
    ASSUME TypeInv, NEW t \in Tills, BatchesOK(t), OnceOK(t), StartRetry(t)
    PROVE  Moved(t)
<1>1. PICK s \in Seq(Nat) : s = Ascending(dead[t])
  BY DeadListIs
<1>2. /\ cycle[t].pc = "apply" /\ ToSet(s) \subseteq dead[t]
      /\ ToSet(s) \subseteq Foreign(t) /\ Rising(s)
  BY <1>1, DeadListIs DEF StartRetry, At
<1>3. InboundOK /\ FaultsOK
  BY DEF TypeInv
<1>4. /\ cycle' \in [Tills -> [pc : Todos, todo : Seq(Nat)]]
      /\ cycle'[t].pc = "retry" /\ cycle'[t].todo = s
      /\ \A u \in Tills \ {t} : cycle'[u] = cycle[u]
  BY <1>1, <1>3, GotoIs DEF Todos, StartRetry
<1>5. UNCHANGED <<cursor, applied, dead, runs, torn, rewound, button, log, presses>>
  BY DEF StartRetry, inbound, Local
<1>6. Others(t) /\ LogKept
  BY <1>4, <1>5 DEF Others, Still, LogKept
<1>7. TypeInv'
  <2>1. TablesOK' /\ WiresOK' /\ FaultsOK'
    BY DEF StartRetry, Local, TypeInv, TablesOK, WiresOK, FaultsOK, tables, inbound
  <2>2. InboundOK'
    BY <1>2, <1>3, <1>4, <1>5, <1>6, InboundTypes DEF InboundOK
  <2> QED BY <2>1, <2>2 DEF TypeInv
<1>8. OnceOK(t)'
  <2>0. presses <= presses' /\ UNCHANGED <<applied[t], dead[t], runs[t], torn[t], button[t]>>
    BY <1>5 DEF TypeInv, FaultsOK
  <2>1. SUFFICES ASSUME NEW i \in Foreign(t)
                 PROVE  /\ i \notin applied[t] => Ran(t, i)' <= torn[t]
                        /\ i \in applied[t] \cap dead[t] =>
                               t \in rewound' /\ Ran(t, i)' <= 1 + torn[t]
                        /\ i \in applied[t] \ dead[t] =>
                               Ran(t, i)' + Copies(t, i)' <= 1 + torn[t] + Spare(t)'
    BY <1>5, SameLog DEF OnceOK
  <2>2. Ran(t, i)' = Ran(t, i) /\ Spare(t)' = Spare(t)
    BY <1>5 DEF Ran, Spare
  <2>3. i \notin dead[t] => Copies(t, i)' <= Copies(t, i) /\ Copies(t, i)' \in 0..2
    BY <1>2, <1>4, <1>5 DEF Copies, OneIf
  <2>4. /\ torn[t] \in Nat /\ Ran(t, i) \in Nat /\ Spare(t) \in 0..2 /\ Copies(t, i) \in 0..2
    BY <1>3, NumbersAre
  <2> QED BY <1>5, <2>2, <2>3, <2>4 DEF OnceOK
<1>9. BatchesOK(t)'
  <2>1. \A i \in ToSet(s) : i \in dead[t] /\ log[i].event.kind = "stock"
    BY <1>2 DEF BatchesOK
  <2> QED BY <1>2, <1>4, <1>5, <2>1 DEF BatchesOK
<1> QED BY <1>3, <1>5, <1>6, <1>7, <1>8, <1>9 DEF Moved, FaultsOK

\* The batch of the button is the dead letters, in order.
LEMMA PressMoves ==
    ASSUME TypeInv, NEW t \in Tills, BatchesOK(t), OnceOK(t), Press(t)
    PROVE  Moved(t)
<1>1. PICK s \in Seq(Nat) : s = Ascending(dead[t])
  BY DeadListIs
<1>2. ToSet(s) \subseteq dead[t] /\ ToSet(s) \subseteq Foreign(t) /\ Rising(s)
  BY <1>1, DeadListIs
<1>3. InboundOK /\ FaultsOK
  BY DEF TypeInv
<1>4. /\ button[t] = <<>> /\ MayFail /\ presses' = presses + 1
      /\ button' = [button EXCEPT ![t] = s]
      /\ UNCHANGED <<tables, outbox, clerk, twice, log, inbound, cycle, lost, refused, crashes>>
  BY <1>1 DEF Press
<1>5. /\ button' \in [Tills -> Seq(Nat)] /\ button'[t] = s
      /\ \A u \in Tills \ {t} : button'[u] = button[u]
      /\ UNCHANGED <<cursor, applied, dead, runs, torn, rewound, cycle, log>>
      /\ presses \in Nat /\ presses' \in Nat /\ presses' > 0 /\ presses <= presses'
  BY <1>3, <1>4 DEF InboundOK, FaultsOK, inbound
<1>6. Others(t) /\ LogKept
  BY <1>5 DEF Others, Still, LogKept
<1>7. TypeInv'
  <2>1. TablesOK' /\ WiresOK'
    BY <1>4 DEF TypeInv, TablesOK, WiresOK, tables, inbound
  <2>2. FaultsOK'
    BY <1>3, <1>4, <1>5, TeamSyncAssumption DEF FaultsOK, MayFail
  <2>3. InboundOK'
    BY <1>2, <1>3, <1>5, <1>6, InboundTypes DEF InboundOK
  <2> QED BY <2>1, <2>2, <2>3 DEF TypeInv
<1>8. OnceOK(t)'
  <2>1. SUFFICES ASSUME NEW i \in Foreign(t)
                 PROVE  /\ i \notin applied[t] => Ran(t, i)' <= torn[t]
                        /\ i \in applied[t] \cap dead[t] =>
                               t \in rewound' /\ Ran(t, i)' <= 1 + torn[t]
                        /\ i \in applied[t] \ dead[t] =>
                               Ran(t, i)' + Copies(t, i)' <= 1 + torn[t] + Spare(t)'
    BY <1>5, SameLog DEF OnceOK
  <2>2. Ran(t, i)' = Ran(t, i) /\ Spare(t) <= Spare(t)' /\ Spare(t)' \in 0..2
    BY <1>5 DEF Ran, Spare, OneIf
  <2>3. i \notin dead[t] => Copies(t, i)' <= Copies(t, i) /\ Copies(t, i)' \in 0..2
    BY <1>2, <1>5 DEF Copies, OneIf
  <2>4. /\ torn[t] \in Nat /\ Ran(t, i) \in Nat /\ Spare(t) \in 0..2 /\ Copies(t, i) \in 0..2
    BY <1>3, NumbersAre
  <2> QED BY <1>5, <2>2, <2>3, <2>4 DEF OnceOK
<1>9. BatchesOK(t)'
  <2>1. \A i \in ToSet(s) : i \in dead[t] /\ log[i].event.kind = "stock"
    BY <1>2 DEF BatchesOK
  <2> QED BY <1>2, <1>5, <2>1 DEF BatchesOK
<1> QED BY <1>5, <1>6, <1>7, <1>8, <1>9 DEF Moved

\* A cursor that is set back takes back what is known of the order.
LEMMA RewindMoves ==
    ASSUME TypeInv, NEW t \in Tills, BatchesOK(t), OnceOK(t), Rewind(t)
    PROVE  Moved(t)
<1>1. InboundOK /\ FaultsOK
  BY DEF TypeInv
<1>2. /\ cursor' = [cursor EXCEPT ![t] = 0] /\ rewound' = rewound \cup {t}
      /\ MayFail /\ crashes' = crashes + 1
      /\ UNCHANGED <<tables, outbox, clerk, twice, log, applied, dead, runs, torn, cycle,
                     button, lost, refused, presses>>
  BY DEF Rewind
<1>3. /\ cursor' \in [Tills -> Nat] /\ cursor'[t] = 0
      /\ \A u \in Tills \ {t} : cursor'[u] = cursor[u]
      /\ Len(log) \in Nat
  BY <1>1, <1>2 DEF InboundOK, TypeInv, WiresOK
<1>4. Others(t) /\ LogKept
  BY <1>2, <1>3 DEF Others, Still, LogKept
<1>5. TypeInv'
  <2>1. TablesOK' /\ WiresOK'
    BY <1>2 DEF TypeInv, TablesOK, WiresOK, tables
  <2>2. FaultsOK'
    BY <1>1, <1>2, TeamSyncAssumption DEF FaultsOK, MayFail
  <2>3. rewound' \in SUBSET Tills
    BY <1>1, <1>2 DEF InboundOK
  <2>4. InboundOK'
    <3>1. /\ cursor'[t] <= Len(log)
          /\ applied'[t] \cup dead'[t] \cup DOMAIN runs'[t] \subseteq Foreign(t)
          /\ ToSet(cycle'[t].todo) \subseteq Foreign(t) /\ ToSet(button'[t]) \subseteq Foreign(t)
      BY <1>1, <1>2, <1>3 DEF InboundOK
    <3>2. /\ applied' \in [Tills -> SUBSET Nat] /\ dead' \in [Tills -> SUBSET Nat]
          /\ cycle' \in [Tills -> [pc : Todos, todo : Seq(Nat)]] /\ button' \in [Tills -> Seq(Nat)]
          /\ runs' \in [Tills -> Counted] /\ log' = log
      BY <1>1, <1>2 DEF InboundOK
    <3> QED BY <1>1, <1>3, <1>4, <2>3, <3>1, <3>2, InboundTypes
  <2> QED BY <2>1, <2>2, <2>4 DEF TypeInv
<1>6. OnceOK(t)'
  <2>1. \A i : Copies(t, i)' <= Copies(t, i)
    BY <1>2 DEF Copies, OneIf
  <2>2. presses <= presses'
    BY <1>1, <1>2 DEF FaultsOK
  <2> QED BY <1>2, <1>4, <1>5, <2>1, <2>2, OnceStays
<1>7. BatchesOK(t)'
  BY <1>2 DEF BatchesOK
<1> QED BY <1>1, <1>2, <1>4, <1>5, <1>6, <1>7 DEF Moved, FaultsOK

\* A push runs nothing.
LEMMA PushMoves ==
    ASSUME TypeInv, NEW t \in Tills, BatchesOK(t), OnceOK(t), Push(t)
    PROVE  Moved(t)
<1>1. /\ TypeInv' /\ LogKept
      /\ \A u \in Tills \ {t} : cycle'[u] = cycle[u]
      /\ cycle'[t].todo = <<>> /\ cycle'[t].pc \in {"idle", "pull"}
  BY PushIs
<1>2. UNCHANGED <<cursor, applied, dead, runs, torn, rewound, button, presses>>
  BY DEF Push, inbound
<1>3. Others(t)
  BY <1>1, <1>2 DEF Others, Still
<1>4. presses <= presses'
  BY <1>2 DEF TypeInv, FaultsOK
<1>5. OnceOK(t)'
  <2>1. \A i : Copies(t, i)' <= Copies(t, i)
    BY <1>1, <1>2 DEF Copies, OneIf
  <2> QED BY <1>1, <1>2, <1>4, <2>1, OnceStays
<1>6. BatchesOK(t)'
  <2>1. dead[t] \cup ToSet(button[t]) \subseteq Foreign(t)
    BY DEF TypeInv, InboundOK
  <2>2. \A i \in Foreign(t) : log'[i] = log[i]
    BY <1>1 DEF LogKept, Foreign
  <2>3. Rising(cycle'[t].todo)
    BY <1>1 DEF Rising
  <2> QED BY <1>1, <1>2, <2>1, <2>2, <2>3 DEF BatchesOK
<1> QED BY <1>1, <1>3, <1>4, <1>5, <1>6 DEF Moved

\* A run of an event that the log has.
LEMMA RunIs ==
    ASSUME TypeInv, NEW t \in Tills, NEW i \in Foreign(t), Run(t, i)
    PROVE  /\ TablesOK'
           /\ runs' \in [Tills -> Counted] /\ DOMAIN runs'[t] \subseteq Foreign(t)
           /\ \A u \in Tills \ {t} : runs'[u] = runs[u]
           /\ \A j : Ran(t, j)' = Ran(t, j) + OneIf(j = i)
<1>1. i \in Nat /\ log[i].event \in Events
  BY ForeignIs
<1>2. Effect(t, log[i].event) /\ CountRun(t, i)
  BY DEF Run
<1>3. /\ runs' \in [Tills -> Counted]
      /\ \A u \in Tills \ {t} : runs'[u] = runs[u]
      /\ DOMAIN runs'[t] = DOMAIN runs[t] \cup {i}
      /\ Ran(t, i) \in Nat
      /\ runs'[t][i] = Ran(t, i) + 1
      /\ \A j \in DOMAIN runs[t] \ {i} : runs'[t][j] = runs[t][j]
  BY <1>1, <1>2, CountRunIs DEF TypeInv
<1>4. DOMAIN runs'[t] \subseteq Foreign(t)
  BY <1>3 DEF TypeInv, InboundOK
<1>5. \A j : Ran(t, j) \in Nat
  BY NumbersAre DEF TypeInv
<1>6. ASSUME NEW j PROVE Ran(t, j)' = Ran(t, j) + OneIf(j = i)
  BY <1>3, <1>5 DEF Ran, OneIf
<1>7. TablesOK'
  BY <1>1, <1>2, EffectIs DEF TypeInv
<1> QED BY <1>3, <1>4, <1>6, <1>7

\* A death empties what was in memory.
LEMMA DieIs ==
    ASSUME TypeInv, NEW t \in Tills, Die(t)
    PROVE  /\ cycle' \in [Tills -> [pc : Todos, todo : Seq(Nat)]]
           /\ cycle'[t].pc = "idle" /\ cycle'[t].todo = <<>> /\ ToSet(cycle'[t].todo) = {}
           /\ button' \in [Tills -> Seq(Nat)] /\ button'[t] = <<>> /\ ToSet(button'[t]) = {}
           /\ \A u \in Tills \ {t} : cycle'[u] = cycle[u] /\ button'[u] = button[u]
           /\ clerk' \in [Tills -> SUBSET Movements]
           /\ MayFail /\ crashes' = crashes + 1
           /\ UNCHANGED <<log, cursor, rewound, lost, refused, presses>>
           /\ Rising(cycle'[t].todo) /\ Rising(button'[t])
           /\ \A i : Copies(t, i)' = 0
<1>1. /\ cycle' = [cycle EXCEPT ![t] = Idle]
      /\ button' = [button EXCEPT ![t] = <<>>]
      /\ clerk' = [clerk EXCEPT ![t] = {}]
      /\ MayFail /\ crashes' = crashes + 1
      /\ UNCHANGED <<log, cursor, rewound, lost, refused, presses>>
  BY DEF Die
<1>2. Idle \in [pc : Todos, todo : Seq(Nat)] /\ Idle.pc = "idle" /\ Idle.todo = <<>>
  BY DEF Idle, Todos
<1>3. <<>> \in Seq(Nat) /\ ToSet(<<>>) = {} /\ Rising(<<>>)
  BY DEF ToSet, Rising
<1>4. /\ cycle' \in [Tills -> [pc : Todos, todo : Seq(Nat)]] /\ cycle'[t] = Idle
      /\ button' \in [Tills -> Seq(Nat)] /\ button'[t] = <<>>
      /\ \A u \in Tills \ {t} : cycle'[u] = cycle[u] /\ button'[u] = button[u]
  BY <1>1, <1>2, <1>3 DEF TypeInv, InboundOK
<1>5. clerk' \in [Tills -> SUBSET Movements]
  BY <1>1 DEF TypeInv, WiresOK
<1>6. \A i : Copies(t, i)' = 0
  BY <1>2, <1>3, <1>4 DEF Copies, OneIf
<1> QED BY <1>1, <1>2, <1>3, <1>4, <1>5, <1>6

\* An event is applied, marked, and passed.
LEMMA ApplyMoves ==
    ASSUME TypeInv, NEW t \in Tills, BatchesOK(t), OnceOK(t), Apply(t)
    PROVE  Moved(t)
<1>0. Busy(t, "apply")
  BY DEF Apply, Accepted, New
<1>1. PICK s \in Seq(Nat), i \in Foreign(t) : s = Tail(cycle[t].todo) /\ i = Next1(t)
  BY <1>0, TodoIs
<1>2. /\ cycle[t].pc = "apply" /\ ToSet(s) \subseteq ToSet(cycle[t].todo)
      /\ i \in ToSet(cycle[t].todo)
      /\ ToSet(s) \subseteq Foreign(t) /\ Rising(s) /\ \A j \in ToSet(s) : i < j
  BY <1>0, <1>1, TodoIs DEF BatchesOK
<1>3. InboundOK /\ FaultsOK
  BY DEF TypeInv
<1>4. /\ cycle' \in [Tills -> [pc : Todos, todo : Seq(Nat)]]
      /\ cycle'[t].pc = "apply" /\ cycle'[t].todo = s
      /\ \A u \in Tills \ {t} : cycle'[u] = cycle[u]
  BY <1>1, <1>3, GotoIs DEF Todos, Apply, Rest
<1>5. /\ UNCHANGED <<dead, torn, rewound, button, log, presses, crashes>>
      /\ applied' = [applied EXCEPT ![t] = @ \cup {i}] /\ cursor' = [cursor EXCEPT ![t] = i]
      /\ i \notin applied[t] /\ Run(t, i)
  BY <1>1 DEF Apply, Local, Advance, Mark, Accepted, New
<1>6. /\ cursor' \in [Tills -> Nat] /\ cursor'[t] = i
      /\ applied' \in [Tills -> SUBSET Nat] /\ applied'[t] = applied[t] \cup {i}
      /\ \A u \in Tills \ {t} : cursor'[u] = cursor[u] /\ applied'[u] = applied[u]
      /\ i \in Nat /\ i <= Len(log) /\ cursor[t] \in Nat
  BY <1>3, <1>5, ForeignIs DEF InboundOK
<1>7. /\ TablesOK'
      /\ runs' \in [Tills -> Counted] /\ DOMAIN runs'[t] \subseteq Foreign(t)
      /\ \A u \in Tills \ {t} : runs'[u] = runs[u]
      /\ \A j : Ran(t, j)' = Ran(t, j) + OneIf(j = i)
  BY <1>5, RunIs
<1>8. Others(t) /\ LogKept
  BY <1>4, <1>5, <1>6, <1>7 DEF Others, Still, LogKept
<1>9. TypeInv'
  <2>1. WiresOK' /\ FaultsOK'
    BY DEF Apply, Local, TypeInv, WiresOK, FaultsOK
  <2>2. InboundOK'
    <3>1. applied'[t] \cup dead'[t] \cup DOMAIN runs'[t] \subseteq Foreign(t)
      BY <1>3, <1>5, <1>6, <1>7 DEF InboundOK
    <3> QED BY <1>2, <1>3, <1>4, <1>5, <1>6, <1>7, <1>8, <3>1, InboundTypes DEF InboundOK
  <2> QED BY <1>7, <2>1, <2>2 DEF TypeInv
<1>10. i \in dead[t] => t \in rewound
  <2>1. t \notin rewound => (i \in dead[t] => i <= cursor[t]) /\ cursor[t] < i
    BY <1>2 DEF BatchesOK
  <2> QED BY <2>1, <1>6
<1>11. i \in ToSet(button[t]) => i \in dead[t]
  BY <1>5 DEF BatchesOK
<1>12. OnceOK(t)'
  <2>1. SUFFICES ASSUME NEW j \in Foreign(t)
                 PROVE  /\ j \notin applied'[t] => Ran(t, j)' <= torn[t]
                        /\ j \in applied'[t] \cap dead[t] =>
                               t \in rewound' /\ Ran(t, j)' <= 1 + torn[t]
                        /\ j \in applied'[t] \ dead[t] =>
                               Ran(t, j)' + Copies(t, j)' <= 1 + torn[t] + Spare(t)'
    BY <1>5, SameLog DEF OnceOK
  <2>2. Spare(t)' = Spare(t) /\ Ran(t, j)' = Ran(t, j) + (IF j = i THEN 1 ELSE 0)
    BY <1>5, <1>7 DEF Spare, OneIf
  <2>3. /\ Copies(t, j)' = OneIf(j \in ToSet(button[t])) /\ Copies(t, j) = OneIf(j \in ToSet(button[t]))
        /\ OneIf(j \in ToSet(button[t])) \in {0, 1}
    BY <1>2, <1>4, <1>5 DEF Copies, OneIf
  <2>4. /\ torn[t] \in Nat /\ Ran(t, j) \in Nat /\ Spare(t) \in 0..2
    BY <1>3, NumbersAre
  <2>5. CASE j = i
    <3>1. Ran(t, i) <= torn[t]
      BY <1>5 DEF OnceOK
    <3>2. i \notin dead[t] => Copies(t, j)' = 0
      BY <1>11, <2>3, <2>5 DEF OneIf
    <3> QED BY <1>5, <1>6, <1>10, <2>2, <2>3, <2>4, <2>5, <3>1, <3>2
  <2>6. CASE j # i
    BY <1>5, <1>6, <2>2, <2>3, <2>4, <2>6 DEF OnceOK
  <2> QED BY <2>5, <2>6
<1>13. BatchesOK(t)'
  <2>2. t \notin rewound => \A j \in dead[t] : j <= i
    <3>1. t \notin rewound => cursor[t] < i
      BY <1>2 DEF BatchesOK
    <3>2. \A j \in dead[t] : j \in Nat
      BY <1>3 DEF InboundOK
    <3>3. t \notin rewound => \A j \in dead[t] : j <= cursor[t]
      BY DEF BatchesOK
    <3> QED BY <1>6, <3>1, <3>2, <3>3
  <2>3. /\ Rising(cycle'[t].todo) /\ Rising(button'[t])
        /\ button'[t] # <<>> => presses' > 0
        /\ \A j \in dead'[t] : log'[j].event.kind = "stock"
        /\ ToSet(button'[t]) \subseteq dead'[t] \cup applied'[t]
        /\ \A j \in ToSet(button'[t]) : log'[j].event.kind = "stock"
    BY <1>2, <1>4, <1>5, <1>6 DEF BatchesOK
  <2> QED BY <1>2, <1>4, <1>5, <1>6, <2>2, <2>3 DEF BatchesOK
<1> QED BY <1>3, <1>5, <1>8, <1>9, <1>12, <1>13 DEF Moved, FaultsOK

\* A till that dies with an event that ran has it unmarked, and one death more
\* between an effect and its mark; or it has it marked, and passes it next time.
LEMMA DeathMoves ==
    ASSUME TypeInv, NEW t \in Tills, NEW i \in Foreign(t), BatchesOK(t), OnceOK(t),
           Run(t, i), Die(t), UNCHANGED <<outbox, twice>>,
           applied' \in [Tills -> SUBSET Nat], dead' \in [Tills -> SUBSET Nat],
           torn' \in [Tills -> Nat], NEW n \in {0, 1}, torn'[t] = torn[t] + n,
           \A u \in Tills \ {t} :
               applied'[u] = applied[u] /\ dead'[u] = dead[u] /\ torn'[u] = torn[u],
           dead'[t] \subseteq dead[t], dead[t] \ {i} \subseteq dead'[t],
           n = 1 => applied'[t] = applied[t],
           n = 0 => /\ i \notin applied[t] /\ applied'[t] = applied[t] \cup {i}
                    /\ dead'[t] = dead[t] /\ (i \in dead[t] => t \in rewound)
    PROVE  Moved(t)
<1>1. InboundOK /\ FaultsOK
  BY DEF TypeInv
<1>2. /\ cycle' \in [Tills -> [pc : Todos, todo : Seq(Nat)]]
      /\ cycle'[t].pc = "idle" /\ ToSet(cycle'[t].todo) = {}
      /\ button' \in [Tills -> Seq(Nat)] /\ button'[t] = <<>> /\ ToSet(button'[t]) = {}
      /\ \A u \in Tills \ {t} : cycle'[u] = cycle[u] /\ button'[u] = button[u]
      /\ clerk' \in [Tills -> SUBSET Movements]
      /\ MayFail /\ crashes' = crashes + 1
      /\ UNCHANGED <<log, cursor, rewound, lost, refused, presses>>
      /\ Rising(cycle'[t].todo) /\ Rising(button'[t])
      /\ \A j : Copies(t, j)' = 0
  BY DieIs
<1>3. /\ TablesOK'
      /\ runs' \in [Tills -> Counted] /\ DOMAIN runs'[t] \subseteq Foreign(t)
      /\ \A u \in Tills \ {t} : runs'[u] = runs[u]
      /\ \A j : Ran(t, j)' = Ran(t, j) + OneIf(j = i)
  BY RunIs
<1>4. /\ torn' \in [Tills -> Nat] /\ torn'[t] = torn[t] + n
      /\ \A u \in Tills \ {t} : torn'[u] = torn[u]
  OBVIOUS
<1>5. Others(t) /\ LogKept
  BY <1>2, <1>3, <1>4 DEF Others, Still, LogKept
<1>6. TypeInv'
  <2>1. WiresOK'
    BY <1>2 DEF TypeInv, WiresOK
  <2>2. FaultsOK'
    <3>1. /\ \A u \in Tills : torn[u] \in Nat /\ torn[u] <= crashes
          /\ crashes \in Nat /\ crashes' = crashes + 1 /\ n \in {0, 1}
      BY <1>1, <1>2 DEF FaultsOK
    <3>2. ASSUME NEW u \in Tills PROVE torn'[u] <= crashes'
      <4>1. CASE u = t
        BY <3>1, <4>1, <1>4
      <4>2. CASE u # t
        BY <3>1, <4>2, <1>4
      <4> QED BY <4>1, <4>2
    <3> QED BY <1>1, <1>2, <1>4, <3>2, TeamSyncAssumption DEF FaultsOK, MayFail
  <2>3. InboundOK'
    <3>1. applied'[t] \subseteq applied[t] \cup {i}
      OBVIOUS
    <3>2. applied'[t] \cup dead'[t] \cup DOMAIN runs'[t] \subseteq Foreign(t)
      BY <1>1, <1>3, <3>1 DEF InboundOK
    <3>3. /\ cursor' \in [Tills -> Nat] /\ rewound' \in SUBSET Tills /\ cursor'[t] <= Len(log)
          /\ ToSet(cycle'[t].todo) \subseteq Foreign(t) /\ ToSet(button'[t]) \subseteq Foreign(t)
      BY <1>1, <1>2 DEF InboundOK
    <3> QED BY <1>1, <1>2, <1>3, <1>5, <3>2, <3>3, InboundTypes
  <2> QED BY <1>3, <2>1, <2>2, <2>3 DEF TypeInv
<1>7. OnceOK(t)'
  <2>1. SUFFICES ASSUME NEW j \in Foreign(t)
                 PROVE  /\ j \notin applied'[t] => Ran(t, j)' <= torn'[t]
                        /\ j \in applied'[t] \cap dead'[t] =>
                               t \in rewound' /\ Ran(t, j)' <= 1 + torn'[t]
                        /\ j \in applied'[t] \ dead'[t] =>
                               Ran(t, j)' + Copies(t, j)' <= 1 + torn'[t] + Spare(t)'
    BY <1>2, SameLog DEF OnceOK
  <2>2. /\ Spare(t)' = Spare(t) /\ Ran(t, j)' = Ran(t, j) + (IF j = i THEN 1 ELSE 0)
        /\ Copies(t, j)' = 0
    BY <1>2, <1>3 DEF Spare, OneIf
  <2>3. torn[t] \in Nat /\ Ran(t, j) \in Nat /\ Spare(t) \in 0..2 /\ Copies(t, j) \in 0..2
    BY <1>1, NumbersAre
  <2>4. /\ j \notin applied[t] => Ran(t, j) <= torn[t]
        /\ j \in applied[t] \cap dead[t] => t \in rewound /\ Ran(t, j) <= 1 + torn[t]
        /\ j \in applied[t] \ dead[t] => Ran(t, j) + Copies(t, j) <= 1 + torn[t] + Spare(t)
    BY DEF OnceOK
  <2>5. rewound' = rewound
    BY <1>2
  <2>6. CASE n = 1
    BY <1>4, <2>2, <2>3, <2>4, <2>5, <2>6
  <2>7. CASE n = 0
    BY <1>4, <2>2, <2>3, <2>4, <2>5, <2>7
  <2> QED BY <2>6, <2>7
<1>8. BatchesOK(t)'
  BY <1>2 DEF BatchesOK
<1> QED BY <1>1, <1>2, <1>5, <1>6, <1>7, <1>8 DEF Moved, FaultsOK

\* A death before the mark.
LEMMA DieUnmarkedMoves ==
    ASSUME TypeInv, NEW t \in Tills, BatchesOK(t), OnceOK(t), DieUnmarked(t)
    PROVE  Moved(t)
<1>1. PICK i \in Foreign(t) : i = Next1(t)
  BY TodoIs DEF DieUnmarked, Accepted, New
<1>2. /\ Run(t, i) /\ Die(t) /\ UNCHANGED <<outbox, twice, applied, dead>>
      /\ torn' = [torn EXCEPT ![t] = @ + 1]
  BY <1>1 DEF DieUnmarked
<1>3. /\ applied' \in [Tills -> SUBSET Nat] /\ dead' \in [Tills -> SUBSET Nat]
      /\ \A u \in Tills : applied'[u] = applied[u] /\ dead'[u] = dead[u]
  BY <1>2 DEF TypeInv, InboundOK
<1>4. /\ torn' \in [Tills -> Nat] /\ torn'[t] = torn[t] + 1
      /\ \A u \in Tills \ {t} : torn'[u] = torn[u]
  BY <1>2 DEF TypeInv, FaultsOK
<1>5. PICK n \in {0, 1} : n = 1
  OBVIOUS
<1>6. n # 0 /\ torn'[t] = torn[t] + n /\ dead'[t] \subseteq dead[t] /\ dead[t] \ {i} \subseteq dead'[t]
  BY <1>3, <1>4, <1>5
<1> QED BY <1>2, <1>3, <1>4, <1>5, <1>6, DeathMoves

\* A death before the cursor.
LEMMA DieUnmovedMoves ==
    ASSUME TypeInv, NEW t \in Tills, BatchesOK(t), OnceOK(t), DieUnmoved(t)
    PROVE  Moved(t)
<1>0. Busy(t, "apply")
  BY DEF DieUnmoved, Accepted, New
<1>1. PICK i \in Foreign(t) : i = Next1(t)
  BY <1>0, TodoIs
<1>2. /\ Run(t, i) /\ Die(t) /\ UNCHANGED <<outbox, twice, dead, torn>>
      /\ applied' = [applied EXCEPT ![t] = @ \cup {i}] /\ i \notin applied[t]
  BY <1>1 DEF DieUnmoved, Mark, Accepted, New
<1>3. /\ applied' \in [Tills -> SUBSET Nat] /\ dead' \in [Tills -> SUBSET Nat]
      /\ applied'[t] = applied[t] \cup {i} /\ dead'[t] = dead[t]
      /\ \A u \in Tills \ {t} : applied'[u] = applied[u] /\ dead'[u] = dead[u]
      /\ torn' \in [Tills -> Nat] /\ torn[t] \in Nat /\ \A u \in Tills : torn'[u] = torn[u]
  <2>1. i \in Nat
    BY ForeignIs
  <2> QED BY <1>2, <2>1 DEF TypeInv, InboundOK, FaultsOK
<1>4. i \in dead[t] => t \in rewound
  <2>1. i \in ToSet(cycle[t].todo) /\ cycle[t].pc = "apply"
    BY <1>0, <1>1, TodoIs
  <2>2. t \notin rewound => (i \in dead[t] => i <= cursor[t]) /\ cursor[t] < i
    BY <2>1 DEF BatchesOK
  <2>3. i \in Nat /\ cursor[t] \in Nat
    BY ForeignIs DEF TypeInv, InboundOK
  <2> QED BY <2>2, <2>3
<1>5. PICK n \in {0, 1} : n = 0
  OBVIOUS
<1>6. n # 1 /\ torn'[t] = torn[t] + n /\ dead'[t] \subseteq dead[t] /\ dead[t] \ {i} \subseteq dead'[t]
  BY <1>3, <1>5
<1> QED BY <1>2, <1>3, <1>4, <1>5, <1>6, DeathMoves

\* A death in a retry, the dead letter deleted or not.
LEMMA DieRecoveringMoves ==
    ASSUME TypeInv, NEW t \in Tills, BatchesOK(t), OnceOK(t), DieRecovering(t)
    PROVE  Moved(t)
<1>1. PICK i \in Foreign(t) : i = Next1(t)
  BY TodoIs DEF DieRecovering
<1>2. /\ Run(t, i) /\ Die(t) /\ UNCHANGED <<outbox, twice, applied>>
      /\ torn' = [torn EXCEPT ![t] = @ + 1]
      /\ dead' = dead \/ dead' = [dead EXCEPT ![t] = @ \ {i}]
  BY <1>1 DEF DieRecovering
<1>3. /\ applied' \in [Tills -> SUBSET Nat] /\ dead' \in [Tills -> SUBSET Nat]
      /\ applied'[t] = applied[t]
      /\ dead'[t] \subseteq dead[t] /\ dead[t] \ {i} \subseteq dead'[t]
      /\ \A u \in Tills \ {t} : applied'[u] = applied[u] /\ dead'[u] = dead[u]
  BY <1>2 DEF TypeInv, InboundOK
<1>4. /\ torn' \in [Tills -> Nat] /\ torn'[t] = torn[t] + 1
      /\ \A u \in Tills \ {t} : torn'[u] = torn[u]
  BY <1>2 DEF TypeInv, FaultsOK
<1>5. PICK n \in {0, 1} : n = 1
  OBVIOUS
<1>6. n # 0 /\ torn'[t] = torn[t] + n
  BY <1>4, <1>5
<1> QED BY <1>2, <1>3, <1>4, <1>5, <1>6, DeathMoves

\* An event that waits for a retry runs, or is refused once more; either way
\* the batch that held it has one less.
LEMMA RecoverMoves ==
    ASSUME TypeInv, NEW t \in Tills, NEW i \in Foreign(t), BatchesOK(t), OnceOK(t),
           Recover(t, i),
           cycle' \in [Tills -> [pc : Todos, todo : Seq(Nat)]], button' \in [Tills -> Seq(Nat)],
           \A u \in Tills \ {t} : cycle'[u] = cycle[u] /\ button'[u] = button[u],
           cycle'[t].pc = cycle[t].pc,
           ToSet(cycle'[t].todo) \subseteq ToSet(cycle[t].todo),
           ToSet(button'[t]) \subseteq ToSet(button[t]),
           Rising(cycle'[t].todo), Rising(button'[t]), button'[t] # <<>> => presses > 0,
           Copies(t, i)' + 1 <= Copies(t, i), Copies(t, i)' <= OneIf(presses > 0),
           UNCHANGED <<outbox, clerk, twice, log, cursor, torn, rewound>>,
           UNCHANGED counters
    PROVE  Moved(t)
<1>1. InboundOK /\ FaultsOK /\ UNCHANGED <<log, cursor, torn, rewound>>
      /\ UNCHANGED <<lost, refused, crashes, presses>>
  BY DEF TypeInv, counters
<1>2. \A j : Copies(t, j)' <= Copies(t, j)
  BY DEF Copies, OneIf
<1>3. WiresOK' /\ FaultsOK'
  BY <1>1 DEF TypeInv, WiresOK, FaultsOK
<1>4. CASE Refuses(t, log[i].event)
  <2>1. UNCHANGED <<tables, applied, dead, runs>>
    BY <1>4 DEF Recover
  <2>2. Others(t) /\ LogKept
    BY <1>1, <2>1 DEF Others, Still, LogKept
  <2>3. TypeInv'
    <3>1. TablesOK'
      BY <2>1 DEF TypeInv, TablesOK, tables
    <3>2. InboundOK'
      BY <1>1, <2>1, <2>2, InboundTypes DEF InboundOK
    <3> QED BY <1>3, <3>1, <3>2 DEF TypeInv
  <2>4. OnceOK(t)'
    <3>1. presses <= presses'
      BY <1>1 DEF FaultsOK
    <3> QED BY <1>1, <1>2, <2>1, <2>2, <2>3, <3>1, OnceStays
  <2>5. BatchesOK(t)'
    BY <1>1, <2>1 DEF BatchesOK
  <2> QED BY <1>1, <2>2, <2>3, <2>4, <2>5 DEF Moved, FaultsOK
<1>5. CASE ~Refuses(t, log[i].event)
  <2>1. /\ Run(t, i) /\ applied' = [applied EXCEPT ![t] = @ \cup {i}]
        /\ dead' = [dead EXCEPT ![t] = @ \ {i}]
    BY <1>5 DEF Recover, Mark
  <2>2. /\ TablesOK'
        /\ runs' \in [Tills -> Counted] /\ DOMAIN runs'[t] \subseteq Foreign(t)
        /\ \A u \in Tills \ {t} : runs'[u] = runs[u]
        /\ \A j : Ran(t, j)' = Ran(t, j) + OneIf(j = i)
    BY <2>1, RunIs
  <2>3. /\ applied' \in [Tills -> SUBSET Nat] /\ dead' \in [Tills -> SUBSET Nat]
        /\ applied'[t] = applied[t] \cup {i} /\ dead'[t] = dead[t] \ {i}
        /\ \A u \in Tills \ {t} : applied'[u] = applied[u] /\ dead'[u] = dead[u]
    <3>1. i \in Nat
      BY ForeignIs
    <3> QED BY <1>1, <2>1, <3>1 DEF InboundOK
  <2>4. Others(t) /\ LogKept
    BY <1>1, <2>2, <2>3 DEF Others, Still, LogKept
  <2>5. TypeInv'
    <3>1. applied'[t] \cup dead'[t] \cup DOMAIN runs'[t] \subseteq Foreign(t)
      BY <1>1, <2>2, <2>3 DEF InboundOK
    <3>2. InboundOK'
      BY <1>1, <2>2, <2>3, <2>4, <3>1, InboundTypes DEF InboundOK
    <3> QED BY <1>3, <2>2, <3>2 DEF TypeInv
  <2>6. OnceOK(t)'
    <3>1. SUFFICES ASSUME NEW j \in Foreign(t)
                   PROVE  /\ j \notin applied'[t] => Ran(t, j)' <= torn[t]
                          /\ j \in applied'[t] \cap dead'[t] =>
                                 t \in rewound /\ Ran(t, j)' <= 1 + torn[t]
                          /\ j \in applied'[t] \ dead'[t] =>
                                 Ran(t, j)' + Copies(t, j)' <= 1 + torn[t] + Spare(t)'
      BY <1>1, SameLog DEF OnceOK
    <3>2. Spare(t)' = Spare(t) /\ Ran(t, j)' = Ran(t, j) + (IF j = i THEN 1 ELSE 0)
      BY <1>1, <2>2 DEF Spare, OneIf
    <3>3. /\ torn[t] \in Nat /\ Ran(t, j) \in Nat /\ Spare(t) \in 0..2 /\ Copies(t, j) \in 0..2
      BY <1>1, NumbersAre
    <3>4. /\ j \notin applied[t] => Ran(t, j) <= torn[t]
          /\ j \in applied[t] \cap dead[t] => t \in rewound /\ Ran(t, j) <= 1 + torn[t]
          /\ j \in applied[t] \ dead[t] => Ran(t, j) + Copies(t, j) <= 1 + torn[t] + Spare(t)
      BY DEF OnceOK
    <3>5. Copies(t, j)' \in 0..2 /\ Copies(t, j)' <= Copies(t, j)
      BY <1>2 DEF Copies, OneIf
    <3>6. CASE j = i
      <4>1. /\ Spare(t) = OneIf(presses > 0) + OneIf(t \in rewound)
            /\ OneIf(presses > 0) \in {0, 1} /\ OneIf(t \in rewound) \in {0, 1}
            /\ t \in rewound => OneIf(t \in rewound) = 1
        BY DEF Spare, OneIf
      <4>2. Copies(t, j)' + 1 <= Copies(t, j) /\ Copies(t, j)' <= OneIf(presses > 0)
        BY <3>6
      <4>3. j \in applied'[t] \ dead'[t] /\ Ran(t, j)' = Ran(t, j) + 1
        BY <2>3, <3>2, <3>6
      <4>4. Ran(t, j)' + Copies(t, j)' <= 1 + torn[t] + Spare(t)
        BY <3>3, <3>4, <3>5, <4>1, <4>2, <4>3
      <4> QED BY <3>2, <4>3, <4>4
    <3>7. CASE j # i
      BY <2>3, <3>2, <3>3, <3>4, <3>5, <3>7
    <3> QED BY <3>6, <3>7
  <2>7. BatchesOK(t)'
    <3>1. /\ ToSet(button'[t]) \subseteq dead'[t] \cup applied'[t]
          /\ \A j \in ToSet(button'[t]) : log'[j].event.kind = "stock"
          /\ \A j \in dead'[t] : log'[j].event.kind = "stock"
          /\ button'[t] # <<>> => presses' > 0
      BY <1>1, <2>3 DEF BatchesOK
    <3>2. cycle'[t].pc = "retry" => \A j \in ToSet(cycle'[t].todo) :
              j \in dead'[t] \cup applied'[t] /\ log'[j].event.kind = "stock"
      BY <1>1, <2>3 DEF BatchesOK
    <3>3. t \notin rewound' =>
              /\ \A j \in dead'[t] : j <= cursor'[t]
              /\ cycle'[t].pc = "apply" => \A j \in ToSet(cycle'[t].todo) : cursor'[t] < j
      BY <1>1, <2>3 DEF BatchesOK
    <3> QED BY <3>1, <3>2, <3>3 DEF BatchesOK
  <2> QED BY <1>1, <2>4, <2>5, <2>6, <2>7 DEF Moved, FaultsOK
<1> QED BY <1>4, <1>5

\* The cycle retries a dead letter.
LEMMA RetryMoves ==
    ASSUME TypeInv, NEW t \in Tills, BatchesOK(t), OnceOK(t), Retry(t)
    PROVE  Moved(t)
<1>0. Busy(t, "retry")
  BY DEF Retry
<1>1. PICK s \in Seq(Nat), i \in Foreign(t) : s = Tail(cycle[t].todo) /\ i = Next1(t)
  BY <1>0, TodoIs
<1>2. /\ cycle[t].pc = "retry" /\ ToSet(s) \subseteq ToSet(cycle[t].todo)
      /\ i \in ToSet(cycle[t].todo) /\ Rising(s) /\ \A j \in ToSet(s) : i < j
  BY <1>0, <1>1, TodoIs DEF BatchesOK
<1>3. InboundOK /\ FaultsOK
  BY DEF TypeInv
<1>4. /\ cycle' \in [Tills -> [pc : Todos, todo : Seq(Nat)]]
      /\ cycle'[t].pc = "retry" /\ cycle'[t].todo = s
      /\ \A u \in Tills \ {t} : cycle'[u] = cycle[u]
  BY <1>1, <1>3, GotoIs DEF Todos, Retry, Rest
<1>5. /\ UNCHANGED <<outbox, clerk, twice, log, cursor, torn, rewound, button>>
      /\ UNCHANGED counters /\ Recover(t, i)
  BY <1>1 DEF Retry, Local, counters
<1>6. i \notin ToSet(s)
  <2>1. i \in Nat
    BY ForeignIs
  <2> QED BY <2>1, <1>2
<1>7. button[t] # <<>> => presses > 0
  BY DEF BatchesOK
<1>8. Copies(t, i)' + 1 <= Copies(t, i) /\ Copies(t, i)' <= OneIf(presses > 0)
  <2>1. i \in ToSet(button[t]) => button[t] # <<>>
    BY DEF ToSet
  <2>2. Copies(t, i)' = OneIf(i \in ToSet(button[t])) /\ Copies(t, i) = 1 + OneIf(i \in ToSet(button[t]))
    BY <1>2, <1>4, <1>5, <1>6 DEF Copies, OneIf
  <2> QED BY <2>1, <2>2, <1>7 DEF OneIf
<1>9. /\ button' \in [Tills -> Seq(Nat)] /\ button'[t] = button[t]
      /\ \A u \in Tills : button'[u] = button[u]
      /\ Rising(button[t])
  BY <1>3, <1>5 DEF InboundOK, BatchesOK
<1> QED BY <1>2, <1>4, <1>5, <1>7, <1>8, <1>9, RecoverMoves

\* The button retries a dead letter.
LEMMA RetryPressedMoves ==
    ASSUME TypeInv, NEW t \in Tills, BatchesOK(t), OnceOK(t), RetryPressed(t)
    PROVE  Moved(t)
<1>1. InboundOK /\ FaultsOK
  BY DEF TypeInv
<1>2. PICK b \in Seq(Nat) : b = button[t] /\ b # <<>>
  BY <1>1 DEF RetryPressed, InboundOK
<1>3. PICK s \in Seq(Nat), i \in Foreign(t) : s = Tail(b) /\ i = Head(b)
  <2>1. Tail(b) \in Seq(Nat) /\ Head(b) \in ToSet(b)
    BY <1>2, HeadIs
  <2>2. ToSet(b) \subseteq Foreign(t)
    BY <1>1, <1>2 DEF InboundOK
  <2> QED BY <2>1, <2>2
<1>4. /\ ToSet(b) = {i} \cup ToSet(s) /\ Rising(s) /\ \A j \in ToSet(s) : i < j
  <2>1. Rising(b)
    BY <1>2 DEF BatchesOK
  <2> QED BY <2>1, <1>2, <1>3, HeadIs
<1>5. /\ UNCHANGED <<outbox, clerk, twice, log, cursor, torn, rewound, cycle>>
      /\ UNCHANGED counters /\ Recover(t, i) /\ button' = [button EXCEPT ![t] = s]
  BY <1>2, <1>3 DEF RetryPressed
<1>6. i \notin ToSet(s)
  <2>1. i \in Nat
    BY ForeignIs
  <2> QED BY <2>1, <1>4
<1>7. presses > 0
  BY <1>2 DEF BatchesOK
<1>8. /\ button' \in [Tills -> Seq(Nat)] /\ button'[t] = s
      /\ \A u \in Tills \ {t} : button'[u] = button[u]
      /\ cycle' \in [Tills -> [pc : Todos, todo : Seq(Nat)]] /\ cycle' = cycle
      /\ Rising(cycle[t].todo)
  BY <1>1, <1>5 DEF InboundOK, BatchesOK
<1>9. Copies(t, i)' + 1 <= Copies(t, i) /\ Copies(t, i)' <= OneIf(presses > 0)
  BY <1>2, <1>4, <1>6, <1>7, <1>8 DEF Copies, OneIf
<1>10. /\ cycle'[t].pc = cycle[t].pc /\ ToSet(cycle'[t].todo) \subseteq ToSet(cycle[t].todo)
       /\ Rising(cycle'[t].todo) /\ ToSet(button'[t]) \subseteq ToSet(button[t])
       /\ Rising(button'[t])
       /\ button'[t] # <<>> => presses > 0
       /\ \A u \in Tills \ {t} : cycle'[u] = cycle[u] /\ button'[u] = button[u]
  BY <1>2, <1>4, <1>7, <1>8
<1> QED BY <1>5, <1>8, <1>9, <1>10, RecoverMoves

\* A change of the shop moves no till's batches.
LEMMA ShopMoves ==
    ASSUME TypeInv, TypeInv', NEW t \in Tills, Shop, BatchesOK(t), OnceOK(t)
    PROVE  Moved(t)
<1>1. UNCHANGED <<log, cursor, applied, dead, runs, torn, rewound, cycle, button, presses>>
  BY DEF Shop, inbound
<1>2. Others(t) /\ LogKept /\ Still(t)
  BY <1>1 DEF Others, Still, LogKept
<1>3. presses <= presses'
  BY <1>1 DEF TypeInv, FaultsOK
<1> QED BY <1>2, <1>3, StillStays DEF Moved

\* A death among the emits of a ledger: the rows it had emitted are there.
LEMMA DieEmittingMoves ==
    ASSUME TypeInv, NEW t \in Tills, BatchesOK(t), OnceOK(t), DieEmitting(t)
    PROVE  /\ Moved(t)
           /\ \E S \in SUBSET clerk[t] :
               /\ Grown(t, LedgerEvents(S), TRUE)
               /\ Cardinality(S) \in Nat /\ twice'[t] = twice[t] + Cardinality(S)
               /\ \A u \in Tills \ {t} : twice'[u] = twice[u]
<1>1. PICK S \in SUBSET clerk[t] :
        /\ Send(t, LedgerEvents(S), DOMAIN LedgerEvents(S))
        /\ twice' = [twice EXCEPT ![t] = @ + Cardinality(S)]
  BY DEF DieEmitting
<1>2. Die(t) /\ UNCHANGED <<applied, dead, runs, torn>> /\ UNCHANGED tables
  BY DEF DieEmitting
<1>3. WiresOK /\ FaultsOK /\ InboundOK /\ S \in SUBSET Movements
  BY DEF TypeInv, WiresOK
<1>4. Cardinality(S) \in Nat /\ LedgerEvents(S) \in Seq(Events)
  BY <1>3, LedgerEventsIs
<1>5. Grown(t, LedgerEvents(S), TRUE)
  <2>1. DOMAIN LedgerEvents(S) \in SUBSET DOMAIN LedgerEvents(S)
    OBVIOUS
  <2> QED BY <1>1, <1>3, <1>4, <2>1, SendGrows
<1>6. /\ twice' \in [Tills -> Nat] /\ twice'[t] = twice[t] + Cardinality(S)
      /\ \A u \in Tills \ {t} : twice'[u] = twice[u]
  BY <1>1, <1>3, <1>4 DEF WiresOK
<1>7. /\ cycle' \in [Tills -> [pc : Todos, todo : Seq(Nat)]]
      /\ cycle'[t].pc = "idle" /\ ToSet(cycle'[t].todo) = {}
      /\ button' \in [Tills -> Seq(Nat)] /\ button'[t] = <<>> /\ ToSet(button'[t]) = {}
      /\ \A u \in Tills \ {t} : cycle'[u] = cycle[u] /\ button'[u] = button[u]
      /\ clerk' \in [Tills -> SUBSET Movements]
      /\ MayFail /\ crashes' = crashes + 1
      /\ UNCHANGED <<log, cursor, rewound, lost, refused, presses>>
      /\ Rising(cycle'[t].todo) /\ Rising(button'[t])
      /\ \A j : Copies(t, j)' = 0
  BY <1>2, DieIs
<1>8. Others(t) /\ LogKept
  BY <1>2, <1>7 DEF Others, Still, LogKept
<1>9. TypeInv'
  <2>1. TablesOK' /\ WiresOK'
    BY <1>2, <1>3, <1>5, <1>6, <1>7 DEF TypeInv, TablesOK, WiresOK, tables, Grown
  <2>2. FaultsOK'
    <3>1. ASSUME NEW u \in Tills PROVE torn'[u] <= crashes'
      <4>1. torn'[u] = torn[u] /\ torn[u] \in Nat /\ torn[u] <= crashes /\ crashes \in Nat
        BY <1>2, <1>3 DEF FaultsOK
      <4> QED BY <4>1, <1>7
    <3>2. /\ lost' \in Nat /\ refused' \in Nat /\ crashes' \in Nat /\ presses' \in Nat
          /\ lost' + refused' + crashes' + presses' <= MaxFaults
      <4>1. /\ lost \in Nat /\ refused \in Nat /\ crashes \in Nat /\ presses \in Nat
            /\ lost + refused + crashes + presses < MaxFaults /\ MaxFaults \in Nat
        BY <1>3, <1>7, TeamSyncAssumption DEF FaultsOK, MayFail
      <4>2. lost' = lost /\ refused' = refused /\ presses' = presses /\ crashes' = crashes + 1
        BY <1>7
      <4> QED BY <4>1, <4>2
    <3> QED BY <3>1, <3>2, <1>2, <1>3 DEF FaultsOK
  <2>3. InboundOK'
    BY <1>2, <1>3, <1>7, <1>8, InboundTypes DEF InboundOK
  <2> QED BY <2>1, <2>2, <2>3 DEF TypeInv
<1>10. presses <= presses' /\ \A i : Copies(t, i) \in 0..2
  BY <1>3, <1>7, NumbersAre DEF FaultsOK
<1>11. OnceOK(t)'
  <2>1. ASSUME NEW i PROVE Copies(t, i)' <= Copies(t, i)
    <3>1. PICK n \in 0..2 : n = Copies(t, i)
      BY <1>10
    <3>2. Copies(t, i)' = 0
      BY <1>7
    <3> QED BY <3>1, <3>2
  <2> QED BY <1>2, <1>7, <1>8, <1>9, <1>10, <2>1, OnceStays
<1>12. BatchesOK(t)'
  BY <1>2, <1>7 DEF BatchesOK
<1> QED BY <1>4, <1>5, <1>6, <1>8, <1>9, <1>10, <1>11, <1>12 DEF Moved
-----------------------------------------------------------------------------
(***************************************************************************)
(* The backfill.                                                           *)
(***************************************************************************)
Distinct(s) == \A i, j \in DOMAIN s : s[i] = s[j] => i = j

Apart(a, b) == \A i \in DOMAIN a, j \in DOMAIN b : a[i] # b[j]
Joined(a, b, c) ==
    /\ c \in Seq(Events) /\ Distinct(c)
    /\ \A k \in DOMAIN c : \/ \E i \in DOMAIN a : c[k] = a[i]
                          \/ \E j \in DOMAIN b : c[k] = b[j]
    /\ \A i \in DOMAIN a : \E k \in DOMAIN c : c[k] = a[i]
    /\ \A j \in DOMAIN b : \E k \in DOMAIN c : c[k] = b[j]

\* Two lists with nothing in common, one after the other.
LEMMA TwoLists ==
    ASSUME NEW a \in Seq(Events), NEW b \in Seq(Events), Distinct(a), Distinct(b), Apart(a, b)
    PROVE  Joined(a, b, a \o b)
<1> DEFINE m == Len(a)
           n == Len(b)
<1>1. PICK c : c = a \o b
  OBVIOUS
<1>2. /\ c \in Seq(Events) /\ m \in Nat /\ n \in Nat /\ Len(c) = m + n
      /\ DOMAIN c = 1..(m + n) /\ DOMAIN a = 1..m /\ DOMAIN b = 1..n
      /\ \A k \in 1..(m + n) : c[k] = IF k <= m THEN a[k] ELSE b[k - m]
  BY <1>1, ConcatProperties
<1> HIDE DEF m, n
<1>3. ASSUME NEW k \in 1..(m + n)
      PROVE  \/ k \in 1..m /\ c[k] = a[k]
             \/ k - m \in 1..n /\ k \notin 1..m /\ c[k] = b[k - m]
  BY <1>2
<1>4. ASSUME NEW j \in 1..n PROVE j + m \in 1..(m + n) /\ c[j + m] = b[j]
  <2>1. PICK k \in 1..(m + n) : k = j + m /\ k - m = j /\ ~(k <= m)
    <3>1. j + m \in 1..(m + n) /\ (j + m) - m = j /\ ~(j + m <= m)
      BY <1>2
    <3> QED BY <3>1
  <2> QED BY <2>1, <1>2
<1>5. ASSUME NEW i \in 1..m PROVE i \in 1..(m + n) /\ c[i] = a[i]
  BY <1>2
<1>6. Distinct(c)
  <2>1. SUFFICES ASSUME NEW k \in 1..(m + n), NEW l \in 1..(m + n), c[k] = c[l]
                 PROVE  k = l
    BY <1>2 DEF Distinct
  <2>2. CASE k \in 1..m /\ l \in 1..m
    <3>1. a[k] = a[l] /\ k \in DOMAIN a /\ l \in DOMAIN a
      BY <2>1, <2>2, <1>2, <1>5
    <3> QED BY <3>1 DEF Distinct
  <2>3. CASE k \notin 1..m /\ l \notin 1..m
    <3>1. PICK x \in 1..n, y \in 1..n : x = k - m /\ y = l - m
      BY <2>3, <1>3
    <3>2. b[x] = b[y] /\ x \in DOMAIN b /\ y \in DOMAIN b
      BY <2>1, <2>3, <3>1, <1>2, <1>3
    <3>3. x = y
      BY <3>2 DEF Distinct
    <3> QED BY <3>1, <3>3, <1>2
  <2>4. CASE k \in 1..m /\ l \notin 1..m
    <3>1. PICK y \in 1..n : y = l - m /\ c[l] = b[y]
      BY <2>4, <1>3
    <3> QED BY <2>1, <2>4, <3>1, <1>2, <1>5 DEF Apart
  <2>5. CASE k \notin 1..m /\ l \in 1..m
    <3>1. PICK y \in 1..n : y = k - m /\ c[k] = b[y]
      BY <2>5, <1>3
    <3> QED BY <2>1, <2>5, <3>1, <1>2, <1>5 DEF Apart
  <2> QED BY <2>2, <2>3, <2>4, <2>5
<1>7. Joined(a, b, c)
  BY <1>2, <1>3, <1>4, <1>5, <1>6 DEF Joined
<1> QED BY <1>1, <1>7

Found(t) == {OrderEvent(o, rec[t][o]) : o \in MissingOrders(t)}

\* There are finitely many orders, and their events are listed once each.
LEMMA OrderEventsIs ==
    ASSUME TypeInv, NEW t \in Tills
    PROVE  \E s \in Seq(Events) :
             /\ s = SetToSeq(Found(t)) /\ Distinct(s)
             /\ \A i \in DOMAIN s : \E o \in MissingOrders(t) :
                    s[i] = OrderEvent(o, rec[t][o])
<1>0. PICK E : E = Found(t)
  OBVIOUS
<1> DEFINE M == MissingOrders(t)
           f == [o \in M |-> OrderEvent(o, rec[t][o])]
<1>1. IsFiniteSet(M)
  BY TeamSyncAssumption, FS_Subset DEF MissingOrders
<1>2. f \in Surjection(M, E)
  BY <1>0 DEF Surjection, Found
<1>3. IsFiniteSet(E)
  BY <1>1, <1>2, FS_Surjection
<1>4. E \subseteq Events
  <2>1. \A o \in M : o \in Orders /\ rec[t][o] \in {"PENDING", "PAID", "VOIDED"}
    BY DEF MissingOrders, TypeInv, TablesOK, Status
  <2> QED BY <2>1, <1>0, EventIs DEF Found
<1>5. \A e \in E : \E o \in MissingOrders(t) : e = OrderEvent(o, rec[t][o])
  BY <1>0 DEF Found
<1>7. SetToSeq(E) \in Seq(E) /\ Distinct(SetToSeq(E))
  BY <1>3, SetToSeqIs DEF Distinct
<1>8. PICK s \in Seq(E) : s = SetToSeq(E)
  BY <1>7
<1>9. s \in Seq(Events) /\ \A i \in DOMAIN s : s[i] \in E
  BY <1>4
<1> QED BY <1>0, <1>5, <1>7, <1>8, <1>9

\* The backfill emits orders as they are and the ledger rows it found.
LEMMA FillEmits ==
    ASSUME TypeInv, NEW t \in Tills, Fill(t)
    PROVE  \E evs \in Seq(Events) :
             /\ Emit(t, evs) /\ Distinct(evs)
             /\ \A i \in DOMAIN evs :
                 \/ \E o \in MissingOrders(t) : evs[i] = OrderEvent(o, rec[t][o])
                 \/ \E m \in unsynced[t] : evs[i] = LedgerEvent(m)
             /\ \A m \in unsynced[t] : \E i \in DOMAIN evs : evs[i] = LedgerEvent(m)
<1>1. PICK E : E = Found(t)
  OBVIOUS
<1>2. PICK V : V = {VoidEvent(o) : o \in MissingVoids(t)}
  OBVIOUS
<1>3. Emit(t, SetToSeq(E) \o SetToSeq(V) \o LedgerEvents(unsynced[t]))
  BY <1>1, <1>2 DEF Fill, Found
<1>4. V = {}
  <2>1. MissingVoids(t) = {}
    BY DEF MissingVoids, TypeInv, TablesOK, Status
  <2> QED BY <1>2, <2>1
<1>5. SetToSeq(V) = <<>>
  <2>1. SetToSeq(V) \in Seq(V)
    BY <1>4, SetToSeqIs, FS_EmptySet
  <2> QED BY <1>4, <2>1
<1>6. PICK a \in Seq(Events) :
        /\ a = SetToSeq(E) /\ Distinct(a)
        /\ \A i \in DOMAIN a : \E o \in MissingOrders(t) :
               a[i] = OrderEvent(o, rec[t][o])
  BY <1>1, OrderEventsIs
<1>7. a \o <<>> = a
  OBVIOUS
<1>8. unsynced[t] \in SUBSET Movements
  BY DEF TypeInv, TablesOK
<1>9. PICK b \in Seq(Events) :
        /\ b = LedgerEvents(unsynced[t]) /\ Distinct(b)
        /\ \A i \in DOMAIN b : \E m \in unsynced[t] : b[i] = LedgerEvent(m)
        /\ \A m \in unsynced[t] : \E i \in DOMAIN b : b[i] = LedgerEvent(m)
  BY <1>8, LedgerEventsIs DEF Distinct
<1>10. Emit(t, a \o b)
  BY <1>3, <1>5, <1>6, <1>7, <1>9
<1>11. Apart(a, b)
  <2>1. SUFFICES ASSUME NEW i \in DOMAIN a, NEW j \in DOMAIN b PROVE a[i] # b[j]
    BY DEF Apart
  <2>2. a[i].kind = "order"
    BY <1>6 DEF OrderEvent
  <2>3. b[j].kind = "ledger"
    <3>1. PICK m \in unsynced[t] : b[j] = LedgerEvent(m)
      BY <1>9
    <3> QED BY <3>1 DEF LedgerEvent
  <2> QED BY <2>2, <2>3
<1>12. PICK evs : evs = a \o b
  OBVIOUS
<1>13. /\ evs \in Seq(Events) /\ Distinct(evs)
       /\ \A k \in DOMAIN evs : \/ \E i \in DOMAIN a : evs[k] = a[i]
                                \/ \E j \in DOMAIN b : evs[k] = b[j]
       /\ \A j \in DOMAIN b : \E k \in DOMAIN evs : evs[k] = b[j]
  <2>1. Joined(a, b, evs)
    BY <1>6, <1>9, <1>11, <1>12, TwoLists
  <2> QED BY <2>1 DEF Joined
<1>14. Emit(t, evs)
  BY <1>10, <1>12
<1>15. ASSUME NEW k \in DOMAIN evs
       PROVE  \/ \E o \in MissingOrders(t) : evs[k] = OrderEvent(o, rec[t][o])
              \/ \E m \in unsynced[t] : evs[k] = LedgerEvent(m)
  <2>1. CASE \E i \in DOMAIN a : evs[k] = a[i]
    <3>1. PICK i \in DOMAIN a : evs[k] = a[i]
      BY <2>1
    <3>2. PICK o \in MissingOrders(t) : a[i] = OrderEvent(o, rec[t][o])
      BY <1>6
    <3> QED BY <3>1, <3>2
  <2>2. CASE \E j \in DOMAIN b : evs[k] = b[j]
    <3>1. PICK j \in DOMAIN b : evs[k] = b[j]
      BY <2>2
    <3>2. PICK m \in unsynced[t] : b[j] = LedgerEvent(m)
      BY <1>9
    <3> QED BY <3>1, <3>2
  <2> QED BY <1>13, <2>1, <2>2
<1>16. ASSUME NEW m \in unsynced[t] PROVE \E k \in DOMAIN evs : evs[k] = LedgerEvent(m)
  BY <1>9, <1>13
<1> QED BY <1>13, <1>14, <1>15, <1>16

\* The backfill ends a cycle.
LEMMA FillMoves ==
    ASSUME TypeInv, NEW t \in Tills, BatchesOK(t), OnceOK(t), Fill(t)
    PROVE  Moved(t)
<1>1. WiresOK /\ FaultsOK /\ InboundOK /\ TablesOK
  BY DEF TypeInv
<1>2. PICK evs \in Seq(Events) : Emit(t, evs)
  BY FillEmits
<1>3. PICK all \in BOOLEAN : /\ Grown(t, evs, all)
                             /\ lost' = lost + (IF all THEN 0 ELSE 1)
                             /\ ~all => MayFail
  BY <1>1, <1>2, EmitGrows
<1>4. /\ unsynced' = [unsynced EXCEPT ![t] = {}]
      /\ twice' = [twice EXCEPT ![t] = @ + Cardinality(clerk[t] \cap unsynced[t])]
      /\ Goto(t, "idle", <<>>)
      /\ UNCHANGED <<rec, bare, known, stock, booked, clerk, log, inbound, button,
                     refused, crashes, presses>>
  BY DEF Fill
<1>5. UNCHANGED <<rec, bare, known, stock, booked, clerk, log, cursor, applied, dead, runs,
                  torn, rewound, button, refused, crashes, presses>>
  BY <1>4 DEF inbound
<1>6. /\ cycle' \in [Tills -> [pc : Todos, todo : Seq(Nat)]]
      /\ cycle'[t].pc = "idle" /\ cycle'[t].todo = <<>>
      /\ \A u \in Tills \ {t} : cycle'[u] = cycle[u]
  <2>1. "idle" \in Todos /\ <<>> \in Seq(Nat) /\ Goto(t, "idle", <<>>)
    BY <1>4 DEF Todos
  <2> QED BY <2>1, <1>1, GotoIs
<1>7. ToSet(<<>>) = {} /\ Rising(<<>>)
  BY DEF ToSet, Rising
<1>8. Others(t) /\ LogKept
  BY <1>5, <1>6 DEF Others, Still, LogKept
<1>9. TypeInv'
  <2>1. TablesOK'
    BY <1>1, <1>4, <1>5 DEF TablesOK
  <2>2. WiresOK'
    <3>1. clerk[t] \cap unsynced[t] \in SUBSET Movements
      BY <1>1 DEF TablesOK
    <3>2. Cardinality(clerk[t] \cap unsynced[t]) \in Nat
      BY <3>1, LedgerEventsIs
    <3>3. twice' \in [Tills -> Nat]
      BY <1>1, <1>4, <3>2 DEF WiresOK
    <3> QED BY <1>1, <1>3, <1>5, <3>3 DEF WiresOK, Grown
  <2>3. FaultsOK'
    BY <1>1, <1>3, <1>5, TeamSyncAssumption DEF FaultsOK, MayFail
  <2>4. InboundOK'
    BY <1>1, <1>5, <1>6, <1>7, <1>8, InboundTypes DEF InboundOK
  <2> QED BY <2>1, <2>2, <2>3, <2>4 DEF TypeInv
<1>10. presses <= presses'
  BY <1>1, <1>5 DEF FaultsOK
<1>11. OnceOK(t)'
  <2>1. \A i : Copies(t, i)' <= Copies(t, i)
    BY <1>5, <1>6, <1>7 DEF Copies, OneIf
  <2> QED BY <1>5, <1>8, <1>9, <1>10, <2>1, OnceStays
<1>12. BatchesOK(t)'
  BY <1>5, <1>6, <1>7 DEF BatchesOK
<1> QED BY <1>8, <1>9, <1>10, <1>11, <1>12 DEF Moved
-----------------------------------------------------------------------------
(***************************************************************************)
(* The log and the outboxes.                                               *)
(***************************************************************************)
\* A row of an outbox.
LEMMA RowIs ==
    ASSUME WiresOK, NEW u \in Tills, NEW i \in DOMAIN outbox[u]
    PROVE  i \in Nat /\ outbox[u][i] \in OutRows /\ outbox[u][i].event \in Events
<1>1. outbox[u] \in Seq(OutRows)
  BY DEF WiresOK
<1>2. i \in 1..Len(outbox[u]) /\ i \in Nat
  BY <1>1
<1>3. outbox[u][i] \in OutRows
  BY <1>1, <1>2, ElementOfSeq
<1> QED BY <1>2, <1>3 DEF OutRows

\* An entry of the log.
LEMMA EntryIs ==
    ASSUME WiresOK, NEW k \in DOMAIN log
    PROVE  k \in Nat /\ log[k].by \in Tills /\ log[k].event \in Events
<1>1. log \in Seq(LogRows)
  BY DEF WiresOK
<1>2. k \in 1..Len(log) /\ k \in Nat
  BY <1>1
<1>3. log[k] \in LogRows
  BY <1>1, <1>2, ElementOfSeq
<1> QED BY <1>2, <1>3 DEF LogRows

\* New rows are not in the log yet, and nobody takes them for pushed.
LEMMA LogGrows ==
    ASSUME WiresOK, LogOK, log' = log, NEW t \in Tills, NEW evs, NEW all, Grown(t, evs, all)
    PROVE  LogOK'
<1>1. /\ \A u \in Tills : \A i \in DOMAIN outbox[u] :
            i \in DOMAIN outbox'[u] /\ outbox'[u][i] = outbox[u][i]
      /\ \A u \in Tills \ {t} : outbox'[u] = outbox[u]
  BY DEF Grown
<1>2. PICK src \in [DOMAIN outbox'[t] \ DOMAIN outbox[t] -> DOMAIN evs] :
        \A i \in DOMAIN src : outbox'[t][i].state = "pending"
  BY DEF Grown
<1>3. \A k \in DOMAIN log : log[k].by \in Tills
  BY EntryIs
<1>4. ASSUME NEW u \in Tills, NEW i \in DOMAIN outbox'[u], outbox'[u][i].state = "pushed"
      PROVE  Logged(u, i)
  <2>1. i \in DOMAIN outbox[u]
    <3>1. CASE u = t
      BY <3>1, <1>2, <1>4
    <3>2. CASE u # t
      BY <3>2, <1>1, <1>4
    <3> QED BY <3>1, <3>2
  <2> QED BY <2>1, <1>1, <1>4 DEF LogOK, LogIsTrue
<1>5. \A u, i : Logged(u, i)' <=> Logged(u, i)
  BY DEF Logged
<1>6. LogIsTrue'
  BY <1>4, <1>5 DEF LogOK, LogIsTrue
<1>7. \A k \in DOMAIN log :
        /\ log[k].uuid \in DOMAIN outbox'[log[k].by]
        /\ log[k].event = outbox'[log[k].by][log[k].uuid].event
  BY <1>1, <1>3 DEF LogOK
<1> QED BY <1>6, <1>7 DEF LogOK

\* A push adds rows that the log did not have.
LEMMA LogPushes ==
    ASSUME TypeInv, TypeInv', LogOK, NEW t \in Tills, LogKept, Pushed(t)
    PROVE  LogOK'
<1>1. \A k \in DOMAIN log' : log'[k].by \in Tills
  <2>1. log' \in Seq(LogRows)
    BY DEF TypeInv, WiresOK
  <2>2. ASSUME NEW k \in DOMAIN log' PROVE log'[k].by \in Tills
    <3>1. k \in 1..Len(log')
      BY <2>1
    <3>2. log'[k] \in LogRows
      BY <2>1, <3>1, ElementOfSeq
    <3> QED BY <3>2 DEF LogRows
  <2> QED BY <2>2
<1>2. ASSUME NEW k \in DOMAIN log'
      PROVE  /\ log'[k].uuid \in DOMAIN outbox'[log'[k].by]
             /\ log'[k].event = outbox'[log'[k].by][log'[k].uuid].event
  <2>1. /\ log'[k].uuid \in DOMAIN outbox[log'[k].by]
        /\ log'[k].event = outbox[log'[k].by][log'[k].uuid].event
    <3>1. CASE k \in DOMAIN log
      BY <3>1 DEF LogKept, LogOK
    <3>2. CASE k \notin DOMAIN log
      BY <3>2 DEF Pushed
    <3> QED BY <3>1, <3>2
  <2> QED BY <2>1, <1>1 DEF Pushed
<1>3. ASSUME NEW j \in DOMAIN log', NEW k \in DOMAIN log',
             log'[j].by = log'[k].by, log'[j].uuid = log'[k].uuid
      PROVE  j = k
  <2>1. CASE j \in DOMAIN log /\ k \in DOMAIN log
    BY <1>3, <2>1 DEF LogKept, LogOK, LogIsTrue
  <2>2. CASE j \notin DOMAIN log /\ k \notin DOMAIN log
    BY <1>3, <2>2 DEF Pushed
  <2>3. CASE j \in DOMAIN log /\ k \notin DOMAIN log
    <3>1. log[j].by = t /\ log[j].uuid = log'[k].uuid /\ ~Logged(t, log'[k].uuid)
      BY <1>3, <2>3 DEF Pushed, LogKept
    <3> QED BY <2>3, <3>1 DEF Logged
  <2>4. CASE j \notin DOMAIN log /\ k \in DOMAIN log
    <3>1. log[k].by = t /\ log[k].uuid = log'[j].uuid /\ ~Logged(t, log'[j].uuid)
      BY <1>3, <2>4 DEF Pushed, LogKept
    <3> QED BY <2>4, <3>1 DEF Logged
  <2> QED BY <2>1, <2>2, <2>3, <2>4
<1>4. \A u, i : Logged(u, i) => Logged(u, i)'
  BY DEF Logged, LogKept
<1>5. ASSUME NEW u \in Tills, NEW i \in DOMAIN outbox'[u], outbox'[u][i].state = "pushed"
      PROVE  Logged(u, i)'
  <2>1. CASE u = t
    <3>1. i \in DOMAIN outbox[t]
      BY <2>1, <1>5 DEF Pushed
    <3>2. outbox[t][i].state = "pushed" \/ \E k \in DOMAIN log' : log'[k].by = t /\ log'[k].uuid = i
      BY <3>1, <2>1, <1>5 DEF Pushed
    <3> QED BY <2>1, <3>1, <3>2, <1>4 DEF LogOK, LogIsTrue, Logged
  <2>2. CASE u # t
    BY <2>2, <1>4, <1>5 DEF Pushed, LogOK, LogIsTrue
  <2> QED BY <2>1, <2>2
<1> QED BY <1>2, <1>3, <1>5 DEF LogOK, LogIsTrue

\* Nothing is sent and nothing pushed.
LEMMA LogStays ==
    ASSUME LogOK, log' = log, outbox' = outbox
    PROVE  LogOK'
BY DEF LogOK, LogIsTrue, Logged
-----------------------------------------------------------------------------
(***************************************************************************)
(* Orders.                                                                 *)
(***************************************************************************)
\* What a step has to respect for the orders and their events to agree.
OrderEventOK(t, ev) ==
    ev.kind = "order" => /\ rec[t][ev.order] # "absent"
                         /\ ev.status = "VOIDED" => rec[t][ev.order] = "VOIDED"
OrderRunOK(t, ev) ==
    ev.kind = "order" /\ ev.status # "VOIDED" => rec[t][ev.order] # "absent"

\* An order that is new somewhere is at home; new rows are about orders that
\* are there; what runs leaves its order there.
LEMMA OrdersStay ==
    ASSUME TypeInv, TypeInv', OrdersOK, RecGrows, LogKept,
           \A u \in Tills, o \in Orders :
               rec[u][o] = "absent" /\ rec'[u][o] # "absent" => rec'[Home[o]][o] # "absent",
           \A u \in Tills : \A i \in DOMAIN outbox'[u] :
               \/ i \in DOMAIN outbox[u] /\ outbox'[u][i].event = outbox[u][i].event
               \/ OrderEventOK(u, outbox[u][i].event)',
           \A u \in Tills : \A i \in DOMAIN runs'[u] :
               i \in DOMAIN runs[u] \/ OrderRunOK(u, log[i].event)'
    PROVE  OrdersOK'
<1>1. ASSUME NEW u \in Tills, NEW o \in Orders, rec'[u][o] # "absent"
      PROVE  rec'[Home[o]][o] # "absent"
  <2>1. Home[o] \in Tills
    BY TeamSyncAssumption
  <2> QED BY <1>1, <2>1 DEF OrdersOK, RecGrows
<1>2. ASSUME NEW u \in Tills, NEW i \in DOMAIN outbox'[u]
      PROVE  OrderEventOK(u, outbox[u][i].event)'
  <2>1. CASE i \in DOMAIN outbox[u] /\ outbox'[u][i].event = outbox[u][i].event
    <3>1. PICK ev \in Events : ev = outbox[u][i].event
      BY <2>1, RowIs DEF TypeInv
    <3>2. ev.kind = "order" => /\ rec[u][ev.order] # "absent" /\ ev.order \in Orders
                               /\ ev.status = "VOIDED" => rec[u][ev.order] = "VOIDED"
      BY <2>1, <3>1, KindOf DEF OrdersOK
    <3>3. ev.kind = "order" => /\ rec'[u][ev.order] # "absent"
                               /\ ev.status = "VOIDED" => rec'[u][ev.order] = "VOIDED"
      BY <3>2 DEF RecGrows
    <3> QED BY <2>1, <3>1, <3>3 DEF OrderEventOK
  <2> QED BY <2>1
<1>3. ASSUME NEW u \in Tills, NEW i \in DOMAIN runs'[u]
      PROVE  OrderRunOK(u, log[i].event)'
  <2>1. CASE i \in DOMAIN runs[u]
    <3>0. i \in Foreign(u)
      BY <2>1 DEF TypeInv, InboundOK
    <3>1. PICK ev \in Events : ev = log[i].event /\ log'[i] = log[i]
      BY <3>0, ForeignIs DEF LogKept
    <3>2. ev.kind = "order" /\ ev.status # "VOIDED" => rec[u][ev.order] # "absent" /\ ev.order \in Orders
      BY <2>1, <3>1, KindOf DEF OrdersOK
    <3> QED BY <3>1, <3>2 DEF OrderRunOK, RecGrows
  <2> QED BY <2>1
<1> QED BY <1>1, <1>2, <1>3 DEF OrdersOK, OrderEventOK, OrderRunOK
-----------------------------------------------------------------------------
(***************************************************************************)
(* Charges.                                                                *)
(***************************************************************************)
\* The rows that announce a charge, and those that may still charge it, are
\* finitely many.
LEMMA DueIs ==
    ASSUME TypeInv, NEW t \in Tills, NEW h \in Tills, NEW o \in Tabs
    PROVE  /\ Charge(o) \in Movements /\ ChargeEvent(o) \in Events
           /\ ChargeEvent(o).kind = "ledger"
           /\ IsFiniteSet(Announced(h, o)) /\ \A i \in Announced(h, o) : i \in Nat
           /\ IsFiniteSet(Due(t, o)) /\ Cardinality(Due(t, o)) \in Nat
           /\ booked[t][Charge(o)] \in Nat /\ torn[t] \in Nat /\ twice[t] \in Nat
           /\ Owed(o) \in 0..2 /\ Home[o] \in Tills
<1>1. Charge(o) \in Movements /\ Home[o] \in Tills
  BY TeamSyncAssumption DEF Charge, Movements
<1>2. ChargeEvent(o) \in Events /\ ChargeEvent(o).kind = "ledger"
  BY <1>1, EventIs DEF ChargeEvent
<1>3. ASSUME NEW g \in Tills
      PROVE  IsFiniteSet(Announced(g, o)) /\ \A i \in Announced(g, o) : i \in Nat
  <2>1. outbox[g] \in Seq(OutRows)
    BY DEF TypeInv, WiresOK
  <2>2. DOMAIN outbox[g] = 1..Len(outbox[g]) /\ Len(outbox[g]) \in Nat
    BY <2>1
  <2>3. IsFiniteSet(1..Len(outbox[g])) /\ Announced(g, o) \in SUBSET (1..Len(outbox[g]))
    BY <2>2, FS_Interval DEF Announced
  <2> QED BY <2>2, <2>3, FS_Subset
<1>4. IsFiniteSet(Due(t, o)) /\ Cardinality(Due(t, o)) \in Nat
  BY <1>1, <1>3, FS_Subset, FS_CardinalityType DEF Due
<1>5. booked[t][Charge(o)] \in Nat /\ torn[t] \in Nat /\ twice[t] \in Nat
  BY <1>1 DEF TypeInv, TablesOK, WiresOK, FaultsOK
<1>6. Owed(o) \in 0..2
  BY DEF Owed, OneIf
<1> QED BY <1>1, <1>2, <1>3, <1>4, <1>5, <1>6

\* One element more.
LEMMA OneMore ==
    ASSUME NEW S, IsFiniteSet(S), NEW x, NEW T, T \subseteq S \cup {x}
    PROVE  /\ IsFiniteSet(T) /\ Cardinality(T) \in Nat /\ Cardinality(S) \in Nat
           /\ Cardinality(T) <= Cardinality(S) + 1
           /\ T \subseteq S => Cardinality(T) <= Cardinality(S)
           /\ x \in S /\ T = S \ {x} => Cardinality(T) = Cardinality(S) - 1
<1>1. PICK U : U = S \cup {x}
  OBVIOUS
<1>2. IsFiniteSet(U) /\ Cardinality(S) \in Nat
  BY <1>1, FS_AddElement, FS_CardinalityType
<1>3. Cardinality(U) <= Cardinality(S) + 1 /\ Cardinality(U) \in Nat
  <2>1. CASE x \in S
    <3>1. U = S
      BY <1>1, <2>1
    <3> QED BY <3>1, <1>2
  <2>2. CASE x \notin S
    <3>1. Cardinality(U) = Cardinality(S) + 1
      BY <1>1, <2>2, FS_AddElement
    <3> QED BY <3>1, <1>2
  <2> QED BY <2>1, <2>2
<1>4. IsFiniteSet(T) /\ Cardinality(T) <= Cardinality(U) /\ Cardinality(T) \in Nat
  BY <1>1, <1>2, FS_Subset, FS_CardinalityType
<1>5. T \subseteq S => Cardinality(T) <= Cardinality(S)
  BY FS_Subset
<1>6. x \in S /\ T = S \ {x} => Cardinality(T) = Cardinality(S) - 1
  BY FS_RemoveElement
<1> QED BY <1>2, <1>3, <1>4, <1>5, <1>6

\* A step that books no charge elsewhere and announces what it no longer owes.
LEMMA TabEmits ==
    ASSUME TypeInv, TypeInv', NEW o \in Tabs, TabOK(o), LogKept, RecGrows,
           UNCHANGED <<applied, runs>>,
           \A t \in Tills : torn[t] <= torn'[t],
           \A t \in Tills : t # Home[o] =>
               /\ Waits(t, o)' => Waits(t, o)
               /\ Announced(t, o)' = Announced(t, o),
           \A t \in Tills : t # Home[o] => booked'[t][Charge(o)] = booked[t][Charge(o)],
           booked'[Home[o]][Charge(o)] = OneIf(rec'[Home[o]][o] # "absent"),
           NEW n \in {0, 1}, NEW x,
           Announced(Home[o], o)' \subseteq Announced(Home[o], o) \cup {x},
           n = 0 => Announced(Home[o], o)' = Announced(Home[o], o),
           n + Owed(o)' + twice[Home[o]] <= Owed(o) + twice'[Home[o]],
           lost' = 0 /\ rec'[Home[o]][o] # "absent" =>
               Charge(o) \in unsynced'[Home[o]] \/ Announced(Home[o], o)' # {}
    PROVE  TabOK(o)'
<1>1. PICK h \in Tills : h = Home[o]
  BY TeamSyncAssumption
<1>2. ASSUME NEW t \in Tills, NEW i
      PROVE  Taken(t, h, i)' <=> Taken(t, h, i)
  <2>1. applied'[t] = applied[t] /\ \A k \in applied[t] : log'[k] = log[k]
    BY DEF TypeInv, InboundOK, Foreign, LogKept
  <2> QED BY <2>1 DEF Taken
<1>3. ASSUME NEW t \in Tills, t # h
      PROVE  booked'[t][Charge(o)] + Cardinality(Due(t, o)') + Owed(o)'
                 <= 1 + torn'[t] + twice'[h]
  <2>1. /\ booked[t][Charge(o)] \in Nat /\ torn[t] \in Nat /\ twice[h] \in Nat
        /\ IsFiniteSet(Due(t, o)) /\ Cardinality(Due(t, o)) \in Nat /\ Owed(o) \in 0..2
    BY DueIs
  <2>2. booked[t][Charge(o)] + Cardinality(Due(t, o)) + Owed(o) <= 1 + torn[t] + twice[h]
    BY <1>1, <1>3 DEF TabOK
  <2>3. torn'[t] \in Nat /\ twice'[h] \in Nat /\ Owed(o)' \in 0..2
    <3>1. torn'[t] \in Nat /\ twice'[h] \in Nat
      BY DEF TypeInv, FaultsOK, WiresOK
    <3>2. Owed(o)' \in 0..2
      BY DEF Owed, OneIf
    <3> QED BY <3>1, <3>2
  <2>4. PICK d \in Nat : d = Cardinality(Due(t, o)') /\ d <= Cardinality(Due(t, o)) + n
    <3>1. CASE n = 0
      <4>1. Due(t, o)' = Due(t, o)
        BY <3>1, <1>1, <1>2 DEF Due
      <4> QED BY <3>1, <4>1, <2>1
    <3>2. CASE n = 1
      <4>1. Due(t, o)' \subseteq Due(t, o) \cup {x}
        BY <1>1, <1>2 DEF Due
      <4>2. Cardinality(Due(t, o)') \in Nat /\ Cardinality(Due(t, o)') <= Cardinality(Due(t, o)) + 1
        BY <4>1, <2>1, OneMore
      <4> QED BY <2>1, <3>2, <4>2
    <3> QED BY <3>1, <3>2
  <2>5. n + Owed(o)' + twice[h] <= Owed(o) + twice'[h] /\ booked'[t][Charge(o)] = booked[t][Charge(o)]
        /\ torn[t] <= torn'[t]
    BY <1>1, <1>3
  <2> QED BY <2>1, <2>2, <2>3, <2>4, <2>5
<1>4. ASSUME NEW t \in Tills, NEW i \in DOMAIN runs'[t], log'[i].event = ChargeEvent(o)
      PROVE  booked'[t][Charge(o)] >= 1
  <2>1. i \in DOMAIN runs[t] /\ log'[i] = log[i]
    BY DEF TypeInv, InboundOK, Foreign, LogKept
  <2>2. booked[t][Charge(o)] >= 1
    BY <1>4, <2>1 DEF TabOK
  <2>3. CASE t # h
    BY <1>1, <2>2, <2>3
  <2>4. CASE t = h
    <3>1. rec[h][o] # "absent" /\ o \in Orders
      BY <1>1, <2>2, <2>4, TeamSyncAssumption DEF TabOK, OneIf
    <3>2. rec'[h][o] # "absent"
      BY <3>1 DEF RecGrows
    <3> QED BY <1>1, <2>4, <3>2 DEF OneIf
  <2> QED BY <2>3, <2>4
<1> QED BY <1>1, <1>3, <1>4 DEF TabOK

\* What an emit announces.
LEMMA NewsOf ==
    ASSUME WiresOK, NEW t \in Tills, NEW evs, NEW all, Grown(t, evs, all), NEW o \in Tabs
    PROVE  /\ \A u \in Tills \ {t} : Announced(u, o)' = Announced(u, o)
           /\ Announced(t, o) \subseteq Announced(t, o)'
           /\ (\A e \in DOMAIN evs : evs[e] # ChargeEvent(o)) =>
                  Announced(t, o)' = Announced(t, o)
           /\ Distinct(evs) => \E x : Announced(t, o)' \subseteq Announced(t, o) \cup {x}
           /\ all /\ (\E e \in DOMAIN evs : evs[e] = ChargeEvent(o)) => Announced(t, o)' # {}
<1>1. /\ \A u \in Tills : \A i \in DOMAIN outbox[u] :
            i \in DOMAIN outbox'[u] /\ outbox'[u][i] = outbox[u][i]
      /\ \A u \in Tills \ {t} : outbox'[u] = outbox[u]
  BY DEF Grown
<1>2. PICK src \in [DOMAIN outbox'[t] \ DOMAIN outbox[t] -> DOMAIN evs] :
        /\ \A i \in DOMAIN src : outbox'[t][i].event = evs[src[i]]
        /\ \A i, j \in DOMAIN src : src[i] = src[j] => i = j
        /\ all => \A e \in DOMAIN evs : \E i \in DOMAIN src : src[i] = e
  BY DEF Grown
<1>3. \A u \in Tills \ {t} : Announced(u, o)' = Announced(u, o)
  BY <1>1 DEF Announced
<1>4. Announced(t, o) \subseteq Announced(t, o)'
  BY <1>1 DEF Announced
<1>5. ASSUME NEW i \in Announced(t, o)', i \notin Announced(t, o)
      PROVE  i \in DOMAIN src /\ src[i] \in DOMAIN evs /\ evs[src[i]] = ChargeEvent(o)
  BY <1>1, <1>2, <1>5 DEF Announced
<1>6. ASSUME \A e \in DOMAIN evs : evs[e] # ChargeEvent(o)
      PROVE  Announced(t, o)' = Announced(t, o)
  BY <1>4, <1>5, <1>6
<1>7. ASSUME Distinct(evs)
      PROVE  \E x : Announced(t, o)' \subseteq Announced(t, o) \cup {x}
  <2>1. ASSUME NEW i \in Announced(t, o)' \ Announced(t, o), NEW j \in Announced(t, o)' \ Announced(t, o)
        PROVE  i = j
    <3>1. src[i] = src[j]
      BY <1>5, <1>7 DEF Distinct
    <3> QED BY <3>1, <1>2, <1>5
  <2>2. CASE Announced(t, o)' \ Announced(t, o) = {}
    BY <2>2
  <2>3. CASE Announced(t, o)' \ Announced(t, o) # {}
    <3>1. PICK x : x \in Announced(t, o)' \ Announced(t, o)
      BY <2>3
    <3>2. Announced(t, o)' \subseteq Announced(t, o) \cup {x}
      BY <2>1, <3>1
    <3> QED BY <3>2
  <2> QED BY <2>2, <2>3
<1>8. ASSUME all, NEW e \in DOMAIN evs, evs[e] = ChargeEvent(o)
      PROVE  Announced(t, o)' # {}
  <2>1. PICK i \in DOMAIN src : src[i] = e
    BY <1>2, <1>8
  <2>2. i \in DOMAIN outbox'[t] /\ outbox'[t][i].event = ChargeEvent(o)
    BY <2>1, <1>2, <1>8
  <2> QED BY <2>2 DEF Announced
<1> QED BY <1>3, <1>4, <1>6, <1>7, <1>8

\* A run books a charge where its row was still due, or died for it.
LEMMA TabRuns ==
    ASSUME TypeInv, TypeInv', LogOK, OrdersOK, NEW o \in Tabs, TabOK(o),
           NEW t \in Tills, NEW i \in Foreign(t),
           Run(t, i), UNCHANGED <<log, outbox, twice, lost>>,
           \A u \in Tills : clerk'[u] \subseteq clerk[u] /\ torn[u] <= torn'[u],
           \A u \in Tills \ {t} : applied'[u] = applied[u], applied[t] \subseteq applied'[t],
           \/ i \in applied'[t] /\ i \notin applied[t]
           \/ torn'[t] = torn[t] + 1
           \/ log[i].event # ChargeEvent(o)
    PROVE  TabOK(o)'
<1>0. PICK c \in Movements, h \in Tills : c = Charge(o) /\ h = Home[o] /\ o \in Orders
  BY DueIs, TeamSyncAssumption
<1>1. PICK ev \in Events : ev = log[i].event
  BY ForeignIs
<1>2. Effect(t, ev) /\ CountRun(t, i) /\ i \in Nat /\ log[i].by # t /\ i \in DOMAIN log
  BY <1>1, ForeignIs DEF Run
<1>3. /\ RecGrows
      /\ rec[h][o] = "absent" /\ rec'[h][o] # "absent" => ev.kind = "order" /\ ev.order = o
      /\ \A u \in Tills : booked'[u][c] = booked[u][c] + OneIf(u = t /\ ev = ChargeEvent(o))
      /\ \A u \in Tills : c \in unsynced'[u] <=> c \in unsynced[u]
  BY <1>0, <1>2, EffectIs DEF TypeInv
<1>4. \A j \in DOMAIN runs'[t] : j \in DOMAIN runs[t] \/ j = i
  BY <1>2, CountRunIs DEF TypeInv
<1>5. \A u \in Tills \ {t} : runs'[u] = runs[u]
  BY <1>2, CountRunIs DEF TypeInv
<1>6. \A u \in Tills : Announced(u, o)' = Announced(u, o)
  BY DEF Announced
<1>7. ev = ChargeEvent(o) => log[i].by = h /\ log[i].uuid \in Announced(h, o) /\ t # h
  <2>1. /\ log[i].by \in Tills /\ log[i].uuid \in DOMAIN outbox[log[i].by]
        /\ log[i].event = outbox[log[i].by][log[i].uuid].event
    BY <1>2, EntryIs DEF LogOK, TypeInv
  <2>2. ev = ChargeEvent(o) => log[i].uuid \in Announced(log[i].by, o)
    BY <1>1, <2>1 DEF Announced
  <2>3. ev = ChargeEvent(o) => log[i].by = h
    BY <1>0, <2>1, <2>2 DEF TabOK
  <2> QED BY <2>2, <2>3, <1>2
<1>8. ASSUME NEW u \in Tills, Waits(u, o)' PROVE Waits(u, o)
  <2>1. Charge(o) \in unsynced'[u] \cup clerk'[u]
    BY <1>8 DEF Waits
  <2> QED BY <2>1, <1>0, <1>3 DEF Waits
<1>9. booked'[h][c] = booked[h][c] /\ booked[h][c] = OneIf(rec[h][o] # "absent")
  <2>1. ~(h = t /\ ev = ChargeEvent(o))
    BY <1>7
  <2>2. booked[h][c] \in Nat
    BY DEF TypeInv, TablesOK
  <2> QED BY <2>1, <2>2, <1>0, <1>3 DEF OneIf, TabOK
<1>10. rec'[h][o] # "absent" <=> rec[h][o] # "absent"
  <2>1. SUFFICES ASSUME rec[h][o] = "absent", rec'[h][o] # "absent" PROVE FALSE
    BY <1>0, <1>3 DEF RecGrows
  <2>2. ev.kind = "order" /\ ev.order = o
    BY <2>1, <1>3
  <2>3. PICK g \in Tills : g = log[i].by
    BY <1>2, EntryIs DEF TypeInv
  <2>4. log[i].uuid \in DOMAIN outbox[g] /\ outbox[g][log[i].uuid].event = ev
    BY <1>1, <1>2, <2>3 DEF LogOK
  <2>5. rec[g][o] # "absent"
    BY <2>2, <2>4 DEF OrdersOK
  <2> QED BY <1>0, <2>1, <2>5 DEF OrdersOK
<1>11. Owed(o)' <= Owed(o) /\ Owed(o)' \in 0..2
  BY <1>0, <1>8, <1>10 DEF Owed, OneIf
<1>12. ASSUME NEW u \in Tills, u # h
       PROVE  booked'[u][c] + Cardinality(Due(u, o)') + Owed(o)' <= 1 + torn'[u] + twice'[h]
  <2>1. /\ booked[u][c] \in Nat /\ torn[u] \in Nat /\ twice[h] \in Nat /\ twice'[h] = twice[h]
        /\ IsFiniteSet(Due(u, o)) /\ Cardinality(Due(u, o)) \in Nat /\ Owed(o) \in 0..2
    BY <1>0, DueIs
  <2>2. booked[u][c] + Cardinality(Due(u, o)) + Owed(o) <= 1 + torn[u] + twice[h]
    BY <1>0, <1>12 DEF TabOK
  <2>3. torn[u] <= torn'[u] /\ torn'[u] \in Nat
    BY DEF TypeInv, FaultsOK
  <2>4. ASSUME NEW j \in Due(u, o)' PROVE j \in Due(u, o)
    <3>1. j \in Announced(h, o) /\ ~Taken(u, h, j)'
      BY <2>4, <1>0, <1>6 DEF Due
    <3>2. Taken(u, h, j) => Taken(u, h, j)'
      BY DEF Taken
    <3> QED BY <3>1, <3>2, <1>0 DEF Due
  <2>5. Cardinality(Due(u, o)') \in Nat /\ Cardinality(Due(u, o)') <= Cardinality(Due(u, o))
    <3>1. Due(u, o)' \subseteq Due(u, o)
      BY <2>4
    <3> QED BY <2>1, <3>1, OneMore
  <2>6. CASE u # t \/ ev # ChargeEvent(o)
    <3>1. booked'[u][c] = booked[u][c]
      BY <1>3, <2>1, <2>6 DEF OneIf
    <3> QED BY <1>11, <2>1, <2>2, <2>3, <2>5, <3>1
  <2>7. CASE u = t /\ ev = ChargeEvent(o)
    <3>1. booked'[u][c] = booked[u][c] + 1
      BY <1>3, <2>1, <2>7 DEF OneIf
    <3>2. CASE torn'[t] = torn[t] + 1
      BY <1>11, <2>1, <2>2, <2>3, <2>5, <2>7, <3>1, <3>2
    <3>3. CASE i \in applied'[t] /\ i \notin applied[t]
      <4>1. PICK y : y = log[i].uuid /\ y \in Announced(h, o) /\ log[i].by = h
        BY <1>7, <2>7
      <4>2. Taken(t, h, y)'
        BY <3>3, <4>1 DEF Taken
      <4>3. ~Taken(t, h, y)
        <5>1. ASSUME NEW k \in applied[t], log[k].by = h, log[k].uuid = y PROVE FALSE
          <6>1. k \in DOMAIN log
            BY DEF TypeInv, InboundOK, Foreign
          <6>2. k = i
            BY <1>2, <4>1, <5>1, <6>1 DEF LogOK, LogIsTrue
          <6> QED BY <3>3, <6>2
        <5> QED BY <5>1 DEF Taken
      <4>4. y \in Due(u, o) /\ y \notin Due(u, o)'
        BY <1>0, <1>6, <2>7, <4>1, <4>2, <4>3 DEF Due
      <4>5. PICK D : D = Due(u, o) \ {y}
        OBVIOUS
      <4>6. IsFiniteSet(D) /\ Cardinality(D) = Cardinality(Due(u, o)) - 1
        BY <2>1, <4>4, <4>5, FS_RemoveElement
      <4>7. Due(u, o)' \subseteq D
        BY <2>4, <4>4, <4>5
      <4>8. Cardinality(Due(u, o)') <= Cardinality(D)
        BY <4>6, <4>7, FS_Subset
      <4> QED BY <1>11, <2>1, <2>2, <2>3, <2>5, <2>7, <3>1, <4>6, <4>8
    <3> QED BY <1>1, <2>7, <3>2, <3>3
  <2> QED BY <2>6, <2>7
<1>13. ASSUME NEW u \in Tills, u # h PROVE ~Waits(u, o)' /\ Announced(u, o)' = {}
  BY <1>0, <1>6, <1>8, <1>13 DEF TabOK
<1>14. lost' = 0 /\ rec'[h][o] # "absent" => c \in unsynced'[h] \/ Announced(h, o)' # {}
  BY <1>0, <1>3, <1>6, <1>10 DEF TabOK
<1>15. ASSUME NEW u \in Tills, NEW j \in DOMAIN runs'[u], log'[j].event = ChargeEvent(o)
       PROVE  booked'[u][c] >= 1
  <2>1. booked[u][c] \in Nat
    BY DEF TypeInv, TablesOK
  <2>2. booked'[u][c] >= booked[u][c]
    BY <1>3, <2>1 DEF OneIf
  <2>3. CASE j \in DOMAIN runs[u]
    <3>1. booked[u][c] >= 1
      BY <1>0, <1>15, <2>3 DEF TabOK
    <3>2. PICK n : n = booked'[u][c] /\ n \in Nat
      BY DEF TypeInv, TablesOK
    <3> QED BY <2>1, <2>2, <3>1, <3>2
  <2>4. CASE j \notin DOMAIN runs[u]
    <3>1. u = t /\ j = i
      BY <1>4, <1>5, <2>4
    <3>2. ev = ChargeEvent(o)
      BY <1>1, <1>15, <3>1
    <3>3. booked'[u][c] = booked[u][c] + 1
      BY <1>3, <3>1, <3>2 DEF OneIf
    <3> QED BY <2>1, <3>3
  <2> QED BY <2>3, <2>4
<1>16. booked'[h][c] = OneIf(rec'[h][o] # "absent")
  BY <1>9, <1>10 DEF OneIf
<1> QED BY <1>0, <1>12, <1>13, <1>14, <1>15, <1>16 DEF TabOK

\* A step that leaves a charge and what announces it alone.
LEMMA TabSame ==
    ASSUME TypeInv, TypeInv', NEW o \in Tabs, TabOK(o), LogKept, RecGrows,
           UNCHANGED <<applied, runs>>,
           \A t \in Tills : /\ torn[t] <= torn'[t]
                            /\ booked'[t][Charge(o)] = booked[t][Charge(o)]
                            /\ Announced(t, o)' = Announced(t, o)
                            /\ Waits(t, o)' => Waits(t, o),
           rec'[Home[o]][o] # "absent" <=> rec[Home[o]][o] # "absent",
           twice[Home[o]] <= twice'[Home[o]], lost' = 0 => lost = 0,
           Charge(o) \in unsynced[Home[o]] => Charge(o) \in unsynced'[Home[o]]
    PROVE  TabOK(o)'
<1>1. PICK h \in Tills : h = Home[o]
  BY TeamSyncAssumption
<1>2. PICK n \in {0, 1} : n = 0
  OBVIOUS
<1>3. Owed(o)' <= Owed(o) /\ Owed(o)' \in 0..2 /\ Owed(o) \in 0..2
  BY <1>1 DEF Owed, OneIf
<1>4. twice[h] \in Nat /\ twice'[h] \in Nat
  BY DEF TypeInv, WiresOK
<1>5. n + Owed(o)' + twice[Home[o]] <= Owed(o) + twice'[Home[o]]
  BY <1>1, <1>2, <1>3, <1>4
<1>6. booked'[Home[o]][Charge(o)] = OneIf(rec'[Home[o]][o] # "absent")
  BY <1>1 DEF TabOK, OneIf
<1>7. lost' = 0 /\ rec'[Home[o]][o] # "absent" =>
          Charge(o) \in unsynced'[Home[o]] \/ Announced(Home[o], o)' # {}
  BY <1>1 DEF TabOK
<1>8. /\ \A t \in Tills : torn[t] <= torn'[t]
      /\ \A t \in Tills : t # Home[o] =>
            /\ Waits(t, o)' => Waits(t, o)
            /\ Announced(t, o)' = Announced(t, o)
      /\ \A t \in Tills : t # Home[o] => booked'[t][Charge(o)] = booked[t][Charge(o)]
      /\ Announced(Home[o], o)' \subseteq Announced(Home[o], o) \cup {h}
      /\ n = 0 => Announced(Home[o], o)' = Announced(Home[o], o)
  BY <1>1
<1> QED BY <1>5, <1>6, <1>7, <1>8, TabEmits

-----------------------------------------------------------------------------
(***************************************************************************)
(* The log, the orders and the charges, one action at a time.              *)
(***************************************************************************)
Agreed == LogOK /\ OrdersOK /\ \A o \in Tabs : TabOK(o)

\* New rows about orders that are there keep the log and the orders.
LEMMA EmitAgrees ==
    ASSUME TypeInv, TypeInv', LogOK, OrdersOK, RecGrows, log' = log, runs' = runs,
           NEW t \in Tills, NEW evs, NEW all, Grown(t, evs, all),
           \A u \in Tills, o \in Orders :
               rec[u][o] = "absent" /\ rec'[u][o] # "absent" => rec'[Home[o]][o] # "absent",
           \A e \in DOMAIN evs : OrderEventOK(t, evs[e])'
    PROVE  LogOK' /\ OrdersOK' /\ LogKept
<1>1. LogOK'
  BY LogGrows DEF TypeInv
<1>2. LogKept
  BY DEF LogKept
<1>3. PICK src \in [DOMAIN outbox'[t] \ DOMAIN outbox[t] -> DOMAIN evs] :
        \A i \in DOMAIN src : outbox'[t][i].event = evs[src[i]]
  BY DEF Grown
<1>4. ASSUME NEW u \in Tills, NEW i \in DOMAIN outbox'[u]
      PROVE  \/ i \in DOMAIN outbox[u] /\ outbox'[u][i].event = outbox[u][i].event
             \/ OrderEventOK(u, outbox[u][i].event)'
  <2>1. CASE i \in DOMAIN outbox[u]
    BY <2>1 DEF Grown
  <2>2. CASE i \notin DOMAIN outbox[u]
    <3>1. u = t /\ i \in DOMAIN src
      BY <2>2, <1>4 DEF Grown
    <3>2. src[i] \in DOMAIN evs /\ outbox'[t][i].event = evs[src[i]]
      BY <3>1, <1>3
    <3>3. OrderEventOK(t, evs[src[i]])'
      BY <3>2
    <3> QED BY <3>1, <3>2, <3>3 DEF OrderEventOK
  <2> QED BY <2>1, <2>2
<1>5. \A u \in Tills : \A i \in DOMAIN runs'[u] : i \in DOMAIN runs[u]
  OBVIOUS
<1>6. OrdersOK'
  BY <1>2, <1>4, <1>5, OrdersStay
<1> QED BY <1>1, <1>2, <1>6

\* A run keeps them.
LEMMA RunAgrees ==
    ASSUME TypeInv, TypeInv', Agreed, NEW t \in Tills, NEW i \in Foreign(t),
           Run(t, i), UNCHANGED <<log, outbox, twice, lost>>,
           \A u \in Tills : clerk'[u] \subseteq clerk[u] /\ torn[u] <= torn'[u],
           \A u \in Tills \ {t} : applied'[u] = applied[u], applied[t] \subseteq applied'[t],
           \/ i \in applied'[t] /\ i \notin applied[t]
           \/ torn'[t] = torn[t] + 1
           \/ log[i].event.kind # "ledger"
    PROVE  Agreed'
<1>1. LogOK'
  BY LogStays DEF Agreed
<1>2. \A o \in Tabs : TabOK(o)'
  <2>1. SUFFICES ASSUME NEW o \in Tabs PROVE TabOK(o)'
    OBVIOUS
  <2>2. log[i].event.kind # "ledger" => log[i].event # ChargeEvent(o)
    BY DueIs
  <2> QED BY <2>2, TabRuns DEF Agreed
<1>3. PICK ev \in Events : ev = log[i].event
  BY ForeignIs
<1>4. Effect(t, ev) /\ CountRun(t, i) /\ i \in Nat /\ log[i].by # t /\ i \in DOMAIN log
  BY <1>3, ForeignIs DEF Run
<1>5. /\ RecGrows
      /\ \A u \in Tills, o \in Orders : rec[u][o] = "absent" /\ rec'[u][o] # "absent" =>
             u = t /\ ev.kind = "order" /\ ev.order = o
      /\ ev.kind = "order" /\ ev.status # "VOIDED" => rec'[t][ev.order] # "absent"
  BY <1>4, EffectIs DEF TypeInv
<1>6. \A u \in Tills : \A j \in DOMAIN runs'[u] : j \in DOMAIN runs[u] \/ (u = t /\ j = i)
  <2>1. DOMAIN runs'[t] = DOMAIN runs[t] \cup {i} /\ \A u \in Tills \ {t} : runs'[u] = runs[u]
    BY <1>4, CountRunIs DEF TypeInv
  <2> QED BY <2>1
<1>7. ASSUME NEW u \in Tills, NEW o \in Orders, rec[u][o] = "absent", rec'[u][o] # "absent"
      PROVE  rec'[Home[o]][o] # "absent"
  <2>1. ev.kind = "order" /\ ev.order = o
    BY <1>5, <1>7
  <2>2. PICK g \in Tills : g = log[i].by
    BY <1>4, EntryIs DEF TypeInv
  <2>3. log[i].uuid \in DOMAIN outbox[g] /\ outbox[g][log[i].uuid].event = ev
    BY <1>3, <1>4, <2>2 DEF Agreed, LogOK
  <2>4. rec[g][o] # "absent"
    BY <2>1, <2>3 DEF Agreed, OrdersOK
  <2>5. rec[Home[o]][o] # "absent" /\ Home[o] \in Tills
    BY <2>4, TeamSyncAssumption DEF Agreed, OrdersOK
  <2> QED BY <2>5, <1>5 DEF RecGrows
<1>8. LogKept
  BY DEF LogKept
<1>9. \A u \in Tills : \A j \in DOMAIN outbox'[u] :
          j \in DOMAIN outbox[u] /\ outbox'[u][j].event = outbox[u][j].event
  OBVIOUS
<1>10. \A u \in Tills : \A j \in DOMAIN runs'[u] :
          j \in DOMAIN runs[u] \/ OrderRunOK(u, log[j].event)'
  <2>1. OrderRunOK(t, log[i].event)'
    BY <1>3, <1>5 DEF OrderRunOK
  <2> QED BY <1>6, <2>1
<1>11. OrdersOK'
  BY <1>5, <1>7, <1>8, <1>9, <1>10, OrdersStay DEF Agreed
<1> QED BY <1>1, <1>2, <1>11 DEF Agreed

\* A step that touches neither the tables nor the events in the outboxes.
LEMMA SilentAgrees ==
    ASSUME TypeInv, TypeInv', Agreed, LogKept, LogOK',
           UNCHANGED <<rec, booked, unsynced, clerk, applied, runs, torn, twice, lost>>,
           \A u \in Tills : /\ DOMAIN outbox'[u] = DOMAIN outbox[u]
                            /\ \A i \in DOMAIN outbox[u] : outbox'[u][i].event = outbox[u][i].event
    PROVE  Agreed'
<1>1. RecGrows
  BY DEF RecGrows
<1>2. OrdersOK'
  BY <1>1, OrdersStay DEF Agreed
<1>3. ASSUME NEW o \in Tabs PROVE TabOK(o)'
  <2>1. \A t \in Tills : /\ Announced(t, o)' = Announced(t, o)
                         /\ torn[t] <= torn'[t] /\ twice[t] <= twice'[t]
                         /\ Waits(t, o)' => Waits(t, o)
    <3>1. SUFFICES ASSUME NEW t \in Tills
                   PROVE  /\ Announced(t, o)' = Announced(t, o)
                          /\ torn[t] <= torn'[t] /\ twice[t] <= twice'[t]
                          /\ Waits(t, o)' => Waits(t, o)
      OBVIOUS
    <3>2. Announced(t, o)' = Announced(t, o)
      BY DEF Announced
    <3>3. torn[t] \in Nat /\ twice[t] \in Nat
      BY DEF TypeInv, FaultsOK, WiresOK
    <3>4. Waits(t, o)' => Waits(t, o)
      BY DEF Waits
    <3> QED BY <3>2, <3>3, <3>4
  <2>2. Home[o] \in Tills
    BY TeamSyncAssumption
  <2> QED BY <1>1, <2>1, <2>2, TabSame DEF Agreed
<1> QED BY <1>2, <1>3 DEF Agreed

\* Steps of the cycle and the button in which no event runs.
LEMMA IdleAgrees ==
    ASSUME TypeInv, TypeInv', Agreed, NEW t \in Tills,
           \/ Push(t) \/ Pull(t) \/ Skip(t) \/ DeadLetter(t) \/ StartRetry(t)
           \/ Press(t) \/ Rewind(t)
    PROVE  Agreed'
<1>1. CASE Push(t)
  <2>1. LogKept /\ Pushed(t)
    BY <1>1, PushIs
  <2>2. LogOK'
    BY <2>1, LogPushes DEF Agreed
  <2>3. UNCHANGED <<rec, booked, unsynced, clerk, applied, runs, torn, twice, lost>>
    BY <1>1 DEF Push, tables, inbound
  <2>4. \A u \in Tills : /\ DOMAIN outbox'[u] = DOMAIN outbox[u]
                         /\ \A i \in DOMAIN outbox[u] : outbox'[u][i].event = outbox[u][i].event
    BY <2>1 DEF Pushed
  <2> QED BY <2>1, <2>2, <2>3, <2>4, SilentAgrees
<1>2. CASE ~Push(t)
  <2>1. UNCHANGED <<rec, booked, unsynced, clerk, applied, runs, torn, twice, lost, outbox, log>>
    BY <1>2 DEF Pull, Skip, DeadLetter, StartRetry, Press, Rewind, Local, tables, inbound, counters
  <2>2. LogOK' /\ LogKept
    BY <2>1, LogStays DEF Agreed, LogKept
  <2> QED BY <2>1, <2>2, SilentAgrees
<1> QED BY <1>1, <1>2

\* What a handler has read may be forgotten, and deaths add up.
LEMMA FewerAndMore ==
    ASSUME TypeInv, NEW t \in Tills, clerk' = clerk \/ clerk' = [clerk EXCEPT ![t] = {}],
           torn' = torn \/ torn' = [torn EXCEPT ![t] = @ + 1]
    PROVE  \A u \in Tills : clerk'[u] \subseteq clerk[u] /\ torn[u] <= torn'[u]
<1>1. SUFFICES ASSUME NEW u \in Tills
               PROVE  clerk'[u] \subseteq clerk[u] /\ torn[u] <= torn'[u]
  OBVIOUS
<1>2. clerk'[u] \subseteq clerk[u]
  BY DEF TypeInv, WiresOK
<1>3. torn \in [Tills -> Nat] /\ torn[u] \in Nat
  BY DEF TypeInv, FaultsOK
<1>4. torn[u] <= torn'[u]
  BY <1>3
<1> QED BY <1>2, <1>4

\* An event of the batch runs, and the till may die of it.
LEMMA ApplyAgrees ==
    ASSUME TypeInv, TypeInv', Agreed, NEW t \in Tills,
           Apply(t) \/ DieUnmarked(t) \/ DieUnmoved(t)
    PROVE  Agreed'
<1>0. Busy(t, "apply") /\ Next1(t) \notin applied[t]
  BY DEF Apply, DieUnmarked, DieUnmoved, Accepted, New
<1>1. PICK i \in Foreign(t) : i = Next1(t)
  BY <1>0, TodoIs
<1>2. Run(t, i) /\ UNCHANGED <<log, outbox, twice, lost>>
  BY <1>1 DEF Apply, DieUnmarked, DieUnmoved, Die, Local
<1>3. \A u \in Tills : clerk'[u] \subseteq clerk[u] /\ torn[u] <= torn'[u]
  <2>1. clerk' = clerk \/ clerk' = [clerk EXCEPT ![t] = {}]
    BY DEF Apply, DieUnmarked, DieUnmoved, Die, Local
  <2>2. torn' = torn \/ torn' = [torn EXCEPT ![t] = @ + 1]
    BY DEF Apply, DieUnmarked, DieUnmoved
  <2> QED BY <2>1, <2>2, FewerAndMore
<1>4. /\ \A u \in Tills \ {t} : applied'[u] = applied[u]
      /\ applied[t] \subseteq applied'[t]
      /\ (i \in applied'[t] /\ i \notin applied[t]) \/ torn'[t] = torn[t] + 1
  <2>1. CASE DieUnmarked(t)
    <3>1. applied' = applied /\ torn' = [torn EXCEPT ![t] = @ + 1]
      BY <2>1 DEF DieUnmarked
    <3> QED BY <3>1 DEF TypeInv, FaultsOK
  <2>2. CASE Apply(t) \/ DieUnmoved(t)
    <3>1. applied' = [applied EXCEPT ![t] = @ \cup {i}]
      BY <2>2, <1>1 DEF Apply, DieUnmoved, Mark
    <3> QED BY <3>1, <1>0, <1>1 DEF TypeInv, InboundOK
  <2> QED BY <2>1, <2>2
<1> QED BY <1>2, <1>3, <1>4, RunAgrees

\* An event that waits for a retry runs: a stock delta.
LEMMA RecoverAgrees ==
    ASSUME TypeInv, TypeInv', Agreed, NEW t \in Tills, BatchesOK(t),
           Retry(t) \/ RetryPressed(t) \/ DieRecovering(t)
    PROVE  Agreed'
<1>1. PICK i \in Foreign(t) :
        /\ log[i].event.kind = "stock"
        /\ \/ Recover(t, i) /\ (Retry(t) \/ RetryPressed(t))
           \/ Run(t, i) /\ applied' = applied
  <2>1. CASE Retry(t) \/ DieRecovering(t)
    <3>1. Busy(t, "retry")
      BY <2>1 DEF Retry, DieRecovering
    <3>2. /\ cycle[t].pc = "retry" /\ Next1(t) \in Foreign(t)
          /\ Next1(t) \in ToSet(cycle[t].todo)
      BY <3>1, TodoIs
    <3>3. log[Next1(t)].event.kind = "stock"
      BY <3>2 DEF BatchesOK
    <3>4. \/ Recover(t, Next1(t)) /\ Retry(t)
          \/ Run(t, Next1(t)) /\ applied' = applied
      BY <2>1 DEF Retry, DieRecovering
    <3> QED BY <3>2, <3>3, <3>4
  <2>2. CASE RetryPressed(t)
    <3>1. button[t] \in Seq(Nat) /\ button[t] # <<>> /\ Recover(t, Head(button[t]))
      BY <2>2 DEF RetryPressed, TypeInv, InboundOK
    <3>2. Head(button[t]) \in ToSet(button[t])
      BY <3>1, HeadIs
    <3>3. Head(button[t]) \in Foreign(t) /\ log[Head(button[t])].event.kind = "stock"
      BY <3>2 DEF TypeInv, InboundOK, BatchesOK
    <3> QED BY <2>2, <3>1, <3>3
  <2> QED BY <2>1, <2>2
<1>2. /\ UNCHANGED <<log, outbox, twice, lost>>
      /\ \A u \in Tills : clerk'[u] \subseteq clerk[u] /\ torn[u] <= torn'[u]
  <2>1. UNCHANGED <<log, outbox, twice, lost>>
    BY DEF Retry, RetryPressed, DieRecovering, Die, Local, counters
  <2>2. clerk' = clerk \/ clerk' = [clerk EXCEPT ![t] = {}]
    BY DEF Retry, RetryPressed, DieRecovering, Die, Local
  <2>3. torn' = torn \/ torn' = [torn EXCEPT ![t] = @ + 1]
    BY DEF Retry, RetryPressed, DieRecovering
  <2>4. \A u \in Tills : clerk'[u] \subseteq clerk[u] /\ torn[u] <= torn'[u]
    BY <2>2, <2>3, FewerAndMore
  <2> QED BY <2>1, <2>4
<1>3. CASE Run(t, i)
  <2>1. applied' = applied \/ applied' = [applied EXCEPT ![t] = @ \cup {i}]
        \/ Refuses(t, log[i].event)
    BY <1>1 DEF Recover, Mark
  <2>2. Refuses(t, log[i].event) => applied' = applied
    BY <1>1 DEF Recover
  <2>3. /\ \A u \in Tills \ {t} : applied'[u] = applied[u]
        /\ applied[t] \subseteq applied'[t]
    BY <2>1, <2>2 DEF TypeInv, InboundOK
  <2> QED BY <1>1, <1>2, <1>3, <2>3, RunAgrees
<1>4. CASE ~Run(t, i)
  <2>1. UNCHANGED <<rec, booked, unsynced, applied, runs>>
    BY <1>1, <1>4 DEF Recover, tables
  <2>2. Retry(t) \/ RetryPressed(t)
    BY <1>1, <1>4
  <2>3. clerk' = clerk /\ torn' = torn
    BY <2>2 DEF Retry, RetryPressed, Local
  <2>4. LogOK' /\ LogKept
    BY <1>2, LogStays DEF Agreed, LogKept
  <2> QED BY <1>2, <2>1, <2>3, <2>4, SilentAgrees
<1> QED BY <1>3, <1>4

\* A change of the shop: what it leaves of the rest, and what its emit brings.
LEMMA ShopIs ==
    ASSUME TypeInv, NEW t \in Tills, NEW evs \in Seq(Events), Emit(t, evs), Shop
    PROVE  /\ UNCHANGED <<twice, log, applied, runs, torn>> /\ LogKept
           /\ \A u \in Tills : torn[u] <= torn'[u] /\ twice[u] <= twice'[u]
           /\ \E all \in BOOLEAN : /\ Grown(t, evs, all)
                                   /\ lost' = 0 => lost = 0 /\ all
<1>1. UNCHANGED <<twice, log, applied, runs, torn>>
  BY DEF Shop, inbound
<1>2. LogKept
  BY <1>1 DEF LogKept
<1>3. \A u \in Tills : torn[u] <= torn'[u] /\ twice[u] <= twice'[u]
  <2>1. SUFFICES ASSUME NEW u \in Tills PROVE torn[u] <= torn'[u] /\ twice[u] <= twice'[u]
    OBVIOUS
  <2>2. torn[u] \in Nat /\ twice[u] \in Nat
    BY DEF TypeInv, FaultsOK, WiresOK
  <2> QED BY <1>1, <2>2
<1>4. PICK all \in BOOLEAN : /\ Grown(t, evs, all)
                             /\ lost' = lost + (IF all THEN 0 ELSE 1)
  BY EmitGrows DEF TypeInv
<1>5. lost' = 0 => lost = 0 /\ all
  BY <1>4 DEF TypeInv, FaultsOK
<1> QED BY <1>1, <1>2, <1>3, <1>4, <1>5

\* A change of the shop that announces no charge keeps the charges it does not book.
LEMMA ShopTab ==
    ASSUME TypeInv, TypeInv', Agreed, NEW t \in Tills, NEW evs \in Seq(Events), Emit(t, evs), Shop,
           RecGrows, NEW o \in Tabs, \A e \in DOMAIN evs : evs[e] # ChargeEvent(o),
           \A u \in Tills : /\ booked'[u][Charge(o)] = booked[u][Charge(o)]
                            /\ Charge(o) \in unsynced'[u] <=> Charge(o) \in unsynced[u]
                            /\ Charge(o) \in clerk'[u] => Waits(u, o),
           rec'[Home[o]][o] # "absent" <=> rec[Home[o]][o] # "absent"
    PROVE  TabOK(o)'
<1>1. /\ UNCHANGED <<twice, log, applied, runs, torn>> /\ LogKept
      /\ \A u \in Tills : torn[u] <= torn'[u] /\ twice[u] <= twice'[u]
  BY ShopIs
<1>2. PICK all \in BOOLEAN : Grown(t, evs, all) /\ (lost' = 0 => lost = 0 /\ all)
  BY ShopIs
<1>3. \A u \in Tills : Announced(u, o)' = Announced(u, o)
  BY <1>2, NewsOf DEF TypeInv
<1>4. ASSUME NEW u \in Tills, Waits(u, o)' PROVE Waits(u, o)
  BY <1>4 DEF Waits
<1>5. Home[o] \in Tills
  BY TeamSyncAssumption
<1> QED BY <1>1, <1>2, <1>3, <1>4, <1>5, TabSame DEF Agreed

\* The product is entered.
LEMMA AddProductAgrees ==
    ASSUME TypeInv, TypeInv', Agreed, AddProduct
    PROVE  Agreed'
<1>1. PICK evs \in Seq(Events) : evs = <<Product>> /\ Emit(Catalog, evs)
  <2>1. <<Product>> \in Seq(Events)
    BY EventIs
  <2>2. Emit(Catalog, <<Product>>)
    BY DEF AddProduct
  <2> QED BY <2>1, <2>2
<1>2. /\ Catalog \in Tills /\ Shop /\ UNCHANGED <<rec, booked, unsynced, clerk>>
  BY TeamSyncAssumption DEF AddProduct
<1>3. \A e \in DOMAIN evs : evs[e] = Product /\ Product.kind = "product"
  BY <1>1, EventIs
<1>4. RecGrows
  BY <1>2 DEF RecGrows
<1>5. log' = log /\ runs' = runs
  BY <1>1, <1>2, ShopIs
<1>6. PICK all \in BOOLEAN : Grown(Catalog, evs, all)
  BY <1>1, <1>2, ShopIs
<1>7. \A e \in DOMAIN evs : OrderEventOK(Catalog, evs[e])'
  BY <1>3 DEF OrderEventOK
<1>8. LogOK' /\ OrdersOK'
  BY <1>2, <1>4, <1>5, <1>6, <1>7, EmitAgrees DEF Agreed
<1>9. ASSUME NEW o \in Tabs PROVE TabOK(o)'
  <2>1. \A e \in DOMAIN evs : evs[e] # ChargeEvent(o)
    BY <1>2, <1>3, DueIs
  <2> QED BY <1>1, <1>2, <1>4, <2>1, ShopTab DEF Waits
<1> QED BY <1>8, <1>9 DEF Agreed

\* An order is paid on the spot or waits for its money.
LEMMA SellAgrees ==
    ASSUME TypeInv, TypeInv', Agreed, NEW o \in Orders, Sell(o)
    PROVE  Agreed'
<1>1. PICK t \in Tills : t = Home[o]
  BY TeamSyncAssumption
<1>a. PICK s \in {"PAID", "PENDING"} :
        /\ rec' = [rec EXCEPT ![t][o] = s]
        /\ Emit(t, <<OrderEvent(o, s), Delta(o, -1)>>)
  BY <1>1 DEF Sell, Set
<1>2. PICK evs \in Seq(Events) :
        /\ rec' = [rec EXCEPT ![t][o] = s]
        /\ evs = <<OrderEvent(o, s), Delta(o, -1)>> /\ Emit(t, evs)
  <2>1. <<OrderEvent(o, s), Delta(o, -1)>> \in Seq(Events)
    BY EventIs
  <2> QED BY <2>1, <1>a
<1>3. rec[t][o] = "absent" /\ o \notin Tabs /\ Shop /\ UNCHANGED <<booked, unsynced, clerk>>
  BY <1>1 DEF Sell, Unsold
<1>4. \A e \in DOMAIN evs : evs[e] = OrderEvent(o, s) \/ evs[e] = Delta(o, -1)
  BY <1>2
<1>5. /\ rec'[t][o] = s
      /\ \A u \in Tills, x \in Orders : u # t \/ x # o => rec'[u][x] = rec[u][x]
  BY <1>2 DEF TypeInv, TablesOK
<1>6. RecGrows
  BY <1>3, <1>5 DEF RecGrows
<1>7. log' = log /\ runs' = runs
  BY <1>2, <1>3, ShopIs
<1>8. PICK all \in BOOLEAN : Grown(t, evs, all)
  BY <1>2, <1>3, ShopIs
<1>9. /\ Delta(o, -1).kind = "stock" /\ OrderEvent(o, s).kind = "order"
      /\ OrderEvent(o, s).order = o /\ OrderEvent(o, s).status = s
  BY EventIs
<1>10. \A e \in DOMAIN evs : OrderEventOK(t, evs[e])'
  <2>1. SUFFICES ASSUME NEW e \in DOMAIN evs PROVE OrderEventOK(t, evs[e])'
    OBVIOUS
  <2>2. PICK ev : ev = evs[e]
    OBVIOUS
  <2>3. OrderEventOK(t, ev)'
    BY <2>2, <1>4, <1>5, <1>9 DEF OrderEventOK
  <2> QED BY <2>2, <2>3
<1>11. LogOK' /\ OrdersOK'
  BY <1>1, <1>5, <1>6, <1>7, <1>8, <1>10, EmitAgrees DEF Agreed
<1>12. ASSUME NEW x \in Tabs PROVE TabOK(x)'
  <2>1. \A e \in DOMAIN evs : evs[e] # ChargeEvent(x)
    BY <1>4, <1>9, DueIs
  <2>2. x # o /\ x \in Orders /\ Home[x] \in Tills
    BY <1>3, TeamSyncAssumption
  <2>3. rec'[Home[x]][x] = rec[Home[x]][x]
    BY <1>5, <2>2
  <2> QED BY <1>2, <1>3, <1>6, <2>1, <2>3, ShopTab DEF Waits
<1> QED BY <1>11, <1>12 DEF Agreed

\* A payment comes in: the order is there already, and no charge is announced.
LEMMA CompleteAgrees ==
    ASSUME TypeInv, TypeInv', Agreed, NEW o \in Orders, Complete(o)
    PROVE  Agreed'
<1>1. PICK t \in Tills : t = Home[o]
  BY TeamSyncAssumption
<1>2. PICK evs \in Seq(Events) :
        /\ Emit(t, evs)
        /\ \A e \in DOMAIN evs : evs[e] = OrderEvent(o, "PAID")
                                 \/ (o \in Tabs /\ evs[e] = LedgerEvent(<<o, "payment">>))
  BY <1>1, CompleteIs
<1>3. /\ rec[t][o] = "PENDING" /\ rec' = [rec EXCEPT ![t][o] = "PAID"] /\ Shop
      /\ clerk' = [clerk EXCEPT ![t] = Owing(t, o)]
  BY <1>1 DEF Complete, Set
<1>4. /\ rec'[t][o] = "PAID"
      /\ \A u \in Tills, x \in Orders : u # t \/ x # o => rec'[u][x] = rec[u][x]
  BY <1>3 DEF TypeInv, TablesOK
<1>5. RecGrows
  BY <1>3, <1>4 DEF RecGrows
<1>6. log' = log /\ runs' = runs
  BY <1>2, <1>3, ShopIs
<1>7. PICK all \in BOOLEAN : Grown(t, evs, all)
  BY <1>2, <1>3, ShopIs
<1>8. /\ OrderEvent(o, "PAID").kind = "order"
      /\ OrderEvent(o, "PAID").order = o /\ OrderEvent(o, "PAID").status = "PAID"
      /\ LedgerEvent(<<o, "payment">>).kind = "ledger"
      /\ LedgerEvent(<<o, "payment">>).row = <<o, "payment">>
  BY DEF OrderEvent, LedgerEvent
<1>9. ASSUME NEW e \in DOMAIN evs PROVE OrderEventOK(t, evs[e])'
  <2>1. PICK ev : ev = evs[e]
    OBVIOUS
  <2>2. OrderEventOK(t, ev)'
    BY <2>1, <1>2, <1>4, <1>8 DEF OrderEventOK
  <2> QED BY <2>1, <2>2
<1>10. \A u \in Tills, x \in Orders : rec[u][x] = "absent" => rec'[u][x] = "absent"
  BY <1>3, <1>4
<1>11. LogOK' /\ OrdersOK'
  BY <1>5, <1>6, <1>7, <1>9, <1>10, EmitAgrees DEF Agreed
<1>12. ASSUME NEW x \in Tabs PROVE TabOK(x)'
  <2>1. ASSUME NEW e \in DOMAIN evs PROVE evs[e] # ChargeEvent(x)
    <3>1. ChargeEvent(x).kind = "ledger" /\ ChargeEvent(x).row = Charge(x)
      BY DEF ChargeEvent, LedgerEvent
    <3>2. Charge(x) # <<o, "payment">>
      BY DEF Charge
    <3> QED BY <1>2, <1>8, <3>1, <3>2
  <2>2. x \in Orders /\ Home[x] \in Tills
    BY TeamSyncAssumption
  <2>3. rec'[Home[x]][x] # "absent" <=> rec[Home[x]][x] # "absent"
    BY <1>5, <1>10, <2>2 DEF RecGrows
  <2>4. \A u \in Tills : /\ booked'[u][Charge(x)] = booked[u][Charge(x)]
                         /\ Charge(x) \in unsynced'[u] <=> Charge(x) \in unsynced[u]
    BY CompleteIs
  <2>5. ASSUME NEW u \in Tills, Charge(x) \in clerk'[u] PROVE Waits(u, x)
    <3>1. Owing(t, o) \subseteq unsynced[t]
      BY DEF Owing
    <3> QED BY <2>5, <3>1, <1>3 DEF Waits, TypeInv, WiresOK
  <2> QED BY <1>2, <1>3, <1>5, <2>1, <2>3, <2>4, <2>5, ShopTab
<1> QED BY <1>11, <1>12 DEF Agreed

\* A void announces itself and reverses a charge, which it leaves on the books.
LEMMA VoidAgrees ==
    ASSUME TypeInv, TypeInv', Agreed, NEW t \in Tills, NEW o \in Orders, Void(t, o)
    PROVE  Agreed'
<1>1. PICK evs \in Seq(Events) : evs = <<VoidEvent(o)>> /\ Emit(t, evs)
  <2>1. <<VoidEvent(o)>> \in Seq(Events)
    BY EventIs
  <2>2. Emit(t, <<VoidEvent(o)>>)
    BY DEF Void
  <2> QED BY <2>1, <2>2
<1>2. /\ rec[t][o] \in {"PENDING", "PAID"} /\ rec' = [rec EXCEPT ![t][o] = "VOIDED"] /\ Shop
      /\ BookReversal(t, o) /\ clerk' = clerk
  BY DEF Void, Set
<1>3. /\ rec'[t][o] = "VOIDED"
      /\ \A u \in Tills, x \in Orders : u # t \/ x # o => rec'[u][x] = rec[u][x]
  BY <1>2 DEF TypeInv, TablesOK
<1>4. RecGrows
  BY <1>2, <1>3 DEF RecGrows
<1>5. log' = log /\ runs' = runs
  BY <1>1, <1>2, ShopIs
<1>6. PICK all \in BOOLEAN : Grown(t, evs, all)
  BY <1>1, <1>2, ShopIs
<1>7. \A e \in DOMAIN evs : evs[e] = VoidEvent(o) /\ evs[e].kind = "void"
  BY <1>1 DEF VoidEvent
<1>8. ASSUME NEW e \in DOMAIN evs PROVE OrderEventOK(t, evs[e])'
  <2>1. PICK ev : ev = evs[e]
    OBVIOUS
  <2>2. OrderEventOK(t, ev)'
    BY <2>1, <1>7 DEF OrderEventOK
  <2> QED BY <2>1, <2>2
<1>9. \A u \in Tills, x \in Orders : rec[u][x] = "absent" => rec'[u][x] = "absent"
  BY <1>2, <1>3
<1>10. LogOK' /\ OrdersOK'
  BY <1>4, <1>5, <1>6, <1>8, <1>9, EmitAgrees DEF Agreed
<1>11. ASSUME NEW x \in Tabs PROVE TabOK(x)'
  <2>1. \A e \in DOMAIN evs : evs[e] # ChargeEvent(x)
    BY <1>7, DueIs
  <2>2. x \in Orders /\ Home[x] \in Tills
    BY TeamSyncAssumption
  <2>3. rec'[Home[x]][x] # "absent" <=> rec[Home[x]][x] # "absent"
    BY <1>4, <1>9, <2>2 DEF RecGrows
  <2>4. \A u \in Tills : /\ booked'[u][Charge(x)] = booked[u][Charge(x)]
                         /\ Charge(x) \in unsynced'[u] <=> Charge(x) \in unsynced[u]
    BY <1>2, BookReversalIs DEF TypeInv
  <2>5. ASSUME NEW u \in Tills, Charge(x) \in clerk'[u] PROVE Waits(u, x)
    BY <1>2, <2>5 DEF Waits
  <2> QED BY <1>1, <1>2, <1>4, <2>1, <2>3, <2>4, <2>5, ShopTab
<1> QED BY <1>10, <1>11 DEF Agreed

\* A checkout on account books the charge and owes its event.
LEMMA SellOnTabAgrees ==
    ASSUME TypeInv, TypeInv', Agreed, NEW o \in Orders, SellOnTab(o)
    PROVE  Agreed'
<1>1. PICK t \in Tills : t = Home[o]
  BY TeamSyncAssumption
<1>2. PICK evs \in Seq(Events) :
        evs = <<OrderEvent(o, "PENDING"), Delta(o, -1)>> /\ Emit(t, evs)
  <2>1. <<OrderEvent(o, "PENDING"), Delta(o, -1)>> \in Seq(Events)
    BY EventIs
  <2>2. Emit(t, <<OrderEvent(o, "PENDING"), Delta(o, -1)>>)
    BY <1>1 DEF SellOnTab
  <2> QED BY <2>1, <2>2
<1>3. PICK c \in Movements : c = Charge(o)
  BY DueIs DEF SellOnTab
<1>4. /\ rec[t][o] = "absent" /\ rec' = [rec EXCEPT ![t][o] = "PENDING"] /\ Shop
      /\ booked' = [booked EXCEPT ![t][c] = @ + 1]
      /\ unsynced' = [unsynced EXCEPT ![t] = @ \cup {c}]
      /\ clerk' = [clerk EXCEPT ![t] = {c}]
      /\ o \in Tabs
  BY <1>1, <1>3 DEF SellOnTab, Set, Book, Charge, Unsold
<1>5. /\ rec'[t][o] = "PENDING"
      /\ \A u \in Tills, x \in Orders : u # t \/ x # o => rec'[u][x] = rec[u][x]
  BY <1>4 DEF TypeInv, TablesOK
<1>6. RecGrows
  BY <1>4, <1>5 DEF RecGrows
<1>7. /\ log' = log /\ runs' = runs /\ applied' = applied /\ LogKept
      /\ \A u \in Tills : torn[u] <= torn'[u] /\ twice'[u] = twice[u]
  BY <1>2, <1>4, ShopIs
<1>8. PICK all \in BOOLEAN : Grown(t, evs, all)
  BY <1>2, <1>4, ShopIs
<1>9. /\ Delta(o, -1).kind = "stock" /\ OrderEvent(o, "PENDING").kind = "order"
      /\ OrderEvent(o, "PENDING").order = o /\ OrderEvent(o, "PENDING").status = "PENDING"
  BY EventIs
<1>10. \A e \in DOMAIN evs : evs[e] = OrderEvent(o, "PENDING") \/ evs[e] = Delta(o, -1)
  BY <1>2
<1>11. ASSUME NEW e \in DOMAIN evs PROVE OrderEventOK(t, evs[e])'
  <2>1. PICK ev : ev = evs[e]
    OBVIOUS
  <2>2. OrderEventOK(t, ev)'
    BY <2>1, <1>5, <1>9, <1>10 DEF OrderEventOK
  <2> QED BY <2>1, <2>2
<1>12. LogOK' /\ OrdersOK'
  BY <1>1, <1>5, <1>6, <1>7, <1>8, <1>11, EmitAgrees DEF Agreed
<1>13. /\ booked'[t][c] = booked[t][c] + 1 /\ c \in unsynced'[t] /\ clerk'[t] = {c}
       /\ \A u \in Tills \ {t} : /\ booked'[u] = booked[u] /\ unsynced'[u] = unsynced[u]
                                 /\ clerk'[u] = clerk[u]
       /\ \A m \in Movements \ {c} : /\ booked'[t][m] = booked[t][m]
                                     /\ m \in unsynced'[t] <=> m \in unsynced[t]
  BY <1>4 DEF TypeInv, TablesOK, WiresOK
<1>14. ASSUME NEW x \in Tabs PROVE TabOK(x)'
  <2>1. \A e \in DOMAIN evs : evs[e] # ChargeEvent(x)
    BY <1>9, <1>10, DueIs, <1>1
  <2>2. x \in Orders /\ Home[x] \in Tills /\ Charge(x) \in Movements
    BY TeamSyncAssumption, DueIs
  <2>3. CASE x # o
    <3>1. Charge(x) # c
      BY <1>3, <2>3 DEF Charge
    <3>2. rec'[Home[x]][x] = rec[Home[x]][x]
      BY <1>5, <2>2, <2>3
    <3>3. ASSUME NEW u \in Tills
          PROVE  /\ booked'[u][Charge(x)] = booked[u][Charge(x)]
                 /\ Charge(x) \in unsynced'[u] <=> Charge(x) \in unsynced[u]
                 /\ Charge(x) \in clerk'[u] => Waits(u, x)
      <4>1. CASE u = t
        BY <4>1, <1>13, <2>2, <3>1 DEF Waits
      <4>2. CASE u # t
        BY <4>2, <1>13 DEF Waits
      <4> QED BY <4>1, <4>2
    <3> QED BY <1>2, <1>4, <1>6, <2>1, <3>2, <3>3, ShopTab
  <2>4. CASE x = o
    <3>1. \A u \in Tills : Announced(u, x)' = Announced(u, x)
      BY <1>8, <2>1, NewsOf DEF TypeInv
    <3>2. /\ booked[t][c] = 0 /\ booked'[Home[x]][Charge(x)] = OneIf(rec'[Home[x]][x] # "absent")
      BY <1>1, <1>3, <1>4, <1>5, <1>13, <2>4 DEF Agreed, TabOK, OneIf
    <3>3. ASSUME NEW u \in Tills, u # Home[x]
          PROVE  /\ Waits(u, x)' => Waits(u, x)
                 /\ booked'[u][Charge(x)] = booked[u][Charge(x)]
      BY <1>1, <1>13, <2>4, <3>3 DEF Waits
    <3>4. Owed(x) \in 0..2 /\ Owed(x) >= 1 /\ Owed(x)' = 1
      BY <1>1, <1>3, <1>4, <1>5, <1>13, <2>4 DEF Owed, OneIf, Waits
    <3>5. PICK n \in {0, 1} : n = 0
      OBVIOUS
    <3>6. twice[Home[x]] \in Nat /\ twice'[Home[x]] = twice[Home[x]]
      BY <1>7, <2>2 DEF TypeInv, WiresOK
    <3>7. n + Owed(x)' + twice[Home[x]] <= Owed(x) + twice'[Home[x]]
      BY <3>4, <3>5, <3>6
    <3>8. Charge(x) \in unsynced'[Home[x]]
      BY <1>1, <1>3, <1>13, <2>4
    <3>9. /\ Announced(Home[x], x)' \subseteq Announced(Home[x], x) \cup {c}
          /\ n = 0 => Announced(Home[x], x)' = Announced(Home[x], x)
      BY <3>1, <2>2
    <3> QED BY <1>6, <1>7, <3>1, <3>2, <3>3, <3>7, <3>8, <3>9, TabEmits DEF Agreed
  <2> QED BY <2>3, <2>4
<1> QED BY <1>12, <1>14 DEF Agreed

\* Ledger rows that are emitted: a charge is announced by the till that waits
\* with it, which then no longer does, or is counted for having been doubled.
LEMMA LedgerTab ==
    ASSUME TypeInv, TypeInv', NEW o \in Tabs, TabOK(o), NEW t \in Tills, NEW evs, NEW all,
           Grown(t, evs, all), Distinct(evs), LogKept,
           UNCHANGED <<rec, booked, applied, runs>>, lost' = 0 => lost = 0 /\ all,
           \A u \in Tills : /\ torn[u] <= torn'[u] /\ twice[u] <= twice'[u]
                            /\ Waits(u, o)' => Waits(u, o),
           \A u \in Tills : Charge(o) \in unsynced[u] =>
               \/ Charge(o) \in unsynced'[u]
               \/ u = t /\ \E e \in DOMAIN evs : evs[e] = ChargeEvent(o),
           (\E e \in DOMAIN evs : evs[e] = ChargeEvent(o)) =>
               Waits(t, o) /\ (~Waits(t, o)' \/ twice[t] + 1 <= twice'[t])
    PROVE  TabOK(o)'
<1>0. Home[o] \in Tills
  BY TeamSyncAssumption
<1>1. RecGrows
  BY DEF RecGrows
<1>2. CASE \A e \in DOMAIN evs : evs[e] # ChargeEvent(o)
  <2>1. \A u \in Tills : Announced(u, o)' = Announced(u, o)
    BY <1>2, NewsOf DEF TypeInv
  <2>2. Charge(o) \in unsynced[Home[o]] => Charge(o) \in unsynced'[Home[o]]
    BY <1>0, <1>2
  <2> QED BY <1>0, <1>1, <2>1, <2>2, TabSame
<1>3. CASE \E e \in DOMAIN evs : evs[e] = ChargeEvent(o)
  <2>1. t = Home[o] /\ Waits(t, o)
    BY <1>3 DEF TabOK
  <2>2. /\ \A u \in Tills \ {t} : Announced(u, o)' = Announced(u, o)
        /\ \E x : Announced(t, o)' \subseteq Announced(t, o) \cup {x}
        /\ Announced(t, o) \subseteq Announced(t, o)'
        /\ all => Announced(t, o)' # {}
    BY <1>3, NewsOf DEF TypeInv
  <2>3. PICK x : Announced(t, o)' \subseteq Announced(t, o) \cup {x}
    BY <2>2
  <2>4. PICK n \in {0, 1} : n = 1
    OBVIOUS
  <2>5. n + Owed(o)' + twice[Home[o]] <= Owed(o) + twice'[Home[o]]
    <3>1. twice[t] \in Nat /\ twice'[t] \in Nat /\ twice[t] <= twice'[t]
      BY DEF TypeInv, WiresOK
    <3>2. PICK a \in {0, 1} : a = OneIf(rec[t][o] = "absent")
      BY DEF OneIf
    <3>3. Owed(o) = 1 + a
      BY <2>1, <3>2 DEF Owed, OneIf
    <3>4. Owed(o)' = (IF Waits(t, o)' THEN 1 ELSE 0) + a
      BY <2>1, <3>2 DEF Owed, OneIf
    <3> QED BY <1>3, <2>1, <2>4, <3>1, <3>3, <3>4
  <2>6. booked'[Home[o]][Charge(o)] = OneIf(rec'[Home[o]][o] # "absent")
    BY DEF TabOK
  <2>7. lost' = 0 /\ rec'[Home[o]][o] # "absent" =>
            Charge(o) \in unsynced'[Home[o]] \/ Announced(Home[o], o)' # {}
    BY <2>1, <2>2
  <2>8. /\ Announced(Home[o], o)' \subseteq Announced(Home[o], o) \cup {x}
        /\ n = 0 => Announced(Home[o], o)' = Announced(Home[o], o)
        /\ \A u \in Tills : u # Home[o] =>
              /\ Waits(u, o)' => Waits(u, o)
              /\ Announced(u, o)' = Announced(u, o)
        /\ \A u \in Tills : u # Home[o] => booked'[u][Charge(o)] = booked[u][Charge(o)]
    BY <2>1, <2>2, <2>3, <2>4
  <2> QED BY <1>1, <2>5, <2>6, <2>7, <2>8, TabEmits
<1> QED BY <1>2, <1>3

\* Of all rows of a ledger that are emitted, one is the charge if it is there.
LEMMA LedgerHas ==
    ASSUME NEW S \in SUBSET Movements, NEW o \in Tabs
    PROVE  /\ Distinct(LedgerEvents(S)) /\ LedgerEvents(S) \in Seq(Events)
           /\ \A e \in DOMAIN LedgerEvents(S) : LedgerEvents(S)[e].kind = "ledger"
           /\ (\E e \in DOMAIN LedgerEvents(S) : LedgerEvents(S)[e] = ChargeEvent(o))
                  <=> Charge(o) \in S
<1>1. PICK evs \in Seq(Events) :
        /\ evs = LedgerEvents(S) /\ Distinct(evs)
        /\ \A i \in DOMAIN evs : \E m \in S : evs[i] = LedgerEvent(m)
        /\ \A m \in S : \E i \in DOMAIN evs : evs[i] = LedgerEvent(m)
  BY LedgerEventsIs DEF Distinct
<1>2. \A m : LedgerEvent(m).kind = "ledger" /\ LedgerEvent(m).row = m
  BY DEF LedgerEvent
<1>3. ChargeEvent(o) = LedgerEvent(Charge(o))
  BY DEF ChargeEvent
<1>4. ASSUME NEW e \in DOMAIN evs, evs[e] = ChargeEvent(o) PROVE Charge(o) \in S
  <2>1. PICK m \in S : evs[e] = LedgerEvent(m)
    BY <1>1
  <2>2. m = Charge(o)
    <3>1. ChargeEvent(o).row = Charge(o) /\ LedgerEvent(m).row = m
      BY DEF ChargeEvent, LedgerEvent
    <3> QED BY <2>1, <3>1, <1>4, Zenon
  <2> QED BY <2>1, <2>2
<1>5. ASSUME Charge(o) \in S PROVE \E e \in DOMAIN evs : evs[e] = ChargeEvent(o)
  BY <1>1, <1>3, <1>5
<1>6. \A e \in DOMAIN evs : evs[e].kind = "ledger"
  BY <1>1, <1>2
<1> QED BY <1>1, <1>4, <1>5, <1>6

\* The ledger rows of a change are emitted, and each is stamped.
LEMMA EmitLedgerAgrees ==
    ASSUME TypeInv, TypeInv', Agreed, NEW t \in Tills, EmitLedger(t)
    PROVE  Agreed'
<1>1. clerk[t] \in SUBSET Movements
  BY DEF TypeInv, WiresOK
<1>2. PICK evs \in Seq(Events) : evs = LedgerEvents(clerk[t]) /\ Emit(t, evs)
  BY <1>1, LedgerEventsIs DEF EmitLedger
<1>3. /\ Shop /\ UNCHANGED <<rec, booked>>
      /\ unsynced' = [unsynced EXCEPT ![t] = @ \ clerk[t]]
      /\ clerk' = [clerk EXCEPT ![t] = {}]
  BY DEF EmitLedger
<1>4. /\ UNCHANGED <<log, applied, runs>> /\ LogKept
      /\ \A u \in Tills : torn[u] <= torn'[u] /\ twice[u] <= twice'[u]
  BY <1>2, <1>3, ShopIs
<1>5. PICK all \in BOOLEAN : Grown(t, evs, all) /\ (lost' = 0 => lost = 0 /\ all)
  BY <1>2, <1>3, ShopIs
<1>6. RecGrows
  BY <1>3 DEF RecGrows
<1>7. ASSUME NEW e \in DOMAIN evs PROVE OrderEventOK(t, evs[e])'
  <2>1. evs[e].kind = "ledger"
    <3>1. PICK m \in clerk[t] : evs[e] = LedgerEvent(m)
      BY <1>1, <1>2, LedgerEventsIs
    <3> QED BY <3>1 DEF LedgerEvent
  <2> QED BY <2>1 DEF OrderEventOK
<1>8. LogOK' /\ OrdersOK'
  BY <1>3, <1>4, <1>5, <1>6, <1>7, EmitAgrees DEF Agreed
<1>9. ASSUME NEW o \in Tabs PROVE TabOK(o)'
  <2>1. /\ Distinct(evs)
        /\ (\E e \in DOMAIN evs : evs[e] = ChargeEvent(o)) <=> Charge(o) \in clerk[t]
    BY <1>1, <1>2, LedgerHas
  <2>2. /\ unsynced'[t] = unsynced[t] \ clerk[t] /\ clerk'[t] = {}
        /\ \A u \in Tills \ {t} : unsynced'[u] = unsynced[u] /\ clerk'[u] = clerk[u]
    BY <1>3 DEF TypeInv, TablesOK, WiresOK
  <2>3. ASSUME NEW u \in Tills
        PROVE  /\ Waits(u, o)' => Waits(u, o)
               /\ Charge(o) \in unsynced[u] =>
                    \/ Charge(o) \in unsynced'[u]
                    \/ u = t /\ \E e \in DOMAIN evs : evs[e] = ChargeEvent(o)
    <3>1. CASE u = t
      BY <3>1, <2>1, <2>2 DEF Waits
    <3>2. CASE u # t
      BY <3>2, <2>2 DEF Waits
    <3> QED BY <3>1, <3>2
  <2>4. (\E e \in DOMAIN evs : evs[e] = ChargeEvent(o)) => Waits(t, o) /\ ~Waits(t, o)'
    BY <2>1, <2>2 DEF Waits
  <2> QED BY <1>3, <1>4, <1>5, <2>1, <2>3, <2>4, LedgerTab DEF Agreed
<1> QED BY <1>8, <1>9 DEF Agreed

\* A death among the emits: what was emitted is not stamped.
LEMMA DieEmittingAgrees ==
    ASSUME TypeInv, TypeInv', Agreed, NEW t \in Tills, BatchesOK(t), OnceOK(t), DieEmitting(t)
    PROVE  Agreed'
<1>1. PICK S \in SUBSET clerk[t] :
        /\ Grown(t, LedgerEvents(S), TRUE)
        /\ Cardinality(S) \in Nat /\ twice'[t] = twice[t] + Cardinality(S)
        /\ \A u \in Tills \ {t} : twice'[u] = twice[u]
  BY DieEmittingMoves
<1>2. S \in SUBSET Movements
  BY DEF TypeInv, WiresOK
<1>3. PICK evs \in Seq(Events) : evs = LedgerEvents(S) /\ Grown(t, evs, TRUE)
  BY <1>1, <1>2, LedgerEventsIs
<1>4. /\ UNCHANGED <<rec, booked, unsynced, log, applied, runs, torn, lost>>
      /\ clerk' = [clerk EXCEPT ![t] = {}]
  BY DEF DieEmitting, Die, tables
<1>5. LogKept /\ RecGrows
  BY <1>4 DEF LogKept, RecGrows
<1>6. ASSUME NEW e \in DOMAIN evs PROVE OrderEventOK(t, evs[e])'
  <2>1. evs[e].kind = "ledger"
    <3>1. PICK m \in S : evs[e] = LedgerEvent(m)
      BY <1>2, <1>3, LedgerEventsIs
    <3> QED BY <3>1 DEF LedgerEvent
  <2> QED BY <2>1 DEF OrderEventOK
<1>7. LogOK' /\ OrdersOK'
  BY <1>3, <1>4, <1>5, <1>6, EmitAgrees DEF Agreed
<1>8. ASSUME NEW u \in Tills PROVE torn[u] <= torn'[u] /\ twice[u] <= twice'[u]
  <2>1. torn[u] \in Nat /\ twice[u] \in Nat
    BY DEF TypeInv, WiresOK, FaultsOK
  <2> QED BY <2>1, <1>1, <1>4
<1>9. ASSUME NEW o \in Tabs PROVE TabOK(o)'
  <2>1. /\ Distinct(evs)
        /\ (\E e \in DOMAIN evs : evs[e] = ChargeEvent(o)) <=> Charge(o) \in S
    BY <1>2, <1>3, LedgerHas
  <2>2. ASSUME NEW u \in Tills
        PROVE  /\ Waits(u, o)' => Waits(u, o)
               /\ Charge(o) \in unsynced[u] => Charge(o) \in unsynced'[u]
    <3>1. clerk'[u] \subseteq clerk[u]
      BY <1>4 DEF TypeInv, WiresOK
    <3> QED BY <3>1, <1>4 DEF Waits
  <2>3. ASSUME Charge(o) \in S PROVE Waits(t, o) /\ twice[t] + 1 <= twice'[t]
    <3>1. Waits(t, o)
      BY <2>3 DEF Waits
    <3>2. Cardinality(S) # 0
      BY <1>2, <2>3, LedgerEventsIs, FS_EmptySet
    <3>3. twice[t] \in Nat
      BY DEF TypeInv, WiresOK
    <3> QED BY <1>1, <3>1, <3>2, <3>3
  <2>4. PICK all \in BOOLEAN : all = TRUE
    OBVIOUS
  <2>5. Grown(t, evs, all) /\ (lost' = 0 => lost = 0 /\ all)
    BY <1>3, <1>4, <2>4
  <2>6. (\E e \in DOMAIN evs : evs[e] = ChargeEvent(o)) => Waits(t, o) /\ twice[t] + 1 <= twice'[t]
    BY <2>1, <2>3
  <2> QED BY <1>4, <1>5, <1>8, <2>1, <2>2, <2>5, <2>6, LedgerTab DEF Agreed
<1> QED BY <1>7, <1>9 DEF Agreed

\* The backfill emits what waits, and doubles what a handler is about to emit.
LEMMA FillAgrees ==
    ASSUME TypeInv, TypeInv', Agreed, NEW t \in Tills, Fill(t)
    PROVE  Agreed'
<1>1. PICK evs \in Seq(Events) :
        /\ Emit(t, evs) /\ Distinct(evs)
        /\ \A i \in DOMAIN evs :
            \/ \E o \in Orders : rec[t][o] # "absent" /\ evs[i] = OrderEvent(o, rec[t][o])
            \/ \E m \in unsynced[t] : evs[i] = LedgerEvent(m)
        /\ \A m \in unsynced[t] : \E i \in DOMAIN evs : evs[i] = LedgerEvent(m)
  BY FillEmits DEF MissingOrders
<1>2. /\ unsynced' = [unsynced EXCEPT ![t] = {}]
      /\ twice' = [twice EXCEPT ![t] = @ + Cardinality(clerk[t] \cap unsynced[t])]
      /\ UNCHANGED <<rec, booked, clerk, log, applied, runs, torn>>
  BY DEF Fill, inbound
<1>3. PICK all \in BOOLEAN : /\ Grown(t, evs, all)
                             /\ lost' = lost + (IF all THEN 0 ELSE 1)
  BY <1>1, EmitGrows DEF TypeInv
<1>4. lost' = 0 => lost = 0 /\ all
  BY <1>3 DEF TypeInv, FaultsOK
<1>5. LogKept /\ RecGrows
  BY <1>2 DEF LogKept, RecGrows
<1>6. ASSUME NEW e \in DOMAIN evs PROVE OrderEventOK(t, evs[e])'
  <2>1. PICK ev : ev = evs[e]
    OBVIOUS
  <2>2. CASE \E o \in Orders : rec[t][o] # "absent" /\ ev = OrderEvent(o, rec[t][o])
    <3>1. PICK o \in Orders : rec[t][o] # "absent" /\ ev = OrderEvent(o, rec[t][o])
      BY <2>2
    <3>2. ev.order = o /\ ev.status = rec[t][o]
      BY <3>1 DEF OrderEvent
    <3>3. OrderEventOK(t, ev)'
      BY <3>1, <3>2, <1>2 DEF OrderEventOK
    <3> QED BY <2>1, <3>3
  <2>3. CASE \E m \in unsynced[t] : ev = LedgerEvent(m)
    <3>1. ev.kind = "ledger"
      BY <2>3 DEF LedgerEvent
    <3>2. OrderEventOK(t, ev)'
      BY <3>1 DEF OrderEventOK
    <3> QED BY <2>1, <3>2
  <2> QED BY <1>1, <2>1, <2>2, <2>3
<1>7. LogOK' /\ OrdersOK'
  BY <1>2, <1>3, <1>5, <1>6, EmitAgrees DEF Agreed
<1>8. PICK both \in SUBSET Movements : both = clerk[t] \cap unsynced[t]
  BY DEF TypeInv, TablesOK
<1>9. /\ Cardinality(both) \in Nat /\ twice'[t] = twice[t] + Cardinality(both)
      /\ \A u \in Tills \ {t} : twice'[u] = twice[u]
  BY <1>2, <1>8, LedgerEventsIs DEF TypeInv, WiresOK
<1>10. ASSUME NEW u \in Tills PROVE torn[u] <= torn'[u] /\ twice[u] <= twice'[u]
  <2>1. torn[u] \in Nat /\ twice[u] \in Nat
    BY DEF TypeInv, WiresOK, FaultsOK
  <2> QED BY <2>1, <1>2, <1>9
<1>11. ASSUME NEW o \in Tabs PROVE TabOK(o)'
  <2>1. (\E e \in DOMAIN evs : evs[e] = ChargeEvent(o)) <=> Charge(o) \in unsynced[t]
    <3>1. ASSUME NEW e \in DOMAIN evs, evs[e] = ChargeEvent(o) PROVE Charge(o) \in unsynced[t]
      <4>1. ChargeEvent(o).kind = "ledger" /\ ChargeEvent(o).row = Charge(o)
        BY DEF ChargeEvent, LedgerEvent
      <4>2. \A x, s : OrderEvent(x, s).kind = "order"
        BY DEF OrderEvent
      <4>3. PICK m \in unsynced[t] : evs[e] = LedgerEvent(m)
        BY <1>1, <3>1, <4>1, <4>2
      <4>4. LedgerEvent(m).row = m
        BY DEF LedgerEvent
      <4>5. m = Charge(o)
        BY <3>1, <4>1, <4>3, <4>4, Zenon
      <4> QED BY <4>3, <4>5
    <3>2. ASSUME Charge(o) \in unsynced[t] PROVE \E e \in DOMAIN evs : evs[e] = ChargeEvent(o)
      BY <1>1, <3>2 DEF ChargeEvent
    <3> QED BY <3>1, <3>2
  <2>2. /\ unsynced'[t] = {} /\ clerk'[t] = clerk[t]
        /\ \A u \in Tills \ {t} : unsynced'[u] = unsynced[u] /\ clerk'[u] = clerk[u]
    BY <1>2 DEF TypeInv, TablesOK
  <2>3. ASSUME NEW u \in Tills
        PROVE  /\ Waits(u, o)' => Waits(u, o)
               /\ Charge(o) \in unsynced[u] =>
                    \/ Charge(o) \in unsynced'[u]
                    \/ u = t /\ \E e \in DOMAIN evs : evs[e] = ChargeEvent(o)
    <3>1. CASE u = t
      BY <3>1, <2>1, <2>2 DEF Waits
    <3>2. CASE u # t
      BY <3>2, <2>2 DEF Waits
    <3> QED BY <3>1, <3>2
  <2>4. ASSUME Charge(o) \in unsynced[t]
        PROVE  Waits(t, o) /\ (~Waits(t, o)' \/ twice[t] + 1 <= twice'[t])
    <3>1. CASE Charge(o) \in clerk[t]
      <4>1. Cardinality(both) # 0
        BY <1>8, <2>4, <3>1, LedgerEventsIs, FS_EmptySet
      <4>2. twice[t] \in Nat
        BY DEF TypeInv, WiresOK
      <4>3. twice[t] + 1 <= twice'[t]
        BY <4>1, <4>2, <1>9
      <4> QED BY <2>4, <4>3 DEF Waits
    <3>2. CASE Charge(o) \notin clerk[t]
      BY <2>4, <3>2, <2>2 DEF Waits
    <3> QED BY <3>1, <3>2
  <2> QED BY <1>1, <1>2, <1>3, <1>4, <1>5, <1>10, <2>1, <2>3, <2>4, LedgerTab DEF Agreed
<1> QED BY <1>7, <1>11 DEF Agreed
-----------------------------------------------------------------------------
(***************************************************************************)
(* The invariant.                                                          *)
(***************************************************************************)
\* At first there is nothing.
LEMMA InitInv == Init => IInv
<1> SUFFICES ASSUME Init PROVE IInv
  OBVIOUS
<1>0. Home \in [Orders -> Tills] /\ Tabs \subseteq Orders /\ MaxFaults \in Nat
  BY TeamSyncAssumption
<1>1. /\ <<>> \in Seq(OutRows) /\ <<>> \in Seq(Nat) /\ <<>> \in Seq(LogRows) /\ Len(<<>>) = 0
      /\ DOMAIN <<>> = {} /\ ToSet(<<>>) = {} /\ Rising(<<>>)
  BY DEF ToSet, Rising
<1>2. <<>> \in Counted
  <2>1. <<>> \in [{} -> Nat \ {0}]
    OBVIOUS
  <2> QED BY <2>1 DEF Counted
<1>3. TablesOK
  BY DEF Init, TablesOK, Status
<1>4. WiresOK
  BY <1>1 DEF Init, WiresOK
<1>5. InboundOK
  BY <1>1, <1>2 DEF Init, InboundOK, Idle, Todos
<1>6. FaultsOK
  BY <1>0 DEF Init, FaultsOK
<1>7. LogOK
  BY <1>1 DEF Init, LogOK, LogIsTrue
<1>8. ASSUME NEW t \in Tills PROVE BatchesOK(t) /\ OnceOK(t)
  <2>1. Foreign(t) = {}
    BY <1>1 DEF Init, Foreign
  <2> QED BY <1>1, <2>1 DEF Init, BatchesOK, OnceOK, Idle
<1>9. OrdersOK
  BY <1>1 DEF Init, OrdersOK
<1>10. ASSUME NEW o \in Tabs PROVE TabOK(o)
  <2>1. Home[o] \in Tills /\ o \in Orders /\ Charge(o) \in Movements
    BY <1>0 DEF Charge, Movements
  <2>2. \A t \in Tills : /\ ~Waits(t, o) /\ Announced(t, o) = {}
                         /\ rec[t][o] = "absent" /\ booked[t][Charge(o)] = 0
                         /\ torn[t] = 0 /\ twice[t] = 0 /\ DOMAIN runs[t] = {}
    BY <1>1, <2>1 DEF Init, Waits, Announced
  <2>3. \A t \in Tills : Due(t, o) = {}
    BY <2>1, <2>2 DEF Due
  <2>4. Cardinality({}) = 0
    BY FS_EmptySet
  <2>5. Owed(o) = 1
    BY <2>1, <2>2 DEF Owed, OneIf
  <2>6. booked[Home[o]][Charge(o)] = OneIf(rec[Home[o]][o] # "absent")
    BY <2>1, <2>2 DEF OneIf
  <2>7. ASSUME NEW t \in Tills
        PROVE  booked[t][Charge(o)] + Cardinality(Due(t, o)) + Owed(o) <= 1 + torn[t] + twice[Home[o]]
    <3>1. booked[t][Charge(o)] = 0 /\ torn[t] = 0 /\ twice[Home[o]] = 0
      BY <2>1, <2>2
    <3>2. Cardinality(Due(t, o)) = 0
      BY <2>3, <2>4
    <3> QED BY <3>1, <3>2, <2>5
  <2> QED BY <2>1, <2>2, <2>6, <2>7 DEF TabOK
<1> QED BY <1>3, <1>4, <1>5, <1>6, <1>7, <1>8, <1>9, <1>10 DEF IInv, TypeInv

\* What one till does on its own: its batches stay in order, the others' stay.
LEMMA MovedAll ==
    ASSUME IInv, NEW t \in Tills, Moved(t), Agreed'
    PROVE  IInv'
<1>1. TypeInv /\ TypeInv' /\ Others(t) /\ LogKept /\ presses <= presses'
  BY DEF IInv, Moved
<1>2. ASSUME NEW u \in Tills PROVE BatchesOK(u)' /\ OnceOK(u)'
  <2>1. CASE u = t
    BY <2>1 DEF Moved
  <2>2. CASE u # t
    <3>1. Still(u) /\ BatchesOK(u) /\ OnceOK(u)
      BY <1>1, <2>2 DEF Others, IInv
    <3> QED BY <1>1, <3>1, StillStays
  <2> QED BY <2>1, <2>2
<1> QED BY <1>1, <1>2 DEF IInv, Agreed

\* Each action keeps the invariant.
LEMMA StepInv ==
    ASSUME IInv, Next
    PROVE  IInv'
<1>0. /\ TypeInv /\ Agreed /\ \A t \in Tills : BatchesOK(t) /\ OnceOK(t)
      /\ Catalog \in Tills /\ \A o \in Orders : Home[o] \in Tills
  BY TeamSyncAssumption DEF IInv, Agreed
<1>1. CASE AddProduct
  <2>1. TypeInv' /\ Shop
    BY <1>0, <1>1, AddProductIs DEF AddProduct
  <2>2. Moved(Catalog)
    BY <1>0, <2>1, ShopMoves
  <2>3. Agreed'
    BY <1>0, <1>1, <2>1, AddProductAgrees
  <2> QED BY <1>0, <2>2, <2>3, MovedAll
<1>2. ASSUME NEW o \in Orders, Sell(o) \/ SellOnTab(o) \/ Complete(o)
      PROVE  IInv'
  <2>1. TypeInv' /\ Shop
    BY <1>0, <1>2, SellIs, SellOnTabIs, CompleteIs DEF Sell, SellOnTab, Complete
  <2>2. Moved(Home[o])
    BY <1>0, <2>1, ShopMoves
  <2>3. Agreed'
    BY <1>0, <1>2, <2>1, SellAgrees, SellOnTabAgrees, CompleteAgrees
  <2> QED BY <1>0, <2>2, <2>3, MovedAll
<1>3. ASSUME NEW t \in Tills, Sync(t)
      PROVE  IInv'
  <2>0. BatchesOK(t) /\ OnceOK(t)
    BY <1>0
  <2>1. CASE Push(t) \/ Pull(t) \/ Skip(t) \/ DeadLetter(t) \/ StartRetry(t)
    <3>1. Moved(t)
      BY <1>0, <2>0, <2>1, PushMoves, PullMoves, SkipMoves, DeadLetterMoves, StartRetryMoves
    <3>2. TypeInv'
      BY <3>1 DEF Moved
    <3>3. Agreed'
      BY <1>0, <2>1, <3>2, IdleAgrees
    <3> QED BY <3>1, <3>3, MovedAll
  <2>2. CASE Apply(t)
    <3>1. Moved(t)
      BY <1>0, <2>0, <2>2, ApplyMoves
    <3>2. Agreed'
      BY <1>0, <2>2, <3>1, ApplyAgrees DEF Moved
    <3> QED BY <3>1, <3>2, MovedAll
  <2>3. CASE Retry(t)
    <3>1. Moved(t)
      BY <1>0, <2>0, <2>3, RetryMoves
    <3>2. Agreed'
      BY <1>0, <2>0, <2>3, <3>1, RecoverAgrees DEF Moved
    <3> QED BY <3>1, <3>2, MovedAll
  <2>4. CASE Fill(t)
    <3>1. Moved(t)
      BY <1>0, <2>0, <2>4, FillMoves
    <3>2. Agreed'
      BY <1>0, <2>4, <3>1, FillAgrees DEF Moved
    <3> QED BY <3>1, <3>2, MovedAll
  <2> QED BY <1>3, <2>1, <2>2, <2>3, <2>4 DEF Sync
<1>4. ASSUME NEW t \in Tills,
             \/ DieEmitting(t) \/ DieUnmarked(t) \/ DieUnmoved(t) \/ DieRecovering(t) \/ Rewind(t)
      PROVE  IInv'
  <2>0. BatchesOK(t) /\ OnceOK(t)
    BY <1>0
  <2>1. CASE DieEmitting(t)
    <3>1. Moved(t)
      BY <1>0, <2>0, <2>1, DieEmittingMoves
    <3>2. Agreed'
      BY <1>0, <2>0, <2>1, <3>1, DieEmittingAgrees DEF Moved
    <3> QED BY <3>1, <3>2, MovedAll
  <2>2. CASE DieUnmarked(t) \/ DieUnmoved(t)
    <3>1. Moved(t)
      BY <1>0, <2>0, <2>2, DieUnmarkedMoves, DieUnmovedMoves
    <3>2. Agreed'
      BY <1>0, <2>2, <3>1, ApplyAgrees DEF Moved
    <3> QED BY <3>1, <3>2, MovedAll
  <2>3. CASE DieRecovering(t)
    <3>1. Moved(t)
      BY <1>0, <2>0, <2>3, DieRecoveringMoves
    <3>2. Agreed'
      BY <1>0, <2>0, <2>3, <3>1, RecoverAgrees DEF Moved
    <3> QED BY <3>1, <3>2, MovedAll
  <2>4. CASE Rewind(t)
    <3>1. Moved(t)
      BY <1>0, <2>0, <2>4, RewindMoves
    <3>2. Agreed'
      BY <1>0, <2>4, <3>1, IdleAgrees DEF Moved
    <3> QED BY <3>1, <3>2, MovedAll
  <2> QED BY <1>4, <2>1, <2>2, <2>3, <2>4
<1>5. ASSUME NEW t \in Tills, EmitLedger(t) \/ Press(t) \/ RetryPressed(t)
      PROVE  IInv'
  <2>0. BatchesOK(t) /\ OnceOK(t)
    BY <1>0
  <2>1. CASE EmitLedger(t)
    <3>1. TypeInv' /\ Shop
      BY <1>0, <2>1, EmitLedgerIs DEF EmitLedger
    <3>2. Moved(t)
      BY <1>0, <2>0, <3>1, ShopMoves
    <3>3. Agreed'
      BY <1>0, <2>1, <3>1, EmitLedgerAgrees
    <3> QED BY <3>2, <3>3, MovedAll
  <2>2. CASE Press(t)
    <3>1. Moved(t)
      BY <1>0, <2>0, <2>2, PressMoves
    <3>2. Agreed'
      BY <1>0, <2>2, <3>1, IdleAgrees DEF Moved
    <3> QED BY <3>1, <3>2, MovedAll
  <2>3. CASE RetryPressed(t)
    <3>1. Moved(t)
      BY <1>0, <2>0, <2>3, RetryPressedMoves
    <3>2. Agreed'
      BY <1>0, <2>0, <2>3, <3>1, RecoverAgrees DEF Moved
    <3> QED BY <3>1, <3>2, MovedAll
  <2> QED BY <1>5, <2>1, <2>2, <2>3
<1>6. ASSUME NEW t \in Tills, NEW o \in Orders, Void(t, o)
      PROVE  IInv'
  <2>0. BatchesOK(t) /\ OnceOK(t)
    BY <1>0
  <2>1. TypeInv' /\ Shop
    BY <1>0, <1>6, VoidIs DEF Void
  <2>2. Moved(t)
    BY <1>0, <2>0, <2>1, ShopMoves
  <2>3. Agreed'
    BY <1>0, <1>6, <2>1, VoidAgrees
  <2> QED BY <2>2, <2>3, MovedAll
<1> QED BY <1>1, <1>2, <1>3, <1>4, <1>5, <1>6 DEF Next

\* Nothing happens.
LEMMA StutterInv ==
    ASSUME IInv, UNCHANGED vars
    PROVE  IInv'
<1>1. UNCHANGED <<rec, bare, known, stock, booked, unsynced, outbox, clerk, twice, log, cursor,
                  applied, dead, runs, torn, rewound, cycle, button, lost, refused, crashes,
                  presses>>
  BY DEF vars, tables, inbound, counters
<1>2. TypeInv'
  BY <1>1 DEF IInv, TypeInv, TablesOK, WiresOK, InboundOK, FaultsOK, Foreign
<1>3. LogOK' /\ LogKept
  BY <1>1, LogStays DEF IInv, LogKept
<1>4. Agreed'
  BY <1>1, <1>2, <1>3, SilentAgrees DEF IInv, Agreed
<1>5. ASSUME NEW u \in Tills PROVE BatchesOK(u)' /\ OnceOK(u)'
  <2>1. presses <= presses' /\ Still(u)
    BY <1>1 DEF IInv, TypeInv, FaultsOK, Still
  <2> QED BY <1>2, <1>3, <2>1, StillStays DEF IInv
<1> QED BY <1>2, <1>4, <1>5 DEF IInv, Agreed

\* The invariant holds of every run.
LEMMA Inductive == Spec => []IInv
<1>1. IInv /\ [Next]_vars => IInv'
  BY StepInv, StutterInv
<1> QED BY <1>1, InitInv, PTL DEF Spec

\* Every table keeps its type, and what a till holds of others' events is in the log.
THEOREM TypeInvariant == Spec => []TypeOK
<1>1. IInv => TypeOK
  <2> SUFFICES ASSUME IInv PROVE TypeOK
    OBVIOUS
  <2>1. TablesOK /\ WiresOK /\ InboundOK /\ FaultsOK
    BY DEF IInv, TypeInv
  <2>2. ASSUME NEW t \in Tills
        PROVE  /\ \A i \in DOMAIN outbox[t] :
                    outbox[t][i] \in [event : Events, state : {"pending", "pushed", "quarantined"},
                                     tries : 0..MaxPush]
               /\ cursor[t] \in 0..Len(log)
               /\ applied[t] \cup dead[t] \cup DOMAIN runs[t] \subseteq Foreign(t)
               /\ cycle[t].pc \in Todos /\ ToSet(cycle[t].todo) \subseteq Foreign(t)
               /\ ToSet(button[t]) \subseteq Foreign(t)
               /\ clerk[t] \subseteq Movements /\ torn[t] \in 0..MaxFaults
    <3>1. \A i \in DOMAIN outbox[t] : outbox[t][i] \in OutRows
      BY <2>1, RowIs
    <3>2. Len(log) \in Nat
      BY <2>1 DEF WiresOK
    <3>3. cursor[t] \in 0..Len(log)
      BY <2>1, <3>2 DEF InboundOK
    <3>4. torn[t] \in 0..MaxFaults
      BY <2>1, TeamSyncAssumption DEF FaultsOK
    <3> QED BY <2>1, <3>1, <3>3, <3>4 DEF InboundOK, WiresOK, OutRows
  <2> QED BY <2>1, <2>2 DEF TypeOK, TablesOK, Status, Count
<1> QED BY <1>1, Inductive, PTL

\* The effect of an event runs once on a till, but for what the comment of
\* OnceEach counts, whatever tills, presses and failures there are.
THEOREM AppliedOnce == Spec => []OnceEach
<1>1. IInv => OnceEach
  <2> SUFFICES ASSUME IInv, NEW t \in Tills, NEW i \in DOMAIN runs[t]
               PROVE  runs[t][i] <= 1 + torn[t] + OneIf(presses > 0) + OneIf(t \in rewound)
    BY DEF OnceEach
  <2>1. InboundOK /\ FaultsOK /\ OnceOK(t)
    BY DEF IInv, TypeInv
  <2>2. i \in Foreign(t) /\ Ran(t, i) = runs[t][i]
    BY <2>1 DEF InboundOK, Ran
  <2>3. PICK d \in SUBSET Nat : runs[t] \in [d -> Nat \ {0}]
    BY <2>1 DEF InboundOK, Counted
  <2>4. runs[t][i] \in Nat /\ torn[t] \in Nat
    BY <2>1, <2>3 DEF FaultsOK
  <2>5. Copies(t, i) \in 0..2
    BY DEF Copies, OneIf
  <2>6. Spare(t) \in 0..2 /\ Spare(t) = OneIf(presses > 0) + OneIf(t \in rewound)
    BY DEF Spare, OneIf
  <2>7. t \in rewound => Spare(t) >= 1
    BY DEF Spare, OneIf
  <2>8. runs[t][i] <= 1 + torn[t] + Spare(t)
    <3>1. CASE i \notin applied[t]
      BY <3>1, <2>1, <2>2, <2>4, <2>6 DEF OnceOK
    <3>2. CASE i \in applied[t] \cap dead[t]
      BY <3>2, <2>1, <2>2, <2>4, <2>6 DEF OnceOK
    <3>3. CASE i \in applied[t] \ dead[t]
      BY <3>3, <2>1, <2>2, <2>4, <2>5, <2>6 DEF OnceOK
    <3> QED BY <3>1, <3>2, <3>3
  <2>9. PICK a \in {0, 1}, b \in {0, 1} : a = OneIf(presses > 0) /\ b = OneIf(t \in rewound)
    BY DEF OneIf
  <2> QED BY <2>4, <2>6, <2>8, <2>9
<1> QED BY <1>1, Inductive, PTL

\* The log has every change once, and what a till marks pushed is there.
THEOREM LogHoldsEachOnce == Spec => []LogIsTrue
<1>1. IInv => LogIsTrue
  BY DEF IInv, LogOK
<1> QED BY <1>1, Inductive, PTL

\* A quiet till has run every event that any other till keeps as not put aside.
LEMMA QuietRan ==
    ASSUME IInv, Quiet, NEW g \in Tills, NEW t \in Tills, t # g, NEW i \in Kept(g)
    PROVE  \E k \in DOMAIN runs[t] : log[k].event = outbox[g][i].event
<1>1. i \in DOMAIN outbox[g] /\ outbox[g][i].state # "quarantined" /\ Pending(g) = {}
  BY DEF Kept, Quiet
<1>2. outbox[g][i] \in OutRows
  BY <1>1, RowIs DEF IInv, TypeInv
<1>3. outbox[g][i].state = "pushed"
  BY <1>1, <1>2 DEF OutRows, Pending
<1>4. Logged(g, i)
  BY <1>1, <1>3 DEF IInv, LogOK, LogIsTrue
<1>5. PICK k \in DOMAIN log : log[k].by = g /\ log[k].uuid = i
  BY <1>4 DEF Logged
<1>6. k \in Foreign(t)
  BY <1>5 DEF Foreign
<1>7. k \in DOMAIN runs[t]
  BY <1>6 DEF Quiet
<1>8. log[k].event = outbox[g][i].event
  BY <1>5 DEF IInv, LogOK
<1> QED BY <1>7, <1>8

\* Whatever fails on the way, once the tills are quiet an order that was not
\* voided is on all of them.
THEOREM NoOrderIsLost == Spec => []OrdersArrive
<1>1. IInv => OrdersArrive
  <2> SUFFICES ASSUME IInv, Quiet, NEW t \in Tills, NEW o \in Orders,
                      rec[Home[o]][o] \in {"PENDING", "PAID"}
               PROVE  rec[t][o] # "absent"
    BY DEF OrdersArrive
  <2>1. PICK h \in Tills : h = Home[o]
    BY TeamSyncAssumption
  <2>2. CASE t = h
    BY <2>1, <2>2
  <2>3. CASE t # h
    <3>1. MissingOrders(h) = {}
      BY DEF Quiet
    <3>2. Filed(h, o)
      BY <2>1, <3>1 DEF MissingOrders
    <3>3. PICK i \in Kept(h) : outbox[h][i].event.kind = "order" /\ outbox[h][i].event.order = o
      BY <3>2 DEF Filed
    <3>4. PICK k \in DOMAIN runs[t] : log[k].event = outbox[h][i].event
      BY <2>3, <3>3, QuietRan
    <3>5. i \in DOMAIN outbox[h]
      BY <3>3 DEF Kept
    <3>6. outbox[h][i].event.status # "VOIDED"
      BY <2>1, <3>3, <3>5 DEF IInv, OrdersOK
    <3> QED BY <3>3, <3>4, <3>6 DEF IInv, OrdersOK
  <2> QED BY <2>2, <2>3
<1> QED BY <1>1, Inductive, PTL

\* A charge stands on the customer's account of every till once, but for what
\* the comment of ChargedOnce counts, and does so in the end unless its event
\* was lost or put aside.
THEOREM TabsAreCharged == Spec => []ChargedOnce
<1>1. IInv => ChargedOnce
  <2> SUFFICES ASSUME IInv, NEW t \in Tills, NEW o \in Tabs
               PROVE  /\ booked[t][Charge(o)] <= 1 + torn[t] + twice[Home[o]]
                      /\ Quiet /\ lost = 0 /\ Kept(Home[o]) = DOMAIN outbox[Home[o]]
                            /\ rec[Home[o]][o] # "absent" => booked[t][Charge(o)] >= 1
    BY DEF ChargedOnce, Charge
  <2>0. TypeInv /\ TabOK(o)
    BY DEF IInv
  <2>1. PICK h \in Tills : h = Home[o]
    BY TeamSyncAssumption
  <2>2. /\ booked[t][Charge(o)] \in Nat /\ torn[t] \in Nat /\ twice[h] \in Nat
        /\ Cardinality(Due(t, o)) \in Nat /\ Owed(o) \in 0..2
    BY <2>0, DueIs
  <2>3. CASE t = h
    <3>1. booked[t][Charge(o)] = OneIf(rec[h][o] # "absent")
      BY <2>0, <2>1, <2>3 DEF TabOK
    <3> QED BY <2>1, <2>2, <3>1 DEF OneIf
  <2>4. CASE t # h
    <3>1. booked[t][Charge(o)] + Cardinality(Due(t, o)) + Owed(o) <= 1 + torn[t] + twice[h]
      BY <2>0, <2>1, <2>4 DEF TabOK
    <3>2. booked[t][Charge(o)] <= 1 + torn[t] + twice[h]
      BY <2>2, <3>1
    <3>3. ASSUME Quiet, lost = 0, Kept(h) = DOMAIN outbox[h], rec[h][o] # "absent"
          PROVE  booked[t][Charge(o)] >= 1
      <4>1. unsynced[h] = {}
        BY <3>3 DEF Quiet
      <4>2. PICK i : i \in Announced(h, o)
        BY <2>0, <2>1, <3>3, <4>1 DEF TabOK
      <4>3. i \in Kept(h) /\ outbox[h][i].event = ChargeEvent(o)
        BY <3>3, <4>2 DEF Announced
      <4>4. PICK k \in DOMAIN runs[t] : log[k].event = ChargeEvent(o)
        BY <2>4, <3>3, <4>3, QuietRan
      <4> QED BY <4>4, <2>0 DEF TabOK
    <3> QED BY <2>1, <3>2, <3>3
  <2> QED BY <2>3, <2>4
<1> QED BY <1>1, Inductive, PTL
-----------------------------------------------------------------------------
(***************************************************************************)
(* The tills agree.  Once something was lost, ran twice, or was overtaken, *)
(* it stays so: what follows may take for granted that nothing was.        *)
(*                                                                         *)
(* GapsOK says a till has heard everything before whatever it has heard.   *)
(* NewsOK ties what the outboxes and the runs say to the orders, PapersOK  *)
(* the orders to the outboxes, and StockOK a shelf to the orders.          *)
(***************************************************************************)
Closed == {"PAID", "VOIDED"}
AtHome(o) == rec[Home[o]][o]
Opens(ev, o) == ev.kind = "order" /\ ev.order = o /\ ev.status # "VOIDED"
Sent(u, ev) == \E i \in DOMAIN outbox[u] : outbox[u][i].event = ev
Heard(t, ev) == \E i \in DOMAIN runs[t] : log[i].event = ev

Reached(t) == DOMAIN runs[t] \cup dead[t]
GapsOK(t) ==
    /\ applied[t] \subseteq DOMAIN runs[t]
    /\ \A i \in Foreign(t) : i <= cursor[t] => i \in Reached(t)
    /\ \A x \in Reached(t), i \in Foreign(t) : i < x => i \in Reached(t)
    /\ cycle[t].pc = "apply" => \A x \in ToSet(cycle[t].todo), i \in Foreign(t) :
           i < x => i \in Reached(t) \cup ToSet(cycle[t].todo)

\* What a row of the outbox, and a run, say of the orders and the product.
Once == {"stock", "product"}
RowOK(t, ev) ==
    /\ ev.kind = "order" /\ ev.status = "PAID" => AtHome(ev.order) \in Closed
    /\ ev.kind = "void" => rec[t][ev.order] = "VOIDED" /\ AtHome(ev.order) \in Closed
    /\ ev.kind = "stock" => t = Home[ev.order] /\ AtHome(ev.order) # "absent"
    /\ ev.kind = "product" => t = Catalog /\ Catalog \in known
RunOK(t, ev) ==
    /\ ev.kind = "order" /\ ev.status = "PAID" => rec[t][ev.order] \in Closed
    /\ ev.kind \in Once => t \in known

\* Deltas and the product are announced once, by one till.
NewsOK ==
    /\ \A t \in Tills, o \in Orders :
        /\ rec[t][o] = "PAID" => AtHome(o) \in Closed
        /\ t # Home[o] /\ rec[t][o] # "absent" => \E k \in DOMAIN log : Opens(log[k].event, o)
    /\ \A t \in Tills : \A i \in DOMAIN outbox[t] :
        /\ RowOK(t, outbox[t][i].event)
        /\ outbox[t][i].event.kind \in Once => \A j \in DOMAIN outbox[t] :
               outbox[t][i].event = outbox[t][j].event => i = j
    /\ \A t \in Tills : \A i \in DOMAIN runs[t] : RunOK(t, log[i].event)
    /\ \A t \in known : Catalog \in known /\ (t = Catalog \/ Heard(t, Product))

\* The outboxes have what happened to an order, its first event in the log opens
\* it, and a void that ran after an event of the order voided it.
FiledOK(o) ==
    /\ AtHome(o) # "absent" => /\ \E i \in DOMAIN outbox[Home[o]] : Opens(outbox[Home[o]][i].event, o)
                               /\ Sent(Home[o], Delta(o, -1))
    /\ AtHome(o) = "PAID" => Sent(Home[o], OrderEvent(o, "PAID"))
    /\ ~Sent(Home[o], OrderEvent(o, "VOIDED"))
HeldOK(t, o) ==
    /\ rec[t][o] = "VOIDED" => \E u \in Tills : Sent(u, VoidEvent(o))
    /\ rec[t][o] # "absent" => t \in known
Opened(k, o) == \E j \in DOMAIN log : j < k /\ Opens(log[j].event, o)
Follows(k, o) == \E j \in DOMAIN log : j < k /\ log[j].event.kind = "order" /\ log[j].event.order = o
VoidOK(t, o) == \A k \in DOMAIN runs[t] :
    log[k].event = VoidEvent(o) /\ Follows(k, o) => rec[t][o] = "VOIDED"
PapersOK ==
    /\ \A o \in Orders : FiledOK(o)
    /\ \A t \in Tills, o \in Orders : HeldOK(t, o) /\ VoidOK(t, o)
    /\ \A k \in DOMAIN log, o \in Orders :
        log[k].event = OrderEvent(o, "VOIDED") => Opened(k, o)

\* The units that left a shelf, and those that came back: at home a sale and a
\* void of a paid order move it, elsewhere the delta and the void.
Gone(t) == {o \in Orders : IF t = Home[o] THEN rec[t][o] = "PAID" ELSE Heard(t, Delta(o, -1))}
Returned(t) == {o \in Orders : t # Home[o] /\ rec[t][o] = "VOIDED"}
StockOK(t) == t \in known =>
    stock[t] + Cardinality(Gone(t)) = OnHand + Cardinality(Returned(t))

Agreement ==
    /\ \A t \in Tills : GapsOK(t)
    /\ NewsOK
    /\ Undisturbed => PapersOK /\ \A t \in Tills : StockOK(t)
-----------------------------------------------------------------------------
\* A till that hears nothing new, or retries, has no new gap.
LEMMA GapsKept ==
    ASSUME TypeInv, TypeInv', LogKept, NEW t \in Tills, GapsOK(t),
           Reached(t)' = Reached(t), applied'[t] \subseteq DOMAIN runs'[t],
           cursor'[t] <= cursor[t],
           cycle'[t].pc = "apply" =>
               /\ cycle[t].pc = "apply"
               /\ ToSet(cycle'[t].todo) \subseteq ToSet(cycle[t].todo)
               /\ ToSet(cycle[t].todo) \subseteq ToSet(cycle'[t].todo) \cup Reached(t)
    PROVE  GapsOK(t)'
<1> DEFINE Old == Reached(t) \cup ToSet(cycle[t].todo)
<1>1. /\ log \in Seq(LogRows) /\ Len(log) \in Nat /\ DOMAIN log = 1..Len(log)
      /\ log' \in Seq(LogRows) /\ Len(log') \in Nat /\ DOMAIN log' = 1..Len(log')
      /\ cursor[t] \in Nat /\ cursor'[t] \in Nat /\ cursor[t] <= Len(log)
  BY DEF TypeInv, WiresOK, InboundOK
<1>2. Old \subseteq Foreign(t) /\ Foreign(t) \subseteq 1..Len(log)
  <2>1. Foreign(t) \subseteq 1..Len(log)
    BY <1>1 DEF Foreign
  <2> QED BY <2>1 DEF TypeInv, InboundOK, Reached
<1>3. ASSUME NEW i \in Foreign(t)', i <= Len(log)
      PROVE  i \in Foreign(t)
  <2>1. i \in DOMAIN log' /\ log'[i].by # t
    BY DEF Foreign
  <2>2. i \in DOMAIN log
    BY <1>1, <1>3, <2>1
  <2> QED BY <2>1, <2>2 DEF LogKept, Foreign
<1>4. ASSUME NEW i \in Foreign(t)'
      PROVE  i \in Nat
  BY <1>1 DEF Foreign
<1>5. ASSUME NEW i \in Foreign(t)', i <= cursor'[t]
      PROVE  i \in Reached(t)
  BY <1>1, <1>3, <1>4, <1>5 DEF GapsOK
<1>6. ASSUME NEW i \in Foreign(t)', NEW x \in Old, i < x
      PROVE  i \in Foreign(t)
  <2>1. x \in Nat /\ x <= Len(log) /\ i \in Nat
    BY <1>1, <1>2, <1>4
  <2> QED BY <1>1, <1>3, <1>6, <2>1
<1>7. ASSUME NEW i \in Foreign(t)', NEW x \in Reached(t), i < x
      PROVE  i \in Reached(t)
  BY <1>6, <1>7 DEF GapsOK
<1>8. ASSUME cycle'[t].pc = "apply", NEW x \in ToSet(cycle'[t].todo), NEW i \in Foreign(t)', i < x
      PROVE  i \in Reached(t) \cup ToSet(cycle'[t].todo)
  <2>1. x \in ToSet(cycle[t].todo)
    BY <1>8
  <2>2. i \in Foreign(t)
    BY <1>6, <1>8, <2>1
  <2> QED BY <1>8, <2>1, <2>2 DEF GapsOK
<1> QED BY <1>5, <1>7, <1>8 DEF GapsOK

\* Where nothing happens there is no new gap.
LEMMA GapsStill ==
    ASSUME TypeInv, TypeInv', LogKept, NEW t \in Tills, GapsOK(t), Still(t)
    PROVE  GapsOK(t)'
<1>1. Reached(t)' = Reached(t) /\ cursor'[t] <= cursor[t]
  BY DEF Still, Reached, TypeInv, InboundOK
<1> QED BY <1>1, GapsKept DEF Still, GapsOK

\* The first event of a batch is heard or put aside.
LEMMA GapsHeard ==
    ASSUME TypeInv, TypeInv', log' = log, NEW t \in Tills, BatchesOK(t), GapsOK(t),
           Busy(t, "apply"), Reached(t)' = Reached(t) \cup {Next1(t)},
           applied'[t] \subseteq DOMAIN runs'[t],
           cursor'[t] \in {cursor[t], Next1(t)},
           cycle'[t].pc = "apply" => ToSet(cycle'[t].todo) = ToSet(Tail(cycle[t].todo))
    PROVE  GapsOK(t)'
<1> DEFINE i == Next1(t)
           rest == ToSet(Tail(cycle[t].todo))
<1>1. /\ cycle[t].pc = "apply" /\ i \in Foreign(t) /\ i \in ToSet(cycle[t].todo)
      /\ ToSet(cycle[t].todo) = {i} \cup rest
      /\ rest \subseteq Foreign(t) /\ \A j \in rest : i < j
  BY TodoIs DEF BatchesOK
<1>2. \A j \in Foreign(t) : j \in Nat
  BY ForeignIs
<1> HIDE DEF i, rest
<1>3. Foreign(t)' = Foreign(t)
  BY SameLog
<1>4. ASSUME NEW j \in Foreign(t), j < i
      PROVE  j \in Reached(t)
  <2>1. j \in Reached(t) \cup {i} \cup rest
    BY <1>1, <1>4 DEF GapsOK
  <2>2. j \notin rest /\ j # i
    BY <1>1, <1>2, <1>4
  <2> QED BY <2>1, <2>2
<1>5. Reached(t)' = Reached(t) \cup {i}
  BY DEF i
<1>6. ASSUME NEW j \in Foreign(t), j <= cursor'[t]
      PROVE  j \in Reached(t) \cup {i}
  <2>1. CASE cursor'[t] = cursor[t]
    BY <1>6, <2>1 DEF GapsOK
  <2>2. CASE cursor'[t] = i
    BY <1>1, <1>2, <1>4, <1>6, <2>2
  <2> QED BY <2>1, <2>2 DEF i
<1>7. ASSUME NEW x \in Reached(t) \cup {i}, NEW j \in Foreign(t), j < x
      PROVE  j \in Reached(t) \cup {i}
  BY <1>4, <1>7 DEF GapsOK
<1>8. ASSUME NEW x \in rest, NEW j \in Foreign(t), j < x
      PROVE  j \in Reached(t) \cup {i} \cup rest
  BY <1>1, <1>8 DEF GapsOK
<1>9. cycle'[t].pc = "apply" => ToSet(cycle'[t].todo) = rest
  BY DEF rest
<1> QED BY <1>3, <1>5, <1>6, <1>7, <1>8, <1>9 DEF GapsOK

\* A batch begins right after the cursor.
LEMMA GapsPulled ==
    ASSUME TypeInv, TypeInv', NEW t \in Tills, GapsOK(t), Pull(t)
    PROVE  GapsOK(t)'
<1> DEFINE F == {i \in Foreign(t) : i > cursor[t]}
           new == Ascending(F)
           m == Min({Batch, Len(new)})
           s == SubSeq(new, 1, m)
<1>1. /\ F \in SUBSET (1..Len(log)) /\ Len(log) \in Nat /\ cursor[t] \in Nat
      /\ \A i \in Foreign(t) : i \in Nat /\ (i \in F \/ i <= cursor[t])
      /\ \A i \in F : i \in Nat
  <2>1. Len(log) \in Nat /\ cursor[t] \in Nat
    BY DEF TypeInv, InboundOK, WiresOK
  <2>2. \A i \in Foreign(t) : i \in Nat /\ i \in 1..Len(log)
    BY ForeignIs
  <2> QED BY <2>1, <2>2
<1> HIDE DEF F
<1>2. /\ new \in Seq(F) /\ Rising(new) /\ Len(new) \in Nat /\ DOMAIN new = 1..Len(new)
      /\ \A i \in F : \E k \in 1..Len(new) : new[k] = i
      /\ \A k \in 1..Len(new) : new[k] \in F
  BY <1>1, AscendingIs
<1>3. m \in 0..Len(new)
  BY <1>2, MinOfTwo, TeamSyncAssumption
<1>4. /\ Goto(t, "apply", s)
      /\ UNCHANGED <<log, inbound>>
  BY DEF Pull, F
<1> HIDE DEF new, m
<1>5. /\ s \in Seq(F) /\ DOMAIN s = 1..m /\ m \in Nat
      /\ \A k \in 1..m : s[k] = new[k] /\ k \in 1..Len(new)
  BY <1>2, <1>3
<1> HIDE DEF s
<1>6. /\ cycle'[t].todo = s
      /\ UNCHANGED <<cursor, applied, dead, runs>> /\ Foreign(t)' = Foreign(t)
  <2>1. F \in SUBSET Nat
    BY <1>1
  <2>2. s \in Seq(Nat)
    <3>1. \A k \in 1..m : s[k] \in Nat
      BY <1>2, <1>5, <2>1
    <3> QED BY <1>5, <3>1
  <2> QED BY <1>4, <2>2, GotoIs, SameLog DEF TypeInv, Todos, inbound
<1>7. ASSUME NEW x \in ToSet(s), NEW i \in Foreign(t), i < x
      PROVE  i \in Reached(t) \cup ToSet(s)
  <2>1. CASE i <= cursor[t]
    BY <2>1 DEF GapsOK
  <2>2. CASE i \in F
    <3>1. PICK k \in 1..Len(new) : new[k] = i
      BY <1>2, <2>2
    <3>2. PICK n \in 1..m : s[n] = x
      BY <1>5, <1>7 DEF ToSet
    <3>3. new[n] = x /\ n \in 1..Len(new) /\ n \in Nat /\ k \in Nat
      <4>1. s[n] = new[n] /\ n \in 1..Len(new)
        BY <1>5
      <4> QED BY <1>2, <3>1, <3>2, <4>1
    <3>4. ~(n <= k)
      <4>1. n < k => new[n] < new[k]
        BY <1>2, <3>1, <3>3 DEF Rising
      <4>2. i \in Nat /\ x \in Nat
        BY <1>1, <1>2, <3>1, <3>3
      <4> QED BY <1>7, <3>1, <3>3, <4>1, <4>2
    <3>5. k \in 1..m
      BY <1>5, <3>1, <3>2, <3>3, <3>4
    <3> QED BY <1>5, <3>1, <3>5 DEF ToSet
  <2> QED BY <1>1, <2>1, <2>2
<1>8. Reached(t)' = Reached(t)
  BY <1>6 DEF Reached
<1> QED BY <1>6, <1>7, <1>8 DEF GapsOK

\* The moving till has no new gap, whatever it does.
LEMMA GapsPushed ==
    ASSUME TypeInv, NEW t \in Tills, GapsOK(t), Push(t)
    PROVE  GapsOK(t)'
<1>1. TypeInv' /\ LogKept /\ cycle'[t].pc \in {"idle", "pull"}
  BY PushIs
<1>2. UNCHANGED <<cursor, applied, dead, runs>> /\ cycle'[t].pc # "apply"
  BY <1>1 DEF Push, inbound
<1>3. cursor[t] \in Nat
  BY DEF TypeInv, InboundOK
<1>4. Reached(t)' = Reached(t)
  BY <1>2 DEF Reached
<1> QED BY <1>1, <1>2, <1>3, <1>4, GapsKept DEF GapsOK

\* An event that is skipped is applied.
LEMMA GapsSkipped ==
    ASSUME TypeInv, TypeInv', NEW t \in Tills, GapsOK(t), Skip(t)
    PROVE  GapsOK(t)'
<1>1. /\ Busy(t, "apply") /\ Next1(t) \in applied[t]
      /\ UNCHANGED <<cursor, applied, dead, runs, log>>
      /\ Goto(t, "apply", Tail(cycle[t].todo))
  BY DEF Skip, Rest, inbound, Local
<1>2. /\ cycle[t].pc = "apply" /\ Tail(cycle[t].todo) \in Seq(Nat)
      /\ ToSet(cycle[t].todo) = {Next1(t)} \cup ToSet(Tail(cycle[t].todo))
  BY <1>1, TodoIs
<1>3. cycle'[t].todo = Tail(cycle[t].todo)
  BY <1>1, <1>2, GotoIs DEF TypeInv, Todos
<1>4. cursor[t] \in Nat /\ Reached(t)' = Reached(t) /\ Next1(t) \in Reached(t)
  BY <1>1 DEF TypeInv, InboundOK, Reached, GapsOK
<1> QED BY <1>1, <1>2, <1>3, <1>4, SameLog, GapsKept DEF GapsOK

\* One that is refused has a dead letter.
LEMMA GapsRefused ==
    ASSUME TypeInv, TypeInv', NEW t \in Tills, BatchesOK(t), GapsOK(t), DeadLetter(t)
    PROVE  GapsOK(t)'
<1>1. /\ Busy(t, "apply") /\ UNCHANGED <<log, applied, runs>>
      /\ dead' = [dead EXCEPT ![t] = @ \cup {Next1(t)}]
      /\ cursor' = [cursor EXCEPT ![t] = Next1(t)]
      /\ Goto(t, "apply", Tail(cycle[t].todo))
  BY DEF DeadLetter, New, Local, Advance, Rest
<1>2. Tail(cycle[t].todo) \in Seq(Nat) /\ Next1(t) \in Foreign(t)
  BY <1>1, TodoIs
<1>3. cycle'[t].todo = Tail(cycle[t].todo)
  BY <1>1, <1>2, GotoIs DEF TypeInv, Todos
<1>4. cursor'[t] = Next1(t) /\ Reached(t)' = Reached(t) \cup {Next1(t)}
  BY <1>1 DEF TypeInv, InboundOK, Reached
<1> QED BY <1>1, <1>3, <1>4, GapsHeard DEF GapsOK

\* One that is applied has run, marked or not.
LEMMA GapsApplied ==
    ASSUME TypeInv, TypeInv', NEW t \in Tills, BatchesOK(t), GapsOK(t),
           Apply(t) \/ DieUnmarked(t) \/ DieUnmoved(t)
    PROVE  GapsOK(t)'
<1>1. /\ Busy(t, "apply") /\ UNCHANGED <<log, dead>> /\ Run(t, Next1(t))
      /\ applied' = applied \/ applied' = [applied EXCEPT ![t] = @ \cup {Next1(t)}]
      /\ cursor' = cursor \/ cursor' = [cursor EXCEPT ![t] = Next1(t)]
      /\ Goto(t, "apply", Tail(cycle[t].todo)) \/ Die(t)
  BY DEF Apply, DieUnmarked, DieUnmoved, Accepted, New, Local, Advance, Mark, Rest, Die
<1>2. Tail(cycle[t].todo) \in Seq(Nat) /\ Next1(t) \in Foreign(t) /\ Next1(t) \in Nat
  BY <1>1, TodoIs, ForeignIs
<1>3. cycle'[t].pc = "apply" => cycle'[t].todo = Tail(cycle[t].todo)
  BY <1>1, <1>2, GotoIs, DieIs DEF TypeInv, Todos
<1>4. DOMAIN runs'[t] = DOMAIN runs[t] \cup {Next1(t)}
  BY <1>1, <1>2, CountRunIs DEF Run, TypeInv
<1>5. /\ cursor'[t] \in {cursor[t], Next1(t)} /\ Reached(t)' = Reached(t) \cup {Next1(t)}
      /\ applied'[t] \subseteq applied[t] \cup {Next1(t)}
  BY <1>1, <1>4 DEF TypeInv, InboundOK, Reached
<1> QED BY <1>1, <1>3, <1>4, <1>5, GapsHeard DEF GapsOK

\* A retry runs what has a dead letter, or had one and is applied.
LEMMA GapsRetried ==
    ASSUME TypeInv, TypeInv', NEW t \in Tills, BatchesOK(t), GapsOK(t),
           Retry(t) \/ RetryPressed(t) \/ DieRecovering(t)
    PROVE  GapsOK(t)'
<1>1. PICK i \in Foreign(t) :
        /\ i \in Reached(t)
        /\ \/ Recover(t, i) /\ (Retry(t) \/ RetryPressed(t))
           \/ /\ Run(t, i) /\ applied' = applied /\ cycle'[t].pc = "idle"
              /\ dead' = dead \/ dead' = [dead EXCEPT ![t] = @ \ {i}]
  <2>1. CASE Retry(t) \/ DieRecovering(t)
    <3>1. Busy(t, "retry")
      BY <2>1 DEF Retry, DieRecovering
    <3>2. Next1(t) \in Foreign(t) /\ Next1(t) \in ToSet(cycle[t].todo) /\ cycle[t].pc = "retry"
      BY <3>1, TodoIs
    <3>3. Next1(t) \in Reached(t)
      BY <3>2 DEF BatchesOK, GapsOK, Reached
    <3>4. \/ Recover(t, Next1(t)) /\ Retry(t)
          \/ /\ Run(t, Next1(t)) /\ applied' = applied /\ cycle'[t].pc = "idle"
             /\ dead' = dead \/ dead' = [dead EXCEPT ![t] = @ \ {Next1(t)}]
      BY <2>1, DieIs DEF Retry, DieRecovering
    <3> QED BY <3>2, <3>3, <3>4
  <2>2. CASE RetryPressed(t)
    <3>1. button[t] \in Seq(Nat) /\ button[t] # <<>> /\ Recover(t, Head(button[t]))
      BY <2>2 DEF RetryPressed, TypeInv, InboundOK
    <3>2. Head(button[t]) \in ToSet(button[t])
      BY <3>1, HeadIs
    <3>3. Head(button[t]) \in Foreign(t) /\ Head(button[t]) \in Reached(t)
      BY <3>2 DEF TypeInv, InboundOK, BatchesOK, GapsOK, Reached
    <3> QED BY <2>2, <3>1, <3>3
  <2> QED BY <2>1, <2>2
<1>2. i \in Nat /\ UNCHANGED <<log, cursor>>
  BY ForeignIs DEF Retry, RetryPressed, DieRecovering, Local, Die
<1>3. /\ Reached(t)' = Reached(t) /\ DOMAIN runs[t] \subseteq DOMAIN runs'[t]
      /\ applied'[t] \subseteq applied[t] \cup DOMAIN runs'[t]
  <2>1. CASE Run(t, i) /\ (applied' = applied \/ applied' = [applied EXCEPT ![t] = @ \cup {i}])
                       /\ (dead' = dead \/ dead' = [dead EXCEPT ![t] = @ \ {i}])
    <3>1. DOMAIN runs'[t] = DOMAIN runs[t] \cup {i}
      BY <1>2, <2>1, CountRunIs DEF Run, TypeInv
    <3>2. /\ dead'[t] \subseteq dead[t] /\ dead[t] \subseteq dead'[t] \cup {i}
          /\ applied'[t] \subseteq applied[t] \cup {i}
      BY <2>1 DEF TypeInv, InboundOK
    <3> QED BY <1>1, <3>1, <3>2 DEF Reached
  <2>2. CASE UNCHANGED <<applied, dead, runs>>
    BY <2>2 DEF Reached
  <2> QED BY <1>1, <2>1, <2>2 DEF Recover, Mark
<1>4. cycle'[t].pc = "apply" =>
          cycle[t].pc = "apply" /\ ToSet(cycle'[t].todo) = ToSet(cycle[t].todo)
  <2>1. CASE Retry(t)
    <3>1. Busy(t, "retry") /\ Goto(t, "retry", Tail(cycle[t].todo))
      BY <2>1 DEF Retry, Rest
    <3>2. cycle'[t].pc = "retry"
      BY <3>1, TodoIs, GotoIs DEF TypeInv, Todos
    <3> QED BY <3>2
  <2>2. CASE RetryPressed(t)
    BY <2>2 DEF RetryPressed
  <2> QED BY <1>1, <2>1, <2>2
<1>5. cursor'[t] <= cursor[t]
  BY <1>2 DEF TypeInv, InboundOK
<1> QED BY <1>2, <1>3, <1>4, <1>5, SameLog, GapsKept DEF GapsOK

\* A cursor that is set back makes no gap, nor does a till that does not listen.
LEMMA GapsIdle ==
    ASSUME TypeInv, TypeInv', LogKept, NEW t \in Tills, GapsOK(t), UNCHANGED <<applied, dead, runs>>,
           cursor' = cursor \/ Rewind(t),
           cycle' = cycle \/ cycle'[t].pc # "apply"
    PROVE  GapsOK(t)'
<1>1. cursor'[t] <= cursor[t]
  BY DEF TypeInv, InboundOK, Rewind
<1>2. Reached(t)' = Reached(t)
  BY DEF Reached
<1> QED BY <1>1, <1>2, GapsKept DEF GapsOK

\* No step leaves a gap.
LEMMA GapsStep ==
    ASSUME IInv, IInv', \A t \in Tills : GapsOK(t), [Next]_vars
    PROVE  \A t \in Tills : GapsOK(t)'
<1>0. TypeInv /\ TypeInv' /\ \A t \in Tills : BatchesOK(t) /\ OnceOK(t)
  BY DEF IInv
<1>1. ASSUME Shop PROVE \A t \in Tills : GapsOK(t)'
  BY <1>0, <1>1, SameLog, GapsIdle DEF Shop, inbound
<1>2. ASSUME NEW t \in Tills, Moved(t), GapsOK(t)' PROVE \A u \in Tills : GapsOK(u)'
  BY <1>0, <1>2, GapsStill DEF Moved, Others
<1>3. ASSUME AddProduct \/ \E o \in Orders : Sell(o) \/ SellOnTab(o) \/ Complete(o)
      PROVE  Shop
  BY <1>3 DEF AddProduct, Sell, SellOnTab, Complete
<1>4. ASSUME NEW t \in Tills, EmitLedger(t) \/ \E o \in Orders : Void(t, o)
      PROVE  Shop
  BY <1>4 DEF EmitLedger, Void
<1>5. ASSUME NEW t \in Tills, Sync(t)
      PROVE  Moved(t) /\ GapsOK(t)'
  <2>1. CASE Push(t)
    BY <1>0, <2>1, PushMoves, GapsPushed
  <2>2. CASE Pull(t)
    BY <1>0, <2>2, PullMoves, GapsPulled
  <2>3. CASE Skip(t)
    BY <1>0, <2>3, SkipMoves, GapsSkipped
  <2>4. CASE Apply(t)
    BY <1>0, <2>4, ApplyMoves, GapsApplied
  <2>5. CASE DeadLetter(t)
    BY <1>0, <2>5, DeadLetterMoves, GapsRefused
  <2>6. CASE StartRetry(t)
    <3>1. UNCHANGED <<log, cursor, applied, dead, runs>> /\ Goto(t, "retry", Ascending(dead[t]))
      BY <2>6 DEF StartRetry, inbound, Local
    <3>2. cycle'[t].pc = "retry"
      BY <1>0, <3>1, DeadListIs, GotoIs DEF TypeInv, Todos
    <3> QED BY <1>0, <2>6, <3>1, <3>2, SameLog, StartRetryMoves, GapsIdle
  <2>7. CASE Retry(t)
    BY <1>0, <2>7, RetryMoves, GapsRetried
  <2>8. CASE Fill(t)
    <3>1. UNCHANGED <<log, cursor, applied, dead, runs>> /\ Goto(t, "idle", <<>>)
      BY <2>8 DEF Fill, inbound
    <3>2. cycle'[t].pc = "idle"
      <4>1. <<>> \in Seq(Nat)
        OBVIOUS
      <4> QED BY <1>0, <3>1, <4>1, GotoIs DEF TypeInv, Todos
    <3> QED BY <1>0, <2>8, <3>1, <3>2, SameLog, FillMoves, GapsIdle
  <2> QED BY <1>5, <2>1, <2>2, <2>3, <2>4, <2>5, <2>6, <2>7, <2>8 DEF Sync
<1>6. ASSUME NEW t \in Tills,
             \/ DieEmitting(t) \/ DieUnmarked(t) \/ DieUnmoved(t) \/ DieRecovering(t) \/ Rewind(t)
      PROVE  Moved(t) /\ GapsOK(t)'
  <2>1. CASE DieEmitting(t)
    <3>1. UNCHANGED <<log, cursor, applied, dead, runs>> /\ cycle'[t].pc = "idle"
      BY <1>0, <2>1, DieIs DEF DieEmitting
    <3> QED BY <1>0, <2>1, <3>1, SameLog, DieEmittingMoves, GapsIdle
  <2>2. CASE DieUnmarked(t) \/ DieUnmoved(t)
    BY <1>0, <2>2, DieUnmarkedMoves, DieUnmovedMoves, GapsApplied
  <2>3. CASE DieRecovering(t)
    BY <1>0, <2>3, DieRecoveringMoves, GapsRetried
  <2>4. CASE Rewind(t)
    <3>1. UNCHANGED <<log, applied, dead, runs, cycle>>
      BY <2>4 DEF Rewind
    <3> QED BY <1>0, <2>4, <3>1, SameLog, RewindMoves, GapsIdle
  <2> QED BY <1>6, <2>1, <2>2, <2>3, <2>4
<1>7. ASSUME NEW t \in Tills, Press(t) \/ RetryPressed(t)
      PROVE  Moved(t) /\ GapsOK(t)'
  <2>1. CASE Press(t)
    <3>1. UNCHANGED <<log, cursor, applied, dead, runs, cycle>>
      BY <2>1 DEF Press, inbound
    <3> QED BY <1>0, <2>1, <3>1, SameLog, PressMoves, GapsIdle
  <2>2. CASE RetryPressed(t)
    BY <1>0, <2>2, RetryPressedMoves, GapsRetried
  <2> QED BY <1>7, <2>1, <2>2
<1>8. CASE UNCHANGED vars
  <2>1. UNCHANGED <<log, cursor, applied, dead, runs, cycle>>
    BY <1>8 DEF vars, inbound
  <2> QED BY <1>0, <2>1, SameLog, GapsIdle
<1>9. CASE Next
  BY <1>1, <1>2, <1>3, <1>4, <1>5, <1>6, <1>7, <1>9 DEF Next
<1> QED BY <1>8, <1>9
-----------------------------------------------------------------------------
\* What every step leaves behind it.
Forward ==
    /\ LogKept /\ known \subseteq known'
    /\ \A u \in Tills, o \in Orders :
        /\ rec[u][o] # "absent" => rec'[u][o] # "absent"
        /\ rec[u][o] \in Closed => rec'[u][o] \in Closed
        /\ rec[u][o] = "VOIDED" => rec'[u][o] = "VOIDED"
    /\ \A u \in Tills : \A i \in DOMAIN outbox[u] :
        i \in DOMAIN outbox'[u] /\ outbox'[u][i].event = outbox[u][i].event
    /\ \A u \in Tills : DOMAIN runs[u] \subseteq DOMAIN runs'[u]

\* What was disturbed stays disturbed.
LEMMA UndisturbedBefore ==
    ASSUME TypeInv, TypeInv', Forward, Undisturbed', lost' = 0 => lost = 0,
           \A u \in Tills :
               /\ bare[u] \subseteq bare'[u]
               /\ \A i \in DOMAIN outbox[u] :
                      outbox[u][i].state = "quarantined" => outbox'[u][i].state = "quarantined"
               /\ \A i \in DOMAIN runs[u] : Ran(u, i) <= Ran(u, i)'
    PROVE  Undisturbed
<1>1. lost = 0
  BY DEF Undisturbed
<1>2. ASSUME NEW u \in Tills
      PROVE  Kept(u) = DOMAIN outbox[u] /\ bare[u] = {} /\ \A i \in DOMAIN runs[u] : runs[u][i] = 1
  <2>1. ASSUME NEW i \in DOMAIN outbox[u] PROVE outbox[u][i].state # "quarantined"
    <3>1. i \in Kept(u)'
      BY DEF Undisturbed, Forward
    <3> QED BY <3>1 DEF Kept
  <2>2. ASSUME NEW i \in DOMAIN runs[u] PROVE runs[u][i] = 1
    <3>1. i \in DOMAIN runs'[u] /\ runs'[u][i] = 1
      BY DEF Undisturbed, Forward
    <3>2. PICK d \in SUBSET Nat : runs[u] \in [d -> Nat \ {0}]
      BY DEF TypeInv, InboundOK, Counted
    <3>3. Ran(u, i) = runs[u][i] /\ Ran(u, i)' = 1 /\ runs[u][i] \in Nat \ {0}
      BY <3>1, <3>2 DEF Ran
    <3> QED BY <3>3
  <2> QED BY <2>1, <2>2 DEF Kept, Undisturbed
<1>3. ASSUME NEW j \in DOMAIN log, NEW k \in DOMAIN log, NEW o \in Orders, Before(j, k, o)
      PROVE  FALSE
  <2>1. j \in DOMAIN log' /\ k \in DOMAIN log' /\ log'[j] = log[j] /\ log'[k] = log[k]
    BY DEF Forward, LogKept
  <2>2. \A i \in 1..(k - 1) : i \in DOMAIN log
    BY DEF TypeInv, WiresOK
  <2>3. Before(j, k, o)'
    BY <1>3, <2>1, <2>2 DEF Before, Forward, LogKept
  <2> QED BY <2>1, <2>3 DEF Undisturbed
<1> QED BY <1>1, <1>2, <1>3 DEF Undisturbed

\* A delta is about an order, and each event has its kind.
LEMMA DeltaOf ==
    ASSUME NEW ev \in Events
    PROVE  /\ ev.kind = "stock" => ev.order \in Orders /\ ev = Delta(ev.order, -1)
           /\ ev.kind = "product" => ev = Product
           /\ ev.kind = "order" => ev = OrderEvent(ev.order, ev.status)
<1>1. \/ ev = Product
      \/ \E o \in Orders : ev = Delta(o, -1)
      \/ \E o \in Orders : ev = VoidEvent(o)
      \/ \E o \in Orders, s \in {"PENDING", "PAID", "VOIDED"} : ev = OrderEvent(o, s)
      \/ \E m \in Movements : ev = LedgerEvent(m)
  BY DEF Events
<1> QED BY <1>1 DEF Product, Delta, VoidEvent, OrderEvent, LedgerEvent

\* New orders, rows, runs and products have to be true; the rest stays true.
LEMMA NewsStep ==
    ASSUME TypeInv, TypeInv', NewsOK, Forward,
           \A u \in Tills, o \in Orders : rec'[u][o] # rec[u][o] =>
               /\ rec'[u][o] = "PAID" => AtHome(o)' \in Closed
               /\ u # Home[o] /\ rec'[u][o] # "absent" => \E k \in DOMAIN log' : Opens(log'[k].event, o),
           \A u \in Tills : \A i \in DOMAIN outbox'[u] \ DOMAIN outbox[u] :
               /\ RowOK(u, outbox[u][i].event)'
               /\ outbox'[u][i].event.kind \in Once => \A j \in DOMAIN outbox'[u] :
                      outbox'[u][i].event = outbox'[u][j].event => i = j,
           \A u \in Tills : \A i \in DOMAIN runs'[u] \ DOMAIN runs[u] : RunOK(u, log[i].event)',
           \A u \in known' \ known : Catalog \in known' /\ (u = Catalog \/ Heard(u, Product)')
    PROVE  NewsOK'
<1>1. ASSUME NEW u \in Tills, NEW o \in Orders
      PROVE  /\ rec'[u][o] = "PAID" => AtHome(o)' \in Closed
             /\ u # Home[o] /\ rec'[u][o] # "absent" => \E k \in DOMAIN log' : Opens(log'[k].event, o)
  <2>1. CASE rec'[u][o] # rec[u][o]
    BY <2>1
  <2>2. CASE rec'[u][o] = rec[u][o]
    <3>1. rec[u][o] = "PAID" => AtHome(o)' \in Closed
      BY TeamSyncAssumption DEF NewsOK, Forward, AtHome
    <3>2. u # Home[o] /\ rec[u][o] # "absent" => \E k \in DOMAIN log' : Opens(log'[k].event, o)
      BY DEF NewsOK, Forward, LogKept
    <3> QED BY <2>2, <3>1, <3>2
  <2> QED BY <2>1, <2>2
<1>2. ASSUME NEW u \in Tills, NEW i \in DOMAIN outbox'[u]
      PROVE  /\ RowOK(u, outbox[u][i].event)'
             /\ outbox'[u][i].event.kind \in Once => \A j \in DOMAIN outbox'[u] :
                    outbox'[u][i].event = outbox'[u][j].event => i = j
  <2>1. CASE i \in DOMAIN outbox[u]
    <3>0. PICK ev \in Events : ev = outbox[u][i].event
      BY <2>1, RowIs DEF TypeInv
    <3>1. outbox'[u][i].event = ev
      BY <2>1, <3>0 DEF Forward
    <3>2. RowOK(u, ev)
      BY <2>1, <3>0 DEF NewsOK
    <3>3. /\ ev.kind \in {"order", "void", "stock"} => ev.order \in Orders /\ Home[ev.order] \in Tills
      BY KindOf, DeltaOf, TeamSyncAssumption
    <3>4. RowOK(u, ev)'
      BY <3>2, <3>3 DEF RowOK, Forward, AtHome
    <3>5. ASSUME ev.kind \in Once, NEW j \in DOMAIN outbox'[u], outbox'[u][j].event = ev
          PROVE  i = j
      <4>1. CASE j \in DOMAIN outbox[u]
        BY <2>1, <3>0, <3>5, <4>1 DEF NewsOK, Forward
      <4>2. CASE j \notin DOMAIN outbox[u]
        BY <3>1, <3>5, <4>2
      <4> QED BY <4>1, <4>2
    <3> QED BY <3>1, <3>4, <3>5
  <2>2. CASE i \notin DOMAIN outbox[u]
    BY <2>2
  <2> QED BY <2>1, <2>2
<1>3. ASSUME NEW u \in Tills, NEW i \in DOMAIN runs'[u]
      PROVE  RunOK(u, log[i].event)'
  <2>1. CASE i \in DOMAIN runs[u]
    <3>1. i \in Foreign(u)
      BY <2>1 DEF TypeInv, InboundOK
    <3>2. PICK ev \in Events : ev = log[i].event /\ log'[i].event = ev
      BY <3>1, ForeignIs DEF Forward, LogKept
    <3>3. RunOK(u, ev)
      BY <2>1, <3>2 DEF NewsOK
    <3>4. RunOK(u, ev)'
      BY <3>3, KindOf DEF RunOK, Forward
    <3> QED BY <3>2, <3>4
  <2>2. CASE i \notin DOMAIN runs[u]
    BY <2>2
  <2> QED BY <2>1, <2>2
<1>4. ASSUME NEW u \in known'
      PROVE  Catalog \in known' /\ (u = Catalog \/ Heard(u, Product)')
  <2>1. CASE u \in known
    <3>1. u \in Tills /\ Catalog \in known /\ (u = Catalog \/ Heard(u, Product))
      BY <2>1 DEF NewsOK, TypeInv, TablesOK
    <3>2. Heard(u, Product) => Heard(u, Product)'
      BY <3>1, ForeignIs DEF Heard, Forward, LogKept, TypeInv, InboundOK
    <3> QED BY <3>1, <3>2 DEF Forward
  <2> QED BY <2>1
<1> QED BY <1>1, <1>2, <1>3, <1>4 DEF NewsOK

\* What the outboxes tell of an order that changes, and what runs.
LEMMA PapersStep ==
    ASSUME TypeInv, TypeInv', PapersOK, Forward,
           \A u \in Tills, o \in Orders : rec'[u][o] # rec[u][o] =>
               /\ u = Home[o] /\ rec[u][o] = "absent" =>
                   /\ \E i \in DOMAIN outbox'[u] : Opens(outbox'[u][i].event, o)
                   /\ Sent(u, Delta(o, -1))'
               /\ u = Home[o] /\ rec'[u][o] = "PAID" => Sent(u, OrderEvent(o, "PAID"))'
               /\ rec'[u][o] = "VOIDED" => \E v \in Tills : Sent(v, VoidEvent(o))'
               /\ u \in known',
           \A o \in Orders : Sent(Home[o], OrderEvent(o, "VOIDED"))' =>
               Sent(Home[o], OrderEvent(o, "VOIDED")),
           \A k \in DOMAIN log' \ DOMAIN log, o \in Orders :
               log'[k].event = OrderEvent(o, "VOIDED") => Opened(k, o)',
           \A u \in Tills : \A k \in DOMAIN runs'[u] \ DOMAIN runs[u], o \in Orders :
               log'[k].event = VoidEvent(o) /\ Follows(k, o)' => rec'[u][o] = "VOIDED"
    PROVE  PapersOK'
<1>1. ASSUME NEW u \in Tills, NEW ev, Sent(u, ev)
      PROVE  Sent(u, ev)'
  BY <1>1 DEF Sent, Forward
<1>2. ASSUME NEW o \in Orders
      PROVE  FiledOK(o)'
  <2>1. PICK h \in Tills : h = Home[o]
    BY TeamSyncAssumption
  <2>2. CASE rec'[h][o] # rec[h][o] /\ rec[h][o] = "absent"
    BY <1>2, <2>1, <2>2 DEF FiledOK, AtHome, PapersOK
  <2>3. CASE rec[h][o] # "absent"
    <3>1. /\ \E i \in DOMAIN outbox'[h] : Opens(outbox'[h][i].event, o)
          /\ Sent(h, Delta(o, -1))'
      BY <1>1, <2>1, <2>3 DEF PapersOK, FiledOK, AtHome, Forward
    <3>2. rec'[h][o] = "PAID" => Sent(h, OrderEvent(o, "PAID"))'
      BY <1>1, <2>1, <2>3 DEF PapersOK, FiledOK, AtHome
    <3> QED BY <1>2, <2>1, <3>1, <3>2 DEF FiledOK, AtHome, PapersOK
  <2>4. CASE rec'[h][o] = rec[h][o] /\ rec[h][o] = "absent"
    BY <1>2, <2>1, <2>4 DEF FiledOK, AtHome, PapersOK
  <2> QED BY <2>2, <2>3, <2>4
<1>3. ASSUME NEW u \in Tills, NEW o \in Orders
      PROVE  HeldOK(u, o)'
  <2>1. CASE rec'[u][o] # rec[u][o]
    BY <2>1 DEF HeldOK
  <2>2. CASE rec'[u][o] = rec[u][o]
    BY <1>1, <2>2 DEF HeldOK, PapersOK, Forward
  <2> QED BY <2>1, <2>2
<1>4. ASSUME NEW k \in DOMAIN log, NEW o \in Orders
      PROVE  /\ log'[k] = log[k] /\ Opened(k, o) => Opened(k, o)'
             /\ Follows(k, o)' => Follows(k, o)
  <2>1. log \in Seq(LogRows) /\ log' \in Seq(LogRows)
    BY DEF TypeInv, WiresOK
  <2>2. ASSUME NEW j \in DOMAIN log', j < k PROVE j \in DOMAIN log /\ log'[j] = log[j]
    BY <2>1, <2>2 DEF Forward, LogKept
  <2> QED BY <2>2 DEF Opened, Follows, Forward, LogKept
<1>5. ASSUME NEW u \in Tills, NEW o \in Orders
      PROVE  VoidOK(u, o)'
  <2>1. SUFFICES ASSUME NEW k \in DOMAIN runs'[u], log'[k].event = VoidEvent(o), Follows(k, o)'
                 PROVE  rec'[u][o] = "VOIDED"
    BY DEF VoidOK
  <2>2. CASE k \in DOMAIN runs[u]
    <3>1. k \in DOMAIN log
      BY <2>2, ForeignIs DEF TypeInv, InboundOK
    <3>2. log[k].event = VoidEvent(o) /\ Follows(k, o)
      BY <1>4, <2>1, <3>1 DEF Forward, LogKept
    <3> QED BY <2>2, <3>2 DEF PapersOK, VoidOK, Forward
  <2>3. CASE k \notin DOMAIN runs[u]
    BY <2>1, <2>3
  <2> QED BY <2>2, <2>3
<1>6. ASSUME NEW k \in DOMAIN log', NEW o \in Orders, log'[k].event = OrderEvent(o, "VOIDED")
      PROVE  Opened(k, o)'
  <2>1. CASE k \in DOMAIN log
    BY <1>4, <1>6, <2>1 DEF PapersOK, Forward, LogKept
  <2>2. CASE k \notin DOMAIN log
    BY <1>6, <2>2
  <2> QED BY <2>1, <2>2
<1> QED BY <1>2, <1>3, <1>5, <1>6 DEF PapersOK
-----------------------------------------------------------------------------
\* A shelf has room for every order.
LEMMA CountsAre ==
    ASSUME TypeInv, NEW t \in Tills
    PROVE  /\ IsFiniteSet(Gone(t)) /\ Cardinality(Gone(t)) \in Nat
           /\ IsFiniteSet(Returned(t)) /\ Cardinality(Returned(t)) \in Nat
           /\ stock[t] \in Nat
           /\ StockOK(t) /\ t \in known => \A o \in Orders \ Gone(t) : stock[t] >= 1
<1>1. Gone(t) \subseteq Orders /\ Returned(t) \subseteq Orders
  BY DEF Gone, Returned
<1>2. IsFiniteSet(Orders) /\ Cardinality(Orders) \in Nat /\ OnHand \in Nat
      /\ Cardinality(Orders) <= OnHand
  BY TeamSyncAssumption, FS_CardinalityType
<1>3. /\ IsFiniteSet(Gone(t)) /\ Cardinality(Gone(t)) \in Nat
      /\ IsFiniteSet(Returned(t)) /\ Cardinality(Returned(t)) \in Nat
  BY <1>1, <1>2, FS_Subset, FS_CardinalityType
<1>4. stock[t] \in Nat
  BY DEF TypeInv, TablesOK
<1>5. ASSUME StockOK(t), t \in known, NEW o \in Orders \ Gone(t)
      PROVE  stock[t] >= 1
  <2>1. stock[t] + Cardinality(Gone(t)) = OnHand + Cardinality(Returned(t))
    BY <1>5 DEF StockOK
  <2>2. Gone(t) # Orders
    BY <1>5
  <2>3. Cardinality(Gone(t)) < Cardinality(Orders)
    BY <1>1, <1>2, <1>3, <2>2, FS_Subset
  <2> QED BY <1>2, <1>3, <1>4, <2>1, <2>3
<1> QED BY <1>3, <1>4, <1>5

\* A unit leaves the shelf, comes back to the shelf of its sale, or to another.
LEMMA StockMoves ==
    ASSUME TypeInv, TypeInv', NEW t \in Tills, StockOK(t), t \in known, NEW o \in Orders,
           \/ /\ Gone(t)' = Gone(t) /\ Returned(t)' = Returned(t) /\ stock'[t] = stock[t]
           \/ /\ o \notin Gone(t) /\ Gone(t)' = Gone(t) \cup {o} /\ Returned(t)' = Returned(t)
              /\ stock'[t] = stock[t] - 1
           \/ /\ o \in Gone(t) /\ Gone(t)' = Gone(t) \ {o} /\ Returned(t)' = Returned(t)
              /\ stock'[t] = stock[t] + 1
           \/ /\ o \notin Returned(t) /\ Returned(t)' = Returned(t) \cup {o} /\ Gone(t)' = Gone(t)
              /\ stock'[t] = stock[t] + 1
    PROVE  StockOK(t)'
<1>1. /\ IsFiniteSet(Gone(t)) /\ Cardinality(Gone(t)) \in Nat
      /\ IsFiniteSet(Returned(t)) /\ Cardinality(Returned(t)) \in Nat
      /\ stock[t] \in Nat /\ OnHand \in Nat
  BY CountsAre, TeamSyncAssumption
<1>2. stock[t] + Cardinality(Gone(t)) = OnHand + Cardinality(Returned(t))
  BY DEF StockOK
<1>3. /\ o \notin Gone(t) => Cardinality(Gone(t) \cup {o}) = Cardinality(Gone(t)) + 1
      /\ o \in Gone(t) => Cardinality(Gone(t) \ {o}) = Cardinality(Gone(t)) - 1
      /\ o \notin Returned(t) => Cardinality(Returned(t) \cup {o}) = Cardinality(Returned(t)) + 1
  BY <1>1, FS_AddElement, FS_RemoveElement
<1>4. stock'[t] + Cardinality(Gone(t)') = OnHand + Cardinality(Returned(t)')
  <2> DEFINE g == Cardinality(Gone(t))
             r == Cardinality(Returned(t))
  <2>1. PICK G, R : G = Gone(t)' /\ R = Returned(t)'
    OBVIOUS
  <2>2. \/ Cardinality(G) = g /\ Cardinality(R) = r /\ stock'[t] = stock[t]
        \/ Cardinality(G) = g + 1 /\ Cardinality(R) = r /\ stock'[t] = stock[t] - 1
        \/ Cardinality(G) = g - 1 /\ Cardinality(R) = r /\ stock'[t] = stock[t] + 1
        \/ Cardinality(G) = g /\ Cardinality(R) = r + 1 /\ stock'[t] = stock[t] + 1
    BY <1>3, <2>1
  <2>3. g \in Nat /\ r \in Nat /\ stock[t] + g = OnHand + r
    BY <1>1, <1>2
  <2> HIDE DEF g, r
  <2>4. stock'[t] + Cardinality(G) = OnHand + Cardinality(R)
    BY <1>1, <2>2, <2>3
  <2> QED BY <2>1, <2>4
<1> QED BY <1>4 DEF StockOK

\* A till where nothing moves.
LEMMA StockStill ==
    ASSUME TypeInv, TypeInv', NEW t \in Tills, StockOK(t), LogKept,
           stock'[t] = stock[t], t \in known' => t \in known,
           \A o \in Orders : rec'[t][o] # rec[t][o] =>
               rec'[t][o] # "VOIDED" /\ rec[t][o] # "VOIDED" /\ t # Home[o],
           \A i \in DOMAIN runs'[t] : i \in DOMAIN runs[t] \/ log'[i].event.kind # "stock",
           DOMAIN runs[t] \subseteq DOMAIN runs'[t]
    PROVE  StockOK(t)'
<1>1. SUFFICES ASSUME t \in known PROVE StockOK(t)'
  BY DEF StockOK
<1>2. ASSUME NEW o \in Orders
      PROVE  Heard(t, Delta(o, -1))' <=> Heard(t, Delta(o, -1))
  <2>1. Delta(o, -1).kind = "stock"
    BY EventIs
  <2>2. \A i \in DOMAIN runs[t] : log'[i] = log[i]
    BY ForeignIs DEF TypeInv, InboundOK, LogKept
  <2>3. \A i \in DOMAIN runs'[t] : i \in DOMAIN runs[t] \/ log'[i].event.kind # "stock"
    OBVIOUS
  <2> QED BY <2>1, <2>2, <2>3 DEF Heard
<1>3. Gone(t)' = Gone(t)
  <2>1. ASSUME NEW o \in Orders
        PROVE  (IF t = Home[o] THEN rec'[t][o] = "PAID" ELSE Heard(t, Delta(o, -1))')
               <=> (IF t = Home[o] THEN rec[t][o] = "PAID" ELSE Heard(t, Delta(o, -1)))
    BY <1>2
  <2> QED BY <2>1 DEF Gone
<1>4. Returned(t)' = Returned(t)
  BY DEF Returned
<1>5. stock[t] + Cardinality(Gone(t)) = OnHand + Cardinality(Returned(t))
  BY <1>1 DEF StockOK
<1> QED BY <1>3, <1>4, <1>5 DEF StockOK
-----------------------------------------------------------------------------
\* What an emit adds to the outboxes.
LEMMA NewRows ==
    ASSUME WiresOK, NEW t \in Tills, NEW evs, NEW all, Grown(t, evs, all)
    PROVE  /\ \A u \in Tills : \A i \in DOMAIN outbox[u] :
                  i \in DOMAIN outbox'[u] /\ outbox'[u][i] = outbox[u][i]
           /\ \A u \in Tills : \A i \in DOMAIN outbox'[u] \ DOMAIN outbox[u] :
                  u = t /\ \E e \in DOMAIN evs : outbox'[u][i].event = evs[e]
           /\ Distinct(evs) => \A i, j \in DOMAIN outbox'[t] \ DOMAIN outbox[t] :
                  outbox'[t][i].event = outbox'[t][j].event => i = j
           /\ all => \A e \in DOMAIN evs : \E i \in DOMAIN outbox'[t] : outbox'[t][i].event = evs[e]
<1>1. PICK src \in [DOMAIN outbox'[t] \ DOMAIN outbox[t] -> DOMAIN evs] :
        /\ \A i \in DOMAIN src : outbox'[t][i].event = evs[src[i]]
        /\ \A i, j \in DOMAIN src : src[i] = src[j] => i = j
        /\ all => \A e \in DOMAIN evs : \E i \in DOMAIN src : src[i] = e
  BY DEF Grown
<1>2. \A u \in Tills : \A i \in DOMAIN outbox'[u] \ DOMAIN outbox[u] : u = t
  BY DEF Grown
<1>3. ASSUME NEW i \in DOMAIN outbox'[t] \ DOMAIN outbox[t]
      PROVE  i \in DOMAIN src /\ src[i] \in DOMAIN evs /\ outbox'[t][i].event = evs[src[i]]
  BY <1>1
<1>4. ASSUME Distinct(evs), NEW i \in DOMAIN outbox'[t] \ DOMAIN outbox[t],
             NEW j \in DOMAIN outbox'[t] \ DOMAIN outbox[t],
             outbox'[t][i].event = outbox'[t][j].event
      PROVE  i = j
  BY <1>1, <1>3, <1>4 DEF Distinct
<1>5. ASSUME all, NEW e \in DOMAIN evs
      PROVE  \E i \in DOMAIN outbox'[t] : outbox'[t][i].event = evs[e]
  BY <1>1, <1>5
<1> QED BY <1>2, <1>3, <1>4, <1>5 DEF Grown

Facts ==
    /\ NewsOK
    /\ Undisturbed => PapersOK /\ \A t \in Tills : StockOK(t)

\* A step that changes no order and no shelf: rows may become pushed, and the
\* new ones are of the ledger or of an order the outbox misses.
LEMMA RecordsKept ==
    ASSUME TypeInv, TypeInv', OrdersOK, Facts, LogKept, UNCHANGED <<rec, known, bare, stock, runs>>,
           lost' = 0 => lost = 0,
           \A u \in Tills : \A i \in DOMAIN outbox[u] :
               /\ i \in DOMAIN outbox'[u] /\ outbox'[u][i].event = outbox[u][i].event
               /\ outbox[u][i].state = "quarantined" => outbox'[u][i].state = "quarantined",
           \A u \in Tills : \A i \in DOMAIN outbox'[u] \ DOMAIN outbox[u] :
               \/ outbox'[u][i].event.kind = "ledger"
               \/ \E o \in MissingOrders(u) : outbox'[u][i].event = OrderEvent(o, rec[u][o]),
           \A k \in DOMAIN log' \ DOMAIN log : \E u \in Tills : \E i \in DOMAIN outbox[u] :
               log'[k].event = outbox[u][i].event
    PROVE  Facts'
<1>1. Forward
  BY DEF Forward
<1>2. NewsOK'
  <2>1. ASSUME NEW u \in Tills, NEW i \in DOMAIN outbox'[u] \ DOMAIN outbox[u]
        PROVE  RowOK(u, outbox[u][i].event)' /\ outbox'[u][i].event.kind \notin Once
    <3>1. PICK ev : ev = outbox'[u][i].event
      OBVIOUS
    <3>2. CASE ev.kind = "ledger"
      <4>1. RowOK(u, ev)'
        BY <3>2 DEF RowOK
      <4> QED BY <3>1, <3>2, <4>1 DEF Once
    <3>3. CASE \E o \in MissingOrders(u) : ev = OrderEvent(o, rec[u][o])
      <4>1. PICK o \in Orders : ev = OrderEvent(o, rec[u][o])
        BY <3>3 DEF MissingOrders
      <4>2. ev.kind = "order" /\ ev.order = o /\ ev.status = rec[u][o]
        BY <4>1 DEF OrderEvent
      <4>3. RowOK(u, ev)'
        BY <4>1, <4>2 DEF RowOK, Facts, NewsOK, AtHome
      <4> QED BY <3>1, <4>2, <4>3 DEF Once
    <3> QED BY <3>1, <3>2, <3>3
  <2> QED BY <1>1, <2>1, NewsStep DEF Facts
<1>3. ASSUME Undisturbed'
      PROVE  PapersOK' /\ \A t \in Tills : StockOK(t)'
  <2>1. Undisturbed
    <3>1. \A u \in Tills : \A i \in DOMAIN runs[u] : Ran(u, i) <= Ran(u, i)'
      BY NumbersAre DEF Ran, TypeInv
    <3> QED BY <1>1, <1>3, <3>1, UndisturbedBefore
  <2>2. PapersOK /\ \A t \in Tills : StockOK(t)
    BY <2>1 DEF Facts
  <2>3. ASSUME NEW o \in Orders, Sent(Home[o], OrderEvent(o, "VOIDED"))'
        PROVE  Sent(Home[o], OrderEvent(o, "VOIDED"))
    <3>1. PICK h \in Tills : h = Home[o]
      BY TeamSyncAssumption
    <3>2. PICK i \in DOMAIN outbox'[h] : outbox'[h][i].event = OrderEvent(o, "VOIDED")
      BY <2>3, <3>1 DEF Sent
    <3>3. CASE i \in DOMAIN outbox[h]
      BY <3>1, <3>2, <3>3 DEF Sent
    <3>4. CASE i \notin DOMAIN outbox[h]
      <4>1. OrderEvent(o, "VOIDED").kind # "ledger"
        BY DEF OrderEvent
      <4>2. PICK x \in MissingOrders(h) : OrderEvent(o, "VOIDED") = OrderEvent(x, rec[h][x])
        BY <3>2, <3>4, <4>1
      <4>3. x = o
        BY <4>2 DEF OrderEvent
      <4>4. rec[h][o] # "absent" /\ ~Filed(h, o)
        BY <4>2, <4>3 DEF MissingOrders
      <4>5. PICK j \in DOMAIN outbox[h] : Opens(outbox[h][j].event, o)
        BY <2>2, <3>1, <4>4 DEF PapersOK, FiledOK, AtHome
      <4>6. j \in Kept(h)
        BY <2>1 DEF Undisturbed
      <4> QED BY <4>4, <4>5, <4>6 DEF Filed, Opens
    <3> QED BY <3>3, <3>4
  <2>4. ASSUME NEW k \in DOMAIN log' \ DOMAIN log, NEW o \in Orders,
               log'[k].event = OrderEvent(o, "VOIDED")
        PROVE  Opened(k, o)'
    <3>0. PICK u \in Tills : \E i \in DOMAIN outbox[u] : outbox[u][i].event = OrderEvent(o, "VOIDED")
      BY <2>4
    <3>1. PICK i \in DOMAIN outbox[u] : outbox[u][i].event = OrderEvent(o, "VOIDED")
      BY <3>0
    <3>2. u # Home[o]
      BY <2>2, <3>1 DEF PapersOK, FiledOK, Sent
    <3>3. rec[u][o] # "absent"
      BY <3>1, EventIs DEF OrdersOK
    <3>4. PICK j \in DOMAIN log : Opens(log[j].event, o)
      BY <3>2, <3>3 DEF Facts, NewsOK
    <3>5. j < k
      <4>1. /\ DOMAIN log = 1..Len(log) /\ Len(log) \in Nat
            /\ DOMAIN log' = 1..Len(log') /\ Len(log') \in Nat
        BY DEF TypeInv, WiresOK
      <4> QED BY <4>1
    <3> QED BY <3>4, <3>5 DEF Opened, LogKept
  <2>5. PapersOK'
    BY <1>1, <2>2, <2>3, <2>4, PapersStep
  <2>6. ASSUME NEW t \in Tills PROVE StockOK(t)'
    BY <2>2, StockStill
  <2> QED BY <2>5, <2>6
<1> QED BY <1>2, <1>3 DEF Facts
-----------------------------------------------------------------------------
\* An emit that fails nowhere sends everything.
LEMMA AllSent ==
    ASSUME WiresOK, NEW t \in Tills, NEW evs, NEW all \in BOOLEAN, all, Grown(t, evs, all), NEW e \in DOMAIN evs
    PROVE  Sent(t, evs[e])'
<1>1. PICK src \in [DOMAIN outbox'[t] \ DOMAIN outbox[t] -> DOMAIN evs] :
        /\ \A i \in DOMAIN src : outbox'[t][i].event = evs[src[i]]
        /\ \A x \in DOMAIN evs : \E i \in DOMAIN src : src[i] = x
  BY DEF Grown
<1>2. PICK i \in DOMAIN src : src[i] = e
  BY <1>1
<1>3. i \in DOMAIN outbox'[t] /\ outbox'[t][i].event = evs[e]
  BY <1>1, <1>2
<1> QED BY <1>3 DEF Sent

\* A change of the shop, with what it leaves alone.
LEMMA ShopForward ==
    ASSUME TypeInv, TypeInv', NEW t \in Tills, NEW evs \in Seq(Events), Emit(t, evs), Shop,
           bare' = bare, known \subseteq known',
           \A u \in Tills, o \in Orders :
               /\ rec[u][o] # "absent" => rec'[u][o] # "absent"
               /\ rec[u][o] \in Closed => rec'[u][o] \in Closed
               /\ rec[u][o] = "VOIDED" => rec'[u][o] = "VOIDED"
    PROVE  /\ Forward /\ log' = log /\ runs' = runs
           /\ \E all \in BOOLEAN : Grown(t, evs, all) /\ (Undisturbed' => Undisturbed /\ all)
<1>1. log' = log /\ runs' = runs /\ LogKept
  BY ShopIs
<1>2. PICK all \in BOOLEAN : Grown(t, evs, all) /\ (lost' = 0 => lost = 0 /\ all)
  BY ShopIs
<1>3. \A u \in Tills : \A i \in DOMAIN outbox[u] :
          i \in DOMAIN outbox'[u] /\ outbox'[u][i] = outbox[u][i]
  BY <1>2, NewRows DEF TypeInv
<1>4. Forward
  BY <1>1, <1>3 DEF Forward
<1>5. ASSUME Undisturbed' PROVE Undisturbed /\ all
  <2>1. \A u \in Tills : \A i \in DOMAIN runs[u] : Ran(u, i) <= Ran(u, i)'
    BY <1>1, NumbersAre DEF Ran, TypeInv
  <2>2. Undisturbed
    BY <1>2, <1>3, <1>4, <1>5, <2>1, UndisturbedBefore
  <2> QED BY <1>2, <1>5, <2>2 DEF Undisturbed
<1> QED BY <1>1, <1>2, <1>4, <1>5

\* The product is entered.
LEMMA AddProductFacts ==
    ASSUME TypeInv, TypeInv', Facts, AddProduct
    PROVE  Facts'
<1>1. /\ known = {} /\ known' = {Catalog} /\ stock' = [stock EXCEPT ![Catalog] = OnHand]
      /\ UNCHANGED <<rec, bare>> /\ Shop /\ Emit(Catalog, <<Product>>)
      /\ Catalog \in Tills
  BY TeamSyncAssumption DEF AddProduct
<1>2. PICK evs \in Seq(Events) :
        Emit(Catalog, evs) /\ Distinct(evs) /\ \A e \in DOMAIN evs : evs[e] = Product
  <2>1. <<Product>> \in Seq(Events)
    BY EventIs
  <2>2. PICK evs : evs = <<Product>>
    OBVIOUS
  <2>3. DOMAIN evs = {1} /\ evs[1] = Product
    BY <2>2
  <2>4. Distinct(evs)
    BY <2>3 DEF Distinct
  <2> QED BY <1>1, <2>1, <2>2, <2>3, <2>4
<1>3. Forward /\ log' = log /\ runs' = runs
  BY <1>1, <1>2, ShopForward
<1>4. PICK all \in BOOLEAN : Grown(Catalog, evs, all) /\ (Undisturbed' => Undisturbed /\ all)
  BY <1>1, <1>2, ShopForward
<1>5. \A u \in Tills : \A i \in DOMAIN outbox'[u] \ DOMAIN outbox[u] :
          u = Catalog /\ outbox'[u][i].event = Product
  BY <1>1, <1>2, <1>4, NewRows DEF TypeInv
<1>6. NewsOK'
  <2>1. ASSUME NEW u \in Tills, NEW i \in DOMAIN outbox'[u] \ DOMAIN outbox[u]
        PROVE  RowOK(u, outbox[u][i].event)'
    <3>1. RowOK(Catalog, Product)'
      BY <1>1 DEF RowOK, Product
    <3>2. u = Catalog /\ outbox'[u][i].event = Product
      BY <1>5
    <3> QED BY <3>1, <3>2
  <2>2. ASSUME NEW u \in Tills, NEW i \in DOMAIN outbox'[u] \ DOMAIN outbox[u],
               NEW j \in DOMAIN outbox'[u], outbox'[u][i].event = outbox'[u][j].event
        PROVE  i = j
    <3>1. u = Catalog /\ outbox'[u][j].event = Product
      BY <1>5, <2>2
    <3>2. j \notin DOMAIN outbox[u]
      <4>1. SUFFICES ASSUME j \in DOMAIN outbox[u] PROVE FALSE
        OBVIOUS
      <4>2. outbox[u][j].event = Product
        BY <1>3, <3>1, <4>1 DEF Forward
      <4>3. RowOK(u, Product)
        BY <4>1, <4>2 DEF Facts, NewsOK
      <4> QED BY <1>1, <4>3 DEF RowOK, Product
    <3> QED BY <1>2, <1>4, <2>2, <3>1, <3>2, NewRows DEF TypeInv
  <2> QED BY <1>1, <1>3, <2>1, <2>2, NewsStep DEF Facts
<1>7. ASSUME Undisturbed'
      PROVE  PapersOK' /\ \A t \in Tills : StockOK(t)'
  <2>1. PapersOK /\ \A t \in Tills : StockOK(t)
    BY <1>4, <1>7 DEF Facts
  <2>2. ASSUME NEW o \in Orders, Sent(Home[o], OrderEvent(o, "VOIDED"))'
        PROVE  Sent(Home[o], OrderEvent(o, "VOIDED"))
    <3>1. OrderEvent(o, "VOIDED") # Product /\ Home[o] \in Tills
      BY TeamSyncAssumption DEF OrderEvent, Product
    <3> QED BY <1>3, <1>5, <2>2, <3>1 DEF Sent, Forward
  <2>3. PapersOK'
    BY <1>1, <1>3, <2>1, <2>2, PapersStep
  <2>4. StockOK(Catalog)'
    <3>1. \A o \in Orders : rec'[Catalog][o] = "absent"
      BY <1>1, <2>1 DEF PapersOK, HeldOK
    <3>2. ASSUME NEW o \in Orders PROVE ~Heard(Catalog, Delta(o, -1))'
      <4>1. SUFFICES ASSUME NEW i \in DOMAIN runs[Catalog], log[i].event = Delta(o, -1) PROVE FALSE
        BY <1>3 DEF Heard
      <4>2. RunOK(Catalog, Delta(o, -1))
        BY <1>1, <4>1 DEF Facts, NewsOK
      <4> QED BY <1>1, <4>2, EventIs DEF RunOK, Once
    <3>3. Gone(Catalog)' = {} /\ Returned(Catalog)' = {}
      BY <3>1, <3>2 DEF Gone, Returned
    <3>4. stock'[Catalog] = OnHand
      BY <1>1 DEF TypeInv, TablesOK
    <3> QED BY <3>3, <3>4, FS_EmptySet, TeamSyncAssumption DEF StockOK
  <2>5. ASSUME NEW t \in Tills, t # Catalog PROVE StockOK(t)'
    BY <1>1, <2>5 DEF StockOK
  <2> QED BY <2>3, <2>4, <2>5
<1> QED BY <1>6, <1>7 DEF Facts

\* An order is taken: paid at once, or to be paid.
LEMMA SaleFacts ==
    ASSUME TypeInv, TypeInv', Facts, NEW o \in Orders, Sell(o) \/ SellOnTab(o)
    PROVE  Facts'
<1>1. PICK t \in Tills : t = Home[o]
  BY TeamSyncAssumption
<1>2. /\ rec[t][o] = "absent" /\ t \in known /\ stock[t] >= 1 /\ UNCHANGED <<bare, known>> /\ Shop
      /\ \E s \in {"PAID", "PENDING"} :
            /\ rec' = [rec EXCEPT ![t][o] = s]
            /\ IF s = "PAID" THEN stock' = [stock EXCEPT ![t] = stock[t] - 1] ELSE stock' = stock
            /\ Emit(t, <<OrderEvent(o, s), Delta(o, -1)>>)
  <2>1. CASE Sell(o)
    <3>1. PICK s \in {"PAID", "PENDING"} :
            /\ Set(t, o, s)
            /\ IF s = "PAID" THEN Move(t, -1) ELSE UNCHANGED stock
            /\ Emit(t, <<OrderEvent(o, s), Delta(o, -1)>>)
      BY <1>1, <2>1 DEF Sell
    <3>2. stock[t] + (-1) = stock[t] - 1
      BY DEF TypeInv, TablesOK
    <3>3. rec' = [rec EXCEPT ![t][o] = s]
      BY <3>1 DEF Set
    <3>4. IF s = "PAID" THEN stock' = [stock EXCEPT ![t] = stock[t] - 1] ELSE stock' = stock
      BY <3>1, <3>2 DEF Move
    <3>5. rec[t][o] = "absent" /\ t \in known /\ stock[t] >= 1 /\ UNCHANGED <<bare, known>> /\ Shop
      BY <1>1, <2>1 DEF Sell, Unsold
    <3> QED BY <3>1, <3>3, <3>4, <3>5
  <2>2. CASE SellOnTab(o)
    BY <1>1, <2>2 DEF SellOnTab, Unsold, Set
  <2> QED BY <2>1, <2>2
<1>3. PICK s \in {"PAID", "PENDING"} :
            /\ rec' = [rec EXCEPT ![t][o] = s]
            /\ IF s = "PAID" THEN stock' = [stock EXCEPT ![t] = stock[t] - 1] ELSE stock' = stock
            /\ Emit(t, <<OrderEvent(o, s), Delta(o, -1)>>)
  BY <1>2
<1>4. /\ OrderEvent(o, s).kind = "order" /\ OrderEvent(o, s).order = o /\ OrderEvent(o, s).status = s
      /\ Delta(o, -1).kind = "stock" /\ Delta(o, -1).order = o
      /\ OrderEvent(o, s) \in Events /\ Delta(o, -1) \in Events
  BY EventIs DEF Delta
<1>5. PICK evs \in Seq(Events) :
        /\ Emit(t, evs) /\ Distinct(evs)
        /\ \A e \in DOMAIN evs : evs[e] \in {OrderEvent(o, s), Delta(o, -1)}
        /\ \E e \in DOMAIN evs : evs[e] = OrderEvent(o, s)
        /\ \E e \in DOMAIN evs : evs[e] = Delta(o, -1)
  <2>1. <<OrderEvent(o, s), Delta(o, -1)>> \in Seq(Events)
    BY <1>4
  <2>2. PICK evs : evs = <<OrderEvent(o, s), Delta(o, -1)>>
    OBVIOUS
  <2>3. DOMAIN evs = {1, 2} /\ evs[1] = OrderEvent(o, s) /\ evs[2] = Delta(o, -1)
    BY <2>2
  <2>4. Distinct(evs)
    BY <1>4, <2>3 DEF Distinct
  <2> QED BY <1>3, <2>1, <2>2, <2>3, <2>4
<1>6. /\ rec'[t][o] = s
      /\ \A u \in Tills, x \in Orders : u # t \/ x # o => rec'[u][x] = rec[u][x]
      /\ \A u \in Tills \ {t} : rec'[u] = rec[u] /\ stock'[u] = stock[u]
      /\ stock'[t] = IF s = "PAID" THEN stock[t] - 1 ELSE stock[t]
  BY <1>3 DEF TypeInv, TablesOK
<1>7. Forward /\ log' = log /\ runs' = runs
  BY <1>2, <1>5, <1>6, ShopForward DEF Closed
<1>8. PICK all \in BOOLEAN : Grown(t, evs, all) /\ (Undisturbed' => Undisturbed /\ all)
  BY <1>2, <1>5, <1>6, ShopForward DEF Closed
<1>9. \A u \in Tills : \A i \in DOMAIN outbox'[u] \ DOMAIN outbox[u] :
          u = t /\ outbox'[u][i].event \in {OrderEvent(o, s), Delta(o, -1)}
  BY <1>5, <1>8, NewRows DEF TypeInv
<1>10. NewsOK'
  <2>1. ASSUME NEW u \in Tills, NEW i \in DOMAIN outbox'[u] \ DOMAIN outbox[u]
        PROVE  RowOK(u, outbox[u][i].event)'
    <3>1. PICK ev \in {OrderEvent(o, s), Delta(o, -1)} : ev = outbox'[u][i].event /\ u = t
      BY <1>9
    <3>2. RowOK(t, ev)'
      BY <1>1, <1>4, <1>6 DEF RowOK, AtHome, Closed
    <3> QED BY <3>1, <3>2
  <2>2. ASSUME NEW u \in Tills, NEW i \in DOMAIN outbox'[u] \ DOMAIN outbox[u],
               outbox'[u][i].event.kind \in Once,
               NEW j \in DOMAIN outbox'[u], outbox'[u][i].event = outbox'[u][j].event
        PROVE  i = j
    <3>1. u = t /\ outbox'[u][j].event = Delta(o, -1)
      BY <1>4, <1>9, <2>2 DEF Once
    <3>2. j \notin DOMAIN outbox[u]
      <4>1. SUFFICES ASSUME j \in DOMAIN outbox[u] PROVE FALSE
        OBVIOUS
      <4>2. outbox[u][j].event = Delta(o, -1)
        BY <1>7, <3>1, <4>1 DEF Forward
      <4>3. RowOK(u, Delta(o, -1))
        BY <4>1, <4>2 DEF Facts, NewsOK
      <4> QED BY <1>1, <1>2, <1>4, <4>3 DEF RowOK, AtHome
    <3> QED BY <1>5, <1>8, <2>2, <3>1, <3>2, NewRows DEF TypeInv
  <2>3. AtHome(o)' = s
    BY <1>1, <1>6 DEF AtHome
  <2>4. \A u \in Tills, x \in Orders : rec'[u][x] # rec[u][x] =>
            u = t /\ x = o /\ u = Home[x] /\ (rec'[u][x] = "PAID" => AtHome(x)' \in Closed)
    BY <1>1, <1>6, <2>3 DEF Closed
  <2> QED BY <1>2, <1>7, <2>1, <2>2, <2>4, NewsStep DEF Facts
<1>11. ASSUME Undisturbed'
       PROVE  PapersOK' /\ \A u \in Tills : StockOK(u)'
  <2>1. PapersOK /\ all /\ \A u \in Tills : StockOK(u)
    BY <1>8, <1>11 DEF Facts
  <2>2. Sent(t, OrderEvent(o, s))' /\ Sent(t, Delta(o, -1))'
    <3>1. PICK e1 \in DOMAIN evs : evs[e1] = OrderEvent(o, s)
      BY <1>5
    <3>2. PICK e2 \in DOMAIN evs : evs[e2] = Delta(o, -1)
      BY <1>5
    <3>3. Sent(t, evs[e1])' /\ Sent(t, evs[e2])'
      BY <1>8, <2>1, AllSent DEF TypeInv
    <3> QED BY <3>1, <3>2, <3>3
  <2>3. \E i \in DOMAIN outbox'[t] : Opens(outbox'[t][i].event, o)
    BY <1>4, <2>2 DEF Sent, Opens
  <2>4. ASSUME NEW x \in Orders, Sent(Home[x], OrderEvent(x, "VOIDED"))'
        PROVE  Sent(Home[x], OrderEvent(x, "VOIDED"))
    <3>1. OrderEvent(x, "VOIDED") \notin {OrderEvent(o, s), Delta(o, -1)} /\ Home[x] \in Tills
      BY TeamSyncAssumption DEF OrderEvent, Delta
    <3> QED BY <1>7, <1>9, <2>4, <3>1 DEF Sent, Forward
  <2>5. PapersOK'
    BY <1>1, <1>2, <1>6, <1>7, <2>1, <2>2, <2>3, <2>4, PapersStep
  <2>6. StockOK(t)'
    <3>1. \A x \in Orders : Heard(t, Delta(x, -1))' <=> Heard(t, Delta(x, -1))
      BY <1>7 DEF Heard
    <3>2. Returned(t)' = Returned(t)
      BY <1>1, <1>6 DEF Returned
    <3>3. o \notin Gone(t) /\ Gone(t)' = IF s = "PAID" THEN Gone(t) \cup {o} ELSE Gone(t)
      BY <1>1, <1>2, <1>6, <3>1 DEF Gone
    <3>4. stock[t] \in Nat
      BY DEF TypeInv, TablesOK
    <3> QED BY <1>2, <1>6, <2>1, <3>2, <3>3, <3>4, StockMoves
  <2>7. ASSUME NEW u \in Tills, u # t PROVE StockOK(u)'
    BY <1>2, <1>6, <1>7, <2>1, <2>7, StockStill DEF Forward
  <2> QED BY <2>5, <2>6, <2>7
<1> QED BY <1>10, <1>11 DEF Facts

\* The money for an order comes in.
LEMMA CompleteFacts ==
    ASSUME TypeInv, TypeInv', Facts, NEW o \in Orders, Complete(o)
    PROVE  Facts'
<1>1. PICK t \in Tills : t = Home[o]
  BY TeamSyncAssumption
<1>2. /\ rec[t][o] = "PENDING" /\ rec' = [rec EXCEPT ![t][o] = "PAID"] /\ TakeOne(t)
      /\ UNCHANGED <<bare, known>> /\ Shop
  BY <1>1 DEF Complete, Set
<1>3. /\ OrderEvent(o, "PAID").kind = "order" /\ OrderEvent(o, "PAID").order = o
      /\ OrderEvent(o, "PAID").status = "PAID" /\ OrderEvent(o, "PAID") \in Events
  BY EventIs
<1>4. PICK evs \in Seq(Events) :
        /\ Emit(t, evs)
        /\ \A e \in DOMAIN evs : evs[e] = OrderEvent(o, "PAID") \/ evs[e].kind = "ledger"
        /\ \E e \in DOMAIN evs : evs[e] = OrderEvent(o, "PAID")
  <2>1. CASE o \in Tabs
    <3>1. PICK m \in Movements : m = <<o, "payment">>
      <4>1. <<o, "payment">> \in Movements
        BY <2>1 DEF Movements
      <4> QED BY <4>1
    <3>2. LedgerEvent(m) \in Events /\ LedgerEvent(m).kind = "ledger"
      BY EventIs
    <3>3. Emit(t, <<OrderEvent(o, "PAID"), LedgerEvent(m)>>)
      BY <1>1, <2>1, <3>1 DEF Complete
    <3>4. PICK evs : evs = <<OrderEvent(o, "PAID"), LedgerEvent(m)>>
      OBVIOUS
    <3>5. evs \in Seq(Events) /\ DOMAIN evs = {1, 2} /\ evs[1] = OrderEvent(o, "PAID")
          /\ evs[2] = LedgerEvent(m)
      BY <1>3, <3>2, <3>4
    <3> QED BY <3>2, <3>3, <3>4, <3>5
  <2>2. CASE o \notin Tabs
    <3>1. Emit(t, <<OrderEvent(o, "PAID")>>)
      BY <1>1, <2>2 DEF Complete
    <3>2. PICK evs : evs = <<OrderEvent(o, "PAID")>>
      OBVIOUS
    <3>3. evs \in Seq(Events) /\ DOMAIN evs = {1} /\ evs[1] = OrderEvent(o, "PAID")
      BY <1>3, <3>2
    <3> QED BY <3>1, <3>2, <3>3
  <2> QED BY <2>1, <2>2
<1>5. /\ rec'[t][o] = "PAID"
      /\ \A u \in Tills, x \in Orders : u # t \/ x # o => rec'[u][x] = rec[u][x]
      /\ \A u \in Tills \ {t} : rec'[u] = rec[u] /\ stock'[u] = stock[u]
      /\ stock'[t] = IF stock[t] >= 1 THEN stock[t] - 1 ELSE stock[t]
  <2>1. \A u \in Tills : stock'[u] = IF u = t /\ stock[t] >= 1 THEN stock[u] - 1 ELSE stock[u]
    <3>1. CASE stock[t] >= 1
      <4>1. stock' = [stock EXCEPT ![t] = stock[t] + (-1)]
        BY <1>2, <3>1 DEF TakeOne, Move
      <4>2. stock[t] + (-1) = stock[t] - 1
        BY DEF TypeInv, TablesOK
      <4> QED BY <3>1, <4>1, <4>2 DEF TypeInv, TablesOK
    <3>2. CASE ~(stock[t] >= 1)
      BY <1>2, <3>2 DEF TakeOne
    <3> QED BY <3>1, <3>2
  <2> QED BY <1>2, <2>1 DEF TypeInv, TablesOK
<1>6. /\ Forward /\ log' = log /\ runs' = runs
      /\ \E all \in BOOLEAN : Grown(t, evs, all) /\ (Undisturbed' => Undisturbed /\ all)
  BY <1>2, <1>4, <1>5, ShopForward DEF Closed
<1>7. PICK all \in BOOLEAN : Grown(t, evs, all) /\ (Undisturbed' => Undisturbed /\ all)
  BY <1>6
<1>8. \A u \in Tills : \A i \in DOMAIN outbox'[u] \ DOMAIN outbox[u] :
          u = t /\ (outbox'[u][i].event = OrderEvent(o, "PAID") \/ outbox'[u][i].event.kind = "ledger")
  BY <1>4, <1>7, NewRows DEF TypeInv
<1>9. NewsOK'
  <2>1. AtHome(o)' = "PAID"
    BY <1>1, <1>5 DEF AtHome
  <2>2. ASSUME NEW u \in Tills, NEW i \in DOMAIN outbox'[u] \ DOMAIN outbox[u]
        PROVE  RowOK(u, outbox[u][i].event)' /\ outbox'[u][i].event.kind \notin Once
    <3>1. PICK ev : ev = outbox'[u][i].event
      OBVIOUS
    <3>2. ev.kind = "ledger" \/ ev = OrderEvent(o, "PAID")
      BY <1>8, <3>1
    <3>3. RowOK(u, ev)'
      BY <1>3, <2>1, <3>2 DEF RowOK, Closed
    <3> QED BY <1>3, <3>1, <3>2, <3>3 DEF Once
  <2>3. \A u \in Tills, x \in Orders : rec'[u][x] # rec[u][x] =>
            u = t /\ x = o /\ u = Home[x] /\ (rec'[u][x] = "PAID" => AtHome(x)' \in Closed)
    BY <1>1, <1>5, <2>1 DEF Closed
  <2> QED BY <1>2, <1>6, <2>2, <2>3, NewsStep DEF Facts
<1>10. ASSUME Undisturbed'
       PROVE  PapersOK' /\ \A u \in Tills : StockOK(u)'
  <2>1. PapersOK /\ all /\ \A u \in Tills : StockOK(u)
    BY <1>7, <1>10 DEF Facts
  <2>2. Sent(t, OrderEvent(o, "PAID"))'
    <3>1. PICK e \in DOMAIN evs : evs[e] = OrderEvent(o, "PAID")
      BY <1>4
    <3>2. Sent(t, evs[e])'
      BY <1>7, <2>1, AllSent DEF TypeInv
    <3> QED BY <3>1, <3>2
  <2>3. t \in known
    BY <1>2, <2>1 DEF PapersOK, HeldOK
  <2>4. ASSUME NEW x \in Orders, Sent(Home[x], OrderEvent(x, "VOIDED"))'
        PROVE  Sent(Home[x], OrderEvent(x, "VOIDED"))
    <3>1. OrderEvent(x, "VOIDED") # OrderEvent(o, "PAID") /\ Home[x] \in Tills
          /\ OrderEvent(x, "VOIDED").kind # "ledger"
      BY TeamSyncAssumption DEF OrderEvent
    <3> QED BY <1>6, <1>8, <2>4, <3>1 DEF Sent, Forward
  <2>5. PapersOK'
    BY <1>1, <1>2, <1>5, <1>6, <2>1, <2>2, <2>3, <2>4, PapersStep
  <2>6. StockOK(t)'
    <3>1. \A x \in Orders : Heard(t, Delta(x, -1))' <=> Heard(t, Delta(x, -1))
      BY <1>6 DEF Heard
    <3>2. Returned(t)' = Returned(t)
      BY <1>1, <1>5 DEF Returned
    <3>3. o \notin Gone(t) /\ Gone(t)' = Gone(t) \cup {o}
      BY <1>1, <1>2, <1>5, <3>1 DEF Gone
    <3>4. stock[t] >= 1
      BY <2>1, <2>3, <3>3, CountsAre
    <3> QED BY <1>5, <2>1, <2>3, <3>2, <3>3, <3>4, StockMoves
  <2>7. ASSUME NEW u \in Tills, u # t PROVE StockOK(u)'
    BY <1>2, <1>5, <1>6, <2>1, <2>7, StockStill DEF Forward
  <2> QED BY <2>5, <2>6, <2>7
<1> QED BY <1>9, <1>10 DEF Facts

\* An order is voided, where it was taken or where it came to.
LEMMA VoidFacts ==
    ASSUME TypeInv, TypeInv', Facts, NEW t \in Tills, NEW o \in Orders, Void(t, o)
    PROVE  Facts'
<1>1. /\ rec[t][o] \in {"PENDING", "PAID"} /\ (rec[t][o] = "PENDING" => t = Home[o])
      /\ rec' = [rec EXCEPT ![t][o] = "VOIDED"]
      /\ IF rec[t][o] = "PAID" THEN stock' = [stock EXCEPT ![t] = @ + Unit(t, o)] ELSE stock' = stock
      /\ Emit(t, <<VoidEvent(o)>>) /\ UNCHANGED <<bare, known>> /\ Shop
  BY DEF Void, Set, Move
<1>2. /\ VoidEvent(o).kind = "void" /\ VoidEvent(o).order = o /\ VoidEvent(o) \in Events
      /\ Home[o] \in Tills
  BY EventIs, TeamSyncAssumption DEF VoidEvent
<1>3. PICK evs \in Seq(Events) : Emit(t, evs) /\ DOMAIN evs = {1} /\ evs[1] = VoidEvent(o)
  <2>1. PICK evs : evs = <<VoidEvent(o)>>
    OBVIOUS
  <2>2. evs \in Seq(Events) /\ DOMAIN evs = {1} /\ evs[1] = VoidEvent(o)
    BY <1>2, <2>1
  <2> QED BY <1>1, <2>1, <2>2
<1>4. /\ rec'[t][o] = "VOIDED"
      /\ \A u \in Tills, x \in Orders : u # t \/ x # o => rec'[u][x] = rec[u][x]
      /\ \A u \in Tills \ {t} : rec'[u] = rec[u] /\ stock'[u] = stock[u]
      /\ stock'[t] = IF rec[t][o] = "PAID" THEN stock[t] + Unit(t, o) ELSE stock[t]
  BY <1>1 DEF TypeInv, TablesOK
<1>5. /\ Forward /\ log' = log /\ runs' = runs
      /\ \E all \in BOOLEAN : Grown(t, evs, all) /\ (Undisturbed' => Undisturbed /\ all)
  BY <1>1, <1>3, <1>4, ShopForward DEF Closed
<1>6. PICK all \in BOOLEAN : Grown(t, evs, all) /\ (Undisturbed' => Undisturbed /\ all)
  BY <1>5
<1>7. \A u \in Tills : \A i \in DOMAIN outbox'[u] \ DOMAIN outbox[u] :
          u = t /\ outbox'[u][i].event = VoidEvent(o)
  BY <1>3, <1>6, NewRows DEF TypeInv
<1>8. NewsOK'
  <2>1. AtHome(o)' \in Closed
    <3>1. CASE t = Home[o]
      BY <1>4, <3>1 DEF AtHome, Closed
    <3>2. CASE t # Home[o]
      BY <1>1, <1>2, <1>4, <3>2 DEF Facts, NewsOK, AtHome
    <3> QED BY <3>1, <3>2
  <2>2. ASSUME NEW u \in Tills, NEW i \in DOMAIN outbox'[u] \ DOMAIN outbox[u]
        PROVE  RowOK(u, outbox[u][i].event)' /\ outbox'[u][i].event.kind \notin Once
    <3>1. PICK ev : ev = outbox'[u][i].event
      OBVIOUS
    <3>2. u = t /\ ev = VoidEvent(o)
      BY <1>7, <3>1
    <3>3. RowOK(u, ev)'
      BY <1>2, <1>4, <2>1, <3>2 DEF RowOK
    <3> QED BY <1>2, <3>1, <3>2, <3>3 DEF Once
  <2>3. \A u \in Tills, x \in Orders : rec'[u][x] # rec[u][x] =>
            /\ rec'[u][x] = "VOIDED"
            /\ u # Home[x] => \E k \in DOMAIN log : Opens(log[k].event, x)
    <3>1. t # Home[o] => \E k \in DOMAIN log : Opens(log[k].event, o)
      BY <1>1 DEF Facts, NewsOK
    <3> QED BY <1>4, <3>1
  <2>4. \A k, x : Opens(log'[k].event, x) <=> Opens(log[k].event, x)
    BY <1>5
  <2> QED BY <1>1, <1>5, <2>2, <2>3, <2>4, NewsStep DEF Facts
<1>9. ASSUME Undisturbed'
      PROVE  PapersOK' /\ \A u \in Tills : StockOK(u)'
  <2>1. Undisturbed /\ PapersOK /\ all /\ \A u \in Tills : StockOK(u)
    BY <1>6, <1>9 DEF Facts
  <2>2. Sent(t, VoidEvent(o))'
    <3>1. Sent(t, evs[1])'
      BY <1>3, <1>6, <2>1, AllSent DEF TypeInv
    <3> QED BY <1>3, <3>1
  <2>3. t \in known /\ Unit(t, o) = 1
    BY <1>1, <2>1 DEF PapersOK, HeldOK, Undisturbed, Unit
  <2>4. ASSUME NEW x \in Orders, Sent(Home[x], OrderEvent(x, "VOIDED"))'
        PROVE  Sent(Home[x], OrderEvent(x, "VOIDED"))
    <3>1. OrderEvent(x, "VOIDED") # VoidEvent(o) /\ Home[x] \in Tills
      BY <1>2, TeamSyncAssumption DEF OrderEvent
    <3> QED BY <1>5, <1>7, <2>4, <3>1 DEF Sent, Forward
  <2>5. PapersOK'
    BY <1>1, <1>4, <1>5, <2>1, <2>2, <2>3, <2>4, PapersStep
  <2>6. StockOK(t)'
    <3>1. \A x \in Orders : Heard(t, Delta(x, -1))' <=> Heard(t, Delta(x, -1))
      BY <1>5 DEF Heard
    <3>2. CASE t = Home[o]
      <4>1. Returned(t)' = Returned(t)
        BY <1>4, <3>2 DEF Returned
      <4>2. Gone(t)' = Gone(t) \ {o} /\ (o \in Gone(t) <=> rec[t][o] = "PAID")
        BY <1>4, <3>1, <3>2 DEF Gone
      <4>3. CASE rec[t][o] = "PAID"
        BY <1>4, <2>1, <2>3, <4>1, <4>2, <4>3, StockMoves
      <4>4. CASE rec[t][o] # "PAID"
        <5>1. Gone(t)' = Gone(t)
          BY <4>2, <4>4
        <5> QED BY <1>4, <2>1, <2>3, <4>1, <4>4, <5>1, StockMoves
      <4> QED BY <4>3, <4>4
    <3>3. CASE t # Home[o]
      <4>1. rec[t][o] = "PAID"
        BY <1>1, <3>3
      <4>2. o \notin Returned(t) /\ Returned(t)' = Returned(t) \cup {o}
        BY <1>4, <3>3, <4>1 DEF Returned
      <4>3. Gone(t)' = Gone(t)
        BY <1>4, <3>1, <3>3 DEF Gone
      <4> QED BY <1>4, <2>1, <2>3, <4>1, <4>2, <4>3, StockMoves
    <3> QED BY <3>2, <3>3
  <2>7. ASSUME NEW u \in Tills, u # t PROVE StockOK(u)'
    BY <1>1, <1>4, <1>5, <2>1, <2>7, StockStill DEF Forward
  <2> QED BY <2>5, <2>6, <2>7
<1> QED BY <1>8, <1>9 DEF Facts
-----------------------------------------------------------------------------
\* A push puts rows of an outbox in the log and marks them.
LEMMA PushFacts ==
    ASSUME TypeInv, OrdersOK, Facts, NEW t \in Tills, Push(t)
    PROVE  Facts'
<1>1. TypeInv' /\ LogKept /\ Pushed(t)
  BY PushIs
<1>2. UNCHANGED <<rec, known, bare, stock, runs, lost>>
  BY DEF Push, tables, inbound
<1>3. \A i \in DOMAIN outbox[t] :
          outbox[t][i].state = "quarantined" => outbox'[t][i].state = "quarantined"
  <2>1. PICK acked \in SUBSET Pending(t) :
            outbox' = [outbox EXCEPT ![t] =
                [i \in DOMAIN outbox[t] |->
                    IF i \in acked THEN [outbox[t][i] EXCEPT !.state = "pushed"]
                    ELSE IF i \in Pending(t) THEN Refused(outbox[t][i]) ELSE outbox[t][i]]]
    BY DEF Push
  <2>2. ASSUME NEW i \in DOMAIN outbox[t], outbox[t][i].state = "quarantined"
        PROVE  outbox'[t][i].state = "quarantined"
    <3>1. i \notin Pending(t)
      BY <2>2 DEF Pending
    <3> QED BY <2>1, <2>2, <3>1 DEF TypeInv, WiresOK
  <2> QED BY <2>2
<1>4. ASSUME NEW u \in Tills, NEW i \in DOMAIN outbox[u]
      PROVE  /\ i \in DOMAIN outbox'[u] /\ outbox'[u][i].event = outbox[u][i].event
             /\ outbox[u][i].state = "quarantined" => outbox'[u][i].state = "quarantined"
  BY <1>1, <1>3 DEF Pushed
<1>5. \A u \in Tills : DOMAIN outbox'[u] \ DOMAIN outbox[u] = {}
  BY <1>1 DEF Pushed
<1>6. \A k \in DOMAIN log' \ DOMAIN log : \E i \in DOMAIN outbox[t] :
          log'[k].event = outbox[t][i].event
  BY <1>1 DEF Pushed
<1> QED BY <1>1, <1>2, <1>4, <1>5, <1>6, RecordsKept

\* Where the outboxes, the log and the tables are left alone.
LEMMA QuietFacts ==
    ASSUME TypeInv, TypeInv', OrdersOK, Facts,
           UNCHANGED <<rec, known, bare, stock, runs, log, outbox, lost>>
    PROVE  Facts'
<1>1. LogKept
  BY SameLog
<1> QED BY <1>1, RecordsKept

\* Ledger rows and missing orders are emitted.
LEMMA EmitFacts ==
    ASSUME TypeInv, TypeInv', OrdersOK, Facts, UNCHANGED <<rec, known, bare, stock, runs, log>>,
           NEW t \in Tills, NEW evs, NEW all, Grown(t, evs, all), lost' = 0 => lost = 0,
           \A e \in DOMAIN evs :
               \/ evs[e].kind = "ledger"
               \/ \E o \in MissingOrders(t) : evs[e] = OrderEvent(o, rec[t][o])
    PROVE  Facts'
<1>1. LogKept
  BY SameLog
<1>2. \A u \in Tills : \A i \in DOMAIN outbox[u] :
          i \in DOMAIN outbox'[u] /\ outbox'[u][i] = outbox[u][i]
  BY NewRows DEF TypeInv
<1>3. ASSUME NEW u \in Tills, NEW i \in DOMAIN outbox'[u] \ DOMAIN outbox[u]
      PROVE  \/ outbox'[u][i].event.kind = "ledger"
             \/ \E o \in MissingOrders(u) : outbox'[u][i].event = OrderEvent(o, rec[u][o])
  <2>1. u = t /\ \E e \in DOMAIN evs : outbox'[u][i].event = evs[e]
    BY NewRows DEF TypeInv
  <2> QED BY <2>1
<1> QED BY <1>1, <1>2, <1>3, RecordsKept

\* Ledger rows are emitted by a handler, or by one that dies.
LEMMA ClerkFacts ==
    ASSUME TypeInv, TypeInv', OrdersOK, Facts, NEW t \in Tills, EmitLedger(t) \/ DieEmitting(t)
    PROVE  Facts'
<1>0. clerk[t] \in SUBSET Movements
  BY DEF TypeInv, WiresOK
<1>1. CASE EmitLedger(t)
  <2>1. PICK evs \in Seq(Events) : evs = LedgerEvents(clerk[t]) /\ Emit(t, evs)
    BY <1>0, <1>1, LedgerEventsIs DEF EmitLedger
  <2>2. Shop /\ UNCHANGED <<rec, known, bare, stock>>
    BY <1>1 DEF EmitLedger
  <2>3. UNCHANGED <<runs, log>>
    BY <2>2 DEF Shop, inbound
  <2>4. PICK all \in BOOLEAN : Grown(t, evs, all) /\ (lost' = 0 => lost = 0 /\ all)
    BY <2>1, <2>2, ShopIs
  <2>5. \A e \in DOMAIN evs : evs[e].kind = "ledger"
    BY <1>0, <2>1, LedgerEventsIs, EventIs
  <2> QED BY <2>2, <2>3, <2>4, <2>5, EmitFacts
<1>2. CASE DieEmitting(t)
  <2>1. PICK S \in SUBSET clerk[t] : Send(t, LedgerEvents(S), DOMAIN LedgerEvents(S))
    BY <1>2 DEF DieEmitting
  <2>2. PICK evs \in Seq(Events) : evs = LedgerEvents(S)
    BY <1>0, <2>1, LedgerEventsIs
  <2>3. PICK all \in BOOLEAN : all = TRUE
    OBVIOUS
  <2>4. Grown(t, evs, all)
    BY <2>1, <2>2, <2>3, SendGrows DEF TypeInv
  <2>5. UNCHANGED <<rec, known, bare, stock, runs, log, lost>>
    BY <1>2 DEF DieEmitting, Die, tables
  <2>6. \A e \in DOMAIN evs : evs[e].kind = "ledger"
    BY <1>0, <2>2, LedgerEventsIs, EventIs
  <2> QED BY <2>4, <2>5, <2>6, EmitFacts
<1> QED BY <1>1, <1>2

\* The backfill emits what the outbox misses.
LEMMA FillFacts ==
    ASSUME TypeInv, TypeInv', OrdersOK, Facts, NEW t \in Tills, Fill(t)
    PROVE  Facts'
<1>1. PICK evs \in Seq(Events) :
        /\ Emit(t, evs)
        /\ \A e \in DOMAIN evs : \/ \E o \in MissingOrders(t) : evs[e] = OrderEvent(o, rec[t][o])
                                 \/ \E m \in unsynced[t] : evs[e] = LedgerEvent(m)
  BY FillEmits
<1>2. UNCHANGED <<rec, known, bare, stock, runs, log>>
  BY DEF Fill, inbound
<1>3. PICK all \in BOOLEAN : /\ Grown(t, evs, all)
                             /\ lost' = lost + (IF all THEN 0 ELSE 1)
  BY <1>1, EmitGrows DEF TypeInv
<1>4. lost' = 0 => lost = 0
  BY <1>3 DEF TypeInv, FaultsOK
<1>5. \A e \in DOMAIN evs :
          \/ evs[e].kind = "ledger"
          \/ \E o \in MissingOrders(t) : evs[e] = OrderEvent(o, rec[t][o])
  BY <1>1 DEF LedgerEvent
<1> QED BY <1>2, <1>3, <1>4, <1>5, EmitFacts
-----------------------------------------------------------------------------
\* The effect of an event, table by table.
LEMMA EffectAt ==
    ASSUME TablesOK, NEW t \in Tills, NEW ev \in Events, Effect(t, ev)
    PROVE  /\ \A u \in Tills \ {t} : /\ rec'[u] = rec[u] /\ stock'[u] = stock[u]
                                     /\ u \in known' <=> u \in known
           /\ \A u \in Tills : bare[u] \subseteq bare'[u]
           /\ \A x \in Orders : ev.kind \notin {"order", "void"} \/ x # ev.order =>
                  rec'[t][x] = rec[t][x]
           /\ ev.kind = "product" => known' = known \cup {t} /\ stock'[t] = OnHand
           /\ ev.kind # "product" => known' = known
           /\ ev.kind = "stock" => stock'[t] = IF stock[t] >= 1 THEN stock[t] - 1 ELSE 0
           /\ ev.kind \in {"order", "ledger"} => stock'[t] = stock[t]
           /\ ev.kind = "order" =>
                  /\ rec'[t][ev.order] =
                         IF rec[t][ev.order] = "absent" /\ ev.status # "VOIDED" THEN ev.status
                         ELSE IF rec[t][ev.order] = "PENDING" /\ ev.status = "PAID" THEN "PAID"
                         ELSE rec[t][ev.order]
                  /\ rec[t][ev.order] = "absent" /\ ev.status # "VOIDED" /\ t \notin known =>
                         bare'[t] # {}
           /\ ev.kind = "void" =>
                  IF rec[t][ev.order] \in {"PENDING", "PAID"}
                  THEN rec'[t][ev.order] = "VOIDED" /\ stock'[t] = stock[t] + Unit(t, ev.order)
                  ELSE rec'[t][ev.order] = rec[t][ev.order] /\ stock'[t] = stock[t]
<1>1. CASE ev.kind = "product" /\ ApplyProduct(t)
  BY <1>1 DEF ApplyProduct, TablesOK
<1>2. CASE ev.kind = "stock" /\ ApplyStock(t, ev)
  <2>1. ev.qty = -1
    BY <1>2, KindOf
  <2>2. stock[t] \in Nat /\ stock[t] + ev.qty \in Int
    BY <2>1 DEF TablesOK
  <2>3. Max({0, stock[t] + ev.qty}) = IF stock[t] >= 1 THEN stock[t] - 1 ELSE 0
    BY <2>1, <2>2, MaxOfZero
  <2>4. stock'[t] = IF stock[t] >= 1 THEN stock[t] - 1 ELSE 0
    BY <1>2, <2>3 DEF ApplyStock, TablesOK
  <2>5. /\ \A u \in Tills \ {t} : stock'[u] = stock[u]
        /\ UNCHANGED <<rec, bare, known>>
    BY <1>2 DEF ApplyStock, TablesOK
  <2> QED BY <1>2, <2>4, <2>5
<1>3. CASE ev.kind = "order" /\ ApplyOrder(t, ev)
  <2>1. PICK o \in Orders, s \in {"PENDING", "PAID", "VOIDED"} : ev.order = o /\ ev.status = s
    BY <1>3, KindOf
  <2>2. rec' = [rec EXCEPT ![t][o] =
                 CASE rec[t][o] = "absent" /\ s # "VOIDED" -> s
                   [] rec[t][o] = "PENDING" /\ s = "PAID" -> "PAID"
                   [] OTHER -> rec[t][o]]
    BY <1>3, <2>1 DEF ApplyOrder
  <2>3. /\ \A u \in Tills \ {t} : rec'[u] = rec[u]
        /\ \A x \in Orders : x # o => rec'[t][x] = rec[t][x]
        /\ rec'[t][o] = IF rec[t][o] = "absent" /\ s # "VOIDED" THEN s
                        ELSE IF rec[t][o] = "PENDING" /\ s = "PAID" THEN "PAID"
                        ELSE rec[t][o]
    BY <2>2 DEF TablesOK, Status
  <2>4. bare' = IF rec[t][o] = "absent" /\ s # "VOIDED" /\ t \notin known
                THEN [bare EXCEPT ![t] = @ \cup {o}] ELSE bare
    BY <1>3, <2>1 DEF ApplyOrder
  <2>5. /\ \A u \in Tills : bare[u] \subseteq bare'[u]
        /\ rec[t][o] = "absent" /\ s # "VOIDED" /\ t \notin known => bare'[t] # {}
    BY <2>4 DEF TablesOK
  <2>6. UNCHANGED <<known, stock>>
    BY <1>3 DEF ApplyOrder
  <2> QED BY <1>3, <2>1, <2>3, <2>5, <2>6
<1>4. CASE ev.kind = "void" /\ ApplyVoid(t, ev)
  <2>1. PICK o \in Orders : ev.order = o
    BY <1>4, KindOf
  <2>2. CASE rec[t][o] \in {"PENDING", "PAID"}
    <3>1. /\ rec' = [rec EXCEPT ![t][o] = "VOIDED"]
          /\ stock' = [stock EXCEPT ![t] = @ + Unit(t, o)]
          /\ UNCHANGED <<bare, known>>
      BY <1>4, <2>1, <2>2 DEF ApplyVoid, Set, Move
    <3>2. /\ rec'[t][o] = "VOIDED" /\ stock'[t] = stock[t] + Unit(t, o)
          /\ \A x \in Orders : x # o => rec'[t][x] = rec[t][x]
          /\ \A u \in Tills \ {t} : rec'[u] = rec[u] /\ stock'[u] = stock[u]
      BY <3>1 DEF TablesOK
    <3> QED BY <1>4, <2>1, <2>2, <3>1, <3>2
  <2>3. CASE rec[t][o] \notin {"PENDING", "PAID"}
    <3>1. UNCHANGED <<rec, bare, known, stock>>
      BY <1>4, <2>1, <2>3 DEF ApplyVoid, tables
    <3> QED BY <1>4, <2>1, <2>3, <3>1
  <2> QED BY <2>2, <2>3
<1>5. CASE ev.kind = "ledger" /\ ApplyLedger(t, ev)
  <2>1. UNCHANGED <<rec, bare, known, stock>>
    BY <1>5 DEF ApplyLedger
  <2> QED BY <1>5, <2>1
<1> QED BY <1>1, <1>2, <1>3, <1>4, <1>5 DEF Effect

\* The log has a delta, and the product, once.
LEMMA OnlyOnce ==
    ASSUME TypeInv, LogOK, NewsOK, NEW j \in DOMAIN log, NEW k \in DOMAIN log,
           log[j].event = log[k].event, log[j].event.kind \in Once
    PROVE  j = k
<1>1. PICK ev : ev = log[j].event /\ ev = log[k].event /\ ev.kind \in Once
  OBVIOUS
<1>2. PICK u \in Tills, v \in Tills : u = log[j].by /\ v = log[k].by
  BY EntryIs DEF TypeInv
<1>3. /\ log[j].uuid \in DOMAIN outbox[u] /\ outbox[u][log[j].uuid].event = ev
      /\ log[k].uuid \in DOMAIN outbox[v] /\ outbox[v][log[k].uuid].event = ev
  BY <1>1, <1>2 DEF LogOK
<1>4. RowOK(u, ev) /\ RowOK(v, ev)
  BY <1>3 DEF NewsOK
<1>5. u = v
  BY <1>1, <1>4 DEF RowOK, Once
<1>6. log[j].uuid = log[k].uuid
  BY <1>1, <1>3, <1>5 DEF NewsOK
<1> QED BY <1>2, <1>5, <1>6 DEF LogOK, LogIsTrue
-----------------------------------------------------------------------------
\* An event runs on a till.
Hears(t, i) ==
    /\ Run(t, i) /\ ~Refuses(t, log[i].event) /\ i \in Foreign(t)
    /\ UNCHANGED <<log, outbox, lost>>

\* Such an event is a row of another till, true there; on a till that stays
\* undisturbed it is new.
LEMMA HearsIs ==
    ASSUME TypeInv, TypeInv', LogOK, Facts, NEW t \in Tills, NEW i, Hears(t, i)
    PROVE  /\ log[i].event \in Events /\ Effect(t, log[i].event) /\ log[i].by \in Tills \ {t}
           /\ i \in DOMAIN log
           /\ \E j \in DOMAIN outbox[log[i].by] : outbox[log[i].by][j].event = log[i].event
           /\ RowOK(log[i].by, log[i].event)
           /\ \A u \in Tills \ {t} : runs'[u] = runs[u]
           /\ DOMAIN runs'[t] = DOMAIN runs[t] \cup {i}
           /\ Forward
           /\ Undisturbed' => Undisturbed /\ i \notin DOMAIN runs[t]
<1>1. /\ i \in Nat /\ i \in DOMAIN log /\ log[i].event \in Events
      /\ log[i].by \in Tills /\ log[i].by # t /\ Effect(t, log[i].event)
  BY ForeignIs, EntryIs DEF Hears, Run, TypeInv
<1>2. PICK ev \in Events : ev = log[i].event
  BY <1>1
<1>3. /\ log[i].uuid \in DOMAIN outbox[log[i].by]
      /\ outbox[log[i].by][log[i].uuid].event = ev
  BY <1>1, <1>2 DEF LogOK
<1>4. RowOK(log[i].by, ev)
  BY <1>1, <1>3 DEF Facts, NewsOK
<1>5. /\ \A u \in Tills \ {t} : runs'[u] = runs[u]
      /\ DOMAIN runs'[t] = DOMAIN runs[t] \cup {i}
      /\ Ran(t, i) \in Nat /\ runs'[t][i] = Ran(t, i) + 1
  BY <1>1, CountRunIs DEF Hears, Run, TypeInv
<1>6. Forward
  <2>1. LogKept
    BY SameLog DEF Hears
  <2>2. RecGrows /\ known \subseteq known'
    BY <1>1, EffectIs DEF TypeInv
  <2>3. ASSUME NEW u \in Tills, NEW o \in Orders, rec[u][o] \in Closed
        PROVE  rec'[u][o] \in Closed
    <3>1. \A x \in Tills \ {t} : rec'[x] = rec[x]
      BY <1>1, EffectAt DEF TypeInv
    <3>2. CASE u # t \/ ev.kind \notin {"order", "void"} \/ o # ev.order
      <4>1. rec'[u][o] = rec[u][o]
        BY <1>1, <1>2, <3>1, <3>2, EffectAt DEF TypeInv
      <4> QED BY <2>3, <4>1
    <3>3. CASE u = t /\ ev.kind = "order" /\ o = ev.order
      <4>1. rec'[t][o] = rec[t][o] \/ rec'[t][o] = "PAID"
        BY <1>1, <1>2, <2>3, <3>3, EffectAt DEF TypeInv, Closed
      <4> QED BY <2>3, <3>3, <4>1 DEF Closed
    <3>4. CASE u = t /\ ev.kind = "void" /\ o = ev.order
      <4>1. rec'[t][o] = rec[t][o] \/ rec'[t][o] = "VOIDED"
        BY <1>1, <1>2, <3>4, EffectAt DEF TypeInv
      <4> QED BY <2>3, <3>4, <4>1 DEF Closed
    <3> QED BY <3>2, <3>3, <3>4
  <2>4. \A u \in Tills : DOMAIN runs[u] \subseteq DOMAIN runs'[u]
    BY <1>5
  <2> QED BY <2>1, <2>2, <2>3, <2>4 DEF Forward, RecGrows, Hears
<1>7. ASSUME Undisturbed' PROVE Undisturbed /\ i \notin DOMAIN runs[t]
  <2>1. \A u \in Tills : bare[u] \subseteq bare'[u]
    BY <1>1, EffectAt DEF TypeInv
  <2>2. ASSUME NEW u \in Tills, NEW j \in DOMAIN runs[u] PROVE Ran(u, j) <= Ran(u, j)'
    <3>1. Ran(u, j) \in Nat
      BY NumbersAre DEF TypeInv
    <3>2. CASE u = t
      <4>1. Ran(t, j)' = Ran(t, j) + OneIf(j = i)
        BY RunIs DEF Hears
      <4> QED BY <3>1, <3>2, <4>1 DEF OneIf
    <3>3. CASE u # t
      <4>1. Ran(u, j)' = Ran(u, j)
        BY <1>5, <3>3 DEF Ran
      <4> QED BY <3>1, <4>1
    <3> QED BY <3>2, <3>3
  <2>3. Undisturbed
    BY <1>6, <1>7, <2>1, <2>2, UndisturbedBefore DEF Hears
  <2>4. ASSUME i \in DOMAIN runs[t] PROVE FALSE
    <3>1. runs'[t][i] = 1 /\ runs[t][i] = 1
      BY <1>5, <1>7, <2>3, <2>4 DEF Undisturbed
    <3>2. Ran(t, i) = 1
      BY <2>4, <3>1 DEF Ran
    <3> QED BY <1>5, <3>1, <3>2
  <2> QED BY <2>3, <2>4
<1> QED BY <1>1, <1>2, <1>3, <1>4, <1>5, <1>6, <1>7

\* What runs is true.
LEMMA RunNews ==
    ASSUME TypeInv, TypeInv', LogOK, OrdersOK, Facts, NEW t \in Tills, NEW i, Hears(t, i)
    PROVE  NewsOK'
<1>1. /\ log[i].event \in Events /\ Effect(t, log[i].event)
      /\ RowOK(log[i].by, log[i].event) /\ Forward /\ i \in DOMAIN log
      /\ \A u \in Tills \ {t} : runs'[u] = runs[u]
      /\ DOMAIN runs'[t] = DOMAIN runs[t] \cup {i}
  BY HearsIs
<1>2. PICK ev \in Events : ev = log[i].event
  BY <1>1
<1>3. NewsOK /\ log' = log /\ outbox' = outbox
  BY DEF Facts, Hears
<1>4. ASSUME NEW u \in Tills, NEW o \in Orders, rec'[u][o] # rec[u][o]
      PROVE  /\ rec'[u][o] = "PAID" => AtHome(o)' \in Closed
             /\ u # Home[o] /\ rec'[u][o] # "absent" => \E k \in DOMAIN log : Opens(log[k].event, o)
  <2>1. u = t /\ ev.kind \in {"order", "void"} /\ o = ev.order
    BY <1>1, <1>2, <1>4, EffectAt DEF TypeInv
  <2>2. CASE ev.kind = "void"
    <3>1. rec[t][o] # "absent" /\ rec'[t][o] = "VOIDED"
      BY <1>1, <1>2, <1>4, <2>1, <2>2, EffectAt DEF TypeInv
    <3> QED BY <1>3, <2>1, <3>1 DEF NewsOK
  <2>3. CASE ev.kind = "order"
    <3>1. \/ rec[t][o] = "absent" /\ ev.status # "VOIDED" /\ rec'[t][o] = ev.status
          \/ rec[t][o] = "PENDING" /\ ev.status = "PAID" /\ rec'[t][o] = "PAID"
      BY <1>1, <1>2, <1>4, <2>1, <2>3, EffectAt DEF TypeInv
    <3>2. rec'[t][o] = "PAID" => AtHome(o) \in Closed
      BY <1>1, <1>2, <2>1, <2>3, <3>1 DEF RowOK
    <3>3. AtHome(o) \in Closed => AtHome(o)' \in Closed
      BY <1>1, TeamSyncAssumption DEF AtHome, Forward
    <3>4. rec[t][o] = "absent" => Opens(log[i].event, o)
      BY <1>2, <2>1, <2>3, <3>1 DEF Opens
    <3>5. rec[t][o] # "absent" /\ t # Home[o] => \E k \in DOMAIN log : Opens(log[k].event, o)
      BY <1>3 DEF NewsOK
    <3> QED BY <1>1, <2>1, <3>2, <3>3, <3>4, <3>5
  <2> QED BY <2>1, <2>2, <2>3
<1>5. RunOK(t, ev)'
  <2>1. ASSUME ev.kind = "order", ev.status = "PAID" PROVE rec'[t][ev.order] \in Closed
    <3>1. ev.order \in Orders
      BY <2>1, KindOf
    <3>2. rec[t][ev.order] \in Status
      BY <3>1 DEF TypeInv, TablesOK
    <3> QED BY <1>1, <1>2, <2>1, <3>2, EffectAt DEF TypeInv, Closed, Status
  <2>2. ASSUME ev.kind \in Once PROVE t \in known'
    <3>1. CASE ev.kind = "product"
      BY <1>1, <1>2, <3>1, EffectAt DEF TypeInv
    <3>2. CASE ev.kind = "stock"
      BY <1>1, <1>2, <3>2 DEF Hears, Refuses, Forward
    <3> QED BY <2>2, <3>1, <3>2 DEF Once
  <2> QED BY <2>1, <2>2 DEF RunOK
<1>6. ASSUME NEW u \in known' \ known
      PROVE  Catalog \in known' /\ (u = Catalog \/ Heard(u, Product)')
  <2>1. u = t /\ ev.kind = "product"
    BY <1>1, <1>2, <1>6, EffectAt DEF TypeInv
  <2>2. ev = Product /\ Catalog \in known
    BY <1>1, <1>2, <2>1, DeltaOf DEF RowOK
  <2>3. Heard(t, Product)'
    BY <1>1, <1>2, <1>3, <2>2 DEF Heard
  <2> QED BY <1>1, <2>1, <2>2, <2>3 DEF Forward
<1>7. \A u \in Tills : \A j \in DOMAIN runs'[u] \ DOMAIN runs[u] : u = t /\ j = i
  BY <1>1
<1>8. \A u \in Tills : \A j \in DOMAIN runs'[u] \ DOMAIN runs[u] : RunOK(u, log[j].event)'
  BY <1>2, <1>3, <1>5, <1>7
<1> QED BY <1>1, <1>3, <1>4, <1>6, <1>8, NewsStep

\* At home an order event changes nothing, and a void finds the order paid.
LEMMA HomeKnows ==
    ASSUME TypeInv, TypeInv', LogOK, OrdersOK, Facts, NEW t \in Tills, NEW i, Hears(t, i),
           NEW o \in Orders, t = Home[o], log[i].event.order = o
    PROVE  /\ log[i].event.kind = "order" => rec'[t][o] = rec[t][o]
           /\ log[i].event.kind = "void" => rec[t][o] \in Closed
<1>1. /\ log[i].event \in Events /\ Effect(t, log[i].event)
      /\ RowOK(log[i].by, log[i].event) /\ log[i].by \in Tills
      /\ \E j \in DOMAIN outbox[log[i].by] : outbox[log[i].by][j].event = log[i].event
  BY HearsIs
<1>2. PICK ev \in Events : ev = log[i].event
  BY <1>1
<1>3. PICK u \in Tills : u = log[i].by
  BY <1>1
<1>4. CASE ev.kind = "order"
  <2>1. rec[u][o] # "absent"
    BY <1>1, <1>2, <1>3, <1>4 DEF OrdersOK
  <2>2. rec[t][o] # "absent"
    BY <2>1 DEF OrdersOK
  <2>3. ev.status = "PAID" => rec[t][o] # "PENDING"
    BY <1>1, <1>2, <1>4 DEF RowOK, AtHome, Closed
  <2> QED BY <1>1, <1>2, <1>4, <2>2, <2>3, EffectAt DEF TypeInv
<1>5. CASE ev.kind = "void"
  BY <1>1, <1>2, <1>5 DEF RowOK, AtHome
<1> QED BY <1>2, <1>4, <1>5

\* A void that follows an event of its order finds the order.
LEMMA VoidFinds ==
    ASSUME TypeInv, TypeInv', LogOK, OrdersOK, PapersOK, NEW t \in Tills, NEW i, Hears(t, i),
           DOMAIN runs'[t] = DOMAIN runs[t] \cup {i}, GapsOK(t)', BatchesOK(t)',
           NEW o \in Orders, Follows(i, o)
    PROVE  rec[t][o] # "absent"
<1>1. PICK j \in DOMAIN log : j < i /\ Opens(log[j].event, o)
  <2>1. PICK j \in DOMAIN log : j < i /\ log[j].event.kind = "order" /\ log[j].event.order = o
    BY DEF Follows
  <2>2. PICK ev \in Events : ev = log[j].event /\ ev.kind = "order" /\ ev.order = o
    BY <2>1, EntryIs DEF TypeInv
  <2>3. CASE ev.status # "VOIDED"
    BY <2>1, <2>2, <2>3 DEF Opens
  <2>4. CASE ev.status = "VOIDED"
    <3>1. ev = OrderEvent(o, "VOIDED")
      BY <2>2, <2>4, DeltaOf
    <3>2. PICK k \in DOMAIN log : k < j /\ Opens(log[k].event, o)
      BY <2>2, <3>1 DEF PapersOK, Opened
    <3>3. k < i
      <4>1. k \in Nat /\ j \in Nat /\ i \in Nat
        BY EntryIs, ForeignIs DEF TypeInv, Hears
      <4> QED BY <2>1, <3>2, <4>1
    <3> QED BY <3>2, <3>3
  <2> QED BY <2>3, <2>4
<1>2. PICK ev \in Events : ev = log[j].event /\ ev.kind = "order" /\ ev.order = o /\ ev.status # "VOIDED"
  BY <1>1, EntryIs DEF TypeInv, Opens
<1>3. CASE log[j].by = t
  <2>1. log[j].uuid \in DOMAIN outbox[t] /\ outbox[t][log[j].uuid].event = ev
    BY <1>2, <1>3 DEF LogOK
  <2> QED BY <1>2, <2>1 DEF OrdersOK
<1>4. CASE log[j].by # t
  <2>1. log' = log /\ j \in Foreign(t)'
    BY <1>4 DEF Hears, Foreign
  <2>2. j \in Reached(t)'
    BY <1>1, <2>1 DEF GapsOK, Reached
  <2>3. j \notin dead'[t]
    BY <1>2, <2>1 DEF BatchesOK
  <2>4. j \in DOMAIN runs[t]
    <3>1. j # i
      BY <1>1, EntryIs DEF TypeInv
    <3> QED BY <2>2, <2>3, <3>1 DEF Reached
  <2> QED BY <1>2, <2>4 DEF OrdersOK
<1> QED BY <1>3, <1>4

\* What runs is in the papers.
LEMMA RunPapers ==
    ASSUME TypeInv, TypeInv', LogOK, OrdersOK, Facts, NEW t \in Tills, NEW i, Hears(t, i),
           GapsOK(t)', BatchesOK(t)', Undisturbed'
    PROVE  PapersOK'
<1>1. /\ log[i].event \in Events /\ Effect(t, log[i].event) /\ log[i].by \in Tills
      /\ \E j \in DOMAIN outbox[log[i].by] : outbox[log[i].by][j].event = log[i].event
      /\ Forward
      /\ \A u \in Tills \ {t} : runs'[u] = runs[u]
      /\ DOMAIN runs'[t] = DOMAIN runs[t] \cup {i}
      /\ Undisturbed
  BY HearsIs
<1>2. PICK ev \in Events : ev = log[i].event
  BY <1>1
<1>3. PapersOK /\ log' = log /\ outbox' = outbox
  BY <1>1 DEF Facts, Hears
<1>4. ASSUME NEW u \in Tills, NEW o \in Orders, rec'[u][o] # rec[u][o]
      PROVE  /\ u = Home[o] => rec[u][o] # "absent" /\ rec'[u][o] # "PAID"
             /\ rec'[u][o] = "VOIDED" => \E v \in Tills : Sent(v, VoidEvent(o))
             /\ u \in known'
  <2>1. u = t /\ ev.kind \in {"order", "void"} /\ o = ev.order
    BY <1>1, <1>2, <1>4, EffectAt DEF TypeInv
  <2>2. CASE ev.kind = "void"
    <3>1. rec[t][o] \in {"PENDING", "PAID"} /\ rec'[t][o] = "VOIDED"
      BY <1>1, <1>2, <1>4, <2>1, <2>2, EffectAt DEF TypeInv
    <3>2. t \in known'
      BY <1>1, <1>3, <3>1 DEF PapersOK, HeldOK, Forward
    <3>3. ev = VoidEvent(o)
      BY <2>1, <2>2, KindOf
    <3>4. \E v \in Tills : Sent(v, VoidEvent(o))
      BY <1>1, <1>2, <3>3 DEF Sent
    <3> QED BY <2>1, <3>1, <3>2, <3>4
  <2>3. CASE ev.kind = "order"
    <3>1. \/ rec[t][o] = "absent" /\ ev.status # "VOIDED" /\ rec'[t][o] = ev.status
          \/ rec[t][o] = "PENDING" /\ ev.status = "PAID" /\ rec'[t][o] = "PAID"
      BY <1>1, <1>2, <1>4, <2>1, <2>3, EffectAt DEF TypeInv
    <3>2. t # Home[o]
      BY <1>2, <1>4, <2>1, <2>3, HomeKnows
    <3>3. t \in known
      <4>1. CASE rec[t][o] = "absent"
        <5>1. t \notin known => bare'[t] # {}
          BY <1>1, <1>2, <2>1, <2>3, <3>1, <4>1, EffectAt DEF TypeInv
        <5> QED BY <5>1 DEF Undisturbed
      <4>2. CASE rec[t][o] # "absent"
        BY <1>3, <4>2 DEF PapersOK, HeldOK
      <4> QED BY <4>1, <4>2
    <3> QED BY <1>1, <2>1, <3>1, <3>2, <3>3 DEF Forward
  <2> QED BY <2>1, <2>2, <2>3
<1>5. ASSUME NEW o \in Orders, ev = VoidEvent(o), Follows(i, o)
      PROVE  rec'[t][o] = "VOIDED"
  <2>1. rec[t][o] # "absent"
    BY <1>1, <1>3, <1>5, VoidFinds
  <2>2. ev.kind = "void" /\ ev.order = o
    BY <1>5 DEF VoidEvent
  <2>3. rec[t][o] \in Status
    BY DEF TypeInv, TablesOK
  <2> QED BY <1>1, <1>2, <2>1, <2>2, <2>3, EffectAt DEF TypeInv, Status
<1>6. ASSUME NEW u \in Tills, NEW k \in DOMAIN runs'[u] \ DOMAIN runs[u], NEW o \in Orders,
             log'[k].event = VoidEvent(o), Follows(k, o)'
      PROVE  rec'[u][o] = "VOIDED"
  <2>1. u = t /\ k = i
    BY <1>1
  <2>2. Follows(k, o)
    BY <1>3, <1>6 DEF Follows
  <2> QED BY <1>2, <1>3, <1>5, <1>6, <2>1, <2>2
<1>7. \A v, e : Sent(v, e)' <=> Sent(v, e)
  BY <1>3 DEF Sent
<1>8. \A u \in Tills, o \in Orders : rec'[u][o] # rec[u][o] =>
               /\ u = Home[o] /\ rec[u][o] = "absent" =>
                   /\ \E k \in DOMAIN outbox'[u] : Opens(outbox'[u][k].event, o)
                   /\ Sent(u, Delta(o, -1))'
               /\ u = Home[o] /\ rec'[u][o] = "PAID" => Sent(u, OrderEvent(o, "PAID"))'
               /\ rec'[u][o] = "VOIDED" => \E v \in Tills : Sent(v, VoidEvent(o))'
               /\ u \in known'
  BY <1>4, <1>7
<1> QED BY <1>1, <1>3, <1>6, <1>7, <1>8, PapersStep

\* What runs moves the shelf once.
LEMMA RunStock ==
    ASSUME TypeInv, TypeInv', LogOK, OrdersOK, Facts, NEW t \in Tills, NEW i, Hears(t, i), Undisturbed'
    PROVE  \A u \in Tills : StockOK(u)'
<1>1. /\ log[i].event \in Events /\ Effect(t, log[i].event) /\ i \in DOMAIN log
      /\ log[i].by \in Tills \ {t} /\ RowOK(log[i].by, log[i].event)
      /\ Forward
      /\ \A u \in Tills \ {t} : runs'[u] = runs[u]
      /\ DOMAIN runs'[t] = DOMAIN runs[t] \cup {i}
      /\ Undisturbed /\ i \notin DOMAIN runs[t]
  BY HearsIs
<1>2. PICK ev \in Events : ev = log[i].event
  BY <1>1
<1>3. PapersOK /\ NewsOK /\ log' = log /\ \A u \in Tills : StockOK(u)
  BY <1>1 DEF Facts, Hears
<1>4. ASSUME NEW u \in Tills, u # t PROVE StockOK(u)'
  <2>1. rec'[u] = rec[u] /\ stock'[u] = stock[u] /\ (u \in known' => u \in known) /\ runs'[u] = runs[u]
    BY <1>1, <1>4, EffectAt DEF TypeInv
  <2> QED BY <1>1, <1>3, <2>1, StockStill DEF Forward
<1>5. ASSUME NEW e \in Events
      PROVE  Heard(t, e)' <=> Heard(t, e) \/ e = ev
  BY <1>1, <1>2, <1>3 DEF Heard
<1>6. ASSUME ev.kind \in Once PROVE ~Heard(t, ev)
  <2>1. SUFFICES ASSUME NEW j \in DOMAIN runs[t], log[j].event = ev PROVE FALSE
    BY DEF Heard
  <2>2. j \in DOMAIN log
    BY ForeignIs DEF TypeInv, InboundOK
  <2>3. j = i
    BY <1>1, <1>2, <1>3, <1>6, <2>1, <2>2, OnlyOnce
  <2> QED BY <1>1, <2>3
<1>7. stock[t] \in Nat
  BY DEF TypeInv, TablesOK
<1>8. CASE ev.kind = "product"
  <2>1. ev = Product /\ log[i].by = Catalog
    BY <1>1, <1>2, <1>8, DeltaOf DEF RowOK
  <2>2. t \notin known
    BY <1>1, <1>3, <1>6, <1>8, <2>1 DEF NewsOK, Once
  <2>3. stock'[t] = OnHand /\ \A o \in Orders : rec'[t][o] = rec[t][o]
    BY <1>1, <1>2, <1>8, EffectAt DEF TypeInv
  <2>4. \A o \in Orders : rec'[t][o] = "absent"
    BY <1>3, <2>2, <2>3 DEF PapersOK, HeldOK
  <2>5. ASSUME NEW o \in Orders PROVE ~Heard(t, Delta(o, -1))'
    <3>1. Delta(o, -1) \in Events /\ Delta(o, -1).kind = "stock"
      BY EventIs
    <3>2. SUFFICES ASSUME NEW j \in DOMAIN runs[t], log[j].event = Delta(o, -1) PROVE FALSE
      BY <1>5, <1>8, <3>1 DEF Heard
    <3>3. RunOK(t, Delta(o, -1))
      BY <1>3, <3>2 DEF NewsOK
    <3> QED BY <2>2, <3>1, <3>3 DEF RunOK, Once
  <2>6. Gone(t)' = {} /\ Returned(t)' = {}
    BY <2>4, <2>5 DEF Gone, Returned
  <2>7. StockOK(t)'
    BY <2>3, <2>6, FS_EmptySet, TeamSyncAssumption DEF StockOK
  <2> QED BY <1>4, <2>7
<1>9. CASE ev.kind = "stock"
  <2>1. PICK o \in Orders : o = ev.order /\ ev = Delta(o, -1)
    BY <1>9, DeltaOf
  <2>2. t \in known /\ t # Home[o] /\ known' = known
    BY <1>1, <1>2, <1>9, <2>1, EffectAt DEF RowOK, Hears, Refuses, TypeInv
  <2>3. \A x \in Orders : rec'[t][x] = rec[t][x]
    BY <1>1, <1>2, <1>9, EffectAt DEF TypeInv
  <2>4. o \notin Gone(t)
    BY <1>6, <1>9, <2>1, <2>2 DEF Gone, Once
  <2>5. \A x \in Orders : x # o => (Heard(t, Delta(x, -1))' <=> Heard(t, Delta(x, -1)))
    <3>1. ASSUME NEW x \in Orders, x # o PROVE Delta(x, -1) # ev /\ Delta(x, -1) \in Events
      BY <2>1, <3>1, EventIs DEF Delta
    <3> QED BY <1>5, <3>1
  <2>6. Heard(t, Delta(o, -1))'
    BY <1>5, <2>1
  <2>7. Gone(t)' = Gone(t) \cup {o} /\ Returned(t)' = Returned(t)
    BY <2>2, <2>3, <2>5, <2>6 DEF Gone, Returned
  <2>8. stock[t] >= 1
    BY <1>3, <2>2, <2>4, CountsAre
  <2>9. stock'[t] = stock[t] - 1
    BY <1>1, <1>2, <1>9, <2>8, EffectAt DEF TypeInv
  <2>10. StockOK(t)'
    BY <1>3, <2>2, <2>4, <2>7, <2>9, StockMoves
  <2> QED BY <1>4, <2>10
<1>10. ASSUME stock'[t] = stock[t], ev.kind \notin {"product", "stock"},
              \A x \in Orders : rec'[t][x] # rec[t][x] =>
                  rec'[t][x] # "VOIDED" /\ rec[t][x] # "VOIDED" /\ t # Home[x]
       PROVE  StockOK(t)'
  <2>1. known' = known
    BY <1>1, <1>2, <1>10, EffectAt DEF TypeInv
  <2>2. \A j \in DOMAIN runs'[t] : j \in DOMAIN runs[t] \/ log'[j].event.kind # "stock"
    BY <1>1, <1>2, <1>3, <1>10
  <2> QED BY <1>1, <1>3, <1>10, <2>1, <2>2, StockStill DEF Forward
<1>11. CASE ev.kind = "order"
  <2>1. ASSUME NEW x \in Orders, rec'[t][x] # rec[t][x]
        PROVE  rec'[t][x] # "VOIDED" /\ rec[t][x] # "VOIDED" /\ t # Home[x]
    <3>1. x = ev.order
      BY <1>1, <1>2, <2>1, EffectAt DEF TypeInv
    <3>2. t # Home[x]
      BY <1>2, <1>11, <2>1, <3>1, HomeKnows
    <3>3. \/ rec[t][x] = "absent" /\ ev.status # "VOIDED" /\ rec'[t][x] = ev.status
          \/ rec[t][x] = "PENDING" /\ ev.status = "PAID" /\ rec'[t][x] = "PAID"
      BY <1>1, <1>2, <1>11, <2>1, <3>1, EffectAt DEF TypeInv
    <3> QED BY <3>2, <3>3
  <2>2. stock'[t] = stock[t]
    BY <1>1, <1>2, <1>11, EffectAt DEF TypeInv
  <2> QED BY <1>4, <1>10, <1>11, <2>1, <2>2
<1>12. CASE ev.kind = "ledger"
  <2>1. stock'[t] = stock[t] /\ \A x \in Orders : rec'[t][x] = rec[t][x]
    BY <1>1, <1>2, <1>12, EffectAt DEF TypeInv
  <2> QED BY <1>4, <1>10, <1>12, <2>1
<1>13. CASE ev.kind = "void"
  <2>1. PICK o \in Orders : o = ev.order
    BY <1>13, KindOf
  <2>2. /\ \A x \in Orders : x # o => rec'[t][x] = rec[t][x]
        /\ IF rec[t][o] \in {"PENDING", "PAID"}
           THEN rec'[t][o] = "VOIDED" /\ stock'[t] = stock[t] + Unit(t, o)
           ELSE rec'[t][o] = rec[t][o] /\ stock'[t] = stock[t]
    BY <1>1, <1>2, <1>13, <2>1, EffectAt DEF TypeInv
  <2>3. CASE rec[t][o] \notin {"PENDING", "PAID"}
    <3>1. stock'[t] = stock[t] /\ \A x \in Orders : rec'[t][x] = rec[t][x]
      BY <2>2, <2>3
    <3> QED BY <1>4, <1>10, <1>13, <3>1
  <2>4. CASE rec[t][o] \in {"PENDING", "PAID"}
    <3>1. t \in known /\ Unit(t, o) = 1
      BY <1>1, <1>3, <2>4 DEF PapersOK, HeldOK, Undisturbed, Unit
    <3>2. rec'[t][o] = "VOIDED" /\ stock'[t] = stock[t] + 1
      BY <2>2, <2>4, <3>1
    <3>3. \A x \in Orders : Heard(t, Delta(x, -1))' <=> Heard(t, Delta(x, -1))
      <4>1. \A x \in Orders : Delta(x, -1) \in Events /\ Delta(x, -1) # ev
        BY <1>13, EventIs
      <4> QED BY <1>5, <4>1
    <3>4. ASSUME t = Home[o] PROVE StockOK(t)'
      <4>1. rec[t][o] = "PAID"
        BY <1>2, <1>13, <2>1, <2>4, <3>4, HomeKnows DEF Closed
      <4>2. Returned(t)' = Returned(t)
        BY <2>2, <3>4 DEF Returned
      <4>3. o \in Gone(t) /\ Gone(t)' = Gone(t) \ {o}
        BY <2>2, <3>2, <3>3, <3>4, <4>1 DEF Gone
      <4> QED BY <1>3, <3>1, <3>2, <4>2, <4>3, StockMoves
    <3>5. ASSUME t # Home[o] PROVE StockOK(t)'
      <4>1. o \notin Returned(t) /\ Returned(t)' = Returned(t) \cup {o}
        BY <2>2, <2>4, <3>2, <3>5 DEF Returned
      <4>2. Gone(t)' = Gone(t)
        BY <2>2, <3>3, <3>5 DEF Gone
      <4> QED BY <1>3, <3>1, <3>2, <4>1, <4>2, StockMoves
    <3> QED BY <1>4, <3>4, <3>5
  <2> QED BY <2>3, <2>4
<1> QED BY <1>8, <1>9, <1>11, <1>12, <1>13, KindOf

\* All of it.
LEMMA RunFacts ==
    ASSUME TypeInv, TypeInv', LogOK, OrdersOK, Facts, NEW t \in Tills, NEW i, Hears(t, i),
           GapsOK(t)', BatchesOK(t)'
    PROVE  Facts'
BY RunNews, RunPapers, RunStock DEF Facts
-----------------------------------------------------------------------------
(***************************************************************************)
(* A step of the tills leaves what they know of each other right.          *)
(***************************************************************************)
\* An event of the batch is applied, or the till dies over it.
LEMMA ApplyFacts ==
    ASSUME IInv, IInv', Facts, NEW t \in Tills, GapsOK(t)',
           Apply(t) \/ DieUnmarked(t) \/ DieUnmoved(t)
    PROVE  Facts'
<1>1. TypeInv /\ TypeInv' /\ LogOK /\ OrdersOK /\ BatchesOK(t)'
  BY DEF IInv
<1>2. /\ Busy(t, "apply") /\ Run(t, Next1(t)) /\ ~Refuses(t, log[Next1(t)].event)
      /\ UNCHANGED <<log, outbox, lost>>
  BY DEF Apply, DieUnmarked, DieUnmoved, Accepted, New, Local, Die
<1>3. Next1(t) \in Foreign(t)
  BY <1>1, <1>2, TodoIs
<1>4. PICK i : i = Next1(t)
  OBVIOUS
<1>5. Hears(t, i)
  BY <1>2, <1>3, <1>4 DEF Hears
<1> QED BY <1>1, <1>5, RunFacts

\* An event is run again, or refused again.
LEMMA RecoverFacts ==
    ASSUME IInv, IInv', Facts, NEW t \in Tills, GapsOK(t)',
           Retry(t) \/ RetryPressed(t) \/ DieRecovering(t)
    PROVE  Facts'
<1>1. TypeInv /\ TypeInv' /\ LogOK /\ OrdersOK /\ BatchesOK(t)'
  BY DEF IInv
<1>2. UNCHANGED <<log, outbox, lost>>
  BY DEF Retry, RetryPressed, DieRecovering, Local, Die, counters
<1>3. PICK i \in Foreign(t) :
        \/ Run(t, i) /\ ~Refuses(t, log[i].event)
        \/ UNCHANGED <<tables, runs>>
  <2>1. CASE Retry(t)
    <3>1. Next1(t) \in Foreign(t)
      BY <1>1, <2>1, TodoIs DEF Retry
    <3> QED BY <2>1, <3>1 DEF Retry, Recover
  <2>2. CASE RetryPressed(t)
    <3>1. button[t] \in Seq(Nat) /\ button[t] # <<>> /\ ToSet(button[t]) \subseteq Foreign(t)
      BY <1>1, <2>2 DEF RetryPressed, TypeInv, InboundOK
    <3>2. Head(button[t]) \in Foreign(t)
      BY <3>1, HeadIs
    <3> QED BY <2>2, <3>2 DEF RetryPressed, Recover
  <2>3. CASE DieRecovering(t)
    <3>1. Next1(t) \in Foreign(t)
      BY <1>1, <2>3, TodoIs DEF DieRecovering
    <3> QED BY <2>3, <3>1 DEF DieRecovering
  <2> QED BY <2>1, <2>2, <2>3
<1>4. CASE Run(t, i) /\ ~Refuses(t, log[i].event)
  <2>1. Hears(t, i)
    BY <1>2, <1>4 DEF Hears
  <2> QED BY <1>1, <2>1, RunFacts
<1>5. CASE UNCHANGED <<tables, runs>>
  BY <1>1, <1>2, <1>5, QuietFacts DEF tables
<1> QED BY <1>3, <1>4, <1>5

\* No step makes the facts untrue.
LEMMA FactsStep ==
    ASSUME IInv, IInv', Facts, \A t \in Tills : GapsOK(t)', [Next]_vars
    PROVE  Facts'
<1>0. TypeInv /\ TypeInv' /\ OrdersOK
  BY DEF IInv
<1>1. CASE AddProduct
  BY <1>0, <1>1, AddProductFacts
<1>2. CASE \E o \in Orders : Sell(o) \/ SellOnTab(o) \/ Complete(o)
  BY <1>0, <1>2, SaleFacts, CompleteFacts
<1>3. ASSUME NEW t \in Tills, Sync(t)
      PROVE  Facts'
  <2>1. CASE Push(t)
    BY <1>0, <2>1, PushFacts
  <2>2. CASE Pull(t) \/ Skip(t) \/ DeadLetter(t) \/ StartRetry(t)
    <3>1. UNCHANGED <<rec, known, bare, stock, runs, log, outbox, lost>>
      BY <2>2 DEF Pull, Skip, DeadLetter, StartRetry, tables, inbound, counters, Local
    <3> QED BY <1>0, <3>1, QuietFacts
  <2>3. CASE Apply(t)
    BY <2>3, ApplyFacts
  <2>4. CASE Retry(t)
    BY <2>4, RecoverFacts
  <2>5. CASE Fill(t)
    BY <1>0, <2>5, FillFacts
  <2> QED BY <1>3, <2>1, <2>2, <2>3, <2>4, <2>5 DEF Sync
<1>4. ASSUME NEW t \in Tills, DieEmitting(t) \/ EmitLedger(t)
      PROVE  Facts'
  BY <1>0, <1>4, ClerkFacts
<1>5. ASSUME NEW t \in Tills, DieUnmarked(t) \/ DieUnmoved(t)
      PROVE  Facts'
  BY <1>5, ApplyFacts
<1>6. ASSUME NEW t \in Tills, DieRecovering(t) \/ RetryPressed(t)
      PROVE  Facts'
  BY <1>6, RecoverFacts
<1>7. ASSUME NEW t \in Tills, Rewind(t) \/ Press(t)
      PROVE  Facts'
  <2>1. UNCHANGED <<rec, known, bare, stock, runs, log, outbox, lost>>
    BY <1>7 DEF Rewind, Press, tables, inbound
  <2> QED BY <1>0, <2>1, QuietFacts
<1>8. ASSUME NEW t \in Tills, NEW o \in Orders, Void(t, o)
      PROVE  Facts'
  BY <1>0, <1>8, VoidFacts
<1>9. CASE UNCHANGED vars
  <2>1. UNCHANGED <<rec, known, bare, stock, runs, log, outbox, lost>>
    BY <1>9 DEF vars, tables, inbound, counters
  <2> QED BY <1>0, <2>1, QuietFacts
<1>10. CASE Next
  BY <1>1, <1>2, <1>3, <1>4, <1>5, <1>6, <1>7, <1>8, <1>10 DEF Next
<1> QED BY <1>9, <1>10

\* The agreement is inductive, with the invariant.
LEMMA AgreementStep ==
    ASSUME IInv, IInv', Agreement, [Next]_vars
    PROVE  Agreement'
<1>1. \A t \in Tills : GapsOK(t)'
  BY GapsStep DEF Agreement
<1>2. Facts'
  BY <1>1, FactsStep DEF Agreement, Facts
<1> QED BY <1>1, <1>2 DEF Agreement, Facts

\* At first there is nothing to agree on.
LEMMA InitAgreement ==
    ASSUME Init, IInv
    PROVE  Agreement
<1>1. TypeInv /\ LogOK
  BY DEF IInv
<1>2. /\ \A t \in Tills : /\ \A o \in Orders : rec[t][o] = "absent"
                          /\ outbox[t] = <<>> /\ runs[t] = <<>> /\ applied[t] = {} /\ cursor[t] = 0
                          /\ cycle[t].pc = "idle" /\ DOMAIN outbox[t] = {} /\ DOMAIN runs[t] = {}
      /\ known = {} /\ DOMAIN log = {}
  BY DEF Init, Idle
<1>3. \A t \in Tills : Foreign(t) = {}
  BY <1>2 DEF Foreign
<1>4. ASSUME NEW t \in Tills PROVE GapsOK(t)
  BY <1>2, <1>3, <1>4 DEF GapsOK
<1>5. NewsOK
  BY <1>2 DEF NewsOK
<1>6. PapersOK
  BY <1>2, TeamSyncAssumption DEF PapersOK, FiledOK, HeldOK, VoidOK, AtHome, Sent
<1>7. \A t \in Tills : StockOK(t)
  BY <1>2 DEF StockOK
<1> QED BY <1>4, <1>5, <1>6, <1>7 DEF Agreement

\* The agreement holds of every run.
LEMMA StaysAgreed == Spec => []Agreement
<1>1. Init => IInv /\ Agreement
  BY InitInv, InitAgreement
<1>2. IInv /\ Agreement /\ [Next]_vars => IInv' /\ Agreement'
  BY StepInv, StutterInv, AgreementStep
<1> QED BY <1>1, <1>2, PTL DEF Spec

\* On quiet and undisturbed tills a void has reached every till.
LEMMA VoidsReach ==
    ASSUME IInv, Agreement, Quiet, Undisturbed,
           NEW u \in Tills, NEW t \in Tills, NEW o \in Orders, Sent(u, VoidEvent(o))
    PROVE  rec[t][o] = "VOIDED"
<1>0. NewsOK /\ PapersOK /\ TypeInv
  BY DEF Agreement, IInv
<1>1. VoidEvent(o).kind = "void" /\ VoidEvent(o).order = o
  BY DEF VoidEvent
<1>2. PICK i \in DOMAIN outbox[u] : outbox[u][i].event = VoidEvent(o)
  BY DEF Sent
<1>3. RowOK(u, VoidEvent(o))
  BY <1>0, <1>2 DEF NewsOK
<1>4. PICK h \in Tills : h = Home[o]
  BY TeamSyncAssumption
<1>5. CASE t = u
  BY <1>1, <1>3, <1>5 DEF RowOK
<1>6. CASE t # u
  <2>1. PICK k \in DOMAIN runs[t] : log[k].event = VoidEvent(o)
    <3>1. i \in Kept(u)
      BY <1>2 DEF Undisturbed
    <3> QED BY <1>2, <1>6, <3>1, QuietRan
  <2>2. PICK x \in DOMAIN outbox[h] : Opens(outbox[h][x].event, o)
    <3>1. AtHome(o) # "absent"
      BY <1>1, <1>3 DEF RowOK, Closed
    <3> QED BY <1>0, <1>4, <3>1 DEF PapersOK, FiledOK
  <2>3. \E j \in DOMAIN log : Opens(log[j].event, o)
    <3>1. PICK v \in Tills : v # h
      BY <1>6
    <3>2. x \in Kept(h)
      BY <2>2 DEF Undisturbed
    <3>3. PICK j \in DOMAIN runs[v] : log[j].event = outbox[h][x].event
      BY <3>1, <3>2, QuietRan
    <3>4. j \in DOMAIN log
      BY <1>0, ForeignIs DEF TypeInv, InboundOK
    <3> QED BY <2>2, <3>3, <3>4
  <2>4. Follows(k, o)
    <3> DEFINE Q == {j \in DOMAIN log : log[j].event.kind = "order" /\ log[j].event.order = o}
    <3>1. Q \in SUBSET Nat /\ Q # {}
      BY <1>0, <2>3, EntryIs DEF TypeInv, Opens
    <3>2. PICK j \in Q : \A y \in Q : j <= y
      BY <3>1, Least
    <3>3. k \in DOMAIN log /\ k \in Nat /\ j \in Nat
      BY <1>0, <3>1, ForeignIs DEF TypeInv, InboundOK
    <3>4. k # j
      BY <1>1, <2>1, <3>2
    <3>5. CASE j < k
      BY <3>2, <3>5 DEF Follows
    <3>6. CASE k < j
      <4>1. ASSUME NEW y \in 1..(j - 1), log[y].event.kind = "order"
            PROVE  log[y].event.order # o
        <5>1. y \in DOMAIN log
          <6>1. DOMAIN log = 1..Len(log) /\ Len(log) \in Nat
            BY <1>0 DEF TypeInv, WiresOK
          <6> QED BY <3>2, <6>1
        <5>2. ~(j <= y)
          BY <3>3
        <5> QED BY <3>2, <4>1, <5>1, <5>2
      <4>2. Before(k, j, o)
        BY <2>1, <3>2, <3>6, <4>1 DEF Before
      <4> QED BY <3>2, <3>3, <4>2 DEF Undisturbed
    <3> QED BY <3>3, <3>4, <3>5, <3>6
  <2> QED BY <1>0, <2>1, <2>4 DEF PapersOK, VoidOK
<1> QED BY <1>5, <1>6

\* On quiet and undisturbed tills an order is everywhere what it is at home.
LEMMA SameEverywhere ==
    ASSUME IInv, Agreement, Quiet, Undisturbed, NEW t \in Tills, NEW o \in Orders
    PROVE  rec[t][o] = AtHome(o)
<1>0. NewsOK /\ PapersOK /\ TypeInv /\ OrdersOK
  BY DEF Agreement, IInv
<1>1. PICK h \in Tills : h = Home[o]
  BY TeamSyncAssumption
<1>2. rec[t][o] \in Status /\ rec[h][o] \in Status
  BY <1>0 DEF TypeInv, TablesOK
<1>3. ASSUME rec[t][o] = "VOIDED" \/ rec[h][o] = "VOIDED"
      PROVE  rec[t][o] = "VOIDED" /\ rec[h][o] = "VOIDED"
  <2>1. PICK u \in Tills : Sent(u, VoidEvent(o))
    BY <1>0, <1>3 DEF PapersOK, HeldOK
  <2> QED BY <2>1, VoidsReach
<1>4. ASSUME rec[h][o] = "absent" PROVE rec[t][o] = "absent"
  BY <1>0, <1>1, <1>4 DEF OrdersOK
<1>5. ASSUME t # h, rec[h][o] # "absent" PROVE rec[t][o] # "absent"
  <2>1. PICK i \in DOMAIN outbox[h] : Opens(outbox[h][i].event, o)
    BY <1>0, <1>1, <1>5 DEF PapersOK, FiledOK, AtHome
  <2>2. i \in Kept(h)
    BY <2>1 DEF Undisturbed
  <2>3. PICK k \in DOMAIN runs[t] : log[k].event = outbox[h][i].event
    BY <1>5, <2>2, QuietRan
  <2> QED BY <1>0, <2>1, <2>3 DEF OrdersOK, Opens
<1>6. ASSUME t # h, rec[h][o] = "PAID" PROVE rec[t][o] \in Closed
  <2>1. PICK i \in DOMAIN outbox[h] : outbox[h][i].event = OrderEvent(o, "PAID")
    BY <1>0, <1>1, <1>6 DEF PapersOK, FiledOK, AtHome, Sent
  <2>2. i \in Kept(h)
    BY <2>1 DEF Undisturbed
  <2>3. PICK k \in DOMAIN runs[t] : log[k].event = OrderEvent(o, "PAID")
    BY <1>6, <2>1, <2>2, QuietRan
  <2>4. RunOK(t, OrderEvent(o, "PAID"))
    BY <1>0, <2>3 DEF NewsOK
  <2> QED BY <2>4, EventIs DEF RunOK
<1>7. ASSUME rec[t][o] = "PAID" PROVE rec[h][o] \in Closed
  BY <1>0, <1>1, <1>7 DEF NewsOK, AtHome
<1>8. rec[t][o] = rec[h][o]
  BY <1>2, <1>3, <1>4, <1>5, <1>6, <1>7 DEF Status, Closed
<1> QED BY <1>1, <1>8 DEF AtHome

\* On quiet and undisturbed tills where no order waits, a shelf is what it was
\* less what was sold.
LEMMA ShelvesAgree ==
    ASSUME IInv, Agreement, Quiet, Undisturbed, NEW t \in Tills, t \in known,
           \A u \in Tills, o \in Orders : rec[u][o] # "PENDING"
    PROVE  stock[t] = OnHand - Cardinality(Sold(t))
<1>0. NewsOK /\ PapersOK /\ TypeInv /\ LogOK /\ StockOK(t)
  BY DEF Agreement, IInv
<1>1. ASSUME NEW o \in Orders, t # Home[o]
      PROVE  Heard(t, Delta(o, -1)) <=> rec[t][o] \in Closed
  <2>1. PICK h \in Tills : h = Home[o]
    BY TeamSyncAssumption
  <2>2. rec[t][o] = rec[h][o] /\ rec[h][o] \in {"absent", "PAID", "VOIDED"}
    BY <1>0, <2>1, SameEverywhere DEF AtHome, TypeInv, TablesOK, Status
  <2>3. ASSUME Heard(t, Delta(o, -1)) PROVE rec[h][o] # "absent"
    <3>1. PICK k \in DOMAIN runs[t] : log[k].event = Delta(o, -1)
      BY <2>3 DEF Heard
    <3>2. k \in DOMAIN log /\ log[k].by \in Tills
      BY <1>0, ForeignIs, EntryIs DEF TypeInv, InboundOK
    <3>3. RowOK(log[k].by, Delta(o, -1))
      BY <1>0, <3>1, <3>2 DEF NewsOK, LogOK
    <3>4. Delta(o, -1).kind = "stock" /\ Delta(o, -1).order = o
      BY DEF Delta
    <3> QED BY <2>1, <3>3, <3>4 DEF RowOK, AtHome
  <2>4. ASSUME rec[h][o] # "absent" PROVE Heard(t, Delta(o, -1))
    <3>1. PICK i \in DOMAIN outbox[h] : outbox[h][i].event = Delta(o, -1)
      BY <1>0, <2>1, <2>4 DEF PapersOK, FiledOK, AtHome, Sent
    <3>2. i \in Kept(h)
      BY <3>1 DEF Undisturbed
    <3> QED BY <1>1, <2>1, <3>1, <3>2, QuietRan DEF Heard
  <2> QED BY <2>2, <2>3, <2>4 DEF Closed
<1>2. Gone(t) = Returned(t) \cup Sold(t) /\ Returned(t) \cap Sold(t) = {}
  BY <1>1 DEF Gone, Returned, Sold, Closed
<1>3. PICK G, R, S : G = Gone(t) /\ R = Returned(t) /\ S = Sold(t)
  OBVIOUS
<1>4. /\ IsFiniteSet(R) /\ Cardinality(R) \in Nat /\ Cardinality(G) \in Nat
      /\ stock[t] \in Nat /\ OnHand \in Nat
  BY <1>0, <1>3, CountsAre, TeamSyncAssumption
<1>5. IsFiniteSet(S) /\ Cardinality(S) \in Nat
  BY <1>3, TeamSyncAssumption, FS_Subset, FS_CardinalityType DEF Sold
<1>6. Cardinality(G) = Cardinality(R) + Cardinality(S)
  <2>1. G = R \cup S /\ R \cap S = {}
    BY <1>2, <1>3
  <2>2. Cardinality(R \cup S) = Cardinality(R) + Cardinality(S) - Cardinality(R \cap S)
    BY <1>4, <1>5, FS_Union
  <2>3. Cardinality(R \cap S) = 0
    BY <2>1, FS_EmptySet
  <2> QED BY <1>4, <1>5, <2>1, <2>2, <2>3
<1>7. stock[t] + Cardinality(G) = OnHand + Cardinality(R)
  BY <1>0, <1>3 DEF StockOK
<1>8. stock[t] = OnHand - Cardinality(S)
  BY <1>4, <1>5, <1>6, <1>7
<1> QED BY <1>3, <1>8

\* Once the tills are quiet, and nothing was lost, ran twice or was overtaken,
\* every till has the orders the others have, and its shelf is what was there at
\* first less what was sold and not voided.
THEOREM TillsOfATeamAgree == Spec => []TillsAgree
<1>1. IInv /\ Agreement => TillsAgree
  <2> SUFFICES ASSUME IInv, Agreement, Quiet, Undisturbed, known = Tills
               PROVE  /\ \A t \in Tills, o \in Orders : rec[t][o] = rec[Home[o]][o]
                      /\ (\A t \in Tills, o \in Orders : rec[t][o] # "PENDING") =>
                            \A t \in Tills : stock[t] = OnHand - Cardinality(Sold(t))
    BY DEF TillsAgree
  <2>1. \A t \in Tills, o \in Orders : rec[t][o] = rec[Home[o]][o]
    BY SameEverywhere DEF AtHome
  <2>2. ASSUME \A t \in Tills, o \in Orders : rec[t][o] # "PENDING", NEW t \in Tills
        PROVE  stock[t] = OnHand - Cardinality(Sold(t))
    BY <2>2, ShelvesAgree
  <2> QED BY <2>1, <2>2
<1> QED BY <1>1, Inductive, StaysAgreed, PTL
=============================================================================
