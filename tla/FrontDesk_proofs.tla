---------------------------- MODULE FrontDesk_proofs ----------------------------
(***************************************************************************)
(* Proofs about FrontDesk, for any number of tills, requests in flight,    *)
(* quotes, cashiers, clocks that run apart, and process deaths.            *)
(*   - SlotsOK and the slot parts: what a request has read is about a row  *)
(*     that is still there when it writes.                                 *)
(*   - QuotesOK: the rows of a quote have stamps of their own, and the     *)
(*     newest is on every till, on its way there or about to be told.      *)
(*   - DrawerOK: every copy of a session has its origin, a closed one the  *)
(*     close it is a copy of, and what was counted or is being counted for *)
(*     a session agrees with the payments that were made during it.        *)
(*   - One lemma per operation and half; the frames say that the other     *)
(*     half is left alone.                                                 *)
(***************************************************************************)
EXTENDS FrontDesk, TLAPS, FiniteSetTheorems, WellFoundedInduction

Payment == [id : Nat, who : Staff, at : Nat, status : {"COMPLETED", "VOIDED"}, till : Tills,
            during : SUBSET Nat, session : Nat \cup {None}]
Session == [uuid : Nat, owner : Staff, opened : Nat, closed : Nat, counted : SUBSET Nat,
            till : Tills, by : Tills \cup {None}]
Statuses == {"none", "draft", "sent", "accepted", "declined", "converted"}
QuoteRow == [status : Statuses, rev : Nat, stamp : Nat, heldId : Nat]
HeldSale == [id : Nat, paper : Papers, rev : Nat]
CashEvent == [kind : {"cash", "void"}, row : Payment]
ShiftEvent == [kind : {"shift"}, row : Session]
QuoteEvent == [kind : {"quote"}, paper : Papers, row : QuoteRow]
Event == CashEvent \cup ShiftEvent \cup QuoteEvent

DeskOK ==
    /\ now \in 0..MaxMoments /\ crashes \in Nat
    /\ DOMAIN inbox = Tills /\ \A t \in Tills : inbox[t] \in Seq(Event)
DrawerTypes ==
    /\ shift \in [Tills -> Seq(Session)]
    /\ cash \in [Tills -> SUBSET Payment]
QuoteTypes ==
    /\ quote \in [Tills -> [Papers -> QuoteRow]]
    /\ held \in [Tills -> SUBSET HeldSale]
    /\ DOMAIN parked = Papers
    /\ undone \in [Tills -> [Papers -> Nat]]

\* The events on their way to till o: all of them, and by kind.
News(o) == {inbox[o][n] : n \in DOMAIN inbox[o]}
Heard(o) == {e.row : e \in {n \in News(o) : n.kind = "cash"}}
Told(o) == {e.row : e \in {n \in News(o) : n.kind = "shift"}}
Quoted(o) == {n \in News(o) : n.kind = "quote"}

\* What a request has read is about a row that is there.
DrawerSteps == {"open", "close", "emitShift"}
QuoteSteps == {"edit", "park", "stamp", "emitQuote", "apply"} \cup Moves
DrawerSlotOK(slot) ==
    /\ slot.step = "open" => slot.at \in Tills /\ slot.doc \in Staff
    /\ slot.step = "close" =>
          slot.at \in Tills /\ slot.doc \in DOMAIN shift[slot.at] /\ slot.sum \subseteq 1..now
    /\ slot.step = "emitShift" => slot.at \in Tills /\ RowOf(slot.at, slot.doc) # {}
QuoteSlotOK(slot) ==
    /\ slot.step \in QuoteSteps => slot.at \in Tills /\ slot.doc \in Papers
    /\ slot.step \in {"park", "apply"} => slot.seen \in Nat
    /\ slot.step = "stamp" => slot.seen \in 1..now
SlotsOK ==
    /\ DOMAIN req = Requests \cup Tills
    /\ \A q \in Requests : req[q].step # "apply"
    /\ \A t \in Tills :
          /\ req[t].step \in {"idle", "apply"}
          /\ req[t].step = "apply" => req[t].at = t
DrawerSlotsOK == \A q \in Requests : DrawerSlotOK(req[q])
QuoteSlotsOK == \A q \in Requests \cup Tills : QuoteSlotOK(req[q])

-----------------------------------------------------------------------------
\* The news of a till after an event went out and after one was taken.
LEMMA Kinds ==
    ASSUME NEW e \in Event
    PROVE  /\ e.kind \in {"cash", "void"} <=> e \in CashEvent
           /\ e.kind = "shift" <=> e \in ShiftEvent
           /\ e.kind = "quote" <=> e \in QuoteEvent
BY DEF Event, CashEvent, ShiftEvent, QuoteEvent

LEMMA NewsTypes ==
    ASSUME DeskOK, NEW o \in Tills
    PROVE  /\ News(o) \subseteq Event
           /\ Heard(o) \subseteq Payment /\ Told(o) \subseteq Session
           /\ Quoted(o) \subseteq QuoteEvent
<1>1. News(o) \subseteq Event
  BY DEF News, DeskOK
<1>2. QED
  BY <1>1, Kinds DEF Heard, Told, Quoted, CashEvent, ShiftEvent

LEMMA Sent ==
    ASSUME DeskOK, NEW t \in Tills, NEW e \in Event, Emit(t, e)
    PROVE  /\ DOMAIN inbox' = Tills /\ \A o \in Tills : inbox'[o] \in Seq(Event)
           /\ \A o \in Tills : inbox[o] # <<>> => inbox'[o] # <<>> /\ Head(inbox'[o]) = Head(inbox[o])
           /\ \A o \in Tills : News(o)' = News(o) \cup (IF o = t THEN {} ELSE {e})
<1>1. DOMAIN inbox' = Tills
  BY DEF Emit
<1>2. SUFFICES ASSUME NEW o \in Tills
               PROVE  /\ inbox'[o] \in Seq(Event)
                      /\ inbox[o] # <<>> => inbox'[o] # <<>> /\ Head(inbox'[o]) = Head(inbox[o])
                      /\ News(o)' = News(o) \cup (IF o = t THEN {} ELSE {e})
  BY <1>1
<1>3. CASE o = t
  BY <1>3 DEF Emit, News, DeskOK
<1>4. CASE o # t
  <2>1. inbox'[o] = Append(inbox[o], e) /\ inbox[o] \in Seq(Event)
    BY <1>4 DEF Emit, DeskOK
  <2>2. /\ inbox'[o] \in Seq(Event) /\ Len(inbox'[o]) = Len(inbox[o]) + 1
        /\ \A n \in 1..Len(inbox[o]) : inbox'[o][n] = inbox[o][n]
        /\ inbox'[o][Len(inbox[o]) + 1] = e
        /\ DOMAIN inbox'[o] = DOMAIN inbox[o] \cup {Len(inbox[o]) + 1} /\ DOMAIN inbox[o] = 1..Len(inbox[o])
    BY <2>1
  <2>3. News(o)' = News(o) \cup {e}
    BY <2>2 DEF News
  <2>4. inbox[o] # <<>> => inbox'[o] # <<>> /\ Head(inbox'[o]) = Head(inbox[o])
    BY <2>1
  <2>5. QED
    BY <1>4, <2>2, <2>3, <2>4
<1>5. QED
  BY <1>3, <1>4

LEMMA SentKinds ==
    ASSUME DeskOK, NEW t \in Tills, NEW e \in Event, Emit(t, e), NEW o \in Tills
    PROVE  /\ Heard(o)' = Heard(o) \cup (IF o # t /\ e.kind = "cash" THEN {e.row} ELSE {})
           /\ Told(o)' = Told(o) \cup (IF o # t /\ e.kind = "shift" THEN {e.row} ELSE {})
           /\ Quoted(o)' = Quoted(o) \cup (IF o # t /\ e.kind = "quote" THEN {e} ELSE {})
<1>1. News(o)' = News(o) \cup (IF o = t THEN {} ELSE {e})
  BY Sent
<1>2. QED
  BY <1>1 DEF Heard, Told, Quoted

LEMMA Took ==
    ASSUME DeskOK, NEW t \in Tills, inbox[t] # <<>>, Received(t)
    PROVE  /\ DOMAIN inbox' = Tills /\ \A o \in Tills : inbox'[o] \in Seq(Event)
           /\ \A o \in Tills \ {t} : inbox'[o] = inbox[o] /\ News(o)' = News(o)
           /\ Head(inbox[t]) \in News(t) /\ Head(inbox[t]) \in Event
           /\ News(t)' \subseteq News(t) /\ News(t) \subseteq News(t)' \cup {Head(inbox[t])}
<1>1. /\ DOMAIN inbox' = Tills /\ inbox'[t] = Tail(inbox[t])
      /\ \A o \in Tills \ {t} : inbox'[o] = inbox[o]
  BY DEF Received, DeskOK
<1>2. inbox[t] \in Seq(Event) /\ \A o \in Tills : inbox[o] \in Seq(Event)
  BY DEF DeskOK
<1>3. /\ inbox'[t] \in Seq(Event) /\ Head(inbox[t]) = inbox[t][1] /\ 1 \in DOMAIN inbox[t]
      /\ DOMAIN inbox[t] = 1..Len(inbox[t]) /\ DOMAIN inbox'[t] = 1..(Len(inbox[t]) - 1)
      /\ \A n \in DOMAIN inbox'[t] : inbox'[t][n] = inbox[t][n + 1]
      /\ Len(inbox[t]) \in Nat
  BY <1>1, <1>2
<1>4. Head(inbox[t]) \in News(t) /\ Head(inbox[t]) \in Event
  BY <1>2, <1>3 DEF News
<1>5. ASSUME NEW e \in News(t)' PROVE e \in News(t)
  <2>1. PICK n \in DOMAIN inbox'[t] : e = inbox'[t][n]
    BY DEF News
  <2>2. e = inbox[t][n + 1] /\ n + 1 \in DOMAIN inbox[t]
    BY <1>3, <2>1
  <2>3. QED
    BY <2>2 DEF News
<1>6. ASSUME NEW e \in News(t) PROVE e \in News(t)' \/ e = Head(inbox[t])
  <2>1. PICK n \in DOMAIN inbox[t] : e = inbox[t][n]
    BY DEF News
  <2>2. CASE n = 1
    BY <1>3, <2>1, <2>2
  <2>3. CASE n # 1
    <3>1. n - 1 \in DOMAIN inbox'[t] /\ inbox'[t][n - 1] = e
      BY <1>3, <2>1, <2>3
    <3>2. QED
      BY <3>1 DEF News
  <2>4. QED
    BY <2>2, <2>3
<1>7. \A o \in Tills \ {t} : News(o)' = News(o)
  BY <1>1 DEF News
<1>8. \A o \in Tills : inbox'[o] \in Seq(Event)
  BY <1>1, <1>2, <1>3
<1>9. QED
  BY <1>1, <1>4, <1>5, <1>6, <1>7, <1>8

LEMMA TookKinds ==
    ASSUME DeskOK, NEW t \in Tills, inbox[t] # <<>>, Received(t)
    PROVE  /\ \A o \in Tills : /\ Heard(o)' \subseteq Heard(o) /\ Told(o)' \subseteq Told(o)
                               /\ Quoted(o)' \subseteq Quoted(o)
           /\ \A o \in Tills \ {t} : /\ Heard(o)' = Heard(o) /\ Told(o)' = Told(o)
                                     /\ Quoted(o)' = Quoted(o)
           /\ Head(inbox[t]).kind # "cash" => Heard(t)' = Heard(t)
           /\ Head(inbox[t]).kind # "shift" => Told(t)' = Told(t)
           /\ Head(inbox[t]).kind # "quote" => Quoted(t)' = Quoted(t)
           /\ Heard(t) \subseteq Heard(t)' \cup {Head(inbox[t]).row}
           /\ Told(t) \subseteq Told(t)' \cup {Head(inbox[t]).row}
           /\ Quoted(t) \subseteq Quoted(t)' \cup {Head(inbox[t])}
           /\ Head(inbox[t]).kind = "cash" => Head(inbox[t]).row \in Heard(t)
           /\ Head(inbox[t]).kind = "shift" => Head(inbox[t]).row \in Told(t)
           /\ Head(inbox[t]).kind = "quote" => Head(inbox[t]) \in Quoted(t)
<1> DEFINE first == Head(inbox[t])
<1>1. /\ \A o \in Tills \ {t} : News(o)' = News(o)
      /\ first \in News(t)
      /\ News(t)' \subseteq News(t) /\ News(t) \subseteq News(t)' \cup {first}
  BY Took
<1> HIDE DEF first
<1>2. \A o \in Tills \ {t} : /\ Heard(o)' = Heard(o) /\ Told(o)' = Told(o)
                             /\ Quoted(o)' = Quoted(o)
  BY <1>1 DEF Heard, Told, Quoted
<1>3. /\ Heard(t)' \subseteq Heard(t) /\ Told(t)' \subseteq Told(t) /\ Quoted(t)' \subseteq Quoted(t)
      /\ Heard(t) \subseteq Heard(t)' \cup {first.row} /\ Told(t) \subseteq Told(t)' \cup {first.row}
      /\ Quoted(t) \subseteq Quoted(t)' \cup {first}
  BY <1>1 DEF Heard, Told, Quoted
<1>4. /\ first.kind = "cash" => first.row \in Heard(t)
      /\ first.kind = "shift" => first.row \in Told(t)
      /\ first.kind = "quote" => first \in Quoted(t)
  BY <1>1 DEF Heard, Told, Quoted
<1>5. /\ first.kind # "cash" => Heard(t)' = Heard(t)
      /\ first.kind # "shift" => Told(t)' = Told(t)
      /\ first.kind # "quote" => Quoted(t)' = Quoted(t)
  BY <1>1 DEF Heard, Told, Quoted
<1>6. QED
  BY <1>2, <1>3, <1>4, <1>5 DEF first
-----------------------------------------------------------------------------
(***************************************************************************)
(* Quotes.                                                                 *)
(***************************************************************************)
\* The rows of quote k that tills have and that are on their way to one.
Versions(k) ==
    {quote[t][k] : t \in Tills}
      \cup UNION {{e.row : e \in {n \in Quoted(o) : n.paper = k}} : o \in Tills}
\* A row is not there yet, or has a stamp that a till's clock has shown.
Stamped(row) ==
    \/ row = NoQuote
    \/ \E t \in Tills, n \in 1..now : row.stamp = Clock(t, n)
\* Rows with one stamp are one row.
StampsOK ==
    \A k \in Papers :
        /\ \A row \in Versions(k) : Stamped(row)
        /\ \A row, other \in Versions(k) : row.stamp = other.stamp => row = other

\* A till that is taking over a row has it before it, and had an older one when it looked.
ApplyOK ==
    \A t \in Tills : AtStep(t, "apply") =>
        /\ inbox[t] # <<>> /\ Head(inbox[t]).kind = "quote" /\ Head(inbox[t]).paper = req[t].doc
        /\ req[t].doc \in harmed \/ req[t].seen <= quote[t][req[t].doc].stamp

\* A row gets everywhere: a till has one as new, or will hear of one, or somebody is
\* about to tell all tills of one.
Telling(k, stamp) ==
    \E q \in Requests :
        AtStep(q, "emitQuote") /\ req[q].doc = k /\ quote[req[q].at][k].stamp >= stamp
Reached(o, k, stamp) ==
    \/ quote[o][k].stamp >= stamp
    \/ \E e \in Quoted(o) : e.paper = k /\ e.row.stamp >= stamp
QuotesTravel ==
    \A k \in Papers \ harmed : \A row \in Versions(k) :
        Telling(k, row.stamp) \/ \A o \in Tills : Reached(o, k, row.stamp)

\* A conversion is paid for by a row that was not converted before it.
Wins(t, k) == {p \in parked[k] : p.till = t}
Spare(t, k) == IF quote[t][k].status = "converted" THEN 0 ELSE 1
ParkedOK ==
    \A t \in Tills, k \in Papers :
        /\ IsFiniteSet(Wins(t, k))
        /\ Cardinality(Wins(t, k)) + Spare(t, k) <= 1 + undone[t][k]
\* A parked sale that is being stamped is the slot's own.
StampingOK ==
    \A q \in Requests : AtStep(q, "stamp") => \A t \in Tills : \A h \in held[t] :
        h.id = req[q].seen => t = req[q].at /\ h.paper = req[q].doc
HeldOK ==
    \A t \in Tills : \A h \in held[t] :
        /\ h.id \in 1..now
        /\ crashes > 0 \/ BeingStamped(h) \/ [till |-> t, id |-> h.id] \in parked[h.paper]

QuotesOK ==
    /\ QuoteTypes /\ QuoteSlotsOK
    /\ StampsOK /\ ApplyOK /\ QuotesTravel
    /\ ParkedOK /\ StampingOK /\ HeldOK

-----------------------------------------------------------------------------
\* What the drawer does leaves the quotes alone, and so does a request that only looks.
LEMMA QuotesStay ==
    ASSUME DeskOK, SlotsOK, QuotesOK, UNCHANGED <<quote, held, parked, undone, harmed, crashes>>,
           now' \in Nat, now <= now',
           \A o \in Tills : Quoted(o)' = Quoted(o),
           \A t \in Tills : AtStep(t, "apply") =>
               inbox'[t] # <<>> /\ Head(inbox'[t]) = Head(inbox[t]),
           DOMAIN req' = DOMAIN req,
           \A q \in Requests \cup Tills :
               \/ req'[q] = req[q]
               \/ /\ req[q].step \notin {"stamp", "emitQuote"}
                  /\ req'[q].step \notin {"stamp", "apply"}
                  /\ QuoteSlotOK(req[q])'
    PROVE  QuotesOK'
<1>1. QuoteTypes'
  BY DEF QuotesOK, QuoteTypes
<1>2. QuoteSlotsOK'
  <2>1. SUFFICES ASSUME NEW q \in Requests \cup Tills PROVE QuoteSlotOK(req[q])'
    BY DEF QuoteSlotsOK
  <2>2. CASE req'[q] = req[q]
    BY <2>2 DEF QuotesOK, QuoteSlotsOK, QuoteSlotOK, DeskOK
  <2>3. QED
    BY <2>2
<1>3. \A k \in Papers : Versions(k)' = Versions(k)
  BY DEF Versions
<1>4. StampsOK'
  <2>1. \A row : Stamped(row) => Stamped(row)'
    <3>1. 1..now \subseteq 1..now'
      BY DEF DeskOK
    <3>2. QED
      BY <3>1 DEF Stamped
  <2>2. QED
    BY <1>3, <2>1 DEF QuotesOK, StampsOK
<1>5. ApplyOK'
  <2>1. SUFFICES ASSUME NEW t \in Tills, AtStep(t, "apply")'
                 PROVE  /\ inbox'[t] # <<>> /\ Head(inbox'[t]).kind = "quote"
                        /\ Head(inbox'[t]).paper = req'[t].doc
                        /\ \/ req'[t].doc \in harmed'
                           \/ req'[t].seen <= quote'[t][req'[t].doc].stamp
    BY DEF ApplyOK
  <2>2. req'[t] = req[t] /\ AtStep(t, "apply")
    BY <2>1 DEF AtStep
  <2>3. QED
    BY <2>2 DEF QuotesOK, ApplyOK
<1>6. QuotesTravel'
  <2>1. SUFFICES ASSUME NEW k \in Papers \ harmed, NEW row \in Versions(k)
                 PROVE  Telling(k, row.stamp)' \/ \A o \in Tills : Reached(o, k, row.stamp)'
    BY <1>3 DEF QuotesTravel
  <2>2. ASSUME Telling(k, row.stamp) PROVE Telling(k, row.stamp)'
    <3>1. PICK q \in Requests : AtStep(q, "emitQuote") /\ req[q].doc = k
                                /\ quote[req[q].at][k].stamp >= row.stamp
      BY <2>2 DEF Telling
    <3>2. req'[q] = req[q]
      BY <3>1 DEF AtStep
    <3>3. QED
      BY <3>1, <3>2 DEF Telling, AtStep
  <2>3. ASSUME NEW o \in Tills, Reached(o, k, row.stamp) PROVE Reached(o, k, row.stamp)'
    BY <2>3 DEF Reached
  <2>4. QED
    BY <2>2, <2>3 DEF QuotesOK, QuotesTravel
<1>7. ParkedOK'
  BY DEF QuotesOK, ParkedOK, Wins, Spare
<1>8. \A q \in Requests : AtStep(q, "stamp")' => AtStep(q, "stamp") /\ req'[q] = req[q]
  BY DEF AtStep
<1>9. \A q \in Requests : AtStep(q, "stamp") => AtStep(q, "stamp")' /\ req'[q] = req[q]
  BY DEF AtStep
<1>10. StampingOK'
  BY <1>8 DEF QuotesOK, StampingOK
<1>11. HeldOK'
  <2>1. \A h : BeingStamped(h) => BeingStamped(h)'
    BY <1>9 DEF BeingStamped
  <2>2. 1..now \subseteq 1..now'
    BY DEF DeskOK
  <2>3. QED
    BY <2>1, <2>2 DEF QuotesOK, HeldOK
<1>12. QED
  BY <1>1, <1>2, <1>4, <1>5, <1>6, <1>7, <1>10, <1>11 DEF QuotesOK

-----------------------------------------------------------------------------
\* The clock: a moment that was not there before has a stamp that no row has.
LEMMA FreshStamp ==
    ASSUME DeskOK, Moment, NEW t \in Tills
    PROVE  /\ now' \in 1..MaxMoments /\ now' = now + 1 /\ now \in Nat
           /\ nowStamp(t) \in Nat /\ nowStamp(t) = Clock(t, now') /\ nowStamp(t) > 0
           /\ \A o \in Tills, n \in 1..now : Clock(o, n) # nowStamp(t) /\ Clock(o, n) \in Nat
<1>1. now' \in 1..MaxMoments /\ now' = now + 1 /\ now \in Nat
  BY DeskAssumption DEF DeskOK, Moment
<1>2. nowStamp(t) = Clock(t, now') /\ nowStamp(t) \in Nat
  BY <1>1, DeskAssumption DEF nowStamp
<1>3. Clock(t, 0) \in Nat /\ Clock(t, 0) < Clock(t, now')
  BY <1>1, DeskAssumption, ClockAssumption
<1>4. ASSUME NEW o \in Tills, NEW n \in 1..now PROVE Clock(o, n) # Clock(t, now') /\ Clock(o, n) \in Nat
  <2>1. n \in 0..MaxMoments /\ now' \in 0..MaxMoments /\ n < now'
    BY <1>1, DeskAssumption
  <2>2. Clock(o, n) \in Nat /\ Clock(o, n) < Clock(o, now')
    BY <2>1, DeskAssumption, ClockAssumption
  <2>3. Clock(o, n) = Clock(t, now') => o = t
    BY <2>1, ClockAssumption
  <2>4. QED
    BY <1>2, <2>2, <2>3
<1>5. QED
  BY <1>1, <1>2, <1>3, <1>4

LEMMA VersionTypes ==
    ASSUME DeskOK, QuoteTypes, NEW k \in Papers
    PROVE  Versions(k) \subseteq QuoteRow
BY NewsTypes DEF Versions, QuoteTypes, QuoteEvent

LEMMA PutIs ==
    ASSUME SlotsOK, NEW q \in Requests \cup Tills, NEW slot, Put(q, slot)
    PROVE  /\ DOMAIN req' = DOMAIN req /\ req'[q] = slot
           /\ \A p \in (Requests \cup Tills) \ {q} : req'[p] = req[p]
BY DEF SlotsOK, Put

LEMMA WorkIs ==
    ASSUME NEW step, NEW t, NEW doc, NEW seen
    PROVE  /\ DOMAIN Work(step, t, doc, seen) = DOMAIN IdleSlot
           /\ Work(step, t, doc, seen).step = step /\ Work(step, t, doc, seen).at = t
           /\ Work(step, t, doc, seen).doc = doc /\ Work(step, t, doc, seen).seen = seen
BY DEF Work, IdleSlot

\* A local write of a quote; the conversion that wins is one.
Wrote(q, t, k, row) ==
    \/ parked' = parked /\ req[q].step # "stamp"
    \/ /\ quote[t][k].status # "converted" /\ row.status = "converted"
       /\ req[q].step = "stamp" /\ req[q].at = t /\ req[q].doc = k
       /\ parked' = [parked EXCEPT ![k] = @ \cup {[till |-> t, id |-> req[q].seen]}]
LEMMA Written ==
    ASSUME DeskOK, SlotsOK, QuotesOK, NEW q \in Requests, NEW t \in Tills, NEW k \in Papers,
           NEW row \in QuoteRow, Moment, WriteQuote(t, k, row),
           Put(q, Work("emitQuote", t, k, None)), req[q].step # "emitQuote",
           UNCHANGED <<inbox, crashes, held>>,
           Wrote(q, t, k, row)
    PROVE  QuotesOK'
<1> DEFINE new == [row EXCEPT !.stamp = nowStamp(t)]
<1>1. /\ now' \in 1..MaxMoments /\ now' = now + 1 /\ now \in Nat /\ nowStamp(t) \in Nat
      /\ nowStamp(t) = Clock(t, now') /\ nowStamp(t) > 0
      /\ \A o \in Tills, n \in 1..now : Clock(o, n) # nowStamp(t)
  BY FreshStamp
<1>2. new \in QuoteRow /\ new.stamp = nowStamp(t) /\ new.status = row.status
  BY <1>1 DEF QuoteRow
<1>3. quote' = [quote EXCEPT ![t][k] = new]
  BY DEF WriteQuote
<1> HIDE DEF new
<1>4. /\ quote'[t][k] = new
      /\ \A o \in Tills, j \in Papers : o # t \/ j # k => quote'[o][j] = quote[o][j]
  BY <1>3 DEF QuotesOK, QuoteTypes
<1>5. QuoteTypes'
  <2>1. quote' \in [Tills -> [Papers -> QuoteRow]]
    BY <1>2, <1>3 DEF QuotesOK, QuoteTypes
  <2>2. undone' \in [Tills -> [Papers -> Nat]]
    <3>1. PICK n \in {0, 1} : undone' = [undone EXCEPT ![t][k] = @ + n]
      BY DEF WriteQuote
    <3>2. QED
      BY <3>1 DEF QuotesOK, QuoteTypes
  <2>3. DOMAIN parked' = Papers
    BY DEF QuotesOK, QuoteTypes, Wrote
  <2>4. QED
    BY <2>1, <2>2, <2>3 DEF QuotesOK, QuoteTypes
<1>6. /\ \A p \in (Requests \cup Tills) \ {q} : req'[p] = req[p]
      /\ req'[q].step = "emitQuote" /\ req'[q].at = t /\ req'[q].doc = k
  BY PutIs, WorkIs
<1>7. QuoteSlotsOK'
  <2>1. QuoteSlotOK(req[q])'
    BY <1>6 DEF QuoteSlotOK
  <2>2. ASSUME NEW p \in (Requests \cup Tills) \ {q} PROVE QuoteSlotOK(req[p])'
    BY <1>1, <1>6 DEF QuotesOK, QuoteSlotsOK, QuoteSlotOK
  <2>3. QED
    BY <2>1, <2>2 DEF QuoteSlotsOK
<1>8. \A o \in Tills : Quoted(o)' = Quoted(o)
  BY DEF Quoted, News
<1>9. \A j \in Papers : Versions(j)' \subseteq Versions(j) \cup (IF j = k THEN {new} ELSE {})
  BY <1>4, <1>8 DEF Versions
<1>10. \A j \in Papers : Versions(j) \subseteq QuoteRow
  BY VersionTypes DEF QuotesOK
<1>11. \A old \in Versions(k) : old.stamp # new.stamp
  BY <1>1, <1>2 DEF QuotesOK, StampsOK, Stamped, NoQuote
<1>12. StampsOK'
  <2>1. \A old : Stamped(old) => Stamped(old)'
    <3>1. 1..now \subseteq 1..now'
      BY <1>1
    <3>2. QED
      BY <3>1 DEF Stamped
  <2>2. \E o \in Tills, n \in 1..now' : new.stamp = Clock(o, n)
    BY <1>1, <1>2
  <2>3. SUFFICES ASSUME NEW j \in Papers
                 PROVE  /\ \A r \in Versions(j)' : Stamped(r)'
                        /\ \A r, s \in Versions(j)' : r.stamp = s.stamp => r = s
    BY DEF StampsOK
  <2>4. ASSUME NEW r \in Versions(j)' PROVE Stamped(r)'
    <3>1. CASE r \in Versions(j)
      BY <2>1, <3>1 DEF QuotesOK, StampsOK
    <3>2. CASE r = new
      BY <2>2, <3>2 DEF Stamped
    <3>3. QED
      BY <1>9, <3>1, <3>2
  <2>5. \A r, s \in Versions(j)' : r.stamp = s.stamp => r = s
    BY <1>9, <1>11 DEF QuotesOK, StampsOK
  <2>6. QED
    BY <2>4, <2>5
<1>13. harmed \subseteq harmed'
  BY DEF WriteQuote
<1>14. \A o \in Tills, j \in Papers \ harmed' : quote'[o][j].stamp >= quote[o][j].stamp
  <2>1. \A o \in Tills, j \in Papers : quote[o][j].stamp \in Nat
    BY DEF QuotesOK, QuoteTypes, QuoteRow
  <2>2. k \notin harmed' => nowStamp(t) > quote[t][k].stamp
    BY DEF WriteQuote
  <2>3. QED
    BY <1>1, <1>2, <1>4, <2>1, <2>2
<1>15. \A o \in Tills, j \in Papers : quote[o][j].stamp \in Nat /\ quote'[o][j].stamp \in Nat
  BY <1>5 DEF QuotesOK, QuoteTypes, QuoteRow
<1>16. ApplyOK'
  <2>1. SUFFICES ASSUME NEW o \in Tills, AtStep(o, "apply")'
                 PROVE  /\ inbox'[o] # <<>> /\ Head(inbox'[o]).kind = "quote"
                        /\ Head(inbox'[o]).paper = req'[o].doc
                        /\ \/ req'[o].doc \in harmed'
                           \/ req'[o].seen <= quote'[o][req'[o].doc].stamp
    BY DEF ApplyOK
  <2>2. o # q
    BY <1>6, <2>1 DEF AtStep
  <2>3. req'[o] = req[o] /\ AtStep(o, "apply")
    BY <1>6, <2>1, <2>2 DEF AtStep
  <2>4. req[o].doc \in Papers /\ req[o].seen \in Nat
    BY <2>3 DEF QuotesOK, QuoteSlotsOK, QuoteSlotOK, AtStep, QuoteSteps
  <2>5. req[o].doc \in harmed' \/ req[o].seen <= quote'[o][req[o].doc].stamp
    BY <1>13, <1>14, <1>15, <2>3, <2>4 DEF QuotesOK, ApplyOK
  <2>6. QED
    BY <2>3, <2>5 DEF QuotesOK, ApplyOK
<1>17. QuotesTravel'
  <2>1. SUFFICES ASSUME NEW j \in Papers \ harmed', NEW r \in Versions(j)'
                 PROVE  Telling(j, r.stamp)' \/ \A o \in Tills : Reached(o, j, r.stamp)'
    BY DEF QuotesTravel
  <2>2. CASE j = k /\ r = new
    <3>1. quote'[req'[q].at][j].stamp >= r.stamp
      BY <1>1, <1>2, <1>4, <1>6, <2>2
    <3>2. QED
      BY <1>6, <2>2, <3>1 DEF Telling, AtStep
  <2>3. CASE r \in Versions(j)
    <3>1. r.stamp \in Nat /\ j \notin harmed
      BY <1>10, <1>13, <2>3 DEF QuoteRow
    <3>2. ASSUME Telling(j, r.stamp) PROVE Telling(j, r.stamp)'
      <4>1. PICK p \in Requests : AtStep(p, "emitQuote") /\ req[p].doc = j
                                  /\ quote[req[p].at][j].stamp >= r.stamp
        BY <3>2 DEF Telling
      <4>2. p # q /\ req'[p] = req[p] /\ req[p].at \in Tills
        BY <1>6, <4>1 DEF AtStep, QuotesOK, QuoteSlotsOK, QuoteSlotOK, QuoteSteps
      <4>3. quote'[req'[p].at][j].stamp >= r.stamp
        BY <1>14, <1>15, <3>1, <4>1, <4>2
      <4>4. QED
        BY <4>1, <4>2, <4>3 DEF Telling, AtStep
    <3>3. ASSUME NEW o \in Tills, Reached(o, j, r.stamp) PROVE Reached(o, j, r.stamp)'
      <4>1. quote[o][j].stamp >= r.stamp => quote'[o][j].stamp >= r.stamp
        BY <1>14, <1>15, <3>1
      <4>2. QED
        BY <1>8, <3>3, <4>1 DEF Reached
    <3>4. QED
      BY <2>3, <3>1, <3>2, <3>3 DEF QuotesOK, QuotesTravel
  <2>4. QED
    BY <1>9, <2>2, <2>3
<1>18. ParkedOK'
  <2>1. SUFFICES ASSUME NEW o \in Tills, NEW j \in Papers
                 PROVE  /\ IsFiniteSet(Wins(o, j)')
                        /\ Cardinality(Wins(o, j)') + Spare(o, j)' <= 1 + undone'[o][j]
    BY DEF ParkedOK
  <2>2. /\ IsFiniteSet(Wins(o, j)) /\ Cardinality(Wins(o, j)) \in Nat
        /\ Cardinality(Wins(o, j)) + Spare(o, j) <= 1 + undone[o][j] /\ undone[o][j] \in Nat
    BY FS_CardinalityType DEF QuotesOK, ParkedOK, QuoteTypes
  <2>3. CASE o # t \/ j # k
    <3>1. Wins(o, j)' = Wins(o, j)
      BY <2>3 DEF Wrote, Wins, QuotesOK, QuoteTypes
    <3>2. Spare(o, j)' = Spare(o, j) /\ undone'[o][j] = undone[o][j]
      BY <1>4, <2>3 DEF Spare, WriteQuote, QuotesOK, QuoteTypes
    <3>3. QED
      BY <2>2, <3>1, <3>2
  <2>4. CASE o = t /\ j = k
    <3>1. undone'[t][k] = undone[t][k] +
             (IF quote[t][k].status = "converted" /\ row.status # "converted" THEN 1 ELSE 0)
      BY DEF WriteQuote, QuotesOK, QuoteTypes
    <3>2. Spare(t, k)' = IF row.status = "converted" THEN 0 ELSE 1
      BY <1>2, <1>4 DEF Spare
    <3>3. CASE parked' = parked
      <4>1. Wins(t, k)' = Wins(t, k)
        BY <3>3 DEF Wins
      <4>2. QED
        BY <2>2, <2>4, <3>1, <3>2, <4>1 DEF Spare
    <3>4. CASE quote[t][k].status # "converted" /\ row.status = "converted"
               /\ parked' = [parked EXCEPT ![k] = @ \cup {[till |-> t, id |-> req[q].seen]}]
      <4>1. Wins(t, k)' = Wins(t, k) \cup {[till |-> t, id |-> req[q].seen]}
        BY <3>4 DEF Wins, QuotesOK, QuoteTypes
      <4>2. IsFiniteSet(Wins(t, k)') /\ Cardinality(Wins(t, k)') \in Nat
            /\ Cardinality(Wins(t, k)') <= Cardinality(Wins(t, k)) + 1
        <5>1. PICK win : win = [till |-> t, id |-> req[q].seen]
          OBVIOUS
        <5>2. PICK wins : wins = Wins(t, k)
          OBVIOUS
        <5>3. IsFiniteSet(wins) /\ Cardinality(wins) \in Nat
          BY <2>2, <2>4, <5>2
        <5>4. /\ IsFiniteSet(wins \cup {win})
              /\ Cardinality(wins \cup {win}) \in {Cardinality(wins), Cardinality(wins) + 1}
          BY <5>3, FS_AddElement
        <5>5. QED
          BY <4>1, <5>1, <5>2, <5>3, <5>4
      <4>3. QED
        BY <2>2, <2>4, <3>1, <3>2, <3>4, <4>2 DEF Spare
    <3>5. QED
      BY <3>3, <3>4 DEF Wrote
  <2>5. QED
    BY <2>3, <2>4
<1>19. \A p \in Requests : AtStep(p, "stamp")' => AtStep(p, "stamp") /\ req'[p] = req[p]
  BY <1>6 DEF AtStep
<1>20. StampingOK'
  BY <1>19 DEF QuotesOK, StampingOK
<1>21. HeldOK'
  <2>1. SUFFICES ASSUME NEW o \in Tills, NEW h \in held[o]
                 PROVE  /\ h.id \in 1..now'
                        /\ crashes' > 0 \/ BeingStamped(h)' \/ [till |-> o, id |-> h.id] \in parked'[h.paper]
    BY DEF HeldOK
  <2>2. h.id \in 1..now /\ h.paper \in Papers
    <3>1. held[o] \subseteq HeldSale
      BY DEF QuotesOK, QuoteTypes
    <3>2. QED
      BY <3>1 DEF QuotesOK, HeldOK, HeldSale
  <2>3. [till |-> o, id |-> h.id] \in parked[h.paper] => [till |-> o, id |-> h.id] \in parked'[h.paper]
    BY <2>2 DEF Wrote, QuotesOK, QuoteTypes
  <2>4. ASSUME BeingStamped(h) PROVE BeingStamped(h)' \/ [till |-> o, id |-> h.id] \in parked'[h.paper]
    <3>1. PICK p \in Requests : AtStep(p, "stamp") /\ req[p].seen = h.id
      BY <2>4 DEF BeingStamped
    <3>2. CASE p = q
      <4>1. o = req[q].at /\ h.paper = req[q].doc
        BY <3>1, <3>2 DEF QuotesOK, StampingOK
      <4>2. QED
        BY <2>2, <3>1, <3>2, <4>1 DEF Wrote, AtStep, QuotesOK, QuoteTypes
    <3>3. CASE p # q
      BY <1>6, <3>1, <3>3 DEF BeingStamped, AtStep
    <3>4. QED
      BY <3>2, <3>3
  <2>5. QED
    BY <1>1, <2>2, <2>3, <2>4 DEF QuotesOK, HeldOK
<1>22. QED
  BY <1>5, <1>7, <1>12, <1>16, <1>17, <1>18, <1>20, <1>21 DEF QuotesOK

\* A request that only looks at a quote.
LEMMA Looked ==
    ASSUME DeskOK, SlotsOK, QuotesOK, NEW q \in Requests, NEW t \in Tills, NEW k \in Papers,
           NEW step \in {"edit", "park"} \cup Moves, NEW seen, step = "park" => seen \in Nat,
           Idle(q), Put(q, Work(step, t, k, seen)),
           UNCHANGED <<now, inbox, crashes, quote, held, parked, undone, harmed>>
    PROVE  QuotesOK'
<1>1. /\ DOMAIN req' = DOMAIN req /\ \A p \in (Requests \cup Tills) \ {q} : req'[p] = req[p]
      /\ req'[q].step = step /\ req'[q].at = t /\ req'[q].doc = k /\ req'[q].seen = seen
  BY PutIs, WorkIs
<1>2. req[q].step = "idle" /\ step \notin {"stamp", "apply"}
  BY DEF Idle, IdleSlot, Moves
<1>3. QuoteSlotOK(req[q])'
  BY <1>1, <1>2 DEF QuoteSlotOK
<1>4. \A t1 \in Tills : AtStep(t1, "apply") => inbox'[t1] # <<>> /\ Head(inbox'[t1]) = Head(inbox[t1])
  BY DEF QuotesOK, ApplyOK
<1>5. \A o \in Tills : Quoted(o)' = Quoted(o)
  BY DEF Quoted, News
<1>6. now' \in Nat /\ now <= now'
  BY DeskAssumption DEF DeskOK
<1>7. \A p \in Requests \cup Tills :
          \/ req'[p] = req[p]
          \/ /\ req[p].step \notin {"stamp", "emitQuote"}
             /\ req'[p].step \notin {"stamp", "apply"}
             /\ QuoteSlotOK(req[p])'
  BY <1>1, <1>2, <1>3
<1>8. QED
  BY <1>1, <1>4, <1>5, <1>6, <1>7, QuotesStay

\* The lines are parked, and the stamp is still to come.
LEMMA Parked ==
    ASSUME DeskOK, SlotsOK, QuotesOK, NEW q \in Requests, HoldSale(q)
    PROVE  QuotesOK'
<1>1. req[q].at \in Tills /\ req[q].doc \in Papers /\ req[q].seen \in Nat
  BY DEF HoldSale, AtStep, QuotesOK, QuoteSlotsOK, QuoteSlotOK, QuoteSteps
<1>2. PICK t \in Tills, k \in Papers, rev \in Nat : t = req[q].at /\ k = req[q].doc /\ rev = req[q].seen
  BY <1>1
<1>3. PICK id : id = now'
  OBVIOUS
<1>4. id = now + 1 /\ now' = now + 1 /\ now \in Nat /\ id \in Nat
  BY <1>3, FreshStamp, <1>2 DEF HoldSale
<1>5. held' = [held EXCEPT ![t] = @ \cup {[id |-> id, paper |-> k, rev |-> rev]}]
  BY <1>2, <1>3 DEF HoldSale
<1>6. Put(q, Work("stamp", t, k, id))
  BY <1>2, <1>3 DEF HoldSale
<1>7. /\ DOMAIN req' = DOMAIN req /\ \A p \in (Requests \cup Tills) \ {q} : req'[p] = req[p]
      /\ req'[q].step = "stamp" /\ req'[q].at = t /\ req'[q].doc = k /\ req'[q].seen = id
  BY <1>6, PutIs, WorkIs
<1>8. UNCHANGED <<inbox, crashes, quote, parked, undone, harmed>> /\ req[q].step = "park"
  BY DEF HoldSale, AtStep
<1>9. held' \in [Tills -> SUBSET HeldSale]
  <2>1. [id |-> id, paper |-> k, rev |-> rev] \in HeldSale
    BY <1>4 DEF HeldSale
  <2>2. QED
    BY <1>5, <2>1 DEF QuotesOK, QuoteTypes
<1>10. QuoteTypes'
  BY <1>8, <1>9 DEF QuotesOK, QuoteTypes
<1>11. QuoteSlotsOK'
  <2>1. QuoteSlotOK(req[q])'
    BY <1>3, <1>4, <1>7 DEF QuoteSlotOK
  <2>2. ASSUME NEW p \in (Requests \cup Tills) \ {q} PROVE QuoteSlotOK(req[p])'
    BY <1>4, <1>7 DEF QuotesOK, QuoteSlotsOK, QuoteSlotOK
  <2>3. QED
    BY <2>1, <2>2 DEF QuoteSlotsOK
<1>12. \A j \in Papers : Versions(j)' = Versions(j)
  BY <1>8 DEF Versions, Quoted, News
<1>13. StampsOK'
  <2>1. \A row : Stamped(row) => Stamped(row)'
    <3>1. 1..now \subseteq 1..now'
      BY <1>4
    <3>2. QED
      BY <3>1 DEF Stamped
  <2>2. QED
    BY <1>12, <2>1 DEF QuotesOK, StampsOK
<1>14. \A p \in Requests : AtStep(p, "emitQuote") => AtStep(p, "emitQuote")' /\ req'[p] = req[p]
  BY <1>7, <1>8 DEF AtStep
<1>15. QuotesTravel'
  <2>1. SUFFICES ASSUME NEW j \in Papers \ harmed, NEW row \in Versions(j)
                 PROVE  Telling(j, row.stamp)' \/ \A o \in Tills : Reached(o, j, row.stamp)'
    BY <1>8, <1>12 DEF QuotesTravel
  <2>2. Telling(j, row.stamp) => Telling(j, row.stamp)'
    BY <1>8, <1>14 DEF Telling
  <2>3. \A o \in Tills : Reached(o, j, row.stamp) => Reached(o, j, row.stamp)'
    BY <1>8 DEF Reached, Quoted, News
  <2>4. QED
    BY <2>2, <2>3 DEF QuotesOK, QuotesTravel
<1>16. ApplyOK'
  <2>1. \A o \in Tills : AtStep(o, "apply")' => AtStep(o, "apply") /\ req'[o] = req[o]
    BY <1>7 DEF AtStep
  <2>2. QED
    BY <1>8, <2>1 DEF QuotesOK, ApplyOK
<1>17. ParkedOK'
  BY <1>8 DEF QuotesOK, ParkedOK, Wins, Spare
<1>18. \A o \in Tills : \A h \in held'[o] :
           \/ h \in held[o]
           \/ o = t /\ h.id = id /\ h.paper = k
  BY <1>5 DEF QuotesOK, QuoteTypes
<1>19. StampingOK'
  <2>1. SUFFICES ASSUME NEW p \in Requests, AtStep(p, "stamp")', NEW o \in Tills, NEW h \in held'[o],
                        h.id = req'[p].seen
                 PROVE  o = req'[p].at /\ h.paper = req'[p].doc
    BY DEF StampingOK
  <2>2. h \in held[o] => h.id \in 1..now
    BY DEF QuotesOK, HeldOK
  <2>3. CASE p = q
    BY <1>4, <1>7, <1>18, <2>1, <2>2, <2>3
  <2>4. CASE p # q
    <3>1. req'[p] = req[p] /\ AtStep(p, "stamp")
      BY <1>7, <2>1, <2>4 DEF AtStep
    <3>2. req[p].seen \in 1..now
      BY <3>1 DEF QuotesOK, QuoteSlotsOK, QuoteSlotOK, AtStep
    <3>3. h \in held[o]
      BY <1>4, <1>18, <2>1, <3>1, <3>2
    <3>4. QED
      BY <2>1, <3>1, <3>3 DEF QuotesOK, StampingOK
  <2>5. QED
    BY <2>3, <2>4
<1>20. HeldOK'
  <2>1. SUFFICES ASSUME NEW o \in Tills, NEW h \in held'[o]
                 PROVE  /\ h.id \in 1..now'
                        /\ crashes' > 0 \/ BeingStamped(h)' \/ [till |-> o, id |-> h.id] \in parked'[h.paper]
    BY DEF HeldOK
  <2>2. CASE h \in held[o]
    <3>1. BeingStamped(h) => BeingStamped(h)'
      BY <1>7, <1>8 DEF BeingStamped, AtStep
    <3>2. h.id \in 1..now'
      <4>1. h.id \in 1..now
        BY <2>2 DEF QuotesOK, HeldOK
      <4>2. QED
        BY <1>4, <4>1
    <3>3. QED
      BY <1>8, <2>2, <3>1, <3>2 DEF QuotesOK, HeldOK
  <2>3. CASE h.id = id
    <3>1. BeingStamped(h)'
      BY <1>7, <2>3 DEF BeingStamped, AtStep
    <3>2. QED
      BY <1>3, <1>4, <2>3, <3>1
  <2>4. QED
    BY <1>18, <2>2, <2>3
<1>21. QED
  BY <1>10, <1>11, <1>13, <1>15, <1>16, <1>17, <1>19, <1>20 DEF QuotesOK

\* Parked sales go, and with the sale of a slot that lost its race the slot.
LEMMA Cleaned ==
    ASSUME DeskOK, SlotsOK, QuotesOK, UNCHANGED <<inbox, crashes, quote, parked, undone, harmed>>,
           now' \in Nat, now <= now',
           held' \in [Tills -> SUBSET HeldSale], \A o \in Tills : held'[o] \subseteq held[o],
           \A p \in Requests \cup Tills :
               \/ req'[p] = req[p]
               \/ /\ req[p].step = "stamp" /\ req'[p] = IdleSlot
                  /\ \A o \in Tills : \A h \in held'[o] : h.id # req[p].seen
    PROVE  QuotesOK'
<1>1. QuoteTypes'
  BY DEF QuotesOK, QuoteTypes
<1>2. IdleSlot.step = "idle"
  BY DEF IdleSlot
<1>3. QuoteSlotsOK'
  <2>1. ASSUME NEW p \in Requests \cup Tills PROVE QuoteSlotOK(req[p])'
    <3>1. CASE req'[p] = req[p]
      BY <3>1 DEF DeskOK, QuotesOK, QuoteSlotsOK, QuoteSlotOK
    <3>2. CASE req'[p] = IdleSlot
      BY <1>2, <3>2 DEF QuoteSlotOK, QuoteSteps, Moves
    <3>3. QED
      BY <3>1, <3>2
  <2>2. QED
    BY <2>1 DEF QuoteSlotsOK
<1>4. \A j \in Papers : Versions(j)' = Versions(j)
  BY DEF Versions, Quoted, News
<1>5. StampsOK'
  <2>1. \A row : Stamped(row) => Stamped(row)'
    <3>1. 1..now \subseteq 1..now'
      BY DEF DeskOK
    <3>2. QED
      BY <3>1 DEF Stamped
  <2>2. QED
    BY <1>4, <2>1 DEF QuotesOK, StampsOK
<1>6. \A p \in Requests : AtStep(p, "emitQuote") => AtStep(p, "emitQuote")' /\ req'[p] = req[p]
  BY DEF AtStep
<1>7. QuotesTravel'
  <2>1. SUFFICES ASSUME NEW j \in Papers \ harmed, NEW row \in Versions(j)
                 PROVE  Telling(j, row.stamp)' \/ \A o \in Tills : Reached(o, j, row.stamp)'
    BY <1>4 DEF QuotesTravel
  <2>2. Telling(j, row.stamp) => Telling(j, row.stamp)'
    BY <1>6 DEF Telling
  <2>3. \A o \in Tills : Reached(o, j, row.stamp) => Reached(o, j, row.stamp)'
    BY DEF Reached, Quoted, News
  <2>4. QED
    BY <2>2, <2>3 DEF QuotesOK, QuotesTravel
<1>8. ApplyOK'
  <2>1. \A o \in Tills : AtStep(o, "apply")' => AtStep(o, "apply") /\ req'[o] = req[o]
    BY <1>2 DEF AtStep
  <2>2. QED
    BY <2>1 DEF QuotesOK, ApplyOK
<1>9. ParkedOK'
  BY DEF QuotesOK, ParkedOK, Wins, Spare
<1>10. \A p \in Requests : AtStep(p, "stamp")' => AtStep(p, "stamp") /\ req'[p] = req[p]
  BY <1>2 DEF AtStep
<1>11. StampingOK'
  BY <1>10 DEF QuotesOK, StampingOK
<1>12. HeldOK'
  <2>1. SUFFICES ASSUME NEW o \in Tills, NEW h \in held'[o]
                 PROVE  /\ h.id \in 1..now'
                        /\ crashes' > 0 \/ BeingStamped(h)' \/ [till |-> o, id |-> h.id] \in parked'[h.paper]
    BY DEF HeldOK
  <2>2. h \in held[o] /\ h.id \in 1..now
    BY DEF QuotesOK, HeldOK
  <2>3. h.id \in 1..now'
    BY <2>2 DEF DeskOK
  <2>4. BeingStamped(h) => BeingStamped(h)'
    BY DEF BeingStamped, AtStep
  <2>5. QED
    BY <2>2, <2>3, <2>4 DEF QuotesOK, HeldOK
<1>13. QED
  BY <1>1, <1>3, <1>5, <1>7, <1>8, <1>9, <1>11, <1>12 DEF QuotesOK

LEMMA Lost ==
    ASSUME DeskOK, SlotsOK, QuotesOK, NEW q \in Requests, AtStep(q, "stamp"), Moment,
           held' = [held EXCEPT ![req[q].at] = {h \in @ : h.id # req[q].seen}],
           Put(q, IdleSlot), UNCHANGED <<inbox, crashes, quote, parked, undone, harmed>>
    PROVE  QuotesOK'
<1>1. PICK t \in Tills : t = req[q].at
  BY DEF AtStep, QuotesOK, QuoteSlotsOK, QuoteSlotOK, QuoteSteps
<1>2. PICK id : id = req[q].seen
  OBVIOUS
<1>3. now' \in Nat /\ now <= now'
  BY <1>1, FreshStamp
<1>4. held' = [held EXCEPT ![t] = {h \in @ : h.id # id}]
  BY <1>1, <1>2
<1>5. held' \in [Tills -> SUBSET HeldSale] /\ \A o \in Tills : held'[o] \subseteq held[o]
  BY <1>4 DEF QuotesOK, QuoteTypes
<1>6. \A o \in Tills : \A h \in held'[o] : h.id # id
  <2>1. SUFFICES ASSUME NEW o \in Tills, NEW h \in held'[o], h.id = id PROVE FALSE
    OBVIOUS
  <2>2. h \in held[o] /\ o = t
    BY <1>1, <1>2, <1>5, <2>1 DEF QuotesOK, StampingOK
  <2>3. QED
    BY <1>4, <2>1, <2>2 DEF QuotesOK, QuoteTypes
<1>7. /\ req'[q] = IdleSlot /\ req[q].step = "stamp"
      /\ \A p \in (Requests \cup Tills) \ {q} : req'[p] = req[p]
  BY PutIs DEF AtStep
<1>8. QED
  BY <1>2, <1>3, <1>5, <1>6, <1>7, Cleaned

LEMMA Discarded ==
    ASSUME DeskOK, SlotsOK, QuotesOK, NEW t \in Tills, NEW h, DeleteHeldSale(t, h)
    PROVE  QuotesOK'
<1>1. UNCHANGED <<now, req, inbox, crashes, quote, parked, undone, harmed>>
      /\ held' = [held EXCEPT ![t] = @ \ {h}]
  BY DEF DeleteHeldSale, deskVars
<1>2. held' \in [Tills -> SUBSET HeldSale] /\ \A o \in Tills : held'[o] \subseteq held[o]
  BY <1>1 DEF QuotesOK, QuoteTypes
<1>3. now' \in Nat /\ now <= now'
  BY <1>1, DeskAssumption DEF DeskOK
<1>4. QED
  BY <1>1, <1>2, <1>3, Cleaned

\* The conversion writes the quote or cleans up.
LEMMA Converted ==
    ASSUME DeskOK, SlotsOK, QuotesOK, NEW q \in Requests, ConvertQuote(q)
    PROVE  QuotesOK'
<1>1. req[q].at \in Tills /\ req[q].doc \in Papers /\ req[q].step = "stamp" /\ req[q].seen \in Nat
  BY DEF ConvertQuote, AtStep, QuotesOK, QuoteSlotsOK, QuoteSlotOK, QuoteSteps
<1>2. PICK t \in Tills, k \in Papers, id \in Nat : t = req[q].at /\ k = req[q].doc /\ id = req[q].seen
  BY <1>1
<1>3. CASE quote[t][k].status # "converted"
  <2>1. PICK row : row = [quote[t][k] EXCEPT !.status = "converted", !.heldId = id]
    OBVIOUS
  <2>2. quote[t][k] \in QuoteRow
    BY DEF QuotesOK, QuoteTypes
  <2>3. row \in QuoteRow /\ row.status = "converted"
    BY <2>1, <2>2 DEF QuoteRow, Statuses
  <2>4. /\ Moment /\ WriteQuote(t, k, row) /\ UNCHANGED <<inbox, crashes, held>>
        /\ parked' = [parked EXCEPT ![k] = @ \cup {[till |-> t, id |-> id]}]
        /\ Put(q, Work("emitQuote", t, k, None))
    BY <1>2, <1>3, <2>1 DEF ConvertQuote, ToTell
  <2>5. Wrote(q, t, k, row)
    BY <1>1, <1>2, <1>3, <2>3, <2>4 DEF Wrote
  <2>6. req[q].step # "emitQuote"
    BY <1>1
  <2>7. QED
    BY <2>3, <2>4, <2>5, <2>6, Written
<1>4. CASE quote[t][k].status = "converted"
  <2>1. /\ AtStep(q, "stamp") /\ Moment /\ Put(q, IdleSlot)
        /\ held' = [held EXCEPT ![req[q].at] = {h \in @ : h.id # req[q].seen}]
        /\ UNCHANGED <<inbox, crashes, quote, parked, undone, harmed>>
    BY <1>2, <1>4 DEF ConvertQuote
  <2>2. QED
    BY <2>1, Lost
<1>5. QED
  BY <1>3, <1>4

LEMMA Created ==
    ASSUME DeskOK, SlotsOK, QuotesOK, NEW q \in Requests, NEW t \in Tills, NEW k \in Papers,
           CreateQuote(q, t, k)
    PROVE  QuotesOK'
<1>1. PICK row : row = [NoQuote EXCEPT !.status = "draft", !.rev = now']
  OBVIOUS
<1>2. now' \in Nat
  BY FreshStamp DEF CreateQuote
<1>3. row \in QuoteRow
  BY <1>1, <1>2 DEF QuoteRow, NoQuote, Statuses
<1>4. /\ Moment /\ WriteQuote(t, k, row) /\ UNCHANGED <<inbox, crashes, held>> /\ parked' = parked
      /\ Put(q, Work("emitQuote", t, k, None)) /\ Idle(q)
  BY <1>1 DEF CreateQuote
<1>5. req[q].step = "idle"
  BY <1>4 DEF Idle, IdleSlot
<1>6. Wrote(q, t, k, row) /\ req[q].step # "emitQuote"
  BY <1>4, <1>5 DEF Wrote
<1>7. QED
  BY <1>3, <1>4, <1>6, Written

LEMMA Edited ==
    ASSUME DeskOK, SlotsOK, QuotesOK, NEW q \in Requests, UpdateQuote(q) \/ SetQuoteStatus(q)
    PROVE  QuotesOK'
<1>1. req[q].step \in {"edit"} \cup Moves
  BY DEF UpdateQuote, SetQuoteStatus, AtStep
<1>2. req[q].at \in Tills /\ req[q].doc \in Papers
  BY <1>1 DEF QuotesOK, QuoteSlotsOK, QuoteSlotOK, QuoteSteps
<1>3. PICK t \in Tills, k \in Papers : t = req[q].at /\ k = req[q].doc
  BY <1>2
<1>4. quote[t][k] \in QuoteRow
  BY DEF QuotesOK, QuoteTypes
<1>5. /\ Moment /\ UNCHANGED <<inbox, crashes, held>> /\ parked' = parked
      /\ Put(q, Work("emitQuote", t, k, None))
  BY <1>3 DEF UpdateQuote, SetQuoteStatus, ToTell
<1>6. now' \in Nat
  BY <1>5, FreshStamp
<1>7. PICK row \in QuoteRow : WriteQuote(t, k, row)
  <2>1. CASE UpdateQuote(q)
    <3>1. [quote[t][k] EXCEPT !.rev = now'] \in QuoteRow
      BY <1>4, <1>6 DEF QuoteRow
    <3>2. WriteQuote(t, k, [quote[t][k] EXCEPT !.rev = now'])
      BY <1>3, <2>1 DEF UpdateQuote
    <3>3. PICK row : row = [quote[t][k] EXCEPT !.rev = now']
      OBVIOUS
    <3>4. QED
      BY <3>1, <3>2, <3>3
  <2>2. CASE SetQuoteStatus(q)
    <3>1. PICK step \in Moves : step = req[q].step
      BY <2>2 DEF SetQuoteStatus
    <3>2. [quote[t][k] EXCEPT !.status = step] \in QuoteRow
      BY <1>4 DEF QuoteRow, Statuses, Moves
    <3>3. WriteQuote(t, k, [quote[t][k] EXCEPT !.status = step])
      BY <1>3, <2>2, <3>1 DEF SetQuoteStatus
    <3>4. PICK row : row = [quote[t][k] EXCEPT !.status = step]
      OBVIOUS
    <3>5. QED
      BY <3>2, <3>3, <3>4
  <2>3. QED
    BY <2>1, <2>2
<1>8. Wrote(q, t, k, row) /\ req[q].step # "emitQuote"
  BY <1>1, <1>5 DEF Wrote, Moves
<1>9. QED
  BY <1>5, <1>7, <1>8, Written

\* A row goes out to all tills.
LEMMA QuoteSent ==
    ASSUME DeskOK, SlotsOK, QuotesOK, NEW q \in Requests, EmitQuote(q)
    PROVE  QuotesOK'
<1>1. req[q].at \in Tills /\ req[q].doc \in Papers /\ req[q].step = "emitQuote"
  BY DEF EmitQuote, AtStep, QuotesOK, QuoteSlotsOK, QuoteSlotOK, QuoteSteps
<1>2. PICK t \in Tills, k \in Papers : t = req[q].at /\ k = req[q].doc
  BY <1>1
<1>3. PICK row \in QuoteRow : row = quote[t][k]
  BY DEF QuotesOK, QuoteTypes
<1>4. PICK e \in Event : e = [kind |-> "quote", paper |-> k, row |-> row]
  BY DEF Event, QuoteEvent
<1>5. Emit(t, e) /\ Put(q, IdleSlot) /\ UNCHANGED <<now, crashes, quote, held, parked, undone, harmed>>
  BY <1>2, <1>3, <1>4 DEF EmitQuote, quoteVars
<1>6. e.kind = "quote" /\ e.paper = k /\ e.row = row
  BY <1>4
<1>7. \A o \in Tills : Quoted(o)' = Quoted(o) \cup (IF o # t THEN {e} ELSE {})
  BY <1>5, <1>6, SentKinds
<1>8. \A o \in Tills : inbox[o] # <<>> => inbox'[o] # <<>> /\ Head(inbox'[o]) = Head(inbox[o])
  BY <1>5, Sent
<1>9. req'[q] = IdleSlot /\ \A p \in (Requests \cup Tills) \ {q} : req'[p] = req[p]
  BY <1>5, PutIs
<1>10. IdleSlot.step = "idle"
  BY DEF IdleSlot
<1>11. QuoteTypes'
  BY <1>5 DEF QuotesOK, QuoteTypes
<1>12. QuoteSlotsOK'
  <2>1. QuoteSlotOK(req[q])'
    BY <1>9, <1>10 DEF QuoteSlotOK, QuoteSteps, Moves
  <2>2. ASSUME NEW p \in (Requests \cup Tills) \ {q} PROVE QuoteSlotOK(req[p])'
    BY <1>5, <1>9 DEF QuotesOK, QuoteSlotsOK, QuoteSlotOK
  <2>3. QED
    BY <2>1, <2>2 DEF QuoteSlotsOK
<1>13. \A j \in Papers : Versions(j)' = Versions(j)
  <2>1. SUFFICES ASSUME NEW j \in Papers, NEW r PROVE r \in Versions(j)' <=> r \in Versions(j)
    OBVIOUS
  <2>2. row \in Versions(k)
    BY <1>3 DEF Versions
  <2>3. QED
    BY <1>5, <1>6, <1>7, <2>2 DEF Versions
<1>14. StampsOK'
  <2>1. \A r : Stamped(r)' <=> Stamped(r)
    BY <1>5 DEF Stamped
  <2>2. QED
    BY <1>13, <2>1 DEF QuotesOK, StampsOK
<1>15. QuotesTravel'
  <2>1. SUFFICES ASSUME NEW j \in Papers \ harmed, NEW r \in Versions(j)
                 PROVE  Telling(j, r.stamp)' \/ \A o \in Tills : Reached(o, j, r.stamp)'
    BY <1>5, <1>13 DEF QuotesTravel
  <2>2. ASSUME NEW o \in Tills, Reached(o, j, r.stamp) PROVE Reached(o, j, r.stamp)'
    BY <1>5, <1>7, <2>2 DEF Reached
  <2>3. ASSUME NEW p \in Requests, AtStep(p, "emitQuote"), req[p].doc = j,
               quote[req[p].at][j].stamp >= r.stamp
        PROVE  Telling(j, r.stamp)' \/ \A o \in Tills : Reached(o, j, r.stamp)'
    <3>1. CASE p # q
      BY <1>5, <1>9, <2>3, <3>1 DEF Telling, AtStep
    <3>2. CASE p = q
      <4>1. j = k /\ row.stamp >= r.stamp
        BY <1>2, <1>3, <2>3, <3>2
      <4>2. ASSUME NEW o \in Tills PROVE Reached(o, j, r.stamp)'
        BY <1>3, <1>5, <1>6, <1>7, <4>1 DEF Reached
      <4>3. QED
        BY <4>2
    <3>3. QED
      BY <3>1, <3>2
  <2>4. QED
    BY <2>2, <2>3 DEF QuotesOK, QuotesTravel, Telling
<1>16. ApplyOK'
  <2>1. \A o \in Tills : AtStep(o, "apply")' => AtStep(o, "apply") /\ req'[o] = req[o]
    BY <1>9, <1>10 DEF AtStep
  <2>2. QED
    BY <1>5, <1>8, <2>1 DEF QuotesOK, ApplyOK
<1>17. ParkedOK'
  BY <1>5 DEF QuotesOK, ParkedOK, Wins, Spare
<1>18. \A p \in Requests : AtStep(p, "stamp")' => AtStep(p, "stamp") /\ req'[p] = req[p]
  BY <1>9, <1>10 DEF AtStep
<1>19. \A p \in Requests : AtStep(p, "stamp") => AtStep(p, "stamp")' /\ req'[p] = req[p]
  BY <1>1, <1>9 DEF AtStep
<1>20. StampingOK'
  BY <1>5, <1>18 DEF QuotesOK, StampingOK
<1>21. HeldOK'
  <2>1. \A h : BeingStamped(h) => BeingStamped(h)'
    BY <1>19 DEF BeingStamped
  <2>2. QED
    BY <1>5, <2>1 DEF QuotesOK, HeldOK
<1>22. QED
  BY <1>11, <1>12, <1>14, <1>15, <1>16, <1>17, <1>20, <1>21 DEF QuotesOK

\* A till compares stamps before it takes a row over.
LEMMA Compared ==
    ASSUME DeskOK, SlotsOK, QuotesOK, NEW t \in Tills, applyQuoteLook(t)
    PROVE  QuotesOK'
<1>1. /\ Idle(t) /\ inbox[t] # <<>> /\ Head(inbox[t]).kind = "quote"
      /\ UNCHANGED <<now, inbox, crashes, quote, held, parked, undone, harmed>>
  BY DEF applyQuoteLook, Arrived, quoteVars
<1>2. Head(inbox[t]) \in Event
  BY <1>1 DEF DeskOK
<1>3. Head(inbox[t]).paper \in Papers
  BY <1>1, <1>2, Kinds DEF QuoteEvent
<1>4. PICK k \in Papers : k = Head(inbox[t]).paper
  BY <1>3
<1>5. PICK seen \in Nat : seen = quote[t][k].stamp
  BY DEF QuotesOK, QuoteTypes, QuoteRow
<1>6. Put(t, Work("apply", t, k, seen))
  BY <1>4, <1>5 DEF applyQuoteLook
<1>7. /\ req'[t].step = "apply" /\ req'[t].at = t /\ req'[t].doc = k /\ req'[t].seen = seen
      /\ \A p \in (Requests \cup Tills) \ {t} : req'[p] = req[p]
  BY <1>6, PutIs, WorkIs
<1>8. \A q \in Requests : req'[q] = req[q]
  BY <1>7, DeskAssumption
<1>9. QuoteTypes' /\ ParkedOK' /\ StampsOK'
  <2>1. QuoteTypes'
    BY <1>1 DEF QuotesOK, QuoteTypes
  <2>2. ParkedOK'
    BY <1>1 DEF QuotesOK, ParkedOK, Wins, Spare
  <2>3. StampsOK'
    BY <1>1 DEF QuotesOK, StampsOK, Versions, Quoted, News, Stamped
  <2>4. QED
    BY <2>1, <2>2, <2>3
<1>10. QuoteSlotsOK'
  <2>1. QuoteSlotOK(req[t])'
    BY <1>7 DEF QuoteSlotOK
  <2>2. ASSUME NEW p \in (Requests \cup Tills) \ {t} PROVE QuoteSlotOK(req[p])'
    BY <1>1, <1>7 DEF QuotesOK, QuoteSlotsOK, QuoteSlotOK
  <2>3. QED
    BY <2>1, <2>2 DEF QuoteSlotsOK
<1>11. QuotesTravel'
  BY <1>1, <1>8 DEF QuotesOK, QuotesTravel, Versions, Telling, Reached, Quoted, News, AtStep
<1>12. ApplyOK'
  <2>1. SUFFICES ASSUME NEW o \in Tills, AtStep(o, "apply")'
                 PROVE  /\ inbox[o] # <<>> /\ Head(inbox[o]).kind = "quote"
                        /\ Head(inbox[o]).paper = req'[o].doc
                        /\ req'[o].doc \in harmed \/ req'[o].seen <= quote[o][req'[o].doc].stamp
    BY <1>1 DEF ApplyOK
  <2>2. CASE o = t
    BY <1>1, <1>4, <1>5, <1>7, <2>2
  <2>3. CASE o # t
    BY <1>7, <2>1, <2>3 DEF QuotesOK, ApplyOK, AtStep
  <2>4. QED
    BY <2>2, <2>3
<1>13. StampingOK' /\ HeldOK'
  <2>1. \A p \in Requests : AtStep(p, "stamp")' <=> AtStep(p, "stamp")
    BY <1>8 DEF AtStep
  <2>2. StampingOK'
    BY <1>1, <1>8, <2>1 DEF QuotesOK, StampingOK
  <2>3. \A h : BeingStamped(h) => BeingStamped(h)'
    BY <1>8, <2>1 DEF BeingStamped
  <2>4. HeldOK'
    BY <1>1, <2>3 DEF QuotesOK, HeldOK
  <2>5. QED
    BY <2>2, <2>4
<1>14. QED
  BY <1>9, <1>10, <1>11, <1>12, <1>13 DEF QuotesOK

\* A till takes a row over, or drops it.
LEMMA TakenOver ==
    ASSUME DeskOK, SlotsOK, QuotesOK, NEW t \in Tills, applyQuote(t)
    PROVE  QuotesOK'
<1>1. /\ AtStep(t, "apply") /\ req[t].doc \in Papers /\ req[t].seen \in Nat
      /\ UNCHANGED <<now, crashes, held, parked>> /\ Received(t) /\ Put(t, IdleSlot)
  BY DEF applyQuote, QuotesOK, QuoteSlotsOK, QuoteSlotOK, QuoteSteps, AtStep
<1>2. PICK k \in Papers, seen \in Nat : k = req[t].doc /\ seen = req[t].seen
  BY <1>1
<1>3. PICK e : e = Head(inbox[t])
  OBVIOUS
<1>4. /\ inbox[t] # <<>> /\ e.kind = "quote" /\ e.paper = k
      /\ k \in harmed \/ seen <= quote[t][k].stamp
  BY <1>1, <1>2, <1>3 DEF QuotesOK, ApplyOK
<1>5. e \in Event
  BY <1>3, <1>4 DEF DeskOK
<1>6. e.row \in QuoteRow
  BY <1>4, <1>5, Kinds DEF QuoteEvent
<1>7. PICK row \in QuoteRow : row = e.row
  BY <1>6
<1>8. quote[t][k] \in QuoteRow /\ quote[t][k].stamp \in Nat /\ row.stamp \in Nat
  BY DEF QuotesOK, QuoteTypes, QuoteRow
<1>9. /\ \A o \in Tills : Quoted(o)' \subseteq Quoted(o)
      /\ Quoted(t) \subseteq Quoted(t)' \cup {e} /\ e \in Quoted(t)
      /\ \A o \in Tills \ {t} : Quoted(o)' = Quoted(o) /\ inbox'[o] = inbox[o]
  BY <1>1, <1>3, <1>4, Took, TookKinds
<1>10. /\ row.stamp > seen
             => /\ quote' = [quote EXCEPT ![t][k] = row]
                /\ undone' = [undone EXCEPT ![t][k] = @ +
                      IF quote[t][k].status = "converted" /\ row.status # "converted"
                      THEN 1 ELSE 0]
                /\ harmed' = IF quote[t][k].stamp = seen THEN harmed ELSE harmed \cup {k}
       /\ ~(row.stamp > seen) => UNCHANGED <<quote, undone, harmed>>
  BY <1>2, <1>3, <1>4, <1>7 DEF applyQuote, Newer
<1>11. /\ \A o \in Tills, j \in Papers : o # t \/ j # k => quote'[o][j] = quote[o][j]
       /\ quote'[t][k] = IF row.stamp > seen THEN row ELSE quote[t][k]
       /\ quote' \in [Tills -> [Papers -> QuoteRow]] /\ harmed \subseteq harmed'
  <2>1. quote \in [Tills -> [Papers -> QuoteRow]]
    BY DEF QuotesOK, QuoteTypes
  <2>2. CASE row.stamp > seen
    <3>1. quote' = [quote EXCEPT ![t][k] = row] /\ harmed \subseteq harmed'
      BY <1>10, <2>2
    <3>2. QED
      BY <2>1, <2>2, <3>1
  <2>3. CASE ~(row.stamp > seen)
    BY <1>10, <2>1, <2>3
  <2>4. QED
    BY <2>2, <2>3
<1>12. QuoteTypes'
  <2>1. undone' \in [Tills -> [Papers -> Nat]]
    <3>1. PICK n \in {0, 1} : undone' = [undone EXCEPT ![t][k] = @ + n] \/ undone' = undone
      BY <1>10
    <3>2. CASE undone' = [undone EXCEPT ![t][k] = @ + n]
      BY <3>2 DEF QuotesOK, QuoteTypes
    <3>3. CASE undone' = undone
      BY <3>3 DEF QuotesOK, QuoteTypes
    <3>4. QED
      BY <3>1, <3>2, <3>3
  <2>2. QED
    BY <1>1, <1>11, <2>1 DEF QuotesOK, QuoteTypes
<1>13. req'[t] = IdleSlot /\ \A p \in (Requests \cup Tills) \ {t} : req'[p] = req[p]
  BY <1>1, PutIs
<1>14. IdleSlot.step = "idle" /\ \A q \in Requests : req'[q] = req[q]
  BY <1>13, DeskAssumption DEF IdleSlot
<1>15. QuoteSlotsOK'
  <2>1. QuoteSlotOK(req[t])'
    BY <1>13, <1>14 DEF QuoteSlotOK, QuoteSteps, Moves
  <2>2. ASSUME NEW p \in (Requests \cup Tills) \ {t} PROVE QuoteSlotOK(req[p])'
    BY <1>1, <1>13 DEF QuotesOK, QuoteSlotsOK, QuoteSlotOK
  <2>3. QED
    BY <2>1, <2>2 DEF QuoteSlotsOK
<1>16. row \in Versions(k)
  BY <1>4, <1>7, <1>9 DEF Versions
<1>17. \A j \in Papers : Versions(j)' \subseteq Versions(j)
  BY <1>9, <1>11, <1>16 DEF Versions
<1>18. StampsOK'
  <2>1. \A r : Stamped(r)' <=> Stamped(r)
    BY <1>1 DEF Stamped
  <2>2. QED
    BY <1>17, <2>1 DEF QuotesOK, StampsOK
<1>19. \A o \in Tills, j \in Papers : quote[o][j].stamp \in Nat /\ quote'[o][j].stamp \in Nat
  <2>1. \A r \in QuoteRow : r.stamp \in Nat
    BY DEF QuoteRow
  <2>2. quote \in [Tills -> [Papers -> QuoteRow]]
    BY DEF QuotesOK, QuoteTypes
  <2>3. QED
    BY <1>11, <2>1, <2>2
<1>20. \A o \in Tills, j \in Papers \ harmed' : quote'[o][j].stamp >= quote[o][j].stamp
  <2>1. k \notin harmed' => quote'[t][k].stamp >= quote[t][k].stamp
    BY <1>8, <1>10, <1>11
  <2>2. QED
    BY <1>11, <1>19, <2>1
<1>21. k \notin harmed' => quote'[t][k].stamp >= row.stamp
  BY <1>4, <1>8, <1>10, <1>11
<1>22. QuotesTravel'
  <2>1. SUFFICES ASSUME NEW j \in Papers \ harmed', NEW r \in Versions(j)'
                 PROVE  Telling(j, r.stamp)' \/ \A o \in Tills : Reached(o, j, r.stamp)'
    BY DEF QuotesTravel
  <2>2. r \in Versions(j) /\ r.stamp \in Nat /\ j \notin harmed
    BY <1>11, <1>17, VersionTypes DEF QuotesOK, QuoteRow
  <2>3. ASSUME Telling(j, r.stamp) PROVE Telling(j, r.stamp)'
    <3>1. PICK p \in Requests : AtStep(p, "emitQuote") /\ req[p].doc = j
                                /\ quote[req[p].at][j].stamp >= r.stamp
      BY <2>3 DEF Telling
    <3>2. req'[p] = req[p] /\ req[p].at \in Tills
      BY <1>14, <3>1 DEF AtStep, QuotesOK, QuoteSlotsOK, QuoteSlotOK, QuoteSteps
    <3>3. quote'[req'[p].at][j].stamp >= r.stamp
      BY <1>19, <1>20, <2>2, <3>1, <3>2
    <3>4. QED
      BY <3>1, <3>2, <3>3 DEF Telling, AtStep
  <2>4. ASSUME NEW o \in Tills, Reached(o, j, r.stamp) PROVE Reached(o, j, r.stamp)'
    <3>1. CASE quote[o][j].stamp >= r.stamp
      <4>1. quote'[o][j].stamp >= r.stamp
        BY <1>19, <1>20, <2>2, <3>1
      <4>2. QED
        BY <4>1 DEF Reached
    <3>2. CASE \E d \in Quoted(o) : d.paper = j /\ d.row.stamp >= r.stamp
      <4>1. PICK d \in Quoted(o) : d.paper = j /\ d.row.stamp >= r.stamp
        BY <3>2
      <4>2. CASE d \in Quoted(o)'
        BY <4>1, <4>2 DEF Reached
      <4>3. CASE d \notin Quoted(o)'
        <5>1. o = t /\ d = e
          BY <1>9, <4>3
        <5>2. j = k /\ row.stamp >= r.stamp
          BY <1>4, <1>7, <4>1, <5>1
        <5>3. quote'[o][j].stamp >= r.stamp
          BY <1>8, <1>19, <1>21, <2>2, <5>1, <5>2
        <5>4. QED
          BY <5>3 DEF Reached
      <4>4. QED
        BY <4>2, <4>3
    <3>3. QED
      BY <2>4, <3>1, <3>2 DEF Reached
  <2>5. QED
    BY <2>2, <2>3, <2>4 DEF QuotesOK, QuotesTravel
<1>23. ApplyOK'
  <2>1. SUFFICES ASSUME NEW o \in Tills, AtStep(o, "apply")'
                 PROVE  /\ inbox'[o] # <<>> /\ Head(inbox'[o]).kind = "quote"
                        /\ Head(inbox'[o]).paper = req'[o].doc
                        /\ \/ req'[o].doc \in harmed'
                           \/ req'[o].seen <= quote'[o][req'[o].doc].stamp
    BY DEF ApplyOK
  <2>2. o # t /\ req'[o] = req[o] /\ AtStep(o, "apply")
    BY <1>13, <1>14, <2>1 DEF AtStep
  <2>3. req[o].doc \in Papers
    BY <2>2 DEF QuotesOK, QuoteSlotsOK, QuoteSlotOK, AtStep, QuoteSteps
  <2>4. QED
    BY <1>9, <1>11, <2>2, <2>3 DEF QuotesOK, ApplyOK
<1>24. ParkedOK'
  <2>1. SUFFICES ASSUME NEW o \in Tills, NEW j \in Papers
                 PROVE  /\ IsFiniteSet(Wins(o, j)')
                        /\ Cardinality(Wins(o, j)') + Spare(o, j)' <= 1 + undone'[o][j]
    BY DEF ParkedOK
  <2>2. /\ IsFiniteSet(Wins(o, j)) /\ Cardinality(Wins(o, j)) \in Nat
        /\ Cardinality(Wins(o, j)) + Spare(o, j) <= 1 + undone[o][j] /\ undone[o][j] \in Nat
    BY FS_CardinalityType DEF QuotesOK, ParkedOK, QuoteTypes
  <2>3. Wins(o, j)' = Wins(o, j)
    BY <1>1 DEF Wins
  <2>4. CASE o # t \/ j # k \/ ~(row.stamp > seen)
    <3>1. quote'[o][j] = quote[o][j]
      BY <1>11, <2>4
    <3>2. undone'[o][j] = undone[o][j]
      BY <1>10, <2>4 DEF QuotesOK, QuoteTypes
    <3>3. QED
      BY <2>2, <2>3, <3>1, <3>2 DEF Spare
  <2>5. CASE o = t /\ j = k /\ row.stamp > seen
    <3>1. undone'[t][k] = undone[t][k] +
             (IF quote[t][k].status = "converted" /\ row.status # "converted" THEN 1 ELSE 0)
      BY <1>10, <2>5 DEF QuotesOK, QuoteTypes
    <3>2. Spare(t, k)' = IF row.status = "converted" THEN 0 ELSE 1
      BY <1>11, <2>5 DEF Spare
    <3>3. QED
      BY <2>2, <2>3, <2>5, <3>1, <3>2 DEF Spare
  <2>6. QED
    BY <2>4, <2>5
<1>25. \A p \in Requests : AtStep(p, "stamp")' <=> AtStep(p, "stamp")
  BY <1>14 DEF AtStep
<1>26. StampingOK'
  BY <1>1, <1>14, <1>25 DEF QuotesOK, StampingOK
<1>27. HeldOK'
  <2>1. \A h : BeingStamped(h) => BeingStamped(h)'
    BY <1>14, <1>25 DEF BeingStamped
  <2>2. QED
    BY <1>1, <2>1 DEF QuotesOK, HeldOK
<1>28. QED
  BY <1>12, <1>15, <1>18, <1>22, <1>23, <1>24, <1>26, <1>27 DEF QuotesOK

\* A death takes events with it, and says which.
LEMMA QuotesSurvive ==
    ASSUME DeskOK, SlotsOK, QuotesOK, NEW t \in Tills, Crash(t)
    PROVE  QuotesOK'
<1>1. /\ UNCHANGED <<now, inbox, quote, held, parked, undone>> /\ crashes' = crashes + 1
      /\ crashes \in Nat
      /\ harmed' = harmed \cup {req[q].doc : q \in
            {r \in Requests : req[r].at = t /\ AtStep(r, "emitQuote")}}
      /\ \A q \in Requests \cup Tills : req'[q] = IF req[q].at = t THEN IdleSlot ELSE req[q]
  BY DEF Crash, ProcessDies, QuotesLose, SlotsOK, DeskOK
<1>2. IdleSlot.step = "idle"
  BY DEF IdleSlot
<1>3. QuoteTypes'
  BY <1>1 DEF QuotesOK, QuoteTypes
<1>4. QuoteSlotsOK'
  <2>1. ASSUME NEW p \in Requests \cup Tills PROVE QuoteSlotOK(req[p])'
    <3>1. CASE req'[p] = req[p]
      BY <1>1, <3>1 DEF QuotesOK, QuoteSlotsOK, QuoteSlotOK
    <3>2. CASE req'[p] = IdleSlot
      BY <1>2, <3>2 DEF QuoteSlotOK, QuoteSteps, Moves
    <3>3. QED
      BY <1>1, <3>1, <3>2
  <2>2. QED
    BY <2>1 DEF QuoteSlotsOK
<1>5. \A j \in Papers : Versions(j)' = Versions(j)
  BY <1>1 DEF Versions, Quoted, News
<1>6. StampsOK'
  <2>1. \A r : Stamped(r)' <=> Stamped(r)
    BY <1>1 DEF Stamped
  <2>2. QED
    BY <1>5, <2>1 DEF QuotesOK, StampsOK
<1>7. QuotesTravel'
  <2>1. SUFFICES ASSUME NEW j \in Papers \ harmed', NEW r \in Versions(j)
                 PROVE  Telling(j, r.stamp)' \/ \A o \in Tills : Reached(o, j, r.stamp)'
    BY <1>5 DEF QuotesTravel
  <2>2. Telling(j, r.stamp) => Telling(j, r.stamp)'
    BY <1>1 DEF Telling, AtStep
  <2>3. \A o \in Tills : Reached(o, j, r.stamp) => Reached(o, j, r.stamp)'
    BY <1>1 DEF Reached, Quoted, News
  <2>4. QED
    BY <1>1, <2>2, <2>3 DEF QuotesOK, QuotesTravel
<1>8. ApplyOK'
  <2>1. \A o \in Tills : AtStep(o, "apply")' => AtStep(o, "apply") /\ req'[o] = req[o]
    BY <1>1, <1>2 DEF AtStep
  <2>2. QED
    BY <1>1, <2>1 DEF QuotesOK, ApplyOK
<1>9. ParkedOK'
  BY <1>1 DEF QuotesOK, ParkedOK, Wins, Spare
<1>10. \A p \in Requests : AtStep(p, "stamp")' => AtStep(p, "stamp") /\ req'[p] = req[p]
  BY <1>1, <1>2 DEF AtStep
<1>11. StampingOK'
  BY <1>1, <1>10 DEF QuotesOK, StampingOK
<1>12. HeldOK'
  <2>1. crashes' > 0
    BY <1>1
  <2>2. QED
    BY <1>1, <2>1 DEF QuotesOK, HeldOK
<1>13. QED
  BY <1>3, <1>4, <1>6, <1>7, <1>8, <1>9, <1>11, <1>12 DEF QuotesOK

-----------------------------------------------------------------------------
(***************************************************************************)
(* The drawer.                                                             *)
(***************************************************************************)
\* A payment is named by the moment it was made; a till hears of other tills' payments.
PaymentOK(p) ==
    /\ p.id \in 1..now /\ p.at = Clock(p.till, p.id)
    /\ p.during \subseteq 1..now
    /\ p.session \in 1..now \/ p.session = None
PaymentsOK ==
    \A o \in Tills :
        /\ \A p \in cash[o] \cup Heard(o) : PaymentOK(p)
        /\ \A p \in Heard(o) : p.till # o
PaidOnce ==
    \A t, o \in Tills : \A p \in cash[t] : \A r \in cash[o] \cup Heard(o) :
        p.till = t /\ r.id = p.id => r.till = t /\ (o = t => r = p)

\* The copies of sessions that tills have and that are on their way to one.
Rows(o) == {shift[o][i] : i \in DOMAIN shift[o]}
Copies == UNION {Rows(o) \cup Told(o) : o \in Tills}
SameClose(r, s) == r.uuid = s.uuid /\ r.by = s.by /\ r.closed = s.closed /\ r.counted = s.counted
\* The till that opened a session has it, and the till that closed it has closed it so.
CopyOK(r) ==
    /\ r.uuid \in 1..now /\ r.opened = Clock(r.till, r.uuid) /\ r.counted \subseteq 1..now
    /\ \E origin \in Rows(r.till) : origin.uuid = r.uuid
    /\ r.closed = 0 => r.by = None /\ r.counted = {}
    /\ r.closed # 0 => r.by \in Tills /\ \E own \in Rows(r.by) : SameClose(own, r)
RowsOnce == \A t \in Tills : \A i, j \in DOMAIN shift[t] : shift[t][i].uuid = shift[t][j].uuid => i = j
CopiesOK ==
    /\ RowsOnce
    /\ \A r \in Copies : CopyOK(r)
    /\ \A r, s \in Copies : r.uuid = s.uuid => r.till = s.till

\* Copy r says of a session what copy s does: that there is one, and that it is closed.
Covers(r, s) == r.uuid = s.uuid /\ (s.closed # 0 => r.closed # 0)
TellingOf(s) ==
    \E q \in Requests :
        /\ AtStep(q, "emitShift") /\ req[q].doc = s.uuid
        /\ \E r \in Rows(req[q].at) : Covers(r, s)
Known(o, s) == \E r \in Rows(o) \cup Told(o) : Covers(r, s)
SessionsTravel ==
    \A s \in Copies : s.uuid \in unsent \/ TellingOf(s) \/ \A o \in Tills : Known(o, s)

\* Payments and sessions of the till itself.
Local(t) == {p \in cash[t] : p.till = t}
Own(t) == {i \in DOMAIN shift[t] : shift[t][i].till = t}
\* A payment is during every session of its cashier that was open by then and still is.
DuringOK ==
    \A t \in Tills : \A p \in Local(t) : \A i \in Own(t) :
        /\ /\ shift[t][i].closed = 0 /\ shift[t][i].owner = p.who /\ shift[t][i].uuid <= p.id
           => shift[t][i].uuid \in p.during
        /\ p.session = shift[t][i].uuid
           => p.who = shift[t][i].owner /\ shift[t][i].uuid <= p.id
\* The ids counted for a session of this uuid are those they should be.
Right(t, counted, uuid) ==
    \A p \in Local(t) :
        /\ p.id \in counted => uuid \in p.during
        /\ p.session = uuid => p.id \in counted \/ p.status = "VOIDED"
CountingOK ==
    \A q \in Requests : AtStep(q, "close") =>
        LET row == shift[req[q].at][req[q].doc]
        IN row.till = req[q].at /\ row.closed = 0 => Right(req[q].at, req[q].sum, row.uuid)
CountedOK ==
    \A t \in Tills : \A i \in Own(t) :
        shift[t][i].by = t => Right(t, shift[t][i].counted, shift[t][i].uuid)

DrawerOK ==
    /\ DrawerTypes /\ DrawerSlotsOK
    /\ PaymentsOK /\ PaidOnce
    /\ CopiesOK /\ SessionsTravel
    /\ DuringOK /\ CountingOK /\ CountedOK

-----------------------------------------------------------------------------
LEMMA RowTypes ==
    ASSUME DrawerTypes, NEW t \in Tills
    PROVE  /\ shift[t] \in Seq(Session) /\ Len(shift[t]) \in Nat /\ DOMAIN shift[t] = 1..Len(shift[t])
           /\ \A i \in DOMAIN shift[t] : shift[t][i] \in Session
           /\ Rows(t) \subseteq Session
           /\ cash[t] \subseteq Payment
BY DEF DrawerTypes, Rows

LEMMA CopyTypes ==
    ASSUME DeskOK, DrawerTypes
    PROVE  Copies \subseteq Session
BY RowTypes, NewsTypes DEF Copies

\* What is known of the sessions stays as long as they and the events about them do.
LEMMA SessionsStay ==
    ASSUME DeskOK, DrawerOK, UNCHANGED <<shift, unsent>>, now' \in Nat, now <= now',
           \A o \in Tills : Told(o)' = Told(o),
           \A q \in Requests : AtStep(q, "emitShift") => req'[q] = req[q]
    PROVE  CopiesOK' /\ SessionsTravel'
<1>1. \A o \in Tills : Rows(o)' = Rows(o)
  BY DEF Rows
<1>2. Copies' = Copies
  BY <1>1 DEF Copies
<1>3. ASSUME NEW r \in Copies PROVE CopyOK(r)'
  <2>1. 1..now \subseteq 1..now'
    BY DEF DeskOK
  <2>2. r \in Session /\ CopyOK(r)
    BY CopyTypes DEF DrawerOK, CopiesOK
  <2>3. r.till \in Tills
    BY <2>2 DEF Session
  <2>4. QED
    BY <1>1, <2>1, <2>2, <2>3 DEF CopyOK
<1>4. CopiesOK'
  BY <1>2, <1>3 DEF DrawerOK, CopiesOK, RowsOnce
<1>5. SessionsTravel'
  <2>1. SUFFICES ASSUME NEW s \in Copies
                 PROVE  s.uuid \in unsent \/ TellingOf(s)' \/ \A o \in Tills : Known(o, s)'
    BY <1>2 DEF SessionsTravel
  <2>2. TellingOf(s) => TellingOf(s)'
    <3>1. \A q \in Requests : AtStep(q, "emitShift") => req[q].at \in Tills
      BY DEF DrawerOK, DrawerSlotsOK, DrawerSlotOK, AtStep
    <3>2. QED
      BY <1>1, <3>1 DEF TellingOf, AtStep
  <2>3. \A o \in Tills : Known(o, s) => Known(o, s)'
    BY <1>1 DEF Known
  <2>4. QED
    BY <2>2, <2>3 DEF DrawerOK, SessionsTravel
<1>6. QED
  BY <1>4, <1>5

\* What is known of the payments stays as long as they and the events about them do.
LEMMA PaymentsStay ==
    ASSUME DeskOK, DrawerOK, UNCHANGED cash, now' \in Nat, now <= now',
           \A o \in Tills : Heard(o)' = Heard(o)
    PROVE  /\ PaymentsOK' /\ PaidOnce'
           /\ \A t \in Tills : Local(t)' = Local(t)
           /\ \A t \in Tills : \A counted, uuid : Right(t, counted, uuid)' <=> Right(t, counted, uuid)
<1>1. 1..now \subseteq 1..now'
  BY DEF DeskOK
<1>2. \A p : PaymentOK(p) => PaymentOK(p)'
  BY <1>1 DEF PaymentOK
<1>3. PaymentsOK'
  BY <1>2 DEF DrawerOK, PaymentsOK
<1>4. PaidOnce'
  BY DEF DrawerOK, PaidOnce
<1>5. QED
  BY <1>3, <1>4 DEF Local, Right

\* What does not depend on the news stays as long as the rows, the payments and the
\* requests that add up do.
LEMMA RestStays ==
    ASSUME DeskOK, SlotsOK, DrawerOK, UNCHANGED <<shift, cash>>, now' \in Nat, now <= now',
           \A o \in Tills : Heard(o)' = Heard(o),
           \A q \in Requests : req'[q] = req[q] \/ DrawerSlotOK(req[q])'
    PROVE  /\ DrawerTypes' /\ DrawerSlotsOK' /\ PaymentsOK' /\ PaidOnce' /\ DuringOK' /\ CountedOK'
           /\ \A t \in Tills : \A counted, uuid : Right(t, counted, uuid)' <=> Right(t, counted, uuid)
           /\ (\A q \in Requests : req'[q] = req[q] \/ req'[q].step # "close") => CountingOK'
<1>1. DrawerTypes'
  BY DEF DrawerOK, DrawerTypes
<1>2. /\ PaymentsOK' /\ PaidOnce'
      /\ \A t \in Tills : Local(t)' = Local(t)
      /\ \A t \in Tills : \A counted, uuid : Right(t, counted, uuid)' <=> Right(t, counted, uuid)
  BY PaymentsStay
<1>3. DrawerSlotsOK'
  <2>1. SUFFICES ASSUME NEW q \in Requests PROVE DrawerSlotOK(req[q])'
    BY DEF DrawerSlotsOK
  <2>2. CASE req'[q] = req[q]
    <3>1. DrawerSlotOK(req[q])
      BY DEF DrawerOK, DrawerSlotsOK
    <3>2. 1..now \subseteq 1..now'
      BY DEF DeskOK
    <3>3. QED
      BY <2>2, <3>1, <3>2 DEF DrawerSlotOK, RowOf
  <2>3. QED
    BY <2>2
<1>4. DuringOK'
  BY <1>2 DEF DrawerOK, DuringOK, Own
<1>5. CountedOK'
  BY <1>2 DEF DrawerOK, CountedOK, Own
<1>6. ASSUME \A q \in Requests : req'[q] = req[q] \/ req'[q].step # "close" PROVE CountingOK'
  <2>1. \A q \in Requests : AtStep(q, "close")' => AtStep(q, "close") /\ req'[q] = req[q]
    BY <1>6 DEF AtStep
  <2>2. \A q \in Requests : AtStep(q, "close") => req[q].at \in Tills
    BY DEF DrawerOK, DrawerSlotsOK, DrawerSlotOK, AtStep
  <2>3. QED
    BY <1>2, <2>1, <2>2 DEF DrawerOK, CountingOK
<1>7. QED
  BY <1>1, <1>2, <1>3, <1>4, <1>5, <1>6

\* What is about quotes leaves the drawer alone, and so does a request that only looks for
\* an open session.
LEMMA DrawerStays ==
    ASSUME DeskOK, SlotsOK, DrawerOK, UNCHANGED <<shift, cash, unsent>>,
           now' \in Nat, now <= now',
           \A o \in Tills : Heard(o)' = Heard(o) /\ Told(o)' = Told(o),
           \A q \in Requests :
               \/ req'[q] = req[q]
               \/ req[q].step # "emitShift" /\ req'[q].step # "close" /\ DrawerSlotOK(req[q])'
    PROVE  DrawerOK'
<1>1. \A q \in Requests : AtStep(q, "emitShift") => req'[q] = req[q]
  BY DEF AtStep
<1>2. CopiesOK' /\ SessionsTravel'
  BY <1>1, SessionsStay
<1>3. /\ DrawerTypes' /\ DrawerSlotsOK' /\ PaymentsOK' /\ PaidOnce' /\ DuringOK' /\ CountedOK'
      /\ CountingOK'
  BY RestStays
<1>4. QED
  BY <1>2, <1>3 DEF DrawerOK

\* Payments may come that are not the till's own, and its own may be voided.
LEMMA PaymentsChange ==
    ASSUME DeskOK, SlotsOK, DrawerOK, UNCHANGED <<now, req, shift, unsent>>,
           cash' \in [Tills -> SUBSET Payment], PaymentsOK', PaidOnce',
           \A o \in Tills : Told(o)' = Told(o),
           \A t \in Tills : \A r \in Local(t)' : \E p \in Local(t) :
               /\ r.id = p.id /\ r.who = p.who /\ r.during = p.during /\ r.session = p.session
               /\ p.status = "VOIDED" => r.status = "VOIDED"
    PROVE  DrawerOK'
<1>1. DrawerTypes'
  BY DEF DrawerOK, DrawerTypes
<1>2. now' \in Nat /\ now <= now'
  BY DeskAssumption DEF DeskOK
<1>3. CopiesOK' /\ SessionsTravel'
  BY <1>2, SessionsStay
<1>4. DrawerSlotsOK'
  BY DEF DrawerOK, DrawerSlotsOK, DrawerSlotOK, RowOf
<1>5. \A t \in Tills : \A counted, uuid : Right(t, counted, uuid) => Right(t, counted, uuid)'
  <2>1. SUFFICES ASSUME NEW t \in Tills, NEW counted, NEW uuid, Right(t, counted, uuid),
                        NEW r \in Local(t)'
                 PROVE  /\ r.id \in counted => uuid \in r.during
                        /\ r.session = uuid => r.id \in counted \/ r.status = "VOIDED"
    BY DEF Right
  <2>2. PICK p \in Local(t) :
            /\ r.id = p.id /\ r.who = p.who /\ r.during = p.during /\ r.session = p.session
            /\ p.status = "VOIDED" => r.status = "VOIDED"
    OBVIOUS
  <2>3. /\ p.id \in counted => uuid \in p.during
        /\ p.session = uuid => p.id \in counted \/ p.status = "VOIDED"
    BY <2>1 DEF Right
  <2>4. QED
    BY <2>2, <2>3
<1>6. DuringOK'
  <2>1. SUFFICES ASSUME NEW t \in Tills, NEW r \in Local(t)', NEW i \in Own(t)
                 PROVE  /\ /\ shift[t][i].closed = 0 /\ shift[t][i].owner = r.who
                           /\ shift[t][i].uuid <= r.id
                           => shift[t][i].uuid \in r.during
                        /\ r.session = shift[t][i].uuid
                           => r.who = shift[t][i].owner /\ shift[t][i].uuid <= r.id
    BY DEF DuringOK, Own
  <2>2. PICK p \in Local(t) :
            r.id = p.id /\ r.who = p.who /\ r.during = p.during /\ r.session = p.session
    OBVIOUS
  <2>3. QED
    BY <2>2 DEF DrawerOK, DuringOK
<1>7. CountingOK'
  <2>1. \A q \in Requests : AtStep(q, "close") => req[q].at \in Tills
    BY DEF DrawerOK, DrawerSlotsOK, DrawerSlotOK, AtStep
  <2>2. QED
    BY <1>5, <2>1 DEF DrawerOK, CountingOK, AtStep
<1>8. CountedOK'
  BY <1>5 DEF DrawerOK, CountedOK, Own
<1>9. QED
  BY <1>1, <1>3, <1>4, <1>6, <1>7, <1>8 DEF DrawerOK

\* Voiding turns one payment.
LEMMA VoidedIs ==
    ASSUME NEW S \in SUBSET Payment, NEW id, NEW r \in Voided(S, id)
    PROVE  /\ r \in Payment
           /\ \E p \in S : /\ r.id = p.id /\ r.who = p.who /\ r.at = p.at /\ r.till = p.till
                           /\ r.during = p.during /\ r.session = p.session
                           /\ p.status = "VOIDED" => r.status = "VOIDED"
                           /\ r = IF p.id = id THEN [p EXCEPT !.status = "VOIDED"] ELSE p
<1>1. PICK p \in S : r = IF p.id = id THEN [p EXCEPT !.status = "VOIDED"] ELSE p
  BY DEF Voided
<1>2. p \in Payment
  OBVIOUS
<1>3. QED
  BY <1>1, <1>2 DEF Payment

LEMMA VoidOK ==
    ASSUME DeskOK, SlotsOK, DrawerOK, UNCHANGED <<now, req, shift, unsent>>,
           NEW t \in Tills, NEW id, cash' = [cash EXCEPT ![t] = Voided(@, id)],
           \A o \in Tills : Told(o)' = Told(o) /\ Heard(o)' = Heard(o)
    PROVE  DrawerOK'
<1>1. cash \in [Tills -> SUBSET Payment]
  BY DEF DrawerOK, DrawerTypes
<1>2. cash'[t] = Voided(cash[t], id) /\ \A o \in Tills \ {t} : cash'[o] = cash[o]
  BY <1>1
<1>3. Voided(cash[t], id) \subseteq Payment
  BY <1>1, VoidedIs
<1>4. cash' \in [Tills -> SUBSET Payment]
  BY <1>1, <1>3
<1>5. ASSUME NEW o \in Tills, NEW r \in cash'[o]
      PROVE  \E p \in cash[o] : /\ r.id = p.id /\ r.who = p.who /\ r.at = p.at /\ r.till = p.till
                                /\ r.during = p.during /\ r.session = p.session
                                /\ p.status = "VOIDED" => r.status = "VOIDED"
                                /\ r = IF o = t /\ p.id = id THEN [p EXCEPT !.status = "VOIDED"] ELSE p
  BY <1>1, <1>2, VoidedIs
<1>6. PaymentsOK'
  <2>1. SUFFICES ASSUME NEW o \in Tills
                 PROVE  /\ \A p \in cash'[o] \cup Heard(o) : PaymentOK(p)'
                        /\ \A p \in Heard(o) : p.till # o
    BY DEF PaymentsOK
  <2>2. \A p \in cash[o] \cup Heard(o) : PaymentOK(p)
    BY DEF DrawerOK, PaymentsOK
  <2>3. \A p : PaymentOK(p)' <=> PaymentOK(p)
    BY DEF PaymentOK
  <2>4. ASSUME NEW r \in cash'[o] PROVE PaymentOK(r)
    BY <1>5, <2>2 DEF PaymentOK
  <2>5. QED
    BY <2>2, <2>3, <2>4 DEF DrawerOK, PaymentsOK
<1>7. PaidOnce'
  <2>1. SUFFICES ASSUME NEW u \in Tills, NEW o \in Tills, NEW a \in cash'[u],
                        NEW b \in cash'[o] \cup Heard(o), a.till = u, b.id = a.id
                 PROVE  b.till = u /\ (o = u => b = a)
    BY DEF PaidOnce
  <2>2. PICK p \in cash[u] : /\ a.id = p.id /\ a.till = p.till
                             /\ a = IF u = t /\ p.id = id THEN [p EXCEPT !.status = "VOIDED"] ELSE p
    BY <1>5
  <2>3. CASE b \in cash'[o]
    <3>1. PICK r \in cash[o] : /\ b.id = r.id /\ b.till = r.till
                               /\ b = IF o = t /\ r.id = id THEN [r EXCEPT !.status = "VOIDED"] ELSE r
      BY <1>5, <2>3
    <3>2. r.till = u /\ (o = u => r = p)
      BY <2>1, <2>2, <3>1 DEF DrawerOK, PaidOnce
    <3>3. QED
      BY <2>2, <3>1, <3>2
  <2>4. CASE b \in Heard(o)
    <3>1. b.till = u
      BY <2>1, <2>2, <2>4 DEF DrawerOK, PaidOnce
    <3>2. o # u
      BY <2>4, <3>1 DEF DrawerOK, PaymentsOK
    <3>3. QED
      BY <3>1, <3>2
  <2>5. QED
    BY <2>3, <2>4
<1>8. ASSUME NEW u \in Tills, NEW r \in Local(u)'
      PROVE  \E p \in Local(u) :
               /\ r.id = p.id /\ r.who = p.who /\ r.during = p.during /\ r.session = p.session
               /\ p.status = "VOIDED" => r.status = "VOIDED"
  <2>1. r \in cash'[u] /\ r.till = u
    BY DEF Local
  <2>2. PICK p \in cash[u] :
            /\ r.till = p.till
            /\ r.id = p.id /\ r.who = p.who /\ r.during = p.during /\ r.session = p.session
            /\ p.status = "VOIDED" => r.status = "VOIDED"
    BY <1>5, <2>1
  <2>3. p \in Local(u)
    BY <2>1, <2>2 DEF Local
  <2>4. QED
    BY <2>2, <2>3
<1>9. QED
  BY <1>4, <1>6, <1>7, <1>8, PaymentsChange

LEMMA VoidSaleOK ==
    ASSUME DeskOK, SlotsOK, DrawerOK, NEW t \in Tills, VoidSale(t)
    PROVE  DrawerOK'
<1>1. PICK p \in cash[t] : /\ cash' = [cash EXCEPT ![t] = Voided(@, p.id)]
                           /\ Emit(t, [kind |-> "void", row |-> p])
  BY DEF VoidSale
<1>2. p \in Payment
  BY RowTypes DEF DrawerOK
<1>3. PICK e \in Event : e = [kind |-> "void", row |-> p]
  BY <1>2 DEF Event, CashEvent
<1>4. \A o \in Tills : Told(o)' = Told(o) /\ Heard(o)' = Heard(o)
  <2>1. e.kind = "void" /\ Emit(t, e)
    BY <1>1, <1>3
  <2>2. e.kind # "cash" /\ e.kind # "shift"
    BY <2>1
  <2>3. SUFFICES ASSUME NEW o \in Tills PROVE Told(o)' = Told(o) /\ Heard(o)' = Heard(o)
    OBVIOUS
  <2>4. /\ Heard(o)' = Heard(o) \cup (IF o # t /\ e.kind = "cash" THEN {e.row} ELSE {})
        /\ Told(o)' = Told(o) \cup (IF o # t /\ e.kind = "shift" THEN {e.row} ELSE {})
    BY <2>1, SentKinds
  <2>5. QED
    BY <2>2, <2>4
<1>5. UNCHANGED <<now, req, shift, unsent>>
  BY DEF VoidSale
<1>6. PICK id : id = p.id
  OBVIOUS
<1>7. QED
  BY <1>1, <1>4, <1>5, <1>6, VoidOK

LEMMA ApplyVoidOK ==
    ASSUME DeskOK, SlotsOK, DrawerOK, NEW t \in Tills, ApplyVoid(t)
    PROVE  DrawerOK'
<1>1. /\ inbox[t] # <<>> /\ Head(inbox[t]).kind = "void" /\ Received(t)
      /\ UNCHANGED <<now, req, shift, unsent>>
  BY DEF ApplyVoid, Arrived
<1>2. \A o \in Tills : Told(o)' = Told(o) /\ Heard(o)' = Heard(o)
  BY <1>1, TookKinds
<1>3. PICK id : id = Head(inbox[t]).row.id
  OBVIOUS
<1>4. cash' = [cash EXCEPT ![t] = Voided(@, id)]
  BY <1>3 DEF ApplyVoid
<1>5. QED
  BY <1>1, <1>2, <1>4, VoidOK

LEMMA ApplyCashOK ==
    ASSUME DeskOK, SlotsOK, DrawerOK, NEW t \in Tills, ApplyCash(t)
    PROVE  DrawerOK'
<1>1. /\ inbox[t] # <<>> /\ Head(inbox[t]).kind = "cash" /\ Received(t)
      /\ UNCHANGED <<now, req, shift, unsent>>
  BY DEF ApplyCash, Arrived
<1>2. PICK paid : paid = Head(inbox[t]).row
  OBVIOUS
<1>3. /\ \A o \in Tills : Told(o)' = Told(o) /\ Heard(o)' \subseteq Heard(o)
      /\ paid \in Heard(t)
  BY <1>1, <1>2, TookKinds
<1>4. paid \in Payment /\ paid.till # t /\ PaymentOK(paid)
  BY <1>3, NewsTypes DEF DrawerOK, PaymentsOK
<1>5. PICK who \in Staff : who = resolveLocalCashierID(t, paid.who)
  BY <1>4, DrawerAssumption DEF resolveLocalCashierID, Payment
<1>6. PICK copy : copy = [paid EXCEPT !.who = who]
  OBVIOUS
<1>7. /\ copy \in Payment /\ copy.id = paid.id /\ copy.at = paid.at /\ copy.till = paid.till
      /\ copy.during = paid.during /\ copy.session = paid.session
  BY <1>4, <1>6 DEF Payment
<1>8. cash' = [cash EXCEPT ![t] = @ \cup {copy}]
  <2>1. copy = [paid EXCEPT !.who = resolveLocalCashierID(t, @)]
    BY <1>4, <1>5, <1>6 DEF Payment
  <2>2. QED
    BY <1>2, <2>1 DEF ApplyCash
<1>9. cash \in [Tills -> SUBSET Payment]
  BY DEF DrawerOK, DrawerTypes
<1>10. /\ cash' \in [Tills -> SUBSET Payment] /\ cash'[t] = cash[t] \cup {copy}
       /\ \A o \in Tills \ {t} : cash'[o] = cash[o]
  BY <1>7, <1>8, <1>9
<1>11. \A p : PaymentOK(p)' <=> PaymentOK(p)
  BY <1>1 DEF PaymentOK
<1>12. PaymentOK(copy)
  BY <1>4, <1>7 DEF PaymentOK
<1>13. PaymentsOK'
  BY <1>3, <1>10, <1>11, <1>12 DEF DrawerOK, PaymentsOK
<1>14. PaidOnce'
  <2>1. SUFFICES ASSUME NEW u \in Tills, NEW o \in Tills, NEW a \in cash'[u],
                        NEW b \in cash'[o] \cup Heard(o)', a.till = u, b.id = a.id
                 PROVE  b.till = u /\ (o = u => b = a)
    BY DEF PaidOnce
  <2>2. a \in cash[u]
    BY <1>4, <1>7, <1>10, <2>1
  <2>3. CASE b \in cash[o] \cup Heard(o)
    BY <2>1, <2>2, <2>3 DEF DrawerOK, PaidOnce
  <2>4. CASE o = t /\ b = copy
    <3>1. paid.till = u
      BY <1>3, <1>7, <2>1, <2>2, <2>4 DEF DrawerOK, PaidOnce
    <3>2. QED
      BY <1>4, <1>7, <2>4, <3>1
  <2>5. QED
    BY <1>3, <1>10, <2>3, <2>4
<1>15. \A u \in Tills : Local(u)' \subseteq Local(u)
  BY <1>4, <1>7, <1>10 DEF Local
<1>16. QED
  BY <1>1, <1>3, <1>10, <1>13, <1>14, <1>15, PaymentsChange

\* A sale is during the sessions its cashier has open, and is their only one's if nobody is
\* closing it.
LEMMA CashSaleOK ==
    ASSUME DeskOK, SlotsOK, DrawerOK, NEW t \in Tills, NEW u \in Staff, CashSale(t, u)
    PROVE  DrawerOK'
<1>1. /\ now' \in 1..MaxMoments /\ now' = now + 1 /\ now \in Nat /\ nowStamp(t) \in Nat
      /\ nowStamp(t) = Clock(t, now')
  BY FreshStamp DEF CashSale
<1>2. PICK id \in Nat, at \in Nat : id = now' /\ at = nowStamp(t)
  BY <1>1
<1>3. \A i \in Serving(t, u) : shift[t][i].uuid \in 1..now
  <2>1. \A i \in DOMAIN shift[t] : CopyOK(shift[t][i])
    BY DEF DrawerOK, CopiesOK, Copies, Rows
  <2>2. QED
    BY <2>1 DEF Serving, OpenRows, CopyOK
<1>4. PICK during \in SUBSET (1..now) : during = {shift[t][i].uuid : i \in Serving(t, u)}
  BY <1>3
<1>5. PICK session : session = SessionOf(t, u)
  OBVIOUS
<1>6. session # None => \E i \in Serving(t, u) :
          OpenRows(t, u) = {i} /\ ~BeingClosed(t, i) /\ session = shift[t][i].uuid
  <2>1. SUFFICES ASSUME NEW i \in Serving(t, u), OpenRows(t, u) = {i}
                 PROVE  CurrentShift(t, u) = i
    BY <1>5 DEF SessionOf
  <2>2. Max({i}) = i
    <3>1. i \in Nat
      BY RowTypes DEF DrawerOK, Serving, OpenRows
    <3>2. \E x \in {i} : \A y \in {i} : x >= y
      BY <3>1
    <3>3. QED
      BY <3>2 DEF Max
  <2>3. QED
    BY <2>1, <2>2 DEF CurrentShift
<1>7. session \in 1..now \/ session = None
  BY <1>3, <1>6
<1>8. PICK paid : paid = [id |-> id, who |-> u, at |-> at, status |-> "COMPLETED", till |-> t,
                          during |-> during, session |-> session]
  OBVIOUS
<1>9. paid \in Payment
  BY <1>1, <1>4, <1>7, <1>8 DEF Payment
<1>10. /\ paid.id = id /\ paid.who = u /\ paid.at = at /\ paid.status = "COMPLETED" /\ paid.till = t
       /\ paid.during = during /\ paid.session = session
  BY <1>8
<1>11. /\ cash' = [cash EXCEPT ![t] = @ \cup {paid}]
       /\ Emit(t, [kind |-> "cash", row |-> paid])
       /\ UNCHANGED <<req, crashes, shift, asks, unsent>>
  BY <1>2, <1>4, <1>5, <1>8 DEF CashSale
<1>12. PICK e \in Event : e = [kind |-> "cash", row |-> paid]
  BY <1>9 DEF Event, CashEvent
<1>13. e.kind = "cash" /\ e.row = paid /\ Emit(t, e)
  BY <1>11, <1>12
<1>14. \A o \in Tills : Told(o)' = Told(o) /\ Heard(o)' = Heard(o) \cup (IF o # t THEN {paid} ELSE {})
  <2>1. e.kind # "shift"
    BY <1>13
  <2>2. SUFFICES ASSUME NEW o \in Tills
                 PROVE  Told(o)' = Told(o) /\ Heard(o)' = Heard(o) \cup (IF o # t THEN {paid} ELSE {})
    OBVIOUS
  <2>3. Emit(t, e)
    BY <1>13
  <2>4. /\ Heard(o)' = Heard(o) \cup (IF o # t /\ e.kind = "cash" THEN {e.row} ELSE {})
        /\ Told(o)' = Told(o) \cup (IF o # t /\ e.kind = "shift" THEN {e.row} ELSE {})
    BY <2>3, SentKinds
  <2>5. QED
    BY <1>13, <2>1, <2>4
<1>15. cash \in [Tills -> SUBSET Payment]
  BY DEF DrawerOK, DrawerTypes
<1>16. /\ cash' \in [Tills -> SUBSET Payment] /\ cash'[t] = cash[t] \cup {paid}
       /\ \A o \in Tills \ {t} : cash'[o] = cash[o]
  BY <1>9, <1>11, <1>15
<1>17. DrawerTypes'
  BY <1>11, <1>16 DEF DrawerOK, DrawerTypes
<1>18. DrawerSlotsOK'
  <2>1. 1..now \subseteq 1..now'
    BY <1>1
  <2>2. SUFFICES ASSUME NEW q \in Requests PROVE DrawerSlotOK(req[q])'
    BY DEF DrawerSlotsOK
  <2>3. DrawerSlotOK(req[q])
    BY DEF DrawerOK, DrawerSlotsOK
  <2>4. QED
    BY <1>11, <2>1, <2>3 DEF DrawerSlotOK, RowOf
<1>19. now' \in Nat /\ now <= now'
  BY <1>1
<1>20. CopiesOK' /\ SessionsTravel'
  BY <1>11, <1>14, <1>19, SessionsStay
<1>21. PaymentsOK'
  <2>1. 1..now \subseteq 1..now' /\ now' \in 1..now'
    BY <1>1
  <2>2. \A p : PaymentOK(p) => PaymentOK(p)'
    BY <2>1 DEF PaymentOK
  <2>3. PaymentOK(paid)'
    BY <1>1, <1>2, <1>4, <1>7, <1>10, <2>1 DEF PaymentOK
  <2>4. QED
    BY <1>10, <1>14, <1>16, <2>2, <2>3 DEF DrawerOK, PaymentsOK
<1>22. \A o \in Tills : \A p \in cash[o] \cup Heard(o) : p.id # id
  BY <1>1, <1>2 DEF DrawerOK, PaymentsOK, PaymentOK
<1>23. PaidOnce'
  <2>1. SUFFICES ASSUME NEW v \in Tills, NEW o \in Tills, NEW a \in cash'[v],
                        NEW b \in cash'[o] \cup Heard(o)', a.till = v, b.id = a.id
                 PROVE  b.till = v /\ (o = v => b = a)
    BY DEF PaidOnce
  <2>2. CASE a = paid
    <3>1. b = paid
      BY <1>10, <1>14, <1>16, <1>22, <2>1, <2>2
    <3>2. QED
      BY <2>1, <2>2, <3>1
  <2>3. CASE a \in cash[v]
    <3>1. b # paid
      BY <1>10, <1>22, <2>1, <2>3
    <3>2. b \in cash[o] \cup Heard(o)
      BY <1>14, <1>16, <3>1
    <3>3. QED
      BY <2>1, <2>3, <3>2 DEF DrawerOK, PaidOnce
  <2>4. QED
    BY <1>16, <2>2, <2>3
<1>24. \A o \in Tills : Local(o)' = Local(o) \cup (IF o = t THEN {paid} ELSE {})
  BY <1>10, <1>16 DEF Local
<1>25. \A o \in Tills : \A counted, uuid :
          /\ Right(o, counted, uuid) /\ id \notin counted
          /\ o = t => session # uuid
          => Right(o, counted, uuid)'
  BY <1>10, <1>24 DEF Right
<1>26. \A i \in DOMAIN shift[t] : /\ CopyOK(shift[t][i])
                                  /\ session = shift[t][i].uuid => i \in OpenRows(t, u) /\ ~BeingClosed(t, i)
  <2>1. SUFFICES ASSUME NEW i \in DOMAIN shift[t]
                 PROVE  /\ CopyOK(shift[t][i])
                        /\ session = shift[t][i].uuid => i \in OpenRows(t, u) /\ ~BeingClosed(t, i)
    OBVIOUS
  <2>2. CopyOK(shift[t][i])
    BY DEF DrawerOK, CopiesOK, Copies, Rows
  <2>3. ASSUME session = shift[t][i].uuid PROVE i \in OpenRows(t, u) /\ ~BeingClosed(t, i)
    <3>1. session # None
      BY <2>2, <2>3, DeskAssumption DEF CopyOK
    <3>2. PICK j \in Serving(t, u) :
              OpenRows(t, u) = {j} /\ ~BeingClosed(t, j) /\ session = shift[t][j].uuid
      BY <1>6, <3>1
    <3>3. j \in DOMAIN shift[t]
      BY DEF Serving, OpenRows
    <3>4. i = j
      BY <2>3, <3>2, <3>3 DEF DrawerOK, CopiesOK, RowsOnce
    <3>5. QED
      BY <3>2, <3>4
  <2>4. QED
    BY <2>2, <2>3
<1>27. DuringOK'
  <2>1. SUFFICES ASSUME NEW o \in Tills, NEW p \in Local(o)', NEW i \in Own(o)
                 PROVE  /\ /\ shift[o][i].closed = 0 /\ shift[o][i].owner = p.who
                           /\ shift[o][i].uuid <= p.id
                           => shift[o][i].uuid \in p.during
                        /\ p.session = shift[o][i].uuid
                           => p.who = shift[o][i].owner /\ shift[o][i].uuid <= p.id
    BY <1>11 DEF DuringOK, Own
  <2>2. CASE p \in Local(o)
    BY <2>2 DEF DrawerOK, DuringOK
  <2>3. CASE o = t /\ p = paid
    <3>1. i \in DOMAIN shift[t] /\ shift[t][i].till = t
      BY <2>3 DEF Own
    <3>2. shift[t][i].closed = 0 /\ shift[t][i].owner = u => i \in Serving(t, u)
      BY <3>1 DEF Serving, OpenRows
    <3>3. shift[t][i].closed = 0 /\ shift[t][i].owner = u => shift[t][i].uuid \in during
      BY <1>4, <3>2
    <3>4. shift[t][i].uuid \in 1..now /\ (session = shift[t][i].uuid => shift[t][i].owner = u)
      BY <1>26, <3>1 DEF CopyOK, OpenRows
    <3>5. QED
      BY <1>1, <1>2, <1>10, <2>3, <3>3, <3>4
  <2>4. QED
    BY <1>24, <2>2, <2>3
<1>28. CountingOK'
  <2>1. SUFFICES ASSUME NEW q \in Requests, AtStep(q, "close"),
                        NEW o, NEW i, o = req[q].at, i = req[q].doc,
                        shift[o][i].till = o, shift[o][i].closed = 0
                 PROVE  Right(o, req[q].sum, shift[o][i].uuid)'
    BY <1>11 DEF CountingOK, AtStep
  <2>2. o \in Tills /\ i \in DOMAIN shift[o] /\ req[q].sum \subseteq 1..now
    BY <2>1 DEF DrawerOK, DrawerSlotsOK, DrawerSlotOK, AtStep
  <2>3. Right(o, req[q].sum, shift[o][i].uuid)
    BY <2>1 DEF DrawerOK, CountingOK
  <2>4. id \notin req[q].sum
    BY <1>1, <1>2, <2>2
  <2>5. o = t => session # shift[o][i].uuid
    BY <1>26, <2>1, <2>2 DEF BeingClosed
  <2>6. PICK sum, uuid : sum = req[q].sum /\ uuid = shift[o][i].uuid
    OBVIOUS
  <2>7. Right(o, sum, uuid)'
    BY <1>25, <2>2, <2>3, <2>4, <2>5, <2>6
  <2>8. QED
    BY <1>11, <2>6, <2>7
<1>29. CountedOK'
  <2>1. SUFFICES ASSUME NEW o \in Tills, NEW i \in Own(o), shift[o][i].by = o
                 PROVE  Right(o, shift[o][i].counted, shift[o][i].uuid)'
    BY <1>11 DEF CountedOK, Own
  <2>2. Right(o, shift[o][i].counted, shift[o][i].uuid)
    BY <2>1 DEF DrawerOK, CountedOK
  <2>3. i \in DOMAIN shift[o] /\ CopyOK(shift[o][i])
    BY DEF Own, DrawerOK, CopiesOK, Copies, Rows
  <2>4. id \notin shift[o][i].counted
    BY <1>1, <1>2, <2>3 DEF CopyOK
  <2>5. shift[o][i].closed # 0
    BY <2>1, <2>3, DeskAssumption DEF CopyOK
  <2>6. o = t => session # shift[o][i].uuid
    BY <1>26, <2>3, <2>5 DEF OpenRows
  <2>7. PICK counted, uuid : counted = shift[o][i].counted /\ uuid = shift[o][i].uuid
    OBVIOUS
  <2>8. Right(o, counted, uuid)'
    BY <1>25, <2>2, <2>4, <2>6, <2>7
  <2>9. QED
    BY <1>11, <2>7, <2>8
<1>30. QED
  BY <1>17, <1>18, <1>20, <1>21, <1>23, <1>27, <1>28, <1>29 DEF DrawerOK

\* A session more on a till: a new one, or a copy of another till's.
LEMMA Added ==
    ASSUME DeskOK, SlotsOK, DrawerOK, NEW t \in Tills, NEW row \in Session,
           shift' = [shift EXCEPT ![t] = Append(@, row)], UNCHANGED cash,
           now' \in Nat, now <= now',
           \A o \in Tills : Heard(o)' = Heard(o) /\ Told(o)' \subseteq Told(o),
           \A i \in DOMAIN shift[t] : shift[t][i].uuid # row.uuid,
           \A s \in Copies : s.uuid = row.uuid => s.till = row.till,
           CopyOK(row)',
           row.till = t => row.by = None /\ row.uuid = now + 1,
           \A q \in Requests :
               req'[q] = req[q] \/ (req'[q].step # "close" /\ DrawerSlotOK(req[q])')
    PROVE  /\ DrawerTypes' /\ DrawerSlotsOK' /\ PaymentsOK' /\ PaidOnce'
           /\ CopiesOK' /\ DuringOK' /\ CountingOK' /\ CountedOK'
           /\ \A o \in Tills : Rows(o)' = Rows(o) \cup (IF o = t THEN {row} ELSE {})
           /\ Copies' \subseteq Copies \cup {row}
<1>1. /\ DOMAIN shift' = Tills /\ shift'[t] = Append(shift[t], row)
       /\ \A o \in Tills \ {t} : shift'[o] = shift[o]
  BY DEF DrawerOK, DrawerTypes
<1>2. /\ shift[t] \in Seq(Session) /\ Len(shift[t]) \in Nat /\ DOMAIN shift[t] = 1..Len(shift[t])
  BY RowTypes DEF DrawerOK
<1>3. PICK last : last = Len(shift[t]) + 1
  OBVIOUS
<1>4. /\ shift'[t] \in Seq(Session) /\ DOMAIN shift'[t] = DOMAIN shift[t] \cup {last}
       /\ \A i \in DOMAIN shift[t] : shift'[t][i] = shift[t][i] /\ i # last
       /\ shift'[t][last] = row
  BY <1>1, <1>2, <1>3
<1>5. \A o \in Tills : Rows(o)' = Rows(o) \cup (IF o = t THEN {row} ELSE {})
  BY <1>1, <1>4 DEF Rows
<1>6. DrawerTypes'
  <2>1. \A o \in Tills : shift[o] \in Seq(Session)
    BY RowTypes DEF DrawerOK
  <2>2. \A o \in Tills : shift'[o] \in Seq(Session)
    BY <1>1, <1>4, <2>1
  <2>3. QED
    BY <1>1, <2>2 DEF DrawerOK, DrawerTypes
<1>7. Copies' \subseteq Copies \cup {row}
  BY <1>5 DEF Copies
<1>8. \A o \in Tills : \A i \in DOMAIN shift[o] : i \in DOMAIN shift'[o] /\ shift'[o][i] = shift[o][i]
  BY <1>1, <1>4
<1>9. \A s \in Copies : CopyOK(s) /\ s \in Session
  BY CopyTypes DEF DrawerOK, CopiesOK
<1>10. 1..now \subseteq 1..now'
  BY DEF DeskOK
<1>11. DrawerSlotsOK'
  <2>1. SUFFICES ASSUME NEW p \in Requests, req'[p] = req[p] PROVE DrawerSlotOK(req[p])'
    BY DEF DrawerSlotsOK
  <2>2. DrawerSlotOK(req[p])
    BY DEF DrawerOK, DrawerSlotsOK
  <2>3. \A o \in Tills : \A uuid : RowOf(o, uuid) \subseteq RowOf(o, uuid)'
    BY <1>8 DEF RowOf
  <2>4. QED
    BY <1>8, <1>10, <2>1, <2>2, <2>3 DEF DrawerSlotOK
<1>12. /\ PaymentsOK' /\ PaidOnce'
       /\ \A o \in Tills : Local(o)' = Local(o)
       /\ \A o \in Tills : \A counted, uuid : Right(o, counted, uuid)' <=> Right(o, counted, uuid)
  BY PaymentsStay
<1>13. RowsOnce'
  <2>1. SUFFICES ASSUME NEW o \in Tills, NEW i \in DOMAIN shift'[o], NEW j \in DOMAIN shift'[o],
                        shift'[o][i].uuid = shift'[o][j].uuid
                 PROVE  i = j
    BY DEF RowsOnce
  <2>2. CASE i \in DOMAIN shift[o] /\ j \in DOMAIN shift[o]
    <3>1. shift[o][i].uuid = shift[o][j].uuid
      BY <1>8, <2>1, <2>2
    <3>2. QED
      BY <2>2, <3>1 DEF DrawerOK, CopiesOK, RowsOnce
  <2>3. CASE o = t /\ (i = last \/ j = last)
    BY <1>4, <2>1, <2>3
  <2>4. QED
    BY <1>1, <1>4, <2>2, <2>3
<1>14. \A s \in Copies' : CopyOK(s)'
  <2>1. ASSUME NEW s \in Copies PROVE CopyOK(s)'
    <3>1. CopyOK(s) /\ s.till \in Tills
      BY <1>9 DEF Session
    <3>2. QED
      BY <1>5, <1>10, <3>1 DEF CopyOK
  <2>2. QED
    BY <1>7, <2>1
<1>15. CopiesOK'
  <2>1. \A r, s \in Copies' : r.uuid = s.uuid => r.till = s.till
    BY <1>7 DEF DrawerOK, CopiesOK
  <2>2. QED
    BY <1>13, <1>14, <2>1 DEF CopiesOK
<1>16. DuringOK'
  <2>1. SUFFICES ASSUME NEW o \in Tills, NEW p \in Local(o), NEW i \in DOMAIN shift'[o],
                        shift'[o][i].till = o
                 PROVE  /\ /\ shift'[o][i].closed = 0 /\ shift'[o][i].owner = p.who
                           /\ shift'[o][i].uuid <= p.id
                           => shift'[o][i].uuid \in p.during
                        /\ p.session = shift'[o][i].uuid
                           => p.who = shift'[o][i].owner /\ shift'[o][i].uuid <= p.id
    BY <1>12 DEF DuringOK, Own
  <2>2. CASE i \in DOMAIN shift[o]
    <3>1. shift'[o][i] = shift[o][i] /\ i \in Own(o)
      BY <1>8, <2>1, <2>2 DEF Own
    <3>2. QED
      BY <3>1 DEF DrawerOK, DuringOK
  <2>3. CASE o = t /\ i = last
    <3>1. p.id \in 1..now /\ (p.session \in 1..now \/ p.session = None)
      BY DEF Local, DrawerOK, PaymentsOK, PaymentOK
    <3>2. shift'[o][i].uuid = now + 1 /\ now \in Nat
      BY <1>4, <2>1, <2>3, DeskAssumption DEF DeskOK
    <3>3. QED
      BY <3>1, <3>2, DeskAssumption
  <2>4. QED
    BY <1>1, <1>4, <2>2, <2>3
<1>17. CountingOK'
  <2>1. SUFFICES ASSUME NEW p \in Requests, AtStep(p, "close")',
                        NEW o, NEW i, o = req'[p].at, i = req'[p].doc,
                        shift'[o][i].till = o, shift'[o][i].closed = 0
                 PROVE  Right(o, req[p].sum, shift[o][i].uuid)'
    BY DEF CountingOK
  <2>2. req'[p] = req[p] /\ AtStep(p, "close")
    BY <2>1 DEF AtStep
  <2>3. o \in Tills /\ i \in DOMAIN shift[o]
    BY <2>1, <2>2 DEF DrawerOK, DrawerSlotsOK, DrawerSlotOK, AtStep
  <2>4. shift'[o][i] = shift[o][i]
    BY <1>8, <2>3
  <2>5. PICK sum, uuid : sum = req[p].sum /\ uuid = shift[o][i].uuid
    OBVIOUS
  <2>6. Right(o, sum, uuid)
    BY <2>1, <2>2, <2>4, <2>5 DEF DrawerOK, CountingOK
  <2>7. Right(o, sum, uuid)'
    BY <1>12, <2>3, <2>6
  <2>8. QED
    BY <2>2, <2>4, <2>5, <2>7 DEF Right
<1>18. CountedOK'
  <2>1. SUFFICES ASSUME NEW o \in Tills, NEW i \in DOMAIN shift'[o], shift'[o][i].till = o,
                        shift'[o][i].by = o
                 PROVE  Right(o, shift[o][i].counted, shift[o][i].uuid)'
    BY DEF CountedOK, Own
  <2>2. i \in DOMAIN shift[o]
    BY <1>1, <1>4, <2>1, DeskAssumption
  <2>3. shift'[o][i] = shift[o][i]
    BY <1>8, <2>2
  <2>4. PICK counted, uuid : counted = shift[o][i].counted /\ uuid = shift[o][i].uuid
    OBVIOUS
  <2>5. Right(o, counted, uuid)
    BY <2>1, <2>2, <2>3, <2>4 DEF DrawerOK, CountedOK, Own
  <2>6. Right(o, counted, uuid)'
    BY <1>12, <2>5
  <2>7. QED
    BY <2>3, <2>4, <2>6 DEF Right
<1>19. QED
  BY <1>5, <1>6, <1>7, <1>11, <1>12, <1>15, <1>16, <1>17, <1>18

LEMMA OpenShiftOK ==
    ASSUME DeskOK, SlotsOK, DrawerOK, NEW q \in Requests, OpenShift(q)
    PROVE  DrawerOK'
<1>1. req[q].at \in Tills /\ req[q].doc \in Staff /\ req[q].step = "open"
  BY DEF OpenShift, AtStep, DrawerOK, DrawerSlotsOK, DrawerSlotOK
<1>2. PICK t \in Tills, u \in Staff : t = req[q].at /\ u = req[q].doc
  BY <1>1
<1>3. /\ now' \in 1..MaxMoments /\ now' = now + 1 /\ now \in Nat /\ nowStamp(t) \in Nat
      /\ nowStamp(t) = Clock(t, now')
  BY FreshStamp DEF OpenShift
<1>4. PICK id \in Nat, at \in Nat : id = now' /\ at = nowStamp(t)
  BY <1>3
<1>5. PICK row : row = [uuid |-> id, owner |-> u, opened |-> at, closed |-> 0,
                        counted |-> {}, till |-> t, by |-> None]
  OBVIOUS
<1>6. row \in Session
  BY <1>5 DEF Session
<1>7. /\ row.uuid = id /\ row.owner = u /\ row.opened = at /\ row.closed = 0
      /\ row.counted = {} /\ row.till = t /\ row.by = None
  BY <1>5
<1>8. /\ shift' = [shift EXCEPT ![t] = Append(@, row)]
      /\ Put(q, Work("emitShift", t, id, None))
      /\ UNCHANGED <<inbox, crashes, cash, asks, unsent>>
  BY <1>2, <1>4, <1>5, <1>7 DEF OpenShift
<1>9. /\ \A p \in (Requests \cup Tills) \ {q} : req'[p] = req[p]
      /\ req'[q].step = "emitShift" /\ req'[q].at = t /\ req'[q].doc = id
  BY <1>8, PutIs, WorkIs
<1>10. \A o \in Tills : Heard(o)' = Heard(o) /\ Told(o)' = Told(o)
  BY <1>8 DEF Heard, Told, News
<1>11. \A s \in Copies : s.uuid # id
  <2>1. \A s \in Copies : s.uuid \in 1..now
    BY DEF DrawerOK, CopiesOK, CopyOK
  <2>2. QED
    BY <1>3, <1>4, <2>1
<1>12. \A i \in DOMAIN shift[t] : shift[t][i].uuid # row.uuid
  BY <1>7, <1>11 DEF Copies, Rows
<1>13. PICK last : last = Len(shift[t]) + 1
  OBVIOUS
<1>14. last \in DOMAIN shift'[t] /\ shift'[t][last] = row
  <2>1. shift'[t] = Append(shift[t], row)
    BY <1>8 DEF DrawerOK, DrawerTypes
  <2>2. QED
    BY <1>13, <2>1, RowTypes DEF DrawerOK
<1>15. CopyOK(row)'
  <2>1. id \in 1..now'
    BY <1>3, <1>4
  <2>2. row \in Rows(t)'
    BY <1>14 DEF Rows
  <2>3. QED
    BY <1>3, <1>4, <1>7, <2>1, <2>2 DEF CopyOK
<1>16. DrawerSlotOK(req[q])'
  BY <1>7, <1>9, <1>14 DEF DrawerSlotOK, RowOf
<1>17. \A p \in Requests : req'[p] = req[p] \/ (req'[p].step # "close" /\ DrawerSlotOK(req[p])')
  BY <1>9, <1>16
<1>18. row.by = None /\ row.uuid = now + 1 /\ now' \in Nat /\ now <= now'
  BY <1>3, <1>4, <1>7
<1>19. /\ DrawerTypes' /\ DrawerSlotsOK' /\ PaymentsOK' /\ PaidOnce'
       /\ CopiesOK' /\ DuringOK' /\ CountingOK' /\ CountedOK'
       /\ \A o \in Tills : Rows(o)' = Rows(o) \cup (IF o = t THEN {row} ELSE {})
       /\ Copies' \subseteq Copies \cup {row}
  BY <1>6, <1>7, <1>8, <1>10, <1>11, <1>12, <1>15, <1>17, <1>18, Added
<1>20. SessionsTravel'
  <2>1. SUFFICES ASSUME NEW s \in Copies'
                 PROVE  s.uuid \in unsent \/ TellingOf(s)' \/ \A o \in Tills : Known(o, s)'
    BY <1>8 DEF SessionsTravel
  <2>2. CASE s = row
    <3>1. row \in Rows(t)' /\ Covers(row, row)
      BY <1>19 DEF Covers
    <3>2. QED
      BY <1>7, <1>9, <2>2, <3>1 DEF TellingOf, AtStep
  <2>3. CASE s \in Copies
    <3>1. ASSUME TellingOf(s) PROVE TellingOf(s)'
      <4>1. PICK p \in Requests : /\ AtStep(p, "emitShift") /\ req[p].doc = s.uuid
                                  /\ \E r \in Rows(req[p].at) : Covers(r, s)
        BY <3>1 DEF TellingOf
      <4>2. req'[p] = req[p] /\ req[p].at \in Tills
        BY <1>1, <1>9, <4>1 DEF AtStep, DrawerOK, DrawerSlotsOK, DrawerSlotOK
      <4>3. QED
        BY <1>19, <4>1, <4>2 DEF TellingOf, AtStep
    <3>2. \A o \in Tills : Known(o, s) => Known(o, s)'
      BY <1>10, <1>19 DEF Known
    <3>3. QED
      BY <2>3, <3>1, <3>2 DEF DrawerOK, SessionsTravel
  <2>4. QED
    BY <1>19, <2>2, <2>3
<1>21. QED
  BY <1>19, <1>20 DEF DrawerOK

\* A session that is open on a till gets closed there, by the till or by another one's word.
ClosesAs(t, i, old, row) ==
    /\ old = shift[t][i] /\ old.closed = 0 /\ row.closed # 0
    /\ row.uuid = old.uuid /\ row.owner = old.owner /\ row.opened = old.opened /\ row.till = old.till
    /\ shift' = [shift EXCEPT ![t] = [@ EXCEPT ![i] = row]]
    /\ row.counted \subseteq 1..now /\ row.by \in Tills
    /\ row.by # t => \E own \in Rows(row.by) : SameClose(own, row)
    /\ row.by = t /\ row.till = t => Right(t, row.counted, row.uuid)
LEMMA Closed ==
    ASSUME DeskOK, SlotsOK, DrawerOK, NEW t \in Tills, NEW i \in DOMAIN shift[t],
           NEW old \in Session, NEW row \in Session, ClosesAs(t, i, old, row),
           UNCHANGED cash, now' \in Nat, now <= now',
           \A o \in Tills : Heard(o)' = Heard(o) /\ Told(o)' \subseteq Told(o),
           \A q \in Requests :
               req'[q] = req[q] \/ (req'[q].step # "close" /\ DrawerSlotOK(req[q])')
    PROVE  /\ DrawerTypes' /\ DrawerSlotsOK' /\ PaymentsOK' /\ PaidOnce'
           /\ CopiesOK' /\ DuringOK' /\ CountingOK' /\ CountedOK'
           /\ Rows(t) \subseteq Rows(t)' \cup {old} /\ row \in Rows(t)'
           /\ \A o \in Tills \ {t} : Rows(o)' = Rows(o)
           /\ Copies' \subseteq Copies \cup {row}
<1> USE DEF ClosesAs
<1>1. /\ shift[t] \in Seq(Session) /\ Len(shift[t]) \in Nat /\ DOMAIN shift[t] = 1..Len(shift[t])
      /\ i \in 1..Len(shift[t])
  BY RowTypes DEF DrawerOK
<1>2. /\ DOMAIN shift' = Tills /\ shift'[t] = [shift[t] EXCEPT ![i] = row]
      /\ \A o \in Tills \ {t} : shift'[o] = shift[o]
  BY DEF DrawerOK, DrawerTypes
<1>3. /\ shift'[t] \in Seq(Session) /\ DOMAIN shift'[t] = DOMAIN shift[t]
      /\ shift'[t][i] = row
      /\ \A j \in DOMAIN shift[t] : j # i => shift'[t][j] = shift[t][j]
  BY <1>1, <1>2
<1>4. \A o \in Tills : DOMAIN shift'[o] = DOMAIN shift[o]
  BY <1>2, <1>3
<1>5. \A o \in Tills : \A j \in DOMAIN shift[o] : o # t \/ j # i => shift'[o][j] = shift[o][j]
  BY <1>2, <1>3
<1>6. DrawerTypes'
  <2>1. \A o \in Tills : shift[o] \in Seq(Session)
    BY RowTypes DEF DrawerOK
  <2>2. \A o \in Tills : shift'[o] \in Seq(Session)
    BY <1>2, <1>3, <2>1
  <2>3. QED
    BY <1>2, <2>2 DEF DrawerOK, DrawerTypes
<1>7. \A o \in Tills : \A j \in DOMAIN shift[o] : shift'[o][j].uuid = shift[o][j].uuid
  BY <1>3, <1>5
<1>8. 1..now \subseteq 1..now'
  BY DEF DeskOK
<1>9. DrawerSlotsOK'
  <2>1. SUFFICES ASSUME NEW p \in Requests, req'[p] = req[p] PROVE DrawerSlotOK(req[p])'
    BY DEF DrawerSlotsOK
  <2>2. DrawerSlotOK(req[p])
    BY DEF DrawerOK, DrawerSlotsOK
  <2>3. \A o \in Tills : \A uuid : RowOf(o, uuid) \subseteq RowOf(o, uuid)'
    BY <1>4, <1>7 DEF RowOf
  <2>4. QED
    BY <1>4, <1>8, <2>1, <2>2, <2>3 DEF DrawerSlotOK
<1>10. /\ PaymentsOK' /\ PaidOnce'
       /\ \A o \in Tills : Local(o)' = Local(o)
       /\ \A o \in Tills : \A counted, uuid : Right(o, counted, uuid)' <=> Right(o, counted, uuid)
  BY PaymentsStay
<1>11. RowsOnce'
  BY <1>4, <1>7 DEF DrawerOK, CopiesOK, RowsOnce
<1>12. /\ Rows(t) \subseteq Rows(t)' \cup {old} /\ row \in Rows(t)' /\ Rows(t)' \subseteq Rows(t) \cup {row}
       /\ \A o \in Tills \ {t} : Rows(o)' = Rows(o)
  <2>1. \A r \in Rows(t) : r \in Rows(t)' \cup {old}
    BY <1>3 DEF Rows
  <2>2. row \in Rows(t)' /\ \A r \in Rows(t)' : r \in Rows(t) \cup {row}
    BY <1>3 DEF Rows
  <2>3. \A o \in Tills \ {t} : Rows(o)' = Rows(o)
    BY <1>2 DEF Rows
  <2>4. QED
    BY <2>1, <2>2, <2>3
<1>13. Copies' \subseteq Copies \cup {row}
  BY <1>12 DEF Copies
<1>14. old \in Copies /\ CopyOK(old) /\ \A s \in Copies : CopyOK(s) /\ s \in Session
  <2>1. old \in Rows(t)
    BY DEF Rows
  <2>2. old \in Copies
    BY <2>1 DEF Copies
  <2>3. QED
    BY <2>2, CopyTypes DEF DrawerOK, CopiesOK
<1>15. \A o \in Tills : \A r \in Rows(o) : \E s \in Rows(o)' : s.uuid = r.uuid /\ (r.closed # 0 => s = r)
  BY <1>12
<1>16. \A s \in Copies' : CopyOK(s)'
  <2>1. ASSUME NEW s \in Copies PROVE CopyOK(s)'
    <3>1. CopyOK(s) /\ s.till \in Tills
      BY <1>14 DEF Session
    <3>2. \E origin \in Rows(s.till)' : origin.uuid = s.uuid
      BY <1>15, <3>1 DEF CopyOK
    <3>3. s.closed # 0 => s.by \in Tills /\ \E own \in Rows(s.by)' : SameClose(own, s)
      BY <1>15, <3>1 DEF CopyOK, SameClose
    <3>4. QED
      BY <1>8, <3>1, <3>2, <3>3 DEF CopyOK
  <2>2. CopyOK(row)'
    <3>1. row.till \in Tills
      BY DEF Session
    <3>2. \E origin \in Rows(row.till)' : origin.uuid = row.uuid
      BY <1>14, <1>15, <3>1 DEF CopyOK
    <3>3. \E own \in Rows(row.by)' : SameClose(own, row)
      <4>1. CASE row.by = t
        BY <1>12, <4>1 DEF SameClose
      <4>2. CASE row.by # t
        BY <1>12, <4>2
      <4>3. QED
        BY <4>1, <4>2
    <3>4. QED
      BY <1>8, <1>14, <3>2, <3>3 DEF CopyOK
  <2>3. QED
    BY <1>13, <2>1, <2>2
<1>17. CopiesOK'
  <2>1. \A r, s \in Copies' : r.uuid = s.uuid => r.till = s.till
    BY <1>13, <1>14 DEF DrawerOK, CopiesOK
  <2>2. QED
    BY <1>11, <1>16, <2>1 DEF CopiesOK
<1>18. \A o \in Tills : Own(o)' = Own(o)
  BY <1>3, <1>4, <1>5 DEF Own
<1>19. DuringOK'
  <2>1. SUFFICES ASSUME NEW o \in Tills, NEW p \in Local(o), NEW j \in Own(o)
                 PROVE  /\ /\ shift'[o][j].closed = 0 /\ shift'[o][j].owner = p.who
                           /\ shift'[o][j].uuid <= p.id
                           => shift'[o][j].uuid \in p.during
                        /\ p.session = shift'[o][j].uuid
                           => p.who = shift'[o][j].owner /\ shift'[o][j].uuid <= p.id
    BY <1>10, <1>18 DEF DuringOK
  <2>2. CASE o # t \/ j # i
    <3>1. shift'[o][j] = shift[o][j]
      BY <1>5, <2>2 DEF Own
    <3>2. QED
      BY <3>1 DEF DrawerOK, DuringOK
  <2>3. CASE o = t /\ j = i
    <3>1. p.session = old.uuid => p.who = old.owner /\ old.uuid <= p.id
      BY <2>3 DEF DrawerOK, DuringOK
    <3>2. QED
      BY <1>3, <2>3, <3>1
  <2>4. QED
    BY <2>2, <2>3
<1>20. CountingOK'
  <2>1. SUFFICES ASSUME NEW p \in Requests, AtStep(p, "close")',
                        NEW o, NEW j, o = req'[p].at, j = req'[p].doc,
                        shift'[o][j].till = o, shift'[o][j].closed = 0
                 PROVE  Right(o, req[p].sum, shift[o][j].uuid)'
    BY DEF CountingOK
  <2>2. req'[p] = req[p] /\ AtStep(p, "close")
    BY <2>1 DEF AtStep
  <2>3. o \in Tills /\ j \in DOMAIN shift[o]
    BY <2>1, <2>2 DEF DrawerOK, DrawerSlotsOK, DrawerSlotOK, AtStep
  <2>4. shift'[o][j] = shift[o][j]
    BY <1>3, <1>5, <2>1, <2>3
  <2>5. PICK sum, uuid : sum = req[p].sum /\ uuid = shift[o][j].uuid
    OBVIOUS
  <2>6. Right(o, sum, uuid)
    BY <2>1, <2>2, <2>4, <2>5 DEF DrawerOK, CountingOK
  <2>7. Right(o, sum, uuid)'
    BY <1>10, <2>3, <2>6
  <2>8. QED
    BY <2>2, <2>4, <2>5, <2>7 DEF Right
<1>21. CountedOK'
  <2>1. SUFFICES ASSUME NEW o \in Tills, NEW j \in Own(o), shift'[o][j].by = o
                 PROVE  Right(o, shift[o][j].counted, shift[o][j].uuid)'
    BY <1>18 DEF CountedOK
  <2>2. PICK counted, uuid : counted = shift'[o][j].counted /\ uuid = shift'[o][j].uuid
    OBVIOUS
  <2>3. Right(o, counted, uuid)
    <3>1. CASE o # t \/ j # i
      <4>1. shift'[o][j] = shift[o][j]
        BY <1>5, <3>1 DEF Own
      <4>2. QED
        BY <2>1, <2>2, <4>1 DEF DrawerOK, CountedOK
    <3>2. CASE o = t /\ j = i
      <4>1. old.till = t
        BY <3>2 DEF Own
      <4>2. QED
        BY <1>3, <2>1, <2>2, <3>2, <4>1
    <3>3. QED
      BY <3>1, <3>2
  <2>4. Right(o, counted, uuid)'
    BY <1>10, <2>3
  <2>5. QED
    BY <2>2, <2>4 DEF Right
<1>22. QED
  BY <1>6, <1>9, <1>10, <1>12, <1>13, <1>17, <1>19, <1>20, <1>21

\* The till's own close.
LEMMA CloseShiftOK ==
    ASSUME DeskOK, SlotsOK, DrawerOK, NEW q \in Requests, CloseShift(q)
    PROVE  DrawerOK'
<1>1. /\ req[q].at \in Tills /\ req[q].doc \in DOMAIN shift[req[q].at] /\ req[q].sum \subseteq 1..now
      /\ req[q].step = "close"
  BY DEF CloseShift, AtStep, DrawerOK, DrawerSlotsOK, DrawerSlotOK
<1>2. PICK t \in Tills : t = req[q].at
  BY <1>1
<1>3. PICK i \in DOMAIN shift[t] : i = req[q].doc
  BY <1>1, <1>2
<1>4. PICK sum \in SUBSET (1..now) : sum = req[q].sum
  BY <1>1
<1>5. /\ now' \in 1..MaxMoments /\ now' = now + 1 /\ now \in Nat /\ nowStamp(t) \in Nat
      /\ nowStamp(t) > 0
  BY FreshStamp DEF CloseShift
<1>6. PICK at \in Nat : at = nowStamp(t) /\ at > 0
  BY <1>5
<1>7. UNCHANGED <<inbox, crashes, cash, asks, unsent>>
  BY DEF CloseShift
<1>8. \A o \in Tills : Heard(o)' = Heard(o) /\ Told(o)' = Told(o)
  BY <1>7 DEF Heard, Told, News
<1>9. PICK old \in Session : old = shift[t][i]
  BY RowTypes DEF DrawerOK
<1>10. now' \in Nat /\ now <= now'
  BY <1>5
<1>11. CASE old.closed # 0
  <2>1. Put(q, IdleSlot) /\ UNCHANGED shift
    BY <1>2, <1>3, <1>9, <1>11 DEF CloseShift
  <2>2. req'[q] = IdleSlot /\ \A p \in (Requests \cup Tills) \ {q} : req'[p] = req[p]
    BY <2>1, PutIs
  <2>3. DrawerSlotOK(req[q])' /\ req'[q].step = "idle"
    BY <2>2 DEF DrawerSlotOK, IdleSlot
  <2>4. \A p \in Requests :
            \/ req'[p] = req[p]
            \/ req[p].step # "emitShift" /\ req'[p].step # "close" /\ DrawerSlotOK(req[p])'
    BY <1>1, <2>2, <2>3
  <2>5. QED
    BY <1>7, <1>8, <1>10, <2>1, <2>4, DrawerStays
<1>12. CASE old.closed = 0
  <2>1. PICK row : row = [old EXCEPT !.closed = at, !.counted = sum, !.by = t]
    OBVIOUS
  <2>2. /\ row \in Session /\ row.uuid = old.uuid /\ row.owner = old.owner /\ row.opened = old.opened
        /\ row.till = old.till /\ row.closed = at /\ row.counted = sum /\ row.by = t
    <3>1. sum \subseteq Nat
      BY <1>5
    <3>2. QED
      BY <2>1, <3>1 DEF Session
  <2>3. /\ shift' = [shift EXCEPT ![t][i] = [@ EXCEPT !.closed = at, !.counted = sum, !.by = t]]
        /\ Put(q, Work("emitShift", t, old.uuid, None))
    BY <1>2, <1>3, <1>4, <1>6, <1>9, <1>12 DEF CloseShift
  <2>4. shift' = [shift EXCEPT ![t] = [@ EXCEPT ![i] = row]]
    BY <1>9, <2>1, <2>3
  <2>5. PICK uuid : uuid = old.uuid
    OBVIOUS
  <2>6. Put(q, Work("emitShift", t, uuid, None))
    BY <2>3, <2>5
  <2>7. /\ \A p \in (Requests \cup Tills) \ {q} : req'[p] = req[p]
        /\ req'[q].step = "emitShift" /\ req'[q].at = t /\ req'[q].doc = uuid
    BY <2>6, PutIs, WorkIs
  <2>8. i \in DOMAIN shift'[t] /\ shift'[t][i] = row
    BY <2>4 DEF DrawerOK, DrawerTypes
  <2>9. DrawerSlotOK(req[q])'
    BY <2>2, <2>5, <2>7, <2>8 DEF DrawerSlotOK, RowOf
  <2>10. \A p \in Requests : req'[p] = req[p] \/ (req'[p].step # "close" /\ DrawerSlotOK(req[p])')
    BY <2>7, <2>9
  <2>11. row.till = t => Right(t, row.counted, row.uuid)
    BY <1>1, <1>2, <1>3, <1>4, <1>9, <1>12, <2>2 DEF DrawerOK, CountingOK, AtStep
  <2>12. /\ DrawerTypes' /\ DrawerSlotsOK' /\ PaymentsOK' /\ PaidOnce'
         /\ CopiesOK' /\ DuringOK' /\ CountingOK' /\ CountedOK'
         /\ Rows(t) \subseteq Rows(t)' \cup {old} /\ row \in Rows(t)'
         /\ \A o \in Tills \ {t} : Rows(o)' = Rows(o)
         /\ Copies' \subseteq Copies \cup {row}
    <3>1. row.closed # 0 /\ row.counted \subseteq 1..now /\ row.by \in Tills
      BY <1>6, <2>2
    <3>2. row.by # t => \E own \in Rows(row.by) : SameClose(own, row)
      BY <2>2
    <3>3. row.by = t /\ row.till = t => Right(t, row.counted, row.uuid)
      BY <2>11
    <3>4. ClosesAs(t, i, old, row)
      BY <1>9, <1>12, <2>2, <2>4, <3>1, <3>2, <3>3 DEF ClosesAs
    <3>5. \A o \in Tills : Heard(o)' = Heard(o) /\ Told(o)' \subseteq Told(o)
      BY <1>8
    <3>6. UNCHANGED cash
      BY <1>7
    <3>7. row \in Session
      BY <2>2
    <3>8. QED
      BY <1>10, <2>10, <3>4, <3>5, <3>6, <3>7, Closed
  <2>13. \A o \in Tills : \A s : \A r \in Rows(o) : Covers(r, s) => \E n \in Rows(o)' : Covers(n, s)
    BY <1>12, <2>2, <2>12 DEF Covers
  <2>14. SessionsTravel'
    <3>1. SUFFICES ASSUME NEW s \in Copies'
                   PROVE  s.uuid \in unsent \/ TellingOf(s)' \/ \A o \in Tills : Known(o, s)'
      BY <1>7 DEF SessionsTravel
    <3>2. CASE s = row
      <4>1. Covers(row, row)
        BY DEF Covers
      <4>2. QED
        BY <2>2, <2>5, <2>7, <2>12, <3>2, <4>1 DEF TellingOf, AtStep
    <3>3. CASE s \in Copies
      <4>1. ASSUME TellingOf(s) PROVE TellingOf(s)'
        <5>1. PICK p \in Requests : /\ AtStep(p, "emitShift") /\ req[p].doc = s.uuid
                                    /\ \E r \in Rows(req[p].at) : Covers(r, s)
          BY <4>1 DEF TellingOf
        <5>2. req'[p] = req[p] /\ req[p].at \in Tills
          BY <1>1, <2>7, <5>1 DEF AtStep, DrawerOK, DrawerSlotsOK, DrawerSlotOK
        <5>3. QED
          BY <2>13, <5>1, <5>2 DEF TellingOf, AtStep
      <4>2. \A o \in Tills : Known(o, s) => Known(o, s)'
        BY <1>8, <2>13 DEF Known
      <4>3. QED
        BY <3>3, <4>1, <4>2 DEF DrawerOK, SessionsTravel
    <3>4. QED
      BY <2>12, <3>2, <3>3
  <2>15. QED
    BY <2>12, <2>14 DEF DrawerOK
<1>13. QED
  BY <1>11, <1>12

\* News of a session is kept by whoever has heard of it.
LEMMA Relayed ==
    ASSUME DeskOK, DrawerOK, UNCHANGED <<unsent, req>>,
           \A s \in Copies' : \E c \in Copies : Covers(c, s),
           \A o \in Tills : \A r \in Rows(o) : \E n \in Rows(o)' : Covers(n, r),
           \A o \in Tills : \A r \in Told(o) : \E n \in Rows(o)' \cup Told(o)' : Covers(n, r)
    PROVE  SessionsTravel'
<1>1. SUFFICES ASSUME NEW s \in Copies'
               PROVE  s.uuid \in unsent \/ TellingOf(s)' \/ \A o \in Tills : Known(o, s)'
  BY DEF SessionsTravel
<1>2. PICK c \in Copies : Covers(c, s)
  OBVIOUS
<1>3. c.uuid = s.uuid
  BY <1>2 DEF Covers
<1>4. ASSUME TellingOf(c) PROVE TellingOf(s)'
  <2>1. PICK p \in Requests : /\ AtStep(p, "emitShift") /\ req[p].doc = c.uuid
                              /\ \E r \in Rows(req[p].at) : Covers(r, c)
    BY <1>4 DEF TellingOf
  <2>2. req[p].at \in Tills
    BY <2>1 DEF AtStep, DrawerOK, DrawerSlotsOK, DrawerSlotOK
  <2>3. PICK o \in Tills : o = req[p].at
    BY <2>2
  <2>4. PICK r \in Rows(o) : Covers(r, c)
    BY <2>1, <2>3
  <2>5. PICK n \in Rows(o)' : Covers(n, r)
    BY <2>4
  <2>6. Covers(n, s)
    BY <1>2, <2>4, <2>5 DEF Covers
  <2>7. o = req'[p].at /\ AtStep(p, "emitShift")' /\ req'[p].doc = s.uuid
    BY <1>3, <2>1, <2>3 DEF AtStep
  <2>8. QED
    BY <2>5, <2>6, <2>7 DEF TellingOf, Rows
<1>5. ASSUME NEW o \in Tills, Known(o, c) PROVE Known(o, s)'
  <2>1. PICK r \in Rows(o) \cup Told(o) : Covers(r, c)
    BY <1>5 DEF Known
  <2>2. PICK n \in Rows(o)' \cup Told(o)' : Covers(n, r)
    BY <2>1
  <2>3. Covers(n, s)
    BY <1>2, <2>1, <2>2 DEF Covers
  <2>4. QED
    BY <2>2, <2>3 DEF Known
<1>6. QED
  BY <1>3, <1>4, <1>5 DEF DrawerOK, SessionsTravel

\* The news a till takes from its inbox is a copy like the others.
LEMMA ShiftNews ==
    ASSUME DeskOK, SlotsOK, DrawerOK, NEW t \in Tills, applyShift(t),
           NEW R, R = Head(inbox[t]).row
    PROVE  /\ R \in Session /\ R \in Told(t) /\ R \in Copies /\ CopyOK(R)
           /\ \A o \in Tills : Heard(o)' = Heard(o) /\ Told(o)' \subseteq Told(o)
           /\ \A o \in Tills \ {t} : Told(o)' = Told(o)
           /\ Told(t) \subseteq Told(t)' \cup {R}
           /\ UNCHANGED <<now, req, cash, unsent>>
<1>1. /\ inbox[t] # <<>> /\ Head(inbox[t]).kind = "shift" /\ Received(t)
      /\ UNCHANGED <<now, req, cash, unsent>>
  BY DEF applyShift, Arrived
<1>2. /\ R \in Told(t)
      /\ \A o \in Tills : Heard(o)' = Heard(o) /\ Told(o)' \subseteq Told(o)
      /\ \A o \in Tills \ {t} : Told(o)' = Told(o)
      /\ Told(t) \subseteq Told(t)' \cup {R}
  BY <1>1, TookKinds
<1>3. R \in Session /\ R \in Copies
  BY <1>2, NewsTypes DEF Copies
<1>4. CopyOK(R)
  BY <1>3 DEF DrawerOK, CopiesOK
<1>5. QED
  BY <1>1, <1>2, <1>3, <1>4

\* A session the till did not have.
LEMMA Learnt ==
    ASSUME DeskOK, SlotsOK, DrawerOK, NEW t \in Tills, applyShift(t),
           NEW R, R = Head(inbox[t]).row, RowOf(t, R.uuid) = {}
    PROVE  DrawerOK'
<1>1. /\ R \in Session /\ R \in Told(t) /\ R \in Copies /\ CopyOK(R)
      /\ \A o \in Tills : Heard(o)' = Heard(o) /\ Told(o)' \subseteq Told(o)
      /\ \A o \in Tills \ {t} : Told(o)' = Told(o)
      /\ Told(t) \subseteq Told(t)' \cup {R}
      /\ UNCHANGED <<now, req, cash, unsent>>
  BY ShiftNews
<1>2. PICK owner : owner = resolveLocalCashierID(t, R.owner)
  OBVIOUS
<1>3. owner \in Staff
  BY <1>1, <1>2, DrawerAssumption DEF resolveLocalCashierID, Session
<1>4. PICK row : row = [R EXCEPT !.owner = owner]
  OBVIOUS
<1>5. /\ row \in Session /\ row.uuid = R.uuid /\ row.opened = R.opened /\ row.closed = R.closed
      /\ row.counted = R.counted /\ row.till = R.till /\ row.by = R.by
  BY <1>1, <1>3, <1>4 DEF Session
<1>6. shift' = [shift EXCEPT ![t] = Append(@, row)]
  BY <1>2, <1>4 DEF applyShift
<1>7. \A i \in DOMAIN shift[t] : shift[t][i].uuid # R.uuid
  BY DEF RowOf
<1>8. row.till # t
  <2>1. \E origin \in Rows(R.till) : origin.uuid = R.uuid
    BY <1>1 DEF CopyOK
  <2>2. QED
    BY <1>5, <1>7, <2>1 DEF Rows
<1>9. \A o \in Tills : Rows(o) \subseteq Rows(o)'
  <2>1. /\ shift'[t] = Append(shift[t], row) /\ shift[t] \in Seq(Session)
        /\ \A o \in Tills \ {t} : shift'[o] = shift[o]
    BY <1>6, RowTypes DEF DrawerOK, DrawerTypes
  <2>2. \A i \in DOMAIN shift[t] : i \in DOMAIN shift'[t] /\ shift'[t][i] = shift[t][i]
    BY <2>1
  <2>3. QED
    BY <2>1, <2>2 DEF Rows
<1>10. CopyOK(row)'
  <2>1. row.till \in Tills
    BY <1>5 DEF Session
  <2>2. \E origin \in Rows(row.till)' : origin.uuid = row.uuid
    BY <1>1, <1>5, <1>9, <2>1 DEF CopyOK
  <2>3. row.closed # 0 => row.by \in Tills /\ \E own \in Rows(row.by)' : SameClose(own, row)
    <3>1. ASSUME row.closed # 0
          PROVE  row.by \in Tills /\ \E own \in Rows(row.by)' : SameClose(own, row)
      <4>1. R.by \in Tills /\ \E own \in Rows(R.by) : SameClose(own, R)
        BY <1>1, <1>5, <3>1 DEF CopyOK
      <4>2. QED
        BY <1>5, <1>9, <4>1 DEF SameClose
    <3>2. QED
      BY <3>1
  <2>4. QED
    BY <1>1, <1>5, <2>2, <2>3 DEF CopyOK
<1>11. \A s \in Copies : s.uuid = row.uuid => s.till = row.till
  BY <1>1, <1>5 DEF DrawerOK, CopiesOK
<1>12. now' \in Nat /\ now <= now'
  BY <1>1, DeskAssumption DEF DeskOK
<1>13. /\ DrawerTypes' /\ DrawerSlotsOK' /\ PaymentsOK' /\ PaidOnce'
       /\ CopiesOK' /\ DuringOK' /\ CountingOK' /\ CountedOK'
       /\ \A o \in Tills : Rows(o)' = Rows(o) \cup (IF o = t THEN {row} ELSE {})
       /\ Copies' \subseteq Copies \cup {row}
  <2>1. \A p \in Requests : req'[p] = req[p]
    BY <1>1
  <2>2. \A i \in DOMAIN shift[t] : shift[t][i].uuid # row.uuid
    BY <1>5, <1>7
  <2>3. QED
    BY <1>1, <1>5, <1>6, <1>8, <1>10, <1>11, <1>12, <2>1, <2>2, Added
<1>14. SessionsTravel'
  <2>1. Covers(R, row) /\ Covers(row, R) /\ \A s : Covers(s, s)
    BY <1>5 DEF Covers
  <2>2. \A s \in Copies' : \E c \in Copies : Covers(c, s)
    BY <1>1, <1>13, <2>1
  <2>3. \A o \in Tills : \A r \in Rows(o) : \E n \in Rows(o)' : Covers(n, r)
    BY <1>9, <2>1
  <2>4. \A o \in Tills : \A r \in Told(o) : \E n \in Rows(o)' \cup Told(o)' : Covers(n, r)
    <3>1. row \in Rows(t)'
      BY <1>13
    <3>2. QED
      BY <1>1, <2>1, <3>1
  <2>5. QED
    BY <1>1, <2>2, <2>3, <2>4, Relayed
<1>15. QED
  BY <1>13, <1>14 DEF DrawerOK

\* What the till does with a session it has.
LEMMA Merged ==
    ASSUME DeskOK, SlotsOK, DrawerOK, NEW t \in Tills, applyShift(t),
           NEW R \in Session, R = Head(inbox[t]).row, CopyOK(R),
           NEW i \in DOMAIN shift[t], shift[t][i].uuid = R.uuid,
           NEW old \in Session, old = shift[t][i],
           NEW new \in Session, new.uuid = old.uuid, new.owner = old.owner, new.opened = old.opened,
           new.till = old.till, new.closed = R.closed, new.counted = R.counted, new.by = R.by
    PROVE  /\ old.closed = 0 /\ R.closed # 0 => shift' = [shift EXCEPT ![t] = [@ EXCEPT ![i] = new]]
           /\ old.closed # 0 \/ R.closed = 0 => shift' = shift
<1>1. new = [old EXCEPT !.closed = R.closed, !.counted = R.counted, !.by = R.by]
  BY DEF Session
<1>2. \A j \in DOMAIN shift[t] : j \in RowOf(t, R.uuid) <=> j = i
  BY DEF RowOf, DrawerOK, CopiesOK, RowsOnce
<1>3. RowOf(t, R.uuid) # {}
  BY <1>2
<1>4. shift' = [shift EXCEPT ![t] = [j \in DOMAIN @ |->
                    IF j \in RowOf(t, R.uuid) /\ @[j].closed = 0
                    THEN [@[j] EXCEPT !.closed = R.closed, !.counted = R.counted, !.by = R.by]
                    ELSE @[j]]]
  BY <1>3 DEF applyShift
<1>5. /\ DOMAIN shift' = DOMAIN shift /\ DOMAIN shift = Tills
      /\ \A o \in Tills \ {t} : shift'[o] = shift[o]
  BY <1>4 DEF DrawerOK, DrawerTypes
<1>6. shift'[t] = [j \in DOMAIN shift[t] |->
                    IF j = i /\ old.closed = 0 THEN new ELSE shift[t][j]]
  <2>1. shift'[t] = [j \in DOMAIN shift[t] |->
                    IF j \in RowOf(t, R.uuid) /\ shift[t][j].closed = 0
                    THEN [shift[t][j] EXCEPT !.closed = R.closed, !.counted = R.counted, !.by = R.by]
                    ELSE shift[t][j]]
    BY <1>4, <1>5
  <2>2. \A j \in DOMAIN shift[t] : j # i => shift'[t][j] = shift[t][j]
    BY <1>2, <2>1
  <2>3. shift'[t][i] = IF old.closed = 0 THEN new ELSE shift[t][i]
    <3>1. shift'[t][i] = IF old.closed = 0
            THEN [old EXCEPT !.closed = R.closed, !.counted = R.counted, !.by = R.by] ELSE old
      BY <1>2, <2>1
    <3>2. QED
      BY <1>1, <3>1
  <2>4. DOMAIN shift'[t] = DOMAIN shift[t] /\ shift'[t] = [j \in DOMAIN shift[t] |-> shift'[t][j]]
    BY <2>1
  <2>5. QED
    BY <2>2, <2>3, <2>4
<1>7. shift[t] \in Seq(Session) /\ shift[t] = [j \in DOMAIN shift[t] |-> shift[t][j]]
  BY RowTypes DEF DrawerOK
<1>8. shift = [o \in Tills |-> shift[o]] /\ shift' = [o \in Tills |-> shift'[o]]
  <2>1. shift = [o \in Tills |-> shift[o]]
    BY DEF DrawerOK, DrawerTypes
  <2>2. shift' = [o \in Tills |-> shift'[o]]
    BY <1>4, <1>5, <2>1
  <2>3. QED
    BY <2>1, <2>2
<1>9. ASSUME old.closed = 0, R.closed # 0
      PROVE  shift' = [shift EXCEPT ![t] = [@ EXCEPT ![i] = new]]
  <2>1. shift'[t] = [shift[t] EXCEPT ![i] = new]
    BY <1>6, <1>7, <1>9
  <2>2. QED
    BY <1>5, <1>8, <2>1
<1>10. ASSUME old.closed # 0 \/ R.closed = 0 PROVE shift' = shift
  <2>1. old.closed = 0 => new = old
    <3>1. CopyOK(old)
      BY DEF DrawerOK, CopiesOK, Copies, Rows
    <3>2. old.closed = 0 => old.by = None /\ old.counted = {} /\ R.by = None /\ R.counted = {} /\ R.closed = 0
      BY <1>10, <3>1 DEF CopyOK
    <3>3. QED
      BY <3>2 DEF Session
  <2>2. shift'[t] = shift[t]
    BY <1>6, <1>7, <2>1
  <2>3. QED
    BY <1>5, <1>8, <2>2
<1>11. QED
  BY <1>9, <1>10

LEMMA applyShiftOK ==
    ASSUME DeskOK, SlotsOK, DrawerOK, NEW t \in Tills, applyShift(t)
    PROVE  DrawerOK'
<1>1. PICK R : R = Head(inbox[t]).row
  OBVIOUS
<1>2. /\ R \in Session /\ R \in Told(t) /\ R \in Copies /\ CopyOK(R)
      /\ \A o \in Tills : Heard(o)' = Heard(o) /\ Told(o)' \subseteq Told(o)
      /\ \A o \in Tills \ {t} : Told(o)' = Told(o)
      /\ Told(t) \subseteq Told(t)' \cup {R}
      /\ UNCHANGED <<now, req, cash, unsent>>
  BY <1>1, ShiftNews
<1>3. now' \in Nat /\ now <= now'
  BY <1>2, DeskAssumption DEF DeskOK
<1>4. CASE RowOf(t, R.uuid) = {}
  BY <1>1, <1>4, Learnt
<1>5. CASE RowOf(t, R.uuid) # {}
  <2>1. PICK i \in DOMAIN shift[t] : shift[t][i].uuid = R.uuid
    BY <1>5 DEF RowOf
  <2>2. PICK old \in Session : old = shift[t][i]
    BY RowTypes DEF DrawerOK
  <2>3. old \in Rows(t) /\ old.uuid = R.uuid
    BY <2>1, <2>2 DEF Rows
  <2>4. \A s : Covers(s, s)
    BY DEF Covers
  <2>5. PICK row : row = [old EXCEPT !.closed = R.closed, !.counted = R.counted, !.by = R.by]
    OBVIOUS
  <2>6. /\ row \in Session /\ row.uuid = old.uuid /\ row.owner = old.owner /\ row.opened = old.opened
        /\ row.till = old.till /\ row.closed = R.closed /\ row.counted = R.counted /\ row.by = R.by
    BY <1>2, <2>5 DEF Session
  <2>7. /\ old.closed = 0 /\ R.closed # 0 => shift' = [shift EXCEPT ![t] = [@ EXCEPT ![i] = row]]
        /\ old.closed # 0 \/ R.closed = 0 => shift' = shift
    BY <1>1, <1>2, <2>1, <2>2, <2>6, Merged
  <2>8. CASE old.closed = 0 /\ R.closed # 0
    <3>1. /\ row \in Session /\ row.uuid = old.uuid /\ row.owner = old.owner /\ row.opened = old.opened
          /\ row.till = old.till /\ row.closed = R.closed /\ row.counted = R.counted /\ row.by = R.by
      BY <2>6
    <3>2. shift' = [shift EXCEPT ![t] = [@ EXCEPT ![i] = row]]
      BY <2>7, <2>8
    <3>3. R.by \in Tills /\ R.counted \subseteq 1..now /\ \E own \in Rows(R.by) : SameClose(own, R)
      BY <1>2, <2>8 DEF CopyOK
    <3>4. R.by # t
      <4>1. SUFFICES ASSUME R.by = t PROVE FALSE
        OBVIOUS
      <4>2. PICK own \in Rows(t) : own.uuid = R.uuid /\ own.closed = R.closed
        BY <3>3, <4>1 DEF SameClose
      <4>3. own = old
        BY <2>1, <2>2, <4>2 DEF Rows, DrawerOK, CopiesOK, RowsOnce
      <4>4. QED
        BY <2>8, <4>2, <4>3
    <3>5. row.by \in Tills /\ row.counted \subseteq 1..now /\ row.by # t /\ row.closed # 0
      BY <2>8, <3>1, <3>3, <3>4
    <3>6. \E own \in Rows(row.by) : SameClose(own, row)
      BY <2>3, <3>1, <3>3 DEF SameClose
    <3>7. UNCHANGED cash /\ \A p \in Requests : req'[p] = req[p]
      BY <1>2
    <3>8. /\ DrawerTypes' /\ DrawerSlotsOK' /\ PaymentsOK' /\ PaidOnce'
          /\ CopiesOK' /\ DuringOK' /\ CountingOK' /\ CountedOK'
          /\ Rows(t) \subseteq Rows(t)' \cup {old} /\ row \in Rows(t)'
          /\ \A o \in Tills \ {t} : Rows(o)' = Rows(o)
          /\ Copies' \subseteq Copies \cup {row}
      <4>1. ClosesAs(t, i, old, row)
        BY <2>2, <2>8, <3>1, <3>2, <3>5, <3>6 DEF ClosesAs
      <4>2. \A o \in Tills : Heard(o)' = Heard(o) /\ Told(o)' \subseteq Told(o)
        BY <1>2
      <4>3. UNCHANGED cash
        BY <3>7
      <4>4. \A p \in Requests :
                req'[p] = req[p] \/ (req'[p].step # "close" /\ DrawerSlotOK(req[p])')
        BY <3>7
      <4>5. row \in Session
        BY <3>1
      <4>6. QED
        BY <1>3, <4>1, <4>2, <4>3, <4>4, <4>5, Closed
    <3>9. Covers(R, row) /\ Covers(row, R) /\ Covers(row, old)
      BY <2>3, <2>8, <3>1 DEF Covers
    <3>10. \A s \in Copies' : \E c \in Copies : Covers(c, s)
      BY <1>2, <2>4, <3>8, <3>9
    <3>11. \A o \in Tills : \A r \in Rows(o) : \E n \in Rows(o)' : Covers(n, r)
      BY <2>4, <3>8, <3>9
    <3>12. \A o \in Tills : \A r \in Told(o) : \E n \in Rows(o)' \cup Told(o)' : Covers(n, r)
      BY <1>2, <2>4, <3>8, <3>9
    <3>13. SessionsTravel'
      BY <1>2, <3>10, <3>11, <3>12, Relayed
    <3>14. QED
      BY <3>8, <3>13 DEF DrawerOK
  <2>9. CASE old.closed # 0 \/ R.closed = 0
    <3>1. shift' = shift
      BY <2>7, <2>9
    <3>2. \A o \in Tills : Rows(o)' = Rows(o)
      BY <3>1 DEF Rows
    <3>3. Copies' \subseteq Copies
      BY <1>2, <3>2 DEF Copies
    <3>4. Covers(old, R)
      BY <2>3, <2>9 DEF Covers
    <3>5. \A o \in Tills : \A r \in Told(o) : \E n \in Rows(o)' \cup Told(o)' : Covers(n, r)
      BY <1>2, <2>3, <2>4, <3>2, <3>4
    <3>6. \A s \in Copies' : \E c \in Copies : Covers(c, s)
      BY <2>4, <3>3
    <3>7. \A o \in Tills : \A r \in Rows(o) : \E n \in Rows(o)' : Covers(n, r)
      BY <2>4, <3>2
    <3>8. SessionsTravel'
      BY <1>2, <3>5, <3>6, <3>7, Relayed
    <3>9. \A r \in Copies : r.till \in Tills
      BY CopyTypes DEF DrawerOK, Session
    <3>10. CopiesOK'
      BY <1>2, <3>1, <3>2, <3>3, <3>9 DEF DrawerOK, CopiesOK, CopyOK, RowsOnce
    <3>11. /\ DrawerTypes' /\ DrawerSlotsOK' /\ PaymentsOK' /\ PaidOnce' /\ DuringOK' /\ CountedOK'
           /\ CountingOK'
      BY <1>2, <1>3, <3>1, RestStays
    <3>12. QED
      BY <3>8, <3>10, <3>11 DEF DrawerOK
  <2>10. QED
    BY <2>8, <2>9
<1>6. QED
  BY <1>4, <1>5

\* The session goes out as it is by now.
LEMMA EmitShiftOK ==
    ASSUME DeskOK, SlotsOK, DrawerOK, NEW q \in Requests, EmitShift(q)
    PROVE  DrawerOK'
<1>1. req[q].at \in Tills /\ RowOf(req[q].at, req[q].doc) # {} /\ req[q].step = "emitShift"
  BY DEF EmitShift, AtStep, DrawerOK, DrawerSlotsOK, DrawerSlotOK
<1>2. PICK t \in Tills : t = req[q].at
  BY <1>1
<1>3. PICK uuid : uuid = req[q].doc
  OBVIOUS
<1>4. PICK i : i = CHOOSE j \in DOMAIN shift[t] : shift[t][j].uuid = uuid
  OBVIOUS
<1>5. i \in DOMAIN shift[t] /\ shift[t][i].uuid = uuid
  <2>1. \E j \in DOMAIN shift[t] : shift[t][j].uuid = uuid
    BY <1>1, <1>2, <1>3 DEF RowOf
  <2>2. QED
    BY <1>4, <2>1
<1>6. PICK row \in Session : row = shift[t][i]
  BY <1>5, RowTypes DEF DrawerOK
<1>7. PICK e \in Event : e = [kind |-> "shift", row |-> row]
  BY DEF Event, ShiftEvent
<1>8. e.kind = "shift" /\ e.row = row /\ e.kind # "cash"
  BY <1>7
<1>9. Emit(t, e) /\ Put(q, IdleSlot) /\ UNCHANGED <<now, crashes, shift, cash, asks, unsent>>
  BY <1>2, <1>3, <1>4, <1>6, <1>7 DEF EmitShift, drawerVars
<1>10. Emit(t, e)
  BY <1>9
<1>11. /\ \A o \in Tills : Heard(o)' = Heard(o)
       /\ \A o \in Tills : Told(o)' = Told(o) \cup (IF o # t THEN {row} ELSE {})
  <2>1. SUFFICES ASSUME NEW o \in Tills
                 PROVE  Heard(o)' = Heard(o) /\ Told(o)' = Told(o) \cup (IF o # t THEN {row} ELSE {})
    OBVIOUS
  <2>2. /\ Heard(o)' = Heard(o) \cup (IF o # t /\ e.kind = "cash" THEN {e.row} ELSE {})
        /\ Told(o)' = Told(o) \cup (IF o # t /\ e.kind = "shift" THEN {e.row} ELSE {})
    BY <1>10, SentKinds
  <2>3. QED
    BY <1>8, <2>2
<1>12. /\ req'[q] = IdleSlot /\ \A p \in (Requests \cup Tills) \ {q} : req'[p] = req[p]
       /\ IdleSlot.step = "idle"
  BY <1>9, PutIs DEF IdleSlot
<1>13. row \in Rows(t) /\ \A o \in Tills : Rows(o)' = Rows(o)
  BY <1>5, <1>6, <1>9 DEF Rows
<1>14. Copies' = Copies
  BY <1>11, <1>13 DEF Copies
<1>15. CopiesOK'
  <2>1. \A r \in Copies : r.till \in Tills
    BY CopyTypes DEF DrawerOK, Session
  <2>2. QED
    BY <1>9, <1>13, <1>14, <2>1 DEF DrawerOK, CopiesOK, CopyOK, RowsOnce
<1>16. /\ DrawerTypes' /\ DrawerSlotsOK' /\ PaymentsOK' /\ PaidOnce' /\ DuringOK' /\ CountedOK'
       /\ CountingOK'
  <2>1. now' \in Nat /\ now <= now'
    BY <1>9, DeskAssumption DEF DeskOK
  <2>2. \A p \in Requests : req'[p] = req[p] \/ (req'[p].step # "close" /\ DrawerSlotOK(req[p])')
    BY <1>12 DEF DrawerSlotOK
  <2>3. QED
    BY <1>9, <1>11, <2>1, <2>2, RestStays
<1>17. SessionsTravel'
  <2>1. SUFFICES ASSUME NEW s \in Copies
                 PROVE  s.uuid \in unsent \/ TellingOf(s)' \/ \A o \in Tills : Known(o, s)'
    BY <1>9, <1>14 DEF SessionsTravel
  <2>2. ASSUME TellingOf(s) PROVE TellingOf(s)' \/ \A o \in Tills : Known(o, s)'
    <3>1. PICK p \in Requests : /\ AtStep(p, "emitShift") /\ req[p].doc = s.uuid
                                /\ \E r \in Rows(req[p].at) : Covers(r, s)
      BY <2>2 DEF TellingOf
    <3>2. CASE p = q
      <4>1. PICK r \in Rows(t) : Covers(r, s)
        BY <1>2, <3>1, <3>2
      <4>2. r = row
        BY <1>3, <1>5, <1>6, <3>1, <3>2, <4>1 DEF Covers, Rows, DrawerOK, CopiesOK, RowsOnce
      <4>3. QED
        BY <1>11, <1>13, <4>1, <4>2 DEF Known
    <3>3. CASE p # q
      <4>1. req'[p] = req[p] /\ req[p].at \in Tills
        BY <1>12, <3>1, <3>3 DEF AtStep, DrawerOK, DrawerSlotsOK, DrawerSlotOK
      <4>2. QED
        BY <1>13, <3>1, <4>1 DEF TellingOf, AtStep
    <3>4. QED
      BY <3>2, <3>3
  <2>3. \A o \in Tills : Known(o, s) => Known(o, s)'
    BY <1>11, <1>13 DEF Known
  <2>4. QED
    BY <2>2, <2>3 DEF DrawerOK, SessionsTravel
<1>18. QED
  BY <1>15, <1>16, <1>17 DEF DrawerOK

LEMMA OpenShiftLookOK ==
    ASSUME DeskOK, SlotsOK, DrawerOK, NEW q \in Requests, NEW t \in Tills, NEW u \in Staff,
           OpenShiftLook(q, t, u)
    PROVE  DrawerOK'
<1>1. /\ Idle(q) /\ Put(q, Work("open", t, u, None))
      /\ UNCHANGED <<now, inbox, shift, cash, unsent>>
  BY DEF OpenShiftLook
<1>2. /\ req'[q].step = "open" /\ req'[q].at = t /\ req'[q].doc = u
      /\ \A p \in (Requests \cup Tills) \ {q} : req'[p] = req[p]
  BY <1>1, PutIs, WorkIs
<1>3. req[q].step = "idle"
  BY <1>1 DEF Idle, IdleSlot
<1>4. DrawerSlotOK(req[q])'
  BY <1>2 DEF DrawerSlotOK
<1>5. \A p \in Requests :
          \/ req'[p] = req[p]
          \/ req[p].step # "emitShift" /\ req'[p].step # "close" /\ DrawerSlotOK(req[p])'
  BY <1>2, <1>3, <1>4
<1>6. \A o \in Tills : Heard(o)' = Heard(o) /\ Told(o)' = Told(o)
  BY <1>1 DEF Heard, Told, News
<1>7. now' \in Nat /\ now <= now'
  BY <1>1, DeskAssumption DEF DeskOK
<1>8. QED
  BY <1>1, <1>5, <1>6, <1>7, DrawerStays

\* What was seen of the cash for an open session of the till's own is right.
LEMMA ExpectedIsRight ==
    ASSUME DeskOK, DrawerOK, NEW t \in Tills, NEW i \in Own(t), shift[t][i].closed = 0,
           NEW sum, sum = {p.id : p \in Expected(t, i)}
    PROVE  Right(t, sum, shift[t][i].uuid)
<1>1. PICK uuid, opened, owner :
          uuid = shift[t][i].uuid /\ opened = shift[t][i].opened /\ owner = shift[t][i].owner
  OBVIOUS
<1>2. uuid \in 1..now /\ opened = Clock(t, uuid)
  <2>1. CopyOK(shift[t][i]) /\ shift[t][i].till = t
    BY DEF Own, DrawerOK, CopiesOK, Copies, Rows
  <2>2. QED
    BY <1>1, <2>1 DEF CopyOK
<1>3. SUFFICES ASSUME NEW p \in Local(t)
               PROVE  /\ p.id \in sum => uuid \in p.during
                      /\ p.session = uuid => p.id \in sum \/ p.status = "VOIDED"
  BY <1>1 DEF Right
<1>4. p \in cash[t] /\ p.till = t /\ p.id \in 1..now /\ p.at = Clock(t, p.id) /\ p \in Payment
  BY RowTypes DEF Local, DrawerOK, PaymentsOK, PaymentOK
<1>5. now \in 0..MaxMoments /\ MaxMoments \in Nat
  BY DeskAssumption DEF DeskOK
<1>6. PICK id \in 1..now : id = p.id
  BY <1>4
<1>7. /\ id \in 0..MaxMoments /\ uuid \in 0..MaxMoments /\ id \in Nat /\ uuid \in Nat
      /\ Clock(t, id) \in Nat /\ Clock(t, uuid) \in Nat
  <2>1. id \in 0..MaxMoments /\ uuid \in 0..MaxMoments
    BY <1>2, <1>5, <1>6
  <2>2. QED
    BY <2>1, DeskAssumption
<1>8. Clock(t, id) >= Clock(t, uuid) <=> uuid <= id
  <2>1. id < uuid => Clock(t, id) < Clock(t, uuid)
    BY <1>7, ClockAssumption
  <2>2. uuid < id => Clock(t, uuid) < Clock(t, id)
    BY <1>7, ClockAssumption
  <2>3. uuid = id => Clock(t, id) = Clock(t, uuid)
    OBVIOUS
  <2>4. QED
    BY <1>7, <2>1, <2>2, <2>3
<1>9. p \in Expected(t, i) <=> p.status = "COMPLETED" /\ p.who = owner /\ uuid <= id
  BY <1>1, <1>2, <1>4, <1>6, <1>8 DEF Expected, CashOf
<1>10. /\ owner = p.who /\ uuid <= id => uuid \in p.during
       /\ p.session = uuid => p.who = owner /\ uuid <= id
  BY <1>1, <1>6 DEF DrawerOK, DuringOK
<1>11. p.id \in sum => p \in Expected(t, i)
  <2>1. SUFFICES ASSUME NEW r \in Expected(t, i), r.id = p.id PROVE r = p
    OBVIOUS
  <2>2. r \in cash[t]
    BY DEF Expected, CashOf
  <2>3. QED
    BY <1>4, <2>1, <2>2 DEF DrawerOK, PaidOnce
<1>12. p.status # "VOIDED" => p.status = "COMPLETED"
  BY <1>4 DEF Payment
<1>13. QED
  BY <1>9, <1>10, <1>11, <1>12

LEMMA Greatest ==
    ASSUME NEW n \in Nat, NEW S \in SUBSET (1..n), S # {}
    PROVE  Max(S) \in S
<1> DEFINE R == OpToRel(<, Nat)
           T == {k \in 0..n : n - k \in S}
<1>1. T \in SUBSET Nat /\ T # {}
  <2>1. PICK m \in S : m \in 1..n
    OBVIOUS
  <2>2. n - m \in 0..n /\ n - (n - m) = m
    BY <2>1
  <2>3. n - m \in T
    BY <2>1, <2>2
  <2>4. \A k \in T : k \in Nat
    OBVIOUS
  <2>5. T \in SUBSET Nat
    BY <2>4
  <2>6. QED
    BY <2>3, <2>5
<1>2. PICK x \in T : ~ \E y \in T : <<y, x>> \in R
  BY <1>1, NatLessThanWellFounded, WFMin
<1> HIDE DEF R
<1>3. \A y \in T : x <= y
  BY <1>2 DEF R, OpToRel
<1>4. n - x \in S
  OBVIOUS
<1>5. \A m \in S : n - x >= m
  <2>1. SUFFICES ASSUME NEW m \in S PROVE n - x >= m
    OBVIOUS
  <2>2. n - m \in T /\ m \in Nat
    <3>1. m \in 1..n /\ n - (n - m) = m /\ n - m \in 0..n
      OBVIOUS
    <3>2. QED
      BY <3>1
  <2>3. x <= n - m /\ x \in Nat
    BY <1>3, <2>2
  <2>4. QED
    BY <2>2, <2>3
<1>6. QED
  BY <1>4, <1>5 DEF Max

LEMMA CloseShiftLookOK ==
    ASSUME DeskOK, SlotsOK, DrawerOK, NEW q \in Requests, NEW t \in Tills, NEW u \in Staff,
           CloseShiftLook(q, t, u)
    PROVE  DrawerOK'
<1>1. /\ Idle(q) /\ OpenRows(t, u) # {}
      /\ UNCHANGED <<now, inbox, shift, cash, unsent>>
  BY DEF CloseShiftLook
<1>2. PICK i : i = CurrentShift(t, u)
  OBVIOUS
<1>3. i \in OpenRows(t, u)
  <2>1. Len(shift[t]) \in Nat /\ OpenRows(t, u) \subseteq 1..Len(shift[t])
    BY RowTypes DEF DrawerOK, OpenRows
  <2>2. QED
    BY <1>1, <1>2, <2>1, Greatest DEF CurrentShift
<1>4. i \in DOMAIN shift[t] /\ shift[t][i].closed = 0
  BY <1>3 DEF OpenRows
<1>5. PICK sum : sum = {p.id : p \in Expected(t, i)}
  OBVIOUS
<1>6. PICK slot : slot = [Work("close", t, i, None) EXCEPT !.sum = sum]
  OBVIOUS
<1>7. slot.step = "close" /\ slot.at = t /\ slot.doc = i /\ slot.sum = sum
  BY <1>6 DEF Work, IdleSlot
<1>8. req'[q] = slot /\ \A p \in (Requests \cup Tills) \ {q} : req'[p] = req[p]
  <2>1. Put(q, slot)
    BY <1>2, <1>5, <1>6 DEF CloseShiftLook
  <2>2. QED
    BY <2>1, PutIs
<1>9. sum \subseteq 1..now
  BY <1>5 DEF Expected, CashOf, DrawerOK, PaymentsOK, PaymentOK
<1>10. DrawerSlotOK(req[q])'
  BY <1>1, <1>4, <1>7, <1>8, <1>9 DEF DrawerSlotOK
<1>11. \A o \in Tills : Heard(o)' = Heard(o) /\ Told(o)' = Told(o)
  BY <1>1 DEF Heard, Told, News
<1>12. now' \in Nat /\ now <= now'
  BY <1>1, DeskAssumption DEF DeskOK
<1>13. req[q].step = "idle"
  BY <1>1 DEF Idle, IdleSlot
<1>14. CopiesOK' /\ SessionsTravel'
  <2>1. \A p \in Requests : AtStep(p, "emitShift") => req'[p] = req[p]
    BY <1>8, <1>13 DEF AtStep
  <2>2. QED
    BY <1>1, <1>11, <1>12, <2>1, SessionsStay
<1>15. /\ DrawerTypes' /\ DrawerSlotsOK' /\ PaymentsOK' /\ PaidOnce' /\ DuringOK' /\ CountedOK'
       /\ \A o \in Tills : \A counted, uuid : Right(o, counted, uuid)' <=> Right(o, counted, uuid)
  BY <1>1, <1>8, <1>10, <1>11, <1>12, RestStays
<1>16. CountingOK'
  <2>1. SUFFICES ASSUME NEW p \in Requests, AtStep(p, "close")',
                        NEW o, NEW j, o = req'[p].at, j = req'[p].doc,
                        shift[o][j].till = o, shift[o][j].closed = 0
                 PROVE  Right(o, req[p].sum, shift[o][j].uuid)'
    BY <1>1 DEF CountingOK
  <2>2. PICK seen, uuid : seen = req'[p].sum /\ uuid = shift[o][j].uuid
    OBVIOUS
  <2>3. o \in Tills /\ Right(o, seen, uuid)
    <3>1. CASE p = q
      <4>1. o = t /\ j = i /\ seen = sum /\ i \in Own(t)
        BY <1>4, <1>7, <1>8, <2>1, <2>2, <3>1 DEF Own
      <4>2. QED
        BY <1>4, <1>5, <2>2, <4>1, ExpectedIsRight
    <3>2. CASE p # q
      <4>1. req'[p] = req[p] /\ AtStep(p, "close")
        BY <1>8, <2>1, <3>2 DEF AtStep
      <4>2. o \in Tills
        BY <2>1, <4>1 DEF DrawerOK, DrawerSlotsOK, DrawerSlotOK, AtStep
      <4>3. QED
        BY <2>1, <2>2, <4>1, <4>2 DEF DrawerOK, CountingOK
    <3>3. QED
      BY <3>1, <3>2
  <2>4. Right(o, seen, uuid)'
    BY <1>15, <2>3
  <2>5. QED
    BY <1>1, <2>2, <2>4 DEF Right
<1>17. QED
  BY <1>14, <1>15, <1>16 DEF DrawerOK

\* A process death loses the events that were not written.
LEMMA DrawerSurvives ==
    ASSUME DeskOK, SlotsOK, DrawerOK, NEW t \in Tills, Crash(t)
    PROVE  DrawerOK'
<1>1. /\ UNCHANGED <<now, inbox, shift, cash>>
      /\ unsent' = unsent \cup {req[q].doc : q \in
            {r \in Requests : req[r].at = t /\ AtStep(r, "emitShift")}}
      /\ \A q \in Requests : req'[q] = IF req[q].at = t THEN IdleSlot ELSE req[q]
  BY DEF Crash, ProcessDies, DrawerLoses, SlotsOK
<1>2. IdleSlot.step = "idle"
  BY DEF IdleSlot
<1>3. \A p \in Requests : req'[p] = req[p] \/ (req'[p].step # "close" /\ DrawerSlotOK(req[p])')
  BY <1>1, <1>2 DEF DrawerSlotOK
<1>4. \A o \in Tills : Heard(o)' = Heard(o) /\ Told(o)' = Told(o)
  BY <1>1 DEF Heard, Told, News
<1>5. now' \in Nat /\ now <= now'
  BY <1>1, DeskAssumption DEF DeskOK
<1>6. /\ DrawerTypes' /\ DrawerSlotsOK' /\ PaymentsOK' /\ PaidOnce' /\ DuringOK' /\ CountedOK'
      /\ CountingOK'
  BY <1>1, <1>3, <1>4, <1>5, RestStays
<1>7. (\A o \in Tills : Rows(o)' = Rows(o)) /\ Copies' = Copies
  <2>1. \A o \in Tills : Rows(o)' = Rows(o)
    BY <1>1 DEF Rows
  <2>2. QED
    BY <1>4, <2>1 DEF Copies
<1>8. CopiesOK'
  <2>1. \A r \in Copies : r.till \in Tills
    BY CopyTypes DEF DrawerOK, Session
  <2>2. QED
    BY <1>1, <1>7, <2>1 DEF DrawerOK, CopiesOK, CopyOK, RowsOnce
<1>9. SessionsTravel'
  <2>1. SUFFICES ASSUME NEW s \in Copies
                 PROVE  s.uuid \in unsent' \/ TellingOf(s)' \/ \A o \in Tills : Known(o, s)'
    BY <1>7 DEF SessionsTravel
  <2>2. ASSUME TellingOf(s) PROVE s.uuid \in unsent' \/ TellingOf(s)'
    <3>1. PICK p \in Requests : /\ AtStep(p, "emitShift") /\ req[p].doc = s.uuid
                                /\ \E r \in Rows(req[p].at) : Covers(r, s)
      BY <2>2 DEF TellingOf
    <3>2. CASE req[p].at = t
      BY <1>1, <3>1, <3>2
    <3>3. CASE req[p].at # t
      <4>1. req'[p] = req[p] /\ req[p].at \in Tills
        BY <1>1, <3>1, <3>3 DEF AtStep, DrawerOK, DrawerSlotsOK, DrawerSlotOK
      <4>2. QED
        BY <1>7, <3>1, <4>1 DEF TellingOf, AtStep
    <3>4. QED
      BY <3>2, <3>3
  <2>3. \A o \in Tills : Known(o, s) => Known(o, s)'
    BY <1>4, <1>7 DEF Known
  <2>4. QED
    BY <1>1, <2>2, <2>3 DEF DrawerOK, SessionsTravel
<1>10. QED
  BY <1>6, <1>8, <1>9 DEF DrawerOK

-----------------------------------------------------------------------------
(***************************************************************************)
(* The two halves together.                                                *)
(***************************************************************************)
LEMMA ClockMoves ==
    ASSUME DeskOK, Moment \/ UNCHANGED now
    PROVE  now' \in 0..MaxMoments /\ now' \in Nat /\ now <= now'
BY DeskAssumption DEF DeskOK, Moment

\* What a step does to the desk when it is the drawer's: the quotes are left alone.
LEMMA DrawerFrame ==
    ASSUME DeskOK, SlotsOK, QuotesOK, UNCHANGED <<crashes, quoteVars>>,
           Moment \/ UNCHANGED now,
           \/ UNCHANGED inbox
           \/ \E t \in Tills : \E e \in CashEvent \cup ShiftEvent : Emit(t, e)
           \/ \E t \in Tills : /\ Idle(t) /\ inbox[t] # <<>> /\ Head(inbox[t]).kind # "quote"
                               /\ Received(t),
           \/ UNCHANGED req
           \/ \E q \in Requests : \E slot :
                 /\ Put(q, slot)
                 /\ req[q].step \in {"idle"} \cup DrawerSteps
                 /\ slot.step \in {"idle"} \cup DrawerSteps
    PROVE  DeskOK' /\ SlotsOK' /\ QuotesOK'
<1>1. now' \in 0..MaxMoments /\ now' \in Nat /\ now <= now'
  BY ClockMoves
<1>2. /\ DOMAIN inbox' = Tills /\ \A o \in Tills : inbox'[o] \in Seq(Event)
      /\ \A o \in Tills : Quoted(o)' = Quoted(o)
      /\ \A o \in Tills : AtStep(o, "apply") => inbox'[o] # <<>> /\ Head(inbox'[o]) = Head(inbox[o])
  <2>1. \A o \in Tills : AtStep(o, "apply") => inbox[o] # <<>>
    BY DEF QuotesOK, ApplyOK
  <2>2. CASE UNCHANGED inbox
    BY <2>1, <2>2 DEF DeskOK, Quoted, News
  <2>3. ASSUME NEW t \in Tills, NEW e \in CashEvent \cup ShiftEvent, Emit(t, e)
        PROVE  /\ DOMAIN inbox' = Tills /\ \A o \in Tills : inbox'[o] \in Seq(Event)
               /\ \A o \in Tills : Quoted(o)' = Quoted(o)
               /\ \A o \in Tills : AtStep(o, "apply") => inbox'[o] # <<>> /\ Head(inbox'[o]) = Head(inbox[o])
    <3>1. e \in Event /\ e.kind # "quote"
      BY DEF Event, CashEvent, ShiftEvent
    <3>2. /\ DOMAIN inbox' = Tills /\ \A o \in Tills : inbox'[o] \in Seq(Event)
          /\ \A o \in Tills : inbox[o] # <<>> => inbox'[o] # <<>> /\ Head(inbox'[o]) = Head(inbox[o])
      BY <2>3, <3>1, Sent
    <3>3. ASSUME NEW o \in Tills PROVE Quoted(o)' = Quoted(o)
      <4>1. Quoted(o)' = Quoted(o) \cup (IF o # t /\ e.kind = "quote" THEN {e} ELSE {})
        BY <2>3, <3>1, SentKinds
      <4>2. QED
        BY <3>1, <4>1
    <3>4. QED
      BY <2>1, <3>2, <3>3
  <2>4. ASSUME NEW t \in Tills, Idle(t), inbox[t] # <<>>, Head(inbox[t]).kind # "quote", Received(t)
        PROVE  /\ DOMAIN inbox' = Tills /\ \A o \in Tills : inbox'[o] \in Seq(Event)
               /\ \A o \in Tills : Quoted(o)' = Quoted(o)
               /\ \A o \in Tills : AtStep(o, "apply") => inbox'[o] # <<>> /\ Head(inbox'[o]) = Head(inbox[o])
    <3>1. /\ DOMAIN inbox' = Tills /\ \A o \in Tills : inbox'[o] \in Seq(Event)
          /\ \A o \in Tills \ {t} : inbox'[o] = inbox[o]
      BY <2>4, Took
    <3>2. \A o \in Tills : Quoted(o)' = Quoted(o)
      BY <2>4, TookKinds
    <3>3. ~AtStep(t, "apply")
      BY <2>4 DEF Idle, IdleSlot, AtStep
    <3>4. QED
      BY <2>1, <3>1, <3>2, <3>3
  <2>5. QED
    BY <2>2, <2>3, <2>4
<1>3. DeskOK'
  BY <1>1, <1>2 DEF DeskOK
<1>4. /\ SlotsOK'
      /\ \A p \in Requests \cup Tills :
            \/ req'[p] = req[p]
            \/ /\ req[p].step \notin {"stamp", "emitQuote"}
               /\ req'[p].step \notin {"stamp", "apply"}
               /\ QuoteSlotOK(req[p])'
  <2>1. CASE UNCHANGED req
    BY <2>1 DEF SlotsOK
  <2>2. ASSUME NEW q \in Requests, NEW slot, Put(q, slot),
               req[q].step \in {"idle"} \cup DrawerSteps,
               slot.step \in {"idle"} \cup DrawerSteps
        PROVE  /\ SlotsOK'
               /\ \A p \in Requests \cup Tills :
                     \/ req'[p] = req[p]
                     \/ /\ req[p].step \notin {"stamp", "emitQuote"}
                        /\ req'[p].step \notin {"stamp", "apply"}
                        /\ QuoteSlotOK(req[p])'
    <3>1. /\ DOMAIN req' = DOMAIN req /\ req'[q] = slot
          /\ \A p \in (Requests \cup Tills) \ {q} : req'[p] = req[p]
      BY <2>2, PutIs
    <3>2. slot.step \notin QuoteSteps /\ slot.step \notin {"stamp", "apply", "park"}
      BY <2>2 DEF DrawerSteps, QuoteSteps, Moves
    <3>3. req[q].step \notin {"stamp", "emitQuote"}
      BY <2>2 DEF DrawerSteps
    <3>4. SlotsOK'
      BY <3>1, <3>2, DeskAssumption DEF SlotsOK
    <3>5. QuoteSlotOK(req[q])'
      BY <3>1, <3>2 DEF QuoteSlotOK
    <3>6. QED
      BY <3>1, <3>2, <3>3, <3>4, <3>5
  <2>3. QED
    BY <2>1, <2>2
<1>5. DOMAIN req' = DOMAIN req
  BY <1>4 DEF SlotsOK
<1>6. QuotesOK'
  BY <1>1, <1>2, <1>4, <1>5, QuotesStay DEF quoteVars
<1>7. QED
  BY <1>3, <1>4, <1>6

\* And when it is the quotes': the drawer is left alone.
LEMMA QuotesFrame ==
    ASSUME DeskOK, SlotsOK, DrawerOK, UNCHANGED <<crashes, drawerVars>>,
           Moment \/ UNCHANGED now,
           \/ UNCHANGED inbox
           \/ \E t \in Tills : \E e \in QuoteEvent : Emit(t, e)
           \/ \E t \in Tills : inbox[t] # <<>> /\ Head(inbox[t]).kind = "quote" /\ Received(t),
           \/ UNCHANGED req
           \/ \E q \in Requests : \E slot :
                 /\ Put(q, slot)
                 /\ req[q].step \in {"idle"} \cup QuoteSteps
                 /\ slot.step \in ({"idle"} \cup QuoteSteps) \ {"apply"}
           \/ \E t \in Tills : \E slot :
                 /\ Put(t, slot) /\ slot.step \in {"idle", "apply"}
                 /\ slot.step = "apply" => slot.at = t
    PROVE  DeskOK' /\ SlotsOK' /\ DrawerOK'
<1>1. now' \in 0..MaxMoments /\ now' \in Nat /\ now <= now'
  BY ClockMoves
<1>2. /\ DOMAIN inbox' = Tills /\ \A o \in Tills : inbox'[o] \in Seq(Event)
      /\ \A o \in Tills : Heard(o)' = Heard(o) /\ Told(o)' = Told(o)
  <2>1. CASE UNCHANGED inbox
    BY <2>1 DEF DeskOK, Heard, Told, News
  <2>2. ASSUME NEW t \in Tills, NEW e \in QuoteEvent, Emit(t, e)
        PROVE  /\ DOMAIN inbox' = Tills /\ \A o \in Tills : inbox'[o] \in Seq(Event)
               /\ \A o \in Tills : Heard(o)' = Heard(o) /\ Told(o)' = Told(o)
    <3>1. e \in Event /\ e.kind # "cash" /\ e.kind # "shift"
      BY DEF Event, QuoteEvent
    <3>2. DOMAIN inbox' = Tills /\ \A o \in Tills : inbox'[o] \in Seq(Event)
      BY <2>2, <3>1, Sent
    <3>3. ASSUME NEW o \in Tills PROVE Heard(o)' = Heard(o) /\ Told(o)' = Told(o)
      <4>1. /\ Heard(o)' = Heard(o) \cup (IF o # t /\ e.kind = "cash" THEN {e.row} ELSE {})
            /\ Told(o)' = Told(o) \cup (IF o # t /\ e.kind = "shift" THEN {e.row} ELSE {})
        BY <2>2, <3>1, SentKinds
      <4>2. QED
        BY <3>1, <4>1
    <3>4. QED
      BY <3>2, <3>3
  <2>3. ASSUME NEW t \in Tills, inbox[t] # <<>>, Head(inbox[t]).kind = "quote", Received(t)
        PROVE  /\ DOMAIN inbox' = Tills /\ \A o \in Tills : inbox'[o] \in Seq(Event)
               /\ \A o \in Tills : Heard(o)' = Heard(o) /\ Told(o)' = Told(o)
    <3>1. Head(inbox[t]).kind # "cash" /\ Head(inbox[t]).kind # "shift"
      BY <2>3
    <3>2. \A o \in Tills : Heard(o)' = Heard(o) /\ Told(o)' = Told(o)
      BY <2>3, <3>1, TookKinds
    <3>3. QED
      BY <2>3, <3>2, Took
  <2>4. QED
    BY <2>1, <2>2, <2>3
<1>3. DeskOK'
  BY <1>1, <1>2 DEF DeskOK
<1>4. /\ SlotsOK'
      /\ \A p \in Requests :
            \/ req'[p] = req[p]
            \/ req[p].step # "emitShift" /\ req'[p].step # "close" /\ DrawerSlotOK(req[p])'
  <2>1. CASE UNCHANGED req
    BY <2>1 DEF SlotsOK
  <2>2. ASSUME NEW q \in Requests, NEW slot, Put(q, slot),
               req[q].step \in {"idle"} \cup QuoteSteps,
               slot.step \in ({"idle"} \cup QuoteSteps) \ {"apply"}
        PROVE  /\ SlotsOK'
               /\ \A p \in Requests :
                     \/ req'[p] = req[p]
                     \/ /\ req[p].step # "emitShift" /\ req'[p].step # "close"
                        /\ DrawerSlotOK(req[p])'
    <3>1. /\ DOMAIN req' = DOMAIN req /\ req'[q] = slot
          /\ \A p \in (Requests \cup Tills) \ {q} : req'[p] = req[p]
      BY <2>2, PutIs
    <3>2. /\ slot.step # "apply" /\ slot.step # "open" /\ slot.step # "close"
          /\ slot.step # "emitShift" /\ req[q].step # "emitShift"
      BY <2>2 DEF QuoteSteps, Moves
    <3>3. SlotsOK'
      BY <3>1, <3>2, DeskAssumption DEF SlotsOK
    <3>4. DrawerSlotOK(req[q])'
      BY <3>1, <3>2 DEF DrawerSlotOK
    <3>5. QED
      BY <3>1, <3>2, <3>3, <3>4
  <2>3. ASSUME NEW t \in Tills, NEW slot, Put(t, slot), slot.step \in {"idle", "apply"},
               slot.step = "apply" => slot.at = t
        PROVE  SlotsOK' /\ \A p \in Requests : req'[p] = req[p]
    <3>1. /\ DOMAIN req' = DOMAIN req /\ req'[t] = slot
          /\ \A p \in (Requests \cup Tills) \ {t} : req'[p] = req[p]
      BY <2>3, PutIs
    <3>2. QED
      BY <2>3, <3>1, DeskAssumption DEF SlotsOK
  <2>4. QED
    BY <2>1, <2>2, <2>3
<1>5. DrawerOK'
  BY <1>1, <1>2, <1>4, DrawerStays DEF drawerVars
<1>6. QED
  BY <1>3, <1>4, <1>5

IInv == DeskOK /\ SlotsOK /\ DrawerOK /\ QuotesOK

\* The steps of requests about a session.
LEMMA SessionSteps ==
    ASSUME IInv, Sessions, UNCHANGED quoteVars
    PROVE  IInv'
<1> USE DEF IInv
<1>1. PICK q \in Requests :
          \/ \E t \in Tills, u \in Staff : OpenShiftLook(q, t, u) \/ CloseShiftLook(q, t, u)
          \/ OpenShift(q) \/ CloseShift(q) \/ EmitShift(q)
  BY DEF Sessions
<1>2. ASSUME NEW t \in Tills, NEW u \in Staff, OpenShiftLook(q, t, u) PROVE IInv'
  <2>1. PICK slot : slot = Work("open", t, u, None)
    OBVIOUS
  <2>2. slot.step \in {"idle"} \cup DrawerSteps /\ req[q].step \in {"idle"} \cup DrawerSteps
    BY <1>2, <2>1, WorkIs DEF OpenShiftLook, Idle, IdleSlot, DrawerSteps
  <2>3. Put(q, slot) /\ UNCHANGED <<now, inbox, crashes>>
    BY <1>2, <2>1 DEF OpenShiftLook
  <2>4. DeskOK' /\ SlotsOK' /\ QuotesOK'
    BY <2>2, <2>3, DrawerFrame
  <2>5. QED
    BY <1>2, <2>4, OpenShiftLookOK
<1>3. ASSUME NEW t \in Tills, NEW u \in Staff, CloseShiftLook(q, t, u) PROVE IInv'
  <2>1. PICK i, sum : i = CurrentShift(t, u) /\ sum = {p.id : p \in Expected(t, i)}
    OBVIOUS
  <2>2. PICK slot : slot = [Work("close", t, i, None) EXCEPT !.sum = sum]
    OBVIOUS
  <2>3. slot.step \in {"idle"} \cup DrawerSteps /\ req[q].step \in {"idle"} \cup DrawerSteps
    BY <1>3, <2>2 DEF CloseShiftLook, Idle, IdleSlot, Work, DrawerSteps
  <2>4. Put(q, slot) /\ UNCHANGED <<now, inbox, crashes>>
    BY <1>3, <2>1, <2>2 DEF CloseShiftLook
  <2>5. DeskOK' /\ SlotsOK' /\ QuotesOK'
    BY <2>3, <2>4, DrawerFrame
  <2>6. QED
    BY <1>3, <2>5, CloseShiftLookOK
<1>4. CASE OpenShift(q)
  <2>1. PICK slot : slot = Work("emitShift", req[q].at, now', None)
    OBVIOUS
  <2>2. slot.step \in {"idle"} \cup DrawerSteps /\ req[q].step \in {"idle"} \cup DrawerSteps
    BY <1>4, <2>1, WorkIs DEF OpenShift, AtStep, DrawerSteps
  <2>3. Put(q, slot) /\ UNCHANGED <<inbox, crashes>> /\ Moment
    BY <1>4, <2>1 DEF OpenShift
  <2>4. DeskOK' /\ SlotsOK' /\ QuotesOK'
    BY <2>2, <2>3, DrawerFrame
  <2>5. QED
    BY <1>4, <2>4, OpenShiftOK
<1>5. CASE CloseShift(q)
  <2>1. PICK slot : slot \in {IdleSlot, Work("emitShift", req[q].at, shift[req[q].at][req[q].doc].uuid, None)}
                    /\ Put(q, slot)
    BY <1>5 DEF CloseShift
  <2>2. slot.step \in {"idle"} \cup DrawerSteps /\ req[q].step \in {"idle"} \cup DrawerSteps
    BY <1>5, <2>1, WorkIs DEF CloseShift, AtStep, DrawerSteps, IdleSlot
  <2>3. UNCHANGED <<inbox, crashes>> /\ Moment
    BY <1>5 DEF CloseShift
  <2>4. DeskOK' /\ SlotsOK' /\ QuotesOK'
    BY <2>1, <2>2, <2>3, DrawerFrame
  <2>5. QED
    BY <1>5, <2>4, CloseShiftOK
<1>6. CASE EmitShift(q)
  <2>1. req[q].at \in Tills /\ RowOf(req[q].at, req[q].doc) # {} /\ req[q].step = "emitShift"
    BY <1>6 DEF EmitShift, AtStep, DrawerOK, DrawerSlotsOK, DrawerSlotOK
  <2>2. PICK t \in Tills : t = req[q].at
    BY <2>1
  <2>3. PICK uuid : uuid = req[q].doc
    OBVIOUS
  <2>4. PICK row : row = shift[t][CHOOSE j \in DOMAIN shift[t] : shift[t][j].uuid = uuid]
    OBVIOUS
  <2>5. row \in Session
    BY <2>1, <2>2, <2>3, <2>4, RowTypes DEF RowOf, DrawerOK
  <2>6. PICK e : e = [kind |-> "shift", row |-> row]
    OBVIOUS
  <2>7. e \in CashEvent \cup ShiftEvent
    BY <2>5, <2>6 DEF ShiftEvent
  <2>8. Emit(t, e) /\ Put(q, IdleSlot) /\ UNCHANGED <<now, crashes>>
    BY <1>6, <2>2, <2>3, <2>4, <2>6 DEF EmitShift
  <2>9. req[q].step \in {"idle"} \cup DrawerSteps /\ IdleSlot.step \in {"idle"} \cup DrawerSteps
    BY <2>1 DEF DrawerSteps, IdleSlot
  <2>10. DeskOK' /\ SlotsOK' /\ QuotesOK'
    BY <2>7, <2>8, <2>9, DrawerFrame
  <2>11. QED
    BY <1>6, <2>10, EmitShiftOK
<1>7. QED
  BY <1>1, <1>2, <1>3, <1>4, <1>5, <1>6

\* Sales and what comes from the other tills.
LEMMA CashSteps ==
    ASSUME IInv, NEW t \in Tills, UNCHANGED quoteVars,
           \/ \E u \in Staff : CashSale(t, u)
           \/ VoidSale(t) \/ ApplyCash(t) \/ ApplyVoid(t) \/ applyShift(t)
    PROVE  IInv'
<1> USE DEF IInv
<1>1. ASSUME NEW u \in Staff, CashSale(t, u) PROVE IInv'
  <2>1. DrawerOK'
    BY <1>1, CashSaleOK
  <2>2. PICK paid : paid = [id |-> now', who |-> u, at |-> nowStamp(t), status |-> "COMPLETED",
                            till |-> t, during |-> {shift[t][i].uuid : i \in Serving(t, u)},
                            session |-> SessionOf(t, u)]
    OBVIOUS
  <2>3. paid \in cash'[t]
    BY <1>1, <2>2 DEF CashSale, DrawerOK, DrawerTypes
  <2>4. paid \in Payment
    BY <2>1, <2>3 DEF DrawerOK, DrawerTypes
  <2>5. PICK e : e = [kind |-> "cash", row |-> paid]
    OBVIOUS
  <2>6. e \in CashEvent \cup ShiftEvent
    BY <2>4, <2>5 DEF CashEvent
  <2>7. Emit(t, e) /\ UNCHANGED <<req, crashes>> /\ Moment
    BY <1>1, <2>2, <2>5 DEF CashSale
  <2>8. DeskOK' /\ SlotsOK' /\ QuotesOK'
    BY <2>6, <2>7, DrawerFrame
  <2>9. QED
    BY <2>1, <2>8
<1>2. CASE VoidSale(t)
  <2>1. PICK p \in cash[t] : Emit(t, [kind |-> "void", row |-> p])
    BY <1>2 DEF VoidSale
  <2>2. p \in Payment
    BY RowTypes DEF DrawerOK
  <2>3. PICK e : e = [kind |-> "void", row |-> p]
    OBVIOUS
  <2>4. e \in CashEvent \cup ShiftEvent /\ Emit(t, e)
    BY <2>1, <2>2, <2>3 DEF CashEvent
  <2>5. UNCHANGED <<now, req, crashes>>
    BY <1>2 DEF VoidSale
  <2>6. DeskOK' /\ SlotsOK' /\ QuotesOK'
    BY <2>4, <2>5, DrawerFrame
  <2>7. QED
    BY <1>2, <2>6, VoidSaleOK
<1>3. CASE ApplyCash(t) \/ ApplyVoid(t) \/ applyShift(t)
  <2>1. /\ Idle(t) /\ inbox[t] # <<>> /\ Head(inbox[t]).kind # "quote" /\ Received(t)
        /\ UNCHANGED <<now, req, crashes>>
    BY <1>3 DEF ApplyCash, ApplyVoid, applyShift, Arrived
  <2>2. DeskOK' /\ SlotsOK' /\ QuotesOK'
    BY <2>1, DrawerFrame
  <2>3. QED
    BY <1>3, <2>2, ApplyCashOK, ApplyVoidOK, applyShiftOK
<1>4. QED
  BY <1>1, <1>2, <1>3

\* The steps of requests about a quote.
LEMMA QuotingSteps ==
    ASSUME IInv, Quoting \/ Parking, UNCHANGED drawerVars
    PROVE  IInv'
<1> USE DEF IInv
<1> DEFINE Free == {"idle"} \cup QuoteSteps
<1>1. ASSUME NEW q \in Requests, NEW slot, Put(q, slot), req[q].step \in Free,
             slot.step \in Free \ {"apply"}, Moment \/ UNCHANGED now, UNCHANGED <<inbox, crashes>>
      PROVE  DeskOK' /\ SlotsOK' /\ DrawerOK'
  BY <1>1, QuotesFrame
<1>2. IdleSlot.step = "idle"
  BY DEF IdleSlot
<1>3. ASSUME NEW q \in Requests, NEW t \in Tills, NEW k \in Papers, NEW seen,
             NEW step \in {"edit", "park"} \cup Moves, Idle(q), Put(q, Work(step, t, k, seen)),
             step = "park" => seen \in Nat,
             UNCHANGED <<now, inbox, crashes, quote, held, parked, undone, harmed>>
      PROVE  IInv'
  <2>1. QuotesOK'
    BY <1>3, Looked
  <2>2. PICK slot : slot = Work(step, t, k, seen)
    OBVIOUS
  <2>3. slot.step = step
    BY <2>2, WorkIs
  <2>4. slot.step \in Free \ {"apply"} /\ req[q].step \in Free
    BY <1>2, <1>3, <2>3 DEF Idle, QuoteSteps, Moves
  <2>5. Put(q, slot)
    BY <1>3, <2>2
  <2>6. QED
    BY <1>1, <1>3, <2>1, <2>4, <2>5
<1>4. ASSUME NEW q \in Requests, NEW step \in Free \ {"apply"}, NEW at, NEW doc, NEW seen,
             Put(q, Work(step, at, doc, seen)), req[q].step \in Free, Moment,
             UNCHANGED <<inbox, crashes>>
      PROVE  DeskOK' /\ SlotsOK' /\ DrawerOK'
  <2>1. PICK slot : slot = Work(step, at, doc, seen)
    OBVIOUS
  <2>2. slot.step = step /\ Put(q, slot)
    BY <1>4, <2>1, WorkIs
  <2>3. QED
    BY <1>1, <1>4, <2>2
<1>5. "emitQuote" \in Free \ {"apply"} /\ "stamp" \in Free \ {"apply"}
  BY DEF QuoteSteps
<1>6. ASSUME NEW q \in Requests, NEW t \in Tills, NEW k \in Papers, CreateQuote(q, t, k) PROVE IInv'
  <2>1. QuotesOK'
    BY <1>6, Created
  <2>2. /\ Put(q, Work("emitQuote", t, k, None)) /\ req[q].step = "idle" /\ Moment
        /\ UNCHANGED <<inbox, crashes>>
    BY <1>2, <1>6 DEF CreateQuote, Idle
  <2>3. DeskOK' /\ SlotsOK' /\ DrawerOK'
    BY <1>4, <1>5, <2>2
  <2>4. QED
    BY <2>1, <2>3
<1>7. ASSUME NEW q \in Requests, NEW t \in Tills, NEW k \in Papers,
             \/ UpdateQuoteLook(q, t, k)
             \/ \E status \in Moves : SetQuoteStatusLook(q, t, k, status)
      PROVE  IInv'
  <2>1. PICK step \in {"edit"} \cup Moves :
            /\ Idle(q) /\ Put(q, Work(step, t, k, None))
            /\ UNCHANGED <<now, inbox, crashes, quote, held, parked, undone, harmed>>
    BY <1>7 DEF UpdateQuoteLook, SetQuoteStatusLook
  <2>2. step # "park"
    BY DEF Moves
  <2>3. QED
    BY <1>3, <2>1, <2>2
<1>8. ASSUME NEW q \in Requests, NEW t \in Tills, NEW k \in Papers, ConvertQuoteLook(q, t, k) PROVE IInv'
  <2>1. PICK seen \in Nat : seen = quote[t][k].rev
    BY DEF QuotesOK, QuoteTypes, QuoteRow
  <2>2. /\ Idle(q) /\ Put(q, Work("park", t, k, seen))
        /\ UNCHANGED <<now, inbox, crashes, quote, held, parked, undone, harmed>>
    BY <1>8, <2>1 DEF ConvertQuoteLook, GetQuote, quoteVars
  <2>3. QED
    BY <1>3, <2>2
<1>9. ASSUME NEW q \in Requests, UpdateQuote(q) \/ SetQuoteStatus(q) PROVE IInv'
  <2>1. QuotesOK'
    BY <1>9, Edited
  <2>2. /\ Put(q, Work("emitQuote", req[q].at, req[q].doc, None)) /\ Moment
        /\ UNCHANGED <<inbox, crashes>> /\ req[q].step \in Free
    BY <1>9 DEF UpdateQuote, SetQuoteStatus, ToTell, AtStep, QuoteSteps
  <2>3. DeskOK' /\ SlotsOK' /\ DrawerOK'
    BY <1>4, <1>5, <2>2
  <2>4. QED
    BY <2>1, <2>3
<1>10. ASSUME NEW q \in Requests, ConvertQuote(q) PROVE IInv'
  <2>1. QuotesOK'
    BY <1>10, Converted
  <2>2. Moment /\ UNCHANGED <<inbox, crashes>> /\ req[q].step \in Free
    BY <1>10 DEF ConvertQuote, AtStep, QuoteSteps
  <2>3. Put(q, Work("emitQuote", req[q].at, req[q].doc, None)) \/ Put(q, IdleSlot)
    BY <1>10 DEF ConvertQuote, ToTell
  <2>4. DeskOK' /\ SlotsOK' /\ DrawerOK'
    <3>1. CASE Put(q, IdleSlot)
      <4>1. IdleSlot.step \in Free \ {"apply"}
        BY <1>2
      <4>2. QED
        BY <1>1, <2>2, <3>1, <4>1
    <3>2. CASE Put(q, Work("emitQuote", req[q].at, req[q].doc, None))
      BY <1>4, <1>5, <2>2, <3>2
    <3>3. QED
      BY <2>3, <3>1, <3>2
  <2>5. QED
    BY <2>1, <2>4
<1>11. ASSUME NEW q \in Requests, EmitQuote(q) PROVE IInv'
  <2>1. QuotesOK'
    BY <1>11, QuoteSent
  <2>2. req[q].at \in Tills /\ req[q].doc \in Papers /\ req[q].step = "emitQuote"
    BY <1>11 DEF EmitQuote, AtStep, QuotesOK, QuoteSlotsOK, QuoteSlotOK, QuoteSteps
  <2>3. PICK t \in Tills, k \in Papers : t = req[q].at /\ k = req[q].doc
    BY <2>2
  <2>4. PICK row \in QuoteRow : row = quote[t][k]
    BY DEF QuotesOK, QuoteTypes
  <2>5. PICK e \in QuoteEvent : e = [kind |-> "quote", paper |-> k, row |-> row]
    BY DEF QuoteEvent
  <2>6. Emit(t, e) /\ Put(q, IdleSlot) /\ UNCHANGED <<now, crashes>>
    BY <1>11, <2>3, <2>4, <2>5 DEF EmitQuote
  <2>7. req[q].step \in Free /\ IdleSlot.step \in Free \ {"apply"}
    BY <1>2, <2>2 DEF QuoteSteps
  <2>8. DeskOK' /\ SlotsOK' /\ DrawerOK'
    BY <2>6, <2>7, QuotesFrame
  <2>9. QED
    BY <2>1, <2>8
<1>12. ASSUME NEW q \in Requests, HoldSale(q) PROVE IInv'
  <2>1. QuotesOK'
    BY <1>12, Parked
  <2>2. /\ Put(q, Work("stamp", req[q].at, req[q].doc, now')) /\ Moment
        /\ UNCHANGED <<inbox, crashes>> /\ req[q].step \in Free
    BY <1>12 DEF HoldSale, AtStep, QuoteSteps
  <2>3. DeskOK' /\ SlotsOK' /\ DrawerOK'
    BY <1>4, <1>5, <2>2
  <2>4. QED
    BY <2>1, <2>3
<1>13. ASSUME NEW t \in Tills, NEW h \in held[t], DeleteHeldSale(t, h) PROVE IInv'
  <2>1. UNCHANGED <<now, inbox, req, crashes>>
    BY <1>13 DEF DeleteHeldSale, deskVars
  <2>2. QED
    BY <1>13, <2>1, Discarded, QuotesFrame
<1>14. QED
  BY <1>6, <1>7, <1>8, <1>9, <1>10, <1>11, <1>12, <1>13 DEF Quoting, Parking

LEMMA Inits ==
    ASSUME Init
    PROVE  IInv
<1>1. /\ now = 0 /\ crashes = 0 /\ inbox = [t \in Tills |-> <<>>]
      /\ req = [q \in Requests \cup Tills |-> IdleSlot]
      /\ shift = [t \in Tills |-> <<>>] /\ cash = [t \in Tills |-> {}]
      /\ quote = [t \in Tills |-> [k \in Papers |-> NoQuote]]
      /\ held = [t \in Tills |-> {}] /\ parked = [k \in Papers |-> {}]
      /\ undone = [t \in Tills |-> [k \in Papers |-> 0]]
  BY DEF Init, DeskInit, DrawerInit, QuotesInit
<1>2. IdleSlot.step = "idle"
  BY DEF IdleSlot
<1>3. DeskOK
  BY <1>1, DeskAssumption DEF DeskOK
<1>4. SlotsOK
  BY <1>1, <1>2 DEF SlotsOK
<1>5. \A o \in Tills : News(o) = {} /\ Heard(o) = {} /\ Told(o) = {} /\ Quoted(o) = {}
  <2>1. \A o \in Tills : News(o) = {}
    BY <1>1 DEF News
  <2>2. QED
    BY <2>1 DEF Heard, Told, Quoted
<1>6. \A o \in Tills : Rows(o) = {} /\ DOMAIN shift[o] = {} /\ Local(o) = {} /\ Own(o) = {}
  BY <1>1 DEF Rows, Local, Own
<1>7. Copies = {}
  BY <1>5, <1>6 DEF Copies
<1>8. \A q \in Requests \cup Tills : req[q].step = "idle"
  BY <1>1, <1>2
<1>9. DrawerOK
  <2>1. DrawerTypes /\ DrawerSlotsOK
    BY <1>1, <1>8 DEF DrawerTypes, DrawerSlotsOK, DrawerSlotOK
  <2>2. PaymentsOK /\ PaidOnce
    BY <1>1, <1>5 DEF PaymentsOK, PaidOnce
  <2>3. CopiesOK /\ SessionsTravel
    BY <1>6, <1>7 DEF CopiesOK, RowsOnce, SessionsTravel
  <2>4. DuringOK /\ CountingOK /\ CountedOK
    BY <1>6, <1>8 DEF DuringOK, CountingOK, CountedOK, AtStep
  <2>5. QED
    BY <2>1, <2>2, <2>3, <2>4 DEF DrawerOK
<1>10. \A k \in Papers : Versions(k) \subseteq {NoQuote}
  BY <1>1, <1>5 DEF Versions
<1>11. QuotesOK
  <2>1. QuoteTypes
    BY <1>1 DEF QuoteTypes, QuoteRow, NoQuote, Statuses
  <2>2. QuoteSlotsOK
    BY <1>8 DEF QuoteSlotsOK, QuoteSlotOK, QuoteSteps, Moves
  <2>3. StampsOK
    BY <1>10 DEF StampsOK, Stamped
  <2>4. ApplyOK /\ StampingOK
    BY <1>8 DEF ApplyOK, StampingOK, AtStep
  <2>5. QuotesTravel
    <3>1. SUFFICES ASSUME NEW k \in Papers, NEW row \in Versions(k), NEW o \in Tills
                   PROVE  Reached(o, k, row.stamp)
      BY DEF QuotesTravel
    <3>2. row = NoQuote /\ quote[o][k] = NoQuote /\ NoQuote.stamp = 0
      BY <1>1, <1>10 DEF NoQuote
    <3>3. QED
      BY <3>2 DEF Reached
  <2>6. ParkedOK
    <3>1. \A t \in Tills : \A k \in Papers :
              /\ Wins(t, k) = {} /\ Spare(t, k) = 1 /\ undone[t][k] = 0
      BY <1>1 DEF Wins, Spare, NoQuote
    <3>2. QED
      BY <3>1, FS_EmptySet DEF ParkedOK
  <2>7. HeldOK
    BY <1>1 DEF HeldOK
  <2>8. QED
    BY <2>1, <2>2, <2>3, <2>4, <2>5, <2>6, <2>7 DEF QuotesOK
<1>12. QED
  BY <1>3, <1>4, <1>9, <1>11 DEF IInv

\* A till takes a quote of another till.
LEMMA TakeSteps ==
    ASSUME IInv, NEW t \in Tills, applyQuoteLook(t) \/ applyQuote(t), UNCHANGED drawerVars
    PROVE  IInv'
<1> USE DEF IInv
<1>1. CASE applyQuoteLook(t)
  <2>1. PICK k, seen : k = Head(inbox[t]).paper /\ seen = quote[t][k].stamp
    OBVIOUS
  <2>2. PICK slot : slot = Work("apply", t, k, seen)
    OBVIOUS
  <2>3. Put(t, slot) /\ slot.step = "apply" /\ slot.at = t /\ UNCHANGED <<now, inbox, crashes>>
    BY <1>1, <2>1, <2>2, WorkIs DEF applyQuoteLook
  <2>4. DeskOK' /\ SlotsOK' /\ DrawerOK'
    BY <2>3, QuotesFrame
  <2>5. QED
    BY <1>1, <2>4, Compared
<1>2. CASE applyQuote(t)
  <2>1. inbox[t] # <<>> /\ Head(inbox[t]).kind = "quote"
    BY <1>2 DEF applyQuote, QuotesOK, ApplyOK
  <2>2. PICK slot : slot = IdleSlot
    OBVIOUS
  <2>3. Put(t, slot) /\ slot.step = "idle" /\ Received(t) /\ UNCHANGED <<now, crashes>>
    BY <1>2, <2>2 DEF applyQuote, IdleSlot
  <2>4. DeskOK' /\ SlotsOK' /\ DrawerOK'
    BY <2>1, <2>3, QuotesFrame
  <2>5. QED
    BY <1>2, <2>4, TakenOver
<1>3. QED
  BY <1>1, <1>2

\* The process of a till dies.
LEMMA CrashSteps ==
    ASSUME IInv, NEW t \in Tills, Crash(t)
    PROVE  IInv'
<1> USE DEF IInv
<1>1. /\ UNCHANGED <<now, inbox>> /\ crashes' = crashes + 1 /\ crashes \in Nat
      /\ DOMAIN req' = DOMAIN req
      /\ \A q \in Requests \cup Tills : req'[q] = IF req[q].at = t THEN IdleSlot ELSE req[q]
  BY DEF Crash, ProcessDies, SlotsOK, DeskOK
<1>2. IdleSlot.step = "idle"
  BY DEF IdleSlot
<1>3. DeskOK'
  BY <1>1 DEF DeskOK
<1>4. SlotsOK'
  BY <1>1, <1>2 DEF SlotsOK
<1>5. QED
  BY <1>3, <1>4, DrawerSurvives, QuotesSurvive

LEMMA Steps ==
    ASSUME IInv, [Next]_deskState
    PROVE  IInv'
<1>1. CASE UNCHANGED deskState
  <2>1. UNCHANGED <<deskVars, drawerVars, quoteVars, now, inbox, req, crashes>>
    BY <1>1 DEF deskState, deskVars
  <2>2. DeskOK' /\ SlotsOK' /\ QuotesOK'
    BY <2>1, DrawerFrame DEF IInv
  <2>3. DrawerOK'
    BY <2>1, QuotesFrame DEF IInv
  <2>4. QED
    BY <2>2, <2>3 DEF IInv
<1>2. CASE DrawerNext /\ UNCHANGED quoteVars
  BY <1>2, SessionSteps, CashSteps DEF DrawerNext
<1>3. CASE QuotesNext /\ UNCHANGED drawerVars
  BY <1>3, QuotingSteps, TakeSteps DEF QuotesNext
<1>4. ASSUME NEW t \in Tills, Crash(t) PROVE IInv'
  BY <1>4, CrashSteps
<1>5. QED
  BY <1>1, <1>2, <1>3, <1>4 DEF Next

\* The invariant of the front desk: what a request has read is about a row that is there;
\* every copy of a session has its origin, and a closed one the close it is a copy of; what
\* is new somewhere is on its way everywhere or somebody is about to tell it.
THEOREM FrontDeskInvariant == Spec => []IInv
<1>1. Init => IInv
  BY Inits
<1>2. IInv /\ [Next]_deskState => IInv'
  BY Steps
<1>3. QED
  BY <1>1, <1>2, PTL DEF Spec

-----------------------------------------------------------------------------
\* What is counted, or being counted, for a session is booked on its owner and not older.
Backed(t, counted, row) ==
    \A id \in counted : \E p \in cash[t] : p.id = id /\ p.who = row.owner /\ p.at >= row.opened
BackedSlots ==
    \A q \in Requests : AtStep(q, "close") => Backed(req[q].at, req[q].sum, shift[req[q].at][req[q].doc])
BackedRows ==
    \A t \in Tills : \A i \in DOMAIN shift[t] :
        shift[t][i].by = t => Backed(t, shift[t][i].counted, shift[t][i])
BackedOK == BackedSlots /\ BackedRows

\* No payment is taken off a till, nor its cashier or stamp changed.
CashKept == \A t \in Tills : \A p \in cash[t] : \E r \in cash'[t] : r.id = p.id /\ r.who = p.who /\ r.at = p.at
\* No session is taken off a till, nor its owner or opening changed.
RowsKept ==
    \A t \in Tills : \A i \in DOMAIN shift[t] :
        i \in DOMAIN shift'[t] /\ shift'[t][i].owner = shift[t][i].owner /\ shift'[t][i].opened = shift[t][i].opened

\* What is backed stays so while payments and sessions are kept, if a request that adds up
\* has added up before and a session closed here was closed before or by such a request.
LEMMA BackedStays ==
    ASSUME IInv, BackedOK, CashKept, RowsKept,
           \A q \in Requests : req'[q] = req[q] \/ req'[q].step # "close",
           \A t \in Tills : \A i \in DOMAIN shift'[t] : shift'[t][i].by = t =>
               \/ shift'[t][i].counted = {}
               \/ /\ i \in DOMAIN shift[t] /\ shift[t][i].by = t
                  /\ shift'[t][i].counted = shift[t][i].counted
               \/ \E q \in Requests : /\ AtStep(q, "close") /\ req[q].at = t /\ req[q].doc = i
                                      /\ shift'[t][i].counted = req[q].sum
    PROVE  BackedOK'
<1>1. ASSUME NEW t \in Tills, NEW i \in DOMAIN shift[t], NEW counted, Backed(t, counted, shift[t][i])
      PROVE  i \in DOMAIN shift'[t] /\ Backed(t, counted, shift[t][i])'
  <2>1. PICK row : row = shift[t][i]
    OBVIOUS
  <2>2. PICK new : new = shift'[t][i]
    OBVIOUS
  <2>3. i \in DOMAIN shift'[t] /\ new.owner = row.owner /\ new.opened = row.opened
    BY <2>1, <2>2 DEF RowsKept
  <2>4. SUFFICES ASSUME NEW id \in counted
                 PROVE  \E r \in cash'[t] : r.id = id /\ r.who = new.owner /\ r.at >= new.opened
    BY <2>2, <2>3 DEF Backed
  <2>5. PICK p \in cash[t] : p.id = id /\ p.who = row.owner /\ p.at >= row.opened
    BY <1>1, <2>1 DEF Backed
  <2>6. PICK r \in cash'[t] : r.id = p.id /\ r.who = p.who /\ r.at = p.at
    BY DEF CashKept
  <2>7. QED
    BY <2>3, <2>5, <2>6
<1>2. \A q \in Requests : AtStep(q, "close") => req[q].at \in Tills /\ req[q].doc \in DOMAIN shift[req[q].at]
  BY DEF IInv, DrawerOK, DrawerSlotsOK, DrawerSlotOK, AtStep
<1>3. BackedSlots'
  <2>1. SUFFICES ASSUME NEW q \in Requests, AtStep(q, "close"), req'[q] = req[q]
                 PROVE  Backed(req[q].at, req[q].sum, shift[req[q].at][req[q].doc])'
    BY DEF BackedSlots, AtStep
  <2>2. PICK t \in Tills : t = req[q].at
    BY <1>2, <2>1
  <2>3. PICK i \in DOMAIN shift[t] : i = req[q].doc
    BY <1>2, <2>1, <2>2
  <2>4. PICK sum : sum = req[q].sum
    OBVIOUS
  <2>5. Backed(t, sum, shift[t][i])
    BY <2>1, <2>2, <2>3, <2>4 DEF BackedOK, BackedSlots
  <2>6. Backed(t, sum, shift[t][i])'
    BY <1>1, <2>5
  <2>7. QED
    BY <2>1, <2>2, <2>3, <2>4, <2>6
<1>4. BackedRows'
  <2>1. SUFFICES ASSUME NEW t \in Tills, NEW i \in DOMAIN shift'[t], shift'[t][i].by = t
                 PROVE  Backed(t, shift[t][i].counted, shift[t][i])'
    BY DEF BackedRows
  <2>2. PICK counted : counted = shift'[t][i].counted
    OBVIOUS
  <2>3. CASE counted = {}
    BY <2>2, <2>3 DEF Backed
  <2>4. CASE i \in DOMAIN shift[t] /\ shift[t][i].by = t /\ counted = shift[t][i].counted
    <3>1. Backed(t, counted, shift[t][i])
      BY <2>4 DEF BackedOK, BackedRows
    <3>2. QED
      BY <1>1, <2>2, <2>4, <3>1
  <2>5. CASE \E q \in Requests : /\ AtStep(q, "close") /\ req[q].at = t /\ req[q].doc = i
                                 /\ counted = req[q].sum
    <3>1. PICK q \in Requests : AtStep(q, "close") /\ req[q].at = t /\ req[q].doc = i /\ counted = req[q].sum
      BY <2>5
    <3>2. i \in DOMAIN shift[t] /\ Backed(t, counted, shift[t][i])
      BY <1>2, <3>1 DEF BackedOK, BackedSlots
    <3>3. QED
      BY <1>1, <2>2, <3>2
  <2>6. QED
    BY <2>1, <2>2, <2>3, <2>4, <2>5
<1>5. QED
  BY <1>3, <1>4 DEF BackedOK

\* What leaves the drawer alone keeps what is backed, and so does a slot that does not add up.
LEMMA BackedFrame ==
    ASSUME IInv, BackedOK, UNCHANGED <<shift, cash>>,
           \A q \in Requests : req'[q] = req[q] \/ req'[q].step # "close"
    PROVE  BackedOK'
<1>1. CashKept /\ RowsKept
  BY DEF CashKept, RowsKept
<1>2. QED
  BY <1>1, BackedStays DEF IInv, DrawerOK, DrawerTypes

\* A request that puts something else than a closing in its slot.
LEMMA SlotIs ==
    ASSUME SlotsOK, NEW q \in Requests \cup Tills, NEW slot, Put(q, slot), slot.step # "close"
    PROVE  \A p \in Requests : req'[p] = req[p] \/ req'[p].step # "close"
BY PutIs

LEMMA QuotesKeepBacked ==
    ASSUME IInv, BackedOK, QuotesNext, UNCHANGED drawerVars
    PROVE  BackedOK'
<1>1. SlotsOK /\ UNCHANGED <<shift, cash>> /\ IdleSlot.step = "idle"
  BY DEF IInv, drawerVars, IdleSlot
<1>2. \/ UNCHANGED req
      \/ \E q \in Requests \cup Tills : Put(q, IdleSlot)
      \/ \E q \in Requests \cup Tills, step \in QuoteSteps : \E at, doc, seen : Put(q, Work(step, at, doc, seen))
  <2>1. "emitQuote" \in QuoteSteps /\ "edit" \in QuoteSteps /\ "park" \in QuoteSteps
        /\ "stamp" \in QuoteSteps /\ "apply" \in QuoteSteps /\ Moves \subseteq QuoteSteps
    BY DEF QuoteSteps
  <2>2. ASSUME NEW q \in Requests, NEW t \in Tills, NEW k \in Papers,
               CreateQuote(q, t, k) \/ UpdateQuoteLook(q, t, k) \/ ConvertQuoteLook(q, t, k)
        PROVE  \E step \in QuoteSteps : \E at, doc, seen : Put(q, Work(step, at, doc, seen))
    BY <2>1, <2>2 DEF CreateQuote, UpdateQuoteLook, ConvertQuoteLook
  <2>3. ASSUME NEW q \in Requests, NEW t \in Tills, NEW k \in Papers, NEW status \in Moves,
               SetQuoteStatusLook(q, t, k, status)
        PROVE  \E step \in QuoteSteps : \E at, doc, seen : Put(q, Work(step, at, doc, seen))
    BY <2>1, <2>3 DEF SetQuoteStatusLook
  <2>4. ASSUME NEW q \in Requests, UpdateQuote(q) \/ SetQuoteStatus(q) \/ HoldSale(q)
        PROVE  \E step \in QuoteSteps : \E at, doc, seen : Put(q, Work(step, at, doc, seen))
    BY <2>1, <2>4 DEF UpdateQuote, SetQuoteStatus, HoldSale, ToTell
  <2>5. ASSUME NEW q \in Requests, ConvertQuote(q) \/ EmitQuote(q)
        PROVE  \/ Put(q, IdleSlot)
               \/ \E step \in QuoteSteps : \E at, doc, seen : Put(q, Work(step, at, doc, seen))
    BY <2>1, <2>5 DEF ConvertQuote, EmitQuote, ToTell
  <2>6. ASSUME NEW t \in Tills, applyQuoteLook(t) \/ applyQuote(t)
        PROVE  \/ Put(t, IdleSlot)
               \/ \E step \in QuoteSteps : \E at, doc, seen : Put(t, Work(step, at, doc, seen))
    BY <2>1, <2>6 DEF applyQuoteLook, applyQuote
  <2>7. ASSUME NEW t \in Tills, NEW h \in held[t], DeleteHeldSale(t, h) PROVE UNCHANGED req
    BY <2>7 DEF DeleteHeldSale, deskVars
  <2>8. QED
    BY <2>2, <2>3, <2>4, <2>5, <2>6, <2>7 DEF QuotesNext, Quoting, Parking, ListHeldSales
<1>3. CASE UNCHANGED req
  BY <1>1, <1>3, BackedFrame
<1>4. ASSUME NEW q \in Requests \cup Tills, Put(q, IdleSlot) PROVE BackedOK'
  <2>1. PICK slot : slot = IdleSlot
    OBVIOUS
  <2>2. Put(q, slot) /\ slot.step # "close"
    BY <1>1, <1>4, <2>1
  <2>3. QED
    BY <1>1, <2>2, SlotIs, BackedFrame
<1>5. ASSUME NEW q \in Requests \cup Tills, NEW step \in QuoteSteps, NEW at, NEW doc, NEW seen,
             Put(q, Work(step, at, doc, seen))
      PROVE  BackedOK'
  <2>1. PICK slot : slot = Work(step, at, doc, seen)
    OBVIOUS
  <2>2. Put(q, slot) /\ slot.step # "close"
    BY <1>5, <2>1, WorkIs DEF QuoteSteps, Moves
  <2>3. QED
    BY <1>1, <2>2, SlotIs, BackedFrame
<1>6. QED
  BY <1>2, <1>3, <1>4, <1>5

\* Cash comes in, is voided, or is heard of.
LEMMA CashKeepsBacked ==
    ASSUME IInv, BackedOK, NEW t \in Tills,
           \/ \E u \in Staff : CashSale(t, u)
           \/ VoidSale(t) \/ ApplyCash(t) \/ ApplyVoid(t)
    PROVE  BackedOK'
<1>1. UNCHANGED <<shift, req>>
  BY DEF CashSale, VoidSale, ApplyCash, ApplyVoid
<1>2. cash \in [Tills -> SUBSET Payment]
  BY DEF IInv, DrawerOK, DrawerTypes
<1>3. \/ \E paid : cash' = [cash EXCEPT ![t] = @ \cup {paid}]
      \/ \E id : cash' = [cash EXCEPT ![t] = Voided(@, id)]
  BY DEF CashSale, VoidSale, ApplyCash, ApplyVoid
<1>4. \A id : \A p \in cash[t] : \E r \in Voided(cash[t], id) : r.id = p.id /\ r.who = p.who /\ r.at = p.at
  <2>1. SUFFICES ASSUME NEW id, NEW p \in cash[t]
                 PROVE  \E r \in Voided(cash[t], id) : r.id = p.id /\ r.who = p.who /\ r.at = p.at
    OBVIOUS
  <2>2. PICK r : r = IF p.id = id THEN [p EXCEPT !.status = "VOIDED"] ELSE p
    OBVIOUS
  <2>3. r \in Voided(cash[t], id)
    BY <2>2 DEF Voided
  <2>4. p \in Payment
    BY <1>2
  <2>5. r.id = p.id /\ r.who = p.who /\ r.at = p.at
    BY <2>2, <2>4 DEF Payment
  <2>6. QED
    BY <2>3, <2>5
<1>5. CashKept
  <2>1. CASE \E paid : cash' = [cash EXCEPT ![t] = @ \cup {paid}]
    BY <1>2, <2>1 DEF CashKept
  <2>2. CASE \E id : cash' = [cash EXCEPT ![t] = Voided(@, id)]
    <3>1. PICK id : cash' = [cash EXCEPT ![t] = Voided(@, id)]
      BY <2>2
    <3>2. cash'[t] = Voided(cash[t], id) /\ \A o \in Tills \ {t} : cash'[o] = cash[o]
      BY <1>2, <3>1
    <3>3. QED
      BY <1>4, <3>2 DEF CashKept
  <2>3. QED
    BY <1>3, <2>1, <2>2
<1>6. RowsKept
  BY <1>1 DEF RowsKept
<1>7. QED
  BY <1>1, <1>5, <1>6, BackedStays

\* A session is opened, or one becomes known that this till has not closed.
LEMMA OneMoreKeepsBacked ==
    ASSUME IInv, BackedOK, NEW t \in Tills, NEW row,
           shift' = [shift EXCEPT ![t] = Append(@, row)], row.by = t => row.counted = {}, UNCHANGED cash,
           \A q \in Requests : req'[q] = req[q] \/ req'[q].step # "close"
    PROVE  BackedOK'
<1>1. CashKept
  BY DEF CashKept
<1>2. /\ shift[t] \in Seq(Session) /\ DOMAIN shift[t] = 1..Len(shift[t]) /\ Len(shift[t]) \in Nat
      /\ shift'[t] = Append(shift[t], row) /\ \A o \in Tills \ {t} : shift'[o] = shift[o]
  BY RowTypes DEF IInv, DrawerOK, DrawerTypes
<1>3. /\ DOMAIN shift'[t] = 1..(Len(shift[t]) + 1)
      /\ \A i \in DOMAIN shift[t] : i \in DOMAIN shift'[t] /\ shift'[t][i] = shift[t][i]
      /\ shift'[t][Len(shift[t]) + 1] = row
  BY <1>2
<1>4. RowsKept
  BY <1>2, <1>3 DEF RowsKept
<1>5. \A o \in Tills : \A i \in DOMAIN shift'[o] : shift'[o][i].by = o =>
          \/ shift'[o][i].counted = {}
          \/ i \in DOMAIN shift[o] /\ shift[o][i].by = o /\ shift'[o][i].counted = shift[o][i].counted
  <2>1. SUFFICES ASSUME NEW o \in Tills, NEW i \in DOMAIN shift'[o], shift'[o][i].by = o
                 PROVE  \/ shift'[o][i].counted = {}
                        \/ i \in DOMAIN shift[o] /\ shift[o][i].by = o /\ shift'[o][i].counted = shift[o][i].counted
    OBVIOUS
  <2>2. CASE o # t
    BY <1>2, <2>1, <2>2
  <2>3. CASE o = t /\ i \in DOMAIN shift[t]
    BY <1>3, <2>1, <2>3
  <2>4. CASE o = t /\ i \notin DOMAIN shift[t]
    <3>1. i = Len(shift[t]) + 1
      BY <1>2, <1>3, <2>1, <2>4
    <3>2. QED
      BY <1>3, <2>1, <2>4, <3>1
  <2>5. QED
    BY <2>2, <2>3, <2>4
<1>6. QED
  BY <1>1, <1>4, <1>5, BackedStays

\* A session is closed, here by the request that added up for it, or elsewhere.
AddedUp(t, i, sum) ==
    \E q \in Requests : AtStep(q, "close") /\ req[q].at = t /\ req[q].doc = i /\ req[q].sum = sum
LEMMA OneClosedKeepsBacked ==
    ASSUME IInv, BackedOK, NEW t \in Tills, NEW i \in DOMAIN shift[t], NEW row,
           row.owner = shift[t][i].owner, row.opened = shift[t][i].opened,
           shift' = [shift EXCEPT ![t] = [@ EXCEPT ![i] = row]], UNCHANGED cash,
           row.by # t \/ AddedUp(t, i, row.counted),
           \A q \in Requests : req'[q] = req[q] \/ req'[q].step # "close"
    PROVE  BackedOK'
<1>1. CashKept
  BY DEF CashKept
<1>2. /\ DOMAIN shift'[t] = DOMAIN shift[t] /\ shift'[t][i] = row
      /\ \A j \in DOMAIN shift[t] \ {i} : shift'[t][j] = shift[t][j]
      /\ \A o \in Tills \ {t} : shift'[o] = shift[o]
  BY DEF IInv, DrawerOK, DrawerTypes
<1>3. RowsKept
  BY <1>2 DEF RowsKept
<1>4. ASSUME NEW o \in Tills, NEW j \in DOMAIN shift'[o], shift'[o][j].by = o
      PROVE  \/ /\ j \in DOMAIN shift[o] /\ shift[o][j].by = o
                /\ shift'[o][j].counted = shift[o][j].counted
             \/ \E q \in Requests : /\ AtStep(q, "close") /\ req[q].at = o /\ req[q].doc = j
                                    /\ shift'[o][j].counted = req[q].sum
  <2>1. CASE o # t \/ j # i
    BY <1>2, <1>4, <2>1
  <2>2. CASE o = t /\ j = i
    BY <1>2, <1>4, <2>2 DEF AddedUp
  <2>3. QED
    BY <2>1, <2>2
<1>5. QED
  BY <1>1, <1>3, <1>4, BackedStays

\* A session or its close comes from another till: this till has not closed it.
LEMMA applyShiftKeepsBacked ==
    ASSUME IInv, BackedOK, NEW t \in Tills, applyShift(t)
    PROVE  BackedOK'
<1> USE DEF IInv
<1>1. PICK R : R = Head(inbox[t]).row
  OBVIOUS
<1>2. R \in Session /\ CopyOK(R) /\ UNCHANGED <<now, req, cash, unsent>>
  BY <1>1, ShiftNews
<1>3. ASSUME R.by = t
      PROVE  \E own \in Rows(t) : own.uuid = R.uuid /\ own.closed = R.closed /\ R.closed # 0
  BY <1>2, <1>3, DeskAssumption DEF CopyOK, SameClose
<1>4. CASE RowOf(t, R.uuid) = {}
  <2>1. R.by # t
    BY <1>3, <1>4 DEF Rows, RowOf
  <2>2. PICK row : row = [R EXCEPT !.owner = resolveLocalCashierID(t, @)]
    OBVIOUS
  <2>3. row.by # t
    BY <1>2, <2>1, <2>2 DEF Session
  <2>4. shift' = [shift EXCEPT ![t] = Append(@, row)]
    BY <1>1, <1>4, <2>2 DEF applyShift
  <2>5. QED
    BY <1>2, <2>3, <2>4, OneMoreKeepsBacked
<1>5. CASE RowOf(t, R.uuid) # {}
  <2>1. PICK i \in DOMAIN shift[t] : shift[t][i].uuid = R.uuid
    BY <1>5 DEF RowOf
  <2>2. PICK old \in Session : old = shift[t][i]
    BY RowTypes DEF DrawerOK
  <2>3. PICK row : row = [old EXCEPT !.closed = R.closed, !.counted = R.counted, !.by = R.by]
    OBVIOUS
  <2>4. /\ row \in Session /\ row.uuid = old.uuid /\ row.owner = old.owner /\ row.opened = old.opened
        /\ row.till = old.till /\ row.closed = R.closed /\ row.counted = R.counted /\ row.by = R.by
    BY <1>2, <2>3 DEF Session
  <2>5. /\ old.closed = 0 /\ R.closed # 0 => shift' = [shift EXCEPT ![t] = [@ EXCEPT ![i] = row]]
        /\ old.closed # 0 \/ R.closed = 0 => shift' = shift
    BY <1>1, <1>2, <2>1, <2>2, <2>4, Merged
  <2>6. CASE old.closed = 0 /\ R.closed # 0
    <3>1. R.by # t
      BY <1>3, <2>1, <2>2, <2>6 DEF Rows, DrawerOK, CopiesOK, RowsOnce
    <3>2. QED
      BY <1>2, <2>2, <2>4, <2>5, <2>6, <3>1, OneClosedKeepsBacked
  <2>7. CASE old.closed # 0 \/ R.closed = 0
    BY <1>2, <2>5, <2>7, BackedFrame
  <2>8. QED
    BY <2>6, <2>7
<1>6. QED
  BY <1>4, <1>5

LEMMA ClosesBacked ==
    ASSUME IInv, BackedOK, NEW q \in Requests, CloseShift(q)
    PROVE  BackedOK'
<1> USE DEF IInv
<1>1. req[q].at \in Tills /\ req[q].doc \in DOMAIN shift[req[q].at] /\ AtStep(q, "close")
  BY DEF CloseShift, AtStep, DrawerOK, DrawerSlotsOK, DrawerSlotOK
<1>2. PICK t \in Tills : t = req[q].at
  BY <1>1
<1>3. PICK i \in DOMAIN shift[t] : i = req[q].doc
  BY <1>1, <1>2
<1>4. PICK old \in Session : old = shift[t][i]
  BY RowTypes DEF DrawerOK
<1>5. PICK slot : slot \in {IdleSlot, Work("emitShift", t, old.uuid, None)} /\ Put(q, slot)
  BY <1>2, <1>3, <1>4 DEF CloseShift
<1>6. slot.step # "close"
  BY <1>5, WorkIs DEF IdleSlot
<1>7. \A p \in Requests : req'[p] = req[p] \/ req'[p].step # "close"
  BY <1>5, <1>6, SlotIs
<1>8. UNCHANGED cash
  BY DEF CloseShift
<1>9. CASE old.closed # 0
  <2>1. UNCHANGED shift
    BY <1>2, <1>3, <1>4, <1>9 DEF CloseShift
  <2>2. QED
    BY <1>7, <1>8, <2>1, BackedFrame
<1>10. CASE old.closed = 0
  <2>1. PICK row : row = [old EXCEPT !.closed = nowStamp(t), !.counted = req[q].sum, !.by = t]
    OBVIOUS
  <2>2. row.owner = old.owner /\ row.opened = old.opened /\ row.counted = req[q].sum
    BY <2>1 DEF Session
  <2>3. shift' = [shift EXCEPT ![t][i] = [@ EXCEPT !.closed = nowStamp(t), !.counted = req[q].sum, !.by = t]]
    BY <1>2, <1>3, <1>4, <1>10 DEF CloseShift
  <2>4. shift' = [shift EXCEPT ![t] = [@ EXCEPT ![i] = row]]
    BY <1>4, <2>1, <2>3
  <2>5. AddedUp(t, i, row.counted)
    BY <1>1, <1>2, <1>3, <2>2 DEF AddedUp
  <2>6. row.owner = shift[t][i].owner /\ row.opened = shift[t][i].opened
    BY <1>4, <2>2
  <2>7. QED
    BY <1>7, <1>8, <2>4, <2>5, <2>6, OneClosedKeepsBacked
<1>11. QED
  BY <1>9, <1>10

\* Adding up takes the payments of the session's cashier that are not older than its opening.
LEMMA AddsUpBacked ==
    ASSUME IInv, BackedOK, NEW q \in Requests, NEW t \in Tills, NEW u \in Staff, CloseShiftLook(q, t, u)
    PROVE  BackedOK'
<1> USE DEF IInv
<1>1. UNCHANGED <<shift, cash>>
  BY DEF CloseShiftLook
<1>2. PICK i, sum : i = CurrentShift(t, u) /\ sum = {p.id : p \in Expected(t, i)}
  OBVIOUS
<1>3. PICK slot : slot = [Work("close", t, i, None) EXCEPT !.sum = sum]
  OBVIOUS
<1>4. slot.step = "close" /\ slot.at = t /\ slot.doc = i /\ slot.sum = sum
  BY <1>3 DEF Work, IdleSlot
<1>5. Put(q, slot)
  BY <1>2, <1>3 DEF CloseShiftLook
<1>6. req'[q] = slot /\ \A p \in (Requests \cup Tills) \ {q} : req'[p] = req[p]
  BY <1>5, PutIs
<1>7. Backed(t, sum, shift[t][i])
  BY <1>2 DEF Backed, Expected, CashOf
<1>8. Backed(t, sum, shift[t][i])'
  BY <1>1, <1>7 DEF Backed
<1>9. BackedSlots'
  <2>1. SUFFICES ASSUME NEW p \in Requests, AtStep(p, "close")'
                 PROVE  Backed(req[p].at, req[p].sum, shift[req[p].at][req[p].doc])'
    BY DEF BackedSlots
  <2>2. CASE p = q
    BY <1>4, <1>6, <1>8, <2>2
  <2>3. CASE p # q
    <3>1. req'[p] = req[p] /\ AtStep(p, "close")
      BY <1>6, <2>1, <2>3 DEF AtStep
    <3>2. Backed(req[p].at, req[p].sum, shift[req[p].at][req[p].doc])
      BY <3>1 DEF BackedOK, BackedSlots
    <3>3. QED
      BY <1>1, <3>1, <3>2 DEF Backed
  <2>4. QED
    BY <2>2, <2>3
<1>10. BackedRows'
  BY <1>1 DEF BackedOK, BackedRows, Backed
<1>11. QED
  BY <1>9, <1>10 DEF BackedOK

\* The remaining steps of requests about a session.
LEMMA SessionsKeepBacked ==
    ASSUME IInv, BackedOK, NEW q \in Requests,
           \/ \E t \in Tills, u \in Staff : OpenShiftLook(q, t, u)
           \/ OpenShift(q) \/ EmitShift(q)
    PROVE  BackedOK'
<1> USE DEF IInv
<1>1. ASSUME NEW t \in Tills, NEW u \in Staff, OpenShiftLook(q, t, u) PROVE BackedOK'
  <2>1. PICK slot : slot = Work("open", t, u, None)
    OBVIOUS
  <2>2. Put(q, slot) /\ slot.step # "close" /\ UNCHANGED <<shift, cash>>
    BY <1>1, <2>1, WorkIs DEF OpenShiftLook
  <2>3. QED
    BY <2>2, SlotIs, BackedFrame
<1>2. CASE EmitShift(q)
  <2>1. PICK slot : slot = IdleSlot
    OBVIOUS
  <2>2. Put(q, slot) /\ slot.step # "close" /\ UNCHANGED <<shift, cash>>
    BY <1>2, <2>1 DEF EmitShift, IdleSlot, drawerVars
  <2>3. QED
    BY <2>2, SlotIs, BackedFrame
<1>3. CASE OpenShift(q)
  <2>1. PICK t \in Tills : t = req[q].at
    BY <1>3 DEF OpenShift, AtStep, DrawerOK, DrawerSlotsOK, DrawerSlotOK
  <2>2. PICK row : row = [uuid |-> now', owner |-> req[q].doc, opened |-> nowStamp(t), closed |-> 0,
                          counted |-> {}, till |-> t, by |-> None]
    OBVIOUS
  <2>3. PICK slot : slot = Work("emitShift", t, now', None)
    OBVIOUS
  <2>4. shift' = [shift EXCEPT ![t] = Append(@, row)] /\ row.counted = {} /\ UNCHANGED cash
    BY <1>3, <2>1, <2>2 DEF OpenShift
  <2>5. Put(q, slot) /\ slot.step # "close"
    BY <1>3, <2>1, <2>2, <2>3, WorkIs DEF OpenShift
  <2>6. QED
    BY <2>4, <2>5, SlotIs, OneMoreKeepsBacked
<1>4. QED
  BY <1>1, <1>2, <1>3

LEMMA BackedSteps ==
    ASSUME IInv, BackedOK, [Next]_deskState
    PROVE  BackedOK'
<1>1. CASE UNCHANGED deskState
  BY <1>1, BackedFrame DEF deskState, deskVars, drawerVars
<1>2. CASE DrawerNext
  BY <1>2, SessionsKeepBacked, AddsUpBacked, ClosesBacked, CashKeepsBacked, applyShiftKeepsBacked
  DEF DrawerNext, Sessions
<1>3. CASE QuotesNext /\ UNCHANGED drawerVars
  BY <1>3, QuotesKeepBacked
<1>4. ASSUME NEW t \in Tills, Crash(t) PROVE BackedOK'
  <2>1. UNCHANGED <<shift, cash>>
    BY <1>4 DEF Crash
  <2>2. \A q \in Requests : req'[q] = req[q] \/ req'[q] = IdleSlot
    BY <1>4 DEF Crash, ProcessDies, IInv, SlotsOK
  <2>3. IdleSlot.step # "close"
    BY DEF IdleSlot
  <2>4. QED
    BY <2>1, <2>2, <2>3, BackedFrame
<1>5. QED
  BY <1>1, <1>2, <1>3, <1>4 DEF Next

\* A session closed on a till counts only cash booked there on its cashier and not older than
\* its opening; of the cash taken there, what came in while it was open, and all of it if it
\* was the only one (CloseShift, shifts.go).
THEOREM CashIsOnItsReport == Spec => []CashOnItsReport
<1>1. Init => BackedOK
  <2>1. SUFFICES ASSUME Init PROVE BackedOK
    OBVIOUS
  <2>2. \A q \in Requests : req[q].step = "idle"
    BY <2>1 DEF Init, DeskInit, IdleSlot
  <2>3. \A t \in Tills : DOMAIN shift[t] = {}
    BY <2>1 DEF Init, DrawerInit
  <2>4. QED
    BY <2>2, <2>3 DEF BackedOK, BackedSlots, BackedRows, AtStep
<1>2. IInv /\ BackedOK /\ [Next]_deskState => BackedOK'
  BY BackedSteps
<1>3. IInv /\ BackedOK => CashOnItsReport
  <2>1. SUFFICES ASSUME IInv, BackedOK, NEW t \in Tills, NEW i \in DOMAIN shift[t], shift[t][i].by = t
                 PROVE  /\ \A id \in shift[t][i].counted : \E p \in cash[t] :
                              p.id = id /\ p.who = shift[t][i].owner /\ p.at >= shift[t][i].opened
                        /\ shift[t][i].till = t => \A p \in cash[t] : p.till = t =>
                              /\ p.id \in shift[t][i].counted => shift[t][i].uuid \in p.during
                              /\ shift[t][i].uuid = p.session
                                 => p.id \in shift[t][i].counted \/ p.status = "VOIDED"
    BY DEF CashOnItsReport
  <2>2. Backed(t, shift[t][i].counted, shift[t][i])
    BY <2>1 DEF BackedOK, BackedRows
  <2>3. ASSUME shift[t][i].till = t PROVE Right(t, shift[t][i].counted, shift[t][i].uuid)
    BY <2>1, <2>3 DEF IInv, DrawerOK, CountedOK, Own
  <2>4. QED
    BY <2>2, <2>3 DEF Backed, Right, Local
<1>4. QED
  BY <1>1, <1>2, <1>3, FrontDeskInvariant, PTL DEF Spec

\* A till parks a quote once for each time its row was not converted, and a parked sale is
\* one that won, or its conversion is under way, or a process died (ConvertQuote, quotes.go).
THEOREM QuoteParkedOnce == Spec => []ParkedOnce
<1>1. IInv => ParkedOnce
  <2>1. SUFFICES ASSUME IInv, NEW t \in Tills
                 PROVE  /\ \A k \in Papers : OnceUnlessUndone(t, k)
                        /\ \A h \in held[t] :
                              \/ crashes > 0 \/ BeingStamped(h)
                              \/ [till |-> t, id |-> h.id] \in parked[h.paper]
    BY DEF ParkedOnce
  <2>2. ASSUME NEW k \in Papers PROVE OnceUnlessUndone(t, k)
    <3>1. /\ IsFiniteSet(Wins(t, k)) /\ undone[t][k] \in Nat
          /\ Cardinality(Wins(t, k)) + Spare(t, k) <= 1 + undone[t][k]
      BY <2>1 DEF IInv, QuotesOK, ParkedOK, QuoteTypes
    <3>2. Cardinality(Wins(t, k)) \in Nat /\ Spare(t, k) \in {0, 1}
      BY <3>1, FS_CardinalityType DEF Spare
    <3>3. Cardinality(Wins(t, k)) <= 1 + undone[t][k]
      BY <3>1, <3>2
    <3>4. QED
      BY <3>3 DEF OnceUnlessUndone, Wins
  <2>3. QED
    BY <2>1, <2>2 DEF IInv, QuotesOK, HeldOK
<1>2. QED
  BY <1>1, FrontDeskInvariant, PTL

\* Once everything has arrived, all tills have the same row for a quote that nothing was
\* lost or written over (EmitQuote, applyQuote, teamsync.go).
THEOREM TillsAgreeOnQuotes == Spec => []QuotesAgree
<1>1. IInv => QuotesAgree
  <2>1. SUFFICES ASSUME IInv, Settled, NEW k \in Papers \ harmed, NEW t \in Tills, NEW o \in Tills
                 PROVE  quote[t][k] = quote[o][k]
    BY DEF QuotesAgree
  <2>2. /\ \A q \in Requests : ~AtStep(q, "emitQuote")
        /\ \A till \in Tills : Quoted(till) = {}
    <3>1. \A q \in Requests : req[q] = IdleSlot
      BY <2>1 DEF Settled, Idle, IInv, SlotsOK
    <3>2. \A till \in Tills : News(till) = {}
      BY <2>1 DEF Settled, News
    <3>3. QED
      BY <3>1, <3>2 DEF AtStep, IdleSlot, Quoted
  <2>3. \A row \in Versions(k) : \A till \in Tills : quote[till][k].stamp >= row.stamp
    BY <2>1, <2>2 DEF IInv, QuotesOK, QuotesTravel, Telling, Reached
  <2>4. quote[t][k] \in Versions(k) /\ quote[o][k] \in Versions(k)
    BY DEF Versions
  <2>5. quote[t][k].stamp \in Nat /\ quote[o][k].stamp \in Nat
    BY <2>1 DEF IInv, QuotesOK, QuoteTypes, QuoteRow
  <2>6. quote[t][k].stamp = quote[o][k].stamp
    BY <2>3, <2>4, <2>5
  <2>7. QED
    BY <2>1, <2>4, <2>6 DEF IInv, QuotesOK, StampsOK
<1>2. QED
  BY <1>1, FrontDeskInvariant, PTL

\* Once everything has arrived, all tills show the same close of a session, unless two of
\* them closed it or its event was lost (EmitShift, applyShift, teamsync.go).
THEOREM TillsAgreeOnSessions == Spec => []SessionsAgree
<1>1. IInv => SessionsAgree
  <2> SUFFICES ASSUME IInv, Settled, NEW t \in Tills, NEW o \in Tills, NEW i \in DOMAIN shift[t],
                      shift[t][i].uuid \notin unsent
               PROVE  \E j \in RowOf(o, shift[t][i].uuid) :
                         \/ /\ shift[t][i].by # shift[o][j].by
                            /\ \A till \in {shift[t][i].by, shift[o][j].by} :
                                   till \in Tills /\ ClosedAt(till, shift[t][i].uuid)
                         \/ shift[o][j] = [shift[t][i] EXCEPT !.owner = shift[o][j].owner]
    BY DEF SessionsAgree
  <2>1. PICK row \in Session : row = shift[t][i]
    BY RowTypes DEF IInv, DrawerOK
  <2>2. SUFFICES \E j \in RowOf(o, row.uuid) :
                           \/ /\ row.by # shift[o][j].by
                              /\ \A till \in {row.by, shift[o][j].by} :
                                     till \in Tills /\ ClosedAt(till, row.uuid)
                           \/ shift[o][j] = [row EXCEPT !.owner = shift[o][j].owner]
    BY <2>1
  <2>3. /\ \A q \in Requests : ~AtStep(q, "emitShift")
        /\ \A till \in Tills : Told(till) = {}
    <3>1. \A q \in Requests : req[q] = IdleSlot
      BY <2>1 DEF Settled, Idle, IInv, SlotsOK
    <3>2. \A till \in Tills : News(till) = {}
      BY <2>1 DEF Settled, News
    <3>3. QED
      BY <3>1, <3>2 DEF AtStep, IdleSlot, Told
  <2>4. \A s \in Copies : s.uuid \notin unsent =>
            \A till \in Tills : \E r \in Rows(till) : Covers(r, s)
    BY <2>1, <2>3 DEF IInv, DrawerOK, SessionsTravel, TellingOf, Known
  <2>5. row \in Copies /\ row \in Rows(t)
    BY <2>1 DEF Copies, Rows
  <2>6. PICK j \in DOMAIN shift[o] : Covers(shift[o][j], row)
    BY <2>1, <2>4, <2>5 DEF Rows
  <2>7. PICK other \in Session : other = shift[o][j]
    BY <2>1, RowTypes DEF IInv, DrawerOK
  <2>8. other.uuid = row.uuid /\ (row.closed # 0 => other.closed # 0)
    BY <2>6, <2>7 DEF Covers
  <2>9. other \in Copies /\ j \in RowOf(o, row.uuid)
    BY <2>7, <2>8 DEF Copies, Rows, RowOf
  <2>10. other.closed # 0 => row.closed # 0
    <3>1. PICK n \in DOMAIN shift[t] : Covers(shift[t][n], other)
      BY <2>1, <2>4, <2>8, <2>9 DEF Rows
    <3>2. n = i
      BY <2>1, <2>8, <3>1 DEF Covers, IInv, DrawerOK, CopiesOK, RowsOnce
    <3>3. QED
      BY <2>1, <3>1, <3>2 DEF Covers
  <2>11. /\ CopyOK(row) /\ CopyOK(other) /\ other.till = row.till
    BY <2>1, <2>5, <2>8, <2>9 DEF IInv, DrawerOK, CopiesOK
  <2>12. other.opened = row.opened
    BY <2>8, <2>11 DEF CopyOK
  <2>13. ASSUME NEW s \in Session, CopyOK(s), s.closed # 0, s.uuid = row.uuid
         PROVE  s.by \in Tills /\ ClosedAt(s.by, row.uuid)
                /\ \E own \in Rows(s.by) : SameClose(own, s)
    <3>1. s.by \in Tills /\ \E own \in Rows(s.by) : SameClose(own, s)
      BY <2>13 DEF CopyOK
    <3>2. PICK n \in DOMAIN shift[s.by] : SameClose(shift[s.by][n], s)
      BY <3>1 DEF Rows
    <3>3. ClosedAt(s.by, row.uuid)
      BY <2>13, <3>2 DEF ClosedAt, RowOf, SameClose
    <3>4. QED
      BY <3>1, <3>3
  <2>14. CASE row.closed = 0
    <3>1. /\ other.closed = 0 /\ row.by = None /\ other.by = None
          /\ row.counted = {} /\ other.counted = {}
      BY <2>10, <2>11, <2>14 DEF CopyOK
    <3>2. other = [row EXCEPT !.owner = other.owner]
      BY <2>8, <2>11, <2>12, <2>14, <3>1 DEF Session
    <3>3. QED
      BY <2>7, <2>9, <3>2
  <2>15. CASE row.closed # 0 /\ row.by = other.by
    <3>1. PICK till \in Tills : till = row.by
      BY <2>11, <2>13, <2>15
    <3>2. PICK own \in Rows(till) : SameClose(own, row)
      BY <2>11, <2>13, <2>15, <3>1
    <3>3. PICK same \in Rows(till) : SameClose(same, other)
      BY <2>8, <2>11, <2>13, <2>15, <3>1
    <3>4. own = same
      BY <2>1, <2>8, <3>2, <3>3 DEF SameClose, Rows, IInv, DrawerOK, CopiesOK, RowsOnce
    <3>5. other.closed = row.closed /\ other.counted = row.counted
      BY <3>2, <3>3, <3>4 DEF SameClose
    <3>6. other = [row EXCEPT !.owner = other.owner]
      BY <2>8, <2>11, <2>12, <2>15, <3>5 DEF Session
    <3>7. QED
      BY <2>7, <2>9, <3>6
  <2>16. CASE row.closed # 0 /\ row.by # other.by
    <3>1. \A till \in {row.by, other.by} : till \in Tills /\ ClosedAt(till, row.uuid)
      BY <2>8, <2>11, <2>13, <2>16
    <3>2. QED
      BY <2>7, <2>9, <2>16, <3>1
  <2>17. QED
    BY <2>14, <2>15, <2>16
<1>2. QED
  BY <1>1, FrontDeskInvariant, PTL
====
