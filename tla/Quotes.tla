-------------------------------- MODULE Quotes --------------------------------
(***************************************************************************)
(* Quotations (internal/services/quotes.go), the parked sale a quote turns *)
(* into (retail.go), and their copies on the other tills (EmitQuote,       *)
(* applyQuote).                                                            *)
(*                                                                         *)
(* Every operation reads the quote, decides, and writes it in a later      *)
(* statement.  Only the conversion looks again as it writes; the form and  *)
(* the status buttons write by id alone, and what they write travels with  *)
(* the whole row.  A till takes a row over if its stamp is the later one.  *)
(*                                                                         *)
(* The lines, the customer and the discount of a quote are one value, rev, *)
(* the moment they were written.                                           *)
(***************************************************************************)
EXTENDS Desk

CONSTANTS Papers,   \* client_uuids of quotes
          MaxEdits  \* bound on edits and status moves asked for

ASSUME QuotesAssumption == MaxEdits \in Nat

VARIABLES quote,   \* quotes of each till
          held,    \* held_sales of each till that come from a quote
          parked,  \* history: [till, id] of the parked sales each conversion won
          undone,  \* history: how often a converted row stopped being one, per till
          harmed,  \* history: quotes with an event lost, a row taken over beneath a write,
                   \* or a write with a clock behind the row's stamp
          edits
quoteVars == <<quote, held, parked, undone, harmed, edits>>

NoQuote == [status |-> "none", rev |-> 0, stamp |-> 0, heldId |-> 0]

QuotesInit ==
    /\ quote = [t \in Tills |-> [k \in Papers |-> NoQuote]]
    /\ held = [t \in Tills |-> {}]
    /\ parked = [k \in Papers |-> {}]
    /\ undone = [t \in Tills |-> [k \in Papers |-> 0]]
    /\ harmed = {}
    /\ edits = 0

GetQuote(t, k) == quote[t][k]

\* A local write of the row of k, stamped.
WriteQuote(t, k, row) ==
    /\ quote' = [quote EXCEPT ![t][k] = [row EXCEPT !.stamp = nowStamp(t)]]
    /\ undone' = [undone EXCEPT ![t][k] =
          @ + IF quote[t][k].status = "converted" /\ row.status # "converted" THEN 1 ELSE 0]
    /\ harmed' = IF nowStamp(t) > quote[t][k].stamp THEN harmed ELSE harmed \cup {k}
ToTell(q) == Put(q, Work("emitQuote", req[q].at, req[q].doc, None))

CreateQuote(q, t, k) ==
    /\ Idle(q) /\ Moment
    /\ \A o \in Tills : quote[o][k] = NoQuote
    /\ \A r \in Requests : req[r].doc # k
    /\ k \notin harmed
    /\ WriteQuote(t, k, [NoQuote EXCEPT !.status = "draft", !.rev = now'])
    /\ Put(q, Work("emitQuote", t, k, None))
    /\ UNCHANGED <<inbox, crashes, held, parked, edits>>

(***************************************************************************)
(* The form.                                                               *)
(***************************************************************************)
UpdateQuoteLook(q, t, k) ==
    /\ Idle(q) /\ edits < MaxEdits /\ edits' = edits + 1
    /\ GetQuote(t, k).status \in {"draft", "sent"}
    /\ Put(q, Work("edit", t, k, None))
    /\ UNCHANGED <<now, inbox, crashes, quote, held, parked, undone, harmed>>

UpdateQuote(q) ==
    /\ AtStep(q, "edit") /\ Moment
    /\ LET t == req[q].at
           k == req[q].doc
       IN WriteQuote(t, k, [quote[t][k] EXCEPT !.rev = now'])
    /\ ToTell(q)
    /\ UNCHANGED <<inbox, crashes, held, parked, edits>>

(***************************************************************************)
(* The pipeline.                                                           *)
(***************************************************************************)
Moves == {"sent", "accepted", "declined"}
LegalMove(from, to) ==
    \/ to = "sent" /\ from = "draft"
    \/ to = "accepted" /\ from \in {"draft", "sent", "declined"}
    \/ to = "declined" /\ from \in {"draft", "sent"}

SetQuoteStatusLook(q, t, k, status) ==
    /\ Idle(q) /\ edits < MaxEdits /\ edits' = edits + 1
    /\ LegalMove(GetQuote(t, k).status, status)
    /\ Put(q, Work(status, t, k, None))
    /\ UNCHANGED <<now, inbox, crashes, quote, held, parked, undone, harmed>>

SetQuoteStatus(q) ==
    /\ req[q].step \in Moves /\ Moment
    /\ LET t == req[q].at
           k == req[q].doc
       IN WriteQuote(t, k, [quote[t][k] EXCEPT !.status = req[q].step])
    /\ ToTell(q)
    /\ UNCHANGED <<inbox, crashes, held, parked, edits>>

(***************************************************************************)
(* Conversion: the lines are parked first, then the quote is stamped, and  *)
(* whoever finds it stamped takes his parked sale away again.              *)
(***************************************************************************)
ConvertQuoteLook(q, t, k) ==
    /\ Idle(q)
    /\ GetQuote(t, k).status \in {"draft", "sent", "accepted"}
    /\ Put(q, Work("park", t, k, GetQuote(t, k).rev))
    /\ UNCHANGED <<now, inbox, crashes, quoteVars>>

HoldSale(q) ==
    /\ AtStep(q, "park") /\ Moment
    /\ held' = [held EXCEPT ![req[q].at] =
          @ \cup {[id |-> now', paper |-> req[q].doc, rev |-> req[q].seen]}]
    /\ Put(q, Work("stamp", req[q].at, req[q].doc, now'))
    /\ UNCHANGED <<inbox, crashes, quote, parked, undone, harmed, edits>>

ConvertQuoteUnguarded(q) ==  \* mutant: the stamp is set whatever the status
    /\ AtStep(q, "stamp") /\ Moment
    /\ LET t == req[q].at
           k == req[q].doc
           id == req[q].seen
       IN /\ WriteQuote(t, k, [quote[t][k] EXCEPT !.status = "converted", !.heldId = id])
          /\ parked' = [parked EXCEPT ![k] = @ \cup {[till |-> t, id |-> id]}]
          /\ ToTell(q)
          /\ UNCHANGED held
    /\ UNCHANGED <<inbox, crashes, edits>>
ConvertQuote(q) ==
    /\ AtStep(q, "stamp") /\ Moment
    /\ LET t == req[q].at
           k == req[q].doc
           id == req[q].seen
       IN IF quote[t][k].status # "converted"
          THEN /\ WriteQuote(t, k, [quote[t][k] EXCEPT !.status = "converted", !.heldId = id])
               /\ parked' = [parked EXCEPT ![k] = @ \cup {[till |-> t, id |-> id]}]
               /\ ToTell(q)
               /\ UNCHANGED held
          ELSE /\ held' = [held EXCEPT ![t] = {h \in @ : h.id # id}]
               /\ Put(q, IdleSlot)
               /\ UNCHANGED <<quote, parked, undone, harmed>>
    /\ UNCHANGED <<inbox, crashes, edits>>

ListHeldSales(t) == held[t]

\* A parked sale is resumed into the cart, or discarded.
DeleteHeldSale(t, h) ==
    /\ h \in ListHeldSales(t)
    /\ held' = [held EXCEPT ![t] = @ \ {h}]
    /\ UNCHANGED <<deskVars, quote, parked, undone, harmed, edits>>

EmitQuote(q) ==
    /\ AtStep(q, "emitQuote")
    /\ Emit(req[q].at, [kind |-> "quote", paper |-> req[q].doc, row |-> quote[req[q].at][req[q].doc]])
    /\ Put(q, IdleSlot)
    /\ UNCHANGED <<now, crashes, quoteVars>>

(***************************************************************************)
(* A row from another till: its stamp is compared in one statement and the *)
(* row is taken over in another.                                           *)
(***************************************************************************)
applyQuoteLook(t) ==
    /\ Idle(t) /\ Arrived(t, "quote")
    /\ LET k == Head(inbox[t]).paper
       IN Put(t, Work("apply", t, k, quote[t][k].stamp))
    /\ UNCHANGED <<now, inbox, crashes, quoteVars>>

NewerByArrival(event, seen) == TRUE  \* mutant: the last to arrive wins
Newer(event, seen) == event.row.stamp > seen

applyQuote(t) ==
    /\ AtStep(t, "apply") /\ Received(t) /\ Put(t, IdleSlot)
    /\ LET event == Head(inbox[t])
           k == event.paper
       IN IF Newer(event, req[t].seen)
          THEN /\ quote' = [quote EXCEPT ![t][k] = event.row]
               /\ undone' = [undone EXCEPT ![t][k] = @ +
                    IF quote[t][k].status = "converted" /\ event.row.status # "converted"
                    THEN 1 ELSE 0]
               /\ harmed' = IF quote[t][k].stamp = req[t].seen THEN harmed ELSE harmed \cup {k}
          ELSE UNCHANGED <<quote, undone, harmed>>
    /\ UNCHANGED <<now, crashes, held, parked, edits>>

\* What a process death takes with it: the events not yet written.
QuotesLose(t) ==
    harmed' = harmed \cup
        {req[q].doc : q \in {r \in Requests : req[r].at = t /\ AtStep(r, "emitQuote")}}

Quoting ==
    \E q \in Requests :
        \/ \E t \in Tills, k \in Papers :
              \/ CreateQuote(q, t, k) \/ UpdateQuoteLook(q, t, k) \/ ConvertQuoteLook(q, t, k)
              \/ \E status \in Moves : SetQuoteStatusLook(q, t, k, status)
        \/ UpdateQuote(q) \/ SetQuoteStatus(q) \/ ConvertQuote(q) \/ EmitQuote(q)
Parking ==
    \/ \E q \in Requests : HoldSale(q)
    \/ \E t \in Tills : \E h \in held[t] : DeleteHeldSale(t, h)

QuotesNext ==
    \/ Quoting \/ Parking
    \/ \E t \in Tills : applyQuoteLook(t) \/ applyQuote(t)

OnceUnlessUndone(t, k) ==
    Cardinality({p \in parked[k] : p.till = t}) <= 1 + undone[t][k]

BeingStamped(h) == \E q \in Requests : AtStep(q, "stamp") /\ req[q].seen = h.id

(***************************************************************************)
(* A till parks a quote for checkout once, and again only after its row    *)
(* stopped being converted in between: by a status button or a form that   *)
(* had read it before, here or on another till ("must not park TWO held    *)
(* sales for one quote", ConvertQuote).  Whoever loses the race cleans up: *)
(* a parked sale is one that won, or its conversion is under way, or a     *)
(* process died in between.                                                *)
(***************************************************************************)
ParkedOnce ==
    \A t \in Tills :
        /\ \A k \in Papers : OnceUnlessUndone(t, k)
        /\ \A h \in held[t] :
              crashes > 0 \/ BeingStamped(h) \/ [till |-> t, id |-> h.id] \in parked[h.paper]

(***************************************************************************)
(* Once everything has arrived, all tills have the same row for a quote,   *)
(* whatever was edited, moved and converted where, unless its event was    *)
(* lost, a till's clock lagged behind the row or the row was taken over    *)
(* between applyQuote's comparison and its write.                          *)
(***************************************************************************)
QuotesAgree ==
    Settled => \A k \in Papers \ harmed : \A t, o \in Tills : quote[t][k] = quote[o][k]
=============================================================================
