-------------------------------- MODULE Drawer --------------------------------
(***************************************************************************)
(* Cash-drawer sessions (internal/services/shifts.go) and their copies on  *)
(* the other tills (EmitShift, applyShift).                                *)
(*                                                                         *)
(* Opening looks for an open session and inserts one in two statements.    *)
(* Closing adds up the cash before the transaction that closes.  A session *)
(* travels under its owner's user name, and a till that does not know the  *)
(* name books it on its first user, who then has a session open that is    *)
(* somebody else's.                                                        *)
(*                                                                         *)
(* A sum of cents is the set of the cash payments in it; the float and the *)
(* counted cash are added to both sides alike and left out.                *)
(***************************************************************************)
EXTENDS Desk, FiniteSetsExt

CONSTANTS Staff,
          Knows(_),  \* Knows(t): the members of Staff with an account on till t
          FirstUser(_), \* the first user of till t
          MaxAsks,   \* bound on openings and closings asked for
          MaxSales   \* bound on cash payments

ASSUME DrawerAssumption ==
    /\ \A t \in Tills : FirstUser(t) \in Knows(t) /\ Knows(t) \subseteq Staff
    /\ MaxAsks \in Nat /\ MaxSales \in Nat

VARIABLES shift, \* shifts of each till, oldest row first
          cash,  \* completed cash payments each till has
          asks,
          unsent \* history: client_uuids of sessions whose event was lost
drawerVars == <<shift, cash, asks, unsent>>

(***************************************************************************)
(* A session is [uuid, owner, opened, closed, counted], closed is 0 while  *)
(* it is open, and, as history, till, where it was opened, and by, where   *)
(* it was closed.  A payment is [id, who, at, status] and, as history,     *)
(* till, where it was taken, during, the sessions of its cashier opened    *)
(* there and open at the time, and session, the only one of them if nobody *)
(* was closing it.  The moment an item was made names it.                  *)
(***************************************************************************)
DrawerInit ==
    /\ shift = [t \in Tills |-> <<>>]
    /\ cash = [t \in Tills |-> {}]
    /\ asks = 0 /\ unsent = {}

Ask == asks < MaxAsks /\ asks' = asks + 1
OpenRows(t, u) == {i \in DOMAIN shift[t] : shift[t][i].owner = u /\ shift[t][i].closed = 0}
CurrentShift(t, u) == Max(OpenRows(t, u))

resolveLocalCashierID(t, u) == IF u \in Knows(t) THEN u ELSE FirstUser(t)

(***************************************************************************)
(* Opening.                                                                *)
(***************************************************************************)
OpenShiftLook(q, t, u) ==
    /\ Idle(q) /\ Ask
    /\ u \in Knows(t) /\ OpenRows(t, u) = {}
    /\ Put(q, Work("open", t, u, None))
    /\ UNCHANGED <<now, inbox, crashes, shift, cash, unsent>>

OpenShift(q) ==
    /\ AtStep(q, "open") /\ Moment
    /\ LET t == req[q].at
           row == [uuid |-> now', owner |-> req[q].doc, opened |-> nowStamp(t), closed |-> 0,
                   counted |-> {}, till |-> t, by |-> None]
       IN /\ shift' = [shift EXCEPT ![t] = Append(@, row)]
          /\ Put(q, Work("emitShift", t, row.uuid, None))
    /\ UNCHANGED <<inbox, crashes, cash, asks, unsent>>

(***************************************************************************)
(* Cash sales, as far as the drawer sees them.                             *)
(***************************************************************************)
BeingClosed(t, i) == \E q \in Requests : AtStep(q, "close") /\ req[q].at = t /\ req[q].doc = i

Serving(t, u) == {i \in OpenRows(t, u) : shift[t][i].till = t}
SessionOf(t, u) ==
    IF \E i \in Serving(t, u) : OpenRows(t, u) = {i} /\ ~BeingClosed(t, i)
    THEN shift[t][CurrentShift(t, u)].uuid ELSE None

CashSale(t, u) ==
    /\ u \in Knows(t) /\ Moment
    /\ Cardinality(UNION {{p.id : p \in cash[o]} : o \in Tills}) < MaxSales
    /\ LET paid == [id |-> now', who |-> u, at |-> nowStamp(t), status |-> "COMPLETED", till |-> t,
                    during |-> {shift[t][i].uuid : i \in Serving(t, u)},
                    session |-> SessionOf(t, u)]
       IN /\ cash' = [cash EXCEPT ![t] = @ \cup {paid}]
          /\ Emit(t, [kind |-> "cash", row |-> paid])
    /\ UNCHANGED <<req, crashes, shift, asks, unsent>>

Voided(S, id) == {IF p.id = id THEN [p EXCEPT !.status = "VOIDED"] ELSE p : p \in S}

VoidSale(t) ==
    /\ \E p \in cash[t] :
          /\ p.status = "COMPLETED"
          /\ cash' = [cash EXCEPT ![t] = Voided(@, p.id)]
          /\ Emit(t, [kind |-> "void", row |-> p])
    /\ UNCHANGED <<now, req, crashes, shift, asks, unsent>>

ApplyVoid(t) ==
    /\ Idle(t) /\ Arrived(t, "void") /\ Received(t)
    /\ cash' = [cash EXCEPT ![t] = Voided(@, Head(inbox[t]).row.id)]
    /\ UNCHANGED <<now, req, crashes, shift, asks, unsent>>

ApplyCash(t) ==
    /\ Idle(t) /\ Arrived(t, "cash") /\ Received(t)
    /\ LET paid == Head(inbox[t]).row
       IN cash' = [cash EXCEPT ![t] = @ \cup
             {[paid EXCEPT !.who = resolveLocalCashierID(t, @)]}]
    /\ UNCHANGED <<now, req, crashes, shift, asks, unsent>>

(***************************************************************************)
(* Closing the newest open session.                                        *)
(***************************************************************************)
CashOf(t, u) == {p \in cash[t] : p.status = "COMPLETED" /\ p.who = u}

ExpectedSinceEver(t, i) ==  \* mutant: the opening stamp is not looked at
    CashOf(t, shift[t][i].owner)
Expected(t, i) ==
    {p \in CashOf(t, shift[t][i].owner) : p.at >= shift[t][i].opened}

CloseShiftLook(q, t, u) ==
    /\ Idle(q) /\ Ask
    /\ OpenRows(t, u) # {}
    /\ LET i == CurrentShift(t, u)
       IN Put(q, [Work("close", t, i, None) EXCEPT !.sum = {p.id : p \in Expected(t, i)}])
    /\ UNCHANGED <<now, inbox, crashes, shift, cash, unsent>>

CloseShift(q) ==
    /\ AtStep(q, "close") /\ Moment
    /\ LET t == req[q].at
           i == req[q].doc
       IN IF shift[t][i].closed = 0
          THEN /\ shift' = [shift EXCEPT ![t][i] = [@ EXCEPT !.closed = nowStamp(t),
                        !.counted = req[q].sum, !.by = t]]
               /\ Put(q, Work("emitShift", t, shift[t][i].uuid, None))
          ELSE Put(q, IdleSlot) /\ UNCHANGED shift
    /\ UNCHANGED <<inbox, crashes, cash, asks, unsent>>

EmitShift(q) ==
    /\ AtStep(q, "emitShift")
    /\ LET t == req[q].at
           i == CHOOSE j \in DOMAIN shift[t] : shift[t][j].uuid = req[q].doc
       IN Emit(t, [kind |-> "shift", row |-> shift[t][i]])
    /\ Put(q, IdleSlot)
    /\ UNCHANGED <<now, crashes, drawerVars>>

(***************************************************************************)
(* A session from another till: a new row, or the close of one open here.  *)
(***************************************************************************)
RowOf(t, uuid) == {i \in DOMAIN shift[t] : shift[t][i].uuid = uuid}

applyShiftOnce(t) ==  \* mutant: a session it knows is skipped
    /\ Idle(t) /\ Arrived(t, "shift") /\ Received(t)
    /\ LET row == Head(inbox[t]).row
       IN shift' = IF RowOf(t, row.uuid) = {}
                   THEN [shift EXCEPT ![t] =
                            Append(@, [row EXCEPT !.owner = resolveLocalCashierID(t, @)])]
                   ELSE shift
    /\ UNCHANGED <<now, req, crashes, cash, asks, unsent>>
applyShift(t) ==
    /\ Idle(t) /\ Arrived(t, "shift") /\ Received(t)
    /\ LET row == Head(inbox[t]).row
       IN shift' = IF RowOf(t, row.uuid) = {}
                   THEN [shift EXCEPT ![t] =
                            Append(@, [row EXCEPT !.owner = resolveLocalCashierID(t, @)])]
                   ELSE [shift EXCEPT ![t] = [i \in DOMAIN @ |->
                            IF i \in RowOf(t, row.uuid) /\ @[i].closed = 0
                            THEN [@[i] EXCEPT !.closed = row.closed, !.counted = row.counted,
                                              !.by = row.by]
                            ELSE @[i]]]
    /\ UNCHANGED <<now, req, crashes, cash, asks, unsent>>

\* What a process death takes with it: the events not yet written.
DrawerLoses(t) ==
    unsent' = unsent \cup {req[q].doc : q \in {r \in Requests : req[r].at = t /\ AtStep(r, "emitShift")}}

Sessions ==
    \E q \in Requests :
        \/ \E t \in Tills, u \in Staff : OpenShiftLook(q, t, u) \/ CloseShiftLook(q, t, u)
        \/ OpenShift(q) \/ CloseShift(q) \/ EmitShift(q)

DrawerNext ==
    \/ Sessions
    \/ \E t \in Tills, u \in Staff : CashSale(t, u)
    \/ \E t \in Tills : VoidSale(t) \/ ApplyCash(t) \/ ApplyVoid(t) \/ applyShift(t)

(***************************************************************************)
(* A session closed on this till counts only cash this till has booked on  *)
(* its cashier with a stamp no older than the opening, wherever the cash   *)
(* was taken: CloseShift asks for the cashier and the stamp, not for the   *)
(* till, so a close may expect cash in its drawer that a colleague took at *)
(* another one.  Of the cash taken here, a session opened here             *)
(* counts only what came in while it was open, and all of it if it was the *)
(* only session open and nobody was closing it at that moment, unless the  *)
(* sale is voided (CloseShift sums from opened_at with no upper end,       *)
(* outside the closing transaction; the next session must not see that     *)
(* cash again).                                                            *)
(***************************************************************************)
CashOnItsReport ==
    \A t \in Tills : \A i \in DOMAIN shift[t] :
        LET row == shift[t][i]
        IN row.by = t =>
              /\ \A id \in row.counted : \E p \in cash[t] :
                    p.id = id /\ p.who = row.owner /\ p.at >= row.opened
              /\ row.till = t => \A p \in cash[t] : p.till = t =>
                    /\ p.id \in row.counted => row.uuid \in p.during
                    /\ row.uuid = p.session => p.id \in row.counted \/ p.status = "VOIDED"

ClosedAt(t, uuid) == \E i \in RowOf(t, uuid) : shift[t][i].by = t

(***************************************************************************)
(* Once everything has arrived, all tills show the same close of a session *)
(* unless two of them closed it before they heard of each other or a       *)
(* process died between the row and its event (EmitShift, applyShift).     *)
(***************************************************************************)
SessionsAgree ==
    Settled => \A t, o \in Tills : \A i \in DOMAIN shift[t] :
        LET row == shift[t][i]
        IN \/ row.uuid \in unsent
           \/ \E j \in RowOf(o, row.uuid) :
                 \/ /\ row.by # shift[o][j].by
                    /\ \A till \in {row.by, shift[o][j].by} :
                           till \in Tills /\ ClosedAt(till, row.uuid)
                 \/ shift[o][j] = [row EXCEPT !.owner = shift[o][j].owner]
=============================================================================
