------------------------------ MODULE FrontDesk ------------------------------
(***************************************************************************)
(* The drawer and the quotes of a team's tills together: one outbox, one   *)
(* set of requests, and processes that die with both halves in flight.     *)
(***************************************************************************)
EXTENDS Drawer, Quotes

deskState == <<deskVars, drawerVars, quoteVars>>

Init == DeskInit /\ DrawerInit /\ QuotesInit

Crash(t) ==
    /\ ProcessDies(t)
    /\ DrawerLoses(t) /\ QuotesLose(t)
    /\ UNCHANGED <<shift, cash, asks, quote, held, parked, undone, edits>>

Next ==
    \/ DrawerNext /\ UNCHANGED quoteVars
    \/ QuotesNext /\ UNCHANGED drawerVars
    \/ \E t \in Tills : Crash(t)

Spec == Init /\ [][Next]_deskState
=============================================================================
