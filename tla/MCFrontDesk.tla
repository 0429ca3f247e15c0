----------------------------- MODULE MCFrontDesk -----------------------------
(* FrontDesk with two tills for TLC, each with a cashier the other does not  *)
(* know; the clock of the second runs a moment and a half ahead.  The two    *)
(* halves meet only in the slots and the outbox, so a behaviour is about one *)
(* of them: quotes, sessions whose requests overtake each other, or a longer *)
(* row of sessions with one request at a time and no death.                  *)
EXTENDS FrontDesk, TLC
CONSTANTS a, b, amy, ben
VARIABLE focus
MCKnows(t) == IF t = a THEN {amy} ELSE {ben}
MCFirstUser(t) == IF t = a THEN amy ELSE ben
MCClock(t, n) == 2 * n + IF t = a THEN 0 ELSE 3
RequestSymmetry == Permutations(Requests)

OneAtATime == Cardinality({q \in Requests : req[q] # IdleSlot}) <= 1

FocusInit == Init /\ focus \in {"quotes", "overlapping sessions", "row of sessions"}
FocusNext ==
    /\ \/ focus = "quotes" /\ QuotesNext /\ UNCHANGED drawerVars
       \/ focus = "overlapping sessions" /\ DrawerNext /\ UNCHANGED quoteVars
          /\ now' <= 4 /\ asks' <= 3
       \/ focus = "row of sessions" /\ DrawerNext /\ UNCHANGED quoteVars /\ OneAtATime'
       \/ focus # "row of sessions" /\ \E t \in Tills : Crash(t)
    /\ focus' = focus
FocusSpec == FocusInit /\ [][FocusNext]_<<deskState, focus>>
=============================================================================
