----------------------------- MODULE MCTillHeals -----------------------------
(* What must happen in the end to a sale, for TLC: confirmed money is recorded *)
(* and its receipt leaves the printer's queue.  Till and PrintQueue share no   *)
(* state, so a behaviour is about one of them and the other stays as it began. *)
EXTENDS MCTill, PrintQueue
VARIABLE focus

FocusInit == Init /\ PrintInit /\ focus \in {"paying", "printing"}
FocusNext ==
    /\ \/ focus = "paying" /\ Next /\ UNCHANGED printVars
       \/ focus = "printing" /\ PrintNext /\ UNCHANGED vars
    /\ focus' = focus
FocusSpec ==
    /\ FocusInit /\ [][FocusNext]_<<vars, printVars, focus>>
    /\ Fairness /\ PrintFairness
=============================================================================
