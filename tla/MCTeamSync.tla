----------------------------- MODULE MCTeamSync -----------------------------
(* Two tills: a enters the product and takes the order, b hears of it.  A      *)
(* behaviour is about a cash or M-Pesa order with at most two faults, or about *)
(* an order on a tab with at most one.  To keep the graph small, of two faults *)
(* met by an order that waits for M-Pesa or is voided either both are deaths   *)
(* (or set a cursor back) or none is; and a paid order meets one sequence of   *)
(* three: a push that is refused, a death and a cursor that is set back.       *)
EXTENDS TeamSync

CONSTANTS a, b, cash, tab
VARIABLE focus

BothAtA == cash :> a @@ tab :> a

Untouched(o) == \A t \in Tills : rec'[t][o] = "absent"
PaidAtOnce == \A t \in Tills : rec'[t][cash] \in {"absent", "PAID"}
Faults == lost' + refused' + crashes' + presses'

FewFaults ==
    \/ Faults <= 1
    \/ Faults = 2 /\ (PaidAtOnce \/ crashes' \in {0, 2})
    \/ PaidAtOnce /\ refused' = 1 /\ crashes' = 2 /\ rewound' # {}

FocusInit == Init /\ focus \in {"cash", "tab"}
FocusNext ==
    /\ Next /\ focus' = focus
    /\ \/ focus = "cash" /\ Untouched(tab) /\ FewFaults
       \/ focus = "tab" /\ Untouched(cash) /\ Faults <= 1
FocusSpec ==
    /\ FocusInit /\ [][FocusNext]_<<vars, focus>>
    /\ \A t \in Tills : WF_vars(Sync(t)) /\ WF_vars(EmitLedger(t))
=============================================================================
