---------------------------- MODULE MCOfflineQueue ----------------------------
(* OfflineQueue for TLC, with two screens and one sale, or one screen and two  *)
(* sales of which the till may bar the first.                                  *)
EXTENDS OfflineQueue
CONSTANT t1
VARIABLE focus

OthersOnlyFlush == \A t \in Screens \ {t1} : ring'[t] = NoRing
OneScreen == \A t \in Screens \ {t1} : ring'[t] = NoRing /\ flush'[t] = NoFlush /\ online'[t] /\ ~badge'[t]

FocusInit == Init /\ focus \in {"two screens", "two sales"}
FocusNext ==
    /\ \/ focus = "two screens" /\ Next /\ rung' <= 1 /\ OthersOnlyFlush /\ barred' = {}
       \/ focus = "two sales" /\ Next /\ OneScreen /\ troubles' <= 1 /\ barred' \subseteq {1}
    /\ focus' = focus
FocusSpec == FocusInit /\ [][FocusNext]_<<vars, focus>> /\ Fairness
=============================================================================
