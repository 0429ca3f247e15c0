------------------------------- MODULE SaleOnce -------------------------------
(***************************************************************************)
(* What the offline queue promises of a cash sale the cashier was told is  *)
(* "Saved offline": it is kept until the till has its order or has refused *)
(* it in so many words, and it becomes one order, never two.  Where and    *)
(* how the sale is kept, sent and sent again is OfflineQueue's matter.     *)
(***************************************************************************)
EXTENDS Naturals

CONSTANT Sales

VARIABLES saved,   \* sales the cashier was told are saved
          kept,    \* sales in the queue
          lost,    \* sales the browser had no room for
          orders,  \* orders the till has of each sale
          refused  \* sales the cashier was told the till refused
saleVars == <<saved, kept, lost, orders, refused>>

SaleInit == saved = {} /\ kept = {} /\ lost = {} /\ orders = [s \in Sales |-> 0] /\ refused = {}

Save(s) ==
    /\ saved' = saved \cup {s}
    /\ \/ kept' = kept \cup {s} /\ UNCHANGED lost
       \/ lost' = lost \cup {s} /\ UNCHANGED kept
    /\ UNCHANGED <<orders, refused>>

Book(s) ==
    /\ orders[s] = 0 /\ orders' = [orders EXCEPT ![s] = 1]
    /\ UNCHANGED <<saved, kept, lost, refused>>

Clear(s) ==
    /\ orders[s] = 1 /\ kept' = kept \ {s}
    /\ UNCHANGED <<saved, lost, orders, refused>>

Refuse(s) ==
    /\ refused' = refused \cup {s} /\ kept' \in {kept, kept \ {s}}
    /\ UNCHANGED <<saved, lost, orders>>

SaleNext == \E s \in Sales : Save(s) \/ Book(s) \/ Clear(s) \/ Refuse(s)
SaleSpec == SaleInit /\ [][SaleNext]_saleVars

\* "No lost / no duplicated sales" (heartbeat.ts): a sale said to be saved is in the queue,
\* ordered or refused, unless there was no room for it, and no sale has two orders.
Promise ==
    /\ orders \in [Sales -> {0, 1}]
    /\ \A s \in saved : s \in kept \cup lost \cup refused \/ orders[s] = 1
=============================================================================
