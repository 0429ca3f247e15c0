---------------------------- MODULE MCOrderNumbers ----------------------------
(* The numbers of two tills for TLC: a busy one, and one with two orders.    *)
EXTENDS OrderNumbers
CONSTANTS busy, quiet
MCMaxOrders(t) == IF t = busy THEN 7 ELSE 2
=============================================================================
