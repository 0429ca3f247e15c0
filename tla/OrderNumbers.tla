------------------------------ MODULE OrderNumbers ------------------------------
(***************************************************************************)
(* The numbers of one day's orders (services/orders.go: the loop of        *)
(* Checkout, nextDocNumber, bumpDaySeq; services/teamsync_apply.go:        *)
(* applyOrder).  Each till counts for itself and takes in the orders of    *)
(* the others under the numbers they have, with a tag when it must.  The   *)
(* papers of the stock room use the same counter.                          *)
(***************************************************************************)
EXTENDS Naturals, Sequences, FiniteSetsExt

CONSTANTS Tills,
          Attempts,     \* how often Checkout tries, 6
          MaxOrders(_), \* bound on the orders of a till
          MaxPapers     \* bound on the counter, where papers of the stock room move it

VARIABLES seq,     \* order_sequences, of each till
          orders,  \* the numbers in use on each till
          made,    \* the numbers a till gave its own orders, as they are emitted
          taken,   \* how many of another till's orders a till has applied
          attempt  \* the attempts a till's checkout has lost, or NoSale
numberVars == <<seq, orders, made, taken, attempt>>

NoSale == Attempts + 1
Number(n) == [seq |-> n, tagged |-> FALSE]
Tagged(n) == [seq |-> n, tagged |-> TRUE]

NumbersInit ==
    /\ seq = [t \in Tills |-> 0] /\ orders = [t \in Tills |-> {}]
    /\ made = [t \in Tills |-> <<>>] /\ taken = [t \in Tills |-> [u \in Tills |-> 0]]
    /\ attempt = [t \in Tills |-> NoSale]

\* The highest number by length and then as text: a tagged one comes before all others.
Longest(t) ==
    IF \E n \in orders[t] : n.tagged THEN {n \in orders[t] : n.tagged} ELSE orders[t]
Highest(t) == Max({0} \cup {n.seq : n \in Longest(t)})

bumpDaySeq(t) == seq[t] + 1

nextOrderNumber(t, skip) ==
    skip + (IF Highest(t) >= bumpDaySeq(t) THEN Highest(t) + 1 ELSE bumpDaySeq(t))

Checkout(t) ==
    /\ attempt[t] = NoSale /\ Len(made[t]) < MaxOrders(t)
    /\ attempt' = [attempt EXCEPT ![t] = 0]
    /\ UNCHANGED <<seq, orders, made, taken>>

\* One attempt is one transaction: what it added to the counter is lost with it.
Attempt(t) ==
    /\ attempt[t] < Attempts
    /\ LET n == nextOrderNumber(t, attempt[t]) IN
        \/ /\ Number(n) \in orders[t] /\ attempt' = [attempt EXCEPT ![t] = @ + 1]
           /\ UNCHANGED <<seq, orders, made>>
        \/ /\ Number(n) \notin orders[t] /\ attempt' = [attempt EXCEPT ![t] = NoSale]
           /\ seq' = [seq EXCEPT ![t] = bumpDaySeq(t)]
           /\ orders' = [orders EXCEPT ![t] = @ \cup {Number(n)}]
           /\ made' = [made EXCEPT ![t] = Append(@, n)]
    /\ UNCHANGED taken

GiveUp(t) ==
    /\ attempt[t] = Attempts /\ attempt' = [attempt EXCEPT ![t] = NoSale]
    /\ UNCHANGED <<seq, orders, made, taken>>

\* A paper of the stock room, whose own numbers are not looked at.
nextDocNumber(t) ==
    /\ seq[t] < MaxPapers /\ seq' = [seq EXCEPT ![t] = bumpDaySeq(t)]
    /\ UNCHANGED <<orders, made, taken, attempt>>

\* The random part of a tag is left out: it is unique.
applyOrder(t, u) ==
    /\ t # u /\ taken[t][u] < Len(made[u])
    /\ taken' = [taken EXCEPT ![t][u] = @ + 1]
    /\ LET n == made[u][taken'[t][u]] IN
        orders' = [orders EXCEPT ![t] =
                      @ \cup {IF Number(n) \in orders[t] THEN Tagged(n) ELSE Number(n)}]
    /\ UNCHANGED <<seq, made, attempt>>

NumbersNext ==
    \E t \in Tills : \/ Checkout(t) \/ Attempt(t) \/ GiveUp(t) \/ nextDocNumber(t)
                     \/ \E u \in Tills : applyOrder(t, u)
NumbersSpec == NumbersInit /\ [][NumbersNext]_numberVars

(***************************************************************************)
(* What the comments say and the code does not do                          *)
(***************************************************************************)

\* "Retries can no longer deadlock on a collision" (orders.go:872): a checkout does not
\* lose all of its attempts.  It does: the first number that both tills gave is kept here
\* with a tag, which is longer than any number without one, and the search for the
\* highest number sees nothing above it.  With as many more of the other till's orders
\* as there are attempts, every sale of the day is refused: the counter is rolled back.
SaleGetsNumber == \A t \in Tills : attempt[t] # Attempts
=============================================================================
