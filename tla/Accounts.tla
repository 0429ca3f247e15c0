------------------------------- MODULE Accounts -------------------------------
(***************************************************************************)
(* Customer accounts outside an order (internal/services/customers.go,     *)
(* retail.go, stocktake.go): the customer book, payments, adjustments and  *)
(* top-ups, gift cards, and what of it reaches the other tills             *)
(* (EmitCustomer, EmitLedger, applyCustomer, applyLedger).                 *)
(*                                                                         *)
(* Tills know a customer by phone number.  Money travels as differences,   *)
(* one event for each ledger row; the customer's details travel as a whole *)
(* under the stamp of the moment they are sent, and are compared with the  *)
(* stamp of the receiver's row, which money moves too.                     *)
(***************************************************************************)
EXTENDS Desk, FiniteSetsExt

CONSTANTS Phones,
          Regular,  \* a phone number all tills know at first
          Limits,   \* credit limits a form may set, the first customer's among them
          Cards,    \* gift cards
          Worth,    \* cents on a gift card
          MaxForms  \* bound on customer forms sent

ASSUME AccountsAssumption ==
    /\ Regular \in Phones /\ Limits \subseteq Nat \ {0} /\ Limits # {}
    /\ Worth \in Nat \ {0} /\ MaxForms \in Nat

VARIABLES book,      \* customers of each till, oldest row first
          card,      \* gift_cards, each on the till that sold it
          forms,
          lost,      \* history: phones with an event lost or applied again, or given up
          misjudged  \* history: phones where newer details are dropped, or older ones taken
                     \* or sent last
accountVars == <<book, card, forms, lost, misjudged>>

(***************************************************************************)
(* A customer is [phone, limit, stamp, balance, credit] and, of            *)
(* customer_ledger, the sums of the rows that count towards the balance    *)
(* (posted) and towards the credit (loaded).  As history, doubled is what  *)
(* gift cards brought beyond their ledger row, details the stamp the       *)
(* details were last sent or taken over under, and freely says that an     *)
(* adjustment or another till has lowered the balance.                     *)
(***************************************************************************)
NewCustomer(n, limit, stamp) ==
    [phone |-> n, limit |-> limit, stamp |-> stamp, balance |-> 0, credit |-> 0,
     posted |-> 0, loaded |-> 0, doubled |-> 0, details |-> 0, freely |-> FALSE]

AccountsInit ==
    /\ DeskInit
    /\ book = [t \in Tills |-> <<NewCustomer(Regular, Min(Limits), 0)>>]
    /\ card = [g \in Cards |-> [at |-> None, status |-> "none", sale |-> "none"]]
    /\ forms = 0 /\ lost = {} /\ misjudged = {}

Rows(t, n) == {i \in DOMAIN book[t] : book[t][i].phone = n}
Telling(step, t, i, amount) == Work(step, t, i, amount)

(***************************************************************************)
(* The customer book.  The phone number is looked up before the row is     *)
(* written, in a statement of its own.                                     *)
(***************************************************************************)
CreateCustomerLook(q, t, n) ==
    /\ Idle(q) /\ forms < MaxForms /\ forms' = forms + 1
    /\ Rows(t, n) = {}
    /\ Put(q, Work("create", t, n, None))
    /\ UNCHANGED <<now, inbox, crashes, book, card, lost, misjudged>>

CreateCustomer(q) ==
    /\ AtStep(q, "create") /\ Moment
    /\ LET t == req[q].at
       IN /\ book' = [book EXCEPT ![t] =
                Append(@, NewCustomer(req[q].doc, Min(Limits), nowStamp(t)))]
          /\ Put(q, Telling("emitCustomer", t, Len(book[t]) + 1, None))
    /\ UNCHANGED <<inbox, crashes, card, forms, lost, misjudged>>

\* A new phone number leaves the account under the old one on the other tills.
UpdateCustomer(q, t, i, n, limit) ==
    /\ Idle(q) /\ forms < MaxForms /\ forms' = forms + 1 /\ Moment
    /\ i \in DOMAIN book[t] /\ Rows(t, n) \subseteq {i}
    /\ book' = [book EXCEPT ![t][i] =
          [@ EXCEPT !.phone = n, !.limit = limit, !.stamp = nowStamp(t)]]
    /\ lost' = IF n = book[t][i].phone THEN lost ELSE lost \cup {n, book[t][i].phone}
    /\ Put(q, Telling("emitCustomer", t, i, None))
    /\ UNCHANGED <<inbox, crashes, card, misjudged>>

\* The row is read, and what was read is queued under a stamp of its own in a statement
\* of its own: meanwhile another form may have been written, or even told.
Tells(q, t, i) == req[q].step \in {"emitCustomer", "send"} /\ req[q].at = t /\ req[q].doc = i

EmitCustomerRead(q) ==
    /\ AtStep(q, "emitCustomer")
    /\ LET row == book[req[q].at][req[q].doc]
       IN Put(q, Telling("send", req[q].at, req[q].doc, [phone |-> row.phone, limit |-> row.limit]))
    /\ UNCHANGED <<now, inbox, crashes, accountVars>>

EmitCustomer(q) ==
    /\ AtStep(q, "send") /\ Moment
    /\ LET t == req[q].at
           i == req[q].doc
           read == req[q].seen
       IN /\ Emit(t, [kind |-> "customer", phone |-> read.phone,
                      limit |-> read.limit, stamp |-> nowStamp(t)])
          /\ book' = [book EXCEPT ![t][i].details = nowStamp(t)]
          /\ misjudged' =
                IF /\ book[t][i].details < nowStamp(t) /\ read.phone = book[t][i].phone
                   /\ read.limit = book[t][i].limit \/ \E r \in Requests \ {q} : Tells(r, t, i)
                THEN misjudged ELSE misjudged \cup {read.phone, book[t][i].phone}
    /\ Put(q, IdleSlot)
    /\ UNCHANGED <<crashes, card, forms, lost>>

(***************************************************************************)
(* Money.  recordLedgerTx writes a ledger row and moves the column its     *)
(* kind belongs to; recordLedgerTxNoBalance writes the row alone.          *)
(***************************************************************************)
recordLedgerTxNoBalance(row, kind, amount) ==
    IF kind = "credit" THEN [row EXCEPT !.loaded = @ + amount]
                       ELSE [row EXCEPT !.posted = @ + amount]
ClampColumn(row, kind, amount) ==  \* mutant: never below zero, as the stock column
    IF kind = "credit" THEN [row EXCEPT !.credit = Max({0, @ + amount})]
                       ELSE [row EXCEPT !.balance = Max({0, @ + amount})]
MoveColumn(row, kind, amount) ==
    IF kind = "credit" THEN [row EXCEPT !.credit = @ + amount]
                       ELSE [row EXCEPT !.balance = @ + amount]
recordLedgerTx(row, kind, amount) ==
    MoveColumn(recordLedgerTxNoBalance(row, kind, amount), kind, amount)

\* The customer of row i becomes row; the request goes on to tell of it.
Commit(q, t, i, row, kind, amount) ==
    /\ Idle(q) /\ Moment
    /\ book' = [book EXCEPT ![t][i] = [row EXCEPT !.stamp = nowStamp(t)]]
    /\ Put(q, Telling(kind, t, i, amount))
    /\ UNCHANGED <<inbox, crashes, forms, lost, misjudged>>

\* A sale on account; the limit is advice to the cashier.
ChargeTab(q, t, i) ==
    /\ Commit(q, t, i, recordLedgerTx(book[t][i], "balance", 1), "balance", 1)
    /\ UNCHANGED card

RecordCustomerPaymentTwice(q, t, i) ==  \* mutant: the row moves the balance once more
    /\ book[t][i].balance >= 1
    /\ LET paid == MoveColumn(book[t][i], "balance", -1)
       IN Commit(q, t, i, recordLedgerTx(paid, "balance", -1), "balance", -1)
    /\ UNCHANGED card
RecordCustomerPayment(q, t, i) ==
    /\ book[t][i].balance >= 1
    /\ LET paid == MoveColumn(book[t][i], "balance", -1)
       IN Commit(q, t, i, recordLedgerTxNoBalance(paid, "balance", -1), "balance", -1)
    /\ UNCHANGED card

RecordCustomerAdjustment(q, t, i) ==
    /\ LET row == [book[t][i] EXCEPT !.freely = TRUE]
       IN Commit(q, t, i, recordLedgerTx(row, "balance", -1), "balance", -1)
    /\ UNCHANGED card

TopUpStoreCredit(q, t, i) ==
    /\ Commit(q, t, i, recordLedgerTx(book[t][i], "credit", 1), "credit", 1)
    /\ UNCHANGED card

EmitLedger(q) ==
    /\ req[q].step \in {"balance", "credit"}
    /\ LET t == req[q].at
       IN Emit(t, [kind |-> "ledger", column |-> req[q].step, amount |-> req[q].seen,
                   phone |-> book[t][req[q].doc].phone])
    /\ Put(q, IdleSlot)
    /\ UNCHANGED <<now, crashes, accountVars>>

(***************************************************************************)
(* Gift cards: minted when their sale is paid, dead when it is voided, and *)
(* turned into credit once, by a direct update and by the ledger row.      *)
(***************************************************************************)
issueGiftCardsTx(t, g) ==
    /\ card[g].status = "none"
    /\ card' = [card EXCEPT ![g] = [at |-> t, status |-> "ACTIVE", sale |-> "PAID"]]
    /\ UNCHANGED <<deskVars, book, forms, lost, misjudged>>

RedeemGiftCard(q, t, i, g) ==
    /\ card[g].at = t /\ card[g].status = "ACTIVE"
    /\ card' = [card EXCEPT ![g].status = "EMPTY"]
    /\ LET row == [MoveColumn(book[t][i], "credit", Worth) EXCEPT !.doubled = @ + Worth]
       IN Commit(q, t, i, recordLedgerTx(row, "credit", Worth), "credit", Worth)

KillCards(g) ==
    card' = [card EXCEPT ![g].sale = "VOIDED",
                         ![g].status = IF @ = "ACTIVE" THEN "VOID" ELSE @]

\* Void, here or on a till that knows the sale from its event.
VoidCardSale(t, g) ==
    /\ card[g].sale = "PAID"
    /\ IF card[g].at = t THEN KillCards(g) /\ UNCHANGED inbox
       ELSE /\ card' = [card EXCEPT ![g].sale = "VOIDED"]
            /\ Emit(t, [kind |-> "void", card |-> g])
    /\ UNCHANGED <<now, req, crashes, book, forms, lost, misjudged>>

ApplyVoid(t) ==
    /\ Idle(t) /\ Arrived(t, "void") /\ Received(t)
    /\ LET g == Head(inbox[t]).card
       IN IF card[g].at = t THEN KillCards(g) ELSE UNCHANGED card
    /\ UNCHANGED <<now, req, crashes, book, forms, lost, misjudged>>

(***************************************************************************)
(* What another till sent.  applyCustomer takes details over unless their  *)
(* stamp is earlier than the row's.  applyLedger writes the row, then      *)
(* moves the money, then its event is marked, each on its own; it makes    *)
(* the customer up if it has none with that phone.                         *)
(***************************************************************************)
Stale(event, row) == event.stamp < row.stamp

applyCustomerByPhoneOnly(t) ==  \* mutant: details of a known customer are not taken over
    /\ Idle(t) /\ Arrived(t, "customer") /\ Received(t)
    /\ LET event == Head(inbox[t])
       IN book' = IF Rows(t, event.phone) # {} THEN book
                  ELSE [book EXCEPT ![t] = Append(@,
                          [NewCustomer(event.phone, event.limit, event.stamp)
                              EXCEPT !.details = event.stamp])]
    /\ UNCHANGED <<now, req, crashes, card, forms, lost, misjudged>>
applyCustomer(t) ==
    /\ Idle(t) /\ Arrived(t, "customer") /\ Received(t)
    /\ LET event == Head(inbox[t])
           i == Min(Rows(t, event.phone))
       IN IF Rows(t, event.phone) = {}
          THEN /\ book' = [book EXCEPT ![t] = Append(@,
                     [NewCustomer(event.phone, event.limit, event.stamp)
                         EXCEPT !.details = event.stamp])]
               /\ UNCHANGED misjudged
          ELSE /\ book' = IF Stale(event, book[t][i]) THEN book
                          ELSE [book EXCEPT ![t][i] = [@ EXCEPT !.limit = event.limit,
                                  !.stamp = event.stamp, !.details = event.stamp]]
               /\ misjudged' =
                     IF Stale(event, book[t][i]) <=> event.stamp < book[t][i].details
                     THEN misjudged ELSE misjudged \cup {event.phone}
    /\ UNCHANGED <<now, req, crashes, card, forms, lost>>

applyLedgerRow(t) ==
    /\ Idle(t) /\ Arrived(t, "ledger") /\ Moment
    /\ LET event == Head(inbox[t])
           known == Rows(t, event.phone)
           made == IF known # {} THEN book[t]
                   ELSE Append(book[t], NewCustomer(event.phone, 0, nowStamp(t)))
           i == IF known # {} THEN Min(known) ELSE Len(made)
       IN /\ book' = [book EXCEPT ![t] = [made EXCEPT ![i] =
                recordLedgerTxNoBalance(@, event.column, event.amount)]]
          /\ Put(t, Work("move", t, i, event.amount))
    /\ UNCHANGED <<inbox, crashes, card, forms, lost, misjudged>>

MoveMoney(row, event, stamp) ==
    [MoveColumn(row, event.column, event.amount) EXCEPT
        !.stamp = stamp, !.freely = @ \/ event.amount < 0]
applyLedger(t) ==
    /\ AtStep(t, "move")
    /\ book' = [book EXCEPT ![t][req[t].doc] = MoveMoney(@, Head(inbox[t]), Clock(t, now))]
    /\ Put(t, Work("mark", t, req[t].doc, None))
    /\ UNCHANGED <<now, inbox, crashes, card, forms, lost, misjudged>>

markSyncApplied(t) ==
    /\ AtStep(t, "mark") /\ Received(t)
    /\ Put(t, IdleSlot)
    /\ UNCHANGED <<now, crashes, accountVars>>

Crash(t) ==
    /\ ProcessDies(t)
    /\ lost' = lost \cup {book[t][req[q].doc].phone : q \in {r \in DOMAIN req :
          req[r].at = t /\ req[r].step \in {"emitCustomer", "send", "balance", "credit", "move", "mark"}}}
    /\ UNCHANGED <<book, card, forms, misjudged>>

Customers ==
    \E q \in Requests : \/ CreateCustomer(q) \/ EmitCustomerRead(q) \/ EmitCustomer(q)
                        \/ \E t \in Tills, n \in Phones :
                              \/ CreateCustomerLook(q, t, n)
                              \/ \E i \in DOMAIN book[t], limit \in Limits :
                                    UpdateCustomer(q, t, i, n, limit)
Money ==
    \E q \in Requests : \/ EmitLedger(q)
                        \/ \E t \in Tills : \E i \in DOMAIN book[t] :
                              \/ ChargeTab(q, t, i) \/ RecordCustomerPayment(q, t, i)
                              \/ RecordCustomerAdjustment(q, t, i) \/ TopUpStoreCredit(q, t, i)
GiftCards ==
    \E t \in Tills, g \in Cards :
        \/ issueGiftCardsTx(t, g) \/ VoidCardSale(t, g)
        \/ \E q \in Requests, i \in DOMAIN book[t] : RedeemGiftCard(q, t, i, g)

Syncing ==
    \E t \in Tills : \/ applyCustomer(t) \/ applyLedgerRow(t) \/ applyLedger(t)
                     \/ markSyncApplied(t) \/ ApplyVoid(t)

Next == Customers \/ Money \/ GiftCards \/ Syncing \/ \E t \in Tills : Crash(t)

Spec == AccountsInit /\ [][Next]_<<deskVars, accountVars>>

(***************************************************************************)
(* On every till a customer's balance and credit are what the ledger says, *)
(* plus each gift card once more (RedeemGiftCard moves the credit itself   *)
(* and again through recordLedgerTx), and nobody has overpaid: only an     *)
(* adjustment or another till takes a balance below zero.  Accounts with a *)
(* ledger event that a death made the till apply again are left out.       *)
(***************************************************************************)
BooksFollowLedger ==
    \A t \in Tills : \A i \in DOMAIN book[t] :
        LET row == book[t][i]
        IN row.phone \notin lost =>
              /\ (~AtStep(t, "move") \/ req[t].doc # i) =>
                    row.balance = row.posted /\ row.credit = row.loaded + row.doubled
              /\ row.freely \/ row.balance >= 0

\* The balance, or the credit with gift cards counted once, of all accounts under a number.
Held(row, column) == IF column = "credit" THEN row.credit - row.doubled ELSE row.balance
Total(t, n, column) == SumFunction([i \in Rows(t, n) |-> Held(book[t][i], column)])

(***************************************************************************)
(* Once everything has arrived, the tills agree on what the accounts under *)
(* a phone number owe and are owed, gift cards counted once, whatever was  *)
(* created, charged, paid and redeemed where and however often a number    *)
(* was entered twice; the exceptions are a number that was changed and a   *)
(* process that died with an event unsent or half applied.                 *)
(***************************************************************************)
TillsOweTheSame ==
    Settled => \A n \in Phones \ lost, column \in {"balance", "credit"} : \A t, o \in Tills :
        Total(t, n, column) = Total(o, n, column)

(***************************************************************************)
(* Once everything has arrived, the tills agree on a customer's credit     *)
(* limit, unless details were taken in the wrong order, or sent in the     *)
(* wrong order.  applyCustomer compares the moment they were sent with a   *)
(* stamp that money moves and that is set before the details are sent, and *)
(* the clock of a till may lag behind details it has taken over.  Of two   *)
(* updates that overlap, EmitCustomer may send the limit the first one     *)
(* read under the later stamp, when the second has told of its own.        *)
(***************************************************************************)
LimitsAgree ==
    Settled => \A n \in Phones \ (lost \cup misjudged) : \A t, o \in Tills :
        Cardinality(Rows(t, n)) = 1 /\ Cardinality(Rows(o, n)) = 1 =>
            book[t][Min(Rows(t, n))].limit = book[o][Min(Rows(o, n))].limit
=============================================================================
