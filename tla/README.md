# TLA+ models of the point of sale

A shop runs this program on one or more tills. A till is a Go process with a
SQLite file for each shop, a browser user interface, a receipt printer, and a
link to a cloud through which the tills of a team exchange events, M-Pesa
prompts are sent and forgotten PINs are reset. The modules here model the parts
where an order of steps decides whether money, goods, paper and rights stay
right. TLC checks them on small instances. TLAPS proves for all instances the
safety of the sale, the print queue, team sync, the stock room, the cash drawer,
quotes, customer accounts, people and their codes, updates, PIN resets, receipts
and backups, and that the offline queue implements its abstract specification.

Source paths are relative to `src/`. Every definition that models code is
listed in `PROJECT.json` under `map` with the lines it stands for; the few that
stand for the cloud, a gateway, or a death of the process are marked external.

## 1. The system

### Components and how they meet

| Component | State it keeps | Operations | What makes it hard, and what makes it correct |
|---|---|---|---|
| Orders and payments (`internal/services/orders.go`, `customers.go`, `sweeper.go`) | orders, order_items, payments, products.stock_qty, customer_ledger, customers | Checkout, InitiateSTK, RetrySTK, ManualConfirm, SettleTab, Void, HandleCallback, completePayment | Handlers read, call a provider, and write later; callbacks, polls, cashiers and the sweeper complete the same leg. A sale's effects happen once, a receipt settles one leg, nothing completes after a void, a tab is owed until it is settled. |
| Cloud relay of M-Pesa (`payments_buni_cloud.go`, `internal/mpesa`) | payments.checkout_request_id, events in the cloud | push, claim, expire, recheck | Late money, lost answers, two prompts for one sale. Money that was confirmed is recorded. |
| Order numbers (`orders.go:846-972`) | order_sequences, orders.number | nextDocNumber | A counter that lags what other tills bring in. A checkout does not run out of tries. |
| Receipt printing (`internal/printer/worker.go`) | print_jobs | Enqueue, tick, printJob, Recover | Device errors, deaths, database errors. Paper is accounted for; a job ends. |
| Team sync (`teamsync*.go`, `outbox_backfill.go`) | sync_outbox, sync_applied, sync_dead_letter, cursors; the log in the cloud | Emit, push, pull, apply, dead-letter, retry, backfill | Every statement commits on its own, so a death between two of them repeats or loses an effect; events overtake each other. The tills agree once the exchange is quiet. |
| Stock control and product form (`suppliers.go`, `stocktake.go`, `handlers/catalog.go`, `csv.go`) | products.stock_qty and cost, purchase_orders, stock_takes, stock_counts | receive, cancel, count, apply, adjust, edit, import | Absolute figures against running sales. The shelf is what was there, plus deliveries, less sales; the other tills follow. |
| Shifts (`shifts.go`) | shifts | open, close | Check and insert are separate statements; the expected cash is read before the closing transaction. Every cash payment on one report. |
| Quotes and parked sales (`quotes.go`, `retail.go`) | quotes, held_sales | edit, status moves, convert, park, discard | Writes without a guard in the statement. A quote becomes one sale, and tills agree on its row. |
| Customer accounts and gift cards (`customers.go`, `retail.go`, `stocktake.go:286-386`) | customers.balance and store credit, customer_ledger, gift_cards | payment, adjustment, top-up, mint, redeem | Money travels as differences, details as a whole. An account equals the sum of its ledger; tills agree. |
| Users, roles, recovery codes (`handlers/users.go`, `roles.go`, `services/recovery.go`, `teamjoin.go`, `ownersignin.go`) | users, roles, recovery_codes | create, edit, deactivate, join, sign in, issue, redeem | Guards read before the statement that writes. A shop keeps an owner; a code works once. |
| Updates and undo (`handlers/system.go`, `update_rollback.go`, `internal/update`, `main.go`) | staged installer, archives and their index, restore manifest, the binary | download, archive, install, undo, restore at boot | Copies, deletions and restarts that fail half way while the shops sell. No sale is lost. |
| PIN reset (`pinreset.go`, `internal/landelivery`) | settings rows, users.pin_hash, grants in the cloud | request, approve, collect, redeem, deliver | Collected before remembered; offered again by the cloud. A grant is applied once, and arrives. |
| WhatsApp receipts (`whatsapp.go`) | whatsapp_jobs | queue, drain, retry | Sent before it is marked; voided in between. One receipt per job; a job ends. |
| Off-site backup (`internal/offsite`, `backup.go`) | a queue in memory, snapshot files, a bucket | enqueue, upload, prune | A restart empties the queue; snapshots are pruned under it. What was sent last is what is restored. |
| Offline queue (`frontend/src/offline`, `CheckoutRail.tsx`, `handlers/orders.go` Sync) | IndexedDB or localStorage of a browser | enqueue, flush, remove | Lost answers, two stores, refused sales, two windows. A sale is booked once and never forgotten. |
| Shops, settings (`internal/tenants`, `shoppool.go`, `internal/settings`) | registry file, open handles, settings rows and caches | create, open, start loops, Set, SetOnce | What an archive contains is what the registry says. |
| Live updates (`internal/ws`) | connected clients | register, broadcast, drop | A client is removed while it is being sent to. |

The remaining parts (images, cloud configuration, signing in, design jobs,
receipt drawing, reports, HTTP routing, screens, demo, installation) are listed
in `PROJECT.json` with the reason each has no module: they are single guarded
statements, reads, drawing, or input and output.

How they interact:

- Everything that writes on a till goes through one SQLite file that is opened
  with `_txlock=immediate` (`internal/database/database.go`): write transactions
  run one after another, and a transaction is one step in every module here. A
  statement outside a transaction commits on its own. What a handler read before
  its transaction may be stale inside it. That is where most hazards come from.
- Checkout, completePayment, Void, stock movements, customers, shifts and quotes
  emit events to the outbox after their commit; the sync loop moves them to the
  log and applies those of other tills to the same tables.
- A completed sale enqueues a print job and, if configured, a WhatsApp job.
- The sweeper polls the local provider and claims the relay's callbacks, and
  both end in completePayment.
- The browser keeps sales it could not send and repeats them through Sync.
- An update copies every shop of the registry before its installer runs; an undo
  stages those copies, and the next start of the process puts them back.

### Hazards

`PROJECT.json` lists forty of them by line, each with the properties that would
catch it going wrong. Known ones that no property covers, and why:

- `orders.go:1043`, `1276`: RetrySTK fails a leg that completed after it was
  read, and a tab confirmed with a receipt code is paid and still owed. Both
  happen (section 6). `Till` has the behaviour, and its properties are stated so
  that they hold beside it.
- `payments_buni_cloud.go:85`: the guard against a second prompt. In `Till` the
  time it holds is open, so nothing could be said of it.
- `teamsync_apply.go:591`, `outbox_backfill.go:78`: an order completed on a till
  that did not take it, and voids that are never emitted again. Both break
  `TillsAgree` in every run in which they occur; `TeamSync` says where it leaves
  them out.
- `ws/hub.go:100`: a screen's channel is chosen under the lock and sent to after
  it. There is no module of it.
- `handlers/system.go:238`: the timer installs an update if no shop has
  unfinished work, which it asks before the archive; a payment that begins after
  the question is cut off by the restart. `Updates` has the order of steps, and
  what it promises is that no sale that was booked is lost.

## 2. The modules

| Module | Models | Composed or checked in | Proofs |
|---|---|---|---|
| `Till` | orders, payments, stock, ledger, store credit, points, on one till | `MCTill`, `MCTillHeals` | `Till_proofs` |
| `OrderNumbers` | the numbers of one day's orders on several tills | `MCOrderNumbers` | |
| `PrintQueue` | the printer's queue and worker | `MCTillHeals` | `PrintQueue_proofs` |
| `TeamSync` | tills, outboxes, the log, the apply loop | `MCTeamSync` | `TeamSync_proofs` |
| `StockRoom` | purchase orders, takes, counts, forms and imports beside sales, and another till that follows | `MCStockRoom` | `StockRoom_proofs` |
| `Desk` | what the next three share: requests in flight, clocks, a team's feed | | |
| `Drawer` | cash-drawer sessions | `FrontDesk`, `MCFrontDesk` | `FrontDesk_proofs` |
| `Quotes` | quotes and the parked sales they turn into | `FrontDesk`, `MCFrontDesk` | `FrontDesk_proofs` |
| `FrontDesk` | Drawer and Quotes over one outbox and one process | `MCFrontDesk` | `FrontDesk_proofs` |
| `Accounts` | the customer book, money on account, gift cards, on several tills | `MCBackOffice` | `BackOffice_proofs` |
| `Staff` | users, roles, recovery codes | `MCBackOffice` | `BackOffice_proofs` |
| `Updates` | installing and undoing updates | `MCBackOffice` | `BackOffice_proofs` |
| `PinReset`, `Receipts`, `Offsite` | forgotten PINs, WhatsApp receipts, backups | `MCOffice` | `Office_proofs` |
| `SaleOnce` | abstract: a sale is kept until it is ordered or refused, and ordered once | | |
| `OfflineQueue` | the browser's stores, heartbeat, flush, and the till's Sync; implements `SaleOnce` | `MCOfflineQueue` | `OfflineQueue_proofs` |

The MC modules add what TLC needs: values, symmetry, and, where a module
composes parts that share no state, a variable `focus` that is chosen at the
start and says which part a behaviour is about, so that the sum of the graphs is
checked instead of their product. `focus` also narrows bounds, where the module
says so; it never adds a step.

### Conventions

A handler that is one transaction is one action. A handler that reads, waits or
commits several times occupies a request slot (`req`, `pad`, `task`, `ring`,
`flush`, `worker`, ...), and each stretch between two commits is an action; what
it read goes into the slot, so that it may be stale when it is used. A crash
empties the slots. Emits are steps of their own where a death in between
matters. A sum of money is what the ledger rows of an order or an account add up
to; a snapshot, a quote's contents or a PIN is a number; a stamp is what the
till's clock says (`Clock`), which need not agree with the next till's. History
variables (`taken`, `unsure`, `stale`, `torn`, `harmed`, `given`, `exposed`, ...)
record what a property has to know of the past.

### Till

State. `status` is orders.status, `flagged` orders.discrepancy, `pay` the rows
of payments in the order of insertion, `stock` the shelf. `debt`, `credit` and
`points` are what an order's ledger rows add up to: the code never updates such a
row, it only adds rows, so the sum per order is what the properties need.
`posted` is the set of orders with a "tab settled" row, which SettleTab looks
for. `prompt` is the provider: what became of each checkout id. `taken` and
`wins` are history.

Actions. Transactions are single actions (`CheckoutInstant`, `CheckoutTab`,
`Void`, `CallbackPaid`, ...). The push is `PushRead`, `PushSupersede`,
`PushSent` or `PushFailed`, `PushBind`; a retry is `RetryRead` and `RetryWrite`;
a manual confirmation is `Confirm`, possibly `ConfirmInsert`, and `Complete`;
settling a tab adds `SettlePost`. `CompletePayment` is `completePayment` with its
four outcomes (done before, after a void, duplicate receipt, completed). The
cloud hands the event of a payment out once: `ClaimEvent` is the till's claim of
it, pending and failed legs alike, and then it is applied (`CallbackPaid`, "spent")
or lost (`DropEvent`, and every claimed one with a `Crash`), as
`claimBuniEvents` goes on after an error and nobody asks for the event again.

Not in the module: order numbers (`OrderNumbers`), gift cards (`Accounts`), the
repetition of a checkout with the same client id (`OfflineQueue`), credit limits,
prices and discounts, permissions, the events for other tills. Every order sells
one unit of each product of the basket. The cash part of a split is represented
by store credit, the part that books something. That a push was less than 75
seconds ago, or older than three minutes, is left open (`PushBusy`, `Expire` may
happen whenever they apply).

### OrderNumbers

`seq` is the counter of each till, `attempt` how often its checkout has tried,
and the numbers on file are those given here and those `applyOrder` brought in,
with a tag where the number was taken. `nextOrderNumber` is `nextDocNumber` with
its heal, `bumpDaySeq` its first half, and `nextDocNumber` a paper of the stock
room, which moves the same counter. A till serves one checkout at a time, tags
are unique, and the day has less than ten thousand numbers.

### PrintQueue

State (`prints` is the status of each row) and actions follow `worker.go` one to
one: `EnqueuePrint`, `Claim` (tick),
`Write` and `WriteError` (the device), `MarkPrinted`, `MarkRefused` and
`MarkFault` (the UPDATE, or its failure, which the code ignores), `LoadFault`
(the row cannot be read), `Death`, and `Restart` with `Recover`. A `WriteError`
may come before or after the paper.

### TeamSync

State. Per till: the order rows (`rec`), the shelf, the ledger movements of tabs
(`booked`), the rows with no `synced_at` (`unsynced`), the outbox with its tries,
the cursor, `applied`, the dead letters, and where the sync loop is (`cycle`).
The log is shared; it keeps a client uuid once, which is a constraint of the
cloud's table. `button` is the retry button, which works through the dead
letters without the loop's mutex. `clerk` is what `emitLedgerForOrder` has read
and not yet emitted. `runs`, `torn`, `rewound` and `twice` are history.

Actions. The shop's changes emit what the code emits, and any emit may be lost
(`noteOutboxFailure`). `Push` is one step: any part of the pending rows reaches
the log and any part of those answers is lost, and rows that failed too often
are quarantined. `Pull`, then per event `Skip`, `Apply` or `DeadLetter`; then
`StartRetry` and `Retry`; then `Fill`, the backfill. `DieUnmarked`, `DieUnmoved`,
`DieRecovering` and `DieEmitting` are deaths at each point where the order of
commits shows; `Rewind` sets a cursor back, as a restored backup does.

Restrictions, each written at the module's head: one product; an order is
completed, or voided unpaid, on the till that took it (elsewhere the code takes
the unit a second time or never, so the properties would say nothing). Pruning
and a change of team are left out.

### StockRoom

`shelf` and `cost` are the product rows, `goods` what really stands there, `peer` a till
that applies every event as it is emitted. Deliveries, sales and adjustments move the
shelf by a difference; takes, counts, the form and the import set it to a figure of some
time ago. Each is followed by its events in statements of their own (`EmitNext`), and a
crash loses those of the requests in flight. A product's own event is two steps, as in the
code: `EmitProductRead` reads the row, `EmitNext` queues what was read, with everybody at
work in between. An event whose stamp was taken before that of one of the same product
that is queued first comes too late (`Overtaken`, `EmitLate`): applyProduct drops it. A
product of whose books an outdated figure was written is `stale`; one is `crossed` whose
figure overtook a difference, met a movement under way, was no longer that of the row when
it was sent, or came too late. The properties speak of the rest.

### Drawer, Quotes, FrontDesk

`Desk` has the slots, each till's clock and the team's feed, which arrives in order and
once. A till's clock moves on from one stamped row to the next, and no two tills show the
same stamp (stamps have milliseconds, and people press the buttons); apart from that it
may run ahead of another's by any amount (`ClockAssumption`). `Drawer` has sessions
(`shift`) and cash payments (`cash`); each till knows some users and books a session of
another on its first one (`resolveLocalCashierID`). A sum of cash is the set of the
payments in it. `Quotes` has the quotes of each till, the parked sales (`held`) and the
requests that edit, move, convert and discard; the contents of a quote are the moment they
were written. `applyQuote` is two steps, its comparison and its write. A sale that arrives
from another till is booked on a local user with the stamp it was made at (`ApplyCash`),
and the close of that user's session counts it like any other.

### Accounts

`book` has the customer rows of each till in the order of insertion, as the
look-up by phone may find two. Money moves by `recordLedgerTx` (the row, the
balance or credit) and is told by `EmitLedger`; details are told as a whole by
`EmitCustomer`, which queues what `EmitCustomerRead` has read in a statement of its
own; stamp and insert are one step, as the receiver goes by the stamp whichever was
queued first. `applyCustomer` compares stamps, `applyLedger` is three
statements and a mark. A gift card is minted with a sale, redeemed, voided with
its sale. Whether a customer is active is left out.

### Staff

`user`, `role` and the recovery codes of one till. A request loads its caller and
reads what its guards ask in one step, and writes in another; one that another
request wrote in between is marked `crossed`, which is what the properties
except. `TeamJoinWithLink` and `OwnerCloudSignin` are the ways in that do not
pass the user screens.

### Updates

A shop's database is a file and its log; what it holds is the set of its sales.
`task` are the update button and the timer, `archive` the copies made before each
installer, with their index and base names, `staged` the installer, `pending` the
restore manifest, `exe` the binary. The start of the process is `Boot`, `PutBack`
per file, and `OpenDatabases`. Any copy, index, swap or manifest may fail and the
process may die anywhere (`MaxTroubles`). Before a file is put back its log is
removed; that may fail too, which the code ignores, and then the file may be put back
`beside` the old log. One release is on offer, undo does not
overlap the two installers in the run, and the till runs Windows. `Rank` is the
order of version labels as text, by which the newest archive is chosen.

### PinReset, Receipts, Offsite

`PinReset` has the locked till's request, the pads where workers wait, the cloud's rows
(`asked`) with one step per procedure of `db/cloud_schema*.sql`, and answers that are
lost. Remembering a grant is a read and a write of one settings row
(`rememberGrantApplied`): the write may fail, may undo what another pad wrote in between,
and keeps the newest `Kept`. There are two pads, each with its own wait. `Receipts` has
the job rows and the worker's batch; the gateway accepts or refuses, and either answer may
not be heard. `Offsite` numbers the snapshots: `shelf` is the directory, `queue` the
uploads in memory, `bucket` what has arrived, `best` what a restore would take.

### OfflineQueue and SaleOnce

`SaleOnce` keeps, per sale, whether the cashier was told that it is saved, whether it is
kept, refused, lost for want of room, and how many orders it has. `OfflineQueue` has a
screen's checkout (`ring`), heartbeat and flush (`flush`), the two stores (`idb`, `ls`) of
the browser all screens share, and requests (`call`) that handlers of the till work on,
batch after batch, order after order; an answer may be lost, a screen reloaded, the till
die, a store fail, and a transaction hang (`MaxTroubles`). The till may refuse a sale for
as long as something stands (a product that is gone, a permission: `barred`), which `Sync`
reports as an error and not as a refusal; the sale is parked, kept and tried again.
`Checkout` is the look-up by client id, the insert and its unique index. The refinement
`Promised == INSTANCE SaleOnce WITH kept <- idb \cup ls` is checked by TLC and proved. The
count of attempts only colours the badge and is left out; the demo backend is not there.

## 3. The runs

Each run answers a question of its own, or two about parts that share no state. All bounds
are CONSTANTs.

| Run | Question | Bounds | Distinct states |
|---|---|---|---|
| `till_books` | Do the books stay right when two orders compete for one unit, with a crash anywhere? | 2 orders, 3 payment rows, 1 handler, 1 prompt, 1 slip, a tracked and an untracked product, 1 unit each, 1 crash | 1171292 |
| `till_races` | Do they when two handlers work on one order at once? | 1 order, 3 rows, 2 handlers, one prompt of each rail, 1 slip | 740772 |
| `till_heals` | Is money the cloud confirmed recorded in the end, unless its event is lost? Is every receipt accounted for, and does every print job end? | 1 order, 3 rows, 1 handler, 2 relayed prompts; 2 jobs, 2 deaths, 2 database errors | 101093 |
| `team_sync` | Do tills agree, is nothing applied or charged twice? | 2 tills; a cash or M-Pesa order that may be voided and 2 faults (the exception is below), or a tab and 1 fault, or an order paid at once and 3 (a failed push, a death, a cursor set back); 2 tries per push, batches of 2, one row failing per push | 823928 |
| `stock_room` | Do books, goods and the other till's shelf agree? | 2 products (1 tracked), a delivery, a take, a count, 2 requests at once, 2 documents in all, 1 sale or adjustment, 2 figures noted or forms opened, 1 crash | 1473717 |
| `front_desk` | Does a close count the cash it should, is a quote sold once, and do two tills agree on both? | 2 tills with different staff, clocks that differ, 2 requests, 4 session requests, 1 quote, 1 edit, 1 crash | 858140 |
| `back_office` | Do accounts, owners, codes and updates keep what they promise? | 2 tills, one clock ahead, 2 phone numbers, 1 card, top-ups at one till beside edits; 3 users, 2 roles, 3 changes; 2 shops, 2 archives, 2 sales, 1 trouble | 1432493 |
| `office` | Do grants, receipts and backups arrive, and once? | 2 workers and 2 pads, not all at once, 3 requests, 2 grants remembered, 1 lost answer, 1 death, 1 setting that is not saved; 2 jobs, 2 attempts; 3 snapshots, 2 kept here, 1 there | 161167 |
| `offline_queue` | Does the queue keep `SaleOnce`'s promise, and are sales settled? | 2 screens and 1 sale with 2 troubles, or 1 screen and 2 sales, the first of which may be barred, with 1; batches of 1 | 190552 |

Why the bounds are enough to be interesting. Two handlers and two prompts let a leg be
bound, superseded, expired, paid late and confirmed by hand in every order, which needs
three rows: the leg, that of a retry and that of a confirmation. Two orders are needed for
a receipt used twice and for the last unit. Two jobs are the least at which a worker can
pick the wrong one. In TeamSync two faults are what a lost answer followed by a death
takes, and three are what an event takes to get a dead letter, be pulled again and be
retried after it was applied; the limit of two tries per push stands for the code's five.
An order that waits for M-Pesa or is voided meets two deaths (or cursors set back) or
none, since a death mixed with another fault would double the graph; an order paid at once
meets every pair. The theorems of TeamSync_proofs hold for every mix and number. Two
requests are what a stale read takes, in the stock room, at the desk, in the accounts and
on the user screens; one crash there loses an event, and the next would do the same again.
A row of sessions needs the fourth request, so that a session is opened after one was
closed. Two pads are what a note of a grant takes to be overwritten, and three grants
overflow a list of two, which stands for the code's twenty. Three changes let an owner be
removed and another stripped. Two archives are an update's and the one an undo makes of
its own. Three snapshots overflow a shelf of two. A second screen is what repeats a batch
the till is still working on; a second sale is what one batch leaves behind.

Three further runs show where a comment or a document says something else than the
code does. Each checks one property, which TLC finds violated.

| Run | What is said | What happens |
|---|---|---|
| `till_double_paid` | "a loser flags double-payment discrepancies" | the money of a second payment on a leg that is completed by then is neither recorded nor flagged (`orders.go:1097`) |
| `team_sync_rewound` | a till whose cursor is set back replays safely | a batch of events that are all applied is skipped without moving the cursor, and fetched for ever |
| `order_numbers` | "Retries can no longer deadlock on a collision" | a tagged number hides the highest one; with six more orders of the other till each checkout of the day loses its six attempts |

The quotations, with their places, are under `findings` in `PROJECT.json`.

### What the properties say

- `till_*`: `PaidOnce` (a sale's effects happen exactly once), `StockExact` (no shelf
  below zero; the shelf is what it was less one unit per paid order), `NoSaleAfterVoid`,
  `OneLegPerReceipt`, `LoyaltyAndCredit` (points and store credit move with the sale and
  return with its void), `TabDebt` (a tab is owed in full until its settlement is posted,
  which happens to paid orders only), `NotOvercharged` (an unflagged sale collected no
  more than its total and the rounding), `MoneyHeals` (liveness: money the cloud confirmed
  for a leg is recorded, unless its one event is lost, its leg was pushed again and forgot
  the checkout, or the leg was settled with another receipt first, which is
  `till_double_paid`).
- `till_heals`, printing: `SingleConsumer`, `CopiesAccountedFor` (each extra copy is
  explained by an attempt, a death or a database error), `PrintsSettle` (liveness, while
  the database works).
- `team_sync`: `OnceEach` (an effect runs once, plus once per death between effect and
  mark, once if the button was ever pressed and once if the cursor was ever set back),
  `LogIsTrue` (no change twice in the log, none missing that is marked pushed),
  `TillsAgree` (quiet tills have the same orders, and the shelf is what was there less
  what was sold), `OrdersArrive` (lost and quarantined order events come back),
  `ChargedOnce`.
- `stock_room`: `BooksMatchGoods` (deliveries are booked once and figures that are still
  right lose nothing), `PeerFollows` (a till that applied everything has the same stock
  and cost, unless a figure was outdated when it was sent, met a movement under way or
  came too late),
  `CountAddsUp` (a closed session reports the sum of its lines), `CostBounded` (the
  average stays between the prices paid).
- `front_desk`: `CashOnItsReport` (what a close counts is cash the till has booked on the
  session's owner since the opening, wherever it was taken; cash taken here is counted by
  a session of this till only if it was open, and in full if it was the only one),
  `SessionsAgree`, `ParkedOnce` (a till parks a quote once unless its row was written back
  in between; the loser of a race cleans up), `QuotesAgree`.
- `back_office`: `BooksFollowLedger`, `TillsOweTheSame`, `LimitsAgree` (unless a till
  dropped newer details, took older ones, or an older reading was sent last), `OwnerStays`
  (no edit that does not cross another takes the last owner), `RecoveryCodeOnce`,
  `UpdateIsProtected` (an installer starts only when all that was sold is in an archive an
  undo can use), `PutBackWhole` (a restore that counts as done put every file back, beside
  no log unless that could not be removed), `UndoKeepsWork` (a sale is in a file or an
  archive).
- `office`: `GrantAppliedOnce` (unless the till lost its note of the grant, in one of four
  ways), `GrantArrives` (liveness), `ReceiptOnce`, `JobsSettle` (liveness),
  `SnapshotArrives` (liveness), `RestoresLastSent`.
- `offline_queue`: `KeepsPromise` (the refinement), `TakenIsSettled` (liveness; a sale the
  till bars for good is parked and kept).

Where the code does not keep the plain form of a promise, the property names the
case it excepts (a request that crossed, a death between two named statements, a
lagging clock), so that everything else is still checked, and section 6 says what
happens in the excepted case. Every property has a mutant: a plausible bug in a
mapped definition, beside that definition in the module, under which TLC finds
the property violated.

### Fairness

- `Till`: weak fairness of a handler that has started (a goroutine serving a
  request runs on), of `ClaimEvent` per leg (the sweeper asks for the events of every
  bound leg every few seconds, failed ones included, `payments_buni_cloud.go:205`) and
  of `CallbackPaid` per leg (it then goes through the events it was handed). An event
  is handed out once, and may be dropped after that. No fairness of cashiers, customers
  or providers. `till_heals` has no crash of `Till`: a claimed event that is lost in one
  is what `DropEvent` does.
- `PrintQueue`: weak fairness of the worker (a ticker every two seconds) and of
  `Restart` (an operator starts a till that is down). Crashes are bounded.
- `TeamSync`: weak fairness of the sync loop per till, which ticks for as long as
  the till is up (`teamsync.go:753`), and of the emit of a handler that has begun.
  Faults are bounded: liveness is about what happens after they stop.
- `OfflineQueue`: weak fairness of each screen's heartbeat (every ten seconds),
  of a flush and a checkout that have begun, and of the till's handlers.
- `PinReset`: weak fairness of each pad (the screen polls while it is open, and the
  handler of a poll that has begun goes on to its last note), strong
  fairness of the half hour after which the cloud offers a grant again.
- `Receipts`: weak fairness of the worker's ticker and of the back-off's minutes.
- `Offsite`: weak fairness of the drain and the back-off, and strong fairness of
  an upload that succeeds: a network that fails every time for ever is excluded,
  one that fails any number of times is not.

No run checks deadlock (`CHECK_DEADLOCK FALSE`): a shop with no request
and no row to work on stops, and bounded instances end when their bounds are used
up.

## 4. The proofs

Eight modules hold the proofs. What they prove holds for every value of the
constants that the assumptions of the modules allow:

| Theorem | In words |
|---|---|
| `PrintQueue_proofs`: `TypeCorrect`, `OneConsumer`, `OutcomesTrue`, `PaperAccounted`, `SettledFinal` | type correctness, three invariants and an action property of the queue, for any number of jobs, crashes and faults; `OutcomeIsTrue` (printed means paper; failed means all attempts used) and `SettledIsFinal` are only proved, no run repeats them |
| `Till_proofs`: `TypeCorrect` | type correctness |
| `PaidExactlyOnce` | `PaidOnce` |
| `VoidIsFinal` | `NoSaleAfterVoid` |
| `ReceiptUsedOnce` | `OneLegPerReceipt` |
| `TabOwedOnce` | `TabDebt` |
| `ShelfMatchesSales` | `StockExact` |
| `CreditReturns` | `LoyaltyAndCredit` |
| `NobodyOvercharged` | `NotOvercharged` |
| `OfflineQueue_proofs`: `AnswersAreTrue` | a sale that a request or a flush holds as booked has its order |
| `QueueKeepsPromise` | the queue implements `SaleOnce` (`KeepsPromise`), for any number of screens, handlers, sales and troubles |
| `NothingLostNothingTwice` | the abstract promise, carried over: a sale said to be saved is kept, ordered or refused, unless there was no room for it, and has one order at most |
| `TeamSync_proofs`: `TypeInvariant` | type correctness; marks, dead letters and batches are about events of other tills that the log has |
| `AppliedOnce` | `OnceEach` |
| `LogHoldsEachOnce` | `LogIsTrue` |
| `NoOrderIsLost` | `OrdersArrive` |
| `TabsAreCharged` | `ChargedOnce` |
| `TillsOfATeamAgree` | `TillsAgree` |
| `StockRoom_proofs`: `StockInvariant` | the inductive invariant |
| `BooksMatch` | `BooksMatchGoods` |
| `CountsAddUp` | `CountAddsUp` |
| `CostStaysBounded` | `CostBounded` |
| `AnotherTillFollows` | `PeerFollows` |
| `FrontDesk_proofs`: `FrontDeskInvariant` | the inductive invariant of drawer and quotes over one outbox and one process |
| `CashIsOnItsReport` | `CashOnItsReport` |
| `TillsAgreeOnSessions` | `SessionsAgree` |
| `QuoteParkedOnce` | `ParkedOnce` |
| `TillsAgreeOnQuotes` | `QuotesAgree` |
| `BackOffice_proofs`: `AccountsInvariant` | the inductive invariant of the customer book and its money |
| `BooksAreTheLedger` | `BooksFollowLedger` |
| `TillsAgreeOnLimits` | `LimitsAgree` |
| `TillsOweAlike` | `TillsOweTheSame` |
| `StaffInvariant` | the inductive invariant of people, rights and codes |
| `AnOwnerStays` | `OwnerStays` (an action property) |
| `CodeWorksOnce` | `RecoveryCodeOnce` (an action property) |
| `UpdatesInvariant` | the inductive invariant of updates and undo |
| `UpdatesProtect` | `UpdateIsProtected` |
| `UndoLosesNothing` | `UndoKeepsWork` |
| `RestoreIsWhole` | `PutBackWhole` (an action property) |
| `Office_proofs`: `PinResetInvariant`, `ReceiptsInvariant` | the inductive invariants of PIN resets and receipts |
| `GrantOnce` | `GrantAppliedOnce` (an action property) |
| `ReceiptSentOnce` | `ReceiptOnce` (an action property) |
| `RestoreIsLastSent` | `RestoresLastSent` |

**PrintQueue.** What the run checks is not inductive: a step of the worker
changes the row it holds, so the invariant must know which row that is. `IInv`
adds `Held` (the row in hand is "printing"), `Written` (after a write there is
paper) and `CopiesBounded`, which counts paper that came out and that no counter
explains yet.

**Till.** `IInv == RowsInv /\ PaidOnce /\ OneLegPerReceipt /\ TabDebt /\ StockExact /\
FundsOK`. `RowsInv` adds what ties the tables together and what a handler may still assume
of what it read before:

- `RowsOK`: a payment row belongs to an order that exists, and the free rows come
  last;
- `HandlersOK`: what a slot remembers (that its leg is one of its order, that its
  order is a tab if it has a settlement to post) stays true whatever others do.
  This is the part that makes the interleavings provable, and it holds because a
  row never changes its order, its kind or its amount;
- `SettledOK`: a completed leg is of an order that is not voided, and unless it is
  store credit, which is taken at checkout, of a paid one.

The proof that a step keeps the rows has one step per action. The proofs of the
other conjuncts do not repeat that: `StepKinds` shows that every step
either leaves the accounts alone, opens an order, lands a payment, posts a
settlement or voids, and each conjunct is then proved for these five kinds.

`NotOvercharged` needs two facts more, over the same steps. `Priced`: an order has at
most one leg of store credit, and a leg in cash, by hand or on account asks for what
that leaves of the total. `PaidByOne`: in a paid order that is not flagged at most one
completed leg is not store credit, because completePayment flags the second one. What
it collected is then the amount of at most two legs, and no sum over a set of unknown
size has to be unfolded (`CollectedOfTwo`).

**OfflineQueue.** The step that could break the promise is the removal of a sale
from a store: the flush must then hold its order or have shown its refusal. The
answer "booked" passes from the till's handler through the request to the flush,
so the invariant says of each of the three that whatever it holds as booked has
its order (`CallsOK`, `FlushesOK`); orders are only ever added. With it, every
step maps to a step of `SaleNext` or to a stutter: `EnqueueRefines` keeps a sale,
`RemoveRefines` lets go of it, `CheckoutRefines` orders it, all others leave the
abstract variables alone.

**TeamSync.** `IInv` has five parts, and the proof has one lemma per action and part.

- `TypeInv`: among the types, that what a till holds of other tills' events (marks,
  dead letters, the batch of the cycle, that of the button) is in the log.
- `LogOK`: an entry of the log is a row of the outbox it came from. `LogIsTrue` alone is
  not inductive: a second push of a row must find it logged.
- `BatchesOK` and `OnceOK`, per till. `OnceEach` bounds the runs of an event, and says
  nothing of what may still run it. `OnceOK` counts both: an event that is not marked ran
  at most once per death; one that is marked and has a dead letter takes a cursor that
  was set back; one that is marked and has none may still be in the batch of the cycle
  and in that of the button (`Copies`), and runs and copies together stay below the
  bound. `BatchesOK` says what makes copies few: a batch is strictly ascending, so it
  has an event once; a batch of retries is stock deltas that are dead letters or
  applied; and unless the cursor was set back, dead letters are behind it and the batch
  of the cycle is ahead of it.
- `OrdersOK`: an order anywhere is an order at home; an order event in an outbox is of an
  order that is there, and says VOIDED only if it is; an order event that ran left its
  order behind. `OrdersArrive` then follows the order at home: not missing from the
  outbox, pushed, in the log, run.
- `TabOK`, per tab, is the same for money. The home till books the charge once. On any
  other till, what is booked, the rows of the outbox that announce the charge and are
  not marked there (`Due`), and the events still to be emitted (`Owed`: one before the
  checkout, one while a handler or the backfill has the row) are together at most
  `1 + torn + twice`. Each step moves one unit from the right to the left of that sum,
  or pays for it with a death (`torn`) or a doubled emit (`twice`).

Each step moves one till, and another one keeps what it holds (`Still`), whatever is
appended to the log; so the per-till parts are proved for the till that moves
(`...Moves`) and carried over for the rest (`StillStays`). The log, the orders and the
tabs are then proved from what the step emits or runs (`...Agrees`). The proof found
the bound of `OnceEach` wrong: it had no term for a cursor that was set back, which two
faults cannot show; with three, TLC finds the behaviour of section 6.

`TillsAgree` has an inductive invariant of its own, `Agreement`, on top of `IInv`:

- `GapsOK`, per till: a till has run or put aside every event before the last one it
  has heard of, so an event of an order is not overtaken by a void that follows it in
  the log.
- `NewsOK`: what the rows of the outboxes, and the events that ran, say of an order is
  so at home; a delta and the product are announced once, by one till.
- `PapersOK`, of a till that is not disturbed: each change of an order has its event in
  an outbox, and a void that ran after an event of the order has voided it.
- `StockOK`, of such a till: what is on the shelf and gone is what was on hand and came
  back. Each order is one unit, so a step adds one element to a set or takes one from
  it, and no sum over the log has to be unfolded.

A till that is disturbed remains so (`UndisturbedBefore`), so the last two parts say
something only of behaviours in which everything so far went well. When all is quiet
every event ran on every till (`QuietRan`). With that, `SameEverywhere` gives the orders,
`VoidsReach` the voids, by the first event of the order in the log, and `ShelvesAgree` the
shelves.

**StockRoom.** `BooksMatchGoods` is about the shelf and the goods; what breaks it is a
figure that was right when it was read and is written later. So the invariant says of
every place where a figure is kept (a take, a count, a line that is being saved, a form)
that it is the amount of goods if it still counts as exact. `CostBounded` needs that the
price in an open form is bounded as well, and that a rounded average of two numbers lies
between them, which is proved from multiplication (`Quotient`). `CountAddsUp` needs no
induction over sums: what a session reports is the sum over the function that its
sheet shows, at the moment it is closed.

`PeerFollows` has an invariant of its own (`PeerOK`, checked by TLC on the instance
first). The units of the deltas that a handler is about to tell of are counted one by one
as a set (`Waiting`), those to be added and those to be taken off: an event comes and goes
as a block of units, and no sum is unfolded. Unless an absolute figure of the product is
under way, the other till lacks exactly what waits (`StockFollows`); unless one is, or the
details are, it has the cost. Only an absolute figure that is still that of the row when
it is sent, and meets no delta, takes a product out of `crossed`; so nothing has to be
known of what was read and not sent yet but that it is there (the step "send" of `OutOK`).
An event that comes too late changes nothing, and leaves the product out of `crossed` only
if the other till has what the row says.

**Drawer and quotes.** A copy of a session, on a till or on its way to one, has its
origin, and if it is closed, the till that closed it closed it so (`CopiesOK`). A change
of a session is on every till or on its way, or a request is about to tell of it, or the
event is lost and the session in `unsent` (`SessionsTravel`); when everything has arrived,
two copies that are both closed are the same close unless two tills closed it. For
`CashOnItsReport`, a payment knows the sessions it was made during (`DuringOK`); what a
close has read of the payments taken here, and what it wrote, are of those (`CountingOK`,
`CountedOK`), and whatever it has read or written is booked on the owner and not older
than the opening (`BackedOK`). Rows of one quote with one stamp are one row (`StampsOK`),
and the newest row is everywhere, on its way or about to be told (`QuotesTravel`), so
tills that have nothing more to hear agree. A conversion is paid for by a row that was not
converted before it (`ParkedOK`), which is what `ParkedOnce` counts.

The attempt to prove `SessionsAgree` failed on a third till: it may hear two closes of one
session and keep the later, while its neighbour has the earlier. TLC finds the behaviour
with three tills. The property had excepted only the two tills that had closed the session
themselves; it now excepts a session that both tills named on the copies have closed.

**Accounts.** An account balances once the amount of an event whose ledger row is written
and whose money is not moved yet is added (`Balanced`, `Due`): the slot of a till that
applies knows the event and the row. What the forms of a phone number said travels like a
quote, with a difference: details are told under a new stamp, and a row that is about to
be told of does not count (`Shown`, `Untold`). Between `EmitCustomerRead` and
`EmitCustomer` a request still tells of its row (`TellSteps`), of what it holds or of what
is there: if they differ when it is sent, the number is `misjudged`. Details with a stamp
other than the first have it from one moment of one till (`DetailsOK`), and every till has
some as new, on its only row of the number, or they are on their way (`DetailsTravel`).

`TillsOweTheSame` has an invariant that is added to it (`OweOK`, checked by TLC on the
instance first): under a phone number that was not given up, what a till's accounts hold,
what the events on their way to it are to bring and what requests on other tills have yet
to tell come to the same on every till (`InAll`). An event whose money is moved and that
is not yet marked counts as arrived, and the row it goes to has its number (`RowOfEvent`).
What a function comes to is the number of units above zero less that below (`Net`), which
a step changes by what it writes at one place, and which taking the first event of a queue
changes by that event. A fold equals any measure that grows by each element (`SumIs`):
were it to differ on some sets, it would differ on a smallest one, so no induction theorem
is needed.

Here the attempt found that `LimitsAgree` did not hold as it stood: a till whose clock lags
behind details it has taken over sends its own under an earlier stamp, the others keep what
they had, and the limits differ for good. `misjudged` now has that case as well, and the
run has clocks that differ. Section 6 lists it.

**Staff.** What a guard found, that the user is not the last owner or is not to be taken
from, that a code is unused, stays true until the request writes unless another one writes
first, which marks it `crossed` (`StaffRequestsOK`). With that, a write of an uncrossed
request leaves an owner, and a code that resets a password was unused when it was burnt.

**Updates.** `OwedOK` says of a task that copies: what it owed when it was asked for is
in the archive it fills or in a shop it still has to copy; a shop's contents only grow
while it is up. `RestoreOK` says which files a restore has put back, and `UndoOK` that a
file a restore may overwrite holds nothing that is not in an archive or marked as exposed,
from the copy the undo makes to the last start that puts files back. A file that is put
back holds the copy (`IsBack`), with the old log `beside` it only if its removal failed.

**PIN reset, receipts, backups.** A PIN belongs to one request (`OwnPin`); one pad at a
time holds it, and while it does its row is claimed and the claim is fresh (`PadOK`); one
that
was applied is remembered, or a pad is still at it (`AfterSteps`), or the note was lost
and the grant is `cut` (`Recalled`). The jobs of a batch are
pending and each there once (`WorkerOK`); a picture the till knows to be accepted is
marked or about to be (`SentOK`); a Retry writes over what it saw. For
`RestoresLastSent` the types suffice, and that pruning removes the oldest first.

The proofs changed the models in a few places that could not be reasoned about, each
with the same meaning and checked again by TLC: the list of a set in ascending order is
a function of the set (`Ascending`) and the batch of the receipts one that satisfies
`OldestFirst`, in place of a library sort, single
figures are written over a function by an operator (`Over`, `OffFrom`), an emit
names the events it keeps (`Send`), the second half of applyLedger is an operator on
the row (`MoveMoney`), and what the accounts under a number hold is written as the sum of
a function (`Total`); the events of a delivery are a function of the list of its lines
(`Receipt`), not a fold.

The assumptions used are the ones stated in the modules: finite sets of orders and
tills, amounts that are natural numbers, a credit part smaller than the total, a batch of
at least one, a home for every order, clocks as said in section 2, seeded users whose role
exists. TLC evaluates each of them on every run of its module. The inductive invariants
were checked by TLC on the instances of section 3 before they were proved, that of the
customer book also with three tills, and `Agreement` with three tills in simulation.

### Only model-checked

- `OrderNumbers`: TLC finds its one property violated (section 3), so there is nothing
  to prove of it.
- `MoneyHeals`, `PrintsSettle`, `TakenIsSettled`, `GrantArrives`, `SnapshotArrives`,
  `JobsSettle`, and `LogIsRead`: liveness under fairness. `DoublePaymentFlagged` is
  violated (section 3).

## 5. Not modelled

Each component without a module is listed in `PROJECT.json` with the reason.
Money, discounts and tax are data to every module here. Cloud procedures
(`supabase/`, `db/*.sql`) appear as what the tills rely on, one step each. In the
components that have a module, these are left out: categories, suppliers, void
reasons and designs (single rows nobody reads a stale copy of); images that
travel (newest wins, as customers and quotes do); the pruning of old outbox rows
and leaving a team; the comparison, signature and download of a release; the
settings caches and the pool of shop services; a reload of the browser that takes
a slow till for none and switches to the demo backend; the relay's device
registration.

## 6. Disagreements met while reading

The models contain the behaviour as the code has it, or exclude it as said there.
The three of section 3 are runs; these are not.

Orders and payments:

- `orders.go:1059`: the UPDATE that supersedes a leg has no
  `AND status = 'PENDING'`; a leg read as pending and completed before the
  transaction becomes FAILED with its receipt on it, on a paid order. The comment
  at 1050 says "Supersede existing pending payments".
- `orders.go:1276`: ManualConfirm takes the last pending leg whatever its method,
  so confirming a tab with a receipt code completes its account leg without the
  ledger payment, and the order is paid and owed for ever. `README.md:39` says
  tabs settle in cash or against a receipt.
- `orders.go:1349`: Void adds back every item of a paid order, also one that
  completePayment could not take from the shelf ("PAID orders restore stock", 1312).
- `payments_buni_cloud.go:245-253`: an event is claimed from the cloud and then
  applied; if applying it fails, the loop goes on and the event is not offered again.
  The money is then in the cloud's books alone (`DropEvent`).
- `orders.go:1051` says a void can no longer strand a new pending leg on a dead
  order; RetrySTK reads the order before its transaction, so it can.
- `orders.go:1067` asks for the whole total of an order that is partly paid.
- `payments_buni_cloud.go:116` says a declined prompt lifts the busy guard early;
  the query at line 85 does not look at the leg's status.
- `orders.go:895-908`: the heal of a document number looks at `orders` alone, also
  for purchase orders, takes and counts.

Printing: `tick` claims the oldest queued row but prints the oldest "printing" one,
and `printJob` ignores the errors of its UPDATEs (`worker.go:141`, `153`, `209`,
`219`), so after one database error a row stays "printing" until the next boot;
`worker.go:66` and `:128` promise a job that retries and parks.

Team sync:

- `teamsync.go:384` says that a cursor that was set back "replays safely instead of
  double-applying stock and ledger". An event that has a dead letter at that moment is
  pulled again, applied and marked, and its dead letter stays; the retry
  (`teamsync.go:477`) asks for no mark and applies it a second time. `OnceEach` counts
  that run (`rewound`).
- `outbox_backfill.go:111` emits the reversal rows of a void again, which
  `teamsync_emit.go:151` says are deliberately not emitted; they are booked twice.
- `outbox_backfill.go:78` looks for `'voided'`, the code writes `'VOIDED'`.
- Completions, customers and quotes are not backfilled, while `teamsync.go:69`
  leaves every lost emit to the backfill.
- An order completed or voided unpaid on a till that did not take it moves that
  till's shelf a second time, or never moves it back (`teamsync_apply.go:591`).
- `teamsync_apply.go:325` clamps at zero, so a shelf depends on the order of events
  when tills oversell.
- `teamsync.go:326` treats HTTP status 409 as success for the whole batch.
- `applyLedger` is three statements and a mark, `applyQuote` a comparison and a
  write; a death or another writer falls between them.

Stock and catalog:

- `stocktake.go:81`: a line saved while its session completes is counted and never
  applied. Takes snapshot lines nobody counted (`suppliers.go:572`). The form and
  the CSV import write back the stock they were opened with.
- `suppliers.go:369-376` emits a delivery of products whose stock is not tracked.
- An absolute figure and a difference it already contains are both applied by
  another till, and a figure read before a sale may be queued after its difference
  (`teamsync_emit.go:90-117`, EmitProduct reads and inserts in two statements); one that
  is stamped before another's is queued and inserted after it is dropped
  (`teamsync_apply.go:277`), though it may be the newer.
- `catalog.go:452-459` reads a category's slug after deleting it; UpdateCategory
  emits the new slug only; ListLowStock scans thirteen of twelve columns.

Accounts: `stocktake.go:364` credits a redeemed gift card twice, on the account and again
through the ledger (`doubled` in `Accounts`); two forms create two customers of one phone
number; a changed number splits an account; `applyCustomer` compares stamps of different
moments, and details sent by a till whose clock lags behind the stamp of those it has
taken over are dropped everywhere else (`teamsync_apply.go:360`); of two updates that
overlap, the older limit may be sent under the newer stamp (`teamsync_emit.go:131-144`);
voiding the sale of a card that was redeemed keeps its credit.

Shifts: two requests open two sessions; cash that completes while a session closes
is on no report or on two ("X never disagrees with the Z"); both tills may close
one session, and then differ; a session of an unknown user is booked on the first. A
close adds up the cash of every order booked on the user since the opening
(`shifts.go:86-90`), those that came in from another till included
(`teamsync_apply.go:544`, `571-576`), so a drawer is expected to hold what a colleague
took elsewhere; `docs/GUIDE-CASHIER.md:32` says each closes their own drawer, and
`teamsync_quote.go:145` that the attribution is informative.

Quotes: status buttons and forms write what an earlier read allowed, so a converted
quote opens again; a later edit elsewhere takes a conversion back; a till whose
clock lags never gets its edits accepted; the discount is lost on conversion.

People: two overlapping edits, or a cloud sign-in into a stripped Admin role, leave
no owner, which the comment on `lastOwnerGuard` excludes; `TeamJoin` may give a
role that is being deleted; a portal password may replace a later one. Recovery
codes: overlapping requests use a replaced code; IssueRecoveryCode ignores the
error of its DELETE; a password change mints a code nobody sees; a deactivated user
gets a success; SetPIN clears the must-rotate mark that CreateUser's comment
describes.

PIN reset: `rememberGrantApplied` (`pinreset.go:350-361`) rewrites a list it read earlier,
ignores the error of Set and keeps the newest twenty, so a grant may be forgotten and
applied again without a death; RedeemPinReset burns the code before the check its comment
puts first (`pinreset.go:425`); a new request keeps an old pushed code; a request that is
approved again after it was applied is never collected; only the newest grant is polled; a
pending request older than a week blocks the next (`cloud_schema.sql:690`, `716`).

Delivery: `whatsapp.go:432` ignores the error of its mark, and a Retry that crosses
another sends a sent job again (494-513). `offsite/worker.go:64` says jobs never
drop, and the queue is in memory; a pruned file is retried for ever; a late retry
gets the newest name (`README.md:80`), and two uploads of one second overwrite each
other.

Offline queue:

- A saved sale is flushed only when the connection has gone and come back
  (`CheckoutRail.tsx:391`), so `TakenIsSettled` speaks of sales a flush has taken.
- A sale the till can never take (a product that is gone or deleted, a discount
  without permission, a split that does not add up: `orders.go:201-205`, `258`, `337`)
  comes back as an error and not as a refusal, and is parked in the browser and tried
  again for ever (`heartbeat.ts:13-14`, `106-116`).
- A till that cannot read an order answers "rejected" (`queries.go:227`, `332`,
  comment at 317), and the sale is dropped with a message; an order may exist.
- A refused cash sale is shown as "Saved offline" when the browser says it is
  offline (`CheckoutRail.tsx:387`).
- An aborted transaction hangs a flush; a full localStorage is swallowed; a failing
  IndexedDB hides its sales until a reload; a checkout tried again by the cashier
  has a new client id; `isBusinessRejection` looks for words in the message.

Updates and undo:

- `update_rollback.go:331` sorts archives by name, and the name starts with the
  version: 1.10.0 sorts before 1.9.0, so an undo may pick an older archive.
- A failed archive leaves a directory a later undo may pick, against the comment at
  121; its base names then lead a shop's file to the wrong place.
- An undo goes on when its own archive failed, and sales made after that archive
  are in no file ("undo is lossless in both directions", 14).
- An indexed archive brings back neither shops.json nor secret.key; the binary is
  swapped before the manifest is written; a half-written manifest is thrown away; a
  restore that failed in part boots mixed files, and its repetition at the next
  boot overwrites what was sold meanwhile; only the main database is closed on quit.
- `update_rollback.go:282-283` ignores the error of removing a log and copies the file
  beside it, and the error of removing the manifest at the end (about 300) is ignored
  too: the restore counts as done with an old log beside the file, or is done again.
- The timer installs an undone update again, and may overlap the button: two
  archives of one second share a directory.
- `services.go:204` compares stamps of two formats, so any sale of the same day
  counts as one of the last fifteen minutes.
- `docs/OPERATIONS.md:64` names a file that does not exist.

## 7. The plan

Done: all modules of section 2, with proofs of every safety property of the passing
runs.

What could still come: money and tax as functions checked against a rational definition;
the pool of shops with its loops
and caches; that `Till` implements an abstract sale, rung up, settled once, voided once.
