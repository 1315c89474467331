# Verification of the sala-tpv point of sale

TLA+ models of the transactional core of *Netxodo* (Django applications under
`src/apps`, browser code under `src/static/js`), the TLC configurations that check
them on small instances, and proofs checked by TLAPS for every instance.
Everything is translated from the source; where a comment or a document of the
repository says something else, the models follow the code.

## 1. The system and its parts

One relational database (PostgreSQL), many stateless workers, browsers that talk
to them. Every service function runs in `transaction.atomic()` and locks the rows
it decides on with `select_for_update()`; what happens *between* transactions is
not protected by anything but versions, idempotency keys and re-reads.

| part | state | operations | what makes it correct |
|---|---|---|---|
| Payments, customer debt (`payments`, `customers`) | `Payment` rows, `Sale.pending_amount`, `payment_status`, account entries and balance | pay, refund, charge on account, replay of a key | no sale collects more than it sold or pays back more than it got; debt never above the claim; no refund is stranded |
| Checkout (`sales/checkout.py`, `SaleCheckoutView`) | none of its own: pages, requests under way | T1 complete, T2 pay (once per part), T3 issue, recovery in another session | a retry or a stale page charges nothing unreviewed; settled means documented; one document |
| Optimistic cart (`sales/cart.py`, `sales_cart.js`) | `cart_version`, receipts; the queue and its flight in `sessionStorage` | add, change, delete, batch, replay, conflict, retry | no operation lost, doubled or silently applied over a foreign change |
| Returns (`sales/services.py`, `billing/services.py`) | `SaleReturn` rows and lines, stock put back | draft, price, complete, cancel; split of the fiscal amounts | never more back than sold; rounding bounded; the parts of a line add up to it |
| Inventory (`inventory`) | stock items, movements, adjustments | in, out, adjust | the movements explain the stock; a count applies once, through its confirmation |
| Purchases (`purchases`) | orders, lines, receipts | place, receive, cancel | never received more than ordered; a repeated receipt has one effect and a true answer |
| Billing (`billing`), fiscal reports (`reports`) | series, documents, relations | issue F1/F2, replace by F3, rectify by R1/R5 | correlative numbers without gaps; one initial document; each return rectified once; each figure counted once |
| Cash register, stores (`cash_register`, `stores`) | stores, registers, sessions, movements, counts | open, move, review, close; activate, edit, delete | an open session can be worked with and closed; its movements explain its cash; its closing is its last count |
| Row locks (every service) | the rows each transaction holds | a service, its locks in order, its commit | requests wait in a circle only through the rows that everything refers to |
| Catalog, users, configuration, audit, pages | reference data | single-row writes, reads | no behaviour over time (section 6) |

How they interact: the cart page sends operations to `sales/cart.py`, which bumps
`Sale.cart_version`; the checkout page carries that version and its own keys and
runs `sales/checkout.py`, which calls `complete_sale` (stock out, session check),
`register_sale_payment` (cash movement of the session, debt of the customer) and
`issue_sale_document` (number of a series), each in its own transaction. Returns put
stock back, lower the claim and the debt, and are refunded and rectified later from
other pages. Sessions are opened and closed from yet other pages meanwhile, and
receipts of purchase orders fill the stock that sales empty.

What is hard: requests interleave between the transactions of a checkout; requests
and answers are lost and repeated; pages show old state; a session closes under a
sale; the order of payment, charge, return, refund and replay is free; browsers keep
unsent operations across reloads. `PROJECT.json` lists each hazard at its line
together with the property that covers it, or the reason why none does.

## 2. Modules

| component | model | instance for TLC | proofs |
|---|---|---|---|
| money | `Settlement` (abstract), `Payments` | `MCPayments` | `PaymentsProofs` |
| checkout | `Checkout` (EXTENDS `Payments`) | `MCCheckout` | `CheckoutProofs` (EXTENDS `PaymentsProofs`) |
| cart | `Cart` | `MCCart` | `CartProofs` |
| stock | `Inventory`; `Purchases` (EXTENDS `Inventory`) | `MCInventory` | `PurchasesProofs` |
| returns | `Returns` | `MCReturns`, composed in `MCBackOffice` | `ReturnsProofs` |
| billing | `Billing`; `FiscalReports` (EXTENDS `Billing`) | `MCBilling` | `BillingProofs` |
| stores and cash | `CashRegister` | `MCCashRegister` (one edition), composed in `MCBackOffice` | `CashRegisterProofs` |
| row locks | `Locks` | composed in `MCBackOffice` | `CashRegisterProofs` |
| sums over rows | `Sums` | — | `SumsProofs` |

Operators introduced by "a faulty variant" are plausible mistakes in the operator
that follows them. They are used by no action: substituting one for the operator it
varies is how each property is shown to depend on the code.

### Settlement — what the payment engine promises

Per sale: the value of the goods the customer keeps, the money the shop holds and
what it may still collect. `Sell`, `Collect`, `TakeBack`, `PayBack`. No payments,
rows, returns or accounts: this is the specification that `Payments` implements
(`ImplementsSettlement`), with `keptValue`, `moneyHeld` and `amountDue` as the
refinement mapping.

### Payments — `payments/services.py` and what it calls

| code | model |
|---|---|
| `Sale.status`, `total_amount`, `pending_amount`, `payment_status` | `status`, `total`, `pending`, `payStatus` |
| `SUM` over payments, refunds, returns, account entries | `paid`, `refunded`, `returned`, `debt`, `reduced`: running totals, since rows are only inserted; `TotalsMatchRows` compares them with the rows |
| `Payment` row by idempotency key | `payment[k]` |
| entries linked to a payment / a CHARGE entry | `linked`, `charged` |
| `CustomerAccount.balance`, usable account | `balance`, `accepts` |
| `CashSession.status`, expected cash | `sessState`, `expected` |
| `register_sale_payment` (new key / repeated key) | `NewSalePayment`, `ReplaySalePayment` |
| `register_refund`, `register_sale_on_account` | `RegisterRefund`, `RegisterSaleOnAccount` |
| cart mutation, `complete_sale`, `cancel_sale`, `complete_sale_return` | `EditCart`, `CompleteSale`, `CancelSale`, `CompleteReturn` |
| `open_cash_session`, `close_cash_session` | `OpenSession`, `CloseSession` |

Each operation holds the lock of its `Sale` from its first read to its commit, so it
is one action; the lock of the session makes payment against closing atomic as well.
The value of a return is free within what rounding by line allows: a return takes at
most the value of a line rounded half up, so returned parts together stay below
twice the total and only the return of everything left brings the sum to the total
(`Returns` computes the actual values).

Left out: `cancel_payment` (only PENDING payments, and no code creates one),
`register_refund` and `create_adjustment` of the customer service (no caller in the
application), a replayed refund (it changes nothing), audit rows.

### Checkout — `sales/checkout.py` and `SaleCheckoutView`

EXTENDS Payments: every money step of a request *is* an action of Payments. A page
(`formSale`, `page`, `shown`) carries the cart version, total and pending amount it
showed and keys of its own; keys are pairs of page and part. A request (`pc`,
`reqForm`, `seen`, `intents`, `due`, `billingOnly`, `target`) goes through

    begin (T1) -> pay (T2) -> reread -> pay ... -> decide -> issue (T3) -> respond
    recover -> recovered -> begin | respond
    begin | issue -> refused

where `reread` and `decide` are the reads that the code makes outside any lock.
`Lose` ends a request at any point (a worker dies, an answer never arrives); the
browser keeps the page and `Submission` sends it again with the same keys, possibly
while the first request still runs. `ChangeCart`, `ChangeSession`, `SellDirectly`,
`IssueDirectly` and `OtherMoney` are the other pages. `lacking` is what a sale lacks to
be documented, and `ChangeFiscalData` the pages that give or take it: an active series,
which T1 looks for (`Preflight`) and T3 again, and the issuer's profile, the customer's
identity and the fiscal treatment, which only T3 checks (`Documentable`). A T3 that
refuses (`IssueFails`) leaves the sale paid and undocumented and the request with an
error (`refused`), as `test_billing_failure_renders_recovery_without_second_charge_cta`
and `test_fiscal_validation_remains_authoritative` have it; the page then shows the sale
again, and a submission with `billingOnly` asks for the document alone. The stock of a sale
is data the checkout only passes on: a refusal for its sake ends a request exactly as the
refusals that are modelled do.

### Cart — `sales/cart.py` and `sales_cart.js`

The server's part (`version`, `lines`, `open`, `receipt`) and one browser tab.

| code | model |
|---|---|
| `Sale.cart_version`, `SaleLine` rows, `CartOperation` rows | `version`, `lines`, `receipt` |
| `CartQueue.ops`, `flight` and the `map:` entries of `sessionStorage` | `ops`, `flight`, `mapped`: what a reload keeps |
| `queue.cart`, `busy`, `error`, `conflict`, `rejected`, `protocolReady` | `cart`, `pc`, `error`, `conflict`, `rejected`, `ready` |
| `ownRevisions`, `headerPending`, `headerError`, the form under way | `own`, `headerPending`, `headerError`, `header` |
| `enqueue`, `pump`, `refresh`, `retry`, `acceptConflict`, `discard` | `Enqueue`/`Coalesce`, `PumpConflict`, `PumpSend`, `Receive`, `ReceiveRefusal`, `Timeout`, `Refresh`, `Retry`, `AcceptConflict`, `Discard` |
| `mutate`, `mutate_batch` | `Replay`, `Accept`, `RefuseVersion`, `Refuse` |
| `SaleCartSyncView.get`, `update_sale_header` | `ServeRead`, `ServeHeader` |

A handler of the server runs under the lock of the sale row and JavaScript runs to
its next `await`, so each such stretch is one action; everything between two awaits
of the queue - an answer, a timeout, a reload, a read of the page, a header form,
another editor - interleaves. A request stays on `wire` until the server takes it,
which may be after its timeout, after its retry or never. An answer counts only
while the pump waits for it. The pump is urgent (`QueueStep`): whatever lets it go on
calls it, with one exception the code has, the end of `discard` (`parked`).
`foreign`, `applied` and `gone`, and the fields `over` and `saw` of receipts and
requests, record history and guard nothing.

### Inventory — `inventory/services.py`, `inventory/views.py`

| code | model |
|---|---|
| `InventoryItem.is_active`, `current_stock`; `StockMovement` rows | `record`, `stock`, `moves` (a sequence per item) |
| `StockAdjustment.status`, `StockAdjustmentLine` rows | `status`, `line`, `gone` |
| `create_initial_stock`, `increase_stock`, `decrease_stock` | `InitialStock`, `IncreaseStock`, `DecreaseStock` |
| `create_`, `confirm_`, `cancel_stock_adjustment` | `CreateAdjustment`, `ConfirmAdjustment`, `CancelAdjustment` |
| the pages that add, edit, delete a line or count one item | `BeginAdd` ... `BeginQuick`, then `WriteAdd` ... `WriteQuick` or `Fail` |

What changes stock runs under the lock of the item and is one action; confirming
takes the lock of the adjustment, reads its lines once and keeps the lock of each
item to its commit, so it is one action as well. The pages of a draft take no lock:
what they read (`request`) and what they write are two actions, and sales, other
pages, a confirmation or a cancellation come between. An edited row that was deleted
meanwhile is inserted again, because `save()` inserts what its update does not find;
a row that a movement refers to cannot be deleted. Reserved stock is left out (no code
writes it), and so are costs, limits for warnings and audit rows. A sale of several
lines moves several items in one transaction; here each is a step, which allows more.

### Purchases — `purchases/services.py`, `purchases/views.py`, on top of Inventory

| code | model |
|---|---|
| `Purchase.status`, `PurchaseLine` rows | `orderStatus`, `orderLine` |
| `PurchaseReceipt` and its lines, by idempotency key | `receipt[k]`: order, quantities, which of its lines were tracked |
| `StockMovement.purchase_receipt_line` | `arrivals`: the position of the movement of each line in `moves` |
| a submitted receipt page and what it was answered | `attempt` |
| `is_active` of products, supplier and store, stock control | `catalog` |

A service locks its order and is one action; the page that receives goods looks at
the order and its receipts without a lock (`Submit`) and calls the service later
(`AnswerFromReceipt`, `RefuseReceipt`, `Receive`), with the same key when the browser
submits it again. `Receive` is the whole transaction: receipt, lines, one movement
for each tracked line *in the order the items are visited* (any order of the lines of
an item, `SetToSeqs`), quantities of the rows, status. Inventory's steps go on around
it, since `PurchasesNext` contains `InventoryNext`.

### Returns — the second half of `sales/services.py`, and the split of a return in `billing/services.py`

One completed sale; `sold` is the snapshot of each line (quantity, price, discount,
rate), chosen from `SoldAs`. Returns are drafted side by side (`CreateReturn`,
`AddReturnLine`, `UpdateReturnLine`, `DeleteReturnLine`, `SelectQuantity`), priced by line
(`Amount`), and completed in any order (`CompleteReturn`: priced again against what is
left, stock put back, sums and `history` extended) or cancelled. Every service holds the
rows it decides on, so each is one action. Money is in cents and rounds half up, quantities in
steps of `1/Scale`. `Split` is the loop of `_rectification_snapshots`: the base and tax of
each completed return of a line, derived again from the line and from the returns
completed before it (`Remainder`), every time a rectification is issued or repeated.

### Billing — `billing/services.py`; FiscalReports — `reports/selectors.py`

| code | model |
|---|---|
| `BillingSeries` rows | `series` (type, year, active, last number) |
| `BillingDocument` rows by idempotency key; the F3 that comes with an R5 | `doc[k]`, `companion[k]` with the `intent` that is fingerprinted |
| `SaleReturn.original_document` | `anchor` |
| a command between reading its series and locking it | `command[q]` |
| `issue_`, `substitute_`, `rectify_` | `BeginIssue`, `BeginSubstitution`, `BeginRectification`, then `Finish` or `Fail` |
| the series pages, a completed return, the year of `now()` | `SeriesStep`, `CompleteReturn`, `NewYear` |

A command holds its sale from its first read; its series is read before it is locked, so
a command is two actions with other sales, other keys and the series pages between.
`FiscalReports` adds no state: `EffectiveDocuments`, the output and rectified sides of the
tax pages and their counts are derived from the documents as they stand now.

### CashRegister — `cash_register/services.py` and its views, `stores`

| code | model |
|---|---|
| `Store` rows, `is_active`, `is_default` | `stores`, `active`, `default` |
| `CashRegister.store`, `is_active`; `CashSession` rows | `regStore`, `activeRegs`; `sessReg`, `sessState`, `opening` |
| `CashMovement`, `CashCount` rows, expected cash | `moves`, `counts`, `expected` |
| an edition of a store between read and save | `edit[e]`; `overwritten` records whose state one wrote over |
| a session's page: movement, review, first and second page of a closing | `dialog[p]`: `Begin`, `ConfirmClose`, then `FinishMovement`, `FinishReview`, `FinishClose` or `Leave` |

Services of stores and registers lock the business first, so each is one action. The
page of a session and the first checks of its services read without a lock; the rest
holds the session. `PaymentMovement` is the movement of a payment or refund of `Payments`.

### Locks — `select_for_update` in every service

The other modules take a transaction as one action, because it holds what it decides on;
`Locks` looks inside: a request runs one service (`work`), which is the list of its locks in
the order of its statements, and has taken the first `taken` of them.

| code | model |
|---|---|
| `select_for_update(of=("self",))` | the row, in mode `update` |
| `select_for_update().select_related(...)` | the row and the joined rows: `Account`, `Stock`, `ReturnRows`, `Drawer` |
| the foreign keys of inserted rows, checked at commit (`DEFERRABLE INITIALLY DEFERRED`) | the last locks of a service, in mode `share`, in the order of the migrations: the business first |
| the wait for a row another transaction holds; the detection of a deadlock | `Blocks`; `Circle`, `Deadlock` |
| commit, a failed rule | `Commit`, `Refuse` |

`Services` are all of them, with or without a drawer, and with up to `MaxLines` lines in
every order the code can take them. They do wait in circles (section 8); `Rank` is the order
in which they take the rows they mean to lock, `Common` are the rows that nearly every row
refers to, which joins and foreign keys lock by the way, and `Inverted` is a request that
holds one of these and waits for a row that is not after it. Left out are rows that are
locked only under a row of the model (the lines of a locked sale), rows of users, methods
and suppliers, and a second store or business.

### Sums

`Units(f)` turns a function into the set of its units (pairs of an index and a number
below its value) and `UnitSum(f)` is the number of units. It is the `SUM` of a query
stated without recursion, so that the provers can reason about it (section 4).

## 3. What the runs check

| run | instance | question |
|---|---|---|
| `money` | 1 sale of at most 4 cents, 4 keys, 2 returns, card and cash, 1 session | do the sums keep money, debt and claim consistent in every order, and can every refund still be paid? |
| `debt` | 1 sale, 4 keys | is the debt of a charged sale its pending amount? (violated, section 7) |
| `race` | 2 pages, 2 requests, lossy: racing requests, carts, returns and documents, or split payments whose session is closed on the way | do interleaved or repeated requests charge only what was reviewed, document once, and recover a payment elsewhere only after closing? |
| `settled` | 1 page submitted twice, payments, debt, returns and refunds elsewhere, fair | does a request that saw the sale settled leave it documented, or answer with an error, though series and fiscal data change under it? |
| `cart_queue` | 3 operations in batches of 2, 3 requests, 1 foreign change, 1 header form | is nothing lost, repeated, reordered or applied over a change the cashier did not see? |
| `cart_refusal` | 1 operation, 2 requests | is a refused operation one that has no effect? (violated) |
| `inventory_counts` | 2 items, 1 adjustment of 2 lines and a page on it; or 1 order of 2 units, 2 receipt keys, 2 pages; no oversell | does the ledger explain the stock, does each count replace the stock it was made against, does each count and each receipt apply once, is a page told the truth about its receipt? |
| `inventory_lines` | 1 item, 1 adjustment, 1 line, 1 page | are the lines of an adjustment final once it is confirmed? (violated) |
| `billing` | 2 sales, 1 return, 3 keys, 3 series, 2 commands, 2 years | are numbers correlative and documents unique; does a retry find its document; does each figure count once? |
| `billing_retry` | 1 sale, 1 return, 3 keys, 3 series, 1 command | does a rectification sent again always find its document? (violated) |
| `back_office` | a line of 2 or 3 pieces and a line of one piece, 3 returns, prices at the rounding boundary; or 2 stores, 2 registers, 2 sessions, 1 edition, 2 pages; or 2 requests over 2 sales, 2 drawers and 2 products, any services | never more back than sold; rounding bounded; do the fiscal parts add up, whenever they are derived? Can an open session always be worked with; do movements explain its cash; is the last count the closing? Through which rows do services wait in a circle? |
| `store_edit` | 1 store, 1 register, 1 session, 1 edition | is the store of an open session active? (violated) |

Bounds. `MaxTotal` = 4 is the least that separates a payment, a second payment, a
reduced debt and an over-rounded partial return of one sale; with 4 keys two payments
and two refunds coexist, or a payment, its replay and a charge. In the checkout two
cents suffice for a split in two parts, two pages for keys that differ, and two
requests for a retry that overlaps its original. In the cart, two requests make a
retry that races its original, a third the next operation after it; three operations
make a batch followed by one that was queued meanwhile; one foreign change is enough
to make any baseline old, since only equality of versions is ever tested. In the
stock, at most two of each item make two sales of the last unit; one adjustment
with two lines is a confirmation of several items, one of which may be stale; two units on
two lines of an order make partial, complete and competing receipts. Three returns of a
line are the first, a middle and the last part; prices of 1 and 102 cents with the rate 21
and a discount put the parts on both sides of half a cent. Two commands and three series make
a race for a number, a full series and a wrong one; a second year and one return
cover substitution before and after the rectification. Two sessions of a register are one
and its successor.

Where everything at once would not finish, a `Profile` in the MC module keeps several
lives of the system in one run, each named and described there (racing or recovering,
counting or receiving, empty drawers or one drawer, a session or none, and for billing
one year or two). What a profile separates is what two properties need
separately; no profile separates steps that one property relates. `MCBackOffice` puts the
returns, the cash register and the locks beside each other in one run: they share no state,
and `part` says which of them moves; they also share model values (`Requests` = `Dialogs`,
`Sales` = `Stores`, `Drawers` = `Sessions`), so that one symmetry serves them all. Two pages
of one drawer are open at once only while one session was opened (`OneDrawer`): they meet
over the cash of one session, and no property relates the cash of two. Two requests make
every circle of two; what `CirclesInverted` adds (section 4) is any number. Symmetry is used only
where no liveness property is checked. Deadlock is not checked: a shop where every
sale is settled may stop, and bounds stop the rest.

What each property says is in the comment above it. Worth pointing out:
`NoStrandedMoney` (whenever the shop holds more than the kept goods are worth, some
completed return can be refunded), `RefundedMeansMoneyBack` (the comparison with
`min(paid, returned - reduced)` amounts to "everything returned, every cent back"),
`ChargedAsReviewed` and `DocumentedMeansSettled` (unlocked reads between transactions
are never overtaken in a way that matters), `NoSilentRebase` (the queue never applies an
operation over a change its cashier was not shown, whatever versions its own forms
moved), `AnswersTellReceipts` (what a retry is answered), `CountsReplaceWhatTheySaw` (nothing
that moved between a count and its confirmation is lost in the difference),
`RetryFindsItsDocument` (exactly when everything fingerprinted is derived again the same:
always, unless it rectified an F2 that was replaced afterwards, and then never - which
`billing_retry` holds against what `billing/README.md` says), `StableAllocation` and
`WholeRectified` (the cents of each rectification are the same whenever they are derived),
`CirclesAreInversions` (every circle goes through a row that was locked by the way; the
return, the sale, the session, the stock and the account are taken in one order by all the
services, as `sales/services.py:1050` asks, and the variant is `update_sale_cash_session`
with its two locks swapped), and `SettledIsDocumented` (liveness).

Fairness. `FairCheckoutSpec` asks weak fairness of `RequestStep(q)`: a worker runs
the request it has begun until it answers. It asks nothing of the cashier, of other
pages or of lost requests; the run that uses it sets `Lossy` to FALSE, because for a
request that dies the property is not promised by the code (the next submission of
the page resumes it).

## 4. What is proved

Theorems hold for any sets of rows, pages, requests, keys and for any amounts and
settings that satisfy the named assumptions of the modules: an absent row is not a
row, bounds are natural numbers, method sets are nested, the key of a page is a key;
`Returns` and `Purchases` also assume that one sale, or all orders, have finitely many
lines. Every run evaluates the assumptions of its modules.

The general pattern: the properties are not inductive; the invariant adds what the
code relies on without saying so, and it is the same in every component: *what a
request, page or command read before it took its lock still holds when it writes, or is
checked again*. One lemma per operation shows that the operation keeps the invariant,
and the theorems are read off it.

* `PaymentsProofs`. `MoneyInvariant`: types, and per sale the relations between the sums
  that none of the properties states alone (the stored pending amount and status are
  those of the sums; debt below pending and zero when not charged; reduced debt within
  what was returned and never paid; a returned sale returned its total; sums over the
  returns of a sale bounded by the sale's). From it `MoneyTyped`, `MoneyBounded`,
  `DebtBounded`, `RefundsBounded`, `RefundedSound`, and with one step more `PendingMonotone`
  and `ClosedFrozen`. `TotalsAreSums`: the running totals are the sums of the rows, and so
  are the balance and the cash of a session (`PaymentSums`, `DebtSum`). `NothingStranded`
  argues with sums over the returns of a sale: if no return can be refunded each has
  given back its share, so the shop holds no more than the goods are worth
  (`RefundableSum`). `PaymentsImplementSettlement`: every step of `MoneyNext` maps to `Sell`,
  `Collect`, `TakeBack`, `PayBack` or a stutter.
* `CheckoutProofs`. `CheckoutInvariant` adds to `MoneyInvariant` what a request at each
  step still knows: the page it came from, an upper bound on what it may take
  (`PageSound`: a page whose version is current shows the total of the cart, and the pending
  amount of a page only decreases), that a request in `decide` or `issue` with nothing due
  sees a sale with nothing pending, and which session the payments of a page's keys were
  made in. Each step is by its definition a step of `MoneyNext` or leaves the money alone,
  which imports the invariant of Payments; then `CheckoutTyped`,
  `CheckoutDocumentedSettled`, `CheckoutReviewed`, `CheckoutOneDocument` and
  `RecoveredAfterClosing`.
* `CartProofs`. `CartInvariant` relates four actors that never see each other's state at
  the same time: the sale, the queue, the requests and answers between them, and the
  header form. Its parts are: the queue is in the order of creation, what was sent in
  front, a batch under way its beginning (`QueueInvariant`); a request is `Dead`, because
  its version is one the sale has left, or it still carries what is queued under its keys
  (`WireInvariant`); what was confirmed is a beginning of the queue with the content and
  basis that are queued (`LogInvariant`); a flag of conflict means that nothing queued has
  taken effect or still can (`Stale`, in `ReplyInvariant`); and what a version is evidence
  of. That last part is the heart of it: `Tells(v, f, ...)` says that who holds version
  `v` after seeing `f` changes of others has seen all of them, *if only header forms of
  this tab moved the sale since `v`*; snapshots, queued operations, requests and receipts
  all tell, every step of the sale preserves it (`StillTells`), and so does following the
  tab's own forms (`AdvancedTells`, `AdvanceBySteps`). A version number alone would not do:
  a later snapshot must not have seen less than an earlier one, which `OrderInvariant`
  keeps although answers arrive in any order. There is one lemma per action for the
  relations (`...Keeps`) and one for the types (`...Typed`). From it `CartTyped`,
  `OncePerOperation`, `NothingIsLost`, `NeverRebasedSilently`, `VersionsTellLines`.
* `PurchasesProofs`, first for `Inventory`. `InventoryInvariant` adds to the types and the
  ledger that a page's line keeps the adjustment it was read with (`RequestKnows`), that
  the movement of a count names an existing line of a confirmed adjustment, and that no
  two movements name the same line. From it `InventoryTyped`, `StockExplained`,
  `NeverOversold`, `CountsReplaced`, `CountsAppliedOnce`. Then for `Purchases`. `AnswerInvariant`: what a page
  was told about its key, and that an order
  with a receipt is partially or wholly received; `ReceivingInvariant`: the received
  quantity of a row is the sum of its receipts and at most what was ordered, and the
  status of the order says how much came; `ArrivalsInvariant`: the movement of a receipt
  stays the movement of its line, whatever order the items are visited in and whatever
  happens to the stock afterwards. `StockWithReceipts` proves the properties of Inventory
  again with receipts among its steps. From them `AnswersTrue`, `PurchasesTyped`,
  `ReceiptsExplainOrders`, `ArrivalsExplained`.
* `ReturnsProofs`. `ReturnsInvariant`: the order of completion names each completed return
  once, rows are typed, and per line the running totals and the rounding error are
  those of the completed rows; `TotalsInvariant`: quantities and restocked pieces are sums
  over the returns. From them `ReturnedWithinSold`, `DriftBounded` (at most half a cent for
  each partial return), `AllocationFixed` (the rows a rectification is derived from never
  change) and `ReturnsTyped`. `SplitInvariant` is about the split, which the code does not
  store but derives again from the rows: while every return of a line has a part, the parts
  and what the rows leave (`Remainder`) add up to the line, what is left of the quantity is
  what was not returned, and with the last of the quantity goes the last of every amount.
  It rests on two facts about one row, that the search never leaves two parts to choose
  from (`PartIsOne`) and that a part takes from no amount more than is left (`PartMeans`),
  and on the recursion over the rows (`RemainderGrows`, `RemainderOfSame`); from it
  `RectifiedToTheCent`.
* `BillingProofs`. `BillingInvariant`: what every issued intent says about the history it
  was derived from (`HistoryInvariant`), that a command under way has the history of its
  sale as it read it, since it holds the lock of the sale (`CommandInvariant`), and that
  the numbers of a series and year are those of its documents (`NumberInvariant`). From it
  `BillingTyped`, `Correlative`, `OneDocumentEach`, `OriginalRectified`,
  `RetryDerivesTheSame` and, over the same history, `ReportsCountOnce`.
* `CashRegisterProofs`. `CashInvariant` has one part per group of variables: stores and
  editions, the links of registers and sessions, drawers, and what a page still knows.
  From it `CashTyped`, `SessionsOperable`, `DefaultUnique`, `MovementsExplain`, `ClosingIsLast`.
  Then for `Locks`. `LocksInvariant`: no two requests hold locks that conflict
  (`LocksExclude`). The tables are numbered (`Rank`: return, sale, session, register, item,
  account, series, business, customer, store, product). `ServicesGuarded`: in the plan of
  every service each row comes after the rows before it, or is one of them already held in a
  mode that suffices, or comes while a common row is held that is not before it in the order;
  a plan ascends (`Between`), or ascends to its first common row (`Headed`), and `RowsJoined`,
  `HeadJoined` and `TailJoined` put the lists of a service together, for lists of lines of any
  length. In a circle each request wants a row that another one holds. If none is `Inverted`,
  that other wants a row after it - it cannot want a row it holds, since nobody else holds a
  conflicting lock on that (`CircleAscends`) -, and there is no last: `CirclesInverted`, for any
  number of requests, sales, drawers and products and any services.
* `SumsProofs`. A sum is the cardinality of a set of units, so that what a proof needs -
  a sum changes as its changed term does (`SumChange`), is zero when all terms are,
  bounds each term, has a witness when positive, is a natural number - follows from
  facts about finite sets, without induction over a recursive definition. That only
  finitely many units exist is not assumed: it is carried by the invariants, since
  initially there is none and a step adds one row. The module also has induction over
  an initial segment of the numbers, stated for a set instead of a predicate
  (`SetInduction`, `InductionUpTo`), and what it gives for functions defined by recursion
  (`RecursionSolved`); the batch, the filter and the version that follows forms in `Cart`
  are such functions, and so is what the rows of a line leave in `Returns`.

Only model-checked: `SettledIsDocumented`, because liveness under fairness is out of reach
of the provers. Every other property that a passing run checks is stated by a theorem.
The five violated properties are not theorems, of course.

## 5. What is still to do

In order of what each would add:

1. *Sales reports* (`reports/selectors.py`, the pages of sales, payments and sessions): do the
   pages of one period agree, and does a past period keep its figures?
2. *Catalog* — taxes and categories are written by pages that read without a lock
   (section 8); properties: every category is listed, a business has a usable tax.
3. *Checkout with Cart* — the dialog that freezes the queue, flushes it and reads the
   checkout page: is what is charged what the tab showed?

## 6. What is not modelled, and why

`PROJECT.json` gives a reason per component. In short: onboarding, the audit log and
navigation have no state that another operation decides on; wording, layout,
permissions of a single request and audit rows are outside the properties; settings
are constants, because the code reads them inside the transaction that uses them.
The database is taken to do what PostgreSQL promises: transactions are atomic, a row lock
is held to the end of its transaction, unique constraints hold. A transaction that the
database aborts (a deadlock, a lost connection) has no effect, and every module allows a
step not to happen.

## 7. Findings

* `debt` — `register_sale_payment` with a key it has seen applies the payment to the
  customer's debt again unless that payment has an account entry
  (`payments/services.py:324-329`). When a sale was partly paid *before* the rest was
  charged on account, the early payment has no entry: repeating its request lowers the
  debt below the pending amount, though the debt was registered as "el pendiente actual"
  (`services.py:561`) and a repeated key "devuelve efecto existente"
  (`docs/performance/tpv-phase3-block-a-audit.md:228`).
* `cart_refusal` — the seller's access is checked before the receipts of a request are
  looked for (`sales/cart.py:116`, `:222`), and a product may be withdrawn while a first
  request is still under way. The retry of an operation whose outcome is unknown can
  therefore be answered 422; the queue takes that as final and offers to discard what has
  been applied or still will be. `docs/performance/tpv-optimistic-cart-report.md:118-122`
  says that a 422 is definitive and that an operation of unknown outcome is not offered for
  discarding. The cart read after the discard shows the truth as of that read.
* `inventory_lines` — `inventory/models.py:512-514` and the services refuse a line of an
  adjustment that is not a draft ("Solo se pueden editar líneas de ajustes en borrador."),
  but they look at the adjustment the page read, without its lock
  (`inventory/services.py:644`, `:719`, `:762`). A page that read a draft adds, changes or
  deletes a line after the adjustment was confirmed or cancelled; the adjustment then
  shows a count that was never applied. Stock and movements are not affected
  (`StockIsLedger`, `CountsApplyOnce`).
* `billing_retry` — `issue_sale_return_rectification` derives from the documents of now
  whether a return needs a companion F3 (`billing/services.py:1402-1417`), and only then
  looks for the document of its key. A rectification issued before an F3 replaced its F2 has
  no companion; sent again afterwards with the same key it is refused for want of the
  companion's series, and with one it conflicts with its own fingerprint, although
  `billing/README.md:55-57` says that "retries return the same result". In every other
  history the retry finds its document (`RetryFindsItsDocument`).
* `store_edit` — deactivating a store is refused while it has an open session
  (`stores/services.py:198-199`; `cash_register/tests/integration/test_concurrency.py:99`
  asserts that an open session implies an active store), but the page that edits a store
  saves every field of the row as it was read when the request began
  (`stores/views.py:246`). An edition that read an inactive store writes it inactive again
  after it was activated and a session opened in it.

## 8. Observations

Not violations of anything the repository states, but found while reading the code for
the models, and worth a decision.

* Billing. The visible number of a document does not separate series and year when a
  series name ends in digits (`billing/models.py:50-53`, `_series_text` in
  `billing/services.py:688`). The moment of issue is taken before the series is locked, so
  numbers and moments may be in different orders.
* Returns. The cents of partial returns are rounded one by one, so a last part may have a
  base or tax that a rectification refuses (`docs/performance/tpv-phase3-block-e-audit.md:65`
  discusses the rounding), and the value left of a sale may be below zero, which makes
  `clean()` refuse the last return. A sale that is returned whole before it was documented
  can never be documented (`sales/checkout.py:422`).
* Stores. Editing a store that was deleted meanwhile inserts it again; a stale edition may
  leave active stores without a default one. The page that reviews a closing shows a
  difference that is older than the one the closing records.
* Catalog. `TaxDeactivateView` and `TaxSetDefaultView` take no lock on the business and
  together can leave no usable default tax; a product whose tax is inactive can be neither
  activated nor deactivated, since its `clean()` refuses the tax.
* Reports. The pages of one report are separate queries without a snapshot; a transaction
  that commits late changes a period already shown. A session that is closed exactly at
  midnight is counted by `cash_summary` and not listed by `cash_sessions_summary`. The tax
  figures of a past period change when one of its F2 is replaced later
  (`EffectiveDocuments`), and the negative companion of a rectification counts on the output
  side.
* Users. The pages that edit a profile or a password save the whole row as read when the
  request began.
* Order of locks. `cash_register/services.py:107` states "Global lock order: Business ->
  Store -> CashRegister -> CashSession.", which the services of stores and registers follow;
  those of sales, payments and stock lock the session first and the business last. So requests
  can wait in a circle, always through a row that was locked by the way
  (`CirclesAreInversions`):
  - a sale of two lines of stock holds the business, joined to its first item, while it waits
    for the second, and a sale of the second waits for the business with that item; the order
    of the items by product does not help;
  - the document of a sale shares the business and then its session
    (`IssueDocument`), the creation of a sale with a drawer likewise; a sale of stock
    completed in that drawer, or a payment of debt in cash, holds the session and waits for the
    business, joined to the item or the account;
  - a movement or a count locks the session, then its register, and at its end a share of the
    business, which a change of the register locks first;
  - a refund holds the store, and an edited or completed return the business, while they wait
    for the sale, whose payment or charge waits for the business and the store;
  - orders and receipts lock their products in the order of their own lines, and a receipt
    holds records of stock when it waits for the business, which an adjustment or a return
    holds while it waits for those.

  `of=("self",)` in `increase_stock`, `decrease_stock`, `_lock_return` and
  `_get_locked_account`, as in the services of sales, would leave the joined rows alone.
  PostgreSQL aborts one transaction of a cycle; the request fails whole and its retry carries
  the same key.
