------------------------------- MODULE Checkout -------------------------------
(***************************************************************************)
(* The checkout of apps/sales/checkout.py and its view (SaleCheckoutView): *)
(* a request that a cashier submits from a page runs three kinds of        *)
(* transaction one after the other, T1 (complete the sale), T2 (one per    *)
(* payment) and T3 (issue the document), each under the lock of the sale   *)
(* row, with reads outside any lock between them.  A transaction, or an    *)
(* unlocked read, is one action.  A request may be lost between any two of *)
(* them, and the cashier submits the same page again, with the same keys,  *)
(* while the first request may still be running.                           *)
(***************************************************************************)
EXTENDS Payments, Sequences, SequencesExt

CONSTANTS
    Forms,                \* checkout pages; a page carries its own keys
    Requests,             \* POST requests in flight
    Direct,               \* the key of a document issued outside the checkout
    Lacks,                \* what a sale may lack to be documented; "series" is
                          \* an active series of its type, store and till, "fiscal"
                          \* the issuer's profile or the customer's identity
    MaxVersion,           \* bound on Sale.cart_version
    RequireSession,       \* POSSettings.require_open_cash_register
    Lossy                 \* requests and responses can be lost

ASSUME CheckoutAssumption ==
    /\ None \notin Forms /\ Direct \notin Forms /\ Direct # None
    /\ Forms \X {0} \subseteq Keys
    /\ Lacks \subseteq {"series", "fiscal"}
    /\ MaxVersion \in Nat
    /\ RequireSession \in BOOLEAN /\ Lossy \in BOOLEAN

VARIABLES
    version, saleSession, \* Sale.cart_version, Sale.cash_session
    doc,                  \* key of the sale's initial billing document
    lacking,              \* what the sale lacks to be documented
    formSale, shown,      \* the sale of a page; the pages with a form to submit
    page,                 \* what page f showed when it was last rendered
    pc, reqForm, seen,    \* a request: next step, its page, what the page showed
    intents, due,         \* payment intents left; sale.pending_amount as last read
    billingOnly, target   \* form.billing_only; session of a payment recovery

checkoutSaleVars == <<version, saleSession, doc, lacking>>
formVars    == <<formSale, shown, page>>
requestVars == <<pc, reqForm, seen, intents, due, billingOnly, target>>
checkoutVars == <<moneyVars, checkoutSaleVars, formVars, requestVars>>

Intent == [key : Keys, method : Methods, amount : Amounts]
Page == [version : Nat, total : Nat, due : Nat, recovery : BOOLEAN]
Steps == {"idle", "begin", "pay", "reread", "decide", "issue", "recover",
          "recovered", "respond", "refused"}

CheckoutTypeOK ==
    /\ TypeOK
    /\ version \in [Sales -> Nat]
    /\ saleSession \in [Sales -> Sessions \cup {None}]
    /\ doc \in [Sales -> Forms \cup {Direct, None}]
    /\ lacking \in [Sales -> SUBSET Lacks]
    /\ formSale \in [Forms -> Sales \cup {None}]
    /\ shown \subseteq {f \in Forms : formSale[f] # None}
    /\ page \in [Forms -> Page]
    /\ pc \in [Requests -> Steps]
    /\ reqForm \in [Requests -> Forms \cup {None}]
    /\ seen \in [Requests -> Page]
    /\ intents \in [Requests -> Seq(Intent)] /\ due \in [Requests -> Nat]
    /\ billingOnly \in [Requests -> BOOLEAN]
    /\ target \in [Requests -> Sessions \cup {None}]

BlankPage == [version |-> 0, total |-> 0, due |-> 0, recovery |-> FALSE]

CheckoutInit ==
    /\ MoneyInit
    /\ version = [s \in Sales |-> 0]
    /\ saleSession = [s \in Sales |-> None]
    /\ doc = [s \in Sales |-> None]
    /\ lacking = [s \in Sales |-> {}]
    /\ formSale = [f \in Forms |-> None] /\ shown = {}
    /\ page = [f \in Forms |-> BlankPage]
    /\ pc = [q \in Requests |-> "idle"]
    /\ reqForm = [q \in Requests |-> None]
    /\ seen = [q \in Requests |-> BlankPage]
    /\ intents = [q \in Requests |-> <<>>] /\ due = [q \in Requests |-> 0]
    /\ billingOnly = [q \in Requests |-> FALSE]
    /\ target = [q \in Requests |-> None]
-------------------------------------------------------------------------------
Balance(s) == PendingOf(total[s], returned[s], paid[s], refunded[s])

(* billing_recovery_ready *)
BillingReady(s) ==
    /\ status[s] = "completed" /\ payStatus[s] = "paid" /\ pending[s] = 0
    /\ paid[s] > 0 /\ Balance(s) = 0

(* pending_payment_recovery *)
PaymentRecovery(s) ==
    /\ status[s] = "completed"
    /\ saleSession[s] # None /\ sessState[saleSession[s]] = "closed"
    /\ Balance(s) > 0

(* checkout_state(...)["complete"] *)
CheckoutComplete(s) ==
    /\ status[s] = "completed" /\ payStatus[s] = "paid" /\ pending[s] = 0
    /\ doc[s] # None

PageOf(s) == [version |-> version[s], total |-> total[s], due |-> pending[s],
              recovery |-> PaymentRecovery(s)]
HasForm(s) == status[s] \in {"open", "completed"} /\ ~CheckoutComplete(s)

ConfirmedKeys(s) ==
    {k \in Keys : payment[k].kind = "sale" /\ payment[k].sale = s}
ConfirmedAmount(s, plan) ==
    FoldSeq(LAMBDA i, acc : acc + IF i.key \in ConfirmedKeys(s)
                                  THEN payment[i.key].amount ELSE 0, 0, plan)
PlannedAmount(plan) == FoldSeq(LAMBDA i, acc : acc + i.amount, 0, plan)

(* _preflight: the intents cover what is pending and what they already paid. *)
PlanAccepted(s, plan) ==
    /\ plan # <<>>
    /\ Len(plan) > 1 => AllowSplit
    /\ \A i, j \in DOMAIN plan : plan[i].method = plan[j].method => i = j
    /\ \A i \in DOMAIN plan : plan[i].amount > 0
    /\ PlannedAmount(plan) = pending[s] + ConfirmedAmount(s, plan)

(* The session the sale must have open before it is completed or paid. *)
SessionNeeded(s, plan) ==
    \/ status[s] = "open" /\ (RequireSession \/ saleSession[s] # None)
    \/ pending[s] > 0 /\ \E i \in DOMAIN plan : plan[i].method \in CashMethods
SessionReady(s) == saleSession[s] # None /\ sessState[saleSession[s]] = "open"

Preflight(s, plan) ==
    /\ status[s] \in {"open", "completed"}
    /\ status[s] = "open" => total[s] > 0
    /\ pending[s] > 0 => PlanAccepted(s, plan)
    /\ "series" \notin lacking[s]
    /\ SessionNeeded(s, plan) => SessionReady(s)

SaleOf(q) == formSale[reqForm[q]]
VersionCurrent(q) == seen[q].version = version[SaleOf(q)]
-------------------------------------------------------------------------------
(* The pages.  GET shows a page with keys of its own. *)
OpenForm(f, s) ==
    /\ formSale[f] = None
    /\ HasForm(s)
    /\ formSale' = [formSale EXCEPT ![f] = s]
    /\ shown' = shown \cup {f}
    /\ page' = [page EXCEPT ![f] = PageOf(s)]
    /\ UNCHANGED <<moneyVars, checkoutSaleVars, requestVars>>

(* The payments of a page: the whole pending amount, or two typed parts. *)
SinglePlan(f, m) ==
    <<[key |-> <<f, 0>>, method |-> m, amount |-> pending[formSale[f]]]>>
SplitPlans(f) ==
    {<<[key |-> <<f, 1>>, method |-> m, amount |-> a],
       [key |-> <<f, 2>>, method |-> n, amount |-> b]>> :
            m \in Methods, n \in Methods, a \in Amounts, b \in Amounts}
Plans(f) == {SinglePlan(f, m) : m \in Methods}
              \cup IF {<<f, 1>>, <<f, 2>>} \subseteq Keys THEN SplitPlans(f)
                                                          ELSE {}

Submit(q, f, step, plan, x) ==
    /\ pc[q] = "idle"
    /\ pc' = [pc EXCEPT ![q] = step]
    /\ reqForm' = [reqForm EXCEPT ![q] = f]
    /\ seen' = [seen EXCEPT ![q] = page[f]]
    /\ intents' = [intents EXCEPT ![q] = plan]
    /\ due' = [due EXCEPT ![q] = 0]
    /\ billingOnly' = [billingOnly EXCEPT ![q] = BillingReady(formSale[f])]
    /\ target' = [target EXCEPT ![q] = x]
    /\ UNCHANGED <<moneyVars, checkoutSaleVars, formVars>>

(* POST of the form.  The view reads the sale without a lock and builds the
   intents from that read; a settled sale has none. *)
SubmitCheckout(q, f, plan) ==
    LET s == formSale[f] IN
    /\ ~PaymentRecovery(s)
    /\ Submit(q, f, "begin",
              IF pending[s] = 0 \/ BillingReady(s) THEN <<>> ELSE plan, None)

(* POST of a recovery page: one part, in a session the cashier chose.  The key
   is the page's own or that of the part of a split it could not pay. *)
SubmitRecovery(q, f, k, m, a, x) ==
    /\ page[f].recovery /\ PaymentRecovery(formSale[f])
    /\ sessState[x] = "open"
    /\ Submit(q, f, "recover", <<[key |-> k, method |-> m, amount |-> a]>>, x)

(* A normal page submitted when a recovery is due comes back as its form. *)
ShowRecovery(f) ==
    /\ ~page[f].recovery
    /\ PaymentRecovery(formSale[f])
    /\ page' = [page EXCEPT ![f] = PageOf(formSale[f])]
    /\ UNCHANGED <<moneyVars, checkoutSaleVars, formSale, shown, requestVars>>

(* Nothing of a request outlives it but the page it answers. *)
Finish(q) ==
    /\ pc' = [pc EXCEPT ![q] = "idle"]
    /\ reqForm' = [reqForm EXCEPT ![q] = None]
    /\ seen' = [seen EXCEPT ![q] = BlankPage]
    /\ intents' = [intents EXCEPT ![q] = <<>>]
    /\ due' = [due EXCEPT ![q] = 0]
    /\ billingOnly' = [billingOnly EXCEPT ![q] = FALSE]
    /\ target' = [target EXCEPT ![q] = None]

(* The answer replaces the page the request came from; the form keeps its keys,
   except that a recovery that paid, and was not refused its document, shows a
   new form. *)
Respond(q) ==
    LET f == reqForm[q] IN
    /\ pc[q] \in {"respond", "refused"}
    /\ Finish(q)
    /\ IF /\ HasForm(formSale[f])
          /\ target[q] = None \/ intents[q] # <<>> \/ pc[q] = "refused"
       THEN page' = [page EXCEPT ![f] = PageOf(formSale[f])] /\ UNCHANGED shown
       ELSE page' = [page EXCEPT ![f] = BlankPage] /\ shown' = shown \ {f}
    /\ UNCHANGED <<moneyVars, checkoutSaleVars, formSale>>

(* The worker dies between two transactions, or its answer never arrives. *)
Lose(q) ==
    /\ Lossy /\ pc[q] # "idle"
    /\ Finish(q)
    /\ UNCHANGED <<moneyVars, checkoutSaleVars, formVars>>
-------------------------------------------------------------------------------
(* The steps of run_checkout. *)
Goto(q, step) ==
    /\ pc' = [pc EXCEPT ![q] = step]
    /\ UNCHANGED <<checkoutSaleVars, formVars, reqForm, seen, intents, due,
                   billingOnly, target>>

(* The payment loop stops when nothing is pending. *)
Advance(q, rest, d) ==
    /\ pc' = [pc EXCEPT ![q] = IF d > 0 /\ rest # <<>> THEN "pay" ELSE "decide"]
    /\ intents' = [intents EXCEPT ![q] = rest]
    /\ due' = [due EXCEPT ![q] = d]
    /\ UNCHANGED <<checkoutSaleVars, formVars, reqForm, seen, billingOnly, target>>

(* T1 goes on to the payments: the page is current and the sale processable. *)
BeginAccepted(q) ==
    LET s == SaleOf(q) IN
    /\ VersionCurrent(q)
    /\ billingOnly[q] => intents[q] = <<>> /\ BillingReady(s)
    /\ ~CheckoutComplete(s)
    /\ Preflight(s, intents[q])

BeginOpen(q) ==
    /\ pc[q] = "begin" /\ BeginAccepted(q)
    /\ status[SaleOf(q)] = "open"
    /\ CompleteSale(SaleOf(q))
    /\ Advance(q, intents[q], pending[SaleOf(q)])

BeginCompleted(q) ==
    /\ pc[q] = "begin" /\ BeginAccepted(q)
    /\ status[SaleOf(q)] = "completed"
    /\ Advance(q, intents[q], pending[SaleOf(q)])
    /\ UNCHANGED moneyVars

(* A request that only wants the document finds the one it issued before. *)
AlreadyIssued(q) ==
    /\ VersionCurrent(q) /\ intents[q] = <<>> /\ BillingReady(SaleOf(q))
    /\ doc[SaleOf(q)] = reqForm[q]

(* A conflict, a validation error, or a checkout that is already complete. *)
BeginEnds(q) ==
    /\ pc[q] = "begin" /\ ~BeginAccepted(q)
    /\ Goto(q, IF billingOnly[q] /\ ~AlreadyIssued(q) THEN "refused" ELSE "respond")
    /\ UNCHANGED moneyVars

PaymentAccepted(s, i, x) ==
    \/ SaleReplay(s, i.key, i.method, x, i.amount)
    \/ SalePayable(s, i.key, i.method, x, i.amount)

(* A faulty variant that pays in whatever session is open. *)
PayInAnySession(q) ==
    LET s == SaleOf(q)
        i == Head(intents[q]) IN
    /\ pc[q] = "pay"
    /\ \E x \in Sessions : RegisterSalePayment(s, i.key, i.method, x, i.amount)
    /\ pc' = [pc EXCEPT ![q] = "reread"]
    /\ intents' = [intents EXCEPT ![q] = Tail(@)]
    /\ UNCHANGED <<checkoutSaleVars, formVars, reqForm, seen, due, billingOnly,
                   target>>

(* T2, with the session the sale was completed in. *)
Pay(q) ==
    LET s == SaleOf(q)
        i == Head(intents[q]) IN
    /\ pc[q] = "pay"
    /\ RegisterSalePayment(s, i.key, i.method, saleSession[s], i.amount)
    /\ pc' = [pc EXCEPT ![q] = "reread"]
    /\ intents' = [intents EXCEPT ![q] = Tail(@)]
    /\ UNCHANGED <<checkoutSaleVars, formVars, reqForm, seen, due, billingOnly,
                   target>>

PayFails(q) ==
    /\ pc[q] = "pay"
    /\ ~PaymentAccepted(SaleOf(q), Head(intents[q]), saleSession[SaleOf(q)])
    /\ Goto(q, "respond")
    /\ UNCHANGED moneyVars

(* sale.refresh_from_db() after a payment, outside any lock. *)
Reread(q) ==
    /\ pc[q] = "reread"
    /\ Advance(q, intents[q], pending[SaleOf(q)])
    /\ UNCHANGED moneyVars

(* A faulty variant that leaves the document to the next request. *)
DecideLater(q) ==
    /\ pc[q] = "decide"
    /\ Goto(q, IF due[q] = 0 /\ billingOnly[q] THEN "issue" ELSE "respond")
    /\ UNCHANGED moneyVars

(* The document is looked up without a lock as well. *)
Decide(q) ==
    /\ pc[q] = "decide"
    /\ Goto(q, IF due[q] = 0 /\ (billingOnly[q] \/ doc[SaleOf(q)] = None)
               THEN "issue" ELSE "respond")
    /\ UNCHANGED moneyVars

(* issue_sale_document for a sale without an initial document, and a faulty
   variant that trusts the look-up made before the lock. *)
Documentable(s) == status[s] = "completed" /\ lacking[s] = {}

IssueDocumentUnchecked(s, key) ==
    /\ Documentable(s)
    /\ doc' = [doc EXCEPT ![s] = key]
IssueDocument(s, key) ==
    /\ Documentable(s) /\ doc[s] = None
    /\ doc' = [doc EXCEPT ![s] = key]

(* T3.  The key of the page finds its own document again. *)
Issue(q) ==
    /\ pc[q] = "issue"
    /\ \/ IssueDocument(SaleOf(q), reqForm[q])
       \/ doc[SaleOf(q)] = reqForm[q] /\ UNCHANGED doc
    /\ pc' = [pc EXCEPT ![q] = "respond"]
    /\ UNCHANGED <<moneyVars, version, saleSession, lacking, formVars, reqForm,
                   seen, intents, due, billingOnly, target>>

(* The sale is no longer completed, has another document, or lacks something
   that nothing has checked since T1, or before: it stays paid and undocumented. *)
IssueFails(q) ==
    LET s == SaleOf(q) IN
    /\ pc[q] = "issue"
    /\ doc[s] # reqForm[q] /\ (doc[s] # None \/ ~Documentable(s))
    /\ Goto(q, "refused")
    /\ UNCHANGED moneyVars
-------------------------------------------------------------------------------
(* recover_pending_checkout_payment: one payment in another session, for a sale
   whose own session was closed. *)
RecoveryAllowed(q) ==
    LET s == SaleOf(q)
        i == Head(intents[q]) IN
    /\ VersionCurrent(q) /\ status[s] = "completed"
    /\ saleSession[s] # None /\ sessState[saleSession[s]] = "closed"
    /\ target[q] # saleSession[s]
    /\ payment[i.key].kind = "none" => 0 < i.amount /\ i.amount <= Balance(s)

Recover(q) ==
    LET s == SaleOf(q)
        i == Head(intents[q]) IN
    /\ pc[q] = "recover" /\ RecoveryAllowed(q)
    /\ RegisterSalePayment(s, i.key, i.method, target[q], i.amount)
    /\ pc' = [pc EXCEPT ![q] = "recovered"]
    /\ intents' = [intents EXCEPT ![q] = <<>>]
    /\ UNCHANGED <<checkoutSaleVars, formVars, reqForm, seen, due, billingOnly,
                   target>>

RecoverFails(q) ==
    /\ pc[q] = "recover"
    /\ ~(/\ RecoveryAllowed(q)
         /\ PaymentAccepted(SaleOf(q), Head(intents[q]), target[q]))
    /\ Goto(q, "respond")
    /\ UNCHANGED moneyVars

(* After the recovered payment: a paid sale without a document goes through
   run_checkout with billing_only. *)
AfterRecovery(q) ==
    LET ready == BillingReady(SaleOf(q)) /\ doc[SaleOf(q)] = None IN
    /\ pc[q] = "recovered"
    /\ pc' = [pc EXCEPT ![q] = IF ready THEN "begin" ELSE "respond"]
    /\ billingOnly' = [billingOnly EXCEPT ![q] = ready]
    /\ UNCHANGED <<moneyVars, checkoutSaleVars, formVars, reqForm, seen, intents,
                   due, target>>

RequestStep(q) ==
    \/ BeginOpen(q) \/ BeginCompleted(q) \/ BeginEnds(q)
    \/ Pay(q) \/ PayFails(q) \/ Reread(q) \/ Decide(q)
    \/ Issue(q) \/ IssueFails(q)
    \/ Recover(q) \/ RecoverFails(q) \/ AfterRecovery(q)
    \/ Respond(q)
-------------------------------------------------------------------------------
(* A faulty variant of a cart mutation, that keeps the version of the cart. *)
ChangeCartSilently(s, t) ==
    /\ EditCart(s, t)
    /\ UNCHANGED <<checkoutSaleVars, formVars, requestVars>>

(* What other pages do to the same sales. *)
ChangeCart(s, t) ==
    /\ EditCart(s, t)
    /\ version[s] < MaxVersion
    /\ version' = [version EXCEPT ![s] = @ + 1]
    /\ UNCHANGED <<saleSession, doc, lacking, formVars, requestVars>>

(* update_sale_cash_session *)
ChangeSession(s, x) ==
    /\ status[s] = "open"
    /\ sessState[x] = "open"
    /\ saleSession[s] # x
    /\ version[s] < MaxVersion
    /\ version' = [version EXCEPT ![s] = @ + 1]
    /\ saleSession' = [saleSession EXCEPT ![s] = x]
    /\ UNCHANGED <<moneyVars, doc, lacking, formVars, requestVars>>

(* SaleCompleteView completes whatever the cart holds. *)
SellDirectly(s) ==
    /\ IF saleSession[s] = None THEN ~RequireSession ELSE SessionReady(s)
    /\ CompleteSale(s)
    /\ UNCHANGED <<checkoutSaleVars, formVars, requestVars>>

(* IssueSaleDocumentView asks for no payment. *)
IssueDirectly(s) ==
    /\ IssueDocument(s, Direct)
    /\ UNCHANGED <<moneyVars, version, saleSession, lacking, formVars, requestVars>>

(* The pages of series, of customers and of the issuer's profile. *)
ChangeFiscalData(s, l) ==
    /\ lacking' = [lacking EXCEPT ![s] = IF l \in @ THEN @ \ {l} ELSE @ \cup {l}]
    /\ UNCHANGED <<moneyVars, version, saleSession, doc, formVars, requestVars>>

DirectKeys == Keys \ (Forms \X (0 .. 2))

(* The pages of payments, refunds, accounts, returns and sessions. *)
OtherMoney ==
    /\ \/ \E s \in Sales : CancelSale(s) \/ RegisterSaleOnAccount(s)
       \/ \E s \in Sales, k \in DirectKeys, m \in Methods,
             x \in Sessions \cup {None}, a \in Amounts :
                RegisterSalePayment(s, k, m, x, a)
       \/ \E r \in Returns, k \in DirectKeys, m \in Methods,
             x \in Sessions \cup {None}, a \in Amounts :
                RegisterRefund(r, k, m, x, a)
       \/ \E r \in Returns, s \in Sales, a \in Amounts, full \in BOOLEAN :
                CompleteReturn(r, s, a, full)
       \/ \E x \in Sessions : OpenSession(x) \/ CloseSession(x)
    /\ UNCHANGED <<checkoutSaleVars, formVars, requestVars>>

Submission(q, f) ==
    \/ \E plan \in Plans(f) : SubmitCheckout(q, f, plan)
    \/ \E k \in Keys \cap ({f} \X (0 .. 2)), m \in Methods, a \in Amounts,
          x \in Sessions : SubmitRecovery(q, f, k, m, a, x)

CartStep(s) ==
    \/ \E t \in 0 .. MaxTotal : ChangeCart(s, t)
    \/ \E x \in Sessions : ChangeSession(s, x)

CheckoutNext ==
    \/ \E q \in Requests : RequestStep(q) \/ Lose(q)
    \/ \E q \in Requests, f \in shown : Submission(q, f)
    \/ \E f \in Forms, s \in Sales : OpenForm(f, s)
    \/ \E f \in shown : ShowRecovery(f)
    \/ \E s \in Sales : CartStep(s) \/ SellDirectly(s) \/ IssueDirectly(s)
    \/ \E s \in Sales, l \in Lacks : ChangeFiscalData(s, l)
    \/ OtherMoney

CheckoutSpec == CheckoutInit /\ [][CheckoutNext]_checkoutVars

(* A request under way is run by its worker until it answers. *)
FairCheckoutSpec == CheckoutSpec /\ \A q \in Requests :
                                        WF_checkoutVars(RequestStep(q))
-------------------------------------------------------------------------------
(* A request acts in a step when its own state moves. *)
Acts(q) == pc[q] # "idle" /\ pc'[q] # pc[q] /\ pc'[q] # "idle"

Reviewed(q) ==
    LET s == SaleOf(q) IN
    /\ status[s] = "open" /\ status'[s] # "open" => total[s] = seen[q].total
    /\ paid'[s] # paid[s] => /\ total[s] = seen[q].total
                            /\ paid'[s] - paid[s] <= seen[q].due

(* A checkout only completes and charges what the cashier reviewed: the sale has
   the total its page showed, and no step takes more than the page said was
   pending, although carts, sessions and payments change while it is open. *)
ChargedAsReviewed ==
    [][\A q \in Requests : Acts(q) => Reviewed(q)]_checkoutVars

(* A checkout documents a sale only once nothing of it is pending, and the
   reads outside the lock that led there are never overtaken. *)
DocumentedMeansSettled ==
    \A s \in Sales : doc[s] \in Forms => status[s] # "open" /\ pending[s] = 0

(* A sale never gets a second initial document, whichever of two requests that
   both found none is first. *)
OneDocument ==
    [][\A s \in Sales : doc[s] # None => doc'[s] = doc[s]]_checkoutVars

(* A completed sale keeps its cash context: a page pays in the session its sale
   was completed in, and in another one only once that session is closed. *)
RecoveredOnlyAfterClosing ==
    \A f \in Forms : \A k \in Keys \cap ({f} \X (0 .. 2)) :
        LET p == payment[k] IN
        p.kind = "sale" /\ p.session # saleSession[p.sale]
          => sessState[saleSession[p.sale]] = "closed"

(* A request that has seen the sale settled, and is not lost, either leaves it
   with a document or answers with an error (the cashier submits again, to
   document only), unless a return takes the sale away from it. *)
SettledIsDocumented ==
    \A q \in Requests : \A s \in Sales :
        /\ pc[q] \in {"reread", "decide", "issue"} /\ SaleOf(q) = s
        /\ pending[s] = 0
        ~> doc[s] # None \/ status[s] # "completed" \/ pc[q] = "refused"
===============================================================================
