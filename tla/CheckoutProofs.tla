---------------------------- MODULE CheckoutProofs ----------------------------
(***************************************************************************)
(* Proofs about Checkout for any sales, pages, requests and bounds.        *)
(*                                                                         *)
(* A request acts on what it read some steps ago.  Its reads stay good     *)
(* because the version of the cart dates them: while a sale has the        *)
(* version a page shows, its total is the page's and its pending amount is *)
(* no more than the page's (PageSound), and a sale that is no longer open  *)
(* never changes version again.  CheckoutInvariant says so of every page   *)
(* and of every request under way.                                         *)
(***************************************************************************)
EXTENDS Checkout, PaymentsProofs

(* While the cart has the version of p, p shows its total and bounds its claim. *)
PageSound(p, s) ==
    /\ p.version <= version[s]
    /\ p.version = version[s] => p.total = total[s] /\ pending[s] <= p.due

RequestInvariant(q) ==
    pc[q] # "idle" =>
      /\ reqForm[q] \in Forms /\ SaleOf(q) \in Sales
      /\ PageSound(seen[q], SaleOf(q))
      /\ pc[q] \in {"pay", "reread", "decide", "issue", "recovered"}
           => VersionCurrent(q) /\ status[SaleOf(q)] # "open"
      /\ pc[q] \in {"pay", "recover"} => intents[q] # <<>>
      /\ pc[q] \in {"decide", "issue"} => pending[SaleOf(q)] <= due[q]
      /\ pc[q] = "issue" => due[q] = 0

CheckoutInvariant ==
    /\ MoneyInvariant
    /\ CheckoutTypeOK
    /\ \A s \in Sales : total[s] <= MaxTotal
    /\ \A f \in shown : PageSound(page[f], formSale[f])
    /\ \A q \in Requests : RequestInvariant(q)
    /\ DocumentedMeansSettled

(* What a step may do to the sales that pages and requests have read. *)
ReadsKept ==
    \A s \in Sales :
        /\ version[s] <= version'[s]
        /\ version'[s] = version[s]
             => total'[s] = total[s] /\ pending'[s] <= pending[s]
        /\ status[s] # "open" => status'[s] # "open" /\ version'[s] = version[s]
-------------------------------------------------------------------------------
(* A step of Payments that leaves the totals alone raises no claim. *)
LEMMA ClaimStep ==
    ASSUME MoneyInvariant, [MoneyNext]_moneyVars, total' = total
    PROVE  \A s \in Sales : pending'[s] <= pending[s]
<1>. SUFFICES ASSUME NEW s \in Sales PROVE pending'[s] <= pending[s]
  OBVIOUS
<1>1. CASE status[s] # "open"
  BY <1>1, PendingStep
<1>2. CASE status[s] = "open"
  <2>1. pending[s] = total[s]
    BY <1>2 DEF MoneyInvariant, SaleInvariant, Untouched
  <2>2. MoneyInvariant'
    BY MoneyStep
  <2>3. pending'[s] <= total'[s]
    BY <2>2, SMT DEF MoneyInvariant, SaleInvariant, TypeOK
  <2>. QED
    BY <2>1, <2>3
<1>. QED
  BY <1>1, <1>2

(* So a step that changes neither totals nor versions keeps the reads. *)
LEMMA QuietStep ==
    ASSUME MoneyInvariant, CheckoutTypeOK, [MoneyNext]_moneyVars,
           total' = total, version' = version
    PROVE  ReadsKept
<1>1. \A s \in Sales : pending'[s] <= pending[s]
  BY ClaimStep
<1>2. \A s \in Sales : status[s] # "open" => status'[s] # "open"
  BY SoldStep DEF MoneyInvariant
<1>. QED
  BY <1>1, <1>2 DEF ReadsKept, CheckoutTypeOK

(* Carts and sessions only change with the version, and only of open sales. *)
LEMMA VersionedStep ==
    ASSUME MoneyInvariant, CheckoutTypeOK, NEW s \in Sales, CartStep(s)
    PROVE  ReadsKept
<1>1. version' = [version EXCEPT ![s] = @ + 1] /\ status[s] = "open"
  BY DEF CartStep, ChangeCart, EditCart, ChangeSession
<1>2. status' = status
  BY DEF CartStep, ChangeCart, EditCart, ChangeSession, moneyVars, saleVars
<1>3. \A q \in Sales : q # s => total'[q] = total[q] /\ pending'[q] = pending[q]
  BY DEF CartStep, ChangeCart, EditCart, ChangeSession, moneyVars, saleVars,
         CheckoutTypeOK, TypeOK
<1>4. version \in [Sales -> Nat] /\ pending \in [Sales -> Nat]
  BY DEF CheckoutTypeOK, TypeOK
<1>. QED
  BY <1>1, <1>2, <1>3, <1>4 DEF ReadsKept

LEMMA PageKept ==
    ASSUME CheckoutTypeOK, ReadsKept, NEW p \in Page, NEW s \in Sales,
           PageSound(p, s), TypeOK', version' \in [Sales -> Nat]
    PROVE  PageSound(p, s)'
<1>1. /\ p.version \in Nat /\ p.due \in Nat
      /\ version[s] \in Nat /\ pending[s] \in Nat
      /\ version'[s] \in Nat /\ pending'[s] \in Nat
  BY DEF Page, CheckoutTypeOK, TypeOK
<1>2. /\ version[s] <= version'[s]
      /\ version'[s] = version[s]
           => total'[s] = total[s] /\ pending'[s] <= pending[s]
  BY DEF ReadsKept
<1>3. /\ p.version <= version[s]
      /\ p.version = version[s] => p.total = total[s] /\ pending[s] <= p.due
  BY DEF PageSound
<1>4. p.version <= version'[s]
  BY <1>1, <1>2, <1>3
<1>5. ASSUME p.version = version'[s]
      PROVE  p.total = total'[s] /\ pending'[s] <= p.due
  <2>1. version'[s] = version[s]
    BY <1>1, <1>2, <1>3, <1>5
  <2>. QED
    BY <1>1, <1>2, <1>3, <1>5, <2>1
<1>. QED
  BY <1>4, <1>5 DEF PageSound

(* A page shows the sale as it is. *)
LEMMA NewPage ==
    ASSUME CheckoutTypeOK, NEW s \in Sales
    PROVE  PageOf(s) \in Page /\ PageSound(PageOf(s), s)
BY DEF CheckoutTypeOK, TypeOK, PageOf, Page, PageSound, PaymentRecovery
-------------------------------------------------------------------------------
(* The payments a request has left are typed payments. *)
LEMMA HeadIntent ==
    ASSUME CheckoutInvariant, NEW q \in Requests, pc[q] \in {"pay", "recover"}
    PROVE  /\ SaleOf(q) \in Sales
           /\ Head(intents[q]) \in Intent /\ Tail(intents[q]) \in Seq(Intent)
<1>1. RequestInvariant(q) /\ intents[q] \in Seq(Intent)
  BY DEF CheckoutInvariant, CheckoutTypeOK
<1>. QED
  BY <1>1 DEF RequestInvariant

LEMMA PaymentStep ==
    ASSUME NEW s \in Sales, NEW i \in Intent, NEW x \in Sessions \cup {None},
           RegisterSalePayment(s, i.key, i.method, x, i.amount)
    PROVE  MoneyNext
<1>1. i.key \in Keys /\ i.method \in Methods /\ i.amount \in Amounts
  BY DEF Intent
<1>. QED
  BY <1>1 DEF MoneyNext

(* Every step of a checkout is a step of Payments or leaves the money alone. *)
LEMMA CheckoutMoneyStep ==
    ASSUME CheckoutInvariant, [CheckoutNext]_checkoutVars
    PROVE  [MoneyNext]_moneyVars
<1>1. ASSUME NEW q \in Requests, RequestStep(q) \/ Lose(q)
      PROVE  [MoneyNext]_moneyVars
  <2>1. CASE BeginOpen(q)
    <3>1. SaleOf(q) \in Sales
      BY <2>1 DEF BeginOpen, CheckoutInvariant, RequestInvariant
    <3>. QED
      BY <2>1, <3>1 DEF BeginOpen, MoneyNext
  <2>2. CASE Pay(q)
    <3>1. saleSession[SaleOf(q)] \in Sessions \cup {None}
      BY <2>2, HeadIntent DEF Pay, CheckoutInvariant, CheckoutTypeOK
    <3>. QED
      BY <2>2, <3>1, HeadIntent, PaymentStep DEF Pay
  <2>3. CASE Recover(q)
    <3>1. target[q] \in Sessions \cup {None}
      BY DEF CheckoutInvariant, CheckoutTypeOK
    <3>. QED
      BY <2>3, <3>1, HeadIntent, PaymentStep DEF Recover
  <2>. QED
    BY <1>1, <2>1, <2>2, <2>3
    DEF RequestStep, BeginCompleted, BeginEnds, PayFails, Reread, Decide, Issue,
        IssueFails, RecoverFails, AfterRecovery, Respond, Lose, Goto
<1>2. ASSUME NEW q \in Requests, NEW f \in shown, Submission(q, f)
      PROVE  UNCHANGED moneyVars
  BY <1>2 DEF Submission, SubmitCheckout, SubmitRecovery, Submit
<1>3. ASSUME \/ \E f \in Forms, s \in Sales : OpenForm(f, s)
             \/ \E f \in shown : ShowRecovery(f)
      PROVE  UNCHANGED moneyVars
  BY <1>3 DEF OpenForm, ShowRecovery
<1>4. ASSUME NEW s \in Sales, CartStep(s) \/ SellDirectly(s) \/ IssueDirectly(s)
      PROVE  [MoneyNext]_moneyVars
  BY <1>4 DEF CartStep, ChangeCart, ChangeSession, SellDirectly, IssueDirectly, MoneyNext
<1>5. CASE OtherMoney
  BY <1>5 DEF OtherMoney, MoneyNext, DirectKeys
<1>6. ASSUME \/ \E s \in Sales, l \in Lacks : ChangeFiscalData(s, l)
             \/ UNCHANGED checkoutVars
      PROVE  UNCHANGED moneyVars
  BY <1>6 DEF ChangeFiscalData, checkoutVars
<1>. QED
  BY <1>1, <1>2, <1>3, <1>4, <1>5, <1>6 DEF CheckoutNext

(* Only a change of the cart changes a total. *)
LEMMA CheckoutReadsKept ==
    ASSUME CheckoutInvariant, [CheckoutNext]_checkoutVars
    PROVE  /\ ReadsKept
           /\ \A s \in Sales : total'[s] <= MaxTotal
<1>. USE DEF CheckoutInvariant
<1>1. [MoneyNext]_moneyVars
  BY CheckoutMoneyStep
<1>2. ASSUME total' = total, version' = version
      PROVE  ReadsKept /\ \A s \in Sales : total'[s] <= MaxTotal
  BY <1>1, <1>2, QuietStep
<1>3. ASSUME NEW q \in Requests, RequestStep(q) \/ Lose(q)
      PROVE  total' = total /\ version' = version
  BY <1>3
  DEF RequestStep, Lose, BeginOpen, CompleteSale, BeginCompleted, BeginEnds, Pay,
      RegisterSalePayment, ReplaySalePayment, NewSalePayment, PayFails, Reread,
      Decide, Issue, IssueFails, Recover, RecoverFails, AfterRecovery, Respond, Goto, Advance,
      moneyVars, saleVars, checkoutSaleVars
<1>4. ASSUME NEW s \in Sales, CartStep(s)
      PROVE  ReadsKept /\ \A r \in Sales : total'[r] <= MaxTotal
  <2>1. \/ total' = total
        \/ \E t \in 0 .. MaxTotal : total' = [total EXCEPT ![s] = t]
    BY <1>4 DEF CartStep, ChangeCart, ChangeSession, EditCart, moneyVars, saleVars
  <2>2. ASSUME NEW r \in Sales PROVE total'[r] <= MaxTotal
    <3>1. total[r] \in Nat /\ total[r] <= MaxTotal /\ MaxTotal \in Nat
      BY PaymentsAssumption DEF CheckoutTypeOK, TypeOK
    <3>2. total'[r] = total[r] \/ \E t \in 0 .. MaxTotal : total'[r] = t
      BY <2>1 DEF CheckoutTypeOK, TypeOK
    <3>. QED
      BY <3>1, <3>2
  <2>. QED
    BY <1>4, <2>2, VersionedStep
<1>5. ASSUME \/ \E q \in Requests, f \in shown : Submission(q, f)
             \/ \E f \in Forms, s \in Sales : OpenForm(f, s)
             \/ \E f \in shown : ShowRecovery(f)
             \/ \E s \in Sales : SellDirectly(s) \/ IssueDirectly(s)
             \/ \E s \in Sales, l \in Lacks : ChangeFiscalData(s, l)
             \/ UNCHANGED checkoutVars
      PROVE  total' = total /\ version' = version
  BY <1>5
  DEF Submission, SubmitCheckout, SubmitRecovery, Submit, OpenForm, ShowRecovery, SellDirectly,
      CompleteSale, IssueDirectly, ChangeFiscalData, checkoutVars, moneyVars,
      saleVars, checkoutSaleVars
<1>6. ASSUME OtherMoney PROVE total' = total /\ version' = version
  BY <1>6
  DEF OtherMoney, CancelSale, RegisterSaleOnAccount, RegisterSalePayment,
      ReplaySalePayment, NewSalePayment, RegisterRefund, CompleteReturn,
      OpenSession, CloseSession, moneyVars, saleVars, checkoutSaleVars
<1>. QED
  BY <1>2, <1>3, <1>4, <1>5, <1>6 DEF CheckoutNext
-------------------------------------------------------------------------------
(* Typing, an actor at a time. *)
LEMMA SingleIntent ==
    ASSUME CheckoutInvariant, NEW f \in shown, NEW m \in Methods,
           pending[formSale[f]] # 0
    PROVE  SinglePlan(f, m) \in Seq(Intent)
<1>. DEFINE s == formSale[f]
<1>1. f \in Forms /\ s \in Sales
  BY DEF CheckoutInvariant, CheckoutTypeOK
<1>2. pending[s] \in Nat /\ pending[s] <= total[s] /\ total[s] <= MaxTotal
  <2>1. paid[s] \in Nat /\ reduced[s] \in Nat /\ pending[s] \in Nat
    BY <1>1 DEF CheckoutInvariant, CheckoutTypeOK, TypeOK
  <2>2. total[s] \in Nat /\ total[s] <= MaxTotal
    BY <1>1 DEF CheckoutInvariant, CheckoutTypeOK, TypeOK
  <2>3. paid[s] + reduced[s] + pending[s] <= total[s]
    BY <1>1 DEF CheckoutInvariant, MoneyInvariant, SaleInvariant
  <2>. QED
    BY <2>1, <2>2, <2>3
<1>3. pending[s] \in Amounts
  <2>1. MaxTotal \in Nat /\ total[s] \in Nat
    BY <1>1, PaymentsAssumption DEF CheckoutInvariant, CheckoutTypeOK, TypeOK
  <2>. QED
    BY <1>2, <2>1 DEF Amounts
<1>4. <<f, 0>> \in Keys
  BY <1>1, CheckoutAssumption
<1>. QED
  BY <1>3, <1>4 DEF SinglePlan, Intent

LEMMA SubmissionType ==
    ASSUME CheckoutInvariant, NEW q \in Requests, NEW f \in shown, Submission(q, f),
           TypeOK'
    PROVE  CheckoutTypeOK'
<1>0. CheckoutTypeOK /\ f \in Forms
  BY DEF CheckoutInvariant, CheckoutTypeOK
<1>1. ASSUME NEW plan \in Seq(Intent), NEW step \in Steps,
             NEW x \in Sessions \cup {None}, Submit(q, f, step, plan, x)
      PROVE  CheckoutTypeOK'
  <2>1. BillingReady(formSale[f]) \in BOOLEAN
    BY DEF BillingReady
  <2>. QED
    BY <1>0, <1>1, <2>1 DEF CheckoutTypeOK, Submit, checkoutSaleVars, formVars
<1>2. ASSUME NEW plan \in Plans(f), SubmitCheckout(q, f, plan)
      PROVE  CheckoutTypeOK'
  <2>1. CASE pending[formSale[f]] = 0 \/ BillingReady(formSale[f])
    <3>1. Submit(q, f, "begin", <<>>, None)
      BY <1>2, <2>1 DEF SubmitCheckout
    <3>2. <<>> \in Seq(Intent) /\ "begin" \in Steps
      BY DEF Steps
    <3>. QED
      BY <1>1, <3>1, <3>2
  <2>2. CASE ~(pending[formSale[f]] = 0 \/ BillingReady(formSale[f]))
    <3>1. CASE \E m \in Methods : plan = SinglePlan(f, m)
      <4>1. plan \in Seq(Intent)
        BY <2>2, <3>1, SingleIntent
      <4>. QED
        BY <1>1, <1>2, <2>2, <4>1 DEF SubmitCheckout, Steps
    <3>2. CASE <<f, 1>> \in Keys /\ <<f, 2>> \in Keys /\ plan \in SplitPlans(f)
      <4>1. PICK m \in Methods, n \in Methods, a \in Amounts, b \in Amounts :
              plan = <<[key |-> <<f, 1>>, method |-> m, amount |-> a],
                       [key |-> <<f, 2>>, method |-> n, amount |-> b]>>
        BY <3>2 DEF SplitPlans
      <4>2. /\ [key |-> <<f, 1>>, method |-> m, amount |-> a] \in Intent
            /\ [key |-> <<f, 2>>, method |-> n, amount |-> b] \in Intent
        BY <3>2 DEF Intent
      <4>3. plan \in Seq(Intent)
        BY <4>1, <4>2
      <4>. QED
        BY <1>1, <1>2, <2>2, <4>3 DEF SubmitCheckout, Steps
    <3>. QED
      BY <1>2, <3>1, <3>2, Zenon DEF Plans
  <2>. QED
    BY <2>1, <2>2
<1>3. ASSUME NEW k \in Keys, NEW m \in Methods, NEW a \in Amounts,
             NEW x \in Sessions, SubmitRecovery(q, f, k, m, a, x)
      PROVE  CheckoutTypeOK'
  <2>1. <<[key |-> k, method |-> m, amount |-> a]>> \in Seq(Intent)
    BY DEF Intent
  <2>. QED
    BY <1>1, <1>3, <2>1 DEF SubmitRecovery, Steps
<1>. QED
  BY <1>2, <1>3 DEF Submission

LEMMA RequestType ==
    ASSUME CheckoutInvariant, NEW q \in Requests, RequestStep(q) \/ Lose(q), TypeOK'
    PROVE  CheckoutTypeOK'
<1>0. CheckoutTypeOK /\ RequestInvariant(q)
  BY DEF CheckoutInvariant
<1>1. ASSUME NEW step \in Steps, Goto(q, step)
      PROVE  CheckoutTypeOK'
  BY <1>0, <1>1 DEF CheckoutTypeOK, Goto, checkoutSaleVars, formVars
<1>2. ASSUME NEW rest \in Seq(Intent), NEW d \in Nat, Advance(q, rest, d)
      PROVE  CheckoutTypeOK'
  BY <1>0, <1>2 DEF CheckoutTypeOK, Advance, checkoutSaleVars, formVars, Steps
<1>3. CASE BeginOpen(q) \/ BeginCompleted(q) \/ Reread(q)
  <2>1. intents[q] \in Seq(Intent) /\ pending[SaleOf(q)] \in Nat
    BY <1>0, <1>3
    DEF CheckoutTypeOK, TypeOK, RequestInvariant, BeginOpen, BeginCompleted, Reread
  <2>. QED
    BY <1>2, <1>3, <2>1 DEF BeginOpen, BeginCompleted, Reread
<1>4. CASE BeginEnds(q) \/ PayFails(q) \/ Decide(q) \/ IssueFails(q) \/ RecoverFails(q)
  BY <1>1, <1>4 DEF BeginEnds, PayFails, Decide, IssueFails, RecoverFails, Steps
<1>5. CASE Pay(q)
  <2>1. Tail(intents[q]) \in Seq(Intent)
    BY <1>5, HeadIntent DEF Pay
  <2>. QED
    BY <1>0, <1>5, <2>1 DEF Pay, CheckoutTypeOK, checkoutSaleVars, formVars, Steps
<1>6. CASE Issue(q)
  <2>1. reqForm[q] \in Forms
    BY <1>0, <1>6 DEF Issue, RequestInvariant
  <2>. QED
    BY <1>0, <1>6, <2>1
    DEF Issue, IssueDocument, CheckoutTypeOK, formVars, Steps
<1>7. CASE Recover(q)
  <2>1. <<>> \in Seq(Intent)
    OBVIOUS
  <2>. QED
    BY <1>0, <1>7, <2>1
    DEF Recover, CheckoutTypeOK, checkoutSaleVars, formVars, Steps
<1>10. CASE AfterRecovery(q)
  <2>. DEFINE ready == BillingReady(SaleOf(q)) /\ doc[SaleOf(q)] = None
  <2>1. /\ pc' = [pc EXCEPT ![q] = IF ready THEN "begin" ELSE "respond"]
        /\ billingOnly' = [billingOnly EXCEPT ![q] = ready]
        /\ ready \in BOOLEAN
    BY <1>10 DEF AfterRecovery, BillingReady
  <2>. HIDE DEF ready
  <2>2. pc' \in [Requests -> Steps] /\ billingOnly' \in [Requests -> BOOLEAN]
    BY <1>0, <2>1 DEF CheckoutTypeOK, Steps
  <2>. QED
    BY <1>0, <1>10, <2>2
    DEF AfterRecovery, CheckoutTypeOK, checkoutSaleVars, formVars
<1>8. CASE Respond(q)
  <2>1. PageOf(SaleOf(q)) \in Page /\ reqForm[q] \in Forms
    BY <1>0, <1>8, NewPage DEF Respond, RequestInvariant
  <2>2. BlankPage \in Page
    BY DEF BlankPage, Page
  <2>3. page' \in [Forms -> Page] /\ shown' \subseteq shown
    BY <1>0, <1>8, <2>1, <2>2 DEF Respond, CheckoutTypeOK, SaleOf
  <2>. QED
    BY <1>0, <1>8, <2>2, <2>3
    DEF Respond, Finish, CheckoutTypeOK, checkoutSaleVars, Steps
<1>9. CASE Lose(q)
  <2>1. BlankPage \in Page
    BY DEF BlankPage, Page
  <2>. QED
    BY <1>0, <1>9, <2>1
    DEF Lose, Finish, CheckoutTypeOK, checkoutSaleVars, formVars, Steps
<1>. QED
  BY <1>3, <1>4, <1>5, <1>6, <1>7, <1>8, <1>9, <1>10 DEF RequestStep

LEMMA CheckoutTypeStep ==
    ASSUME CheckoutInvariant, [CheckoutNext]_checkoutVars, TypeOK'
    PROVE  CheckoutTypeOK'
<1>0. CheckoutTypeOK
  BY DEF CheckoutInvariant
<1>1. ASSUME NEW f \in Forms, NEW s \in Sales, OpenForm(f, s)
      PROVE  CheckoutTypeOK'
  <2>1. PageOf(s) \in Page
    BY <1>0, NewPage
  <2>2. formSale' \in [Forms -> Sales \cup {None}] /\ page' \in [Forms -> Page]
    BY <1>0, <1>1, <2>1 DEF OpenForm, CheckoutTypeOK
  <2>3. shown' \subseteq {g \in Forms : formSale'[g] # None}
    BY <1>0, <1>1, PaymentsAssumption DEF OpenForm, CheckoutTypeOK
  <2>. QED
    BY <1>0, <1>1, <2>2, <2>3
    DEF OpenForm, CheckoutTypeOK, checkoutSaleVars, requestVars
<1>4. ASSUME NEW f \in shown, ShowRecovery(f)
      PROVE  CheckoutTypeOK'
  <2>1. f \in Forms /\ formSale[f] \in Sales
    BY <1>0 DEF CheckoutTypeOK
  <2>2. PageOf(formSale[f]) \in Page
    BY <1>0, <2>1, NewPage
  <2>. QED
    BY <1>0, <1>4, <2>1, <2>2
    DEF ShowRecovery, CheckoutTypeOK, checkoutSaleVars, requestVars
<1>2. ASSUME NEW s \in Sales, CartStep(s) \/ SellDirectly(s) \/ IssueDirectly(s)
      PROVE  CheckoutTypeOK'
  <2>1. CASE CartStep(s)
    <3>1. version' = [version EXCEPT ![s] = @ + 1]
      BY <2>1 DEF CartStep, ChangeCart, ChangeSession
    <3>2. \/ saleSession' = saleSession
          \/ \E x \in Sessions : saleSession' = [saleSession EXCEPT ![s] = x]
      BY <2>1 DEF CartStep, ChangeCart, ChangeSession
    <3>3. UNCHANGED <<doc, lacking, formVars, requestVars>>
      BY <2>1 DEF CartStep, ChangeCart, ChangeSession
    <3>4. version' \in [Sales -> Nat]
      BY <1>0, <3>1 DEF CheckoutTypeOK
    <3>5. saleSession' \in [Sales -> Sessions \cup {None}]
      BY <1>0, <3>2 DEF CheckoutTypeOK
    <3>. QED
      BY <1>0, <3>3, <3>4, <3>5 DEF CheckoutTypeOK, formVars, requestVars
  <2>2. CASE SellDirectly(s)
    BY <1>0, <2>2
    DEF SellDirectly, CheckoutTypeOK, checkoutSaleVars, formVars, requestVars
  <2>3. CASE IssueDirectly(s)
    BY <1>0, <2>3
    DEF IssueDirectly, IssueDocument, CheckoutTypeOK, formVars, requestVars
  <2>. QED
    BY <1>2, <2>1, <2>2, <2>3
<1>5. ASSUME NEW s \in Sales, NEW l \in Lacks, ChangeFiscalData(s, l)
      PROVE  CheckoutTypeOK'
  <2>1. lacking' \in [Sales -> SUBSET Lacks]
    BY <1>0, <1>5 DEF ChangeFiscalData, CheckoutTypeOK
  <2>. QED
    BY <1>0, <1>5, <2>1 DEF ChangeFiscalData, CheckoutTypeOK, formVars, requestVars
<1>3. CASE OtherMoney \/ UNCHANGED checkoutVars
  BY <1>0, <1>3
  DEF OtherMoney, checkoutVars, CheckoutTypeOK, checkoutSaleVars, formVars,
      requestVars
<1>. QED
  BY <1>1, <1>2, <1>3, <1>4, <1>5, SubmissionType, RequestType DEF CheckoutNext
-------------------------------------------------------------------------------
(* What every step keeps, whichever the actor. *)
SameRequest(q) ==
    /\ pc'[q] = pc[q] /\ reqForm'[q] = reqForm[q] /\ seen'[q] = seen[q]
    /\ intents'[q] = intents[q] /\ due'[q] = due[q]

StepFacts ==
    /\ CheckoutInvariant /\ MoneyInvariant' /\ CheckoutTypeOK' /\ ReadsKept
    /\ \A s \in Sales : total'[s] <= MaxTotal
    /\ \A f \in Forms : formSale[f] # None => formSale'[f] = formSale[f]

LEMMA StepFactsHold ==
    ASSUME CheckoutInvariant, [CheckoutNext]_checkoutVars
    PROVE  StepFacts
<1>1. MoneyInvariant'
  BY CheckoutMoneyStep, MoneyStep DEF CheckoutInvariant
<1>2. CheckoutTypeOK'
  BY <1>1, CheckoutTypeStep DEF MoneyInvariant
<1>3. \A f \in Forms : formSale[f] # None => formSale'[f] = formSale[f]
  <2>1. ASSUME NEW q \in Requests, RequestStep(q) \/ Lose(q)
        PROVE  formSale' = formSale
    BY <2>1
    DEF RequestStep, Lose, BeginOpen, BeginCompleted, BeginEnds, Pay, PayFails,
        Reread, Decide, Issue, IssueFails, Recover, RecoverFails, AfterRecovery,
        Respond, Goto, Advance, formVars
  <2>2. ASSUME NEW q \in Requests, NEW f \in shown, Submission(q, f)
        PROVE  formSale' = formSale
    BY <2>2 DEF Submission, SubmitCheckout, SubmitRecovery, Submit, formVars
  <2>3. ASSUME NEW s \in Sales, CartStep(s) \/ SellDirectly(s) \/ IssueDirectly(s)
        PROVE  formSale' = formSale
    BY <2>3
    DEF CartStep, ChangeCart, ChangeSession, SellDirectly, IssueDirectly, formVars
  <2>4. ASSUME NEW f \in Forms, NEW s \in Sales, OpenForm(f, s)
        PROVE  formSale[f] = None /\ formSale' = [formSale EXCEPT ![f] = s]
    BY <2>4 DEF OpenForm
  <2>5. ASSUME NEW f \in shown, ShowRecovery(f) PROVE formSale' = formSale
    BY <2>5 DEF ShowRecovery
  <2>6. ASSUME \/ \E s \in Sales, l \in Lacks : ChangeFiscalData(s, l)
               \/ OtherMoney \/ UNCHANGED checkoutVars
        PROVE  formSale' = formSale
    BY <2>6 DEF ChangeFiscalData, OtherMoney, checkoutVars, formVars
  <2>. QED
    BY <2>1, <2>2, <2>3, <2>4, <2>5, <2>6
    DEF CheckoutNext, CheckoutInvariant, CheckoutTypeOK
<1>. QED
  BY <1>1, <1>2, <1>3, CheckoutReadsKept DEF StepFacts

(* What a page or a request has read stays good while others act. *)
LEMMA SoundKept ==
    ASSUME StepFacts, NEW p \in Page, NEW s \in Sales, PageSound(p, s)
    PROVE  PageSound(p, s)'
BY PageKept DEF StepFacts, CheckoutInvariant, CheckoutTypeOK, MoneyInvariant

LEMMA ShownKept ==
    ASSUME StepFacts, NEW f \in shown, page'[f] = page[f]
    PROVE  PageSound(page[f], formSale[f])'
<1>1. f \in Forms /\ formSale[f] \in Sales /\ page[f] \in Page
  BY DEF StepFacts, CheckoutInvariant, CheckoutTypeOK
<1>2. PageSound(page[f], formSale[f]) /\ formSale'[f] = formSale[f]
  BY <1>1, PaymentsAssumption DEF StepFacts, CheckoutInvariant
<1>. DEFINE p == page[f]
            s == formSale[f]
<1>3. PICK c \in Page, r \in Sales : c = p /\ r = s
  BY <1>1
<1>4. PageSound(c, r)'
  BY <1>2, <1>3, SoundKept
<1>. QED
  BY <1>2, <1>3, <1>4 DEF PageSound

LEMMA SeenKept ==
    ASSUME StepFacts, NEW q \in Requests, pc[q] # "idle", seen'[q] = seen[q],
           reqForm'[q] = reqForm[q]
    PROVE  /\ reqForm[q] \in Forms /\ SaleOf(q) \in Sales /\ SaleOf(q)' = SaleOf(q)
           /\ PageSound(seen[q], SaleOf(q))'
<1>1. RequestInvariant(q) /\ seen[q] \in Page
  BY DEF StepFacts, CheckoutInvariant, CheckoutTypeOK
<1>2. reqForm[q] \in Forms /\ SaleOf(q) \in Sales /\ PageSound(seen[q], SaleOf(q))
  BY <1>1 DEF RequestInvariant
<1>3. SaleOf(q)' = SaleOf(q)
  BY <1>2, PaymentsAssumption DEF StepFacts, SaleOf
<1>4. PICK c \in Page, r \in Sales : c = seen[q] /\ r = SaleOf(q)
  BY <1>1, <1>2
<1>5. PageSound(c, r)'
  BY <1>2, <1>4, SoundKept
<1>. QED
  BY <1>2, <1>3, <1>4, <1>5 DEF PageSound

LEMMA RequestKept ==
    ASSUME StepFacts, NEW q \in Requests, SameRequest(q)
    PROVE  RequestInvariant(q)'
<1>1. CASE pc[q] = "idle"
  BY <1>1 DEF SameRequest, RequestInvariant
<1>2. CASE pc[q] # "idle"
  <2>. DEFINE s == SaleOf(q)
  <2>1. /\ reqForm[q] \in Forms /\ s \in Sales /\ SaleOf(q)' = s
        /\ PageSound(seen[q], SaleOf(q))'
    BY <1>2, SeenKept DEF SameRequest
  <2>2. RequestInvariant(q)
    BY DEF StepFacts, CheckoutInvariant
  <2>3. status[s] # "open" => status'[s] # "open" /\ version'[s] = version[s]
    BY <2>1 DEF StepFacts, ReadsKept
  <2>4. pc[q] \in {"pay", "reread", "decide", "issue", "recovered"}
          => VersionCurrent(q)' /\ status'[s] # "open"
    BY <1>2, <2>1, <2>2, <2>3 DEF RequestInvariant, VersionCurrent, SameRequest
  <2>5. pc[q] \in {"decide", "issue"} => pending'[s] <= due[q]
    <3>1. pending[s] \in Nat /\ pending'[s] \in Nat /\ due[q] \in Nat
      BY <2>1 DEF StepFacts, CheckoutInvariant, CheckoutTypeOK, TypeOK
    <3>2. pc[q] \in {"decide", "issue"} => pending'[s] <= pending[s]
      BY <1>2, <2>1, <2>2, <2>3 DEF RequestInvariant, StepFacts, ReadsKept
    <3>. QED
      BY <1>2, <2>2, <3>1, <3>2 DEF RequestInvariant
  <2>. QED
    BY <1>2, <2>1, <2>2, <2>4, <2>5 DEF RequestInvariant, SameRequest
<1>. QED
  BY <1>1, <1>2

(* A settled sale stays settled. *)
LEMMA DocumentsKept ==
    ASSUME StepFacts,
           \A s \in Sales : \/ doc'[s] = doc[s] \/ doc'[s] \notin Forms
                            \/ status[s] # "open" /\ pending[s] = 0
    PROVE  DocumentedMeansSettled'
<1>. SUFFICES ASSUME NEW s \in Sales, doc'[s] \in Forms
              PROVE  status'[s] # "open" /\ pending'[s] = 0
  BY DEF DocumentedMeansSettled
<1>1. status[s] # "open" /\ pending[s] = 0
  BY DEF StepFacts, CheckoutInvariant, DocumentedMeansSettled
<1>2. status'[s] # "open" /\ pending'[s] <= pending[s]
  BY <1>1 DEF StepFacts, ReadsKept
<1>3. pending'[s] \in Nat
  BY DEF StepFacts, CheckoutTypeOK, TypeOK
<1>. QED
  BY <1>1, <1>2, <1>3

LEMMA InvariantKept ==
    ASSUME StepFacts,
           \A f \in shown' : \/ f \in shown /\ page'[f] = page[f]
                             \/ PageSound(page[f], formSale[f])',
           \A q \in Requests : SameRequest(q) \/ RequestInvariant(q)',
           DocumentedMeansSettled'
    PROVE  CheckoutInvariant'
<1>1. \A f \in shown' : PageSound(page[f], formSale[f])'
  BY ShownKept
<1>2. \A q \in Requests : RequestInvariant(q)'
  BY RequestKept
<1>. QED
  BY <1>1, <1>2 DEF StepFacts, CheckoutInvariant
-------------------------------------------------------------------------------
(* The steps of a request. *)
LEMMA OthersIdle ==
    ASSUME StepFacts, NEW q \in Requests, RequestStep(q) \/ Lose(q),
           NEW r \in Requests, r # q
    PROVE  SameRequest(r)
<1>0. CheckoutTypeOK
  BY DEF StepFacts, CheckoutInvariant
<1>1. CASE \/ BeginOpen(q) \/ BeginCompleted(q) \/ Reread(q)
  BY <1>0, <1>1
  DEF BeginOpen, BeginCompleted, Reread, Advance, CheckoutTypeOK, SameRequest
<1>2. CASE \/ BeginEnds(q) \/ PayFails(q) \/ Decide(q) \/ IssueFails(q)
         \/ RecoverFails(q)
  BY <1>0, <1>2
  DEF BeginEnds, PayFails, Decide, IssueFails, RecoverFails, Goto, CheckoutTypeOK, SameRequest
<1>3. CASE Pay(q) \/ Issue(q) \/ Recover(q) \/ AfterRecovery(q)
  BY <1>0, <1>3
  DEF Pay, Issue, Recover, AfterRecovery, CheckoutTypeOK, SameRequest
<1>4. CASE Respond(q) \/ Lose(q)
  BY <1>0, <1>4 DEF Respond, Lose, Finish, CheckoutTypeOK, SameRequest
<1>. QED
  BY <1>1, <1>2, <1>3, <1>4 DEF RequestStep

(* A request whose page is current and whose sale is sold may go on paying with
   what it read last. *)
LEMMA AdvanceInvariant ==
    ASSUME StepFacts, NEW q \in Requests, pc[q] # "idle", VersionCurrent(q),
           version' = version, status'[SaleOf(q)] # "open",
           Advance(q, intents[q], pending[SaleOf(q)])
    PROVE  RequestInvariant(q)'
<1>. DEFINE s == SaleOf(q)
<1>1. /\ reqForm[q] \in Forms /\ s \in Sales /\ SaleOf(q)' = s
      /\ PageSound(seen[q], SaleOf(q))' /\ reqForm' = reqForm /\ seen' = seen
  BY SeenKept DEF Advance
<1>2. VersionCurrent(q)'
  BY <1>1 DEF VersionCurrent
<1>3. pending'[s] <= pending[s]
  BY <1>1 DEF StepFacts, ReadsKept
<1>4. /\ pc'[q] \in {"pay", "decide"} /\ due'[q] = pending[s]
      /\ intents'[q] = intents[q]
      /\ pc'[q] = "pay" => intents[q] # <<>>
  BY DEF Advance, StepFacts, CheckoutInvariant, CheckoutTypeOK
<1>. QED
  BY <1>1, <1>2, <1>3, <1>4 DEF RequestInvariant

LEMMA OwnStep ==
    ASSUME StepFacts, NEW q \in Requests, RequestStep(q) \/ Lose(q)
    PROVE  RequestInvariant(q)'
<1>. DEFINE s == SaleOf(q)
<1>0. /\ CheckoutTypeOK /\ RequestInvariant(q)
  BY DEF StepFacts, CheckoutInvariant
<1>1. CASE BeginOpen(q) \/ BeginCompleted(q) \/ Reread(q)
  <2>1. /\ pc[q] # "idle" /\ version' = version
        /\ Advance(q, intents[q], pending[SaleOf(q)])
    BY <1>1 DEF BeginOpen, BeginCompleted, Reread, Advance, checkoutSaleVars
  <2>2. VersionCurrent(q)
    BY <1>0, <1>1
    DEF BeginOpen, BeginCompleted, Reread, BeginAccepted, RequestInvariant
  <2>3. status'[SaleOf(q)] # "open"
    <3>1. SaleOf(q) \in Sales
      BY <1>0, <2>1 DEF RequestInvariant
    <3>2. CASE BeginOpen(q)
      BY <3>1, <3>2, <1>0 DEF BeginOpen, CompleteSale, CheckoutTypeOK, TypeOK
    <3>3. CASE BeginCompleted(q) \/ Reread(q)
      BY <3>1, <3>3, <1>0
      DEF BeginCompleted, Reread, RequestInvariant, moneyVars, saleVars
    <3>. QED
      BY <1>1, <3>2, <3>3
  <2>. QED
    BY <2>1, <2>2, <2>3, AdvanceInvariant
<1>2. CASE BeginEnds(q) \/ PayFails(q) \/ IssueFails(q) \/ RecoverFails(q)
  <2>1. /\ pc[q] # "idle" /\ pc'[q] \in {"respond", "refused"}
        /\ seen' = seen /\ reqForm' = reqForm
    BY <1>0, <1>2 DEF BeginEnds, PayFails, IssueFails, RecoverFails, Goto, CheckoutTypeOK
  <2>. QED
    BY <2>1, SeenKept DEF RequestInvariant
<1>3. CASE Pay(q) \/ Recover(q)
  <2>1. /\ pc[q] # "idle" /\ pc'[q] \in {"reread", "recovered"}
        /\ seen' = seen /\ reqForm' = reqForm /\ version' = version
    BY <1>0, <1>3 DEF Pay, Recover, checkoutSaleVars, CheckoutTypeOK
  <2>2. VersionCurrent(q) /\ status[s] # "open"
    BY <1>0, <1>3 DEF Pay, Recover, RecoveryAllowed, RequestInvariant
  <2>3. /\ reqForm[q] \in Forms /\ s \in Sales /\ SaleOf(q)' = s
        /\ PageSound(seen[q], SaleOf(q))'
    BY <2>1, SeenKept
  <2>4. status'[s] # "open" /\ VersionCurrent(q)'
    BY <2>1, <2>2, <2>3 DEF StepFacts, ReadsKept, VersionCurrent
  <2>. QED
    BY <2>1, <2>3, <2>4 DEF RequestInvariant
<1>4. CASE Decide(q) \/ Issue(q)
  <2>1. /\ pc[q] \in {"decide", "issue"} /\ pc'[q] \in {"issue", "respond"}
        /\ pc'[q] = "issue" => due[q] = 0
        /\ seen' = seen /\ reqForm' = reqForm /\ version' = version /\ due' = due
    BY <1>0, <1>4 DEF Decide, Issue, Goto, checkoutSaleVars, CheckoutTypeOK
  <2>2. VersionCurrent(q) /\ status[s] # "open" /\ pending[s] <= due[q]
    BY <1>0, <2>1 DEF RequestInvariant
  <2>3. /\ reqForm[q] \in Forms /\ s \in Sales /\ SaleOf(q)' = s
        /\ PageSound(seen[q], SaleOf(q))'
    BY <2>1, SeenKept
  <2>4. status'[s] # "open" /\ VersionCurrent(q)'
    BY <2>1, <2>2, <2>3 DEF StepFacts, ReadsKept, VersionCurrent
  <2>5. pending' = pending
    BY <1>4 DEF Decide, Issue, moneyVars, saleVars
  <2>. QED
    BY <2>1, <2>2, <2>3, <2>4, <2>5 DEF RequestInvariant
<1>5. CASE AfterRecovery(q)
  <2>1. /\ pc[q] # "idle" /\ pc'[q] \in {"begin", "respond"}
        /\ seen' = seen /\ reqForm' = reqForm
    BY <1>0, <1>5 DEF AfterRecovery, CheckoutTypeOK
  <2>. QED
    BY <2>1, SeenKept DEF RequestInvariant
<1>6. CASE Respond(q) \/ Lose(q)
  BY <1>0, <1>6 DEF Respond, Lose, Finish, CheckoutTypeOK, RequestInvariant
<1>. QED
  BY <1>1, <1>2, <1>3, <1>4, <1>5, <1>6 DEF RequestStep

LEMMA RequestStepInvariant ==
    ASSUME StepFacts, NEW q \in Requests, RequestStep(q) \/ Lose(q)
    PROVE  CheckoutInvariant'
<1>. DEFINE s == SaleOf(q)
<1>0. CheckoutTypeOK /\ RequestInvariant(q)
  BY DEF StepFacts, CheckoutInvariant
<1>1. \A r \in Requests : SameRequest(r) \/ RequestInvariant(r)'
  BY OthersIdle, OwnStep
<1>2. ASSUME NEW f \in shown'
      PROVE  \/ f \in shown /\ page'[f] = page[f]
             \/ PageSound(page[f], formSale[f])'
  <2>1. CASE ~Respond(q)
    BY <1>2, <2>1
    DEF RequestStep, Lose, BeginOpen, BeginCompleted, BeginEnds, Pay, PayFails,
        Reread, Decide, Issue, IssueFails, Recover, RecoverFails, AfterRecovery,
        Goto, Advance, formVars
  <2>2. CASE Respond(q)
    <3>1. reqForm[q] \in Forms /\ s \in Sales
      BY <1>0, <2>2 DEF Respond, RequestInvariant
    <3>2. /\ f \in shown
          /\ \/ page' = [page EXCEPT ![reqForm[q]] = PageOf(s)]
             \/ /\ page' = [page EXCEPT ![reqForm[q]] = BlankPage]
                /\ f # reqForm[q]
      BY <2>2, <1>2 DEF Respond, SaleOf
    <3>3. CASE f = reqForm[q]
      <4>1. page'[f] = PageOf(s) /\ formSale'[f] = s
        BY <3>1, <3>2, <3>3, <1>0, PaymentsAssumption
        DEF CheckoutTypeOK, StepFacts, SaleOf
      <4>2. PageSound(PageOf(s), s)
        BY <1>0, <3>1, NewPage
      <4>3. UNCHANGED <<version, total, pending>>
        BY <2>2 DEF Respond, moneyVars, saleVars, checkoutSaleVars
      <4>. QED
        BY <4>1, <4>2, <4>3 DEF PageSound
    <3>4. CASE f # reqForm[q]
      BY <3>2, <3>4, <1>0 DEF CheckoutTypeOK
    <3>. QED
      BY <3>3, <3>4
  <2>. QED
    BY <2>1, <2>2
<1>3. DocumentedMeansSettled'
  <2>1. CASE Issue(q)
    <3>1. /\ s \in Sales /\ status[s] # "open" /\ pending[s] <= due[q] /\ due[q] = 0
      BY <1>0, <2>1 DEF Issue, RequestInvariant
    <3>2. pending[s] = 0
      BY <1>0, <3>1 DEF CheckoutTypeOK, TypeOK
    <3>3. \A r \in Sales : r # s => doc'[r] = doc[r]
      BY <1>0, <2>1 DEF Issue, IssueDocument, CheckoutTypeOK
    <3>. QED
      BY <3>1, <3>2, <3>3, DocumentsKept
  <2>2. CASE ~Issue(q)
    <3>1. doc' = doc
      BY <2>2
      DEF RequestStep, Lose, BeginOpen, BeginCompleted, BeginEnds, Pay, PayFails,
          Reread, Decide, IssueFails, Recover, RecoverFails, AfterRecovery,
          Respond, Goto, Advance, checkoutSaleVars
    <3>. QED
      BY <3>1, DocumentsKept
  <2>. QED
    BY <2>1, <2>2
<1>. QED
  BY <1>1, <1>2, <1>3, InvariantKept
-------------------------------------------------------------------------------
(* A submission starts a request from what its page shows. *)
LEMMA SubmissionInvariant ==
    ASSUME StepFacts, NEW q \in Requests, NEW f \in shown, Submission(q, f)
    PROVE  CheckoutInvariant'
<1>. DEFINE s == formSale[f]
<1>0. /\ CheckoutTypeOK /\ f \in Forms /\ s \in Sales
      /\ PageSound(page[f], s)
  BY DEF StepFacts, CheckoutInvariant, CheckoutTypeOK
<1>1. PICK step, plan, x :
        /\ step \in {"begin", "recover"}
        /\ Submit(q, f, step, plan, x)
        /\ step = "recover" => plan # <<>>
  <2>1. CASE \E plan \in Plans(f) : SubmitCheckout(q, f, plan)
    BY <2>1 DEF SubmitCheckout
  <2>2. CASE ~\E plan \in Plans(f) : SubmitCheckout(q, f, plan)
    <3>1. PICK k \in Keys \cap ({f} \X (0 .. 2)), m \in Methods, a \in Amounts,
               x \in Sessions : SubmitRecovery(q, f, k, m, a, x)
      BY <2>2 DEF Submission
    <3>2. Submit(q, f, "recover", <<[key |-> k, method |-> m, amount |-> a]>>, x)
      BY <3>1 DEF SubmitRecovery
    <3>3. <<[key |-> k, method |-> m, amount |-> a]>> # <<>>
      OBVIOUS
    <3>. QED
      BY <3>2, <3>3
  <2>. QED
    BY <2>1, <2>2
<1>2. /\ pc' = [pc EXCEPT ![q] = step] /\ reqForm' = [reqForm EXCEPT ![q] = f]
      /\ seen' = [seen EXCEPT ![q] = page[f]]
      /\ intents' = [intents EXCEPT ![q] = plan]
      /\ due' = [due EXCEPT ![q] = 0]
      /\ UNCHANGED <<version, total, pending, doc, formSale, shown, page>>
  BY <1>1 DEF Submit, moneyVars, saleVars, checkoutSaleVars, formVars
<1>3. ASSUME NEW r \in Requests, r # q PROVE SameRequest(r)
  BY <1>0, <1>2, <1>3 DEF SameRequest, CheckoutTypeOK
<1>4. RequestInvariant(q)'
  <2>1. /\ pc'[q] = step /\ reqForm'[q] = f /\ seen'[q] = page[f]
        /\ intents'[q] = plan
    BY <1>0, <1>2 DEF CheckoutTypeOK
  <2>2. SaleOf(q)' = s
    BY <1>2, <2>1 DEF SaleOf
  <2>3. PageSound(seen[q], SaleOf(q))'
    BY <1>0, <1>2, <2>1, <2>2 DEF PageSound
  <2>. QED
    BY <1>0, <1>1, <2>1, <2>2, <2>3 DEF RequestInvariant
<1>5. \A r \in Requests : SameRequest(r) \/ RequestInvariant(r)'
  BY <1>3, <1>4
<1>6. DocumentedMeansSettled'
  BY <1>2, DocumentsKept
<1>7. \A g \in shown' : g \in shown /\ page'[g] = page[g]
  BY <1>2
<1>. QED
  BY <1>5, <1>6, <1>7, InvariantKept

(* A page that is shown anew shows the sale as it is. *)
LEMMA PageInvariant ==
    ASSUME StepFacts, NEW f \in Forms, NEW s \in Sales,
           \/ OpenForm(f, s)
           \/ f \in shown /\ s = formSale[f] /\ ShowRecovery(f)
    PROVE  CheckoutInvariant'
<1>0. CheckoutTypeOK
  BY DEF StepFacts, CheckoutInvariant
<1>1. /\ page' = [page EXCEPT ![f] = PageOf(s)] /\ shown' \subseteq shown \cup {f}
      /\ UNCHANGED <<version, total, pending, doc, requestVars>>
  BY DEF OpenForm, ShowRecovery, moneyVars, saleVars, checkoutSaleVars
<1>2. formSale'[f] = s
  BY <1>0 DEF OpenForm, ShowRecovery, CheckoutTypeOK
<1>3. page'[f] = PageOf(s) /\ \A g \in Forms : g # f => page'[g] = page[g]
  BY <1>0, <1>1 DEF CheckoutTypeOK
<1>4. PageSound(PageOf(s), s)
  BY <1>0, NewPage
<1>5. PageSound(page[f], formSale[f])'
  BY <1>1, <1>2, <1>3, <1>4 DEF PageSound
<1>6. shown \subseteq Forms
  BY <1>0 DEF CheckoutTypeOK
<1>7. ASSUME NEW g \in shown'
      PROVE  \/ g \in shown /\ page'[g] = page[g]
             \/ PageSound(page[g], formSale[g])'
  <2>1. CASE g = f
    BY <1>5, <2>1
  <2>2. CASE g # f
    BY <1>1, <1>3, <1>6, <2>2
  <2>. QED
    BY <2>1, <2>2
<1>8. \A q \in Requests : SameRequest(q)
  BY <1>1 DEF SameRequest, requestVars
<1>9. DocumentedMeansSettled'
  BY <1>1, DocumentsKept
<1>. QED
  BY <1>7, <1>8, <1>9, InvariantKept

(* What other pages do leaves requests and pages alone. *)
LEMMA OutsideInvariant ==
    ASSUME StepFacts, formVars' = formVars, requestVars' = requestVars,
           \A s \in Sales : doc'[s] = doc[s] \/ doc'[s] \notin Forms
    PROVE  CheckoutInvariant'
<1>1. \A q \in Requests : SameRequest(q)
  BY DEF SameRequest, requestVars
<1>2. \A g \in shown' : g \in shown /\ page'[g] = page[g]
  BY DEF formVars
<1>3. DocumentedMeansSettled'
  BY DocumentsKept
<1>. QED
  BY <1>1, <1>2, <1>3, InvariantKept

LEMMA CheckoutStart == CheckoutInit => CheckoutInvariant
<1>. SUFFICES ASSUME CheckoutInit PROVE CheckoutInvariant
  OBVIOUS
<1>1. MoneyInvariant
  BY MoneyStart DEF CheckoutInit
<1>2. CheckoutTypeOK
  <2>1. BlankPage \in Page /\ <<>> \in Seq(Intent)
    BY DEF BlankPage, Page
  <2>. QED
    BY <1>1, <2>1 DEF CheckoutInit, CheckoutTypeOK, MoneyInvariant, Steps
<1>3. \A s \in Sales : total[s] <= MaxTotal
  <2>. SUFFICES ASSUME NEW s \in Sales PROVE total[s] <= MaxTotal
    OBVIOUS
  <2>1. MaxTotal \in Nat /\ total[s] = 0
    BY PaymentsAssumption DEF CheckoutInit, MoneyInit
  <2>. QED
    BY <2>1
<1>4. (\A f \in shown : PageSound(page[f], formSale[f]))
        /\ \A q \in Requests : RequestInvariant(q)
  BY DEF CheckoutInit, RequestInvariant
<1>5. DocumentedMeansSettled
  BY CheckoutAssumption DEF CheckoutInit, DocumentedMeansSettled
<1>. QED
  BY <1>1, <1>2, <1>3, <1>4, <1>5 DEF CheckoutInvariant

LEMMA CheckoutStep ==
    ASSUME CheckoutInvariant, [CheckoutNext]_checkoutVars
    PROVE  CheckoutInvariant'
<1>0. StepFacts
  BY StepFactsHold
<1>1. ASSUME NEW q \in Requests, RequestStep(q) \/ Lose(q)
      PROVE  CheckoutInvariant'
  BY <1>0, <1>1, RequestStepInvariant
<1>2. ASSUME NEW q \in Requests, NEW f \in shown, Submission(q, f)
      PROVE  CheckoutInvariant'
  BY <1>0, <1>2, SubmissionInvariant
<1>3. ASSUME NEW f \in Forms, NEW s \in Sales, OpenForm(f, s)
      PROVE  CheckoutInvariant'
  BY <1>0, <1>3, PageInvariant
<1>4. ASSUME NEW f \in shown, ShowRecovery(f)
      PROVE  CheckoutInvariant'
  <2>1. f \in Forms /\ formSale[f] \in Sales
    BY DEF CheckoutInvariant, CheckoutTypeOK
  <2>. QED
    BY <1>0, <1>4, <2>1, PageInvariant
<1>5. ASSUME NEW s \in Sales, \/ CartStep(s) \/ SellDirectly(s)
                               \/ \E l \in Lacks : ChangeFiscalData(s, l)
      PROVE  CheckoutInvariant'
  <2>1. formVars' = formVars /\ requestVars' = requestVars /\ doc' = doc
    BY <1>5 DEF CartStep, ChangeCart, ChangeSession, SellDirectly,
                ChangeFiscalData, checkoutSaleVars
  <2>. QED
    BY <1>0, <2>1, OutsideInvariant
<1>6. ASSUME NEW s \in Sales, IssueDirectly(s)
      PROVE  CheckoutInvariant'
  <2>1. formVars' = formVars /\ requestVars' = requestVars
    BY <1>6 DEF IssueDirectly
  <2>2. ASSUME NEW r \in Sales PROVE doc'[r] = doc[r] \/ doc'[r] \notin Forms
    BY <1>6, CheckoutAssumption
    DEF IssueDirectly, IssueDocument, CheckoutInvariant, CheckoutTypeOK
  <2>. QED
    BY <1>0, <2>1, <2>2, OutsideInvariant
<1>7. CASE OtherMoney \/ UNCHANGED checkoutVars
  <2>1. formVars' = formVars /\ requestVars' = requestVars /\ doc' = doc
    BY <1>7 DEF OtherMoney, checkoutVars, checkoutSaleVars
  <2>. QED
    BY <1>0, <2>1, OutsideInvariant
<1>. QED
  BY <1>1, <1>2, <1>3, <1>4, <1>5, <1>6, <1>7 DEF CheckoutNext

(* CheckoutInvariant is inductive. *)
LEMMA CheckoutInvariance == CheckoutSpec => []CheckoutInvariant
BY CheckoutStart, CheckoutStep, PTL DEF CheckoutSpec
-------------------------------------------------------------------------------
(* Every page, request, document and payment row of the checkout keeps its type;
   in particular a request under way always has payments that exist. *)
THEOREM CheckoutTyped == CheckoutSpec => []CheckoutTypeOK
<1>1. CheckoutInvariant => CheckoutTypeOK
  BY DEF CheckoutInvariant
<1>. QED
  BY <1>1, CheckoutInvariance, PTL

(* run_checkout issues a document in a transaction of its own, after reads that
   hold no lock, and yet only for a sale of which nothing is pending. *)
THEOREM CheckoutDocumentedSettled == CheckoutSpec => []DocumentedMeansSettled
<1>1. CheckoutInvariant => DocumentedMeansSettled
  BY DEF CheckoutInvariant
<1>. QED
  BY <1>1, CheckoutInvariance, PTL

(* A payment takes no more than what is pending. *)
LEMMA PaymentTakes ==
    ASSUME MoneyInvariant, NEW s \in Sales, NEW i \in Intent, NEW x,
           RegisterSalePayment(s, i.key, i.method, x, i.amount)
    PROVE  status[s] # "open" /\ (paid'[s] # paid[s]
                                     => paid'[s] - paid[s] <= pending[s])
<1>0. i.key \in Keys /\ i.amount \in Nat /\ paid \in [Sales -> Nat]
  BY PaymentsAssumption DEF Intent, Amounts, MoneyInvariant, TypeOK
<1>1. CASE ReplaySalePayment(s, i.key, i.method, x, i.amount)
  BY <1>1 DEF ReplaySalePayment, SaleReplay, sumVars
<1>2. CASE NewSalePayment(s, i.key, i.method, x, i.amount)
  <2>1. i.amount <= pending[s]
    BY <1>0, <1>2, PaymentPending
  <2>2. /\ status[s] = "completed"
        /\ paid' = [paid EXCEPT ![s] = @ + i.amount]
    BY <1>2 DEF NewSalePayment, SalePayable
  <2>. QED
    BY <1>0, <2>1, <2>2
<1>. QED
  BY <1>1, <1>2 DEF RegisterSalePayment

(* A request that pays has a current page, and the page bounds the claim. *)
LEMMA PaysAsReviewed ==
    ASSUME CheckoutInvariant, NEW q \in Requests, VersionCurrent(q),
           pc[q] \in {"pay", "recover"}, NEW x,
           RegisterSalePayment(SaleOf(q), Head(intents[q]).key,
                               Head(intents[q]).method, x, Head(intents[q]).amount)
    PROVE  Reviewed(q)
<1>. DEFINE s == SaleOf(q)
<1>1. s \in Sales /\ Head(intents[q]) \in Intent /\ MoneyInvariant
  BY HeadIntent DEF CheckoutInvariant
<1>2. status[s] # "open" /\ (paid'[s] # paid[s]
                                => paid'[s] - paid[s] <= pending[s])
  BY <1>1, PaymentTakes
<1>3. seen[q].version = version[s] /\ PageSound(seen[q], s)
  BY DEF CheckoutInvariant, RequestInvariant, VersionCurrent
<1>4. total[s] = seen[q].total /\ pending[s] <= seen[q].due
  BY <1>3 DEF PageSound
<1>5. /\ pending[s] \in Nat /\ seen[q].due \in Nat /\ paid[s] \in Nat
      /\ paid'[s] \in Int
  <2>2. paid[s] \in Nat /\ pending[s] \in Nat /\ seen[q] \in Page
    BY <1>1 DEF CheckoutInvariant, CheckoutTypeOK, TypeOK
  <2>3. Head(intents[q]).amount \in Nat
    BY <1>1, PaymentsAssumption DEF Intent, Amounts
  <2>4. paid' = paid \/ paid' = [paid EXCEPT ![s] = @ + Head(intents[q]).amount]
    BY DEF RegisterSalePayment, ReplaySalePayment, NewSalePayment, sumVars
  <2>. QED
    BY <1>1, <2>2, <2>3, <2>4 DEF CheckoutInvariant, CheckoutTypeOK, TypeOK, Page
<1>. QED
  BY <1>2, <1>4, <1>5 DEF Reviewed

(* Nothing a request does to a sale departs from what its page showed, however
   many requests, payments, carts and sessions move in between: the version
   that run_checkout compares under the lock is enough. *)
THEOREM CheckoutReviewed == CheckoutSpec => ChargedAsReviewed
<1>1. ASSUME CheckoutInvariant, [CheckoutNext]_checkoutVars,
             NEW q \in Requests, Acts(q)
      PROVE  Reviewed(q)
  <2>. DEFINE s == SaleOf(q)
  <2>1. CheckoutTypeOK /\ RequestInvariant(q) /\ StepFacts
    BY <1>1, StepFactsHold DEF CheckoutInvariant
  <2>2. RequestStep(q)
    <3>1. ASSUME NEW r \in Requests, RequestStep(r) \/ Lose(r) PROVE RequestStep(q)
      <4>1. CASE r # q
        BY <1>1, <2>1, <3>1, <4>1, OthersIdle DEF Acts, SameRequest
      <4>2. CASE r = q
        BY <1>1, <2>1, <3>1, <4>2 DEF Lose, Finish, Acts, CheckoutTypeOK
      <4>. QED
        BY <4>1, <4>2
    <3>2. ASSUME NEW r \in Requests, NEW f \in shown, Submission(r, f) PROVE FALSE
      BY <1>1, <2>1, <3>2
      DEF Submission, SubmitCheckout, SubmitRecovery, Submit, Acts, CheckoutTypeOK
    <3>3. ASSUME \/ \E f \in Forms, r \in Sales : OpenForm(f, r)
                 \/ \E f \in shown : ShowRecovery(f)
                 \/ \E r \in Sales : CartStep(r) \/ SellDirectly(r)
                                        \/ IssueDirectly(r)
                 \/ \E r \in Sales, l \in Lacks : ChangeFiscalData(r, l)
                 \/ OtherMoney \/ UNCHANGED checkoutVars
          PROVE  FALSE
      <4>1. requestVars' = requestVars
        BY <3>3
        DEF OpenForm, ShowRecovery, CartStep, ChangeCart, ChangeSession,
            SellDirectly, IssueDirectly, ChangeFiscalData, OtherMoney, checkoutVars
      <4>. QED
        BY <1>1, <4>1 DEF Acts, requestVars
    <3>. QED
      BY <1>1, <3>1, <3>2, <3>3 DEF CheckoutNext
  <2>3. CASE BeginOpen(q)
    <3>1. total[s] = seen[q].total
      BY <2>1, <2>3
      DEF BeginOpen, BeginAccepted, VersionCurrent, RequestInvariant, PageSound
    <3>2. paid' = paid
      BY <2>3 DEF BeginOpen, CompleteSale, sumVars
    <3>. QED
      BY <3>1, <3>2 DEF Reviewed
  <2>4. CASE Pay(q)
    BY <1>1, <2>1, <2>4, PaysAsReviewed DEF Pay, RequestInvariant
  <2>5. CASE Recover(q)
    BY <1>1, <2>5, PaysAsReviewed DEF Recover, RecoveryAllowed
  <2>6. CASE UNCHANGED moneyVars
    BY <2>6 DEF moneyVars, saleVars, sumVars, Reviewed
  <2>. QED
    BY <2>2, <2>3, <2>4, <2>5, <2>6
    DEF RequestStep, BeginCompleted, BeginEnds, PayFails, Reread, Decide, Issue,
        IssueFails, RecoverFails, AfterRecovery, Respond
<1>2. CheckoutInvariant /\ [CheckoutNext]_checkoutVars
        => \A q \in Requests : Acts(q) => Reviewed(q)
  BY <1>1
<1>. QED
  BY <1>2, CheckoutInvariance, PTL DEF CheckoutSpec, ChargedAsReviewed

(* Requests look the document up before they issue one, without a lock: of two
   that both found none, the second never replaces the document of the first. *)
THEOREM CheckoutOneDocument == CheckoutSpec => OneDocument
<1>1. ASSUME CheckoutInvariant, [CheckoutNext]_checkoutVars,
             NEW s \in Sales, doc[s] # None
      PROVE  doc'[s] = doc[s]
  <2>1. ASSUME NEW r \in Sales, NEW key, IssueDocument(r, key)
        PROVE  doc'[s] = doc[s]
    BY <1>1, <2>1 DEF IssueDocument, CheckoutInvariant, CheckoutTypeOK
  <2>2. ASSUME NEW q \in Requests, RequestStep(q) \/ Lose(q)
        PROVE  doc'[s] = doc[s]
    <3>1. CASE Issue(q)
      <4>1. SaleOf(q) \in Sales
        BY <1>1, <3>1 DEF Issue, CheckoutInvariant, RequestInvariant
      <4>. QED
        BY <2>1, <3>1, <4>1 DEF Issue
    <3>2. CASE ~Issue(q)
      BY <2>2, <3>2
      DEF RequestStep, Lose, BeginOpen, BeginCompleted, BeginEnds, Pay, PayFails,
          Reread, Decide, IssueFails, Recover, RecoverFails, AfterRecovery,
          Respond, Goto, Advance, checkoutSaleVars
    <3>. QED
      BY <3>1, <3>2
  <2>3. ASSUME NEW r \in Sales, \/ CartStep(r) \/ SellDirectly(r)
                                 \/ \E l \in Lacks : ChangeFiscalData(r, l)
        PROVE  doc' = doc
    BY <2>3 DEF CartStep, ChangeCart, ChangeSession, SellDirectly,
                ChangeFiscalData, checkoutSaleVars
  <2>4. ASSUME NEW r \in Sales, IssueDirectly(r) PROVE doc'[s] = doc[s]
    BY <2>1, <2>4 DEF IssueDirectly
  <2>5. ASSUME \/ \E q \in Requests, f \in shown : Submission(q, f)
               \/ \E f \in Forms, r \in Sales : OpenForm(f, r)
               \/ \E f \in shown : ShowRecovery(f)
               \/ OtherMoney \/ UNCHANGED checkoutVars
        PROVE  doc' = doc
    BY <2>5
    DEF Submission, SubmitCheckout, SubmitRecovery, Submit, OpenForm, ShowRecovery,
        OtherMoney, checkoutVars, checkoutSaleVars
  <2>. QED
    BY <1>1, <2>2, <2>3, <2>4, <2>5 DEF CheckoutNext
<1>2. CheckoutInvariant /\ [CheckoutNext]_checkoutVars
        => \A s \in Sales : doc[s] # None => doc'[s] = doc[s]
  BY <1>1
<1>. QED
  BY <1>2, CheckoutInvariance, PTL DEF CheckoutSpec, OneDocument
-------------------------------------------------------------------------------
(* Where the payment of a page's key was made: in the session of its sale, or in
   another one once that session was closed.  The sale is no longer open, so it
   keeps its session. *)
PageKeys == Keys \cap (Forms \X (0 .. 2))
MadeInSession(k) ==
    LET s == payment[k].sale IN
    payment[k].kind = "sale" =>
        /\ s \in Sales /\ status[s] # "open"
        /\ \/ payment[k].session = saleSession[s]
           \/ saleSession[s] \in Sessions /\ sessState[saleSession[s]] = "closed"

LEMMA ClosedStep ==
    ASSUME TypeOK, [MoneyNext]_moneyVars, NEW x \in Sessions,
           sessState[x] = "closed"
    PROVE  sessState'[x] = "closed"
<1>1. ASSUME NEW y \in Sessions, OpenSession(y) \/ CloseSession(y)
      PROVE  sessState'[x] = "closed"
  BY <1>1 DEF OpenSession, CloseSession, TypeOK
<1>2. CASE sessState' = sessState
  BY <1>2
<1>. QED
  BY <1>1, <1>2
  DEF MoneyNext, EditCart, CompleteSale, CancelSale, moneyVars, cashVars,
      RegisterSaleOnAccount, RegisterSalePayment, ReplaySalePayment,
      NewSalePayment, CashMovement, RegisterRefund, CompleteReturn,
      UpdateAccountSettings

(* Which step may write the row of a page's key. *)
LEMMA PageKeyWritten ==
    ASSUME CheckoutInvariant, [CheckoutNext]_checkoutVars, NEW k \in PageKeys
    PROVE  \/ payment'[k] = payment[k]
           \/ \E q \in Requests : Pay(q) \/ Recover(q)
<1>1. ASSUME NEW q \in Requests, RequestStep(q), ~Pay(q), ~Recover(q)
      PROVE  payment' = payment
  BY <1>1
  DEF RequestStep, BeginOpen, BeginCompleted, BeginEnds, PayFails, Reread, Decide,
      Issue, IssueFails, RecoverFails, AfterRecovery, Respond, CompleteSale,
      moneyVars
<1>2. ASSUME OtherMoney PROVE payment'[k] = payment[k]
  <2>1. k \notin DirectKeys
    BY DEF PageKeys, DirectKeys
  <2>2. ASSUME NEW j \in DirectKeys, NEW row, payment' = [payment EXCEPT ![j] = row]
        PROVE  payment'[k] = payment[k]
    BY <2>1, <2>2 DEF PageKeys, CheckoutInvariant, MoneyInvariant, TypeOK
  <2>3. ASSUME NEW s \in Sales, NEW j \in DirectKeys, NEW m \in Methods,
               NEW x \in Sessions \cup {None}, NEW a \in Amounts,
               RegisterSalePayment(s, j, m, x, a)
        PROVE  payment'[k] = payment[k]
    BY <2>2, <2>3 DEF RegisterSalePayment, ReplaySalePayment, NewSalePayment
  <2>4. ASSUME NEW r \in Returns, NEW j \in DirectKeys, NEW m \in Methods,
               NEW x \in Sessions \cup {None}, NEW a \in Amounts,
               RegisterRefund(r, j, m, x, a)
        PROVE  payment'[k] = payment[k]
    BY <2>2, <2>4 DEF RegisterRefund
  <2>5. ASSUME \/ \E s \in Sales : CancelSale(s) \/ RegisterSaleOnAccount(s)
               \/ \E r \in Returns, s \in Sales, a \in Amounts,
                     full \in BOOLEAN : CompleteReturn(r, s, a, full)
               \/ \E x \in Sessions : OpenSession(x) \/ CloseSession(x)
        PROVE  payment' = payment
    BY <2>5 DEF CancelSale, RegisterSaleOnAccount, CompleteReturn, OpenSession,
                CloseSession
  <2>. QED
    BY <1>2, <2>3, <2>4, <2>5 DEF OtherMoney
<1>3. ASSUME \/ \E q \in Requests : Lose(q)
             \/ \E q \in Requests, f \in shown : Submission(q, f)
             \/ \E f \in Forms, s \in Sales : OpenForm(f, s)
             \/ \E f \in shown : ShowRecovery(f)
             \/ \E s \in Sales : CartStep(s) \/ SellDirectly(s) \/ IssueDirectly(s)
             \/ \E s \in Sales, l \in Lacks : ChangeFiscalData(s, l)
             \/ UNCHANGED checkoutVars
      PROVE  payment' = payment
  BY <1>3
  DEF Lose, Submission, SubmitCheckout, SubmitRecovery, Submit, OpenForm,
      ShowRecovery, CartStep, ChangeCart, EditCart, ChangeSession, SellDirectly,
      CompleteSale, IssueDirectly, ChangeFiscalData, checkoutVars, moneyVars
<1>. QED
  BY <1>1, <1>2, <1>3 DEF CheckoutNext

(* A sale that is no longer open keeps its cash session. *)
LEMMA SessionKept ==
    ASSUME CheckoutInvariant, [CheckoutNext]_checkoutVars, NEW s \in Sales,
           status[s] # "open"
    PROVE  saleSession'[s] = saleSession[s]
<1>1. ASSUME NEW r \in Sales, CartStep(r) PROVE saleSession'[s] = saleSession[s]
  BY <1>1 DEF CartStep, ChangeCart, ChangeSession, CheckoutInvariant, CheckoutTypeOK
<1>2. ASSUME NEW q \in Requests, RequestStep(q) \/ Lose(q)
      PROVE  saleSession' = saleSession
  BY <1>2
  DEF RequestStep, BeginOpen, BeginCompleted, BeginEnds, Pay, PayFails, Reread,
      Decide, Issue, IssueFails, Recover, RecoverFails, AfterRecovery, Respond,
      Lose, Goto, Advance, checkoutSaleVars
<1>3. ASSUME \/ \E q \in Requests, f \in shown : Submission(q, f)
             \/ \E f \in Forms, r \in Sales : OpenForm(f, r)
             \/ \E f \in shown : ShowRecovery(f)
             \/ \E r \in Sales : SellDirectly(r) \/ IssueDirectly(r)
             \/ \E r \in Sales, l \in Lacks : ChangeFiscalData(r, l)
             \/ OtherMoney \/ UNCHANGED checkoutVars
      PROVE  saleSession' = saleSession
  BY <1>3
  DEF Submission, SubmitCheckout, SubmitRecovery, Submit, OpenForm, ShowRecovery,
      SellDirectly, IssueDirectly, ChangeFiscalData, OtherMoney, checkoutVars,
      checkoutSaleVars
<1>. QED
  BY <1>1, <1>2, <1>3 DEF CheckoutNext

(* A page's payment is made in the session its sale was completed in, or, through
   a recovery, after that session was closed. *)
LEMMA MadeInSessionStep ==
    ASSUME CheckoutInvariant, [CheckoutNext]_checkoutVars, NEW k \in PageKeys,
           MadeInSession(k)
    PROVE  MadeInSession(k)'
<1>0. /\ MoneyInvariant /\ TypeOK /\ [MoneyNext]_moneyVars
      /\ k \in Keys
  BY CheckoutMoneyStep DEF CheckoutInvariant, MoneyInvariant, PageKeys
<1>1. ASSUME NEW s \in Sales, status[s] # "open"
      PROVE  /\ status'[s] # "open" /\ saleSession'[s] = saleSession[s]
             /\ saleSession[s] \in Sessions /\ sessState[saleSession[s]] = "closed"
                  => sessState'[saleSession[s]] = "closed"
  BY <1>0, <1>1, SoldStep, SessionKept, ClosedStep
<1>2. CASE payment'[k] = payment[k]
  BY <1>1, <1>2 DEF MadeInSession
<1>3. ASSUME NEW q \in Requests, Pay(q) \/ Recover(q), payment'[k] # payment[k]
      PROVE  MadeInSession(k)'
  <2>. DEFINE s == SaleOf(q)
              i == Head(intents[q])
              x == IF Pay(q) THEN saleSession[s] ELSE target[q]
  <2>1. RegisterSalePayment(s, i.key, i.method, x, i.amount)
    BY <1>3 DEF Pay, Recover
  <2>2. s \in Sales
    BY <1>3 DEF Pay, Recover, CheckoutInvariant, RequestInvariant
  <2>3. \/ Pay(q)
        \/ saleSession[s] \in Sessions /\ sessState[saleSession[s]] = "closed"
    BY <1>3, <2>2 DEF Recover, RecoveryAllowed, CheckoutInvariant, CheckoutTypeOK
  <2>. HIDE DEF s, i, x
  <2>4. NewSalePayment(s, i.key, i.method, x, i.amount)
    BY <1>3, <2>1 DEF RegisterSalePayment, ReplaySalePayment
  <2>5. /\ status[s] = "completed"
        /\ payment'[k] = SalePaymentRow(s, i.method, x, i.amount)
    BY <1>0, <1>3, <2>4 DEF NewSalePayment, SalePayable, TypeOK
  <2>6. payment'[k].sale = s /\ payment'[k].session = x
    BY <2>5 DEF SalePaymentRow
  <2>7. /\ status'[s] # "open" /\ saleSession'[s] = saleSession[s]
        /\ saleSession[s] \in Sessions /\ sessState[saleSession[s]] = "closed"
             => sessState'[saleSession[s]] = "closed"
    BY <1>1, <2>2, <2>5
  <2>8. \/ x = saleSession[s]
        \/ saleSession[s] \in Sessions /\ sessState[saleSession[s]] = "closed"
    BY <2>3 DEF x
  <2>. QED
    BY <2>2, <2>6, <2>7, <2>8 DEF MadeInSession
<1>. QED
  BY <1>2, <1>3, PageKeyWritten

(* A completed sale keeps its cash context: only a recovery pays in a session
   other than the sale's, and only once the sale's is closed. *)
THEOREM RecoveredAfterClosing == CheckoutSpec => []RecoveredOnlyAfterClosing
<1>. DEFINE Known == CheckoutInvariant /\ \A k \in PageKeys : MadeInSession(k)
<1>1. CheckoutInit => Known
  BY CheckoutStart DEF CheckoutInit, MoneyInit, NoRow, PageKeys, MadeInSession
<1>2. Known /\ [CheckoutNext]_checkoutVars => Known'
  BY CheckoutStep, MadeInSessionStep DEF PageKeys
<1>3. Known => RecoveredOnlyAfterClosing
  BY DEF PageKeys, MadeInSession, RecoveredOnlyAfterClosing
<1>. QED
  BY <1>1, <1>2, <1>3, PTL DEF CheckoutSpec
===============================================================================
