------------------------------- MODULE Payments -------------------------------
(***************************************************************************)
(* The money of a sale: apps/payments/services.py with the services it     *)
(* calls in the same transaction (the cash movement of the session, the    *)
(* entries of the customer account) and the three events of apps/sales     *)
(* that change what is owed (completion, cancellation, completed return).  *)
(*                                                                         *)
(* Every operation is one database transaction that holds the row lock of  *)
(* its Sale, so it is one action.  Payment and CustomerAccountEntry rows   *)
(* are only ever inserted: the SUM queries of the code are kept as running *)
(* totals (paid, refunded, returned, debt, reduced), and TotalsMatchRows   *)
(* says that they are the sums over the rows.  Amounts are integers        *)
(* (cents).                                                                *)
(***************************************************************************)
EXTENDS Integers, Sums

CONSTANTS
    Sales, Returns,       \* rows of Sale and SaleReturn
    Keys,                 \* idempotency keys of Payment (unique per business)
    Methods, CashMethods, \* payment methods; those that affect the cash register
    Sessions,             \* cash sessions
    None,                 \* a null foreign key
    MaxTotal,             \* bound on the total of a cart
    CreditLimit,          \* CustomerAccount.credit_limit
    AllowSplit            \* POSSettings.allow_split_payments

ASSUME PaymentsAssumption ==
    /\ CashMethods \subseteq Methods
    /\ None \notin Sales /\ None \notin Sessions /\ None \notin Returns
    /\ MaxTotal \in Nat /\ CreditLimit \in Nat
    /\ AllowSplit \in BOOLEAN

VARIABLES
    status, total,        \* Sale.status, Sale.total_amount
    pending, payStatus,   \* Sale.pending_amount, Sale.payment_status
    paid, refunded,       \* SUM of completed sale payments and of refunds
    returned,             \* SUM of completed returns
    charged, debt,        \* a CHARGE entry exists; SUM of the sale's entries
    reduced,              \* minus the SUM of entries "reduction by return"
    linked,               \* keys of the payments with an account entry
    balance, accepts,     \* CustomerAccount.balance; active and not blocked
    payment,              \* payment[k]: the Payment row of key k
    retSale, retAmount,   \* a completed return: its sale and its total
    retReduced,           \* ... the debt it reduced
    retRefunded,          \* ... SUM of its refunds
    sessState, expected   \* CashSession.status, cash expected above the opening

saleVars    == <<status, total, pending, payStatus>>
sumVars     == <<paid, refunded, returned>>
accountVars == <<charged, debt, reduced, linked, balance, accepts>>
retVars     == <<retSale, retAmount, retReduced, retRefunded>>
cashVars    == <<sessState, expected>>
moneyVars   == <<saleVars, sumVars, accountVars, payment, retVars, cashVars>>

NoRow == [kind |-> "none", sale |-> None, method |-> None, amount |-> 0,
          ret |-> None, session |-> None]

TypeOK ==
    /\ status \in [Sales -> {"open", "completed", "returned", "cancelled"}]
    /\ payStatus \in [Sales -> {"unpaid", "partial", "paid", "refunded"}]
    /\ total \in [Sales -> Nat] /\ pending \in [Sales -> Nat]
    /\ paid \in [Sales -> Nat] /\ refunded \in [Sales -> Nat]
    /\ returned \in [Sales -> Nat]
    /\ charged \in [Sales -> BOOLEAN] /\ accepts \in BOOLEAN
    /\ debt \in [Sales -> Int] /\ reduced \in [Sales -> Nat]
    /\ linked \subseteq Keys /\ balance \in Int
    /\ payment \in [Keys -> [kind : {"none", "sale", "refund"},
                             sale : Sales \cup {None},
                             method : Methods \cup {None}, amount : Nat,
                             ret : Returns \cup {None},
                             session : Sessions \cup {None}]]
    /\ retSale \in [Returns -> Sales \cup {None}]
    /\ retAmount \in [Returns -> Nat]
    /\ retReduced \in [Returns -> Nat] /\ retRefunded \in [Returns -> Nat]
    /\ sessState \in [Sessions -> {"unopened", "open", "closed"}]
    /\ expected \in [Sessions -> Int]

MoneyInit ==
    /\ status = [s \in Sales |-> "open"]
    /\ payStatus = [s \in Sales |-> "unpaid"]
    /\ total = [s \in Sales |-> 0] /\ pending = [s \in Sales |-> 0]
    /\ paid = [s \in Sales |-> 0] /\ refunded = [s \in Sales |-> 0]
    /\ returned = [s \in Sales |-> 0]
    /\ charged = [s \in Sales |-> FALSE] /\ debt = [s \in Sales |-> 0]
    /\ reduced = [s \in Sales |-> 0]
    /\ linked = {} /\ balance = 0 /\ accepts = TRUE
    /\ payment = [k \in Keys |-> NoRow]
    /\ retSale = [r \in Returns |-> None]
    /\ retAmount = [r \in Returns |-> 0]
    /\ retReduced = [r \in Returns |-> 0]
    /\ retRefunded = [r \in Returns |-> 0]
    /\ sessState = [x \in Sessions |-> "unopened"]
    /\ expected = [x \in Sessions |-> 0]
-------------------------------------------------------------------------------
(* The balance of a sale from its sums: total t, returned rt, paid p, refunded
   f and debt reduced by returns d. *)
NonNegative(n) == IF n < 0 THEN 0 ELSE n
Lesser(m, n) == IF m < n THEN m ELSE n
EffectiveTotal(t, rt) == NonNegative(t - rt)
NetPaid(p, f) == NonNegative(p - f)
(* Faulty variants of the balance: without its floor, without the returns. *)
UnclampedPendingOf(t, rt, p, f) == EffectiveTotal(t, rt) - NetPaid(p, f)
PendingIgnoringReturns(t, rt, p, f) == NonNegative(t - NetPaid(p, f))

PendingOf(t, rt, p, f) == NonNegative(EffectiveTotal(t, rt) - NetPaid(p, f))

(* A faulty variant that forgets what the customer never paid. *)
ReturnRequiredOfEveryCent(rt, p, d) == NonNegative(rt - d)

(* The money a fully returned sale must give back. *)
MonetaryReturnRequired(rt, p, d) == Lesser(p, NonNegative(rt - d))

PaymentStatusOf(t, rt, p, f, d) ==
    IF p > 0 /\ rt >= t /\ f >= MonetaryReturnRequired(rt, p, d) THEN "refunded"
    ELSE IF p = 0 THEN "unpaid"
    ELSE IF PendingOf(t, rt, p, f) = 0 THEN "paid"
    ELSE "partial"

(* recalculate_sale_payment_state, from the sums as the transaction left them. *)
RecalculateState(s, rt, p, f, d) ==
    /\ pending' = [pending EXCEPT ![s] = PendingOf(total[s], rt, p, f)]
    /\ payStatus' = [payStatus EXCEPT
                        ![s] = PaymentStatusOf(total[s], rt, p, f, d)]

(* Faulty variants of what may be refunded: the sale's whole reduction is taken
   off, no sale bounds it. *)
CapacityLessEveryReduction(r) == NonNegative(retAmount[r] - reduced[retSale[r]])
RefundBoundedByReturnOnly(r) ==
    NonNegative(retAmount[r] - retReduced[r] - retRefunded[r])

(* get_sale_return_refund_summary: what may still be refunded on return r. *)
MonetaryCapacity(r) == NonNegative(retAmount[r] - retReduced[r])
RemainingRefund(r) ==
    LET s == retSale[r] IN
    Lesser(NonNegative(NetPaid(paid[s], refunded[s])
                         - EffectiveTotal(total[s], returned[s])),
           NonNegative(MonetaryCapacity(r) - retRefunded[r]))

(* A method that moves cash needs a session; a named session must be open. *)
CashContext(m, x) ==
    /\ x = None => m \notin CashMethods
    /\ x # None => sessState[x] = "open"

(* A faulty variant that counts every method as cash. *)
CashMovementOfEveryMethod(m, x, delta) ==
    /\ expected' = IF x # None THEN [expected EXCEPT ![x] = @ + delta]
                               ELSE expected
    /\ UNCHANGED sessState

(* register_payment_cash_movement *)
CashMovement(m, x, delta) ==
    /\ expected' = IF m \in CashMethods
                   THEN [expected EXCEPT ![x] = @ + delta]
                   ELSE expected
    /\ UNCHANGED sessState

UsedMethods(s) ==
    {payment[k].method : k \in {j \in Keys : /\ payment[j].kind = "sale"
                                             /\ payment[j].sale = s}}

(* A faulty variant without the bound of the debt itself. *)
DebtPaymentInFull(s, k, a) == IF charged[s] /\ k \notin linked THEN a ELSE 0

(* What _apply_customer_debt_payment takes off the account for payment k. *)
DebtPayment(s, k, a) ==
    IF charged[s] /\ k \notin linked
    THEN Lesser(a, NonNegative(debt[s]))
    ELSE 0

(* A faulty variant that inserts the entry and forgets the account. *)
ReduceDebtOnly(s, n) ==
    /\ debt' = [debt EXCEPT ![s] = @ - n]
    /\ UNCHANGED balance

ReduceDebt(s, n) ==
    /\ debt' = [debt EXCEPT ![s] = @ - n]
    /\ balance' = balance - n

(* _apply_customer_debt_payment *)
ApplyDebtPayment(s, k, a) ==
    LET n == DebtPayment(s, k, a) IN
    /\ ReduceDebt(s, n)
    /\ linked' = IF n > 0 THEN linked \cup {k} ELSE linked
-------------------------------------------------------------------------------
(* Every cart mutation leaves pending_amount = total_amount. *)
EditCart(s, t) ==
    /\ status[s] = "open"
    /\ total' = [total EXCEPT ![s] = t]
    /\ pending' = [pending EXCEPT ![s] = t]
    /\ UNCHANGED <<status, payStatus, sumVars, accountVars, payment, retVars,
                   cashVars>>

CompleteSale(s) ==
    /\ status[s] = "open"
    /\ total[s] > 0
    /\ status' = [status EXCEPT ![s] = "completed"]
    /\ UNCHANGED <<total, pending, payStatus, sumVars, accountVars, payment,
                   retVars, cashVars>>

CancelSale(s) ==
    /\ status[s] = "open"
    /\ status' = [status EXCEPT ![s] = "cancelled"]
    /\ UNCHANGED <<total, pending, payStatus, sumVars, accountVars, payment,
                   retVars, cashVars>>

SalePaymentRow(s, m, x, a) ==
    [kind |-> "sale", sale |-> s, method |-> m, amount |-> a, ret |-> None,
     session |-> x]

(* A key seen before is accepted for the same payment only. *)
SaleReplay(s, k, m, x, a) ==
    status[s] = "completed" /\ payment[k] = SalePaymentRow(s, m, x, a)

(* What register_sale_payment asks of a payment with a new key. *)
SalePayable(s, k, m, x, a) ==
    /\ status[s] = "completed"
    /\ payment[k].kind = "none"
    /\ CashContext(m, x)
    /\ 0 < a
    /\ a <= PendingOf(total[s], returned[s], paid[s], refunded[s])
    /\ UsedMethods(s) = {} \/ m \in UsedMethods(s) \/ AllowSplit

(* A completed payment is applied to the customer's debt again unless it already
   has an account entry. *)
ReplaySalePayment(s, k, m, x, a) ==
    /\ SaleReplay(s, k, m, x, a)
    /\ ApplyDebtPayment(s, k, a)
    /\ UNCHANGED <<saleVars, sumVars, charged, reduced, accepts, payment, retVars,
                   cashVars>>

NewSalePayment(s, k, m, x, a) ==
    /\ SalePayable(s, k, m, x, a)
    /\ payment' = [payment EXCEPT ![k] = SalePaymentRow(s, m, x, a)]
    /\ CashMovement(m, x, a)
    /\ paid' = [paid EXCEPT ![s] = @ + a]
    /\ RecalculateState(s, returned[s], paid[s] + a, refunded[s], reduced[s])
    /\ ApplyDebtPayment(s, k, a)
    /\ UNCHANGED <<status, total, refunded, returned, charged, reduced, accepts,
                   retVars>>

RegisterSalePayment(s, k, m, x, a) ==
    ReplaySalePayment(s, k, m, x, a) \/ NewSalePayment(s, k, m, x, a)

(* A replayed refund returns the existing row and changes nothing. *)
RegisterRefund(r, k, m, x, a) ==
    LET s == retSale[r] IN
    /\ s # None
    /\ payment[k].kind = "none"
    /\ CashContext(m, x)
    /\ 0 < a
    /\ retRefunded[r] + a <= MonetaryCapacity(r)
    /\ a <= RemainingRefund(r)
    /\ refunded[s] + a <= paid[s]
    /\ payment' = [payment EXCEPT ![k] =
                     [kind |-> "refund", sale |-> s, method |-> m, amount |-> a,
                      ret |-> r, session |-> x]]
    /\ CashMovement(m, x, -a)
    /\ refunded' = [refunded EXCEPT ![s] = @ + a]
    /\ retRefunded' = [retRefunded EXCEPT ![r] = @ + a]
    /\ RecalculateState(s, returned[s], paid[s], refunded[s] + a, reduced[s])
    /\ UNCHANGED <<status, total, paid, returned, accountVars, retSale,
                   retAmount, retReduced>>

(* The pending amount becomes the customer's debt, once per sale. *)
RegisterSaleOnAccount(s) ==
    LET due == PendingOf(total[s], returned[s], paid[s], refunded[s]) IN
    /\ status[s] = "completed"
    /\ ~charged[s]
    /\ due > 0
    /\ accepts
    /\ balance + due <= CreditLimit
    /\ charged' = [charged EXCEPT ![s] = TRUE]
    /\ debt' = [debt EXCEPT ![s] = @ + due]
    /\ balance' = balance + due
    /\ RecalculateState(s, returned[s], paid[s], refunded[s], reduced[s])
    /\ UNCHANGED <<status, total, sumVars, reduced, linked, accepts, payment,
                   retVars, cashVars>>

(* A return of value a is completed.  A full return takes what is left of every
   line, so it brings the returned sum to the total.  A partial one is rounded
   half up by line: no line is worth more than it sold for, and the rounded parts
   of a line are together less than twice what it sold for.  Nothing is left to
   return of a "returned" sale. *)
CompleteReturn(r, s, a, full) ==
    LET n == IF charged[s] THEN Lesser(a, NonNegative(debt[s])) ELSE 0 IN
    /\ retSale[r] = None
    /\ status[s] = "completed"
    /\ 0 < a
    /\ IF full THEN returned[s] + a = total[s]
               ELSE a <= total[s] /\ returned[s] + a < 2 * total[s]
    /\ retSale' = [retSale EXCEPT ![r] = s]
    /\ retAmount' = [retAmount EXCEPT ![r] = a]
    /\ retReduced' = [retReduced EXCEPT ![r] = n]
    /\ returned' = [returned EXCEPT ![s] = @ + a]
    /\ reduced' = [reduced EXCEPT ![s] = @ + n]
    /\ ReduceDebt(s, n)
    /\ status' = [status EXCEPT ![s] = IF full THEN "returned" ELSE "completed"]
    /\ RecalculateState(s, returned[s] + a, paid[s], refunded[s], reduced[s] + n)
    /\ UNCHANGED <<total, paid, refunded, charged, linked, accepts, payment,
                   retRefunded, cashVars>>

(* The customer or the account is blocked, deactivated or allowed again. *)
UpdateAccountSettings ==
    /\ accepts' = ~accepts
    /\ UNCHANGED <<saleVars, sumVars, charged, debt, reduced, linked, balance,
                   payment, retVars, cashVars>>

OpenSession(x) ==
    /\ sessState[x] = "unopened"
    /\ sessState' = [sessState EXCEPT ![x] = "open"]
    /\ UNCHANGED <<saleVars, sumVars, accountVars, payment, retVars, expected>>

CloseSession(x) ==
    /\ sessState[x] = "open"
    /\ sessState' = [sessState EXCEPT ![x] = "closed"]
    /\ UNCHANGED <<saleVars, sumVars, accountVars, payment, retVars, expected>>

Amounts == 1 .. MaxTotal

MoneyNext ==
    \/ \E s \in Sales : \/ \E t \in 0 .. MaxTotal : EditCart(s, t)
                        \/ CompleteSale(s)
                        \/ CancelSale(s)
                        \/ RegisterSaleOnAccount(s)
    \/ \E s \in Sales, k \in Keys, m \in Methods, x \in Sessions \cup {None},
          a \in Amounts : RegisterSalePayment(s, k, m, x, a)
    \/ \E r \in Returns, k \in Keys, m \in Methods, x \in Sessions \cup {None},
          a \in Amounts : RegisterRefund(r, k, m, x, a)
    \/ \E r \in Returns, s \in Sales, a \in Amounts, full \in BOOLEAN :
          CompleteReturn(r, s, a, full)
    \/ UpdateAccountSettings
    \/ \E x \in Sessions : OpenSession(x) \/ CloseSession(x)

MoneySpec == MoneyInit /\ [][MoneyNext]_moneyVars
-------------------------------------------------------------------------------
(* No sale collects, forgives and still claims more than it sold, and never
   gives back more than it collected: every operation of payments/services.py
   and the debt reduction of a return together respect the sale's total. *)
MoneyBound ==
    \A s \in Sales : /\ refunded[s] <= paid[s]
                     /\ paid[s] + reduced[s] + pending[s] <= total[s]

(* Whatever the order of payments, replays, charges and returns, the debt on
   the customer's account for a sale never exceeds what the sale still claims. *)
DebtWithinPending == \A s \in Sales : 0 <= debt[s] /\ debt[s] <= pending[s]

(* When returns leave the shop holding more money than the goods kept are worth,
   some completed return still lets it be refunded: the per-return capacity of
   get_sale_return_refund_summary strands no money. *)
NoStrandedMoney ==
    \A s \in Sales :
        NetPaid(paid[s], refunded[s]) > EffectiveTotal(total[s], returned[s])
          => \E r \in Returns : retSale[r] = s /\ RemainingRefund(r) > 0

(* REFUNDED is shown exactly when everything came back and every cent was paid
   back, although the code compares with min(paid, returned - reduced). *)
RefundedMeansMoneyBack ==
    \A s \in Sales :
        payStatus[s] = "refunded" <=> /\ status[s] # "open" /\ paid[s] > 0
                                      /\ returned[s] >= total[s]
                                      /\ refunded[s] = paid[s]

(* No return is refunded beyond the part of it that did not reduce debt. *)
RefundsWithinReturn ==
    \A r \in Returns : retReduced[r] + retRefunded[r] <= retAmount[r]

(* Once a sale is completed nothing reopens its claim on the customer: a refund
   lowers the money paid and still leaves the pending amount alone. *)
PendingNeverGrows ==
    [][\A s \in Sales : status[s] # "open" => pending'[s] <= pending[s]]_moneyVars

(* The cash counted at closing stays true: no payment or refund that raced the
   closing moves the expected cash of a closed session. *)
ClosedSessionFrozen ==
    [][\A x \in Sessions : sessState[x] = "closed"
          => sessState'[x] = "closed" /\ expected'[x] = expected[x]]_moneyVars

(* The rows behind the totals: those of a sale, those that move the cash of a
   session, the refunds of a return. *)
SaleRows(s, kind) ==
    {k \in Keys : payment[k].sale = s /\ payment[k].kind = kind}
CashRows(x, kind) ==
    {k \in Keys : /\ payment[k].session = x /\ payment[k].kind = kind
                  /\ payment[k].method \in CashMethods}
RefundRows(r) == {k \in Keys : payment[k].ret = r}
AmountsIn(rows, K) == [k \in Keys |-> IF k \in K THEN rows[k].amount ELSE 0]
SumOfRows(K) == UnitSum(AmountsIn(payment, K))

(* The stored totals agree with the rows: what a sale collected and paid back and
   what a return paid back are the sums of their Payment rows, the account balance
   is the sum of the debts of its sales, and the cash a session expects is what
   its payments moved. *)
TotalsMatchRows ==
    /\ \A s \in Sales : /\ paid[s] = SumOfRows(SaleRows(s, "sale"))
                        /\ refunded[s] = SumOfRows(SaleRows(s, "refund"))
    /\ \A r \in Returns : retRefunded[r] = SumOfRows(RefundRows(r))
    /\ balance = UnitSum(debt)
    /\ \A x \in Sessions : expected[x] = SumOfRows(CashRows(x, "sale"))
                                           - SumOfRows(CashRows(x, "refund"))

(* The debt registered for a sale is its pending amount. *)
DebtIsPending == \A s \in Sales : charged[s] => debt[s] = pending[s]

(* What the abstract settlement sees of the sales. *)
keptValue == [s \in Sales |-> IF status[s] \in {"completed", "returned"}
                              THEN EffectiveTotal(total[s], returned[s]) ELSE 0]
moneyHeld == [s \in Sales |-> NetPaid(paid[s], refunded[s])]
amountDue == [s \in Sales |-> IF status[s] \in {"completed", "returned"}
                              THEN pending[s] ELSE 0]
Abstract == INSTANCE Settlement WITH
                value <- keptValue, held <- moneyHeld, due <- amountDue

(* The payment engine implements the abstract settlement. *)
ImplementsSettlement == Abstract!SettlementSpec
===============================================================================
