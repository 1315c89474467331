---------------------------- MODULE PaymentsProofs ----------------------------
(***************************************************************************)
(* Proofs about Payments for any sales, returns, keys, methods and bounds. *)
(*                                                                         *)
(* The safety properties are not inductive by themselves: that a payment   *)
(* cannot push a sale beyond its total needs to know that the stored       *)
(* pending amount is the one the sums give, and that a debt stays within   *)
(* the pending amount needs to know that a sale never charged has none.    *)
(* MoneyInvariant adds these facts.                                        *)
(***************************************************************************)
EXTENDS Payments, SumsProofs

(* What is true of the money of one sale in every reachable state. *)
Untouched(s) ==
    /\ paid[s] = 0 /\ refunded[s] = 0 /\ returned[s] = 0
    /\ payStatus[s] = "unpaid"
    /\ ~charged[s]
    /\ pending[s] = total[s]

Recalculated(s) ==
    /\ pending[s] = PendingOf(total[s], returned[s], paid[s], refunded[s])
    /\ payStatus[s] = PaymentStatusOf(total[s], returned[s], paid[s],
                                      refunded[s], reduced[s])

SaleInvariant(s) ==
    /\ status[s] \in {"open", "cancelled"} => Untouched(s)
    /\ Recalculated(s) \/ status[s] = "open"
    /\ ~charged[s] => debt[s] = 0 /\ reduced[s] = 0
    /\ refunded[s] <= paid[s]
    /\ paid[s] + reduced[s] + pending[s] <= total[s]
    /\ 0 <= debt[s] /\ debt[s] <= pending[s]

ReturnInvariant(r) ==
    /\ retSale[r] = None => /\ retAmount[r] = 0
                            /\ retReduced[r] = 0 /\ retRefunded[r] = 0
    /\ retReduced[r] + retRefunded[r] <= retAmount[r]

MoneyInvariant ==
    /\ TypeOK
    /\ \A s \in Sales : SaleInvariant(s)
    /\ \A r \in Returns : ReturnInvariant(r)
    /\ \A k \in linked : payment[k].kind # "none"
-------------------------------------------------------------------------------
(* The balance functions stay natural numbers. *)
LEMMA PendingType ==
    ASSUME NEW t \in Nat, NEW rt \in Nat, NEW p \in Nat, NEW f \in Nat, NEW d \in Nat
    PROVE  /\ PendingOf(t, rt, p, f) \in Nat
           /\ PaymentStatusOf(t, rt, p, f, d)
                \in {"unpaid", "partial", "paid", "refunded"}
BY SMT DEF PendingOf, EffectiveTotal, NetPaid, NonNegative, PaymentStatusOf

(* What reduces a debt is never more than the debt. *)
LEMMA LesserBounds ==
    ASSUME NEW m \in Int, NEW n \in Int
    PROVE  /\ Lesser(m, n) <= m /\ Lesser(m, n) <= n
           /\ Lesser(m, n) \in {m, n}
BY SMT DEF Lesser
-------------------------------------------------------------------------------
(* Typing, an operation at a time. *)
LEMMA DebtPaymentType ==
    ASSUME TypeOK, NEW s \in Sales, NEW k \in Keys, NEW a \in Nat
    PROVE  DebtPayment(s, k, a) \in Nat
BY SMT DEF TypeOK, DebtPayment, Lesser, NonNegative

LEMMA RecalculateType ==
    ASSUME TypeOK, NEW s \in Sales, NEW rt \in Nat, NEW p \in Nat, NEW f \in Nat,
           NEW d \in Nat, RecalculateState(s, rt, p, f, d)
    PROVE  /\ pending' \in [Sales -> Nat]
           /\ payStatus' \in [Sales -> {"unpaid", "partial", "paid", "refunded"}]
<1>1. /\ PendingOf(total[s], rt, p, f) \in Nat
      /\ PaymentStatusOf(total[s], rt, p, f, d)
           \in {"unpaid", "partial", "paid", "refunded"}
  BY PendingType DEF TypeOK
<1>. QED
  BY <1>1 DEF TypeOK, RecalculateState

LEMMA CashMovementType ==
    ASSUME TypeOK, NEW m, NEW x, NEW delta \in Int, CashMovement(m, x, delta)
    PROVE  expected' \in [Sessions -> Int] /\ sessState' = sessState
<1>1. ASSUME NEW y \in Sessions
      PROVE  [expected EXCEPT ![x] = @ + delta][y] \in Int
  BY DEF TypeOK
<1>. QED
  BY <1>1 DEF TypeOK, CashMovement

LEMMA ApplyDebtPaymentType ==
    ASSUME TypeOK, NEW s \in Sales, NEW k \in Keys, NEW a \in Nat,
           ApplyDebtPayment(s, k, a)
    PROVE  /\ debt' \in [Sales -> Int] /\ balance' \in Int
           /\ linked' \subseteq Keys
<1>1. DebtPayment(s, k, a) \in Nat
  BY DebtPaymentType
<1>. QED
  BY <1>1 DEF TypeOK, ApplyDebtPayment, ReduceDebt

LEMMA SalePaymentType ==
    ASSUME TypeOK, NEW s \in Sales, NEW k \in Keys, NEW m \in Methods,
           NEW x \in Sessions \cup {None}, NEW a \in Nat,
           RegisterSalePayment(s, k, m, x, a)
    PROVE  TypeOK'
<1>1. CASE ReplaySalePayment(s, k, m, x, a)
  <2>1. /\ debt' \in [Sales -> Int] /\ balance' \in Int
        /\ linked' \subseteq Keys
    BY <1>1, ApplyDebtPaymentType DEF ReplaySalePayment, SaleReplay, SalePaymentRow
  <2>. QED
    BY <1>1, <2>1 DEF TypeOK, ReplaySalePayment, SaleReplay, SalePaymentRow, saleVars, sumVars, retVars,
                      cashVars
<1>2. CASE NewSalePayment(s, k, m, x, a)
  <2>1. /\ debt' \in [Sales -> Int] /\ balance' \in Int
        /\ linked' \subseteq Keys
    BY <1>2, ApplyDebtPaymentType DEF NewSalePayment, SalePayable, SalePaymentRow
  <2>2. /\ pending' \in [Sales -> Nat]
        /\ payStatus' \in [Sales -> {"unpaid", "partial", "paid", "refunded"}]
    <3>1. /\ returned[s] \in Nat /\ paid[s] + a \in Nat /\ refunded[s] \in Nat
          /\ reduced[s] \in Nat
      BY DEF TypeOK
    <3>. QED
      BY <1>2, <3>1, RecalculateType DEF NewSalePayment, SalePayable, SalePaymentRow
  <2>3. expected' \in [Sessions -> Int] /\ sessState' = sessState
    BY <1>2, CashMovementType DEF NewSalePayment, SalePayable, SalePaymentRow
  <2>4. paid' \in [Sales -> Nat]
    BY <1>2 DEF TypeOK, NewSalePayment, SalePayable, SalePaymentRow
  <2>. QED
    BY <1>2, <2>1, <2>2, <2>3, <2>4 DEF TypeOK, NewSalePayment, SalePayable, SalePaymentRow, retVars
<1>. QED
  BY <1>1, <1>2 DEF RegisterSalePayment

LEMMA RefundType ==
    ASSUME TypeOK, NEW r \in Returns, NEW k \in Keys, NEW m \in Methods,
           NEW x \in Sessions \cup {None}, NEW a \in Nat,
           RegisterRefund(r, k, m, x, a)
    PROVE  TypeOK' /\ retSale[r] \in Sales
<1>. DEFINE s == retSale[r]
<1>0. s \in Sales
  BY DEF TypeOK, RegisterRefund
<1>1. /\ pending' \in [Sales -> Nat]
      /\ payStatus' \in [Sales -> {"unpaid", "partial", "paid", "refunded"}]
  <2>1. /\ returned[s] \in Nat /\ paid[s] \in Nat /\ refunded[s] + a \in Nat
        /\ reduced[s] \in Nat
    BY <1>0 DEF TypeOK
  <2>. QED
    BY <1>0, <2>1, RecalculateType DEF RegisterRefund
<1>2. expected' \in [Sessions -> Int] /\ sessState' = sessState
  BY CashMovementType DEF RegisterRefund
<1>3. refunded' \in [Sales -> Nat] /\ retRefunded' \in [Returns -> Nat]
  BY <1>0 DEF TypeOK, RegisterRefund
<1>. QED
  BY <1>0, <1>1, <1>2, <1>3 DEF TypeOK, RegisterRefund, accountVars

LEMMA OnAccountType ==
    ASSUME TypeOK, NEW s \in Sales, RegisterSaleOnAccount(s)
    PROVE  TypeOK'
<1>. DEFINE due == PendingOf(total[s], returned[s], paid[s], refunded[s])
<1>1. due \in Nat
  BY PendingType DEF TypeOK
<1>2. /\ pending' \in [Sales -> Nat]
      /\ payStatus' \in [Sales -> {"unpaid", "partial", "paid", "refunded"}]
  BY RecalculateType DEF RegisterSaleOnAccount, TypeOK
<1>3. debt' \in [Sales -> Int] /\ balance' \in Int
  BY <1>1 DEF TypeOK, RegisterSaleOnAccount
<1>. QED
  BY <1>2, <1>3 DEF TypeOK, RegisterSaleOnAccount, sumVars, retVars, cashVars

LEMMA ReturnType ==
    ASSUME TypeOK, NEW r \in Returns, NEW s \in Sales, NEW a \in Nat,
           NEW full \in BOOLEAN, CompleteReturn(r, s, a, full)
    PROVE  TypeOK'
<1>. DEFINE n == IF charged[s] THEN Lesser(a, NonNegative(debt[s])) ELSE 0
<1>1. n \in Nat
  BY SMT DEF TypeOK, Lesser, NonNegative
<1>. HIDE DEF n
<1>2. /\ pending' \in [Sales -> Nat]
      /\ payStatus' \in [Sales -> {"unpaid", "partial", "paid", "refunded"}]
  <2>1. /\ returned[s] + a \in Nat /\ paid[s] \in Nat /\ refunded[s] \in Nat
        /\ reduced[s] + n \in Nat
    BY <1>1 DEF TypeOK
  <2>. QED
    BY <2>1, RecalculateType DEF CompleteReturn, n
<1>3. /\ debt' \in [Sales -> Int] /\ balance' \in Int
      /\ reduced' \in [Sales -> Nat] /\ returned' \in [Sales -> Nat]
  <2>1. /\ reduced' = [reduced EXCEPT ![s] = @ + n]
        /\ debt' = [debt EXCEPT ![s] = @ - n] /\ balance' = balance - n
        /\ returned' = [returned EXCEPT ![s] = @ + a]
    BY DEF CompleteReturn, ReduceDebt, n
  <2>. QED
    BY <1>1, <2>1 DEF TypeOK
<1>4. /\ retSale' \in [Returns -> Sales \cup {None}]
      /\ retAmount' \in [Returns -> Nat] /\ retReduced' \in [Returns -> Nat]
  <2>1. retReduced' = [retReduced EXCEPT ![r] = n]
    BY DEF CompleteReturn, n
  <2>. QED
    BY <1>1, <2>1 DEF TypeOK, CompleteReturn
<1>5. status' \in [Sales -> {"open", "completed", "returned", "cancelled"}]
  BY DEF TypeOK, CompleteReturn
<1>. QED
  BY <1>2, <1>3, <1>4, <1>5 DEF TypeOK, CompleteReturn, cashVars

LEMMA OtherType ==
    ASSUME TypeOK,
           \/ \E s \in Sales : \/ \E t \in 0 .. MaxTotal : EditCart(s, t)
                               \/ CompleteSale(s) \/ CancelSale(s)
           \/ UpdateAccountSettings
           \/ \E x \in Sessions : OpenSession(x) \/ CloseSession(x)
           \/ UNCHANGED moneyVars
    PROVE  TypeOK'
<1>. USE DEF TypeOK, moneyVars, saleVars, sumVars, accountVars, retVars, cashVars
<1>1. ASSUME NEW s \in Sales, NEW t \in 0 .. MaxTotal, EditCart(s, t)
      PROVE  TypeOK'
  BY <1>1, PaymentsAssumption DEF EditCart
<1>2. ASSUME NEW s \in Sales, CompleteSale(s) \/ CancelSale(s)
      PROVE  TypeOK'
  BY <1>2 DEF CompleteSale, CancelSale
<1>3. CASE UpdateAccountSettings
  BY <1>3 DEF UpdateAccountSettings
<1>4. ASSUME NEW x \in Sessions, OpenSession(x) \/ CloseSession(x)
      PROVE  TypeOK'
  BY <1>4 DEF OpenSession, CloseSession
<1>5. CASE UNCHANGED moneyVars
  BY <1>5
<1>. QED
  BY <1>1, <1>2, <1>3, <1>4, <1>5

LEMMA TypeStep == TypeOK /\ [MoneyNext]_moneyVars => TypeOK'
<1>. SUFFICES ASSUME TypeOK, [MoneyNext]_moneyVars PROVE TypeOK'
  OBVIOUS
<1>. Amounts \subseteq Nat
  BY PaymentsAssumption DEF Amounts
<1>. QED
  BY SalePaymentType, RefundType, OnAccountType, ReturnType, OtherType
  DEF MoneyNext
-------------------------------------------------------------------------------
(* The balance of a completed sale, as the guards of the operations read it. *)
LEMMA CompletedSale ==
    ASSUME MoneyInvariant, NEW s \in Sales, status[s] \in {"completed", "returned"}
    PROVE  /\ pending[s] = PendingOf(total[s], returned[s], paid[s], refunded[s])
           /\ payStatus[s] = PaymentStatusOf(total[s], returned[s], paid[s],
                                             refunded[s], reduced[s])
BY DEF MoneyInvariant, SaleInvariant, Recalculated

(* What each operation does to the stored pending amounts.  A payment lowers that
   of its sale by the amount paid. *)
LEMMA PaymentPending ==
    ASSUME MoneyInvariant, NEW s \in Sales, NEW k \in Keys, NEW m, NEW x,
           NEW a \in Nat, NewSalePayment(s, k, m, x, a)
    PROVE  /\ a <= pending[s]
           /\ pending' = [pending EXCEPT ![s] = @ - a]
<1>1. /\ total[s] \in Nat /\ returned[s] \in Nat /\ paid[s] \in Nat
      /\ refunded[s] \in Nat /\ refunded[s] <= paid[s]
  BY DEF MoneyInvariant, TypeOK, SaleInvariant
<1>2. /\ pending[s] = PendingOf(total[s], returned[s], paid[s], refunded[s])
      /\ a <= PendingOf(total[s], returned[s], paid[s], refunded[s])
  BY CompletedSale DEF NewSalePayment, SalePayable, SalePaymentRow
<1>3. PendingOf(total[s], returned[s], paid[s] + a, refunded[s]) = pending[s] - a
  BY <1>1, <1>2 DEF PendingOf, EffectiveTotal, NetPaid, NonNegative
<1>. QED
  BY <1>2, <1>3 DEF NewSalePayment, SalePayable, SalePaymentRow, RecalculateState, MoneyInvariant, TypeOK

(* A refund only gives back what was paid above the worth of the goods kept:
   nothing is pending before it, and nothing after it. *)
LEMMA RefundPending ==
    ASSUME MoneyInvariant, NEW r \in Returns, NEW s \in Sales, s = retSale[r],
           NEW k \in Keys, NEW m, NEW x, NEW a \in Nat,
           RegisterRefund(r, k, m, x, a)
    PROVE  /\ a <= NetPaid(paid[s], refunded[s])
                     - EffectiveTotal(total[s], returned[s])
           /\ PendingOf(total[s], returned[s], paid[s], refunded[s] + a) = 0
           /\ pending[s] = 0
           /\ pending' = pending
<1>1. /\ total[s] \in Nat /\ returned[s] \in Nat /\ paid[s] \in Nat
      /\ refunded[s] \in Nat /\ pending[s] \in Nat
      /\ retAmount[r] \in Nat /\ retReduced[r] \in Nat /\ retRefunded[r] \in Nat
  BY DEF MoneyInvariant, TypeOK
<1>2. refunded[s] + a <= paid[s] /\ 0 < a
  BY DEF RegisterRefund
<1>3. a <= NetPaid(paid[s], refunded[s]) - EffectiveTotal(total[s], returned[s])
  <2>1. a <= RemainingRefund(r)
    BY DEF RegisterRefund
  <2>2. RemainingRefund(r) <= NonNegative(NetPaid(paid[s], refunded[s])
                                - EffectiveTotal(total[s], returned[s]))
    BY <1>1, LesserBounds
    DEF RemainingRefund, MonetaryCapacity, NonNegative, NetPaid, EffectiveTotal
  <2>3. /\ NetPaid(paid[s], refunded[s]) \in Int
        /\ EffectiveTotal(total[s], returned[s]) \in Int
        /\ RemainingRefund(r) \in Int
    BY <1>1 DEF RemainingRefund, MonetaryCapacity, NonNegative, NetPaid,
                EffectiveTotal, Lesser
  <2>. QED
    BY <1>2, <2>1, <2>2, <2>3 DEF NonNegative
<1>4. status[s] \in {"completed", "returned"}
  BY <1>1, <1>2 DEF MoneyInvariant, SaleInvariant, Untouched, TypeOK
<1>5. /\ PendingOf(total[s], returned[s], paid[s], refunded[s]) = 0
      /\ PendingOf(total[s], returned[s], paid[s], refunded[s] + a) = 0
  BY <1>1, <1>2, <1>3 DEF PendingOf, EffectiveTotal, NetPaid, NonNegative
<1>6. pending[s] = 0
  BY <1>4, <1>5, CompletedSale
<1>7. pending' = [pending EXCEPT ![s] = 0]
  BY <1>5 DEF RegisterRefund, RecalculateState
<1>. QED
  BY <1>3, <1>5, <1>6, <1>7 DEF MoneyInvariant, TypeOK

LEMMA OnAccountPending ==
    ASSUME MoneyInvariant, NEW s \in Sales, RegisterSaleOnAccount(s)
    PROVE  pending' = pending /\ payStatus' = payStatus
BY CompletedSale
DEF RegisterSaleOnAccount, RecalculateState, MoneyInvariant, TypeOK

(* A return of value a lowers the pending amount by a, or to nothing. *)
LEMMA ReturnPending ==
    ASSUME MoneyInvariant, NEW r \in Returns, NEW s \in Sales, NEW a \in Nat,
           NEW full \in BOOLEAN, CompleteReturn(r, s, a, full)
    PROVE  pending' = [pending EXCEPT ![s] = NonNegative(@ - a)]
<1>1. /\ total[s] \in Nat /\ returned[s] \in Nat /\ paid[s] \in Nat
      /\ refunded[s] \in Nat
  BY DEF MoneyInvariant, TypeOK
<1>2. pending[s] = PendingOf(total[s], returned[s], paid[s], refunded[s])
  BY CompletedSale DEF CompleteReturn
<1>3. PendingOf(total[s], returned[s] + a, paid[s], refunded[s])
        = NonNegative(pending[s] - a)
  BY <1>1, <1>2 DEF PendingOf, EffectiveTotal, NetPaid, NonNegative
<1>. QED
  BY <1>3 DEF CompleteReturn, RecalculateState, MoneyInvariant, TypeOK
-------------------------------------------------------------------------------
(* A sale of which the step changes nothing keeps its invariant. *)
LEMMA SaleUntouched ==
    ASSUME NEW s \in Sales, SaleInvariant(s),
           status'[s] = status[s], total'[s] = total[s],
           pending'[s] = pending[s], payStatus'[s] = payStatus[s],
           paid'[s] = paid[s], refunded'[s] = refunded[s],
           returned'[s] = returned[s], charged'[s] = charged[s],
           debt'[s] = debt[s], reduced'[s] = reduced[s]
    PROVE  SaleInvariant(s)'
BY DEF SaleInvariant, Untouched, Recalculated

LEMMA ReturnsUntouched ==
    ASSUME MoneyInvariant, UNCHANGED retVars
    PROVE  \A r \in Returns : ReturnInvariant(r)'
BY DEF MoneyInvariant, ReturnInvariant, retVars

LEMMA DebtPaymentBounds ==
    ASSUME MoneyInvariant, NEW s \in Sales, NEW k \in Keys, NEW a \in Nat
    PROVE  /\ DebtPayment(s, k, a) \in Nat
           /\ DebtPayment(s, k, a) <= a /\ DebtPayment(s, k, a) <= debt[s]
           /\ ~charged[s] => DebtPayment(s, k, a) = 0
           /\ charged[s] /\ k \notin linked
                => DebtPayment(s, k, a) = Lesser(a, debt[s])
BY SMT DEF MoneyInvariant, TypeOK, SaleInvariant, DebtPayment, Lesser, NonNegative

(* A replay only takes from the debt what is there. *)
LEMMA ReplayInvariant ==
    ASSUME MoneyInvariant, NEW s \in Sales, NEW k \in Keys, NEW m \in Methods,
           NEW x \in Sessions \cup {None}, NEW a \in Nat,
           ReplaySalePayment(s, k, m, x, a)
    PROVE  MoneyInvariant'
<1>1. TypeOK'
  BY SalePaymentType DEF MoneyInvariant, RegisterSalePayment
<1>2. ASSUME NEW q \in Sales PROVE SaleInvariant(q)'
  <2>1. /\ DebtPayment(s, k, a) \in Nat /\ DebtPayment(s, k, a) <= debt[s]
        /\ ~charged[s] => DebtPayment(s, k, a) = 0
        /\ debt' = [debt EXCEPT ![s] = @ - DebtPayment(s, k, a)]
    BY DebtPaymentBounds DEF ReplaySalePayment, SaleReplay, SalePaymentRow, ApplyDebtPayment, ReduceDebt
  <2>2. debt[q] \in Int /\ debt \in [Sales -> Int] /\ pending[q] \in Nat
    BY DEF MoneyInvariant, TypeOK
  <2>3. /\ 0 <= debt'[q] /\ debt'[q] <= debt[q]
        /\ ~charged[q] => debt'[q] = debt[q]
    BY <2>1, <2>2 DEF MoneyInvariant, SaleInvariant
  <2>4. debt'[q] \in Int
    BY <1>1 DEF TypeOK
  <2>. QED
    BY <2>2, <2>3, <2>4 DEF MoneyInvariant, SaleInvariant, Untouched, Recalculated,
       ReplaySalePayment, SaleReplay, SalePaymentRow, saleVars, sumVars
<1>3. \A r \in Returns : ReturnInvariant(r)'
  BY ReturnsUntouched DEF ReplaySalePayment, SaleReplay, SalePaymentRow
<1>4. \A j \in linked' : payment'[j].kind # "none"
  BY DEF MoneyInvariant, ReplaySalePayment, SaleReplay, SalePaymentRow, ApplyDebtPayment
<1>. QED
  BY <1>1, <1>2, <1>3, <1>4 DEF MoneyInvariant

(* A payment lowers what is pending by its amount, and the debt by its amount or
   to nothing, so the debt stays within what is pending. *)
LEMMA PaymentInvariant ==
    ASSUME MoneyInvariant, NEW s \in Sales, NEW k \in Keys, NEW m \in Methods,
           NEW x \in Sessions \cup {None}, NEW a \in Nat,
           NewSalePayment(s, k, m, x, a)
    PROVE  MoneyInvariant'
<1>0. k \notin linked
  BY DEF MoneyInvariant, NewSalePayment, SalePayable, SalePaymentRow
<1>1. TypeOK'
  BY SalePaymentType DEF MoneyInvariant, RegisterSalePayment
<1>2. /\ total[s] \in Nat /\ returned[s] \in Nat /\ paid[s] \in Nat
      /\ refunded[s] \in Nat /\ pending[s] \in Nat /\ reduced[s] \in Nat
      /\ debt[s] \in Int
  BY DEF MoneyInvariant, TypeOK
<1>3. a <= pending[s] /\ pending' = [pending EXCEPT ![s] = @ - a]
  BY PaymentPending
<1>4. PendingOf(total[s], returned[s], paid[s] + a, refunded[s]) = pending[s] - a
  BY <1>3 DEF NewSalePayment, SalePayable, SalePaymentRow, RecalculateState, MoneyInvariant, TypeOK
<1>5. /\ status' = status /\ total' = total /\ returned' = returned
      /\ refunded' = refunded /\ charged' = charged /\ reduced' = reduced
      /\ paid' = [paid EXCEPT ![s] = @ + a]
      /\ debt' = [debt EXCEPT ![s] = @ - DebtPayment(s, k, a)]
  BY DEF NewSalePayment, SalePayable, SalePaymentRow, ApplyDebtPayment, ReduceDebt
<1>6. /\ pending' = [pending EXCEPT ![s] = @ - a]
      /\ payStatus' = [payStatus EXCEPT
           ![s] = PaymentStatusOf(total[s], returned[s], paid[s] + a,
                                  refunded[s], reduced[s])]
  BY <1>4 DEF NewSalePayment, SalePayable, SalePaymentRow, RecalculateState, MoneyInvariant, TypeOK
<1>7. SaleInvariant(s)'
  <2>1. Recalculated(s)'
    BY <1>2, <1>4, <1>5, <1>6 DEF Recalculated, MoneyInvariant, TypeOK
  <2>2. /\ paid'[s] = paid[s] + a /\ pending'[s] = pending[s] - a
        /\ debt'[s] = debt[s] - DebtPayment(s, k, a)
    BY <1>5, <1>6 DEF MoneyInvariant, TypeOK
  <2>3. 0 <= debt'[s] /\ debt'[s] <= pending'[s]
    <3>1. /\ DebtPayment(s, k, a) \in Nat /\ DebtPayment(s, k, a) <= debt[s]
          /\ ~charged[s] => DebtPayment(s, k, a) = 0
          /\ charged[s] => DebtPayment(s, k, a) = Lesser(a, debt[s])
      BY <1>0, DebtPaymentBounds
    <3>2. /\ 0 <= debt[s] /\ debt[s] <= pending[s]
          /\ ~charged[s] => debt[s] = 0
          /\ a <= pending[s] /\ charged[s] \in BOOLEAN
      BY <1>3 DEF MoneyInvariant, SaleInvariant, NewSalePayment, SalePayable, SalePaymentRow, TypeOK
    <3>. QED
      BY <1>2, <2>2, <3>1, <3>2 DEF Lesser
  <2>4. ~charged[s] => debt'[s] = 0
    BY <1>2, <2>2, DebtPaymentBounds DEF MoneyInvariant, SaleInvariant
  <2>5. /\ refunded'[s] <= paid'[s]
        /\ paid'[s] + reduced'[s] + pending'[s] <= total'[s]
    BY <1>2, <1>5, <2>2 DEF MoneyInvariant, SaleInvariant
  <2>6. status'[s] = "completed"
    BY <1>5 DEF NewSalePayment, SalePayable, SalePaymentRow
  <2>. QED
    BY <1>5, <2>1, <2>3, <2>4, <2>5, <2>6 DEF MoneyInvariant, SaleInvariant
<1>8. ASSUME NEW q \in Sales, q # s PROVE SaleInvariant(q)'
  BY <1>5, <1>6, <1>8, SaleUntouched DEF MoneyInvariant, TypeOK
<1>9. \A r \in Returns : ReturnInvariant(r)'
  BY ReturnsUntouched DEF NewSalePayment, SalePayable, SalePaymentRow
<1>10. \A j \in linked' : payment'[j].kind # "none"
  BY DEF MoneyInvariant, TypeOK, NewSalePayment, SalePayable, SalePaymentRow, ApplyDebtPayment
<1>. QED
  BY <1>1, <1>7, <1>8, <1>9, <1>10 DEF MoneyInvariant

(* A refund only gives back what the shop holds above the goods kept, so nothing
   becomes pending again. *)
LEMMA RefundInvariant ==
    ASSUME MoneyInvariant, NEW r \in Returns, NEW k \in Keys, NEW m \in Methods,
           NEW x \in Sessions \cup {None}, NEW a \in Nat,
           RegisterRefund(r, k, m, x, a)
    PROVE  MoneyInvariant'
<1>1. TypeOK' /\ retSale[r] \in Sales
  BY RefundType DEF MoneyInvariant
<1>s. PICK s \in Sales : s = retSale[r]
  BY <1>1
<1>2. /\ total[s] \in Nat /\ returned[s] \in Nat /\ paid[s] \in Nat
      /\ refunded[s] \in Nat /\ pending[s] \in Nat /\ reduced[s] \in Nat
      /\ retAmount[r] \in Nat /\ retReduced[r] \in Nat /\ retRefunded[r] \in Nat
  BY <1>1 DEF MoneyInvariant, TypeOK
<1>3. refunded[s] + a <= paid[s] /\ 0 < a
  BY <1>s DEF RegisterRefund
<1>5. status[s] \in {"completed", "returned"}
  BY <1>1, <1>2, <1>3 DEF MoneyInvariant, SaleInvariant, Untouched, TypeOK
<1>6. /\ PendingOf(total[s], returned[s], paid[s], refunded[s] + a) = 0
      /\ pending[s] = 0 /\ pending' = pending
  BY <1>s, RefundPending
<1>7. /\ status' = status /\ total' = total /\ returned' = returned
      /\ paid' = paid /\ charged' = charged /\ reduced' = reduced /\ debt' = debt
      /\ refunded' = [refunded EXCEPT ![s] = @ + a]
  BY <1>s DEF RegisterRefund, accountVars
<1>8. payStatus' = [payStatus EXCEPT
           ![s] = PaymentStatusOf(total[s], returned[s], paid[s],
                                  refunded[s] + a, reduced[s])]
  BY <1>s DEF RegisterRefund, RecalculateState
<1>9. SaleInvariant(s)'
  <2>0. refunded'[s] = refunded[s] + a /\ pending'[s] = 0
    BY <1>1, <1>6, <1>7 DEF MoneyInvariant, TypeOK
  <2>1. Recalculated(s)'
    BY <1>1, <1>2, <1>6, <1>7, <1>8 DEF Recalculated, MoneyInvariant, TypeOK
  <2>2. refunded'[s] <= paid'[s] /\ pending'[s] = pending[s]
    BY <1>3, <1>6, <1>7, <2>0
  <2>. QED
    BY <1>1, <1>5, <1>7, <2>1, <2>2 DEF MoneyInvariant, SaleInvariant
<1>10. ASSUME NEW q \in Sales, q # s PROVE SaleInvariant(q)'
  BY <1>6, <1>7, <1>8, <1>10, SaleUntouched DEF MoneyInvariant, TypeOK
<1>11. ASSUME NEW t \in Returns PROVE ReturnInvariant(t)'
  <2>1. CASE t = r
    <3>1. retRefunded'[r] = retRefunded[r] + a
      BY DEF RegisterRefund, MoneyInvariant, TypeOK
    <3>2. /\ retSale' = retSale /\ retAmount' = retAmount
          /\ retReduced' = retReduced /\ retSale[r] # None
      BY DEF RegisterRefund
    <3>3. retRefunded[r] + a <= NonNegative(retAmount[r] - retReduced[r])
      BY DEF RegisterRefund, MonetaryCapacity
    <3>. QED
      BY <1>2, <2>1, <3>1, <3>2, <3>3
      DEF ReturnInvariant, MoneyInvariant, NonNegative
  <2>2. CASE t # r
    BY <2>2 DEF RegisterRefund, MoneyInvariant, ReturnInvariant, TypeOK
  <2>. QED  BY <2>1, <2>2
<1>12. \A j \in linked' : payment'[j].kind # "none"
  BY DEF MoneyInvariant, TypeOK, RegisterRefund, accountVars
<1>. QED
  BY <1>1, <1>9, <1>10, <1>11, <1>12 DEF MoneyInvariant

(* A charge makes the whole pending amount the debt of a sale that had none. *)
LEMMA OnAccountInvariant ==
    ASSUME MoneyInvariant, NEW s \in Sales, RegisterSaleOnAccount(s)
    PROVE  MoneyInvariant'
<1>1. TypeOK'
  BY OnAccountType DEF MoneyInvariant
<1>2. /\ pending[s] = PendingOf(total[s], returned[s], paid[s], refunded[s])
      /\ payStatus[s] = PaymentStatusOf(total[s], returned[s], paid[s],
                                        refunded[s], reduced[s])
  BY CompletedSale DEF RegisterSaleOnAccount
<1>3. /\ UNCHANGED <<status, total, paid, refunded, returned, reduced, linked,
                     payment>>
      /\ charged' = [charged EXCEPT ![s] = TRUE]
      /\ debt' = [debt EXCEPT ![s] = @ + pending[s]]
      /\ pending' = pending /\ payStatus' = payStatus
  BY <1>2, OnAccountPending DEF RegisterSaleOnAccount, sumVars
<1>4. SaleInvariant(s)'
  <2>1. /\ debt'[s] = pending[s] /\ pending[s] \in Nat
        /\ charged'[s] = TRUE
    <3>1. debt[s] = 0
      BY DEF MoneyInvariant, SaleInvariant, RegisterSaleOnAccount
    <3>. QED
      BY <1>3, <3>1 DEF MoneyInvariant, TypeOK
  <2>2. Recalculated(s)'
    BY <1>2, <1>3 DEF Recalculated
  <2>3. status'[s] = "completed"
    BY <1>3 DEF RegisterSaleOnAccount
  <2>. QED
    BY <1>3, <2>1, <2>2, <2>3 DEF MoneyInvariant, SaleInvariant
<1>5. ASSUME NEW q \in Sales, q # s PROVE SaleInvariant(q)'
  BY <1>3, <1>5, SaleUntouched DEF MoneyInvariant, TypeOK
<1>6. \A r \in Returns : ReturnInvariant(r)'
  BY ReturnsUntouched DEF RegisterSaleOnAccount
<1>. QED
  BY <1>1, <1>3, <1>4, <1>5, <1>6 DEF MoneyInvariant

(* A return of value a lowers the pending amount by a or to nothing, and the debt
   likewise. *)
LEMMA CompleteReturnInvariant ==
    ASSUME MoneyInvariant, NEW r \in Returns, NEW s \in Sales, NEW a \in Nat,
           NEW full \in BOOLEAN, CompleteReturn(r, s, a, full)
    PROVE  MoneyInvariant'
<1>. DEFINE n == IF charged[s] THEN Lesser(a, NonNegative(debt[s])) ELSE 0
<1>1. TypeOK'
  BY ReturnType DEF MoneyInvariant
<1>2. /\ total[s] \in Nat /\ returned[s] \in Nat /\ paid[s] \in Nat
      /\ refunded[s] \in Nat /\ pending[s] \in Nat /\ reduced[s] \in Nat
      /\ debt[s] \in Int /\ charged[s] \in BOOLEAN
      /\ retRefunded[r] = 0 /\ retSale[r] = None
  BY DEF MoneyInvariant, TypeOK, ReturnInvariant, CompleteReturn
<1>3. /\ n \in Nat /\ n <= a /\ n <= debt[s]
      /\ ~charged[s] => n = 0
      /\ n = a \/ n = debt[s]
  BY <1>2 DEF MoneyInvariant, SaleInvariant, Lesser, NonNegative
<1>4. /\ UNCHANGED <<total, paid, refunded, charged, linked, payment, retRefunded>>
      /\ retSale' = [retSale EXCEPT ![r] = s]
      /\ retAmount' = [retAmount EXCEPT ![r] = a]
      /\ retReduced' = [retReduced EXCEPT ![r] = n]
      /\ returned' = [returned EXCEPT ![s] = @ + a]
      /\ reduced' = [reduced EXCEPT ![s] = @ + n]
      /\ debt' = [debt EXCEPT ![s] = @ - n]
      /\ status' = [status EXCEPT ![s] = IF full THEN "returned" ELSE "completed"]
      /\ RecalculateState(s, returned[s] + a, paid[s], refunded[s], reduced[s] + n)
  BY DEF CompleteReturn, ReduceDebt
<1>. HIDE DEF n
<1>5. pending' = [pending EXCEPT ![s] = NonNegative(@ - a)]
  BY ReturnPending
<1>6. PendingOf(total[s], returned[s] + a, paid[s], refunded[s])
        = NonNegative(pending[s] - a)
  BY <1>4, <1>5 DEF RecalculateState, MoneyInvariant, TypeOK
<1>7. SaleInvariant(s)'
  <2>1. /\ returned'[s] = returned[s] + a /\ reduced'[s] = reduced[s] + n
        /\ debt'[s] = debt[s] - n
        /\ pending'[s] = NonNegative(pending[s] - a)
        /\ status'[s] \in {"completed", "returned"}
    BY <1>4, <1>6 DEF RecalculateState, MoneyInvariant, TypeOK
  <2>2. Recalculated(s)'
    BY <1>4, <1>6, <2>1 DEF Recalculated, RecalculateState, MoneyInvariant, TypeOK
  <2>3. /\ 0 <= debt[s] /\ debt[s] <= pending[s]
        /\ paid[s] + reduced[s] + pending[s] <= total[s]
        /\ ~charged[s] => debt[s] = 0 /\ reduced[s] = 0
        /\ refunded[s] <= paid[s]
    BY DEF MoneyInvariant, SaleInvariant
  <2>4. 0 <= debt'[s] /\ debt'[s] <= pending'[s]
    BY <1>2, <1>3, <2>1, <2>3 DEF NonNegative
  <2>5. paid[s] + reduced'[s] + pending'[s] <= total[s]
    BY <1>2, <1>3, <2>1, <2>3 DEF NonNegative
  <2>6. ~charged[s] => debt'[s] = 0 /\ reduced'[s] = 0
    BY <1>2, <1>3, <2>1, <2>3
  <2>. QED
    BY <1>4, <2>1, <2>2, <2>3, <2>4, <2>5, <2>6 DEF SaleInvariant
<1>8. ASSUME NEW q \in Sales, q # s PROVE SaleInvariant(q)'
  BY <1>4, <1>8, SaleUntouched DEF RecalculateState, MoneyInvariant, TypeOK
<1>9. ASSUME NEW t \in Returns PROVE ReturnInvariant(t)'
  <2>1. CASE t = r
    <3>1. /\ retAmount'[r] = a /\ retReduced'[r] = n /\ retRefunded'[r] = 0
          /\ retSale'[r] = s
      BY <1>2, <1>4 DEF MoneyInvariant, TypeOK
    <3>. QED
      BY <1>3, <2>1, <3>1, PaymentsAssumption DEF ReturnInvariant
  <2>2. CASE t # r
    BY <1>4, <2>2 DEF MoneyInvariant, ReturnInvariant, TypeOK
  <2>. QED  BY <2>1, <2>2
<1>. QED
  BY <1>1, <1>4, <1>7, <1>8, <1>9 DEF MoneyInvariant

(* The operations that book nothing. *)
LEMMA OtherInvariant ==
    ASSUME MoneyInvariant,
           \/ \E s \in Sales : \/ \E t \in 0 .. MaxTotal : EditCart(s, t)
                               \/ CompleteSale(s) \/ CancelSale(s)
           \/ UpdateAccountSettings
           \/ \E x \in Sessions : OpenSession(x) \/ CloseSession(x)
           \/ UNCHANGED moneyVars
    PROVE  MoneyInvariant'
<1>1. TypeOK'
  BY OtherType DEF MoneyInvariant
<1>2. UNCHANGED retVars /\ linked' = linked /\ payment' = payment
  BY DEF EditCart, CompleteSale, CancelSale, UpdateAccountSettings, OpenSession,
         CloseSession, moneyVars, accountVars
<1>3. ASSUME NEW q \in Sales PROVE SaleInvariant(q)'
  <2>. USE DEF saleVars, sumVars, accountVars, moneyVars
  <2>1. ASSUME NEW s \in Sales, NEW t \in 0 .. MaxTotal, EditCart(s, t)
        PROVE  SaleInvariant(q)'
    <3>1. CASE q = s
      <4>1. /\ UNCHANGED <<status, payStatus, paid, refunded, returned, charged,
                           debt, reduced>>
            /\ total'[s] = t /\ pending'[s] = t /\ status[s] = "open"
        BY <2>1 DEF EditCart, MoneyInvariant, TypeOK
      <4>2. /\ paid[s] = 0 /\ refunded[s] = 0 /\ debt[s] = 0 /\ reduced[s] = 0
            /\ returned[s] = 0 /\ payStatus[s] = "unpaid" /\ ~charged[s]
        BY <4>1 DEF MoneyInvariant, SaleInvariant, Untouched
      <4>3. t \in Nat
        BY PaymentsAssumption
      <4>. QED
        BY <3>1, <4>1, <4>2, <4>3 DEF SaleInvariant, Untouched
    <3>2. CASE q # s
      BY <2>1, <3>2, SaleUntouched DEF EditCart, MoneyInvariant, TypeOK
    <3>. QED  BY <3>1, <3>2
  <2>2. ASSUME NEW s \in Sales, CompleteSale(s) \/ CancelSale(s)
        PROVE  SaleInvariant(q)'
    <3>1. /\ UNCHANGED <<total, pending, payStatus, paid, refunded, returned,
                         charged, debt, reduced>>
          /\ status[s] = "open"
          /\ \/ status' = [status EXCEPT ![s] = "completed"]
             \/ status' = [status EXCEPT ![s] = "cancelled"]
      BY <2>2 DEF CompleteSale, CancelSale
    <3>2. CASE q = s
      <4>1. Untouched(s) /\ Untouched(s)' /\ total[s] \in Nat
        BY <3>1 DEF MoneyInvariant, SaleInvariant, Untouched, TypeOK
      <4>2. Recalculated(s)'
        BY <3>1, <4>1 DEF Untouched, Recalculated, PendingOf, EffectiveTotal,
                          NetPaid, NonNegative, PaymentStatusOf
      <4>. QED
        BY <3>1, <3>2, <4>1, <4>2 DEF MoneyInvariant, SaleInvariant
    <3>3. CASE q # s
      BY <3>1, <3>3, SaleUntouched DEF MoneyInvariant, TypeOK
    <3>. QED  BY <3>2, <3>3
  <2>3. ASSUME UNCHANGED <<saleVars, sumVars, charged, debt, reduced>>
        PROVE  SaleInvariant(q)'
    BY <2>3, SaleUntouched DEF MoneyInvariant
  <2>. QED
    BY <2>1, <2>2, <2>3 DEF UpdateAccountSettings, OpenSession, CloseSession
<1>4. \A r \in Returns : ReturnInvariant(r)'
  BY <1>2, ReturnsUntouched
<1>. QED
  BY <1>1, <1>2, <1>3, <1>4 DEF MoneyInvariant

LEMMA MoneyStep == MoneyInvariant /\ [MoneyNext]_moneyVars => MoneyInvariant'
<1>. SUFFICES ASSUME MoneyInvariant, [MoneyNext]_moneyVars PROVE MoneyInvariant'
  OBVIOUS
<1>. Amounts \subseteq Nat
  BY PaymentsAssumption DEF Amounts
<1>. QED
  BY ReplayInvariant, PaymentInvariant, RefundInvariant, OnAccountInvariant,
     CompleteReturnInvariant, OtherInvariant DEF MoneyNext, RegisterSalePayment

LEMMA MoneyStart == MoneyInit => MoneyInvariant
<1>. SUFFICES ASSUME MoneyInit PROVE MoneyInvariant
  OBVIOUS
<1>1. TypeOK
  BY DEF MoneyInit, TypeOK, NoRow
<1>2. ASSUME NEW s \in Sales PROVE SaleInvariant(s)
  BY DEF MoneyInit, SaleInvariant, Untouched, Recalculated
<1>3. ASSUME NEW r \in Returns PROVE ReturnInvariant(r)
  BY DEF MoneyInit, ReturnInvariant
<1>. QED
  BY <1>1, <1>2, <1>3 DEF MoneyInvariant, MoneyInit

(* The inductive invariant of Payments. *)
THEOREM MoneyInvariance == MoneySpec => []MoneyInvariant
BY MoneyStart, MoneyStep, PTL DEF MoneySpec
-------------------------------------------------------------------------------
(* Every variable keeps its type. *)
THEOREM MoneyTyped == MoneySpec => []TypeOK
<1>. MoneyInvariant => TypeOK
  BY DEF MoneyInvariant
<1>. QED  BY MoneyInvariance, PTL

(* No order of payments, refunds, charges and returns collects, forgives and
   still claims more than the sale's total, or refunds more than it collected. *)
THEOREM MoneyBounded == MoneySpec => []MoneyBound
<1>. MoneyInvariant => MoneyBound
  BY DEF MoneyInvariant, SaleInvariant, MoneyBound
<1>. QED  BY MoneyInvariance, PTL

(* The debt on the account never exceeds what the sale still claims, replayed
   payments included. *)
THEOREM DebtBounded == MoneySpec => []DebtWithinPending
<1>. MoneyInvariant => DebtWithinPending
  BY DEF MoneyInvariant, SaleInvariant, DebtWithinPending
<1>. QED  BY MoneyInvariance, PTL

(* A return is never refunded beyond the part of it that reduced no debt. *)
THEOREM RefundsBounded == MoneySpec => []RefundsWithinReturn
<1>. MoneyInvariant => RefundsWithinReturn
  BY DEF MoneyInvariant, ReturnInvariant, RefundsWithinReturn
<1>. QED  BY MoneyInvariance, PTL

(* REFUNDED is shown exactly when everything came back and every cent of it was
   paid back: a sale that reduced debt never collected more than the rest. *)
THEOREM RefundedSound == MoneySpec => []RefundedMeansMoneyBack
<1>1. ASSUME MoneyInvariant, NEW s \in Sales
      PROVE  payStatus[s] = "refunded" <=> /\ status[s] # "open" /\ paid[s] > 0
                                           /\ returned[s] >= total[s]
                                           /\ refunded[s] = paid[s]
  <2>1. CASE status[s] \in {"open", "cancelled"}
    BY <1>1, <2>1 DEF MoneyInvariant, SaleInvariant, Untouched
  <2>2. CASE status[s] \in {"completed", "returned"}
    <3>1. /\ total[s] \in Nat /\ returned[s] \in Nat /\ paid[s] \in Nat
          /\ refunded[s] \in Nat /\ pending[s] \in Nat /\ reduced[s] \in Nat
      BY <1>1 DEF MoneyInvariant, TypeOK
    <3>2. /\ payStatus[s] = PaymentStatusOf(total[s], returned[s], paid[s],
                                            refunded[s], reduced[s])
          /\ refunded[s] <= paid[s]
          /\ paid[s] + reduced[s] + pending[s] <= total[s]
      BY <1>1, <2>2 DEF MoneyInvariant, SaleInvariant, Recalculated
    <3>3. returned[s] >= total[s]
            => MonetaryReturnRequired(returned[s], paid[s], reduced[s]) = paid[s]
      BY <3>1, <3>2 DEF MonetaryReturnRequired, Lesser, NonNegative
    <3>. QED
      BY <2>2, <3>1, <3>2, <3>3 DEF PaymentStatusOf
  <2>. QED
    BY <1>1, <2>1, <2>2 DEF MoneyInvariant, TypeOK
<1>2. MoneyInvariant => RefundedMeansMoneyBack
  BY <1>1 DEF RefundedMeansMoneyBack
<1>. QED  BY <1>2, MoneyInvariance, PTL

(* What a step does to the claim on a sale that is no longer open, ... *)
LEMMA PendingStep ==
    ASSUME MoneyInvariant, [MoneyNext]_moneyVars
    PROVE  \A s \in Sales : status[s] # "open" => pending'[s] <= pending[s]
<1>. DEFINE Kept == \A s \in Sales : status[s] # "open" => pending'[s] <= pending[s]
<1>0. Amounts \subseteq Nat /\ pending \in [Sales -> Nat]
  BY PaymentsAssumption DEF Amounts, MoneyInvariant, TypeOK
<1>1. ASSUME NEW s \in Sales,
             \/ \E t \in 0 .. MaxTotal : EditCart(s, t)
             \/ CompleteSale(s) \/ CancelSale(s) \/ RegisterSaleOnAccount(s)
      PROVE  Kept
  BY <1>0, <1>1, OnAccountPending DEF EditCart, CompleteSale, CancelSale
<1>2. ASSUME NEW s \in Sales, NEW k \in Keys, NEW m \in Methods,
             NEW x \in Sessions \cup {None}, NEW a \in Amounts,
             RegisterSalePayment(s, k, m, x, a)
      PROVE  Kept
  BY <1>0, <1>2, PaymentPending
  DEF RegisterSalePayment, ReplaySalePayment, SaleReplay, SalePaymentRow, saleVars
<1>3. ASSUME NEW r \in Returns, NEW k \in Keys, NEW m \in Methods,
             NEW x \in Sessions \cup {None}, NEW a \in Amounts,
             RegisterRefund(r, k, m, x, a)
      PROVE  Kept
  <2>1. retSale[r] \in Sales
    BY <1>3 DEF RegisterRefund, MoneyInvariant, TypeOK
  <2>. QED
    BY <1>0, <1>3, <2>1, RefundPending
<1>4. ASSUME NEW r \in Returns, NEW s \in Sales, NEW a \in Amounts,
             NEW full \in BOOLEAN, CompleteReturn(r, s, a, full)
      PROVE  Kept
  BY <1>0, <1>4, ReturnPending DEF NonNegative
<1>5. ASSUME UNCHANGED pending PROVE Kept
  BY <1>0, <1>5
<1>. QED
  BY <1>1, <1>2, <1>3, <1>4, <1>5
  DEF MoneyNext, UpdateAccountSettings, OpenSession, CloseSession, moneyVars,
      saleVars

(* ... and to the sale itself: it is never open again, and keeps its total. *)
LEMMA SoldStep ==
    ASSUME TypeOK, [MoneyNext]_moneyVars
    PROVE  \A s \in Sales : status[s] # "open"
                              => status'[s] # "open" /\ total'[s] = total[s]
BY DEF TypeOK, MoneyNext, EditCart, CompleteSale, CancelSale, moneyVars, saleVars,
       RegisterSaleOnAccount, RegisterSalePayment, ReplaySalePayment,
       NewSalePayment, RegisterRefund, CompleteReturn, UpdateAccountSettings,
       OpenSession, CloseSession

(* A completed sale never claims more than before: refunds reopen no claim. *)
THEOREM PendingMonotone == MoneySpec => PendingNeverGrows
<1>1. MoneyInvariant /\ [MoneyNext]_moneyVars
        => \A s \in Sales : status[s] # "open" => pending'[s] <= pending[s]
  BY PendingStep
<1>. QED  BY <1>1, MoneyInvariance, PTL DEF MoneySpec, PendingNeverGrows

(* No payment or refund moves the cash a closed session expects. *)
THEOREM ClosedFrozen == MoneySpec => ClosedSessionFrozen
<1>. DEFINE Frozen == \A x \in Sessions : sessState[x] = "closed"
                        => sessState'[x] = "closed" /\ expected'[x] = expected[x]
<1>1. TypeOK /\ [MoneyNext]_moneyVars => Frozen
  <2>. SUFFICES ASSUME TypeOK, [MoneyNext]_moneyVars PROVE Frozen
    OBVIOUS
  <2>1. ASSUME NEW m, NEW x \in Sessions \cup {None}, NEW delta,
               CashContext(m, x), CashMovement(m, x, delta)
        PROVE  Frozen
    BY <2>1 DEF CashContext, CashMovement, TypeOK
  <2>2. ASSUME UNCHANGED cashVars PROVE Frozen
    BY <2>2 DEF cashVars
  <2>3. ASSUME NEW s \in Sales, NEW k \in Keys, NEW m \in Methods,
               NEW x \in Sessions \cup {None}, NEW a \in Amounts,
               RegisterSalePayment(s, k, m, x, a)
        PROVE  Frozen
    BY <2>1, <2>2, <2>3
    DEF RegisterSalePayment, ReplaySalePayment, SaleReplay, SalePaymentRow, NewSalePayment, SalePayable, SalePaymentRow
  <2>4. ASSUME NEW r \in Returns, NEW k \in Keys, NEW m \in Methods,
               NEW x \in Sessions \cup {None}, NEW a \in Amounts,
               RegisterRefund(r, k, m, x, a)
        PROVE  Frozen
    BY <2>1, <2>4 DEF RegisterRefund
  <2>5. ASSUME NEW x \in Sessions, OpenSession(x) \/ CloseSession(x)
        PROVE  Frozen
    BY <2>5 DEF OpenSession, CloseSession, TypeOK
  <2>6. ASSUME NEW s \in Sales,
               \/ \E t \in 0 .. MaxTotal : EditCart(s, t)
               \/ CompleteSale(s) \/ CancelSale(s) \/ RegisterSaleOnAccount(s)
        PROVE  Frozen
    BY <2>2, <2>6 DEF EditCart, CompleteSale, CancelSale, RegisterSaleOnAccount
  <2>7. ASSUME NEW r \in Returns, NEW s \in Sales, NEW a \in Amounts,
               NEW full \in BOOLEAN, CompleteReturn(r, s, a, full)
        PROVE  Frozen
    BY <2>2, <2>7 DEF CompleteReturn
  <2>8. CASE UpdateAccountSettings \/ UNCHANGED moneyVars
    BY <2>2, <2>8 DEF UpdateAccountSettings, moneyVars
  <2>. QED
    BY <2>3, <2>4, <2>5, <2>6, <2>7, <2>8 DEF MoneyNext
<1>. QED  BY <1>1, MoneyTyped, PTL DEF MoneySpec, ClosedSessionFrozen
-------------------------------------------------------------------------------
(***************************************************************************)
(* The payment engine implements the abstract settlement of a sale, for    *)
(* any constants: under the mapping of Payments (the goods kept, the money *)
(* held, what is due) every operation is a sale, a collection, goods taken *)
(* back or money paid back, or changes nothing the settlement can see.     *)
(***************************************************************************)

(* The three mapped functions at a sale. *)
LEMMA MappedTypes ==
    ASSUME TypeOK
    PROVE  /\ keptValue \in [Sales -> Nat] /\ moneyHeld \in [Sales -> Nat]
           /\ amountDue \in [Sales -> Nat]
BY DEF TypeOK, keptValue, moneyHeld, amountDue, EffectiveTotal, NetPaid,
       NonNegative

LEMMA SettlementStart == MoneyInit => Abstract!SettlementInit
BY DEF MoneyInit, Abstract!SettlementInit, keptValue, moneyHeld, amountDue,
       NetPaid, NonNegative

(* A step that changes neither the statuses nor the sums and amounts of any sold
   sale is a stutter. *)
LEMMA Stutter ==
    ASSUME MoneyInvariant,
           paid' = paid, refunded' = refunded,
           \A s \in Sales :
               \/ /\ status'[s] = status[s] /\ total'[s] = total[s]
                  /\ pending'[s] = pending[s] /\ returned'[s] = returned[s]
               \/ /\ status[s] \in {"open", "cancelled"}
                  /\ status'[s] \in {"open", "cancelled"}
    PROVE  UNCHANGED <<keptValue, moneyHeld, amountDue>>
BY DEF keptValue, moneyHeld, amountDue

LEMMA CompleteSells ==
    ASSUME MoneyInvariant, NEW s \in Sales, CompleteSale(s)
    PROVE  Abstract!Sell(s, keptValue'[s])
<1>1. /\ UNCHANGED <<total, pending, paid, refunded, returned>>
      /\ status' = [status EXCEPT ![s] = "completed"] /\ status[s] = "open"
      /\ total[s] > 0 /\ total[s] \in Nat
  BY DEF CompleteSale, sumVars, MoneyInvariant, TypeOK
<1>2. /\ paid[s] = 0 /\ refunded[s] = 0 /\ returned[s] = 0
      /\ pending[s] = total[s]
  BY <1>1 DEF MoneyInvariant, SaleInvariant, Untouched
<1>3. /\ keptValue[s] = 0 /\ moneyHeld[s] = 0
      /\ keptValue'[s] = total[s] /\ keptValue'[s] > 0
  BY <1>1, <1>2 DEF keptValue, moneyHeld, NetPaid, EffectiveTotal, NonNegative,
                    MoneyInvariant, TypeOK
<1>4. keptValue' = [keptValue EXCEPT ![s] = total[s]]
  <2>1. \A q \in Sales : q # s => keptValue'[q] = keptValue[q]
    BY <1>1 DEF keptValue, MoneyInvariant, TypeOK
  <2>. QED
    BY <1>3, <2>1 DEF keptValue
<1>5. amountDue' = [amountDue EXCEPT ![s] = total[s]]
  BY <1>1, <1>2 DEF amountDue, MoneyInvariant, TypeOK
<1>6. moneyHeld' = moneyHeld
  BY <1>1 DEF moneyHeld
<1>. QED
  BY <1>3, <1>4, <1>5, <1>6 DEF Abstract!Sell

LEMMA PaymentCollects ==
    ASSUME MoneyInvariant, NEW s \in Sales, NEW k \in Keys, NEW m, NEW x,
           NEW a \in Nat, NewSalePayment(s, k, m, x, a)
    PROVE  Abstract!Collect(s, moneyHeld'[s] - moneyHeld[s])
<1>1. /\ UNCHANGED <<status, total, refunded, returned>>
      /\ paid' = [paid EXCEPT ![s] = @ + a]
      /\ status[s] = "completed" /\ 0 < a
  BY DEF NewSalePayment, SalePayable, SalePaymentRow
<1>2. a <= pending[s] /\ pending' = [pending EXCEPT ![s] = @ - a]
  BY PaymentPending
<1>3. /\ moneyHeld' = [moneyHeld EXCEPT ![s] = @ + a]
      /\ moneyHeld[s] \in Int
  <2>1. NetPaid(paid[s] + a, refunded[s]) = NetPaid(paid[s], refunded[s]) + a
    BY DEF MoneyInvariant, TypeOK, SaleInvariant, NetPaid, NonNegative
  <2>2. NetPaid(paid[s], refunded[s]) \in Int
    BY DEF MoneyInvariant, TypeOK, NetPaid, NonNegative
  <2>. QED
    BY <1>1, <2>1, <2>2 DEF moneyHeld, MoneyInvariant, TypeOK
<1>4. moneyHeld'[s] - moneyHeld[s] = a
  BY <1>3 DEF moneyHeld
<1>5. amountDue' = [amountDue EXCEPT ![s] = @ - a] /\ amountDue[s] = pending[s]
  BY <1>1, <1>2 DEF amountDue, MoneyInvariant, TypeOK
<1>6. keptValue' = keptValue
  BY <1>1 DEF keptValue
<1>. QED
  BY <1>1, <1>2, <1>3, <1>4, <1>5, <1>6 DEF Abstract!Collect

LEMMA RefundPaysBack ==
    ASSUME MoneyInvariant, NEW r \in Returns, NEW s \in Sales, s = retSale[r],
           NEW k \in Keys, NEW m, NEW x, NEW a \in Nat,
           RegisterRefund(r, k, m, x, a)
    PROVE  Abstract!PayBack(s, moneyHeld[s] - moneyHeld'[s])
<1>1. /\ UNCHANGED <<status, total, paid, returned>>
      /\ refunded' = [refunded EXCEPT ![s] = @ + a]
      /\ 0 < a /\ refunded[s] + a <= paid[s]
  BY DEF RegisterRefund
<1>2. /\ a <= NetPaid(paid[s], refunded[s]) - EffectiveTotal(total[s], returned[s])
      /\ pending' = pending
  BY RefundPending
<1>3. /\ paid[s] \in Nat /\ refunded[s] \in Nat /\ total[s] \in Nat
      /\ returned[s] \in Nat
  BY DEF MoneyInvariant, TypeOK
<1>4. /\ moneyHeld' = [moneyHeld EXCEPT ![s] = @ - a]
      /\ moneyHeld[s] - moneyHeld'[s] = a
  <2>1. NetPaid(paid[s], refunded[s] + a) = NetPaid(paid[s], refunded[s]) - a
    BY <1>1, <1>3 DEF NetPaid, NonNegative
  <2>2. NetPaid(paid[s], refunded[s]) \in Int
    BY <1>3 DEF NetPaid, NonNegative
  <2>3. moneyHeld' = [moneyHeld EXCEPT ![s] = @ - a]
    BY <1>1, <2>1 DEF moneyHeld, MoneyInvariant, TypeOK
  <2>. QED
    BY <2>2, <2>3 DEF moneyHeld
<1>5. status[s] \in {"completed", "returned"}
  BY <1>1, <1>3 DEF MoneyInvariant, SaleInvariant, Untouched, TypeOK
<1>6. a <= moneyHeld[s] - keptValue[s]
  BY <1>2, <1>5 DEF moneyHeld, keptValue
<1>7. keptValue' = keptValue /\ amountDue' = amountDue
  BY <1>1, <1>2 DEF keptValue, amountDue
<1>. QED
  BY <1>1, <1>4, <1>6, <1>7 DEF Abstract!PayBack

LEMMA ReturnTakesBack ==
    ASSUME MoneyInvariant, NEW r \in Returns, NEW s \in Sales, NEW a \in Nat,
           NEW full \in BOOLEAN, CompleteReturn(r, s, a, full)
    PROVE  \/ Abstract!TakeBack(s, keptValue'[s])
           \/ UNCHANGED <<keptValue, moneyHeld, amountDue>>
<1>1. /\ UNCHANGED <<total, paid, refunded>>
      /\ returned' = [returned EXCEPT ![s] = @ + a]
      /\ status[s] = "completed" /\ 0 < a
      /\ status' = [status EXCEPT ![s] = IF full THEN "returned" ELSE "completed"]
  BY DEF CompleteReturn
<1>2. pending' = [pending EXCEPT ![s] = NonNegative(@ - a)]
  BY ReturnPending
<1>3. /\ paid[s] \in Nat /\ refunded[s] \in Nat /\ total[s] \in Nat
      /\ returned[s] \in Nat /\ pending[s] \in Nat
      /\ pending[s] = PendingOf(total[s], returned[s], paid[s], refunded[s])
  BY <1>1, CompletedSale DEF MoneyInvariant, TypeOK
<1>. DEFINE v == EffectiveTotal(total[s], returned[s] + a)
            h == NetPaid(paid[s], refunded[s])
<1>4. keptValue' = [keptValue EXCEPT ![s] = v] /\ keptValue'[s] = v
  BY <1>1 DEF keptValue, MoneyInvariant, TypeOK
<1>5. keptValue[s] = EffectiveTotal(total[s], returned[s])
  BY <1>1 DEF keptValue
<1>6. amountDue' = [amountDue EXCEPT ![s] = NonNegative(pending[s] - a)]
  BY <1>1, <1>2 DEF amountDue, MoneyInvariant, TypeOK
<1>7. moneyHeld' = moneyHeld /\ moneyHeld[s] = h
  BY <1>1 DEF moneyHeld
<1>8. CASE keptValue[s] > 0
  <2>1. 0 <= v /\ v < keptValue[s]
    BY <1>1, <1>3, <1>5, <1>8 DEF EffectiveTotal, NonNegative
  <2>2. NonNegative(pending[s] - a) = Abstract!Uncovered(v, moneyHeld[s])
    BY <1>3, <1>5, <1>7, <1>8
    DEF Abstract!Uncovered, PendingOf, EffectiveTotal, NetPaid, NonNegative
  <2>. QED
    BY <1>4, <1>6, <1>7, <2>1, <2>2 DEF Abstract!TakeBack
<1>9. CASE ~(keptValue[s] > 0)
  <2>1. v = keptValue[s]
    BY <1>3, <1>5, <1>9 DEF EffectiveTotal, NonNegative
  <2>2. NonNegative(pending[s] - a) = amountDue[s]
    BY <1>1, <1>3, <1>5, <1>9
    DEF amountDue, PendingOf, EffectiveTotal, NetPaid, NonNegative
  <2>. QED
    BY <1>4, <1>6, <1>7, <2>1, <2>2 DEF keptValue, amountDue
<1>. QED  BY <1>8, <1>9
-------------------------------------------------------------------------------
LEMMA SettlementStep ==
    MoneyInvariant /\ [MoneyNext]_moneyVars
      => [Abstract!SettlementNext]_(Abstract!settlementVars)
<1>. SUFFICES ASSUME MoneyInvariant, [MoneyNext]_moneyVars
              PROVE  [Abstract!SettlementNext]_<<keptValue, moneyHeld, amountDue>>
  BY DEF Abstract!settlementVars
<1>. Amounts \subseteq Nat
  BY PaymentsAssumption DEF Amounts
<1>1. ASSUME NEW s \in Sales, NEW t \in 0 .. MaxTotal, EditCart(s, t)
      PROVE  UNCHANGED <<keptValue, moneyHeld, amountDue>>
  <2>1. /\ paid' = paid /\ refunded' = refunded /\ status' = status
        /\ returned' = returned /\ status[s] = "open"
        /\ \A q \in Sales : q # s => /\ total'[q] = total[q]
                                     /\ pending'[q] = pending[q]
    BY <1>1 DEF EditCart, sumVars, MoneyInvariant, TypeOK
  <2>. QED
    BY <2>1, Stutter
<1>2. ASSUME NEW s \in Sales, CancelSale(s)
      PROVE  UNCHANGED <<keptValue, moneyHeld, amountDue>>
  <2>1. /\ UNCHANGED <<paid, refunded, total, pending, returned>>
        /\ status[s] = "open" /\ status'[s] = "cancelled"
        /\ \A q \in Sales : q # s => status'[q] = status[q]
    BY <1>2 DEF CancelSale, sumVars, MoneyInvariant, TypeOK
  <2>. QED
    BY <2>1, Stutter
<1>3. ASSUME NEW s \in Sales, RegisterSaleOnAccount(s)
      PROVE  UNCHANGED <<keptValue, moneyHeld, amountDue>>
  <2>1. UNCHANGED <<status, total, paid, refunded, returned>> /\ pending' = pending
    BY <1>3, OnAccountPending DEF RegisterSaleOnAccount, sumVars
  <2>. QED
    BY <2>1 DEF keptValue, moneyHeld, amountDue
<1>4. ASSUME UNCHANGED <<saleVars, sumVars>>
      PROVE  UNCHANGED <<keptValue, moneyHeld, amountDue>>
  BY <1>4 DEF keptValue, moneyHeld, amountDue, saleVars, sumVars
<1>5. ASSUME NEW s \in Sales, NEW k \in Keys, NEW m \in Methods,
             NEW x \in Sessions \cup {None}, NEW a \in Amounts,
             RegisterSalePayment(s, k, m, x, a)
      PROVE  \/ Abstract!SettlementNext
             \/ UNCHANGED <<keptValue, moneyHeld, amountDue>>
  BY <1>4, <1>5, PaymentCollects
  DEF RegisterSalePayment, ReplaySalePayment, SaleReplay, SalePaymentRow, Abstract!SettlementNext
<1>6. ASSUME NEW r \in Returns, NEW k \in Keys, NEW m \in Methods,
             NEW x \in Sessions \cup {None}, NEW a \in Amounts,
             RegisterRefund(r, k, m, x, a)
      PROVE  Abstract!SettlementNext
  <2>1. retSale[r] \in Sales
    BY <1>6 DEF RegisterRefund, MoneyInvariant, TypeOK
  <2>. PICK s \in Sales : s = retSale[r]
    BY <2>1
  <2>. QED
    BY <1>6, RefundPaysBack DEF Abstract!SettlementNext
<1>7. ASSUME NEW r \in Returns, NEW s \in Sales, NEW a \in Amounts,
             NEW full \in BOOLEAN, CompleteReturn(r, s, a, full)
      PROVE  \/ Abstract!SettlementNext
             \/ UNCHANGED <<keptValue, moneyHeld, amountDue>>
  BY <1>7, ReturnTakesBack DEF Abstract!SettlementNext
<1>8. ASSUME NEW s \in Sales, CompleteSale(s)
      PROVE  Abstract!SettlementNext
  BY <1>8, CompleteSells DEF Abstract!SettlementNext
<1>9. ASSUME \/ UpdateAccountSettings
             \/ \E x \in Sessions : OpenSession(x) \/ CloseSession(x)
             \/ UNCHANGED moneyVars
      PROVE  UNCHANGED <<keptValue, moneyHeld, amountDue>>
  BY <1>4, <1>9 DEF UpdateAccountSettings, OpenSession, CloseSession, moneyVars
<1>. QED
  BY <1>1, <1>2, <1>3, <1>5, <1>6, <1>7, <1>8, <1>9 DEF MoneyNext

(* Payments, refunds, charges, replays and returns, in any order, look to the
   outside like the abstract settlement of Settlement. *)
THEOREM PaymentsImplementSettlement == MoneySpec => ImplementsSettlement
BY SettlementStart, SettlementStep, MoneyInvariance, PTL
DEF MoneySpec, ImplementsSettlement, Abstract!SettlementSpec
-------------------------------------------------------------------------------
(***************************************************************************)
(* The running totals are the sums of their rows.  TotalsMatchRows is made *)
(* inductive by the finiteness of what was summed so far.                  *)
(***************************************************************************)
Kinds == {"sale", "refund"}
FiniteRows(K) == IsFiniteSet(Units(AmountsIn(payment, K)))

PaymentSums ==
    /\ \A s \in Sales, kind \in Kinds : FiniteRows(SaleRows(s, kind))
    /\ \A r \in Returns : FiniteRows(RefundRows(r))
    /\ \A x \in Sessions, kind \in Kinds : FiniteRows(CashRows(x, kind))
    /\ \A s \in Sales : /\ paid[s] = SumOfRows(SaleRows(s, "sale"))
                        /\ refunded[s] = SumOfRows(SaleRows(s, "refund"))
    /\ \A r \in Returns : retRefunded[r] = SumOfRows(RefundRows(r))
    /\ \A x \in Sessions : expected[x] = SumOfRows(CashRows(x, "sale"))
                                           - SumOfRows(CashRows(x, "refund"))
    /\ \A k \in Keys : payment[k].kind = "none" => payment[k].ret = None

DebtSum == IsFiniteSet(Units(debt)) /\ balance = UnitSum(debt)

(* A row is inserted under key k: what it adds to a set of rows it joins, and
   that it changes no other set. *)
LEMMA RowAdded ==
    ASSUME NEW p, NEW q, NEW k \in Keys, NEW K, k \notin K,
           \A j \in Keys : p[j].amount \in Nat /\ q[j].amount \in Nat,
           \A j \in Keys \ {k} : q[j] = p[j],
           IsFiniteSet(Units(AmountsIn(p, K)))
    PROVE  /\ AmountsIn(q, K) = AmountsIn(p, K)
           /\ IsFiniteSet(Units(AmountsIn(q, K \cup {k})))
           /\ UnitSum(AmountsIn(p, K)) \in Nat
           /\ UnitSum(AmountsIn(q, K \cup {k}))
                = UnitSum(AmountsIn(p, K)) + q[k].amount
<1>. DEFINE f == AmountsIn(p, K)
            g == AmountsIn(q, K \cup {k})
<1>1. /\ f \in [Keys -> Nat] /\ g \in [Keys -> Nat]
      /\ \A y \in Keys \ {k} : g[y] = f[y]
      /\ f[k] = 0 /\ g[k] = q[k].amount
  BY DEF AmountsIn
<1>2. /\ IsFiniteSet(Units(g)) /\ UnitSum(f) \in Nat /\ UnitSum(g) \in Nat
      /\ UnitSum(g) = UnitSum(f) - f[k] + g[k]
  <2>. HIDE DEF f, g
  <2>. QED
    BY <1>1, SumChange DEF f
<1>3. AmountsIn(q, K) = AmountsIn(p, K)
  BY DEF AmountsIn
<1>. QED
  BY <1>1, <1>2, <1>3

(* What a new row does to the sum of a set of rows K that it may join. *)
LEMMA RowJoins ==
    ASSUME TypeOK, TypeOK', NEW k \in Keys, NEW row,
           payment' = [payment EXCEPT ![k] = row],
           NEW K, NEW L, k \notin K, FiniteRows(K), L = K \/ L = K \cup {k}
    PROVE  /\ SumOfRows(K) \in Nat
           /\ IsFiniteSet(Units(AmountsIn(payment', L)))
           /\ UnitSum(AmountsIn(payment', L))
                = SumOfRows(K) + (IF k \in L THEN row.amount ELSE 0)
<1>. DEFINE q == payment'
<1>2. /\ \A j \in Keys : payment[j].amount \in Nat /\ q[j].amount \in Nat
      /\ \A j \in Keys \ {k} : q[j] = payment[j]
      /\ q[k] = row
  BY DEF TypeOK
<1>. HIDE DEF q
<1>3. /\ AmountsIn(q, K) = AmountsIn(payment, K)
      /\ IsFiniteSet(Units(AmountsIn(q, K \cup {k})))
      /\ UnitSum(AmountsIn(payment, K)) \in Nat
      /\ UnitSum(AmountsIn(q, K \cup {k}))
           = UnitSum(AmountsIn(payment, K)) + q[k].amount
  BY <1>2, RowAdded DEF FiniteRows
<1>4. CASE L = K
  BY <1>3, <1>4 DEF SumOfRows, FiniteRows, q
<1>5. CASE L = K \cup {k}
  BY <1>2, <1>3, <1>5 DEF SumOfRows, q
<1>. QED
  BY <1>4, <1>5

(* The sets of rows a new row joins. *)
LEMMA SaleRowSet ==
    ASSUME TypeOK, NEW s \in Sales, NEW kind \in Kinds, NEW k \in Keys,
           payment[k].kind = "none", payment[k].ret = None,
           NEW row, row.kind \in Kinds, payment' = [payment EXCEPT ![k] = row]
    PROVE  /\ k \notin SaleRows(s, kind)
           /\ SaleRows(s, kind)' \in {SaleRows(s, kind), SaleRows(s, kind) \cup {k}}
<1>1. /\ payment'[k] = row /\ \A j \in Keys \ {k} : payment'[j] = payment[j]
  BY DEF TypeOK
<1>. QED
  BY <1>1 DEF SaleRows, Kinds

LEMMA RefundRowSet ==
    ASSUME TypeOK, NEW r \in Returns, NEW k \in Keys,
           payment[k].kind = "none", payment[k].ret = None,
           NEW row, row.kind \in Kinds, payment' = [payment EXCEPT ![k] = row]
    PROVE  /\ k \notin RefundRows(r)
           /\ RefundRows(r)' \in {RefundRows(r), RefundRows(r) \cup {k}}
           /\ k \in RefundRows(r)' <=> row.ret = r
<1>1. /\ payment'[k] = row /\ \A j \in Keys \ {k} : payment'[j] = payment[j]
  BY DEF TypeOK
<1>. QED
  BY <1>1, PaymentsAssumption DEF RefundRows

LEMMA CashRowSet ==
    ASSUME TypeOK, NEW x \in Sessions, NEW kind \in Kinds, NEW k \in Keys,
           payment[k].kind = "none", payment[k].ret = None,
           NEW row, row.kind \in Kinds, payment' = [payment EXCEPT ![k] = row]
    PROVE  /\ k \notin CashRows(x, kind)
           /\ CashRows(x, kind)' \in {CashRows(x, kind), CashRows(x, kind) \cup {k}}
           /\ k \in CashRows(x, kind)' <=> /\ row.session = x /\ row.kind = kind
                                   /\ row.method \in CashMethods
<1>1. /\ payment'[k] = row /\ \A j \in Keys \ {k} : payment'[j] = payment[j]
  BY DEF TypeOK
<1>. QED
  BY <1>1 DEF CashRows, Kinds

(* Every sum after a row is inserted. *)
LEMMA RowInserted ==
    ASSUME TypeOK, TypeOK', PaymentSums, NEW k \in Keys, NEW row,
           payment[k].kind = "none", row.kind \in Kinds,
           payment' = [payment EXCEPT ![k] = row]
    PROVE  /\ \A s \in Sales, kind \in Kinds :
                  /\ FiniteRows(SaleRows(s, kind))'
                  /\ SumOfRows(SaleRows(s, kind)) \in Nat
                  /\ SumOfRows(SaleRows(s, kind))'
                       = SumOfRows(SaleRows(s, kind))
                           + (IF row.sale = s /\ row.kind = kind
                              THEN row.amount ELSE 0)
           /\ \A r \in Returns :
                  /\ FiniteRows(RefundRows(r))'
                  /\ SumOfRows(RefundRows(r)) \in Nat
                  /\ SumOfRows(RefundRows(r))'
                       = SumOfRows(RefundRows(r))
                           + (IF row.ret = r THEN row.amount ELSE 0)
           /\ \A x \in Sessions, kind \in Kinds :
                  /\ FiniteRows(CashRows(x, kind))'
                  /\ SumOfRows(CashRows(x, kind)) \in Nat
                  /\ SumOfRows(CashRows(x, kind))'
                       = SumOfRows(CashRows(x, kind))
                           + (IF /\ row.session = x /\ row.kind = kind
                                 /\ row.method \in CashMethods
                              THEN row.amount ELSE 0)
<1>0. payment[k].ret = None
  BY DEF PaymentSums
<1>1. ASSUME NEW s \in Sales, NEW kind \in Kinds
      PROVE  /\ FiniteRows(SaleRows(s, kind))'
             /\ SumOfRows(SaleRows(s, kind)) \in Nat
             /\ SumOfRows(SaleRows(s, kind))'
                  = SumOfRows(SaleRows(s, kind))
                      + (IF row.sale = s /\ row.kind = kind THEN row.amount ELSE 0)
  <2>. DEFINE K == SaleRows(s, kind)
              L == K'
  <2>1. k \notin K /\ FiniteRows(K) /\ (L = K \/ L = K \cup {k})
    BY <1>0, SaleRowSet DEF PaymentSums
  <2>2. k \in L <=> row.sale = s /\ row.kind = kind
    <3>1. payment'[k] = row
      BY DEF TypeOK
    <3>. QED
      BY <3>1 DEF SaleRows
  <2>3. FiniteRows(K)' <=> IsFiniteSet(Units(AmountsIn(payment', L)))
    BY DEF FiniteRows
  <2>4. SumOfRows(K)' = UnitSum(AmountsIn(payment', L))
    BY DEF SumOfRows
  <2>. HIDE DEF K, L
  <2>5. /\ SumOfRows(K) \in Nat
        /\ IsFiniteSet(Units(AmountsIn(payment', L)))
        /\ UnitSum(AmountsIn(payment', L))
             = SumOfRows(K) + (IF k \in L THEN row.amount ELSE 0)
    BY <2>1, RowJoins
  <2>. QED
    BY <2>2, <2>3, <2>4, <2>5 DEF K
<1>2. ASSUME NEW r \in Returns
      PROVE  /\ FiniteRows(RefundRows(r))'
             /\ SumOfRows(RefundRows(r)) \in Nat
             /\ SumOfRows(RefundRows(r))'
                  = SumOfRows(RefundRows(r))
                      + (IF row.ret = r THEN row.amount ELSE 0)
  <2>. DEFINE K == RefundRows(r)
              L == K'
  <2>1. k \notin K /\ FiniteRows(K) /\ (L = K \/ L = K \cup {k})
    BY <1>0, RefundRowSet DEF PaymentSums
  <2>2. k \in L <=> row.ret = r
    BY <1>0, RefundRowSet
  <2>3. FiniteRows(K)' <=> IsFiniteSet(Units(AmountsIn(payment', L)))
    BY DEF FiniteRows
  <2>4. SumOfRows(K)' = UnitSum(AmountsIn(payment', L))
    BY DEF SumOfRows
  <2>. HIDE DEF K, L
  <2>5. /\ SumOfRows(K) \in Nat
        /\ IsFiniteSet(Units(AmountsIn(payment', L)))
        /\ UnitSum(AmountsIn(payment', L))
             = SumOfRows(K) + (IF k \in L THEN row.amount ELSE 0)
    BY <2>1, RowJoins
  <2>. QED
    BY <2>2, <2>3, <2>4, <2>5 DEF K
<1>3. ASSUME NEW x \in Sessions, NEW kind \in Kinds
      PROVE  /\ FiniteRows(CashRows(x, kind))'
             /\ SumOfRows(CashRows(x, kind)) \in Nat
             /\ SumOfRows(CashRows(x, kind))'
                  = SumOfRows(CashRows(x, kind))
                      + (IF /\ row.session = x /\ row.kind = kind
                            /\ row.method \in CashMethods
                         THEN row.amount ELSE 0)
  <2>. DEFINE K == CashRows(x, kind)
              L == K'
  <2>1. k \notin K /\ FiniteRows(K) /\ (L = K \/ L = K \cup {k})
    BY <1>0, CashRowSet DEF PaymentSums
  <2>2. k \in L <=> /\ row.session = x /\ row.kind = kind
                            /\ row.method \in CashMethods
                        
    BY <1>0, CashRowSet
  <2>3. FiniteRows(K)' <=> IsFiniteSet(Units(AmountsIn(payment', L)))
    BY DEF FiniteRows
  <2>4. SumOfRows(K)' = UnitSum(AmountsIn(payment', L))
    BY DEF SumOfRows
  <2>. HIDE DEF K, L
  <2>5. /\ SumOfRows(K) \in Nat
        /\ IsFiniteSet(Units(AmountsIn(payment', L)))
        /\ UnitSum(AmountsIn(payment', L))
             = SumOfRows(K) + (IF k \in L THEN row.amount ELSE 0)
    BY <2>1, RowJoins
  <2>. QED
    BY <2>2, <2>3, <2>4, <2>5 DEF K
<1>. QED
  BY <1>1, <1>2, <1>3

LEMMA SumsUntouched ==
    ASSUME PaymentSums,
           UNCHANGED <<payment, paid, refunded, retRefunded, expected>>
    PROVE  PaymentSums'
BY DEF PaymentSums, FiniteRows, SumOfRows, SaleRows, CashRows, RefundRows

LEMMA PaymentSumsOfSale ==
    ASSUME MoneyInvariant, PaymentSums, NEW s \in Sales, NEW k \in Keys,
           NEW m \in Methods, NEW x \in Sessions \cup {None}, NEW a \in Nat,
           NewSalePayment(s, k, m, x, a)
    PROVE  PaymentSums'
<1>. DEFINE row == SalePaymentRow(s, m, x, a)
<1>1. TypeOK /\ TypeOK'
  BY SalePaymentType DEF MoneyInvariant, RegisterSalePayment
<1>2. /\ row.kind = "sale" /\ row.sale = s /\ row.ret = None /\ row.session = x
      /\ row.method = m /\ row.amount = a
  BY DEF SalePaymentRow
<1>3. /\ payment[k].kind = "none" /\ payment' = [payment EXCEPT ![k] = row]
      /\ CashContext(m, x) /\ CashMovement(m, x, a)
      /\ paid' = [paid EXCEPT ![s] = @ + a]
      /\ refunded' = refunded /\ retRefunded' = retRefunded
  BY DEF NewSalePayment, SalePayable, retVars
<1>. HIDE DEF row
<1>4. /\ \A q \in Sales, kind \in Kinds :
             /\ FiniteRows(SaleRows(q, kind))'
             /\ SumOfRows(SaleRows(q, kind)) \in Nat
             /\ SumOfRows(SaleRows(q, kind))'
                  = SumOfRows(SaleRows(q, kind))
                      + (IF s = q /\ "sale" = kind THEN a ELSE 0)
      /\ \A r \in Returns :
             /\ FiniteRows(RefundRows(r))'
             /\ SumOfRows(RefundRows(r)) \in Nat
             /\ SumOfRows(RefundRows(r))'
                  = SumOfRows(RefundRows(r)) + (IF None = r THEN a ELSE 0)
      /\ \A y \in Sessions, kind \in Kinds :
             /\ FiniteRows(CashRows(y, kind))'
             /\ SumOfRows(CashRows(y, kind)) \in Nat
             /\ SumOfRows(CashRows(y, kind))'
                  = SumOfRows(CashRows(y, kind))
                      + (IF x = y /\ "sale" = kind /\ m \in CashMethods
                         THEN a ELSE 0)
  <2>1. row.kind \in Kinds
    BY <1>2 DEF Kinds
  <2>2. ASSUME NEW q \in Sales, NEW kind \in Kinds
        PROVE  /\ FiniteRows(SaleRows(q, kind))'
               /\ SumOfRows(SaleRows(q, kind)) \in Nat
               /\ SumOfRows(SaleRows(q, kind))'
                    = SumOfRows(SaleRows(q, kind))
                        + (IF row.sale = q /\ row.kind = kind
                           THEN row.amount ELSE 0)
    BY <1>1, <1>3, <2>1, RowInserted
  <2>3. ASSUME NEW r \in Returns
        PROVE  /\ FiniteRows(RefundRows(r))'
               /\ SumOfRows(RefundRows(r)) \in Nat
               /\ SumOfRows(RefundRows(r))'
                    = SumOfRows(RefundRows(r))
                        + (IF row.ret = r THEN row.amount ELSE 0)
    BY <1>1, <1>3, <2>1, RowInserted
  <2>4. ASSUME NEW y \in Sessions, NEW kind \in Kinds
        PROVE  /\ FiniteRows(CashRows(y, kind))'
               /\ SumOfRows(CashRows(y, kind)) \in Nat
               /\ SumOfRows(CashRows(y, kind))'
                    = SumOfRows(CashRows(y, kind))
                        + (IF /\ row.session = y /\ row.kind = kind
                              /\ row.method \in CashMethods
                           THEN row.amount ELSE 0)
    BY <1>1, <1>3, <2>1, RowInserted
  <2>. QED
    BY <1>2, <2>2, <2>3, <2>4
<1>5. \A q \in Sales : /\ paid'[q] = SumOfRows(SaleRows(q, "sale"))'
                       /\ refunded'[q] = SumOfRows(SaleRows(q, "refund"))'
  BY <1>1, <1>3, <1>4 DEF PaymentSums, TypeOK, Kinds
<1>6. \A r \in Returns : retRefunded'[r] = SumOfRows(RefundRows(r))'
  BY <1>3, <1>4, PaymentsAssumption DEF PaymentSums
<1>7. \A y \in Sessions : expected'[y] = SumOfRows(CashRows(y, "sale"))'
                                           - SumOfRows(CashRows(y, "refund"))'
  BY <1>1, <1>3, <1>4, PaymentsAssumption
  DEF PaymentSums, TypeOK, Kinds, CashMovement, CashContext
<1>8. \A j \in Keys : payment'[j].kind = "none" => payment'[j].ret = None
  BY <1>1, <1>2, <1>3 DEF PaymentSums, TypeOK
<1>. QED
  BY <1>4, <1>5, <1>6, <1>7, <1>8 DEF PaymentSums

LEMMA PaymentSumsOfRefund ==
    ASSUME MoneyInvariant, PaymentSums, NEW r \in Returns, NEW k \in Keys,
           NEW m \in Methods, NEW x \in Sessions \cup {None}, NEW a \in Nat,
           RegisterRefund(r, k, m, x, a)
    PROVE  PaymentSums'
<1>1. TypeOK /\ TypeOK' /\ retSale[r] \in Sales
  BY RefundType DEF MoneyInvariant
<1>. PICK s \in Sales : s = retSale[r]
  BY <1>1
<1>. DEFINE row == [kind |-> "refund", sale |-> s, method |-> m, amount |-> a,
                    ret |-> r, session |-> x]
<1>2. /\ row.kind = "refund" /\ row.sale = s /\ row.ret = r /\ row.session = x
      /\ row.method = m /\ row.amount = a
  OBVIOUS
<1>3. /\ payment[k].kind = "none" /\ payment' = [payment EXCEPT ![k] = row]
      /\ CashContext(m, x) /\ CashMovement(m, x, -a)
      /\ refunded' = [refunded EXCEPT ![s] = @ + a]
      /\ retRefunded' = [retRefunded EXCEPT ![r] = @ + a]
      /\ paid' = paid
  BY DEF RegisterRefund
<1>. HIDE DEF row
<1>4. row.kind \in Kinds
  BY <1>2 DEF Kinds
<1>5. ASSUME NEW q \in Sales, NEW kind \in Kinds
      PROVE  /\ FiniteRows(SaleRows(q, kind))'
             /\ SumOfRows(SaleRows(q, kind)) \in Nat
             /\ SumOfRows(SaleRows(q, kind))'
                  = SumOfRows(SaleRows(q, kind))
                      + (IF row.sale = q /\ row.kind = kind THEN row.amount ELSE 0)
  BY <1>1, <1>3, <1>4, RowInserted
<1>6. ASSUME NEW t \in Returns
      PROVE  /\ FiniteRows(RefundRows(t))'
             /\ SumOfRows(RefundRows(t)) \in Nat
             /\ SumOfRows(RefundRows(t))'
                  = SumOfRows(RefundRows(t))
                      + (IF row.ret = t THEN row.amount ELSE 0)
  BY <1>1, <1>3, <1>4, RowInserted
<1>7. ASSUME NEW y \in Sessions, NEW kind \in Kinds
      PROVE  /\ FiniteRows(CashRows(y, kind))'
             /\ SumOfRows(CashRows(y, kind)) \in Nat
             /\ SumOfRows(CashRows(y, kind))'
                  = SumOfRows(CashRows(y, kind))
                      + (IF /\ row.session = y /\ row.kind = kind
                            /\ row.method \in CashMethods
                         THEN row.amount ELSE 0)
  BY <1>1, <1>3, <1>4, RowInserted
<1>8. \A q \in Sales : /\ paid'[q] = SumOfRows(SaleRows(q, "sale"))'
                       /\ refunded'[q] = SumOfRows(SaleRows(q, "refund"))'
  BY <1>1, <1>2, <1>3, <1>5 DEF PaymentSums, TypeOK, Kinds
<1>9. \A t \in Returns : retRefunded'[t] = SumOfRows(RefundRows(t))'
  BY <1>1, <1>2, <1>3, <1>6 DEF PaymentSums, TypeOK
<1>10. \A y \in Sessions : expected'[y] = SumOfRows(CashRows(y, "sale"))'
                                            - SumOfRows(CashRows(y, "refund"))'
  BY <1>1, <1>2, <1>3, <1>7, PaymentsAssumption
  DEF PaymentSums, TypeOK, Kinds, CashMovement, CashContext
<1>11. \A j \in Keys : payment'[j].kind = "none" => payment'[j].ret = None
  BY <1>1, <1>2, <1>3 DEF PaymentSums, TypeOK
<1>. QED
  BY <1>5, <1>6, <1>7, <1>8, <1>9, <1>10, <1>11 DEF PaymentSums

LEMMA PaymentSumsStep ==
    ASSUME MoneyInvariant, PaymentSums, [MoneyNext]_moneyVars
    PROVE  PaymentSums'
<1>0. Amounts \subseteq Nat
  BY PaymentsAssumption DEF Amounts
<1>1. CASE UNCHANGED <<payment, paid, refunded, retRefunded, expected>>
  BY <1>1, SumsUntouched
<1>2. ASSUME NEW s \in Sales, NEW k \in Keys, NEW m \in Methods,
             NEW x \in Sessions \cup {None}, NEW a \in Amounts,
             RegisterSalePayment(s, k, m, x, a)
      PROVE  PaymentSums'
  BY <1>0, <1>1, <1>2, PaymentSumsOfSale
  DEF RegisterSalePayment, ReplaySalePayment, sumVars, retVars, cashVars
<1>3. ASSUME NEW r \in Returns, NEW k \in Keys, NEW m \in Methods,
             NEW x \in Sessions \cup {None}, NEW a \in Amounts,
             RegisterRefund(r, k, m, x, a)
      PROVE  PaymentSums'
  BY <1>0, <1>3, PaymentSumsOfRefund
<1>4. ASSUME NEW s \in Sales,
             \/ \E t \in 0 .. MaxTotal : EditCart(s, t)
             \/ CompleteSale(s) \/ CancelSale(s) \/ RegisterSaleOnAccount(s)
      PROVE  PaymentSums'
  BY <1>1, <1>4 DEF EditCart, CompleteSale, CancelSale, RegisterSaleOnAccount,
                    sumVars, retVars, cashVars
<1>5. ASSUME NEW r \in Returns, NEW s \in Sales, NEW a \in Amounts,
             NEW full \in BOOLEAN, CompleteReturn(r, s, a, full)
      PROVE  PaymentSums'
  BY <1>1, <1>5 DEF CompleteReturn, cashVars
<1>6. CASE \/ UpdateAccountSettings \/ UNCHANGED moneyVars
           \/ \E x \in Sessions : OpenSession(x) \/ CloseSession(x)
  BY <1>1, <1>6 DEF UpdateAccountSettings, OpenSession, CloseSession, moneyVars,
                    sumVars, retVars, cashVars
<1>. QED
  BY <1>2, <1>3, <1>4, <1>5, <1>6 DEF MoneyNext

(* The account moves by what the debt of one sale moves. *)
LEMMA DebtMoved ==
    ASSUME MoneyInvariant, MoneyInvariant', DebtSum, NEW s \in Sales,
           \A q \in Sales \ {s} : debt'[q] = debt[q],
           balance' = balance + debt'[s] - debt[s]
    PROVE  DebtSum'
<1>. DEFINE f == debt
            g == debt'
<1>1. /\ f \in [Sales -> Nat] /\ g \in [Sales -> Nat] /\ IsFiniteSet(Units(f))
      /\ \A y \in Sales \ {s} : g[y] = f[y]
      /\ balance = UnitSum(f) /\ balance' = balance + g[s] - f[s]
  BY DEF MoneyInvariant, TypeOK, SaleInvariant, DebtSum
<1>. HIDE DEF f, g
<1>2. /\ IsFiniteSet(Units(g)) /\ UnitSum(f) \in Nat /\ UnitSum(g) \in Nat
      /\ UnitSum(g) = UnitSum(f) - f[s] + g[s]
  BY <1>1, SumChange
<1>3. f[s] \in Nat /\ g[s] \in Nat
  BY <1>1
<1>4. IsFiniteSet(Units(g)) /\ balance' = UnitSum(g)
  BY <1>1, <1>2, <1>3
<1>. QED
  BY <1>4 DEF DebtSum, g

LEMMA DebtSumStep ==
    ASSUME MoneyInvariant, MoneyInvariant', DebtSum, [MoneyNext]_moneyVars
    PROVE  DebtSum'
<1>0. /\ Amounts \subseteq Nat
      /\ debt \in [Sales -> Int] /\ balance \in Int
  BY PaymentsAssumption DEF Amounts, MoneyInvariant, TypeOK
<1>1. CASE UNCHANGED <<debt, balance>>
  BY <1>1 DEF DebtSum
<1>2. ASSUME NEW s \in Sales, NEW n \in Nat, ReduceDebt(s, n)
      PROVE  DebtSum'
  <2>1. /\ debt'[s] = debt[s] - n /\ balance' = balance - n /\ debt[s] \in Int
        /\ \A q \in Sales \ {s} : debt'[q] = debt[q]
    BY <1>0, <1>2 DEF ReduceDebt
  <2>2. balance' = balance + debt'[s] - debt[s]
    BY <1>0, <2>1
  <2>. QED
    BY <2>1, <2>2, DebtMoved
<1>3. ASSUME NEW s \in Sales, NEW k \in Keys, NEW m \in Methods,
             NEW x \in Sessions \cup {None}, NEW a \in Amounts,
             RegisterSalePayment(s, k, m, x, a)
      PROVE  DebtSum'
  <2>1. DebtPayment(s, k, a) \in Nat
    BY <1>0, DebtPaymentBounds
  <2>2. ReduceDebt(s, DebtPayment(s, k, a))
    BY <1>3 DEF RegisterSalePayment, ReplaySalePayment, NewSalePayment,
                ApplyDebtPayment
  <2>. QED
    BY <1>2, <2>1, <2>2
<1>4. ASSUME NEW r \in Returns, NEW s \in Sales, NEW a \in Amounts,
             NEW full \in BOOLEAN, CompleteReturn(r, s, a, full)
      PROVE  DebtSum'
  <2>. DEFINE n == IF charged[s] THEN Lesser(a, NonNegative(debt[s])) ELSE 0
  <2>1. n \in Nat
    BY <1>0 DEF Lesser, NonNegative
  <2>2. ReduceDebt(s, n)
    BY <1>4 DEF CompleteReturn
  <2>. HIDE DEF n
  <2>. QED
    BY <1>2, <2>1, <2>2
<1>5. ASSUME NEW s \in Sales, RegisterSaleOnAccount(s)
      PROVE  DebtSum'
  <2>. DEFINE due == PendingOf(total[s], returned[s], paid[s], refunded[s])
  <2>1. due \in Int
    <3>1. /\ total[s] \in Nat /\ returned[s] \in Nat /\ paid[s] \in Nat
          /\ refunded[s] \in Nat /\ reduced[s] \in Nat
      BY DEF MoneyInvariant, TypeOK
    <3>. QED
      BY <3>1 DEF PendingOf, EffectiveTotal, NetPaid, NonNegative
  <2>2. debt' = [debt EXCEPT ![s] = @ + due] /\ balance' = balance + due
    BY <1>5 DEF RegisterSaleOnAccount
  <2>. HIDE DEF due
  <2>3. /\ \A q \in Sales \ {s} : debt'[q] = debt[q]
        /\ balance' = balance + debt'[s] - debt[s]
    BY <1>0, <2>1, <2>2
  <2>. QED
    BY <2>3, DebtMoved
<1>6. ASSUME NEW r \in Returns, NEW k \in Keys, NEW m \in Methods,
             NEW x \in Sessions \cup {None}, NEW a \in Amounts,
             RegisterRefund(r, k, m, x, a)
      PROVE  DebtSum'
  BY <1>1, <1>6 DEF RegisterRefund, accountVars
<1>7. ASSUME NEW s \in Sales,
             \/ \E t \in 0 .. MaxTotal : EditCart(s, t)
             \/ CompleteSale(s) \/ CancelSale(s)
      PROVE  DebtSum'
  BY <1>1, <1>7 DEF EditCart, CompleteSale, CancelSale, accountVars
<1>8. CASE \/ UpdateAccountSettings \/ UNCHANGED moneyVars
           \/ \E x \in Sessions : OpenSession(x) \/ CloseSession(x)
  BY <1>1, <1>8 DEF UpdateAccountSettings, OpenSession, CloseSession, moneyVars,
                    accountVars
<1>. QED
  BY <1>3, <1>4, <1>5, <1>6, <1>7, <1>8 DEF MoneyNext

LEMMA SumsStart == MoneyInit => PaymentSums /\ DebtSum
<1>. SUFFICES ASSUME MoneyInit PROVE PaymentSums /\ DebtSum
  OBVIOUS
<1>1. \A k \in Keys : payment[k] = NoRow
  BY DEF MoneyInit
<1>2. ASSUME NEW K, \A k \in Keys : k \in K => payment[k].amount = 0
      PROVE  FiniteRows(K) /\ SumOfRows(K) = 0
  <2>1. /\ AmountsIn(payment, K) \in [Keys -> Nat]
        /\ \A k \in Keys : AmountsIn(payment, K)[k] = 0
    BY <1>2 DEF AmountsIn
  <2>. QED
    BY <2>1, SumOfZeros DEF FiniteRows, SumOfRows
<1>3. \A k \in Keys : payment[k].amount = 0 /\ payment[k].ret = None
  BY <1>1 DEF NoRow
<1>4. PaymentSums
  BY <1>2, <1>3 DEF MoneyInit, PaymentSums
<1>5. debt \in [Sales -> Nat] /\ \A s \in Sales : debt[s] = 0
  BY DEF MoneyInit
<1>6. DebtSum
  BY <1>5, SumOfZeros DEF MoneyInit, DebtSum
<1>. QED
  BY <1>4, <1>6

(* Every running total is the sum of its rows, for any rows and any order of the
   operations. *)
THEOREM TotalsAreSums == MoneySpec => []TotalsMatchRows
<1>. DEFINE Known == MoneyInvariant /\ PaymentSums /\ DebtSum
<1>1. MoneyInit => Known
  BY MoneyStart, SumsStart
<1>2. Known /\ [MoneyNext]_moneyVars => Known'
  BY MoneyStep, PaymentSumsStep, DebtSumStep
<1>3. Known => TotalsMatchRows
  BY DEF PaymentSums, DebtSum, TotalsMatchRows
<1>. QED
  BY <1>1, <1>2, <1>3, PTL DEF MoneySpec
-------------------------------------------------------------------------------
(***************************************************************************)
(* No money is stranded.  What the returns of a sale may still give back   *)
(* is, in sum, what was returned less what reduced debt and what was       *)
(* refunded; if it were nothing while the shop holds more than the goods   *)
(* kept are worth, the sale would have collected and forgiven more than    *)
(* its total.                                                              *)
(***************************************************************************)
Refundable(s) ==
    [r \in Returns |-> IF retSale[r] = s
                       THEN retAmount[r] - retReduced[r] - retRefunded[r] ELSE 0]

RefundableSum ==
    \A s \in Sales :
        /\ IsFiniteSet(Units(Refundable(s)))
        /\ UnitSum(Refundable(s)) = returned[s] - reduced[s] - refunded[s]

LEMMA RefundableType ==
    ASSUME MoneyInvariant
    PROVE  \A s \in Sales : Refundable(s) \in [Returns -> Nat]
BY DEF MoneyInvariant, TypeOK, ReturnInvariant, Refundable

(* A step that changes one return r of sale s, by as much as it changes the sums
   of s. *)
LEMMA RefundableMoved ==
    ASSUME MoneyInvariant, MoneyInvariant', RefundableSum,
           NEW s \in Sales, NEW r \in Returns, retSale[r] \in {s, None},
           retSale'[r] = s,
           \A t \in Returns \ {r} :
               /\ retSale'[t] = retSale[t] /\ retAmount'[t] = retAmount[t]
               /\ retReduced'[t] = retReduced[t]
               /\ retRefunded'[t] = retRefunded[t],
           \A q \in Sales \ {s} :
               /\ returned'[q] = returned[q] /\ reduced'[q] = reduced[q]
               /\ refunded'[q] = refunded[q],
           returned'[s] - reduced'[s] - refunded'[s]
             = returned[s] - reduced[s] - refunded[s]
                 - (retAmount[r] - retReduced[r] - retRefunded[r])
                 + (retAmount'[r] - retReduced'[r] - retRefunded'[r])
    PROVE  RefundableSum'
<1>1. ASSUME NEW q \in Sales
      PROVE  /\ Refundable(q) \in [Returns -> Nat]
             /\ Refundable(q)' \in [Returns -> Nat]
  BY RefundableType DEF MoneyInvariant, TypeOK, ReturnInvariant, Refundable
<1>2. ASSUME NEW q \in Sales, q # s
      PROVE  /\ IsFiniteSet(Units(Refundable(q)'))
             /\ UnitSum(Refundable(q)') = returned'[q] - reduced'[q] - refunded'[q]
  <2>1. Refundable(q)' = Refundable(q)
    BY <1>2, PaymentsAssumption DEF Refundable
  <2>. QED
    BY <1>2, <2>1 DEF RefundableSum
<1>3. /\ IsFiniteSet(Units(Refundable(s)'))
      /\ UnitSum(Refundable(s)') = returned'[s] - reduced'[s] - refunded'[s]
  <2>. DEFINE f == Refundable(s)
              g == Refundable(s)'
  <2>1. /\ f \in [Returns -> Nat] /\ g \in [Returns -> Nat]
        /\ IsFiniteSet(Units(f))
        /\ UnitSum(f) = returned[s] - reduced[s] - refunded[s]
    BY <1>1 DEF RefundableSum
  <2>2. \A t \in Returns \ {r} : g[t] = f[t]
    BY DEF Refundable
  <2>3. /\ f[r] = retAmount[r] - retReduced[r] - retRefunded[r]
        /\ g[r] = retAmount'[r] - retReduced'[r] - retRefunded'[r]
    BY PaymentsAssumption
    DEF Refundable, MoneyInvariant, ReturnInvariant, TypeOK
  <2>4. /\ returned[s] \in Nat /\ reduced[s] \in Nat /\ refunded[s] \in Nat
        /\ returned'[s] \in Nat /\ reduced'[s] \in Nat /\ refunded'[s] \in Nat
    BY DEF MoneyInvariant, TypeOK
  <2>5. f[r] \in Nat /\ g[r] \in Nat
    BY <2>1
  <2>. HIDE DEF f, g
  <2>6. /\ IsFiniteSet(Units(g)) /\ UnitSum(f) \in Nat /\ UnitSum(g) \in Nat
        /\ UnitSum(g) = UnitSum(f) - f[r] + g[r]
    BY <2>1, <2>2, SumChange
  <2>7. UnitSum(g) = returned'[s] - reduced'[s] - refunded'[s]
    BY <2>1, <2>3, <2>4, <2>5, <2>6
  <2>. QED
    BY <2>6, <2>7 DEF g
<1>. QED
  BY <1>2, <1>3 DEF RefundableSum

LEMMA RefundableStep ==
    ASSUME MoneyInvariant, MoneyInvariant', RefundableSum, [MoneyNext]_moneyVars
    PROVE  RefundableSum'
<1>0. Amounts \subseteq Nat
  BY PaymentsAssumption DEF Amounts
<1>1. CASE UNCHANGED <<retVars, returned, reduced, refunded>>
  <2>1. \A s \in Sales : Refundable(s)' = Refundable(s)
    BY <1>1 DEF Refundable, retVars
  <2>. QED
    BY <1>1, <2>1 DEF RefundableSum
<1>2. ASSUME NEW s \in Sales, NEW k \in Keys, NEW m \in Methods,
             NEW x \in Sessions \cup {None}, NEW a \in Amounts,
             RegisterSalePayment(s, k, m, x, a)
      PROVE  RefundableSum'
  BY <1>1, <1>2
  DEF RegisterSalePayment, ReplaySalePayment, NewSalePayment, sumVars
<1>3. ASSUME NEW r \in Returns, NEW k \in Keys, NEW m \in Methods,
             NEW x \in Sessions \cup {None}, NEW a \in Amounts,
             RegisterRefund(r, k, m, x, a)
      PROVE  RefundableSum'
  <2>1. retSale[r] \in Sales
    BY <1>3 DEF RegisterRefund, MoneyInvariant, TypeOK
  <2>. PICK s \in Sales : s = retSale[r]
    BY <2>1
  <2>2. /\ UNCHANGED <<returned, reduced, retSale, retAmount, retReduced>>
        /\ refunded' = [refunded EXCEPT ![s] = @ + a]
        /\ retRefunded' = [retRefunded EXCEPT ![r] = @ + a]
    BY <1>3 DEF RegisterRefund, accountVars
  <2>3. /\ refunded'[s] = refunded[s] + a /\ retRefunded'[r] = retRefunded[r] + a
        /\ \A q \in Sales \ {s} : refunded'[q] = refunded[q]
        /\ \A t \in Returns \ {r} : retRefunded'[t] = retRefunded[t]
    BY <2>2 DEF MoneyInvariant, TypeOK
  <2>4. /\ returned[s] \in Nat /\ reduced[s] \in Nat /\ refunded[s] \in Nat
        /\ retAmount[r] \in Nat /\ retReduced[r] \in Nat /\ retRefunded[r] \in Nat
        /\ a \in Nat
    BY <1>0 DEF MoneyInvariant, TypeOK
  <2>5. returned'[s] - reduced'[s] - refunded'[s]
          = returned[s] - reduced[s] - refunded[s]
              - (retAmount[r] - retReduced[r] - retRefunded[r])
              + (retAmount'[r] - retReduced'[r] - retRefunded'[r])
    BY <2>2, <2>3, <2>4
  <2>. QED
    BY <2>2, <2>3, <2>5, RefundableMoved
<1>4. ASSUME NEW r \in Returns, NEW s \in Sales, NEW a \in Amounts,
             NEW full \in BOOLEAN, CompleteReturn(r, s, a, full)
      PROVE  RefundableSum'
  <2>. DEFINE n == IF charged[s] THEN Lesser(a, NonNegative(debt[s])) ELSE 0
  <2>1. n \in Nat
    BY <1>0 DEF Lesser, NonNegative, MoneyInvariant, TypeOK
  <2>2. /\ refunded' = refunded /\ retRefunded' = retRefunded
        /\ retSale[r] = None
        /\ retSale' = [retSale EXCEPT ![r] = s]
        /\ retAmount' = [retAmount EXCEPT ![r] = a]
        /\ retReduced' = [retReduced EXCEPT ![r] = n]
        /\ returned' = [returned EXCEPT ![s] = @ + a]
        /\ reduced' = [reduced EXCEPT ![s] = @ + n]
    BY <1>4 DEF CompleteReturn
  <2>. HIDE DEF n
  <2>3. /\ retSale'[r] = s /\ retAmount'[r] = a /\ retReduced'[r] = n
        /\ returned'[s] = returned[s] + a /\ reduced'[s] = reduced[s] + n
        /\ \A q \in Sales \ {s} :
               returned'[q] = returned[q] /\ reduced'[q] = reduced[q]
        /\ \A t \in Returns \ {r} :
               /\ retSale'[t] = retSale[t] /\ retAmount'[t] = retAmount[t]
               /\ retReduced'[t] = retReduced[t]
    BY <2>2 DEF MoneyInvariant, TypeOK
  <2>4. /\ returned[s] \in Nat /\ reduced[s] \in Nat /\ refunded[s] \in Nat
        /\ retAmount[r] = 0 /\ retReduced[r] = 0 /\ retRefunded[r] = 0
        /\ a \in Nat
    BY <1>0, <2>2 DEF MoneyInvariant, ReturnInvariant, TypeOK
  <2>5. returned'[s] - reduced'[s] - refunded'[s]
          = returned[s] - reduced[s] - refunded[s]
              - (retAmount[r] - retReduced[r] - retRefunded[r])
              + (retAmount'[r] - retReduced'[r] - retRefunded'[r])
    BY <2>1, <2>2, <2>3, <2>4
  <2>. QED
    BY <2>2, <2>3, <2>5, RefundableMoved
<1>5. ASSUME NEW s \in Sales,
             \/ \E t \in 0 .. MaxTotal : EditCart(s, t)
             \/ CompleteSale(s) \/ CancelSale(s) \/ RegisterSaleOnAccount(s)
      PROVE  RefundableSum'
  BY <1>1, <1>5 DEF EditCart, CompleteSale, CancelSale, RegisterSaleOnAccount,
                    sumVars, accountVars
<1>6. CASE \/ UpdateAccountSettings \/ UNCHANGED moneyVars
           \/ \E x \in Sessions : OpenSession(x) \/ CloseSession(x)
  BY <1>1, <1>6 DEF UpdateAccountSettings, OpenSession, CloseSession, moneyVars,
                    sumVars, accountVars
<1>. QED
  BY <1>2, <1>3, <1>4, <1>5, <1>6 DEF MoneyNext

LEMMA RefundableStart == MoneyInit => RefundableSum
<1>. SUFFICES ASSUME MoneyInit, NEW s \in Sales
              PROVE  /\ IsFiniteSet(Units(Refundable(s)))
                     /\ UnitSum(Refundable(s))
                          = returned[s] - reduced[s] - refunded[s]
  BY DEF RefundableSum
<1>1. /\ Refundable(s) \in [Returns -> Nat]
      /\ \A r \in Returns : Refundable(s)[r] = 0
  BY DEF MoneyInit, Refundable
<1>2. returned[s] - reduced[s] - refunded[s] = 0
  BY DEF MoneyInit
<1>. QED
  BY <1>1, <1>2, SumOfZeros

(* Whenever the shop holds more money than the goods kept are worth, some return
   of the sale still lets it be refunded. *)
THEOREM NothingStranded == MoneySpec => []NoStrandedMoney
<1>. DEFINE Known == MoneyInvariant /\ RefundableSum
<1>1. MoneyInit => Known
  BY MoneyStart, RefundableStart
<1>2. Known /\ [MoneyNext]_moneyVars => Known'
  BY MoneyStep, RefundableStep
<1>3. ASSUME Known, NEW s \in Sales,
             NetPaid(paid[s], refunded[s]) > EffectiveTotal(total[s], returned[s])
      PROVE  \E r \in Returns : retSale[r] = s /\ RemainingRefund(r) > 0
  <2>1. /\ total[s] \in Nat /\ returned[s] \in Nat /\ paid[s] \in Nat
        /\ refunded[s] \in Nat /\ pending[s] \in Nat /\ reduced[s] \in Nat
        /\ refunded[s] <= paid[s]
        /\ paid[s] + reduced[s] + pending[s] <= total[s]
    BY <1>3 DEF MoneyInvariant, TypeOK, SaleInvariant
  <2>2. UnitSum(Refundable(s)) # 0
    <3>1. UnitSum(Refundable(s)) = returned[s] - reduced[s] - refunded[s]
      BY <1>3 DEF RefundableSum
    <3>2. paid[s] - refunded[s] > total[s] - returned[s]
      BY <1>3, <2>1 DEF NetPaid, EffectiveTotal, NonNegative
    <3>. QED
      BY <2>1, <3>1, <3>2
  <2>3. PICK r \in Returns : Refundable(s)[r] > 0
    BY <1>3, <2>2, RefundableType, SumWitness
  <2>4. /\ retSale[r] = s
        /\ retAmount[r] - retReduced[r] - retRefunded[r] > 0
    BY <2>3 DEF Refundable
  <2>5. /\ retAmount[r] \in Nat /\ retReduced[r] \in Nat /\ retRefunded[r] \in Nat
    BY <1>3 DEF MoneyInvariant, TypeOK
  <2>6. RemainingRefund(r) > 0
    BY <1>3, <2>1, <2>4, <2>5
    DEF RemainingRefund, MonetaryCapacity, NonNegative, NetPaid, EffectiveTotal,
        Lesser
  <2>. QED
    BY <2>4, <2>6
<1>4. Known => NoStrandedMoney
  BY <1>3 DEF NoStrandedMoney
<1>. QED
  BY <1>1, <1>2, <1>4, PTL DEF MoneySpec
===============================================================================
