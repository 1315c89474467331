\* One sale, four keys, two returns, by card and in cash while a session opens and
\* closes: every order of payments, replays, charges, returns and refunds.
SPECIFICATION MoneySpec
CONSTANTS
    Sales = {s1}
    Returns = {r1, r2}
    Keys = {k1, k2, k3, k4}
    Methods = {card, cash}
    CashMethods = {cash}
    Sessions = {x1}
    None = None
    MaxTotal = 4
    CreditLimit = 4
    AllowSplit = TRUE
SYMMETRY Symmetry
CONSTRAINT Profile
INVARIANTS MoneyBound DebtWithinPending NoStrandedMoney RefundedMeansMoneyBack TotalsMatchRows
PROPERTY ImplementsSettlement
CHECK_DEADLOCK FALSE
