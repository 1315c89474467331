\* The debt of a sale on account against its pending amount.
INVARIANT DebtIsPending
SPECIFICATION MoneySpec
CONSTANTS
    Sales = {s1}
    Returns = {}
    Keys = {k1, k2, k3, k4}
    Methods = {card}
    CashMethods = {}
    Sessions = {}
    None = None
    MaxTotal = 4
    CreditLimit = 4
    AllowSplit = TRUE
CHECK_DEADLOCK FALSE
