\* One page submitted twice while payments, debts, returns and refunds of other
\* pages settle the same sale: nothing is lost and requests run to their end.
SPECIFICATION FairCheckoutSpec
CONSTANTS
    Sales = {s1}
    Returns = {r1}
    Forms = {f1}
    Requests = {q1, q2}
    SplitForms = {}
    OtherKeys = {k1}
    Methods = {card}
    CashMethods = {}
    Sessions = {}
    MaxTotal = 2
    Lacks = {"series", "fiscal"}
    MaxVersion = 1
    CreditLimit = 2
    AllowSplit = FALSE
    RequireSession = FALSE
    Lossy = FALSE
    Keys <- MCKeys
    None = None
    Direct = Direct
CONSTRAINT Settling
INVARIANTS DocumentedMeansSettled
PROPERTIES SettledIsDocumented
CHECK_DEADLOCK FALSE
