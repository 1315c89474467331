\* Two pages of one sale: requests that race each other, carts, returns and
\* documents, or a split payment whose session is closed on the way.
SPECIFICATION CheckoutSpec
CONSTANTS
    Sales = {s1}
    Returns = {r1}
    Forms = {f1, f2}
    Requests = {q1, q2}
    SplitForms = {f1, f2}
    OtherKeys = {}
    Methods = {cash, card}
    CashMethods = {cash}
    Sessions = {x1, x2}
    MaxTotal = 2
    Lacks = {}
    MaxVersion = 2
    CreditLimit = 0
    AllowSplit = TRUE
    RequireSession = FALSE
    Lossy = TRUE
    Keys <- MCKeys
    None = None
    Direct = Direct
SYMMETRY Symmetry
CONSTRAINT Profile
INVARIANTS CheckoutTypeOK RecoveredOnlyAfterClosing
PROPERTIES ChargedAsReviewed OneDocument
CHECK_DEADLOCK FALSE
