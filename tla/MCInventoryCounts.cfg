\* One adjustment of two items that are sold and received meanwhile, and a page on it;
\* one order of two units, two receipt pages submitted again and again.
SPECIFICATION PurchasesSpec
CONSTANTS
    Items = {i1, i2}
    Adjustments = {a1}
    Lines = {l1, l2}
    Editors = {e1}
    NoOne = NoOne
    AllowOversell = FALSE
    MaxStock = 2
    MaxMoves = 2
    Orders = {o1}
    OrderLines = {n1, n2}
    Keys = {k1, k2}
    Attempts = {q1, q2}
CONSTRAINT Profile
INVARIANTS PurchasesTypeOK StockIsLedger NoOversell CountsApplyOnce
INVARIANTS ReceivedIsReceipts ArrivalsAreReceipts
PROPERTIES CountsReplaceWhatTheySaw AnswersTellReceipts
\* The bounds on movements, lines and stock end the run.
CHECK_DEADLOCK FALSE
