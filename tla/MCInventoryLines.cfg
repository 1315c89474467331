\* One adjustment confirmed while a page that edits it is open.
SPECIFICATION PurchasesSpec
CONSTANTS
    Items = {i1}
    Adjustments = {a1}
    Lines = {l1}
    Editors = {e1}
    NoOne = NoOne
    AllowOversell = FALSE
    MaxStock = 1
    MaxMoves = 1
    Orders = {}
    OrderLines = {}
    Keys = {}
    Attempts = {}
PROPERTY LinesOnlyInDraft
\* The bounds on movements, lines and stock end the run.
CHECK_DEADLOCK FALSE
