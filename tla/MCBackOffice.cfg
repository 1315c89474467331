\* Three returns of a line of up to three pieces and of a line of one piece;
\* two stores, two registers and two sessions, one edition, two session pages;
\* two requests over two sales, two drawers and two products.  The parts share model
\* values, so that one symmetry serves them all.
SPECIFICATION OfficeSpec
CONSTANTS
    l1 = l1
    l2 = l2
    Lines = {l1, l2}
    Returns = {r1, r2, r3}
    SoldAs <- MCSoldAs
    Scale = 1
    Tracked = {l1}
    MaxQuantity = 3
    UnitPrices = {1, 102}
    Rates = {21}
    Discounts = {1}
    Stores = {s1, s2}
    Registers = {g1, g2}
    Sessions = {x1, x2}
    Editors = {e1}
    Dialogs = {p1, p2}
    None = None
    MaxCash = 1
    MaxMoves = 2
    MaxCounts = 1
    Requests = {p1, p2}
    Sales = {s1, s2}
    Drawers = {x1, x2}
    Products = {1, 2}
    NoDrawer = NoDrawer
    MaxLines = 2
SYMMETRY OfficeSymmetry
CONSTRAINT Profile
INVARIANTS ReturnsTypeOK WithinSold RoundingDrift WholeRectified
INVARIANTS OpenSessionsOperable OneDefaultStore MovementsFromOpening ClosedByItsLastCount
 
PROPERTIES StableAllocation
\* Returns end completed or cancelled, and the bounds end the cash register.
CHECK_DEADLOCK FALSE
