\* An edition of a store, its activation and an opening: nothing else.
SPECIFICATION CashSpec
CONSTANTS
    Stores = {s1}
    Registers = {r1}
    Sessions = {x1}
    Editors = {e1}
    Dialogs = {}
    None = None
    MaxCash = 0
    MaxMoves = 0
    MaxCounts = 0
INVARIANTS OpenSessionsInActiveStores
CHECK_DEADLOCK FALSE
