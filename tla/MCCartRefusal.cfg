\* One operation, sent twice.
SPECIFICATION CartSpec
CONSTANTS
    MaxOps = 1
    MaxQuantity = 1
    MaxBatch = 1
    MaxSends = 2
    MaxForeign = 0
    MaxHeaders = 0
INVARIANTS RefusalIsDefinitive
\* The bounds end the run: the tab may have used up its requests.
CHECK_DEADLOCK FALSE
