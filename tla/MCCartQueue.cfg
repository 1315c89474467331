\* Up to three operations in batches of two, three requests, a colleague's
\* change and a header form of the tab, combined as Profile allows.
SPECIFICATION CartSpec
CONSTANTS
    MaxOps = 3
    MaxQuantity = 2
    MaxBatch = 2
    MaxSends = 3
    MaxForeign = 1
    MaxHeaders = 1
CONSTRAINT Profile
INVARIANTS CartTypeOK NothingLost NoSilentRebase OnceInOrder VersionTellsLines
\* The bounds end the run: the tab may have used up its requests.
CHECK_DEADLOCK FALSE
