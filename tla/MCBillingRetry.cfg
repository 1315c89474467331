\* One sale and its return: the simplified invoice is replaced after the
\* rectification of the return.
SPECIFICATION BillingSpec
CONSTANTS
    Sales = {s1}
    Returns = {r1}
    Keys = {k1, k2, k3}
    Series = {x1, x2, x3}
    Commands = {q1}
    None = None
    Types = {"F2", "F3", "R5"}
    MaxYear = 1
    MaxNumber = 1
SYMMETRY Symmetry
INVARIANT RetriesReturnTheSame
CHECK_DEADLOCK FALSE
