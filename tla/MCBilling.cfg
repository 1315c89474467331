\* Two commands on two sales that share three series.
SPECIFICATION BillingSpec
CONSTANTS
    Sales = {s1, s2}
    Returns = {r1}
    Keys = {k1, k2, k3}
    Series = {x1, x2, x3}
    Commands = {q1, q2}
    None = None
    Types = {"F1", "F2", "F3", "R1", "R5"}
    MaxYear = 2
    MaxNumber = 3
CONSTRAINT Profile
SYMMETRY Symmetry
INVARIANTS NumbersCorrelative OneOfEach RectifiesTheOriginal RetryFindsItsDocument
INVARIANTS EffectiveOnce
CHECK_DEADLOCK FALSE
