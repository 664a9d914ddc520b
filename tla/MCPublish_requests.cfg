CONSTANTS
    Requests = {q1, q2, q3}
    Releases = {r1, r2, r3}
    Labels = {l1, l2}
    Revisions = {v1, v2}
    Keys = {k1, k2}
    Visibilities = {public}
    Workers = {w1, w2}
    None = None
    Unkeyed = Unkeyed
    RetryLimit = 1
    MaxFaults = 1
    MaxOperator = 0
SPECIFICATION Spec
SYMMETRY Symmetry
CHECK_DEADLOCK FALSE
INVARIANT
    AnswerNamesWhatWasAsked
PROPERTY
    ImplementsLedger
