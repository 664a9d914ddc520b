CONSTANTS
    Requests = {q1, q2}
    Releases = {r1, r2}
    Labels = {l1}
    Revisions = {v1}
    Keys = {k1}
    Visibilities = {public}
    Workers = {w1, w2}
    None = None
    Unkeyed = Unkeyed
    RetryLimit = 1
    MaxFaults = 2
    MaxOperator = 2
SPECIFICATION LiveSpec
CHECK_DEADLOCK FALSE
INVARIANT
    AuditTellsOutcome
PROPERTIES
    OutcomeIsFinal
    PendingIsResolved
