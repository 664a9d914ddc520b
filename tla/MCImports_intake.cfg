SPECIFICATION LiveSpec
CONSTANTS
    card = card
    alice = alice
    u1 = u1
    i1 = i1
    Uploads = {u1}
    Kinds = {"image", "card"}
    Contents = {card}
    Content <- MCContent
    Jobs <- MCJobs
    Imports = {i1}
    Names = {alice}
    Name <- MCName
    Workers = {w1, w2}
    Clients = {c1}
    Sweeper = sweeper
    Staff = {}
    Rescans = {rescan}
    RetryLimit = 1
    MaxFaults = 1
INVARIANT ImportOutcome
INVARIANT ImportsCheckedBytes
INVARIANT ReadyHasItsBytes
INVARIANT BlockedIsGone
INVARIANT DerivedIsTraceable
PROPERTY ReadyIsKept
PROPERTY UploadSettles
PROPERTY ImportIsNotForgotten
CHECK_DEADLOCK FALSE
