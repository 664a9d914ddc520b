SPECIFICATION Spec
CONSTANTS
    user = user
    log = log
    Txs = {t1, t2, t3}
    Rows = {user}
    Log = log
    Plans <- MCPlans
    MaxVerify = 2
    NoTx = NoTx
    o1 = o1
    Repos = {ra}
    Owners = {o1, o2}
    FirstOwner <- MCFirstOwner
    Deliveries = {d1, d2}
    Authors = {author1}
    Runs = {w1}
    Posts = {p1, p2}
    Edits = {e1, e2}
    Elsewhere = {x1}
    e1 = e1
    e2 = e2
    x1 = x1
    ObjectOf <- MCObjectOf
    MaxLost = 2
    Nothing = Nothing
CHECK_DEADLOCK FALSE
INVARIANTS
    ChainIsWhole
    NoFalseAlarm
    TokenUsedOnce
    SourceIsAttested
    SavedIsTrue
    SaidIsSaved
    NothingSavedIsLost
PROPERTIES
    TransactionsEnd
    TransferIsNoticed
    ConfirmedStands
