CONSTANTS
    v1 = v1  g1 = g1  l1 = l1  l2 = l2  w1 = w1  w2 = w2
    q1 = q1  q2 = q2  q3 = q3
    Lines = {l1, l2}
    Venues = {v1}
    Receivers = {g1}
    Ids <- PairRow
    StartOf <- Late
    ProgramOf <- OneProgram
    Consumers = {w1, w2}
    Reqs = {q1, q2, q3}
    LockLoss = FALSE
    MaxAttempts = 2
    LeaseTicks = 1
    ExpireTicks = 3
    RetryTicks = 1
    RecheckTicks = 1
    CooldownTicks = 2
    DayTicks = 4
    Morning = {1}
    LastPoll = 1
    LastAlert = 0
    LastChange = 1
    MaxTime = 4
SPECIFICATION Spec
INVARIANTS TypeOK RowOnce TruthfulStatus BoundedPosts
CHECK_DEADLOCK FALSE
