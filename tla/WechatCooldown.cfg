CONSTANTS
    v1 = v1  g1 = g1  l1 = l1  l2 = l2  w1 = w1  w2 = w2
    q1 = q1  q2 = q2  q3 = q3
    Lines = {l1, l2}
    Venues = {v1}
    Receivers = {g1}
    Ids <- TwoRows
    StartOf <- Late
    ProgramOf <- OneProgram
    Consumers = {w1}
    Reqs = {q1, q2, q3}
    LockLoss = FALSE
    MaxAttempts = 2
    LeaseTicks = 1
    ExpireTicks = 2
    RetryTicks = 0
    RecheckTicks = 1
    CooldownTicks = 2
    DayTicks = 4
    Morning = {}
    LastPoll = 0
    LastAlert = 0
    LastChange = 0
    MaxTime = 0
SPECIFICATION Spec
INVARIANTS LinkCooldown
CHECK_DEADLOCK FALSE
