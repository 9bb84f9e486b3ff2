CONSTANTS
    v1 = v1  g1 = g1  l1 = l1  l2 = l2  w1 = w1  w2 = w2
    q1 = q1  q2 = q2  q3 = q3
    Lines = {l1}
    Venues = {v1}
    Receivers = {g1}
    Ids <- OneRow
    StartOf <- Late
    ProgramOf <- OneProgram
    Consumers = {w1, w2}
    Reqs = {q1, q2}
    LockLoss = FALSE
    MaxAttempts = 2
    LeaseTicks = 1
    ExpireTicks = 2
    RetryTicks = 0
    RecheckTicks = 1
    CooldownTicks = 2
    DayTicks = 4
    Morning = {1}
    LastPoll = 0
    LastAlert = 0
    LastChange = 2
    MaxTime = 3
SPECIFICATION Spec
PROPERTY SilentWhenOff
CHECK_DEADLOCK FALSE
