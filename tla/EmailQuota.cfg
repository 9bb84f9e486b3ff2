CONSTANTS
    s1 = s1  s2 = s2  e1 = e1  e2 = e2  w1 = w1  w2 = w2
    c1 = c1  c2 = c2  c3 = c3  c4 = c4
    Subs = {s1}
    Events = {e1, e2}
    Rows <- TwoRows
    EmailOf <- SameOwner
    DateOf <- OneDate
    UntilOf <- LongTerm
    StartOf <- Late
    PriorityEmails = {}
    Workers = {w1, w2}
    Claims = {c1, c2}
    Overlap = FALSE
    UserLimit <- LimitOne
    GlobalLimit = 3
    BatchLimit = 1
    MaxAttempts = 2
    LeaseTicks = 2
    RecoveryTicks = 1
    WindowTicks = 3
    DayTicks = 4
    StandardDelay = 0
    RetryDelays = {1}
    MaxLag = 1
    LastPoll = 1
    LastChange = 0
    MaxTime = 4
SPECIFICATION Spec
INVARIANT DailyLimit
CHECK_DEADLOCK FALSE
