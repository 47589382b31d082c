CONSTANTS
    r1 = r1
    r2 = r2
    loop = loop
    sendNow = sendNow
    NoRow = NoRow
    Row <- OneRow
    Flusher <- TwoTasks
    Loop = loop
    MaxRetryAttempts = 2
    MaxFaults = 2
    MaxFlushes = 2
    RepliesLost = TRUE
    StoreFails = TRUE
    Mute = TRUE
SPECIFICATION Spec
INVARIANT NothingLost
INVARIANT DeliveriesBounded
