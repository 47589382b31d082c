CONSTANTS
    r1 = r1
    r2 = r2
    loop = loop
    sendNow = sendNow
    NoRow = NoRow
    Row <- TwoRows
    Flusher <- OneTask
    Loop = loop
    MaxRetryAttempts = 2
    MaxFaults = 2
    MaxFlushes = 0
    RepliesLost = TRUE
    StoreFails = TRUE
    Mute = FALSE
SPECIFICATION FairSpec
INVARIANT TypeOK
INVARIANT DeliveriesBounded
INVARIANT FiledUnlessFault
PROPERTY RetryGrows
PROPERTY BackoffHonored
PROPERTY EventuallySent
PROPERTY OfflineQuiets
PROPERTY Stops
