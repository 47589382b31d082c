CONSTANTS
    r1 = r1
    r2 = r2
    loop = loop
    sendNow = sendNow
    NoRow = NoRow
    Row <- OneRow
    Flusher <- OneTask
    Loop = loop
    MaxRetryAttempts = 2
    MaxFaults = 1
    MaxFlushes = 0
    RepliesLost = FALSE
    StoreFails = FALSE
    Mute = FALSE
SPECIFICATION Spec
PROPERTY PermanentIsFinal
