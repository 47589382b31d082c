CONSTANTS
    inbox = inbox
    sent = sent
    Mailbox <- BothMailboxes
    NoMailbox = NoMailbox
    NamedById <- OnlyInbox
    MaxEmail = 3
    Hash <- Collision
    Limit = 2
    MaxState = 4
    MaxFaults = 2
    BackoffStart = 1
    BackoffCap = 3
SPECIFICATION FairSpec
INVARIANT TypeOK
INVARIANT CursorCovers
 
PROPERTY NewMailArrives
PROPERTY ImplementsLifecycle
PROPERTY CancelStops
CHECK_DEADLOCK FALSE
