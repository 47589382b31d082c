CONSTANTS
    inbox = inbox
    sent = sent
    Mailbox <- OnlyInbox
    NoMailbox = NoMailbox
    NamedById <- NoneNamed
    MaxEmail = 1
    Hash <- NoCollision
    Limit = 2
    MaxState = 2
    MaxFaults = 0
    BackoffStart = 1
    BackoffCap = 2
SPECIFICATION FairSpec
PROPERTY EveryMailboxSyncs
CHECK_DEADLOCK FALSE
