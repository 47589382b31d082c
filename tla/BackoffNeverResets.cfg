CONSTANTS
    inbox = inbox
    archive = archive
    Folder <- TwoFolders
    NoFolder = NoFolder
    BackoffStart = 1
    BackoffCap = 5
    BusCapacity = 1
    MaxFaults = 2
SPECIFICATION Spec
CHECK_DEADLOCK FALSE
INVARIANT BackoffResets
