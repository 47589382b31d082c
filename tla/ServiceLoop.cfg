CONSTANTS
    inbox = inbox
    archive = archive
    Folder <- TwoFolders
    NoFolder = NoFolder
    BackoffStart = 1
    BackoffCap = 5
    BusCapacity = 1
    MaxFaults = 2
SPECIFICATION FairSpec
INVARIANT TypeOK
INVARIANT StateHonest
 
PROPERTY ImplementsLifecycle
PROPERTY CancelStops
PROPERTY AllFoldersCatchUp
CHECK_DEADLOCK FALSE
