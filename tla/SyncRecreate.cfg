CONSTANTS
    MaxUid = 3
    MaxValidity = 3
    MaxModseq = 4
    MaxFaults = 2
    PrefetchLimit = 2
    Codes <- AllCodes
    Condstore = FALSE
    StoreFails = FALSE
    HostMarks = FALSE
    LateAnswers = FALSE
SPECIFICATION FairSpec
INVARIANT OneGeneration
INVARIANT PassCatchesUp
 
PROPERTY PurgeOnlyStale
PROPERTY ImplementsMirror
PROPERTY AllMailArrives
PROPERTY StaleMailGoes
