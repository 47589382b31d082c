CONSTANTS
    MaxUid = 2
    MaxValidity = 2
    MaxModseq = 3
    MaxFaults = 0
    PrefetchLimit = 0
    Codes <- AllCodes
    Condstore = TRUE
    StoreFails = FALSE
    HostMarks = FALSE
    LateAnswers = FALSE
SPECIFICATION Spec
INVARIANT OneGeneration
