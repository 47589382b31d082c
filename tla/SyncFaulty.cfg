CONSTANTS
    MaxUid = 2
    MaxValidity = 2
    MaxModseq = 4
    MaxFaults = 2
    PrefetchLimit = 1
    Codes <- AllCodes
    Condstore = TRUE
    StoreFails = TRUE
    HostMarks = TRUE
    LateAnswers = TRUE
SPECIFICATION Spec
INVARIANT TypeOK
INVARIANT CursorNotAhead
INVARIANT FlagsTold
PROPERTY FlagsLeftAlone
