CONSTANTS
    Securities = {"Tls", "StartTls", "Insecure"}
    MaxTag = 5
    MaxPushes = 2
    MaxStrays = 1
SPECIFICATION FairSpec
INVARIANT TypeOK
INVARIANT OutcomeAnswered
 
INVARIANT SingleFlight
INVARIANT PushesReturned
PROPERTY ImplementsCalls
PROPERTY OperationsEnd
CHECK_DEADLOCK FALSE
