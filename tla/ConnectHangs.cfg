CONSTANTS
    Securities = {"Tls"}
    MaxTag = 4
    MaxPushes = 0
    MaxStrays = 0
SPECIFICATION FairSpec
PROPERTY ConnectEnds
CHECK_DEADLOCK FALSE
