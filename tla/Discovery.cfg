SPECIFICATION Spec
CONSTANTS
    PeerEnabled = TRUE
    OtherNodes = FALSE
    EarlyStop = FALSE
    MaxConns = 3
    MaxFaults = 1
    MaxAACs = 2
INVARIANTS ConnectionUsable
PROPERTIES StopIsFinal Reannounced AACRecovers
CHECK_DEADLOCK FALSE
