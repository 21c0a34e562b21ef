SPECIFICATION Spec
CONSTANTS
    MaxTokens = 3
    Requests <- TwoRequests
    Android = TRUE
    Faults <- AllFaults
INVARIANTS
    SessionSurvives
    SignedOutStays
PROPERTIES
    BootEnds
CHECK_DEADLOCK FALSE
