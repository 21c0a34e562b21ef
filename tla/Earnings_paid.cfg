\* Two payouts with two attempts each, crashes and lost answers; and one fare with
\* two prompts, one call beside the sweep and lost answers.
SPECIFICATION AllFairSpec
CONSTANTS
    d1 = d1
    d2 = d2
    w1 = w1
    NoPayout = NoPayout
    Payouts <- TwoPayouts
    Timers <- OneTimer
    MaxAttempts = 2
    FareCalls = {"c1"}
    Prices = {1}
    FareFaults = {"lost"}
    Faults <- AllFaults

    
    
PROPERTIES
    
    PromptResolved
CHECK_DEADLOCK FALSE
