\* An accepted transfer whose answer was lost is sent again while MTN says PENDING.
SPECIFICATION AllSpec
CONSTANTS
    d1 = d1
    d2 = d2
    w1 = w1
    NoPayout = NoPayout
    Payouts <- OnePayout
    Timers <- OneTimer
    MaxAttempts = 2
    FareCalls = {"c1"}
    Prices = {1}
    FareFaults = {"lost"}
    Faults <- LostFault
INVARIANTS
    PaidOnce
CHECK_DEADLOCK FALSE
