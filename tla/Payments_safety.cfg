\* Two prompts, two calls and the sweep, with crashes and lost answers.
SPECIFICATION Spec
CONSTANTS
    p1 = p1
    p2 = p2
    c1 = c1
    c2 = c2
    Sweep = Sweep
    NoPrompt = NoPrompt
    Prompts <- TwoPrompts
    Calls <- TwoCalls
    Prices <- OnePrice
    Faults <- AllFaults
SYMMETRY Symmetry
INVARIANTS
    NothingWithoutMoney
    CreditedByOne
    OneOutstanding
CHECK_DEADLOCK FALSE
