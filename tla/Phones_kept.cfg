\* Each part of the phones, the public site and the feeds on its own instance.
SPECIFICATION AllSpec
CONSTANTS
    Phones = {"A", "B"}
    Calls = {1, 2}
    MaxCodes = 2
    OTP_MAX_ATTEMPTS = 1
INVARIANTS
    AllTyped
    GuessesBounded
    OneIdentity
    
    NothingWrittenOff
    
    
    ShownIsSo
CHECK_DEADLOCK FALSE
