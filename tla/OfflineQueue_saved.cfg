\* A photo and a status update, one tap at a time, one refusal each and one death.
SPECIFICATION FairSpec
CONSTANTS
    photo = photo
    photo2 = photo2
    status = status
    t1 = t1
    t2 = t2
    NoEntry = NoEntry
    Actions <- TwoActions
    Photos <- OnePhoto
    Taps <- OneTap
    MaxRefusals = 1
    MaxDeaths = 1
INVARIANTS
    EvidenceKept
    NothingVanishes
PROPERTIES
    SavedIsAnswered
