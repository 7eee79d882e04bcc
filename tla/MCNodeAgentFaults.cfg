SPECIFICATION Spec
CONSTANTS
    a = a
    b = b
    c = c
    m = m
    x = x
    y = y
    i = i
    j = j
    None = None
    Packages = {a, b}
    Payloads = {x, y}
    PayloadOf <- MCPayloadOf
    Lineages = {1, 2}
    Ids = {i, j}
    MaxFailures = 1
    Malformed = {}
    MaxRollbackHealthAttempts = 1
    ClearMayFail = TRUE
    ConfirmMayTear = TRUE
    WritesMayStall = TRUE
    MayCorrupt = TRUE
    MayDrift = FALSE
SYMMETRY MCSymmetry
INVARIANTS
    GuardIsWatched
PROPERTIES
    CondemnedNeverRetried
