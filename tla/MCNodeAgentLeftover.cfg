SPECIFICATION Spec
CONSTANTS
    a = a
    b = b
    c = c
    m = m
    x = x
    y = y
    i = i
    j = j
    None = None
    Packages = {a, b}
    Payloads = {x, y}
    PayloadOf <- MCPayloadOf
    Lineages = {1}
    Ids = {i, j}
    MaxFailures = 4
    Malformed = {}
    MaxRollbackHealthAttempts = 3
    ClearMayFail = TRUE
    ConfirmMayTear = FALSE
    WritesMayStall = FALSE
    MayCorrupt = FALSE
    MayDrift = FALSE
SYMMETRY MCSymmetry
INVARIANTS
    LeftoverIsClearable
