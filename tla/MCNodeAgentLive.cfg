SPECIFICATION LiveSpec
CONSTANTS
    a = a
    b = b
    m = m
    c = c
    x = x
    y = y
    None = None
    Packages = {a, b, c, m}
    Payloads = {x, y}
    PayloadOf <- MCPayloadOf
    Lineages = {1}
    Ids = {1, 2}
    MaxFailures = 3
    Malformed = {m}
    MaxRollbackHealthAttempts = 2
    ClearMayFail = FALSE
    ConfirmMayTear = FALSE
    WritesMayStall = FALSE
    MayCorrupt = FALSE
    MayDrift = TRUE
PROPERTIES
    AlwaysSettles
    
INVARIANTS
    NeverRefused
    NoOrphanEffects
    CompensatedBeforeRestore
    RebootHonoured
    RecoveryMaterialKept
    SettledWhenIdle
    VerdictKept
