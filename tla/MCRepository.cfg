SPECIFICATION FairSpec
CONSTANTS
    b1 = b1
    b2 = b2
    a1 = a1
    a2 = a2
    None = None
    Buckets = {b1, b2}
    Assignments = {a1, a2}
    GATEWAY_AUTHORIZATION_MEMO_TTL = 1
    GATEWAY_REQUEST_TIMEOUT = 1
    OBJECT_CAPABILITY_TTL = 1
    Kinds = {"report"}
    Retargets = FALSE
    MaxUid = 2
    MaxEdits = 1
    MaxFaults = 1
INVARIANTS
    
    NoInheritance
    ServedInputExists
PROPERTIES
    DeletionCompletes
CHECK_DEADLOCK FALSE
