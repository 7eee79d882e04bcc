SPECIFICATION LiveSpec
CONSTANTS
    r1 = r1
    r2 = r2
    None = None
    Revisions <- MCRevisions
    MaxShards = 3
    LateRequests = FALSE
    MaxInflight = 1
PROPERTIES ImplementsRegister LeftoversReclaimed
