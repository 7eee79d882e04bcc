SPECIFICATION LiveSpec
CONSTANTS
    c1 = c1
    c2 = c2
    p1 = p1
    p2 = p2
    n1 = n1
    n2 = n2
    None = None
    Replicas <- MCReplicas
    Plans <- MCPlans
    Notes <- MCNotes
    LatePuts = FALSE
    Backups = FALSE
    MaxFaults = 2
    MaxEdits = 1
    MaxRenewals = 1
INVARIANTS
    ServedIsAccountedFor
    PlansFromServed
PROPERTIES
    RecordsOnlyServed
    Converges
