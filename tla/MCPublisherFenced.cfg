SPECIFICATION Spec
CONSTANTS
    c1 = c1
    c2 = c2
    p1 = p1
    p2 = p2
    n1 = n1
    n2 = n2
    None = None
    Replicas <- MCReplicas
    Plans <- MCPlans
    Notes <- MCOneNote
    LatePuts = TRUE
    Backups = TRUE
    MaxFaults = 2
    MaxEdits = 1
    MaxRenewals = 1
PROPERTIES
    ServedMonotone
SYMMETRY MCSymmetry
