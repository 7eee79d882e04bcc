SPECIFICATION FairSpec
CONSTANTS
    n1 = n1
    n2 = n2
    a = a
    b = b
    None = None
    Operator = Operator
    Nodes = {n1, n2}
    Names = {a, b}
    Namings <- MCNamings
    Preplaced = {n1}
    Capacity = 1
    MaxFaults = 2
    MaxEdits = 2

    
PROPERTIES
    PinnedForever
    AdmittedCompletes
CHECK_DEADLOCK FALSE
