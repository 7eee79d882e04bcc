SPECIFICATION LiveSpec
CONSTANTS
    Nodes <- MCNodes
    Fleets <- MCFleets
    Slices <- MCSlices
    Proxies <- MCProxies
    Pods = {1, 2}
    ShardCount = 2
    Reporters = {1}
    MaxDisturbance = 4
    None = None
INVARIANTS
    InventoryWhole
    
    NothingOutlivesBackend
PROPERTIES
    BlipKeepsRotation
    RotationFollows
