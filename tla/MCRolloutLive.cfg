SPECIFICATION FairSpec
CONSTANTS
  n1 = n1
  n2 = n2
  n3 = n3
  g1 = g1
  g2 = g2
  s1 = s1
  dA = dA
  dB = dB
  dC = dC
  dR = dR
  Nodes = {n1, n2, n3}
  Groups = {g1, g2}
  Sets = {s1}
  Bodies = {dA, dB, dC, dR}
  Null = Null
  Default = Default
  Invalid = Invalid
  Unselective = Unselective
  NodeOrder <- NodesInOrder
  GroupOrder <- GroupsInOrder
  Archive <- ArchiveOf
  Restored <- RestoredTo
  Keyed = {n1, n2, n3}
  Members <- OneSet
  MaxConcurrent <- One
  MaxRegressions <- One
  RollbackSets = {s1}
  DependsOn <- GThenH
  MaxUnavailable <- BudgetOne
  Emergency = {}
  InitSpec <- BothOnA
  InitLabel <- TwoAndOne
  InitDefault = dA
  Edits = {"retarget", "quarantine", "delete", "create", "relabel", "enroll", "default",
           "hold", "cordon", "block", "schedule"}
  Labels = {g1, g2, Default}
  MaxEdits = 2
  MaxLapses = 0
  MaxFailures = 0
  Bad = {dB}
  Fragile = {}
PROPERTIES
  
  ConcurrencyKept
  DependenciesLanded
  EventuallyAdmitted
  NobodyStranded
