SPECIFICATION Spec
CONSTANTS
  n1 = n1
  n2 = n2
  n3 = n3
  g1 = g1
  g2 = g2
  s1 = s1
  dA = dA
  dB = dB
  dC = dC
  dR = dR
  Nodes = {n1, n2, n3}
  Groups = {g1, g2}
  Sets = {s1}
  Bodies = {dA, dB, dR}
  Null = Null
  Default = Default
  Invalid = Invalid
  Unselective = Unselective
  NodeOrder <- NodesInOrder
  GroupOrder <- GroupsInOrder
  Archive <- ArchiveOf
  Restored <- RestoredTo
  Keyed = {n1, n2, n3}
  Members <- OneSet
  MaxConcurrent <- One
  MaxRegressions <- One
  RollbackSets = {s1}
  DependsOn <- GThenH
  MaxUnavailable <- BudgetOne
  Emergency = {}
  InitSpec <- BothOnA
  InitLabel <- TwoAndLate
  InitDefault = dA
  Edits = {"retarget", "quarantine", "delete", "create", "relabel", "enroll", "default",
           "hold", "cordon", "block", "schedule"}
  Labels = {g1, g2, Default}
  MaxEdits = 2
  MaxLapses = 1
  MaxFailures = 1
  Bad = {dB}
  Fragile = {n1}
INVARIANTS
  BudgetKept
PROPERTIES
  MovesOnlyForward
