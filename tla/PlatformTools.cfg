CONSTANTS
  r1 = r1
  j1 = j1
  j2 = j2
  Runtimes = {r1}
  Jobs = {j1, j2}
  Namespaces <- MCNamespaces
  Callers = {c1}
SPECIFICATION Spec
SYMMETRY Symmetry
INVARIANTS
  DependentsBetween
  RemovalTold
  BlameNeedsTrouble
  ControllerMissNeedsLoss
