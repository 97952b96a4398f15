SPECIFICATION FairSpec
CONSTANTS
  Procs = {p1, p2}
  n1 = n1  n2 = n2  padded = padded  empty = empty  k1 = k1  k2 = k2
  Namespaces = {n1, n2}
  Entries = {n1, n2, padded, empty}
  Matching <- MCMatching
  AllNamespaces = AllNamespaces
  Kinds = {k1}
  Deployments <- MCAllDeployments
  LeaderElection = TRUE
  Nobody = Nobody
  Dead = Dead
  MaxFactories = 2
  Limits <- MCStartupLimits
CHECK_DEADLOCK FALSE
INVARIANTS TypeOK OneActive
PROPERTIES ServedInTurn
