SPECIFICATION FairSpec
CONSTANTS
  Procs = {p1}
  n1 = n1  n2 = n2  padded = padded  empty = empty  k1 = k1  k2 = k2
  Namespaces = {n1, n2}
  Entries = {n1, n2, empty}
  Matching <- MCMatching
  AllNamespaces = AllNamespaces
  Kinds = {k1, k2}
  Deployments <- MCTurnDeployments
  LeaderElection = FALSE
  Nobody = Nobody
  Dead = Dead
  MaxFactories = 2
  Limits <- MCOnceLimits
CHECK_DEADLOCK FALSE
PROPERTIES ServedAlone
