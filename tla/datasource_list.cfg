SPECIFICATION Spec
CONSTANTS
  Absent = Absent
  NoSelector = NoSelector
  s1 = s1  i1 = i1  i2 = i2
  n1 = n1  n2 = n2  c1 = c1  c2 = c2  ns = ns  k1 = k1  k2 = k2  k3 = k3
  Sources = {s1}
  Targets = {n1, n2}
  Contents = {c1, c2}
  Malformed = {}
  Untyped = {}
  Reencoded = {c2}
  Selectors = {NoSelector}
  Annotations = {}
  Procs = {p1}
  Informers = {i1, i2}
  ResyncOn = FALSE
  Keys <- MCKeys
  KindOf <- MCDatasources
  NamespaceOf <- MCNamespaceOf
  DatasourceName <- MCDatasourceName
  SpecsOf <- MCLists
  Watches <- MCWatchAll
  Limits <- MCListLimits
CHECK_DEADLOCK FALSE
INVARIANTS SettledInSync Converging
PROPERTIES ImplementsUpsert
