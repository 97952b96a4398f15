SPECIFICATION Spec
CONSTANTS
  Absent = Absent
  NoSelector = NoSelector
  s1 = s1  i1 = i1  i2 = i2
  n1 = n1  n2 = n2  c1 = c1  c2 = c2  ns = ns  k1 = k1  k2 = k2  k3 = k3
  Sources = {s1}
  Targets = {s1}
  Contents = {c1, c2}
  Malformed = {}
  Untyped = {}
  Reencoded = {}
  Selectors = {NoSelector, x1, x2}
  Annotations = {a1}
  Procs = {p1}
  Informers = {i1}
  ResyncOn = FALSE
  Keys <- MCKeys
  KindOf <- MCDashboards
  NamespaceOf <- MCNamespaceOf
  DatasourceName <- MCDatasourceName
  SpecsOf <- MCSingle
  Watches <- MCWatchAll
  Limits <- MCOwnershipLimits
CHECK_DEADLOCK FALSE
INVARIANTS NoPanic UpdatesWhatWasRead SettledInSync
PROPERTIES NeverAdopts NoLostEdit
