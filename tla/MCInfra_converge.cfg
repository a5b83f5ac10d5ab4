CONSTANTS
  Infra = {a}
  a = a  b = b  n1 = n1  ns1 = ns1  ns2 = ns2
  z1 = z1  z2 = z2  c1 = c1  c2 = c2  k1 = k1  k2 = k2
  Names = {n1}
  NameOf <- OneName
  Namespaces = {ns1, ns2}
  NamespaceOf <- OneNamespace
  Zones = {z1}
  Cidrs = {c1, c2}
  RootKeys = {k1, k2}
  Configs <- Rebuilt
  Legacy = {}
  Abandonable = {a}
  Finalizers = TRUE
  EgressAllowed = TRUE
  MaxUpdates = 1
  MaxFaults = 1
  None = None
SPECIFICATION FairSpec
INVARIANT ZonalMatchesGlobal
PROPERTIES EventuallyConverged EventuallyDeleted
CHECK_DEADLOCK FALSE
