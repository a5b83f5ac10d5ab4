CONSTANTS
  Infra = {a, b}
  a = a  b = b  n1 = n1  ns1 = ns1  ns2 = ns2
  z1 = z1  z2 = z2  c1 = c1  c2 = c2  k1 = k1  k2 = k2
  Names = {n1}
  NameOf <- OneName
  Namespaces = {ns1, ns2}
  NamespaceOf <- OneNamespace
  Zones = {z1, z2}
  Cidrs = {c1, c2}
  RootKeys = {k1}
  Configs <- Successive
  Legacy = {}
  Abandonable = {a}
  Finalizers = FALSE
  EgressAllowed = TRUE
  MaxUpdates = 1
  MaxFaults = 1
  None = None
SPECIFICATION Spec
INVARIANTS PublishedSubnetsStay MigratedKeepsNetwork
PROPERTIES DeleteComplete
CHECK_DEADLOCK FALSE
