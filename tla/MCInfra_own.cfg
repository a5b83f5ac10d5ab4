\* Two shoots of one name, one of them provisioned before labels existed.
CONSTANTS
  Infra = {a, b}
  a = a  b = b  n1 = n1  ns1 = ns1  ns2 = ns2
  z1 = z1  z2 = z2  c1 = c1  c2 = c2  k1 = k1  k2 = k2
  Names = {n1}
  NameOf <- OneName
  Namespaces = {ns1, ns2}
  NamespaceOf <- OwnNamespace
  Zones = {z1}
  Cidrs = {c1}
  RootKeys = {k1}
  Configs <- Plain
  Legacy = {a}
  Abandonable = {}
  Finalizers = TRUE
  EgressAllowed = FALSE
  MaxUpdates = 0
  MaxFaults = 1
  None = None
SPECIFICATION Spec
INVARIANTS TypeOK ProvisionedOwnsRoot OwnershipInv
PROPERTY LockImplemented
CHECK_DEADLOCK FALSE
