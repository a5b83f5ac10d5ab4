CONSTANTS
  s1 = s1  s2 = s2  n1 = n1  n2 = n2  zone = zone  p = p  q = q  proj = proj  other = other
  wide = wide  low = low  high = high
  Shoots = {s1, s2}
  ShootNames = {n1, n2}
  NameOf <- OwnName
  Cidrs = {wide, low, high}
  Block <- Blocks
  Zones = {zone}
  AllowedZones = {zone}
  Parents = {p, q}
  Projects = {proj, other}
  Project = proj
  Configs <- Submitted
  None = None
  img = img  v1 = v1  v2 = v2  parentPath = parentPath  ownPath = ownPath  team = team
  arch = arch  odd = odd  k1 = k1  k2 = k2
  ImageNames = {img}
  ImageVersions = {v1, v2}
  ImagePaths = {parentPath, ownPath}
  ImageProjects = {team}
  Archs = {arch, odd}
  ValidArchs = {arch}
  K8sVersions = {k1, k2}
  ProfileZones = {zone}
  Users = {u1}
  ParentProfiles <- SharedParents
  NamespacedSpecs <- DerivedSpecs
  MaxSubmits = 4
  Absent = Absent
  BackupConfigs <- Flows
  KeySecrets <- SomeKeys
  Account <- OwnAccount
  SeedBucket <- NameOfSeedBucket
  OtherBuckets <- NamesOfOthers
  MaxSeedUpdates = 3
  NoBackup = NoBackup
  Nil = Nil
SPECIFICATION AdmissionSpec
INVARIANTS OverlapOnlyUnseen ParentImageWins BucketMatchesSeed KeysAreOwn EtcdKeepsBucket
PROPERTIES RootKeyImmutable UsedVersionStays
\* Profiles and the seed stop at their bounds.
CHECK_DEADLOCK FALSE
