SPECIFICATION ServicesSpec
CONSTANTS
  BZones = {z1, z2}
  MaxChanges = 2
  MaxFails = 2
  Records <- TwoRecords
  Managed <- ZoneNames
  Domain <- Nesting
  SpecZones <- NamedZones
  StatusZones <- FormerZones
  MaxValues = 3
  MaxErrors = 1
  Entries <- Nested
  PageSize = 2
  MaxVersions = 1
  MaxFaults = 2
INVARIANT RestoredIsServed
CHECK_DEADLOCK FALSE
