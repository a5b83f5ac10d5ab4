SPECIFICATION FairServices
CONSTANTS
  BZones = {z1, z2}
  MaxChanges = 2
  MaxFails = 2
  Records <- OneRecord
  Managed <- ZoneNames
  Domain <- Nesting
  SpecZones <- NamedZones
  StatusZones <- FormerZones
  MaxValues = 4
  MaxErrors = 1
  Entries <- Nested
  PageSize = 2
  MaxVersions = 1
  MaxFaults = 2
INVARIANTS OneZone OpenOnlyForMachine GoneLeavesNothing ReconciledIsServed
           PublishedIsUsable SecretOutlivesBucket GoneIsGone
PROPERTIES ComesUpOrGoes ServedUntilDeleted OthersBackupsStay RequestsEnd
CHECK_DEADLOCK FALSE
