\* Three gateways start at once on the five migrations of the repository.
CONSTANTS
  old = old
  new = new
  newer = newer
  Gateways <- Upgrade
  Release <- MCRelease
  Creates <- MCCreates
  Drops <- MCDrops
  Strict <- MCStrict
  MaxFaults = 2
SPECIFICATION Spec
INVARIANTS SchemaIsApplied ServesMigrated
PROPERTIES ComesUp
CHECK_DEADLOCK FALSE
