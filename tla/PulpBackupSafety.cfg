SPECIFICATION FairSpec
CONSTANTS
  Files <- BackupFiles
  Dump = "db"
  Dir = "dir"
  Used <- InUse
  FromStatus <- Token
  Artifacts <- One
  StaleReads = TRUE
  FaultPoints <- Anywhere
  MaxFaults = 2
  MaxEdits = 1
INVARIANT TypeOK
INVARIANT PublishedComplete
INVARIANT DumpHasItsFiles
PROPERTY PublishedUntouched
PROPERTY ImplementsStore
PROPERTY Written
CHECK_DEADLOCK FALSE
