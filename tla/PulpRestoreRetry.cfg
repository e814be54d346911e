SPECIFICATION FairSpec
CONSTANTS
  Items <- BackupItems
  Required <- Mandatory
  InBackup <- AllFiles
  PostgresSecret = "postgres"
  KeepReplicas = TRUE
  BackupReplicas <- TwoEach
  Autoscaled <- NoneScaled
  Storage = "class"
  IngressType = "nodeport"
  IsNginx = FALSE
  FaultPoints <- Nowhere
  MaxFaults = 0
  MaxWrites = 1
PROPERTY Completes
CHECK_DEADLOCK FALSE
