SPECIFICATION FairSpec
CONSTANTS
  Items <- BackupItems
  Required <- Mandatory
  InBackup <- NoSettings
  PostgresSecret = "postgres"
  KeepReplicas = FALSE
  BackupReplicas <- TwoEach
  Autoscaled <- ScaledApi
  Storage = "class"
  IngressType = "ingress"
  IsNginx = TRUE
  FaultPoints <- Anywhere
  MaxFaults = 4
  MaxWrites = 2
INVARIANT TypeOK
INVARIANT CompleteMeansData
INVARIANT OnlyFaultsHide
INVARIANT NoServiceBeforeData
PROPERTY LockProtects
PROPERTY EndsUnlessLate
CHECK_DEADLOCK FALSE
