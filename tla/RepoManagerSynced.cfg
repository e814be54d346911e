SPECIFICATION Spec
CONSTANTS
  Resources <- WithDatabase
  SelfReady <- AlwaysReady
  CondOf <- OwnCond
  Gated <- Deployments
  SecretsStage = 2
  MaxVersion = 2
  InvalidSpecs <- None
  UnmanagedSpecs <- None
  TypeOf <- OneType
  WayIn <- NoWeb
  SecretsNamed = FALSE
  StaleReads = FALSE
  MaxLag = 2
  MaxFaults = 1
INVARIANT FinishedHonest
PROPERTY NoRollback
