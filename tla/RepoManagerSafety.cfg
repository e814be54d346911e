SPECIFICATION FairSpec
CONSTANTS
  Resources <- WithWeb
  SelfReady <- AlwaysReady
  CondOf <- OwnCond
  Gated <- Deployments
  SecretsStage = 1
  MaxVersion = 5
  InvalidSpecs <- Second
  UnmanagedSpecs <- Third
  TypeOf <- FourthIsRoute
  WayIn <- WebOrRoute
  SecretsNamed = TRUE
  StaleReads = TRUE
  MaxLag = 2
  MaxFaults = 1
INVARIANT TypeOK
INVARIANT OnlyCheckedDeployed
PROPERTY FlipClearsFinished
PROPERTY NoRollback
PROPERTY Converges
