SPECIFICATION Spec
CONSTANTS
  Resources <- Pulpcore
  SelfReady <- AlwaysReady
  CondOf <- OwnCond
  Gated <- Deployments
  SecretsStage = 1
  MaxVersion = 2
  InvalidSpecs <- None
  UnmanagedSpecs <- None
  TypeOf <- OneType
  WayIn <- NoWeb
  SecretsNamed = TRUE
  StaleReads = FALSE
  MaxLag = 2
  MaxFaults = 0
PROPERTY FinishedMeansReady
