SPECIFICATION FairSpec
CONSTANTS
  Images <- TwoImages
  Budgets <- Fields2
  MaxReplicas = 2
  Specs <- Variants
  Installed <- Starts
  MaxEdits = 3
  MaxScales = 2
  MaxFaults = 2
INVARIANT TypeOK
INVARIANT WorkloadsCurrent
INVARIANT NeedsThere
PROPERTY RecordedUntilRemoved
PROPERTY ScalingKept
PROPERTY Settles
CHECK_DEADLOCK FALSE
