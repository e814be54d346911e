SPECIFICATION FairSpec
CONSTANTS
  OpenShift = TRUE
  Routes <- OneRoute
  Rewrites = TRUE
  Classes <- ClassSet
  Specs <- All
  Installed <- New
  MaxEdits = 2
  MaxFaults = 1
INVARIANT TypeOK
INVARIANT OneWayIn
PROPERTY RemovedFirst
PROPERTY Settles
CHECK_DEADLOCK FALSE
