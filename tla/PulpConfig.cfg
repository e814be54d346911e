SPECIFICATION FairSpec
CONSTANTS
  Contents = {"a", "b", "c"}
  Originals = {"a"}
  Overriding = {"b"}
  Recased = {"c"}
  Specs <- Choices
  Installed <- New
  MaxEdits = 2
  MaxFaults = 1
INVARIANT TypeOK
INVARIANT ConfigCurrent
INVARIANT PrechecksSuffice
INVARIANT CAFound
PROPERTY Settles
CHECK_DEADLOCK FALSE
