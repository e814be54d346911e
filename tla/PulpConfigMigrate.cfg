SPECIFICATION Spec
CONSTANTS
  Contents = {"a", "b", "c"}
  Originals = {"a"}
  Overriding = {"b"}
  Recased = {"c"}
  Specs <- Redirect
  Installed <- Redirect
  MaxEdits = 0
  MaxFaults = 0
INVARIANT MigrateWritten
CHECK_DEADLOCK FALSE
