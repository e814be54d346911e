SPECIFICATION FairSpec
CONSTANTS
  Images = {"old", "new"}
  Stores = {"file", "s3"}
  Sums = {"custom"}
  AdminSecrets = {"admin", "other"}
  Specs <- Choices
  Installed <- New
  MaxEdits = 2
  MaxFaults = 1
INVARIANT TypeOK
INVARIANT MigrationsRun
INVARIANT SecretsActedOn
INVARIANT PodsHaveKey
PROPERTY Settles
CHECK_DEADLOCK FALSE
