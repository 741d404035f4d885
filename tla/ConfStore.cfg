SPECIFICATION FairSpec
CONSTANTS
  Last = 7
  Unprot = 5
  Settings <- AllSettings
  Password <- PasswordRange
  Loaded <- LoadedSettings
  Values = {"v1", "v2"}
  MaxLosses = 3
INVARIANTS
  TypeOK
  Initialised
  ResetIsAtomic
  CopiesMatch
PROPERTIES
  StartsUp
  ImplementsIdeal
