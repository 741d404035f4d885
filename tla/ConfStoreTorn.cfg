SPECIFICATION Spec
CONSTANTS
  Last = 7
  Unprot = 5
  Settings <- AllSettings
  Password <- PasswordRange
  Loaded <- LoadedSettings
  Values = {"v1", "v2"}
  MaxLosses = 1
INVARIANTS
  ProtectedSurvive
