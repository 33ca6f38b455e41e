SPECIFICATION Spec
CONSTANTS
  Templates <- MCTemplates
  VarName = "URL"
CHECK_DEADLOCK FALSE
INVARIANTS
  UnsetIfExists
