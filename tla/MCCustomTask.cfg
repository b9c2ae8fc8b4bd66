SPECIFICATION Spec
CONSTANTS
  Templates <- MCTemplates
  Arguments <- MCArguments
  Outputs = {"up", "upup", "1"}
  Errors = {"timed out"}
  Find <- MCFind
  Formatted <- MCFormatted
  Points = 12
INVARIANTS
  TypeOK
  ResultIsOutcome
  PassRestsOnLatest
