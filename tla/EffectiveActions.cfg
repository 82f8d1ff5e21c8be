CONSTANTS
  Calls <- MCCalls
  Slots = 1
  MaxRetries = 1
  MaxPages = 2
  PagesThere <- MCPagesThere
  Nothing = Nothing
  Roles = {"r1", "r2"}
  Assignments = "roles"
  DenyList = "denies"
  DenyForms = {"the caller", "a group", "all but a group"}
SPECIFICATION MCSpec
INVARIANTS TypeOK WholeIsWhole DecisionIsTrue
PROPERTY Returns
CHECK_DEADLOCK FALSE
