CONSTANTS
  Calls <- MCCalls
  Slots = 1
  MaxRetries = 1
  MaxPages = 2
  PagesThere <- MCPagesThere
  Nothing = Nothing
  Roles = {"r1", "r2"}
  Assignments = "roles"
  DenyList = "denies"
  DenyForms = {"the caller"}
SPECIFICATION Spec
INVARIANT AllowedIsAllowed
CHECK_DEADLOCK FALSE
