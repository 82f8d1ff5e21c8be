CONSTANTS
  Catalogue <- MCCatalogue
  AdapterIds = {"bicep"}
  Problems <- MCProblems
  Entries <- MCEntries
  Requests <- ReadyRequests
  BicepRequired = TRUE
  NoKey = NoKey
  AnyOf = AnyOf
  NoFile = NoFile
  MaxDay = 1
  MaxOffset = 1
  MaxFaults = 1
SPECIFICATION Spec
INVARIANT ReadyRan
