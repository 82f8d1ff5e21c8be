CONSTANTS
  Rules = {"r1", "r2", "r3"}
  Keys = {"k1", "k2"}
  Needs <- MCNeeds
  Answers = {"yes", "denied"}
  Failures = {"denied"}
  Parallelism = 2
  Nothing = Nothing
  Nobody = Nobody
  Cut = Cut
SPECIFICATION FairSpec
INVARIANTS TypeOK OneAnswer CleanIsInformed ReportIsWhole
PROPERTIES KeepsPromise Ends
CHECK_DEADLOCK FALSE
