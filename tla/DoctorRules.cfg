CONSTANT MaxResources = 2
SPECIFICATION Spec
INVARIANTS TypeOK CleanIsInformed FindingsStand UnjudgedIsTold
CHECK_DEADLOCK FALSE
