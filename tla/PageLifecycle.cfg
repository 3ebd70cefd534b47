SPECIFICATION LifecycleSpec
CONSTANT MaxRuns = 4
INVARIANTS
    ConnectionsBounded
    HearsEventsOnce
PROPERTIES
    PageListens
CHECK_DEADLOCK FALSE
