CONSTANTS
    Heartbeats = {2, 4}
    MaxDelay = 1
    MaxReloads = 2
    MaxFailures = 2
SPECIFICATION Spec
\* Both ends of a dead connection give it up.
CHECK_DEADLOCK FALSE
INVARIANTS HealthyLinkStaysUp DeadLinkIsNoticed CountersSettle
