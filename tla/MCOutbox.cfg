SPECIFICATION Spec
CONSTANTS
    MaxFailures = 1
INVARIANTS
    NoGhostRoom
    OneCleanup
    NewestReportCounts
PROPERTIES
    CleanupEnds
    DrainIsAcknowledged
