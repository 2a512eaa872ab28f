CONSTANTS
    Jobs <- AllJobs
    Cancelling <- AnyCancelling
    Faults = {"noise", "death"}
SPECIFICATION Spec
INVARIANTS
    TypeOK
    EvidenceFits
    FlawedIsRefused
    NoOrphanBackend
PROPERTY DiscoverEnds
CHECK_DEADLOCK FALSE
