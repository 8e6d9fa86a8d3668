SPECIFICATION FairSpec
CONSTANTS
    Device = {1, 2}
    EventsBuffer = 1
    HintsBuffer = 1
    MaxDrops = 1
    MaxSightings = 2
CHECK_DEADLOCK FALSE
INVARIANT TypeOK
INVARIANT GateOrder
INVARIANT DropsOnlyByOverlap
PROPERTY FirstContact
PROPERTY DialSettles
PROPERTY DeadEntriesReaped
