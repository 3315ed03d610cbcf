CONSTANTS
    Producers <- MCProducers
    MaxEvents = 2
SPECIFICATION FairSpec
INVARIANTS
    ExactlyOnceInOrder
    FrameShowsItsBatch
PROPERTIES
    StopEndsLoop
    QueueSpec
