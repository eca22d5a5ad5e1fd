\* Up to five events, closed at any moment.
CONSTANTS
    QueueCapacity = 2
    MaxEvents = 5
SPECIFICATION FairQueueSpec
CHECK_DEADLOCK FALSE
INVARIANTS EventsKeepOrder
PROPERTIES CloseReturns
