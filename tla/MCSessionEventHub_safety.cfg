SPECIFICATION FairSpec
CONSTANTS
    c1 = c1
    r1 = r1
    Chats = {c1}
    Readers = {r1}
    BufferMax = 2
    QueueMax = 2
    MaxSubs = 1
    MaxEvents = 5
INVARIANTS
    SubscribersAreServed
PROPERTIES
    ImplementsEventStream
    ReplayFromCursor
    Truncated
    StreamsEnd
CHECK_DEADLOCK FALSE
