CONSTANTS
    W = 5
    Delays <- MCDelays
    QueueSize = 2
    TableSize = 2
    MaxStops = 3
SPECIFICATION FairSpec
INVARIANTS OneOutstanding
PROPERTIES SleepsAsAsked DelayEnds
