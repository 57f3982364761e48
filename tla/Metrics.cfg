\* Two handlers record four events in series that do not exist yet.
CONSTANTS
    h1 = h1
    h2 = h2
    Handlers = {h1, h2}
    Lengths <- TwoLengths
    MaxClock = 3
    MaxEvents = 4
    MaxFaults = 1
SPECIFICATION FairSpec
INVARIANTS TypeOK EventsCounted BucketsNest
PROPERTIES RecordingEnds
