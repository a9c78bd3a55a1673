CONSTANTS
    Half = 4
    AckBits = 1
    MaxEpoch = 3
    Slots = 4
    MaxCmds = 4
    Stalled = 3
    SentRing = 3
    Kept = 2
    LeaveQueue = 2
    EventMaxAge = 2
    StaleTicks = 4
    Subjects = {"suit", "chunk", "events", "commands"}
    Starts = {6}
    MaxTicks <- MCTicks
    LastParts = 2
    MaxVersion = 2
    MaxEvents = 2
    MaxFlight <- MCFlight
    MaxAcks <- MCAcks
    MaxLead = 5
    MaxSeats = 2
SPECIFICATION Spec
CHECK_DEADLOCK FALSE
INVARIANTS
    TypeOK
    AckedWasTaken
    DeltaDecodes
    SuitForgotten
    EventsHeard
    InStep
    TravelsTwice
    CommandsRun
