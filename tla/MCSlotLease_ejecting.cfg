CONSTANTS
    Pilots = {ada, bo}
    NoPilot = NoPilot
    Slots = {s1}
    NoSlot = NoSlot
    MaxLaunches = 2
    MaxHasty = 1
    SimCap = 2
    MaxSleepers = 1
    ControlCap = 2
    EpochMod = 2
    ReportCap = 2
    Ejects = TRUE
    Faults = {{}, {"impatient", "torn", "split"}}
SPECIFICATION Spec
INVARIANTS
    TypeOK
    LossesAreJust
    OneOwner
PROPERTIES
    AnswerIsOwn
    LeavingEnds
