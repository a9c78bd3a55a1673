CONSTANTS
    Pilots = {ada, bo}
    NoPilot = NoPilot
    Slots = {s1, s2}
    NoSlot = NoSlot
    MaxLaunches = 2
    MaxHasty = 1
    SimCap = 1
    MaxSleepers = 1
    ControlCap = 2
    EpochMod = 2
    ReportCap = 2
    Ejects = FALSE
    Faults = {{}}
SPECIFICATION Spec
SYMMETRY Alike
INVARIANTS
    CleanHandOver
PROPERTIES
    OnePlace
