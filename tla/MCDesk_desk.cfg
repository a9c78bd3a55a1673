\* Every place the server may stop.
SPECIFICATION DeskSpec
CONSTANTS
    Rifles = 1
    Belongings = 1
    MaxLines = 1
    MaxCrashes = 1
INVARIANTS
    DeskTypeOK
    NothingGoesMissing
    HandedOnceIfTold
