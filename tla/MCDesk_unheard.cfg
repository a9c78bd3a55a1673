\* Something put in a home, an answer that could not be sent, and a restart within the minute.
SPECIFICATION DeskSpec
CONSTANTS
    Rifles = 1
    Belongings = 1
    MaxLines = 1
    MaxCrashes = 1
INVARIANTS
    KeptAtRest
