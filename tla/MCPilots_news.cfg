CONSTANTS
    Sessions = {c1, c2}
    NoSession = NoSession
    MaxHits = 2
    HurriedHits = 0
    Hurries = {{}, {"split", "overdue", "swift"}}
SPECIFICATION Spec
CHECK_DEADLOCK FALSE
INVARIANTS
    TypeOK
    OneSession
    RecordIsCurrent
    LoserIsTold
PROPERTIES
    NoLostUpdate
    ClaimEnds
    OneInTheEnd
