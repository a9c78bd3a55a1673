CONSTANTS
    Sessions = {c1, c2, c3}
    NoSession = NoSession
    MaxHits = 0
    HurriedHits = 0
    Hurries = {{}}
SPECIFICATION Spec
CHECK_DEADLOCK FALSE
INVARIANTS
    OneSession
