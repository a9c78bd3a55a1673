CONSTANTS
    c1 = c1
    c2 = c2
    c3 = c3
    c4 = c4
    lan = lan
    lo = lo
    Conns = {c1, c2, c3, c4}
    Addrs = {lan, lo}
    Loopback = {lo}
    MaxConnections = 3
    PerAddress = 2
    RetryAbove = 1
SPECIFICATION AdmissionSpec
SYMMETRY Symmetry
INVARIANTS CountersExact Limits
CHECK_DEADLOCK TRUE
