SPECIFICATION Spec
CONSTANTS
    Plans = {p1, p2}
    Keys = {k1}
    Clients = {c1, c2}
    Ttl = 1
    MaxClock = 1
    Configured = TRUE
    Reachable = TRUE
    Faults <- AnyFault
    None = None
INVARIANTS AtMostTwice CopiesAgree
