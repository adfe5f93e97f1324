SPECIFICATION Spec
CONSTANTS
    Plans = {p1, p2}
    Keys = {k1}
    Clients = {c1}
    Ttl = 2
    MaxClock = 1
    Configured = TRUE
    Reachable = TRUE
    Faults <- TakeRefused
    None = None
INVARIANTS SingleUse
