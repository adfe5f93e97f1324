SPECIFICATION Spec
CONSTANTS
    Plans = {p1, p2}
    Keys = {k1, k2}
    Clients = {c1, c2}
    Ttl = 1
    MaxClock = 1
    Configured = TRUE
    Reachable = TRUE
    Faults <- NoFaults
    None = None
INVARIANTS SingleUse
PROPERTIES ReleasedInTime ImplementsPlanSlot
