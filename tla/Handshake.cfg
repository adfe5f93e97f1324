SPECIFICATION Spec
CONSTANTS
    Plans = {p1, p2}
    Keys = {k1, k2}
    Clients = {c1, c2}
    Ttl = 1
    MaxClock = 1
    None = None
    Other = Other
    Cut = Cut
    Overlaps = FALSE
    Cuts = {"stop", "notice", "restart", "unrouted"}
    MaxMessages = 5
PROPERTIES ApprovedAsShown ApprovalHonoured
SYMMETRY Symmetric
