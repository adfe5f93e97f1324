SPECIFICATION Spec
CONSTANTS
    Uploads = {u1, u2, u3}
    Drops = {x}
    Names = {n1, n2}
    PartNames = FALSE
    Collisions = FALSE
    Faults = {"stream", "replace", "unlink"}
    MaxVariants = 2
    Cap = 2
    Budget = 2
    MaxBlocks = 3
    MaxConcurrent = 2
    MaxCrashes = 1
    None = None
INVARIANTS WholeFiles OvershootBounded
PROPERTIES NeverOverwrites
SYMMETRY Symmetric
