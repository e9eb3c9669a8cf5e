SPECIFICATION Spec
CONSTANTS
    Attempts = {h1, h2}
    Replicas = {r1, r2}
    Sweepers = {}
    None = None
    Events = {"abandon", "expire", "crash", "revoke", "deaf"}
    MaxCrashes = 1
SYMMETRY Symmetry
INVARIANTS
    MapEntryIsAlive
    OneWinner
    WinnerIsServed
PROPERTIES
    QuarantineSettles
CHECK_DEADLOCK FALSE
