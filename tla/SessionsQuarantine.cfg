SPECIFICATION Spec
CONSTANTS
    Attempts = {h1}
    Replicas = {r1}
    Sweepers = {r1}
    None = None
    Events = {"revoke"}
    MaxCrashes = 0
PROPERTIES
    QuarantineIsSticky
CHECK_DEADLOCK FALSE
