SPECIFICATION FairSpec
CONSTANTS
    Attempts = {h1, h2}
    Replicas = {r1}
    Sweepers = {r1}
    None = None
    Events = {"crash"}
    MaxCrashes = 1
PROPERTIES
    GoneWorkerGoesOffline
    LiveWorkerIsOnline
CHECK_DEADLOCK FALSE
