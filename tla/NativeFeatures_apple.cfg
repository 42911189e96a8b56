SPECIFICATION FairSpec
CONSTANTS
    Threads = {t1, t2}
    Platform = "apple"
    Hardware <- AppleMachines
    Memory = "sc"
    Queries <- AppleQueries
PROPERTIES
    ImplementsDetector
    LoadedLeadsToDetected
