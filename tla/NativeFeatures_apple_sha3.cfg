SPECIFICATION Spec
CONSTANTS
    Threads = {t1, t2}
    Platform = "apple"
    Hardware <- AppleMachines
    Memory = "sc"
    Queries <- FamilyQueries
INVARIANTS
    NoFalsePositive
