SPECIFICATION Spec
CONSTANTS
    Threads = {t1, t2}
    Platform = "linux"
    Hardware <- FullMachines
    Memory = "relaxed"
    Queries <- OneQuery
PROPERTIES
    ImplementsDetector
SYMMETRY Symmetry
