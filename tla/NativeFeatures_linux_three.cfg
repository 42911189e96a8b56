SPECIFICATION Spec
CONSTANTS
    Threads = {t1, t2, t3}
    Platform = "linux"
    Hardware <- LinuxMachines
    Memory = "sc"
    Queries <- TwoQueries
PROPERTIES
    ImplementsDetector
SYMMETRY Symmetry
