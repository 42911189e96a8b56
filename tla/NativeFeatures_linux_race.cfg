SPECIFICATION Spec
CONSTANTS
    Threads = {t1, t2}
    Platform = "linux"
    Hardware <- LinuxMachines
    Memory = "sc"
    Queries <- FamilyQueries
INVARIANTS
    AnswersAgree
