\* Two processes of one machine and one of another that shares the files,
\* scheduled fairly.
CONSTANTS
    p1 = p1
    p2 = p2
    p3 = p3
    Pids = {p1, p2, p3}
    Host <- TwoMachines
    NoFile = NoFile
    Unwritten = Unwritten

SPECIFICATION FairLockSpec

PROPERTIES
    OrphanedGateBars
    ImplementsMutex
    CrashedOwnerIsReplaced
