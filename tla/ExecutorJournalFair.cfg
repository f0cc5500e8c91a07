\* Two executors scheduled fairly, two tasks, two attempts in all.
CONSTANTS
    Executors = {p1, p2}
    Tasks = {t1, t2}
    NoTask = NoTask
    MaxAttempts = 2

SPECIFICATION FairJournalSpec

INVARIANTS
    JournalInv
    NoTaskTwice

PROPERTIES
    ImplementsSubmissions
    InclusionIsRecorded
