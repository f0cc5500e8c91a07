\* Two processes of one machine; the documentation's claim on contention.
CONSTANTS
    p1 = p1
    p2 = p2
    p3 = p3
    Pids = {p1, p2}
    Host <- OneMachine
    NoFile = NoFile
    Unwritten = Unwritten

SPECIFICATION LockSpec

INVARIANTS
    ContentionOnlyBacksOff
