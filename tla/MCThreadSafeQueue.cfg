CONSTANTS
    Items = {a, b}
    Pushers = {p1, p2}
    Waiters = {w1, w2}
    Timed = {w2}
    Pollers = {q1}
    Owner = main
    Nothing = Nothing
    MaxLen = 3
SPECIFICATION FairSpec
INVARIANTS TypeOK NoLostWakeup
PROPERTIES StopReleases ImplementsFifo
