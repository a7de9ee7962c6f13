\* Two concurrent reads or choices over two providers, bodies may stall for ever.
SPECIFICATION Spec
CONSTANTS
    Hosts = {a, b}
    Providers <- TwoHosts
    Readers = {r1, r2}
    ConsecutiveToOpen = 2
    MinSamples = 3
    FailureWindow = 3
    OpenFor = 2
    IdleFor = 4
    MaxEndpoints = 2
    Lasts = 1
    MaxTime = 3
    MaxReads = 3
    a = a
    b = b
SYMMETRY Interchangeable
INVARIANTS ProbeHasHolder
PROPERTIES NeverAskedTwice
CHECK_DEADLOCK FALSE
