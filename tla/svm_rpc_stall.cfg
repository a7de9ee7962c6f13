\* A provider sends its headers and never the rest of its answer.
SPECIFICATION FairSpec
CONSTANTS
    Hosts = {a, b}
    Providers <- TwoHosts
    Readers = {r1}
    ConsecutiveToOpen = 2
    MinSamples = 3
    FailureWindow = 3
    OpenFor = 2
    IdleFor = 4
    MaxEndpoints = 2
    Lasts = 1
    MaxTime = 4
    MaxReads = 1
    a = a
    b = b
PROPERTIES EveryReadEnds
CHECK_DEADLOCK FALSE
