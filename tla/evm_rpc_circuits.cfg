\* Two concurrent reads over the two providers of a network; another network fills
\* an index of two entries.
SPECIFICATION Spec
CONSTANTS
    Hosts = {a, b, c}
    Providers <- TwoHosts
    OtherHosts = {c}
    Readers = {r1, r2}
    ConsecutiveToOpen = 3
    MinSamples = 3
    FailureWindow = 3
    OpenFor = 3
    IdleFor = 4
    MaxEndpoints = 2
    Lasts = 1
    MaxTime = 5
    MaxReads = 4
    a = a
    b = b
    c = c
SYMMETRY Interchangeable
INVARIANTS ProbeHasHolder
PROPERTIES OpenNeedsLastResort FailedProbeReopens RecoversForGood EvictsForCause
CHECK_DEADLOCK FALSE
