SPECIFICATION Spec
CONSTANTS
    t1 = t1
    t2 = t2
    p1 = p1
    p2 = p2
    Test <- MCTest
    Port <- MCPort
    NoPort = NoPort
    Nobody = Nobody
    Requests = 2
    MaxTries = 1
INVARIANT TypeOK
PROPERTIES
    EveryTestEnds
    FailsAfterExit
    StopsWhatItStarted
