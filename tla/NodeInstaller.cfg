SPECIFICATION Spec
CONSTANTS
    Distros <- MCDistros
    MaxFaults = 3
INVARIANTS
    TypeOK
    OneSectionEach
    SuccessMeansLoaded
    RuntimeHasBinary
PROPERTY EventuallyInstalled
