SPECIFICATION Spec
CONSTANTS
    Distros <- MCDistros
    MaxFaults = 1
INVARIANT ReportsNoChangeTruly
