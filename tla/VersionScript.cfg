SPECIFICATION Spec
CONSTANTS
    image1 = image1
    image2 = image2
    quickstart = quickstart
    Manifest <- MCManifest
    Doc <- MCDoc
    Garbage = Garbage
    MaxPart = 2
    MaxFaults = 2
INVARIANTS
    TypeOK
    ManifestsAgree
    DocsInStep
PROPERTY LockGoesForward
