SPECIFICATION Spec
CONSTANTS
    Name <- MCName
    Type <- MCSupported
    Supported <- MCSupported
    Retains <- MCRetains
    NotSet = NotSet
    Digest <- MCDigest
    Hash <- MCHash
    Images <- MCImages
    Packed <- MCNothing
    Broken <- MCBroken
    None = None
    MaxFaults = 2
    AppOf <- MCAppOf
    WasmOf <- MCWasmOf
    DataOf <- MCNothing
    a = a
    b = b
    c = c
    d = d
    both = both
    pair = pair
    alone = alone
    mixed = mixed
    w1 = w1
    w2 = w2
    bad = bad
INVARIANTS
    TypeOK
    ServesTheImage
PROPERTIES
    RunsAreEngineRuns
    StaysUp
