SPECIFICATION Spec
CONSTANTS
    Digest <- MCDigest
    Engine <- MCEngine
    Images <- MCImages
    Wants <- MCWants
    Packed <- MCPacked
    Broken <- MCBroken
    None = None
    MaxFaults = 2
    app = app
    app2 = app2
    app3 = app3
    w1 = w1
    w2 = w2
    bad = bad
    asset = asset
    tar = tar
    packed = packed
INVARIANTS
    TypeOK
    NativeWhenTrusted
    LoadsTheImage
    ContentMatchesDigest
PROPERTY RestartHeals
