SPECIFICATION Spec
CONSTANTS
    Key <- MCKey
    Value <- MCValue
    Containers <- FewContainers
    Variables <- WithTmpdir
    Own <- MCOwn
    Prefixed <- MCPrefixed
    Unset = Unset
    NoName = NoName
    CacheDir = CacheDir
    WorkingDir = WorkingDir
    Types <- MCTypes
    Valid <- MCValid
    DefaultAddr = DefaultAddr
    Unknown = Unknown
    one = one
    two = two
INVARIANT OnlyContainerVariables
