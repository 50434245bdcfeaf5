SPECIFICATION Spec
CONSTANTS
    Key <- MCKey
    Value <- MCValue
    Containers <- MCContainers
    Variables <- MCVariables
    Own <- MCOwn
    Prefixed <- MCPrefixed
    Unset = Unset
    NoName = NoName
    CacheDir = CacheDir
    WorkingDir = WorkingDir
    Types <- MCTypes
    Valid <- MCValid
    DefaultAddr = DefaultAddr
    Unknown = Unknown
    one = one
    two = two
INVARIANTS
    TypeOK
    VariablesAsMeant
    SettingsSurvive
    CacheIsFound
    OptionsAsGiven
PROPERTY EnvironmentSettles
