SPECIFICATION Spec
CONSTANTS
    Name <- MCName
    Type <- MCType
    Supported <- MCSupported
    NotSet = NotSet
    a = a
    b = b
    ghost = ghost
    Apps <- MCApps
    Retains <- MCRetains
INVARIANT EmptyRetainKeepsAll
