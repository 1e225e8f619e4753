SPECIFICATION VersionsSpec
CONSTANTS
    Admins = {a1, a2}
    MaxVersion = 3
INVARIANT
    AtMostOneCurrent
