SPECIFICATION VersionsSpec
CONSTANTS
    Admins = {a1}
    MaxVersion = 3
INVARIANT
    PublishFindsFreeNumber
