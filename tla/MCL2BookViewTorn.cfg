SPECIFICATION ViewSpec
CONSTANTS
    consumer = consumer
    Writers <- OneWriter
    Fields <- MCFields
    MaxVersions = 4
INVARIANTS
    LoadIsWhole
