CONSTANTS
    Settings <- MCSettings
    Values <- MCValues
    Default = "default"
    Names <- MCNames
    MaxDepth = 2

SPECIFICATION Spec

INVARIANT SessionAsTold
