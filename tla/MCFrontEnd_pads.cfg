SPECIFICATION FrontEndSpec
CONSTANTS
    Sorted <- MCSorted
    Roots = {"act"}
    IdName <- MCIdName
    Versions = {1, 4}
    Inputs <- MCInputs
    NoClass = NoClass
    BasicLength <- MCBasicLength
    Mixed <- MCMixed
    FileSets <- PadFiles
    Supported = {1, 3, 4}
    Targets = {1, 4}
    AnyVersion = AnyVersion
INVARIANTS
    OffsetsFollowWire
CHECK_DEADLOCK FALSE
