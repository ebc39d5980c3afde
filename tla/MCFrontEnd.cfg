SPECIFICATION FrontEndSpec
CONSTANTS
    Sorted <- MCSorted
    Roots = {"act"}
    IdName <- MCIdName
    Versions = {1, 4}
    Inputs <- MCInputs
    NoClass = NoClass
    BasicLength <- MCBasicLength
    Mixed <- MCMixed
    FileSets <- MCFileSets
    Supported = {1, 3, 4}
    Targets = {1, 4}
    AnyVersion = AnyVersion
INVARIANTS
    FilesHonoured
    DependenciesFirst
    LengthsFinal
    IdClassesMirror
PROPERTIES
    Ends
CHECK_DEADLOCK FALSE
