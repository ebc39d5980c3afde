\* Input files of up to five versions, and what the libraries do with them.
CONSTANTS
    Protocols <- MCProtocols
    LaidOut <- MCLaidOut
    Exchanged <- MCExchanged
    Samples <- MCSamples
    MixedTypes <- MCMixedTypes
    BaseTypes <- MCBaseTypes
    ScalarTypes <- PlainTypes
    SkipMembers = {"version", "type", "length", "type_len", "sub"}
    KnownMacros <- MCKnownMacros
    ReadBlacklist <- MCReadBlacklist
    WriteBlacklist <- MCWriteBlacklist
    Header = "of_header"
    OxmRoot = "of_oxm"
    NoClass = NoClass
    NoParam = NoParam
SPECIFICATION Spec
INVARIANTS UnifiedOrReported SupersFirst EnumsAgree InterfacesKept TablesTrue SameClass SameValues
CHECK_DEADLOCK FALSE
