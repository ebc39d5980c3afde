SPECIFICATION UnifySpec
CONSTANTS
    Protocols <- MCProtocols
    NoClass = NoClass
    NoParam = NoParam
INVARIANTS
    SuperAgrees
CHECK_DEADLOCK FALSE
