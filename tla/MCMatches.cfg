CONSTANTS
    Exact <- MCExact
    Masks <- MCMasks
    Known <- MCKnown
    Foreign <- MCForeign
    MaxEdits = 3
SPECIFICATION Spec
INVARIANTS BuiltAsAsked BothEndsAgree WireKeepsMatch FlowSpace
CHECK_DEADLOCK FALSE
