\* Messages of the three layouts, and a peer's bytes.
CONSTANTS
    MessageKinds = {"packet_out", "gentable", "flow_mod"}
    Alloc <- MCAlloc
    Elements <- MCElements
    Matches <- MCMatches
    Packets <- MCPackets
    Foreign <- MCForeign
SPECIFICATION Spec
INVARIANTS ReadsBack FaultsAreMisuse OneOwner Understood JavaIsStrictest ValidatedReads
CHECK_DEADLOCK FALSE
