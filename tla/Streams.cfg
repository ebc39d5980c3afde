\* A header of three octets, of which the dissector looks at two, and messages of
\* three and five: a segment may end inside a header, inside a body or between two
\* messages, and may hold two of them.
SPECIFICATION SpecStreams
CONSTANTS
    HeaderLen = 3
    PeekLen = 2
    ReadMax = 4
    Sizes = {3, 5}
    MaxSent = 3
INVARIANTS
    NoByteLost
PROPERTIES
    ImplementsStream
    EveryMessageArrives
    StopTerminates
CHECK_DEADLOCK FALSE
