SPECIFICATION Spec
CONSTANTS
    Msg = m
    Lists = {l1, l2}
    Elements = {e1, e2}
    ALists = {a1}
    Actions = {x1}
    NoObject = NoObject
    MsgLen = 2
    EltLen = 1
    ActLen = 2
    Alloc = 8
    Values = {v1}
    NoValue = NoValue
INVARIANTS
    WindowsSound
    AbortsAreMisuse
PROPERTIES
    ImplementsTree
SYMMETRY Interchangeable
CHECK_DEADLOCK FALSE
