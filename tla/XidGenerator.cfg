\* Three threads and three xids: every thread can overshoot at the same time, and
\* the counter wraps in every behaviour.
SPECIFICATION FairSpec
CONSTANTS
    Threads = {t1, t2, t3}
    MaxXid = 3
    NoThread = NoThread
INVARIANTS
    BoundedOvershoot
    ResetsOnlyWhenFull
PROPERTIES
    ImplementsCycle
    SomeCallReturns
