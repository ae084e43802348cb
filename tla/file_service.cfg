SPECIFICATION FSSpec
CONSTANTS
    Resources = {r1, r2}
    Callers = {c1, c2}
    Texts = {t1}
    Torn = Torn
    Absent = Absent
    NoEtag = NoEtag
    Atomics = {TRUE}
    Linkings = {TRUE, FALSE}
    MaxClock = 2
INVARIANTS
    FSTypeOK
    WritesDoNotInterleave
    GuardHoldsUntilReplace
PROPERTIES
    ImplementsPromise
    EveryWriteSettles
CHECK_DEADLOCK FALSE
