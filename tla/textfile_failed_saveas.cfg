SPECIFICATION TFSpec
CONSTANTS
    Resources = {r1, r2}
    Callers = {c1, c2}
    Texts <- MCTexts
    Torn = Torn
    Absent = Absent
    NoEtag = NoEtag
    NoStat = NoStat
    Atomics = {TRUE}
    Linkings = {FALSE}
    Commands = {"edit", "save"}
    Targets = {r2}
    ForeignPaths = {}
    SlowStat = FALSE
    StatErrors = FALSE
    MaxClock = 3
    MaxVersion = 2
INVARIANTS
    BufferStaysWithItsFile
CHECK_DEADLOCK FALSE
