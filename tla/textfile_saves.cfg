SPECIFICATION TFSpec
CONSTANTS
    Resources = {r1}
    Callers = {c1, c2}
    Texts <- MCTexts
    Torn = Torn
    Absent = Absent
    NoEtag = NoEtag
    NoStat = NoStat
    Atomics = {TRUE}
    Linkings = {FALSE}
    Commands = {"edit", "undo", "save", "overwrite", "revert"}
    Targets = {}
    ForeignPaths = {r1}
    SlowStat = FALSE
    StatErrors = TRUE
    MaxClock = 3
    MaxVersion = 2
INVARIANTS
    TFTypeOK
    CleanMeansSynced
PROPERTIES
    SavesOverKnownVersions
SYMMETRY CallerSymmetry
CHECK_DEADLOCK FALSE
