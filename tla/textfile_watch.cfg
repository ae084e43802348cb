SPECIFICATION TFSpec
CONSTANTS
    Resources = {r1, r2}
    Callers = {c1}
    Texts <- MCTexts
    Torn = Torn
    Absent = Absent
    NoEtag = NoEtag
    NoStat = NoStat
    Atomics = {TRUE}
    Linkings = {FALSE}
    Commands = {"edit", "undo", "save", "overwrite"}
    Targets = {r2}
    ForeignPaths = {r2}
    SlowStat = FALSE
    StatErrors = FALSE
    MaxClock = 3
    MaxVersion = 2
INVARIANTS
    ConflictIsForeign
    CleanMeansSynced
PROPERTIES
    SavesOverKnownVersions
    ForeignChangesNoticed
    DeletedIsOrphaned
    PresentIsNotOrphaned
CHECK_DEADLOCK FALSE
