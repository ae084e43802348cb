SPECIFICATION Spec
CONSTANTS
    Exts = {"a", "b"}
    Events = {"ea", "eb"}
    Deps <- MCDeps
    WakesOn <- MCWakesOn
    Patterns = {"b"}
    Busy = FALSE
    MaxSpawns = 3
    MaxEntries <- MCMaxEntries
INVARIANTS
    TypeOK
    NoneForgotten
    ActiveRuns
    HeardIsPickedUp
    ActivatedOnce
    CommandsReachable
    DisposedStaysDown
PROPERTIES
    DependenciesFirst
    RestartRevives
    KeepsPromise
