SPECIFICATION Spec
CONSTANTS
    Exts = {"a", "b"}
    Events = {"ea", "eb"}
    Deps <- MCDeps
    WakesOn <- MCWakesOn
    Patterns = {"b"}
    Busy = FALSE
    MaxSpawns = 3
    MaxEntries <- MCMaxEntries
PROPERTIES
    LazyRevival
