SPECIFICATION Spec
CONSTANTS
    Files = {f}
    NoFile = NoFile
    Writes = {w1, w2}
    MaxItems = 2
    MaxFailures = 0
INVARIANTS
    FlushIsDurable
CHECK_DEADLOCK FALSE
