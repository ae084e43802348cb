SPECIFICATION Spec
CONSTANTS
    Files = {f, g}
    NoFile = NoFile
    Writes = {w1, w2}
    MaxItems = 2
    MaxFailures = 1
INVARIANTS
    TypeOK
    TimerSeesItsFile
    OwnFileOnly
    UncrowdedFlushIsDurable
PROPERTIES
    QuietAfterDispose
    StoresReachDisk
CHECK_DEADLOCK FALSE
