SPECIFICATION Spec
CONSTANTS
    Contexts = {w, a, b}
    Workspace = w
    Requests = {q1, q2}
    MaxSteps = 2
INVARIANTS
    TypeOK
    OnlyParticipantsHoldSteps
    RedoneEverywhere
    UndoneOrRedone
    PushOrderKept
SYMMETRY Symmetry
VIEW View
CHECK_DEADLOCK FALSE
