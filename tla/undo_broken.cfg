SPECIFICATION Spec
CONSTANTS
    Contexts = {w, a, b}
    Workspace = w
    Requests = {q1}
    MaxSteps = 1
PROPERTIES
    BrokenIsNotUndone
CHECK_DEADLOCK FALSE
