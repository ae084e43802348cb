SPECIFICATION Spec
CONSTANTS
    Docs = {d1}
    Groups = {g1}
    Panes = {p1, p2}
    Calls = {c1}
    None = None
    Exit = Exit
    Beside = TRUE
    Overlap = FALSE
    LateEdits = FALSE
    MaxVersion = 1
INVARIANT NothingLostUnasked
CHECK_DEADLOCK FALSE
