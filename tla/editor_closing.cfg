SPECIFICATION Spec
CONSTANTS
    Docs = {d1, d2}
    Groups = {g1, g2}
    Panes = {p1, p2, p3}
    Calls = {c1, c2}
    None = None
    Exit = Exit
    Beside = FALSE
    Overlap = FALSE
    LateEdits = FALSE
    MaxVersion = 1
INVARIANTS
    TypeOK
    NothingLostUnasked
    QuestionsStand
    RefusedEditsEnd
PROPERTIES
    OnlyNamedClose
SYMMETRY Symmetry
CHECK_DEADLOCK FALSE
