CONSTANTS
    Agents = {a}
    Others = {o1}
    Quiet = {o1}
    Pages = {p1}
    None = None
    MaxSteps = 3
    MaxTokens = 1
    MaxWire = 1
SPECIFICATION Spec
SYMMETRY Symmetry
INVARIANTS TypeOK ShownInOrder CursorIsComplete
PROPERTY ImplementsLogReplay
