CONSTANTS
    Agents = {a}
    Others = {o1}
    Quiet = {}
    Pages = {p1}
    None = None
    MaxSteps = 3
    MaxTokens = 0
    MaxWire = 1
SPECIFICATION Spec
INVARIANT CursorIsComplete
