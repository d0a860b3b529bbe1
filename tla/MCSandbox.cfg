SPECIFICATION SandboxSpec
CONSTANTS
    g1 = g1
    g2 = g2
    c1 = c1
    c2 = c2
    Guards = {g1, g2}
    Calls = {c1, c2}
    None = None
    MaxConns = 2
    MaxFrames = 1
    MaxUpsets = 1
INVARIANTS
    OneScript
    RequestsAreOwn
PROPERTIES
    ScriptsEnd
