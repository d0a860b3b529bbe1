SPECIFICATION EagerSpec
CONSTANTS
    g1 = g1
    c1 = c1
    Guards = {g1}
    Calls = {c1}
    None = None
    MaxConns = 2
    MaxFrames = 1
    MaxUpsets = 1
PROPERTIES
    InstancesServe
