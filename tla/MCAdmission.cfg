SPECIFICATION AdmSpec
CONSTANTS
    Requests = {r1}
    Handlers = {h1, h2}
    Window = 3
    Lifetime = 1
    Grain = 2
    MaxTime = 8
    NoRequest = NoRequest
SYMMETRY Symmetry
INVARIANTS TakenOnce AdmInv
