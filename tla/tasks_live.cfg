CONSTANTS
    r1 = r1
    r2 = r2
    w1 = w1
    w2 = w2
    ta = ta
    tb = tb
    Requests = {r1, r2}
    Workers = {w1}
    Types = {ta}
    Modes = {"trigger", "inline"}
    MaxTypes = 1
    MaxRetries = 1
    MaxRedeliver = 1
    Limit = 2
    Free = Free
    NoMsg = NoMsg
SPECIFICATION Spec
PROPERTIES
    QueuedSettles
    Drains
