CONSTANTS
    o1 = o1
    o2 = o2
    h1 = h1
    h2 = h2
    Orgs = {o1, o2}
    Tagged = {o1}
    Handlers = {h1, h2}
    Reported = {"unpaid", "incomplete"}
    MaxEvents = 4
    MaxFailures = 1
    Scopes <- MCScopes
    NoEvent = NoEvent
SPECIFICATION Spec
INVARIANTS
    WelcomedOnce
    DeletedIsInactive
    ServiceMirrors
PROPERTY Onboarded
