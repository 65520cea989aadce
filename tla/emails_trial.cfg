CONSTANTS
    o1 = o1
    o2 = o2
    s1 = s1
    s2 = s2
    s3 = s3
    Orgs = {o1}
    Milestones = {d3, d7}
    Slots = {s1, s2}
    MaxFailures = 1
SPECIFICATION Spec
INVARIANTS
    RecordedWasSent
    SettledOnce
PROPERTY DueIsSent
