CONSTANTS
    r1 = r1
    r2 = r2
    c1 = c1
    u1 = u1
    d1 = d1
    Findings = {f1, f2}
    Blank = {f2}
    Reviews = {r1, r2}
    Creates = {c1}
    Updates = {u1}
    Deletes = {d1}
    None = None
SPECIFICATION Spec
SYMMETRY Symmetry
INVARIANTS
    IndexFollowsTable
    ApprovalAddsEntry
    ReviewIsWhole
