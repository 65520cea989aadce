CONSTANTS
    q1 = q1
    q2 = q2
    x1 = x1
    x2 = x2
    x3 = x3
    x4 = x4
    Slots = {q1, q2}
    People = {ann}
    Roles = {admin, viewer}
    Projects = {x1, x2, x3, x4}
    Plans = {"trial", "starter", "enterprise"}
    Limit <- MCLimit
    MaxLost = 1
    Nobody = Nobody
SPECIFICATION Spec
SYMMETRY Symmetry
INVARIANTS
    InvitedOnce
    QuotaHolds
PROPERTY RemovalSticks
