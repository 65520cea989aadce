CONSTANTS
    u1 = u1
    u2 = u2
    u3 = u3
    d1 = d1
    d2 = d2
    w1 = w1
    w2 = w2
    Uploads = {u1, u2}
    Deletes = {d1}
    Workers = {w1}
    Roles = {a}
    Names = {n}
    Modes = {TRUE, FALSE}
    Embeddings = TRUE
    MaxRetries = 1
    MaxRedeliver = 1
    Free = Free
    Empty = Empty
    NoMsg = NoMsg
SPECIFICATION Spec
INVARIANTS
    ClausesFollowStatus
    ReferencesHold
    ChunksSearchable
    BytesMatch
PROPERTY Drains
