SPECIFICATION Spec
CONSTANTS
    Users = {ann, bob}
    Orgs = {o1, o2}
    Invites = {i1}
    Calls = {c1, c2}
    MaxAsked = 3
SYMMETRY MCSymmetry
INVARIANTS OwnersRemain NothingGoesStale
CHECK_DEADLOCK FALSE
