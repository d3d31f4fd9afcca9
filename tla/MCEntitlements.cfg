SPECIFICATION Spec
CONSTANTS
    Users <- MCUsers
    Orgs = {o1, o2}
    Checks = {c1, c2}
    Requests = {r1, r2}
    Plans <- MCPlans
    Absent = Absent
    Gone = Gone
    Nobody = Nobody
    MaxTries = 2
SYMMETRY MCSymmetry
INVARIANTS LocksAreSound
PROPERTIES ImplementsLimits
