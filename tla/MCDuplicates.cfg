SPECIFICATION FairDuplicates
CONSTANTS
    Users = {ann, bob}
    Orgs = {o1, o2}
    Runners = {p1, p2}
    NoOne = NoOne
    MaxIncidents = 2
INVARIANTS ChargesAreKnown
PROPERTIES DuplicatesEnd
