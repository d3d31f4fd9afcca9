SPECIFICATION Spec
CONSTANTS
    A = A  B = B  C = C  c1 = c1  c2 = c2  g1 = g1  g2 = g2  t1 = t1  t2 = t2
    r1 = r1  r2 = r2
    Users <- MCUsers
    SignedIn = {2}
    Orgs = {A, B, C}
    Checks = {c1, c2}
    Pages = {g1, g2}
    Tokens = {t1, t2}
    Requests = {r1, r2}
    CreatorOf <- MCCreatorOf
    TokenOf <- MCTokenOf
    FirstRole <- MCFirstRole
    FirstHome <- MCFirstHome
    FirstPage <- MCFirstPage
    None = None
    Gone = Gone
    MaxTries = 3
    MaxChanges = 1
    Workspaces = {A, B}
    Monitors = {c1, c2}
    FirstPlace <- MCFirstPlace
    Bound = A
    Nowhere = Nowhere
    MaxTurns = 2
    MaxTokensMade = 2
    Visits = {r1, r2}
    Addresses = {g1, g2}
    Host = g1
    Nonces = {1, 2}
    NoFlow = NoFlow
    MaxSlugAttempts = 3
    MaxIncidents = 1
    MaxSaves = 2
    MaxUpdates = 1
    OwnTokens = {t1, t2}
    NoToken = NoToken
    FirstTokens <- MCFirstTokens
    NewTokens <- MCNewTokens
    Horizon = 2
    LongestDelay = 1
    MaxLists = 2
SYMMETRY MCSymmetry
INVARIANTS RequestsAreSound SignInsAreSound HistoryIsTrue
PROPERTIES AcceptedIsGood ChangesAreAllowed AgentsAreServed SecretsAreSafe EditsAreMeant
CHECK_DEADLOCK FALSE
