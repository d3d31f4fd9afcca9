SPECIFICATION Spec
CONSTANTS
    Requests = {r1, r2}
    Offers = {signal, fleet}
    Attempts <- MCAttempts
    Operations = {o1, o2}
    Nothing = Nothing
    Day = 1
    MaxAsked = 3
    MaxEvents = 3
SYMMETRY MCSymmetry
INVARIANTS OneUsableSession AnswersWhatIsAsked
PROPERTIES WebhooksConverge ForgottenOnlyByRecovery
CHECK_DEADLOCK FALSE
