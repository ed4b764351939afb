CONSTANTS
    Emails = {e1}
    Contests = {c1}
    UnknownContest = c2
    ConfigChoices <- MCConfigChoices
    MaxCalls = 5
    MaxInFlight = 1
    None = None
SPECIFICATION Spec
INVARIANT SubmitInvokesProtocol
