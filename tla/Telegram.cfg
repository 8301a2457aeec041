SPECIFICATION FairSpec
CONSTANTS
    Messages <- Resets
    admin = admin
    other = other
    operator = operator
    Admins = {admin, other}
    Operators = {operator}
    Polls = {p1, p2}
    MaxUpdates = 3
    MaxTokens = 1
    MaxCrashes = 1
INVARIANTS OneResetPerToken
PROPERTIES EveryCommandHandled
CHECK_DEADLOCK FALSE
