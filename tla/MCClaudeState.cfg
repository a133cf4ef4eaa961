SPECIFICATION ClaudeSpec
CONSTANTS
    Horizon = 2
    Spans = {2}
    MaxLines = 2
    Confirmations = 2
    MaxAge = 3
    MaxFailures = 1
    Paced = TRUE
INVARIANT LogoutForgets
INVARIANT NoExpiredCarried
INVARIANT ShownFromOwnSection
PROPERTY LogoutIsConfirmed
PROPERTY StateFollowsAccount
