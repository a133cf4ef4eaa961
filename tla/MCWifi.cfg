SPECIFICATION WifiFairSpec
CONSTANTS
    Wrap = 8
    Timeout = 2
    FirstBackoff = 1
    MaxBackoff = 2
    MaxGap = 1
    MaxChanges = 1
INVARIANT RoundInPriority
PROPERTIES AttemptLastsTimeout GetsConnected
