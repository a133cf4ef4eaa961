SPECIFICATION WifiSpec
CONSTANTS
    Wrap = 8
    Timeout = 2
    FirstBackoff = 1
    MaxBackoff = 2
    MaxGap = 1
    MaxChanges = 0
PROPERTY PauseIsObserved
