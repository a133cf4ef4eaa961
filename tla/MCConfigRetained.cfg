SPECIFICATION Spec
CONSTANTS
    Configs = {blank, c1, c2}
    Blank = blank
    Torn = torn
    MaxFailures = 2
INVARIANT PreviousSlotRetained
