SPECIFICATION Spec
CONSTANTS
    NoFile = nofile
    Lines = {l1, l2}
    NoLine = noline
    Wrapper = wrapper
    Versions = {v1, v2}
    ConcurrentEdits = TRUE
    MaxEdits = 1
    MaxFailures = 0
PROPERTY ReplacedIsBackedUp
CHECK_DEADLOCK FALSE
