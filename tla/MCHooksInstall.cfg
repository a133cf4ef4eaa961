SPECIFICATION Spec
CONSTANTS
    NoFile = nofile
    Lines = {l1, l2}
    NoLine = noline
    Wrapper = wrapper
    Versions = {v1}
    ConcurrentEdits = FALSE
    MaxEdits = 2
    MaxFailures = 2
INVARIANTS WrapperRestorable HooksHaveSecret FailedInstallUndone UninstallRestores
PROPERTY ReplacedIsBackedUp
CHECK_DEADLOCK FALSE
