\* Two changes: the second stop may be taken by the loop the first one stopped.
SPECIFICATION Spec
CONSTANTS
    Changes = {"c1", "c2"}
    Boot = "boot"
    Lifetimes = {4}
    RetryDelay = 1
    MaxChanges = 2
    MaxErrors = 1
INVARIANTS
    StoppedWhileChanging
CHECK_DEADLOCK FALSE
