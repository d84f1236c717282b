SPECIFICATION Spec
CONSTANTS
    Chunks = 4
    PerBatch = 3
    Retries = 2
    OldSize = 4
INVARIANTS PTypeOK LiveNeverTorn PromiseKept
PROPERTY Terminates
CHECK_DEADLOCK FALSE
