SPECIFICATION Spec
CONSTANTS
    Tools = {"a", "b"}
    Runtime = "qpy.runtime.status"
    Catalog = "qpy.tools.catalog"
    Patience = 1
    MaxNoise = 1
    Commands <- MCCommands
    Interval <- MCInterval
    Duration = 3
    Target = 1
    Poll = 1
    MaxSamples = 3
    MaxFailures = 2
    CheckpointEvery = 2
INVARIANTS
    BooksMatchFiles
    Spaced
    StopsForAReason
PROPERTIES
    FreshResults
    ProbeEnds
CHECK_DEADLOCK FALSE
