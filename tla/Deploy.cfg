SPECIFICATION Spec
CONSTANTS
    config = config
    main = main
    app = app
    usr = usr
    Files <- MCFiles
    DirOf <- MCDirOf
    Entries <- MCEntries
    Config = config
    SameSize = {main}
    MaxRuns = 2
    Doubtful = {main}
INVARIANTS NeverLoses OkMeansDeployed
PROPERTY NeverStartsMixture
CHECK_DEADLOCK FALSE
