SPECIFICATION Spec
CONSTANTS
    Stale = 170
    Scripts <- MCScripts
    Builds <- MCBuilds
    DefaultLength = 16
    MaxGrowth = 4
    MessageMaxSize = 90
    Chunks = {1, 7}
INVARIANTS
    Understood
PROPERTIES
    ArrivesIfFits
    GivenBack
