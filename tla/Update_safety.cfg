CONSTANTS
    Versions <- MCVersions
    Libs <- MCLibs
    Carries <- MCCarries
    cronet = cronet
    other = other
    absent = absent
    partial = partial
    MaxFailures = 2
    MaxBadStarts = 1
    MaxCrashes = 1
    MaxVersion = 3
    MaxEnds = 2
    Carriers = {carrier}
    Installers = {installer}
    Bins = {singbox}
    DataFiles = {rules}
    Entries = {archive}
    Config = config
    MaxDeaths = 1
    MaxTaskOps = 1
SPECIFICATION AllSpec
INVARIANTS ExeSurvives TakenWhole TaskFollows
PROPERTIES UpdateIsExact OldRunsNewRuns NewBinaryNewLibs
