CONSTANTS
    Versions <- MCVersions
    Libs <- MCLibs
    Carries <- MCCarries
    cronet = cronet
    other = other
    absent = absent
    partial = partial
    MaxFailures = 0
    MaxBadStarts = 0
    MaxCrashes = 0
    MaxVersion = 3
    MaxEnds = 0
    Carriers = {carrier}
    Installers = {installer}
    Bins = {singbox}
    DataFiles = {rules}
    Entries = {archive}
    Config = config
    MaxDeaths = 0
    MaxTaskOps = 0
SPECIFICATION AllSpec
PROPERTY NeverLeavesDown
