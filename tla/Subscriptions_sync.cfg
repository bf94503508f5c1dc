CONSTANTS
    a = a
    b = b
    c = c
    u1 = u1
    u2 = u2
    Direct = Direct
    Down = Down
    Stale = Stale
    Urls = {u1, u2}
    Names = {a, b, c}
    Contents <- MCContents
    Refusable <- MCRefusable
    Bodies <- MCBodies
    Own <- MCOwn
    Imports <- MCImports
    Reasons = {"type", "key", "field"}
    Limit = 2
    StaleAfter = 1
    Memory = 2
    MaxEdits = 1
    MaxFailures = 1
SPECIFICATION AllSpec
INVARIANTS ListMatchesConfig RunsWhatIsSaved RefreshIsStable ToldOnce
PROPERTIES UserNodesSpared ChoiceFollowsServer
