CONSTANTS
    a = a
    b = b
    c = c
    u1 = u1
    u2 = u2
    Direct = Direct
    Down = Down
    Stale = Stale
    Urls = {u1}
    Names = {a, b, c}
    Contents <- MCContents
    Refusable = {}
    Bodies <- NumberedBodies
    Own <- NoNodes
    Imports = {}
    Reasons = {"type", "key"}
    Limit = 2
    StaleAfter = 1
    Memory = 2
    MaxEdits = 1
    MaxFailures = 0
SPECIFICATION AllSpec
PROPERTY ActiveServerKept
