\* CHECK_DEADLOCK FALSE: a search, a merge and a check end
SPECIFICATION AllSpec
CONSTANTS
    s1 = s1
    Servers = {s1}
    Bypass = Bypass
    Direct = Direct
    Absent = Absent
    Partial = Partial
    Docs <- MCDocs
    Foreigns <- MCForeigns
    Keep = 2
    MaxClock = 2
    MaxFailures = 1
    MaxForeign = 1
    None = none
    Own = own
    a = a
    b = b
    c = c
    g = g
    s = s
    x = x
    y = y
    Tags = {a, b, c}
    Nodes = {a, b, c}
    Outbounds <- MCOutbounds
    Routes <- MCRoutes
    Clients <- MCClients
    Others <- MCOthers
    Incomings <- MCIncomings
    Arounds <- MCArounds
    Sections <- MCSections
    Params = {1}
    Values = {x, y}
    Empty = empty
    Hidden = hidden
    MaxEdits = 1
    MaxRefreshes = 1
    Requests = {r1, r2}
    Asked = {"config", "vpn", "sub-update", "sub-remove"}
    Missing = {}
    Subs = {sub}
    NoSub = NoSub
    MaxPending = 2
    MaxSessions = 2
    CodeLife = 1
    IdleLife = 1
    SessionLife = 2
    MaxCodes = 3
    MaxLogins = 3
    Tray = tray
    Nobody = nobody
INVARIANTS WayBack RingsAreFound SavesWhatStarts GoodNodesAreSaved LoginLinks LookupHolds
PROPERTIES BypassIsServed SecretStays
CHECK_DEADLOCK FALSE
