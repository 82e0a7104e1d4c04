SPECIFICATION SlideSpec
CONSTANTS
    Callers = {c1, c2, c3}
    Keys = {"k1", "k2"}
    opts <- MCopts
    Ours = {"us"}
    Capacity = 1
    Servers = {1, 2}
    WindowSecs = 1
    GraceSecs = 1
    MaxBackoff = 3
    SweepOpts <- MCSweepOpts
    Timeout = 1
    MaxNow = 5
    MaxAsks = 3
    Names = {"a", "b"}
    Hosts = {"a", "b", "d", "p", "t", "u"}
    Form <- MCForm
    WellKnowns <- MCWellKnowns
    Srvs <- MCSrvs
    Tasks = {1}
    MaxChanges = 1
    MaxFaults = 1
    Origins = {1, 2}
    Keys_ = {1, 2}
    OurName = 2
    trusted_servers <- MCTrusted
    Configs <- MCConfigs
    Served <- MCServed
    Tasks_ = {1, 2}
    Wants <- MCWants
    MaxPuts = 1
    Users = {1, 2}
    Locals = {1, 2}
    SELECT_LIMIT = 1
    MaxUpdates = 3
    SlideRooms = {1, 2}
    AskConfigs <- MCAskConfigs
    MaxRows = 3
    MaxSlips = 0
    ListLimit = 1
    SubLimit = 2
    StateKeys = {"me", "topic"}
    MaxEvents = 5
    Limits = {1, 2}
    MaxDropped = 1
    Typers = {1, 2}
    RefreshAfter = 1
    IdleAfter = 2
    OfflineAfter = 3
    TypingFor = 1
    MaxClock = 5
    MaxTyped = 4
    MaxReboots = 1
INVARIANT NeverPastUnsent
CHECK_DEADLOCK FALSE
