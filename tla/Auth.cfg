SPECIFICATION Spec
SYMMETRY Symmetry
CONSTANTS
    Nought = Nought
    OUsers = {ou}
    Metadata <- MCMetadata
    Uris <- MCUris
    Allowlist <- MCAllowlist
    RequireClientUri = TRUE
    RequireApproval = TRUE
    RequireDevice = FALSE
    NativeAuth = TRUE
    Scopes <- MCScopes
    ReqIds = {q1}
    Idps = {i1, i2}
    Grants = {g1}
    LoginTokens = {l1, l2}
    Tabs = {t1, t2}
    MaxVerifyAttempts = 1
    MaxRefresh = 2
    NoRow = NoRow
    RUsers = {ru1, ru2}
    Sids = {s1}
    Uiaa = {x1, x2}
    RTokens = {k1}
    RegRequests = {r1, r2}
    MaxVerify = 2
    MaxUses = 2
    MaxMints = 2
    Required = {"token", "email"}
    NoBucket = NoBucket
    LKeys = {a1, a2}
    Cost = 2
    Burst = 2
    Cap = 1
    MaxTicks = 5
    MaxInFlight = 2
    NoBox = NoBox
    Boxes = {b1, b2}
    Payloads = {p1, p2}
    BoxWriters = {w1, w2}
    MaxBoxes = 1
    MaxClock = 2
    MaxPuts = 3
CHECK_DEADLOCK FALSE
INVARIANTS
    GrantsSound
    SpentWithinLimits
    
