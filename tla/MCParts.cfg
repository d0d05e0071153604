SPECIFICATION PartsSpec
CONSTANTS
    Nonce = {n1, n2}
    Stamp = {0, 1, 2, 3}
    Win = 1
    Handler = {h1, h2}
    MaxTime = 5
    Node = {"n1", "n2"}
    Token = {k1, k2, k3}
    TTL = 3
    Grace = 2
    MaxSessionTime = 7
    Source = {s1, s2}
    Call = {c1, c2}
    Limit = 1
    MaxSecond = 2
    MaxSent = 5
    Writer = {w1, w2}
    Stream = {t1, t2}
    RingCap = 2
    ChanCap = 1
    MaxLines = 3
    MaxFiles = 2
    MaxDay = 6
    AdminReq = {r1, r2}
    Setting = {"x", "y"}
    AuthSetting = {"public", "open", "protected"}
    Cards = {"none", "a"}
    EmptyCards = "none"
    MaxPuts = 3
    MaxCrashes = 1
    Part = {"", "0", "00", "10", "1a", "2"}
    EmptyPart = ""
    TextOrder <- PartsByText
    NumberOf <- PartNumbers
    MaxParts = 2
    MaxVersions = 3
    PingSetting = {0, 1, 30, 60, 3600}
    DefaultPing = 5
    MinPing = 1
    MaxPing = 60
    PurgeAfter = 120
    OnlineWithin = 60
    CleanupEvery = 15
    Late = 2
    Top = "top.ian"
    Inc = "inc.ian"
    File = {"top.ian", "inc.ian"}
    Sources <- MCSources
    MaxPlain = 7
    MaxTop = 4
    MaxInc = 2
INVARIANTS TypeOK IndexesAgree RateBounded RefusedForOwnFlood RecentInOrder SendsToOpen StreamComplete LinesKept RestartRestores LatestIsNewest ListStartsWithLatest OnTimeIsAlive GoneInTime FirstMatchRuns CondsLazy InlinedBalanced IncludesAcyclic
PROPERTY OncePerWindow
CHECK_DEADLOCK FALSE
