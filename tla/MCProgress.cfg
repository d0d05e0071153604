SPECIFICATION ProgressSpec
CONSTANTS
    RawId = {"P:0xaa"}
    NodeKey <- Normalised
    Conn = {c1}
    Ip = {i1}
    TcpPort = tcp
    UdpPort = {u1}
    StaticAddr = {}
    LocalAddr = {}
    Lower <- MCLower
    Role = {"provider"}
    AuthMode = {""}
    Service = {"llm", "tts"}
    Frame <- MCFrame
    Protected = FALSE
    PurgeAge = 1
    PruneAge = 0
    OnlineAge = 1
    S = S
    A1 = A1
    A2 = A2
    ControlConn = {S, A1, A2}
    Owner <- Reconnects
    MayStall = {S}
    SendCap = 1
    Nobody = Nobody
    NoProxy = NoProxy
    NoConn = NoConn
    NoFrame = NoFrame
    NoRow = NoRow
    NoAddr = NoAddr
    NoServices = NoServices
INVARIANT TypeOK
PROPERTIES DeadBackendPurged OrphanRowsGo StallIsLocal ClosingReleases
CHECK_DEADLOCK FALSE
