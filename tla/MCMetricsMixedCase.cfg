SPECIFICATION Spec
CONSTANTS
    RawId = {"P:0xAa", "P:0xaa"}
    NodeKey <- MixedCase
    Conn = {c1}
    Ip = {i1}
    TcpPort = tcp
    UdpPort = {u1}
    StaticAddr = {}
    LocalAddr = {}
    Lower <- MCLower
    Role = {"provider"}
    AuthMode = {""}
    Service = {"llm", "tts"}
    Frame <- MCFrame
    Protected = FALSE
    PurgeAge = 1
    PruneAge = 0
    OnlineAge = 1
    NoProxy = NoProxy
    NoConn = NoConn
    NoFrame = NoFrame
    NoRow = NoRow
    NoAddr = NoAddr
    NoServices = NoServices
INVARIANT MetricsShowLiveNodes
