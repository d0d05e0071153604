SPECIFICATION Spec
CONSTANTS
    RawId = {"P:0xAa", "P:0xaa", "B:0xbb"}
    NodeKey <- MCNodeKey
    Conn = {c1}
    Ip = {i1}
    TcpPort = tcp
    UdpPort = {}
    StaticAddr = {}
    LocalAddr = {}
    Lower <- MCLower
    Role = {"Provider", "station", "broker", "consumer", ""}
    AuthMode = {"", "PUBLIC", "public", "protected"}
    Service = {"llm"}
    Frame <- MCFrame
    Protected = TRUE
    PurgeAge = 1
    PruneAge = 0
    OnlineAge = 1
    NoProxy = NoProxy
    NoConn = NoConn
    NoFrame = NoFrame
    NoRow = NoRow
    NoAddr = NoAddr
    NoServices = NoServices
    Unlisted = Unlisted
INVARIANT CountersMatch
CONSTRAINT ServicesAlone
PROPERTY ImplementsDirectory
