SPECIFICATION Spec
CONSTANTS
    RawId = {"P:0xaa", "C:0xbb"}
    NodeKey <- MCNodeKey
    Conn = {c1, c2}
    Ip = {i1, i2}
    TcpPort = tcp
    UdpPort = {u1}
    StaticAddr = {s1}
    LocalAddr = {l1}
    Lower <- MCLower
    Role = {"provider"}
    AuthMode = {"", "public"}
    Service = {}
    Frame <- MCFrame
    Home = i2
    Protected = FALSE
    PurgeAge = 0
    PruneAge = 0
    OnlineAge = 1
    NoProxy = NoProxy
    NoConn = NoConn
    NoFrame = NoFrame
    NoRow = NoRow
    NoAddr = NoAddr
    NoServices = NoServices
    Unlisted = Unlisted
INVARIANTS ConnsReachable AddrOwned RepliesOwned
CONSTRAINT ConsumerAtHome
SYMMETRY Symmetry
PROPERTY ImplementsDirectory
