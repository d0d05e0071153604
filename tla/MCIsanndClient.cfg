SPECIFICATION FairSpec
CONSTANTS
    Proc = {beat, other}
    Beat = beat
    Sock = {s1, s2, s3}
    Id = {n1, n2}
    BeatId = n1
    MaxFaults = 2
    MaxConnects = 1
    NoProc = NoProc
    NoSock = NoSock
    NoId = NoId
    NoFrame = NoFrame
INVARIANTS TypeOK NoSocketLeak FramesFollowHello
PROPERTY Recovers
