SPECIFICATION Spec
CONSTANTS
    Req = {r1, r2, r3, r4}
    Path = {"p"}
    Alice = Alice
    Bob = Bob
    Author = {Alice, Bob}
    AuthorOf <- MCAuthorOf
    Version = {1, 2}
    Body = {"b1", "b2"}
    Edit = {e1}
    Price = {"0", "9"}
    Request <- AllRequests
    NoSigner = NoSigner
    NoVersion = NoVersion
    NoRow = NoRow
    NoRequest = NoRequest
INVARIANTS TypeOK AckedPushKept PrivateReadGated PublishedItself LatestIsMaxSerial
CONSTRAINT FourthIsCore
SYMMETRY Symmetry
CHECK_DEADLOCK FALSE
