SPECIFICATION TickingSpec
CONSTANTS
    Modulus = 32
    ISN = 30
    PeerISN = 30
    MSS = 2
    ReceiveCapacity = 2
    SendCapacity = 2
    PeerWindows = {0, 2}
    MaxRetries = 1
    MaxWritten = 3
    MaxPeerBytes = 3
INVARIANTS StreamsArriveInOrder SentIsTrue EndsAreTrue
PROPERTIES ConnectionConcludes WrittenIsSent
CHECK_DEADLOCK FALSE
