SPECIFICATION Spec
CONSTANTS
    u1 = u1
    c1 = c1
    User = {u1}
    Conversation = {c1}
    OwnerOf <- OwnerOfAll
    Stream = {s1, s2}
    Message <- TriedMessages
    Caps <- TriedCaps
    MaxMessages = 2
    MessageId = {1, 2, 3, 4}
    PerMilli = 2
    MaxClock = 3
    PageLimit = 1
    NoMessage = NoMessage
    Document <- TriedDocuments
    Budget = {3, 9, 20}
    Quality = {"strong", "weak", "unsupported"}
    Claim <- TriedClaims
    Separator = 1
    MinPassage = 3
    MinInventory = 2
    MaxFound = 3
    MaxClaims = 2
INVARIANTS
    GateCountsStreams HalfAnswersAreStops TruncationReachesTheEnd
    ContextFits CitationsNameTheirSources
PROPERTIES LeavingFreesThePlace
CHECK_DEADLOCK FALSE
