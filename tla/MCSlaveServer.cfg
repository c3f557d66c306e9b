CONSTANTS
    c1 = c1
    c2 = c2
    Client = {c1, c2}
    Request <- CoilsRequest
    Fc <- MCFc
    Nb <- MCNb
    OtherLength = 4
    ByteValue = {1, 255}
    Sockets = 3
    Backlog = 1
    MaxAdu = 260
    MaxRequests = 2
    Resets = 1
    Pauses = 1
SPECIFICATION FairSpec
INVARIANTS TypeOK AnswersOwnRequests ListensUntil
PROPERTIES ServesWhileListening RequestsAnswered
CHECK_DEADLOCK FALSE
