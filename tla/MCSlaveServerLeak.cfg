CONSTANTS
    c1 = c1
    c2 = c2
    Client = {c1, c2}
    Request <- KnownRequest
    Fc <- MCFc
    Nb <- MCNb
    OtherLength = 4
    ByteValue = {1}
    Sockets = 2
    Backlog = 2
    MaxAdu = 260
    MaxRequests = 1
    Resets = 0
    Pauses = 0
SPECIFICATION FairSpec
PROPERTY ServesNext
CHECK_DEADLOCK FALSE
