CONSTANTS
    b1 = b1
    b2 = b2
    b3 = b3
    Block = {b1, b2, b3}
    Fc <- MixedFc
    Nb <- MixedNb
    Value = {v0, v1}
    ByteValue = {1, 3}
    BuffSize = 5
    MaxAdu = 256
    Window = 2
    Losses = 1
SPECIFICATION QuietSpec
INVARIANT MessageEnds
PROPERTY ImplementsTransaction
PROPERTY ReadsSucceedAgain
