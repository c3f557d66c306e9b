CONSTANTS
    b1 = b1
    b2 = b2
    b3 = b3
    Block = {b1, b2}
    Fc <- MCFc
    Nb <- OneBit
    Value = {v0}
    ByteValue = {1, 255}
    BuffSize = 7
    MaxAdu = 256
    Window = 1
    Losses = 1
SPECIFICATION Spec
INVARIANT TypeOK
PROPERTY AnswersOwnBlock
