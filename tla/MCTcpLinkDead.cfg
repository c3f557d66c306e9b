CONSTANTS
    b1 = b1
    b2 = b2
    Block = {b1, b2}
    Value = {v0}
    Shape <- MCShape
    U16 = 3
    Window = 2
    ForeignErrno = {}
SPECIFICATION FairSpec
PROPERTY RecoversOnceReachable
