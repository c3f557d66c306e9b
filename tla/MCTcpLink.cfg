CONSTANTS
    b1 = b1
    b2 = b2
    Block = {b1, b2}
    Value = {v0, v1}
    Shape <- MCShape
    U16 = 3
    Window = 2
    ForeignErrno = {"EBADF", "none"}
SPECIFICATION FairSpec
INVARIANT TypeOK
INVARIANT TidsDistinct
PROPERTY ImplementsTransaction
PROPERTY CallReturns
PROPERTY ReadsSucceedAgain
