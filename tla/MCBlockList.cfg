CONSTANTS
    U8  = 256
    U16 = 65536
    U32 = 1048576
    Files <- MCFiles
    AddressLengths <- MCLengths
    Garbage <- MCGarbage
SPECIFICATION Spec
INVARIANT TypeOK
INVARIANT RoutedWherePolled
INVARIANT IllegalOnlyInPairs
CHECK_DEADLOCK FALSE
