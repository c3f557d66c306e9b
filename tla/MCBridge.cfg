CONSTANTS
    U8  = 8
    U16 = 16
    U32 = 32
    Value = {0, 1}
    Zero = 0
    TableSize <- MCTableSize
    DeviceSize = 5
    DeviceInit <- MCDeviceInit
    DeviceStates <- MCDeviceStates
    Blocks <- MCBlocks
    Requests <- MCRequests
    CoilData = {0, 1}
    MaxReadBits = 4
    MaxReadRegisters = 2
    MaxWriteBits = 4
    MaxWriteRegisters = 2
    MaxRwWriteRegisters = 2
    PoolInit = 2
    PoolGrow = 1
    PoolMax = 3
    HeapSize = 3
SPECIFICATION Spec
INVARIANT TypeOK
INVARIANT MutexInv
INVARIANT PoolInv
INVARIANT BuffersAllocated
INVARIANT RefusedWritesHarmless
PROPERTY ImplementsService
