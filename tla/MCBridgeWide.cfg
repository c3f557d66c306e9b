CONSTANTS
    U8  = 8
    U16 = 16
    U32 = 32
    Value = {0}
    Zero = 0
    TableSize <- WideTableSize
    DeviceSize = 1
    DeviceInit <- MCDeviceInit
    DeviceStates <- MCDeviceStates
    Blocks <- WideBlocks
    Requests <- ReadRequests
    CoilData = {0}
    MaxReadBits = 4
    MaxReadRegisters = 2
    MaxWriteBits = 4
    MaxWriteRegisters = 2
    MaxRwWriteRegisters = 2
    PoolInit = 1
    PoolGrow = 1
    PoolMax = 1
    HeapSize = 2
SPECIFICATION FairSpec
PROPERTY PollingRecurs
