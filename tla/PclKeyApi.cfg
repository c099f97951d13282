CONSTANTS
    t1 = t1
    t2 = t2
    rShared = rShared
    rLocal = rLocal
    rFile = rFile
    Threads <- OneThread
    Res <- MCRes
    Config <- MCConfig
    Unknown = Unknown
    Vals = {v1, v2}
    NoVal = NoVal
    Callbacks = {cbA, cbB}
    NULL = NULL
    MaxKeyValDataSize = 1
    MaxHandles = 1
    ShutdownMaxCount = 1
    ShutdownModes = {0, 1, 2}
SPECIFICATION Spec
INVARIANT TypeOK UnsupervisedWritesSurvive OneCallbackPerProcess
PROPERTY ImplementsWriteBackStore
