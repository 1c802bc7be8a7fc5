SPECIFICATION Spec
CONSTANTS
    k1 = k1
    k2 = k2
    Device = {d1, d2}
    Keys = {k1, k2}
    Batches <- MCBatches
    MaxPushItems = 2
    PageLimit = 1
    Retention = 1
    MaxNow = 4
    MaxPushToken = 2
    NoDevice = NoDevice
SYMMETRY DeviceSymmetry
INVARIANTS
    TypeOK
    SeqOrder
    UnracedDeviceComplete
    DroppedDeletionsForceResync
PROPERTIES
    ImplementsLog
