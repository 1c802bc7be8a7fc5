SPECIFICATION Spec
CONSTANTS
    r1 = r1
    r2 = r2
    maxBytes = maxBytes
    watermark = watermark
    writeRate = writeRate
    none = none
    NoValue = none
    Values <- ValuesDef
    inviteCodes = inviteCodes
    a = a
    b = b
    c = c
    unset = unset
    junk = junk
    Keys <- KeysDef
    Base <- BaseDef
    Loaded <- LoadedDef
    Hooks <- HooksDef
    Patches <- PatchesDef
    Request <- TwoRequests
    FailingReads = TRUE
INVARIANTS TypeOK SyncedIsEffective
