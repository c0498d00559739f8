\* Two keys and two callbacks; objects at and above the quota, so that sums lie below,
\* at and above it, and filled slots take currentSize_ below zero.
CONSTANTS
    Keys = {k1, k2}
    Callbacks = {c1, c2}
    Sizes = {1, 3}
    sizeQuota = 1
    SizeMod = 8
    MaxRefs = 2
    MaxMisuses = 1
SPECIFICATION Spec
INVARIANTS
    TypeOK
    ReferencesProtectEntries
    FreeListIsUnreferenced
    CallbacksCalledOnce
PROPERTIES
    QuotaEnforcedWithoutReservations
    WaiterIsAnswered
