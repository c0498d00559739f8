\* doneWith against the documented quota.
CONSTANTS
    Keys = {k1, k2}
    Callbacks = {c1, c2}
    Sizes = {1, 2}
    sizeQuota = 2
    SizeMod = 16
    MaxRefs = 3
    MaxMisuses = 1
SPECIFICATION SafetySpec
PROPERTY QuotaEnforced
