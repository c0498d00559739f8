\* Up to five nodes; addresses are interchangeable.
CONSTANTS
    Nodes = {n1, n2, n3, n4, n5}
    Sentinel = Sentinel
    NULL = NULL
SPECIFICATION FIFOSpec
SYMMETRY Symmetry
INVARIANTS
    LinksSpellQueue
    AllocatedAreQueued
