SPECIFICATION Spec
CONSTANTS
    Sounds <- MCSounds
    BlockSizes = {1, 2, 4}
    Delays = {0, 1, 3}
INVARIANT ReleaseIsWhole
