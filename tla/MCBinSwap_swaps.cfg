\* Swaps, restores, deaths and power losses over two binaries and four inodes.
CONSTANTS
    None = None
    Binary = {b1, b2}
    Factory = b1
    Inode = {i1, i2, i3, i4}
    FirstInode = i1
SYMMETRY Symmetry
SPECIFICATION Spec
INVARIANTS
    TargetTrusted
    RollbackReady
    OkIsDurable
CHECK_DEADLOCK FALSE
