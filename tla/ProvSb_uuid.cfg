CONSTANTS
    b1 = b1
    b2 = b2
    i1 = i1
    i2 = i2
    Sbs <- MCSbs
    Inodes <- MCInodes
    HasUuid = {b1}
    MaxMounts = 3
SPECIFICATION Spec

INVARIANT InodeSbUuid
