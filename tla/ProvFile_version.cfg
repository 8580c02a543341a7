\* Two threads run file_ioctl on one inode: the version bump is a load and a store.
CONSTANTS
    t1 = t1
    t2 = t2
    i1 = i1
    i2 = i2
    s1 = s1
    s2 = s2
    s3 = s3
    Threads = {t1, t2}
    Inodes = {i1}
    Slots = {s1, s2}
    PrivateInodes = {}
    Labelled = {i1}
    MissingAtInit = {i1}
    MaxCalls = 3
    NULL = NULL
SPECIFICATION Spec
PROPERTY VersionMonotone
