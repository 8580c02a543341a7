\* A file hook on an inode that has no node yet.
CONSTANTS
    t1 = t1
    t2 = t2
    i1 = i1
    i2 = i2
    s1 = s1
    s2 = s2
    s3 = s3
    Threads = {t1}
    Inodes = {i1, i2}
    Slots = {s1, s2}
    PrivateInodes = {}
    Labelled = {i1}
    MissingAtInit = {i1}
    MaxCalls = 3
    NULL = NULL
SPECIFICATION Spec
INVARIANT NoNullDeref
