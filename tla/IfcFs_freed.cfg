\* The target exits between context_from_pid and the add or the copy.
CONSTANTS
    p1 = p1
    p2 = p2
    Procs <- MCProcs
    InitProc = p1
    NoProc = NoProc
    MaxTag = 2
    TagCap = 1
    MaxGen = 1
    Dimensions = {"secrecy"}
SPECIFICATION Spec
INVARIANT NoFreedContextUse
