\* The control plane under racing user buffers, forks and exits; one tag
\* is enough for a rewritten msg->tag to turn invalid.
CONSTANTS
    p1 = p1
    p2 = p2
    Procs <- MCProcs
    InitProc = p1
    NoProc = NoProc
    MaxTag = 1
    TagCap = 1
    MaxGen = 1
    Dimensions = {"secrecy"}
SPECIFICATION Spec
INVARIANT TypeOK
INVARIANT NoInvalidTag
PROPERTY ProcessWriteKeepsLabels
