\* ifc_read_tag grants the minter only part of the privileges, or another
\* process holds one over the new tag.
CONSTANTS
    p1 = p1
    p2 = p2
    Procs <- MCProcs
    InitProc = p1
    NoProc = NoProc
    MaxTag = 2
    TagCap = 1
    MaxGen = 1
    Dimensions = {"secrecy"}
SPECIFICATION Spec
PROPERTY MintPrivileges
