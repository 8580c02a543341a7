\* An executable whose inode carries no node is executed.
\* An executable whose inode carries no node is executed.
CONSTANTS
    t1 = t1
    t2 = t2
    c1 = c1
    c2 = c2
    c3 = c3
    m1 = m1
    s1 = s1
    n1 = n1
    n2 = n2
    n3 = n3
    n4 = n4
    f1 = f1
    Tasks <- MCTasks
    InitTask = t1
    Creds <- MCCreds
    Msgs = {m1}
    Shms = {s1}
    NodeSlots <- MCSlots
    Files = {f1}
    MissingFiles = {f1}
    IfcStates = {"plain", "labelled"}
    MaxCalls = 6
    NULL = NULL
SPECIFICATION Spec
PROPERTY RefinesGraph
