CONSTANTS
    u1 = u1
    u2 = u2
    k1 = k1
    k2 = k2
    k3 = k3
    n1 = n1
    n2 = n2
    n3 = n3
    n4 = n4
    n5 = n5
    n6 = n6
    Tasks <- MCTasks
    Opaque = {u2}
    Socks <- MCSocks
    Slots <- MCSlots
    MaxCalls = 6
    NULL = NULL
SPECIFICATION Spec
INVARIANT TypeOK
PROPERTY RefinesGraph
