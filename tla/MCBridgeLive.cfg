\* Liveness, without symmetry (unsound with temporal properties): two
\* addresses, one free for new objects, two Proxy slots.
CONSTANTS
    o1 = o1
    o2 = o2
    o3 = o3
    p1 = p1
    p2 = p2
    p3 = p3
    Objects = {o1, o2}
    Proxies = {p1, p2}
    Null = Null
    ModuleOwned = {o1}
    Parent <- MCParent
    MaxGen = 2
    MaxNative = 1
SPECIFICATION Spec

PROPERTY DroppedObjectsFreed
