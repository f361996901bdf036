\* Safety: three addresses, two of them free for new objects, two Proxy
\* slots, two objects per address, one native reference per object.
CONSTANTS
    o1 = o1
    o2 = o2
    o3 = o3
    p1 = p1
    p2 = p2
    p3 = p3
    Objects = {o1, o2, o3}
    Proxies = {p1, p2}
    Null = Null
    ModuleOwned = {o1}
    Parent <- MCParent
    MaxGen = 2
    MaxNative = 1
SPECIFICATION Spec
SYMMETRY Symm
INVARIANT TypeOK
 
INVARIANT RegistryIsInverse
 
