CONSTANTS
    m1 = m1
    m2 = m2
    s1 = s1
    c1 = c1
    c2 = c2
    c3 = c3
    h1 = h1
    h2 = h2
    h3 = h3
    Mappings <- MCMappings
    Servers <- MCServers
    ServerOf <- MCServerOf
    Conns = {c1, c2}
    Holders = {h1, h2}
    None = None
    MaxGeneration = 1
    MaxVersion = 1
SPECIFICATION Spec
SYMMETRY Symmetry
INVARIANTS
    TypeOK
    LeaseExclusive
    LeaseOpen
    BusyIffLeased
    NoLeak
    ServerOptionsFresh
PROPERTIES
    ImplementsExclusiveLease
    FreshHandout
