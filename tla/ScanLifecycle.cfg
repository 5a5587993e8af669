CONSTANTS
    m1 = m1
    s1 = s1
    c1 = c1
    c2 = c2
    c3 = c3
    h1 = h1
    h2 = h2
    h3 = h3
    Mappings = {m1}
    Servers = {s1}
    ServerOf <- MCServerOf
    Conns = {c1, c2}
    Holders = {h1, h2, h3}
    TextHolders = {h3}
    InsertHolders = {h2}
    LateHolders = {h2, h3}
    None = None
    MaxGeneration = 1
    MaxVersion = 0
    MaxWire = 2
SPECIFICATION LifeSpec
SYMMETRY Symmetry
INVARIANTS
    OneHolderInFlight
    ResponseUnderLease
    NoUseAfterCloseButLate
