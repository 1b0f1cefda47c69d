CONSTANTS
    h1 = h1
    h2 = h2
    a1 = a1
    a2 = a2
    Answers <- Lookups
    HostOrder <- NamesInOrder
    Addrs = {a1, a2, a3}
    Static = {a3}
    Requests = {r1, r2}
    Boot = Boot
    NoOne = NoOne
    Garbage = Garbage
    Ttl = 2
    NegativeTtl = 1
    Grace = 2
    MaxTime = 3
SPECIFICATION FairSpec
INVARIANTS
    TypeOK
    ViewCurrent
    ClientFound
PROPERTIES
    TrustRecent
    NoStorm
    WaitersServed
CHECK_DEADLOCK FALSE
