CONSTANTS
    Procs = {p1, p2}
    Kids = {k1, k2}
    NoKid = NoKid
    TTL = 3
    Debounce = 2
    FetchTimeout = 0
SPECIFICATION Spec
PROPERTIES
    PublishedKidIsNoError
