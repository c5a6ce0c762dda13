CONSTANTS
    Procs = {p1, p2}
    Kids = {k1, k2}
    NoKid = NoKid
    TTL = 3
    Debounce = 2
    FetchTimeout = 1
SPECIFICATION BurstSpec
PROPERTIES
    BurstCausesOneFetch
