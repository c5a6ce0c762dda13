CONSTANTS
    Actions = {read, list, write}
    Clients = {coordinator, broker}
    Secrets = {s1, s2}
    None = None
SPECIFICATION Spec
INVARIANTS
    TypeOK
    DoneMeansWorking
PROPERTIES
    RerunIsSafe
    RerunCompletes
