CONSTANTS
    wide = wide
    lister = lister
    scopeless = scopeless
    d1 = d1
    d2 = d2
    NoToken = NoToken
    Names <- MCNames
    Blank <- MCBlank
    TrimSpace <- MCTrimSpace
    Delegations = {d1, d2}
    Roots <- WideRoot
    RootScope <- WideRootScope
    Calls <- ChainCalls
    ShippedPolicy <- EmbeddedPolicy
    RequiredScope <- REQUIRED_SCOPES
    WideningIssuer = FALSE
SPECIFICATION Spec
INVARIANTS
    SpanTellsWhatWasIssued
CHECK_DEADLOCK FALSE
