CONSTANTS
    wide = wide
    lister = lister
    scopeless = scopeless
    d1 = d1
    d2 = d2
    NoToken = NoToken
    Names <- MCNames
    Blank <- MCBlank
    TrimSpace <- MCTrimSpace
    Delegations = {d1, d2}
    Roots <- MCRoots
    RootScope <- MCRootScope
    Calls <- AllCalls
    ShippedPolicy <- EmbeddedPolicy
    RequiredScope <- REQUIRED_SCOPES
    WideningIssuer = FALSE
SPECIFICATION Spec
INVARIANTS
    TypeOK
    PerformedWithinRoot
    ExactNarrowing
    AskedWithinHeld
    ReplyIsTruthful
    DeniedOnlyWithoutAuthority
PROPERTIES
    AnswersAreFinal
CHECK_DEADLOCK FALSE
