CONSTANTS
    Names <- MCNames
    Blank <- MCBlank
    TrimSpace <- MCTrimSpace
    Policies <- MCPolicies
    Holdings <- MCHoldings
SPECIFICATION Spec
INVARIANTS
    TypeOK
    MonotonicInDepth
    ChainIsBounded
    AcceptedPolicyServesDirectCalls
PROPERTIES
    ShedScopesStayShed
CHECK_DEADLOCK FALSE
