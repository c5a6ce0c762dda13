-------------------------------- MODULE Chain --------------------------------
(***************************************************************************)
(* A delegation chain through the derivation library.  The holder of a     *)
(* scope set delegates a capability; the next holder has what Derive kept  *)
(* and may delegate onward.  Every hop states its true depth, as the       *)
(* comment on DelegationContext.Depth asks, and presents what it holds.    *)
(***************************************************************************)
EXTENDS Derivation

CONSTANTS Policies,   \* the policies considered
          Holdings    \* the scope sets a chain may start from

ASSUME ChainAssumption ==
    /\ \A p \in Policies : IsPolicy(p)
    /\ \A h \in Holdings : h \subseteq Names /\ h # {}

VARIABLES policy,   \* the policy the broker was started with
          held,     \* what the current holder's token carries
          hops      \* delegations made so far

vars == <<policy, held, hops>>

Context(capability, depth, available) ==
    [capability |-> capability, depth |-> depth, available |-> available]

\* LoadPolicy admits only a policy Validate accepts.
Init ==
    /\ policy \in {p \in Policies : Valid(p)}
    /\ held \in Holdings
    /\ hops = 0

\* Mutant: the depth counts hops left instead of hops made.
DelegateCountingDown(capability) ==
    LET ctx == Context(capability, hops, held)
    IN  /\ DeriveError(ctx, policy) = "nil"
        /\ held' = Derived(ctx, policy)
        /\ hops' = hops - 1
        /\ UNCHANGED policy

\* One delegation that Derive does not refuse.  A refusal changes nothing.
Delegate(capability) ==
    LET ctx == Context(capability, hops, held)
    IN  /\ DeriveError(ctx, policy) = "nil"
        /\ held' = Derived(ctx, policy)
        /\ hops' = hops + 1
        /\ UNCHANGED policy

Next == \E capability \in Names : Delegate(capability)

Spec == Init /\ [][Next]_vars

-----------------------------------------------------------------------------
TypeOK ==
    /\ policy \in Policies
    /\ held \in SUBSET Names
    /\ hops \in Nat

\* Derive's documentation (derive.go:87): for the same capability and the same
\* available scopes a greater depth only ever returns a subset, and once a
\* depth is refused every greater depth is.
MonotonicInDepth ==
    \A capability \in Names, deeper \in 0 .. hops + 1 :
      \A shallower \in 0 .. deeper :
        Derived(Context(capability, deeper, held), policy)
          \subseteq Derived(Context(capability, shallower, held), policy)

\* What stops a chain from regaining authority it shed (derive.go:89-90): a
\* scope missing at one hop is missing at every later one, whichever
\* capabilities the later hops name.  The library trims what it is given, so a
\* padded spelling counts as the scope it names.
ShedScopesStayShed == [][held' \subseteq NewScopeSet(held)]_vars

\* A chain that states its depth truthfully ends: it is never longer than the
\* largest ceiling of the policy's capabilities (policy.go:128).
ChainIsBounded ==
    hops > 0 => \E name \in DOMAIN policy.capabilities :
                    hops <= DepthCeiling(policy, policy.capabilities[name])

\* The keys and rule names of a policy carry no surrounding blanks.
Trimmed(p) ==
    \A name \in DOMAIN p.capabilities :
        /\ TrimSpace[name] = name
        /\ \A rule \in p.capabilities[name].scopes : TrimSpace[rule.name] = rule.name

\* Validate rejects a policy that could not narrow anything meaningfully
\* (policy.go:98).  When its names are trimmed, each capability of an accepted
\* policy serves a direct call by a caller holding one of its scopes: no
\* ceiling or per-scope limit makes the capability dead from the start.
AcceptedPolicyServesDirectCalls ==
    (Trimmed(policy) /\ hops = 0) =>
        \A name \in DOMAIN policy.capabilities :
            (\E rule \in policy.capabilities[name].scopes : rule.name \in held) =>
                DeriveError(Context(name, 0, held), policy) = "nil"
=============================================================================
