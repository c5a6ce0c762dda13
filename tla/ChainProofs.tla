----------------------------- MODULE ChainProofs -----------------------------
(***************************************************************************)
(* What Derive guarantees for every policy and every context, and from it  *)
(* what holds along every chain.  A policy is anything IsPolicy admits;    *)
(* only ValidPolicyServes needs Validate.                                  *)
(***************************************************************************)
EXTENDS Chain, TLAPS

\* derive.go:46-49: the broker never asks for more than the caller was given.
\* An empty Available is excluded: then nothing is intersected.
THEOREM DerivedIsHeld ==
    ASSUME NEW ctx, NEW p, ctx.available # {}
    PROVE  Derived(ctx, p) \subseteq NewScopeSet(ctx.available)
BY DEF Derived, Kept, Survivors, Unavailable

\* Derive returns a scope set exactly when it returns no error: there is no
\* success with nothing in it, and no refusal that leaks scopes.
THEOREM NothingOrAnError ==
    ASSUME NEW ctx, NEW p
    PROVE  Derived(ctx, p) # {} <=> DeriveError(ctx, p) = "nil"
BY DEF Derived, DeriveError

\* A context that a chain of delegations could present after another one: the
\* same capability, at least as deep, holding no more.  The narrower holding is
\* not empty, because an empty one would switch the intersection off.
Beyond(later, earlier) ==
    /\ later.capability = earlier.capability
    /\ earlier.depth \in Int /\ later.depth \in Int
    /\ earlier.depth >= 0
    /\ earlier.depth <= later.depth
    /\ later.available # {}
    /\ later.available \subseteq earlier.available

LEMMA CeilingType ==
    ASSUME NEW p, IsPolicy(p), NEW name \in DOMAIN p.capabilities
    PROVE  /\ p.capabilities[name] \in Capability
           /\ DepthCeiling(p, p.capabilities[name]) \in Int
           /\ DepthCeiling(p, p.capabilities[name]) > 0
<1>1. p.capabilities[name] \in Capability
  BY DEF IsPolicy, PolicyWith
<1>2. p.maxDepth \in Int
  BY DEF IsPolicy, PolicyWith
<1> QED
  BY <1>1, <1>2 DEF Capability, DepthCeiling, DefaultMaxDepth

LEMMA SurvivorsShrink ==
    ASSUME NEW p, IsPolicy(p), NEW later, NEW earlier, Beyond(later, earlier),
           TrimSpace[later.capability] \in DOMAIN p.capabilities
    PROVE  Survivors(later, p) \subseteq Survivors(earlier, p)
<1>1. Named(later, p) = Named(earlier, p) /\ Named(later, p) \in Capability
  BY CeilingType DEF Beyond, Named
<1> SUFFICES ASSUME NEW rule \in Survivors(later, p)
             PROVE  rule \in Survivors(earlier, p)
  OBVIOUS
<1>2. rule \in Named(later, p).scopes /\ rule.maxDepth \in Int
  BY <1>1 DEF Survivors, Capability, ScopeRule
<1>3. ~BeyondDepth(rule, earlier.depth)
  BY <1>2 DEF Survivors, BeyondDepth, Beyond
<1>4. NewScopeSet(later.available) \subseteq NewScopeSet(earlier.available)
  BY DEF Beyond, NewScopeSet
<1>5. ~Unavailable(rule, earlier.available)
  BY <1>4 DEF Survivors, Unavailable, Beyond
<1> QED
  BY <1>1, <1>2, <1>3, <1>5 DEF Survivors

\* property P2 of property_test.go, and more: going deeper or holding less, or
\* both, only ever removes scopes, and what is refused once stays refused.
THEOREM DerivationIsMonotonic ==
    ASSUME NEW p, IsPolicy(p), NEW later, NEW earlier, Beyond(later, earlier)
    PROVE  Derived(later, p) \subseteq Derived(earlier, p)
<1> SUFFICES ASSUME DeriveError(later, p) = "nil"
             PROVE  Kept(later, p) \subseteq Kept(earlier, p)
                    /\ DeriveError(earlier, p) = "nil"
  BY DEF Derived
<1>1. /\ TrimSpace[later.capability] \in DOMAIN p.capabilities
      /\ ~(later.depth >= DepthCeiling(p, Named(later, p)))
      /\ Kept(later, p) # {}
  BY DEF DeriveError
<1>2. Kept(later, p) \subseteq Kept(earlier, p)
  BY <1>1, SurvivorsShrink DEF Kept
<1>3. Named(later, p) = Named(earlier, p)
  BY DEF Beyond, Named
<1>4. ~(earlier.depth >= DepthCeiling(p, Named(earlier, p)))
  BY <1>1, <1>3, CeilingType DEF Beyond, Named
<1>5. DeriveError(earlier, p) = "nil"
  BY <1>1, <1>2, <1>4 DEF DeriveError, Beyond
<1> QED
  BY <1>2, <1>5

\* A chain of hops for one capability comes to what one derivation at its last
\* depth gives: hops in between take nothing away that depth would not, so long
\* as they leave something (with nothing left the intersection is switched off).
THEOREM HopsCompose ==
    ASSUME NEW p, IsPolicy(p), NEW name \in Names,
           NEW available \in SUBSET Names, available # {},
           NEW near \in Nat, NEW far \in Nat, near <= far,
           Derived(Context(name, near, available), p) # {}
    PROVE  Derived(Context(name, far, Derived(Context(name, near, available), p)), p)
             = Derived(Context(name, far, available), p)
<1> DEFINE first  == Context(name, near, available)
           passed == Derived(first, p)
           second == Context(name, far, passed)
           direct == Context(name, far, available)
<1>1. /\ first.capability = name /\ first.depth = near /\ first.available = available
      /\ second.capability = name /\ second.depth = far /\ second.available = passed
      /\ direct.capability = name /\ direct.depth = far /\ direct.available = available
      /\ passed # {}
  BY DEF Context
<1> HIDE DEF first, second, direct
<1>2. /\ passed = Kept(first, p) /\ TrimSpace[name] \in DOMAIN p.capabilities
  BY <1>1 DEF Derived, DeriveError
<1>3. /\ Named(first, p) = Named(direct, p) /\ Named(second, p) = Named(direct, p)
      /\ \A rule \in Named(direct, p).scopes : rule.maxDepth \in Int
  BY <1>1, <1>2, CeilingType DEF Named, Capability, ScopeRule
<1>4. passed \subseteq NewScopeSet(available)
  BY <1>1, DerivedIsHeld
<1>5. NewScopeSet(passed) = passed
  BY <1>4, NamesAssumption DEF NewScopeSet
<1>6. Survivors(second, p) = Survivors(direct, p)
  <2>1. ASSUME NEW rule \in Named(direct, p).scopes, ~BeyondDepth(rule, far)
        PROVE  Unavailable(rule, passed) <=> Unavailable(rule, available)
    <3>1. ~BeyondDepth(rule, near)
      BY <1>3, <2>1 DEF BeyondDepth
    <3>2. rule.name \in NewScopeSet(available) => rule.name \in passed
      BY <1>1, <1>2, <1>3, <3>1 DEF Kept, Survivors, Unavailable
    <3> QED
      BY <1>1, <1>4, <1>5, <3>2 DEF Unavailable
  <2> QED
    BY <1>1, <1>3, <2>1 DEF Survivors
<1>7. Kept(second, p) = Kept(direct, p) /\ DeriveError(second, p) = DeriveError(direct, p)
  BY <1>1, <1>3, <1>6 DEF Kept, DeriveError
<1>8. Derived(second, p) = Derived(direct, p)
  BY <1>7 DEF Derived
<1> QED
  BY <1>8 DEF first, second, direct

\* derive_test.go and proxy.go:130: with an empty Available the library keeps
\* every declared scope within its depth.  The broker's guard exists for this.
THEOREM EmptyAvailableKeepsDeclared ==
    ASSUME NEW ctx, NEW p, ctx.available = {}, DeriveError(ctx, p) = "nil"
    PROVE  Derived(ctx, p) =
             {rule.name : rule \in {r \in Named(ctx, p).scopes : ~BeyondDepth(r, ctx.depth)}}
BY DEF Derived, Kept, Survivors, Unavailable

\* policy.go:98: a direct call of any capability of an accepted policy succeeds
\* for a caller that holds one of its scopes, if the policy's names are trimmed.
THEOREM ValidPolicyServes ==
    ASSUME NEW p, IsPolicy(p), Valid(p),
           NEW name \in DOMAIN p.capabilities, TrimSpace[name] = name,
           NEW rule \in p.capabilities[name].scopes,
           TrimSpace[rule.name] = rule.name,
           NEW available, rule.name \in available
    PROVE  DeriveError([capability |-> name, depth |-> 0, available |-> available], p) = "nil"
<1> DEFINE ctx == [capability |-> name, depth |-> 0, available |-> available]
<1>1. /\ Named(ctx, p) = p.capabilities[name]
      /\ ctx.depth = 0 /\ ctx.available = available /\ ctx.capability = name
  BY DEF Named
<1>2. rule.name # Blank /\ rule.maxDepth \in Int
  BY CeilingType DEF Valid, Capability, ScopeRule
<1>3. ~BeyondDepth(rule, 0)
  BY <1>2 DEF BeyondDepth
<1>4. rule.name \in NewScopeSet(available)
  BY <1>2 DEF NewScopeSet
<1>5. rule \in Survivors(ctx, p)
  BY <1>1, <1>3, <1>4 DEF Survivors, Unavailable
<1>6. rule.name \in Kept(ctx, p)
  BY <1>5 DEF Kept
<1>7. ~(ctx.depth >= DepthCeiling(p, Named(ctx, p)))
  BY <1>1, CeilingType
<1> QED
  BY <1>1, <1>6, <1>7 DEF DeriveError

-----------------------------------------------------------------------------
(* Chains. *)

\* The policy a chain runs under was accepted, and its holder always holds
\* something: an empty holding would switch Derive's intersection off.
ChainInv ==
    /\ TypeOK
    /\ Valid(policy)
    /\ held # {}
    /\ ChainIsBounded

LEMMA DelegateFacts ==
    ASSUME ChainInv, NEW capability \in Names, Delegate(capability)
    PROVE  /\ held' \subseteq NewScopeSet(held)
           /\ held' # {}
           /\ held' \subseteq Names
           /\ policy' = policy
           /\ hops' = hops + 1
           /\ TrimSpace[capability] \in DOMAIN policy.capabilities
           /\ hops < DepthCeiling(policy, policy.capabilities[TrimSpace[capability]])
<1> DEFINE ctx == Context(capability, hops, held)
<1>1. /\ ctx.capability = capability /\ ctx.depth = hops /\ ctx.available = held
      /\ DeriveError(ctx, policy) = "nil"
      /\ held' = Derived(ctx, policy) /\ hops' = hops + 1 /\ policy' = policy
  BY DEF Delegate, Context
<1> HIDE DEF ctx
<1>2. held' # {} /\ held' \subseteq NewScopeSet(held)
  BY <1>1, NothingOrAnError, DerivedIsHeld DEF ChainInv
<1>3. /\ TrimSpace[capability] \in DOMAIN policy.capabilities
      /\ ~(hops >= DepthCeiling(policy, policy.capabilities[TrimSpace[capability]]))
  BY <1>1 DEF DeriveError, Named
<1>4. DepthCeiling(policy, policy.capabilities[TrimSpace[capability]]) \in Int
  BY <1>3, CeilingType, ChainAssumption DEF ChainInv, TypeOK
<1>5. held' \subseteq Names
  BY <1>2, NamesAssumption DEF NewScopeSet, ChainInv, TypeOK
<1> QED
  BY <1>1, <1>2, <1>3, <1>4, <1>5 DEF ChainInv, TypeOK

LEMMA ChainInvHolds == Spec => []ChainInv
<1>1. Init => ChainInv
  BY ChainAssumption DEF Init, ChainInv, TypeOK, ChainIsBounded
<1>2. ChainInv /\ [Next]_vars => ChainInv'
  <2> SUFFICES ASSUME ChainInv, [Next]_vars PROVE ChainInv'
    OBVIOUS
  <2>1. ASSUME NEW capability \in Names, Delegate(capability) PROVE ChainInv'
    <3>1. TypeOK' /\ Valid(policy)' /\ held' # {}
      BY <2>1, DelegateFacts DEF ChainInv, TypeOK
    <3>2. DepthCeiling(policy, policy.capabilities[TrimSpace[capability]]) \in Int
      BY <2>1, DelegateFacts, CeilingType, ChainAssumption DEF ChainInv, TypeOK
    <3>3. ChainIsBounded'
      BY <2>1, <3>2, DelegateFacts DEF ChainInv, TypeOK, ChainIsBounded
    <3> QED
      BY <3>1, <3>3 DEF ChainInv
  <2>2. CASE UNCHANGED vars
    BY <2>2 DEF ChainInv, TypeOK, ChainIsBounded, vars
  <2> QED
    BY <2>1, <2>2 DEF Next
<1> QED
  BY <1>1, <1>2, PTL DEF Spec

\* A chain is well typed.
THEOREM ChainTypeOK == Spec => []TypeOK
<1>1. ChainInv => TypeOK
  BY DEF ChainInv
<1> QED
  BY <1>1, ChainInvHolds, PTL

\* No chain that states its depth is longer than the policy's largest ceiling.
THEOREM ChainsEnd == Spec => []ChainIsBounded
<1>1. ChainInv => ChainIsBounded
  BY DEF ChainInv
<1> QED
  BY <1>1, ChainInvHolds, PTL

\* Whatever the policy, a scope shed at one hop is never held again.
THEOREM ChainsOnlyShed == Spec => ShedScopesStayShed
<1>1. ChainInv /\ [Next]_vars => [held' \subseteq NewScopeSet(held)]_vars
  BY DelegateFacts DEF Next
<1> QED
  BY <1>1, ChainInvHolds, PTL DEF Spec, ShedScopesStayShed

\* property P2 along every chain, for every capability and pair of depths.
THEOREM ChainsAreMonotonic == Spec => []MonotonicInDepth
<1>1. ChainInv => MonotonicInDepth
  <2> SUFFICES ASSUME ChainInv, NEW capability \in Names,
                      NEW deeper \in 0 .. hops + 1, NEW shallower \in 0 .. deeper
               PROVE  Derived(Context(capability, deeper, held), policy)
                        \subseteq Derived(Context(capability, shallower, held), policy)
    BY DEF MonotonicInDepth
  <2>1. Beyond(Context(capability, deeper, held), Context(capability, shallower, held))
    BY DEF Beyond, Context, ChainInv, TypeOK
  <2>2. IsPolicy(policy)
    BY ChainAssumption DEF ChainInv, TypeOK
  <2> QED
    BY <2>1, <2>2, DerivationIsMonotonic
<1> QED
  BY <1>1, ChainInvHolds, PTL

\* Validate's promise, at the head of every chain.
THEOREM AcceptedPoliciesServe == Spec => []AcceptedPolicyServesDirectCalls
<1>1. ChainInv => AcceptedPolicyServesDirectCalls
  <2> SUFFICES ASSUME ChainInv, Trimmed(policy),
                      NEW name \in DOMAIN policy.capabilities,
                      NEW rule \in policy.capabilities[name].scopes, rule.name \in held
               PROVE  DeriveError(Context(name, 0, held), policy) = "nil"
    BY DEF AcceptedPolicyServesDirectCalls
  <2>1. IsPolicy(policy) /\ Valid(policy)
    BY ChainAssumption DEF ChainInv, TypeOK
  <2>2. TrimSpace[name] = name /\ TrimSpace[rule.name] = rule.name
    BY DEF Trimmed
  <2> QED
    BY <2>1, <2>2, ValidPolicyServes DEF Context
<1> QED
  BY <1>1, ChainInvHolds, PTL
=============================================================================
