------------------------------ MODULE Derivation ------------------------------
(***************************************************************************)
(* The scope derivation library (src/derivation): a pure function from a   *)
(* delegation context and a policy to the narrowed scope set, or to one of *)
(* the package's errors.                                                   *)
(*                                                                         *)
(* Capability and scope names are members of Names, so that a name padded  *)
(* with blanks and its trimmed form are two different members related by   *)
(* TrimSpace.  Scope lists are sets: the code sorts and deduplicates every *)
(* list it returns and only tests the ones it reads for membership.        *)
(***************************************************************************)
EXTENDS Integers

CONSTANTS Names,      \* every spelling of a capability, scope or resource
          Blank,      \* the empty string
          TrimSpace   \* strings.TrimSpace: a function on Names

ASSUME NamesAssumption ==
    /\ Blank \in Names
    /\ TrimSpace \in [Names -> Names]
    /\ TrimSpace[Blank] = Blank
    /\ \A n \in Names : TrimSpace[TrimSpace[n]] = TrimSpace[n]

-----------------------------------------------------------------------------
(* policy.go: what a policy file can say. *)

ScopeRule == [name : Names, maxDepth : Int]

Capability == [scopes : SUBSET ScopeRule, maxDepth : Int]

\* Capabilities is a Go map: a function on the keys the file defines.
PolicyWith(keys) ==
    [version : Int, resource : Names, maxDepth : Int,
     capabilities : [keys -> Capability]]

IsPolicy(p) ==
    /\ DOMAIN p.capabilities \subseteq Names
    /\ p \in PolicyWith(DOMAIN p.capabilities)

DefaultMaxDepth == 3

\* Policy.Validate returns nil.
Valid(p) ==
    /\ p.version = 1
    /\ TrimSpace[p.resource] # Blank
    /\ DOMAIN p.capabilities # {}
    /\ \A name \in DOMAIN p.capabilities :
          LET c == p.capabilities[name]
          IN  /\ c.scopes # {}
              /\ \A rule \in c.scopes : /\ TrimSpace[rule.name] # Blank
                                        /\ rule.maxDepth >= 0
              /\ c.maxDepth >= 0

\* Mutant: a negative policy limit taken at its word.
DepthCeilingUnchecked(p, c) ==
    IF c.maxDepth > 0 THEN c.maxDepth
    ELSE IF p.maxDepth # 0 THEN p.maxDepth
    ELSE DefaultMaxDepth

\* The capability's own limit, else the policy's, else the default.  Validate
\* does not look at the policy's limit, so a negative one counts as unset.
DepthCeiling(p, c) ==
    IF c.maxDepth > 0 THEN c.maxDepth
    ELSE IF p.maxDepth > 0 THEN p.maxDepth
    ELSE DefaultMaxDepth

-----------------------------------------------------------------------------
(* derive.go *)

\* A DelegationContext is a record [capability, depth, available]; Task never
\* influences the result and is left out.

NewScopeSet(scopes) == {TrimSpace[s] : s \in scopes} \ {Blank}

\* The capability a context names: the lookup key is trimmed.
Named(ctx, p) == p.capabilities[TrimSpace[ctx.capability]]

\* Mutant: the comparison turned round.
BeyondDepthSwapped(rule, depth) == rule.maxDepth > 0 /\ depth < rule.maxDepth

BeyondDepth(rule, depth) == rule.maxDepth > 0 /\ depth >= rule.maxDepth

\* Mutant: nothing intersected with the caller's scopes.
NeverUnavailable(rule, available) == FALSE

\* An empty Available switches the intersection off.
Unavailable(rule, available) ==
    available # {} /\ rule.name \notin NewScopeSet(available)

Survivors(ctx, p) ==
    {rule \in Named(ctx, p).scopes : /\ ~BeyondDepth(rule, ctx.depth)
                                     /\ ~Unavailable(rule, ctx.available)}

Kept(ctx, p) == {rule.name : rule \in Survivors(ctx, p)}

\* Mutant: one hop too many.
DeriveErrorOffByOne(ctx, p) ==
    IF ctx.depth < 0 THEN "ErrNegativeDepth"
    ELSE IF TrimSpace[ctx.capability] \notin DOMAIN p.capabilities
         THEN "ErrUnknownCapability"
    ELSE IF ctx.depth > DepthCeiling(p, Named(ctx, p)) THEN "ErrDepthExceeded"
    ELSE IF Kept(ctx, p) = {} THEN "ErrNoScopes"
    ELSE "nil"

\* The error Derive returns, "nil" when it returns a result.  The order of the
\* early returns is part of the contract: the broker maps each to a status.
DeriveError(ctx, p) ==
    IF ctx.depth < 0 THEN "ErrNegativeDepth"
    ELSE IF TrimSpace[ctx.capability] \notin DOMAIN p.capabilities
         THEN "ErrUnknownCapability"
    ELSE IF ctx.depth >= DepthCeiling(p, Named(ctx, p)) THEN "ErrDepthExceeded"
    ELSE IF Kept(ctx, p) = {} THEN "ErrNoScopes"
    ELSE "nil"

\* Result.Scopes, the empty set when Derive refuses.
Derived(ctx, p) == IF DeriveError(ctx, p) = "nil" THEN Kept(ctx, p) ELSE {}
=============================================================================
