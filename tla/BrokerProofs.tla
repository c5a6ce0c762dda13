----------------------------- MODULE BrokerProofs -----------------------------
(***************************************************************************)
(* Safety of the delegation path for any number of delegations, any tokens *)
(* and any valid policy.  The invariant has two parts: Stages says how the *)
(* three sides of one delegation agree, Chains how a delegation relates to *)
(* the token it presents.                                                  *)
(***************************************************************************)
EXTENDS Broker, TLAPS

Exchanging(d) == exchange[d] # "none"

StageOf(d) ==
    /\ pc[d] \in {"idle", "verify"} => ~Exchanging(d)
    /\ pc[d] \in {"exchange", "forward"} => Exchanging(d)
    /\ ~Exchanging(d) => asked[d] = {}
    /\ exchange[d] # "issued" => carries[d] = {} /\ ~Forwarded(d)
    /\ Forwarded(d) => pc[d] \in {"forward", "done"} /\ asked[d] \subseteq carries[d]
    /\ pc[d] = "forward" => Forwarded(d)
    /\ inbound[d] = "performed" <=> d \in performed
    /\ d \in performed => Endpoint(d) /\ Authorised(d)
    /\ inbound[d] = "403" => Endpoint(d) /\ ~Authorised(d)
    /\ pc[d] = "done" =>
          /\ reply[d] # "none"
          /\ reply[d] \in Refusals => ~Forwarded(d)
          /\ reply[d] \in Answers => inbound[d] = reply[d]

Stages == \A d \in Delegations : StageOf(d)

Accepted(d) == pc[d] = "verify" \/ Exchanging(d)

ChainOf(d) ==
    /\ Accepted(d) =>
          /\ request[d].call \in Calls
          /\ Bearer(d) \in Presentable
          /\ root[d] = RootOf(Bearer(d))
          /\ root[d] \in Roots
    /\ Exchanging(d) =>
          /\ asked[d] = Derived(Context(d), ShippedPolicy)
          /\ asked[d] # {}
          /\ ScopesOf(Bearer(d)) # {}
          /\ carries[d] \subseteq ScopesOf(Bearer(d))
          /\ carries[d] \subseteq RootScope[root[d]]
          /\ ~WideningIssuer => carries[d] \subseteq asked[d]

Chains == \A d \in Delegations : ChainOf(d)

IInv == TypeOK /\ Stages /\ Chains

-----------------------------------------------------------------------------
(* What the derivation gives, as in ChainProofs, which is about another state machine. *)

Declared(ctx, p) == {rule.name : rule \in Named(ctx, p).scopes}

\* property P1 of property_test.go: the result never leaves what the policy
\* declares for the capability.
LEMMA DerivedIsDeclared ==
    ASSUME NEW ctx, NEW p
    PROVE  Derived(ctx, p) \subseteq Declared(ctx, p)
BY DEF Derived, Kept, Survivors, Declared

\* derive.go:46-49: the broker never asks for more than the caller was given.
\* An empty Available is excluded: then nothing is intersected.
LEMMA DerivedIsHeld ==
    ASSUME NEW ctx, NEW p, ctx.available # {}
    PROVE  Derived(ctx, p) \subseteq NewScopeSet(ctx.available)
BY DEF Derived, Kept, Survivors, Unavailable

\* Derive returns a scope set exactly when it returns no error: there is no
\* success with nothing in it, and no refusal that leaks scopes.
LEMMA NothingOrAnError ==
    ASSUME NEW ctx, NEW p
    PROVE  Derived(ctx, p) # {} <=> DeriveError(ctx, p) = "nil"
BY DEF Derived, DeriveError

LEMMA DerivedType ==
    ASSUME NEW ctx, ctx.available \subseteq Names, ctx.available # {}
    PROVE  Derived(ctx, ShippedPolicy) \subseteq Names
BY DerivedIsHeld, NamesAssumption DEF NewScopeSet

LEMMA ScopesType ==
    ASSUME TypeOK, NEW t \in Tokens
    PROVE  ScopesOf(t) \subseteq Names
BY BrokerAssumption DEF TypeOK, ScopesOf, Tokens

LEMMA RootType ==
    ASSUME TypeOK, NEW t \in Tokens
    PROVE  RootOf(t) \in Roots \cup {NoToken}
BY DEF TypeOK, RootOf, Tokens

LEMMA PresentableType == Presentable \subseteq Tokens
BY DEF Presentable, Tokens

\* Every handler step that only answers.
LEMMA FinishType ==
    ASSUME TypeOK, NEW d \in Delegations, NEW a, Finish(d, a),
           a \in {"forward_failed"} \cup Refusals \cup Answers
    PROVE  TypeOK'
BY DEF TypeOK, Finish

LEMMA CodeType ==
    ASSUME NEW ctx, DeriveError(ctx, ShippedPolicy) # "nil"
    PROVE  DerivationCode(DeriveError(ctx, ShippedPolicy)) \in Refusals
BY DEF DeriveError, DerivationCode, Refusals

LEMMA TypeStep == IInv /\ [Next]_vars => TypeOK'
<1> SUFFICES ASSUME IInv, [Next]_vars PROVE TypeOK'
  OBVIOUS
<1>0. TypeOK
  BY DEF IInv
<1>1. ASSUME NEW d \in Delegations, NEW q \in Requests, Reject(d, q) PROVE TypeOK'
  BY <1>0, <1>1 DEF TypeOK, Reject, Requests, Refusals
<1>2. ASSUME NEW d \in Delegations, NEW q \in Requests, Accept(d, q) PROVE TypeOK'
  BY <1>0, <1>2, RootType, PresentableType DEF TypeOK, Accept, Requests
<1>3. ASSUME NEW d \in Delegations, Handle(d) PROVE TypeOK'
  <2>1. CASE VerifyFails(d)
    BY <1>0, <2>1, FinishType DEF VerifyFails, Refusals
  <2>2. CASE RefuseScopeless(d)
    BY <1>0, <2>2, FinishType DEF RefuseScopeless, Refusals
  <2>3. CASE RefuseDerivation(d)
    BY <1>0, <2>3, FinishType, CodeType DEF RefuseDerivation
  <2>4. CASE StartExchange(d)
    <3>1. Bearer(d) \in Tokens /\ ScopesOf(Bearer(d)) # {}
      BY <2>4, PresentableType
      DEF StartExchange, Verified, IInv, Chains, ChainOf, Accepted
    <3>2. Derived(Context(d), ShippedPolicy) \subseteq Names
      BY <1>0, <3>1, ScopesType, DerivedType DEF Context
    <3> QED
      BY <1>0, <2>4, <3>2 DEF TypeOK, StartExchange
  <2>5. CASE ExchangeFails(d)
    BY <1>0, <2>5, FinishType DEF ExchangeFails, Refusals
  <2>6. CASE ScopeNotHonoured(d)
    BY <1>0, <2>6, FinishType DEF ScopeNotHonoured, Refusals
  <2>7. CASE Forward(d)
    BY <1>0, <2>7 DEF TypeOK, Forward
  <2>8. CASE Relay(d)
    BY <1>0, <2>8, FinishType DEF Relay
  <2>9. CASE ForwardFails(d)
    BY <1>0, <2>9, FinishType DEF ForwardFails
  <2> QED
    BY <1>3, <2>1, <2>2, <2>3, <2>4, <2>5, <2>6, <2>7, <2>8, <2>9 DEF Handle
<1>4. ASSUME NEW d \in Delegations, Thunder(d) PROVE TypeOK'
  <2>1. CASE ThunderRejects(d)
    BY <1>0, <2>1 DEF TypeOK, ThunderRejects
  <2>2. ASSUME NEW scopes \in MayIssue(d), exchange[d] = "sent", ThunderIssues(d, scopes)
        PROVE  TypeOK'
    <3>1. Bearer(d) \in Tokens
      BY <2>2, PresentableType DEF IInv, Chains, ChainOf, Accepted, Exchanging
    <3>2. scopes \subseteq Names
      BY <1>0, <3>1, ScopesType DEF MayIssue
    <3> QED
      BY <1>0, <2>2, <3>2 DEF TypeOK, ThunderIssues
  <2> QED
    BY <1>4, <2>1, <2>2 DEF Thunder
<1>5. ASSUME NEW d \in Delegations, Specialist(d) PROVE TypeOK'
  <2>1. CASE SpecialistPerforms(d)
    BY <1>0, <2>1 DEF TypeOK, SpecialistPerforms, Answers
  <2>2. ASSUME NEW denial \in Denials, SpecialistDenies(d, denial) PROVE TypeOK'
    BY <1>0, <2>2 DEF TypeOK, SpecialistDenies, Answers
  <2> QED
    BY <1>5, <2>1, <2>2 DEF Specialist
<1>6. ASSUME NEW t \in Tokens, Expire(t) PROVE TypeOK'
  BY <1>0, <1>6 DEF TypeOK, Expire
<1>7. CASE UNCHANGED vars
  BY <1>0, <1>7 DEF TypeOK, vars
<1> QED
  BY <1>1, <1>2, <1>3, <1>4, <1>5, <1>6, <1>7 DEF Next

-----------------------------------------------------------------------------
\* A handler step that only answers keeps the sides of each delegation agreed.
LEMMA FinishStages ==
    ASSUME TypeOK, Stages, NEW d \in Delegations, NEW a, Finish(d, a),
           a # "none",
           pc[d] \in {"verify", "exchange", "forward"},
           a \in Refusals => ~Forwarded(d),
           a \in Answers => inbound[d] = a
    PROVE  Stages'
<1> SUFFICES ASSUME NEW e \in Delegations PROVE StageOf(e)'
  BY DEF Stages
<1>1. CASE e = d
  BY <1>1 DEF Stages, StageOf, Finish, TypeOK, Exchanging, Forwarded, Endpoint,
              Authorised, CapabilityOf
<1>2. CASE e # d
  BY <1>2 DEF Stages, StageOf, Finish, TypeOK, Exchanging, Forwarded, Endpoint,
              Authorised, CapabilityOf
<1> QED
  BY <1>1, <1>2

LEMMA StagesStep == IInv /\ [Next]_vars => Stages'
<1> SUFFICES ASSUME IInv, [Next]_vars PROVE Stages'
  OBVIOUS
<1>0. TypeOK /\ Stages
  BY DEF IInv
<1> USE DEF Exchanging, Forwarded, Endpoint, Authorised, CapabilityOf
<1>1. ASSUME NEW d \in Delegations, NEW q \in Requests, Reject(d, q) PROVE Stages'
  BY <1>0, <1>1 DEF TypeOK, Stages, StageOf, Reject, Refusals, Answers, Denials
<1>2. ASSUME NEW d \in Delegations, NEW q \in Requests, Accept(d, q) PROVE Stages'
  BY <1>0, <1>2 DEF TypeOK, Stages, StageOf, Accept
<1>3. ASSUME NEW d \in Delegations, Handle(d) PROVE Stages'
  <2> USE DEF Refusals, Answers, Denials
  <2>1. CASE VerifyFails(d)
    BY <1>0, <2>1, FinishStages DEF VerifyFails, Stages, StageOf
  <2>2. CASE RefuseScopeless(d)
    BY <1>0, <2>2, FinishStages DEF RefuseScopeless, Verified, Stages, StageOf
  <2>3. CASE RefuseDerivation(d)
    <3>1. DerivationCode(DeriveError(Context(d), ShippedPolicy)) \in Refusals
      BY <2>3, CodeType DEF RefuseDerivation
    <3> QED
      BY <1>0, <2>3, <3>1, FinishStages DEF RefuseDerivation, Verified, Stages, StageOf
  <2>4. CASE StartExchange(d)
    BY <1>0, <2>4 DEF StartExchange, Verified, TypeOK, Stages, StageOf
  <2>5. CASE ExchangeFails(d)
    BY <1>0, <2>5, FinishStages DEF ExchangeFails, Stages, StageOf
  <2>6. CASE ScopeNotHonoured(d)
    BY <1>0, <2>6, FinishStages DEF ScopeNotHonoured, Answered, Stages, StageOf
  <2>7. CASE Forward(d)
    BY <1>0, <2>7 DEF Forward, Answered, MissingScopes, TypeOK, Stages, StageOf
  <2>8. CASE Relay(d)
    BY <1>0, <2>8, FinishStages DEF Relay, Stages, StageOf
  <2>9. CASE ForwardFails(d)
    BY <1>0, <2>9, FinishStages DEF ForwardFails, Stages, StageOf
  <2> QED
    BY <1>3, <2>1, <2>2, <2>3, <2>4, <2>5, <2>6, <2>7, <2>8, <2>9 DEF Handle
<1>4. ASSUME NEW d \in Delegations, Thunder(d) PROVE Stages'
  BY <1>0, <1>4 DEF Thunder, ThunderRejects, ThunderIssues, TypeOK, Stages, StageOf
<1>5. ASSUME NEW d \in Delegations, Specialist(d) PROVE Stages'
  <2>1. CASE SpecialistPerforms(d)
    BY <1>0, <2>1
    DEF SpecialistPerforms, TypeOK, Stages, StageOf, Answers, Denials
  <2>2. ASSUME NEW denial \in Denials, SpecialistDenies(d, denial) PROVE Stages'
    BY <1>0, <2>2
    DEF SpecialistDenies, MayDeny, Denials, TypeOK, Stages, StageOf, Answers
  <2> QED
    BY <1>5, <2>1, <2>2 DEF Specialist
<1>6. ASSUME NEW t \in Tokens, Expire(t) PROVE Stages'
  BY <1>0, <1>6 DEF Expire, TypeOK, Stages, StageOf
<1>7. CASE UNCHANGED vars
  BY <1>0, <1>7 DEF Stages, StageOf, vars
<1> QED
  BY <1>1, <1>2, <1>3, <1>4, <1>5, <1>6, <1>7 DEF Next

-----------------------------------------------------------------------------
\* A step leaves alone what a presentable token carries and where it comes from.
LEMMA PresentableIsStable ==
    ASSUME IInv, [Next]_vars, NEW t \in Presentable
    PROVE  t \in Presentable' /\ ScopesOf(t)' = ScopesOf(t) /\ RootOf(t)' = RootOf(t)
<1>1. CASE t \in Roots
  BY <1>1 DEF Presentable, ScopesOf, RootOf
<1>2. CASE t \notin Roots
  <2>1. t \in Delegations /\ exchange[t] = "issued" /\ pc[t] \in {"forward", "done"}
    BY <1>2 DEF Presentable, IInv, Stages, StageOf
  <2>2. inbound'[t] # "none" /\ carries'[t] = carries[t] /\ root'[t] = root[t]
    <3> USE DEF IInv, TypeOK
    <3>1. ASSUME NEW d \in Delegations, NEW q \in Requests, Reject(d, q) \/ Accept(d, q)
          PROVE  inbound' = inbound /\ carries' = carries /\ root'[t] = root[t]
      BY <2>1, <3>1 DEF Reject, Accept
    <3>2. ASSUME NEW d \in Delegations, Handle(d)
          PROVE  inbound'[t] # "none" /\ carries' = carries /\ root' = root
      BY <1>2, <3>2 DEF Presentable, Forwarded, Handle, VerifyFails, RefuseScopeless,
         RefuseDerivation, StartExchange, ExchangeFails, ScopeNotHonoured, Forward,
         Relay, ForwardFails, Finish
    <3>3. ASSUME NEW d \in Delegations, Thunder(d)
          PROVE  inbound' = inbound /\ carries'[t] = carries[t] /\ root' = root
      BY <2>1, <3>3 DEF Thunder, ThunderRejects, ThunderIssues
    <3>4. ASSUME NEW d \in Delegations, Specialist(d)
          PROVE  inbound'[t] # "none" /\ carries' = carries /\ root' = root
      BY <1>2, <3>4 DEF Presentable, Forwarded, Specialist, SpecialistPerforms,
         SpecialistDenies, Denials
    <3>5. ASSUME NEW s \in Tokens, Expire(s)
          PROVE  inbound' = inbound /\ carries' = carries /\ root' = root
      BY <3>5 DEF Expire
    <3> QED
      BY <1>2, <3>1, <3>2, <3>3, <3>4, <3>5 DEF Next, vars, Presentable, Forwarded
  <2> QED
    BY <1>2, <2>1, <2>2 DEF Presentable, Forwarded, ScopesOf, RootOf
<1> QED
  BY <1>1, <1>2

\* The token a delegation presents stays as the broker read it, and with it the
\* context of the derivation.
LEMMA ContextIsStable ==
    ASSUME IInv, [Next]_vars, NEW d \in Delegations, Accepted(d),
           request'[d] = request[d]
    PROVE  /\ Bearer(d) \in Presentable'
           /\ Bearer(d)' = Bearer(d)
           /\ ScopesOf(Bearer(d))' = ScopesOf(Bearer(d))
           /\ RootOf(Bearer(d))' = RootOf(Bearer(d))
           /\ Context(d)' = Context(d)
<1>1. Bearer(d) \in Presentable
  BY DEF IInv, Chains, ChainOf
<1>2. Bearer(d)' = Bearer(d)
  BY DEF Bearer
<1>3. /\ Bearer(d) \in Presentable'
      /\ ScopesOf(Bearer(d))' = ScopesOf(Bearer(d))
      /\ RootOf(Bearer(d))' = RootOf(Bearer(d))
  BY <1>1, <1>2, PresentableIsStable DEF ScopesOf, RootOf
<1> QED
  BY <1>2, <1>3 DEF Context, CapabilityOf

\* A delegation the step does not advance stays related to its token.
LEMMA ChainIsKept ==
    ASSUME IInv, [Next]_vars, NEW e \in Delegations,
           Accepted(e)' => /\ Accepted(e)
                           /\ request'[e] = request[e]
                           /\ root'[e] = root[e],
           Exchanging(e)' => /\ Exchanging(e)
                             /\ asked'[e] = asked[e]
                             /\ carries'[e] = carries[e]
    PROVE  ChainOf(e)'
<1> SUFFICES ASSUME Accepted(e)' PROVE ChainOf(e)'
  BY DEF ChainOf, Accepted
<1>1. ChainOf(e)
  BY DEF IInv, Chains
<1>2. /\ Bearer(e) \in Presentable'
      /\ Bearer(e)' = Bearer(e)
      /\ ScopesOf(Bearer(e))' = ScopesOf(Bearer(e))
      /\ RootOf(Bearer(e))' = RootOf(Bearer(e))
      /\ Context(e)' = Context(e)
  BY ContextIsStable
<1>3. Derived(Context(e), ShippedPolicy)' = Derived(Context(e), ShippedPolicy)
  BY <1>2
<1>4. Bearer(e)' \in Presentable' /\ root'[e] = RootOf(Bearer(e))' /\ root'[e] \in Roots
  BY <1>1, <1>2 DEF ChainOf
<1> QED
  BY <1>1, <1>2, <1>3, <1>4 DEF ChainOf

\* A handler step that only answers.
LEMMA FinishChains ==
    ASSUME IInv, [Next]_vars, NEW d \in Delegations, NEW a, Finish(d, a)
    PROVE  Chains'
BY ChainIsKept DEF IInv, TypeOK, Chains, Finish, Accepted, Exchanging

\* The root of the chain of a presentable token had all the token carries.
LEMMA PresentableWithinRoot ==
    ASSUME IInv, NEW t \in Presentable
    PROVE  RootOf(t) \in Roots /\ ScopesOf(t) \subseteq RootScope[RootOf(t)]
<1>1. CASE t \in Roots
  BY <1>1 DEF RootOf, ScopesOf
<1>2. CASE t \notin Roots
  <2>1. t \in Delegations /\ Exchanging(t)
    BY <1>2 DEF Presentable, IInv, Stages, StageOf, Exchanging
  <2> QED
    BY <1>2, <2>1 DEF IInv, Chains, ChainOf, Accepted, RootOf, ScopesOf
<1> QED
  BY <1>1, <1>2

LEMMA ChainsStep == IInv /\ [Next]_vars => Chains'
<1> SUFFICES ASSUME IInv, [Next]_vars PROVE Chains'
  OBVIOUS
<1>0. TypeOK
  BY DEF IInv
<1>1. ASSUME NEW d \in Delegations, NEW q \in Requests, Reject(d, q) PROVE Chains'
  <2>1. ~Exchanging(d)
    BY <1>1 DEF Reject, IInv, Stages, StageOf
  <2> QED
    BY <1>0, <1>1, <2>1, ChainIsKept DEF Reject, TypeOK, Chains, Accepted, Exchanging
<1>2. ASSUME NEW d \in Delegations, NEW q \in Requests, Accept(d, q) PROVE Chains'
  <2>1. ASSUME NEW e \in Delegations, e # d PROVE ChainOf(e)'
    BY <1>0, <1>2, <2>1, ChainIsKept DEF Accept, TypeOK, Accepted, Exchanging
  <2>2. ChainOf(d)'
    <3>1. ~Exchanging(d)'
      BY <1>2 DEF Accept, IInv, Stages, StageOf, Exchanging
    <3>2. /\ request'[d] = q /\ q.call \in Calls
          /\ Bearer(d)' = q.bearer /\ root'[d] = RootOf(q.bearer)
          /\ q.bearer \in Presentable
      BY <1>0, <1>2 DEF Accept, TypeOK, Bearer, Requests
    <3>3. /\ q.bearer \in Presentable' /\ RootOf(q.bearer)' = RootOf(q.bearer)
          /\ RootOf(q.bearer) \in Roots
      BY <3>2, PresentableIsStable, PresentableWithinRoot
    <3>4. RootOf(Bearer(d))' = RootOf(q.bearer)'
      BY <3>2 DEF RootOf
    <3> QED
      BY <3>1, <3>2, <3>3, <3>4 DEF ChainOf
  <2> QED
    BY <2>1, <2>2 DEF Chains
<1>3. ASSUME NEW d \in Delegations, StartExchange(d) PROVE Chains'
  <2>1. ASSUME NEW e \in Delegations, e # d PROVE ChainOf(e)'
    BY <1>0, <1>3, <2>1, ChainIsKept DEF StartExchange, TypeOK, Accepted, Exchanging
  <2>2. ChainOf(d)'
    <3>1. /\ Accepted(d) /\ ~Exchanging(d) /\ carries[d] = {}
          /\ request' = request /\ root' = root /\ carries' = carries
          /\ asked'[d] = Derived(Context(d), ShippedPolicy)
          /\ DeriveError(Context(d), ShippedPolicy) = "nil"
          /\ ScopesOf(Bearer(d)) # {}
      BY <1>0, <1>3
      DEF StartExchange, Verified, TypeOK, Accepted, Exchanging, IInv, Stages, StageOf
    <3>2. /\ Bearer(d)' \in Presentable' /\ root'[d] = RootOf(Bearer(d))'
          /\ root'[d] \in Roots
          /\ ScopesOf(Bearer(d))' # {}
          /\ request'[d].call \in Calls
      BY <3>1, ContextIsStable DEF IInv, Chains, ChainOf
    <3>3. asked'[d] = Derived(Context(d), ShippedPolicy)' /\ asked'[d] # {}
      BY <3>1, ContextIsStable, NothingOrAnError
    <3> QED
      BY <3>1, <3>2, <3>3 DEF ChainOf
  <2> QED
    BY <2>1, <2>2 DEF Chains
<1>4. ASSUME NEW d \in Delegations, Handle(d) PROVE Chains'
  <2>1. CASE StartExchange(d)
    BY <1>3, <2>1
  <2>2. CASE Forward(d)
    BY <1>0, <2>2, ChainIsKept DEF Forward, TypeOK, Chains, Accepted, Exchanging
  <2> QED
    BY <1>4, <2>1, <2>2, FinishChains
    DEF Handle, VerifyFails, RefuseScopeless, RefuseDerivation, ExchangeFails,
        ScopeNotHonoured, Relay, ForwardFails
<1>5. ASSUME NEW d \in Delegations, Thunder(d) PROVE Chains'
  <2>1. CASE ThunderRejects(d)
    BY <1>0, <1>5, <2>1, ChainIsKept
    DEF Thunder, ThunderRejects, TypeOK, Chains, Accepted, Exchanging
  <2>2. ASSUME NEW scopes \in MayIssue(d), exchange[d] = "sent", ThunderIssues(d, scopes)
        PROVE  Chains'
    <3>1. ASSUME NEW e \in Delegations, e # d PROVE ChainOf(e)'
      BY <1>0, <2>2, <3>1, ChainIsKept DEF ThunderIssues, TypeOK, Accepted, Exchanging
    <3>2. ChainOf(d)'
      <4>1. Accepted(d) /\ Exchanging(d) /\ ChainOf(d)
        BY <2>2 DEF Accepted, Exchanging, IInv, Chains
      <4>2. /\ carries'[d] = scopes /\ request' = request /\ root' = root
            /\ asked' = asked
        BY <1>0, <2>2 DEF ThunderIssues, TypeOK
      <4>3. /\ scopes \subseteq ScopesOf(Bearer(d))
            /\ ~WideningIssuer => scopes \subseteq asked[d]
        BY BrokerAssumption DEF MayIssue
      <4>4. scopes \subseteq RootScope[root[d]]
        BY <4>1, <4>3, PresentableWithinRoot DEF ChainOf
      <4>5. /\ Bearer(d)' \in Presentable' /\ root'[d] = RootOf(Bearer(d))'
            /\ ScopesOf(Bearer(d))' = ScopesOf(Bearer(d))
            /\ Derived(Context(d), ShippedPolicy)' = Derived(Context(d), ShippedPolicy)
        BY <4>1, <4>2, ContextIsStable DEF ChainOf
      <4> QED
        BY <4>1, <4>2, <4>3, <4>4, <4>5 DEF ChainOf
    <3> QED
      BY <3>1, <3>2 DEF Chains
  <2> QED
    BY <1>5, <2>1, <2>2 DEF Thunder
<1>6. ASSUME NEW d \in Delegations, Specialist(d) PROVE Chains'
  BY <1>6, ChainIsKept
  DEF Specialist, SpecialistPerforms, SpecialistDenies, Chains, Accepted, Exchanging
<1>7. ASSUME NEW t \in Tokens, Expire(t) PROVE Chains'
  BY <1>7, ChainIsKept DEF Expire, Chains, Accepted, Exchanging
<1>8. CASE UNCHANGED vars
  BY <1>8, ChainIsKept DEF vars, Chains, Accepted, Exchanging
<1> QED
  BY <1>1, <1>2, <1>4, <1>5, <1>6, <1>7, <1>8 DEF Next

\* The invariant holds throughout.
THEOREM Invariance == Spec => []IInv
<1>1. Init => IInv
  BY DEF Init, IInv, TypeOK, Stages, StageOf, Chains, ChainOf, Accepted, Exchanging,
         Forwarded, Answers
<1>2. IInv /\ [Next]_vars => IInv'
  BY TypeStep, StagesStep, ChainsStep DEF IInv
<1> QED
  BY <1>1, <1>2, PTL DEF Spec

-----------------------------------------------------------------------------
\* The delegation path is well typed.
THEOREM BrokerTypeOK == Spec => []TypeOK
<1>1. IInv => TypeOK
  BY DEF IInv
<1> QED
  BY <1>1, Invariance, PTL

\* README: an exchange is bounded by the subject token.  Along a chain of any
\* length the specialist acts only on authority the root token had.
THEOREM WorkStaysWithinRoot == Spec => []PerformedWithinRoot
<1>1. IInv => PerformedWithinRoot
  <2> SUFFICES ASSUME IInv, NEW d \in performed
               PROVE  RequiredScope[CapabilityOf(d)] \in RootScope[root[d]]
    BY DEF PerformedWithinRoot
  <2>1. d \in Delegations /\ Exchanging(d) /\ Authorised(d)
    BY DEF IInv, TypeOK, Stages, StageOf, Forwarded, Exchanging
  <2> QED
    BY <2>1 DEF IInv, Chains, ChainOf, Authorised
<1> QED
  BY <1>1, Invariance, PTL

\* A token that lost a requested scope never reaches the specialist.
THEOREM NarrowingIsWhole == Spec => []NoScopeLostOnTheWay
<1>1. IInv => NoScopeLostOnTheWay
  BY DEF IInv, Stages, StageOf, Chains, ChainOf, Exchanging, NoScopeLostOnTheWay
<1> QED
  BY <1>1, Invariance, PTL

\* With an issuer that adds nothing, the specialist's token carries exactly
\* what was derived.
THEOREM NarrowingIsExact ==
    ASSUME WideningIssuer = FALSE
    PROVE  Spec => []ExactNarrowing
<1>1. IInv => ExactNarrowing
  BY DEF IInv, Stages, StageOf, Chains, ChainOf, Exchanging, ExactNarrowing
<1> QED
  BY <1>1, Invariance, PTL

\* Scope claims come out of strings.Fields, so trimming them changes nothing.
LEMMA HeldIsTrimmed ==
    ASSUME IInv, NEW t \in Presentable
    PROVE  NewScopeSet(ScopesOf(t)) \subseteq ScopesOf(t)
BY PresentableWithinRoot, BrokerAssumption DEF NewScopeSet

\* Thunder is asked only for scopes the policy declares for the capability and
\* the caller's token holds.
THEOREM AsksWithinHeld == Spec => []AskedWithinHeld
<1>1. IInv => AskedWithinHeld
  <2> SUFFICES ASSUME IInv, NEW d \in Delegations, asked[d] # {}
               PROVE  /\ asked[d] \subseteq ScopesOf(Bearer(d))
                      /\ asked[d] \subseteq Declared(Context(d), ShippedPolicy)
    BY DEF AskedWithinHeld, Declared
  <2>1. Exchanging(d)
    BY DEF IInv, Stages, StageOf
  <2>2. /\ Bearer(d) \in Presentable /\ ScopesOf(Bearer(d)) # {}
        /\ asked[d] = Derived(Context(d), ShippedPolicy)
    BY <2>1 DEF IInv, Chains, ChainOf, Accepted
  <2>3. Context(d).available = ScopesOf(Bearer(d))
    BY DEF Context
  <2>4. asked[d] \subseteq NewScopeSet(ScopesOf(Bearer(d)))
    BY <2>2, <2>3, DerivedIsHeld
  <2> QED
    BY <2>2, <2>4, HeldIsTrimmed, DerivedIsDeclared
<1> QED
  BY <1>1, Invariance, PTL

\* What the coordinator is told agrees with what the specialist did.
THEOREM RepliesAreTruthful == Spec => []ReplyIsTruthful
<1>1. IInv => ReplyIsTruthful
  <2> SUFFICES ASSUME IInv, NEW d \in Delegations, pc[d] = "done"
               PROVE  /\ reply[d] \in Refusals => ~Forwarded(d) /\ d \notin performed
                      /\ reply[d] = "performed"
                           <=> d \in performed /\ reply[d] # "forward_failed"
                      /\ reply[d] \in Denials => d \notin performed
    BY DEF ReplyIsTruthful
  <2>1. StageOf(d)
    BY DEF IInv, Stages
  <2>2. reply[d] \in {"forward_failed"} \cup Refusals \cup Answers
    BY <2>1 DEF IInv, TypeOK, StageOf
  <2> QED
    BY <2>1, <2>2 DEF StageOf, Forwarded, Refusals, Answers, Denials
<1> QED
  BY <1>1, Invariance, PTL

\* A delegation that was answered stays as it was answered: no late exchange
\* makes the broker forward it.
THEOREM FinalAnswers == Spec => AnswersAreFinal
<1> DEFINE Final(d) == pc[d] = "done" => /\ pc'[d] = "done" /\ reply'[d] = reply[d]
                                         /\ Forwarded(d)' = Forwarded(d)
<1>1. IInv /\ [Next]_vars => \A d \in Delegations : Final(d)
  <2> SUFFICES ASSUME IInv, [Next]_vars, NEW d \in Delegations, pc[d] = "done"
               PROVE  /\ pc'[d] = "done" /\ reply'[d] = reply[d]
                      /\ Forwarded(d)' = Forwarded(d)
    OBVIOUS
  <2> USE DEF IInv, TypeOK, Forwarded
  <2>1. ASSUME NEW e \in Delegations, NEW q \in Requests, Reject(e, q) \/ Accept(e, q)
        PROVE  pc'[d] = "done" /\ reply'[d] = reply[d] /\ inbound' = inbound
    BY <2>1 DEF Reject, Accept
  <2>2. ASSUME NEW e \in Delegations, Handle(e)
        PROVE  pc'[d] = "done" /\ reply'[d] = reply[d] /\ inbound'[d] = inbound[d]
    BY <2>2 DEF Handle, VerifyFails, RefuseScopeless, RefuseDerivation, StartExchange,
       ExchangeFails, ScopeNotHonoured, Forward, Relay, ForwardFails, Finish, Verified,
       Answered
  <2>3. ASSUME NEW e \in Delegations, Thunder(e)
        PROVE  pc' = pc /\ reply' = reply /\ inbound' = inbound
    BY <2>3 DEF Thunder, ThunderRejects, ThunderIssues
  <2>4. ASSUME NEW e \in Delegations, Specialist(e)
        PROVE  pc' = pc /\ reply' = reply /\ Forwarded(d)' = Forwarded(d)
    BY <2>4 DEF Specialist, SpecialistPerforms, SpecialistDenies, Denials
  <2>5. ASSUME NEW t \in Tokens, Expire(t)
        PROVE  pc' = pc /\ reply' = reply /\ inbound' = inbound
    BY <2>5 DEF Expire
  <2>6. CASE UNCHANGED vars
    BY <2>6 DEF vars
  <2> QED
    BY <2>1, <2>2, <2>3, <2>4, <2>5, <2>6 DEF Next
<1> QED
  BY <1>1, Invariance, PTL DEF Spec, AnswersAreFinal

\* Narrowing never takes away what the endpoint demands: with a policy that
\* matches the endpoints, a denial for lack of scope means the caller's own
\* token lacked it.
THEOREM DenialsAreDeserved ==
    ASSUME PolicyMatchesEndpoints
    PROVE  Spec => []DeniedOnlyWithoutAuthority
<1>1. IInv => DeniedOnlyWithoutAuthority
  <2> SUFFICES ASSUME IInv, NEW d \in Delegations, inbound[d] = "403",
                      RequiredScope[CapabilityOf(d)] \in ScopesOf(Bearer(d))
               PROVE  FALSE
    BY DEF DeniedOnlyWithoutAuthority
  <2> DEFINE name == CapabilityOf(d)
             ctx == Context(d)
  <2>1. /\ Exchanging(d) /\ asked[d] \subseteq carries[d]
        /\ name \in DOMAIN RequiredScope /\ RequiredScope[name] \notin carries[d]
    BY DEF IInv, Stages, StageOf, Forwarded, Exchanging, Endpoint, Authorised
  <2>2. /\ Bearer(d) \in Presentable
        /\ asked[d] = Derived(ctx, ShippedPolicy) /\ asked[d] # {}
    BY <2>1 DEF IInv, Chains, ChainOf, Accepted
  <2>3. DeriveError(ctx, ShippedPolicy) = "nil" /\ asked[d] = Kept(ctx, ShippedPolicy)
    BY <2>2 DEF Derived
  <2>4. /\ ctx.capability = name /\ ctx.available = ScopesOf(Bearer(d))
        /\ TrimSpace[name] = name
    BY <2>1 DEF Context, PolicyMatchesEndpoints
  <2>5. name \in DOMAIN ShippedPolicy.capabilities
    BY <2>3, <2>4 DEF DeriveError
  <2>6. PICK rule \in Named(ctx, ShippedPolicy).scopes :
            rule.name = RequiredScope[name] /\ rule.maxDepth = 0
    BY <2>1, <2>4, <2>5 DEF PolicyMatchesEndpoints, Named
  <2>7. RequiredScope[name] \in NewScopeSet(ctx.available)
    <3>1. /\ RootOf(Bearer(d)) \in Roots
          /\ RequiredScope[name] \in RootScope[RootOf(Bearer(d))]
      BY <2>2, PresentableWithinRoot
    <3>2. /\ TrimSpace[RequiredScope[name]] = RequiredScope[name]
          /\ RequiredScope[name] # Blank
      BY <3>1, BrokerAssumption
    <3> QED
      BY <2>4, <3>2 DEF NewScopeSet
  <2>8. rule \in Survivors(ctx, ShippedPolicy)
    BY <2>6, <2>7 DEF Survivors, BeyondDepth, Unavailable
  <2>9. RequiredScope[name] \in asked[d]
    BY <2>3, <2>6, <2>8 DEF Kept
  <2> QED
    BY <2>1, <2>9
<1> QED
  BY <1>1, Invariance, PTL

-----------------------------------------------------------------------------
(* The delegation path implements Attenuation: forwarding is the grant, ending
   without it the refusal, and every other step of the broker and of Thunder is
   invisible. *)

LEMMA InitRefines == Init => Promise!Init
BY DEF Init, Promise!Init, StatusSeen, AuthoritySeen, RootSeen, NeedsSeen, Forwarded

Seen == <<StatusSeen, AuthoritySeen, RootSeen, NeedsSeen, performed>>

\* A step that forwards nothing and ends nothing is invisible.
LEMMA Invisible ==
    ASSUME IInv, performed' = performed,
           \A d \in Delegations :
              /\ Forwarded(d)' <=> Forwarded(d)
              /\ Forwarded(d) => /\ carries'[d] = carries[d]
                                 /\ root'[d] = root[d]
                                 /\ request'[d] = request[d]
              /\ ~Forwarded(d) => (pc'[d] = "done" <=> pc[d] = "done")
    PROVE  UNCHANGED Seen
<1>1. StatusSeen' = StatusSeen /\ AuthoritySeen' = AuthoritySeen /\ RootSeen' = RootSeen
  BY DEF StatusSeen, AuthoritySeen, RootSeen
<1>2. NeedsSeen' = NeedsSeen
  BY DEF NeedsSeen, CapabilityOf
<1> QED
  BY <1>1, <1>2 DEF Seen

\* Ending a delegation that was not forwarded is a refusal.
LEMMA EndRefuses ==
    ASSUME IInv, NEW d \in Delegations, ~Forwarded(d), pc[d] # "done",
           pc' = [pc EXCEPT ![d] = "done"],
           UNCHANGED <<carries, inbound, performed, root>>,
           \A e \in Delegations : Forwarded(e) => request'[e] = request[e]
    PROVE  Promise!Refuse(d)
<1>1. StatusSeen' = [StatusSeen EXCEPT ![d] = "refused"]
  BY DEF StatusSeen, Forwarded, IInv, TypeOK
<1>2. AuthoritySeen' = AuthoritySeen /\ RootSeen' = RootSeen
  BY DEF AuthoritySeen, RootSeen, Forwarded
<1>3. NeedsSeen' = NeedsSeen
  BY DEF NeedsSeen, CapabilityOf, Forwarded
<1>4. StatusSeen[d] = "open"
  BY DEF StatusSeen
<1> QED
  BY <1>1, <1>2, <1>3, <1>4 DEF Promise!Refuse

LEMMA ForwardGrants ==
    ASSUME IInv, NEW d \in Delegations, Forward(d)
    PROVE  /\ Bearer(d) \in Promise!Presentable
           /\ Demand(CapabilityOf(d)) \in {Demand(c.capability) : c \in Calls}
           /\ carries[d] \in SUBSET Promise!Held(Bearer(d))
           /\ Promise!Grant(d, Bearer(d), carries[d], Demand(CapabilityOf(d)))
<1>1. /\ ~Forwarded(d) /\ Exchanging(d) /\ asked[d] \subseteq carries[d] /\ pc[d] = "exchange"
  BY DEF Forward, Answered, MissingScopes, IInv, Stages, StageOf, Exchanging
<1>2. /\ Bearer(d) \in Presentable /\ root[d] = RootOf(Bearer(d))
      /\ carries[d] \subseteq ScopesOf(Bearer(d)) /\ carries[d] # {}
  BY <1>1 DEF IInv, Chains, ChainOf, Accepted
<1>3. /\ Bearer(d) \in Promise!Presentable
      /\ Promise!Held(Bearer(d)) = ScopesOf(Bearer(d))
      /\ Promise!RootOf(Bearer(d)) = RootOf(Bearer(d))
  BY <1>2 DEF Promise!Presentable, Promise!Held, Promise!RootOf, Presentable, ScopesOf,
              RootOf, StatusSeen, AuthoritySeen, RootSeen
<1>4. request[d].call \in Calls
  BY <1>1 DEF IInv, Chains, ChainOf, Accepted
<1>5. /\ StatusSeen' = [StatusSeen EXCEPT ![d] = "granted"]
      /\ AuthoritySeen' = [AuthoritySeen EXCEPT ![d] = carries[d]]
      /\ RootSeen' = [RootSeen EXCEPT ![d] = root[d]]
      /\ NeedsSeen' = [NeedsSeen EXCEPT ![d] = Demand(CapabilityOf(d))]
      /\ performed' = performed
  BY DEF Forward, StatusSeen, AuthoritySeen, RootSeen, NeedsSeen, Forwarded,
         CapabilityOf, IInv, TypeOK
<1> QED
  BY <1>1, <1>2, <1>3, <1>4, <1>5 DEF Promise!Grant, StatusSeen, CapabilityOf

LEMMA HandleRefines ==
    ASSUME IInv, NEW d \in Delegations, Handle(d)
    PROVE  Promise!Next \/ UNCHANGED Seen
<1> USE DEF IInv, Stages, StageOf
<1>1. CASE Forward(d)
  BY <1>1, ForwardGrants DEF Promise!Next
<1>2. CASE StartExchange(d)
  <2>1. performed' = performed /\ inbound' = inbound /\ carries' = carries
        /\ root' = root /\ request' = request /\ \A e \in Delegations : pc'[e] = "done" <=> pc[e] = "done"
    BY <1>2 DEF StartExchange, Verified, TypeOK
  <2> QED
    BY <2>1, Invisible DEF Forwarded
<1>3. CASE Relay(d) \/ ForwardFails(d)
  <2>1. /\ performed' = performed /\ inbound' = inbound /\ carries' = carries
        /\ root' = root /\ request' = request /\ Forwarded(d)
        /\ \A e \in Delegations : e # d => pc'[e] = pc[e]
    BY <1>3 DEF Relay, ForwardFails, Finish, TypeOK
  <2> QED
    BY <2>1, Invisible DEF Forwarded
<1>4. CASE \/ VerifyFails(d) \/ RefuseScopeless(d) \/ RefuseDerivation(d)
           \/ ExchangeFails(d) \/ ScopeNotHonoured(d)
  <2>1. /\ ~Forwarded(d) /\ pc[d] # "done"
        /\ pc' = [pc EXCEPT ![d] = "done"]
        /\ UNCHANGED <<carries, inbound, performed, root, request>>
    BY <1>4 DEF VerifyFails, RefuseScopeless, RefuseDerivation, ExchangeFails,
       ScopeNotHonoured, Verified, Answered, Finish, Exchanging
  <2>2. Promise!Refuse(d)
    BY <2>1, EndRefuses
  <2> QED
    BY <2>2 DEF Promise!Next
<1> QED
  BY <1>1, <1>2, <1>3, <1>4 DEF Handle

LEMMA StepRefines ==
    ASSUME IInv, [Next]_vars
    PROVE  Promise!Next \/ UNCHANGED Seen
<1> USE DEF IInv, Stages, StageOf
<1>1. ASSUME NEW d \in Delegations, NEW q \in Requests, Reject(d, q)
      PROVE  Promise!Next
  <2>1. /\ ~Forwarded(d) /\ pc[d] # "done"
        /\ pc' = [pc EXCEPT ![d] = "done"]
        /\ UNCHANGED <<carries, inbound, performed, root>>
        /\ \A e \in Delegations : Forwarded(e) => request'[e] = request[e]
    BY <1>1 DEF Reject, TypeOK
  <2>2. Promise!Refuse(d)
    BY <2>1, EndRefuses
  <2> QED
    BY <2>2 DEF Promise!Next
<1>2. ASSUME NEW d \in Delegations, NEW q \in Requests, Accept(d, q)
      PROVE  UNCHANGED Seen
  <2>1. /\ performed' = performed /\ inbound' = inbound /\ carries' = carries
        /\ ~Forwarded(d)
        /\ \A e \in Delegations : /\ pc'[e] = "done" <=> pc[e] = "done"
                                  /\ e # d => root'[e] = root[e] /\ request'[e] = request[e]
    BY <1>2 DEF Accept, TypeOK
  <2> QED
    BY <2>1, Invisible DEF Forwarded
<1>3. ASSUME NEW d \in Delegations, Thunder(d) PROVE UNCHANGED Seen
  <2>1. /\ performed' = performed /\ inbound' = inbound /\ pc' = pc
        /\ root' = root /\ request' = request /\ ~Forwarded(d)
        /\ \A e \in Delegations : e # d => carries'[e] = carries[e]
    BY <1>3 DEF Thunder, ThunderRejects, ThunderIssues, TypeOK
  <2> QED
    BY <2>1, Invisible DEF Forwarded
<1>4. ASSUME NEW d \in Delegations, SpecialistPerforms(d) PROVE Promise!Next
  <2>1. /\ StatusSeen' = StatusSeen /\ AuthoritySeen' = AuthoritySeen
        /\ RootSeen' = RootSeen /\ NeedsSeen' = NeedsSeen
        /\ performed' = performed \cup {d}
    BY <1>4 DEF SpecialistPerforms, StatusSeen, AuthoritySeen, RootSeen, NeedsSeen,
       Forwarded, CapabilityOf, TypeOK
  <2>2. /\ StatusSeen[d] = "granted"
        /\ NeedsSeen[d] = {RequiredScope[CapabilityOf(d)]}
        /\ NeedsSeen[d] \subseteq AuthoritySeen[d]
    BY <1>4 DEF SpecialistPerforms, Endpoint, Authorised, StatusSeen, AuthoritySeen,
       NeedsSeen, Forwarded, Demand
  <2>3. Promise!Perform(d)
    BY <2>1, <2>2 DEF Promise!Perform
  <2> QED
    BY <2>3 DEF Promise!Next
<1>5. ASSUME NEW d \in Delegations, NEW denial \in Denials, SpecialistDenies(d, denial)
      PROVE  UNCHANGED Seen
  <2>1. /\ performed' = performed /\ pc' = pc /\ carries' = carries
        /\ root' = root /\ request' = request
        /\ \A e \in Delegations : Forwarded(e)' <=> Forwarded(e)
    BY <1>5 DEF SpecialistDenies, Denials, Forwarded, TypeOK
  <2> QED
    BY <2>1, Invisible
<1>6. ASSUME NEW t \in Tokens, Expire(t) PROVE UNCHANGED Seen
  BY <1>6, Invisible DEF Expire, Forwarded
<1>7. CASE UNCHANGED vars
  BY <1>7, Invisible DEF vars, Forwarded
<1> QED
  BY <1>1, <1>2, <1>3, <1>4, <1>5, <1>6, <1>7, HandleRefines DEF Next, Specialist

\* README, "Four things worth knowing": whatever the interleaving of broker,
\* Thunder and specialist, every delegation is granted part of what its bearer
\* holds, or refused for good, and work is done only under a grant.
THEOREM BrokerImplementsAttenuation == Spec => AttenuationSpec
<1>1. Init => Promise!Init
  BY InitRefines
<1>2. IInv /\ [Next]_vars => [Promise!Next]_(Promise!vars)
  BY StepRefines DEF Seen, Promise!vars
<1> QED
  BY <1>1, <1>2, Invariance, PTL DEF Spec, AttenuationSpec, Promise!Spec
=============================================================================
