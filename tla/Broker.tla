-------------------------------- MODULE Broker --------------------------------
(***************************************************************************)
(* The broker's delegation path (src/broker/proxy.go, thunder.go) between   *)
(* the coordinator that presents a token, ThunderID that exchanges it and   *)
(* the specialist that serves the call.                                     *)
(*                                                                          *)
(* Each delegation is one POST /delegate and runs handleDelegate in its own *)
(* goroutine; the delegations interleave freely.  Thunder and the           *)
(* specialist may serve a request whenever it has been sent, also after the *)
(* broker stopped waiting, or never.  The token an exchange issues is named *)
(* by the delegation it was issued for.  A token the specialist has         *)
(* received can be presented again, which makes the chains.                 *)
(***************************************************************************)
EXTENDS Derivation

CONSTANTS Delegations,     \* the POST /delegate requests that will be made
          Roots,           \* tokens obtained by client credentials
          RootScope,       \* the scope claim of each root token
          NoToken,         \* no usable Authorization header
          Calls,           \* [capability, depth] pairs the bodies carry
          ShippedPolicy,   \* the policy the broker was started with
          RequiredScope,   \* auth.py: the scope each endpoint demands
          WideningIssuer   \* Thunder may issue held scopes nobody asked for

ASSUME BrokerAssumption ==
    /\ Roots \cap Delegations = {}
    /\ NoToken \notin Roots \cup Delegations
    /\ \A r \in Roots : /\ RootScope[r] \subseteq Names \ {Blank}
                        /\ \A s \in RootScope[r] : TrimSpace[s] = s
    /\ \A c \in Calls : c.capability \in Names /\ c.depth \in Int
    /\ IsPolicy(ShippedPolicy) /\ Valid(ShippedPolicy)
    /\ WideningIssuer \in BOOLEAN

Tokens == Roots \cup Delegations

VARIABLES pc,         \* how far handleDelegate has come with each delegation
          request,    \* the body and bearer token of each delegation
          asked,      \* result.Scopes: derived, and sent to Thunder
          exchange,   \* Thunder's side of the exchange
          carries,    \* the scopes of the token Thunder issued
          inbound,    \* the specialist's side of the forwarded call
          performed,  \* delegations whose capability the specialist executed
          reply,      \* what the coordinator was told
          expired,    \* tokens whose exp has passed
          root        \* history: the root token of each delegation's chain

vars == <<pc, request, asked, exchange, carries, inbound, performed, reply,
          expired, root>>

\* What the broker answers by itself; the specialist's answers it relays.
Refusals == {"invalid_request", "invalid_token", "insufficient_scope",
             "unknown_capability", "depth_exceeded", "exchange_failed",
             "scope_not_honoured"}
Denials == {"401", "403", "404", "422", "500"}
Answers == Denials \cup {"performed"}

NoCall == [capability |-> Blank, depth |-> 0]

Requests == [call : Calls, bearer : Tokens \cup {NoToken}]

-----------------------------------------------------------------------------
ScopesOf(t) == IF t \in Roots THEN RootScope[t] ELSE carries[t]

RootOf(t) == IF t \in Roots THEN t ELSE root[t]

\* The token reached the specialist, which may present it in turn.
Forwarded(d) == inbound[d] # "none"

Presentable == Roots \cup {d \in Delegations : Forwarded(d)}

Bearer(d) == request[d].bearer

CapabilityOf(d) == request[d].call.capability

Context(d) == [capability |-> CapabilityOf(d),
               depth      |-> request[d].call.depth,
               available  |-> ScopesOf(Bearer(d))]

Init ==
    /\ pc = [d \in Delegations |-> "idle"]
    /\ request = [d \in Delegations |-> [call |-> NoCall, bearer |-> NoToken]]
    /\ asked = [d \in Delegations |-> {}]
    /\ exchange = [d \in Delegations |-> "none"]
    /\ carries = [d \in Delegations |-> {}]
    /\ inbound = [d \in Delegations |-> "none"]
    /\ performed = {}
    /\ reply = [d \in Delegations |-> "none"]
    /\ expired = {}
    /\ root = [d \in Delegations |-> NoToken]

\* fail, or the copying of the specialist's reply: the handler ends.
Finish(d, answer) ==
    /\ pc' = [pc EXCEPT ![d] = "done"]
    /\ reply' = [reply EXCEPT ![d] = answer]
    /\ UNCHANGED <<request, asked, exchange, carries, inbound, performed,
                   expired, root>>

-----------------------------------------------------------------------------
(* handleDelegate, step 1 and BearerToken. *)

Malformed(call) == TrimSpace[call.capability] = Blank \/ call.depth < 0

\* The body is read before the Authorization header.
Reject(d, q) ==
    /\ pc[d] = "idle"
    /\ q.bearer \in Presentable \cup {NoToken}
    /\ Malformed(q.call) \/ q.bearer = NoToken
    /\ request' = [request EXCEPT ![d] = q]
    /\ pc' = [pc EXCEPT ![d] = "done"]
    /\ reply' = [reply EXCEPT ![d] = IF Malformed(q.call) THEN "invalid_request"
                                                          ELSE "invalid_token"]
    /\ UNCHANGED <<asked, exchange, carries, inbound, performed, expired, root>>

Accept(d, q) ==
    /\ pc[d] = "idle"
    /\ q.bearer \in Presentable
    /\ ~Malformed(q.call)
    /\ request' = [request EXCEPT ![d] = q]
    /\ root' = [root EXCEPT ![d] = RootOf(q.bearer)]
    /\ pc' = [pc EXCEPT ![d] = "verify"]
    /\ UNCHANGED <<asked, exchange, carries, inbound, performed, reply, expired>>

(* Steps 2 and 3: verify the token, then derive.  Verification may fetch the *)
(* signing keys, so time passes before it ends.                               *)

\* A token that has expired always fails; any token fails when its signing key
\* cannot be had.
VerifyFails(d) ==
    /\ pc[d] = "verify"
    /\ Finish(d, "invalid_token")

Verified(d) == pc[d] = "verify" /\ Bearer(d) \notin expired

RefuseScopeless(d) ==
    /\ Verified(d)
    /\ ScopesOf(Bearer(d)) = {}
    /\ Finish(d, "insufficient_scope")

\* Mutant: an error the switch forgets falls to its default.
DerivationCodeIncomplete(err) ==
    CASE err = "ErrDepthExceeded" -> "depth_exceeded"
      [] err = "ErrNoScopes"      -> "insufficient_scope"
      [] OTHER                    -> "derivation_failed"

DerivationCode(err) ==
    CASE err = "ErrUnknownCapability" -> "unknown_capability"
      [] err = "ErrDepthExceeded"     -> "depth_exceeded"
      [] err = "ErrNoScopes"          -> "insufficient_scope"
      [] err = "ErrNegativeDepth"     -> "invalid_request"

RefuseDerivation(d) ==
    /\ Verified(d)
    /\ ScopesOf(Bearer(d)) # {}
    /\ DeriveError(Context(d), ShippedPolicy) # "nil"
    /\ Finish(d, DerivationCode(DeriveError(Context(d), ShippedPolicy)))

\* Mutant: without the guard against a token that has no scopes.
StartExchangeUnguarded(d) ==
    /\ Verified(d)
    /\ DeriveError(Context(d), ShippedPolicy) = "nil"
    /\ asked' = [asked EXCEPT ![d] = Derived(Context(d), ShippedPolicy)]
    /\ exchange' = [exchange EXCEPT ![d] = "sent"]
    /\ pc' = [pc EXCEPT ![d] = "exchange"]
    /\ UNCHANGED <<request, carries, inbound, performed, reply, expired, root>>

\* The exchange request leaves for Thunder.
StartExchange(d) ==
    /\ Verified(d)
    /\ ScopesOf(Bearer(d)) # {}
    /\ DeriveError(Context(d), ShippedPolicy) = "nil"
    /\ asked' = [asked EXCEPT ![d] = Derived(Context(d), ShippedPolicy)]
    /\ exchange' = [exchange EXCEPT ![d] = "sent"]
    /\ pc' = [pc EXCEPT ![d] = "exchange"]
    /\ UNCHANGED <<request, carries, inbound, performed, reply, expired, root>>
-----------------------------------------------------------------------------
(* ThunderID.  Outside the repository: what the comments and tests of        *)
(* thunder.go say of it.                                                     *)

\* An exchange never yields more than the subject token holds, and may yield
\* less, down to no scope at all, with a 200.
MayIssue(d) ==
    SUBSET (IF WideningIssuer THEN ScopesOf(Bearer(d))
                              ELSE asked[d] \cap ScopesOf(Bearer(d)))

ThunderIssues(d, scopes) ==
    /\ exchange[d] = "sent"
    /\ Bearer(d) \notin expired
    /\ exchange' = [exchange EXCEPT ![d] = "issued"]
    /\ carries' = [carries EXCEPT ![d] = scopes]
    /\ UNCHANGED <<pc, request, asked, inbound, performed, reply, expired, root>>

ThunderRejects(d) ==
    /\ exchange[d] = "sent"
    /\ exchange' = [exchange EXCEPT ![d] = "rejected"]
    /\ UNCHANGED <<pc, request, asked, carries, inbound, performed, reply,
                   expired, root>>

-----------------------------------------------------------------------------
(* Step 4: the answer of the exchange.  *)

\* Mutant: a client without a timeout.
ExchangeFailsOnAnswer(d) ==
    /\ pc[d] = "exchange"
    /\ exchange[d] = "rejected"
    /\ Finish(d, "exchange_failed")

\* A rejection, a transport error, the client's timeout or a cancelled request:
\* the token may have been issued all the same.
ExchangeFails(d) ==
    /\ pc[d] = "exchange"
    /\ Finish(d, "exchange_failed")

\* Mutant: the difference taken the wrong way round.
MissingScopesSwapped(requested, issued) == issued \ requested

\* Mutant: no read-back at all.
MissingScopesIgnored(requested, issued) == {}

MissingScopes(requested, issued) == requested \ issued

\* Mutant: an answer that comes after the handler gave up is still used.
AnsweredLate(d) == exchange[d] = "issued" /\ ~Forwarded(d)

Answered(d) == pc[d] = "exchange" /\ exchange[d] = "issued"

ScopeNotHonoured(d) ==
    /\ Answered(d)
    /\ MissingScopes(asked[d], carries[d]) # {}
    /\ Finish(d, "scope_not_honoured")

\* Step 5: the call leaves for the specialist with the exchanged token.
Forward(d) ==
    /\ Answered(d)
    /\ MissingScopes(asked[d], carries[d]) = {}
    /\ pc' = [pc EXCEPT ![d] = "forward"]
    /\ inbound' = [inbound EXCEPT ![d] = "sent"]
    /\ UNCHANGED <<request, asked, exchange, carries, performed, reply,
                   expired, root>>

-----------------------------------------------------------------------------
(* The specialist.  The path holds the capability as the caller spelled it.  *)

Endpoint(d) == CapabilityOf(d) \in DOMAIN RequiredScope

\* Mutant: the dependency checks the token but not its scope.
AnyTokenAuthorised(d) == TRUE

Authorised(d) == RequiredScope[CapabilityOf(d)] \in carries[d]

\* Routing comes first, then the token, its scope, the body and the handler.  A 500
\* may come at any time after routing, for one when THUNDER_BASE_URL is not set.
MayDeny(d, denial) ==
    \/ denial = "404" /\ ~Endpoint(d)
    \/ denial \in {"401", "500"} /\ Endpoint(d)
    \/ denial = "403" /\ Endpoint(d) /\ d \notin expired /\ ~Authorised(d)
    \/ denial = "422" /\ Endpoint(d) /\ d \notin expired /\ Authorised(d)

SpecialistDenies(d, denial) ==
    /\ inbound[d] = "sent"
    /\ MayDeny(d, denial)
    /\ inbound' = [inbound EXCEPT ![d] = denial]
    /\ UNCHANGED <<pc, request, asked, exchange, carries, performed, reply,
                   expired, root>>

SpecialistPerforms(d) ==
    /\ inbound[d] = "sent"
    /\ Endpoint(d)
    /\ d \notin expired
    /\ Authorised(d)
    /\ performed' = performed \cup {d}
    /\ inbound' = [inbound EXCEPT ![d] = "performed"]
    /\ UNCHANGED <<pc, request, asked, exchange, carries, reply, expired, root>>

-----------------------------------------------------------------------------
(* forward: the specialist's answer goes back unchanged. *)

Relay(d) ==
    /\ pc[d] = "forward"
    /\ inbound[d] \in Answers
    /\ Finish(d, inbound[d])

\* Mutant: a lost answer reported as a failed exchange.
ForwardFailsMislabelled(d) ==
    /\ pc[d] = "forward"
    /\ Finish(d, "exchange_failed")

\* 502, or 504 on the deadline; the specialist may be at work or done.
ForwardFails(d) ==
    /\ pc[d] = "forward"
    /\ Finish(d, "forward_failed")

-----------------------------------------------------------------------------
Expire(t) ==
    /\ t \in Roots \/ (t \in Delegations /\ exchange[t] = "issued")
    /\ t \notin expired
    /\ expired' = expired \cup {t}
    /\ UNCHANGED <<pc, request, asked, exchange, carries, inbound, performed,
                   reply, root>>

\* The steps of the handler's goroutine.
Handle(d) ==
    \/ VerifyFails(d)
    \/ RefuseScopeless(d)
    \/ RefuseDerivation(d)
    \/ StartExchange(d)
    \/ ExchangeFails(d)
    \/ ScopeNotHonoured(d)
    \/ Forward(d)
    \/ Relay(d)
    \/ ForwardFails(d)

Thunder(d) ==
    /\ exchange[d] = "sent"
    /\ \/ ThunderRejects(d)
       \/ \E scopes \in MayIssue(d) : ThunderIssues(d, scopes)

Specialist(d) ==
    \/ SpecialistPerforms(d)
    \/ \E denial \in Denials : SpecialistDenies(d, denial)

Next ==
    \/ \E d \in Delegations :
          \/ \E q \in Requests : Reject(d, q) \/ Accept(d, q)
          \/ Handle(d)
          \/ Thunder(d)
          \/ Specialist(d)
    \/ \E t \in Tokens : Expire(t)

\* Every wait of the handler ends: the clients for Thunder and the specialist
\* carry timeouts (proxy.go:53-55).  Nothing is assumed of Thunder, of the
\* specialist or of callers.
Fairness == \A d \in Delegations : WF_vars(Handle(d))

Spec == Init /\ [][Next]_vars /\ Fairness

-----------------------------------------------------------------------------
TypeOK ==
    /\ pc \in [Delegations -> {"idle", "verify", "exchange", "forward", "done"}]
    /\ request \in [Delegations -> [call : Calls \cup {NoCall},
                                    bearer : Tokens \cup {NoToken}]]
    /\ asked \in [Delegations -> SUBSET Names]
    /\ exchange \in [Delegations -> {"none", "sent", "issued", "rejected"}]
    /\ carries \in [Delegations -> SUBSET Names]
    /\ inbound \in [Delegations -> {"none", "sent"} \cup Answers]
    /\ performed \in SUBSET Delegations
    /\ reply \in [Delegations -> {"none", "forward_failed"} \cup Refusals \cup Answers]
    /\ expired \in SUBSET Tokens
    /\ root \in [Delegations -> Roots \cup {NoToken}]

\* README: "an exchange is bounded by the subject token".  Whatever the chain,
\* the specialist acts only when the token its root client obtained held the
\* scope the endpoint demands.
PerformedWithinRoot ==
    \A d \in performed : RequiredScope[CapabilityOf(d)] \in RootScope[root[d]]

\* thunder.go:65: the specialist receives a token carrying exactly the scopes
\* that were derived, even though Thunder silently issues fewer.
ExactNarrowing ==
    \A d \in Delegations : Forwarded(d) => carries[d] = asked[d]

\* A token whose narrowing lost a scope never reaches the specialist
\* (thunder.go:30-34), also when the issuer adds scopes.
NoScopeLostOnTheWay ==
    \A d \in Delegations : Forwarded(d) => asked[d] # {} /\ asked[d] \subseteq carries[d]

\* The broker asks Thunder only for scopes that the policy declares for the
\* capability and the caller's token holds (derive.go:46-49), and a token with
\* no scope at all asks for nothing (proxy.go:130-141).
AskedWithinHeld ==
    \A d \in Delegations :
        asked[d] # {} =>
            /\ asked[d] \subseteq ScopesOf(Bearer(d))
            /\ asked[d] \subseteq {rule.name : rule \in Named(Context(d), ShippedPolicy).scopes}

\* What the coordinator is told is true of what the specialist did: a refusal
\* by the broker means the specialist never saw the call and never will, and a
\* relayed answer is the specialist's.  Only a failed forward leaves it open.
ReplyIsTruthful ==
    \A d \in Delegations : pc[d] = "done" =>
        /\ reply[d] \in Refusals => ~Forwarded(d) /\ d \notin performed
        /\ reply[d] = "performed" <=> d \in performed /\ reply[d] # "forward_failed"
        /\ reply[d] \in Denials => d \notin performed

\* A refusal is final: no late answer from Thunder makes the broker forward a
\* call it has already refused, and the answer never changes.
AnswersAreFinal ==
    [][\A d \in Delegations : pc[d] = "done" =>
          /\ pc'[d] = "done" /\ reply'[d] = reply[d]
          /\ Forwarded(d)' = Forwarded(d)]_vars

\* The narrowing never takes away what the endpoint demands: the specialist
\* denies a forwarded call for lack of scope only if the caller's own token
\* lacked that scope as well.
DeniedOnlyWithoutAuthority ==
    \A d \in Delegations :
        inbound[d] = "403" =>
            RequiredScope[CapabilityOf(d)] \notin ScopesOf(Bearer(d))

\* The policy and the specialist agree: a capability the policy describes and
\* the specialist serves has the demanded scope among its rules, at any depth.
PolicyMatchesEndpoints ==
    \A name \in DOMAIN RequiredScope :
        /\ TrimSpace[name] = name
        /\ name \in DOMAIN ShippedPolicy.capabilities =>
              \E rule \in ShippedPolicy.capabilities[name].scopes :
                  rule.name = RequiredScope[name] /\ rule.maxDepth = 0

\* Every delegation the broker accepts is answered, whatever Thunder and the
\* specialist do.
EveryDelegationAnswered ==
    \A d \in Delegations : pc[d] = "verify" ~> pc[d] = "done"

\* README:125: agentid.scope.derived is what was actually issued for the call.
\* The span attribute is set to the derived set before the exchange.
SpanScopeDerived(d) == asked[d]

SpanTellsWhatWasIssued ==
    \A d \in Delegations : pc[d] = "done" =>
        SpanScopeDerived(d) = (IF Forwarded(d) THEN carries[d] ELSE {})

-----------------------------------------------------------------------------
(* The stages of a delegation, hidden.  A delegation is granted when its     *)
(* token is forwarded, and refused when the handler ends without that.       *)

Demand(name) == IF name \in DOMAIN RequiredScope THEN {RequiredScope[name]} ELSE {}

StatusSeen ==
    [d \in Delegations |-> IF Forwarded(d) THEN "granted"
                           ELSE IF pc[d] = "done" THEN "refused" ELSE "open"]
AuthoritySeen == [d \in Delegations |-> IF Forwarded(d) THEN carries[d] ELSE {}]
RootSeen == [d \in Delegations |-> IF Forwarded(d) THEN root[d] ELSE NoToken]
NeedsSeen ==
    [d \in Delegations |-> IF Forwarded(d) THEN Demand(CapabilityOf(d)) ELSE {}]

Promise == INSTANCE Attenuation
              WITH NoRoot    <- NoToken,
                   Demands   <- {Demand(c.capability) : c \in Calls},
                   status    <- StatusSeen,
                   authority <- AuthoritySeen,
                   root      <- RootSeen,
                   needs     <- NeedsSeen

\* The delegation path implements what Attenuation promises.
AttenuationSpec == Promise!Spec
=============================================================================
