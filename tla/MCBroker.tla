------------------------------- MODULE MCBroker -------------------------------
(* The broker with the shipped policy, and the coordinator's wide token next  *)
(* to tokens that hold less.                                                  *)
EXTENDS Broker, Deployment

CONSTANTS wide, lister, scopeless, d1, d2

MCBlank == ""
Padded == " records.read"
MCNames == {"", Padded, "https://specialist.agentid.local"}
             \cup DOMAIN REQUIRED_SCOPES \cup WIDE_SCOPES
MCTrimSpace == [n \in MCNames |-> IF n = Padded THEN "records.read" ELSE n]

MCRoots == {wide, lister, scopeless}
MCRootScope == [r \in MCRoots |-> CASE r = wide      -> WIDE_SCOPES
                                    [] r = lister    -> {"records:list"}
                                    [] r = scopeless -> {}]

\* The wide token alone.
WideRoot == {wide}
WideRootScope == [r \in WideRoot |-> WIDE_SCOPES]

Call(name, hops) == [capability |-> name, depth |-> hops]

\* Every way a call can end: served, unknown to the policy, without endpoint,
\* at and beyond its ceiling, malformed.
AllCalls == {Call("records.read", 0), Call("records.read", 1), Call(Padded, 0),
             Call("records.write", 0), Call("records.write", 1),
             Call("records.list", 0), Call("records.summarise", 3),
             Call("", 0), Call("records.read", -1)}

\* A call that sheds a scope, and one whose chain asks for what was shed.
ChainCalls == {Call("records.read", 0), Call("records.write", 0)}
=============================================================================
