------------------------------ MODULE Deployment ------------------------------
(***************************************************************************)
(* The data the demonstration ships with: the policy the broker embeds, the *)
(* scope each of the specialist's endpoints demands and the scopes the      *)
(* coordinator is registered for.                                           *)
(***************************************************************************)

Unlimited(scope) == [name |-> scope, maxDepth |-> 0]
Upto(scope, depth) == [name |-> scope, maxDepth |-> depth]

\* policy.json, embedded by embed.go.
EmbeddedPolicy ==
    [version      |-> 1,
     resource     |-> "https://specialist.agentid.local",
     maxDepth     |-> 3,
     capabilities |->
        [name \in {"records.read", "records.write", "records.summarise"} |->
            CASE name = "records.read" ->
                    [scopes |-> {Unlimited("records:read"), Upto("records:list", 1)},
                     maxDepth |-> 0]
              [] name = "records.write" ->
                    [scopes |-> {Unlimited("records:write")}, maxDepth |-> 1]
              [] name = "records.summarise" ->
                    [scopes |-> {Unlimited("records:read")}, maxDepth |-> 0]]]

\* REQUIRED_SCOPES of auth.py: one entry for every capability endpoint.
REQUIRED_SCOPES ==
    [name \in {"records.read", "records.list", "records.write",
               "records.summarise"} |->
        CASE name = "records.list"  -> "records:list"
          [] name = "records.write" -> "records:write"
          [] OTHER                  -> "records:read"]

\* WIDE_SCOPES of the coordinator.
WIDE_SCOPES == {"records:read", "records:list", "records:write"}
=============================================================================
