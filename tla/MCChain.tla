------------------------------- MODULE MCChain -------------------------------
(* Chains under every small policy: two capabilities, one of which ranges    *)
(* over all rule sets of at most two rules on two scopes with limits 0..2.   *)
EXTENDS Chain, FiniteSetsExt, TLC

MCBlank == ""
MCNames == {"", "cap", " cap", "other", "s", " s", "t", "resource"}
MCTrimSpace ==
    [n \in MCNames |-> CASE n = " cap" -> "cap" [] n = " s" -> "s" [] OTHER -> n]

Rules == {[name |-> n, maxDepth |-> d] : n \in {"s", "t"}, d \in 0 .. 2}
PaddedRule == [name |-> " s", maxDepth |-> 0]
RuleSets == kSubset(1, Rules) \cup kSubset(2, Rules)
              \cup {{PaddedRule}, {PaddedRule, [name |-> "t", maxDepth |-> 1]}, {}}

MCPolicies ==
    {[version |-> 1, resource |-> "resource", maxDepth |-> m,
      capabilities |-> (k :> [scopes |-> rules, maxDepth |-> c]
                        @@ "other" :> [scopes |-> {[name |-> "s", maxDepth |-> o]},
                                       maxDepth |-> 0])] :
        k \in {"cap", " cap"}, m \in {-1, 0, 2}, c \in {-1, 0, 1, 2},
        rules \in RuleSets, o \in {0, 1}}

MCHoldings == {{"s"}, {"t"}, {"s", "t"}, {" s", "t"}, {""}}
=============================================================================
