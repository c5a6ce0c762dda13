------------------------------ MODULE MCLifecycle ------------------------------
(* Lifecycle with the environments that matter: every way the configuration   *)
(* can be refused, every kind of tracer, and timeouts that fit into the grace  *)
(* period, that exceed it, and that are no timeouts at all.                    *)
EXTENDS Lifecycle

Env(thunder, forward, collector) ==
    [complete |-> TRUE, policy |-> "embedded", collector |-> collector,
     thunder |-> thunder, forward |-> forward]

Good == Env(1, 1, "built")

SomeEnvironments ==
    {Good, Env(1, Unset, "built"), Env(Unset, 1, "unbuildable"), Env(1, 1, "none"),
     Env(0, 1, "none"), Env(1, -1, "none"),
     Env(NotADuration, 1, "none"), Env(1, NotADuration, "none")}
    \cup {[Good EXCEPT !.policy = p] : p \in {"file", "broken"}}
    \cup {[Good EXCEPT !.complete = FALSE]}
================================================================================
