---------------------------- MODULE Attenuation ----------------------------
(***************************************************************************)
(* What the delegation path promises, with the stages of a delegation left *)
(* out.  A delegation is granted authority once or refused for good.  The  *)
(* authority granted is part of what the presenter holds, and work is done *)
(* only under a granted delegation whose authority covers it.              *)
(***************************************************************************)
CONSTANTS Delegations,  \* delegations, each naming the credential it is granted
          Roots,        \* credentials that exist from the start
          RootScope,    \* the authority of each root
          NoRoot,       \* of a delegation that was granted nothing
          Demands       \* what work can require: sets of scopes

VARIABLES status,     \* of each delegation: open, granted or refused
          authority,  \* what each granted delegation holds
          root,       \* where its chain starts
          needs,      \* what its work requires
          performed   \* the delegations whose work was done

vars == <<status, authority, root, needs, performed>>

Held(t) == IF t \in Roots THEN RootScope[t] ELSE authority[t]
RootOf(t) == IF t \in Roots THEN t ELSE root[t]

Presentable == Roots \cup {d \in Delegations : status[d] = "granted"}

Init ==
    /\ status = [d \in Delegations |-> "open"]
    /\ authority = [d \in Delegations |-> {}]
    /\ root = [d \in Delegations |-> NoRoot]
    /\ needs = [d \in Delegations |-> {}]
    /\ performed = {}

Grant(d, from, scopes, demand) ==
    /\ status[d] = "open"
    /\ scopes # {}
    /\ scopes \subseteq Held(from)
    /\ status' = [status EXCEPT ![d] = "granted"]
    /\ authority' = [authority EXCEPT ![d] = scopes]
    /\ root' = [root EXCEPT ![d] = RootOf(from)]
    /\ needs' = [needs EXCEPT ![d] = demand]
    /\ UNCHANGED performed

Refuse(d) ==
    /\ status[d] = "open"
    /\ status' = [status EXCEPT ![d] = "refused"]
    /\ UNCHANGED <<authority, root, needs, performed>>

\* An empty demand is no work at all: nothing serves it.
Perform(d) ==
    /\ status[d] = "granted"
    /\ needs[d] # {}
    /\ needs[d] \subseteq authority[d]
    /\ performed' = performed \cup {d}
    /\ UNCHANGED <<status, authority, root, needs>>

Next ==
    \E d \in Delegations :
        \/ \E from \in Presentable, demand \in Demands :
              \E scopes \in SUBSET Held(from) : Grant(d, from, scopes, demand)
        \/ Refuse(d)
        \/ Perform(d)

Spec == Init /\ [][Next]_vars

-----------------------------------------------------------------------------
TypeOK ==
    /\ status \in [Delegations -> {"open", "granted", "refused"}]
    /\ authority \in [Delegations -> SUBSET UNION {RootScope[r] : r \in Roots}]
    /\ root \in [Delegations -> Roots \cup {NoRoot}]
    /\ needs \in [Delegations -> {{}} \cup Demands]
    /\ performed \in SUBSET Delegations

\* Work is done only if the authority it requires was held at the root of the
\* chain, however many delegations lie in between.
PerformedWithinRoot ==
    \A d \in performed : needs[d] \subseteq RootScope[root[d]]
=============================================================================
