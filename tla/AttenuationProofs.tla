-------------------------- MODULE AttenuationProofs --------------------------
EXTENDS Attenuation, TLAPS

AllScopes == UNION {RootScope[r] : r \in Roots}

LEMMA HeldType ==
    ASSUME TypeOK, NEW t \in Presentable
    PROVE  Held(t) \subseteq AllScopes /\ RootOf(t) \in Roots \cup {NoRoot}
BY DEF TypeOK, Presentable, Held, RootOf, AllScopes

\* Attenuation is well typed.
THEOREM AttenuationTypeOK == Spec => []TypeOK
<1>1. Init => TypeOK
  BY DEF Init, TypeOK
<1>2. TypeOK /\ [Next]_vars => TypeOK'
  <2> SUFFICES ASSUME TypeOK, [Next]_vars PROVE TypeOK'
    OBVIOUS
  <2>1. ASSUME NEW d \in Delegations, NEW from \in Presentable, NEW demand \in Demands,
               NEW scopes \in SUBSET Held(from), Grant(d, from, scopes, demand)
        PROVE  TypeOK'
    BY <2>1, HeldType DEF TypeOK, Grant, AllScopes
  <2>2. ASSUME NEW d \in Delegations, Refuse(d) PROVE TypeOK'
    BY <2>2 DEF TypeOK, Refuse
  <2>3. ASSUME NEW d \in Delegations, Perform(d) PROVE TypeOK'
    BY <2>3 DEF TypeOK, Perform
  <2>4. CASE UNCHANGED vars
    BY <2>4 DEF TypeOK, vars
  <2> QED
    BY <2>1, <2>2, <2>3, <2>4 DEF Next
<1> QED
  BY <1>1, <1>2, PTL DEF Spec

\* What a granted delegation holds its root holds too; this is what makes
\* PerformedWithinRoot inductive.
GrantedWithinRoot ==
    \A d \in Delegations : status[d] = "granted" =>
        root[d] \in Roots /\ authority[d] \subseteq RootScope[root[d]]

PerformedIsGranted ==
    \A d \in performed : status[d] = "granted" /\ needs[d] \subseteq authority[d]

IInv == TypeOK /\ GrantedWithinRoot /\ PerformedIsGranted

\* However long the chain, work is done only under authority its root had.
THEOREM AuthorityStaysWithinRoot == Spec => []PerformedWithinRoot
<1>1. Init => IInv
  BY DEF Init, IInv, TypeOK, GrantedWithinRoot, PerformedIsGranted
<1>2. IInv /\ TypeOK' /\ [Next]_vars => IInv'
  <2> SUFFICES ASSUME IInv, TypeOK', [Next]_vars
               PROVE  GrantedWithinRoot' /\ PerformedIsGranted'
    BY DEF IInv
  <2> USE DEF IInv
  <2>1. ASSUME NEW d \in Delegations, NEW from \in Presentable, NEW demand \in Demands,
               NEW scopes \in SUBSET Held(from), Grant(d, from, scopes, demand)
        PROVE  GrantedWithinRoot' /\ PerformedIsGranted'
    <3>1. RootOf(from) \in Roots /\ scopes \subseteq RootScope[RootOf(from)]
      BY DEF GrantedWithinRoot, Presentable, Held, RootOf
    <3>2. GrantedWithinRoot'
      BY <2>1, <3>1 DEF GrantedWithinRoot, Grant, TypeOK
    <3>3. d \notin performed
      BY <2>1 DEF Grant, PerformedIsGranted
    <3>4. PerformedIsGranted'
      BY <2>1, <3>3 DEF PerformedIsGranted, Grant, TypeOK
    <3> QED
      BY <3>2, <3>4
  <2>2. ASSUME NEW d \in Delegations, Refuse(d)
        PROVE  GrantedWithinRoot' /\ PerformedIsGranted'
    BY <2>2 DEF GrantedWithinRoot, PerformedIsGranted, Refuse, TypeOK
  <2>3. ASSUME NEW d \in Delegations, Perform(d)
        PROVE  GrantedWithinRoot' /\ PerformedIsGranted'
    BY <2>3 DEF GrantedWithinRoot, PerformedIsGranted, Perform, TypeOK
  <2>4. CASE UNCHANGED vars
    BY <2>4 DEF GrantedWithinRoot, PerformedIsGranted, vars
  <2> QED
    BY <2>1, <2>2, <2>3, <2>4 DEF Next
<1>3. IInv => PerformedWithinRoot
  BY DEF IInv, TypeOK, GrantedWithinRoot, PerformedIsGranted, PerformedWithinRoot
<1> QED
  BY <1>1, <1>2, <1>3, AttenuationTypeOK, PTL DEF Spec
=============================================================================
