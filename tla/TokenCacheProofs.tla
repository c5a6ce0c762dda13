---------------------------- MODULE TokenCacheProofs ----------------------------
(* Proofs about TokenCache for any number of threads and any durations that     *)
(* satisfy TokenCacheAssumption.                                                *)
EXTENDS TokenCache, TLAPS

\* The lock: at most one thread renews.
OneRenewal ==
    \A t, u \in Threads :
        pc[t] \in {"requesting", "answered"} /\ pc[u] \in {"requesting", "answered"} => t = u

\* A token on its way from Thunder has lost no more than the answer has taken,
\* and it is not older than the cached one.
IssuedIsFresh ==
    \A t \in Threads : pc[t] = "answered" =>
        /\ spent[t] <= AnswerTime
        /\ issued[t] + spent[t] >= Lifetime
        /\ cached <= issued[t]

\* What a token in use has left and what the call has taken add up to more than the
\* margin less the time of an answer.
HeldLasts ==
    \A t \in Threads : pc[t] = "calling" => held[t] + spent[t] > Margin - AnswerTime

IInv == TypeOK /\ OneRenewal /\ IssuedIsFresh /\ HeldLasts /\ BeliefIsClose

LEMMA InitIInv == Init => IInv
BY TokenCacheAssumption, SMT DEF Init, IInv, TypeOK, OneRenewal, IssuedIsFresh, HeldLasts,
   BeliefIsClose, Times, Results

LEMMA TypeStep == IInv /\ [Next]_vars => TypeOK'
<1> SUFFICES ASSUME IInv, [Next]_vars PROVE TypeOK'
    OBVIOUS
<1> USE TokenCacheAssumption DEF IInv, TypeOK, IssuedIsFresh, HeldLasts, Times, Results, Goto, cache
<1>1. ASSUME NEW t \in Threads, Delegate(t) PROVE TypeOK'
      BY <1>1, SMT DEF Delegate
<1>2. ASSUME NEW t \in Threads, Get(t) PROVE TypeOK'
      BY <1>2, SMT DEF Get, Hit, Unconfigured, Request, CallWith
<1>3. ASSUME NEW t \in Threads, Issue(t) PROVE TypeOK'
      BY <1>3, SMT DEF Issue
<1>4. ASSUME NEW t \in Threads, Store(t) PROVE TypeOK'
      BY <1>4, SMT DEF Store, CallWith
<1>5. ASSUME NEW t \in Threads, StoreTorn(t) \/ RequestFails(t) PROVE TypeOK'
      BY <1>5, SMT DEF StoreTorn, RequestFails
<1>6. ASSUME NEW t \in Threads, Check(t) \/ CallFails(t) \/ Return(t) PROVE TypeOK'
      BY <1>6, SMT DEF Check, CallFails, Return
<1>7. CASE Tick
  <2>1. \A n \in Times : Less(n) \in Times
        BY SMT DEF Less
  <2>2. ASSUME NEW t \in Threads
        PROVE  /\ spent'[t] \in Nat
               /\ pc[t] = "answered" => spent'[t] <= AnswerTime
               /\ pc[t] = "calling" => spent'[t] <= CallTime
        BY <1>7, SMT DEF Tick, AnswerOverdue, CallOverdue
  <2> QED BY <1>7, <2>1, <2>2, SMT DEF Tick
<1>8. CASE UNCHANGED vars
      BY <1>8, SMT DEF vars
<1> QED BY <1>1, <1>2, <1>3, <1>4, <1>5, <1>6, <1>7, <1>8 DEF Next

LEMMA RestStep ==
    IInv /\ [Next]_vars => OneRenewal' /\ IssuedIsFresh' /\ HeldLasts' /\ BeliefIsClose'
<1> DEFINE Rest == OneRenewal /\ IssuedIsFresh /\ HeldLasts /\ BeliefIsClose
<1> SUFFICES ASSUME IInv, [Next]_vars PROVE Rest'
    OBVIOUS
<1> USE TokenCacheAssumption DEF IInv, TypeOK, OneRenewal, IssuedIsFresh, HeldLasts,
        BeliefIsClose, Times, Results, Goto, cache
<1>1. ASSUME NEW t \in Threads, Delegate(t) PROVE Rest'
      BY <1>1, SMT DEF Delegate
<1>2. ASSUME NEW t \in Threads, Get(t) PROVE Rest'
  <2>1. CASE Hit(t)
        BY <2>1, SMT DEF Hit, CallWith, Usable
  <2>2. CASE Unconfigured(t)
        BY <2>2, SMT DEF Unconfigured
  <2>3. CASE Request(t)
        BY <2>3, SMT DEF Request, LockFree
  <2> QED BY <1>2, <2>1, <2>2, <2>3 DEF Get
<1>3. ASSUME NEW t \in Threads, Issue(t) PROVE Rest'
      BY <1>3, SMT DEF Issue
<1>4. ASSUME NEW t \in Threads, Store(t) PROVE Rest'
      BY <1>4, SMT DEF Store, CallWith
<1>5. ASSUME NEW t \in Threads, StoreTorn(t) PROVE Rest'
      BY <1>5, SMT DEF StoreTorn
<1>6. ASSUME NEW t \in Threads, RequestFails(t) PROVE Rest'
      BY <1>6, SMT DEF RequestFails
<1>7. ASSUME NEW t \in Threads, Check(t) PROVE Rest'
      BY <1>7, SMT DEF Check
<1>8. ASSUME NEW t \in Threads, CallFails(t) \/ Return(t) PROVE Rest'
      BY <1>8, SMT DEF CallFails, Return
<1>9. CASE Tick
  <2>1. /\ UNCHANGED pc
        /\ \A t \in Threads :
              /\ issued'[t] = Less(issued[t]) /\ held'[t] = Less(held[t])
              /\ pc[t] \in {"answered", "calling"} => spent'[t] = spent[t] + 1
              /\ pc[t] = "answered" => ~(spent[t] >= AnswerTime)
        /\ cached' = Less(cached) /\ believed' = Less(believed)
        BY <1>9 DEF Tick, AnswerOverdue
  <2>2. OneRenewal'
        BY <2>1
  <2>3. IssuedIsFresh'
        BY <2>1, SMT DEF Less
  <2>4. HeldLasts'
        BY <2>1, SMT DEF Less
  <2>5. BeliefIsClose'
        BY <2>1, SMT DEF Less
  <2> QED BY <2>2, <2>3, <2>4, <2>5
<1>10. CASE UNCHANGED vars
      BY <1>10, SMT DEF vars
<1> QED BY <1>1, <1>2, <1>3, <1>4, <1>5, <1>6, <1>7, <1>8, <1>9, <1>10 DEF Next

LEMMA Invariance == Spec => []IInv
<1>1. IInv /\ [Next]_vars => IInv'
      BY TypeStep, RestStep DEF IInv
<1> QED BY <1>1, InitIInv, PTL DEF Spec

\* Type correctness; a request or a call never takes longer than its limit.
THEOREM TokenCacheTypeOK == Spec => []TypeOK
<1>1. IInv => TypeOK
      BY DEF IInv
<1> QED BY <1>1, Invariance, PTL

\* app.py:78: however long a call may last, its token expires only if the call has
\* taken longer than the margin less an answer's time.
THEOREM TokensLastTheMargin == Spec => ExpiresOnlyIfSlow
<1>1. IInv /\ [Next]_vars =>
        [\A t \in Threads :
            pc[t] = "calling" /\ pc'[t] = "expired" => spent[t] > Margin - AnswerTime]_vars
  <2> SUFFICES ASSUME IInv, Next, NEW t \in Threads, pc[t] = "calling", pc'[t] = "expired"
               PROVE  spent[t] > Margin - AnswerTime
      OBVIOUS
  <2> USE DEF IInv, TypeOK, Goto
  <2>1. Check(t)
        BY DEF Next, Get, Delegate, Hit, Unconfigured, Request, CallWith, Issue, Store,
           StoreTorn, RequestFails, Check, CallFails, Return, Tick
  <2>2. ~(held[t] > 0)
        BY <2>1 DEF Check
  <2> QED BY <2>2, TokenCacheAssumption, SMT DEF HeldLasts, Times
<1> QED BY <1>1, Invariance, PTL DEF Spec, ExpiresOnlyIfSlow

\* The coordinator overestimates the cached token by an answer's time at most.
THEOREM BeliefStaysClose == Spec => []BeliefIsClose
<1>1. IInv => BeliefIsClose
      BY DEF IInv
<1> QED BY <1>1, Invariance, PTL

\* No older token replaces a newer one in the cache.
THEOREM RenewalsStayInOrder == Spec => RenewalsAreInOrder
<1>1. IInv /\ [Next]_vars => [pc' # pc => cached' >= cached]_vars
  <2> SUFFICES ASSUME IInv, Next, pc' # pc PROVE cached' >= cached
      OBVIOUS
  <2> USE DEF IInv, TypeOK, IssuedIsFresh, Times, Goto, cache
  <2>1. ASSUME NEW t \in Threads, Store(t) \/ StoreTorn(t) PROVE cached' >= cached
        BY <2>1, TokenCacheAssumption, SMT DEF Store, StoreTorn, CallWith
  <2>2. ASSUME cached' = cached PROVE cached' >= cached
        BY <2>2, TokenCacheAssumption, SMT
  <2> QED BY <2>1, <2>2 DEF Next, Get, Delegate, Hit, Unconfigured, Request, CallWith, Issue,
             RequestFails, Check, CallFails, Return, Tick
<1> QED BY <1>1, Invariance, PTL DEF Spec, RenewalsAreInOrder

\* Waits for the lock while the cache has a token to use.
Overtaken(t) == pc[t] = "waiting" /\ LockFree /\ Usable

\* app.py:76: a renewal that succeeds serves every thread that waited meanwhile:
\* each goes on with the token then cached and none asks Thunder for another.
OneRenewalServesAll ==
    [][\A t \in Threads :
          /\ pc[t] = "waiting" /\ believed' > believed => Overtaken(t)'
          /\ Overtaken(t) =>
                \/ Overtaken(t)'
                \/ pc'[t] = "calling" /\ held'[t] = cached]_vars

LEMMA WaitersAreOvertaken ==
    ASSUME IInv, Next, NEW t \in Threads, pc[t] = "waiting", believed' > believed
    PROVE  Overtaken(t)'
<1> USE TokenCacheAssumption DEF IInv, TypeOK, Goto, cache, Times
<1>1. believed \in Int /\ ~(believed > believed)
      BY SMT
<1>2. ~Tick
      BY <1>1, SMT DEF Tick, Less
<1>3. PICK u \in Threads : Store(u)
      BY <1>1, <1>2 DEF Next, Get, Delegate, Hit, Unconfigured, Request, CallWith, Issue,
         StoreTorn, RequestFails, Check, CallFails, Return
<1> QED BY <1>3, SMT DEF Store, CallWith, Overtaken, LockFree, Usable, OneRenewal

LEMMA OvertakenIsServed ==
    ASSUME IInv, Next, NEW t \in Threads, Overtaken(t)
    PROVE  \/ Overtaken(t)'
           \/ pc'[t] = "calling" /\ held'[t] = cached
<1> USE DEF IInv, TypeOK, Goto, cache, Overtaken, LockFree, Usable
<1>1. ASSUME NEW u \in Threads,
             Delegate(u) \/ Hit(u) \/ Check(u) \/ CallFails(u) \/ Return(u)
      PROVE  \/ Overtaken(t)'
             \/ pc'[t] = "calling" /\ held'[t] = cached
      BY <1>1 DEF Delegate, Hit, CallWith, Check, CallFails, Return, Results
<1>2. ASSUME NEW u \in Threads,
             \/ Unconfigured(u) \/ Request(u)
             \/ Issue(u) \/ Store(u) \/ StoreTorn(u) \/ RequestFails(u)
      PROVE  FALSE
      BY <1>2 DEF Unconfigured, Request, Issue, Store, StoreTorn, RequestFails
<1>3. ~Tick
      BY DEF Tick
<1> QED BY <1>1, <1>2, <1>3 DEF Next, Get

\* Any number of threads: a burst of delegations causes one successful renewal.
THEOREM BurstsCauseOneRenewal == Spec => OneRenewalServesAll
<1>1. IInv /\ [Next]_vars =>
        [\A t \in Threads :
            /\ pc[t] = "waiting" /\ believed' > believed => Overtaken(t)'
            /\ Overtaken(t) =>
                  \/ Overtaken(t)'
                  \/ pc'[t] = "calling" /\ held'[t] = cached]_vars
      BY WaitersAreOvertaken, OvertakenIsServed
<1> QED BY <1>1, Invariance, PTL DEF Spec, OneRenewalServesAll

=================================================================================
