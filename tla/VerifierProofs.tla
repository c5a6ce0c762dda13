----------------------------- MODULE VerifierProofs -----------------------------
(* Proofs about Verifier for any number of goroutines and keys and any times     *)
(* that satisfy VerifierAssumption.                                              *)
EXTENDS Verifier, TLAPS

\* The refresh lock: at most one goroutine fetches.
OneFetch ==
    \A p, q \in Procs :
        pc[p] \in {"fetching", "answered"} /\ pc[q] \in {"fetching", "answered"} => p = q

\* A fetch is in progress only when the debounce period is over, and the cache
\* has just been refreshed, by whomever, when refresh returns nil.
Debounced ==
    \A p \in Procs : /\ pc[p] \in {"fetching", "answered"} => age >= Debounce
                     /\ pc[p] = "refreshed" => age < Debounce

\* What a goroutine found before it waited is still there; or it has just been
\* dropped, and then nobody can fetch and the goroutine will find out.
FoundIsCached ==
    \A p \in Procs :
        /\ pc[p] = "idle" => ~found[p]
        /\ pc[p] = "waiting" /\ found[p] =>
              kid[p] \in keys \/ (LockFree /\ age = 0)
        /\ pc[p] \in {"fetching", "answered"} /\ found[p] => kid[p] \in keys

\* Where the cache, or an answer on its way, differs from what Thunder publishes,
\* Thunder has changed that key since the answer was made.
Tracks ==
    \A k \in Kids :
        /\ ~(k \in keys <=> k \in published) => since[k] <= age + FetchTimeout
        /\ \A p \in Procs :
              pc[p] = "answered" /\ ~(k \in snapshot[p] <=> k \in published) =>
                  since[k] <= fetchTime

IInv == TypeOK /\ OneFetch /\ Debounced /\ FoundIsCached /\ Tracks

LEMMA InitIInv == Init => IInv
BY VerifierAssumption, SMT DEF Init, IInv, TypeOK, OneFetch, Debounced, FoundIsCached,
   Tracks, Horizon, Results

LEMMA LaterIsBounded ==
    ASSUME NEW limit \in Nat, NEW clock \in 0 .. limit
    PROVE  /\ Later(clock, limit) \in 0 .. limit
           /\ clock <= Later(clock, limit) /\ Later(clock, limit) <= clock + 1
           /\ clock < limit => Later(clock, limit) = clock + 1
BY SMT DEF Later

\* What a tick does to the clocks.
LEMMA TickMovesClocks ==
    ASSUME TypeOK, Tick
    PROVE  /\ age' \in 0 .. TTL /\ age <= age'
           /\ age' = TTL \/ age' = age + 1
           /\ since' \in [Kids -> 0 .. Horizon]
           /\ \A k \in Kids : since'[k] <= since[k] + 1
<1> USE VerifierAssumption DEF TypeOK
<1>1. TTL \in Nat /\ Horizon \in Nat
      BY SMT DEF Horizon
<1>2. age' = Later(age, TTL) /\ since' = [k \in Kids |-> Later(since[k], Horizon)]
      BY DEF Tick
<1>3. age' \in 0 .. TTL /\ age <= age' /\ (age' = TTL \/ age' = age + 1)
      BY <1>1, <1>2, SMT DEF Later
<1>4. \A k \in Kids : Later(since[k], Horizon) \in 0 .. Horizon
                       /\ Later(since[k], Horizon) <= since[k] + 1
      BY <1>1, LaterIsBounded
<1> QED BY <1>2, <1>3, <1>4

LEMMA TypeStep == IInv /\ [Next]_vars => TypeOK'
<1> SUFFICES ASSUME IInv, [Next]_vars PROVE TypeOK'
    OBVIOUS
<1> USE VerifierAssumption DEF IInv, TypeOK, Results, Goto, cache, thunder, EndFetch
<1>1. ASSUME NEW p \in Procs, NEW k \in Kids, LookUp(p, k) PROVE TypeOK'
      BY <1>1, SMT DEF LookUp
<1>2. ASSUME NEW p \in Procs, CheckHealth(p) \/ Acquire(p) \/ ServeJWKS(p) PROVE TypeOK'
      BY <1>2, SMT DEF CheckHealth, Acquire, SkipRefresh, StartFetch, ServeJWKS
<1>3. ASSUME NEW p \in Procs, Store(p) \/ FetchFails(p) PROVE TypeOK'
      BY <1>3, SMT DEF Store, FetchFails
<1>4. ASSUME NEW p \in Procs, LookAgain(p) \/ Return(p) PROVE TypeOK'
  <2>1. CASE LookAgain(p)
        BY <2>1, SMT DEF LookAgain
  <2>2. CASE Return(p)
        BY <2>2, SMT DEF Return
  <2> QED BY <1>4, <2>1, <2>2
<1>5. ASSUME NEW k \in Kids, Rotate(k) PROVE TypeOK'
      BY <1>5, SMT DEF Rotate, Horizon
<1>6. CASE Tick
  <2>1. age' \in 0 .. TTL /\ since' \in [Kids -> 0 .. Horizon]
        BY <1>6, TickMovesClocks
  <2> QED BY <1>6, <2>1, SMT DEF Tick
<1>7. CASE UNCHANGED vars
      BY <1>7, SMT DEF vars
<1> QED BY <1>1, <1>2, <1>3, <1>4, <1>5, <1>6, <1>7 DEF Next, Step

LEMMA LockStep == IInv /\ [Next]_vars => OneFetch' /\ Debounced' /\ FoundIsCached'
<1> SUFFICES ASSUME IInv, [Next]_vars PROVE OneFetch' /\ Debounced' /\ FoundIsCached'
    OBVIOUS
<1> DEFINE Lock == OneFetch /\ Debounced /\ FoundIsCached
<1> USE VerifierAssumption DEF IInv, TypeOK, Results, Goto, cache, thunder, EndFetch,
        OneFetch, Debounced, FoundIsCached, LockFree
<1>1. ASSUME NEW p \in Procs, NEW k \in Kids, LookUp(p, k) PROVE Lock'
      BY <1>1, SMT DEF LookUp
<1>2. ASSUME NEW p \in Procs, CheckHealth(p) PROVE Lock'
      BY <1>2, SMT DEF CheckHealth
<1>3. ASSUME NEW p \in Procs, SkipRefresh(p) PROVE Lock'
      BY <1>3, SMT DEF SkipRefresh
<1>4. ASSUME NEW p \in Procs, StartFetch(p) PROVE Lock'
      BY <1>4, SMT DEF StartFetch
<1>5. ASSUME NEW p \in Procs, ServeJWKS(p) PROVE Lock'
      BY <1>5, SMT DEF ServeJWKS
<1>6. ASSUME NEW p \in Procs, Store(p) PROVE Lock'
      BY <1>6, SMT DEF Store
<1>7. ASSUME NEW p \in Procs, FetchFails(p) PROVE Lock'
      BY <1>7, SMT DEF FetchFails
<1>8. ASSUME NEW p \in Procs, LookAgain(p) \/ Return(p) PROVE Lock'
      BY <1>8, SMT DEF LookAgain, Return
<1>9. ASSUME NEW k \in Kids, Rotate(k) PROVE Lock'
      BY <1>9, SMT DEF Rotate
<1>10. CASE Tick
  <2>1. UNCHANGED <<keys, pc, kid, found>> /\ Idle
        BY <1>10 DEF Tick
  <2>2. age \in Int /\ age' \in Int /\ age <= age'
        BY <1>10, TickMovesClocks, SMT
  <2> QED BY <2>1, <2>2, SMT DEF Idle
<1>11. CASE UNCHANGED vars
      BY <1>11, SMT DEF vars
<1> QED BY <1>1, <1>2, <1>3, <1>4, <1>5, <1>6, <1>7, <1>8, <1>9, <1>10, <1>11
        DEF Next, Step, Acquire

LEMMA TracksStep == IInv /\ [Next]_vars => Tracks'
<1> SUFFICES ASSUME IInv, [Next]_vars PROVE Tracks'
    OBVIOUS
<1> USE VerifierAssumption DEF IInv, TypeOK, Goto, cache, thunder, EndFetch, Tracks, Horizon
<1>1. ASSUME NEW p \in Procs, NEW k \in Kids, LookUp(p, k) PROVE Tracks'
      BY <1>1, SMT DEF LookUp
<1>2. ASSUME NEW p \in Procs, CheckHealth(p) \/ Acquire(p) PROVE Tracks'
      BY <1>2, SMT DEF CheckHealth, Acquire, SkipRefresh, StartFetch
<1>3. ASSUME NEW p \in Procs, ServeJWKS(p) PROVE Tracks'
      BY <1>3, SMT DEF ServeJWKS
<1>4. ASSUME NEW p \in Procs, Store(p) PROVE Tracks'
      BY <1>4, SMT DEF Store, OneFetch
<1>5. ASSUME NEW p \in Procs, FetchFails(p) PROVE Tracks'
      BY <1>5, SMT DEF FetchFails, OneFetch
<1>6. ASSUME NEW p \in Procs, LookAgain(p) \/ Return(p) PROVE Tracks'
      BY <1>6, SMT DEF LookAgain, Return, Results
<1>7. ASSUME NEW k \in Kids, Rotate(k) PROVE Tracks'
      BY <1>7, SMT DEF Rotate
<1>8. CASE Tick
  <2> SUFFICES ASSUME NEW k \in Kids
               PROVE  /\ ~(k \in keys <=> k \in published) => since'[k] <= age' + FetchTimeout
                      /\ \A p \in Procs :
                            pc[p] = "answered" /\ ~(k \in snapshot[p] <=> k \in published) =>
                                since'[k] <= fetchTime'
      BY <1>8 DEF Tick
  <2>1. /\ age' = TTL \/ age' = age + 1
        /\ since'[k] \in 0 .. TTL + FetchTimeout /\ since'[k] <= since[k] + 1
        BY <1>8, TickMovesClocks
  <2>2. since[k] \in Int /\ age \in Int /\ fetchTime \in Int
        BY SMT
  <2>3. (\E p \in Procs : pc[p] = "answered") => fetchTime' = fetchTime + 1
        BY <1>8 DEF Tick, LockFree
  <2>4. ~(k \in keys <=> k \in published) => since'[k] <= age' + FetchTimeout
        BY <2>1, <2>2, SMT
  <2>5. ASSUME NEW p \in Procs, pc[p] = "answered",
               ~(k \in snapshot[p] <=> k \in published)
        PROVE  since'[k] <= fetchTime'
        BY <2>1, <2>2, <2>3, <2>5, SMT
  <2> QED BY <2>4, <2>5
<1>9. CASE UNCHANGED vars
      BY <1>9, SMT DEF vars
<1> QED BY <1>1, <1>2, <1>3, <1>4, <1>5, <1>6, <1>7, <1>8, <1>9 DEF Next, Step

LEMMA Invariance == Spec => []IInv
<1>1. IInv /\ [Next]_vars => IInv'
      BY TypeStep, LockStep, TracksStep DEF IInv
<1> QED BY <1>1, InitIInv, PTL DEF Spec

\* Type correctness; a fetch takes no longer than the client's timeout.
THEOREM VerifierTypeOK == Spec => []TypeOK
<1>1. IInv => TypeOK
      BY DEF IInv
<1> QED BY <1>1, Invariance, PTL

\* The cache is replaced at most once in a debounce period.
THEOREM RefreshesKeepTheirDistance == Spec => RefreshesAreSpacedOut
<1>1. IInv /\ [Next]_vars => [keys' # keys \/ age' < age => age >= Debounce]_vars
  <2> SUFFICES ASSUME IInv, Next, keys' # keys \/ age' < age PROVE age >= Debounce
      OBVIOUS
  <2> USE VerifierAssumption DEF IInv, TypeOK, cache, thunder, EndFetch, Goto
  <2>1. ASSUME NEW p \in Procs, Store(p) PROVE age >= Debounce
        BY <2>1 DEF Store, Debounced
  <2>2. age \in Int /\ ~(age < age)
        BY SMT
  <2>3. ~Tick
        BY LaterIsBounded, SMT DEF Tick
  <2> QED BY <2>1, <2>2, <2>3 DEF Next, Step, LookUp, CheckHealth, Acquire, SkipRefresh,
             StartFetch, ServeJWKS, FetchFails, LookAgain, Return, Rotate
<1> QED BY <1>1, Invariance, PTL DEF Spec, RefreshesAreSpacedOut

\* Who comes to a result with a key, or without one, does so by LookUp or LookAgain.
LEMMA WhoIsFresh ==
    ASSUME IInv, Next, NEW p \in Procs, Becomes(p, "fresh")
    PROVE  kid'[p] \in Kids /\ kid'[p] \in keys /\ age < TTL /\ published' = published
<1> USE VerifierAssumption DEF IInv, TypeOK, Becomes, Goto, cache, thunder, EndFetch, Results
<1>1. ASSUME NEW q \in Procs, NEW k \in Kids, LookUp(q, k)
      PROVE kid'[p] \in Kids /\ kid'[p] \in keys /\ age < TTL /\ published' = published
      BY <1>1, SMT DEF LookUp
<1>2. ASSUME NEW q \in Procs, LookAgain(q)
      PROVE kid'[p] \in Kids /\ kid'[p] \in keys /\ age < TTL /\ published' = published
      BY <1>2, SMT DEF LookAgain, Debounced
<1>3. ASSUME NEW q \in Procs,
             CheckHealth(q) \/ Acquire(q) \/ ServeJWKS(q) \/ Store(q) \/ FetchFails(q) \/ Return(q)
      PROVE FALSE
      BY <1>3, SMT DEF CheckHealth, Acquire, SkipRefresh, StartFetch, ServeJWKS, Store,
         FetchFails, Return
<1>4. ~Tick /\ \A k \in Kids : ~Rotate(k)
      BY SMT DEF Tick, Rotate
<1> QED BY <1>1, <1>2, <1>3, <1>4 DEF Next, Step

LEMMA WhoIsRefused ==
    ASSUME IInv, Next, NEW p \in Procs, Becomes(p, "refused")
    PROVE  kid[p] \in Kids /\ kid[p] \notin keys /\ age < Debounce
<1> USE VerifierAssumption DEF IInv, TypeOK, Becomes, Goto, cache, thunder, EndFetch, Results
<1>1. ASSUME NEW q \in Procs, LookAgain(q)
      PROVE kid[p] \in Kids /\ kid[p] \notin keys /\ age < Debounce
      BY <1>1, SMT DEF LookAgain, Debounced
<1>2. ASSUME NEW q \in Procs, NEW k \in Kids, LookUp(q, k) PROVE FALSE
      BY <1>2, SMT DEF LookUp
<1>3. ASSUME NEW q \in Procs,
             CheckHealth(q) \/ Acquire(q) \/ ServeJWKS(q) \/ Store(q) \/ FetchFails(q) \/ Return(q)
      PROVE FALSE
      BY <1>3, SMT DEF CheckHealth, Acquire, SkipRefresh, StartFetch, ServeJWKS, Store,
         FetchFails, Return
<1>4. ~Tick /\ \A k \in Kids : ~Rotate(k)
      BY SMT DEF Tick, Rotate
<1> QED BY <1>1, <1>2, <1>3, <1>4 DEF Next, Step

LEMMA WhoIsStale ==
    ASSUME IInv, Next, NEW p \in Procs, Becomes(p, "stale")
    PROVE  kid[p] \in keys
<1> USE DEF IInv, TypeOK, Becomes, Goto, cache, thunder, EndFetch, Results
<1>1. ASSUME NEW q \in Procs, FetchFails(q) PROVE kid[p] \in keys
      BY <1>1, SMT DEF FetchFails, FoundIsCached
<1>2. ASSUME NEW q \in Procs, NEW k \in Kids, LookUp(q, k) PROVE FALSE
      BY <1>2, SMT DEF LookUp
<1>3. ASSUME NEW q \in Procs,
             CheckHealth(q) \/ Acquire(q) \/ ServeJWKS(q) \/ Store(q) \/ LookAgain(q) \/ Return(q)
      PROVE FALSE
      BY <1>3, SMT DEF CheckHealth, Acquire, SkipRefresh, StartFetch, ServeJWKS, Store,
         LookAgain, Return
<1>4. ~Tick /\ \A k \in Kids : ~Rotate(k)
      BY SMT DEF Tick, Rotate
<1> QED BY <1>1, <1>2, <1>3, <1>4 DEF Next, Step

\* A withdrawn key is trusted for TTL + FetchTimeout at most while refreshes succeed.
THEOREM WithdrawnKeysGo == Spec => TrustIsTimely
<1>1. IInv /\ [Next]_vars =>
        [\A p \in Procs : Becomes(p, "fresh") =>
            \/ kid'[p] \in published
            \/ since[kid'[p]] < TTL + FetchTimeout]_vars
  <2> SUFFICES ASSUME IInv, Next, NEW p \in Procs, Becomes(p, "fresh"), kid'[p] \notin published
               PROVE since[kid'[p]] < TTL + FetchTimeout
      OBVIOUS
  <2>1. kid'[p] \in Kids /\ kid'[p] \in keys /\ age < TTL
        BY WhoIsFresh
  <2>2. since[kid'[p]] <= age + FetchTimeout
        BY <2>1 DEF IInv, Tracks
  <2>3. since[kid'[p]] \in Int /\ age \in Int
        BY <2>1, VerifierAssumption, SMT DEF IInv, TypeOK, Horizon
  <2> QED BY <2>1, <2>2, <2>3, VerifierAssumption, SMT
<1> QED BY <1>1, Invariance, PTL DEF Spec, TrustIsTimely

\* A published key is refused for Debounce + FetchTimeout at most.
THEOREM PublishedKeysCome == Spec => RefusalIsTimely
<1>1. IInv /\ [Next]_vars =>
        [\A p \in Procs : Becomes(p, "refused") =>
            \/ kid[p] \notin published
            \/ since[kid[p]] < Debounce + FetchTimeout]_vars
  <2> SUFFICES ASSUME IInv, Next, NEW p \in Procs, Becomes(p, "refused"), kid[p] \in published
               PROVE since[kid[p]] < Debounce + FetchTimeout
      OBVIOUS
  <2>1. kid[p] \in Kids /\ kid[p] \notin keys /\ age < Debounce
        BY WhoIsRefused
  <2>2. since[kid[p]] <= age + FetchTimeout
        BY <2>1 DEF IInv, Tracks
  <2>3. since[kid[p]] \in Int /\ age \in Int
        BY <2>1, VerifierAssumption, SMT DEF IInv, TypeOK, Horizon
  <2> QED BY <2>1, <2>2, <2>3, VerifierAssumption, SMT
<1> QED BY <1>1, Invariance, PTL DEF Spec, RefusalIsTimely

\* The key used when a refresh fails is one the cache still holds.
THEOREM StaleKeysAreCached == Spec => StaleKeyIsStillCached
<1>1. IInv /\ [Next]_vars => [\A p \in Procs : Becomes(p, "stale") => kid[p] \in keys]_vars
      BY WhoIsStale
<1> QED BY <1>1, Invariance, PTL DEF Spec, StaleKeyIsStillCached

\* Waits for the lock after a refresh that went well.
Overtaken(p) == pc[p] = "waiting" /\ LockFree /\ age = 0

\* jwks.go:197, as far as it holds: a fetch that succeeds serves everybody who
\* waited meanwhile, however many.  None of them fetches again.  (After one that
\* fails they do, see MCBurst.)
OneSuccessServesAll ==
    [][\A p \in Procs :
          /\ pc[p] = "waiting" /\ age' < age => Overtaken(p)'
          /\ Overtaken(p) => Overtaken(p)' \/ pc'[p] = "refreshed"]_vars

LEMMA WaitersAreOvertaken ==
    ASSUME IInv, Next, NEW p \in Procs, pc[p] = "waiting", age' < age
    PROVE  Overtaken(p)'
<1> USE VerifierAssumption DEF IInv, TypeOK, Goto, cache, thunder, EndFetch
<1>1. age \in Int /\ ~(age < age)
      BY SMT
<1>2. ~Tick
      BY <1>1, TickMovesClocks, SMT
<1>3. PICK q \in Procs : Store(q)
      BY <1>1, <1>2 DEF Next, Step, LookUp, CheckHealth, Acquire, SkipRefresh, StartFetch,
         ServeJWKS, FetchFails, LookAgain, Return, Rotate
<1> QED BY <1>3 DEF Store, Overtaken, LockFree, OneFetch

LEMMA OvertakenIsServed ==
    ASSUME IInv, Next, NEW p \in Procs, Overtaken(p)
    PROVE  Overtaken(p)' \/ pc'[p] = "refreshed"
<1> USE VerifierAssumption DEF IInv, TypeOK, Goto, cache, thunder, EndFetch, Overtaken, LockFree
<1>1. ASSUME NEW q \in Procs, NEW k \in Kids, LookUp(q, k)
      PROVE  Overtaken(p)' \/ pc'[p] = "refreshed"
      BY <1>1 DEF LookUp
<1>2. ASSUME NEW q \in Procs, CheckHealth(q) \/ SkipRefresh(q) \/ LookAgain(q) \/ Return(q)
      PROVE  Overtaken(p)' \/ pc'[p] = "refreshed"
      BY <1>2 DEF CheckHealth, SkipRefresh, LookAgain, Return, Results
<1>3. ASSUME NEW q \in Procs, StartFetch(q) \/ ServeJWKS(q) \/ Store(q) \/ FetchFails(q)
      PROVE  FALSE
      BY <1>3, SMT DEF StartFetch, ServeJWKS, Store, FetchFails
<1>4. ASSUME NEW k \in Kids, Rotate(k)
      PROVE  Overtaken(p)' \/ pc'[p] = "refreshed"
      BY <1>4 DEF Rotate
<1>5. ~Tick
      BY DEF Tick, Idle
<1> QED BY <1>1, <1>2, <1>3, <1>4, <1>5 DEF Next, Step, Acquire

\* Any number of goroutines: a burst of unknown kids causes one successful fetch.
THEOREM BurstsCauseOneSuccess == Spec => OneSuccessServesAll
<1>1. IInv /\ [Next]_vars =>
        [\A p \in Procs :
            /\ pc[p] = "waiting" /\ age' < age => Overtaken(p)'
            /\ Overtaken(p) => Overtaken(p)' \/ pc'[p] = "refreshed"]_vars
      BY WaitersAreOvertaken, OvertakenIsServed
<1> QED BY <1>1, Invariance, PTL DEF Spec, OneSuccessServesAll

=================================================================================
