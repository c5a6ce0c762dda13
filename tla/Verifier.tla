------------------------------- MODULE Verifier -------------------------------
(***************************************************************************)
(* The cache of ThunderID's signing keys (src/broker/jwks.go), shared by    *)
(* the goroutines that verify tokens and those that answer health checks,   *)
(* while Thunder publishes and withdraws keys.                              *)
(*                                                                          *)
(* Time is counted in ticks and every clock saturates, so the state space   *)
(* is finite without a bound on time.  A tick passes only while no          *)
(* goroutine can take a step of its own: computing takes no time, waiting   *)
(* for Thunder and for the refresh lock does.                               *)
(***************************************************************************)
EXTENDS Integers

CONSTANTS Procs,         \* goroutines of the HTTP server
          Kids,          \* key identifiers
          NoKid,         \* of a health check, which asks for no key
          TTL,           \* Verifier.ttl, one hour
          Debounce,      \* the 30 seconds of refresh
          FetchTimeout   \* THUNDER_TIMEOUT, the client's limit

ASSUME VerifierAssumption ==
    /\ NoKid \notin Kids
    /\ TTL \in Nat /\ Debounce \in Nat /\ FetchTimeout \in Nat
    /\ 0 < Debounce /\ Debounce < TTL

VARIABLES keys,       \* Verifier.keys: the kids of the cached keys
          age,        \* time since fetchedAt, at most TTL
          pc,         \* where each goroutine is in key or refresh
          kid,        \* what it looks for
          found,      \* the ok it read before releasing the read lock
          snapshot,   \* the keys in the answer Thunder has sent it
          fetchTime,  \* how long the fetch in progress has taken
          published,  \* Thunder: the keys it publishes
          since       \* Thunder: time since a key was published or withdrawn

cache == <<keys, age>>
thunder == <<published, since>>
vars == <<keys, age, pc, kid, found, snapshot, fetchTime, published, since>>

\* A clock beyond this value says no more than at it.
Horizon == TTL + FetchTimeout

Results == {"fresh", "stale", "refused", "unavailable", "healthy"}

Later(clock, limit) == IF clock < limit THEN clock + 1 ELSE limit

Init ==
    /\ keys = {}
    /\ age = TTL          \* the zero time.Time is longer ago than any limit
    /\ pc = [p \in Procs |-> "idle"]
    /\ kid = [p \in Procs |-> NoKid]
    /\ found = [p \in Procs |-> FALSE]
    /\ snapshot = [p \in Procs |-> {}]
    /\ fetchTime = 0
    /\ published \in SUBSET Kids
    /\ since = [k \in Kids |-> Horizon]

Goto(p, label) == pc' = [pc EXCEPT ![p] = label]

\* Mutant: the time to live is never looked at.
LookUpIgnoringAge(p, k) ==
    /\ pc[p] = "idle"
    /\ kid' = [kid EXCEPT ![p] = k]
    /\ found' = [found EXCEPT ![p] = k \in keys]
    /\ Goto(p, IF k \in keys THEN "fresh" ELSE "waiting")
    /\ UNCHANGED <<cache, thunder, snapshot, fetchTime>>

\* key: one look at the cache under the read lock.
LookUp(p, k) ==
    /\ pc[p] = "idle"
    /\ kid' = [kid EXCEPT ![p] = k]
    /\ found' = [found EXCEPT ![p] = k \in keys]
    /\ Goto(p, IF k \in keys /\ age < TTL THEN "fresh" ELSE "waiting")
    /\ UNCHANGED <<cache, thunder, snapshot, fetchTime>>

\* handleHealth: Refresh, without a key to look up.
CheckHealth(p) ==
    /\ pc[p] = "idle"
    /\ Goto(p, "waiting")
    /\ UNCHANGED <<cache, thunder, kid, found, snapshot, fetchTime>>

\* Mutant: no refresh lock.
LockAlwaysFree == TRUE

\* refreshLock is held by whoever is fetching.
LockFree == \A p \in Procs : pc[p] \notin {"fetching", "answered"}

\* refresh gets the lock and returns nil: someone else has just refreshed.
SkipRefresh(p) ==
    /\ pc[p] = "waiting"
    /\ LockFree
    /\ age < Debounce
    /\ Goto(p, "refreshed")
    /\ UNCHANGED <<cache, thunder, kid, found, snapshot, fetchTime>>

\* Mutant: fetchedAt is not looked at again under the lock.
StartFetchRegardless(p) ==
    /\ pc[p] = "waiting"
    /\ LockFree
    /\ Goto(p, "fetching")
    /\ UNCHANGED <<cache, thunder, kid, found, snapshot, fetchTime>>

StartFetch(p) ==
    /\ pc[p] = "waiting"
    /\ LockFree
    /\ age >= Debounce
    /\ Goto(p, "fetching")
    /\ UNCHANGED <<cache, thunder, kid, found, snapshot, fetchTime>>

Acquire(p) == SkipRefresh(p) \/ StartFetch(p)

\* Thunder answers with what it publishes at that moment.
ServeJWKS(p) ==
    /\ pc[p] = "fetching"
    /\ snapshot' = [snapshot EXCEPT ![p] = published]
    /\ Goto(p, "answered")
    /\ UNCHANGED <<cache, thunder, kid, found, fetchTime>>

EndFetch(p, label) ==
    /\ Goto(p, label)
    /\ snapshot' = [snapshot EXCEPT ![p] = {}]
    /\ fetchTime' = 0

\* The answer held a usable key: it replaces the whole cache.
Store(p) ==
    /\ pc[p] = "answered"
    /\ snapshot[p] # {}
    /\ keys' = snapshot[p]
    /\ age' = 0
    /\ EndFetch(p, "refreshed")
    /\ UNCHANGED <<thunder, kid, found>>

\* Mutant: a failed fetch counts as a refresh.
FetchFailsStamped(p) ==
    /\ pc[p] \in {"fetching", "answered"}
    /\ EndFetch(p, IF found[p] THEN "stale" ELSE "unavailable")
    /\ age' = 0
    /\ UNCHANGED <<keys, thunder, kid, found>>

\* Mutant: without a timeout only an answer ends a fetch.
FetchFailsOnAnswer(p) ==
    /\ pc[p] = "answered"
    /\ EndFetch(p, IF found[p] THEN "stale" ELSE "unavailable")
    /\ UNCHANGED <<cache, thunder, kid, found>>

\* A transport error, a status other than 200, an undecodable body, no usable
\* key, the timeout, or the caller gone: the cache stays as it is.  key falls
\* back on the key it saw before, if it saw one.
FetchFails(p) ==
    /\ pc[p] \in {"fetching", "answered"}
    /\ EndFetch(p, IF found[p] THEN "stale" ELSE "unavailable")
    /\ UNCHANGED <<cache, thunder, kid, found>>

\* key looks again after refresh returned nil; a health check is content.
LookAgain(p) ==
    /\ pc[p] = "refreshed"
    /\ Goto(p, IF kid[p] = NoKid THEN "healthy"
               ELSE IF kid[p] \in keys THEN "fresh" ELSE "refused")
    /\ UNCHANGED <<cache, thunder, kid, found, snapshot, fetchTime>>

\* The goroutine goes on with its result.
Return(p) ==
    /\ pc[p] \in Results
    /\ Goto(p, "idle")
    /\ kid' = [kid EXCEPT ![p] = NoKid]
    /\ found' = [found EXCEPT ![p] = FALSE]
    /\ UNCHANGED <<cache, thunder, snapshot, fetchTime>>

-----------------------------------------------------------------------------
\* Thunder publishes a key or withdraws one.
Rotate(k) ==
    /\ published' = (published \ {k}) \cup ({k} \ published)
    /\ since' = [since EXCEPT ![k] = 0]
    /\ UNCHANGED <<cache, pc, kid, found, snapshot, fetchTime>>

Idle == \A p \in Procs : /\ pc[p] # "refreshed"
                         /\ pc[p] = "waiting" => ~LockFree

\* Mutant: time passes during a fetch whatever the client's timeout.
TickWithoutTimeout ==
    /\ Idle
    /\ age' = Later(age, TTL)
    /\ since' = [k \in Kids |-> Later(since[k], Horizon)]
    /\ fetchTime' = IF LockFree THEN 0 ELSE fetchTime + 1
    /\ UNCHANGED <<keys, pc, kid, found, snapshot, published>>

Tick ==
    /\ Idle
    /\ LockFree \/ fetchTime < FetchTimeout
    /\ age' = Later(age, TTL)
    /\ since' = [k \in Kids |-> Later(since[k], Horizon)]
    /\ fetchTime' = IF LockFree THEN 0 ELSE fetchTime + 1
    /\ UNCHANGED <<keys, pc, kid, found, snapshot, published>>

Step(p) == Acquire(p) \/ ServeJWKS(p) \/ Store(p) \/ FetchFails(p) \/ LookAgain(p)

Next ==
    \/ \E p \in Procs : \/ \E k \in Kids : LookUp(p, k)
                        \/ CheckHealth(p)
                        \/ Step(p)
                        \/ Return(p)
    \/ \E k \in Kids : Rotate(k)
    \/ Tick

\* A fetch ends, by the client's timeout if not before; a waiter for a
\* sync.Mutex gets it in the end, however many others come and go.
Fairness ==
    \A p \in Procs : /\ SF_vars(Acquire(p))
                     /\ WF_vars(Store(p) \/ FetchFails(p))
                     /\ WF_vars(LookAgain(p))

Spec == Init /\ [][Next]_vars /\ Fairness

-----------------------------------------------------------------------------
TypeOK ==
    /\ keys \in SUBSET Kids
    /\ age \in 0 .. TTL
    /\ pc \in [Procs -> {"idle", "waiting", "fetching", "answered", "refreshed"} \cup Results]
    /\ kid \in [Procs -> Kids \cup {NoKid}]
    /\ found \in [Procs -> BOOLEAN]
    /\ snapshot \in [Procs -> SUBSET Kids]
    /\ fetchTime \in 0 .. FetchTimeout
    /\ published \in SUBSET Kids
    /\ since \in [Kids -> 0 .. Horizon]

Becomes(p, label) == pc[p] # label /\ pc'[p] = label

\* jwks.go:205: Thunder is not hammered.  The cache is never replaced within
\* the debounce period of the replacement before, whatever bursts of unknown
\* kids and health checks arrive and however they wait for each other.
RefreshesAreSpacedOut == [][keys' # keys \/ age' < age => age >= Debounce]_vars

\* A key that Thunder has withdrawn verifies no token once the cache's time to
\* live and the longest fetch have passed, unless a refresh fails (jwks.go:168).
TrustIsTimely ==
    [][\A p \in Procs : Becomes(p, "fresh") =>
          \/ kid'[p] \in published
          \/ since[kid'[p]] < TTL + FetchTimeout]_vars

\* Rotation: a token is refused for an unknown kid only if Thunder does not
\* publish the key or began to within the debounce period and one fetch.
RefusalIsTimely ==
    [][\A p \in Procs : Becomes(p, "refused") =>
          \/ kid[p] \notin published
          \/ since[kid[p]] < Debounce + FetchTimeout]_vars

\* jwks.go:177: the key used when the refresh fails was read before waiting for
\* the lock.  It is still in the cache: no refresh that went well in the
\* meantime has dropped it.
StaleKeyIsStillCached ==
    [][\A p \in Procs : Becomes(p, "stale") => kid[p] \in keys]_vars

\* Every verification and every health check ends, however many goroutines
\* compete for the refresh lock and whether or not Thunder answers.
EveryRefreshReturns ==
    \A p \in Procs : pc[p] = "waiting" ~> pc[p] \in Results

\* jwks.go:162: key refreshes the cache if the kid is unknown; Thunder rotates
\* keys, so an unknown kid is an expected event rather than an error.  A kid
\* that has been published for a tick or more should therefore be found; but
\* refresh does nothing within the debounce period.
PublishedKidIsNoError ==
    [][\A p \in Procs : Becomes(p, "refused") =>
          kid[p] \notin published \/ since[kid[p]] = 0]_vars
=============================================================================
