# Scope broker: TLA+ specifications

Specifications, model checks and proofs for the AgentID scope derivation broker.
Paths such as `broker/proxy.go:142` are relative to the repository's root
(`src/` in `PROJECT.json`, which also maps every definition to the lines it
translates).

## The system

A **coordinator** agent holds a wide token. It posts `{task, capability, depth,
payload}` with that token to the **broker**, which verifies the token, derives
the narrowest scope set the capability needs, exchanges the token at
**ThunderID** for one carrying only that set, and forwards the call with the
narrowed token to the **specialist**, which enforces one scope per endpoint.
The answer travels back the same way.

| Component | State it keeps | Operations | Talks to |
| --- | --- | --- | --- |
| Derivation library (`derivation/`) | none; the policy is a value | `ParsePolicy`, `Validate`, `depthCeiling`, `Derive` | called by the broker, purely |
| Broker (`broker/proxy.go`, `thunder.go`) | none shared between requests; one goroutine per request | `handleDelegate` (five steps), `Exchange`, `forward`, `handleHealth` | Thunder twice (keys, exchange), the specialist once, each over HTTP with a client timeout |
| Verifier (`broker/jwks.go`) | `keys`, `fetchedAt` under `mu`; `refreshLock` | `Verify`, `key`, `refresh` | Thunder's JWKS endpoint; shared by every request and health check |
| Specialist (`agents/specialist/`) | `RECORDS`, shared by the worker threads | `require_scope`, four capability endpoints | Thunder's JWKS endpoint |
| Coordinator (`agents/coordinator/app.py`) | the cached wide token and its expiry, under a lock | `_TokenCache.get`, `delegate`, `_direct`, `_via_broker` | Thunder's token endpoint, the broker or the specialist |
| Lifecycle (`broker/main.go`, `config.go`) | the configuration; listening, draining, stopped | load, serve, signal, `Shutdown`, flush | the environment |
| Registration (`setup/register-thunder.sh`) | objects in Thunder, an env file | create-or-look-up of six kinds of objects | Thunder's admin API |
| Tracing | none of its own | spans and header propagation | the collector |

What makes it hard:

- **Failure and silence.** Thunder answers 200 with fewer scopes than asked for,
  down to none; it may issue a token after the broker gave up; the specialist
  may execute a call after the broker answered 504.
- **Composition.** One `Derive` call is easily tested; a chain of delegations
  with different capabilities, each presenting the token the hop before was
  given, is not. The repository says so itself: "a longer chain has not been run
  end to end".
- **Time.** Tokens expire between the steps of a delegation. Keys rotate while
  the cache, its time to live and the refresh debounce each have their own clock.
- **Concurrency.** Goroutines queue on the refresh lock with a decision taken
  before the wait. The specialist's worker threads share a dictionary and the
  coordinator's share a token.
- **Boundaries.** `>=` against two kinds of depth limits, zero meaning
  "unlimited", a negative policy limit that nobody validates, names padded with
  blanks.

What makes each part correct:

| Component | Correct when |
| --- | --- |
| Derivation | going deeper or holding less never yields more; chains end; what was shed stays shed; an accepted policy is not dead |
| Broker path | work is done only on authority the root token held; a token that lost (or gained) scopes is not forwarded; the coordinator is told the truth; an answer is final; every request is answered |
| Verifier | a withdrawn key is not trusted for long, a new one not refused for long; Thunder is not hammered; nobody waits for ever |
| Specialist | denies what the token does not cover, and only that; records are never half written |
| Coordinator | a token expires on its way to the check only in a call slower than the margin allows for; renewals do not go back; nobody keeps the lock |
| Lifecycle | no request is lost but by the deadline, and then the exit code says so; traces are complete; a signal ends the process |
| Registration | a run that ends leaves a registration that works, whatever stopped before; running again takes nothing from Thunder and touches the env file last |

## Modules

```
Derivation ---- Chain ---------------- MCChain
     |            \---- ChainProofs
     |
     \--------- Broker --- Deployment - MCBroker
                  | \---- BrokerProofs
                  \ refines
                    Attenuation ------- AttenuationProofs
Verifier ---------- VerifierProofs ---- MCBurst
Lifecycle --------- LifecycleProofs --- MCLifecycle
TokenCache -------- TokenCacheProofs
Records ----------- RecordsProofs ----- MCRecords
     \ refines
       RecordStore
Registration ------ RegistrationProofs
```

### `Derivation`: the library

The pure part, as operators. `DeriveError` has the early returns of `Derive` in
their order, `Derived` is `Result.Scopes`, `Valid` is `Validate` and
`DepthCeiling` is `depthCeiling`. A policy is a record with a function from the
names the file defines to capabilities. Names are members of a set `Names` with
a function `TrimSpace` on it, so that a padded name and its trimmed form are two
names: the code trims in some places (the lookup key, the scopes it intersects
with) and not in others (the rules' names, the forwarded path), and the
difference is part of the model. Scope lists are sets because the code sorts
and deduplicates what it returns and tests what it reads for membership.
Integers are unbounded: nothing is added to a depth or a limit, they are only
compared.

### `Chain`: delegations in a row

The holder of a scope set delegates a capability and the next holder has what
`Derive` kept. Each hop states its true depth, as `derive.go:42-43` asks. A
refusal changes nothing, so `Delegate` is the successful call. `Init` takes any
policy that `Validate` accepts.

### `Broker`: the delegation path

| State | In the code |
| --- | --- |
| `pc` | where `handleDelegate` is: reading the body, verifying, in `Exchange`, in `forward`, returned |
| `request` | the body's capability and depth, and the bearer token |
| `asked` | `result.Scopes`, the `scope` parameter of the exchange |
| `exchange`, `carries` | Thunder's side: request under way, token issued or rejected, and the issued token's scopes |
| `inbound`, `performed` | the specialist's side: call under way, executed or denied |
| `reply` | the error code `fail` sent, or the relayed answer |
| `expired` | tokens whose `exp` has passed |
| `root` | history: the client credentials token a chain started from |

`Reject` and `Accept` are the validation of body and header in the order of the
code. `VerifyFails`, `RefuseScopeless`, `RefuseDerivation` and `StartExchange`
are steps 2 and 3; verification can take as long as fetching the signing keys,
so a token may expire first. `ExchangeFails`, `ScopeNotHonoured` and `Forward`
are step 4, and `Relay` and `ForwardFails` step 5. Each `return` of the handler
is one action. Thunder and the specialist act on a request at any time after it
was sent, also when the broker has stopped waiting, or never: a lost request, a
lost answer and a late answer are all behaviours of the model. Handlers share
nothing but the policy and interleave freely.

A token that reached the specialist can be presented again (`Presentable`), by
the specialist or by whoever it hands the token to. This is how chains longer
than the demonstration's single hop arise. Callers may claim any depth.

What is modelled of Thunder, which is outside the repository, is what the
comments and tests of `thunder.go` say of it: an exchange is bounded by the
subject token, and Thunder drops scopes silently. With `WideningIssuer` it may
also issue scopes the subject token holds and nobody asked for. The scope field
of its answer is taken to be the issued token's scope claim.

### `Attenuation`: the promise

A delegation is granted authority once or refused for good; the authority
granted is part of what the presenter holds; work is done only under a grant
that covers it. `Broker` implements it under the mapping at its end: a
delegation counts as granted when its token leaves for the specialist, and as
refused when the handler ends without that.

### `Verifier`: the key cache

`keys` and `age` (the time since `fetchedAt`) are the cache. `LookUp` is the
read under the read lock at the top of `key`, whose result (`found`) is used
after the wait for `refreshLock`. `SkipRefresh` and `StartFetch` are the
debounce test made under that lock. `ServeJWKS` (Thunder) and `Store` are two
actions: what is stored is what Thunder published when it answered, not when it
is stored. `FetchFails` covers every error return of `refresh`, with `key`'s
fallback on the key it saw before. `LookAgain` is the second look at the cache.
Clocks saturate where they stop mattering, so time has no bound. A tick passes
only while no goroutine can compute, and a fetch lasts at most `FetchTimeout`
ticks (the client's timeout).

`MCBurst` adds a history variable: goroutines still waiting when a fetch ended.

### `Lifecycle`: the process

`main` and `run` of `broker/main.go`, with what they call: `LoadConfig`
(`ConfigOK`; every way it refuses), `NewTracer`, the listener, `NotifyContext`,
`Shutdown` and the deferred flush of the spans.

| State | In the code |
| --- | --- |
| `env` | the environment variables that matter, fixed at the start |
| `proc`, `result` | where `run` is, and what it returns; `killed` is the default action of a signal before `NotifyContext` |
| `listener` | the server's listener; `failed` is an error in `serveErr` |
| `signalled` | the context of `NotifyContext` is done |
| `tracer`, `flushed`, `span` | the tracer, its provider's shutdown, and each request's span |
| `phase`, `clock` | which wait a handler is in, and for how long where the wait has a limit |
| `drainTime`, `flushTime` | time spent in `Shutdown` and in the flush |

Handlers are seen as their waits: the body, the refresh lock, the fetch of keys,
the exchange, the forward, and the caller taking the answer. `Limit` is what
`NewBroker` gives its clients: `EnvDuration` takes zero and negative numbers as
they come, and an `http.Client` with such a timeout has none. The body and the
answer have no limit, since the server sets only `ReadHeaderTimeout`. A
connection comes before its request (`Connect`, `Accept`): only the first needs
the listener, so requests also begin during the drain and after the listener has
failed, on connections that `Shutdown` has not closed yet (`CloseIdle`). It does
so at once or, for a new one, after five seconds; the model lets it be any time.
`ReturnServeError` and `StartDrain` are the two cases of the `select`, either of
which may be taken when both are ready; the first returns without a drain.

### `TokenCache`: the coordinator's token

`cached` and `believed` are `_token` and `_expires_at`, each as the time left;
they differ, because `expires_in` is counted from when the answer has arrived.
`Hit`, `Unconfigured`, `Request`, `Store`, `StoreTorn` and `RequestFails` are
the ways through `_TokenCache.get`; `StoreTorn` is the exception `float()`
raises between the two assignments. `LockFree` is the lock around all of `get`,
held while Thunder is asked. `Check` is the last look anybody takes at the
token, at the exchange or, in direct mode, at the specialist's. It may come at any
time of a call, and a call may last longer than the margin: httpx gives each of
its waits 30 seconds, the broker alone may spend ten on somebody else's fetch of
the keys, ten on its own and ten on the exchange. The model relates `CallTime` to
nothing.

### `Records` and `RecordStore`: the specialist's records

One action for each operation on a dictionary, since the endpoints run in worker
threads: `SetDefault` and one `Assign` for each field of a write, `Find` of a
read, and one step of the iteration of a list at a time. `ReadField` is the
answer, which holds the live record and is serialised after the endpoint has
returned, field by field. `store` maps ids to objects and `content` objects to
fields, so that two writers with different objects for one id would be seen.
`NextRecord` and `EndList` fail when the number of records has changed, as
iterating over a dictionary does. `earlier` is history: which calls had ended
when a call was made.

`RecordStore` is what callers may rely on: a record is created once, empty, is
never replaced, and changes one field at a time. `Records` implements it.

### `Registration`: the script

`register-thunder.sh` as one process over Thunder's objects. Each `POST`, `PUT`
or list is an action whose effect happens, whether or not the script sees the
answer (`Then`), or does not happen (`Fail`); the script may stop after any of
them. A run that stopped or ended is followed by another, with the same secrets
or others (`Run`). An existing object is a 409 and a look-up, except for
applications and assignments, which are listed first; an error body parses as an
empty list (`FindApp`, `ListAssignments`), and creating what exists then fails
(`CreateAppFails`, `AssignFails`). The env file is emptied by the shell and then
written by `cat` (`TruncateEnvFile`, `FillEnvFile`), and what is written may be cut
short (`FillShort`). `calm` is external: from some moment on no
call fails.

### `Deployment`

The data the checks run on: `policy.json`, `REQUIRED_SCOPES`, `WIDE_SCOPES`.

## Runs

| Run | Bounds | Shows |
| --- | --- | --- |
| `chain` | all policies of two capabilities: one with every set of one or two rules on two scopes with limits 0 to 2 (and padded, empty and mixed ones), ceilings -1 to 2, policy limits -1, 0, 2; five holdings | derivation is monotonic, chains shed and never regain, chains end, an accepted policy serves direct calls |
| `broker` | two delegations; roots with the wide, one and no scope; nine calls; shipped policy | the safety of the path, for concurrent delegations and for a chain of two |
| `broker_chains` | two delegations, one wide root, two calls, an issuer that may widen | refinement of `Attenuation`, whole narrowing, every delegation answered |
| `verifier` | two goroutines, two keys, TTL 3, debounce 2, fetch timeout 1 | timeliness of trust and refusal, spacing of refreshes, every wait ends |
| `lifecycle` | two requests, eleven environments, grace 5, flush 1 | who is answered, whose spans arrive, what the exit code says, that the process ends |
| `token_cache` | three threads, lifetime 5, margin 3, answer 1, call 4 | which calls may find their token expired, through expiry, failed and torn renewals |
| `records` | three calls of every kind, one id stored and one not, calls interchangeable | answers are up to date, lists whole or failed, refinement of `RecordStore` |
| `registration` | two clients, two secrets, three actions, runs without end | a run that ends leaves what works, running again takes nothing from Thunder and ends |
| `broker_widened` | as `broker_chains` | a violation, see below |
| `broker_span` | as `broker_chains`, exact issuer | a violation |
| `verifier_burst` | as `verifier` | a violation |
| `verifier_unknown_kid` | as `verifier`, fetches take no time | a violation |

Why the bounds are enough. In `chain`, limits 0, 1 and 2 are "unlimited", "gone
after the first hop" and "gone later", and two scopes and two capabilities are
what it takes to shed a scope and to ask for it again under another name. In
the broker runs the handlers of different requests share only tokens, so two
delegations show every interaction: side by side, or the second presenting the
token of the first. The calls are one for each way a call can end: served, with
a scope too many, unknown to the policy, known to the specialist only, padded,
at and beyond its ceiling, blank and negative. In `verifier`, two goroutines are a
holder of the lock and a waiter, two keys allow one to be replaced by the other,
and the three durations are the smallest that keep the order 0 < fetch timeout <
debounce < TTL of the code (10 s, 30 s, 1 h). The limits in `TrustIsTimely` and
`RefusalIsTimely` are tight: each fails when it is one tick smaller.
In `lifecycle` the environments are every way the configuration is refused,
each tracer, and timeouts that fit into the grace period, exceed it, or are
none; two requests are one in a fetch and one waiting for it. With a grace
period of 5 and timeouts of 1 the bound of `DrainIsLongEnough` is met with
nothing to spare: two requests can take 3 + 1. In `token_cache` a call may
take longer than the margin and a token does expire on its way; the bound of
`ExpiresOnlyIfSlow` is tight, it fails when it is one tick larger. A third thread
shows one that renews, one that waits and one that uses the old
token. In `records` a contradiction needs a write, another that might undo or
hide it, and a read; an id that is stored and one that is not are the two
branches of every look-up. `registration` needs a second client for a loop that
stops in the middle and a second secret for a change that stops in the middle.
What does not depend on such an argument is proved for every value of the
constants; see below.

Deadlock is not checked where the system stops: a chain ends, and when every
delegation is answered and every token has expired nothing is left to happen;
a process has exited, and every call to the records has ended. It is checked in
the other runs: the key cache, the token and the script never come to rest.

To run one: `tlc -config MCBrokerChains.cfg MCBroker` (the module and the
configuration of each run are in `PROJECT.json`); to check a proof module:
`tlapm BrokerProofs.tla`.

### Properties

`chain`: `MonotonicInDepth` is what the comment on `Derive` promises,
`ShedScopesStayShed` what it promises it for. `ChainIsBounded` needs truthful
depths. `AcceptedPolicyServesDirectCalls` is why `Validate` rejects what it
rejects; it excludes policies with padded names (`Trimmed`), which pass
`Validate` and serve nothing.

`broker`: `PerformedWithinRoot` is the point of the system.
`ExactNarrowing`, `NoScopeLostOnTheWay` and `AskedWithinHeld` are about the
token on its way, `DeniedOnlyWithoutAuthority` says the narrowing does not cost
the caller anything, and `ReplyIsTruthful` and `AnswersAreFinal` relate what the
coordinator is told to what the specialist did. They leave exactly one case
open: after `forward_failed` the call may have been executed, may be later, or
never.

`verifier`: `TrustIsTimely` and `RefusalIsTimely` bound how long the cache
contradicts Thunder; `StaleKeyIsStillCached` is about the value read before a
lock and used after it; `RefreshesAreSpacedOut` is the debounce as Thunder sees
it; `EveryRefreshReturns` is liveness.

`lifecycle`: `ExitCodeIsTruthful` says that a lost request shows in the exit
code and that telemetry never does; `TracesAreComplete` is the order of drain
and flush. `DrainIsLongEnough` gives the timeouts for which the grace period
suffices: (requests + 1) times Thunder's plus the forward's. The defaults, 10 s
and 30 s against a grace period of 10 s, are not among them, so with these a
forwarded call may be executed and never answered. `EveryHandlerEnds` needs
positive timeouts; `SignalEndsProcess` does not.

`token_cache`: `ExpiresOnlyIfSlow` is what the margin is worth: less an answer's
time, twenty of its thirty seconds. It does not keep a token from expiring on its
way, since a call may take longer than that; such a delegation is refused, and
the next one has a token that lasts the twenty seconds again. `BeliefIsClose` is why the bound holds also
after a torn renewal, `RenewalsAreInOrder` what the lock is
for, and `WaitersMakeProgress` what it must not cost.

`records`: `AnswersAreUpToDate` relates an answer to every write that had ended
before the call, `ListIsWholeOrFails` the iteration to the insertions beside it,
and `StoreSpec` is the refinement.

`registration`: `DoneMeansWorking` is about whatever stopped runs leave behind,
`RerunIsSafe` what there is to the header's "running it twice is safe" when runs
may stop: no step of a rerun takes anything from what is registered in Thunder,
and the env file is touched only when all of that is there, and never gets a
secret that is not Thunder's. It is not atomic, though: a rerun that stops while
it writes the file leaves it without secrets, even if nothing had changed.
`RerunCompletes` says that no state a run leaves makes the script fail for ever, so
that the next one repairs this.

### Fairness

`Broker` assumes weak fairness of each handler only. Every wait of the handler
ends by a client timeout (`proxy.go:53-55`), which is `VerifyFails`,
`ExchangeFails` and `ForwardFails`; nothing is assumed of Thunder, of the
specialist or of callers, so `EveryDelegationAnswered` holds when both are
silent. `Verifier` assumes that a fetch ends (the client's timeout), that a
goroutine with nothing to wait for runs, and strong fairness for the refresh
lock: Go's `sync.Mutex` hands the lock to a waiter that has waited a
millisecond, so no stream of newcomers can keep one out. Both rest on positive
timeouts; `THUNDER_TIMEOUT=0`, which `envDuration` accepts, would remove them.
`Lifecycle` has those timeouts in its model: weak fairness for `run`, for time,
and for a handler whose wait is over (`Due`); none for callers and nothing for a
wait without a limit. `TokenCache` assumes only weak fairness, also for the
lock, since a `threading.Lock` promises no thread its turn: a thread may starve,
and `WaitersMakeProgress` says no more than that somebody gets a result.
Requests and calls end by httpx's timeouts. Those are per read: that Thunder's
answer, once issued, is complete within `AnswerTime` is assumed of Thunder, whose
answer is short; of `CallTime` it only matters that there is one.
`Registration` assumes that the script goes on, that a stopped run is
followed by another, and for `RerunCompletes` that failures cease.

### Where the code and its documentation disagree

- `broker_widened`: `Exchange` looks for missing scopes only
  (`thunder.go:123`), though its comment says "exactly" and the README that the
  call fails when issued and asked "differ". A wider token would be forwarded;
  that it is not rests on Thunder. `PerformedWithinRoot` and the refinement hold
  all the same.
- `broker_span`: `agentid.scope.derived` is set before the exchange
  (`proxy.go:161`), so a refused delegation's span shows scopes the README's
  table calls "actually issued".
- `verifier_burst`: a burst causes one fetch only if that fetch succeeds; a
  failed one leaves `fetchedAt` alone and each waiter fetches again, in turn.
- `verifier_unknown_kid`: within 30 seconds of a successful refresh an unknown
  kid is an error without a fetch, though the comment on `key` says it is not.

## Proofs

TLAPS checks the following for every value of the constants: any policy, any
number of delegations, tokens, goroutines, threads, calls and requests, and all
durations that satisfy the modules' assumptions.

| Module | Theorem | For |
| --- | --- | --- |
| `ChainProofs` | `DerivationIsMonotonic`, `HopsCompose` and the facts they cite | the library |
| `ChainProofs` | `ChainTypeOK`, `ChainsEnd`, `ChainsOnlyShed`, `ChainsAreMonotonic`, `AcceptedPoliciesServe` | every property of `chain` |
| `AttenuationProofs` | `AttenuationTypeOK`, `AuthorityStaysWithinRoot` | the promise is worth something |
| `BrokerProofs` | `BrokerTypeOK`, `WorkStaysWithinRoot`, `NarrowingIsWhole`, `NarrowingIsExact`, `AsksWithinHeld`, `RepliesAreTruthful`, `FinalAnswers`, `DenialsAreDeserved` | every safety property of the broker runs |
| `BrokerProofs` | `BrokerImplementsAttenuation` | the refinement |
| `VerifierProofs` | `VerifierTypeOK`, `RefreshesKeepTheirDistance`, `WithdrawnKeysGo`, `PublishedKeysCome`, `StaleKeysAreCached` | every safety property of `verifier` |
| `VerifierProofs` | `BurstsCauseOneSuccess` | what holds of `jwks.go:197` |
| `LifecycleProofs` | `LifecycleTypeOK`, `ExitCodesAreTruthful`, `TracesStayComplete`, `DrainsAreLongEnough` | every safety property of `lifecycle` |
| `TokenCacheProofs` | `TokenCacheTypeOK`, `TokensLastTheMargin`, `BeliefStaysClose`, `RenewalsStayInOrder` | every safety property of `token_cache` |
| `TokenCacheProofs` | `BurstsCauseOneRenewal` | one renewal for all who wait |
| `RecordsProofs` | `RecordsTypeOK`, `AnswersStayUpToDate`, `ListsAreWholeOrFail`, `RecordsAreAStore` | every property of `records` |
| `RegistrationProofs` | `RegistrationTypeOK`, `DoneRegistrationsWork`, `RerunsAreSafe` | every safety property of `registration` |

Assumptions: those of the modules (`NamesAssumption`, `ChainAssumption`,
`BrokerAssumption`, `VerifierAssumption`, `LifecycleAssumption`,
`TokenCacheAssumption`, `RecordsAssumption`, `RegistrationAssumption`), which TLC evaluates on the
instances. Those of the first three ask that
`TrimSpace` is idempotent, that root tokens carry trimmed, non-blank scopes
(`strings.Fields` yields no others) and that the policy passes `Validate`.
`NarrowingIsExact` assumes `~WideningIssuer`, without which it is false
(`broker_widened`). `DenialsAreDeserved` assumes `PolicyMatchesEndpoints`: for
every endpoint the policy describes, the demanded scope is among the
capability's rules and has no limit of its own. The shipped files satisfy it
(`broker` shows the conclusion for them) and nothing in the code keeps the two
in step.

The argument for `Broker`. None of the safety properties is inductive. `IInv`
of `BrokerProofs` has three parts:

- `TypeOK`;
- `Stages`, for one delegation at a time: which of `asked`, `exchange`,
  `inbound`, `reply` can have which value at which `pc`. For instance nothing is
  `Forwarded` before the read-back has passed, a refusal of the broker implies
  that nothing was forwarded, and a call that was performed was authorised;
- `Chains`, across delegations: a delegation's bearer is a root or a delegation
  that was forwarded, its `root` is its bearer's root, what it asked is what
  `Derive` yields for what its bearer holds, and what was issued for it lies
  within what its bearer and its root hold.

`Chains` is preserved because the scopes of a token never change once it can be
presented (`PresentableIsStable`), which needs `Stages`: a token is presentable
only after it was issued. With it, each theorem follows from `IInv` in a few
steps. The refinement maps each action to `Grant`, `Refuse`, `Perform` or a
stutter, with `Chains` for `Grant`'s bound.

For `Chain` the strengthening is that the holding is never empty: an empty one
would switch `Derive`'s intersection off. `HopsCompose` says that a chain for one
capability loses by its hops nothing but what its last depth costs anyway; it
needs the same condition, that the hop in between left something.

For `Verifier`, `Tracks` carries the two bounds at once: where the cache and
Thunder disagree about a key, in either direction, Thunder changed it no longer
than `age + FetchTimeout` ago, and an answer on its way is wrong only about
changes made during its fetch. `Debounced` says the cache is young whenever
`refresh` has returned nil, which gives both theorems their constants.
`FoundIsCached` is why the key seen before the wait is good: it can be dropped
while a goroutine waits only by a refresh that leaves the lock free and the
cache new, so that the goroutine does not fetch. From that follows also
`BurstsCauseOneSuccess`, the part of "a burst of unknown kids should cause one
fetch" that is true: a fetch that succeeds serves everybody who waited for it.
It holds in a model where getting a free lock takes no time, against the thirty
seconds of the debounce. `BurstsCauseOneRenewal` is the same for the
coordinator's token.

For `TokenCache`, the time a token has left and the time its holder has spent
add up to a constant or more (`IssuedIsFresh`, `HeldLasts`), and the lock
(`OneRenewal`) makes the token on its way the newest. Nothing is assumed of how
long a call lasts, nor of the margin but that a new token is outside it.

For `Records`, `Fresh` says of every field a write has assigned that what it
holds now is not older than that write; `SeenFresh` carries this over to answers.
It rests on `Stages` (the object a call holds is that of its id, for good) and
`History` (a call that is still writing is in nobody's past). The refinement
needs `ObjectIsOwn`: an assignment shows in one record only.

For `Lifecycle`, `Order` says that connections come in only while `run` waits in
its `select`, and `Outcome` ties each result to what it has left behind: a drain
that ended well has left no connection on which a request could still begin.

`DrainsAreLongEnough` is not a property of single states: it is about a request
and everything after the moment the drain began. `Served` is what such a request
keeps. All time that has passed in the drain is charged to some wait: to the
fetches of the handlers that are past theirs (`Spent`, as many timeouts), to the
fetch that holds the lock now, and, once the request itself has its key, to its
own exchange and forward. A handler fetches once, one that comes in during the
drain is among `Requests` too, and a tick passes only while somebody waits for something with a limit, so the sum
never exceeds `LongestHandling`, and the deadline finds the request answered or
waiting for its caller. The counting lemmas (`Multiples`, `SpentLeavesRoom`,
`StepSpends`) keep the products out of the proof of the step.

For `Registration`, `Prepared` and `Loops` say for every label what the steps of
the present run before it have established, whatever earlier runs left behind:
each kind of object is there once its step is past, a loop has dealt with all but
what it has left, and the list of assignments, right or empty, names nobody who
is not assigned. `RerunIsSafe` has two halves: `RegisteredStays`, step by step, and
`FileIsTouchedLast`, which is the inductive invariant at the last two labels.
`RegistrationAssumption` asks that no client is called like a
label of the script, which is a matter of the model only.

Model-checked only: `EveryDelegationAnswered`, `EveryRefreshReturns`,
`EveryHandlerEnds`, `SignalEndsProcess`, `WaitersMakeProgress` and
`RerunCompletes`. They are liveness under fairness, which needs `ENABLED` and is
beyond this prover. Every other property of a passing run is a theorem.

## Not modelled

Signatures, encodings, the JSON decoding of policies and bodies, headers, logs
and spans (except their end and one attribute); trace context passes through the
OpenTelemetry SDK. The payload and the length of bodies: the 8 MiB cut of
`forward` is listed as a hazard. The specialist's own key cache belongs to PyJWT
and is part of "a token may be refused with 401"; the worker threads' pool
belongs to FastAPI, and `TokenCache` and `Records` have as many threads as
callers. That Thunder withdraws a token before it expires, which the coordinator
would not notice for an hour, is a hazard without a property: nothing in the
code reacts to it. The deadline of the health check is not a clock of its own in
`Verifier`. The demo and launch scripts start processes and print answers. The
`PROJECT.json` list of hazards says for each one which property covers it, or
why none does.

## Plan

Done: every module of the list above, and the proofs of all their safety
properties. What could follow is `System`: `Broker` with `Verifier` in the place
of `VerifyFails`. All that `Broker` sees of the key cache is that one action,
which is always possible, so its safety covers the composition already;
`RefusalIsTimely` and `TrustIsTimely` bound when a refusal or an acceptance may be
wrong. Composing would add a bound on the time of a whole delegation, and the
deadline of the health check.
