------------------------------ MODULE Lifecycle ------------------------------
(***************************************************************************)
(* The broker as a process (src/broker/main.go): configuration, tracing,    *)
(* listening, and the shutdown that lets requests finish for a while before *)
(* the spans are flushed and the process exits.                             *)
(*                                                                          *)
(* A request is seen as the waits of its handler.  Those for Thunder and    *)
(* the specialist end by the configured timeouts, if these are positive;    *)
(* those for the caller's body and for the caller to take the answer have   *)
(* no limit, since the server sets only ReadHeaderTimeout.  Each request is *)
(* made once.  A tick passes only when nothing is overdue.                  *)
(***************************************************************************)
EXTENDS Integers, FiniteSets

CONSTANTS Requests,
          Environments,   \* the environments the process may be started in
          Unset,          \* an environment variable without a value
          NotADuration,   \* one with a value that is no duration
          Grace,          \* the ten seconds of Shutdown
          FlushTimeout    \* the five seconds of otelTracer.Shutdown

ASSUME LifecycleAssumption ==
    /\ IsFiniteSet(Requests)
    /\ Grace \in Nat \ {0} /\ FlushTimeout \in Nat \ {0}
    /\ \A env \in Environments :
          /\ env.complete \in BOOLEAN      \* the four required variables are set
          /\ env.policy \in {"embedded", "file", "broken"}
          /\ env.collector \in {"none", "unbuildable", "built"}
          /\ {env.thunder, env.forward} \subseteq Int \cup {Unset, NotADuration}

VARIABLES env,        \* the environment
          proc,       \* where main and run are
          result,     \* what run returns, the exit code
          listener,   \* the server's listener
          signalled,  \* SIGINT or SIGTERM has arrived
          tracer,     \* the tracer in use
          flushed,    \* whether its provider has been shut down
          drainTime,  \* time in Shutdown
          flushTime,  \* time in tracer.Shutdown
          phase,      \* what each request's handler is waiting for
          clock,      \* for how long, where there is a limit
          span        \* the span of each request

main == <<proc, result, listener, tracer, flushed>>
handlers == <<phase, clock, span>>
timers == <<drainTime, flushTime>>
vars == <<env, main, signalled, timers, handlers>>

-----------------------------------------------------------------------------
(* The configuration. *)

\* Defaults of 10 and 30 seconds, scaled.
DefaultThunderTimeout == 1
DefaultForwardTimeout == 3

\* A number is taken as it is, negative or zero as well.
EnvDuration(raw, fallback) == IF raw = Unset THEN fallback ELSE raw

ThunderTimeout == EnvDuration(env.thunder, DefaultThunderTimeout)
ForwardTimeout == EnvDuration(env.forward, DefaultForwardTimeout)

\* The embedded policy is valid, one from a file need not be.
PolicyLoads == env.policy # "broken"

ConfigOK ==
    /\ NotADuration \notin {ThunderTimeout, ForwardTimeout}
    /\ env.complete
    /\ PolicyLoads

\* An http.Client times out after a positive Timeout and otherwise never.
Timed(timeout) == timeout # NotADuration /\ timeout > 0

-----------------------------------------------------------------------------
(* The handlers. *)

\* Mutant: the client for the specialist is built without its timeout.
LimitOfThunderOnly(p) ==
    IF p \in {"fetching", "exchanging"} THEN ThunderTimeout ELSE 0

Limit(p) ==
    IF p \in {"fetching", "exchanging"} THEN ThunderTimeout
    ELSE IF p = "forwarding" THEN ForwardTimeout ELSE 0

Phases == {"none", "connected", "reading", "waiting", "fetching", "exchanging",
           "forwarding", "writing", "answered"}

\* What a handler may do after each wait.  A key may be cached or must be
\* fetched, by one handler at a time; every wait may end in a refusal.
After(p) == {q \in Phases :
    \/ <<p, q>> \in {<<"reading", "waiting">>, <<"reading", "exchanging">>,
                     <<"waiting", "fetching">>, <<"waiting", "exchanging">>,
                     <<"fetching", "exchanging">>, <<"exchanging", "forwarding">>,
                     <<"forwarding", "writing">>}
    \/ p \notin {"none", "connected", "answered"} /\ q = "answered"}

InProgress(r) == phase[r] \notin {"none", "connected", "answered"}
LockFree == \A r \in Requests : phase[r] # "fetching"

\* A span that ends after the provider's shutdown is dropped.
EndedSpan == IF tracer = "otlp" /\ flushed = "no" THEN "queued" ELSE "dropped"

\* The listener accepts a connection, on which a request may come later.
Connect(r) ==
    /\ listener = "open" /\ proc # "exited"
    /\ phase[r] = "none"
    /\ phase' = [phase EXCEPT ![r] = "connected"]
    /\ UNCHANGED <<env, main, signalled, timers, clock, span>>

\* On a connection that is there a request may also begin during the drain, or
\* after the listener has failed.
Accept(r) ==
    /\ proc # "exited"
    /\ phase[r] = "connected"
    /\ phase' = [phase EXCEPT ![r] = "reading"]
    /\ UNCHANGED <<env, main, signalled, timers, clock, span>>

Step(r) ==
    /\ proc # "exited"
    /\ phase[r] = "waiting" => LockFree
    /\ \E next \in After(phase[r]) :
          /\ phase' = [phase EXCEPT ![r] = next]
          /\ span' = IF next = "answered" THEN [span EXCEPT ![r] = EndedSpan] ELSE span
    /\ clock' = [clock EXCEPT ![r] = 0]
    /\ UNCHANGED <<env, main, signalled, timers>>

\* What the handler waits for has come, or the client has timed out.
Overdue(r) == Timed(Limit(phase[r])) /\ clock[r] >= Limit(phase[r])
Due(r) == Overdue(r) \/ phase[r] = "waiting"

-----------------------------------------------------------------------------
(* main and run. *)

Init ==
    /\ env \in Environments
    /\ proc = "starting" /\ result = "none" /\ listener = "closed"
    /\ signalled = FALSE /\ tracer = "none" /\ flushed = "no"
    /\ drainTime = 0 /\ flushTime = 0
    /\ phase = [r \in Requests |-> "none"]
    /\ clock = [r \in Requests |-> 0]
    /\ span = [r \in Requests |-> "none"]

Refuse ==
    /\ proc = "starting"
    /\ ~ConfigOK
    /\ proc' = "exited" /\ result' = "error"
    /\ UNCHANGED <<env, signalled, listener, tracer, flushed, timers, handlers>>

\* Without an endpoint, or with one no exporter can be built for, spans go nowhere.
NewTracer == IF env.collector = "built" THEN "otlp" ELSE "noop"

\* Mutant: an error of NewTracer is returned like one of LoadConfig.
StartUnlessUntraced ==
    /\ proc = "starting"
    /\ ConfigOK
    /\ IF env.collector = "unbuildable"
          THEN proc' = "exited" /\ result' = "error" /\ UNCHANGED tracer
          ELSE proc' = "serving" /\ tracer' = NewTracer /\ UNCHANGED result
    /\ UNCHANGED <<env, signalled, listener, flushed, timers, handlers>>

\* NotifyContext, the tracer, the server; ListenAndServe runs beside from now on.
Start ==
    /\ proc = "starting"
    /\ ConfigOK
    /\ proc' = "serving"
    /\ tracer' = NewTracer
    /\ UNCHANGED <<env, result, signalled, listener, flushed, timers, handlers>>

\* The goroutine that serves: it listens, unless Shutdown was faster, and may
\* fail to, or fail later.
Listen ==
    /\ proc = "serving" /\ listener = "closed"
    /\ listener' \in {"open", "failed"}
    /\ UNCHANGED <<env, proc, result, signalled, tracer, flushed, timers, handlers>>

ServeFails ==
    /\ proc = "serving" /\ listener = "open"
    /\ listener' = "failed"
    /\ UNCHANGED <<env, proc, result, signalled, tracer, flushed, timers, handlers>>

\* Before NotifyContext the default action ends the process.  A second signal
\* changes nothing.
Signal ==
    /\ proc # "exited" /\ ~signalled
    /\ signalled' = TRUE
    /\ IF proc = "starting" THEN proc' = "exited" /\ result' = "killed"
                            ELSE UNCHANGED <<proc, result>>
    /\ UNCHANGED <<env, listener, tracer, flushed, timers, handlers>>

\* The select's first case.
ReturnServeError ==
    /\ proc = "serving" /\ listener = "failed"
    /\ proc' = "flushing" /\ result' = "error"
    /\ UNCHANGED <<env, signalled, listener, tracer, flushed, timers, handlers>>

\* Mutant: the spans are flushed when the signal arrives.
StartDrainFlushing ==
    /\ proc = "serving" /\ signalled
    /\ proc' = "draining"
    /\ listener' = IF listener = "open" THEN "closed" ELSE listener
    /\ flushed' = "ok"
    /\ span' = [r \in Requests |-> IF span[r] = "queued" THEN "exported" ELSE span[r]]
    /\ UNCHANGED <<env, result, signalled, tracer, timers, phase, clock>>

\* The select's second case, and Shutdown closing the listener.
StartDrain ==
    /\ proc = "serving" /\ signalled
    /\ proc' = "draining"
    /\ listener' = IF listener = "open" THEN "closed" ELSE listener
    /\ UNCHANGED <<env, result, signalled, tracer, flushed, timers, handlers>>

\* Shutdown closes connections without a request: idle ones at once, new ones
\* after five seconds.
CloseIdle(r) ==
    /\ proc = "draining"
    /\ phase[r] = "connected"
    /\ phase' = [phase EXCEPT ![r] = "none"]
    /\ UNCHANGED <<env, main, signalled, timers, clock, span>>

Drained == \A r \in Requests : phase[r] \in {"none", "answered"}

\* Mutant: the deadline's context is derived from the one the signal cancelled.
DeadlinePassedAtOnce == TRUE
\* Mutant: Shutdown is given context.Background().
NoDeadline == FALSE

DeadlinePassed == drainTime >= Grace

\* Shutdown looks at the connections from time to time, so it may see the
\* deadline first.
EndDrain ==
    /\ proc = "draining"
    /\ \/ Drained /\ result' = "ok"
       \/ DeadlinePassed /\ result' = "error"
    /\ proc' = "flushing"
    /\ UNCHANGED <<env, signalled, listener, tracer, flushed, timers, handlers>>

\* The deferred tracer.Shutdown; handlers that were given up run on meanwhile.
FlushSpans ==
    /\ proc = "flushing" /\ flushed = "no"
    /\ \/ tracer = "otlp" /\ flushed' = "failed" /\ UNCHANGED span
       \/ /\ flushed' = "ok"
          /\ span' = [r \in Requests |-> IF span[r] = "queued" THEN "exported" ELSE span[r]]
    /\ UNCHANGED <<env, proc, result, listener, tracer, signalled, timers, phase, clock>>

Exit ==
    /\ proc = "flushing" /\ flushed # "no"
    /\ proc' = "exited"
    /\ UNCHANGED <<env, result, listener, tracer, flushed, signalled, timers, handlers>>

\* Mutant: time passes whatever the timeouts.
TickRegardless ==
    /\ proc # "exited"
    /\ UNCHANGED timers
    /\ clock' = [r \in Requests |-> IF Timed(Limit(phase[r])) THEN clock[r] + 1 ELSE 0]
    /\ UNCHANGED <<env, main, signalled, phase, span>>

Tick ==
    /\ proc # "exited"
    /\ \A r \in Requests : ~Overdue(r) /\ (phase[r] = "waiting" => ~LockFree)
    /\ proc = "draining" => ~DeadlinePassed /\ ~Drained
    /\ proc = "flushing" => flushed = "no" /\ flushTime < FlushTimeout
    /\ drainTime' = IF proc = "draining" /\ drainTime < Grace THEN drainTime + 1 ELSE drainTime
    /\ flushTime' = IF proc = "flushing" THEN flushTime + 1 ELSE flushTime
    /\ clock' = [r \in Requests |-> IF Timed(Limit(phase[r])) THEN clock[r] + 1 ELSE 0]
    /\ UNCHANGED <<env, main, signalled, phase, span>>

Run == Refuse \/ Start \/ Listen \/ ReturnServeError \/ StartDrain \/ EndDrain
          \/ FlushSpans \/ Exit
          \/ \E r \in Requests : CloseIdle(r)

Next ==
    \/ Run
    \/ ServeFails
    \/ Signal
    \/ \E r \in Requests : Connect(r) \/ Accept(r) \/ Step(r)
    \/ Tick

\* run does not block but where its actions say so; a wait with a limit ends by
\* it.  Nothing is assumed of callers, Thunder, the specialist or the collector.
Fairness ==
    /\ WF_vars(Run)
    /\ WF_vars(Tick)
    /\ \A r \in Requests : WF_vars(Due(r) /\ Step(r))

Spec == Init /\ [][Next]_vars /\ Fairness

-----------------------------------------------------------------------------
TypeOK ==
    /\ env \in Environments
    /\ proc \in {"starting", "serving", "draining", "flushing", "exited"}
    /\ result \in {"none", "ok", "error", "killed"}
    /\ listener \in {"closed", "open", "failed"}
    /\ signalled \in BOOLEAN
    /\ tracer \in {"none", "noop", "otlp"}
    /\ flushed \in {"no", "ok", "failed"}
    /\ drainTime \in 0 .. Grace
    /\ flushTime \in 0 .. FlushTimeout
    /\ phase \in [Requests -> Phases]
    /\ clock \in [Requests -> Nat]
    /\ \A r \in Requests : Timed(Limit(phase[r])) => clock[r] <= Limit(phase[r])
    /\ span \in [Requests -> {"none", "queued", "exported", "dropped"}]

Abandoned(r) == proc = "exited" /\ InProgress(r)

\* main.go:82: no request is lost silently.  One that is in progress when the
\* process exits has had the whole grace period, or the listener failed, and the
\* exit code says so.  Nor does it say so for nothing (main.go:38-40: telemetry
\* never stops the broker): an error comes from the configuration, the listener
\* or the deadline of the drain.
ExitCodeIsTruthful ==
    /\ \A r \in Requests : Abandoned(r) =>
          result = "error" /\ (drainTime = Grace \/ listener = "failed")
    /\ result = "error" => ~ConfigOK \/ listener = "failed" \/ drainTime = Grace

\* main.go:46: the tracer is shut down last.  Unless requests were given up, a
\* flush that succeeds has exported the span of every request answered.
TracesAreComplete ==
    proc = "exited" /\ tracer = "otlp" /\ flushed = "ok" =>
        \A r \in Requests :
            phase[r] = "answered" => span[r] = "exported" \/ result = "error"

\* The longest a handler can take between the caller's body and the answer: the
\* fetches of all handlers, its own among them, the exchange and the forward.
LongestHandling == (Cardinality(Requests) + 1) * ThunderTimeout + ForwardTimeout

\* The grace period is long enough for timeouts that add up to no more: every
\* request whose body has been read when the drain begins gets its answer.
\* The default timeouts (50 s and more against 10 s) do not qualify.
DrainIsLongEnough ==
    \A r \in Requests :
        []( /\ Timed(ThunderTimeout) /\ Timed(ForwardTimeout)
            /\ LongestHandling < Grace
            /\ proc = "draining" /\ drainTime = 0
            /\ InProgress(r) /\ phase[r] # "reading"
          => [](Abandoned(r) => phase[r] = "writing"))

\* With positive timeouts every handler that has its body comes to answer,
\* whoever is silent and however many want the signing keys at once.
EveryHandlerEnds ==
    \A r \in Requests :
        /\ Timed(ThunderTimeout) /\ Timed(ForwardTimeout)
        /\ phase[r] \in {"waiting", "fetching", "exchanging", "forwarding"}
        ~> phase[r] \in {"writing", "answered"} \/ proc = "exited"

\* A signal ends the process, also if callers never finish their bodies and
\* nothing else ever answers.
SignalEndsProcess == signalled ~> proc = "exited"
=============================================================================
