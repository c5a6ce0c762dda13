----------------------------- MODULE LifecycleProofs -----------------------------
(* Proofs about Lifecycle for any number of requests, any environments and any    *)
(* grace period.                                                                  *)
EXTENDS Lifecycle, FiniteSetTheorems, TLAPS

\* Connections are accepted only while run waits in its select.
Order ==
    /\ listener = "open" => proc = "serving"
    /\ proc = "starting" => /\ listener = "closed" /\ tracer = "none"
                            /\ \A r \in Requests : phase[r] = "none"
    /\ proc \in {"starting", "serving", "draining"} => result = "none" /\ flushed = "no"
    /\ proc = "flushing" => result \in {"ok", "error"}

\* An exit without an error follows a drain that left no request.
Outcome ==
    /\ result = "ok" => \A r \in Requests : phase[r] \in {"none", "answered"}
    /\ result = "killed" => \A r \in Requests : phase[r] = "none"
    /\ result = "error" =>
          \/ ~ConfigOK /\ \A r \in Requests : phase[r] = "none"
          \/ listener = "failed" \/ drainTime = Grace
    /\ proc = "exited" => result # "none"

\* Until the flush the span of an answered request is queued, after it exported,
\* unless requests were given up.
Spans ==
    \A r \in Requests : phase[r] = "answered" /\ tracer = "otlp" =>
        /\ flushed = "no" => span[r] = "queued"
        /\ flushed = "ok" => span[r] = "exported" \/ result = "error"

IInv == TypeOK /\ Order /\ Outcome /\ Spans

LEMMA TimeoutsAreNumbers ==
    ASSUME env \in Environments
    PROVE  {ThunderTimeout, ForwardTimeout} \subseteq Int \cup {NotADuration}
BY LifecycleAssumption, SMT DEF ThunderTimeout, ForwardTimeout, EnvDuration,
   DefaultThunderTimeout, DefaultForwardTimeout

LEMMA InitIInv == Init => IInv
<1> SUFFICES ASSUME Init PROVE IInv
    OBVIOUS
<1>1. TypeOK
  <2>1. ~Timed(Limit("none"))
        BY SMT DEF Timed, Limit
  <2>2. drainTime \in 0 .. Grace /\ flushTime \in 0 .. FlushTimeout
        BY LifecycleAssumption, SMT DEF Init
  <2> QED BY <2>1, <2>2 DEF Init, TypeOK, Phases
<1>2. Order /\ Outcome /\ Spans
      BY SMT DEF Init, Order, Outcome, Spans, InProgress
<1> QED BY <1>1, <1>2 DEF IInv

\* What a step of a handler changes.
LEMMA StepMoves ==
    ASSUME TypeOK, NEW r \in Requests, Step(r)
    PROVE  /\ InProgress(r) /\ proc # "exited"
           /\ \E q \in Phases \ {"none", "connected", "reading"} :
                 /\ phase' = [phase EXCEPT ![r] = q]
                 /\ span' = IF q = "answered" THEN [span EXCEPT ![r] = EndedSpan] ELSE span
           /\ clock' = [clock EXCEPT ![r] = 0]
           /\ UNCHANGED <<env, proc, result, listener, tracer, flushed, signalled,
                          drainTime, flushTime>>
<1>1. PICK q \in After(phase[r]) :
          /\ phase' = [phase EXCEPT ![r] = q]
          /\ span' = IF q = "answered" THEN [span EXCEPT ![r] = EndedSpan] ELSE span
      BY DEF Step
<1>2. q \in Phases \ {"none", "connected", "reading"} /\ InProgress(r)
      BY SMT DEF After, InProgress, Phases
<1> QED BY <1>1, <1>2 DEF Step, main, timers

LEMMA TypeStep == IInv /\ [Next]_vars => TypeOK'
<1> SUFFICES ASSUME IInv, [Next]_vars PROVE TypeOK'
    OBVIOUS
<1> DEFINE Limited(r) == Timed(Limit(phase[r])) => clock[r] <= Limit(phase[r])
<1> USE LifecycleAssumption DEF IInv, TypeOK, main, handlers, timers
<1>0. {ThunderTimeout, ForwardTimeout} \subseteq Int \cup {NotADuration}
      BY TimeoutsAreNumbers
<1>a. env' = env => {ThunderTimeout, ForwardTimeout}' = {ThunderTimeout, ForwardTimeout}
      BY DEF ThunderTimeout, ForwardTimeout
<1>b. \A p \in Phases : Timed(Limit(p)) => Limit(p) \in Nat
      BY <1>0, SMT DEF Limit, Timed
<1>c. env' = env => \A p \in Phases : Limit(p)' = Limit(p)
      BY DEF Limit, ThunderTimeout, ForwardTimeout
<1>1. CASE Run /\ ~\E r \in Requests : CloseIdle(r)
  <2>1. UNCHANGED <<env, signalled, phase, clock, drainTime, flushTime>>
        BY <1>1 DEF Run, Refuse, Start, Listen, ReturnServeError, StartDrain, EndDrain,
           FlushSpans, Exit
  <2>2. \A r \in Requests : Limited(r)'
        BY <2>1, <1>c DEF Timed
  <2>3. /\ proc' \in {"starting", "serving", "draining", "flushing", "exited"}
        /\ result' \in {"none", "ok", "error", "killed"}
        /\ listener' \in {"closed", "open", "failed"}
        /\ tracer' \in {"none", "noop", "otlp"}
        /\ flushed' \in {"no", "ok", "failed"}
        BY <1>1 DEF Run, Refuse, Start, NewTracer, Listen, ReturnServeError, StartDrain,
           EndDrain, FlushSpans, Exit
  <2>4. span' \in [Requests -> {"none", "queued", "exported", "dropped"}]
        BY <1>1 DEF Run, Refuse, Start, Listen, ReturnServeError, StartDrain, EndDrain,
           FlushSpans, Exit
  <2> QED BY <2>1, <2>2, <2>3, <2>4
<1>2. CASE ServeFails \/ Signal
  <2>1. UNCHANGED <<env, phase, clock, drainTime, flushTime, span, tracer, flushed>>
        BY <1>2 DEF ServeFails, Signal
  <2>2. \A r \in Requests : Limited(r)'
        BY <2>1, <1>c DEF Timed
  <2> QED BY <1>2, <2>1, <2>2 DEF ServeFails, Signal
<1>3. ASSUME NEW r \in Requests, Connect(r) \/ CloseIdle(r) \/ Accept(r) PROVE TypeOK'
  <2>1. PICK p \in {"none", "connected", "reading"} :
            phase' = [phase EXCEPT ![r] = p] /\ UNCHANGED <<env, clock>>
        BY <1>3 DEF Connect, CloseIdle, Accept
  <2>2. p \in Phases /\ Limit(p) = 0 /\ ~Timed(0)
        BY <2>1, SMT DEF Timed, Limit, Phases
  <2>3. \A s \in Requests : Limited(s)'
        BY <2>1, <2>2, <1>c DEF Timed
  <2>4. UNCHANGED <<main, signalled, timers, span>>
        BY <1>3 DEF Connect, CloseIdle, Accept
  <2> QED BY <2>1, <2>2, <2>3, <2>4
<1>4. ASSUME NEW r \in Requests, Step(r) PROVE TypeOK'
  <2>1. PICK q \in Phases :
            /\ phase' = [phase EXCEPT ![r] = q]
            /\ span' = IF q = "answered" THEN [span EXCEPT ![r] = EndedSpan] ELSE span
        BY <1>4, StepMoves
  <2>2. /\ clock' = [clock EXCEPT ![r] = 0]
        /\ UNCHANGED <<env, proc, result, listener, tracer, flushed, signalled,
                       drainTime, flushTime>>
        BY <1>4, StepMoves
  <2>3. \A s \in Requests : Limited(s)'
        BY <2>1, <2>2, <1>b, <1>c, SMT DEF Timed
  <2>4. clock' \in [Requests -> Nat] /\ phase' \in [Requests -> Phases]
        BY <2>1, <2>2, SMT
  <2>5. span' \in [Requests -> {"none", "queued", "exported", "dropped"}]
        BY <2>1 DEF EndedSpan
  <2> QED BY <2>2, <2>3, <2>4, <2>5
<1>5. CASE Tick
  <2>1. /\ clock' = [r \in Requests |-> IF Timed(Limit(phase[r])) THEN clock[r] + 1 ELSE 0]
        /\ \A r \in Requests : ~Overdue(r)
        /\ UNCHANGED <<env, proc, result, listener, tracer, flushed, signalled, phase, span>>
        BY <1>5 DEF Tick
  <2>2. \A r \in Requests : Limited(r)'
        BY <2>1, <1>b, <1>c, SMT DEF Timed, Overdue
  <2>3. clock' \in [Requests -> Nat]
        BY <2>1, SMT
  <2>4. drainTime' \in 0 .. Grace /\ flushTime' \in 0 .. FlushTimeout
        BY <1>5, SMT DEF Tick
  <2> QED BY <2>1, <2>2, <2>3, <2>4
<1>6. CASE UNCHANGED vars
  <2>1. \A r \in Requests : Limited(r)'
        BY <1>6, <1>c DEF vars, Timed
  <2> QED BY <1>6, <2>1 DEF vars
<1> QED BY <1>1, <1>2, <1>3, <1>4, <1>5, <1>6 DEF Next

LEMMA OutcomeStep == IInv /\ [Next]_vars => Order' /\ Outcome' /\ Spans'
<1> SUFFICES ASSUME IInv, [Next]_vars PROVE Order' /\ Outcome' /\ Spans'
    OBVIOUS
<1> USE LifecycleAssumption DEF IInv, TypeOK, Order, Outcome, Spans, main, handlers, timers,
        InProgress
<1>0. env' = env => (ConfigOK' <=> ConfigOK)
      BY DEF ConfigOK, ThunderTimeout, ForwardTimeout, PolicyLoads
<1>1. CASE Refuse
      BY <1>0, <1>1 DEF Refuse
<1>2. CASE Start
      BY <1>0, <1>2 DEF Start
<1>3. CASE Listen \/ ServeFails
      BY <1>0, <1>3 DEF Listen, ServeFails
<1>4. CASE ReturnServeError
      BY <1>0, <1>4 DEF ReturnServeError
<1>5. CASE StartDrain
      BY <1>0, <1>5 DEF StartDrain
<1>6. CASE EndDrain
  <2>1. drainTime \in Int /\ drainTime <= Grace /\ Grace \in Int
        BY SMT
  <2>2. DeadlinePassed => drainTime = Grace
        BY <2>1, SMT DEF DeadlinePassed
  <2> QED BY <1>0, <1>6, <2>2 DEF EndDrain, Drained
<1>7. CASE FlushSpans
      BY <1>0, <1>7 DEF FlushSpans
<1>8. CASE Exit
      BY <1>0, <1>8 DEF Exit
<1>9. CASE Signal
      BY <1>0, <1>9 DEF Signal
<1>10. ASSUME NEW r \in Requests, Connect(r) \/ CloseIdle(r) \/ Accept(r)
       PROVE  Order' /\ Outcome' /\ Spans'
      BY <1>0, <1>10 DEF Connect, CloseIdle, Accept
<1>11. ASSUME NEW r \in Requests, Step(r) PROVE Order' /\ Outcome' /\ Spans'
  <2>1. PICK q \in Phases \ {"none", "connected", "reading"} :
            /\ phase' = [phase EXCEPT ![r] = q]
            /\ span' = IF q = "answered" THEN [span EXCEPT ![r] = EndedSpan] ELSE span
        BY <1>11, StepMoves
  <2>2. /\ phase[r] \notin {"none", "connected", "answered"} /\ proc # "exited"
        /\ UNCHANGED <<env, proc, result, listener, tracer, flushed, signalled,
                       drainTime, flushTime>>
        BY <1>11, StepMoves
  <2>3. proc # "starting" /\ result # "ok" /\ result # "killed"
        BY <2>2
  <2>4. Order'
        BY <2>2, <2>3
  <2>5. Outcome'
        BY <1>0, <2>1, <2>2, <2>3
  <2>6. Spans'
        BY <2>1, <2>2, <2>3 DEF EndedSpan
  <2> QED BY <2>4, <2>5, <2>6
<1>12. CASE Tick
  <2>1. UNCHANGED <<env, proc, result, listener, tracer, flushed, signalled, phase, span>>
        BY <1>12 DEF Tick
  <2>2. drainTime = Grace => drainTime' = Grace
        BY <1>12, SMT DEF Tick
  <2> QED BY <1>0, <2>1, <2>2
<1>13. CASE UNCHANGED vars
      BY <1>0, <1>13 DEF vars
<1> QED BY <1>1, <1>2, <1>3, <1>4, <1>5, <1>6, <1>7, <1>8, <1>9, <1>10, <1>11, <1>12, <1>13
        DEF Next, Run

LEMMA Invariance == Spec => []IInv
<1>1. IInv /\ [Next]_vars => IInv'
      BY TypeStep, OutcomeStep DEF IInv
<1> QED BY <1>1, InitIInv, PTL DEF Spec

\* Type correctness of Lifecycle.
THEOREM LifecycleTypeOK == Spec => []TypeOK
<1>1. IInv => TypeOK
      BY DEF IInv
<1> QED BY <1>1, Invariance, PTL

\* main.go:82: the exit code says whether requests were given up, and tells of
\* no other failure than the configuration's and the listener's.
THEOREM ExitCodesAreTruthful == Spec => []ExitCodeIsTruthful
<1>1. IInv => ExitCodeIsTruthful
      BY DEF IInv, TypeOK, Order, Outcome, ExitCodeIsTruthful, Abandoned, InProgress
<1> QED BY <1>1, Invariance, PTL

\* main.go:46: no span of an answered request is lost in an orderly shutdown.
THEOREM TracesStayComplete == Spec => []TracesAreComplete
<1>1. IInv => TracesAreComplete
      BY DEF IInv, Spans, TracesAreComplete
<1> QED BY <1>1, Invariance, PTL

-----------------------------------------------------------------------------
(* The drain.  All time that passes in it is charged to somebody's wait: to the   *)
(* fetch that holds the lock while a request waits for it, and to the request's   *)
(* own calls after that.  No handler fetches twice, so the fetches are as many as *)
(* the handlers that are past theirs, and one more.                               *)

\* The handlers that will not fetch any more, and what their fetches took at most.
Fetched ==
    {s \in Requests : phase[s] \notin {"none", "connected", "reading", "waiting", "fetching"}}
Spent == Cardinality(Fetched) * ThunderTimeout
Whole == Cardinality(Requests) * ThunderTimeout

\* A request that had its body when the drain began has spent the drain waiting
\* for others' fetches and its own calls.
InTime(r) ==
    /\ phase[r] = "waiting" =>
          /\ LockFree => drainTime <= Spent
          /\ \A q \in Requests : phase[q] = "fetching" => drainTime <= Spent + clock[q]
    /\ phase[r] = "fetching" => drainTime <= Spent + clock[r]
    /\ phase[r] = "exchanging" => drainTime <= Whole + clock[r]
    /\ phase[r] = "forwarding" => drainTime <= Whole + ThunderTimeout + clock[r]

TimesFit ==
    Timed(ThunderTimeout) /\ Timed(ForwardTimeout) /\ LongestHandling < Grace

Served(r) ==
    /\ TimesFit
    /\ proc \in {"draining", "flushing", "exited"}
    /\ phase[r] \notin {"none", "connected", "reading"}
    /\ proc = "draining" => InTime(r)
    /\ proc # "draining" => phase[r] \in {"writing", "answered"}

LEMMA TimeIsNatural ==
    ASSUME TypeOK, TimesFit
    PROVE  ThunderTimeout \in Nat /\ ForwardTimeout \in Nat
BY TimeoutsAreNumbers, SMT DEF TypeOK, TimesFit, Timed

\* One more element, one more multiple.
LEMMA Multiples ==
    ASSUME NEW t \in Nat, NEW S, IsFiniteSet(S), NEW T \in SUBSET S
    PROVE  /\ Cardinality(T) * t \in Nat /\ Cardinality(S) * t \in Nat
           /\ Cardinality(T) * t <= Cardinality(S) * t
           /\ \A x \in S \ T : /\ Cardinality(T \cup {x}) * t = Cardinality(T) * t + t
                               /\ Cardinality(T) * t + t <= Cardinality(S) * t
<1>1. \A a, b \in Nat : a <= b => a * t \in Nat /\ b * t \in Nat /\ a * t <= b * t
      BY SMT
<1>2. IsFiniteSet(T) /\ Cardinality(T) \in Nat /\ Cardinality(S) \in Nat
         /\ Cardinality(T) <= Cardinality(S)
      BY FS_Subset, FS_CardinalityType
<1>3. ASSUME NEW x \in S \ T
      PROVE  /\ Cardinality(T \cup {x}) * t = Cardinality(T) * t + t
             /\ Cardinality(T) * t + t <= Cardinality(S) * t
  <2>1. Cardinality(T \cup {x}) = Cardinality(T) + 1
        BY <1>2, FS_AddElement
  <2>2. Cardinality(T \cup {x}) <= Cardinality(S)
        BY FS_Subset
  <2>3. (Cardinality(T) + 1) * t = Cardinality(T) * t + t
        BY <1>2, SMT
  <2> QED BY <1>1, <1>2, <2>1, <2>2, <2>3
<1> QED BY <1>1, <1>2, <1>3

\* What is spent leaves room for the fetch of whoever has not fetched.
LEMMA SpentLeavesRoom ==
    ASSUME TypeOK, TimesFit
    PROVE  /\ Spent \in Nat /\ Whole \in Nat /\ Spent <= Whole
           /\ \A r \in Requests \ Fetched : Spent + ThunderTimeout <= Whole
           /\ LongestHandling = Whole + ThunderTimeout + ForwardTimeout
<1>1. ThunderTimeout \in Nat /\ ForwardTimeout \in Nat
      BY TimeIsNatural
<1>2. Fetched \in SUBSET Requests
      BY DEF Fetched
<1>3. Cardinality(Requests) \in Nat
      BY LifecycleAssumption, FS_CardinalityType
<1>4. LongestHandling = Whole + ThunderTimeout + ForwardTimeout
      BY <1>1, <1>3, SMT DEF LongestHandling, Whole
<1> QED BY <1>1, <1>2, <1>4, LifecycleAssumption, Multiples DEF Spent, Whole

\* A handler only moves on: what has been spent grows by a whole timeout when a
\* fetch ends.
LEMMA StepSpends ==
    ASSUME TypeOK, TimesFit, NEW s \in Requests, Step(s)
    PROVE  /\ Spent' \in Nat /\ Spent <= Spent'
           /\ phase[s] = "fetching" => Spent' = Spent + ThunderTimeout
<1>1. PICK q \in After(phase[s]) : phase' = [phase EXCEPT ![s] = q]
      BY DEF Step
<1>2. ThunderTimeout' = ThunderTimeout /\ ThunderTimeout \in Nat
      BY TimeIsNatural DEF Step, ThunderTimeout
<1>3. /\ phase[s] \in Phases /\ phase \in [Requests -> Phases]
      /\ \A t \in Requests : phase'[t] = IF t = s THEN q ELSE phase[t]
      BY <1>1 DEF TypeOK
<1>4. /\ phase[s] \notin {"none", "connected", "reading", "waiting", "fetching"} =>
            q \notin {"none", "connected", "reading", "waiting", "fetching"}
      /\ phase[s] = "fetching" => q \notin {"none", "connected", "reading", "waiting", "fetching"}
      BY SMT DEF After
<1>5. Fetched \subseteq Fetched' /\ Fetched' \subseteq Requests
      BY <1>3, <1>4 DEF Fetched
<1>6. IsFiniteSet(Fetched') /\ IsFiniteSet(Fetched)
      BY <1>5, LifecycleAssumption, FS_Subset
<1>7. Spent' = Cardinality(Fetched') * ThunderTimeout
      BY <1>2 DEF Spent
<1>8. Spent' \in Nat /\ Spent <= Spent'
      BY <1>2, <1>5, <1>6, <1>7, Multiples DEF Spent
<1>9. ASSUME phase[s] = "fetching" PROVE Spent' = Spent + ThunderTimeout
  <2>1. Fetched' = Fetched \cup {s} /\ s \in Fetched' \ Fetched
        BY <1>3, <1>4, <1>9 DEF Fetched
  <2> QED BY <1>2, <1>5, <1>6, <1>7, <2>1, Multiples DEF Spent
<1> QED BY <1>8, <1>9

LEMMA DrainBegins ==
    ASSUME NEW r \in Requests, IInv, TimesFit, proc = "draining", drainTime = 0,
           InProgress(r), phase[r] # "reading"
    PROVE  Served(r)
<1>1. Spent \in Nat /\ Whole \in Nat /\ ThunderTimeout \in Nat
      BY SpentLeavesRoom, TimeIsNatural DEF IInv
<1>2. \A q \in Requests : clock[q] \in Nat
      BY DEF IInv, TypeOK
<1>3. InTime(r)
      BY <1>1, <1>2, SMT DEF InTime
<1> QED BY <1>3 DEF Served, InProgress

\* A request that is served in time never waits until the deadline.
LEMMA ServedInTime ==
    ASSUME NEW r \in Requests, TypeOK, Served(r), proc = "draining", DeadlinePassed
    PROVE  phase[r] \in {"writing", "answered"}
<1>1. /\ Spent \in Nat /\ Whole \in Nat /\ Spent <= Whole
      /\ LongestHandling = Whole + ThunderTimeout + ForwardTimeout
      /\ ThunderTimeout \in Nat /\ ForwardTimeout \in Nat
      BY SpentLeavesRoom, TimeIsNatural DEF Served
<1>2. /\ drainTime \in Int /\ Grace \in Nat /\ drainTime >= Grace
      /\ Whole + ThunderTimeout + ForwardTimeout < Grace
      BY <1>1, LifecycleAssumption, SMT DEF TypeOK, Served, TimesFit, DeadlinePassed
<1>3. \A q \in Requests :
          /\ clock[q] \in Nat
          /\ phase[q] \in {"fetching", "exchanging"} => clock[q] <= ThunderTimeout
          /\ phase[q] = "forwarding" => clock[q] <= ForwardTimeout
      BY SMT DEF TypeOK, Limit, Served, TimesFit
<1>4. phase[r] # "waiting"
  <2> SUFFICES ASSUME phase[r] = "waiting" PROVE FALSE
      OBVIOUS
  <2>1. CASE LockFree
        BY <1>1, <1>2, <2>1, SMT DEF Served, InTime
  <2>2. CASE ~LockFree
    <3>1. PICK q \in Requests : phase[q] = "fetching"
          BY <2>2 DEF LockFree
    <3>2. drainTime <= Spent + clock[q]
          BY <3>1 DEF Served, InTime
    <3> QED BY <1>1, <1>2, <1>3, <3>1, <3>2, SMT
  <2> QED BY <2>1, <2>2
<1>5. phase[r] \notin {"fetching", "exchanging", "forwarding"}
      BY <1>1, <1>2, <1>3, SMT DEF Served, InTime
<1> QED BY <1>4, <1>5 DEF TypeOK, Phases, Served

LEMMA ServedTick ==
    ASSUME NEW r \in Requests, IInv, Served(r), Tick
    PROVE  Served(r)'
<1> USE DEF IInv, TypeOK
<1>1. UNCHANGED <<env, proc, phase>>
      BY DEF Tick, main
<1>2. /\ ThunderTimeout' = ThunderTimeout /\ ForwardTimeout' = ForwardTimeout
      /\ (LockFree' <=> LockFree) /\ Fetched' = Fetched
      BY <1>1 DEF ThunderTimeout, ForwardTimeout, LockFree, Fetched
<1>3. TimesFit' /\ Spent' = Spent /\ Whole' = Whole
      BY <1>2 DEF TimesFit, Timed, LongestHandling, Spent, Whole, Served
<1>4. Spent \in Nat /\ Whole \in Nat /\ ThunderTimeout \in Nat
      BY SpentLeavesRoom, TimeIsNatural DEF Served
<1>5. ASSUME NEW q \in Requests, phase[q] \in {"fetching", "exchanging", "forwarding"}
      PROVE  clock'[q] = clock[q] + 1 /\ clock[q] \in Nat
      BY <1>5 DEF Tick, Limit, Served, TimesFit
<1>6. ASSUME proc = "draining" PROVE InTime(r)'
  <2>1. drainTime \in Int /\ drainTime' \in Int /\ drainTime' <= drainTime + 1
        BY LifecycleAssumption, SMT DEF Tick
  <2>2. phase[r] = "waiting" => ~LockFree
        BY DEF Tick
  <2>3. InTime(r)
        BY <1>6 DEF Served
  <2>4. ASSUME phase[r] = "waiting", NEW q \in Requests, phase[q] = "fetching"
        PROVE  drainTime' <= Spent + clock'[q]
    <3>1. drainTime <= Spent + clock[q]
          BY <2>3, <2>4 DEF InTime
    <3> QED BY <1>4, <1>5, <2>1, <2>4, <3>1, SMT
  <2>5. /\ phase[r] = "fetching" => drainTime' <= Spent + clock'[r]
        /\ phase[r] = "exchanging" => drainTime' <= Whole + clock'[r]
        /\ phase[r] = "forwarding" => drainTime' <= Whole + ThunderTimeout + clock'[r]
        BY <1>4, <1>5, <2>1, <2>3, SMT DEF InTime
  <2> QED BY <1>1, <1>2, <1>3, <2>2, <2>4, <2>5 DEF InTime
<1> QED BY <1>1, <1>3, <1>6 DEF Served

LEMMA ServedStep ==
    ASSUME NEW r \in Requests, IInv, Served(r), NEW s \in Requests, Step(s)
    PROVE  Served(r)'
<1> USE DEF IInv, TypeOK
<1>1. PICK q \in After(phase[s]) : phase' = [phase EXCEPT ![s] = q]
      BY DEF Step
<1>2. /\ UNCHANGED <<env, proc, drainTime>> /\ clock' = [clock EXCEPT ![s] = 0]
      /\ phase[s] = "waiting" => LockFree
      BY DEF Step, main, timers
<1>3. /\ \A t \in Requests : phase'[t] = IF t = s THEN q ELSE phase[t]
      /\ \A t \in Requests : clock'[t] = IF t = s THEN 0 ELSE clock[t]
      BY <1>1, <1>2
<1>4. /\ ThunderTimeout' = ThunderTimeout /\ ForwardTimeout' = ForwardTimeout
      /\ Whole' = Whole /\ TimesFit'
      BY <1>2 DEF ThunderTimeout, ForwardTimeout, Whole, TimesFit, Timed, LongestHandling,
         Served
<1>5. /\ Spent \in Nat /\ Whole \in Nat /\ ThunderTimeout \in Nat /\ Spent <= Whole
      /\ \A t \in Requests \ Fetched : Spent + ThunderTimeout <= Whole
      BY SpentLeavesRoom, TimeIsNatural DEF Served
<1>6. /\ Spent' \in Nat /\ Spent <= Spent'
      /\ phase[s] = "fetching" => Spent' = Spent + ThunderTimeout
      BY StepSpends DEF Served
<1>7. \A t \in Requests :
          /\ clock[t] \in Nat
          /\ phase[t] \in {"fetching", "exchanging"} => clock[t] <= ThunderTimeout
      BY SMT DEF Limit, Served, TimesFit
<1>8. phase'[r] \notin {"none", "connected", "reading"}
      BY <1>3, SMT DEF After, Served
<1>9. proc # "draining" => phase'[r] \in {"writing", "answered"}
      BY <1>3, SMT DEF After, Served
<1>10. ASSUME proc = "draining" PROVE InTime(r)'
  <2>1. InTime(r) /\ drainTime \in Int
        BY <1>10, SMT DEF Served
  <2>2. ASSUME phase'[r] = "waiting"
        PROVE  /\ LockFree' => drainTime <= Spent'
               /\ \A t \in Requests : phase'[t] = "fetching" => drainTime <= Spent' + clock'[t]
    <3>1. phase[r] = "waiting"
          BY <1>3, <1>8, <2>2, SMT DEF After, Served
    <3>2. CASE phase[s] = "fetching"
      <4>1. drainTime <= Spent + clock[s] /\ clock[s] <= ThunderTimeout /\ clock[s] \in Nat
            BY <1>7, <2>1, <3>1, <3>2 DEF InTime
      <4>2. drainTime <= Spent'
            BY <1>5, <1>6, <2>1, <3>2, <4>1, SMT
      <4> QED BY <1>3, <1>6, <1>7, <2>1, <4>2, SMT
    <3>3. CASE q = "fetching"
      <4>1. phase[s] = "waiting"
            BY <3>3, SMT DEF After
      <4>2. drainTime <= Spent
            BY <1>2, <2>1, <3>1, <4>1 DEF InTime
      <4> QED BY <1>3, <1>5, <1>6, <1>7, <2>1, <4>2, SMT
    <3>4. CASE phase[s] # "fetching" /\ q # "fetching"
      <4>1. LockFree' => LockFree
            BY <1>3, <3>4 DEF LockFree
      <4>2. LockFree' => drainTime <= Spent'
            BY <1>5, <1>6, <2>1, <3>1, <4>1, SMT DEF InTime
      <4>3. ASSUME NEW t \in Requests, phase'[t] = "fetching"
            PROVE  drainTime <= Spent' + clock'[t]
        <5>1. phase[t] = "fetching" /\ clock'[t] = clock[t]
              BY <1>3, <3>4, <4>3
        <5>2. drainTime <= Spent + clock[t]
              BY <2>1, <3>1, <5>1 DEF InTime
        <5> QED BY <1>5, <1>6, <1>7, <2>1, <5>1, <5>2, SMT
      <4> QED BY <4>2, <4>3
    <3> QED BY <3>2, <3>3, <3>4
  <2>3. CASE r # s
    <3>1. phase'[r] = phase[r] /\ clock'[r] = clock[r] /\ clock[r] \in Nat
          BY <1>3, <1>7, <2>3
    <3>2. /\ phase[r] = "fetching" => drainTime <= Spent' + clock[r]
          /\ phase[r] = "exchanging" => drainTime <= Whole + clock[r]
          /\ phase[r] = "forwarding" => drainTime <= Whole + ThunderTimeout + clock[r]
          BY <1>5, <1>6, <2>1, <3>1, SMT DEF InTime
    <3> QED BY <1>2, <1>4, <2>2, <3>1, <3>2 DEF InTime
  <2>4. CASE r = s
    <3>1. phase'[r] = q /\ clock'[r] = 0
          BY <1>3, <2>4
    <3>2. q = "fetching" => drainTime <= Spent'
      <4>1. q = "fetching" => phase[r] = "waiting" /\ LockFree
            BY <1>2, <2>4, SMT DEF After
      <4>2. q = "fetching" => drainTime <= Spent
            BY <2>1, <4>1 DEF InTime
      <4> QED BY <1>5, <1>6, <2>1, <4>2, SMT
    <3>3. q = "exchanging" => drainTime <= Whole
      <4>1. q = "exchanging" =>
               \/ phase[r] = "waiting" /\ LockFree
               \/ phase[r] = "fetching" /\ r \notin Fetched
            BY <1>2, <2>4, SMT DEF After, Served, Fetched
      <4> QED BY <1>5, <1>7, <2>1, <4>1, SMT DEF InTime
    <3>4. q = "forwarding" => drainTime <= Whole + ThunderTimeout
      <4>1. q = "forwarding" => phase[r] = "exchanging"
            BY <2>4, SMT DEF After
      <4> QED BY <1>5, <1>7, <2>1, <4>1, SMT DEF InTime
    <3>5. \A n \in Nat : n + 0 = n
          BY SMT
    <3>6. /\ Spent' + 0 = Spent' /\ Whole + 0 = Whole
          /\ Whole + ThunderTimeout + 0 = Whole + ThunderTimeout
      <4>1. Whole + ThunderTimeout \in Nat
            BY <1>5, SMT
      <4> QED BY <1>5, <1>6, <3>5, <4>1, Zenon
    <3> QED BY <1>2, <1>4, <2>2, <3>1, <3>2, <3>3, <3>4, <3>5, <3>6 DEF InTime
  <2> QED BY <2>3, <2>4
<1> QED BY <1>2, <1>4, <1>8, <1>9, <1>10 DEF Served

\* Connections and requests that come and go meanwhile have not fetched.
LEMMA ServedArrival ==
    ASSUME NEW r \in Requests, IInv, Served(r), NEW s \in Requests,
           Connect(s) \/ CloseIdle(s) \/ Accept(s)
    PROVE  Served(r)'
<1> USE DEF IInv, TypeOK
<1>1. PICK p \in {"none", "connected", "reading"} :
          /\ phase[s] \in {"none", "connected"}
          /\ phase' = [phase EXCEPT ![s] = p]
          /\ UNCHANGED <<env, proc, clock, drainTime>>
      BY DEF Connect, CloseIdle, Accept, main, timers
<1>2. /\ \A t \in Requests : phase'[t] = IF t = s THEN p ELSE phase[t]
      /\ phase'[r] = phase[r]
      BY <1>1 DEF Served
<1>3. /\ \A t \in Requests : phase'[t] = "fetching" <=> phase[t] = "fetching"
      /\ (LockFree' <=> LockFree) /\ Fetched' = Fetched
      BY <1>1, <1>2 DEF LockFree, Fetched
<1>4. ThunderTimeout' = ThunderTimeout /\ ForwardTimeout' = ForwardTimeout
      BY <1>1 DEF ThunderTimeout, ForwardTimeout
<1>5. TimesFit' /\ Spent' = Spent /\ Whole' = Whole
      BY <1>3, <1>4 DEF TimesFit, Timed, LongestHandling, Spent, Whole, Served
<1>6. InTime(r) => InTime(r)'
      BY <1>1, <1>2, <1>3, <1>4, <1>5 DEF InTime
<1> QED BY <1>1, <1>2, <1>5, <1>6 DEF Served

LEMMA ServedStaysServed ==
    ASSUME NEW r \in Requests, IInv, Served(r), [Next]_vars
    PROVE  Served(r)'
<1> USE DEF IInv, main, handlers, timers
<1>1. ASSUME UNCHANGED <<env, phase, clock, drainTime>>,
             \/ proc' = proc
             \/ proc' \in {"flushing", "exited"} /\ phase[r] \in {"writing", "answered"}
      PROVE  Served(r)'
  <2>1. /\ ThunderTimeout' = ThunderTimeout /\ ForwardTimeout' = ForwardTimeout
        /\ (LockFree' <=> LockFree) /\ Fetched' = Fetched
        BY <1>1 DEF ThunderTimeout, ForwardTimeout, LockFree, Fetched
  <2>2. TimesFit' /\ Spent' = Spent /\ Whole' = Whole
        BY <2>1 DEF TimesFit, Timed, LongestHandling, Spent, Whole, Served
  <2>3. InTime(r) => InTime(r)'
        BY <1>1, <2>1, <2>2 DEF InTime
  <2> QED BY <1>1, <2>2, <2>3 DEF Served
<1>2. CASE EndDrain
  <2>1. phase[r] \in {"writing", "answered"}
    <3>1. Drained => phase[r] = "answered"
          BY DEF Drained, InProgress, Served
    <3> QED BY <1>2, <3>1, ServedInTime DEF EndDrain
  <2> QED BY <1>1, <1>2, <2>1 DEF EndDrain
<1>3. CASE Refuse \/ Start \/ Listen \/ ReturnServeError \/ StartDrain \/ ServeFails
      BY <1>3 DEF Refuse, Start, Listen, ReturnServeError, StartDrain, ServeFails, Served
<1>4. CASE FlushSpans
      BY <1>1, <1>4 DEF FlushSpans
<1>5. CASE Exit
      BY <1>1, <1>5 DEF Exit, Served
<1>6. CASE Signal
      BY <1>1, <1>6 DEF Signal, Served
<1>7. ASSUME NEW s \in Requests, Connect(s) \/ CloseIdle(s) \/ Accept(s)
      PROVE  Served(r)'
      BY <1>7, ServedArrival
<1>8. ASSUME NEW s \in Requests, Step(s) PROVE Served(r)'
      BY <1>8, ServedStep
<1>9. CASE Tick
      BY <1>9, ServedTick
<1>10. CASE UNCHANGED vars
      BY <1>1, <1>10 DEF vars
<1> QED BY <1>2, <1>3, <1>4, <1>5, <1>6, <1>7, <1>8, <1>9, <1>10 DEF Next, Run

\* main.go:82: with timeouts that fit into the grace period, however many requests
\* there are, the drain gives up none that had its body when it began, unless its
\* caller does not take the answer.
THEOREM DrainsAreLongEnough == Spec => DrainIsLongEnough
<1>1. ASSUME NEW r \in Requests
      PROVE  Spec =>
        []( /\ Timed(ThunderTimeout) /\ Timed(ForwardTimeout)
            /\ LongestHandling < Grace
            /\ proc = "draining" /\ drainTime = 0
            /\ InProgress(r) /\ phase[r] # "reading"
          => [](Abandoned(r) => phase[r] = "writing"))
  <2>1. IInv =>
          ( /\ Timed(ThunderTimeout) /\ Timed(ForwardTimeout)
            /\ LongestHandling < Grace
            /\ proc = "draining" /\ drainTime = 0
            /\ InProgress(r) /\ phase[r] # "reading"
          => Served(r))
        BY DrainBegins DEF TimesFit
  <2>2. IInv /\ Served(r) /\ [Next]_vars => Served(r)'
        BY ServedStaysServed
  <2>3. Served(r) => (Abandoned(r) => phase[r] = "writing")
        BY DEF Served, Abandoned, InProgress
  <2> QED BY <2>1, <2>2, <2>3, Invariance, PTL DEF Spec
<1> QED BY <1>1 DEF DrainIsLongEnough
==================================================================================
