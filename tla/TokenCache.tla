------------------------------ MODULE TokenCache ------------------------------
(***************************************************************************)
(* The coordinator's wide token (src/agents/coordinator/app.py): cached     *)
(* until shortly before the coordinator believes it expires, renewed under  *)
(* a lock, and used for a delegation that takes a while to reach whoever    *)
(* checks it.                                                               *)
(*                                                                          *)
(* A token is represented by the time it has left, which every tick         *)
(* shortens; what the coordinator believes it has left is counted from the  *)
(* moment the answer arrives, and so is too much.                           *)
(***************************************************************************)
EXTENDS Integers

CONSTANTS Threads,      \* worker threads of the coordinator
          Lifetime,     \* validity of a token, one hour
          Margin,       \* the 30 seconds of get
          AnswerTime,   \* httpx's 10 seconds, within which Thunder's answer is read
          CallTime      \* the longest a call lasts: httpx gives each of its
                        \* waits 30 seconds, which is not related to Margin

ASSUME TokenCacheAssumption ==
    /\ Lifetime \in Nat /\ Margin \in Nat /\ AnswerTime \in Nat /\ CallTime \in Nat
    /\ Margin < Lifetime

VARIABLES configured,   \* whether Thunder's address and the client id are set
          cached,       \* _token: time it has left, 0 for none or an expired one
          believed,     \* _expires_at - time.time(), not below 0
          pc,           \* where each thread is in get and delegate
          issued,       \* time left of the token that Thunder has sent a thread
          held,         \* time left of the token a thread delegates with
          spent         \* how long a thread's request or call has taken

cache == <<cached, believed>>
vars == <<configured, cache, pc, issued, held, spent>>

Results == {"refused", "accepted", "expired"}

Init ==
    /\ configured \in BOOLEAN
    /\ cached = 0 /\ believed = 0
    /\ pc = [t \in Threads |-> "idle"]
    /\ issued = [t \in Threads |-> 0]
    /\ held = [t \in Threads |-> 0]
    /\ spent = [t \in Threads |-> 0]

Goto(t, label) ==
    /\ pc' = [pc EXCEPT ![t] = label]
    /\ spent' = [spent EXCEPT ![t] = 0]

Delegate(t) ==
    /\ pc[t] = "idle"
    /\ Goto(t, "waiting")
    /\ UNCHANGED <<configured, cache, issued, held>>

-----------------------------------------------------------------------------
(* _TokenCache.get *)

\* Mutant: no lock around get.
NoLock == TRUE

\* The lock is held while a token is requested; a hit holds it for no time.
LockFree == \A t \in Threads : pc[t] \notin {"requesting", "answered"}

\* Mutant: the token is used until it is believed to expire.
UsableToTheEnd == believed > 0

Usable == believed > Margin

CallWith(t, token) ==
    /\ held' = [held EXCEPT ![t] = token]
    /\ Goto(t, "calling")

Hit(t) ==
    /\ pc[t] = "waiting" /\ LockFree
    /\ Usable
    /\ CallWith(t, cached)
    /\ UNCHANGED <<configured, cache, issued>>

Unconfigured(t) ==
    /\ pc[t] = "waiting" /\ LockFree
    /\ ~Usable /\ ~configured
    /\ Goto(t, "refused")
    /\ UNCHANGED <<configured, cache, issued, held>>

Request(t) ==
    /\ pc[t] = "waiting" /\ LockFree
    /\ ~Usable /\ configured
    /\ Goto(t, "requesting")
    /\ UNCHANGED <<configured, cache, issued, held>>

\* Thunder issues a token; the answer is on its way from here on.
Issue(t) ==
    /\ pc[t] = "requesting"
    /\ Goto(t, "answered")
    /\ issued' = [issued EXCEPT ![t] = Lifetime]
    /\ UNCHANGED <<configured, cache, held>>

Store(t) ==
    /\ pc[t] = "answered"
    /\ cached' = issued[t] /\ believed' = Lifetime
    /\ CallWith(t, issued[t])
    /\ issued' = [issued EXCEPT ![t] = 0]
    /\ UNCHANGED configured

\* Mutant: the expiry is stored first, and then there is no access_token.
StoreTornExpiryFirst(t) ==
    /\ pc[t] = "answered"
    /\ believed' = Lifetime
    /\ Goto(t, "refused")
    /\ issued' = [issued EXCEPT ![t] = 0]
    /\ UNCHANGED <<configured, cached, held>>

\* float() raises on expires_in when the token is already stored.
StoreTorn(t) ==
    /\ pc[t] = "answered"
    /\ cached' = issued[t]
    /\ Goto(t, "refused")
    /\ issued' = [issued EXCEPT ![t] = 0]
    /\ UNCHANGED <<configured, believed, held>>

\* Mutant: httpx without a timeout, only an answer ends the request.
RequestFailsOnAnswer(t) ==
    /\ pc[t] = "answered"
    /\ Goto(t, "refused")
    /\ issued' = [issued EXCEPT ![t] = 0]
    /\ UNCHANGED <<configured, cache, held>>

\* A transport error, a timeout, a status other than 200, no JSON, no
\* access_token.  Leaving get releases the lock, by whatever exception.
RequestFails(t) ==
    /\ pc[t] \in {"requesting", "answered"}
    /\ Goto(t, "refused")
    /\ issued' = [issued EXCEPT ![t] = 0]
    /\ UNCHANGED <<configured, cache, held>>

-----------------------------------------------------------------------------
(* _via_broker, _direct *)

\* The last check of the token: Thunder's, at the exchange, or the specialist's.
\* It may come at any time of the call: the broker queues for its refresh lock,
\* fetches keys and exchanges, and the specialist may fetch keys.
Check(t) ==
    /\ pc[t] = "calling"
    /\ Goto(t, IF held[t] > 0 THEN "accepted" ELSE "expired")
    /\ UNCHANGED <<configured, cache, issued, held>>

\* The call fails for a reason of its own.
CallFails(t) ==
    /\ pc[t] = "calling"
    /\ Goto(t, "refused")
    /\ UNCHANGED <<configured, cache, issued, held>>

Return(t) ==
    /\ pc[t] \in Results
    /\ Goto(t, "idle")
    /\ held' = [held EXCEPT ![t] = 0]
    /\ UNCHANGED <<configured, cache, issued>>

-----------------------------------------------------------------------------
Less(time) == IF time > 0 THEN time - 1 ELSE 0

\* The timeouts of the token request and of the call.
AnswerOverdue(t) == pc[t] = "answered" /\ spent[t] >= AnswerTime

\* Mutant: the call has no timeout.
NeverOverdue(t) == FALSE

CallOverdue(t) == pc[t] = "calling" /\ spent[t] >= CallTime

\* Time passes while no thread can go on.  How long Thunder takes to issue is
\* not counted, only that the answer then arrives in time.
Tick ==
    /\ \A t \in Threads :
          /\ pc[t] = "waiting" => ~LockFree
          /\ ~AnswerOverdue(t) /\ ~CallOverdue(t)
    /\ cached' = Less(cached) /\ believed' = Less(believed)
    /\ issued' = [t \in Threads |-> Less(issued[t])]
    /\ held' = [t \in Threads |-> Less(held[t])]
    /\ spent' = [t \in Threads |->
                   IF pc[t] \in {"answered", "calling"} THEN spent[t] + 1 ELSE 0]
    /\ UNCHANGED <<configured, pc>>

Get(t) == Hit(t) \/ Unconfigured(t) \/ Request(t)
Next ==
    \/ \E t \in Threads : \/ Delegate(t) \/ Get(t)
                          \/ Issue(t) \/ Store(t) \/ StoreTorn(t) \/ RequestFails(t)
                          \/ Check(t) \/ CallFails(t) \/ Return(t)
    \/ Tick

\* Requests and calls end by httpx's timeouts.  A threading.Lock promises no
\* thread its turn: weak fairness only.
Fairness == \A t \in Threads :
    /\ WF_vars(Get(t))
    /\ WF_vars(Store(t) \/ RequestFails(t))
    /\ WF_vars(Check(t) \/ CallFails(t))

Spec == Init /\ [][Next]_vars /\ Fairness

-----------------------------------------------------------------------------
Times == 0 .. Lifetime

TypeOK ==
    /\ configured \in BOOLEAN
    /\ cached \in Times /\ believed \in Times
    /\ pc \in [Threads -> {"idle", "waiting", "requesting", "answered", "calling"} \cup Results]
    /\ issued \in [Threads -> Times]
    /\ held \in [Threads -> Times]
    /\ spent \in [Threads -> Nat]
    /\ \A t \in Threads : /\ pc[t] = "answered" => spent[t] <= AnswerTime
                          /\ pc[t] = "calling" => spent[t] <= CallTime

\* app.py:78: what the margin of 30 seconds is worth.  A token that expires on
\* its way to the check has been on its way for longer than the margin less the
\* time an answer takes, whatever renewals went wrong before.  That is all: a call
\* may last longer than the margin, and then its token may expire.
ExpiresOnlyIfSlow ==
    [][\A t \in Threads :
          pc[t] = "calling" /\ pc'[t] = "expired" => spent[t] > Margin - AnswerTime]_vars

\* app.py:107: the coordinator is never wrong about the cached token by more
\* than the time an answer takes, also when a renewal ends halfway.
BeliefIsClose == believed <= cached + AnswerTime

\* app.py:76: renewals are stored in the order in which the tokens were issued;
\* the cache never goes back to a token that expires earlier.
RenewalsAreInOrder == [][pc' # pc => cached' >= cached]_vars

\* app.py:83-104: no renewal keeps the lock, though it is held during a request
\* to a Thunder that may be silent.  Of those that wait, somebody gets a result;
\* which of them, a threading.Lock does not say.
WaitersMakeProgress ==
    (\E t \in Threads : pc[t] = "waiting") ~> (\E t \in Threads : pc[t] \in Results)
=============================================================================
