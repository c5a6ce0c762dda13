-------------------------------- MODULE MCBurst --------------------------------
(* Verifier with a history variable: the goroutines that were waiting for the  *)
(* refresh lock when somebody's fetch ended, and are waiting still.            *)
EXTENDS Verifier

VARIABLE overtaken

Fetching(p) == pc[p] \in {"fetching", "answered"}

BurstInit == Init /\ overtaken = {}

BurstNext ==
    /\ Next
    /\ overtaken' =
          {p \in Procs :
              /\ pc[p] = "waiting" /\ pc'[p] = "waiting"
              /\ \/ p \in overtaken
                 \/ \E q \in Procs : Fetching(q) /\ ~Fetching(q)'}

BurstSpec == BurstInit /\ [][BurstNext]_<<vars, overtaken>>

\* jwks.go:197: one refresh at a time; a burst of unknown kids causes one fetch.
\* A fetch that fails leaves fetchedAt alone, so each waiter fetches again.
BurstCausesOneFetch ==
    [][\A p \in overtaken : pc'[p] # "fetching"]_<<vars, overtaken>>
================================================================================
