------------------------------ MODULE KeyedWork ------------------------------
(***************************************************************************)
(* What the job queue promises, without rows, locks or attempts: keys that *)
(* wait for a run, at most one runner for each, and no request that is     *)
(* swallowed by a run which began before it: a request for a key that is   *)
(* being run takes effect when that run is over.                           *)
(***************************************************************************)
CONSTANTS Keys, Workers, None

VARIABLES
  asked,   \* keys requested since their last run began
  waiting, \* keys the queue holds a job for, those being run included
  runner   \* who runs a key

vars == <<asked, waiting, runner>>

Running == {k \in Keys : runner[k] # None}

Init == asked = {} /\ waiting = {} /\ runner = [k \in Keys |-> None]

\* A transaction that requested the keys K commits.
Request(K) ==
  /\ K \cap Running = {}
  /\ asked' = asked \cup K /\ waiting' = waiting \cup K
  /\ UNCHANGED runner

Take(w, k) ==
  /\ k \in waiting \ Running
  /\ \A j \in Keys : runner[j] # w
  /\ asked' = asked \ {k}
  /\ runner' = [runner EXCEPT ![k] = w]
  /\ UNCHANGED waiting

\* The run is over, with success or for the last time.  It requested the keys
\* K, its own one if it needs another pass.
Settle(w, k, K) ==
  /\ runner[k] = w /\ K \cap Running \subseteq {k}
  /\ asked' = (asked \ {k}) \cup K /\ waiting' = (waiting \ {k}) \cup K
  /\ runner' = [runner EXCEPT ![k] = None]

\* The run failed or broke off: the key is asked for again.
GiveBack(w, k, K) ==
  /\ runner[k] = w /\ K \cap Running \subseteq {k}
  /\ asked' = asked \cup {k} \cup K /\ waiting' = waiting \cup K
  /\ runner' = [runner EXCEPT ![k] = None]

\* An operator gives up a key that is not being run.
Drop(k) ==
  /\ k \in waiting \ Running
  /\ asked' = asked \ {k} /\ waiting' = waiting \ {k}
  /\ UNCHANGED runner

Next ==
  \/ \E K \in SUBSET Keys : Request(K)
  \/ \E w \in Workers, k \in Keys :
       \/ Take(w, k)
       \/ \E K \in SUBSET Keys : Settle(w, k, K) \/ GiveBack(w, k, K)
  \/ \E k \in Keys : Drop(k)

Spec == Init /\ [][Next]_vars
=============================================================================
