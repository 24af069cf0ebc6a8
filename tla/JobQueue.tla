------------------------------- MODULE JobQueue -------------------------------
(***************************************************************************)
(* The Postgres job queue: JobRepository (db/repositories/jobs.py), its    *)
(* dedupe matcher (job_dedupe.py), the partial unique indexes that back it *)
(* and the worker loop (workers/run.py).                                   *)
(*                                                                         *)
(* Every process works in READ COMMITTED transactions.  jobs[i] is the     *)
(* committed version of row i, draft[i] the version its lock holder has    *)
(* written but not committed, holder[i] that holder.  The worker claims a  *)
(* job, runs its handler and marks the job in ONE transaction, so the row  *)
(* lock, not the lease columns, is what protects a running job.            *)
(*                                                                         *)
(* A payload is abstracted to its dedupe key.  Timestamps are abstracted   *)
(* to due (run_after <= now()) and to the order of the row identifiers     *)
(* (created_at).                                                           *)
(***************************************************************************)
EXTENDS Naturals

CONSTANTS
  Keys,         \* dedupe keys: a job type with its document, slot or pair
  Workers,      \* worker processes
  Producers,    \* API requests that enqueue as part of their transaction
  Admins,       \* operators of the admin job routes
  None,         \* no process, no key
  Follow,       \* Follow[k]: keys the handler of a k job may enqueue
  Refire,       \* keys whose job may ask for another pass when it is done
  Debounced,    \* keys whose run_after lies in the future (aggregate job)
  Poison,       \* keys whose handler always aborts the database transaction
  MaxAttempts,  \* Job.max_attempts
  MaxJobs,      \* bound: rows of the jobs table
  MaxTxns,      \* bound: producer transactions
  MaxCrashes,   \* bound: worker deaths other than those of Poison jobs
  MaxAdminOps,  \* bound: admin cancel and retry requests
  MaxPasses     \* bound: further passes of Refire jobs

ASSUME QueueAssumption ==
  /\ None \notin Keys \cup Workers \cup Producers
  /\ Workers \cap Producers = {}
  /\ Follow \in [Keys -> SUBSET Keys]
  /\ \A k \in Keys : k \notin Follow[k]
  /\ Refire \subseteq Keys /\ Debounced \subseteq Keys /\ Poison \subseteq Keys
  /\ MaxAttempts \in Nat \ {0} /\ MaxJobs \in Nat
  /\ {MaxTxns, MaxCrashes, MaxAdminOps, MaxPasses} \subseteq Nat

VARIABLES
  jobs,     \* committed rows
  draft,    \* rows as the transaction that holds them sees them
  holder,   \* the process that holds the row lock, or None
  stage,    \* where a process is in its transaction
  target,   \* the key a process is enqueuing
  found,    \* the row its duplicate search returned (0: none)
  current,  \* the job a worker runs (0: none)
  req,      \* keys a transaction has enqueued so far
  fresh,    \* request of a key: none, queued (committed), taken (being run)
  adm,      \* the row an admin request has loaded
  spent     \* how much of each bound is used up

vars == <<jobs, draft, holder, stage, target, found, current, req, fresh,
          adm, spent>>

Procs == Workers \cup Producers
Ids == 1 .. MaxJobs
Statuses == {"absent", "pending", "running", "done", "dead", "cancelled"}
Row == [key : Keys \cup {None}, status : Statuses, attempts : 0 .. MaxAttempts,
        due : BOOLEAN]
Stages == {"idle", "open", "locking", "inserting", "relocking"}
NoRow == [key |-> None, status |-> "absent", attempts |-> 0, due |-> FALSE]
NoOp == [op |-> "none", job |-> 0]

TypeOK ==
  /\ jobs \in [Ids -> Row]
  /\ draft \in [Ids -> Row]
  /\ holder \in [Ids -> Procs \cup {None}]
  /\ stage \in [Procs -> Stages]
  /\ target \in [Procs -> Keys \cup {None}]
  /\ found \in [Procs -> Ids \cup {0}]
  /\ current \in [Workers -> Ids \cup {0}]
  /\ req \in [Procs -> SUBSET Keys]
  /\ fresh \in [Keys -> {"none", "queued", "taken"}]
  /\ adm \in [Admins -> [op : {"none", "cancel", "retry"}, job : Ids \cup {0}]]
  /\ spent \in [txns : Nat, crashes : Nat, adminOps : Nat, passes : Nat]

-----------------------------------------------------------------------------
(* Rows                                                                    *)

OpenStatuses == {"pending", "running"}
IsOpen(r) == r.status \in OpenStatuses

\* What process p reads in row i: its own writes, else the committed row.
Seen(p, i) == IF holder[i] = p THEN draft[i] ELSE jobs[i]
OpenFor(p, k) == {i \in Ids : Seen(p, i).key = k /\ IsOpen(Seen(p, i))}
CanLock(p, i) == holder[i] \in {None, p}

\* Rows of key k that the partial unique index holds against process p: open
\* in the committed table, or made open by another transaction in progress.
Live(i) == IsOpen(jobs[i]) \/ IsOpen(draft[i])
NoUniqueIndex(p, k) == {}
Rivals(p, k) == {i \in Ids : holder[i] # p /\ draft[i].key = k /\ Live(i)}

\* _run_after_for: only the debounced job type starts in the future.
RunAfter(k) == k \notin Debounced

\* _refresh_open_job.  A row seen as running belongs to the caller itself and
\* its lease is live, so it stays running.
Refreshed(r) == [r EXCEPT !.due = RunAfter(r.key)]

NewRow(k) == [key |-> k, status |-> "pending", attempts |-> 0, due |-> RunAfter(k)]

\* claim_next: a pending row that is due, or a running row whose lease ran
\* out (any committed running row may be one).
Claimable(i) ==
  /\ holder[i] = None
  /\ \/ jobs[i].status = "pending" /\ jobs[i].due
     \/ jobs[i].status = "running"

\* mark_failed: back to pending with a backoff, or dead at the last attempt.
FailedLate(r) ==
  IF r.attempts > MaxAttempts THEN [r EXCEPT !.status = "dead"]
                              ELSE [r EXCEPT !.status = "pending", !.due = FALSE]
FailedUncounted(r) ==
  [r EXCEPT !.status = "pending", !.due = FALSE, !.attempts = r.attempts - 1]
Failed(r) ==
  IF r.attempts >= MaxAttempts THEN [r EXCEPT !.status = "dead"]
                               ELSE [r EXCEPT !.status = "pending", !.due = FALSE]

\* The admin retry of a dead job.
RequeuedExhausted(r) == [r EXCEPT !.status = "pending", !.due = TRUE]
Requeued(r) == [r EXCEPT !.status = "pending", !.attempts = 0, !.due = TRUE]

-----------------------------------------------------------------------------
(* Transactions                                                            *)

Closed(w) == draft[current[w]].status = "done"
InTxn(p) == stage[p] # "idle"
KeyOf(w) == jobs[current[w]].key

\* Ends p's transaction with the row versions d visible to everyone.
CommitWith(p, d) ==
  /\ jobs' = [i \in Ids |-> IF holder[i] = p THEN d[i] ELSE jobs[i]]
  /\ draft' = d

Discard(p) ==
  /\ draft' = [i \in Ids |-> IF holder[i] = p THEN jobs[i] ELSE draft[i]]
  /\ UNCHANGED jobs

EndWork(p) ==
  /\ stage' = [stage EXCEPT ![p] = "idle"]
  /\ target' = [target EXCEPT ![p] = None]
  /\ found' = [found EXCEPT ![p] = 0]
  /\ req' = [req EXCEPT ![p] = {}]
  /\ current' = [w \in Workers |-> IF w = p THEN 0 ELSE current[w]]

FinishHoldingLocks(p) == EndWork(p) /\ UNCHANGED holder
Finish(p) ==
  /\ EndWork(p)
  /\ holder' = [i \in Ids |-> IF holder[i] = p THEN None ELSE holder[i]]

\* The requests of the keys p enqueued are queued; the one it ran, if any,
\* gets the given state.
Settle(p, state) ==
  fresh' = [k \in Keys |->
              IF k \in req[p] THEN "queued"
              ELSE IF p \in Workers /\ k = KeyOf(p) THEN state
              ELSE fresh[k]]

\* Rollback: nothing was requested; a job that was running is queued again.
Rollback(p) ==
  /\ Discard(p)
  /\ Finish(p)
  /\ fresh' = [k \in Keys |->
                 IF p \in Workers /\ k = KeyOf(p) THEN "queued" ELSE fresh[k]]

-----------------------------------------------------------------------------
(* enqueue                                                                 *)

\* The keys p may enqueue now: a request any key once, a handler its
\* follow-ups, and process_one the key itself once the job is marked done.
MayEnqueue(p) ==
  IF p \in Producers THEN Keys \ req[p]
  ELSE IF Closed(p) THEN (Refire \cap {KeyOf(p)}) \ req[p]
  ELSE Follow[KeyOf(p)] \ req[p]

Begin(p) ==
  /\ p \in Producers /\ stage[p] = "idle" /\ spent.txns < MaxTxns
  /\ stage' = [stage EXCEPT ![p] = "open"]
  /\ spent' = [spent EXCEPT !.txns = @ + 1]
  /\ UNCHANGED <<jobs, draft, holder, target, found, current, req, fresh, adm>>

\* _find_open_duplicate, the search: the newest open row in p's snapshot.
FindDuplicate(p, k) ==
  /\ stage[p] = "open" /\ k \in MayEnqueue(p)
  /\ p \in Workers /\ Closed(p) => spent.passes < MaxPasses
  /\ spent' = IF p \in Workers /\ Closed(p)
                THEN [spent EXCEPT !.passes = @ + 1] ELSE spent
  /\ target' = [target EXCEPT ![p] = k]
  /\ \/ /\ OpenFor(p, k) = {}
        /\ stage' = [stage EXCEPT ![p] = "inserting"]
        /\ UNCHANGED found
     \/ /\ stage' = [stage EXCEPT ![p] = "locking"]
        /\ \E i \in OpenFor(p, k) :
             /\ \A j \in OpenFor(p, k) : j <= i
             /\ found' = [found EXCEPT ![p] = i]
  /\ UNCHANGED <<jobs, draft, holder, current, req, fresh, adm>>

Enqueued(p) ==
  /\ stage' = [stage EXCEPT ![p] = "open"]
  /\ target' = [target EXCEPT ![p] = None]
  /\ found' = [found EXCEPT ![p] = 0]
  /\ req' = [req EXCEPT ![p] = @ \cup {target[p]}]

\* FOR UPDATE returned the row, still open: refresh it.
RefreshUnchecked(p) ==
  /\ stage[p] \in {"locking", "relocking"}
  /\ CanLock(p, found[p])
  /\ holder' = [holder EXCEPT ![found[p]] = p]
  /\ draft' = [draft EXCEPT ![found[p]] = Refreshed(Seen(p, found[p]))]
  /\ Enqueued(p)
  /\ UNCHANGED <<jobs, current, fresh, adm, spent>>
RefreshUnlocked(p) ==
  /\ stage[p] \in {"locking", "relocking"} /\ IsOpen(Seen(p, found[p]))
  /\ Enqueued(p)
  /\ UNCHANGED <<jobs, draft, holder, current, fresh, adm, spent>>
RefreshDuplicate(p) ==
  /\ stage[p] \in {"locking", "relocking"}
  /\ CanLock(p, found[p]) /\ IsOpen(Seen(p, found[p]))
  /\ holder' = [holder EXCEPT ![found[p]] = p]
  /\ draft' = [draft EXCEPT ![found[p]] = Refreshed(Seen(p, found[p]))]
  /\ Enqueued(p)
  /\ UNCHANGED <<jobs, current, fresh, adm, spent>>

\* FOR UPDATE waited for a holder that closed the row: no duplicate any more.
DuplicateGone(p) ==
  /\ stage[p] = "locking"
  /\ CanLock(p, found[p]) /\ ~IsOpen(Seen(p, found[p]))
  /\ stage' = [stage EXCEPT ![p] = "inserting"]
  /\ found' = [found EXCEPT ![p] = 0]
  /\ UNCHANGED <<jobs, draft, holder, target, current, req, fresh, adm, spent>>

\* The INSERT in its savepoint.
Insert(p) ==
  /\ stage[p] = "inserting"
  /\ Rivals(p, target[p]) = {}
  /\ \E i \in Ids :
       /\ draft[i] = NoRow /\ holder[i] = None
       /\ \A j \in 1 .. (i - 1) : draft[j] # NoRow \/ holder[j] # None
       /\ holder' = [holder EXCEPT ![i] = p]
       /\ draft' = [draft EXCEPT ![i] = NewRow(target[p])]
  /\ Enqueued(p)
  /\ UNCHANGED <<jobs, current, fresh, adm, spent>>

\* IntegrityError: a committed open row has the key.  Search again.
InsertConflict(p) ==
  /\ stage[p] = "inserting"
  /\ \E i \in Rivals(p, target[p]) :
       /\ IsOpen(jobs[i])
       /\ found' = [found EXCEPT ![p] = i]
  /\ stage' = [stage EXCEPT ![p] = "relocking"]
  /\ UNCHANGED <<jobs, draft, holder, target, current, req, fresh, adm, spent>>

\* The second search waited for a holder that closed the row: enqueue raises.
RaceLost(p) ==
  /\ stage[p] = "relocking"
  /\ CanLock(p, found[p]) /\ ~IsOpen(Seen(p, found[p]))

-----------------------------------------------------------------------------
(* Requests                                                                *)

Commit(p) ==
  /\ p \in Producers /\ stage[p] = "open"
  /\ CommitWith(p, draft) /\ Finish(p) /\ Settle(p, "none")
  /\ UNCHANGED <<adm, spent>>

\* The request fails, on its own account or because enqueue raised.
Abort(p) ==
  /\ p \in Producers /\ (stage[p] = "open" \/ RaceLost(p))
  /\ Rollback(p)
  /\ UNCHANGED <<adm, spent>>

\* Who p waits for: the holder of the row it wants to lock, or of the row
\* whose key it wants to insert.
WaitsFor(p) ==
  CASE stage[p] \in {"locking", "relocking"} -> {holder[found[p]]} \ {None, p}
    [] stage[p] = "inserting" -> {holder[i] : i \in Rivals(p, target[p])} \ {None}
    [] OTHER -> {}

\* Postgres aborts one member of a cycle of waiting transactions.  In a worker
\* the aborted transaction also defeats mark_failed and ends the process.
DeadlockVictim(p) ==
  /\ \E S \in SUBSET Procs :
       /\ p \in S
       /\ \A q \in S : /\ WaitsFor(q) # {} /\ WaitsFor(q) \subseteq S
                       /\ \E r \in S : q \in WaitsFor(r)
  /\ Rollback(p)
  /\ UNCHANGED <<adm, spent>>

-----------------------------------------------------------------------------
(* process_one                                                             *)

\* claim_next: oldest claimable row that nobody holds (SKIP LOCKED).
Claim(w) ==
  /\ stage[w] = "idle"
  /\ \E i \in Ids :
       /\ Claimable(i) /\ \A j \in 1 .. (i - 1) : ~Claimable(j)
       /\ holder' = [holder EXCEPT ![i] = w]
       /\ draft' = [draft EXCEPT ![i].status = "running",
                                 ![i].attempts = jobs[i].attempts + 1]
       /\ current' = [current EXCEPT ![w] = i]
       /\ fresh' = [fresh EXCEPT ![jobs[i].key] = "taken"]
  /\ stage' = [stage EXCEPT ![w] = "open"]
  /\ UNCHANGED <<jobs, target, found, req, adm, spent>>

\* The handler returned: mark_done, flushed before a further pass is enqueued.
MarkDone(w) ==
  /\ stage[w] = "open" /\ ~Closed(w) /\ KeyOf(w) \notin Poison
  /\ draft' = [draft EXCEPT ![current[w]].status = "done"]
  /\ UNCHANGED <<jobs, holder, stage, target, found, current, req, fresh, adm, spent>>

CommitDone(w) ==
  /\ stage[w] = "open" /\ Closed(w)
  /\ CommitWith(w, draft) /\ Finish(w) /\ Settle(w, "none")
  /\ UNCHANGED <<adm, spent>>

\* The handler raised: mark_failed and commit, the handler's own enqueues too.
FailJob(w) ==
  /\ (stage[w] = "open" \/ RaceLost(w)) /\ ~Closed(w) /\ KeyOf(w) \notin Poison
  /\ LET row == Failed(draft[current[w]])
     IN  /\ CommitWith(w, [draft EXCEPT ![current[w]] = row])
         /\ Settle(w, IF row.status = "dead" THEN "none" ELSE "queued")
  /\ Finish(w)
  /\ UNCHANGED <<adm, spent>>

\* A database error inside the handler: the transaction is aborted, so the
\* UPDATE of mark_failed fails too and the exception leaves run_forever.  The
\* process is started again.
AbortedByDatabase(w) ==
  /\ stage[w] = "open" /\ KeyOf(w) \in Poison
  /\ Rollback(w)
  /\ UNCHANGED <<adm, spent>>

\* The worker dies in the middle of its transaction and is started again.
Crash(w) ==
  /\ InTxn(w) /\ spent.crashes < MaxCrashes
  /\ spent' = [spent EXCEPT !.crashes = @ + 1]
  /\ Rollback(w)
  /\ UNCHANGED adm

-----------------------------------------------------------------------------
(* Time and the admin routes                                               *)

\* run_after passes.
BecomeDue(i) ==
  /\ holder[i] = None /\ jobs[i].status = "pending" /\ ~jobs[i].due
  /\ jobs' = [jobs EXCEPT ![i].due = TRUE]
  /\ draft' = [draft EXCEPT ![i].due = TRUE]
  /\ UNCHANGED <<holder, stage, target, found, current, req, fresh, adm, spent>>

\* The route loads the row and checks its status ...
AdminLoad(a, i) ==
  /\ adm[a] = NoOp /\ spent.adminOps < MaxAdminOps
  /\ \/ IsOpen(jobs[i]) /\ adm' = [adm EXCEPT ![a] = [op |-> "cancel", job |-> i]]
     \/ jobs[i].status = "dead" /\ adm' = [adm EXCEPT ![a] = [op |-> "retry", job |-> i]]
  /\ spent' = [spent EXCEPT !.adminOps = @ + 1]
  /\ UNCHANGED <<jobs, draft, holder, stage, target, found, current, req, fresh>>

\* ... and later writes it by primary key, waiting for the row lock, whatever
\* the status has become.
AdminCancel(a) ==
  LET i == adm[a].job IN
  /\ adm[a].op = "cancel" /\ holder[i] = None
  /\ jobs' = [jobs EXCEPT ![i].status = "cancelled"]
  /\ draft' = [draft EXCEPT ![i].status = "cancelled"]
  /\ fresh' = IF IsOpen(jobs[i]) THEN [fresh EXCEPT ![jobs[i].key] = "none"] ELSE fresh
  /\ adm' = [adm EXCEPT ![a] = NoOp]
  /\ UNCHANGED <<holder, stage, target, found, current, req, spent>>

AdminRetry(a) ==
  LET i == adm[a].job IN
  /\ adm[a].op = "retry" /\ holder[i] = None
  /\ \A j \in Ids \ {i} : jobs[j].key = jobs[i].key \/ draft[j].key = jobs[i].key => ~Live(j)
  /\ jobs' = [jobs EXCEPT ![i] = Requeued(@)]
  /\ draft' = [draft EXCEPT ![i] = Requeued(@)]
  /\ fresh' = [fresh EXCEPT ![jobs[i].key] = "queued"]
  /\ adm' = [adm EXCEPT ![a] = NoOp]
  /\ UNCHANGED <<holder, stage, target, found, current, req, spent>>

\* The unique index refuses the retry of a key that has an open job.
AdminRefused(a) ==
  LET i == adm[a].job IN
  /\ adm[a].op = "retry"
  /\ \E j \in Ids \ {i} : jobs[j].key = jobs[i].key /\ IsOpen(jobs[j])
  /\ adm' = [adm EXCEPT ![a] = NoOp]
  /\ UNCHANGED <<jobs, draft, holder, stage, target, found, current, req, fresh, spent>>

-----------------------------------------------------------------------------
Init ==
  /\ jobs = [i \in Ids |-> NoRow]
  /\ draft = [i \in Ids |-> NoRow]
  /\ holder = [i \in Ids |-> None]
  /\ stage = [p \in Procs |-> "idle"]
  /\ target = [p \in Procs |-> None]
  /\ found = [p \in Procs |-> 0]
  /\ current = [w \in Workers |-> 0]
  /\ req = [p \in Procs |-> {}]
  /\ fresh = [k \in Keys |-> "none"]
  /\ adm = [a \in Admins |-> NoOp]
  /\ spent = [txns |-> 0, crashes |-> 0, adminOps |-> 0, passes |-> 0]

EnqueueStep(p) ==
  \/ \E k \in Keys : FindDuplicate(p, k)
  \/ RefreshDuplicate(p)
  \/ DuplicateGone(p)
  \/ Insert(p)
  \/ InsertConflict(p)
  \/ DeadlockVictim(p)

ProducerStep(p) == EnqueueStep(p) \/ Commit(p) \/ Abort(p)

WorkerStep(w) ==
  \/ EnqueueStep(w)
  \/ Claim(w)
  \/ MarkDone(w)
  \/ CommitDone(w)
  \/ FailJob(w)
  \/ AbortedByDatabase(w)

AdminStep(a) == AdminCancel(a) \/ AdminRetry(a) \/ AdminRefused(a)

Next ==
  \/ \E p \in Producers : Begin(p) \/ ProducerStep(p)
  \/ \E w \in Workers : WorkerStep(w) \/ Crash(w)
  \/ \E i \in Ids : BecomeDue(i)
  \/ \E a \in Admins : AdminStep(a) \/ \E i \in Ids : AdminLoad(a, i)

Spec == Init /\ [][Next]_vars

\* A lock or index wait ends: Postgres grants locks in the order of waiting.
LockGranted(p) == RefreshDuplicate(p) \/ DuplicateGone(p) \/ Insert(p)

\* Workers poll for ever and a request handler runs to its end; time passes.
\* Nobody promises that a process dies or that an admin acts.
Fairness ==
  /\ \A p \in Procs : SF_vars(LockGranted(p))
  /\ \A p \in Producers : WF_vars(ProducerStep(p))
  /\ \A w \in Workers : WF_vars(WorkerStep(w))
  /\ \A i \in Ids : WF_vars(BecomeDue(i))
  /\ \A a \in Admins : WF_vars(AdminStep(a))

FairSpec == Spec /\ Fairness

-----------------------------------------------------------------------------
(* Properties                                                              *)

\* Two workers never run jobs of the same dedupe key at the same time: the
\* partial unique index leaves one open row per key, and the claim's row lock
\* is held until the outcome is committed.
OneRunnerPerKey ==
  \A v, w \in Workers :
    v # w /\ current[v] # 0 /\ current[w] # 0 => KeyOf(v) # KeyOf(w)

\* No lost wake-up: a request that a committed transaction enqueued, and that
\* no later run has served, dropped or lost to its last attempt, is backed by
\* an open row, whether it was inserted, folded into a duplicate, or enqueued
\* while a job of its key was running.
NoLostRequest ==
  \A k \in Keys : fresh[k] # "none" =>
    \E i \in Ids : jobs[i].key = k /\ IsOpen(jobs[i])

\* A job that is claimed still has an attempt left, and a job is declared dead
\* only after its last one: requests folded into a failing job share its
\* attempts but never exceed them.
DeadOnlyWhenExhausted ==
  \A i \in Ids :
    /\ jobs[i].status = "dead" => jobs[i].attempts = MaxAttempts
    /\ jobs[i].status = "pending" => jobs[i].attempts < MaxAttempts

\* Every request is served, dead-lettered or cancelled in the end.
RequestsSettle == \A k \in Keys : fresh[k] # "none" ~> fresh[k] = "none"

\* A request that waits for a worker's row, for another request's row or in a
\* cycle of both returns to its caller.
RequestsReturn == \A p \in Producers : InTxn(p) ~> ~InTxn(p)

\* The queue implements KeyedWork: a key waits while a committed row of it is
\* open, and its runner is the worker that holds that row.  A key leaves the
\* queue only through the end of a run or an operator, two runs of a key never
\* overlap, and no request disappears in a run that began before it.
Asked == {k \in Keys : fresh[k] = "queued"}
Waiting == {k \in Keys : \E i \in Ids : jobs[i].key = k /\ IsOpen(jobs[i])}
Runs(w, k) == current[w] # 0 /\ KeyOf(w) = k
Runner ==
  [k \in Keys |-> IF \E w \in Workers : Runs(w, k)
                  THEN CHOOSE w \in Workers : Runs(w, k) ELSE None]
Work == INSTANCE KeyedWork WITH asked <- Asked, waiting <- Waiting, runner <- Runner
ImplementsKeyedWork == Work!Spec

\* A job that has completed stays completed.
DoneIsFinal ==
  [][\A i \in Ids : jobs[i].status = "done" => jobs'[i].status = "done"]_vars

-----------------------------------------------------------------------------
(* The inductive invariant behind OneRunnerPerKey and NoLostRequest.       *)

\* A row nobody holds has no uncommitted version; a key never changes; a
\* running status is never committed.
RowInv ==
  \A i \in Ids :
    /\ holder[i] = None => draft[i] = jobs[i]
    /\ jobs[i].status # "absent" => draft[i].key = jobs[i].key
    /\ jobs[i].status # "running"
    /\ jobs[i].status = "absent" => jobs[i] = NoRow
    /\ jobs[i].status # "absent" => jobs[i].key \in Keys
    /\ draft[i].status = "absent" => draft[i] = NoRow
    /\ draft[i].status # "absent" => draft[i].key \in Keys

\* Attempts left: a claim always has one, and dead means none.
AttemptInv ==
  \A i \in Ids :
    /\ jobs[i].status = "pending" => jobs[i].attempts < MaxAttempts
    /\ draft[i].status = "pending" => draft[i].attempts < MaxAttempts
    /\ jobs[i].status = "dead" => jobs[i].attempts = MaxAttempts
    /\ draft[i].status = "dead" => draft[i].attempts = MaxAttempts

\* What the rows a process holds look like.
HolderInv ==
  /\ \A p \in Procs : stage[p] = "idle" => req[p] = {} /\ \A i \in Ids : holder[i] # p
  /\ \A w \in Workers :
       /\ stage[w] = "idle" <=> current[w] = 0
       /\ current[w] # 0 =>
            /\ holder[current[w]] = w
            /\ jobs[current[w]].status = "pending"
            /\ draft[current[w]].status \in {"running", "done"}
  /\ \A p \in Procs, i \in Ids :
       holder[i] = p /\ (p \in Workers => i # current[p]) =>
         draft[i].status = "pending" /\ draft[i].key \in req[p]

\* The row an enqueue waits for has the key it enqueues.
SearchInv ==
  \A p \in Procs :
    /\ stage[p] \in {"locking", "inserting", "relocking"} =>
         /\ target[p] \in Keys /\ target[p] \notin req[p]
         /\ p \in Workers /\ target[p] = KeyOf(p) => Closed(p)
    /\ stage[p] \in {"locking", "relocking"} =>
         /\ found[p] \in Ids
         /\ jobs[found[p]].status # "absent"
         /\ jobs[found[p]].key = target[p]

\* The partial unique index, over committed and uncommitted rows.
UniqueInv ==
  \A i, j \in Ids : i # j =>
    /\ IsOpen(jobs[i]) /\ IsOpen(jobs[j]) => jobs[i].key # jobs[j].key
    /\ IsOpen(draft[i]) /\ IsOpen(draft[j]) => draft[i].key # draft[j].key
    /\ IsOpen(jobs[i]) /\ IsOpen(draft[j]) /\ jobs[i].key = draft[j].key =>
         holder[i] = holder[j] /\ holder[i] # None

\* Every key a transaction has enqueued has a row in that transaction.
RequestInv ==
  \A p \in Procs : \A k \in req[p] :
    \E i \in Ids : holder[i] = p /\ draft[i].key = k /\ draft[i].status = "pending"

AdminInv ==
  \A a \in Admins : adm[a].op # "none" =>
    adm[a].job \in Ids /\ jobs[adm[a].job].status # "absent"

IInv ==
  /\ TypeOK
  /\ RowInv
  /\ AttemptInv
  /\ HolderInv
  /\ SearchInv
  /\ UniqueInv
  /\ RequestInv
  /\ AdminInv
  /\ NoLostRequest
=============================================================================
