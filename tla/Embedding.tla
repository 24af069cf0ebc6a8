------------------------------ MODULE Embedding ------------------------------
(***************************************************************************)
(* The vectors of one document's chunks: an ingest replaces the chunks and *)
(* carries vectors over by content hash, an embed_chunks job fills in the  *)
(* missing ones around a vendor call that may take minutes.                *)
(*                                                                         *)
(* The job row stays locked from claim to commit, so an ingest that has to *)
(* enqueue waits for the worker; one that carries every vector over does   *)
(* not.  The worker's session keeps the objects it has loaded: reading a   *)
(* row a second time returns the first version of it, and only a row that  *)
(* has disappeared is noticed.                                             *)
(*                                                                         *)
(* A document is the sequence of its sections, one child chunk each; the   *)
(* chunk id is the position.  A vector is the section it was computed      *)
(* from.  Writers of one document run one at a time (Documents shows what  *)
(* happens when they race), so there is one ingest.                        *)
(***************************************************************************)
EXTENDS Naturals, Sequences

CONSTANTS
  Texts,       \* what the document may say: sequences of sections
  None,
  MaxAttempts, \* Job.max_attempts
  MaxEdits,    \* bound: ingests and deletes
  MaxFaults    \* bound: failed vendor calls, failed requests, worker deaths

Sections == UNION {{t[i] : i \in 1 .. Len(t)} : t \in Texts}

ASSUME EmbeddingAssumption ==
  /\ Texts \subseteq Seq(Sections) \ {<<>>} /\ None \notin Sections \cup {"worker", "ingest"}
  /\ MaxAttempts \in Nat \ {0} /\ {MaxEdits, MaxFaults} \subseteq Nat

VARIABLES
  text, deleted, \* documents
  rows,          \* chunks: section and vector
  job,           \* the embed_chunks job: status, content_hash, attempts
  jobLock,       \* who holds its row: "worker", "ingest" or None
  ingest,        \* the request in progress: stage, new text, new rows
  worker,        \* the worker: stage, the text and the rows it has loaded
  edits, faults

vars == <<text, deleted, rows, job, jobLock, ingest, worker, edits, faults>>

NoJob == [status |-> "none", pinned |-> <<>>, attempts |-> 0]
NoIngest == [stage |-> "idle", text |-> <<>>, rows |-> <<>>]
NoWork == [stage |-> "idle", text |-> <<>>, rows |-> <<>>]

Row == [section : Sections, vector : Sections \cup {None}]
Work(stages) == [stage : stages, text : Texts \cup {<<>>}, rows : Seq(Row)]

TypeOK ==
  /\ text \in Texts \cup {<<>>} /\ deleted \in BOOLEAN /\ rows \in Seq(Row)
  /\ job \in [status : {"none", "pending", "dead"}, pinned : Texts \cup {<<>>},
              attempts : 0 .. MaxAttempts]
  /\ jobLock \in {"worker", "ingest", None}
  /\ ingest \in Work({"idle", "chunked", "ready", "deleting"})
  /\ worker \in Work({"idle", "claimed", "calling", "answered", "flushing",
                      "waiting", "missed"})
  /\ edits \in 0 .. MaxEdits /\ faults \in 0 .. MaxFaults

Missing(r) == {i \in 1 .. Len(r) : r[i].vector = None}
Fault == faults < MaxFaults /\ faults' = faults + 1
ChunksLocked == ingest.stage # "idle"

-----------------------------------------------------------------------------
(* Ingest                                                                  *)

\* replace_chunks: a chunk keeps the vector of an outgoing one with its hash.
CarriedByPosition(t) ==
  [i \in 1 .. Len(t) |->
     [section |-> t[i], vector |-> IF i <= Len(rows) THEN rows[i].vector ELSE None]]
Carried(t) ==
  LET outgoing(s) == {rows[j].vector : j \in {k \in 1 .. Len(rows) : rows[k].section = s}}
                     \ {None}
  IN  [i \in 1 .. Len(t) |->
         [section |-> t[i],
          vector |-> IF outgoing(t[i]) = {} THEN None ELSE CHOOSE v \in outgoing(t[i]) : TRUE]]

\* Content that is unchanged leaves the chunks alone.
BeginIngest(t) ==
  /\ ingest.stage = "idle" /\ edits < MaxEdits /\ (t # text \/ deleted)
  /\ edits' = edits + 1
  /\ ingest' = [stage |-> "chunked", text |-> t, rows |-> Carried(t)]
  /\ UNCHANGED <<text, deleted, rows, job, jobLock, worker, faults>>

\* Enqueue if a vector is missing: the open job is refreshed under its row lock.
EnqueueUnlocked ==
  /\ ingest.stage = "chunked"
  /\ jobLock' = IF jobLock = None /\ Missing(ingest.rows) # {} THEN "ingest" ELSE jobLock
  /\ ingest' = [ingest EXCEPT !.stage = "ready"]
  /\ UNCHANGED <<text, deleted, rows, job, worker, edits, faults>>
EnqueueEmbed ==
  /\ ingest.stage = "chunked"
  /\ \/ Missing(ingest.rows) = {} /\ UNCHANGED jobLock
     \/ Missing(ingest.rows) # {} /\ jobLock = None /\ jobLock' = "ingest"
  /\ ingest' = [ingest EXCEPT !.stage = "ready"]
  /\ UNCHANGED <<text, deleted, rows, job, worker, edits, faults>>

RefreshKeepsPayload(t) ==
  IF job.status = "pending" THEN job
  ELSE [status |-> "pending", pinned |-> t, attempts |-> 0]
Enqueued(t) ==
  IF job.status = "pending" THEN [job EXCEPT !.pinned = t]
  ELSE [status |-> "pending", pinned |-> t, attempts |-> 0]

\* A worker that waits for chunks which were replaced will not find them.
CommitIngest ==
  /\ ingest.stage = "ready"
  /\ text' = ingest.text /\ deleted' = FALSE /\ rows' = ingest.rows
  /\ job' = IF jobLock = "ingest" THEN Enqueued(ingest.text) ELSE job
  /\ jobLock' = IF jobLock = "ingest" THEN None ELSE jobLock
  /\ ingest' = NoIngest
  /\ worker' = IF worker.stage = "waiting" THEN [worker EXCEPT !.stage = "missed"] ELSE worker
  /\ UNCHANGED <<edits, faults>>

BeginDelete ==
  /\ ingest.stage = "idle" /\ edits < MaxEdits /\ text # <<>> /\ ~deleted
  /\ edits' = edits + 1
  /\ ingest' = [NoIngest EXCEPT !.stage = "deleting"]
  /\ UNCHANGED <<text, deleted, rows, job, jobLock, worker, faults>>

CommitDelete ==
  /\ ingest.stage = "deleting"
  /\ deleted' = TRUE /\ ingest' = NoIngest
  /\ UNCHANGED <<text, rows, job, jobLock, worker, edits, faults>>

RollbackIngest ==
  /\ ingest' = NoIngest
  /\ jobLock' = IF jobLock = "ingest" THEN None ELSE jobLock
  /\ UNCHANGED <<text, deleted, rows, job, worker, edits>>

-----------------------------------------------------------------------------
(* handle_embed_chunks                                                     *)

EndJob(j) ==
  /\ job' = j /\ jobLock' = None /\ worker' = NoWork
  /\ UNCHANGED <<text, deleted, ingest, edits>>

Retried(attempts) ==
  [job EXCEPT !.attempts = attempts,
              !.status = IF attempts >= MaxAttempts THEN "dead" ELSE "pending"]

Claim ==
  /\ worker.stage = "idle" /\ job.status = "pending" /\ jobLock = None
  /\ jobLock' = "worker"
  /\ worker' = [worker EXCEPT !.stage = "claimed"]
  /\ UNCHANGED <<text, deleted, rows, job, ingest, edits, faults>>

\* The first read: nothing to do, a stale content hash, or chunks to embed.
LoadChunks ==
  /\ worker.stage = "claimed"
  /\ \/ /\ deleted \/ (job.pinned = text /\ Missing(rows) = {})
        /\ EndJob(NoJob) /\ UNCHANGED rows
     \/ /\ ~deleted /\ job.pinned # text
        /\ EndJob(Retried(job.attempts + 1)) /\ UNCHANGED rows
     \/ /\ ~deleted /\ job.pinned = text /\ Missing(rows) # {}
        /\ worker' = [stage |-> "calling", text |-> text, rows |-> rows]
        /\ UNCHANGED <<text, deleted, rows, job, jobLock, ingest, edits>>
  /\ UNCHANGED faults

VendorAnswers ==
  /\ worker.stage = "calling"
  /\ worker' = [worker EXCEPT !.stage = "answered"]
  /\ UNCHANGED <<text, deleted, rows, job, jobLock, ingest, edits, faults>>

VendorFails ==
  /\ worker.stage = "calling" /\ Fault
  /\ EndJob(Retried(job.attempts + 1)) /\ UNCHANGED rows

\* The second read.  The document and the chunks are still those the session
\* has loaded, so their texts compare equal; a chunk that is gone raises.
Recheck ==
  /\ worker.stage = "answered"
  /\ LET present == {i \in Missing(worker.rows) : ~deleted /\ i <= Len(rows)}
     IN  \/ /\ present = Missing(worker.rows)
            /\ worker' = [worker EXCEPT !.stage = "flushing"]
            /\ UNCHANGED <<text, deleted, rows, job, jobLock, ingest, edits>>
         \/ /\ present # Missing(worker.rows)
            /\ EndJob(Retried(job.attempts + 1)) /\ UNCHANGED rows
  /\ UNCHANGED faults

\* The flush at commit updates the chunks by id, even if the tokens could not
\* be accounted for and the job is to be retried.
StoreVectors ==
  /\ worker.stage \in {"flushing", "waiting"} /\ ~ChunksLocked
  /\ Missing(worker.rows) \subseteq 1 .. Len(rows)
  /\ rows' = [i \in 1 .. Len(rows) |->
                IF i \in Missing(worker.rows)
                THEN [rows[i] EXCEPT !.vector = worker.rows[i].section] ELSE rows[i]]
  /\ \/ EndJob(NoJob) /\ UNCHANGED faults
     \/ EndJob(Retried(job.attempts + 1)) /\ Fault

\* The chunks are locked by an ingest that has replaced or deleted them.
WaitForChunks ==
  /\ worker.stage = "flushing" /\ ChunksLocked
  /\ worker' = [worker EXCEPT !.stage = "waiting"]
  /\ UNCHANGED <<text, deleted, rows, job, jobLock, ingest, edits, faults>>

\* A row to update has vanished: the commit fails and the worker loop ends.
StoreFails ==
  /\ \/ worker.stage = "missed"
     \/ /\ worker.stage \in {"flushing", "waiting"} /\ ~ChunksLocked
        /\ ~(Missing(worker.rows) \subseteq 1 .. Len(rows))
  /\ EndJob(job) /\ UNCHANGED <<rows, faults>>

-----------------------------------------------------------------------------
(* Failures                                                                *)

\* The ingest waits for the job row, the worker for the chunks: Postgres
\* rolls one of them back.
Deadlock ==
  /\ worker.stage = "waiting"
  /\ ingest.stage = "chunked" /\ Missing(ingest.rows) # {}
  /\ \/ RollbackIngest
     \/ EndJob(job) /\ UNCHANGED rows
  /\ UNCHANGED faults

IngestFails == ingest.stage # "idle" /\ Fault /\ RollbackIngest

WorkerDies == worker.stage # "idle" /\ Fault /\ EndJob(job) /\ UNCHANGED rows

-----------------------------------------------------------------------------
Init ==
  /\ text = <<>> /\ deleted = FALSE /\ rows = <<>>
  /\ job = NoJob /\ jobLock = None
  /\ ingest = NoIngest /\ worker = NoWork
  /\ edits = 0 /\ faults = 0

WorkerStep ==
  \/ Claim \/ LoadChunks \/ VendorAnswers \/ Recheck
  \/ StoreVectors \/ WaitForChunks \/ StoreFails
IngestStep == EnqueueEmbed \/ CommitIngest \/ CommitDelete

Next ==
  \/ \E t \in Texts : BeginIngest(t)
  \/ BeginDelete
  \/ IngestStep \/ WorkerStep \/ Deadlock
  \/ VendorFails \/ IngestFails \/ WorkerDies

Spec == Init /\ [][Next]_vars

\* The worker polls for ever, requests run to their end and Postgres breaks
\* deadlocks; the job row, free again and again, goes to the request that waits
\* for it and to the worker.
FairSpec ==
  Spec /\ WF_vars(WorkerStep) /\ SF_vars(Claim)
       /\ WF_vars(IngestStep) /\ SF_vars(EnqueueEmbed) /\ WF_vars(Deadlock)

-----------------------------------------------------------------------------
(* Properties                                                              *)

\* "If the document changed since (before or during the vendor call), the job
\* fails": a chunk never carries the vector of another text.
VectorMatchesText ==
  \A i \in 1 .. Len(rows) : rows[i].vector \in {rows[i].section, None}

\* A live chunk without a vector has a job, open or dead: no ingest is deduped
\* against a job that has already read the former text.
NothingForgotten == Missing(rows) # {} /\ ~deleted => job.status # "none"

\* The document is embedded in the end: edits alone, which make the job fail on
\* purpose, never exhaust its attempts; a failed call or a crash may.
EverythingEmbedded ==
  Missing(rows) # {} ~> \/ Missing(rows) = {} \/ deleted
                        \/ job.status = "dead" /\ faults > 0
=============================================================================
