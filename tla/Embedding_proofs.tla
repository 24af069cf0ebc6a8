--------------------------- MODULE Embedding_proofs ---------------------------
(***************************************************************************)
(* Proofs about Embedding, for any texts and every value of the bounds.    *)
(***************************************************************************)
EXTENDS Embedding, TLAPS

-----------------------------------------------------------------------------
(* The inductive invariant                                                 *)

\* The worker has read the rows it embeds.
Loaded == worker.stage \in {"calling", "answered", "flushing", "waiting", "missed"}

\* Chunking an ingest is under way or done.
Chunked == ingest.stage \in {"chunked", "ready"}

\* Who holds the job's row, and that a claimed job has an attempt left.
LockInv ==
  /\ jobLock = "worker" <=> worker.stage # "idle"
  /\ jobLock = "ingest" => ingest.stage = "ready"
  /\ worker.stage # "idle" => job.status = "pending"
  /\ job.status = "pending" => job.attempts < MaxAttempts

\* Rows are those of the text, in its order.
OfText(r, t) == Len(r) = Len(t) /\ \A i \in 1 .. Len(t) : r[i].section = t[i]

\* Nobody writes the rows between a replacement and its commit, and one that
\* leaves a vector missing has the job's row.
IngestInv ==
  Chunked => /\ ingest.text \in Texts /\ ingest.rows = Carried(ingest.text)
             /\ (ingest.stage = "ready" /\ Missing(ingest.rows) # {}) => jobLock = "ingest"

RowsInv == OfText(rows, text)

\* Whatever is missing now was missing when the worker read the rows.
WorkInv == Loaded => Missing(rows) \subseteq Missing(worker.rows)

IInv == TypeOK /\ LockInv /\ IngestInv /\ RowsInv /\ WorkInv /\ NothingForgotten

-----------------------------------------------------------------------------
(* Rows                                                                    *)

LEMMA RowFields ==
  ASSUME NEW r \in Seq(Row)
  PROVE  /\ Len(r) \in Nat
         /\ \A i \in 1 .. Len(r) : /\ r[i] \in Row /\ r[i].section \in Sections
                                  /\ r[i].vector \in Sections \cup {None}
         /\ Missing(r) \subseteq 1 .. Len(r)
<1>1. \A i \in 1 .. Len(r) : r[i] \in Row OBVIOUS
<1>. QED BY <1>1 DEF Row, Missing

LEMMA TextFields ==
  ASSUME NEW t \in Texts
  PROVE  t \in Seq(Sections) /\ Len(t) \in Nat /\ \A i \in 1 .. Len(t) : t[i] \in Sections
<1>1. t \in Seq(Sections) BY EmbeddingAssumption
<1>. QED BY <1>1

\* What a replacement makes of a text: its sections in order, each with the vector
\* of an outgoing chunk that says the same, or with none.
LEMMA CarriedRows ==
  ASSUME TypeOK, NEW t \in Texts
  PROVE  /\ Carried(t) \in Seq(Row) /\ OfText(Carried(t), t)
         /\ \A i \in 1 .. Len(t) : Carried(t)[i].vector # None =>
              \E k \in 1 .. Len(rows) : /\ rows[k].section = t[i]
                                       /\ rows[k].vector = Carried(t)[i].vector
<1>. DEFINE Out(s) == {rows[j].vector : j \in {k \in 1 .. Len(rows) : rows[k].section = s}}
                      \ {None}
            Vector(s) == IF Out(s) = {} THEN None ELSE CHOOSE v \in Out(s) : TRUE
<1>0. Carried(t) = [i \in 1 .. Len(t) |-> [section |-> t[i], vector |-> Vector(t[i])]]
  BY DEF Carried
<1>1. ASSUME NEW s \in Sections
      PROVE  /\ Vector(s) \in Sections \cup {None}
             /\ Vector(s) # None => \E k \in 1 .. Len(rows) : /\ rows[k].section = s
                                                            /\ rows[k].vector = Vector(s)
  <2>1. \A k \in 1 .. Len(rows) : rows[k].vector \in Sections \cup {None}
    BY RowFields DEF TypeOK
  <2>2. CASE Out(s) = {} BY <2>2
  <2>3. CASE Out(s) # {}
    <3>1. Vector(s) \in Out(s) BY <2>3
    <3>. HIDE DEF Vector
    <3>. QED BY <2>1, <3>1
  <2>. QED BY <2>2, <2>3
<1>. HIDE DEF Vector
<1>2. \A i \in 1 .. Len(t) : [section |-> t[i], vector |-> Vector(t[i])] \in Row
  BY <1>1, TextFields DEF Row
<1>3. Len(t) \in Nat BY TextFields
<1>4. Carried(t) \in Seq(Row) /\ Len(Carried(t)) = Len(t) BY <1>0, <1>2, <1>3
<1>. QED BY <1>0, <1>1, <1>4, TextFields DEF OfText

LEMMA RetriedJob ==
  ASSUME TypeOK, job.status = "pending", job.attempts < MaxAttempts
  PROVE  LET j == Retried(job.attempts + 1) IN
         /\ j \in [status : {"none", "pending", "dead"}, pinned : Texts \cup {<<>>},
                   attempts : 0 .. MaxAttempts]
         /\ j.status \in {"pending", "dead"}
         /\ j.status = "pending" => j.attempts < MaxAttempts
<1>. DEFINE n == job.attempts + 1
<1>1. n \in 0 .. MaxAttempts /\ n \in Nat BY EmbeddingAssumption DEF TypeOK
<1>2. job \in [status : {"none", "pending", "dead"}, pinned : Texts \cup {<<>>},
              attempts : 0 .. MaxAttempts]
  BY DEF TypeOK
<1>. HIDE DEF n
<1>3. CASE n >= MaxAttempts
  <2>1. Retried(n) = [job EXCEPT !.attempts = n, !.status = "dead"] BY <1>3 DEF Retried
  <2>. QED BY <1>1, <1>2, <2>1 DEF n
<1>4. CASE ~(n >= MaxAttempts)
  <2>1. Retried(n) = [job EXCEPT !.attempts = n, !.status = "pending"] BY <1>4 DEF Retried
  <2>2. n < MaxAttempts BY <1>1, <1>4, EmbeddingAssumption
  <2>. QED BY <1>1, <1>2, <2>1, <2>2 DEF n
<1>. QED BY <1>3, <1>4

LEMMA Nothing ==
  /\ NoIngest \in Work({"idle", "chunked", "ready", "deleting"}) /\ NoIngest.stage = "idle"
  /\ NoWork \in Work({"idle", "claimed", "calling", "answered", "flushing", "waiting", "missed"})
  /\ NoWork.stage = "idle"
  /\ NoJob \in [status : {"none", "pending", "dead"}, pinned : Texts \cup {<<>>},
               attempts : 0 .. MaxAttempts]
  /\ NoJob.status = "none"
<1>1. <<>> \in Seq(Row) OBVIOUS
<1>. QED BY <1>1, EmbeddingAssumption DEF NoIngest, NoWork, NoJob, Work

-----------------------------------------------------------------------------
(* Steps of one shape                                                      *)

\* A job ends: whatever becomes of it, no living chunk is left behind without one.
LEMMA EndsJob ==
  ASSUME IInv, worker.stage # "idle", NEW j, EndJob(j),
         j \in {job, NoJob, Retried(job.attempts + 1)},
         j = NoJob => Missing(rows') = {} \/ deleted,
         rows' = rows \/ ~Chunked, Missing(rows') \subseteq Missing(rows),
         rows' \in Seq(Row), OfText(rows', text), faults' \in 0 .. MaxFaults
  PROVE  IInv'
<1>1. job.status = "pending" /\ job.attempts < MaxAttempts /\ jobLock = "worker"
  BY DEF IInv, LockInv
<1>2. /\ j \in [status : {"none", "pending", "dead"}, pinned : Texts \cup {<<>>},
               attempts : 0 .. MaxAttempts]
      /\ j.status = "pending" => j.attempts < MaxAttempts
      /\ j # NoJob => j.status # "none"
  BY <1>1, RetriedJob, Nothing DEF IInv, TypeOK
<1>3. job' = j /\ jobLock' = None /\ worker' = NoWork
      /\ UNCHANGED <<text, deleted, ingest, edits>>
  BY DEF EndJob
<1>4. TypeOK' BY <1>2, <1>3, Nothing DEF IInv, TypeOK
<1>5. LockInv' BY <1>2, <1>3, Nothing, EmbeddingAssumption DEF LockInv
<1>6. IngestInv'
  <2>1. ASSUME rows' = rows PROVE Carried(ingest.text)' = Carried(ingest.text)
    BY <1>3, <2>1 DEF Carried
  <2>2. Missing(ingest.rows)' = Missing(ingest.rows) BY <1>3 DEF Missing
  <2>. QED BY <1>1, <1>3, <2>1, <2>2, EmbeddingAssumption DEF IInv, IngestInv, Chunked
<1>7. RowsInv' BY <1>3 DEF RowsInv, OfText
<1>8. WorkInv' BY <1>3, Nothing DEF WorkInv, Loaded
<1>9. NothingForgotten'
  BY <1>2, <1>3 DEF IInv, NothingForgotten
<1>. QED BY <1>4, <1>5, <1>6, <1>7, <1>8, <1>9 DEF IInv

LEMMA RollsBack ==
  ASSUME IInv, RollbackIngest, faults' \in 0 .. MaxFaults
  PROVE  IInv'
<1>1. /\ ingest' = NoIngest /\ jobLock' = (IF jobLock = "ingest" THEN None ELSE jobLock)
      /\ UNCHANGED <<text, deleted, rows, job, worker, edits>>
  BY DEF RollbackIngest
<1>2. TypeOK' BY <1>1, Nothing DEF IInv, TypeOK
<1>3. LockInv' BY <1>1, Nothing, EmbeddingAssumption DEF IInv, LockInv
<1>4. IngestInv' BY <1>1, Nothing DEF IngestInv, Chunked
<1>5. RowsInv' /\ WorkInv' /\ NothingForgotten'
  BY <1>1 DEF IInv, RowsInv, OfText, WorkInv, Loaded, Missing, NothingForgotten
<1>. QED BY <1>2, <1>3, <1>4, <1>5 DEF IInv

\* The worker goes on.
LEMMA GoesOn ==
  ASSUME IInv, UNCHANGED <<text, deleted, rows, job, jobLock, ingest, edits, faults>>,
         worker.stage # "idle", worker'.stage # "idle",
         worker' \in Work({"idle", "claimed", "calling", "answered", "flushing",
                          "waiting", "missed"}),
         Loaded' => Missing(rows) \subseteq Missing(worker'.rows)
  PROVE  IInv'
<1>1. TypeOK' BY DEF IInv, TypeOK
<1>2. LockInv' BY DEF IInv, LockInv
<1>3. IngestInv' BY DEF IInv, IngestInv, Chunked, Carried, Missing
<1>4. RowsInv' /\ NothingForgotten' BY DEF IInv, RowsInv, OfText, Missing, NothingForgotten
<1>5. WorkInv'
  <2>1. Missing(rows)' = Missing(rows) /\ Missing(worker.rows)' = Missing(worker'.rows)
    BY DEF Missing
  <2>. QED BY <2>1 DEF WorkInv
<1>. QED BY <1>1, <1>2, <1>3, <1>4, <1>5 DEF IInv

-----------------------------------------------------------------------------
(* Every step keeps the invariant                                          *)

LEMMA InitInv == Init => IInv
<1>. SUFFICES ASSUME Init PROVE IInv OBVIOUS
<1>0. <<>> \in Seq(Row) /\ Missing(<<>>) = {} BY DEF Missing
<1>1. TypeOK
  <2>1. 0 \in 0 .. MaxEdits /\ 0 \in 0 .. MaxFaults BY EmbeddingAssumption
  <2>. QED BY <1>0, <2>1, Nothing DEF Init, TypeOK
<1>2. LockInv BY Nothing, EmbeddingAssumption DEF Init, LockInv
<1>3. IngestInv /\ WorkInv BY Nothing DEF Init, IngestInv, WorkInv, Chunked, Loaded
<1>4. RowsInv BY DEF Init, RowsInv, OfText
<1>5. NothingForgotten BY <1>0 DEF Init, NothingForgotten
<1>. QED BY <1>1, <1>2, <1>3, <1>4, <1>5 DEF IInv

LEMMA BeginIngestInv == ASSUME IInv, NEW t \in Texts, BeginIngest(t) PROVE IInv'
<1>0. /\ ingest.stage = "idle" /\ edits < MaxEdits /\ edits' = edits + 1
      /\ ingest' = [stage |-> "chunked", text |-> t, rows |-> Carried(t)]
      /\ UNCHANGED <<text, deleted, rows, job, jobLock, worker, faults>>
  BY DEF BeginIngest
<1>1. Carried(t) \in Seq(Row) BY CarriedRows DEF IInv
<1>2. TypeOK' BY <1>0, <1>1, EmbeddingAssumption DEF IInv, TypeOK, Work
<1>3. LockInv' BY <1>0 DEF IInv, LockInv
<1>4. IngestInv'
  <2>1. Carried(ingest.text)' = Carried(t) BY <1>0 DEF Carried
  <2>. QED BY <1>0, <2>1 DEF IngestInv
<1>5. RowsInv' /\ WorkInv' /\ NothingForgotten'
  BY <1>0 DEF IInv, RowsInv, OfText, WorkInv, Loaded, Missing, NothingForgotten
<1>. QED BY <1>2, <1>3, <1>4, <1>5 DEF IInv

LEMMA BeginDeleteInv == ASSUME IInv, BeginDelete PROVE IInv'
<1>0. /\ ingest.stage = "idle" /\ edits < MaxEdits /\ edits' = edits + 1
      /\ ingest' = [NoIngest EXCEPT !.stage = "deleting"]
      /\ UNCHANGED <<text, deleted, rows, job, jobLock, worker, faults>>
  BY DEF BeginDelete
<1>1. ingest' \in Work({"idle", "chunked", "ready", "deleting"}) /\ ingest'.stage = "deleting"
  BY <1>0, Nothing DEF Work
<1>2. TypeOK' BY <1>0, <1>1, EmbeddingAssumption DEF IInv, TypeOK
<1>3. LockInv' BY <1>0, <1>1 DEF IInv, LockInv
<1>4. IngestInv' BY <1>1 DEF IngestInv, Chunked
<1>5. RowsInv' /\ WorkInv' /\ NothingForgotten'
  BY <1>0 DEF IInv, RowsInv, OfText, WorkInv, Loaded, Missing, NothingForgotten
<1>. QED BY <1>2, <1>3, <1>4, <1>5 DEF IInv

LEMMA EnqueueEmbedInv == ASSUME IInv, EnqueueEmbed PROVE IInv'
<1>0. /\ ingest.stage = "chunked" /\ ingest' = [ingest EXCEPT !.stage = "ready"]
      /\ \/ Missing(ingest.rows) = {} /\ jobLock' = jobLock
         \/ Missing(ingest.rows) # {} /\ jobLock = None /\ jobLock' = "ingest"
      /\ UNCHANGED <<text, deleted, rows, job, worker, edits, faults>>
  BY DEF EnqueueEmbed
<1>1. /\ ingest' \in Work({"idle", "chunked", "ready", "deleting"}) /\ ingest'.stage = "ready"
      /\ ingest'.text = ingest.text /\ ingest'.rows = ingest.rows
  BY <1>0 DEF IInv, TypeOK, Work
<1>2. TypeOK' BY <1>0, <1>1 DEF IInv, TypeOK
<1>3. LockInv' BY <1>0, <1>1, EmbeddingAssumption DEF IInv, LockInv
<1>4. IngestInv'
  <2>1. Carried(ingest.text)' = Carried(ingest.text) BY <1>0, <1>1 DEF Carried
  <2>2. Missing(ingest.rows)' = Missing(ingest.rows) BY <1>1 DEF Missing
  <2>. QED BY <1>0, <1>1, <2>1, <2>2 DEF IInv, IngestInv, Chunked
<1>5. RowsInv' /\ WorkInv' /\ NothingForgotten'
  BY <1>0 DEF IInv, RowsInv, OfText, WorkInv, Loaded, Missing, NothingForgotten
<1>. QED BY <1>2, <1>3, <1>4, <1>5 DEF IInv

\* The new rows have the sections of the new text, and a missing vector has a job.
LEMMA CommitIngestInv == ASSUME IInv, CommitIngest PROVE IInv'
<1>0. /\ ingest.stage = "ready" /\ text' = ingest.text /\ deleted' = FALSE
      /\ rows' = ingest.rows /\ ingest' = NoIngest /\ UNCHANGED <<edits, faults>>
      /\ job' = (IF jobLock = "ingest" THEN Enqueued(ingest.text) ELSE job)
      /\ jobLock' = (IF jobLock = "ingest" THEN None ELSE jobLock)
      /\ worker' = (IF worker.stage = "waiting" THEN [worker EXCEPT !.stage = "missed"]
                                                 ELSE worker)
  BY DEF CommitIngest
<1>1. /\ ingest.text \in Texts /\ ingest.rows = Carried(ingest.text)
      /\ Missing(ingest.rows) # {} => jobLock = "ingest"
  BY <1>0 DEF IInv, IngestInv, Chunked
<1>2. /\ ingest.rows \in Seq(Row) /\ OfText(ingest.rows, ingest.text)
  BY <1>1, CarriedRows DEF IInv
<1>3. /\ job' \in [status : {"none", "pending", "dead"}, pinned : Texts \cup {<<>>},
                  attempts : 0 .. MaxAttempts]
      /\ job'.status = "pending" => job'.attempts < MaxAttempts
      /\ jobLock = "ingest" => job'.status = "pending"
      /\ jobLock # "ingest" => job' = job
  BY <1>0, <1>1, EmbeddingAssumption DEF IInv, TypeOK, LockInv, Enqueued
<1>4. /\ worker' \in Work({"idle", "claimed", "calling", "answered", "flushing", "waiting",
                          "missed"})
      /\ worker'.stage = "idle" <=> worker.stage = "idle"
      /\ worker'.rows = worker.rows /\ (Loaded' => Loaded)
  BY <1>0 DEF IInv, TypeOK, Work, Loaded
<1>5. TypeOK' BY <1>0, <1>1, <1>2, <1>3, <1>4, Nothing DEF IInv, TypeOK
<1>6. LockInv' BY <1>0, <1>3, <1>4, EmbeddingAssumption DEF IInv, LockInv
<1>7. IngestInv' BY <1>0, Nothing DEF IngestInv, Chunked
<1>8. RowsInv' BY <1>0, <1>2 DEF RowsInv, OfText
<1>9. Missing(rows)' = Missing(ingest.rows) BY <1>0 DEF Missing
<1>10. WorkInv'
  <2>1. ASSUME Loaded PROVE Missing(ingest.rows) = {}
    BY <1>1, <2>1, EmbeddingAssumption DEF IInv, LockInv, Loaded
  <2>. QED BY <1>4, <1>9, <2>1 DEF WorkInv
<1>11. NothingForgotten' BY <1>1, <1>3, <1>9 DEF NothingForgotten
<1>. QED BY <1>5, <1>6, <1>7, <1>8, <1>10, <1>11 DEF IInv

LEMMA CommitDeleteInv == ASSUME IInv, CommitDelete PROVE IInv'
<1>0. /\ ingest.stage = "deleting" /\ deleted' = TRUE /\ ingest' = NoIngest
      /\ UNCHANGED <<text, rows, job, jobLock, worker, edits, faults>>
  BY DEF CommitDelete
<1>1. TypeOK' BY <1>0, Nothing DEF IInv, TypeOK
<1>2. LockInv' /\ IngestInv' BY <1>0, Nothing DEF IInv, LockInv, IngestInv, Chunked
<1>3. RowsInv' /\ WorkInv' /\ NothingForgotten'
  BY <1>0 DEF IInv, RowsInv, OfText, WorkInv, Loaded, Missing, NothingForgotten
<1>. QED BY <1>1, <1>2, <1>3 DEF IInv

LEMMA ClaimInv == ASSUME IInv, Claim PROVE IInv'
<1>0. /\ worker.stage = "idle" /\ job.status = "pending" /\ jobLock = None
      /\ jobLock' = "worker" /\ worker' = [worker EXCEPT !.stage = "claimed"]
      /\ UNCHANGED <<text, deleted, rows, job, ingest, edits, faults>>
  BY DEF Claim
<1>1. /\ worker' \in Work({"idle", "claimed", "calling", "answered", "flushing", "waiting",
                          "missed"})
      /\ worker'.stage = "claimed"
  BY <1>0 DEF IInv, TypeOK, Work
<1>2. TypeOK' BY <1>0, <1>1 DEF IInv, TypeOK
<1>3. LockInv' BY <1>0, <1>1 DEF IInv, LockInv
<1>4. IngestInv' BY <1>0, EmbeddingAssumption DEF IInv, IngestInv, Chunked, Carried, Missing
<1>5. WorkInv' BY <1>1 DEF WorkInv, Loaded
<1>6. RowsInv' /\ NothingForgotten'
  BY <1>0 DEF IInv, RowsInv, OfText, Missing, NothingForgotten
<1>. QED BY <1>2, <1>3, <1>4, <1>5, <1>6 DEF IInv

LEMMA LoadChunksInv == ASSUME IInv, LoadChunks PROVE IInv'
<1>0. worker.stage = "claimed" /\ faults' = faults BY DEF LoadChunks
<1>1. rows \in Seq(Row) /\ faults \in 0 .. MaxFaults /\ OfText(rows, text)
  BY DEF IInv, TypeOK, RowsInv
<1>2. CASE /\ deleted \/ (job.pinned = text /\ Missing(rows) = {})
           /\ EndJob(NoJob) /\ UNCHANGED rows
  <2>1. Missing(rows') = Missing(rows) /\ OfText(rows', text) BY <1>1, <1>2
  <2>. QED BY <1>0, <1>1, <1>2, <2>1, EndsJob
<1>3. CASE EndJob(Retried(job.attempts + 1)) /\ UNCHANGED rows
  <2>1. Retried(job.attempts + 1) # NoJob
    BY <1>0, RetriedJob, Nothing DEF IInv, LockInv
  <2>2. Missing(rows') = Missing(rows) /\ OfText(rows', text) BY <1>1, <1>3
  <2>. QED BY <1>0, <1>1, <1>3, <2>1, <2>2, EndsJob
<1>4. CASE /\ worker' = [stage |-> "calling", text |-> text, rows |-> rows]
           /\ UNCHANGED <<text, deleted, rows, job, jobLock, ingest, edits>>
  <2>1. worker' \in Work({"idle", "claimed", "calling", "answered", "flushing", "waiting",
                         "missed"})
    BY <1>1, <1>4 DEF IInv, TypeOK, Work
  <2>. QED BY <1>0, <1>4, <2>1, GoesOn
<1>. QED BY <1>2, <1>3, <1>4 DEF LoadChunks

\* An attempt fails, or the transaction is rolled back.
LEMMA NotDone ==
  ASSUME IInv, worker.stage # "idle", UNCHANGED rows, faults' \in 0 .. MaxFaults,
         EndJob(job) \/ EndJob(Retried(job.attempts + 1))
  PROVE  IInv'
<1>1. rows \in Seq(Row) /\ OfText(rows, text) BY DEF IInv, TypeOK, RowsInv
<1>2. Missing(rows') = Missing(rows) /\ OfText(rows', text) BY <1>1
<1>3. Retried(job.attempts + 1) # NoJob /\ job # NoJob
  BY RetriedJob, Nothing DEF IInv, LockInv
<1>. QED BY <1>1, <1>2, <1>3, EndsJob

LEMMA WaitingInv ==
  ASSUME IInv, UNCHANGED faults, VendorAnswers \/ WaitForChunks \/ Recheck
  PROVE  IInv'
<1>1. ASSUME NEW s \in {"answered", "flushing", "waiting"}, Loaded,
             worker' = [worker EXCEPT !.stage = s],
             UNCHANGED <<text, deleted, rows, job, jobLock, ingest, edits>>
      PROVE  IInv'
  <2>1. /\ worker' \in Work({"idle", "claimed", "calling", "answered", "flushing", "waiting",
                            "missed"})
        /\ worker'.stage = s /\ worker'.rows = worker.rows
    BY <1>1 DEF IInv, TypeOK, Work
  <2>2. Missing(rows) \subseteq Missing(worker'.rows) BY <1>1, <2>1 DEF IInv, WorkInv
  <2>. QED BY <1>1, <2>1, <2>2, GoesOn DEF Loaded
<1>2. faults' \in 0 .. MaxFaults BY DEF IInv, TypeOK
<1>. QED BY <1>1, <1>2, NotDone DEF VendorAnswers, WaitForChunks, Recheck, Loaded

\* Storing leaves nothing missing: what was missing when the rows were read is there
\* now, and nothing has been missed since.
LEMMA StoredRows ==
  ASSUME IInv, worker.stage \in {"flushing", "waiting"}, StoreVectors
  PROVE  /\ rows' \in Seq(Row) /\ OfText(rows', text) /\ Missing(rows') = {}
         /\ Len(rows') = Len(rows)
         /\ \A i \in 1 .. Len(rows) :
              rows'[i] = IF i \in Missing(worker.rows)
                         THEN [rows[i] EXCEPT !.vector = worker.rows[i].section] ELSE rows[i]
<1>. DEFINE New(i) == IF i \in Missing(worker.rows)
                      THEN [rows[i] EXCEPT !.vector = worker.rows[i].section] ELSE rows[i]
<1>0. rows' = [i \in 1 .. Len(rows) |-> New(i)] BY DEF StoreVectors
<1>1. rows \in Seq(Row) /\ worker.rows \in Seq(Row) BY DEF IInv, TypeOK, Work
<1>2. Missing(rows) \subseteq Missing(worker.rows) BY DEF IInv, WorkInv, Loaded
<1>3. ASSUME NEW i \in 1 .. Len(rows)
      PROVE  New(i) \in Row /\ New(i).section = rows[i].section /\ New(i).vector # None
  <2>1. rows[i] \in Row BY <1>1, RowFields
  <2>2. CASE i \in Missing(worker.rows)
    <3>1. worker.rows[i].section \in Sections BY <1>1, <2>2, RowFields
    <3>. QED BY <2>1, <2>2, <3>1, EmbeddingAssumption DEF Row
  <2>3. CASE i \notin Missing(worker.rows)
    <3>1. rows[i].vector # None BY <1>2, <2>3 DEF Missing
    <3>. QED BY <2>1, <2>3, <3>1
  <2>. QED BY <2>2, <2>3
<1>. HIDE DEF New
<1>4. Len(rows) \in Nat BY <1>1
<1>5. rows' \in Seq(Row) /\ Len(rows') = Len(rows) BY <1>0, <1>3, <1>4
<1>6. Missing(rows') = {} BY <1>0, <1>3, <1>5 DEF Missing
<1>7. OfText(rows', text) BY <1>0, <1>3, <1>5 DEF IInv, RowsInv, OfText
<1>. QED BY <1>0, <1>5, <1>6, <1>7 DEF New

LEMMA StoreVectorsInv == ASSUME IInv, StoreVectors PROVE IInv'
<1>0. /\ worker.stage \in {"flushing", "waiting"} /\ ~Chunked
      /\ faults' \in 0 .. MaxFaults
      /\ EndJob(NoJob) \/ EndJob(Retried(job.attempts + 1))
  BY EmbeddingAssumption DEF StoreVectors, ChunksLocked, Chunked, Fault, IInv, TypeOK
<1>1. rows' \in Seq(Row) /\ OfText(rows', text) BY <1>0, StoredRows
<1>2. Missing(rows') = {} BY <1>0, StoredRows
<1>3. Missing(rows') \subseteq Missing(rows) BY <1>2
<1>4. CASE EndJob(NoJob) BY <1>0, <1>1, <1>2, <1>3, <1>4, EndsJob
<1>5. CASE EndJob(Retried(job.attempts + 1)) BY <1>0, <1>1, <1>2, <1>3, <1>5, EndsJob
<1>. QED BY <1>0, <1>4, <1>5

LEMMA NextInv == IInv /\ [Next]_vars => IInv'
<1>1. ASSUME IInv, Next PROVE IInv'
  <2>0. faults \in 0 .. MaxFaults /\ (Fault => faults' \in 0 .. MaxFaults)
    BY <1>1, EmbeddingAssumption DEF IInv, TypeOK, Fault
  <2>1. CASE \E t \in Texts : BeginIngest(t) BY <1>1, <2>1, BeginIngestInv
  <2>2. CASE BeginDelete BY <1>1, <2>2, BeginDeleteInv
  <2>3. CASE IngestStep
    BY <1>1, <2>3, EnqueueEmbedInv, CommitIngestInv, CommitDeleteInv DEF IngestStep
  <2>4. CASE WorkerStep
    <3>1. CASE Claim \/ LoadChunks \/ StoreVectors
      BY <1>1, <3>1, ClaimInv, LoadChunksInv, StoreVectorsInv
    <3>2. CASE VendorAnswers \/ Recheck \/ WaitForChunks
      <4>1. faults' = faults BY <3>2 DEF VendorAnswers, Recheck, WaitForChunks
      <4>. QED BY <1>1, <3>2, <4>1, WaitingInv
    <3>3. CASE StoreFails
      BY <1>1, <2>0, <3>3, NotDone DEF StoreFails
    <3>. QED BY <2>4, <3>1, <3>2, <3>3 DEF WorkerStep
  <2>5. CASE Deadlock BY <1>1, <2>0, <2>5, NotDone, RollsBack DEF Deadlock
  <2>6. CASE VendorFails BY <1>1, <2>0, <2>6, NotDone DEF VendorFails
  <2>7. CASE IngestFails BY <1>1, <2>0, <2>7, RollsBack DEF IngestFails
  <2>8. CASE WorkerDies BY <1>1, <2>0, <2>8, NotDone DEF WorkerDies
  <2>. QED BY <1>1, <2>1, <2>2, <2>3, <2>4, <2>5, <2>6, <2>7, <2>8 DEF Next
<1>2. ASSUME IInv, UNCHANGED vars PROVE IInv'
  <2>1. TypeOK' /\ LockInv' BY <1>2 DEF vars, IInv, TypeOK, LockInv
  <2>2. IngestInv' BY <1>2 DEF vars, IInv, IngestInv, Chunked, Carried, Missing
  <2>3. RowsInv' /\ WorkInv' /\ NothingForgotten'
    BY <1>2 DEF vars, IInv, RowsInv, OfText, WorkInv, Loaded, Missing, NothingForgotten
  <2>. QED BY <2>1, <2>2, <2>3 DEF IInv
<1>. QED BY <1>1, <1>2

\* Documents, chunks, the job and both transactions keep their types.
THEOREM TypeCorrect == Spec => []TypeOK
  BY InitInv, NextInv, PTL DEF Spec, IInv

\* A living chunk without a vector always has a job, open or dead: an ingest that adds
\* one waits for the job's row, so it is never deduped against a worker that has
\* already read the former chunks and is about to mark the job done.
THEOREM NeverForgotten == Spec => []NothingForgotten
  BY InitInv, NextInv, PTL DEF Spec, IInv

-----------------------------------------------------------------------------
(* The same under an assumption on the texts: one that says nothing new    *)
(* keeps its sections where they were                                      *)

SectionsStay ==
  \A t, u \in Texts :
    (\A i \in 1 .. Len(u) : \E j \in 1 .. Len(t) : u[i] = t[j]) =>
      Len(u) <= Len(t) /\ \A i \in 1 .. Len(u) : u[i] = t[i]

Matches(r) == \A i \in 1 .. Len(r) : r[i].vector \in {r[i].section, None}

\* A section the worker has read is still where it was, or gone.
SamePlace ==
  Loaded => /\ Len(rows) <= Len(worker.rows)
            /\ \A i \in 1 .. Len(rows) : worker.rows[i].section = rows[i].section

PlaceInv == Matches(rows) /\ SamePlace

\* Steps that leave the rows alone.
LEMMA RowsStand ==
  ASSUME PlaceInv, UNCHANGED rows,
         Loaded' => \/ Loaded /\ worker'.rows = worker.rows
                    \/ worker'.rows = rows
  PROVE  PlaceInv'
<1>1. Matches(rows)' BY DEF PlaceInv, Matches
<1>2. SamePlace'
  <2>. SUFFICES ASSUME Loaded'
                PROVE  /\ Len(rows) <= Len(worker'.rows)
                       /\ \A i \in 1 .. Len(rows) : worker'.rows[i].section = rows[i].section
    BY DEF SamePlace
  <2>1. CASE Loaded /\ worker'.rows = worker.rows BY <2>1 DEF PlaceInv, SamePlace
  <2>2. CASE worker'.rows = rows
    <3>1. Len(rows) <= Len(rows) BY DEF PlaceInv
    <3>. QED BY <2>2, <3>1
  <2>. QED BY <2>1, <2>2
<1>. QED BY <1>1, <1>2 DEF PlaceInv

\* An ingest that commits while the worker is at work has found all its sections
\* among the present ones, vectors included; so it has moved none.
LEMMA PlaceCommit == ASSUME IInv, PlaceInv, SectionsStay, CommitIngest PROVE PlaceInv'
<1>. DEFINE t == ingest.text
<1>0. /\ ingest.stage = "ready" /\ rows' = ingest.rows
      /\ worker' = (IF worker.stage = "waiting" THEN [worker EXCEPT !.stage = "missed"]
                                                 ELSE worker)
  BY DEF CommitIngest
<1>1. /\ t \in Texts /\ ingest.rows = Carried(t)
      /\ Missing(ingest.rows) # {} => jobLock = "ingest"
  BY <1>0 DEF IInv, IngestInv, Chunked
<1>2. /\ rows' \in Seq(Row) /\ Len(rows') = Len(t)
      /\ \A i \in 1 .. Len(t) :
           /\ rows'[i].section = t[i]
           /\ rows'[i].vector # None =>
                \E k \in 1 .. Len(rows) : /\ rows[k].section = t[i]
                                         /\ rows[k].vector = rows'[i].vector
  BY <1>0, <1>1, CarriedRows DEF IInv, OfText
<1>3. /\ worker'.rows = worker.rows /\ (Loaded' => Loaded)
  BY <1>0 DEF IInv, TypeOK, Work, Loaded
<1>4. Matches(rows')
  <2>. SUFFICES ASSUME NEW i \in 1 .. Len(t), rows'[i].vector # None
                PROVE  rows'[i].vector = rows'[i].section
    BY <1>2 DEF Matches
  <2>1. PICK k \in 1 .. Len(rows) : rows[k].section = t[i] /\ rows[k].vector = rows'[i].vector
    BY <1>2
  <2>. QED BY <1>2, <2>1 DEF PlaceInv, Matches
<1>5. SamePlace'
  <2>. SUFFICES ASSUME Loaded
                PROVE  /\ Len(rows') <= Len(worker.rows)
                       /\ \A i \in 1 .. Len(rows') : worker.rows[i].section = rows'[i].section
    BY <1>3 DEF SamePlace
  <2>1. Missing(rows') = {}
    BY <1>0, <1>1, EmbeddingAssumption DEF IInv, LockInv, Loaded
  <2>2. ASSUME NEW i \in 1 .. Len(t) PROVE \E k \in 1 .. Len(text) : t[i] = text[k]
    <3>1. rows'[i].vector # None BY <1>2, <2>1 DEF Missing
    <3>. QED BY <1>2, <3>1 DEF IInv, RowsInv, OfText
  <2>3. Len(t) <= Len(text) /\ \A i \in 1 .. Len(t) : t[i] = text[i]
    <3>1. CASE text \in Texts BY <1>1, <2>2, <3>1 DEF SectionsStay
    <3>2. CASE text = <<>>
      <4>1. Len(t) \in Nat /\ 1 .. Len(t) = {} BY <1>1, <2>2, <3>2, TextFields
      <4>. QED BY <3>2, <4>1
    <3>. QED BY <3>1, <3>2 DEF IInv, TypeOK
  <2>4. /\ Len(rows) = Len(text) /\ \A i \in 1 .. Len(text) : rows[i].section = text[i]
    BY DEF IInv, RowsInv, OfText
  <2>5. /\ Len(rows) <= Len(worker.rows)
        /\ \A i \in 1 .. Len(rows) : worker.rows[i].section = rows[i].section
    BY DEF PlaceInv, SamePlace
  <2>6. Len(t) \in Nat /\ Len(rows) \in Nat /\ Len(worker.rows) \in Nat
    BY <1>1, TextFields DEF IInv, TypeOK, Work
  <2>. QED BY <1>2, <2>3, <2>4, <2>5, <2>6
<1>. QED BY <1>4, <1>5 DEF PlaceInv

LEMMA PlaceStore == ASSUME IInv, PlaceInv, StoreVectors PROVE PlaceInv'
<1>0. worker.stage \in {"flushing", "waiting"} /\ worker' = NoWork
  BY DEF StoreVectors, EndJob
<1>1. /\ Len(rows') = Len(rows)
      /\ \A i \in 1 .. Len(rows) :
           rows'[i] = IF i \in Missing(worker.rows)
                      THEN [rows[i] EXCEPT !.vector = worker.rows[i].section] ELSE rows[i]
  BY <1>0, StoredRows
<1>2. Matches(rows')
  <2>. SUFFICES ASSUME NEW i \in 1 .. Len(rows)
                PROVE  rows'[i].vector \in {rows'[i].section, None}
    BY <1>1 DEF Matches
  <2>1. rows[i] \in Row BY RowFields DEF IInv, TypeOK
  <2>2. CASE i \in Missing(worker.rows)
    <3>1. worker.rows[i].section = rows[i].section
      BY <1>0 DEF PlaceInv, SamePlace, Loaded
    <3>. QED BY <1>1, <2>1, <2>2, <3>1 DEF Row
  <2>3. CASE i \notin Missing(worker.rows) BY <1>1, <2>3 DEF PlaceInv, Matches
  <2>. QED BY <2>2, <2>3
<1>3. SamePlace' BY <1>0, Nothing DEF SamePlace, Loaded
<1>. QED BY <1>2, <1>3 DEF PlaceInv

LEMMA PlaceStep == ASSUME IInv, PlaceInv, SectionsStay, Next PROVE PlaceInv'
<1>1. CASE worker' = NoWork /\ UNCHANGED rows
  BY <1>1, RowsStand, Nothing DEF Loaded
<1>2. CASE UNCHANGED <<worker, rows>> BY <1>2, RowsStand DEF Loaded
<1>3. CASE CommitIngest BY <1>3, PlaceCommit
<1>4. CASE StoreVectors BY <1>4, PlaceStore
<1>5. CASE Claim
  <2>1. worker'.stage = "claimed" /\ UNCHANGED rows BY <1>5 DEF Claim, IInv, TypeOK, Work
  <2>. QED BY <2>1, RowsStand DEF Loaded
<1>6. CASE LoadChunks
  BY <1>1, <1>6, RowsStand DEF LoadChunks, EndJob
<1>7. CASE VendorAnswers \/ Recheck \/ WaitForChunks
  <2>1. CASE EndJob(Retried(job.attempts + 1)) /\ UNCHANGED rows BY <1>1, <2>1 DEF EndJob
  <2>2. ASSUME NEW s \in {"answered", "flushing", "waiting"}, Loaded, UNCHANGED rows,
               worker' = [worker EXCEPT !.stage = s]
        PROVE  PlaceInv'
    <3>1. worker'.rows = worker.rows BY <2>2 DEF IInv, TypeOK, Work
    <3>. QED BY <2>2, <3>1, RowsStand
  <2>. QED BY <1>7, <2>1, <2>2 DEF VendorAnswers, Recheck, WaitForChunks, Loaded
<1>. QED
  BY <1>1, <1>2, <1>3, <1>4, <1>5, <1>6, <1>7
  DEF Next, IngestStep, WorkerStep, BeginIngest, BeginDelete, EnqueueEmbed, CommitDelete,
      StoreFails, Deadlock, RollbackIngest, VendorFails, IngestFails, WorkerDies, EndJob

\* Where a text that says nothing new keeps its sections where they were, a stored
\* vector is always that of the stored section, although the worker writes by chunk id
\* what it has read before the vendor call and its recheck compares nothing.
THEOREM VectorsMatch == SectionsStay => (Spec => []VectorMatchesText)
<1>. SUFFICES ASSUME SectionsStay PROVE Spec => []VectorMatchesText OBVIOUS
<1>1. Init => IInv /\ PlaceInv
  BY InitInv, Nothing DEF Init, PlaceInv, Matches, SamePlace, Loaded
<1>2. IInv /\ PlaceInv /\ [Next]_vars => (IInv /\ PlaceInv)'
  <2>1. ASSUME IInv, PlaceInv, Next PROVE PlaceInv' BY <2>1, PlaceStep
  <2>2. ASSUME PlaceInv, UNCHANGED vars PROVE PlaceInv'
    BY <2>2, RowsStand DEF vars, Loaded
  <2>. QED BY <2>1, <2>2, NextInv
<1>3. PlaceInv => VectorMatchesText BY DEF PlaceInv, Matches, VectorMatchesText
<1>. QED BY <1>1, <1>2, <1>3, PTL DEF Spec
=============================================================================
