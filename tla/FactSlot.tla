------------------------------- MODULE FactSlot -------------------------------
(***************************************************************************)
(* One registry-exclusive (subject, predicate) slot of the claims table    *)
(* and everybody who writes it at the same time: structured field writers  *)
(* and promotions (API requests), extraction jobs, document deletes and    *)
(* the conflict worker.                                                    *)
(*                                                                         *)
(* As in JobQueue, claims[i] is the committed row, draft[i] what its lock  *)
(* holder has written, holder[i] that holder; every SELECT sees the        *)
(* committed rows of its own moment (READ COMMITTED).                      *)
(*                                                                         *)
(* A claim keeps what the ranking and the lifecycle look at: value, status,*)
(* creator, evidence and whether its validity window has been closed.      *)
(* Confidence, updated_at and claim_id only break ties, so a tie is left   *)
(* open.  Evidence documents are all visible to the organisation.          *)
(***************************************************************************)
EXTENDS Naturals, FiniteSets

CONSTANTS
  Values,      \* object_text of the claims
  Docs,        \* evidence documents, ingested before the model starts
  EventTime,   \* Document.event_time
  Writers,     \* API requests that write a value
  WriteKinds,  \* what they do: "structured", "clear" or "agent"
  Removers,    \* API requests that delete a document
  Extractors,  \* workers that run extract_graph jobs
  Resolvers,   \* workers that run resolve_claim_conflict jobs
  None,        \* no process, no document, no value
  MaxClaims,   \* bound: rows of the table
  MaxWrites,   \* bound: API requests
  MaxAborts    \* bound: requests that fail and workers that die on their own

Procs == Writers \cup Removers \cup Extractors \cup Resolvers

ASSUME SlotAssumption ==
  /\ None \notin Procs \cup Docs \cup Values
  /\ (Writers \cup Removers) \cap (Extractors \cup Resolvers) = {}
  /\ Writers \cap Removers = {} /\ Extractors \cap Resolvers = {}
  /\ EventTime \in [Docs -> Nat \ {0}]
  /\ WriteKinds \subseteq {"structured", "clear", "agent"}
  /\ {MaxClaims, MaxWrites, MaxAborts} \subseteq Nat

VARIABLES
  claims, draft, holder,
  stage,      \* where a process is in its transaction
  txn,        \* what it is doing: see NoTxn
  loaded,     \* rows it has read without locking them, as it read them
  docLock,    \* the transaction that has written a documents row
  gone,       \* documents whose tombstone is committed
  extract,    \* the extract_graph job of a document
  applied,    \* documents whose extraction window is committed
  queued,     \* an open resolve_claim_conflict job is committed
  jobHolder,  \* the process that holds that job's row
  spent

vars == <<claims, draft, holder, stage, txn, loaded, docLock, gone, extract,
          applied, queued, jobHolder, spent>>
tables == <<claims, draft, holder>>
work == <<docLock, gone, extract, applied, queued, jobHolder>>

Ids == 1 .. MaxClaims
Creators == {"extraction", "agent", "structured"}
Statuses == {"absent", "proposed", "active", "superseded", "retracted"}
Claim == [obj : Values \cup {None}, status : Statuses, by : Creators \cup {"nobody"},
          docs : SUBSET Docs, closed : BOOLEAN, winner : Ids \cup {0}]
NoClaim == [obj |-> None, status |-> "absent", by |-> "nobody", docs |-> {},
            closed |-> FALSE, winner |-> 0]
Stages == {"idle", "own", "raced", "insert", "added", "slot", "count", "removing",
           "ready", "window", "applied"}
\* row: the claim being added; todo: rows still to lock or write; got: locked.
Txn == [kind : {"none", "structured", "clear", "agent", "delete", "extract", "resolve",
                "rerank"},
        obj : Values \cup {None}, doc : Docs \cup {None}, status : Statuses,
        row : Ids \cup {0}, todo : SUBSET Ids, got : SUBSET Ids]
NoTxn == [kind |-> "none", obj |-> None, doc |-> None, status |-> "absent",
          row |-> 0, todo |-> {}, got |-> {}]

TypeOK ==
  /\ claims \in [Ids -> Claim] /\ draft \in [Ids -> Claim]
  /\ holder \in [Ids -> Procs \cup {None}]
  /\ stage \in [Procs -> Stages]
  /\ txn \in [Procs -> Txn]
  /\ loaded \in [Procs -> [Ids -> Claim]]
  /\ docLock \in [Docs -> Procs \cup {None}]
  /\ gone \subseteq Docs /\ applied \subseteq Docs
  /\ extract \in [Docs -> {"none", "queued", "running"}]
  /\ queued \in BOOLEAN /\ jobHolder \in Procs \cup {None}
  /\ spent \in [writes : 0 .. MaxWrites, aborts : 0 .. MaxAborts]

-----------------------------------------------------------------------------
(* Rows and ranks                                                          *)

Seen(p, i) == IF holder[i] = p THEN draft[i] ELSE claims[i]
CanLock(p, i) == holder[i] \in {None, p}
First(S) == CHOOSE i \in S : \A j \in S : i <= j

LiveOrSuperseded == {"proposed", "active", "retracted", "superseded"}
LiveStatuses == {"proposed", "active", "retracted"}
IsLive(c) == c.status \in LiveStatuses
IsActive(c) == c.status = "active"

\* _live_claims_for_object_locked and active_claims_for_slot_locked, before
\* the locks: the rows that match in the statement's snapshot.
SameObject(p, o) == {i \in Ids : Seen(p, i).obj = o /\ IsLive(Seen(p, i))}
ActiveRows(p) == {i \in Ids : IsActive(Seen(p, i))}

\* Rows that keep p from making a row of value o live: uq_claims_live_object.
Rivals(p, o) == {i \in Ids : holder[i] # p /\ draft[i].obj = o
                             /\ (IsLive(claims[i]) \/ IsLive(draft[i]))}

\* precedence_rank
Precedence(by, docs) ==
  CASE by = "structured" -> 4
    [] by = "agent" -> 3
    [] OTHER -> IF Cardinality(docs) >= 2 THEN 2 ELSE 1

\* latest_evidence_time: only documents that are not deleted count.
LatestEvidence(docs) ==
  LET times == {EventTime[d] : d \in docs \ gone}
  IN  IF times = {} THEN 0 ELSE CHOOSE t \in times : \A u \in times : u <= t

\* rank_conflict_candidates: precedence first, then evidence recency.
NewestFirst(c, e) ==
  \/ LatestEvidence(c.docs) > LatestEvidence(e.docs)
  \/ /\ LatestEvidence(c.docs) = LatestEvidence(e.docs)
     /\ Precedence(c.by, c.docs) > Precedence(e.by, e.docs)
Outranks(c, e) ==
  LET pc == Precedence(c.by, c.docs)
      pe == Precedence(e.by, e.docs)
  IN  pc > pe \/ (pc = pe /\ LatestEvidence(c.docs) > LatestEvidence(e.docs))

Winners(S) == {i \in S : \A j \in S : ~Outranks(draft[j], draft[i])}

\* _merge_incoming_into_claim.  Windows are fill-only, so a closed one stays.
Merged(c, t) ==
  LET by == IF t.kind = "extract" THEN "extraction" ELSE t.kind
      docs == c.docs \cup {t.doc}
  IN  [c EXCEPT
        !.docs = docs,
        !.by = IF Precedence(by, docs) > Precedence(c.by, docs) THEN by ELSE c.by,
        !.status = IF t.status = "active" THEN "active"
                   ELSE IF c.status = "retracted" THEN "proposed" ELSE c.status]

NewClaim(t) ==
  [obj |-> t.obj, status |-> t.status,
   by |-> IF t.kind = "extract" THEN "extraction" ELSE t.kind,
   docs |-> {t.doc}, closed |-> FALSE, winner |-> 0]

Superseded(c, w) == [c EXCEPT !.status = "superseded", !.closed = TRUE, !.winner = w]
RetractedAsDeleted(c) == [c EXCEPT !.status = "deleted", !.closed = TRUE]
Retracted(c) == [c EXCEPT !.status = "retracted", !.closed = TRUE]

-----------------------------------------------------------------------------
(* Transactions                                                            *)

CommitRows(p) ==
  /\ claims' = [i \in Ids |-> IF holder[i] = p THEN draft[i] ELSE claims[i]]
  /\ holder' = [i \in Ids |-> IF holder[i] = p THEN None ELSE holder[i]]
  /\ UNCHANGED draft

EndWork(p, next) ==
  /\ stage' = [stage EXCEPT ![p] = next]
  /\ txn' = [txn EXCEPT ![p] = IF next = "idle" THEN NoTxn
                               ELSE [NoTxn EXCEPT !.kind = txn[p].kind, !.doc = txn[p].doc]]
  /\ loaded' = [loaded EXCEPT ![p] = [i \in Ids |-> NoClaim]]

Unlocked(p) == [d \in Docs |-> IF docLock[d] = p THEN None ELSE docLock[d]]

\* Nothing the transaction wrote survives; a job goes back to the queue.
Rollback(p) ==
  /\ draft' = [i \in Ids |-> IF holder[i] = p THEN claims[i] ELSE draft[i]]
  /\ holder' = [i \in Ids |-> IF holder[i] = p THEN None ELSE holder[i]]
  /\ EndWork(p, "idle")
  /\ docLock' = Unlocked(p)
  /\ jobHolder' = IF jobHolder = p THEN None ELSE jobHolder
  /\ extract' = IF p \in Extractors THEN [extract EXCEPT ![txn[p].doc] = "queued"]
                                    ELSE extract
  /\ UNCHANGED <<claims, gone, applied, queued>>

\* add_claim starts: the same-object rows of this moment, at most one.
Search(p, t) ==
  \/ /\ SameObject(p, t.obj) = {}
     /\ stage' = [stage EXCEPT ![p] = "insert"]
     /\ txn' = [txn EXCEPT ![p] = t]
  \/ /\ stage' = [stage EXCEPT ![p] = "own"]
     /\ \E i \in SameObject(p, t.obj) : txn' = [txn EXCEPT ![p] = [t EXCEPT !.row = i]]

-----------------------------------------------------------------------------
(* add_claim                                                               *)

\* A request starts on behalf of document d.
BeginWrite(p, k, d) ==
  /\ p \in Writers /\ stage[p] = "idle" /\ k \in WriteKinds
  /\ spent.writes < MaxWrites /\ d \notin gone
  /\ spent' = [spent EXCEPT !.writes = @ + 1]
  /\ UNCHANGED <<tables, loaded, gone, extract, applied, queued, jobHolder>>

Write(k, d) == [NoTxn EXCEPT !.kind = k, !.doc = d, !.status = "active"]

\* An ingest writes its own document and enqueues its extraction, so it has
\* both rows when it comes to its structured fields.
IngestsDocument(p, d) ==
  docLock[d] = None /\ extract[d] # "running" /\ docLock' = [docLock EXCEPT ![d] = p]

ApplyField(p, o, d) ==
  /\ BeginWrite(p, "structured", d) /\ IngestsDocument(p, d)
  /\ Search(p, [Write("structured", d) EXCEPT !.obj = o])

\* A structured field that has become empty: the slot is locked at once.
ClearField(p, d) ==
  /\ BeginWrite(p, "clear", d) /\ IngestsDocument(p, d)
  /\ stage' = [stage EXCEPT ![p] = "slot"]
  /\ txn' = [txn EXCEPT ![p] = [Write("clear", d) EXCEPT !.todo = ActiveRows(p)]]

\* A promotion has read its evidence document without a lock.
Promote(p, o, d) ==
  /\ BeginWrite(p, "agent", d) /\ UNCHANGED docLock
  /\ Search(p, [Write("agent", d) EXCEPT !.obj = o])

MergeClaim(p) ==
  LET i == txn[p].row IN
  /\ stage[p] \in {"own", "raced"} /\ CanLock(p, i) /\ IsLive(Seen(p, i))
  /\ holder' = [holder EXCEPT ![i] = p]
  /\ draft' = [draft EXCEPT ![i] = Merged(Seen(p, i), txn[p])]
  /\ stage' = [stage EXCEPT ![p] = "added"]
  /\ UNCHANGED <<claims, txn, loaded, work, spent>>

\* The row was superseded while the statement waited for it.
OwnRowGone(p) ==
  /\ stage[p] = "own" /\ CanLock(p, txn[p].row) /\ ~IsLive(Seen(p, txn[p].row))
  /\ stage' = [stage EXCEPT ![p] = "insert"]
  /\ txn' = [txn EXCEPT ![p].row = 0]
  /\ UNCHANGED <<tables, loaded, work, spent>>

InsertClaim(p) ==
  /\ stage[p] = "insert" /\ Rivals(p, txn[p].obj) = {}
  /\ \E i \in Ids :
       /\ draft[i] = NoClaim /\ holder[i] = None
       /\ \A j \in 1 .. (i - 1) : draft[j] # NoClaim \/ holder[j] # None
       /\ holder' = [holder EXCEPT ![i] = p]
       /\ draft' = [draft EXCEPT ![i] = NewClaim(txn[p])]
       /\ txn' = [txn EXCEPT ![p].row = i]
  /\ stage' = [stage EXCEPT ![p] = "added"]
  /\ UNCHANGED <<claims, loaded, work, spent>>

\* IntegrityError in the savepoint: look for the row that won.
InsertRaced(p) ==
  /\ stage[p] = "insert"
  /\ \E i \in Rivals(p, txn[p].obj) :
       /\ IsLive(claims[i])
       /\ txn' = [txn EXCEPT ![p].row = i]
  /\ stage' = [stage EXCEPT ![p] = "raced"]
  /\ UNCHANGED <<tables, loaded, work, spent>>

\* It is gone again: add_claim raises.
RaceLost(p) ==
  stage[p] = "raced" /\ CanLock(p, txn[p].row) /\ ~IsLive(Seen(p, txn[p].row))

-----------------------------------------------------------------------------
(* eager_close_claim_slot                                                  *)

OpenSlot(p) ==
  /\ stage[p] = "added"
  /\ \/ /\ IsActive(draft[txn[p].row])
        /\ stage' = [stage EXCEPT ![p] = "slot"]
        /\ txn' = [txn EXCEPT ![p].todo = ActiveRows(p)]
     \/ /\ ~IsActive(draft[txn[p].row])
        /\ stage' = [stage EXCEPT ![p] = "ready"]
        /\ UNCHANGED txn
  /\ UNCHANGED <<tables, loaded, work, spent>>

\* FOR UPDATE row by row; a row that is no longer active is left out.
LockSlotRow(p) ==
  LET i == First(txn[p].todo) IN
  /\ stage[p] = "slot" /\ txn[p].todo # {} /\ CanLock(p, i)
  /\ \/ /\ IsActive(Seen(p, i))
        /\ holder' = [holder EXCEPT ![i] = p]
        /\ txn' = [txn EXCEPT ![p].todo = @ \ {i}, ![p].got = @ \cup {i}]
     \/ /\ ~IsActive(Seen(p, i))
        /\ txn' = [txn EXCEPT ![p].todo = @ \ {i}]
        /\ UNCHANGED holder
  /\ UNCHANGED <<claims, draft, stage, loaded, work, spent>>

SlotLocked(p) == stage[p] = "slot" /\ txn[p].todo = {}

\* One winner stays active; what it leaves active is counted by requests only.
CloseSlot(p) ==
  /\ SlotLocked(p) /\ txn[p].kind \notin {"clear", "resolve"}
  /\ \/ txn[p].got = {} /\ UNCHANGED draft
     \/ \E w \in Winners(txn[p].got) :
          draft' = [i \in Ids |-> IF i \in txn[p].got \ {w}
                                  THEN Superseded(draft[i], w) ELSE draft[i]]
  /\ stage' = [stage EXCEPT ![p] = IF p \in Writers THEN "count" ELSE "ready"]
  /\ UNCHANGED <<claims, holder, txn, loaded, work, spent>>

\* ... and what structured fields have written there is retracted.
ClearSlot(p) ==
  /\ SlotLocked(p) /\ txn[p].kind = "clear"
  /\ draft' = [i \in Ids |-> IF i \in txn[p].got /\ draft[i].by = "structured"
                             THEN Retracted(draft[i]) ELSE draft[i]]
  /\ stage' = [stage EXCEPT ![p] = "ready"]
  /\ UNCHANGED <<claims, holder, txn, loaded, work, spent>>

\* active_claim_count > 1 inside the request's own transaction: enqueue.
CountAndEnqueue(p) ==
  /\ stage[p] = "count"
  /\ \/ Cardinality(ActiveRows(p)) <= 1 /\ UNCHANGED jobHolder
     \/ /\ Cardinality(ActiveRows(p)) > 1
        /\ jobHolder \in {None, p} /\ jobHolder' = p
  /\ stage' = [stage EXCEPT ![p] = "ready"]
  /\ UNCHANGED <<tables, txn, loaded, docLock, gone, extract, applied, queued, spent>>

CommitWrite(p) ==
  /\ p \in Writers /\ stage[p] = "ready"
  /\ CommitRows(p) /\ EndWork(p, "idle")
  /\ queued' = (queued \/ jobHolder = p)
  /\ jobHolder' = IF jobHolder = p THEN None ELSE jobHolder
  /\ docLock' = Unlocked(p)
  /\ \/ txn[p].kind = "agent" /\ UNCHANGED <<extract, applied>>
     \/ /\ txn[p].kind # "agent"
        /\ extract' = [extract EXCEPT ![txn[p].doc] = "queued"]
        /\ applied' = applied \ {txn[p].doc}
  /\ UNCHANGED <<gone, spent>>

-----------------------------------------------------------------------------
(* remove_document_evidence                                                *)

\* The claims that cite d, read without a lock.
CitingExtraction(p, d, creators) ==
  {i \in Ids : /\ d \in Seen(p, i).docs /\ Seen(p, i).by = "extraction"
               /\ Seen(p, i).status \in {"proposed", "active"}}
Citing(p, d, creators) ==
  {i \in Ids : /\ d \in Seen(p, i).docs /\ Seen(p, i).by \in creators
               /\ Seen(p, i).status \in {"proposed", "active"}}

ReadEvidence(p, k, d, creators) ==
  /\ stage' = [stage EXCEPT ![p] = "removing"]
  /\ txn' = [txn EXCEPT ![p] = [NoTxn EXCEPT !.kind = k, !.doc = d,
                                             !.todo = Citing(p, d, creators)]]
  /\ loaded' = [loaded EXCEPT ![p] =
                  [i \in Ids |-> IF i \in Citing(p, d, creators) THEN Seen(p, i)
                                                                 ELSE NoClaim]]

BeginDelete(p, d) ==
  /\ p \in Removers /\ stage[p] = "idle" /\ d \notin gone /\ docLock[d] = None
  /\ spent.writes < MaxWrites
  /\ spent' = [spent EXCEPT !.writes = @ + 1]
  /\ docLock' = [docLock EXCEPT ![d] = p]
  /\ ReadEvidence(p, "delete", d, Creators)
  /\ UNCHANGED <<tables, gone, extract, applied, queued, jobHolder>>

\* The UPDATE writes the columns that changed since the row was read, over
\* whatever the row has become.
RemoveEvidence(p) ==
  LET i == First(txn[p].todo)
      rest == loaded[p][i].docs \ {txn[p].doc}
      row == [Seen(p, i) EXCEPT !.docs = rest]
  IN
  /\ stage[p] = "removing" /\ txn[p].todo # {} /\ CanLock(p, i)
  /\ holder' = [holder EXCEPT ![i] = p]
  /\ \/ rest # {} /\ draft' = [draft EXCEPT ![i] = row]
     \/ /\ rest = {} /\ Rivals(p, row.obj) \ {i} = {}
        /\ draft' = [draft EXCEPT ![i] = Retracted(row)]
  /\ txn' = [txn EXCEPT ![p].todo = @ \ {i}]
  /\ UNCHANGED <<claims, stage, loaded, work, spent>>

\* The row was superseded and its value inserted anew: retracting it violates
\* the unique index and the transaction fails.
RemovalRefused(p) ==
  /\ stage[p] = "removing" /\ txn[p].todo # {}
  /\ LET i == First(txn[p].todo)
     IN  /\ CanLock(p, i) /\ loaded[p][i].docs = {txn[p].doc}
         /\ \E j \in Rivals(p, loaded[p][i].obj) \ {i} : IsLive(claims[j])

Removed(p) == stage[p] = "removing" /\ txn[p].todo = {}

CommitDelete(p) ==
  /\ p \in Removers /\ Removed(p)
  /\ CommitRows(p) /\ EndWork(p, "idle")
  /\ gone' = gone \cup {txn[p].doc}
  /\ docLock' = Unlocked(p)
  /\ UNCHANGED <<extract, applied, queued, jobHolder, spent>>

-----------------------------------------------------------------------------
(* extract_graph: a document of one window                                 *)

\* The handler checks the document, then wipes its former extraction facts
\* unless its window has been applied by an earlier attempt.
TakeExtraction(p, d) ==
  /\ p \in Extractors /\ stage[p] = "idle" /\ extract[d] = "queued"
  /\ docLock[d] = None \* an ingest in progress holds the job row too
  /\ \/ /\ d \in gone
        /\ extract' = [extract EXCEPT ![d] = "none"]
        /\ UNCHANGED <<stage, txn, loaded>>
     \/ /\ d \notin gone /\ d \notin applied
        /\ extract' = [extract EXCEPT ![d] = "running"]
        /\ ReadEvidence(p, "extract", d, {"extraction"})
     \/ /\ d \notin gone /\ d \in applied
        /\ extract' = [extract EXCEPT ![d] = "running"]
        /\ stage' = [stage EXCEPT ![p] = "applied"]
        /\ txn' = [txn EXCEPT ![p] = [NoTxn EXCEPT !.kind = "extract", !.doc = d]]
        /\ UNCHANGED loaded
  /\ UNCHANGED <<tables, docLock, gone, applied, queued, jobHolder, spent>>

CommitWipe(p) ==
  /\ p \in Extractors /\ Removed(p)
  /\ CommitRows(p) /\ EndWork(p, "window")
  /\ UNCHANGED <<work, spent>>

\* The model answered: any value, above or below the activation threshold.
BeginWindow(p, o, s) ==
  /\ stage[p] = "window"
  /\ Search(p, [txn[p] EXCEPT !.obj = o, !.status = s])
  /\ UNCHANGED <<tables, loaded, work, spent>>

CommitWindow(p) ==
  /\ p \in Extractors /\ stage[p] = "ready"
  /\ CommitRows(p) /\ EndWork(p, "applied")
  /\ applied' = applied \cup {txn[p].doc}
  /\ UNCHANGED <<docLock, gone, extract, queued, jobHolder, spent>>

\* handle_extract_graph counts the slots its document has active claims in,
\* after the window is committed, and marks its job done.
ContestedByMany(d) ==
  /\ \E i \in Ids : IsActive(claims[i]) /\ d \in claims[i].docs
  /\ Cardinality({i \in Ids : IsActive(claims[i])}) > 2
Contested(d) ==
  /\ \E i \in Ids : IsActive(claims[i]) /\ d \in claims[i].docs
  /\ Cardinality({i \in Ids : IsActive(claims[i])}) > 1

FinishExtraction(p) ==
  /\ stage[p] = "applied"
  /\ LET d == txn[p].doc
     IN  /\ \/ Contested(d) /\ jobHolder = None /\ queued' = TRUE
            \/ ~Contested(d) /\ UNCHANGED queued
         /\ extract' = [extract EXCEPT ![d] = "none"]
  /\ EndWork(p, "idle")
  /\ UNCHANGED <<tables, docLock, gone, applied, jobHolder, spent>>

-----------------------------------------------------------------------------
(* handle_resolve_claim_conflict                                           *)

BeginResolve(p) ==
  /\ p \in Resolvers /\ stage[p] = "idle" /\ queued /\ jobHolder = None
  /\ jobHolder' = p
  /\ stage' = [stage EXCEPT ![p] = "slot"]
  /\ txn' = [txn EXCEPT ![p] = [NoTxn EXCEPT !.kind = "resolve", !.todo = ActiveRows(p)]]
  /\ UNCHANGED <<tables, loaded, docLock, gone, extract, applied, queued, spent>>

\* Fewer than two values: done.  Otherwise the slot is selected once more.
Reselect(p) ==
  /\ SlotLocked(p) /\ txn[p].kind = "resolve"
  /\ \/ /\ Cardinality(txn[p].got) < 2
        /\ stage' = [stage EXCEPT ![p] = "ready"]
        /\ UNCHANGED txn
     \/ /\ Cardinality(txn[p].got) >= 2
        /\ txn' = [txn EXCEPT ![p].kind = "rerank", ![p].todo = ActiveRows(p)]
        /\ UNCHANGED stage
  /\ UNCHANGED <<tables, loaded, work, spent>>

CommitResolve(p) ==
  /\ p \in Resolvers /\ stage[p] = "ready"
  /\ CommitRows(p) /\ EndWork(p, "idle")
  /\ queued' = FALSE /\ jobHolder' = None
  /\ UNCHANGED <<docLock, gone, extract, applied, spent>>

-----------------------------------------------------------------------------
(* Failures                                                                *)

WaitsFor(p) ==
  (CASE stage[p] \in {"own", "raced"} -> {holder[txn[p].row]}
     [] stage[p] = "insert" -> {holder[i] : i \in Rivals(p, txn[p].obj)}
     [] stage[p] = "slot" /\ txn[p].todo # {} -> {holder[First(txn[p].todo)]}
     [] stage[p] = "removing" /\ txn[p].todo # {} ->
          {holder[First(txn[p].todo)]} \cup
          {holder[i] : i \in Rivals(p, loaded[p][First(txn[p].todo)].obj)}
     [] stage[p] = "count" /\ Cardinality(ActiveRows(p)) > 1 -> {jobHolder}
     [] OTHER -> {}) \ {None, p}

\* A statement of p raises: a lost race, a refused update or a deadlock.
StatementFails(p) ==
  /\ \/ RaceLost(p)
     \/ RemovalRefused(p)
     \/ \E S \in SUBSET Procs :
          /\ p \in S
          /\ \A q \in S : /\ WaitsFor(q) # {} /\ WaitsFor(q) \subseteq S
                          /\ \E r \in S : q \in WaitsFor(r)
  /\ Rollback(p)
  /\ UNCHANGED spent

\* The request fails for a reason of its own, the worker dies, a model call fails.
AbortOrCrash(p) ==
  /\ stage[p] # "idle" /\ spent.aborts < MaxAborts
  /\ spent' = [spent EXCEPT !.aborts = @ + 1]
  /\ Rollback(p)

-----------------------------------------------------------------------------
Init ==
  /\ claims = [i \in Ids |-> NoClaim] /\ draft = claims
  /\ holder = [i \in Ids |-> None]
  /\ stage = [p \in Procs |-> "idle"]
  /\ txn = [p \in Procs |-> NoTxn]
  /\ loaded = [p \in Procs |-> [i \in Ids |-> NoClaim]]
  /\ docLock = [d \in Docs |-> None]
  /\ gone = {} /\ applied = {}
  /\ extract = [d \in Docs |-> IF Extractors = {} THEN "none" ELSE "queued"]
  /\ queued = FALSE /\ jobHolder = None
  /\ spent = [writes |-> 0, aborts |-> 0]

AddStep(p) ==
  \/ MergeClaim(p) \/ OwnRowGone(p) \/ InsertClaim(p) \/ InsertRaced(p)
  \/ OpenSlot(p) \/ LockSlotRow(p) \/ CloseSlot(p) \/ StatementFails(p)

WriterStep(p) == AddStep(p) \/ ClearSlot(p) \/ CountAndEnqueue(p) \/ CommitWrite(p)
RemoverStep(p) == RemoveEvidence(p) \/ CommitDelete(p) \/ StatementFails(p)
ExtractorStep(p) ==
  \/ \E d \in Docs : TakeExtraction(p, d)
  \/ RemoveEvidence(p) \/ CommitWipe(p)
  \/ \E o \in Values, s \in {"proposed", "active"} : BeginWindow(p, o, s)
  \/ AddStep(p) \/ CommitWindow(p) \/ FinishExtraction(p)
ResolverStep(p) ==
  \/ BeginResolve(p) \/ LockSlotRow(p) \/ Reselect(p) \/ CloseSlot(p)
  \/ CommitResolve(p) \/ StatementFails(p)

Next ==
  \/ \E p \in Writers :
       \/ WriterStep(p)
       \/ \E d \in Docs :
            \/ ClearField(p, d)
            \/ \E o \in Values : ApplyField(p, o, d) \/ Promote(p, o, d)
  \/ \E p \in Removers : RemoverStep(p) \/ \E d \in Docs : BeginDelete(p, d)
  \/ \E p \in Extractors : ExtractorStep(p)
  \/ \E p \in Resolvers : ResolverStep(p)
  \/ \E p \in Procs : AbortOrCrash(p)

Spec == Init /\ [][Next]_vars

\* A wait for one's own row or for the conflict job's ends.
LockGranted(p) == MergeClaim(p) \/ FinishExtraction(p)

\* Requests run to their end and workers poll for ever; no lock that is free
\* again and again is withheld for ever, and those who deadlock on the slot do
\* not meet in the same order for ever.
Fairness ==
  /\ \A p \in Writers : WF_vars(WriterStep(p))
  /\ \A p \in Removers : WF_vars(RemoverStep(p))
  /\ \A p \in Extractors : WF_vars(ExtractorStep(p))
  /\ \A p \in Resolvers : WF_vars(ResolverStep(p))
  /\ \A p \in Writers \cup Extractors : SF_vars(LockGranted(p))
  /\ \A p \in Procs \ Removers : SF_vars(LockSlotRow(p))

FairSpec == Spec /\ Fairness

-----------------------------------------------------------------------------
(* Properties                                                              *)

Active == {i \in Ids : IsActive(claims[i])}
Quiet == \A p \in Procs : stage[p] = "idle"

\* "At most one active value may exist for the slot after apply", or the async
\* conflict worker still has it on its list: a committed conflict job, or an
\* extraction that has yet to count the slot.
ConflictNoticed ==
  Cardinality(Active) > 1 =>
    \/ queued
    \/ \E d \in applied, i \in Active : extract[d] # "none" /\ d \in claims[i].docs

\* A superseded claim is closed for good: the lifecycle leaves no transition
\* out of it.
SupersededIsFinal ==
  [][\A i \in Ids : claims[i].status = "superseded" =>
                    claims'[i].status = "superseded"]_vars

\* A value is only ever superseded by one that ranks at least as high at that
\* moment and is itself in force: extraction never displaces ground truth, and
\* two closers never displace each other's winner.
SupersededByStronger ==
  [][\A i \in Ids :
       claims[i].status # "superseded" /\ claims'[i].status = "superseded" =>
         LET w == claims'[claims'[i].winner]
         IN  /\ IsActive(w)
             /\ Precedence(w.by, w.docs) >= Precedence(claims'[i].by, claims'[i].docs)
    ]_vars

\* Retraction happens when a fact's last evidence document is deleted: between
\* transactions no active claim stands on deleted documents alone.
ActiveIsBacked == Quiet => \A i \in Active : ~(claims[i].docs \subseteq gone)

\* A value that has just been applied is current: its window is open.
ActiveIsCurrent == \A i \in Active : ~claims[i].closed

\* Competing values do not stay side by side.
ConflictsAreResolved == Cardinality(Active) > 1 ~> Cardinality(Active) <= 1
=============================================================================
