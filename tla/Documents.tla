------------------------------ MODULE Documents ------------------------------
(***************************************************************************)
(* POST /ingress/envelope for one document: the documents row, its chunks, *)
(* its version history and the archived envelopes, written by requests     *)
(* that run at the same time, fail half-way and are delivered again.       *)
(*                                                                         *)
(* doc and chunk are committed; docDraft and chunkDraft are what the       *)
(* holder of the row lock has written.  A request reads the document       *)
(* without a lock (Session.get), decides from what it read, and its UPDATE *)
(* writes the columns that differ from what it read, over whatever the row *)
(* has become.  The rows are locked in the order in which the session      *)
(* flushes and executes, which depends on the kind of the envelope.        *)
(*                                                                         *)
(* text stands for all the content columns, acl for org_visible and        *)
(* allowed_principals, chunk for all the chunk rows of the document.  An   *)
(* envelope stands for its raw bytes: payload hash, blob key, version row. *)
(***************************************************************************)
EXTENDS Naturals, Sequences

CONSTANTS
  Ingesters,     \* requests that may be in progress at the same time
  Envelopes,     \* what connectors send about the document
  Known,         \* the one ingested before the model starts, or None
  Texts, Acls,
  None,
  MaxDeliveries, \* bound: how often an envelope is sent
  MaxFaults      \* bound: failed puts, refused envelopes, failed commits, crashes

ASSUME DocumentsAssumption ==
  /\ None \notin Ingesters \cup Envelopes \cup Texts \cup Acls
  /\ Envelopes \subseteq [kind : {"upsert", "permission", "delete"}, time : Nat \ {0},
                          text : Texts \cup {None}, acl : Acls \cup {None}]
  /\ \A e \in Envelopes : /\ e.kind = "upsert" <=> e.text # None
                          /\ e.kind # "delete" <=> e.acl # None
  /\ Known # None => Known \in Envelopes /\ Known.kind = "upsert"
  /\ MaxDeliveries \in Nat \ {0} /\ MaxFaults \in Nat

VARIABLES
  doc, docDraft,     \* documents
  chunk, chunkDraft, \* chunks
  versions,          \* document_versions
  blobs,             \* object store
  lock,              \* who has written documents, chunks and connector_status
  stage, env, todo,  \* a request: where it is, its envelope, rows still to write
  loaded,            \* the document as it read it
  sent, faults

vars == <<doc, docDraft, chunk, chunkDraft, versions, blobs, lock, stage, env,
          todo, loaded, sent, faults>>
committed == <<doc, chunk, versions>>
drafts == <<docDraft, chunkDraft>>

Rows == {"document", "chunks", "connector"}
Times == {e.time : e \in Envelopes} \cup {0}
Document == [text : Texts \cup {None}, time : Times, acl : Acls \cup {None},
             aclTime : Times, deleted : BOOLEAN, blob : Envelopes \cup {None}]
NoDocument == [text |-> None, time |-> 0, acl |-> None, aclTime |-> 0,
               deleted |-> FALSE, blob |-> None]
Chunk == [text : Texts \cup {None}, acl : Acls \cup {None}, live : BOOLEAN]
NoChunk == [text |-> None, acl |-> None, live |-> FALSE]

TypeOK ==
  /\ {doc, docDraft} \subseteq Document /\ {chunk, chunkDraft} \subseteq Chunk
  /\ versions \subseteq Envelopes /\ blobs \subseteq Envelopes
  /\ lock \in [Rows -> Ingesters \cup {None}]
  /\ stage \in [Ingesters -> {"idle", "open", "waiting", "missed", "archived",
                              "failing", "cleanup"}]
  /\ env \in [Ingesters -> Envelopes \cup {None}]
  /\ todo \in [Ingesters -> Seq(Rows)] /\ \A p \in Ingesters : Len(todo[p]) <= 3
  /\ loaded \in [Ingesters -> Document]
  /\ sent \in [Envelopes -> 0 .. MaxDeliveries] /\ faults \in 0 .. MaxFaults

-----------------------------------------------------------------------------
(* What an envelope does to the rows                                       *)

Exists(d) == d # NoDocument

\* Upserts are refused when older than the content, permission changes when
\* older than the ACL; a delete is never stale.
StalePermission(e, d) == e.kind = "permission" /\ e.time < d.aclTime
StaleContent(e, d) == e.kind = "upsert" /\ e.time < d.time
Stale(e, d) ==
  \/ e.kind = "upsert" /\ e.time < d.time
  \/ e.kind = "permission" /\ e.time < d.aclTime

ContentChanged(e, d) == ~Exists(d) \/ d.deleted \/ d.text # e.text

\* upsert_content
Upserted(d, e) ==
  LET applyAcl == e.time >= d.aclTime
      aclChanged == applyAcl /\ d.acl # e.acl
  IN  [text |-> e.text, time |-> e.time, deleted |-> FALSE, blob |-> e,
       acl |-> IF applyAcl THEN e.acl ELSE d.acl,
       aclTime |-> IF aclChanged THEN e.time ELSE d.aclTime]

Applied(d, e) ==
  CASE e.kind = "upsert" -> Upserted(d, e)
    [] e.kind = "permission" -> [d EXCEPT !.acl = e.acl, !.aclTime = e.time]
    [] e.kind = "delete" -> [d EXCEPT !.deleted = TRUE]

\* The flush: only the columns that changed since the row was read.
Overwrite(row, read, new) ==
  [c \in DOMAIN row |-> IF new[c] # read[c] THEN new[c] ELSE row[c]]

\* replace_chunks, sync_chunk_metadata, update_permissions, tombstone.  A
\* statement that waited for rows which were replaced meanwhile updates none.
ReplacedWithEnvelopeAcl(e, d) == [text |-> e.text, acl |-> e.acl, live |-> TRUE]
Replaced(e, d) == [text |-> e.text, acl |-> Upserted(d, e).acl, live |-> TRUE]

Rechunked(c, e, d, found) ==
  CASE e.kind = "upsert" /\ ContentChanged(e, d) -> Replaced(e, d)
    [] e.kind = "upsert" /\ ~ContentChanged(e, d) ->
         IF found /\ c.live THEN [c EXCEPT !.acl = Upserted(d, e).acl] ELSE c
    [] e.kind = "permission" -> IF found THEN [c EXCEPT !.acl = e.acl] ELSE c
    [] e.kind = "delete" -> IF found THEN [c EXCEPT !.live = FALSE] ELSE c

\* The order in which a request comes to write the three rows.
Plan(e) ==
  CASE e.kind = "upsert" -> <<"document", "connector", "chunks">>
    [] e.kind = "permission" -> <<"chunks", "document", "connector">>
    [] e.kind = "delete" -> <<"connector", "chunks", "document">>

-----------------------------------------------------------------------------
(* Transactions                                                            *)

MayWrite(p, r) ==
  /\ stage[p] \in {"open", "waiting", "missed"}
  /\ todo[p] # <<>> /\ Head(todo[p]) = r /\ lock[r] \in {None, p}

Wrote(p, r) ==
  /\ lock' = [lock EXCEPT ![r] = p]
  /\ todo' = [todo EXCEPT ![p] = Tail(@)]
  /\ stage' = [stage EXCEPT ![p] = "open"]

\* The transaction is over; its drafts are dropped and its locks are free.
UndoKeepingLocks(p) ==
  /\ docDraft' = IF lock["document"] = p THEN doc ELSE docDraft
  /\ chunkDraft' = IF lock["chunks"] = p THEN chunk ELSE chunkDraft
  /\ UNCHANGED lock
Undo(p) ==
  /\ docDraft' = IF lock["document"] = p THEN doc ELSE docDraft
  /\ chunkDraft' = IF lock["chunks"] = p THEN chunk ELSE chunkDraft
  /\ lock' = [r \in Rows |-> IF lock[r] = p THEN None ELSE lock[r]]

Leave(p) ==
  /\ stage' = [stage EXCEPT ![p] = "idle"]
  /\ env' = [env EXCEPT ![p] = None]
  /\ todo' = [todo EXCEPT ![p] = <<>>]
  /\ loaded' = [loaded EXCEPT ![p] = NoDocument]

Fail(p) ==
  /\ stage' = [stage EXCEPT ![p] = "failing"]
  /\ todo' = [todo EXCEPT ![p] = <<>>]
  /\ UNCHANGED <<env, loaded>>

Fault == faults < MaxFaults /\ faults' = faults + 1

-----------------------------------------------------------------------------
(* ingest_envelope                                                         *)

\* A delete reads the document later, once it has flushed connector_status.
Receive(p, e) ==
  /\ stage[p] = "idle" /\ sent[e] < MaxDeliveries
  /\ sent' = [sent EXCEPT ![e] = @ + 1]
  /\ \/ e.kind # "delete" /\ Stale(e, doc) /\ UNCHANGED <<stage, env, todo, loaded>>
     \/ /\ e.kind = "permission" /\ ~Exists(doc)
        /\ stage' = [stage EXCEPT ![p] = "failing"]
        /\ env' = [env EXCEPT ![p] = e]
        /\ UNCHANGED <<todo, loaded>>
     \/ /\ \/ e.kind = "delete"
           \/ ~Stale(e, doc) /\ (e.kind = "permission" => Exists(doc))
        /\ stage' = [stage EXCEPT ![p] = "open"]
        /\ env' = [env EXCEPT ![p] = e]
        /\ todo' = [todo EXCEPT ![p] = Plan(e)]
        /\ loaded' = [loaded EXCEPT ![p] = IF e.kind = "delete" THEN NoDocument ELSE doc]
  /\ UNCHANGED <<committed, drafts, blobs, lock, faults>>

\* connector_status; a delete now looks for its document (NotFoundError).
WriteConnector(p) ==
  /\ MayWrite(p, "connector")
  /\ \/ /\ env[p].kind # "delete"
        /\ Wrote(p, "connector") /\ UNCHANGED <<env, loaded>>
     \/ /\ env[p].kind = "delete" /\ Exists(doc)
        /\ Wrote(p, "connector") /\ UNCHANGED env
        /\ loaded' = [loaded EXCEPT ![p] = doc]
     \/ /\ env[p].kind = "delete" /\ ~Exists(doc)
        /\ lock' = [lock EXCEPT !["connector"] = p] /\ Fail(p)
  /\ UNCHANGED <<committed, drafts, blobs, sent, faults>>

\* INSERT of a document that another request has inserted: a unique violation,
\* and Postgres aborts the transaction at once.
WriteDocument(p) ==
  /\ MayWrite(p, "document")
  /\ \/ /\ Exists(loaded[p]) \/ ~Exists(docDraft)
        /\ docDraft' = Overwrite(docDraft, loaded[p], Applied(loaded[p], env[p]))
        /\ Wrote(p, "document")
        /\ UNCHANGED <<chunkDraft, env, loaded>>
     \/ /\ ~Exists(loaded[p]) /\ Exists(docDraft)
        /\ Undo(p) /\ Fail(p)
  /\ UNCHANGED <<committed, blobs, sent, faults>>

\* The statement has found the rows locked: it keeps the rows it has seen.
WaitForChunks(p) ==
  /\ stage[p] = "open" /\ todo[p] # <<>> /\ Head(todo[p]) = "chunks"
  /\ lock["chunks"] \notin {None, p}
  /\ stage' = [stage EXCEPT ![p] = "waiting"]
  /\ UNCHANGED <<committed, drafts, blobs, lock, env, todo, loaded, sent, faults>>

WriteChunks(p) ==
  /\ MayWrite(p, "chunks")
  /\ chunkDraft' = Rechunked(chunkDraft, env[p], loaded[p], stage[p] # "missed")
  /\ Wrote(p, "chunks")
  /\ UNCHANGED <<committed, docDraft, blobs, env, loaded, sent, faults>>

\* Postgres first, then the object store.
Archive(p) ==
  /\ stage[p] = "open" /\ todo[p] = <<>>
  /\ blobs' = blobs \cup {env[p]}
  /\ stage' = [stage EXCEPT ![p] = "archived"]
  /\ UNCHANGED <<committed, drafts, lock, env, todo, loaded, sent, faults>>

\* The blob cannot be written, or a structured field was refused (422).
ArchiveSkipped(p) ==
  /\ stage[p] = "open" /\ todo[p] = <<>> /\ Fault
  /\ stage' = [stage EXCEPT ![p] = "archived"]
  /\ UNCHANGED <<committed, drafts, blobs, lock, env, todo, loaded, sent>>
ArchiveRefused(p) ==
  /\ stage[p] = "open" /\ todo[p] = <<>> /\ Fault
  /\ Fail(p)
  /\ UNCHANGED <<committed, drafts, blobs, lock, sent>>

\* Whoever waits for chunk rows that this request replaced will not find them.
Commit(p) ==
  LET replaced == env[p].kind = "upsert" /\ ContentChanged(env[p], loaded[p])
      missing == {q \in Ingesters : replaced /\ stage[q] = "waiting"}
  IN
  /\ stage[p] = "archived"
  /\ doc' = docDraft /\ chunk' = chunkDraft /\ UNCHANGED drafts
  /\ versions' = versions \cup {env[p]}
  /\ lock' = [r \in Rows |-> None]
  /\ stage' = [q \in Ingesters |-> IF q = p THEN "idle"
                                   ELSE IF q \in missing THEN "missed" ELSE stage[q]]
  /\ env' = [env EXCEPT ![p] = None]
  /\ loaded' = [loaded EXCEPT ![p] = NoDocument]
  /\ UNCHANGED <<blobs, todo, sent, faults>>

-----------------------------------------------------------------------------
(* Failures                                                                *)

\* The except branch of the route: record_failure writes connector_status in a
\* second session while the first one is still open, then that one rolls back.
RecordFailure(p) ==
  /\ stage[p] = "failing" /\ lock["connector"] = None
  /\ Undo(p) /\ Leave(p)
  /\ UNCHANGED <<committed, blobs, sent, faults>>

\* The commit fails after the handler has returned.
CommitFails(p) ==
  /\ stage[p] = "archived" /\ Fault
  /\ Undo(p)
  /\ stage' = [stage EXCEPT ![p] = "cleanup"]
  /\ UNCHANGED <<committed, blobs, env, todo, loaded, sent>>

\* _on_rollback deletes the blob that this request has put.
DeleteBlob(p) ==
  /\ stage[p] = "cleanup"
  /\ blobs' = blobs \ {env[p]}
  /\ Leave(p)
  /\ UNCHANGED <<committed, drafts, lock, sent, faults>>

WaitsFor(p) ==
  IF stage[p] \in {"open", "waiting", "missed"} /\ todo[p] # <<>>
  THEN {lock[Head(todo[p])]} \ {None, p} ELSE {}

DeadlockVictim(p) ==
  /\ \E S \in SUBSET Ingesters :
       /\ p \in S
       /\ \A q \in S : /\ WaitsFor(q) # {} /\ WaitsFor(q) \subseteq S
                       /\ \E r \in S : q \in WaitsFor(r)
  /\ Undo(p) /\ Fail(p)
  /\ UNCHANGED <<committed, blobs, sent, faults>>

\* The API process dies: the database rolls back, the blob stays.
Crash(p) ==
  /\ stage[p] # "idle" /\ Fault
  /\ Undo(p) /\ Leave(p)
  /\ UNCHANGED <<committed, blobs, sent>>

-----------------------------------------------------------------------------
Init ==
  /\ doc = IF Known = None THEN NoDocument ELSE Upserted(NoDocument, Known)
  /\ chunk = IF Known = None THEN NoChunk ELSE Replaced(Known, NoDocument)
  /\ docDraft = doc /\ chunkDraft = chunk
  /\ versions = {Known} \ {None} /\ blobs = versions
  /\ lock = [r \in Rows |-> None]
  /\ stage = [p \in Ingesters |-> "idle"]
  /\ env = [p \in Ingesters |-> None]
  /\ todo = [p \in Ingesters |-> <<>>]
  /\ loaded = [p \in Ingesters |-> NoDocument]
  /\ sent = [e \in Envelopes |-> IF e = Known THEN 1 ELSE 0] /\ faults = 0

\* What the request does by itself once it has been received.
Step(p) ==
  \/ WriteConnector(p) \/ WriteDocument(p) \/ WaitForChunks(p) \/ WriteChunks(p)
  \/ Archive(p) \/ Commit(p) \/ RecordFailure(p) \/ DeleteBlob(p)
  \/ DeadlockVictim(p)

Next ==
  \E p \in Ingesters :
    \/ \E e \in Envelopes : Receive(p, e)
    \/ Step(p) \/ ArchiveRefused(p) \/ CommitFails(p) \/ Crash(p)

Spec == Init /\ [][Next]_vars

\* A request in progress keeps running, and a lock goes to each of those that
\* wait for it in turn.
FairSpec ==
  /\ Spec
  /\ \A p \in Ingesters :
       /\ WF_vars(Step(p))
       /\ SF_vars(WriteConnector(p)) /\ SF_vars(WriteDocument(p)) /\ SF_vars(WriteChunks(p))
       /\ SF_vars(RecordFailure(p))

-----------------------------------------------------------------------------
(* Properties                                                              *)

Newest(S, e) == e \in S /\ \A f \in S : f.time <= e.time
Accepted(kinds) == {e \in versions : e.kind \in kinds}

\* "Stale envelopes, detected by comparing event times, are rejected rather
\* than applied out of order": the content is that of the newest accepted upsert.
TextIsNewest ==
  \A e \in versions : Newest(Accepted({"upsert"}), e) =>
                        doc.time = e.time /\ doc.text = e.text

\* "Stale permission_change envelopes cannot reopen access after a newer ACL
\* restriction": the ACL is none that an older envelope than the newest
\* accepted permission change brought.
PermissionChangesInOrder ==
  \A e \in versions : Newest(Accepted({"permission"}), e) =>
    \E f \in Accepted({"upsert", "permission"}) : f.time >= e.time /\ f.acl = doc.acl

\* The same for every envelope that carries an ACL.
AclIsNewest ==
  \A e \in versions : Newest(Accepted({"upsert", "permission"}), e) => doc.acl = e.acl

\* Chunks are denormalised from the document: search finds a live document by
\* its own text under its own ACL, and finds nothing of a deleted one.
ChunksFollowDocument ==
  Exists(doc) => /\ chunk.live = ~doc.deleted
                 /\ ~doc.deleted => chunk.text = doc.text /\ chunk.acl = doc.acl

\* A document is deleted exactly when the newest envelope accepted says so.
NewestDecides ==
  \A e \in versions : Newest(Accepted({"upsert", "delete"}), e) =>
                        doc.deleted = (e.kind = "delete")

\* "Every committed document row has a matching archived envelope", and so has
\* every version row.
EveryDocumentArchived ==
  /\ Exists(doc) => doc.blob \in blobs
  /\ versions \subseteq blobs

\* A failed request whose second session waits for the row that its first holds.
BlocksItself(p) == stage[p] = "failing" /\ lock["connector"] = p

\* Whatever deadlocks, fails or dies, a request gets an answer, unless one that
\* blocks itself is in the way.
AnsweredUnlessBlocked ==
  \A p \in Ingesters :
    stage[p] # "idle" ~> stage[p] = "idle" \/ \E q \in Ingesters : BlocksItself(q)

\* A request always gets an answer: nobody waits for a lock for ever.
RequestsReturn == \A p \in Ingesters : stage[p] # "idle" ~> stage[p] = "idle"
=============================================================================
