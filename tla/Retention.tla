------------------------------ MODULE Retention ------------------------------
(***************************************************************************)
(* The retention purge against legal holds, ingest and identity merges.    *)
(* A purge is one transaction: it reads a batch of expired documents, asks *)
(* for the holds of each afresh, and erases.  What it erases in Postgres   *)
(* is seen at its commit, what it deletes in the object store at once.     *)
(***************************************************************************)
EXTENDS Naturals, FiniteSets

CONSTANTS
  Docs, People,
  SourceOf,     \* source system of a document
  Batch,        \* batch_limit
  None,
  MaxVersions   \* bound: accepted envelopes of one document

VARIABLES
  docs,    \* rows: text, expired (event_time before the cutoff), versions, and
           \* the people of its participants, as they are and as observed
  store,   \* archived blobs <<document, version>>
  holds,   \* active holds: scope and value
  purge,   \* the running transaction, or Off
  early    \* history: holds that cover a document since before the purge began

vars == <<docs, store, holds, purge, early>>

Off == [pc |-> "off", todo |-> {}, doc |-> None, erased |-> {}]
Scopes == [scope : {"doc"}, value : Docs]
            \cup [scope : {"source_system"}, value : {SourceOf[d] : d \in Docs}]
            \cup [scope : {"person"}, value : People]

\* One hold against one document and its participants.
Covers(h, d, people) ==
  \/ h.scope = "doc" /\ h.value = d
  \/ h.scope = "source_system" /\ h.value = SourceOf[d]
  \/ h.scope = "person" /\ h.value \in people
\* Mutant: only the holds that name the document.
HeldByName(d) == \E h \in holds : h.scope = "doc" /\ h.value = d
\* is_held.
Held(d) == \E h \in holds : Covers(h, d, docs[d].people)

\* The pairs of early that still hold after a step.
StillCovering ==
  early' = {p \in early : p[1] \in holds' /\ Covers(p[1], p[2], docs'[p[2]].people)}

Init ==
  /\ docs \in [Docs -> {[text |-> TRUE, expired |-> TRUE, versions |-> 1,
                         people |-> P, observed |-> P] : P \in {{p} : p \in People}}]
  /\ store = {<<d, 1>> : d \in Docs}
  /\ holds = {} /\ purge = Off /\ early = {}

-----------------------------------------------------------------------------
(* What goes on around a purge                                             *)

Place(h) ==
  /\ h \notin holds /\ holds' = holds \cup {h}
  /\ UNCHANGED <<docs, store, purge, early>>

Release(h) ==
  /\ h \in holds /\ holds' = holds \ {h}
  /\ UNCHANGED <<docs, store, purge>> /\ StillCovering

\* The row of a document that the purge has written is locked until it ends.
RowLocked(d) == d \in purge.erased /\ purge.doc # d

\* A new version: its envelope is archived and the participants are replaced.
Upsert(d, expired, P) ==
  LET n == docs[d].versions + 1
  IN  /\ n <= MaxVersions /\ ~RowLocked(d)
      /\ docs' = [docs EXCEPT ![d] = [text |-> TRUE, expired |-> expired, versions |-> n,
                                      people |-> P, observed |-> P]]
      /\ store' = store \cup {<<d, n>>}
      /\ UNCHANGED <<holds, purge>> /\ StillCovering

\* Person q is merged into p: participants follow (identity_merge).
Merge(p, q) ==
  /\ \E d \in Docs : q \in docs[d].people
  /\ docs' = [d \in Docs |-> [docs[d] EXCEPT !.people =
                IF q \in @ THEN (@ \ {q}) \cup {p} ELSE @]]
  /\ UNCHANGED <<store, holds, purge>> /\ StillCovering

-----------------------------------------------------------------------------
(* purge_expired                                                           *)

Expired == {d \in Docs : docs[d].expired /\ docs[d].text}

Begin(S) ==
  /\ purge.pc = "off" /\ S # {}
  /\ purge' = [Off EXCEPT !.pc = "next", !.todo = S]
  /\ early' = {x \in holds \X Docs : Covers(x[1], x[2], docs[x[2]].people)}
  /\ UNCHANGED <<docs, store, holds>>

\* The next document: is_held reads the holds and the participants of now.
Check(d) ==
  /\ purge.pc = "next" /\ d \in purge.todo
  /\ purge' = IF Held(d) THEN [purge EXCEPT !.todo = @ \ {d}, !.doc = None]
              ELSE [purge EXCEPT !.pc = "purge", !.todo = @ \ {d}, !.doc = d]
  /\ UNCHANGED <<docs, store, holds, early>>

\* _purge_document: the blobs of the versions it reads go at once.
Erase ==
  LET d == purge.doc
  IN  /\ purge.pc = "purge"
      /\ store' = store \ {<<d, n>> : n \in 1 .. docs[d].versions}
      /\ purge' = [purge EXCEPT !.pc = "next", !.erased = @ \cup {d}]
      /\ UNCHANGED <<docs, holds, early>>

\* The object store fails on a blob, some others having been deleted.
EraseHalf(S) ==
  /\ purge.pc = "purge" /\ S \subseteq store
  /\ \A b \in S : b[1] = purge.doc
  /\ store' = store \ S
  /\ purge' = Off /\ early' = {}
  /\ UNCHANGED <<docs, holds>>

Commit ==
  /\ purge.pc = "next" /\ purge.todo = {}
  /\ docs' = [d \in Docs |-> IF d \in purge.erased
                THEN [docs[d] EXCEPT !.text = FALSE, !.people = {}, !.observed = {}]
                ELSE docs[d]]
  /\ purge' = Off /\ early' = {}
  /\ UNCHANGED <<store, holds>>

\* The process dies, or the commit fails: everything but the blobs comes back.
Abort ==
  /\ purge.pc # "off" /\ purge' = Off /\ early' = {}
  /\ UNCHANGED <<docs, store, holds>>

Next ==
  \/ \E h \in Scopes : Place(h) \/ Release(h)
  \/ \E d \in Docs : Check(d) \/ \E e \in BOOLEAN, P \in SUBSET People : Upsert(d, e, P)
  \/ \E p, q \in People : p # q /\ Merge(p, q)
  \/ \E S \in SUBSET Expired : Cardinality(S) <= Batch
       /\ (Cardinality(S) = Batch \/ S = Expired) /\ Begin(S)
  \/ \E S \in SUBSET store : EraseHalf(S)
  \/ Erase \/ Commit \/ Abort

Spec == Init /\ [][Next]_vars

TypeOK ==
  /\ \A d \in Docs : docs[d].versions \in 1 .. MaxVersions /\ docs[d].people \subseteq People
  /\ store \subseteq Docs \X (1 .. MaxVersions) /\ holds \subseteq Scopes
  /\ purge.todo \cup purge.erased \subseteq Docs

-----------------------------------------------------------------------------
(* Properties of every step, but TextIsArchived, which is one of states      *)

\* What the transition destroys of document d: blobs or the text.
Destroys(d) ==
  \/ \E n \in 1 .. MaxVersions : <<d, n>> \in store \ store'
  \/ docs[d].text /\ ~docs'[d].text

\* A hold that has covered a document since before the purge began keeps its
\* text and its archive, whatever is placed, released, merged and ingested
\* meanwhile, and what is not erased with its text keeps its archive unless a
\* purge of it was cut short.
HeldIsKept ==
  \A d \in Docs : Destroys(d) =>
    /\ \A h \in holds : <<h, d>> \notin early
    /\ purge.pc # "off" /\ (d = purge.doc \/ d \in purge.erased)

\* A hold that is in force when something is destroyed, whenever it was placed.
HeldIsAlwaysKept == \A d \in Docs : Destroys(d) => ~Held(d)

\* A hold on a person covers the documents he was observed in.
ObservedIsKept ==
  \A d \in Docs : Destroys(d) /\ d = purge.doc =>
    ~\E h \in holds : h.scope = "person" /\ h.value \in docs[d].observed

\* A document with its text has its archived envelope.
TextIsArchived == \A d \in Docs : docs[d].text => <<d, docs[d].versions>> \in store

\* What a purge erases is expired.
FreshIsKept == \A d \in Docs : docs[d].text /\ ~docs'[d].text => docs[d].expired

\* A purge that erases nothing leaves nothing that is expired and not held.
PurgeMovesOn == Commit /\ purge.erased = {} => \A d \in Expired : Held(d)
=============================================================================
