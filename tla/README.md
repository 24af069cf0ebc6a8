# Verification of org-memory

This directory holds TLA+ models of org-memory, the TLC configurations that
check them on small instances, and TLAPS proofs of their safety properties for
every size of instance: the job queue and what it implements, the slots of
claims, ingest, vectors, identity, spend, extraction windows, retention,
proposals and memories. Everything is translated from the Python source under
`src/src/org_memory` (paths below are relative to it) and the Alembic schema.
`PROJECT.json` maps each definition to the lines it stands for.

- [The system](#the-system)
- [The modules](#the-modules)
- [The runs](#the-runs)
- [Fairness](#fairness)
- [What is proved](#what-is-proved)
- [Where the code departs from what it says](#where-the-code-departs-from-what-it-says)
- [What is not modelled](#what-is-not-modelled)
- [Plan](#plan)

## The system

Org-memory takes *envelopes* from connectors (a document's text, ACL, authors,
structured fields), stores them as documents and chunks, and lets workers
derive vectors, facts (claims and relationships), people, and proposals from
them. An HTTP API (FastAPI, several processes) and any number of worker
processes share one PostgreSQL database and one object store. **Everything they
say to each other goes through rows**: a request enqueues jobs in the
transaction that writes its data, workers claim them with `FOR UPDATE SKIP
LOCKED`. All transactions are READ COMMITTED; the SQLAlchemy session keeps what
it has read, writes only the columns that changed, and locks rows in the order
in which it flushes. That is where almost every hard behaviour of this system
comes from, so the models keep, for each table that is written by several
actors, the committed row, the uncommitted row of the lock holder, and the
holder.

| Component | State | Operations | Hard behaviour | Correct when | Modelled in |
|---|---|---|---|---|---|
| Job queue, worker loop (`db/repositories/jobs.py`, `job_dedupe.py`, `workers/run.py`) | `jobs`, partial unique indexes per job type | `enqueue` (search, lock, refresh, insert in a savepoint, second search), `claim_next`, `mark_done`, `mark_failed`, `process_one` | insert races, folding into a job that finishes, handler failure, worker death, deadlock over job rows | one runner per key; no request lost; every request ends; dead only when exhausted | `JobQueue` |
| Admin job routes | `jobs` | cancel, retry | check on an unlocked read | a closed job stays closed | `JobQueue` |
| Claims, exclusive slots (`graph/claims.py`, `evidence.py`, `temporality/eager_close.py`) | `claims`, `uq_claims_live_object` | `add_claim`, merge, eager close, retraction of evidence | two writers each counting their own snapshot, evidence written from a stale read, deadlock | one active value or a conflict on the list; superseded is final; no value without evidence | `FactSlot` |
| Structured fields, promotions, extraction, conflict worker | the same slot, `documents`, jobs | the callers of `add_claim` | transactions of different length: extraction commits its window before it counts | the same | `FactSlot` |
| Document ingest (`services/ingest.py`, `documents.py`, `versions.py`, `connectors.py`, `routes_ingress.py`) | `documents`, `chunks`, `document_versions`, `connector_status`, blobs | upsert, permission change, delete, failure recording, blob clean-up | late and repeated envelopes, column-wise overwrites, three lock orders, a second session, blobs outside the transaction | newest content and ACL win; chunks follow; everything committed is archived; every request is answered | `Documents` |
| Chunk vectors (`workers/handlers/embedding.py`, `replace_chunks`) | `chunks.embedding`, its job | carry-over, embed around a vendor call, retry | the text changes during the call | a vector is that of its text; no chunk is forgotten | `Embedding` |
| Identity (`entity_resolution.py`, `people.py`, `identity_merge.py`, `workers/handlers/identity.py`) | persons, aliases, participants, merge decisions, the claims about persons | observe, propose pairs, adjudicate around a model call, merge, split | a merge overtakes a request that waits for it; merges of merges; contradictions that arrive late | a person's rows stay together through merges and splits; nothing belongs to a merged person; nobody is merged with somebody a source tells apart; one value in force; every pair gets a verdict | `Identity` |
| Relationships, traversal (`graph/relationships.py`, `traversal.py`) | `relationships` | add or merge, exclusive close, count, resolve, recursive query | no unique index, evidence merged into an unlocked read, a limit over many paths | an edge with two targets is noticed; a walk finds what visible edges reach | `Paths` |
| Retention, legal hold (`services/retention.py`, `legal_hold.py`) | documents, blobs, holds | purge, hold, release | blobs deleted before the commit, holds and ages read once, merges of held persons | what has been held since the purge began keeps text and archive | `Retention` |
| Proposals, webhook (`taxonomy_proposals.py`, `proposals.py`) | `taxonomy_proposals`, the push job | generate, promote, decide, push, page | pages of 200, a proposal created during the push, decisions on unlocked reads | every announced proposal reaches the host; one pending row per slot | `Proposals` (its singleton job and further pass in full in `JobQueue`) |
| Token spend (`spend.py`) | `spend_ledger` | gate, record, reserve, finalize under an advisory lock | paid tokens refused, a crash between reserve and finalize, the turn of the month | the month never passes the limit; what is kept is booked | `Spend` |
| Procedural memory (`procedural_memory.py`) | `procedural_memories` | create and supersede by key, recall | two creations at once, permissions that change during the vendor calls | the last memory of a key is recalled by those who may see it | `Memory` |
| Extraction windows (`extraction.py`, `extraction_windows.py`) | `extraction_windows`, evidence | split, wipe, apply, skip, retry | edits, failures and crashes between windows, contents that return | a finished extraction cites the document for its present text and nothing else | `Windows` |
| Temporal reads (`temporality/*`, `facts_query.py`, `facts_diff.py`, `retrieve_context.py`) | none | ground, point reads on two clocks, difference, plan | supersession that rewrites times, coarse grains, two channels of one answer read in two statements | differences account for both ends; the channels never contradict each other | `Recall` |
| Retrieval (`retrieval.py`, `ranking.py`, packing) | none | fuse, decay, rerank, dedupe, pack | limits one after the other | what is dropped matters less than what is kept | `Retrieval` |
| Collaboration edges, worldbuilder | `collaboration_edges`, a synthesis cache | rebuild in one statement; compose | | | not modelled |
| Chunking (`chunking.py`) | none | text to sections and children | remainders, long paragraphs and words, overlaps that begin inside a word | no word is lost or only cut; only a word too long by itself makes a window grow | `Chunking` |
| Taxonomy, authentication, audit, health, adapters, settings, evaluation | configuration, append-only logs | | no protocol of its own | | not modelled |

**Interactions.** A request writes `documents`, `chunks`, `connector_status`,
the claims of its structured fields, and the rows of the jobs it enqueues, all
in one transaction; the job rows are therefore locks between requests and
workers. A worker's transaction spans claim, handler and outcome, with three
exceptions that the models keep: extraction commits its wipe and each window
separately and counts the slots afterwards; a failed ingest records its failure
from a second session; blobs and vendor calls are outside every transaction.

The 40 hazards in `PROJECT.json` are the places where such an interleaving, a
failure or a boundary could break one of the properties above, each at its
line, with the property that covers it or a note.

## The modules

Every protocol module has the same layout: constants with their assumption,
variables, `TypeOK`, helpers, actions in the order of the code, `Next`,
fairness, properties. `MC<module>` gives the instances, `<module>_proofs` has
the inductive invariants, the lemmas and the theorems. In a transactional
module `claims[i]`/`jobs[i]`/`doc` is the committed row, `draft` what the
lock holder has written, `holder`/`lock` the holder; a SELECT without a lock
reads `Seen(p, i)` (own writes, else committed), a `FOR UPDATE` or an UPDATE
is an action that is enabled when the row is free and looks at the row *then*,
and `StatementFails`/`DeadlockVictim` is enabled exactly when `WaitsFor`
closes a cycle. A rollback throws drafts away and frees locks.

The definitions with names like `FailedLate`, `RefreshUnchecked` or
`StalePermission`, each just before the one it resembles, are plausible bugs:
no specification uses them, and `PROJECT.json` ("mutants") says which property
breaks when one takes the place of its neighbour.

### JobQueue

A payload is its dedupe key (job type with document, slot or pair), time is
`due` (`run_after <= now()`), the age of a row is its identifier.

| Code | Model |
|---|---|
| `enqueue`: `_find_open_duplicate` | `FindDuplicate` (search), then `RefreshDuplicate` or `DuplicateGone` once the row lock is granted |
| `enqueue`: INSERT in a savepoint, IntegrityError, second search | `Insert`, `InsertConflict`, then `RefreshDuplicate`, or `RaceLost` when the rival has closed meanwhile (the exception ends the request or fails the job) |
| partial unique indexes `ux_jobs_*_open` | `Rivals`, over committed and uncommitted rows |
| `claim_next` | `Claim`: the oldest claimable row nobody holds; counts the attempt |
| `process_one` | `MarkDone`, then a further pass of a `Refire` key (`FindDuplicate` on its own key), then `CommitDone`; or `FailJob` (`mark_failed`, committed with everything the handler wrote); or `AbortedByDatabase` |
| handlers that enqueue | `Follow`, a key's follow-up keys, through the same enqueue steps |
| admin cancel, retry | `AdminLoad` (checks the status), then `AdminCancel`/`AdminRetry`/`AdminRefused` by primary key |

`fresh[k]` is a history variable: whether a request of key `k` has been
committed and not yet been settled. The heartbeat is left out because it does
nothing: it updates, from another session, a row whose committed status is
still pending, and its WHERE clause asks for running. The committed status is
never `running` (this is part of the proved invariant), which is why the row
lock, and not the lease, is what protects a job.

`KeyedWork` is what the queue promises, without rows, locks and attempts: a set
of keys that wait, the keys requested since their last run began, and who runs
a key. Its actions are `Request` (a set of keys, none of them being run by
another), `Take`, `Settle`, `GiveBack` and `Drop`. `JobQueue` maps to it with
`Waiting` (keys with an open committed row), `Asked` (`fresh[k] = "queued"`)
and `Runner` (the worker whose claimed row has the key); a commit is a
`Request`, a claim a `Take`, an outcome a `Settle` or `GiveBack`, a roll-back a
`GiveBack` or nothing, an admin cancel a `Drop`, and everything inside a
transaction is no step at all. `ImplementsKeyedWork` says so.

### FactSlot

One (subject, predicate) slot of a registry-exclusive predicate and all its
writers. Rows keep what ranking and lifecycle look at; the tie-breaks behind
precedence and evidence time (confidence, `updated_at`, identifier) are a free
choice.

| Code | Model |
|---|---|
| `add_claim`: same-value rows, lock, merge | `Search`, `MergeClaim`, `OwnRowGone` |
| `add_claim`: INSERT in a savepoint | `InsertClaim`, `InsertRaced`, `RaceLost` |
| `eager_close_claim_slot` | `OpenSlot` (which rows), `LockSlotRow` (row by row; a row that is no longer active is left out), `CloseSlot` |
| `..._and_enqueue_conflict` | `CountAndEnqueue` |
| structured writer, clear, promotion | `ApplyField`, `ClearField`/`ClearSlot`, `Promote`; all end in `CommitWrite` |
| `remove_document_evidence` | `ReadEvidence`, `RemoveEvidence` (writes what it computed from the read, over whatever the row has become), `RemovalRefused` |
| document delete | `BeginDelete` ... `CommitDelete` |
| `extract_for_document`, `handle_extract_graph` | `TakeExtraction`, `CommitWipe`, `BeginWindow` (the model's answer), `CommitWindow`, `FinishExtraction` |
| `handle_resolve_claim_conflict` | `BeginResolve`, `Reselect`, `CloseSlot`, `CommitResolve` |

Left out: the collapse of several live rows of one value (the unique index
keeps them from existing), the rule for private quotes, validity times beyond
open/closed, the model's verdict on predicates the registry does not know,
relationships (the same code with `to_id`), documents of several windows.

### Documents

One document. `text` stands for all content columns (title and authors
included), an envelope for its payload, hash, blob key and version row, `chunk`
for all chunk rows. `Plan` is the order in which the session comes to write
`document`, `chunks` and `connector_status`, which differs per envelope kind.
`Overwrite` is the flush: only columns that differ from what was read. A
statement that waits for chunk rows remembers them (`waiting`) and updates none
if they were replaced (`missed`). `Archive`/`ArchiveRefused`, `CommitFails`/
`DeleteBlob` and `RecordFailure` are the object store, the roll-back listener
and the second session. Participants and structured fields are left to the
other modules, a commit whose outcome is unknown is left out.

### Embedding

One document as a sequence of sections, one chunk each, its id the position. A
vector is the section it was computed from. The job row is locked from `Claim`
to the end of the job; an ingest that has a missing vector waits for it
(`EnqueueEmbed`), one that carries every vector over does not. `Recheck`
compares the objects the session already holds, so only a vanished chunk is
noticed. Writers of the document take turns here; `Documents` has their races.

### Identity

Persons are numbered as they are created. `alias` has the rows of
`person_aliases` by source key, with the owner (`person_id`) and the person for
whom the row was observed, which merges leave alone; `parts` and `claims` carry
the same two columns. `pairs` and `refresh` are the open jobs, `work` the pair a
worker asks the model about while it holds both `persons` rows, `decisions` the
verdicts with the evidence they were given on.

| Code | Action |
|---|---|
| `observe_identity`: `_deterministic_match` | `Match` |
| ... `_add_aliases`, reconciliation with its `split_person`, the participant, the structured field, the commit | `Observe`; `Recognise` and `Attach` when no alias is new |
| promotion about a person | `CheckSubject`, `Promote` |
| `refresh_identity_embedding` | `RefreshIdentity` |
| `handle_adjudicate_persons` | `Skip`, `DecideAlone`, `Ask`, `Decline`, `Merge` |
| `uq_claims_live_object` refuses the merge; the model call fails or the worker dies | `MergeClash`, `CallFails` |
| an ingest or a promotion is rolled back | `Abort` |

What a request reads (`Match`, `CheckSubject`) and what it writes are apart,
because the write waits for an adjudication (`Locked`) and the person is not
read again. `overtaken` is a history variable: the persons that were merged
while a request had read them. Abstractions: everybody has one name, so that
every pair becomes a candidate and a shared verified address decides whether
the model is asked; a source never changes an address it has reported, so there
are no historical rows of addresses alone; the claims are one exclusive
predicate whose ranking is left open (`FactSlot` has it). Left out:
relationships (moved as claims are), the deadlock between an alias row and a
`persons` row, the search by name in extraction.

### The read side

Reads change no state, so their modules are operators over rows, and a small
state machine that produces every row set (or list, or text) within the bounds.
`Reads` composes `Recall` with `Retrieval`, `Chunking` and two instances of
`Paths`, one to walk and one whose edges are written concurrently: the parts
share no state, so a behaviour belongs to the part it begins with, and the
variables of the others stay as they are. `MCRecall` gives `Recall` its instance,
`MCReads` the other parts theirs. `MCPaths` is for `PathsDepartures` only.
`ReadsTypeOK` is there to be added to the cfg.

**Recall** has one subject's claims on both clocks. Writes are serial here
(their races are `FactSlot`'s) but keep what `FactSlot` leaves out: times.
An instant is a number, a calendar bucket a run of instants.

| Code | Model |
|---|---|
| `ground_fact_times` | `Grounded` |
| `add_claim`, `merge_temporal_fields`, `eager_close_claim_slot`, `supersede_claim` | `Stored`, `SlotClosed`, in `Apply` |
| `remove_document_evidence` | `Delete` |
| `resolve_validity_query_point`, `belief_as_of_sql`, grain overlap, `claims_for_viewer` | `Ask`, `Matches`, `Believed`, `ClaimsForViewer` |
| `query_subject_facts`: rows the registry knows, cut to the limit | `QueryFacts`, `StructuredFacts` |
| `fact_candidates`: keywords, evidence filters, `LIMIT` | `HasWords`, `WithWords`, `FactCandidates`, `SearchFacts` |
| `diff_subject_facts`, `diff.py` | `DiffBelieved`, `DiffFacts`, `Paired` |
| `plan_temporal_query`, `plan_from_llm_payload`, the clocks and filters of `retrieve_context` | `Plan`, `PlanFromLlm`, `Clocks`, `PassageFilter` |

`log` is a history variable: what a current read reported at each instant.
`DiffHonest` compares a difference of two belief reads with it, under the
condition that nothing was revised in between (`Unrevised`, `Settled`): without
that condition the code does not replay the past (`BeliefAlwaysReplays`). The
planner's regular expressions are cues; calendar arithmetic is a bucket size.

The two fact channels of an answer differ in more than their documents. The
search wants every word of the question in a claim, passes the host's filters
(source, author, persons and documents spoken of: the documents of `Scopes`) and
those of a range, does not ask the registry, and keeps `SearchLimit` rows; the
structured facts are what the registry knows (`Registries`), cut to `Limit`. Which
rows a cut keeps is left open, so every order of scores and of freshness is
covered. And they are two statements: a document may be committed between them.
So one channel may well lack what the other reports (`ChannelsEqual` is violated
by a range alone); what must not happen is that they contradict each other.
`ChannelsAgree` states it of every step, as a write between the two reads, in
either order of the reads: together they report no two values of an exclusive
predicate, about a past belief unless the write revises something, about now if
it changes no claim. A write that changes the claims between the reads of a
question about now may make them contradict each other, each with what was
committed when it was read; questions about a world point are left to
`OneValueAtAPoint`, whose conditions they need.

**Retrieval**: three ranked channels, `rrf_fuse`, decay, the shortlist, rerank
with arbitrary vendor scores, one passage per section, then
`_apply_token_budget` in the order of the mode. Fractions are kept whole by a
common multiple of their denominators; what is shortlisted and answered is a set
of items, whose order is that of their scores.

**Chunking** is `chunk_document` over tokens. A paragraph is a sequence of tokens,
some of which begin a word (`WordStarts`), so a word may have as many tokens as it
likes: `WrapWord` takes one that does not fit whole, into a piece beyond the
maximum (`chunking.py:84`, `89`), and `LastTokens` takes the last tokens of a
piece or of a window wherever they begin, inside a word, too, or at the blank line
between two paragraphs, which `strip` removes. `NothingLost` asks for what is
true of that: the sections, one after the other, are the text; every word is whole
in a section and every word of a section whole in a child of it, in a run of
tokens as the section has it; and no window is larger than its maximum, or a longer
word with its overlap, and the overlap before it. The tokenizer is an assumption:
the tokens of a text are those of its words, so tokens that the real one joins at
a seam, or reads differently in a word that was cut, are not modelled.

**Paths** is `add_relationship`, `eager_close_relationship_slot`
and the recursive query of `paths_from`, as a set of walks and every cut that
`ORDER BY depth, relationship_id LIMIT n` allows.

| Code | Model (`Paths`) |
|---|---|
| `find_relationship` (no lock, no index behind it) | `Find` |
| `add_relationship`, with the evidence as read | `Add` |
| `eager_close_relationship_slot` | `Close` |
| commit of the window; the handler's count afterwards | `Commit`; `Check` |
| `handle_resolve_relationship_conflict`, `remove_document_evidence` | `Resolve`, `Delete` |

### What runs beside ingest: Upkeep

`Upkeep` composes five components that share no rows with each other, with the
constants of all of them as its own; again a behaviour belongs to one part.
`MCUpkeep` gives the values.

**Spend**: every use of the ledger is a transaction under the advisory lock that
sums the current month (`Enter`, `Gate`) and refuses or writes (`Book`), around
the vendor's `Call`. The kinds of callers differ in what they do first: nothing
(`plain`), a gate (`window`, whose record is part of the window's transaction),
a reservation (`embed`). `Unusable`, `Crash`, `Retry` and `NewMonth` come in
between.

**Windows**: `split_windows` paragraph by paragraph (`Filled`, a recursive
function, as is the sum `Booked` of the ledger) and `extract_for_document`
around it.
`Begin` wipes when no window of this content is applied, `Window` takes an
arbitrary answer of the model and keeps what the window quotes, `Fail` and
`Crash` leave the applied windows, `Edit` changes the text between runs (the job
row makes an ingest wait). `FactsOfText` says that what is cited at the end is
exactly what the windows found, and that they have shown every word.

**Retention**: a purge reads a batch (`Begin`), checks each document (`Check`),
deletes its blobs at once (`Erase`, or some of them: `EraseHalf`) and clears the
rows at its commit. `Place`, `Release`, `Upsert` and `Merge` (of persons) come
at any time. `early` is a history variable: the holds that have covered a
document since before the purge began.

**Proposals**: `Generate` and `Promote` look, `Enqueue` takes the row of the
singleton push job, `Commit` writes against what was seen (`Clash` is the unique
index), the push loads a page, posts it and lists again. `DecideLook` and
`DecideWrite` are the two halves of a decision.

**Memory**: `Start` checks access, `Insert` looks for what it supersedes,
`Commit` writes, `Permit` changes who sees what. The instance has one key: the
search filters by key and creator alike.

## The runs

All bounds are constants checked in guards (`MaxTxns`, `MaxJobs`, ...): an
instance comes to a stop when its writes, faults or edits are used up, so every
configuration says `CHECK_DEADLOCK FALSE`. Deadlocks *of the system* are
cycles of waiting transactions, which are explicit in the models.

| Run | Instance | Shows |
|---|---|---|
| `JobQueueFaults` | 2 workers, 2 producers, 2 transactions, 2 keys (one feeds the other, which is debounced and may ask for one more pass), 2 attempts, one crash, one admin operation; the handler of the first key aborts its database transaction every time. 156,445 states | `OneRunnerPerKey`, `NoLostRequest`, `DeadOnlyWhenExhausted`, `ImplementsKeyedWork`: the safety of the queue with every failure it knows. |
| `JobQueueLive` | 1 worker, 2 producers, 2 transactions, 2 attempts, 8 rows (never exhausted). 101,710 states | `RequestsSettle`, `RequestsReturn`: every request is served or dead-lettered and every enqueuing transaction ends, through retries, lost insert races and deadlocks; and `IInv`, the inductive invariant of the proofs. |
| `FactSlotExtract` | 2 extraction workers, the conflict worker, 3 documents, 2 values, one crash. 164,132 states | `ConflictNoticed`, `SupersededIsFinal`, `ConflictsAreResolved`: extractions that activate different values at the same time leave a conflict job or an extraction that has yet to count, and one value in the end. |
| `FactSlotRequests` | 2 ingests that set the field, one delete at a time, 5 requests, 3 documents, 2 values. 545,029 states | `TypeOK`, `ActiveIsBacked`: between transactions no active value stands on deleted documents alone. |
| `FactSlotMixed` | a writer of every kind, a delete, an extraction and the conflict worker at once. 386,548 states | `SupersededByStronger`: whatever interleaves, a value is superseded only by one that is in force and ranks at least as high, so extraction never displaces what people or systems of record said. |
| `DocumentsSerial` | 1 request at a time, a history of 6 envelopes in every order of arrival, each up to twice. 53,952 states | `TextIsNewest`, `PermissionChangesInOrder`, `ChunksFollowDocument`: late and repeated envelopes never undo newer content or permissions, and search sees what the document says. |
| `DocumentsArchive` | 2 concurrent requests, 4 envelopes of all three kinds (a deletion and a revival among them), each once, 2 faults. 7,144 states | `EveryDocumentArchived`: refused blobs, failed commits and crashes never leave a committed row without its envelope. `AnsweredUnlessBlocked`: although the lock orders deadlock, every request gets an answer, unless a failed one blocks itself. |
| `EmbeddingInPlace` | 4 texts (a section edited in place, one appended and dropped), 4 edits or deletes, the code's 5 attempts, 1 fault. 6,908 states | `VectorMatchesText`, `NothingForgotten`, `EverythingEmbedded`: no chunk has the vector of another text, a missing vector always has a job, and comes. |
| `Identity` | 2 ingests, up to 3 persons and 3 source keys (two of one source) with one address, 4 requests, 1 failed call. 221,847 states | `OwnersAreRoots`, `RowsStayTogether`, `NoConflictInside`: merges, merges of merges and splits move every row with its person, except those of a request that a merge overtook. |
| `IdentityFacts` | 1 ingest, 1 promotion, 2 persons, 2 values, 4 requests, 1 failed call. 135,146 states | `ValueInForce`, `PairsSettle`: merging two persons who each have a value leaves one in force, and every candidate pair gets a verdict unless equal values block a merge. |
| `Reads` | five parts side by side: 3 documents with 3 values, 2 of them exclusive, arriving up to an instant late, with grains, proposals, ends, deletes, 2 wordings, 2 registries, 2 filters, limits of 2 facts and of 1 found by a search (`Recall`); 3 chunks and a fact in 3 channels (`Retrieval`); texts of up to 3 paragraphs of up to 5 words of up to 9 tokens, with maxima of 8 and 5 (`Chunking`); walks of one viewer over 3 rows of 4 edges, with one extraction (`Paths`); 2 rows of these edges with 2 extractions (`Paths` again). 611,577 states | `DiffHonest`, `BeliefReplays`, `OneValueAtAPoint`, `ChannelsAgree`, `BestKept`, `NothingLost`, `PathsHonest`, `OneTarget`: see [the read side](#the-read-side). |
| `Upkeep` | five parts side by side: 3 calls near the limit over 2 months, 2 tries (`Spend`); 3 contents of up to 3 windows, 3 edits, 2 attempts (`Windows`); 1 document, 2 persons, every kind of hold, 2 versions (`Retention`); 3 claims of 2 slots, worker and agent, 2 rows (`Proposals`); 2 creations at a time by 2 agents, 3 memories (`Memory`). 3,278,973 states | `TypeOK`, `WithinLimit`, `FactsOfText`, `HeldIsKept`, `NothingUntold`, `LastIsRecalled`: see [what runs beside ingest](#what-runs-beside-ingest-upkeep). |

Why these bounds: two workers and two producers give every pair that can
contend for a row (worker–worker, worker–request, request–request); a third
adds only longer cycles. Two attempts
separate a retry from the last attempt. Two values and three documents let a
value gain a second supporting document (which changes its rank) while another
competes. Two accounts of one source and one of another are what a late
contradiction needs, and a third person what a merge of a merge needs. Three
memories let a creation supersede a row that another has superseded meanwhile.
Every action of every module fires in these runs.

What a smaller instance hides: liveness of the queue is checked with one worker
(with two workers *and* two attempts TLC needs more than five minutes);
safety is checked with two and proved for any number. `FactSlotExtract` has no
writers and no deletes because with them the properties fail (see
[below](#where-the-code-departs-from-what-it-says)); the same holds for concurrency in `DocumentsSerial`.
The hypotheses of the theorems say the same of instances of every size.

## Fairness

`JobQueue`: workers poll for ever and a handler or a request that has begun
goes on (weak fairness of each process; `Commit`, `Abort` and failure are all
continuations, so nothing is assumed about which), time passes (`BecomeDue`),
and an admin request that has loaded its row finishes. Strong fairness only for
a lock or index wait (`LockGranted`): PostgreSQL queues those who wait for a
row. Nothing is assumed about crashes or about anybody starting a request.

`FactSlot`: the same for requests, extraction and conflict workers. Strong
fairness of `LockGranted` and of `LockSlotRow`: a lock that is free again and
again is not withheld for ever, and two closers that deadlock on the slot do
not meet in the same order for ever: after a deadlock the victim's job is put
back and claimed at another moment. Without that assumption the code does
promise no more than a retry.

`Documents`: a request keeps running, each of its lock waits is granted in turn.
`AnsweredUnlessBlocked` excepts the request whose failure is recorded behind its
own lock: no fairness can free that one.
`Embedding`: the worker polls, requests end, PostgreSQL breaks deadlocks, and
the job row goes both to the request and to the worker that want it.
`Identity`: the model answers or fails, refresh jobs are run, and a worker that
waits for the rows of a pair gets them in its turn (strong fairness per pair).
Liveness
also rests on the bounds: an endless stream of refreshes does postpone a
debounced job for ever (`jobs.py:73`).

## What is proved

Each theorem is about any processes, rows, keys, texts and bounds, from the
assumption on the constants that its module names (`QueueAssumption`,
`SlotAssumption`, ...): that processes of different kinds are different, that
bounds are natural numbers, what the constants are functions of. TLC evaluates
those assumptions on every run. Where a property needs more, the theorem has a
hypothesis, and the configuration in the last column is the counterexample
without it.

The type invariants of `Documents`, `Embedding`, `Identity` and `Paths` are
proved and in no run; every other property below is also checked by one
(`TargetsNoticed` and `WalksHonest` are about `Paths` by itself, `EdgesNoticed`
and `WalksReachAll` about its instances in `Reads`, which the run checks under
the same names).

| Module | Theorem | States | Hypothesis | Without it |
|---|---|---|---|---|
| `JobQueue_proofs` | `Invariance` | `IInv` | | |
| | `OneRunner` | `OneRunnerPerKey` | | |
| | `RequestsBacked` | `NoLostRequest` | | |
| | `DeadExhausted` | `DeadOnlyWhenExhausted` | | |
| | `Implementation` | `ImplementsKeyedWork` | | |
| `FactSlot_proofs` | `TypeCorrect` | `TypeOK` | | |
| | `Supersession` | `SupersededByStronger` | | |
| | `Finality` | `SupersededIsFinal` | `DocumentsStay`: nothing is deleted, and extraction finds nothing to wipe | `FactSlotRaces` |
| | `Backing` | `ActiveIsBacked` | `OneDeleter`: one delete at a time, no extraction, fields are never cleared | `FactSlotRaces`, `FactSlotClearedEvidence`, `FactSlotLateExtract` |
| | `Noticed` | `ConflictNoticed` | `ExtractionAlone`: values become active by extraction only | `FactSlotRaces` |
| `Documents_proofs` | `TypeCorrect` | `TypeOK` | | |
| | `Archived` | `EveryDocumentArchived` | `SentOnce`: an envelope is delivered once | `DocumentsDepartures` |
| | `ChunksFollow` | `ChunksFollowDocument` | `OneAtATime`: requests take turns | `DocumentsDepartures` |
| | `PermissionsInOrder` | `PermissionChangesInOrder` | `OneAtATime` | |
| | `NewestText` | `TextIsNewest` | `OneAtATime`, `UpsertsOrdered`: no two upserts of one time | `DocumentsDepartures` |
| `Embedding_proofs` | `TypeCorrect` | `TypeOK` | | |
| | `NeverForgotten` | `NothingForgotten` | | |
| | `VectorsMatch` | `VectorMatchesText` | `SectionsStay`: a text that says nothing new keeps its sections where they were | `EmbeddingShift` |
| `Identity_proofs` | `TypeCorrect` | `TypeOK` | | |
| | `Owners` | `OwnersAreRoots` | | |
| | `NoConflict` | `NoConflictInside` | | |
| | `Together` | `RowsStayTogether` | `NoPromotions` | `IdentityChain` |
| | `OneValue` | `ValueInForce` | | |
| `Upkeep_proofs` | `TypeCorrect` | `TypeOK` | | |
| | `Limited` | `WithinLimit` | | |
| | `TextFollowed` | `FactsOfText` | | |
| | `HeldKept` | `HeldIsKept` | | |
| | `Announced` | `NothingUntold` | a page takes a row of every slot | `UpkeepDepartures` |
| | `Recalled` | `LastIsRecalled` | | |
| `Paths_proofs` | `TypeCorrect` | `TypeOK` | `Proper`: no edge is the blank link, `MaxRows` is a natural number | |
| | `TargetsNoticed` | `OneTarget` | `Proper` | |
| | `WalksHonest` | `PathsHonest` | `Proper`, limits are natural numbers | |
| `Reads_proofs` | `Replays` | `BeliefReplays` | `Proper`: periods have a length, nothing is dated after its document | see **Recall** |
| | `OneValue` | `OneValueAtAPoint` | `Proper` | `RecallDepartures` for the conditions in the property |
| | `Channels` | `ChannelsAgree` | `Proper` | |
| | `Differences` | `DiffHonest` | `Proper` | see **Recall** |
| | `BestAnswers` | `BestKept` | `Rankable`: items and scores are numbers, decays and limits positive, `Scale` a common multiple of the ranks' denominators | |
| | `NothingIsLost` | `NothingLost` | `Legible`: targets up to the maxima, no paragraph repeats a run of a target's length at once | `ReadsRepeats` |
| | `EdgesNoticed` | `OneTarget` | as `TargetsNoticed` | |
| | `WalksReachAll` | `PathsHonest` | as `WalksHonest` | |
| | `ReadsRecall` | `Reads` implements `Recall` | | |

Several of these properties carry the exceptions the code needs in their own
statement (requests that a merge overtook, contents that return, facts that a
structured field states too); the properties without them are in the next
section.

Each proof goes through an inductive invariant: the property alone is not
inductive, because it does not say who holds which row and what an unfinished
transaction has read.

**JobQueue.** `IInv` adds what the code relies on without saying so:

- `RowInv`: a row nobody holds has no uncommitted version, keys never change,
  and `running` is never committed (so a claim always starts from `pending`);
- `AttemptInv`: a pending row, committed or not, has an attempt left, a dead
  one has none;
- `HolderInv`: a worker holds the row it runs, whose committed status is still
  pending; every other row a process holds is pending and of a key it has
  requested;
- `SearchInv`: the row an enqueue waits for has the key it enqueues, which is
  the worker's own key only once its job is marked done;
- `UniqueInv`: the partial unique index over committed *and* uncommitted rows,
  across both: this is what makes the row lock a lock on the key;
- `RequestInv`: what a transaction has requested is a pending row it holds;
- `AdminInv`, and `NoLostRequest` itself.

`OneRunnerPerKey` follows from `UniqueInv`, because two workers on
one key would hold two rows of that key that are open in the committed table
(`HolderInv`). `NoLostRequest` needs that a refresh happens under the row lock
and re-checks the status, that `mark_done` is only published with its further
pass, and that a roll-back leaves the committed row pending.

The refinement uses `IInv` on both sides of a step. `RunnerChar` says that the
`CHOOSE` in `Runner` has exactly one candidate (from `OneRunnerPerKey`),
`RequestsFree` that nobody but the requester runs a key it has requested (from
`RequestInv` and `UniqueInv`), `Published` what a commit does to the waiting
keys, `RunEnds` and `RollbackWork` what the end of a transaction does to the
runner; then one lemma for each action that is a step of `KeyedWork`
(`CommitWork`, `ClaimWork`, `FailJobWork`, ...), and `Stutter` for the rest.

**FactSlot.** `IInv` says who holds which claim and what its draft may differ
in, that a value has one live row over committed and uncommitted rows, and what
a closer has read of the slot. `Supersession` follows a winner from the choice,
among rows the closer holds, to the commit. `Backing` adds that a writer holds
the document it cites, so that a delete, which has read the claims without a
lock, misses none. `Noticed` adds that an extraction which has applied its
window counts before it ends, and that a conflict worker keeps the job until it
has closed one of any two values whose extractions have all counted.

**Documents.** `IInv` has the plan of each request (what it will still write),
its drafts, and the existence of the rows they are drafts of. `Archived` needs
that the blob is put before the first row, and that only the request which put
it deletes it. Where requests take turns, `SerialOf` relates what a request has
read to what is still committed.

**Embedding.** `WorkInv`: what is missing a vector now was missing when the
worker read the rows, because an ingest that adds a chunk without one waits for
the job row, which the worker holds.

**Identity.** `WorkInv` (a worker holds the two roots of its pair), `RootInv`
(rows of merged persons came by overtaken requests), `HomeInv` (who was observed
as one person is at home with one owner). `OneValue` follows values through the
moves of merges and the return of splits.

**Upkeep.** `SpendInv`: whoever is between reading and writing holds the lock,
and the sum it has read is not below the real one, so nobody else can have
booked. The sum is a recursive function of the ledger; that a row adds its
tokens to its month (`BookedAppend`, `BookedChange`) is proved by induction on
the rows. `WindowsInv`: windows are applied of contents the document has had,
and the document is cited for what was applied of the present one, unless its
extraction has not begun; that the windows of a text say what it says
(`SplitHolds`) is proved by induction on the paragraphs. `RetentionInv`: what a
purge has condemned is under no hold older than itself. `ProposalsInv` and
`Told`: a writer that announces holds the push job, a slot has one pending row,
and when no push is queued everything announced was on a page. `MemoryInv`: a
superseded memory leads to a later one of its key and creator.

**Paths.** `IInv` follows the rows an extraction has locked: its own version of
a row is new, closed, unchanged, or has only its own document added; a row it
has merged into and left active has no rival but rows of its slot that it knows
of, that are on the list of the conflict job, or whose extractions have yet to
count; and of two extractions that merged into rivals, one will find the other's
row and close it or ask for the job. `TargetsNoticed` is about concurrent windows
and conflict jobs; a delete comes between windows, as in the model.
`WalksHonest` is about any rows: a walk without a repeated node has a length, and
its beginnings are walks, so every node within reach is the end of one
(induction on the depth); a cut at the limit leaves out only walks at least as
long as those it keeps.

**Recall.** `RowsOK` ties the two clocks of a row to its status and its evidence:
an active row is not invalidated, a superseded one was invalidated before now,
a row begins no later than it was recorded, and while nothing is deleted a
proposal still has the unsure document it began with and an end was stated by
one of its documents. `OneActive`: a slot has one active row after each step.
From these `History` shows that in a history without revisions a row of the
table either stays, takes more evidence with its status and its begin, or loses
to the *new* row, which begins after every settled instant (`PastStays`).
`BeliefReplays` is then itself inductive, and so is `KnownOnce`: of two rivals
one at most was known at a past instant, because rows keep their place there, and
at the instant of a step because one is active. A step that revises nothing adds
nothing to what was known (`StepPast`), so what the two channels of an answer find
before and after it is among the rows known then: `Channels`, which needs no
`Settled`. And both
snapshots of a difference have at most one row of an exclusive predicate, which
is what makes its pairing by rank one change (`OneChange`). Proving showed two
conditions that the small instance hides: `DiffHonest` is about answers the
limit did not cut (`Whole`), and counts the changes of each predicate, not of
all. For `OneValue` the rows of a slot are
`Apart`: of two, one has ended when the later begins, because a superseded row
ends where a row begins (`EndsAtStart`) and the open one is the last. The proof
needs that a fact is not dated after its document: a row of a coarse grain with
a later begin can be moved by a merge with a finer grain (`MergeKeepsWindow`),
and a read of the time before its document then forgets it.
Proving showed `OneValueAtAPoint` to be too strong as it stood: with four
documents a proposal in the middle of the table becomes active, closes a later
row and leaves two values at one point; the condition `Unrevised`, which
`BeliefReplays` has, excludes it (`OneValueAtAnyPoint` is without either).

**Retrieval.** `SearchInv`: an answer is what some final list of the lists gives,
a packed payload what trimming a payload of the answer's size gives. An item that
leads another in every channel fuses to no less (`BestKept` compares sums term by
term), so the shortlist, which takes the best, has it if it has the other; and a
trim reaches a block only after those before it in the mode's order are empty.

**Chunking.** `HardWrap` and `Packed` are recursive functions of how many tokens
or pieces have been read, so each has an invariant of its steps (`TokensRead`,
with `Reached` for the words read, and `PackedSoFar`): the pieces so far are runs
of the paragraph, each within the maximum or a long word with its overlap, every
span of tokens without the start of a word is whole in one of them or in the piece
under way (`Covers`), and without overlap pieces and current piece are the tokens
read. A cut at a word's end is the point: an overlap may begin anywhere (`At`
counts tokens), but a piece ends where a word does (`Edge`), so what an overlap
cuts off is whole in the piece before. At the end `Divides` and `WindowsOf` say
the same of the whole, and `ChunksKeep` composes the two levels, since an echo in
a piece is an echo in its paragraph (`RunOfRun`). `Bounded` follows from the longest
word (`LongestIs`) and from what an overlap adds (`Slack`). Nothing is assumed about
the lengths of words, and the overlap may be larger than the maximum. Here the
proof found what distinct words hide: `_hard_wrap_tokens` drops a remainder that
equals the piece before it, even if it is a later part of the text, so a paragraph
that says a long piece twice loses the second (`ReadsRepeats`). `Legible` excludes
such repetitions only where the piece is full, that is of a target's length or
shorter by a word that did not fit (`Echoes`); the code's own sizes (800/1200,
200/40/320) satisfy the rest of it.

**Reads.** A behaviour of the composition stays with its part (`OnePart`), so the
theorems of a part hold of it: those of `Recall` through `ReadsRecall`, those of
`Paths_proofs` through its two instances, whose definitions are the same operators
once expanded (`EdgesNext`, `WalksSame`).

Induction over data is done through sets: the library's theorem `WFMin` on well
founded relations has no operator for a parameter, so `NatInductive` states
induction for membership in a set, and the existence of a recursive function is
proved with it before its defining equation is used.

Only model-checked: everything temporal with fairness (`RequestsSettle`,
`RequestsReturn`, `AnsweredUnlessBlocked`, `ConflictsAreResolved`,
`EverythingEmbedded`, `PairsSettle`), which is out of the prover's reach. Every
invariant and every other action property the runs check is a theorem.
`Reads` and `Upkeep` state safety only and assume no fairness.

## Where the code departs from what it says

Each has a configuration that shows it: run `MC<module>` with it. They are not
among the runs. Some list several properties; every one of them is violated, so
check them one at a time.
`PROJECT.json` quotes the sentence each one contradicts.

| Configuration | Violates | What happens |
|---|---|---|
| `JobQueueDepartures` | `RequestsSettle` | A database error in a handler aborts the transaction `mark_failed` would write in: the attempt is never counted and each retry ends the worker. |
| | `DoneIsFinal` | An admin cancel overwrites `done`. |
| `FactSlotRaces` | `ConflictNoticed` | Two promotions count their own snapshots before either commits: two active values, no conflict job. |
| | `SupersededIsFinal` | A delete writes `retracted` over `superseded`. |
| | `ActiveIsBacked` | Two deletes overwrite each other's evidence list. |
| `FactSlotClearedEvidence` | `ActiveIsBacked` | A cleared claim keeps the evidence of a document deleted meanwhile; set again, it outlives its last living document. |
| | `ActiveIsCurrent` | A cleared field that is set again is active with a closed window. |
| `FactSlotLateExtract` | `ActiveIsBacked` | A document deleted during the model call still backs the facts of its window. |
| `DocumentsDepartures` | `TextIsNewest` | Two upserts pass the stale check on one old row; the older is written last. |
| | `ChunksFollowDocument` | An upsert that confirms the ACL it has read sets it on the chunks, not on the document, over a permission change committed meanwhile. |
| | `AclIsNewest` | An upsert that repeats the ACL does not advance `acl_event_time`. |
| | `NewestDecides` | A delete is never stale. |
| | `EveryDocumentArchived` | A failed redelivery deletes the blob of the first delivery. |
| | `RequestsReturn` | A request refused after its flush of `connector_status` waits in a second session for its own row. |
| `EmbeddingShift` | `VectorMatchesText` | A section inserted at the front during the vendor call gets its neighbour's vector. |
| `IdentityDepartures` | `EveryOwnerIsRoot` | A document is attributed to a person who was merged while the ingest waited. |
| | `EveryPairSettles` | Two persons with the same active value cannot be merged; the job fails for ever. |
| | `ValueAlwaysInForce` | A split does not revive the value that the merge had superseded. |
| | `KeysAgree` | An actor whose key and identifier belong to two persons cannot be ingested. |
| `IdentityChain` | `ComponentsAgree` | After C was merged into B and B into A, a key of A that contradicts C splits nothing. |
| | `RowsStayTogether` | ... C is a root again without its rows, and a fact promoted about C afterwards belongs to C while the rows observed for C stay with A. |
| `RecallDepartures` | `BeliefAlwaysReplays` | A claim that was only proposed at t, or got another end since, makes a belief read at t differ from what was reported at t. |
| | `NeverReopened` | Superseding a fact that ended on a known day lengthens its window. |
| | `StaysReadable` | A fact superseded by one that began earlier has an empty window: no as-of read returns it. |
| | `OneValueAtAnyPoint` | Coarse grains and facts recorded out of order leave two values of an exclusive predicate at one point. |
| | `MergeKeepsWindow` | A merge takes the finer grain without its date: the window moves. |
| | `ChannelsEqual` | A range filters the search by the event times of the evidence, not the structured facts: a fact that has every word asked for is found by one channel only. |
| | `AxisHonoured` | A model's world plan with an end and no start is answered as of now. |
| `ReadsRepeats` | `NothingLost` | A paragraph that says one piece twice over loses the second: a remainder equal to the piece before it is dropped. |
| `PathsDepartures` | `NoTwinEdges` | Two extractions insert the same edge. |
| | `EvidenceKept` | Two documents merged into one edge at once: one is lost. |
| `UpkeepDepartures` | `EveryMonthWithinLimit` | A reservation finalized after the turn of the month is measured against the wrong month. |
| | `KeptIsRecorded` | Vectors are kept although the final accounting was refused. |
| | `HardStop` | Calls that passed the gate together are made in a month that is full. |
| | `FactsOfReturningText` | A text that comes back is not extracted again. |
| | `FactsOfSharedText` | Evidence of a former text stays on a fact that a structured field has taken over. |
| | `TextIsArchived` | A purge that is cut short leaves text without its envelope. |
| | `HeldIsAlwaysKept` | A hold placed after the check does not stop the purge. |
| | `ObservedIsKept` | A hold on a person who is merged covers nothing. |
| | `FreshIsKept` | A document ingested anew during the batch is erased. |
| | `PurgeMovesOn` | Held documents fill the batch, and the purge erases nothing while others are expired. |
| | `NothingUntold` | With more pending proposals than a page the rest is not pushed (`Page = 1` stands for 200). |
| | `DecisionStands` | A decision overwrites another, or a supersession. |
| | `NeverAskedTwice` | An applied or rejected value is proposed again. |
| | `PendingIsActive` | A retracted value stays pending. |
| | `OneActivePerKey` | Two creations leave two active memories of a key. |

## What is not modelled

The `components` of `PROJECT.json` give the reason for each part. Entities
(merge, glossary), collaboration edges, the worldbuilder and its synthesis
cache have no module: the first follow the protocols of `Identity` and
`FactSlot`, the second are rebuilt by one statement in one transaction, the last
composes what `Recall` and `Retrieval` return. Authentication, audit, health,
metrics, settings and adapters have no protocol; their failures are actions of
their callers. The event loop of the API process (`routes_ingress.py:27` does
blocking database work in an async route), unknown commit outcomes, statistics
(`connector_status` counters) and lease columns are abstracted. Calendar
arithmetic, regular expressions and vendor scores are small sets, and the tokens
of a text are those of its words.

## Plan

1. Proofs: the hypotheses of `FactSlot_proofs` weakened as far as the
   counterexamples allow.
2. Abstract specifications: `Register` (the newest accepted envelope)
   implemented by `Documents` when requests take turns; a partition of aliases
   that `Identity` refines.
3. `Ingress`: processes and their event loops on top of `Documents`; entity
   merge on top of `Identity`.
