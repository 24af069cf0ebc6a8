------------------------------- MODULE Recall -------------------------------
(***************************************************************************)
(* The two clocks of a fact: world time, [from, to), and belief time,      *)
(* [recorded, invalidated).  Documents state values of one subject, the    *)
(* extraction grounds, merges and closes them, and reads put questions to  *)
(* the rows: facts as of a point, facts as believed at a point, the        *)
(* difference of two snapshots, and the composed answer of                 *)
(* retrieve_context.                                                       *)
(*                                                                         *)
(* An instant is a number; a calendar period is a run of instants of equal *)
(* length.  Every write happens at an instant of its own.  Writes are      *)
(* serial here: FactSlot is about their interleavings.  Documents are      *)
(* visible to the organisation, so a reader misses one only through the    *)
(* filters of his question.                                                *)
(***************************************************************************)
EXTENDS Integers, Sequences, FiniteSets

CONSTANTS
  Values,       \* object_text of the claims
  PredicateOf,  \* the predicate of a value
  Exclusive,    \* predicates the registry marks mutually_exclusive
  Docs,
  Shapes,       \* what a document says of the time of its fact: see Shape
  Lags,         \* how long before its arrival a document's event may lie
  GrainSize,    \* length of a calendar period
  Limit,        \* limit of a fact query
  SearchLimit,  \* limit of a search for facts
  Registries,   \* the sets of predicates a registry may know when it is read
  Wordings,     \* the sets of words a question may ask for
  Scopes,       \* the documents that a host's filters may leave
  Questions,    \* cues of natural-language questions, see Cues
  Answers,      \* plans a model may answer with
  None,
  Horizon       \* bound: the last instant

VARIABLES
  now,      \* the clock
  claims,   \* rows, in the order of their creation
  docs,     \* documents: event_time, updated_at (their arrival) and deleted
  log       \* history: the values a current read reported, instant by instant

vars == <<now, claims, docs, log>>

Open == Horizon + Horizon   \* a NULL valid_to or invalidated_at
Times == -Horizon .. Open
Grains == {"unknown", "year", "quarter", "month", "day"}
Statuses == {"proposed", "active", "superseded", "retracted"}
Shape == [from : Int \cup {None}, phrase : [ago : Nat, grain : Grains] \cup {None},
          ended : Nat \cup {None}, grain : Grains, sure : BOOLEAN]
Claim == [obj : Values, status : Statuses, docs : SUBSET Docs, from : Times,
          to : Times, grain : Grains, recorded : Times, invalidated : Times]
NoDoc == [event |-> None, updated |-> None, deleted |-> FALSE,
          said |-> None, sure |-> FALSE]

TypeOK ==
  /\ now \in 0 .. Horizon + 1
  /\ claims \in Seq(Claim) /\ Len(claims) <= Cardinality(Docs)
  /\ \A i, j \in DOMAIN claims :   \* uq_claims_live_object
       i # j /\ claims[i].obj = claims[j].obj =>
         "superseded" \in {claims[i].status, claims[j].status}
  /\ \A d \in Docs :
       docs[d] # NoDoc => docs[d].event \in Times /\ docs[d].updated \in 0 .. now
  /\ log \in Seq(SUBSET Values) /\ Len(log) = now

-----------------------------------------------------------------------------
(* Calendar periods                                                        *)

\* _GRAIN_SPECIFICITY
Finer(g, h) ==
  LET rank == [unknown |-> 0, year |-> 1, quarter |-> 2, month |-> 3, day |-> 4]
  IN  rank[g] > rank[h]

IsCoarse(g) == g \in {"month", "quarter", "year"}
StartOf(t, g) == IF IsCoarse(g) THEN t - (t % GrainSize[g]) ELSE t
EndOf(t, g) == StartOf(t, g) + GrainSize[g]

-----------------------------------------------------------------------------
(* Writing                                                                 *)

\* _resolve_relative: the phrases of the rule table, each some periods ago.
Relative(phrase, t) == t - phrase.ago

\* ground_fact_times: what a document of event time t says, or None.
Grounded(s, t) ==
  LET phrased == s.from = None /\ s.phrase # None
      from == CASE s.from # None -> t - s.from
                [] phrased -> Relative(s.phrase, t)
                [] OTHER -> t
      grain == CASE s.grain # "unknown" -> s.grain
                 [] s.grain = "unknown" /\ s.from # None -> "unknown"
                 [] s.grain = "unknown" /\ phrased -> s.phrase.grain
                 [] OTHER -> "day"
      to == IF s.ended = None THEN Open ELSE t - s.ended
  IN  IF from > to THEN None ELSE [from |-> from, to |-> to, grain |-> grain]

\* merge_temporal_fields: ends are filled in, a grain is refined.
WindowMerged(c, w) ==
  [c EXCEPT !.to = IF c.to = Open THEN w.to ELSE c.to,
            !.grain = IF Finer(w.grain, c.grain) THEN w.grain ELSE c.grain]

\* A merge that records the fact anew.
MergedAnew(c, d, w, sure) ==
  [WindowMerged(c, w) EXCEPT
    !.docs = c.docs \cup {d}, !.status = IF sure THEN "active" ELSE c.status,
    !.recorded = now, !.invalidated = Open]

\* merge_claim_evidence and _merge_incoming_into_claim.
Merged(c, d, w, sure) ==
  LET status == IF sure THEN "active"
                ELSE IF c.status = "retracted" THEN "proposed" ELSE c.status
  IN  [WindowMerged(c, w) EXCEPT
        !.docs = c.docs \cup {d}, !.status = status,
        !.invalidated = IF status # c.status THEN Open ELSE c.invalidated]

NewClaim(v, d, w, sure) ==
  [obj |-> v, status |-> IF sure THEN "active" ELSE "proposed", docs |-> {d},
   from |-> w.from, to |-> w.to, grain |-> w.grain, recorded |-> now,
   invalidated |-> Open]

\* _live_claims_for_object_locked: uq_claims_live_object leaves at most one.
LiveRows(v) == {i \in DOMAIN claims :
                  claims[i].obj = v /\ claims[i].status # "superseded"}

\* add_claim: the possible tables after it and the row of the value.
Stored(v, d, w, sure) ==
  LET live == LiveRows(v)
      i == CHOOSE j \in live : TRUE
  IN  IF live = {}
      THEN [rows |-> Append(claims, NewClaim(v, d, w, sure)), row |-> Len(claims) + 1]
      ELSE [rows |-> [claims EXCEPT ![i] = Merged(@, d, w, sure)], row |-> i]

\* latest_evidence_time and precedence_rank, of rows made by extraction.
Newest(c, ds) ==
  LET times == {ds[d].event : d \in {e \in c.docs : ~ds[e].deleted}}
  IN  IF times = {} THEN -Open ELSE CHOOSE t \in times : \A u \in times : u <= t
Outranks(c, e, ds) ==
  LET many(r) == Cardinality(r.docs) >= 2
  IN  \/ many(c) /\ ~many(e)
      \/ many(c) = many(e) /\ Newest(c, ds) > Newest(e, ds)

\* A supersession that leaves the window of the loser open.
SupersededOpen(c, w) == [c EXCEPT !.status = "superseded", !.invalidated = now]

\* supersede_claim by the row w.
Superseded(c, w) ==
  [c EXCEPT !.status = "superseded", !.to = w.from, !.invalidated = now]

\* eager_close_claim_slot after row i of rows was stored: the possible tables.
\* Confidence, updated_at and claim_id break ties of the ranking.
SlotClosed(rows, i, ds) ==
  LET pred == PredicateOf[rows[i].obj]
      slot == {j \in DOMAIN rows :
                 PredicateOf[rows[j].obj] = pred /\ rows[j].status = "active"}
      best == {j \in slot : \A k \in slot : ~Outranks(rows[k], rows[j], ds)}
  IN  IF rows[i].status # "active" \/ pred \notin Exclusive THEN {rows}
      ELSE {[j \in DOMAIN rows |->
               IF j \in slot \ {w} THEN Superseded(rows[j], rows[w]) ELSE rows[j]] :
              w \in best}

-----------------------------------------------------------------------------
(* Reading.  A question q has the two clocks and a grain                   *)

\* Filters of documents: the clocks of a search, and those of the host (source,
\* author, persons and documents spoken of) by the documents they leave.
NoFilter == [dateFrom |-> None, dateTo |-> None,
             updatedFrom |-> None, updatedTo |-> None, within |-> Docs]
Ask(asOf, believed, grain) == [asOf |-> asOf, believed |-> believed, grain |-> grain]

AtLeast(t, bound) == bound = None \/ t >= bound
AtMost(t, bound) == bound = None \/ t <= bound

\* _document_visibility_filters_sql
VisibleDocs(ds, f) ==
  {d \in f.within \cap Docs :
     /\ ds[d].event # None /\ ~ds[d].deleted
     /\ AtLeast(ds[d].event, f.dateFrom) /\ AtMost(ds[d].event, f.dateTo)
     /\ AtLeast(ds[d].updated, f.updatedFrom) /\ AtMost(ds[d].updated, f.updatedTo)}

\* all_visible_sql
AllVisible(c, visible) == c.docs # {} /\ c.docs \subseteq visible

\* resolve_validity_query_point
QueryPoint(q, clock) ==
  CASE q.asOf # None -> [at |-> q.asOf, grain |-> IF q.grain = None THEN "unknown" ELSE q.grain]
    [] q.asOf = None /\ q.believed # None ->
         [at |-> q.believed, grain |-> IF q.grain = None THEN "day" ELSE q.grain]
    [] OTHER -> [at |-> clock, grain |-> IF q.grain = None THEN "day" ELSE q.grain]

\* temporal_read_statuses
ReadStatuses(q) ==
  IF q.asOf # None \/ q.believed # None THEN {"active", "superseded"} ELSE {"active"}

\* fact_matches_as_of and its twin validity_as_of_sql
Matches(c, point) ==
  LET from == StartOf(c.from, c.grain)
  IN  IF IsCoarse(point.grain)
      THEN from < EndOf(point.at, point.grain) /\ c.to > StartOf(point.at, point.grain)
      ELSE from <= point.at /\ c.to > point.at

\* A belief read that does not ask when a row was recorded.
BelievedUnrecorded(c, b) == b = None \/ c.invalidated > b

\* belief_as_of_sql
Believed(c, b) == b = None \/ (c.recorded <= b /\ c.invalidated > b)

\* claims_for_viewer: the rows a question finds in the table rows.
ClaimsForViewer(rows, ds, q, clock) ==
  {i \in DOMAIN rows :
     /\ rows[i].status \in ReadStatuses(q)
     /\ Matches(rows[i], QueryPoint(q, clock))
     /\ Believed(rows[i], q.believed)
     /\ AllVisible(rows[i], VisibleDocs(ds, NoFilter))}

\* The possible answers of a query that keeps n of its rows.
Cut(all, n) ==
  IF Cardinality(all) <= n THEN {all} ELSE {S \in SUBSET all : Cardinality(S) = n}

\* query_subject_facts: what the registry does not know is left out, and
\* freshness decides which rows survive the limit.
QueryFacts(rows, ds, q, clock, known) ==
  Cut({i \in ClaimsForViewer(rows, ds, q, clock) : PredicateOf[rows[i].obj] \in known}, Limit)

\* websearch_to_tsquery over the predicate and the object of a row: it has all
\* the words, and a query without words has no match.
HasWords(c, words) == words # {} /\ words \subseteq {PredicateOf[c.obj], c.obj}

\* fact_candidates: the rows that have the words, on evidence that passes f.
\* The registry is not asked, and the keyword score decides which rows survive.
WithWords(rows, ds, q, clock, f, words) ==
  {i \in DOMAIN rows :
     /\ rows[i].status \in ReadStatuses(q)
     /\ Matches(rows[i], QueryPoint(q, clock))
     /\ Believed(rows[i], q.believed)
     /\ AllVisible(rows[i], VisibleDocs(ds, f))
     /\ HasWords(rows[i], words)}
FactCandidates(rows, ds, q, clock, f, words) ==
  Cut(WithWords(rows, ds, q, clock, f, words), SearchLimit)

Objects(S) == {claims[i].obj : i \in S}
Current(rows, ds, clock) ==
  {rows[i].obj : i \in ClaimsForViewer(rows, ds, Ask(None, None, None), clock)}

-----------------------------------------------------------------------------
(* diff_fact_snapshots of two answers of one table                         *)

\* The place of a row in the order of ids.
Rank(i, S) == Cardinality({j \in S : j < i})

PairedByValue(gone, come, p) ==
  {x \in gone \X come : /\ PredicateOf[claims[x[1]].obj] = p
                        /\ claims[x[1]].obj = claims[x[2]].obj}
\* The rows of one exclusive predicate, paired in the order of their ids.
Paired(gone, come, p) ==
  LET of(S) == {i \in S : PredicateOf[claims[i].obj] = p}
  IN  {x \in of(gone) \X of(come) : /\ Rank(x[1], of(gone)) = Rank(x[2], of(come))
                                   /\ claims[x[1]].obj # claims[x[2]].obj}

DiffFacts(from, to) ==
  LET changed == UNION {Paired(from \ to, to \ from, p) : p \in Exclusive}
  IN  [unchanged |-> from \cap to,
       removed |-> (from \ to) \ {x[1] : x \in changed},
       added |-> (to \ from) \ {x[2] : x \in changed},
       changed |-> changed]

\* diff_subject_facts on the belief axis: both snapshots, then the difference.
DiffBelieved(b1, b2, known) ==
  {DiffFacts(from, to) : from \in QueryFacts(claims, docs, Ask(None, b1, None), now, known),
                         to \in QueryFacts(claims, docs, Ask(None, b2, None), now, known)}

-----------------------------------------------------------------------------
(* Planning and composing                                                  *)

\* Cues of a question: belief and world words, a calendar point, a range.
Cues == [belief : BOOLEAN, soft : BOOLEAN, between : BOOLEAN, at : Nat \cup {None},
         end : Nat \cup {None}, grain : Grains \cup {None}]
NoPlan == [axis |-> "current", ok |-> TRUE, at |-> None, end |-> None, grain |-> None]
Ambiguous(axis) == [NoPlan EXCEPT !.axis = axis, !.ok = FALSE]

\* plan_temporal_query
Plan(cues) ==
  LET axis == IF cues.belief THEN "belief" ELSE "world"
      timed == [axis |-> axis, ok |-> TRUE, at |-> cues.at, end |-> cues.end,
                grain |-> cues.grain]
  IN  CASE cues.between -> IF cues.end = None THEN Ambiguous(axis) ELSE timed
        [] ~cues.between /\ cues.belief ->
             IF cues.at = None THEN Ambiguous(axis) ELSE timed
        [] ~cues.between /\ ~cues.belief /\ cues.at # None -> timed
        [] OTHER -> IF cues.soft THEN Ambiguous(axis) ELSE NoPlan

\* plan_from_llm_payload: the checks a model's answer passes.
PlanFromLlm(p) ==
  IF p.ok /\ p.axis # "current" /\ p.at = None /\ p.end = None
  THEN [p EXCEPT !.ok = FALSE]
  ELSE IF p.axis = "current" THEN [p EXCEPT !.at = None] ELSE p

\* RetrieveContextService.retrieve: the clocks of a plan ...
Clocks(p) ==
  LET range == p.end # None /\ p.at # None
      at == IF range THEN p.end ELSE p.at
  IN  [asOf |-> IF p.axis = "world" THEN at ELSE None,
       believed |-> IF p.axis = "belief" THEN at ELSE None,
       grain |-> IF p.axis = "world" THEN p.grain ELSE None]
\* ... the filters of its search, with the host's ...
PassageFilter(p, scope) ==
  LET range == p.end # None /\ p.at # None
      c == Clocks(p)
  IN  [dateFrom |-> IF range /\ p.axis = "world" THEN p.at ELSE None,
       dateTo |-> c.asOf,
       updatedFrom |-> IF range /\ p.axis = "belief" THEN p.at ELSE None,
       updatedTo |-> c.believed, within |-> scope]
\* ... and the two channels of its facts, read by statements of their own.
SearchFacts(p, words, scope) ==
  FactCandidates(claims, docs, Clocks(p), now, PassageFilter(p, scope), words)
StructuredFacts(p, known) == QueryFacts(claims, docs, Clocks(p), now, known)

-----------------------------------------------------------------------------
(* The system                                                              *)

Init ==
  /\ now = 0 /\ claims = <<>> /\ log = <<>>
  /\ docs = [d \in Docs |-> NoDoc]

Recorded(rows, ds) ==
  /\ claims' = rows /\ docs' = ds
  /\ log' = Append(log, Current(rows, ds, now))
  /\ now' = now + 1

\* A document arrives and the claim of its extraction is applied.
Apply(d, v, s, lag) ==
  LET w == Grounded(s, now - lag)
      ds == [docs EXCEPT ![d] = [event |-> now - lag, updated |-> now,
                                 deleted |-> FALSE, said |-> w, sure |-> s.sure]]
  IN  /\ docs[d] = NoDoc
      /\ \A e \in Docs : e < d => docs[e] # NoDoc   \* names are given in order
      /\ IF w = None THEN Recorded(claims, ds)
         ELSE LET stored == Stored(v, d, w, s.sure)
              IN  \E rows \in SlotClosed(stored.rows, stored.row, ds) :
                    Recorded(rows, ds)

\* remove_document_evidence, of one row
Stripped(c, d) ==
  IF d \notin c.docs \/ c.status \notin {"proposed", "active"} THEN c
  ELSE IF c.docs # {d} THEN [c EXCEPT !.docs = @ \ {d}]
  ELSE [c EXCEPT !.docs = {}, !.status = "retracted", !.invalidated = now,
                 !.to = IF @ = Open THEN docs[d].event ELSE @]

\* A document is deleted.
Delete(d) ==
  /\ docs[d] # NoDoc /\ ~docs[d].deleted
  /\ Recorded([i \in DOMAIN claims |-> Stripped(claims[i], d)],
              [docs EXCEPT ![d].deleted = TRUE])

\* Time passes.
Tick == Recorded(claims, docs)

Next ==
  /\ now <= Horizon
  /\ \/ \E d \in Docs, v \in Values, s \in Shapes, lag \in Lags : Apply(d, v, s, lag)
     \/ \E d \in Docs : Delete(d)
     \/ Tick

Spec == Init /\ [][Next]_vars

-----------------------------------------------------------------------------
(* Properties                                                              *)

Past == 0 .. now - 1
Reported(t) == log[t + 1]
BelievedRows(t) == ClaimsForViewer(claims, docs, Ask(None, t, None), now)
BelievedAt(t) == Objects(BelievedRows(t))

\* Nothing that arrived after t speaks of a time up to t.
Settled(t) ==
  \A d \in Docs : docs[d] # NoDoc /\ docs[d].updated > t /\ docs[d].said # None
                    => docs[d].said.from > t
\* Nothing was deleted, no claim began as a proposal and became active, and no
\* claim whose end was known has been superseded.
Unrevised ==
  /\ \A d \in Docs : ~docs[d].deleted
  /\ \A i \in DOMAIN claims : claims[i].status = "superseded" =>
       \A d \in claims[i].docs : docs[d].said.to = Open
  /\ \A i \in DOMAIN claims : claims[i].status # "proposed" =>
       \A d \in claims[i].docs : docs[d].updated = claims[i].recorded => docs[d].sure

\* A belief read at t returns what a current read returned at t, whatever has
\* been superseded, merged or recorded since, if nothing was revised and what
\* arrived later is about later times (belief_as_of_sql with the world point of
\* resolve_validity_query_point).
BeliefReplays ==
  Unrevised => \A t \in Past : Settled(t) => BelievedAt(t) = Reported(t)

\* The same without the condition: what temporal-model.md promises.
BeliefAlwaysReplays ==
  (\A d \in Docs : ~docs[d].deleted) => \A t \in Past : BelievedAt(t) = Reported(t)

\* An exclusive predicate has one value at a world point, once facts have been
\* recorded in the order of the times they speak of, to the day, and none was
\* revised: a proposal in the middle of the table that becomes active, or a row
\* that comes back after a delete, closes a row later than itself.
InOrder ==
  /\ \A i, j \in DOMAIN claims : i < j => claims[i].from <= claims[j].from
  /\ \A i \in DOMAIN claims : ~IsCoarse(claims[i].grain)
  /\ \A d \in Docs : docs[d] # NoDoc /\ docs[d].said # None => docs[d].said.to = Open
AtOnePoint(t) == ClaimsForViewer(claims, docs, Ask(t, None, None), now)
Rivalry ==
  \E t \in Past : \E i, j \in AtOnePoint(t) :
     /\ claims[i].obj # claims[j].obj
     /\ PredicateOf[claims[i].obj] = PredicateOf[claims[j].obj]
     /\ PredicateOf[claims[i].obj] \in Exclusive
OneValueAtAPoint == InOrder /\ Unrevised => ~Rivalry
OneValueAtAnyPoint == ~Rivalry

\* A superseded row can still be read at some point of world time.
StaysReadable ==
  \A i \in DOMAIN claims : claims[i].status = "superseded"
    => StartOf(claims[i].from, claims[i].grain) < claims[i].to

\* Of every step: a merge moves no window; what a read at a point said of a
\* fact that has not been superseded it still says after more evidence for it.
MergeKeepsWindow ==
  [][\A i \in DOMAIN claims :
       claims'[i].docs # claims[i].docs /\ claims[i].docs # {}
         /\ claims'[i].status = claims[i].status
       => StartOf(claims'[i].from, claims'[i].grain)
            = StartOf(claims[i].from, claims[i].grain)]_vars

\* A difference of two belief snapshots that the limit did not cut accounts for
\* what was reported at both ends: nothing is left out or invented, and an
\* exclusive predicate that went from one value to another is one change, never
\* a removal and an addition (diff_fact_snapshots), of the predicates that the
\* registry knows when it is asked.
Whole(t, known) ==
  Cardinality({i \in BelievedRows(t) : PredicateOf[claims[i].obj] \in known}) <= Limit
ReportedOf(t, known) == {v \in Reported(t) : PredicateOf[v] \in known}
Accounts(d, t, u, known) ==
  /\ ReportedOf(t, known)
       = Objects(d.unchanged \cup d.removed \cup {x[1] : x \in d.changed})
  /\ ReportedOf(u, known)
       = Objects(d.unchanged \cup d.added \cup {x[2] : x \in d.changed})
  /\ \A p \in Exclusive :
       LET was == {v \in ReportedOf(t, known) : PredicateOf[v] = p}
           is == {v \in ReportedOf(u, known) : PredicateOf[v] = p}
       IN  was # {} /\ is # {} /\ was # is =>
             /\ Cardinality({x \in d.changed : PredicateOf[claims[x[1]].obj] = p}) = 1
             /\ \A i \in d.added \cup d.removed : PredicateOf[claims[i].obj] # p
DiffHonest ==
  Unrevised => \A t, u \in Past : \A known \in Registries :
    t < u /\ Settled(t) /\ Settled(u) /\ Whole(t, known) /\ Whole(u, known) =>
      \A d \in DiffBelieved(t, u, known) : Accounts(d, t, u, known)

\* Of every step, as a write that commits between the two reads of one answer:
\* retrieve_context reads its channels in two statements, each of which sees what
\* has been committed by then, and in either order.  Together they never report
\* two values of an exclusive predicate when the question is about a past belief
\* and nothing is revised, whatever arrives in between; about now, when the
\* write in between changes no claim.
Rivalling(vs) ==
  \E v, w \in vs : v # w /\ PredicateOf[v] = PredicateOf[w] /\ PredicateOf[v] \in Exclusive
PastBelief(p) == p.axis = "belief" /\ Clocks(p).believed \in Past
OneVoice(p) ==
  \A words \in Wordings, scope \in Scopes :
    /\ \A S \in SearchFacts(p, words, scope)' : \A known \in Registries :
         \A F \in StructuredFacts(p, known) : ~Rivalling(Objects(F) \cup Objects(S)')
    /\ \A S \in SearchFacts(p, words, scope) : \A known \in Registries :
         \A F \in StructuredFacts(p, known)' : ~Rivalling(Objects(S) \cup Objects(F)')
ChannelsAgree ==
  [][\A p \in {Plan(cues) : cues \in Questions} :
       /\ p.ok
       /\ (PastBelief(p) /\ Unrevised') \/ (p.axis = "current" /\ claims' = claims)
       => OneVoice(p)]_vars

\* A row that the structured facts can report and that has the words asked for
\* can be reported by the search.
ChannelsEqual ==
  \A cues \in Questions, words \in Wordings :
    LET p == Plan(cues)
    IN  p.ok => \A i \in ClaimsForViewer(claims, docs, Clocks(p), now) :
          HasWords(claims[i], words) =>
            i \in WithWords(claims, docs, Clocks(p), now, PassageFilter(p, Docs), words)

\* Of every step: a supersession shortens a window, it never lengthens one
\* that had ended.
NeverReopened == [][\A i \in DOMAIN claims : claims'[i].to <= claims[i].to]_vars

\* A question about another time is answered for that time, whoever planned it.
AxisHonoured ==
  \A p \in {Plan(cues) : cues \in Questions} \cup {PlanFromLlm(a) : a \in Answers} :
    p.ok => /\ p.axis = "world" => Clocks(p).asOf # None
            /\ p.axis = "belief" => Clocks(p).believed # None
=============================================================================
