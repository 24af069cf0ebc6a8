---------------------------- MODULE Reads_proofs ----------------------------
(***************************************************************************)
(* Proofs about the read side.  Recall: a belief read replays what was     *)
(* reported, the difference of two accounts for both, an exclusive         *)
(* predicate has one value at a world point, and the two fact channels of  *)
(* an answer do not contradict each other, for any documents, values,      *)
(* predicates, calendar and questions.  Retrieval: an answer drops only    *)
(* what matters less.  Paths, from its own proofs: walks and edges.        *)
(* Chunking: no word of a text is lost on the way to the index.            *)
(***************************************************************************)
EXTENDS Reads, FiniteSetTheorems, SequenceTheorems, WellFoundedInduction, TLAPS

-----------------------------------------------------------------------------
(* Hypothesis                                                              *)

\* The clock has an instant, None is no instant, periods have a length, and
\* nothing is dated after its document: a fact that begins later than the
\* document that states it can be moved by a finer grain to a later start, and
\* a belief read of the time before then forgets it.
Proper ==
  /\ Horizon \in Nat \ {0}
  /\ None \notin Int
  /\ Shapes \subseteq Shape /\ Lags \subseteq Nat
  /\ \A s \in Shapes : s.from # None => s.from >= 0
  /\ \A g \in Grains : IsCoarse(g) => GrainSize[g] \in Nat \ {0}

-----------------------------------------------------------------------------
(* The inductive invariant                                                 *)

Window == [from : Int, to : Int, grain : Grains]
RowType == [obj : Values, status : Statuses, docs : SUBSET Docs, from : Int,
            to : Int, grain : Grains, recorded : Int, invalidated : Int]
DocType == [event : Int \cup {None}, updated : Int \cup {None}, deleted : BOOLEAN,
            said : Window \cup {None}, sure : BOOLEAN]

Types ==
  /\ now \in 0 .. Horizon + 1
  /\ claims \in Seq(RowType)
  /\ docs \in [Docs -> DocType]
  /\ log \in Seq(SUBSET Values) /\ Len(log) = now

\* Nothing was deleted.
Tidy(ds) == \A d \in Docs : ~ds[d].deleted

\* A document that backs a row came before instant n and states a window.
Arrived(doc, n) ==
  /\ doc.event \in Int /\ doc.updated \in Int /\ doc.updated < n
  /\ doc.said \in Window /\ doc.said # None

\* One row: what its status says of its clocks and of its evidence.
RowOK(c, ds, n) ==
  /\ \A d \in c.docs : Arrived(ds[d], n)
  /\ c.status # "retracted" => c.docs # {}
  /\ c.status = "active" => c.invalidated = Open
  /\ c.status = "superseded" => c.invalidated < n
  /\ c.from <= c.recorded /\ c.recorded < n

\* One row, while nothing is deleted: a proposal still has the unsure document
\* it began with, and an end was stated by a document.
FreshRow(c, ds) ==
  /\ c.status # "retracted"
  /\ c.status = "proposed" =>
       \E d \in c.docs : ds[d].updated = c.recorded /\ ~ds[d].sure
  /\ c.status \in {"proposed", "active"} /\ (\A d \in c.docs : ds[d].said.to = Open)
       => c.to = Open

RowsOK(rows, ds, n) ==
  \A i \in DOMAIN rows : RowOK(rows[i], ds, n) /\ (Tidy(ds) => FreshRow(rows[i], ds))

\* A superseded row ends where a row begins.
EndsAtStart(rows) ==
  \A i \in DOMAIN rows : rows[i].status = "superseded" =>
    \E k \in DOMAIN rows : rows[i].to = rows[k].from

\* Two rows of one exclusive predicate.
Rivals(rows, i, j) ==
  /\ PredicateOf[rows[i].obj] = PredicateOf[rows[j].obj]
  /\ PredicateOf[rows[i].obj] \in Exclusive

\* An exclusive predicate has one active row.
OneActive(rows) ==
  \A i, j \in DOMAIN rows :
    rows[i].status = "active" /\ rows[j].status = "active" /\ Rivals(rows, i, j)
      => i = j

\* Facts came in the order of their begin, without an end.
InSequence(rows) == \A i, j \in DOMAIN rows : i < j => rows[i].from <= rows[j].from
NoEnds(ds) == \A d \in Docs : ds[d] # NoDoc /\ ds[d].said # None => ds[d].said.to = Open

InForce(c) == c.status \in {"active", "superseded"}

\* Of two rivals the earlier has ended when the later begins, or the later
\* never was in force.
Apart(rows) ==
  \A i, j \in DOMAIN rows :
    i < j /\ InForce(rows[i]) /\ InForce(rows[j]) /\ Rivals(rows, i, j)
      => rows[i].to <= rows[j].from \/ rows[j].to <= rows[j].from

InTurn == InSequence(claims) /\ NoEnds(docs) /\ Unrevised => Apart(claims)

\* What a belief read of t, and a current read of t, ask of a row.
HoldsAt(c, t) ==
  /\ InForce(c) /\ StartOf(c.from, c.grain) <= t /\ c.to > t
  /\ c.recorded <= t /\ c.invalidated > t
CurrentAt(c, t) == c.status = "active" /\ StartOf(c.from, c.grain) <= t /\ c.to > t

\* A row that was recorded by t and not invalidated until t, at whatever world
\* time: of two rivals that is one at most, at every t that is past.
KnownAt(c, t) == InForce(c) /\ c.recorded <= t /\ c.invalidated > t
OneKnown(rows, t) ==
  \A i, j \in DOMAIN rows :
    KnownAt(rows[i], t) /\ KnownAt(rows[j], t) /\ Rivals(rows, i, j) => i = j
KnownOnce == Unrevised => \A t \in Past : OneKnown(claims, t)

IInv ==
  /\ Types
  /\ RowsOK(claims, docs, now)
  /\ EndsAtStart(claims)
  /\ OneActive(claims)
  /\ BeliefReplays
  /\ KnownOnce
  /\ InTurn

-----------------------------------------------------------------------------
(* Calendar periods and windows                                            *)

\* A period begins no later than an instant in it.
LEMMA StartBefore ==
  ASSUME Proper, NEW t \in Int, NEW g \in Grains
  PROVE  StartOf(t, g) \in Int /\ StartOf(t, g) <= t
<1>1. CASE IsCoarse(g)
  <2>1. GrainSize[g] \in Nat \ {0} BY <1>1 DEF Proper
  <2>2. t % GrainSize[g] \in Nat
    <3>1. PICK n \in Nat \ {0} : n = GrainSize[g] BY <2>1
    <3>2. t % n \in 0 .. n - 1 BY <3>1
    <3> QED BY <3>1, <3>2
  <2> QED BY <1>1, <2>2 DEF StartOf
<1>2. CASE ~IsCoarse(g) BY <1>2 DEF StartOf
<1> QED BY <1>1, <1>2

\* What a document says is a window that begins no later than its event time.
LEMMA GroundedWindow ==
  ASSUME Proper, NEW s \in Shapes, NEW t \in Int, Grounded(s, t) # None
  PROVE  /\ Grounded(s, t) \in Window
         /\ Grounded(s, t).from <= t
         /\ Grounded(s, t).from <= Grounded(s, t).to
<1> DEFINE phrased == s.from = None /\ s.phrase # None
           from == CASE s.from # None -> t - s.from
                     [] phrased -> Relative(s.phrase, t)
                     [] OTHER -> t
           grain == CASE s.grain # "unknown" -> s.grain
                      [] s.grain = "unknown" /\ s.from # None -> "unknown"
                      [] s.grain = "unknown" /\ phrased -> s.phrase.grain
                      [] OTHER -> "day"
           to == IF s.ended = None THEN Open ELSE t - s.ended
<1>1. s \in Shape /\ Horizon \in Nat BY DEF Proper
<1>2. from \in Int /\ from <= t
  <2>1. CASE s.from # None
    <3>1. s.from \in Int /\ s.from >= 0 BY <1>1, <2>1 DEF Shape, Proper
    <3> QED BY <2>1, <3>1
  <2>2. CASE s.from = None /\ s.phrase # None
    <3>1. s.phrase.ago \in Nat BY <1>1, <2>2 DEF Shape
    <3>2. from = t - s.phrase.ago BY <2>2 DEF Relative
    <3> QED BY <3>1, <3>2
  <2>3. CASE s.from = None /\ s.phrase = None BY <2>3
  <2> QED BY <2>1, <2>2, <2>3
<1>3. grain \in Grains
  <2>1. s.grain \in Grains /\ (s.phrase # None => s.phrase.grain \in Grains)
    BY <1>1 DEF Shape
  <2> QED BY <2>1 DEF Grains
<1>4. to \in Int BY <1>1 DEF Shape, Open
<1>5. Grounded(s, t) = IF from > to THEN None
                       ELSE [from |-> from, to |-> to, grain |-> grain]
  BY DEF Grounded
<1> HIDE DEF from, grain, to
<1>6. ~(from > to) BY <1>5
<1>7. Grounded(s, t) = [from |-> from, to |-> to, grain |-> grain] BY <1>5, <1>6
<1> QED BY <1>2, <1>3, <1>4, <1>6, <1>7 DEF Window

-----------------------------------------------------------------------------
(* Rows                                                                    *)

MergedStatus(c, sure) ==
  IF sure THEN "active" ELSE IF c.status = "retracted" THEN "proposed" ELSE c.status

\* The fields of a merged row.
LEMMA MergedFields ==
  ASSUME NEW c \in RowType, NEW d \in Docs, NEW w \in Window, NEW sure \in BOOLEAN,
         Horizon \in Nat
  PROVE  /\ Merged(c, d, w, sure) \in RowType
         /\ Merged(c, d, w, sure).obj = c.obj
         /\ Merged(c, d, w, sure).status = MergedStatus(c, sure)
         /\ Merged(c, d, w, sure).docs = c.docs \cup {d}
         /\ Merged(c, d, w, sure).from = c.from
         /\ Merged(c, d, w, sure).to = IF c.to = Open THEN w.to ELSE c.to
         /\ Merged(c, d, w, sure).grain \in Grains
         /\ Merged(c, d, w, sure).recorded = c.recorded
         /\ Merged(c, d, w, sure).invalidated =
              IF MergedStatus(c, sure) # c.status THEN Open ELSE c.invalidated
<1> DEFINE to == IF c.to = Open THEN w.to ELSE c.to
           grain == IF Finer(w.grain, c.grain) THEN w.grain ELSE c.grain
           st == MergedStatus(c, sure)
           inv == IF st # c.status THEN Open ELSE c.invalidated
           u == WindowMerged(c, w)
<1>1. to \in Int /\ grain \in Grains /\ st \in Statuses /\ inv \in Int
  BY DEF RowType, Window, MergedStatus, Statuses, Open
<1>2. u = [c EXCEPT !.to = to, !.grain = grain] BY DEF WindowMerged
<1>3. Merged(c, d, w, sure) =
        [u EXCEPT !.docs = c.docs \cup {d}, !.status = st, !.invalidated = inv]
  BY DEF Merged, MergedStatus
<1> HIDE DEF to, grain, st, inv, u
<1>4. /\ u \in RowType /\ u.obj = c.obj /\ u.from = c.from /\ u.to = to
      /\ u.grain = grain /\ u.recorded = c.recorded
  BY <1>1, <1>2 DEF RowType
<1>5. c.docs \cup {d} \in SUBSET Docs BY DEF RowType
<1>6. /\ Merged(c, d, w, sure) \in RowType
      /\ Merged(c, d, w, sure).obj = c.obj
      /\ Merged(c, d, w, sure).status = st
      /\ Merged(c, d, w, sure).docs = c.docs \cup {d}
      /\ Merged(c, d, w, sure).from = c.from
      /\ Merged(c, d, w, sure).to = to
      /\ Merged(c, d, w, sure).grain = grain
      /\ Merged(c, d, w, sure).recorded = c.recorded
      /\ Merged(c, d, w, sure).invalidated = inv
  BY <1>1, <1>3, <1>4, <1>5 DEF RowType
<1> QED BY <1>1, <1>6 DEF to, st, inv

\* The fields of a superseded row.
LEMMA SupersededFields ==
  ASSUME NEW c \in RowType, NEW k \in RowType, now \in Int
  PROVE  /\ Superseded(c, k) \in RowType
         /\ Superseded(c, k).obj = c.obj
         /\ Superseded(c, k).status = "superseded"
         /\ Superseded(c, k).docs = c.docs
         /\ Superseded(c, k).from = c.from
         /\ Superseded(c, k).to = k.from
         /\ Superseded(c, k).grain = c.grain
         /\ Superseded(c, k).recorded = c.recorded
         /\ Superseded(c, k).invalidated = now
BY DEF Superseded, RowType, Statuses

\* The fields of a new row.
LEMMA NewFields ==
  ASSUME NEW v \in Values, NEW d \in Docs, NEW w \in Window, NEW sure \in BOOLEAN,
         now \in Int, Horizon \in Nat
  PROVE  /\ NewClaim(v, d, w, sure) \in RowType
         /\ NewClaim(v, d, w, sure).obj = v
         /\ NewClaim(v, d, w, sure).status = IF sure THEN "active" ELSE "proposed"
         /\ NewClaim(v, d, w, sure).docs = {d}
         /\ NewClaim(v, d, w, sure).from = w.from
         /\ NewClaim(v, d, w, sure).to = w.to
         /\ NewClaim(v, d, w, sure).recorded = now
         /\ NewClaim(v, d, w, sure).invalidated = Open
<1>1. w.from \in Int /\ w.to \in Int /\ w.grain \in Grains BY DEF Window
<1>2. Open \in Int BY DEF Open
<1> QED BY <1>1, <1>2 DEF NewClaim, RowType, Statuses

-----------------------------------------------------------------------------
(* What a step does to the table                                           *)

\* The documents after the arrival of d.
Arrival(ds, d, t, w, sure) ==
  ds = [docs EXCEPT ![d] = [event |-> t, updated |-> now, deleted |-> FALSE,
                            said |-> w, sure |-> sure]]

\* The table rows holds the evidence of d in row i.
Stores(rows, i, d, v, w, sure) ==
  /\ rows \in Seq(RowType) /\ i \in DOMAIN rows
  /\ \A j \in DOMAIN claims : j \in DOMAIN rows /\ (j # i => rows[j] = claims[j])
  /\ \/ /\ DOMAIN rows = DOMAIN claims
        /\ claims[i].status # "superseded"
        /\ rows[i] = Merged(claims[i], d, w, sure)
     \/ /\ DOMAIN rows = DOMAIN claims \cup {i} /\ i = Len(claims) + 1
        /\ rows[i] = NewClaim(v, d, w, sure)

\* Row k closes the rows of its slot, or nothing is closed.
Untouched(rows, after, i) ==
  /\ after = rows
  /\ rows[i].status = "active" => PredicateOf[rows[i].obj] \notin Exclusive
Loses(rows, j, k) ==
  rows[j].status = "active" /\ Rivals(rows, j, k) /\ j # k
Closes(rows, after, i, k) ==
  /\ k \in DOMAIN rows /\ rows[k].status = "active" /\ rows[i].status = "active"
  /\ Rivals(rows, k, i)
  /\ after \in Seq(RowType) /\ DOMAIN after = DOMAIN rows
  /\ \A j \in DOMAIN rows : Loses(rows, j, k) => after[j] = Superseded(rows[j], rows[k])
  /\ \A j \in DOMAIN rows : ~Loses(rows, j, k) => after[j] = rows[j]

\* add_claim stores the evidence in a row.
LEMMA StoredRow ==
  ASSUME Types, Horizon \in Nat,
         NEW v \in Values, NEW d \in Docs, NEW w \in Window, NEW sure \in BOOLEAN
  PROVE  LET s == Stored(v, d, w, sure) IN Stores(s.rows, s.row, d, v, w, sure)
<1>1. claims \in Seq(RowType) /\ now \in Int BY DEF Types
<1>2. \A j \in DOMAIN claims : claims[j] \in RowType BY <1>1
<1>3. CASE LiveRows(v) = {}
  <2>1. PICK new : new = NewClaim(v, d, w, sure) OBVIOUS
  <2>2. new \in RowType BY <1>1, <2>1, NewFields
  <2>3. PICK rows : rows = Append(claims, new) OBVIOUS
  <2>4. PICK i : i = Len(claims) + 1 OBVIOUS
  <2>5. Stored(v, d, w, sure) = [rows |-> rows, row |-> i]
    BY <1>3, <2>1, <2>3, <2>4 DEF Stored
  <2>6. /\ rows \in Seq(RowType) /\ DOMAIN rows = DOMAIN claims \cup {i}
        /\ i \in DOMAIN rows /\ rows[i] = new
        /\ \A j \in DOMAIN claims : j \in DOMAIN rows /\ rows[j] = claims[j]
    BY <1>1, <2>2, <2>3, <2>4
  <2> QED BY <2>1, <2>4, <2>5, <2>6 DEF Stores
<1>4. CASE LiveRows(v) # {}
  <2>1. PICK i : i = CHOOSE j \in LiveRows(v) : TRUE OBVIOUS
  <2>2. i \in LiveRows(v) BY <1>4, <2>1
  <2>3. i \in DOMAIN claims /\ claims[i].status # "superseded"
    BY <2>2 DEF LiveRows
  <2>4. PICK new : new = Merged(claims[i], d, w, sure) OBVIOUS
  <2>5. new \in RowType BY <1>2, <2>3, <2>4, MergedFields
  <2>6. PICK rows : rows = [claims EXCEPT ![i] = new] OBVIOUS
  <2>7. Stored(v, d, w, sure) = [rows |-> rows, row |-> i]
    BY <1>4, <2>1, <2>4, <2>6 DEF Stored
  <2>8. /\ rows \in Seq(RowType) /\ DOMAIN rows = DOMAIN claims
        /\ i \in DOMAIN rows /\ rows[i] = new
        /\ \A j \in DOMAIN claims : j \in DOMAIN rows /\ (j # i => rows[j] = claims[j])
    BY <1>1, <2>3, <2>5, <2>6
  <2> QED BY <2>3, <2>4, <2>7, <2>8 DEF Stores
<1> QED BY <1>3, <1>4

\* eager_close_claim_slot leaves the table or lets one row close the others.
LEMMA SlotShape ==
  ASSUME now \in Int, NEW rows \in Seq(RowType), NEW i \in DOMAIN rows, NEW ds,
         NEW after \in SlotClosed(rows, i, ds)
  PROVE  Untouched(rows, after, i) \/ \E k \in DOMAIN rows : Closes(rows, after, i, k)
<1> DEFINE pred == PredicateOf[rows[i].obj]
           slot == {j \in DOMAIN rows :
                      PredicateOf[rows[j].obj] = pred /\ rows[j].status = "active"}
           best == {j \in slot : \A k \in slot : ~Outranks(rows[k], rows[j], ds)}
<1>1. CASE rows[i].status # "active" \/ pred \notin Exclusive
  BY <1>1 DEF SlotClosed, Untouched
<1>2. CASE ~(rows[i].status # "active" \/ pred \notin Exclusive)
  <2>1. PICK k \in best :
          after = [j \in DOMAIN rows |->
                     IF j \in slot \ {k} THEN Superseded(rows[j], rows[k]) ELSE rows[j]]
    BY <1>2 DEF SlotClosed
  <2>2. k \in slot /\ k \in DOMAIN rows OBVIOUS
  <2>3. rows[k].status = "active" /\ rows[i].status = "active" /\ Rivals(rows, k, i)
    BY <1>2, <2>2 DEF Rivals
  <2>4. \A j \in DOMAIN rows : j \in slot \ {k} <=> Loses(rows, j, k)
    BY <1>2, <2>2 DEF Loses, Rivals
  <2>5. \A j \in DOMAIN rows : rows[j] \in RowType OBVIOUS
  <2>6. \A j \in DOMAIN rows : Superseded(rows[j], rows[k]) \in RowType
    BY <2>2, <2>5, SupersededFields
  <2> HIDE DEF slot
  <2>7. DOMAIN after = DOMAIN rows BY <2>1
  <2>8. \A j \in DOMAIN rows : after[j] \in RowType BY <2>1, <2>5, <2>6
  <2>9. after \in Seq(RowType)
    <3>1. PICK n \in Nat : DOMAIN rows = 1 .. n OBVIOUS
    <3>2. after = [j \in 1 .. n |-> after[j]] BY <2>1, <3>1
    <3>3. after \in [1 .. n -> RowType] BY <2>8, <3>1, <3>2
    <3> QED BY <3>3
  <2>10. \A j \in DOMAIN rows : after[j] =
           IF Loses(rows, j, k) THEN Superseded(rows[j], rows[k]) ELSE rows[j]
    BY <2>1, <2>4
  <2> QED BY <2>2, <2>3, <2>7, <2>9, <2>10 DEF Closes
<1> QED BY <1>1, <1>2

\* What the arrival of a document is.
LEMMA ApplyShape ==
  ASSUME Proper, Types, NEW d \in Docs, NEW v \in Values, NEW s \in Shapes,
         NEW lag \in Lags, Apply(d, v, s, lag)
  PROVE  \E w, ds :
           /\ docs[d] = NoDoc /\ docs' = ds
           /\ w = None \/ (w \in Window /\ w.from <= now /\ w.from <= w.to)
           /\ Arrival(ds, d, now - lag, w, s.sure)
           /\ now - lag \in Int /\ s.sure \in BOOLEAN
           /\ IF w = None THEN Recorded(claims, ds)
              ELSE \E rows, i : /\ Stores(rows, i, d, v, w, s.sure)
                                /\ \/ Untouched(rows, claims', i)
                                   \/ \E k \in DOMAIN rows : Closes(rows, claims', i, k)
                                /\ Recorded(claims', ds)
<1>1. now \in Int /\ lag \in Nat /\ Horizon \in Nat BY DEF Proper, Types
<1>2. PICK w : w = Grounded(s, now - lag) OBVIOUS
<1>3. PICK ds : Arrival(ds, d, now - lag, w, s.sure) BY DEF Arrival
<1>4. w = None \/ (w \in Window /\ w.from <= now /\ w.from <= w.to)
  <2>1. now - lag \in Int /\ now - lag <= now BY <1>1
  <2> SUFFICES ASSUME w # None PROVE w \in Window /\ w.from <= now /\ w.from <= w.to
    OBVIOUS
  <2>2. w \in Window /\ w.from <= now - lag /\ w.from <= w.to
    BY <1>2, <2>1, GroundedWindow
  <2>3. w.from \in Int BY <2>2 DEF Window
  <2> QED BY <2>1, <2>2, <2>3, <1>1
<1>5. s.sure \in BOOLEAN
  <2>1. s \in Shape BY DEF Proper
  <2> QED BY <2>1 DEF Shape
<1>6. /\ docs[d] = NoDoc
      /\ IF w = None THEN Recorded(claims, ds)
         ELSE LET stored == Stored(v, d, w, s.sure)
              IN  \E rows \in SlotClosed(stored.rows, stored.row, ds) : Recorded(rows, ds)
  BY <1>2, <1>3 DEF Apply, Arrival
<1>7. docs' = ds BY <1>6 DEF Recorded
<1>8. ASSUME w # None
      PROVE  \E rows, i : /\ Stores(rows, i, d, v, w, s.sure)
                          /\ \/ Untouched(rows, claims', i)
                             \/ \E k \in DOMAIN rows : Closes(rows, claims', i, k)
                          /\ Recorded(claims', ds)
  <2>1. PICK rows, i : rows = Stored(v, d, w, s.sure).rows /\ i = Stored(v, d, w, s.sure).row
    OBVIOUS
  <2>2. Stores(rows, i, d, v, w, s.sure)
    BY <1>1, <1>4, <1>5, <1>8, <2>1, StoredRow
  <2>3. PICK after \in SlotClosed(rows, i, ds) : Recorded(after, ds)
    BY <1>6, <1>8, <2>1
  <2>4. after = claims' BY <2>3 DEF Recorded
  <2>5. rows \in Seq(RowType) /\ i \in DOMAIN rows BY <2>2 DEF Stores
  <2>6. Untouched(rows, after, i) \/ \E k \in DOMAIN rows : Closes(rows, after, i, k)
    BY <1>1, <2>3, <2>5, SlotShape
  <2> QED BY <2>2, <2>3, <2>4, <2>6
<1> QED BY <1>1, <1>3, <1>4, <1>5, <1>6, <1>7, <1>8

-----------------------------------------------------------------------------
(* Rows keep their invariant                                               *)

\* The documents after an arrival: d has come, the others are what they were.
LEMMA ArrivalDocs ==
  ASSUME Types, NEW d \in Docs, NEW t \in Int, NEW w, w = None \/ w \in Window,
         NEW sure \in BOOLEAN, NEW ds,
         Arrival(ds, d, t, w, sure)
  PROVE  /\ ds \in [Docs -> DocType]
         /\ ds[d] = [event |-> t, updated |-> now, deleted |-> FALSE, said |-> w,
                     sure |-> sure]
         /\ \A e \in Docs : e # d => ds[e] = docs[e]
         /\ docs[d] = NoDoc => (Tidy(ds) <=> Tidy(docs))
<1>1. docs \in [Docs -> DocType] /\ now \in Int BY DEF Types
<1>2. PICK doc : doc = [event |-> t, updated |-> now, deleted |-> FALSE, said |-> w,
                        sure |-> sure]
  OBVIOUS
<1>3. doc \in DocType BY <1>1, <1>2 DEF DocType
<1>4. ds = [docs EXCEPT ![d] = doc] BY <1>2 DEF Arrival
<1>5. ds \in [Docs -> DocType] /\ ds[d] = doc /\ \A e \in Docs : e # d => ds[e] = docs[e]
  BY <1>1, <1>3, <1>4
<1>6. doc.deleted = FALSE BY <1>2
<1>7. docs[d] = NoDoc => docs[d].deleted = FALSE BY DEF NoDoc
<1>8. docs[d] = NoDoc => (Tidy(ds) <=> Tidy(docs)) BY <1>5, <1>6, <1>7 DEF Tidy
<1> QED BY <1>2, <1>5, <1>8

\* The documents that back a row are not among those that have yet to come.
LEMMA BackedByOthers ==
  ASSUME Proper, NEW c, NEW n \in Int, NEW d, docs[d] = NoDoc, RowOK(c, docs, n)
  PROVE  d \notin c.docs
BY DEF Proper, RowOK, Arrived, NoDoc

\* A row that the arrival leaves alone.
LEMMA KeptRow ==
  ASSUME Proper, Types, NEW c \in RowType, RowOK(c, docs, now),
         Tidy(docs) => FreshRow(c, docs),
         NEW d \in Docs, NEW t \in Int, NEW w, w = None \/ w \in Window,
         NEW sure \in BOOLEAN, NEW ds, Arrival(ds, d, t, w, sure), docs[d] = NoDoc
  PROVE  RowOK(c, ds, now + 1) /\ (Tidy(ds) => FreshRow(c, ds))
<1>1. now \in Int /\ c.docs \subseteq Docs /\ d \notin c.docs
  BY BackedByOthers DEF Types, RowType
<1>2. \A e \in c.docs : ds[e] = docs[e]
  <2>1. \A e \in Docs : e # d => ds[e] = docs[e] BY DEF Arrival, Types
  <2> QED BY <1>1, <2>1
<1>3. RowOK(c, ds, now + 1) BY <1>1, <1>2 DEF RowOK, Arrived, RowType
<1>4. Tidy(ds) => Tidy(docs) BY ArrivalDocs
<1>5. Tidy(ds) => FreshRow(c, ds) BY <1>2, <1>4 DEF FreshRow
<1> QED BY <1>3, <1>5

\* A row that takes the evidence.
LEMMA MergedRow ==
  ASSUME Proper, Types, NEW c \in RowType, RowOK(c, docs, now),
         Tidy(docs) => FreshRow(c, docs), c.status # "superseded",
         NEW d \in Docs, NEW t \in Int, NEW w \in Window, w # None,
         NEW sure \in BOOLEAN, NEW ds, Arrival(ds, d, t, w, sure), docs[d] = NoDoc
  PROVE  /\ RowOK(Merged(c, d, w, sure), ds, now + 1)
         /\ Tidy(ds) => FreshRow(Merged(c, d, w, sure), ds)
<1>1. now \in Int /\ c.docs \subseteq Docs /\ d \notin c.docs /\ Horizon \in Nat
  BY BackedByOthers DEF Types, RowType, Proper
<1>2. PICK m : m = Merged(c, d, w, sure) OBVIOUS
<1>3. /\ m \in RowType /\ m.status = MergedStatus(c, sure) /\ m.docs = c.docs \cup {d}
      /\ m.from = c.from /\ m.to = (IF c.to = Open THEN w.to ELSE c.to)
      /\ m.recorded = c.recorded
      /\ m.invalidated = IF MergedStatus(c, sure) # c.status THEN Open ELSE c.invalidated
  BY <1>1, <1>2, MergedFields
<1>4. \A e \in c.docs : ds[e] = docs[e]
  <2>1. \A e \in Docs : e # d => ds[e] = docs[e] BY DEF Arrival, Types
  <2> QED BY <1>1, <2>1
<1>5. /\ ds[d].event = t /\ ds[d].updated = now /\ ds[d].said = w
      /\ ds[d].sure = sure
  <2>1. ds[d] = [event |-> t, updated |-> now, deleted |-> FALSE, said |-> w,
                 sure |-> sure]
    BY ArrivalDocs
  <2> QED BY <2>1
<1>6. c.status \in Statuses BY DEF RowType
<1>7. RowOK(m, ds, now + 1)
  <2>1. \A e \in m.docs : Arrived(ds[e], now + 1)
    <3>1. Arrived(ds[d], now + 1) BY <1>1, <1>5 DEF Arrived
    <3>2. \A e \in c.docs : Arrived(ds[e], now + 1)
      BY <1>1, <1>4 DEF RowOK, Arrived
    <3> QED BY <3>1, <3>2, <1>3
  <2>2. m.docs # {} BY <1>3
  <2>3. m.status = "active" => m.invalidated = Open
    BY <1>3 DEF MergedStatus, RowOK
  <2>4. m.status # "superseded" BY <1>3 DEF MergedStatus
  <2>5. m.from <= m.recorded /\ m.recorded < now + 1
    BY <1>1, <1>3 DEF RowOK, RowType
  <2> QED BY <2>1, <2>2, <2>3, <2>4, <2>5 DEF RowOK
<1>8. ASSUME Tidy(ds) PROVE FreshRow(m, ds)
  <2>1. FreshRow(c, docs) BY <1>8, ArrivalDocs
  <2>2. m.status # "retracted" BY <1>3, <2>1 DEF MergedStatus, FreshRow
  <2>3. m.status = "proposed" =>
          \E e \in m.docs : ds[e].updated = m.recorded /\ ~ds[e].sure
    <3> SUFFICES ASSUME m.status = "proposed"
                 PROVE  \E e \in m.docs : ds[e].updated = m.recorded /\ ~ds[e].sure
      OBVIOUS
    <3>1. c.status = "proposed" BY <1>3, <2>1 DEF MergedStatus, FreshRow
    <3>2. PICK e \in c.docs : docs[e].updated = c.recorded /\ ~docs[e].sure
      BY <2>1, <3>1 DEF FreshRow
    <3> QED BY <1>3, <1>4, <3>2
  <2>4. ASSUME \A e \in m.docs : ds[e].said.to = Open PROVE m.to = Open
    <3>1. \A e \in c.docs : docs[e].said.to = Open BY <1>3, <1>4, <2>4
    <3>2. w.to = Open BY <1>3, <1>5, <2>4
    <3>3. c.status \in {"proposed", "active"}
      BY <1>6, <2>1 DEF FreshRow, Statuses
    <3>4. c.to = Open BY <2>1, <3>1, <3>3 DEF FreshRow
    <3> QED BY <1>3, <3>2, <3>4
  <2> QED BY <2>2, <2>3, <2>4 DEF FreshRow
<1> QED BY <1>2, <1>7, <1>8

\* A row that begins with the evidence.
LEMMA NewRow ==
  ASSUME Proper, Types, NEW v \in Values,
         NEW d \in Docs, NEW t \in Int, NEW w \in Window, w # None, w.from <= now,
         NEW sure \in BOOLEAN, NEW ds, Arrival(ds, d, t, w, sure)
  PROVE  /\ RowOK(NewClaim(v, d, w, sure), ds, now + 1)
         /\ FreshRow(NewClaim(v, d, w, sure), ds)
<1>1. now \in Int /\ Horizon \in Nat BY DEF Types, Proper
<1>2. PICK m : m = NewClaim(v, d, w, sure) OBVIOUS
<1>3. /\ m.status = (IF sure THEN "active" ELSE "proposed") /\ m.docs = {d}
      /\ m.from = w.from /\ m.to = w.to /\ m.recorded = now /\ m.invalidated = Open
  BY <1>1, <1>2, NewFields
<1>4. /\ ds[d].event = t /\ ds[d].updated = now /\ ds[d].said = w
      /\ ds[d].sure = sure
  <2>1. ds[d] = [event |-> t, updated |-> now, deleted |-> FALSE, said |-> w,
                 sure |-> sure]
    BY ArrivalDocs
  <2> QED BY <2>1
<1>5. RowOK(m, ds, now + 1) BY <1>1, <1>3, <1>4 DEF RowOK, Arrived
<1>6. FreshRow(m, ds) BY <1>3, <1>4 DEF FreshRow
<1> QED BY <1>2, <1>5, <1>6

\* A row that loses its slot.
LEMMA SupersededRow ==
  ASSUME now \in Int, NEW c \in RowType, NEW k \in RowType, NEW ds, c.status = "active",
         RowOK(c, ds, now + 1)
  PROVE  RowOK(Superseded(c, k), ds, now + 1) /\ FreshRow(Superseded(c, k), ds)
<1>1. PICK m : m = Superseded(c, k) OBVIOUS
<1>2. /\ m.status = "superseded" /\ m.docs = c.docs /\ m.from = c.from
      /\ m.recorded = c.recorded /\ m.invalidated = now
  BY <1>1, SupersededFields
<1>3. RowOK(m, ds, now + 1) BY <1>2 DEF RowOK
<1>4. FreshRow(m, ds) BY <1>2 DEF FreshRow
<1> QED BY <1>1, <1>3, <1>4

\* The stored table.
LEMMA StoredRowsOK ==
  ASSUME Proper, Types, RowsOK(claims, docs, now), NEW v \in Values,
         NEW d \in Docs, NEW t \in Int, NEW w \in Window, w # None, w.from <= now,
         NEW sure \in BOOLEAN, NEW ds, Arrival(ds, d, t, w, sure), docs[d] = NoDoc,
         NEW rows, NEW i, Stores(rows, i, d, v, w, sure)
  PROVE  RowsOK(rows, ds, now + 1)
<1>1. claims \in Seq(RowType) BY DEF Types
<1>2. SUFFICES ASSUME NEW j \in DOMAIN rows
               PROVE  RowOK(rows[j], ds, now + 1) /\ (Tidy(ds) => FreshRow(rows[j], ds))
  BY DEF RowsOK
<1>3. CASE j # i
  <2>1. j \in DOMAIN claims /\ rows[j] = claims[j] BY <1>3 DEF Stores
  <2>2. claims[j] \in RowType BY <1>1, <2>1
  <2>3. RowOK(claims[j], docs, now) /\ (Tidy(docs) => FreshRow(claims[j], docs))
    BY <2>1 DEF RowsOK
  <2> QED BY <2>1, <2>2, <2>3, KeptRow
<1>4. CASE j = i /\ DOMAIN rows = DOMAIN claims /\ claims[i].status # "superseded"
           /\ rows[i] = Merged(claims[i], d, w, sure)
  <2>1. claims[i] \in RowType BY <1>1, <1>4
  <2>2. RowOK(claims[i], docs, now) /\ (Tidy(docs) => FreshRow(claims[i], docs))
    BY <1>4 DEF RowsOK
  <2> QED BY <1>4, <2>1, <2>2, MergedRow
<1>5. CASE j = i /\ rows[i] = NewClaim(v, d, w, sure)
  BY <1>5, NewRow
<1> QED BY <1>3, <1>4, <1>5 DEF Stores

\* The table after the slot is closed.
LEMMA ClosedRowsOK ==
  ASSUME now \in Int, NEW rows \in Seq(RowType), NEW ds, RowsOK(rows, ds, now + 1),
         NEW after, NEW i \in DOMAIN rows,
         Untouched(rows, after, i) \/ \E k \in DOMAIN rows : Closes(rows, after, i, k)
  PROVE  after \in Seq(RowType) /\ RowsOK(after, ds, now + 1)
<1>1. CASE Untouched(rows, after, i) BY <1>1 DEF Untouched
<1>2. ASSUME NEW k \in DOMAIN rows, Closes(rows, after, i, k)
      PROVE  after \in Seq(RowType) /\ RowsOK(after, ds, now + 1)
  <2>1. after \in Seq(RowType) /\ DOMAIN after = DOMAIN rows BY <1>2 DEF Closes
  <2>2. SUFFICES ASSUME NEW j \in DOMAIN rows
                 PROVE  /\ RowOK(after[j], ds, now + 1)
                        /\ Tidy(ds) => FreshRow(after[j], ds)
    BY <2>1 DEF RowsOK
  <2>3. RowOK(rows[j], ds, now + 1) /\ (Tidy(ds) => FreshRow(rows[j], ds))
    BY DEF RowsOK
  <2>4. CASE Loses(rows, j, k)
    <3>1. after[j] = Superseded(rows[j], rows[k]) /\ rows[j].status = "active"
      BY <1>2, <2>4 DEF Closes, Loses
    <3>2. rows[j] \in RowType /\ rows[k] \in RowType OBVIOUS
    <3> QED BY <2>3, <3>1, <3>2, SupersededRow
  <2>5. CASE ~Loses(rows, j, k) BY <1>2, <2>3, <2>5 DEF Closes
  <2> QED BY <2>4, <2>5
<1> QED BY <1>1, <1>2

-----------------------------------------------------------------------------
(* The table keeps its invariant                                           *)

\* Every row of the table is a row of rows, with its value and its begin.
Grown(rows) ==
  \A j \in DOMAIN claims :
    j \in DOMAIN rows /\ rows[j].obj = claims[j].obj /\ rows[j].from = claims[j].from
      /\ rows[j].recorded = claims[j].recorded

\* Storing evidence: rows keep their values and begins, and a superseded row is
\* an old one.
LEMMA StoredTable ==
  ASSUME Types, Horizon \in Nat, NEW v \in Values, NEW d \in Docs, NEW w \in Window,
         NEW sure \in BOOLEAN, NEW rows, NEW i, Stores(rows, i, d, v, w, sure)
  PROVE  /\ Grown(rows)
         /\ rows[i].status # "superseded"
         /\ \A j \in DOMAIN rows : j # i => j \in DOMAIN claims /\ rows[j] = claims[j]
<1>1. claims \in Seq(RowType) /\ now \in Int BY DEF Types
<1>2. \A j \in DOMAIN rows : j # i => j \in DOMAIN claims /\ rows[j] = claims[j]
  BY DEF Stores
<1>3. CASE /\ DOMAIN rows = DOMAIN claims /\ claims[i].status # "superseded"
           /\ rows[i] = Merged(claims[i], d, w, sure)
  <2>1. i \in DOMAIN claims BY <1>3 DEF Stores
  <2>2. claims[i] \in RowType BY <1>1, <2>1
  <2>3. /\ rows[i].obj = claims[i].obj /\ rows[i].from = claims[i].from
        /\ rows[i].recorded = claims[i].recorded
        /\ rows[i].status = MergedStatus(claims[i], sure)
    BY <1>3, <2>2, MergedFields
  <2>4. rows[i].status # "superseded" BY <1>3, <2>3 DEF MergedStatus
  <2>5. \A j \in DOMAIN claims : j # i => rows[j] = claims[j] BY DEF Stores
  <2>6. Grown(rows) BY <1>3, <2>3, <2>5 DEF Grown
  <2> QED BY <1>2, <2>4, <2>6
<1>4. CASE /\ DOMAIN rows = DOMAIN claims \cup {i} /\ i = Len(claims) + 1
           /\ rows[i] = NewClaim(v, d, w, sure)
  <2>1. rows[i].status # "superseded" BY <1>1, <1>4, NewFields
  <2>2. i \notin DOMAIN claims BY <1>1, <1>4
  <2>3. Grown(rows) BY <2>2 DEF Grown, Stores
  <2> QED BY <1>2, <2>1, <2>3
<1> QED BY <1>3, <1>4 DEF Stores

\* Closing a slot: rows keep their values and begins, and only a row that was
\* active changes its status.
ClosedRow(rows, after, j) ==
  /\ after[j].obj = rows[j].obj /\ after[j].from = rows[j].from
  /\ after[j].docs = rows[j].docs /\ after[j].recorded = rows[j].recorded
  /\ \/ after[j] = rows[j]
     \/ /\ rows[j].status = "active" /\ after[j].status = "superseded"
        /\ \E k \in DOMAIN rows : after[j].to = rows[k].from

LEMMA ClosedTable ==
  ASSUME now \in Int, NEW rows \in Seq(RowType), NEW after, NEW i \in DOMAIN rows,
         Untouched(rows, after, i) \/ \E k \in DOMAIN rows : Closes(rows, after, i, k)
  PROVE  DOMAIN after = DOMAIN rows /\ \A j \in DOMAIN rows : ClosedRow(rows, after, j)
<1>1. CASE Untouched(rows, after, i) BY <1>1 DEF Untouched, ClosedRow
<1>2. ASSUME NEW k \in DOMAIN rows, Closes(rows, after, i, k)
      PROVE  DOMAIN after = DOMAIN rows /\ \A j \in DOMAIN rows : ClosedRow(rows, after, j)
  <2>1. DOMAIN after = DOMAIN rows BY <1>2 DEF Closes
  <2>2. ASSUME NEW j \in DOMAIN rows PROVE ClosedRow(rows, after, j)
    <3>1. CASE Loses(rows, j, k)
      <4>1. after[j] = Superseded(rows[j], rows[k]) /\ rows[j].status = "active"
        BY <1>2, <3>1 DEF Closes, Loses
      <4>2. rows[j] \in RowType /\ rows[k] \in RowType OBVIOUS
      <4>3. /\ after[j].obj = rows[j].obj /\ after[j].from = rows[j].from
            /\ after[j].docs = rows[j].docs /\ after[j].recorded = rows[j].recorded
            /\ after[j].status = "superseded" /\ after[j].to = rows[k].from
        BY <4>1, <4>2, SupersededFields
      <4> QED BY <4>1, <4>3 DEF ClosedRow
    <3>2. CASE ~Loses(rows, j, k) BY <1>2, <3>2 DEF Closes, ClosedRow
    <3> QED BY <3>1, <3>2
  <2> QED BY <2>1, <2>2
<1> QED BY <1>1, <1>2

\* A superseded row still ends where a row begins.
LEMMA EndsKept ==
  ASSUME Types, Horizon \in Nat, EndsAtStart(claims),
         NEW v \in Values, NEW d \in Docs, NEW w \in Window,
         NEW sure \in BOOLEAN, NEW rows, NEW i, Stores(rows, i, d, v, w, sure),
         NEW after,
         Untouched(rows, after, i) \/ \E k \in DOMAIN rows : Closes(rows, after, i, k)
  PROVE  EndsAtStart(after)
<1>1. now \in Int /\ rows \in Seq(RowType) /\ i \in DOMAIN rows
  BY DEF Types, Stores
<1>2. DOMAIN after = DOMAIN rows /\ \A j \in DOMAIN rows : after[j].from = rows[j].from
  BY <1>1, ClosedTable DEF ClosedRow
<1>3. SUFFICES ASSUME NEW j \in DOMAIN rows, after[j].status = "superseded"
               PROVE  \E k \in DOMAIN rows : after[j].to = rows[k].from
  BY <1>2 DEF EndsAtStart
<1>4. CASE after[j] = rows[j]
  <2>1. j \in DOMAIN claims /\ rows[j] = claims[j] BY <1>3, <1>4, StoredTable
  <2>2. PICK k \in DOMAIN claims : claims[j].to = claims[k].from
    BY <1>3, <1>4, <2>1 DEF EndsAtStart
  <2>3. Grown(rows) BY StoredTable
  <2> QED BY <1>4, <2>1, <2>2, <2>3 DEF Grown
<1>5. CASE after[j] # rows[j]
  <2>1. ClosedRow(rows, after, j) BY <1>1, ClosedTable
  <2> QED BY <1>5, <2>1 DEF ClosedRow
<1> QED BY <1>4, <1>5

\* An exclusive predicate still has one active row.
LEMMA OneActiveKept ==
  ASSUME Types, Horizon \in Nat, OneActive(claims),
         NEW v \in Values, NEW d \in Docs, NEW w \in Window,
         NEW sure \in BOOLEAN, NEW rows, NEW i, Stores(rows, i, d, v, w, sure),
         NEW after,
         Untouched(rows, after, i) \/ \E k \in DOMAIN rows : Closes(rows, after, i, k)
  PROVE  OneActive(after)
<1>1. now \in Int /\ rows \in Seq(RowType) /\ i \in DOMAIN rows
  BY DEF Types, Stores
<1>2. ASSUME NEW a \in DOMAIN rows, NEW b \in DOMAIN rows, a # i, b # i,
             rows[a].status = "active", rows[b].status = "active", Rivals(rows, a, b)
      PROVE  a = b
  <2>1. /\ a \in DOMAIN claims /\ b \in DOMAIN claims
        /\ rows[a] = claims[a] /\ rows[b] = claims[b]
    BY <1>2, StoredTable
  <2>2. Rivals(claims, a, b) BY <1>2, <2>1 DEF Rivals
  <2> QED BY <1>2, <2>1, <2>2 DEF OneActive
<1>3. CASE Untouched(rows, after, i)
  <2>1. after = rows BY <1>3 DEF Untouched
  <2>2. SUFFICES ASSUME NEW a \in DOMAIN rows, NEW b \in DOMAIN rows,
                        rows[a].status = "active", rows[b].status = "active",
                        Rivals(rows, a, b)
                 PROVE  a = b
    BY <2>1 DEF OneActive
  <2>3. (a # i /\ b # i) \/ a = b BY <1>3, <2>2 DEF Untouched, Rivals
  <2> QED BY <1>2, <2>2, <2>3
<1>4. ASSUME NEW k \in DOMAIN rows, Closes(rows, after, i, k) PROVE OneActive(after)
  <2>1. DOMAIN after = DOMAIN rows BY <1>4 DEF Closes
  <2>2. SUFFICES ASSUME NEW a \in DOMAIN rows, NEW b \in DOMAIN rows,
                        after[a].status = "active", after[b].status = "active",
                        Rivals(after, a, b)
                 PROVE  a = b
    BY <2>1 DEF OneActive
  <2>3. /\ after[a].obj = rows[a].obj /\ after[b].obj = rows[b].obj
        /\ rows[a].status = "active" /\ rows[b].status = "active"
    <3>1. ClosedRow(rows, after, a) /\ ClosedRow(rows, after, b)
      BY <1>1, <1>4, ClosedTable
    <3> QED BY <2>2, <3>1 DEF ClosedRow
  <2>4. Rivals(rows, a, b) BY <2>2, <2>3 DEF Rivals
  <2>5. ~Loses(rows, a, k) /\ ~Loses(rows, b, k)
    <3>1. ASSUME NEW j \in DOMAIN rows, Loses(rows, j, k)
          PROVE  after[j].status = "superseded"
      <4>1. after[j] = Superseded(rows[j], rows[k]) BY <1>4, <3>1 DEF Closes
      <4>2. rows[j] \in RowType /\ rows[k] \in RowType BY <1>1
      <4> QED BY <1>1, <4>1, <4>2, SupersededFields
    <3> QED BY <2>2, <3>1
  <2>6. CASE Rivals(rows, a, k)
    BY <2>3, <2>4, <2>5, <2>6 DEF Loses, Rivals
  <2>7. CASE ~Rivals(rows, a, k)
    <3>1. Rivals(rows, k, i) BY <1>4 DEF Closes
    <3>2. a # i BY <2>7, <3>1 DEF Rivals
    <3>3. b # i BY <2>4, <2>7, <3>1 DEF Rivals
    <3> QED BY <1>2, <2>3, <2>4, <3>2, <3>3
  <2> QED BY <2>6, <2>7
<1> QED BY <1>3, <1>4

-----------------------------------------------------------------------------
(* Histories without a revision                                            *)

\* What Unrevised says of one row.
RowUnrevised(c, ds) ==
  /\ c.status = "superseded" => \A d \in c.docs : ds[d].said.to = Open
  /\ c.status # "proposed" =>
       \A d \in c.docs : ds[d].updated = c.recorded => ds[d].sure
RowsUnrevised(rows, ds) ==
  Tidy(ds) /\ \A j \in DOMAIN rows : RowUnrevised(rows[j], ds)

LEMMA UnrevisedRows == Unrevised <=> RowsUnrevised(claims, docs)
BY DEF Unrevised, RowsUnrevised, RowUnrevised, Tidy

\* A row that has not been revised was not revised before the evidence came,
\* and kept its status.
LEMMA MergedHistory ==
  ASSUME Proper, Types, NEW c \in RowType, RowOK(c, docs, now), FreshRow(c, docs),
         c.status # "superseded",
         NEW d \in Docs, NEW t \in Int, NEW w \in Window, w # None,
         NEW sure \in BOOLEAN, NEW ds, Arrival(ds, d, t, w, sure), docs[d] = NoDoc,
         NEW a, a.docs = c.docs \cup {d}, a.recorded = c.recorded,
         a.status = "superseded" \/ a.status = MergedStatus(c, sure),
         c.status = "proposed" =>
           (a.status = "superseded" => MergedStatus(c, sure) = "active"),
         RowUnrevised(a, ds)
  PROVE  /\ RowUnrevised(c, docs)
         /\ c.status = "active" \/ (c.status = "proposed" /\ a.status = "proposed")
         /\ MergedStatus(c, sure) = c.status
<1>1. c.docs \subseteq Docs /\ d \notin c.docs /\ now \in Int /\ c.status \in Statuses
  BY BackedByOthers DEF Types, RowType
<1>2. \A e \in c.docs : ds[e] = docs[e]
  <2>1. \A e \in Docs : e # d => ds[e] = docs[e] BY DEF Arrival, Types
  <2> QED BY <1>1, <2>1
<1>3. CASE c.status = "proposed"
  <2>1. PICK e \in c.docs : docs[e].updated = c.recorded /\ ~docs[e].sure
    BY <1>3 DEF FreshRow
  <2>2. e \in a.docs /\ ds[e].updated = a.recorded /\ ~ds[e].sure BY <1>2, <2>1
  <2>3. a.status = "proposed" BY <2>2 DEF RowUnrevised
  <2>4. MergedStatus(c, sure) = "proposed" BY <2>3
  <2>5. RowUnrevised(c, docs) BY <1>3 DEF RowUnrevised
  <2> QED BY <1>3, <2>3, <2>4, <2>5
<1>4. CASE c.status = "active"
  <2>1. MergedStatus(c, sure) = "active" BY <1>4 DEF MergedStatus
  <2>2. a.status # "proposed" BY <2>1
  <2>3. RowUnrevised(c, docs) BY <1>2, <1>4, <2>2 DEF RowUnrevised
  <2> QED BY <1>4, <2>1, <2>3
<1> QED BY <1>1, <1>3, <1>4 DEF FreshRow, Statuses

\* What became of row j of the table, in a history without a revision: nothing;
\* or it took the evidence as it was; or the new row i superseded it.
Changed(after, rows, i, j, d, v, w, sure) ==
  \/ after[j] = claims[j]
  \/ /\ j = i /\ i \in DOMAIN claims /\ DOMAIN after = DOMAIN claims
     /\ claims[j].status \in {"proposed", "active"}
     /\ after[j] = Merged(claims[j], d, w, sure)
     /\ after[j].status = claims[j].status
  \/ /\ i \notin DOMAIN claims /\ j # i
     /\ claims[j].status = "active" /\ Rivals(rows, j, i)
     /\ rows[i].status = "active" /\ after[i] = rows[i]
     /\ rows[i] = NewClaim(v, d, w, sure)
     /\ after[j] = Superseded(claims[j], rows[i])

\* Only the new row wins a slot from an old one.
LEMMA History ==
  ASSUME Proper, Types, RowsOK(claims, docs, now), OneActive(claims),
         NEW v \in Values, NEW d \in Docs, NEW t \in Int, NEW w \in Window, w # None,
         w.from <= now,
         NEW sure \in BOOLEAN, NEW ds, Arrival(ds, d, t, w, sure), docs[d] = NoDoc,
         NEW rows, NEW i, Stores(rows, i, d, v, w, sure),
         NEW after,
         Untouched(rows, after, i) \/ \E k \in DOMAIN rows : Closes(rows, after, i, k),
         RowsUnrevised(after, ds)
  PROVE  /\ RowsUnrevised(claims, docs)
         /\ \A j \in DOMAIN claims : Changed(after, rows, i, j, d, v, w, sure)
<1>1. /\ now \in Int /\ rows \in Seq(RowType) /\ i \in DOMAIN rows /\ Horizon \in Nat
      /\ claims \in Seq(RowType)
  BY DEF Types, Stores, Proper
<1>2. Tidy(docs) BY ArrivalDocs DEF RowsUnrevised
<1>3. \A j \in DOMAIN claims : RowOK(claims[j], docs, now) /\ FreshRow(claims[j], docs)
  BY <1>2 DEF RowsOK
<1>4. /\ DOMAIN after = DOMAIN rows
      /\ \A j \in DOMAIN rows :
           /\ after[j].docs = rows[j].docs /\ after[j].recorded = rows[j].recorded
           /\ after[j] = rows[j] \/ (rows[j].status = "active" /\ after[j].status = "superseded")
  <2>1. DOMAIN after = DOMAIN rows /\ \A j \in DOMAIN rows : ClosedRow(rows, after, j)
    BY <1>1, ClosedTable
  <2> QED BY <2>1 DEF ClosedRow
<1>5. \A j \in DOMAIN rows : RowUnrevised(after[j], ds) BY <1>4 DEF RowsUnrevised
<1>6. DOMAIN claims \subseteq DOMAIN rows BY DEF Stores
<1>7. ASSUME i \in DOMAIN claims
      PROVE  /\ DOMAIN rows = DOMAIN claims
             /\ rows[i] = Merged(claims[i], d, w, sure)
             /\ RowUnrevised(claims[i], docs)
             /\ claims[i].status \in {"proposed", "active"}
             /\ rows[i].status = claims[i].status
  <2>1. /\ DOMAIN rows = DOMAIN claims /\ rows[i] = Merged(claims[i], d, w, sure)
        /\ claims[i].status # "superseded"
    BY <1>1, <1>7 DEF Stores
  <2>2. claims[i] \in RowType /\ RowOK(claims[i], docs, now) /\ FreshRow(claims[i], docs)
    BY <1>1, <1>3, <1>7
  <2>3. /\ rows[i].docs = claims[i].docs \cup {d} /\ rows[i].recorded = claims[i].recorded
        /\ rows[i].status = MergedStatus(claims[i], sure)
    BY <1>1, <2>1, <2>2, MergedFields
  <2>4. PICK a : a = after[i] OBVIOUS
  <2>5. /\ a.docs = claims[i].docs \cup {d} /\ a.recorded = claims[i].recorded
        /\ RowUnrevised(a, ds)
        /\ \/ a.status = MergedStatus(claims[i], sure)
           \/ MergedStatus(claims[i], sure) = "active" /\ a.status = "superseded"
    BY <1>1, <1>4, <1>5, <2>3, <2>4
  <2>6. /\ RowUnrevised(claims[i], docs)
        /\ \/ claims[i].status = "active"
           \/ claims[i].status = "proposed" /\ a.status = "proposed"
        /\ MergedStatus(claims[i], sure) = claims[i].status
    <3>1. claims[i].status = "proposed" =>
            (a.status = "superseded" => MergedStatus(claims[i], sure) = "active")
      BY <2>1, <2>5 DEF MergedStatus
    <3> QED BY <2>1, <2>2, <2>5, <3>1, MergedHistory
  <2> QED BY <2>1, <2>3, <2>6
<1>8. \A j \in DOMAIN claims : j # i => rows[j] = claims[j] BY DEF Stores
<1>9. ASSUME NEW k \in DOMAIN rows, Closes(rows, after, i, k), NEW j \in DOMAIN claims,
             Loses(rows, j, k)
      PROVE  /\ i \notin DOMAIN claims /\ k = i /\ rows[j] = claims[j] /\ j # i
             /\ rows[i] = NewClaim(v, d, w, sure)
  <2>1. rows[k].status = "active" /\ rows[j].status = "active" /\ Rivals(rows, j, k) /\ j # k
    BY <1>9 DEF Closes, Loses
  <2>2. \A l \in DOMAIN claims : rows[l].status = "active" => claims[l].status = "active"
    BY <1>7, <1>8
  <2>3. Grown(rows) BY <1>1, StoredTable
  <2>4. k \notin DOMAIN claims
    <3>1. ASSUME k \in DOMAIN claims PROVE FALSE
      <4>1. Rivals(claims, j, k) BY <2>1, <2>3, <3>1 DEF Rivals, Grown
      <4> QED BY <2>1, <2>2, <3>1, <4>1 DEF OneActive
    <3> QED BY <3>1
  <2>5. k = i BY <1>1, <2>4, StoredTable
  <2>6. rows[i] = NewClaim(v, d, w, sure) BY <2>4, <2>5 DEF Stores
  <2> QED BY <1>8, <2>1, <2>4, <2>5, <2>6
<1>10. ASSUME NEW j \in DOMAIN claims
       PROVE  Changed(after, rows, i, j, d, v, w, sure) /\ RowUnrevised(claims[j], docs)
  <2>1. ASSUME NEW k \in DOMAIN rows, Closes(rows, after, i, k), Loses(rows, j, k)
        PROVE  Changed(after, rows, i, j, d, v, w, sure) /\ RowUnrevised(claims[j], docs)
    <3>1. /\ i \notin DOMAIN claims /\ k = i /\ rows[j] = claims[j] /\ j # i
          /\ rows[i] = NewClaim(v, d, w, sure)
      BY <1>9, <2>1
    <3>2. rows[i].status = "active" /\ Rivals(rows, j, i) /\ rows[j].status = "active"
      BY <2>1, <3>1 DEF Closes, Loses
    <3>3. after[j] = Superseded(rows[j], rows[i]) /\ after[i] = rows[i]
      BY <1>1, <1>6, <2>1, <3>1 DEF Closes, Loses
    <3>4. Changed(after, rows, i, j, d, v, w, sure) BY <3>1, <3>2, <3>3 DEF Changed
    <3>5. after[j].status = "superseded" /\ after[j].docs = rows[j].docs
          /\ after[j].recorded = rows[j].recorded
      <4>1. rows[j] \in RowType /\ rows[i] \in RowType BY <1>1, <1>6
      <4> QED BY <1>1, <3>3, <4>1, SupersededFields
    <3>6. RowUnrevised(claims[j], docs)
      <4>1. claims[j] \in RowType BY <1>1
      <4>2. d \notin claims[j].docs /\ claims[j].docs \subseteq Docs
        BY <1>1, <1>3, <4>1, BackedByOthers DEF RowType
      <4>3. \A e \in claims[j].docs : ds[e] = docs[e] BY <4>2 DEF Arrival, Types
      <4>4. RowUnrevised(after[j], ds) BY <1>5, <1>6
      <4> QED BY <3>1, <3>2, <3>5, <4>3, <4>4 DEF RowUnrevised
    <3> QED BY <3>4, <3>6
  <2>2. ASSUME after[j] = rows[j]
        PROVE  Changed(after, rows, i, j, d, v, w, sure) /\ RowUnrevised(claims[j], docs)
    <3>1. CASE j = i
      BY <1>4, <1>7, <2>2, <3>1 DEF Changed
    <3>2. CASE j # i
      <4>1. after[j] = claims[j] BY <1>8, <2>2, <3>2
      <4>2. claims[j] \in RowType BY <1>1
      <4>3. d \notin claims[j].docs /\ claims[j].docs \subseteq Docs
        BY <1>1, <1>3, <4>2, BackedByOthers DEF RowType
      <4>4. \A e \in claims[j].docs : ds[e] = docs[e] BY <4>3 DEF Arrival, Types
      <4>5. RowUnrevised(after[j], ds) BY <1>5, <1>6
      <4> QED BY <4>1, <4>4, <4>5 DEF RowUnrevised, Changed
    <3> QED BY <3>1, <3>2
  <2>3. CASE Untouched(rows, after, i) BY <2>2, <2>3 DEF Untouched
  <2>4. ASSUME NEW k \in DOMAIN rows, Closes(rows, after, i, k)
        PROVE  Changed(after, rows, i, j, d, v, w, sure) /\ RowUnrevised(claims[j], docs)
    <3>1. CASE Loses(rows, j, k) BY <2>1, <2>4, <3>1
    <3>2. CASE ~Loses(rows, j, k)
      <4>1. after[j] = rows[j] BY <1>6, <2>4, <3>2 DEF Closes
      <4> QED BY <2>2, <4>1
    <3> QED BY <3>1, <3>2
  <2> QED BY <2>3, <2>4
<1> QED BY <1>2, <1>10 DEF RowsUnrevised

-----------------------------------------------------------------------------
(* Reading                                                                 *)

\* While nothing is deleted every row in force can be read.
LEMMA ReadableRow ==
  ASSUME Proper, NEW ds \in [Docs -> DocType], Tidy(ds), NEW c \in RowType, NEW n \in Int,
         RowOK(c, ds, n), InForce(c)
  PROVE  AllVisible(c, VisibleDocs(ds, NoFilter))
<1>1. c.docs # {} /\ c.docs \subseteq Docs BY DEF RowOK, InForce, RowType
<1>2. \A d \in c.docs : ds[d].event # None /\ ~ds[d].deleted
  BY <1>1 DEF RowOK, Arrived, Tidy, Proper
<1> QED BY <1>1, <1>2 DEF AllVisible, VisibleDocs, NoFilter, AtLeast, AtMost

LEMMA BeliefRead ==
  ASSUME Proper, NEW ds \in [Docs -> DocType], Tidy(ds), NEW rows \in Seq(RowType),
         NEW n \in Int, RowsOK(rows, ds, n), NEW t \in Int, NEW clock
  PROVE  ClaimsForViewer(rows, ds, Ask(None, t, None), clock) =
           {i \in DOMAIN rows : HoldsAt(rows[i], t)}
<1>1. t # None BY DEF Proper
<1>2. PICK q : q = Ask(None, t, None) OBVIOUS
<1>3. q.asOf = None /\ q.believed = t /\ q.grain = None BY <1>2 DEF Ask
<1>4. QueryPoint(q, clock) = [at |-> t, grain |-> "day"] BY <1>1, <1>3 DEF QueryPoint
<1>5. ReadStatuses(q) = {"active", "superseded"} BY <1>1, <1>3 DEF ReadStatuses
<1>6. ASSUME NEW i \in DOMAIN rows
      PROVE  (/\ rows[i].status \in ReadStatuses(q)
              /\ Matches(rows[i], QueryPoint(q, clock))
              /\ Believed(rows[i], q.believed)
              /\ AllVisible(rows[i], VisibleDocs(ds, NoFilter))) <=> HoldsAt(rows[i], t)
  <2>1. rows[i].status \in ReadStatuses(q) <=> InForce(rows[i]) BY <1>5 DEF InForce
  <2>2. Matches(rows[i], QueryPoint(q, clock)) <=>
          StartOf(rows[i].from, rows[i].grain) <= t /\ rows[i].to > t
    BY <1>4 DEF Matches, IsCoarse
  <2>3. Believed(rows[i], q.believed) <=> rows[i].recorded <= t /\ rows[i].invalidated > t
    BY <1>1, <1>3 DEF Believed
  <2>4. InForce(rows[i]) => AllVisible(rows[i], VisibleDocs(ds, NoFilter))
    <3>1. rows[i] \in RowType /\ RowOK(rows[i], ds, n) BY DEF RowsOK
    <3> QED BY <3>1, ReadableRow
  <2> QED BY <2>1, <2>2, <2>3, <2>4 DEF HoldsAt
<1> QED BY <1>2, <1>6 DEF ClaimsForViewer

LEMMA CurrentRead ==
  ASSUME Proper, NEW ds \in [Docs -> DocType], Tidy(ds), NEW rows \in Seq(RowType),
         NEW n \in Int, RowsOK(rows, ds, n), NEW t \in Int
  PROVE  Current(rows, ds, t) =
           {rows[i].obj : i \in {j \in DOMAIN rows : CurrentAt(rows[j], t)}}
<1>1. PICK q : q = Ask(None, None, None) OBVIOUS
<1>2. q.asOf = None /\ q.believed = None /\ q.grain = None BY <1>1 DEF Ask
<1>3. QueryPoint(q, t) = [at |-> t, grain |-> "day"] BY <1>2 DEF QueryPoint
<1>4. ReadStatuses(q) = {"active"} BY <1>2 DEF ReadStatuses
<1>5. ASSUME NEW i \in DOMAIN rows
      PROVE  (/\ rows[i].status \in ReadStatuses(q)
              /\ Matches(rows[i], QueryPoint(q, t))
              /\ Believed(rows[i], q.believed)
              /\ AllVisible(rows[i], VisibleDocs(ds, NoFilter))) <=> CurrentAt(rows[i], t)
  <2>1. rows[i].status \in ReadStatuses(q) <=> rows[i].status = "active" BY <1>4
  <2>2. Matches(rows[i], QueryPoint(q, t)) <=>
          StartOf(rows[i].from, rows[i].grain) <= t /\ rows[i].to > t
    BY <1>3 DEF Matches, IsCoarse
  <2>3. Believed(rows[i], q.believed) BY <1>2 DEF Believed
  <2>4. rows[i].status = "active" => AllVisible(rows[i], VisibleDocs(ds, NoFilter))
    <3>1. rows[i] \in RowType /\ RowOK(rows[i], ds, n) BY DEF RowsOK
    <3> QED BY <3>1, ReadableRow DEF InForce
  <2> QED BY <2>1, <2>2, <2>3, <2>4 DEF CurrentAt
<1>6. ClaimsForViewer(rows, ds, q, t) = {j \in DOMAIN rows : CurrentAt(rows[j], t)}
  BY <1>5 DEF ClaimsForViewer
<1> QED BY <1>1, <1>6 DEF Current

\* A world read at t finds rows in force whose window holds t.
LEMMA WorldRead ==
  ASSUME Proper, NEW rows, NEW ds, NEW t \in Int, NEW clock,
         NEW i \in ClaimsForViewer(rows, ds, Ask(t, None, None), clock)
  PROVE  /\ i \in DOMAIN rows /\ InForce(rows[i])
         /\ StartOf(rows[i].from, rows[i].grain) <= t /\ rows[i].to > t
<1>1. t # None BY DEF Proper
<1>2. PICK q : q = Ask(t, None, None) OBVIOUS
<1>3. q.asOf = t /\ q.believed = None /\ q.grain = None BY <1>2 DEF Ask
<1>4. QueryPoint(q, clock) = [at |-> t, grain |-> "unknown"]
  BY <1>1, <1>3 DEF QueryPoint
<1>5. ReadStatuses(q) = {"active", "superseded"} BY <1>1, <1>3 DEF ReadStatuses
<1>6. /\ i \in DOMAIN rows /\ rows[i].status \in ReadStatuses(q)
      /\ Matches(rows[i], QueryPoint(q, clock))
  BY <1>2 DEF ClaimsForViewer
<1> QED BY <1>4, <1>5, <1>6 DEF Matches, IsCoarse, InForce

\* Whatever a current read reports is a value.
LEMMA CurrentValues ==
  ASSUME NEW rows \in Seq(RowType), NEW ds, NEW clock
  PROVE  Current(rows, ds, clock) \in SUBSET Values
<1>1. \A i \in DOMAIN rows : rows[i].obj \in Values
  <2>1. \A i \in DOMAIN rows : rows[i] \in RowType OBVIOUS
  <2> QED BY <2>1 DEF RowType
<1> QED BY <1>1 DEF Current, ClaimsForViewer

\* At the instant of a step the row a current read finds is the row that a
\* belief read of that instant will find.
LEMMA PresentIsBelieved ==
  ASSUME Proper, NEW ds, NEW c \in RowType, NEW t \in Int, t <= Horizon, RowOK(c, ds, t + 1)
  PROVE  HoldsAt(c, t) <=> CurrentAt(c, t)
<1>1. Open > t BY DEF Proper, Open
<1>2. c.recorded \in Int /\ c.invalidated \in Int BY DEF RowType
<1>3. c.recorded <= t BY <1>2 DEF RowOK
<1>4. c.status = "superseded" => ~(c.invalidated > t) BY <1>2 DEF RowOK
<1>5. c.status = "active" => c.invalidated > t BY <1>1 DEF RowOK
<1> QED BY <1>3, <1>4, <1>5 DEF HoldsAt, CurrentAt, InForce

\* A row that was in force at t, before the evidence of a later time came, is
\* in force at t afterwards, and no other row has come to be.
LEMMA PastStays ==
  ASSUME Proper, Types, RowsOK(claims, docs, now), Tidy(docs),
         NEW v \in Values, NEW d \in Docs, NEW w \in Window, w.from <= w.to,
         NEW sure \in BOOLEAN, NEW ds, NEW rows, NEW after, NEW i,
         NEW t \in Int, t < now, w.from > t,
         NEW j \in DOMAIN claims, Changed(after, rows, i, j, d, v, w, sure),
         RowUnrevised(after[j], ds), \A e \in claims[j].docs : ds[e] = docs[e]
  PROVE  HoldsAt(after[j], t) <=> HoldsAt(claims[j], t)
<1>1. now \in Int /\ Horizon \in Nat /\ now <= Horizon + 1 /\ claims[j] \in RowType
  BY DEF Types, Proper
<1>2. PICK c \in RowType : c = claims[j] BY <1>1
<1>3. RowOK(c, docs, now) /\ FreshRow(c, docs) BY <1>2 DEF RowsOK
<1>4. /\ c.from \in Int /\ c.to \in Int /\ c.recorded \in Int /\ c.invalidated \in Int
      /\ c.grain \in Grains /\ w.from \in Int /\ w.to \in Int
  BY DEF RowType, Window
<1>5. CASE after[j] = c BY <1>2, <1>5
<1>6. CASE c.status \in {"proposed", "active"} /\ after[j] = Merged(c, d, w, sure)
           /\ after[j].status = c.status
  <2>1. PICK a : a = after[j] OBVIOUS
  <2>2. /\ a.status = c.status /\ a.from = c.from /\ a.recorded = c.recorded
        /\ a.to = (IF c.to = Open THEN w.to ELSE c.to) /\ a.grain \in Grains
        /\ a.invalidated = c.invalidated
    BY <1>1, <1>6, <2>1, MergedFields
  <2>3. CASE c.recorded <= t
    <3>1. c.from <= t BY <1>3, <1>4, <2>3 DEF RowOK
    <3>2. StartOf(c.from, c.grain) <= t
      <4>1. StartOf(c.from, c.grain) \in Int /\ StartOf(c.from, c.grain) <= c.from
        BY <1>4, StartBefore
      <4> QED BY <1>4, <3>1, <4>1
    <3>3. StartOf(a.from, a.grain) <= t
      <4>1. StartOf(c.from, a.grain) \in Int /\ StartOf(c.from, a.grain) <= c.from
        BY <1>4, <2>2, StartBefore
      <4> QED BY <1>4, <2>2, <3>1, <4>1
    <3>4. a.to > t <=> c.to > t
      <4>1. w.to > t BY <1>4
      <4>2. Open > t BY <1>1 DEF Open, Proper
      <4> QED BY <2>2, <4>1, <4>2
    <3> QED BY <1>2, <2>1, <2>2, <3>2, <3>3, <3>4 DEF HoldsAt, InForce
  <2>4. CASE ~(c.recorded <= t) BY <1>2, <2>1, <2>2, <2>4 DEF HoldsAt
  <2> QED BY <2>3, <2>4
<1>7. CASE /\ c.status = "active" /\ rows[i] = NewClaim(v, d, w, sure)
           /\ after[j] = Superseded(c, rows[i])
  <2>1. PICK a : a = after[j] OBVIOUS
  <2>2. rows[i] \in RowType /\ rows[i].from = w.from BY <1>1, <1>7, NewFields
  <2>3. /\ a.status = "superseded" /\ a.docs = c.docs /\ a.from = c.from /\ a.to = w.from
        /\ a.grain = c.grain /\ a.recorded = c.recorded /\ a.invalidated = now
    BY <1>1, <1>7, <2>1, <2>2, SupersededFields
  <2>4. \A e \in c.docs : docs[e].said.to = Open
    BY <1>2, <2>1, <2>3 DEF RowUnrevised
  <2>5. c.to = Open BY <1>3, <1>7, <2>4 DEF FreshRow
  <2>6. c.invalidated = Open BY <1>3, <1>7 DEF RowOK
  <2>7. Open > t /\ w.from > t /\ now > t BY <1>1 DEF Open, Proper
  <2> QED BY <1>2, <1>7, <2>1, <2>3, <2>5, <2>6, <2>7 DEF HoldsAt, InForce
<1> QED BY <1>2, <1>5, <1>6, <1>7 DEF Changed

-----------------------------------------------------------------------------
(* Rivals take turns                                                       *)

\* In a history without ends an active row is open.
LEMMA OpenEnded ==
  ASSUME Proper, NEW ds, NoEnds(ds), NEW c \in RowType, NEW n \in Int,
         c.docs \subseteq Docs, RowOK(c, ds, n), FreshRow(c, ds), c.status = "active"
  PROVE  c.to = Open
<1>1. ASSUME NEW d \in c.docs PROVE ds[d].said.to = Open
  <2>1. ds[d].event # None /\ ds[d].said # None BY DEF RowOK, Arrived, Proper
  <2>2. ds[d] # NoDoc BY <2>1 DEF NoDoc
  <2> QED BY <2>1, <2>2 DEF NoEnds
<1> QED BY <1>1 DEF FreshRow

LEMMA ApartKept ==
  ASSUME Proper, Types, RowsOK(claims, docs, now), OneActive(claims), InTurn,
         NEW v \in Values, NEW d \in Docs, NEW t \in Int, NEW w \in Window, w # None,
         w.from <= now,
         NEW sure \in BOOLEAN, NEW ds, Arrival(ds, d, t, w, sure), docs[d] = NoDoc,
         NEW rows, NEW i, Stores(rows, i, d, v, w, sure),
         NEW after \in Seq(RowType),
         Untouched(rows, after, i) \/ \E k \in DOMAIN rows : Closes(rows, after, i, k),
         RowsUnrevised(after, ds), EndsAtStart(after), OneActive(after),
         InSequence(after), NoEnds(ds)
  PROVE  Apart(after)
<1>1. /\ now \in Int /\ rows \in Seq(RowType) /\ i \in DOMAIN rows /\ Horizon \in Nat
      /\ Horizon > 0 /\ now <= Horizon + 1 /\ claims \in Seq(RowType)
  BY DEF Types, Stores, Proper
<1>2. /\ RowsUnrevised(claims, docs)
      /\ \A j \in DOMAIN claims : Changed(after, rows, i, j, d, v, w, sure)
  BY History
<1>3. DOMAIN after = DOMAIN rows /\ \A j \in DOMAIN rows : ClosedRow(rows, after, j)
  BY <1>1, ClosedTable
<1>4. Grown(rows) BY <1>1, StoredTable
<1>5. \A j \in DOMAIN claims :
        j \in DOMAIN after /\ after[j].from = claims[j].from /\ after[j].obj = claims[j].obj
  BY <1>3, <1>4 DEF ClosedRow, Grown
<1>6. InSequence(claims) BY <1>5 DEF InSequence
<1>7. NoEnds(docs) /\ w.to = Open
  <2>1. \A e \in Docs : e # d => ds[e] = docs[e] BY DEF Arrival, Types
  <2>2. ds[d].said = w /\ ds[d].event = t BY DEF Arrival, Types
  <2>3. ds[d] # NoDoc BY <2>2 DEF Proper, NoDoc
  <2>4. w.to = Open BY <2>2, <2>3 DEF NoEnds
  <2>5. NoEnds(docs) BY <2>1 DEF NoEnds
  <2> QED BY <2>4, <2>5
<1>8. Apart(claims) BY <1>2, <1>6, <1>7, UnrevisedRows DEF InTurn
<1>9. ASSUME NEW j \in DOMAIN claims, InForce(after[j])
      PROVE  /\ InForce(claims[j])
             /\ after[j].to = claims[j].to \/ claims[j].to = Open
  <2>1. claims[j] \in RowType BY <1>1
  <2>2. CASE after[j] = claims[j] BY <1>9, <2>2
  <2>3. CASE /\ after[j] = Merged(claims[j], d, w, sure)
             /\ after[j].status = claims[j].status
    <3>1. after[j].to = IF claims[j].to = Open THEN w.to ELSE claims[j].to
      BY <1>1, <2>1, <2>3, MergedFields
    <3> QED BY <1>7, <1>9, <2>3, <3>1 DEF InForce
  <2>4. CASE claims[j].status = "active"
    <3>1. RowOK(claims[j], docs, now) /\ FreshRow(claims[j], docs)
      BY <1>2 DEF RowsOK, RowsUnrevised
    <3>2. claims[j].to = Open BY <1>1, <1>7, <2>1, <2>4, <3>1, OpenEnded DEF RowType
    <3> QED BY <2>4, <3>2 DEF InForce
  <2> QED BY <1>2, <2>2, <2>3, <2>4 DEF Changed
<1>10. ASSUME NEW j \in DOMAIN claims PROVE claims[j].from \in Int /\ Open > claims[j].from
  <2>1. claims[j] \in RowType /\ RowOK(claims[j], docs, now) BY <1>1 DEF RowsOK
  <2> QED BY <1>1, <2>1 DEF RowOK, RowType, Open
<1>11. SUFFICES ASSUME NEW a \in DOMAIN after, NEW b \in DOMAIN after, a < b,
                       InForce(after[a]), InForce(after[b]), Rivals(after, a, b)
                PROVE  after[a].to <= after[b].from \/ after[b].to <= after[b].from
  BY DEF Apart
<1>12. CASE b \in DOMAIN claims
  <2>1. a \in DOMAIN claims
    <3>1. DOMAIN claims = 1 .. Len(claims) /\ DOMAIN after = 1 .. Len(after) BY <1>1
    <3> QED BY <1>11, <1>12, <3>1
  <2>2. Rivals(claims, a, b) BY <1>5, <1>11, <1>12, <2>1 DEF Rivals
  <2>3. InForce(claims[a]) /\ InForce(claims[b]) BY <1>9, <1>11, <1>12, <2>1
  <2>4. claims[a].to <= claims[b].from \/ claims[b].to <= claims[b].from
    BY <1>8, <1>11, <1>12, <2>1, <2>2, <2>3 DEF Apart
  <2>5. claims[b].from \in Int /\ Open > claims[b].from /\ Open \in Int
    BY <1>1, <1>10, <1>12 DEF Open
  <2>6. CASE claims[a].to <= claims[b].from
    <3>1. claims[a].to # Open BY <2>5, <2>6
    <3>2. after[a].to = claims[a].to BY <1>9, <1>11, <2>1, <3>1
    <3> QED BY <1>5, <1>12, <2>6, <3>2
  <2>7. CASE claims[b].to <= claims[b].from
    <3>1. claims[b].to # Open BY <2>5, <2>7
    <3>2. after[b].to = claims[b].to BY <1>9, <1>11, <1>12, <3>1
    <3> QED BY <1>5, <1>12, <2>7, <3>2
  <2> QED BY <2>4, <2>6, <2>7
<1>13. CASE b \notin DOMAIN claims
  <2>1. \A k \in DOMAIN after : k < b \/ k = b
    <3>1. DOMAIN rows = DOMAIN claims \cup {i} /\ i = Len(claims) + 1 /\ b = i
      BY <1>3, <1>13 DEF Stores
    <3>2. DOMAIN claims = 1 .. Len(claims) BY <1>1
    <3> QED BY <1>1, <1>3, <3>1, <3>2
  <2>2. \A k \in DOMAIN after : after[k].from <= after[b].from
    <3>1. after[b].from \in Int
      <4>1. after[b] \in RowType OBVIOUS
      <4> QED BY <4>1 DEF RowType
    <3> QED BY <2>1, <3>1 DEF InSequence
  <2>3. ASSUME NEW j \in DOMAIN after, after[j].status = "superseded"
        PROVE  after[j].to <= after[b].from
    BY <2>2, <2>3 DEF EndsAtStart
  <2>4. after[a].status = "superseded" \/ after[b].status = "superseded"
    BY <1>11 DEF OneActive, InForce
  <2> QED BY <2>3, <2>4
<1> QED BY <1>12, <1>13

-----------------------------------------------------------------------------
(* Beliefs are replayed                                                    *)

ObjectsAt(rows, t) == {rows[i].obj : i \in {j \in DOMAIN rows : HoldsAt(rows[j], t)}}

\* Settled, of any documents.
SettledIn(ds, t) ==
  \A d \in Docs : ds[d] # NoDoc /\ ds[d].updated > t /\ ds[d].said # None
                    => ds[d].said.from > t

\* What is known of the past afterwards was known before.
KnownBefore(rows, t) ==
  \A j \in DOMAIN rows : KnownAt(rows[j], t) =>
    j \in DOMAIN claims /\ rows[j].obj = claims[j].obj /\ KnownAt(claims[j], t)

\* A step that changes no past belief, unless it revises or unsettles it.
PastKept(rows, ds) ==
  RowsUnrevised(rows, ds) =>
    /\ RowsUnrevised(claims, docs)
    /\ \A t \in Int : t < now => KnownBefore(rows, t)
    /\ \A t \in Int : t < now /\ SettledIn(ds, t) =>
         SettledIn(docs, t) /\ ObjectsAt(rows, t) = ObjectsAt(claims, t)

LEMMA ReplaysKept ==
  ASSUME Proper, Types, RowsOK(claims, docs, now), BeliefReplays, now <= Horizon,
         NEW rows \in Seq(RowType), NEW ds \in [Docs -> DocType],
         RowsOK(rows, ds, now + 1), Recorded(rows, ds), PastKept(rows, ds)
  PROVE  BeliefReplays'
<1>1. claims' = rows /\ docs' = ds /\ now' = now + 1
      /\ log' = Append(log, Current(rows, ds, now))
  BY DEF Recorded
<1>2. now \in Int /\ 0 <= now /\ log \in Seq(SUBSET Values) /\ Len(log) = now
      /\ claims \in Seq(RowType) /\ docs \in [Docs -> DocType]
  BY DEF Types
<1>3. SUFFICES ASSUME RowsUnrevised(rows, ds), NEW t \in 0 .. now, SettledIn(ds, t)
               PROVE  BelievedAt(t)' = log'[t + 1]
  <2>1. Unrevised' <=> RowsUnrevised(rows, ds)
    BY <1>1 DEF Unrevised, RowsUnrevised, RowUnrevised, Tidy
  <2>2. Past' = 0 .. now BY <1>1, <1>2 DEF Past
  <2>3. \A t \in Past' : Settled(t)' <=> SettledIn(ds, t) BY <1>1 DEF Settled, SettledIn
  <2>4. \A t \in Past' : Reported(t)' = log'[t + 1] BY DEF Reported
  <2> QED BY <1>3, <2>1, <2>2, <2>3, <2>4 DEF BeliefReplays
<1>4. Tidy(ds) /\ Tidy(docs) BY <1>3 DEF RowsUnrevised, PastKept
<1>5. t \in Int /\ t <= now BY <1>2
<1>6. BelievedAt(t)' = ObjectsAt(rows, t)
  <2>1. BelievedAt(t)' =
          {rows[i].obj : i \in ClaimsForViewer(rows, ds, Ask(None, t, None), now + 1)}
    BY <1>1 DEF BelievedAt, BelievedRows, Objects
  <2>2. now + 1 \in Int BY <1>2
  <2>3. ClaimsForViewer(rows, ds, Ask(None, t, None), now + 1) =
          {i \in DOMAIN rows : HoldsAt(rows[i], t)}
    BY <1>4, <1>5, <2>2, BeliefRead
  <2> QED BY <2>1, <2>3 DEF ObjectsAt
<1>7. CASE t = now
  <2>1. log'[t + 1] = Current(rows, ds, now)
    <3>1. PICK x : x = Current(rows, ds, now) OBVIOUS
    <3>2. x \in SUBSET Values BY <3>1, CurrentValues
    <3> QED BY <1>1, <1>2, <1>7, <3>1, <3>2
  <2>2. now + 1 \in Int BY <1>2
  <2>3. Current(rows, ds, now) =
          {rows[i].obj : i \in {j \in DOMAIN rows : CurrentAt(rows[j], now)}}
    BY <1>2, <1>4, <2>2, CurrentRead
  <2>4. \A j \in DOMAIN rows : HoldsAt(rows[j], now) <=> CurrentAt(rows[j], now)
    <3> SUFFICES ASSUME NEW j \in DOMAIN rows
                 PROVE  HoldsAt(rows[j], now) <=> CurrentAt(rows[j], now)
      OBVIOUS
    <3>1. rows[j] \in RowType /\ RowOK(rows[j], ds, now + 1) BY DEF RowsOK
    <3> QED BY <1>2, <3>1, PresentIsBelieved
  <2> QED BY <1>6, <1>7, <2>1, <2>3, <2>4 DEF ObjectsAt
<1>8. CASE t < now
  <2>1. Unrevised /\ SettledIn(docs, t) /\ ObjectsAt(rows, t) = ObjectsAt(claims, t)
    BY <1>3, <1>5, <1>8, UnrevisedRows DEF PastKept
  <2>2. t \in Past /\ Settled(t) BY <1>2, <1>8, <2>1 DEF Past, Settled, SettledIn
  <2>3. BelievedAt(t) = Reported(t) BY <2>1, <2>2 DEF BeliefReplays
  <2>4. BelievedAt(t) = ObjectsAt(claims, t)
    <3>1. ClaimsForViewer(claims, docs, Ask(None, t, None), now) =
            {i \in DOMAIN claims : HoldsAt(claims[i], t)}
      BY <1>2, <1>4, <1>5, BeliefRead
    <3> QED BY <3>1 DEF BelievedAt, BelievedRows, Objects, ObjectsAt
  <2>5. log'[t + 1] = log[t + 1]
    <3>1. PICK x : x = Current(rows, ds, now) OBVIOUS
    <3>2. x \in SUBSET Values BY <3>1, CurrentValues
    <3> QED BY <1>1, <1>2, <1>8, <3>1, <3>2
  <2> QED BY <1>6, <2>1, <2>3, <2>4, <2>5 DEF Reported
<1> QED BY <1>2, <1>5, <1>7, <1>8

\* What is known at t and after t is one row of a slot, if it was so at t.
LEMMA StillOne ==
  ASSUME NEW rows, NEW t, KnownBefore(rows, t), OneKnown(claims, t)
  PROVE  OneKnown(rows, t)
BY DEF KnownBefore, OneKnown, Rivals

\* Of two rivals one at most is known: of the past because a step keeps it, at
\* the instant of the step because one is active.
LEMMA OnceKept ==
  ASSUME Proper, Types, KnownOnce, now <= Horizon,
         NEW rows \in Seq(RowType), NEW ds \in [Docs -> DocType],
         RowsOK(rows, ds, now + 1), OneActive(rows),
         Recorded(rows, ds), PastKept(rows, ds)
  PROVE  KnownOnce'
<1>1. claims' = rows /\ docs' = ds /\ now' = now + 1 BY DEF Recorded
<1>2. now \in Int /\ 0 <= now BY DEF Types
<1>3. SUFFICES ASSUME RowsUnrevised(rows, ds), NEW t \in 0 .. now
               PROVE  OneKnown(rows, t)
  <2>1. Unrevised' <=> RowsUnrevised(rows, ds)
    BY <1>1 DEF Unrevised, RowsUnrevised, RowUnrevised, Tidy
  <2>2. Past' = 0 .. now BY <1>1, <1>2 DEF Past
  <2> QED BY <1>1, <1>3, <2>1, <2>2 DEF KnownOnce
<1>4. t \in Int /\ t <= now BY <1>2
<1>5. CASE t = now
  <2>1. ASSUME NEW j \in DOMAIN rows, KnownAt(rows[j], now) PROVE rows[j].status = "active"
    <3>1. rows[j] \in RowType /\ RowOK(rows[j], ds, now + 1) BY DEF RowsOK
    <3>2. rows[j].invalidated \in Int BY <3>1 DEF RowType
    <3> QED BY <1>2, <2>1, <3>1, <3>2 DEF KnownAt, InForce, RowOK
  <2> QED BY <1>5, <2>1 DEF OneActive, OneKnown
<1>6. CASE t < now
  <2>1. Unrevised /\ KnownBefore(rows, t)
    BY <1>3, <1>4, <1>6, UnrevisedRows DEF PastKept
  <2>2. t \in Past BY <1>2, <1>6 DEF Past
  <2>3. OneKnown(claims, t) BY <2>1, <2>2 DEF KnownOnce
  <2> QED BY <2>1, <2>3, StillOne
<1> QED BY <1>2, <1>4, <1>5, <1>6

\* What became of a row without a revision: what is known of it at a past t was
\* known before.
LEMMA KnownStays ==
  ASSUME Proper, Types, RowsOK(claims, docs, now),
         NEW v \in Values, NEW d \in Docs, NEW w \in Window,
         NEW sure \in BOOLEAN, NEW rows, NEW after, NEW i,
         NEW t \in Int, t < now,
         NEW j \in DOMAIN claims, Changed(after, rows, i, j, d, v, w, sure),
         KnownAt(after[j], t)
  PROVE  KnownAt(claims[j], t)
<1>1. now \in Int /\ Horizon \in Nat /\ now <= Horizon + 1 /\ claims[j] \in RowType
  BY DEF Types, Proper
<1>2. PICK c \in RowType : c = claims[j] BY <1>1
<1>3. RowOK(c, docs, now) BY <1>2 DEF RowsOK
<1>4. CASE after[j] = c BY <1>2, <1>4
<1>5. CASE c.status \in {"proposed", "active"} /\ after[j] = Merged(c, d, w, sure)
           /\ after[j].status = c.status
  <2>1. PICK a : a = after[j] OBVIOUS
  <2>2. /\ a.status = c.status /\ a.recorded = c.recorded
        /\ a.invalidated = c.invalidated
    BY <1>1, <1>5, <2>1, MergedFields
  <2> QED BY <1>2, <2>1, <2>2 DEF KnownAt, InForce
<1>6. CASE /\ c.status = "active" /\ rows[i] = NewClaim(v, d, w, sure)
           /\ after[j] = Superseded(c, rows[i])
  <2>1. PICK a : a = after[j] OBVIOUS
  <2>2. rows[i] \in RowType BY <1>1, <1>6, NewFields
  <2>3. a.recorded = c.recorded BY <1>1, <1>6, <2>1, <2>2, SupersededFields
  <2>4. c.invalidated = Open BY <1>3, <1>6 DEF RowOK
  <2>5. Open > t BY <1>1 DEF Open, Proper
  <2> QED BY <1>2, <1>6, <2>1, <2>3, <2>4, <2>5 DEF KnownAt, InForce
<1> QED BY <1>2, <1>4, <1>5, <1>6 DEF Changed

\* The arrival of a document changes no belief of the time before what it says.
LEMMA ApplyPast ==
  ASSUME Proper, Types, RowsOK(claims, docs, now), OneActive(claims),
         NEW v \in Values, NEW d \in Docs, NEW u \in Int, NEW w \in Window, w # None,
         w.from <= now, w.from <= w.to,
         NEW sure \in BOOLEAN, NEW ds, Arrival(ds, d, u, w, sure), docs[d] = NoDoc,
         NEW rows, NEW i, Stores(rows, i, d, v, w, sure),
         NEW after,
         Untouched(rows, after, i) \/ \E k \in DOMAIN rows : Closes(rows, after, i, k)
  PROVE  PastKept(after, ds)
<1>1. SUFFICES ASSUME RowsUnrevised(after, ds)
               PROVE  /\ RowsUnrevised(claims, docs)
                      /\ \A t \in Int : t < now => KnownBefore(after, t)
                      /\ \A t \in Int : t < now /\ SettledIn(ds, t) =>
                           SettledIn(docs, t) /\ ObjectsAt(after, t) = ObjectsAt(claims, t)
  BY DEF PastKept
<1>2. /\ now \in Int /\ rows \in Seq(RowType) /\ i \in DOMAIN rows /\ Horizon \in Nat
      /\ claims \in Seq(RowType)
  BY DEF Types, Stores, Proper
<1>3. /\ RowsUnrevised(claims, docs)
      /\ \A j \in DOMAIN claims : Changed(after, rows, i, j, d, v, w, sure)
  BY <1>1, History
<1>4. DOMAIN after = DOMAIN rows /\ \A j \in DOMAIN rows : ClosedRow(rows, after, j)
  BY <1>2, ClosedTable
<1>5. Grown(rows) BY <1>2, StoredTable
<1>6. \A e \in Docs : e # d => ds[e] = docs[e] BY DEF Arrival, Types
<1>7. ds[d].said = w /\ ds[d].event = u /\ ds[d].updated = now BY DEF Arrival, Types
<1>8. ds[d] # NoDoc BY <1>7 DEF Proper, NoDoc
<1>9. ASSUME NEW j \in DOMAIN after, j \notin DOMAIN claims
       PROVE  after[j].recorded = now
  <2>1. j = i /\ rows[i] = NewClaim(v, d, w, sure)
    BY <1>2, <1>4, <1>9, StoredTable DEF Stores
  <2>2. rows[i].recorded = now BY <1>2, <2>1, NewFields
  <2> QED BY <1>2, <1>4, <2>1, <2>2 DEF ClosedRow
<1>10. ASSUME NEW t \in Int, t < now PROVE KnownBefore(after, t)
  <2> SUFFICES ASSUME NEW j \in DOMAIN after, KnownAt(after[j], t)
               PROVE  /\ j \in DOMAIN claims /\ after[j].obj = claims[j].obj
                      /\ KnownAt(claims[j], t)
    BY DEF KnownBefore
  <2>1. j \in DOMAIN claims BY <1>2, <1>9, <1>10 DEF KnownAt
  <2>2. after[j].obj = claims[j].obj BY <1>4, <1>5, <2>1 DEF ClosedRow, Grown
  <2>3. Changed(after, rows, i, j, d, v, w, sure) BY <1>3, <2>1
  <2>4. KnownAt(claims[j], t) BY <1>10, <2>1, <2>3, KnownStays
  <2> QED BY <2>1, <2>2, <2>4
<1>11. SUFFICES ASSUME NEW t \in Int, t < now, SettledIn(ds, t)
               PROVE  SettledIn(docs, t) /\ ObjectsAt(after, t) = ObjectsAt(claims, t)
  BY <1>3, <1>10
<1>12. w.from > t BY <1>2, <1>7, <1>8, <1>11 DEF SettledIn
<1>13. SettledIn(docs, t) BY <1>6, <1>11 DEF SettledIn
<1>14. ASSUME NEW j \in DOMAIN claims
       PROVE  /\ j \in DOMAIN after /\ after[j].obj = claims[j].obj
              /\ HoldsAt(after[j], t) <=> HoldsAt(claims[j], t)
  <2>1. j \in DOMAIN after /\ after[j].obj = claims[j].obj
    BY <1>4, <1>5 DEF ClosedRow, Grown
  <2>2. claims[j] \in RowType /\ RowOK(claims[j], docs, now) BY <1>2 DEF RowsOK
  <2>3. d \notin claims[j].docs /\ claims[j].docs \subseteq Docs
    BY <1>2, <2>2, BackedByOthers DEF RowType
  <2>4. \A e \in claims[j].docs : ds[e] = docs[e] BY <1>6, <2>3
  <2>5. RowUnrevised(after[j], ds) /\ Tidy(docs)
    BY <1>1, <1>3, <2>1 DEF RowsUnrevised
  <2>6. Changed(after, rows, i, j, d, v, w, sure) BY <1>3
  <2>7. HoldsAt(after[j], t) <=> HoldsAt(claims[j], t)
    BY <1>11, <1>12, <2>4, <2>5, <2>6, PastStays
  <2> QED BY <2>1, <2>7
<1>15. ASSUME NEW j \in DOMAIN after, j \notin DOMAIN claims
       PROVE  ~HoldsAt(after[j], t)
  BY <1>2, <1>11, <1>15, <1>9 DEF HoldsAt
<1>16. ObjectsAt(after, t) = ObjectsAt(claims, t)
  <2>1. \A x : x \in ObjectsAt(after, t) <=>
               \E j \in DOMAIN after : HoldsAt(after[j], t) /\ x = after[j].obj
    BY DEF ObjectsAt
  <2>2. \A x : x \in ObjectsAt(claims, t) <=>
               \E j \in DOMAIN claims : HoldsAt(claims[j], t) /\ x = claims[j].obj
    BY DEF ObjectsAt
  <2>3. \A x : x \in ObjectsAt(after, t) <=> x \in ObjectsAt(claims, t)
    BY <1>14, <1>15, <2>1, <2>2
  <2> QED BY <2>3 DEF ObjectsAt
<1> QED BY <1>13, <1>16

-----------------------------------------------------------------------------
(* Steps                                                                   *)

LEMMA Initial == Proper /\ Init => IInv
<1> SUFFICES ASSUME Proper, Init PROVE IInv OBVIOUS
<1>1. Horizon \in Nat BY DEF Proper
<1>2. claims = <<>> /\ DOMAIN claims = {} /\ now = 0 /\ log = <<>> BY DEF Init
<1>3. docs \in [Docs -> DocType]
  <2>1. NoDoc \in DocType BY DEF NoDoc, DocType
  <2> QED BY <2>1 DEF Init
<1>4. Types BY <1>1, <1>2, <1>3 DEF Types
<1>5. RowsOK(claims, docs, now) /\ EndsAtStart(claims) /\ OneActive(claims)
  BY <1>2 DEF RowsOK, EndsAtStart, OneActive
<1>6. BeliefReplays /\ KnownOnce BY <1>2 DEF BeliefReplays, KnownOnce, Past
<1>7. InTurn BY <1>2 DEF InTurn, Apart
<1> QED BY <1>4, <1>5, <1>6, <1>7 DEF IInv

\* A step that records typed rows and documents keeps the types.
LEMMA RecordedTypes ==
  ASSUME Types, Proper, now <= Horizon, NEW rows \in Seq(RowType),
         NEW ds \in [Docs -> DocType], Recorded(rows, ds)
  PROVE  Types'
<1>1. claims' = rows /\ docs' = ds /\ now' = now + 1
      /\ log' = Append(log, Current(rows, ds, now))
  BY DEF Recorded
<1>2. PICK x : x = Current(rows, ds, now) OBVIOUS
<1>3. x \in SUBSET Values BY <1>2, CurrentValues
<1>4. log \in Seq(SUBSET Values) /\ Len(log) = now /\ now \in Nat /\ Horizon \in Nat
  BY DEF Types, Proper
<1>5. log' \in Seq(SUBSET Values) /\ Len(log') = now + 1 BY <1>1, <1>2, <1>3, <1>4
<1>6. now' \in 0 .. Horizon + 1 BY <1>1, <1>4
<1> QED BY <1>1, <1>5, <1>6 DEF Types

\* Time passes, or a document comes of which nothing is kept.
LEMMA IdleInv ==
  ASSUME Proper, IInv, now <= Horizon, NEW ds \in [Docs -> DocType],
         Recorded(claims, ds), Tidy(ds) <=> Tidy(docs),
         \A d \in Docs : ds[d] # docs[d] =>
           docs[d] = NoDoc /\ (ds[d] = NoDoc \/ ds[d].said = None)
  PROVE  IInv'
<1>1. Types /\ claims \in Seq(RowType) /\ now \in Int BY DEF IInv, Types
<1>2. claims' = claims /\ docs' = ds /\ now' = now + 1 BY DEF Recorded
<1>3. \A i \in DOMAIN claims : claims[i] \in RowType BY <1>1
<1>4. ASSUME NEW i \in DOMAIN claims, NEW e \in claims[i].docs PROVE ds[e] = docs[e]
  <2>1. RowOK(claims[i], docs, now) BY DEF IInv, RowsOK
  <2>2. e \in Docs BY <1>3 DEF RowType
  <2>3. docs[e] # NoDoc BY <2>1 DEF RowOK, Arrived, NoDoc, Proper
  <2> QED BY <2>2, <2>3
<1>5. RowsOK(claims, ds, now + 1)
  <2> SUFFICES ASSUME NEW i \in DOMAIN claims
               PROVE  /\ RowOK(claims[i], ds, now + 1)
                      /\ Tidy(ds) => FreshRow(claims[i], ds)
    BY DEF RowsOK
  <2>1. RowOK(claims[i], docs, now) /\ (Tidy(docs) => FreshRow(claims[i], docs))
    BY DEF IInv, RowsOK
  <2>2. claims[i] \in RowType BY <1>3
  <2>3. RowOK(claims[i], ds, now + 1)
    <3>1. \A e \in claims[i].docs : Arrived(ds[e], now + 1)
      <4>1. \A e \in claims[i].docs : Arrived(docs[e], now) BY <2>1 DEF RowOK
      <4> QED BY <1>1, <1>4, <4>1 DEF Arrived
    <3>2. claims[i].recorded \in Int /\ claims[i].invalidated \in Int
      BY <2>2 DEF RowType
    <3> QED BY <1>1, <2>1, <3>1, <3>2 DEF RowOK
  <2>4. Tidy(ds) => FreshRow(claims[i], ds) BY <1>4, <2>1 DEF FreshRow
  <2> QED BY <2>3, <2>4
<1>6. RowsUnrevised(claims, ds) => RowsUnrevised(claims, docs)
  BY <1>4 DEF RowsUnrevised, RowUnrevised
<1>7. \A t \in Int : SettledIn(ds, t) => SettledIn(docs, t)
  BY DEF SettledIn
<1>8. NoEnds(ds) => NoEnds(docs) BY DEF NoEnds
<1>9. PastKept(claims, ds) BY <1>6, <1>7 DEF PastKept, KnownBefore
<1>10. BeliefReplays' /\ KnownOnce'
  BY <1>1, <1>5, <1>9, ReplaysKept, OnceKept DEF IInv
<1>11. InTurn'
  <2>1. Unrevised' <=> RowsUnrevised(claims, ds)
    BY <1>2 DEF Unrevised, RowsUnrevised, RowUnrevised, Tidy
  <2>2. InSequence(claims) /\ NoEnds(ds) /\ RowsUnrevised(claims, ds) => Apart(claims)
    BY <1>6, <1>8, UnrevisedRows DEF IInv, InTurn
  <2> QED BY <1>2, <2>1, <2>2 DEF InTurn
<1>12. Types' BY <1>1, RecordedTypes DEF IInv
<1>13. RowsOK(claims', docs', now') /\ EndsAtStart(claims') /\ OneActive(claims')
  BY <1>2, <1>5 DEF IInv
<1> QED BY <1>10, <1>11, <1>12, <1>13 DEF IInv

LEMMA TickInv == ASSUME Proper, IInv, now <= Horizon, Tick PROVE IInv'
BY IdleInv DEF Tick, IInv, Types

LEMMA ApplyInv ==
  ASSUME Proper, IInv, now <= Horizon, NEW d \in Docs, NEW v \in Values,
         NEW s \in Shapes, NEW lag \in Lags, Apply(d, v, s, lag)
  PROVE  IInv'
<1>1. /\ Types /\ RowsOK(claims, docs, now) /\ EndsAtStart(claims) /\ OneActive(claims)
      /\ BeliefReplays /\ KnownOnce /\ InTurn /\ now \in Int /\ Horizon \in Nat
  BY DEF IInv, Types, Proper
<1>2. PICK w, ds :
        /\ docs[d] = NoDoc /\ docs' = ds
        /\ w = None \/ (w \in Window /\ w.from <= now /\ w.from <= w.to)
        /\ Arrival(ds, d, now - lag, w, s.sure)
        /\ now - lag \in Int /\ s.sure \in BOOLEAN
        /\ IF w = None THEN Recorded(claims, ds)
           ELSE \E rows, i : /\ Stores(rows, i, d, v, w, s.sure)
                             /\ \/ Untouched(rows, claims', i)
                                \/ \E k \in DOMAIN rows : Closes(rows, claims', i, k)
                             /\ Recorded(claims', ds)
  BY <1>1, ApplyShape
<1>3. PICK u \in Int, sure \in BOOLEAN : u = now - lag /\ sure = s.sure BY <1>2
<1>4. Arrival(ds, d, u, w, sure) BY <1>2, <1>3
<1>5. w = None \/ w \in Window BY <1>2
<1>6. /\ ds \in [Docs -> DocType]
      /\ ds[d] = [event |-> u, updated |-> now, deleted |-> FALSE, said |-> w,
                  sure |-> sure]
      /\ \A e \in Docs : e # d => ds[e] = docs[e]
      /\ Tidy(ds) <=> Tidy(docs)
  <2>1. docs[d] = NoDoc BY <1>2
  <2> QED BY <1>1, <1>4, <1>5, <2>1, ArrivalDocs
<1>7. CASE w = None
  <2>1. Recorded(claims, ds) BY <1>2, <1>7
  <2>2. \A e \in Docs : ds[e] # docs[e] =>
          docs[e] = NoDoc /\ (ds[e] = NoDoc \/ ds[e].said = None)
    BY <1>2, <1>6, <1>7
  <2> QED BY <1>6, <2>1, <2>2, IdleInv
<1>8. CASE w # None
  <2>1. w \in Window /\ w.from <= now /\ w.from <= w.to /\ docs[d] = NoDoc
    BY <1>2, <1>8
  <2>2. PICK rows, i : /\ Stores(rows, i, d, v, w, sure)
                       /\ \/ Untouched(rows, claims', i)
                          \/ \E k \in DOMAIN rows : Closes(rows, claims', i, k)
                       /\ Recorded(claims', ds)
    BY <1>2, <1>3, <1>8
  <2>3. PICK after : after = claims' OBVIOUS
  <2>4. /\ Untouched(rows, after, i) \/ \E k \in DOMAIN rows : Closes(rows, after, i, k)
        /\ Recorded(after, ds)
    BY <2>2, <2>3
  <2>5. rows \in Seq(RowType) /\ i \in DOMAIN rows BY <2>2 DEF Stores
  <2>6. RowsOK(rows, ds, now + 1) BY <1>1, <1>4, <1>8, <2>1, <2>2, StoredRowsOK
  <2>7. after \in Seq(RowType) /\ RowsOK(after, ds, now + 1)
    BY <1>1, <2>4, <2>5, <2>6, ClosedRowsOK
  <2>8. EndsAtStart(after) BY <1>1, <2>1, <2>2, <2>4, EndsKept
  <2>9. OneActive(after) BY <1>1, <2>1, <2>2, <2>4, OneActiveKept
  <2>10. PastKept(after, ds) BY <1>1, <1>4, <1>8, <2>1, <2>2, <2>4, ApplyPast
  <2>11. BeliefReplays' /\ KnownOnce'
    <3>1. BeliefReplays' BY <1>1, <1>6, <2>4, <2>7, <2>10, ReplaysKept
    <3>2. KnownOnce' BY <1>1, <1>6, <2>4, <2>7, <2>9, <2>10, OnceKept
    <3> QED BY <3>1, <3>2
  <2>12. claims' = after /\ docs' = ds /\ now' = now + 1 BY <2>4 DEF Recorded
  <2>13. InTurn'
    <3>1. InSequence(after) /\ NoEnds(ds) /\ RowsUnrevised(after, ds) => Apart(after)
      BY <1>1, <1>4, <1>8, <2>1, <2>2, <2>4, <2>7, <2>8, <2>9, ApartKept
    <3>2. Unrevised' <=> RowsUnrevised(after, ds)
      BY <2>12 DEF Unrevised, RowsUnrevised, RowUnrevised, Tidy
    <3> QED BY <2>12, <3>1, <3>2 DEF InTurn
  <2>14. Types' BY <1>1, <1>6, <2>4, <2>7, RecordedTypes
  <2> QED BY <2>7, <2>8, <2>9, <2>11, <2>12, <2>13, <2>14 DEF IInv
<1> QED BY <1>7, <1>8

\* A row that loses the evidence of a document.
LEMMA StrippedRow ==
  ASSUME Types, Proper, NEW c \in RowType, RowOK(c, docs, now), NEW d \in Docs
  PROVE  LET m == Stripped(c, d)
         IN  /\ m \in RowType /\ m.obj = c.obj /\ m.from = c.from
             /\ m.recorded = c.recorded /\ m.docs \subseteq c.docs
             /\ m.status = "active" => c.status = "active"
             /\ m.status = "superseded" <=> c.status = "superseded"
             /\ m.status = "superseded" => m = c
             /\ m.status # "retracted" => m.docs # {}
             /\ m.status = "active" => m.invalidated = c.invalidated
<1>1. now \in Int /\ Open \in Int BY DEF Types, Proper, Open
<1>2. PICK m : m = Stripped(c, d) OBVIOUS
<1>3. CASE d \notin c.docs \/ c.status \notin {"proposed", "active"}
  <2>1. m = c BY <1>2, <1>3 DEF Stripped
  <2> QED BY <1>2, <2>1 DEF RowOK
<1>4. CASE d \in c.docs /\ c.status \in {"proposed", "active"} /\ c.docs # {d}
  <2>1. m = [c EXCEPT !.docs = c.docs \ {d}] BY <1>2, <1>4 DEF Stripped
  <2>2. c.docs \ {d} \in SUBSET Docs /\ c.docs \ {d} # {} BY <1>4 DEF RowType
  <2>3. /\ m \in RowType /\ m.obj = c.obj /\ m.from = c.from /\ m.recorded = c.recorded
        /\ m.docs = c.docs \ {d} /\ m.status = c.status /\ m.invalidated = c.invalidated
    BY <2>1, <2>2 DEF RowType
  <2> QED BY <1>2, <1>4, <2>2, <2>3
<1>5. CASE d \in c.docs /\ c.status \in {"proposed", "active"} /\ c.docs = {d}
  <2>1. docs[d].event \in Int BY <1>5 DEF RowOK, Arrived
  <2>2. PICK to \in Int : to = IF c.to = Open THEN docs[d].event ELSE c.to
    BY <2>1 DEF RowType
  <2>3. m = [c EXCEPT !.docs = {}, !.status = "retracted", !.invalidated = now, !.to = to]
    BY <1>2, <1>5, <2>2 DEF Stripped
  <2>4. /\ m \in RowType /\ m.obj = c.obj /\ m.from = c.from /\ m.recorded = c.recorded
        /\ m.docs = {} /\ m.status = "retracted"
    BY <1>1, <2>3 DEF RowType, Statuses
  <2> QED BY <1>2, <1>5, <2>4
<1> QED BY <1>3, <1>4, <1>5

LEMMA DeleteInv ==
  ASSUME Proper, IInv, now <= Horizon, NEW d \in Docs, Delete(d)
  PROVE  IInv'
<1>1. Types /\ RowsOK(claims, docs, now) /\ EndsAtStart(claims) /\ OneActive(claims)
  BY DEF IInv
<1>2. /\ now \in Int /\ claims \in Seq(RowType) /\ docs \in [Docs -> DocType]
  BY <1>1 DEF Types
<1>3. PICK rows, ds : /\ rows = [i \in DOMAIN claims |-> Stripped(claims[i], d)]
                      /\ ds = [docs EXCEPT ![d].deleted = TRUE]
  OBVIOUS
<1>4. Recorded(rows, ds) BY <1>3 DEF Delete
<1>5. claims' = rows /\ docs' = ds /\ now' = now + 1 BY <1>4 DEF Recorded
<1>6. ds \in [Docs -> DocType] /\ ~Tidy(ds)
  <2>1. PICK doc : doc = [docs[d] EXCEPT !.deleted = TRUE] OBVIOUS
  <2>2. doc \in DocType /\ doc.deleted
    <3>1. docs[d] \in DocType BY <1>2
    <3> QED BY <2>1, <3>1 DEF DocType
  <2>3. ds = [docs EXCEPT ![d] = doc] BY <1>3, <2>1
  <2> QED BY <1>2, <2>2, <2>3 DEF Tidy
<1>7. \A e \in Docs : /\ ds[e].event = docs[e].event /\ ds[e].updated = docs[e].updated
                      /\ ds[e].said = docs[e].said
  BY <1>2, <1>3 DEF DocType
<1>8. ASSUME NEW i \in DOMAIN claims
      PROVE  /\ rows[i] \in RowType /\ rows[i].obj = claims[i].obj
             /\ rows[i].from = claims[i].from
             /\ rows[i].status = "active" => claims[i].status = "active"
             /\ rows[i].status = "superseded" => rows[i] = claims[i]
             /\ RowOK(rows[i], ds, now + 1)
  <2>1. claims[i] \in RowType /\ RowOK(claims[i], docs, now) BY <1>1, <1>2 DEF RowsOK
  <2>2. PICK c, m : c = claims[i] /\ m = rows[i] OBVIOUS
  <2>3. m = Stripped(c, d) BY <1>3, <2>2
  <2>4. /\ m \in RowType /\ m.obj = c.obj /\ m.from = c.from
        /\ m.recorded = c.recorded /\ m.docs \subseteq c.docs
        /\ m.status = "active" => c.status = "active"
        /\ m.status = "superseded" <=> c.status = "superseded"
        /\ m.status = "superseded" => m = c
        /\ m.status # "retracted" => m.docs # {}
        /\ m.status = "active" => m.invalidated = c.invalidated
    BY <1>1, <2>1, <2>2, <2>3, StrippedRow
  <2>5. RowOK(m, ds, now + 1)
    <3>1. \A e \in m.docs : Arrived(ds[e], now + 1)
      <4>1. c.docs \subseteq Docs BY <2>1, <2>2 DEF RowType
      <4>2. \A e \in c.docs : Arrived(docs[e], now) BY <2>1, <2>2 DEF RowOK
      <4> QED BY <1>2, <1>7, <2>4, <4>1, <4>2 DEF Arrived
    <3>2. m.status = "active" => m.invalidated = Open BY <2>1, <2>2, <2>4 DEF RowOK
    <3>3. m.status = "superseded" => m.invalidated < now + 1
      BY <1>2, <2>1, <2>2, <2>4 DEF RowOK, RowType
    <3>4. m.from <= m.recorded /\ m.recorded < now + 1
      BY <1>2, <2>1, <2>2, <2>4 DEF RowOK, RowType
    <3> QED BY <2>4, <3>1, <3>2, <3>3, <3>4 DEF RowOK
  <2> QED BY <2>2, <2>4, <2>5
<1>9. DOMAIN rows = DOMAIN claims /\ rows \in Seq(RowType)
  <2>1. DOMAIN rows = DOMAIN claims BY <1>3
  <2>2. PICK n \in Nat : DOMAIN claims = 1 .. n BY <1>2
  <2>3. rows = [j \in 1 .. n |-> rows[j]] BY <1>3, <2>2
  <2>4. rows \in [1 .. n -> RowType] BY <1>8, <2>2, <2>3
  <2> QED BY <2>1, <2>4
<1>10. RowsOK(rows, ds, now + 1) BY <1>6, <1>8, <1>9 DEF RowsOK
<1>11. EndsAtStart(rows) BY <1>1, <1>8, <1>9 DEF EndsAtStart
<1>12. OneActive(rows) BY <1>1, <1>8, <1>9 DEF OneActive, Rivals
<1>13. ~Unrevised' BY <1>5, <1>6 DEF Unrevised, Tidy
<1>14. BeliefReplays' /\ KnownOnce' /\ InTurn'
  BY <1>13 DEF BeliefReplays, KnownOnce, InTurn
<1>15. Types' BY <1>1, <1>4, <1>6, <1>9, RecordedTypes
<1> QED BY <1>5, <1>10, <1>11, <1>12, <1>14, <1>15 DEF IInv

LEMMA Step == Proper /\ IInv /\ [Next]_vars => IInv'
<1> SUFFICES ASSUME Proper, IInv, [Next]_vars PROVE IInv' OBVIOUS
<1>1. CASE UNCHANGED vars
  BY <1>1 DEF IInv, vars, Types, BeliefReplays, KnownOnce, InTurn, Unrevised, Past, Settled,
              BelievedAt, BelievedRows, Reported, Objects, ClaimsForViewer
<1>2. CASE Next
  <2>1. now <= Horizon BY <1>2 DEF Next
  <2>2. ASSUME NEW d \in Docs, NEW v \in Values, NEW s \in Shapes, NEW lag \in Lags,
               Apply(d, v, s, lag)
        PROVE  IInv'
    BY <2>1, <2>2, ApplyInv
  <2>3. ASSUME NEW d \in Docs, Delete(d) PROVE IInv' BY <2>1, <2>3, DeleteInv
  <2>4. CASE Tick BY <2>1, <2>4, TickInv
  <2> QED BY <1>2, <2>2, <2>3, <2>4 DEF Next
<1> QED BY <1>1, <1>2

-----------------------------------------------------------------------------
(* Theorems                                                                *)

\* The invariant holds in every reachable state.
THEOREM Invariant == Proper => (Spec => []IInv)
<1> SUFFICES ASSUME Proper PROVE Spec => []IInv OBVIOUS
<1>1. Init => IInv BY Initial
<1>2. IInv /\ [Next]_vars => IInv' BY Step
<1> QED BY <1>1, <1>2, PTL DEF Spec

\* A belief read at t returns what a current read returned at t, whatever has
\* been superseded, merged or recorded since, if nothing was revised and what
\* arrived later is about later times.
THEOREM Replays == Proper => (Spec => []BeliefReplays)
<1> SUFFICES ASSUME Proper PROVE Spec => []BeliefReplays OBVIOUS
<1>1. IInv => BeliefReplays BY DEF IInv
<1>2. Spec => []IInv BY Invariant
<1> QED BY <1>1, <1>2, PTL

\* An exclusive predicate has one value at a world point, once facts have been
\* recorded in the order of the times they speak of, to the day, and none was
\* revised.
THEOREM OneValue == Proper => (Spec => []OneValueAtAPoint)
<1> SUFFICES ASSUME Proper PROVE Spec => []OneValueAtAPoint OBVIOUS
<1>1. IInv => OneValueAtAPoint
  <2> SUFFICES ASSUME IInv, InOrder, Unrevised, Rivalry PROVE FALSE
    BY DEF OneValueAtAPoint
  <2>1. Types /\ claims \in Seq(RowType) BY DEF IInv, Types
  <2>2. PICK t \in Past : \E i, j \in AtOnePoint(t) :
               /\ claims[i].obj # claims[j].obj
               /\ PredicateOf[claims[i].obj] = PredicateOf[claims[j].obj]
               /\ PredicateOf[claims[i].obj] \in Exclusive
    BY DEF Rivalry
  <2>3. t \in Int BY <2>1, <2>2 DEF Past, Types
  <2>4. PICK i \in AtOnePoint(t), j \in AtOnePoint(t) :
               /\ claims[i].obj # claims[j].obj
               /\ PredicateOf[claims[i].obj] = PredicateOf[claims[j].obj]
               /\ PredicateOf[claims[i].obj] \in Exclusive
    BY <2>2
  <2>5. ASSUME NEW k \in AtOnePoint(t)
        PROVE  /\ k \in DOMAIN claims /\ InForce(claims[k])
               /\ claims[k].from <= t /\ claims[k].to > t
    <3>1. /\ k \in DOMAIN claims /\ InForce(claims[k])
          /\ StartOf(claims[k].from, claims[k].grain) <= t /\ claims[k].to > t
      BY <2>3, <2>5, WorldRead DEF AtOnePoint
    <3>2. ~IsCoarse(claims[k].grain) BY <3>1 DEF InOrder
    <3> QED BY <3>1, <3>2 DEF StartOf
  <2>6. Apart(claims) BY DEF IInv, InTurn, InOrder, InSequence, NoEnds
  <2>7. ASSUME NEW a \in AtOnePoint(t), NEW b \in AtOnePoint(t), a < b, Rivals(claims, a, b)
        PROVE  FALSE
    <3>1. claims[a].to <= claims[b].from \/ claims[b].to <= claims[b].from
      BY <2>5, <2>6, <2>7 DEF Apart
    <3>2. claims[a] \in RowType /\ claims[b] \in RowType BY <2>1, <2>5
    <3>3. /\ claims[a].to \in Int /\ claims[b].to \in Int /\ claims[b].from \in Int
      BY <3>2 DEF RowType
    <3> QED BY <2>3, <2>5, <3>1, <3>3
  <2>8. Rivals(claims, i, j) /\ Rivals(claims, j, i) BY <2>4 DEF Rivals
  <2>9. i < j \/ j < i
    <3>1. i \in DOMAIN claims /\ j \in DOMAIN claims /\ i # j BY <2>4, <2>5
    <3>2. i \in Int /\ j \in Int
      <4>1. DOMAIN claims = 1 .. Len(claims) BY <2>1
      <4> QED BY <3>1, <4>1
    <3> QED BY <3>1, <3>2
  <2> QED BY <2>7, <2>8, <2>9
<1>2. Spec => []IInv BY Invariant
<1> QED BY <1>1, <1>2, PTL

\* The difference of two answers accounts for every row of both.
LEMMA NothingLeftOut ==
  ASSUME NEW from, NEW to
  PROVE  LET d == DiffFacts(from, to) IN
         /\ from = d.unchanged \cup d.removed \cup {x[1] : x \in d.changed}
         /\ to = d.unchanged \cup d.added \cup {x[2] : x \in d.changed}
<1>1. PICK d : d = DiffFacts(from, to) OBVIOUS
<1>2. /\ d.unchanged = from \cap to
      /\ d.removed = (from \ to) \ {x[1] : x \in d.changed}
      /\ d.added = (to \ from) \ {x[2] : x \in d.changed}
      /\ d.changed = UNION {Paired(from \ to, to \ from, p) : p \in Exclusive}
  BY <1>1 DEF DiffFacts
<1>3. ASSUME NEW x \in d.changed PROVE x[1] \in from \ to /\ x[2] \in to \ from
  <2>1. PICK p \in Exclusive : x \in Paired(from \ to, to \ from, p) BY <1>2, <1>3
  <2> QED BY <2>1 DEF Paired
<1>4. from = d.unchanged \cup d.removed \cup {x[1] : x \in d.changed} BY ZenonT(60), <1>2, <1>3
<1>5. to = d.unchanged \cup d.added \cup {x[2] : x \in d.changed} BY ZenonT(60), <1>2, <1>3
<1> QED BY <1>1, <1>4, <1>5

\* Of the rows S, row i alone is of predicate p.
TheOnly(S, p, i) == i \in S /\ \A j \in S : PredicateOf[claims[j].obj] = p <=> j = i

\* Row i of predicate p gave way to row k: that is one change.
LEMMA OneChange ==
  ASSUME NEW from, NEW to, NEW p \in Exclusive, NEW i \in Int, NEW k \in Int,
         i \notin to, k \notin from, claims[i].obj # claims[k].obj,
         TheOnly(from, p, i), TheOnly(to, p, k)
  PROVE  LET d == DiffFacts(from, to) IN
         /\ Cardinality({x \in d.changed : PredicateOf[claims[x[1]].obj] = p}) = 1
         /\ \A j \in d.added \cup d.removed : PredicateOf[claims[j].obj] # p
<1>1. PICK d : d = DiffFacts(from, to) OBVIOUS
<1>2. /\ d.removed = (from \ to) \ {x[1] : x \in d.changed}
      /\ d.added = (to \ from) \ {x[2] : x \in d.changed}
      /\ d.changed = UNION {Paired(from \ to, to \ from, q) : q \in Exclusive}
  BY <1>1 DEF DiffFacts
<1>3. \A q, x : x \in Paired(from \ to, to \ from, q) =>
        PredicateOf[claims[x[1]].obj] = q
  BY DEF Paired
<1>4. Paired(from \ to, to \ from, p) = {<<i, k>>}
  <2>1. {j \in from \ to : PredicateOf[claims[j].obj] = p} = {i} BY DEF TheOnly
  <2>2. {j \in to \ from : PredicateOf[claims[j].obj] = p} = {k} BY DEF TheOnly
  <2>3. Rank(i, {i}) = 0 /\ Rank(k, {k}) = 0
    <3>1. {j \in {i} : j < i} = {} /\ {j \in {k} : j < k} = {} OBVIOUS
    <3> QED BY <3>1, FS_EmptySet DEF Rank
  <2>4. Paired(from \ to, to \ from, p) =
          {x \in {i} \X {k} : /\ Rank(x[1], {i}) = Rank(x[2], {k})
                             /\ claims[x[1]].obj # claims[x[2]].obj}
    BY <2>1, <2>2 DEF Paired
  <2>5. \A x \in {i} \X {k} : x = <<i, k>> /\ x[1] = i /\ x[2] = k OBVIOUS
  <2>6. <<i, k>> \in {i} \X {k} OBVIOUS
  <2> QED BY <2>3, <2>4, <2>5, <2>6
<1>5. {x \in d.changed : PredicateOf[claims[x[1]].obj] = p} = {<<i, k>>}
  <2>1. PICK y : y = <<i, k>> OBVIOUS
  <2>2. y \in d.changed /\ PredicateOf[claims[y[1]].obj] = p BY <1>2, <1>3, <1>4, <2>1
  <2>3. ASSUME NEW x \in d.changed, PredicateOf[claims[x[1]].obj] = p PROVE x = y
    <3>1. PICK q \in Exclusive : x \in Paired(from \ to, to \ from, q) BY <1>2, <2>3
    <3>2. q = p BY <1>3, <2>3, <3>1
    <3> QED BY <1>4, <2>1, <3>1, <3>2
  <2> QED BY <2>1, <2>2, <2>3
<1>6. Cardinality({x \in d.changed : PredicateOf[claims[x[1]].obj] = p}) = 1
  BY <1>5, FS_Singleton
<1>7. <<i, k>> \in d.changed /\ <<i, k>>[1] = i /\ <<i, k>>[2] = k BY <1>2, <1>4
<1>8. i \in {x[1] : x \in d.changed} /\ k \in {x[2] : x \in d.changed} BY <1>7
<1>9. \A j \in d.added \cup d.removed : PredicateOf[claims[j].obj] # p
  BY <1>2, <1>8 DEF TheOnly
<1> QED BY <1>1, <1>6, <1>9

\* The rows of a belief read that a registry knows, and the values of an
\* exclusive predicate in it.
BelievedIn(rows, t, known) ==
  {i \in DOMAIN rows : HoldsAt(rows[i], t) /\ PredicateOf[rows[i].obj] \in known}

LEMMA ValuesAt ==
  ASSUME Types, NEW t, NEW known, OneKnown(claims, t), NEW p \in Exclusive,
         NEW v \in Objects(BelievedIn(claims, t, known)), PredicateOf[v] = p
  PROVE  \E i \in Int :
           /\ claims[i].obj = v /\ TheOnly(BelievedIn(claims, t, known), p, i)
           /\ {u \in Objects(BelievedIn(claims, t, known)) : PredicateOf[u] = p} = {v}
<1>. DEFINE S == BelievedIn(claims, t, known)
<1>1. PICK i \in S : claims[i].obj = v BY DEF Objects
<1>2. i \in Int BY DEF Types, BelievedIn
<1>3. TheOnly(S, p, i)
  BY <1>1 DEF OneKnown, Rivals, TheOnly, BelievedIn, KnownAt, HoldsAt
<1>4. {u \in Objects(S) : PredicateOf[u] = p} = {v}
  <2>. HIDE DEF S
  <2> QED BY <1>1, <1>3 DEF Objects, TheOnly
<1> QED BY <1>1, <1>2, <1>3, <1>4

\* What a query of past beliefs answers when it is not cut.
LEMMA WholeAnswer ==
  ASSUME Proper, Types, RowsOK(claims, docs, now), Tidy(docs), NEW t \in Int,
         NEW known, Whole(t, known)
  PROVE  /\ QueryFacts(claims, docs, Ask(None, t, None), now, known)
              = {BelievedIn(claims, t, known)}
         /\ {v \in BelievedAt(t) : PredicateOf[v] \in known}
              = Objects(BelievedIn(claims, t, known))
<1>1. claims \in Seq(RowType) /\ docs \in [Docs -> DocType] /\ now \in Int BY DEF Types
<1>2. ClaimsForViewer(claims, docs, Ask(None, t, None), now)
        = {i \in DOMAIN claims : HoldsAt(claims[i], t)}
  BY <1>1, BeliefRead
<1>3. BelievedRows(t) = {i \in DOMAIN claims : HoldsAt(claims[i], t)}
  BY <1>2 DEF BelievedRows
<1>4. {i \in BelievedRows(t) : PredicateOf[claims[i].obj] \in known}
        = BelievedIn(claims, t, known)
  BY <1>3 DEF BelievedIn
<1>5. Cardinality(BelievedIn(claims, t, known)) <= Limit BY <1>4 DEF Whole
<1>6. QueryFacts(claims, docs, Ask(None, t, None), now, known)
        = {BelievedIn(claims, t, known)}
  BY <1>4, <1>5 DEF QueryFacts, Cut, BelievedRows
<1>7. {v \in BelievedAt(t) : PredicateOf[v] \in known}
        = Objects(BelievedIn(claims, t, known))
  BY <1>3 DEF BelievedAt, Objects, BelievedIn
<1> QED BY <1>6, <1>7

\* A difference of two belief snapshots that the limit did not cut accounts for
\* what was reported at both ends, and an exclusive predicate that went from one
\* value to another is one change, never a removal and an addition.
THEOREM Differences == Proper => (Spec => []DiffHonest)
<1> SUFFICES ASSUME Proper PROVE Spec => []DiffHonest OBVIOUS
<1>1. IInv => DiffHonest
  <2> SUFFICES ASSUME IInv, Unrevised, NEW t \in Past, NEW u \in Past,
                      NEW known \in Registries, t < u, Settled(t), Settled(u),
                      Whole(t, known), Whole(u, known), NEW d \in DiffBelieved(t, u, known)
               PROVE  Accounts(d, t, u, known)
    BY DEF DiffHonest
  <2>1. Types /\ RowsOK(claims, docs, now) /\ Tidy(docs) /\ t \in Int /\ u \in Int
    BY DEF IInv, Types, Unrevised, Tidy, Past
  <2>2. PICK F : F = BelievedIn(claims, t, known) OBVIOUS
  <2>3. PICK G : G = BelievedIn(claims, u, known) OBVIOUS
  <2>4. /\ QueryFacts(claims, docs, Ask(None, t, None), now, known) = {F}
        /\ {v \in BelievedAt(t) : PredicateOf[v] \in known} = Objects(F)
    BY <2>1, <2>2, WholeAnswer
  <2>5. /\ QueryFacts(claims, docs, Ask(None, u, None), now, known) = {G}
        /\ {v \in BelievedAt(u) : PredicateOf[v] \in known} = Objects(G)
    BY <2>1, <2>3, WholeAnswer
  <2>6. ReportedOf(t, known) = Objects(F) /\ ReportedOf(u, known) = Objects(G)
    <3>1. BelievedAt(t) = Reported(t) /\ BelievedAt(u) = Reported(u)
      BY DEF IInv, BeliefReplays
    <3> QED BY <2>4, <2>5, <3>1 DEF ReportedOf
  <2>7. d = DiffFacts(F, G) BY <2>4, <2>5 DEF DiffBelieved
  <2>8. /\ F = d.unchanged \cup d.removed \cup {x[1] : x \in d.changed}
        /\ G = d.unchanged \cup d.added \cup {x[2] : x \in d.changed}
    BY <2>7, NothingLeftOut
  <2>9. OneKnown(claims, t) /\ OneKnown(claims, u) BY DEF IInv, KnownOnce
  <2>10. ASSUME NEW p \in Exclusive,
                {v \in Objects(F) : PredicateOf[v] = p} # {},
                {v \in Objects(G) : PredicateOf[v] = p} # {},
                {v \in Objects(F) : PredicateOf[v] = p} # {v \in Objects(G) : PredicateOf[v] = p}
         PROVE  /\ Cardinality({x \in d.changed : PredicateOf[claims[x[1]].obj] = p}) = 1
                /\ \A i \in d.added \cup d.removed : PredicateOf[claims[i].obj] # p
    <3>1. PICK a \in Objects(F), b \in Objects(G) : PredicateOf[a] = p /\ PredicateOf[b] = p
      BY <2>10
    <3>2. PICK i \in Int : /\ claims[i].obj = a /\ TheOnly(F, p, i)
                           /\ {v \in Objects(F) : PredicateOf[v] = p} = {a}
      BY <2>1, <2>2, <2>9, <3>1, ValuesAt
    <3>3. PICK k \in Int : /\ claims[k].obj = b /\ TheOnly(G, p, k)
                           /\ {v \in Objects(G) : PredicateOf[v] = p} = {b}
      BY <2>1, <2>3, <2>9, <3>1, ValuesAt
    <3>4. a # b BY <2>10, <3>2, <3>3
    <3>5. i \notin G /\ k \notin F BY <3>1, <3>2, <3>3, <3>4 DEF TheOnly
    <3> QED BY <2>7, <3>2, <3>3, <3>4, <3>5, OneChange
  <2>11. ReportedOf(t, known) = Objects(d.unchanged \cup d.removed \cup {x[1] : x \in d.changed})
    BY <2>6, <2>8
  <2>12. ReportedOf(u, known) = Objects(d.unchanged \cup d.added \cup {x[2] : x \in d.changed})
    BY <2>6, <2>8
  <2> QED BY <2>6, <2>10, <2>11, <2>12 DEF Accounts
<1>2. Spec => []IInv BY Invariant
<1> QED BY <1>1, <1>2, PTL

\* What both channels ask of the rows they report.
FoundBy(rows, q, X) ==
  \A i \in X : /\ i \in DOMAIN rows /\ rows[i].status \in ReadStatuses(q)
              /\ Believed(rows[i], q.believed)

LEMMA BothFind ==
  ASSUME NEW rows, NEW ds, NEW q, NEW clock, NEW known, NEW words, NEW f
  PROVE  /\ \A F \in QueryFacts(rows, ds, q, clock, known) : FoundBy(rows, q, F)
         /\ \A S \in FactCandidates(rows, ds, q, clock, f, words) : FoundBy(rows, q, S)
BY DEF QueryFacts, FactCandidates, Cut, ClaimsForViewer, WithWords, FoundBy

\* Values of rows that are found before a step and of rows that are found after
\* it: of a belief of the past, what is known afterwards was known before.
LEMMA FoundInThePast ==
  ASSUME NEW q, q.believed \in Int, None \notin Int, NEW after, NEW X, NEW Y,
         FoundBy(claims, q, X), FoundBy(after, q, Y),
         KnownBefore(after, q.believed), OneKnown(claims, q.believed)
  PROVE  ~Rivalling({claims[i].obj : i \in X} \cup {after[i].obj : i \in Y})
<1>1. PICK t : t = q.believed OBVIOUS
<1>2. t # None /\ ReadStatuses(q) = {"active", "superseded"} BY <1>1 DEF ReadStatuses
<1>3. \A i \in X : i \in DOMAIN claims /\ KnownAt(claims[i], t)
  BY <1>1, <1>2 DEF FoundBy, Believed, KnownAt, InForce
<1>4. \A i \in Y : i \in DOMAIN after /\ KnownAt(after[i], t)
  BY <1>1, <1>2 DEF FoundBy, Believed, KnownAt, InForce
<1>5. \A v \in {claims[i].obj : i \in X} \cup {after[i].obj : i \in Y} :
        \E k \in DOMAIN claims : KnownAt(claims[k], t) /\ v = claims[k].obj
  BY <1>1, <1>3, <1>4 DEF KnownBefore
<1> QED BY <1>1, <1>5 DEF Rivalling, OneKnown, Rivals

\* About now, in one table: of a slot one row is active.
LEMMA FoundNow ==
  ASSUME NEW q, q.asOf = None, q.believed = None, NEW X, NEW Y,
         FoundBy(claims, q, X), FoundBy(claims, q, Y), OneActive(claims)
  PROVE  ~Rivalling({claims[i].obj : i \in X} \cup {claims[i].obj : i \in Y})
<1>1. ReadStatuses(q) = {"active"} BY DEF ReadStatuses
<1>2. \A v \in {claims[i].obj : i \in X} \cup {claims[i].obj : i \in Y} :
        \E k \in DOMAIN claims : claims[k].status = "active" /\ v = claims[k].obj
  BY <1>1 DEF FoundBy
<1> QED BY <1>2 DEF Rivalling, OneActive, Rivals

\* A step that leaves nothing revised had nothing revised before it, and what it
\* leaves known of the past was known.
LEMMA StepPast ==
  ASSUME Proper, IInv, Next, Unrevised'
  PROVE  Unrevised /\ \A t \in Int : t < now => KnownBefore(claims', t)
<1>1. Types /\ RowsOK(claims, docs, now) /\ OneActive(claims) /\ now \in Int
  BY DEF IInv, Types
<1>2. RowsUnrevised(claims', docs')
  BY DEF Unrevised, RowsUnrevised, RowUnrevised, Tidy
<1>3. CASE Tick
  <2>1. claims' = claims /\ docs' = docs BY <1>3 DEF Tick, Recorded
  <2> QED BY <1>2, <2>1, UnrevisedRows DEF KnownBefore
<1>4. ASSUME NEW d \in Docs, Delete(d) PROVE FALSE
  <2>1. docs \in [Docs -> DocType] BY <1>1 DEF Types
  <2>2. docs' = [docs EXCEPT ![d].deleted = TRUE] BY <1>4 DEF Delete, Recorded
  <2>3. docs[d] \in DocType /\ docs'[d] = [docs[d] EXCEPT !.deleted = TRUE]
    BY <2>1, <2>2
  <2>4. docs'[d].deleted BY <2>3 DEF DocType
  <2> QED BY <1>2, <2>4 DEF RowsUnrevised, Tidy
<1>5. ASSUME NEW d \in Docs, NEW v \in Values, NEW s \in Shapes, NEW lag \in Lags,
             Apply(d, v, s, lag)
      PROVE  Unrevised /\ \A t \in Int : t < now => KnownBefore(claims', t)
  <2>1. PICK w, ds :
          /\ docs[d] = NoDoc /\ docs' = ds
          /\ w = None \/ (w \in Window /\ w.from <= now /\ w.from <= w.to)
          /\ Arrival(ds, d, now - lag, w, s.sure)
          /\ now - lag \in Int /\ s.sure \in BOOLEAN
          /\ IF w = None THEN Recorded(claims, ds)
             ELSE \E rows, i : /\ Stores(rows, i, d, v, w, s.sure)
                               /\ \/ Untouched(rows, claims', i)
                                  \/ \E k \in DOMAIN rows : Closes(rows, claims', i, k)
                               /\ Recorded(claims', ds)
    BY <1>1, <1>5, ApplyShape
  <2>2. PICK u \in Int, sure \in BOOLEAN : u = now - lag /\ sure = s.sure BY <2>1
  <2>3. Arrival(ds, d, u, w, sure) BY <2>1, <2>2
  <2>4. CASE w = None
    <3>1. claims' = claims BY <2>1, <2>4 DEF Recorded
    <3>2. /\ ds \in [Docs -> DocType]
          /\ ds[d] = [event |-> u, updated |-> now, deleted |-> FALSE, said |-> w,
                      sure |-> sure]
          /\ \A e \in Docs : e # d => ds[e] = docs[e]
          /\ Tidy(ds) <=> Tidy(docs)
      <4>1. docs[d] = NoDoc /\ Types BY <1>1, <2>1
      <4>2. w = None \/ w \in Window BY <2>4
      <4> QED BY <2>2, <2>3, <4>1, <4>2, ArrivalDocs
    <3>3. ASSUME NEW i \in DOMAIN claims PROVE \A e \in claims[i].docs : ds[e] = docs[e]
      <4>1. claims[i] \in RowType /\ RowOK(claims[i], docs, now)
        BY <1>1 DEF Types, RowsOK
      <4>2. d \notin claims[i].docs /\ claims[i].docs \subseteq Docs
        BY <1>1, <2>1, <4>1, BackedByOthers DEF RowType
      <4> QED BY <3>2, <4>2
    <3>4. RowsUnrevised(claims, ds) BY <1>2, <2>1, <3>1
    <3>5. RowsUnrevised(claims, docs) BY <3>2, <3>3, <3>4 DEF RowsUnrevised, RowUnrevised
    <3> QED BY <3>1, <3>5, UnrevisedRows DEF KnownBefore
  <2>5. CASE w # None
    <3>1. w \in Window /\ w.from <= now /\ w.from <= w.to BY <2>1, <2>5
    <3>2. PICK rows, i : /\ Stores(rows, i, d, v, w, sure)
                         /\ \/ Untouched(rows, claims', i)
                            \/ \E k \in DOMAIN rows : Closes(rows, claims', i, k)
      BY <2>1, <2>2, <2>5
    <3>3. PICK after : after = claims' OBVIOUS
    <3>4. PastKept(after, ds)
      <4>1. docs[d] = NoDoc BY <2>1
      <4>2. Untouched(rows, after, i) \/ \E k \in DOMAIN rows : Closes(rows, after, i, k)
        BY <3>2, <3>3
      <4> QED BY <1>1, <2>3, <2>5, <3>1, <3>2, <4>1, <4>2, ApplyPast
    <3>5. RowsUnrevised(after, ds) BY <1>2, <2>1, <3>3
    <3> QED BY <3>3, <3>4, <3>5, UnrevisedRows DEF PastKept
  <2> QED BY <2>4, <2>5
<1> QED BY <1>3, <1>4, <1>5 DEF Next

\* The two fact channels of one answer, read in two statements with a write in
\* between, never report two values of an exclusive predicate together: about a
\* past belief whatever is written, unless it revises; about now, if the write
\* changes no claim.
THEOREM Channels == Proper => (Spec => ChannelsAgree)
<1> SUFFICES ASSUME Proper PROVE Spec => ChannelsAgree OBVIOUS
<1>1. ASSUME IInv, Next, NEW p,
             (PastBelief(p) /\ Unrevised') \/ (p.axis = "current" /\ claims' = claims)
      PROVE  OneVoice(p)
  <2>1. PICK q : q = Clocks(p) OBVIOUS
  <2>2. ASSUME NEW X, NEW Y, FoundBy(claims, q, X), FoundBy(claims', q, Y)
        PROVE  ~Rivalling({claims[i].obj : i \in X} \cup {claims'[i].obj : i \in Y})
    <3>1. CASE PastBelief(p) /\ Unrevised'
      <4>1. now \in Int BY <1>1 DEF IInv, Types
      <4>2. q.believed \in Past BY <2>1, <3>1 DEF PastBelief
      <4>3. q.believed \in Int /\ q.believed < now BY <4>1, <4>2 DEF Past
      <4>4. Unrevised /\ KnownBefore(claims', q.believed) BY <1>1, <3>1, <4>3, StepPast
      <4>5. OneKnown(claims, q.believed) BY <1>1, <4>2, <4>4 DEF IInv, KnownOnce
      <4>6. PICK after : after = claims' OBVIOUS
      <4>7. None \notin Int BY DEF Proper
      <4>8. ~Rivalling({claims[i].obj : i \in X} \cup {after[i].obj : i \in Y})
        BY <2>2, <4>3, <4>4, <4>5, <4>6, <4>7, FoundInThePast
      <4> QED BY <4>6, <4>8
    <3>2. CASE p.axis = "current" /\ claims' = claims
      <4>1. q.asOf = None /\ q.believed = None BY <2>1, <3>2 DEF Clocks
      <4>2. OneActive(claims) BY <1>1 DEF IInv
      <4> QED BY <2>2, <3>2, <4>1, <4>2, FoundNow
    <3> QED BY <1>1, <3>1, <3>2
  <2>3. SUFFICES ASSUME NEW words \in Wordings, NEW scope \in Scopes
                 PROVE  /\ \A S \in SearchFacts(p, words, scope)' : \A known \in Registries :
                             \A F \in StructuredFacts(p, known) :
                               ~Rivalling(Objects(F) \cup Objects(S)')
                        /\ \A S \in SearchFacts(p, words, scope) : \A known \in Registries :
                             \A F \in StructuredFacts(p, known)' :
                               ~Rivalling(Objects(S) \cup Objects(F)')
    BY DEF OneVoice
  <2>4. /\ \A S \in SearchFacts(p, words, scope) : FoundBy(claims, q, S)
        /\ \A known \in Registries : \A F \in StructuredFacts(p, known) : FoundBy(claims, q, F)
    BY <2>1, BothFind DEF SearchFacts, StructuredFacts
  <2>5. /\ \A S \in SearchFacts(p, words, scope)' : FoundBy(claims', q, S)
        /\ \A known \in Registries : \A F \in StructuredFacts(p, known)' : FoundBy(claims', q, F)
    BY <2>1, BothFind DEF SearchFacts, StructuredFacts
  <2>6. ASSUME NEW F, NEW S, FoundBy(claims, q, F), FoundBy(claims', q, S)
        PROVE  ~Rivalling(Objects(F) \cup Objects(S)')
    BY <2>2, <2>6 DEF Objects
  <2> QED BY <2>4, <2>5, <2>6
<1>2. Spec => []IInv BY Invariant
<1>3. IInv /\ [Next]_vars =>
        [\A p \in {Plan(cues) : cues \in Questions} :
           /\ p.ok
           /\ (PastBelief(p) /\ Unrevised') \/ (p.axis = "current" /\ claims' = claims)
           => OneVoice(p)]_vars
  BY <1>1
<1> QED BY <1>2, <1>3, PTL DEF Spec, ChannelsAgree

-----------------------------------------------------------------------------
(* Search and packing                                                      *)

\* Items and scores are numbers, ages weigh, and a rank has a share of its own.
Rankable ==
  /\ Chunks \cup Facts \subseteq Int /\ Scores \subseteq Int
  /\ Decay \in [Chunks \cup Facts -> Nat \ {0}]
  /\ K \in Nat /\ Pool \in Nat /\ Scale \in Nat \ {0}
  /\ \A r \in 1 .. Pool : \E q \in Nat : Scale = q * (K + r)
  /\ Limits \subseteq Nat \ {0}

LEMMA SizeIs == ASSUME NEW T PROVE Ranked!Cardinality(T) = Cardinality(T)
BY DEF Ranked!Cardinality, Cardinality, Ranked!IsFiniteSet, IsFiniteSet

\* Products grow with their factors.
LEMMA Product ==
  ASSUME NEW a \in Nat, NEW b \in Nat, NEW c \in Nat, NEW d \in Nat
  PROVE  /\ a * b \in Nat
         /\ a <= c /\ b <= d => a * b <= c * d
         /\ a < c /\ b <= d /\ 0 < d => a * b < c * d
<1>1. a * b \in Nat OBVIOUS
<1>2. PICK i \in Int, j \in Int : i = c - a /\ j = d - b OBVIOUS
<1>3. c * d = a * b + a * j + i * d
  <2>1. c = a + i /\ d = b + j BY <1>2
  <2>2. c * d = (a + i) * (b + j) BY <2>1
  <2>3. c * d = a * b + a * j + i * (b + j) BY <2>2
  <2>. QED BY <2>1, <2>3
<1>4. ASSUME a <= c, b <= d PROVE a * j \in Nat /\ i * d \in Nat BY <1>2, <1>4
<1>5. ASSUME a < c, 0 < d PROVE i * d > 0 BY <1>2, <1>5
<1>6. ASSUME a <= c, b <= d PROVE a * b <= c * d BY <1>1, <1>3, <1>4, <1>6
<1>7. ASSUME a < c, b <= d, 0 < d PROVE a * b < c * d
  <2>1. a * j \in Nat BY <1>4, <1>7
  <2>2. i * d > 0 BY <1>5, <1>7
  <2>3. i * d \in Int BY <1>2
  <2>. QED BY <1>1, <1>3, <2>1, <2>2, <2>3
<1>. QED BY <1>1, <1>6, <1>7

\* A better rank has a greater share, and every rank has one.
ShareOfRank(r) == Scale \div (K + r)
LEMMA Quotient ==
  ASSUME Rankable, NEW r \in 1 .. Pool
  PROVE  ShareOfRank(r) \in Nat /\ ShareOfRank(r) > 0 /\ Scale = ShareOfRank(r) * (K + r)
<1>1. PICK q \in Nat : Scale = q * (K + r) BY DEF Rankable
<1>2. PICK b \in Nat : b = K + r /\ b > 0 BY DEF Rankable
<1>3. Scale = q * b BY <1>1, <1>2
<1>4. q > 0
  <2>1. SUFFICES ASSUME q = 0 PROVE FALSE BY <1>1
  <2>2. Scale = 0 BY <1>2, <1>3, <2>1
  <2>. QED BY <2>2 DEF Rankable
<1>5. (q * b) \div b = q BY <1>2, <1>4
<1>. QED BY <1>2, <1>3, <1>4, <1>5 DEF ShareOfRank

LEMMA ShareFalls ==
  ASSUME Rankable, NEW r \in 1 .. Pool, NEW t \in 1 .. Pool, r < t
  PROVE  ShareOfRank(r) > ShareOfRank(t)
<1>1. PICK p \in Nat, q \in Nat : p = ShareOfRank(r) /\ q = ShareOfRank(t) BY Quotient
<1>2. PICK a \in Nat, b \in Nat : a = K + r /\ b = K + t BY DEF Rankable
<1>3. p * a = q * b /\ 0 < p BY <1>1, <1>2, Quotient
<1>4. a < b BY <1>2 DEF Rankable
<1>5. SUFFICES ASSUME p <= q PROVE FALSE BY <1>1
<1>6. a * p < b * q BY <1>3, <1>4, <1>5, Product
<1>. QED BY <1>3, <1>6

\* Items in the order of their scores.
Sortable(S, score) == S \subseteq Int /\ \A x \in S : score[x] \in Int

LEMMA Order ==
  ASSUME NEW S, NEW score, Sortable(S, score), NEW x \in S, NEW y \in S
  PROVE  /\ Ranked!Before(score, x, y) => ~Ranked!Before(score, y, x) /\ score[x] >= score[y]
         /\ x # y => Ranked!Before(score, x, y) \/ Ranked!Before(score, y, x)
         /\ \A z \in S : Ranked!Before(score, x, y) /\ Ranked!Before(score, y, z)
                           => Ranked!Before(score, x, z)
BY DEF Ranked!Before, Sortable

Ahead(S, score, x) == {y \in S : Ranked!Before(score, y, x)}

LEMMA RankIs ==
  ASSUME NEW S, IsFiniteSet(S), NEW score, Sortable(S, score), NEW x \in S
  PROVE  /\ Ranked!Rank(S, score, x) = Cardinality(Ahead(S, score, x))
         /\ IsFiniteSet(Ahead(S, score, x))
         /\ Ranked!Rank(S, score, x) \in 0 .. Cardinality(S) - 1
<1>1. Ranked!Rank(S, score, x) = Cardinality(Ahead(S, score, x))
  BY SizeIs DEF Ranked!Rank, Ahead
<1>2. Ahead(S, score, x) \in SUBSET (S \ {x}) BY Order DEF Ahead
<1>3. IsFiniteSet(S \ {x}) /\ Cardinality(S \ {x}) = Cardinality(S) - 1 BY FS_RemoveElement
<1>4. IsFiniteSet(Ahead(S, score, x)) /\ Cardinality(Ahead(S, score, x)) <= Cardinality(S) - 1
  BY <1>2, <1>3, FS_Subset
<1>5. Cardinality(Ahead(S, score, x)) \in Nat /\ Cardinality(S) \in Nat
  BY <1>4, FS_CardinalityType
<1>. QED BY <1>1, <1>4, <1>5

LEMMA RankLess ==
  ASSUME NEW S, IsFiniteSet(S), NEW score, Sortable(S, score), NEW x \in S, NEW y \in S,
         Ranked!Before(score, x, y)
  PROVE  Ranked!Rank(S, score, x) < Ranked!Rank(S, score, y)
<1>. DEFINE X == Ahead(S, score, x)
            Y == Ahead(S, score, y)
<1>1. X \subseteq Y BY Order DEF Ahead
<1>2. x \in Y /\ x \notin X BY Order DEF Ahead
<1>3. IsFiniteSet(X) /\ IsFiniteSet(Y) BY RankIs
<1>4. /\ Ranked!Rank(S, score, x) = Cardinality(X)
      /\ Ranked!Rank(S, score, y) = Cardinality(Y)
  BY RankIs
<1>. HIDE DEF X, Y
<1>5. Cardinality(X) <= Cardinality(Y) /\ Cardinality(X) # Cardinality(Y)
  BY <1>1, <1>2, <1>3, FS_Subset
<1>6. Cardinality(X) \in Nat /\ Cardinality(Y) \in Nat BY <1>3, FS_CardinalityType
<1>. QED BY <1>4, <1>5, <1>6

\* As many items as there are ranks.
LEMMA FirstSize ==
  ASSUME NEW S, IsFiniteSet(S), NEW score, Sortable(S, score), NEW n \in Nat, n <= Cardinality(S)
  PROVE  Cardinality(Ranked!First(n, S, score)) = n
<1>. DEFINE N == Cardinality(S)
            f == [x \in S |-> Ranked!Rank(S, score, x)]
            F == Ranked!First(n, S, score)
            g == [x \in F |-> Ranked!Rank(S, score, x)]
<1>1. N \in Nat BY FS_CardinalityType
<1>2. IsFiniteSet(0 .. N - 1) /\ Cardinality(0 .. N - 1) = N
  <2>. HIDE DEF N
  <2>1. 0 \in Int /\ N - 1 \in Int BY <1>1
  <2>2. /\ IsFiniteSet(0 .. N - 1)
        /\ Cardinality(0 .. N - 1) = IF 0 > N - 1 THEN 0 ELSE (N - 1) - 0 + 1
    BY <2>1, FS_Interval
  <2>. QED BY <1>1, <2>2
<1>3. \A x, y \in S : Ranked!Rank(S, score, x) = Ranked!Rank(S, score, y) => x = y
  <2>. SUFFICES ASSUME NEW x \in S, NEW y \in S, x # y
                PROVE  Ranked!Rank(S, score, x) # Ranked!Rank(S, score, y)
    OBVIOUS
  <2>1. Ranked!Rank(S, score, x) \in Int /\ Ranked!Rank(S, score, y) \in Int BY RankIs
  <2>2. CASE Ranked!Before(score, x, y) BY <2>1, <2>2, RankLess
  <2>3. CASE Ranked!Before(score, y, x) BY <2>1, <2>3, RankLess
  <2>. QED BY <2>2, <2>3, Order
<1>4. f \in Injection(S, 0 .. N - 1)
  <2>1. \A x \in S : Ranked!Rank(S, score, x) \in 0 .. N - 1 BY RankIs
  <2>2. f \in [S -> 0 .. N - 1] BY <2>1
  <2>3. \A x, y \in S : f[x] = f[y] => x = y BY <1>3
  <2>. QED BY <2>2, <2>3 DEF Injection, IsInjective
<1>5. f \in Surjection(S, 0 .. N - 1) BY <1>2, <1>4, FS_Injection
<1>6. F \subseteq S /\ \A x \in S : x \in F <=> Ranked!Rank(S, score, x) < n
  BY DEF Ranked!First
<1>7. IsFiniteSet(0 .. n - 1) /\ Cardinality(0 .. n - 1) = n BY FS_Interval
<1>. HIDE DEF F
<1>8. \A x \in F : Ranked!Rank(S, score, x) \in 0 .. n - 1
  <2>. SUFFICES ASSUME NEW x \in F PROVE Ranked!Rank(S, score, x) \in 0 .. n - 1 OBVIOUS
  <2>1. x \in S /\ Ranked!Rank(S, score, x) < n BY <1>6
  <2>2. Ranked!Rank(S, score, x) \in 0 .. Cardinality(S) - 1 BY <2>1, RankIs
  <2>. QED BY <1>1, <2>1, <2>2
<1>9. g \in Injection(F, 0 .. n - 1)
  <2>1. g \in [F -> 0 .. n - 1] BY <1>8
  <2>2. \A x, y \in F : g[x] = g[y] => x = y BY <1>3, <1>6
  <2>. QED BY <2>1, <2>2 DEF Injection, IsInjective
<1>10. ASSUME NEW i \in 0 .. n - 1 PROVE \E x \in F : g[x] = i
  <2>1. i \in 0 .. N - 1 BY <1>1
  <2>2. PICK x \in S : f[x] = i BY <1>5, <2>1 DEF Surjection
  <2>3. Ranked!Rank(S, score, x) = i BY <2>2
  <2>. QED BY <1>6, <2>3
<1>11. g \in Surjection(F, 0 .. n - 1) BY <1>8, <1>10 DEF Surjection
<1>. HIDE DEF g
<1>12. Cardinality(F) = Cardinality(0 .. n - 1) BY <1>7, <1>9, <1>11, FS_Injection
<1>. QED BY <1>7, <1>12 DEF F

LEMMA FirstAhead ==
  ASSUME NEW S, IsFiniteSet(S), NEW score, Sortable(S, score), NEW n \in Nat,
         NEW x \in S, NEW y \in S
  PROVE  /\ y \in Ranked!First(n, S, score) /\ x \notin Ranked!First(n, S, score)
              => score[y] >= score[x]
         /\ y \in Ranked!First(n, S, score) /\ Ranked!Before(score, x, y)
              => x \in Ranked!First(n, S, score)
<1>1. Ranked!Rank(S, score, x) \in Int /\ Ranked!Rank(S, score, y) \in Int BY RankIs
<1>2. ASSUME y \in Ranked!First(n, S, score), Ranked!Before(score, x, y)
      PROVE  x \in Ranked!First(n, S, score)
  <2>1. Ranked!Rank(S, score, x) < Ranked!Rank(S, score, y) BY <1>2, RankLess
  <2>2. Ranked!Rank(S, score, y) < n BY <1>2 DEF Ranked!First
  <2>. QED BY <1>1, <2>1, <2>2 DEF Ranked!First
<1>3. ASSUME y \in Ranked!First(n, S, score), x \notin Ranked!First(n, S, score)
      PROVE  score[y] >= score[x]
  <2>1. x # y /\ ~Ranked!Before(score, x, y) BY <1>2, <1>3
  <2>. QED BY <2>1, Order
<1>. QED BY <1>2, <1>3

\* A ranked list of a channel, and the three of an answer.
IsList(s) == \E m \in 0 .. Pool : s \in [1 .. m -> Chunks \cup Facts]
AreLists(l) == \A c \in {"vector", "keyword", "fact"} : IsList(l[c])

LEMMA InList ==
  ASSUME Rankable, NEW s, IsList(s), NEW x
  PROVE  /\ IsFiniteSet(Ranked!Range(s)) /\ Ranked!Range(s) \subseteq Chunks \cup Facts
         /\ Ranked!Has(s, x) => /\ Ranked!RankOf(s, x) \in 1 .. Pool
                                /\ Ranked!Share(s, x) = ShareOfRank(Ranked!RankOf(s, x))
         /\ ~Ranked!Has(s, x) => Ranked!Share(s, x) = 0
         /\ Ranked!Share(s, x) \in Nat
<1>1. PICK m \in 0 .. Pool : s \in [1 .. m -> Chunks \cup Facts] BY DEF IsList
<1>2. Ranked!Range(s) = {s[i] : i \in 1 .. m} BY <1>1 DEF Ranked!Range
<1>3. IsFiniteSet(Ranked!Range(s))
  <2>1. s \in Surjection(1 .. m, Ranked!Range(s)) BY <1>1, <1>2 DEF Surjection
  <2>2. IsFiniteSet(1 .. m) BY FS_Interval
  <2>. QED BY <2>1, <2>2, FS_Surjection
<1>4. ASSUME Ranked!Has(s, x)
      PROVE  /\ Ranked!RankOf(s, x) \in 1 .. Pool
             /\ Ranked!Share(s, x) = ShareOfRank(Ranked!RankOf(s, x))
  <2>1. \E i \in DOMAIN s : s[i] = x BY <1>1, <1>2, <1>4 DEF Ranked!Has
  <2>2. Ranked!RankOf(s, x) \in DOMAIN s BY <2>1 DEF Ranked!RankOf
  <2>3. Pool \in Nat BY DEF Rankable
  <2>. QED BY <1>1, <1>4, <2>2, <2>3 DEF Ranked!Share, ShareOfRank
<1>5. ASSUME ~Ranked!Has(s, x) PROVE Ranked!Share(s, x) = 0 BY <1>5 DEF Ranked!Share
<1>6. Ranked!Share(s, x) \in Nat
  <2>1. CASE Ranked!Has(s, x) BY <1>4, <2>1, Quotient
  <2>2. CASE ~Ranked!Has(s, x) BY <1>5, <2>2
  <2>. QED BY <2>1, <2>2
<1>. QED BY <1>1, <1>2, <1>3, <1>4, <1>5, <1>6

Leads(s, x, y) ==
  Ranked!Has(s, y) => Ranked!Has(s, x) /\ Ranked!RankOf(s, x) < Ranked!RankOf(s, y)

LEMMA LeadsMore ==
  ASSUME Rankable, NEW s, IsList(s), NEW x, NEW y, Leads(s, x, y)
  PROVE  /\ Ranked!Share(s, x) >= Ranked!Share(s, y)
         /\ Ranked!Has(s, y) => Ranked!Share(s, x) > Ranked!Share(s, y)
<1>1. Ranked!Share(s, x) \in Nat /\ Ranked!Share(s, y) \in Nat BY InList
<1>2. CASE Ranked!Has(s, y)
  <2>1. Ranked!Has(s, x) /\ Ranked!RankOf(s, x) < Ranked!RankOf(s, y) BY <1>2 DEF Leads
  <2>2. /\ Ranked!RankOf(s, x) \in 1 .. Pool /\ Ranked!RankOf(s, y) \in 1 .. Pool
        /\ Ranked!Share(s, x) = ShareOfRank(Ranked!RankOf(s, x))
        /\ Ranked!Share(s, y) = ShareOfRank(Ranked!RankOf(s, y))
    BY <1>2, <2>1, InList
  <2>3. Ranked!Share(s, x) > Ranked!Share(s, y) BY <2>1, <2>2, ShareFalls
  <2>. QED BY <1>1, <2>3
<1>3. CASE ~Ranked!Has(s, y)
  <2>1. Ranked!Share(s, y) = 0 BY <1>3, InList
  <2>. QED BY <1>1, <1>3, <2>1
<1>. QED BY <1>2, <1>3

LEMMA Found ==
  ASSUME NEW l
  PROVE  /\ Ranked!Candidates(l) = Ranked!Range(l["vector"]) \cup Ranked!Range(l["keyword"])
                                     \cup Ranked!Range(l["fact"])
         /\ \A x \in Ranked!Candidates(l) :
              \E c \in {"vector", "keyword", "fact"} : Ranked!Has(l[c], x)
BY DEF Ranked!Candidates, Ranked!Channels, Ranked!Has

LEMMA FusedIs ==
  ASSUME Rankable, NEW l, AreLists(l), NEW x \in Ranked!Candidates(l)
  PROVE  /\ Ranked!Fused(l, x) \in Nat /\ x \in Chunks \cup Facts /\ Decay[x] \in Nat \ {0}
         /\ Ranked!Decayed(l, x) \in Nat /\ Ranked!Scored(l)[x] = Ranked!Decayed(l, x)
<1>1. IsList(l["vector"]) /\ IsList(l["keyword"]) /\ IsList(l["fact"]) BY DEF AreLists
<1>2. /\ Ranked!Share(l["vector"], x) \in Nat /\ Ranked!Share(l["keyword"], x) \in Nat
      /\ Ranked!Share(l["fact"], x) \in Nat
  BY <1>1, InList
<1>3. Ranked!Fused(l, x) \in Nat BY <1>2 DEF Ranked!Fused
<1>4. x \in Chunks \cup Facts
  <2>1. PICK c \in {"vector", "keyword", "fact"} : Ranked!Has(l[c], x) BY Found
  <2>2. IsList(l[c]) BY DEF AreLists
  <2>3. Ranked!Range(l[c]) \subseteq Chunks \cup Facts BY <2>2, InList
  <2>. QED BY <2>1, <2>3 DEF Ranked!Has
<1>5. Decay[x] \in Nat \ {0} BY <1>4 DEF Rankable
<1>6. Ranked!Decayed(l, x) \in Nat BY <1>3, <1>5, Product DEF Ranked!Decayed
<1>. QED BY <1>3, <1>4, <1>5, <1>6 DEF Ranked!Scored

\* What is ahead in every channel that found the other, and no older, is ahead.
LEMMA Dominates ==
  ASSUME Rankable, NEW l, AreLists(l),
         NEW x \in Ranked!Candidates(l), NEW y \in Ranked!Candidates(l),
         Decay[x] >= Decay[y], \A c \in {"vector", "keyword", "fact"} : Leads(l[c], x, y)
  PROVE  Ranked!Before(Ranked!Scored(l), x, y)
<1>1. IsList(l["vector"]) /\ IsList(l["keyword"]) /\ IsList(l["fact"]) BY DEF AreLists
<1>. DEFINE V(z) == Ranked!Share(l["vector"], z)
            W(z) == Ranked!Share(l["keyword"], z)
            F(z) == Ranked!Share(l["fact"], z)
<1>2. /\ V(x) \in Nat /\ W(x) \in Nat /\ F(x) \in Nat
      /\ V(y) \in Nat /\ W(y) \in Nat /\ F(y) \in Nat
  BY <1>1, InList
<1>3. V(x) >= V(y) /\ W(x) >= W(y) /\ F(x) >= F(y) BY <1>1, LeadsMore
<1>4. V(x) > V(y) \/ W(x) > W(y) \/ F(x) > F(y)
  <2>1. PICK c \in {"vector", "keyword", "fact"} : Ranked!Has(l[c], y) BY Found
  <2>2. IsList(l[c]) BY DEF AreLists
  <2>3. Ranked!Share(l[c], x) > Ranked!Share(l[c], y) BY <2>1, <2>2, LeadsMore
  <2>. QED BY <2>3
<1>5. Ranked!Fused(l, x) = V(x) + W(x) + F(x) /\ Ranked!Fused(l, y) = V(y) + W(y) + F(y)
  BY DEF Ranked!Fused
<1>. HIDE DEF V, W, F
<1>6. Ranked!Fused(l, y) < Ranked!Fused(l, x) BY <1>2, <1>3, <1>4, <1>5
<1>7. /\ Ranked!Fused(l, x) \in Nat /\ Ranked!Fused(l, y) \in Nat
      /\ Decay[x] \in Nat \ {0} /\ Decay[y] \in Nat \ {0}
  BY FusedIs
<1>8. Ranked!Fused(l, y) * Decay[y] < Ranked!Fused(l, x) * Decay[x]
  BY <1>6, <1>7, Product
<1>9. Ranked!Decayed(l, y) < Ranked!Decayed(l, x) BY <1>8 DEF Ranked!Decayed
<1>. QED BY <1>9, FusedIs DEF Ranked!Before

LEMMA CandidatesAre ==
  ASSUME Rankable, NEW l, AreLists(l)
  PROVE  /\ IsFiniteSet(Ranked!Candidates(l)) /\ Sortable(Ranked!Candidates(l), Ranked!Scored(l))
         /\ Ranked!Shortlist(l) \subseteq Ranked!Candidates(l)
         /\ IsFiniteSet(Ranked!Shortlist(l)) /\ Ranked!Shortlist(l) \subseteq Int
<1>1. IsList(l["vector"]) /\ IsList(l["keyword"]) /\ IsList(l["fact"]) BY DEF AreLists
<1>2. /\ IsFiniteSet(Ranked!Range(l["vector"])) /\ IsFiniteSet(Ranked!Range(l["keyword"]))
      /\ IsFiniteSet(Ranked!Range(l["fact"]))
  BY <1>1, InList
<1>3. PICK a, b, c : /\ a = Ranked!Range(l["vector"]) /\ b = Ranked!Range(l["keyword"])
                     /\ c = Ranked!Range(l["fact"])
  OBVIOUS
<1>4. IsFiniteSet(Ranked!Candidates(l))
  <2>1. IsFiniteSet(a) /\ IsFiniteSet(b) /\ IsFiniteSet(c) BY <1>2, <1>3
  <2>2. IsFiniteSet(a \cup b) BY ONLY <2>1, FS_Union
  <2>3. IsFiniteSet((a \cup b) \cup c) BY ONLY <2>1, <2>2, FS_Union
  <2>4. Ranked!Candidates(l) = (a \cup b) \cup c BY <1>3, Found
  <2>. QED BY <2>3, <2>4
<1>5. ASSUME NEW x \in Ranked!Candidates(l) PROVE x \in Int /\ Ranked!Scored(l)[x] \in Int
  BY FusedIs DEF Rankable
<1>6. Ranked!Shortlist(l) \in SUBSET Ranked!Candidates(l) BY DEF Ranked!Shortlist, Ranked!First
<1>7. IsFiniteSet(Ranked!Shortlist(l)) BY <1>4, <1>6, FS_Subset
<1>. QED BY <1>4, <1>5, <1>6, <1>7 DEF Sortable

\* What the answer keeps of the shortlist, and why it drops the rest.
Kept(l, n, f) ==
  /\ f.items \subseteq Ranked!Shortlist(l) /\ Sortable(f.items, f.scores)
  /\ \A x \in Ranked!Shortlist(l) \ f.items :
       Cardinality(f.items) = n /\ \A y \in f.items : f.scores[y] >= f.scores[x]

LEMMA FinalsKept ==
  ASSUME Rankable, NEW l, AreLists(l), NEW n \in Limits, NEW f \in Ranked!Finals(l, n)
  PROVE  Kept(l, n, f)
<1>. DEFINE short == Ranked!Shortlist(l)
<1>1. /\ IsFiniteSet(Ranked!Candidates(l)) /\ Sortable(Ranked!Candidates(l), Ranked!Scored(l))
      /\ short \subseteq Ranked!Candidates(l) /\ IsFiniteSet(short) /\ short \subseteq Int
  BY CandidatesAre
<1>2. Ranked!Cardinality(short) = Cardinality(short) BY SizeIs
<1>3. n \in Nat /\ Cardinality(short) \in Nat BY <1>1, FS_CardinalityType DEF Rankable
<1>4. CASE Cardinality(short) <= n
  <2>1. f = [items |-> short, scores |-> Ranked!Scored(l)] BY <1>2, <1>4 DEF Ranked!Finals
  <2>2. Sortable(short, Ranked!Scored(l)) BY <1>1 DEF Sortable
  <2>. QED BY <2>1, <2>2 DEF Kept
<1>5. CASE ~(Cardinality(short) <= n)
  <2>1. PICK s \in [short -> Scores] : f = [items |-> Ranked!First(n, short, s), scores |-> s]
    BY <1>2, <1>5 DEF Ranked!Finals
  <2>2. Sortable(short, s) BY <1>1 DEF Sortable, Rankable
  <2>3. f.items \subseteq short /\ f.items = Ranked!First(n, short, s) /\ f.scores = s
    BY <2>1 DEF Ranked!First
  <2>4. Sortable(f.items, f.scores) BY <2>2, <2>3 DEF Sortable
  <2>5. Cardinality(f.items) = n BY <1>1, <1>3, <1>5, <2>2, <2>3, FirstSize
  <2>6. ASSUME NEW x \in short \ f.items, NEW y \in f.items PROVE f.scores[y] >= f.scores[x]
    BY <1>1, <1>3, <2>2, <2>3, FirstAhead
  <2>. QED BY <2>3, <2>4, <2>5, <2>6 DEF Kept
<1>. QED BY <1>4, <1>5

\* Every section of the hits has one passage.
OneEach(C, T) ==
  /\ T \subseteq C /\ \A x \in C : \E p \in T : Parent[p] = Parent[x]
  /\ \A p, q \in T : Parent[p] = Parent[q] => p = q

LEMMA OnePassage ==
  ASSUME NEW D, IsFiniteSet(D), NEW score, Sortable(D, score)
  PROVE  OneEach(D, Ranked!OnePerParent(D, score))
<1>1. ASSUME NEW x \in D PROVE \E p \in Ranked!OnePerParent(D, score) : Parent[p] = Parent[x]
  <2>. DEFINE T == {k \in D : Parent[k] = Parent[x]}
  <2>1. T \in SUBSET D /\ T # {} OBVIOUS
  <2>2. IsFiniteSet(T) /\ Sortable(T, score) BY <2>1, FS_Subset DEF Sortable
  <2>3. Cardinality(T) \in Nat /\ 1 <= Cardinality(T)
    <3>1. Cardinality(T) \in Nat BY <2>2, FS_CardinalityType
    <3>2. Cardinality(T) # 0 BY <2>1, <2>2, FS_EmptySet
    <3>. QED BY <3>1, <3>2
  <2>. HIDE DEF T
  <2>4. Cardinality(Ranked!First(1, T, score)) = 1 BY <2>2, <2>3, FirstSize
  <2>5. Ranked!First(1, T, score) # {} BY <2>4, FS_EmptySet
  <2>6. PICK p \in T : Ranked!Rank(T, score, p) < 1 BY <2>5 DEF Ranked!First
  <2>7. Cardinality(Ahead(T, score, p)) = 0 /\ IsFiniteSet(Ahead(T, score, p))
    BY <2>2, <2>6, RankIs
  <2>8. Ahead(T, score, p) = {} BY <2>7, FS_EmptySet
  <2>. QED BY <2>8 DEF T, Ahead, Ranked!OnePerParent
<1>2. ASSUME NEW p \in Ranked!OnePerParent(D, score), NEW q \in Ranked!OnePerParent(D, score),
             Parent[p] = Parent[q], p # q
      PROVE  FALSE
  <2>1. p \in D /\ q \in D BY DEF Ranked!OnePerParent
  <2>2. Ranked!Before(score, p, q) \/ Ranked!Before(score, q, p) BY <1>2, <2>1, Order
  <2>. QED BY <1>2, <2>1, <2>2 DEF Ranked!OnePerParent
<1>3. Ranked!OnePerParent(D, score) \subseteq D BY DEF Ranked!OnePerParent
<1>. QED BY <1>1, <1>2, <1>3 DEF OneEach

\* One answer.
LEMMA AnswerHonest ==
  ASSUME Rankable, AreLists(lists), limit \in Limits,
         NEW f \in Ranked!Finals(lists, limit), response = Ranked!Response(lists, f)
  PROVE  Ranked!BestKept
<1>1. Kept(lists, limit, f) BY FinalsKept
<1>2. /\ response.shortlist = Ranked!Shortlist(lists) /\ response.final = f.items
      /\ response.scores = f.scores /\ response.facts = f.items \cap Facts
      /\ response.passages = Ranked!OnePerParent(f.items \cap Chunks, f.scores)
  BY DEF Ranked!Response
<1>3. /\ IsFiniteSet(Ranked!Candidates(lists))
      /\ Sortable(Ranked!Candidates(lists), Ranked!Scored(lists))
      /\ Ranked!Shortlist(lists) \subseteq Ranked!Candidates(lists)
      /\ IsFiniteSet(Ranked!Shortlist(lists))
  BY CandidatesAre
<1>4. OneEach(f.items \cap Chunks, response.passages)
  <2>1. f.items \cap Chunks \in SUBSET Ranked!Shortlist(lists) BY <1>1 DEF Kept
  <2>2. IsFiniteSet(f.items \cap Chunks) BY <1>3, <2>1, FS_Subset
  <2>3. Sortable(f.items \cap Chunks, f.scores) BY <1>1 DEF Kept, Sortable
  <2>. QED BY <1>2, <2>2, <2>3, OnePassage
<1>5. ASSUME NEW x \in Ranked!Candidates(lists), NEW y \in Ranked!Candidates(lists),
             Decay[x] >= Decay[y],
             \A c \in Ranked!Channels : Ranked!Has(lists[c], y) =>
               Ranked!Has(lists[c], x) /\ Ranked!RankOf(lists[c], x) < Ranked!RankOf(lists[c], y),
             y \in response.shortlist
      PROVE  x \in response.shortlist
  <2>1. \A c \in {"vector", "keyword", "fact"} : Leads(lists[c], x, y)
    BY <1>5 DEF Ranked!Channels, Leads
  <2>2. Ranked!Before(Ranked!Scored(lists), x, y) BY <1>5, <2>1, Dominates
  <2>3. Pool \in Nat BY DEF Rankable
  <2>. QED BY <1>2, <1>3, <1>5, <2>2, <2>3, FirstAhead DEF Ranked!Shortlist
<1>6. ASSUME NEW x \in response.shortlist
      PROVE  \/ x \in response.passages \/ x \in response.facts
             \/ /\ Cardinality(response.final) = limit
                /\ \A y \in response.final : response.scores[y] >= response.scores[x]
             \/ \E p \in response.passages : x \in Chunks /\ Parent[p] = Parent[x]
  <2>1. CASE x \notin f.items BY <1>1, <1>2, <1>6, <2>1 DEF Kept
  <2>2. CASE x \in f.items
    <3>1. x \in Chunks \cup Facts
      <4>1. x \in Ranked!Candidates(lists) BY <1>2, <1>3, <1>6
      <4>. QED BY <4>1, FusedIs
    <3>2. CASE x \in Facts BY <1>2, <2>2, <3>2
    <3>3. CASE x \in Chunks BY <1>4, <2>2, <3>3 DEF OneEach
    <3>. QED BY <3>1, <3>2, <3>3
  <2>. QED BY <2>1, <2>2
<1>7. \A p, q \in response.passages : Parent[p] = Parent[q] => p = q BY <1>4 DEF OneEach
<1>8. Ranked!Cardinality(response.final) = Cardinality(response.final) BY SizeIs
<1>. QED BY <1>5, <1>6, <1>7, <1>8 DEF Ranked!BestKept

\* The largest of finitely many numbers.
LEMMA Largest ==
  ASSUME NEW M, M \subseteq Nat, IsFiniteSet(M), M # {}
  PROVE  Ranked!Max(M) \in M /\ \A y \in M : Ranked!Max(M) >= y
<1>. DEFINE id == [x \in M |-> x]
<1>1. Sortable(M, id) BY DEF Sortable
<1>2. Cardinality(M) \in Nat /\ 1 <= Cardinality(M)
  <2>1. Cardinality(M) \in Nat BY FS_CardinalityType
  <2>2. Cardinality(M) # 0 BY FS_EmptySet
  <2>. QED BY <2>1, <2>2
<1>. HIDE DEF id
<1>3. Cardinality(Ranked!First(1, M, id)) = 1 BY <1>1, <1>2, FirstSize
<1>4. Ranked!First(1, M, id) # {} BY <1>3, FS_EmptySet
<1>5. PICK p \in M : Ranked!Rank(M, id, p) < 1 BY <1>4 DEF Ranked!First
<1>6. Cardinality(Ahead(M, id, p)) = 0 /\ IsFiniteSet(Ahead(M, id, p)) BY <1>1, <1>5, RankIs
<1>7. Ahead(M, id, p) = {} BY <1>6, FS_EmptySet
<1>8. ASSUME NEW y \in M PROVE p >= y
  <2>1. ~Ranked!Before(id, y, p) BY <1>7 DEF Ahead
  <2>2. id[y] = y /\ id[p] = p BY DEF id
  <2>3. y \in Nat /\ p \in Nat OBVIOUS
  <2>. QED BY <2>1, <2>2, <2>3 DEF Ranked!Before
<1>. QED BY <1>8 DEF Ranked!Max

Payloads == [Ranked!Blocks -> Nat]

\* One block is cut to what fits, or to nothing; the others stay.
Trimmed(t, u, b, m) ==
  /\ u \in Payloads /\ \A c \in Ranked!Blocks \ {b} : u[c] = t[c]
  /\ u[b] <= t[b] /\ (u[b] = 0 \/ Ranked!Measure(u) <= m)
  /\ Ranked!Measure(t) <= m => u = t

LEMMA Trimming ==
  ASSUME NEW t \in Payloads, NEW b \in Ranked!Blocks, NEW m
  PROVE  Trimmed(t, Ranked!Trim(t, b, m), b, m)
<1>. DEFINE fits(n) == Ranked!Measure([t EXCEPT ![b] = n]) <= m
            M == {0} \cup {n \in 0 .. t[b] : fits(n)}
            u == [t EXCEPT ![b] = Ranked!Max(M)]
<1>1. Ranked!Trim(t, b, m) = u BY DEF Ranked!Trim
<1>2. t[b] \in Nat BY DEF Payloads
<1>3. M \in SUBSET (0 .. t[b]) /\ M # {} BY <1>2
<1>4. IsFiniteSet(0 .. t[b]) BY <1>2, FS_Interval
<1>5. IsFiniteSet(M) BY <1>3, <1>4, FS_Subset
<1>6. M \subseteq Nat BY <1>2, <1>3
<1>7. Ranked!Max(M) \in M /\ \A y \in M : Ranked!Max(M) >= y
  <2>. HIDE DEF M
  <2>. QED BY <1>3, <1>5, <1>6, Largest
<1>8. PICK k : k = Ranked!Max(M) OBVIOUS
<1>9. k \in 0 .. t[b] /\ (k = 0 \/ fits(k)) /\ \A y \in 0 .. t[b] : fits(y) => k >= y
  BY <1>2, <1>7, <1>8
<1>10. u = [t EXCEPT ![b] = k] BY <1>8
<1>. HIDE DEF M, u
<1>11. /\ u \in Payloads /\ u[b] = k /\ \A c \in Ranked!Blocks \ {b} : u[c] = t[c]
  BY <1>2, <1>9, <1>10 DEF Payloads
<1>12. k = 0 \/ Ranked!Measure(u) <= m BY <1>9, <1>10
<1>13. ASSUME Ranked!Measure(t) <= m PROVE u = t
  <2>1. [t EXCEPT ![b] = t[b]] = t BY DEF Payloads
  <2>2. fits(t[b]) BY <1>13, <2>1
  <2>3. t[b] \in 0 .. t[b] BY <1>2
  <2>. HIDE DEF fits
  <2>4. k >= t[b] /\ k \in 0 .. t[b] BY <1>9, <2>2, <2>3
  <2>5. k = t[b] BY <1>2, <2>4
  <2>. QED BY <1>10, <2>1, <2>5
<1>. QED BY <1>1, <1>9, <1>11, <1>12, <1>13 DEF Trimmed

\* The payload after n blocks of the order.
After(p, o, m, n) ==
  LET a == Ranked!Trim(p, o[1], m)
      b == Ranked!Trim(a, o[2], m)
      c == Ranked!Trim(b, o[3], m)
      d == Ranked!Trim(c, o[4], m)
  IN  CASE n = 0 -> p [] n = 1 -> a [] n = 2 -> b [] n = 3 -> c [] n = 4 -> d
        [] OTHER -> Ranked!Trim(d, o[5], m)

LEMMA AfterNext ==
  ASSUME NEW p, NEW o, NEW m, NEW n \in 1 .. 5
  PROVE  After(p, o, m, n) = Ranked!Trim(After(p, o, m, n - 1), o[n], m)
BY DEF After

LEMMA TrimmedIs ==
  ASSUME NEW p, NEW m, NEW mode
  PROVE  Ranked!Trimmed(p, m, mode) = After(p, Ranked!TrimOrder(mode), m, 5)
<1>1. PICK o : o = Ranked!TrimOrder(mode) OBVIOUS
<1>. DEFINE Def(f) == f = [n \in 0 .. 5 |-> IF n = 0 THEN p ELSE Ranked!Trim(f[n - 1], o[n], m)]
            f == CHOOSE g : Def(g)
            after == [n \in 0 .. 5 |-> After(p, o, m, n)]
<1>2. Ranked!Trimmed(p, m, mode) = f[5] BY <1>1 DEF Ranked!Trimmed
<1>3. After(p, o, m, 0) = p BY DEF After
<1>4. \A n \in 0 .. 5 : n # 0 => n \in 1 .. 5 /\ after[n - 1] = After(p, o, m, n - 1) OBVIOUS
<1>5. \A n \in 0 .. 5 :
        After(p, o, m, n) = IF n = 0 THEN p ELSE Ranked!Trim(after[n - 1], o[n], m)
  BY <1>3, <1>4, AfterNext
<1>6. Def(after) BY <1>5
<1>7. Def(f) BY <1>6
<1>. HIDE DEF f, after
<1>8. \A n \in 0 .. 5 : f[n] = IF n = 0 THEN p ELSE Ranked!Trim(f[n - 1], o[n], m) BY <1>7
<1>9. f[0] = After(p, o, m, 0)
  <2>1. 0 \in 0 .. 5 OBVIOUS
  <2>. QED BY <1>3, <1>8, <2>1
<1>10. ASSUME NEW n \in 1 .. 5, f[n - 1] = After(p, o, m, n - 1) PROVE f[n] = After(p, o, m, n)
  <2>1. n \in 0 .. 5 /\ n # 0 OBVIOUS
  <2>2. f[n] = Ranked!Trim(f[n - 1], o[n], m) BY <1>8, <2>1
  <2>. QED BY <1>10, <2>2, AfterNext
<1>11. f[1] = After(p, o, m, 1) BY <1>9, <1>10
<1>12. f[2] = After(p, o, m, 2) BY <1>10, <1>11
<1>13. f[3] = After(p, o, m, 3) BY <1>10, <1>12
<1>14. f[4] = After(p, o, m, 4) BY <1>10, <1>13
<1>15. f[5] = After(p, o, m, 5) BY <1>10, <1>14
<1>. QED BY <1>1, <1>2, <1>15

\* An order of all blocks, each once.
IsOrder(o) ==
  /\ \A i \in 1 .. 5 : o[i] \in Ranked!Blocks
  /\ \A i, j \in 1 .. 5 : o[i] = o[j] => i = j
  /\ \A b \in Ranked!Blocks : \E i \in 1 .. 5 : o[i] = b

LEMMA Orders ==
  ASSUME NEW mode \in {"graph_first", "joint", "vector_first"}
  PROVE  IsOrder(Ranked!TrimOrder(mode)) /\ DOMAIN Ranked!TrimOrder(mode) = 1 .. 5
<1>. DEFINE all == {"passages", "search_facts", "paths", "fact_diffs", "structured_facts"}
<1>1. ASSUME NEW o, NEW a, NEW b, NEW c, NEW d, NEW e, o = <<a, b, c, d, e>>,
             {a, b, c, d, e} = all,
             a # b, a # c, a # d, a # e, b # c, b # d, b # e, c # d, c # e, d # e
      PROVE  IsOrder(o) /\ DOMAIN o = 1 .. 5
  <2>1. o[1] = a /\ o[2] = b /\ o[3] = c /\ o[4] = d /\ o[5] = e /\ DOMAIN o = 1 .. 5
    BY <1>1
  <2>2. 1 .. 5 = {1, 2, 3, 4, 5} OBVIOUS
  <2>3. Ranked!Blocks = {a, b, c, d, e} BY <1>1 DEF Ranked!Blocks
  <2>4. \A i \in 1 .. 5 : o[i] \in Ranked!Blocks BY <2>1, <2>2, <2>3
  <2>5. \A i, j \in 1 .. 5 : o[i] = o[j] => i = j BY <1>1, <2>1, <2>2
  <2>6. \A x \in Ranked!Blocks : \E i \in 1 .. 5 : o[i] = x BY <2>1, <2>2, <2>3
  <2>. QED BY <2>1, <2>4, <2>5, <2>6 DEF IsOrder
<1>2. CASE mode = "graph_first"
  <2>1. Ranked!TrimOrder(mode)
          = <<"passages", "search_facts", "paths", "fact_diffs", "structured_facts">>
    BY <1>2 DEF Ranked!TrimOrder
  <2>. QED BY <1>1, <2>1
<1>3. CASE mode = "joint"
  <2>1. Ranked!TrimOrder(mode)
          = <<"paths", "fact_diffs", "search_facts", "structured_facts", "passages">>
    BY <1>3 DEF Ranked!TrimOrder
  <2>2. {"paths", "fact_diffs", "search_facts", "structured_facts", "passages"} = all OBVIOUS
  <2>. QED BY <1>1, <2>1, <2>2
<1>4. CASE mode = "vector_first"
  <2>1. Ranked!TrimOrder(mode)
          = <<"paths", "fact_diffs", "structured_facts", "search_facts", "passages">>
    BY <1>4 DEF Ranked!TrimOrder
  <2>2. {"paths", "fact_diffs", "structured_facts", "search_facts", "passages"} = all OBVIOUS
  <2>. QED BY <1>1, <2>1, <2>2
<1>. QED BY <1>2, <1>3, <1>4

\* What n blocks have been cut to: those to come are whole, those before one
\* that lost something are empty, and so are all unless the payload fits.
Progress(p, o, m, n, t) ==
  /\ t \in Payloads /\ \A k \in n + 1 .. 5 : t[o[k]] = p[o[k]]
  /\ Ranked!Measure(t) <= m \/ \A i \in 1 .. n : t[o[i]] = 0
  /\ \A i, j \in 1 .. n : i < j /\ t[o[j]] < p[o[j]] => t[o[i]] = 0

LEMMA OneMore ==
  ASSUME NEW p \in Payloads, NEW o, IsOrder(o), NEW m, NEW n \in 1 .. 5,
         NEW t, Progress(p, o, m, n - 1, t), NEW u, Trimmed(t, u, o[n], m)
  PROVE  Progress(p, o, m, n, u)
<1>1. CASE Ranked!Measure(t) <= m
  <2>1. u = t BY <1>1 DEF Trimmed
  <2>2. t[o[n]] = p[o[n]] BY DEF Progress
  <2>3. p[o[n]] \in Nat BY DEF IsOrder, Payloads
  <2>4. \A k \in n + 1 .. 5 : t[o[k]] = p[o[k]] BY DEF Progress
  <2>5. \A i, j \in 1 .. n : i < j /\ t[o[j]] < p[o[j]] => t[o[i]] = 0
    <3>. SUFFICES ASSUME NEW i \in 1 .. n, NEW j \in 1 .. n, i < j, t[o[j]] < p[o[j]]
                  PROVE  t[o[i]] = 0
      OBVIOUS
    <3>1. j # n BY <2>2, <2>3
    <3>. QED BY <3>1 DEF Progress
  <2>. QED BY <1>1, <2>1, <2>4, <2>5 DEF Progress
<1>2. CASE ~(Ranked!Measure(t) <= m)
  <2>1. \A i \in 1 .. n - 1 : t[o[i]] = 0 BY <1>2 DEF Progress
  <2>2. \A i \in 1 .. 5 : i # n => u[o[i]] = t[o[i]] BY DEF Trimmed, IsOrder
  <2>3. \A i \in 1 .. n - 1 : u[o[i]] = 0 BY <2>1, <2>2
  <2>4. \A k \in n + 1 .. 5 : u[o[k]] = p[o[k]] BY <2>2 DEF Progress
  <2>5. Ranked!Measure(u) <= m \/ \A i \in 1 .. n : u[o[i]] = 0 BY <2>3 DEF Trimmed
  <2>6. \A i, j \in 1 .. n : i < j => i \in 1 .. n - 1 OBVIOUS
  <2>7. u \in Payloads BY DEF Trimmed
  <2>. QED BY <2>3, <2>4, <2>5, <2>6, <2>7 DEF Progress
<1>. QED BY <1>1, <1>2

LEMMA AllTrimmed ==
  ASSUME NEW p \in Payloads, NEW o, IsOrder(o), NEW m
  PROVE  Progress(p, o, m, 5, After(p, o, m, 5))
<1>1. Progress(p, o, m, 0, After(p, o, m, 0))
  <2>1. After(p, o, m, 0) = p BY DEF After
  <2>. QED BY <2>1 DEF Progress
<1>2. ASSUME NEW n \in 1 .. 5, Progress(p, o, m, n - 1, After(p, o, m, n - 1))
      PROVE  Progress(p, o, m, n, After(p, o, m, n))
  <2>1. After(p, o, m, n - 1) \in Payloads /\ o[n] \in Ranked!Blocks
    BY <1>2 DEF Progress, IsOrder
  <2>2. Trimmed(After(p, o, m, n - 1), After(p, o, m, n), o[n], m) BY <2>1, AfterNext, Trimming
  <2>. QED BY <1>2, <2>2, OneMore
<1>3. Progress(p, o, m, 1, After(p, o, m, 1)) BY <1>1, <1>2
<1>4. Progress(p, o, m, 2, After(p, o, m, 2)) BY <1>2, <1>3
<1>5. Progress(p, o, m, 3, After(p, o, m, 3)) BY <1>2, <1>4
<1>6. Progress(p, o, m, 4, After(p, o, m, 4)) BY <1>2, <1>5
<1>. QED BY <1>2, <1>6

LEMMA TrimmedByPriority ==
  ASSUME NEW p \in Payloads, NEW m, NEW mode \in {"graph_first", "joint", "vector_first"},
         packed = [mode |-> mode, budget |-> m, before |-> p,
                   after |-> Ranked!Trimmed(p, m, mode)]
  PROVE  Ranked!PackedByPriority
<1>1. PICK o : o = Ranked!TrimOrder(mode) OBVIOUS
<1>2. PICK t : t = After(p, o, m, 5) OBVIOUS
<1>3. packed.after = t /\ packed.before = p /\ packed.budget = m /\ packed.mode = mode
  BY <1>1, <1>2, TrimmedIs
<1>4. IsOrder(o) /\ DOMAIN o = 1 .. 5 BY <1>1, Orders
<1>5. Progress(p, o, m, 5, t) BY <1>2, <1>4, AllTrimmed
<1>6. Ranked!Measure(t) <= m \/ \A b \in Ranked!Blocks : t[b] = 0
  BY <1>4, <1>5 DEF Progress, IsOrder
<1>7. \A i, j \in 1 .. 5 : i < j /\ t[o[j]] < p[o[j]] => t[o[i]] = 0 BY <1>5 DEF Progress
<1>. QED BY <1>1, <1>3, <1>4, <1>6, <1>7 DEF Ranked!PackedByPriority

\* An answer is that to its lists, and what was packed was an answer.
SearchInv ==
  /\ limit # 0 => /\ AreLists(lists) /\ limit \in Limits
                  /\ \E f \in Ranked!Finals(lists, limit) : response = Ranked!Response(lists, f)
                  /\ IsFiniteSet(response.passages) /\ IsFiniteSet(response.facts)
  /\ packed # Ranked!NotPacked =>
       \E p \in Payloads, m \in Budgets, mode \in {"graph_first", "joint", "vector_first"} :
         packed = [mode |-> mode, budget |-> m, before |-> p,
                   after |-> Ranked!Trimmed(p, m, mode)]

LEMMA SearchInit == Ranked!Init => SearchInv
BY DEF Ranked!Init, SearchInv

LEMMA RankingIsList ==
  ASSUME NEW D \in SUBSET (Chunks \cup Facts), Pool \in Nat, NEW s \in Ranked!Rankings(D)
  PROVE  IsList(s)
BY DEF Ranked!Rankings, Ranked!BoundedSeq, Ranked!SeqOf, IsList

LEMMA SearchKeeps ==
  ASSUME Rankable, SearchInv, NEW v \in Ranked!Rankings(Chunks \cap Visible),
         NEW k \in Ranked!Rankings(Chunks \cap Visible),
         NEW f \in Ranked!Rankings(Facts \cap Visible), NEW n \in Limits,
         Ranked!Search(v, k, f, n)
  PROVE  SearchInv'
<1>1. PICK l : l = [vector |-> v, keyword |-> k, fact |-> f] OBVIOUS
<1>2. PICK r \in Ranked!Finals(l, n) : response' = Ranked!Response(l, r)
  BY <1>1 DEF Ranked!Search
<1>3. lists' = l /\ limit' = n /\ packed' = packed BY <1>1 DEF Ranked!Search
<1>4. Pool \in Nat BY DEF Rankable
<1>5. IsList(v) /\ IsList(k) /\ IsList(f) BY <1>4, RankingIsList
<1>6. AreLists(l) BY <1>1, <1>5 DEF AreLists
<1>7. IsFiniteSet(r.items \cap Chunks) /\ IsFiniteSet(r.items \cap Facts)
  <2>1. r.items \subseteq Ranked!Shortlist(l) BY <1>2, <1>6, FinalsKept DEF Kept
  <2>2. IsFiniteSet(Ranked!Shortlist(l)) BY <1>6, CandidatesAre
  <2>3. /\ r.items \cap Chunks \in SUBSET Ranked!Shortlist(l)
        /\ r.items \cap Facts \in SUBSET Ranked!Shortlist(l)
    BY <2>1
  <2>. QED BY <2>2, <2>3, FS_Subset
<1>8. IsFiniteSet(Ranked!OnePerParent(r.items \cap Chunks, r.scores))
  <2>1. Ranked!OnePerParent(r.items \cap Chunks, r.scores) \in SUBSET (r.items \cap Chunks)
    BY DEF Ranked!OnePerParent
  <2>. QED BY <1>7, <2>1, FS_Subset
<1>9. /\ response'.passages = Ranked!OnePerParent(r.items \cap Chunks, r.scores)
      /\ response'.facts = r.items \cap Facts
  BY <1>2 DEF Ranked!Response
<1>10. IsFiniteSet(response'.passages) /\ IsFiniteSet(response'.facts) BY <1>7, <1>8, <1>9
<1>11. AreLists(lists)' BY <1>3, <1>6 DEF AreLists, IsList
<1>12. (\E g \in Ranked!Finals(lists, limit) : response = Ranked!Response(lists, g))'
  BY <1>2, <1>3 
<1>. QED BY <1>3, <1>10, <1>11, <1>12 DEF SearchInv

LEMMA PackKeeps ==
  ASSUME SearchInv, NEW mode \in {"graph_first", "joint", "vector_first"}, NEW m \in Budgets,
         NEW g \in 0 .. 1, Ranked!Pack(mode, m, g)
  PROVE  SearchInv'
<1>1. PICK p : p = [b \in Ranked!Blocks |->
                      CASE b = "passages" -> Ranked!Cardinality(response.passages)
                        [] b = "search_facts" -> Ranked!Cardinality(response.facts)
                        [] OTHER -> g]
  OBVIOUS
<1>2. /\ packed' = [mode |-> mode, budget |-> m, before |-> p,
                    after |-> Ranked!Trimmed(p, m, mode)]
      /\ limit # 0 /\ lists' = lists /\ limit' = limit /\ response' = response
  BY <1>1 DEF Ranked!Pack
<1>3. Cardinality(response.passages) \in Nat /\ Cardinality(response.facts) \in Nat
  BY <1>2, FS_CardinalityType DEF SearchInv
<1>4. p \in Payloads BY <1>1, <1>3, SizeIs DEF Payloads
<1>5. (\E q \in Payloads, n \in Budgets, x \in {"graph_first", "joint", "vector_first"} :
         packed = [mode |-> x, budget |-> n, before |-> q, after |-> Ranked!Trimmed(q, n, x)])'
  BY <1>2, <1>4 DEF Payloads
<1>. QED BY <1>2, <1>5 DEF SearchInv

-----------------------------------------------------------------------------
(* Inductions                                                              *)

\* Induction over the naturals, through sets.
LEMMA NatInductive ==
  ASSUME NEW X, 0 \in X, \A n \in Nat : n \in X => n + 1 \in X
  PROVE  Nat \subseteq X
<1>1. SUFFICES ASSUME NEW k \in Nat, k \notin X PROVE FALSE
  OBVIOUS
<1> DEFINE T == Nat \ X
           R == {ss \in Nat \X Nat : ss[1] < ss[2]}
<1>2. IsWellFoundedOn(R, Nat) BY NatLessThanWellFounded DEF OpToRel
<1>3. T # {} /\ T \subseteq Nat BY <1>1
<1>4. \A j, m \in Nat : <<j, m>> \notin R => m <= j
  OBVIOUS
<1> HIDE DEF T, R
<1>5. \E m \in T : \A j \in T : ~ (<<j, m>> \in R)
  BY <1>2, <1>3, WFMin, Zenon
<1>6. PICK m \in T : \A j \in T : m <= j BY <1>3, <1>4, <1>5
<1>7. m # 0 /\ m - 1 \in Nat /\ ~ m <= m - 1 BY <1>6 DEF T
<1>8. m - 1 \in X BY <1>6, <1>7 DEF T
<1>9. (m - 1) + 1 = m BY <1>6 DEF T
<1> QED BY <1>6, <1>7, <1>8, <1>9 DEF T

\* Induction over sequences: what holds of the empty one and passes to one
\* more element holds of all.
LEMMA SeqInductive ==
  ASSUME NEW B, NEW X, <<>> \in X,
         \A s \in Seq(B) : \A x \in B : s \in X => Append(s, x) \in X
  PROVE  Seq(B) \subseteq X
<1> DEFINE Y == {n \in Nat : \A s \in Seq(B) : Len(s) = n => s \in X}
<1>1. 0 \in Y
  <2>1. \A s \in Seq(B) : Len(s) = 0 => s = <<>> BY EmptySeq
  <2>. QED BY <2>1
<1>2. ASSUME NEW n \in Nat, n \in Y PROVE n + 1 \in Y
  <2>1. ASSUME NEW s \in Seq(B), Len(s) = n + 1 PROVE s \in X
    <3>1. n + 1 \in 1 .. Len(s) /\ n + 1 \in Nat BY <2>1
    <3>2. PICK f : f = SubSeq(s, 1, n) OBVIOUS
    <3>3. \A i \in 1 .. n : s[i] \in B BY <2>1, ElementOfSeq
    <3>4. f \in Seq(B) /\ Len(f) = n /\ \A i \in 1 .. n : f[i] = s[i]
      BY <3>2, <3>3, SubSeqProperties
    <3>5. s[n + 1] \in B BY <3>1, ElementOfSeq
    <3>6. PICK g : g = Append(f, s[n + 1]) OBVIOUS
    <3>7. g \in Seq(B) /\ Len(g) = n + 1 /\ \A i \in 1 .. n + 1 : g[i] = s[i]
      BY <3>4, <3>5, <3>6
    <3>8. g = s BY <2>1, <3>7, SeqEqual
    <3>9. f \in X BY <1>2, <3>4
    <3>. QED BY <3>4, <3>5, <3>6, <3>8, <3>9
  <2>. QED BY <2>1
<1>3. \A n \in Nat : n \in Y => n + 1 \in Y BY <1>2
<1> HIDE DEF Y
<1>4. Nat \subseteq Y BY <1>1, <1>3, NatInductive
<1>5. \A s \in Seq(B) : Len(s) \in Nat BY LenProperties
<1>. QED BY <1>4, <1>5 DEF Y

\* A step that takes a state and the next element can be taken along a sequence.
Steps(S, z, G, x) ==
  {f \in [0 .. Len(x) -> S] : f[0] = z /\ \A n \in 1 .. Len(x) : f[n] = G[<<f[n - 1], x[n]>>]}
LEMMA StepsExist ==
  ASSUME NEW S, NEW B, NEW z \in S, NEW G \in [S \X B -> S], NEW x \in Seq(B)
  PROVE  \E f : f \in Steps(S, z, G, x)
<1> DEFINE N == Len(x)
           X == {m \in Nat : m <= N => \E f \in [0 .. m -> S] :
                   f[0] = z /\ \A n \in 1 .. m : f[n] = G[<<f[n - 1], x[n]>>]}
<1>1. N \in Nat BY LenProperties
<1>2. 0 \in X
  <2>1. PICK f : f = [i \in 0 .. 0 |-> z] OBVIOUS
  <2>2. f \in [0 .. 0 -> S] /\ f[0] = z BY <2>1
  <2>3. \A n \in 1 .. 0 : f[n] = G[<<f[n - 1], x[n]>>] OBVIOUS
  <2>. QED BY <2>2, <2>3
<1>3. ASSUME NEW m \in Nat, m \in X PROVE m + 1 \in X
  <2>1. SUFFICES ASSUME m + 1 <= N
                 PROVE  \E f \in [0 .. m + 1 -> S] :
                   f[0] = z /\ \A n \in 1 .. m + 1 : f[n] = G[<<f[n - 1], x[n]>>]
    OBVIOUS
  <2>2. m <= N BY <1>1, <2>1
  <2>3. PICK g \in [0 .. m -> S] :
          g[0] = z /\ \A n \in 1 .. m : g[n] = G[<<g[n - 1], x[n]>>]
    BY <1>3, <2>2
  <2>4. m + 1 \in 1 .. Len(x) /\ m \in 0 .. m BY <1>1, <2>1
  <2>5. x[m + 1] \in B BY <2>4, ElementOfSeq
  <2>6. PICK y : y = G[<<g[m], x[m + 1]>>] OBVIOUS
  <2>7. y \in S BY <2>4, <2>5, <2>6
  <2>8. PICK f : f = [i \in 0 .. m + 1 |-> IF i <= m THEN g[i] ELSE y] OBVIOUS
  <2>9. \A i \in 0 .. m + 1 : i <= m => i \in 0 .. m OBVIOUS
  <2>10. f \in [0 .. m + 1 -> S] BY <2>7, <2>8, <2>9
  <2>11. \A i \in 0 .. m : f[i] = g[i] BY <2>8
  <2>12. f[m + 1] = y BY <2>8
  <2>13. ASSUME NEW n \in 1 .. m + 1 PROVE f[n] = G[<<f[n - 1], x[n]>>]
    <3>1. CASE n = m + 1
      <4>1. n - 1 = m BY <3>1
      <4>. QED BY <2>4, <2>6, <2>11, <2>12, <3>1, <4>1
    <3>2. CASE n # m + 1
      <4>1. n \in 1 .. m /\ n \in 0 .. m /\ n - 1 \in 0 .. m BY <3>2
      <4>. QED BY <2>3, <2>11, <4>1
    <3>. QED BY <3>1, <3>2
  <2>14. f[0] = z BY <2>3, <2>11
  <2>. QED BY <2>10, <2>13, <2>14
<1>4. \A m \in Nat : m \in X => m + 1 \in X BY <1>3
<1> HIDE DEF X
<1>5. Nat \subseteq X BY <1>2, <1>4, NatInductive
<1>. QED BY <1>1, <1>5 DEF X, Steps

\* Sequences that agree up to k lead to the same state there.
LEMMA StepsSame ==
  ASSUME NEW S, NEW z, NEW G, NEW x, NEW y, NEW f \in Steps(S, z, G, x), NEW g \in Steps(S, z, G, y),
         Len(x) \in Nat, Len(y) \in Nat,
         NEW k \in Nat, k <= Len(x), k <= Len(y), \A n \in 1 .. k : x[n] = y[n]
  PROVE  f[k] = g[k]
<1> DEFINE X == {n \in Nat : n <= k => f[n] = g[n]}
<1>1. 0 \in X BY DEF Steps
<1>2. ASSUME NEW n \in Nat, n \in X PROVE n + 1 \in X
  <2> SUFFICES ASSUME n + 1 <= k PROVE f[n + 1] = g[n + 1]
    OBVIOUS
  <2>1. f[n] = g[n] /\ x[n + 1] = y[n + 1] /\ (n + 1) - 1 = n BY <1>2
  <2>2. n + 1 \in 1 .. Len(x) /\ n + 1 \in 1 .. Len(y) OBVIOUS
  <2>3. f[n + 1] = G[<<f[n], x[n + 1]>>] /\ g[n + 1] = G[<<g[n], y[n + 1]>>]
    BY <2>1, <2>2 DEF Steps
  <2>. QED BY <2>1, <2>3
<1>3. \A n \in Nat : n \in X => n + 1 \in X BY <1>2
<1> HIDE DEF X
<1>4. Nat \subseteq X BY <1>1, <1>3, NatInductive
<1>. QED BY <1>4 DEF X

\* What holds of the first state and passes along the steps holds of the last.
LEMMA StepsKeep ==
  ASSUME NEW S, NEW z, NEW G, NEW B, NEW x \in Seq(B), NEW f \in Steps(S, z, G, x), NEW Good,
         <<z, 0>> \in Good,
         \A n \in 1 .. Len(x) : <<f[n - 1], n - 1>> \in Good => <<G[<<f[n - 1], x[n]>>], n>> \in Good
  PROVE  <<f[Len(x)], Len(x)>> \in Good
<1> DEFINE X == {n \in Nat : n <= Len(x) => <<f[n], n>> \in Good}
<1>0. Len(x) \in Nat BY LenProperties
<1>1. 0 \in X BY DEF Steps
<1>2. ASSUME NEW n \in Nat, n \in X PROVE n + 1 \in X
  <2> SUFFICES ASSUME n + 1 <= Len(x) PROVE <<f[n + 1], n + 1>> \in Good
    OBVIOUS
  <2>1. <<f[n], n>> \in Good /\ (n + 1) - 1 = n BY <1>0, <1>2
  <2>2. n + 1 \in 1 .. Len(x) BY <1>0
  <2>3. f[n + 1] = G[<<f[n], x[n + 1]>>] BY <2>1, <2>2 DEF Steps
  <2>. QED BY <2>1, <2>2, <2>3
<1>3. \A n \in Nat : n \in X => n + 1 \in X BY <1>2
<1> HIDE DEF X
<1>4. Nat \subseteq X BY <1>1, <1>3, NatInductive
<1>. QED BY <1>0, <1>4 DEF X

\* The words of a list of pieces.
Flat(s) == Chunked!FlattenSeq(s)
Joining(A) == [p \in Seq(A) \X Seq(A) |-> p[1] \o p[2]]

LEMMA FlatIs ==
  ASSUME NEW A, NEW s \in Seq(Seq(A))
  PROVE  \E f \in Steps(Seq(A), <<>>, Joining(A), s) : Flat(s) = f[Len(s)]
<1> DEFINE N == Len(s)
           Def(h) == h = [i \in 1 .. N |-> IF i = 1 THEN s[i] ELSE h[i - 1] \o s[i]]
           h0 == CHOOSE h : Def(h)
<1>1. N \in Nat /\ \A n \in 1 .. N : s[n] \in Seq(A) BY LenProperties, ElementOfSeq
<1>2. <<>> \in Seq(A) BY EmptySeq
<1>3. Joining(A) \in [Seq(A) \X Seq(A) -> Seq(A)]
  <2>1. \A a, b \in Seq(A) : a \o b \in Seq(A) BY ConcatProperties
  <2>. QED BY <2>1 DEF Joining
<1>4. PICK f : f \in Steps(Seq(A), <<>>, Joining(A), s) BY <1>2, <1>3, StepsExist
<1>5. f \in [0 .. N -> Seq(A)] /\ f[0] = <<>> BY <1>4 DEF Steps
<1>6. \A n \in 1 .. N : f[n] = f[n - 1] \o s[n]
  <2>1. TAKE n \in 1 .. N
  <2>2. f[n] = Joining(A)[<<f[n - 1], s[n]>>] BY <1>4 DEF Steps
  <2>3. n - 1 \in 0 .. N BY <1>1
  <2>. QED BY <1>1, <1>5, <2>2, <2>3 DEF Joining
<1>7. CASE N = 0
  <2>1. s = <<>> BY <1>7, EmptySeq
  <2>2. Flat(s) = s BY <1>7 DEF Flat, Chunked!FlattenSeq
  <2>. QED BY <1>4, <1>5, <1>7, <2>1, <2>2
<1>8. CASE N # 0
  <2>1. PICK g : g = [i \in 1 .. N |-> f[i]] OBVIOUS
  <2>2. Def(g)
    <3>1. ASSUME NEW i \in 1 .. N PROVE f[i] = IF i = 1 THEN s[i] ELSE g[i - 1] \o s[i]
      <4>1. CASE i = 1
        <5>1. i - 1 = 0 BY <4>1
        <5>2. f[i] = <<>> \o s[i] BY <1>5, <1>6, <5>1
        <5>. QED BY <1>1, <4>1, <5>2, ConcatEmptySeq
      <4>2. CASE i # 1
        <5>1. i - 1 \in 1 .. N BY <1>1, <4>2
        <5>. QED BY <1>6, <2>1, <4>2, <5>1
      <4>. QED BY <4>1, <4>2
    <3>. QED BY <2>1, <3>1
  <2> HIDE DEF Def
  <2>3. Def(h0) BY <2>2
  <2>4. Flat(s) = h0[N] BY <1>8 DEF Flat, Chunked!FlattenSeq, Def
  <2> HIDE DEF h0
  <2> DEFINE X == {n \in Nat : n \in 1 .. N => h0[n] = f[n]}
  <2>5. 0 \in X OBVIOUS
  <2>6. ASSUME NEW n \in Nat, n \in X PROVE n + 1 \in X
    <3>1. SUFFICES ASSUME n + 1 \in 1 .. N PROVE h0[n + 1] = f[n + 1]
      OBVIOUS
    <3>2. h0[n + 1] = IF n + 1 = 1 THEN s[n + 1] ELSE h0[(n + 1) - 1] \o s[n + 1]
      BY <2>3, <3>1 DEF Def
    <3>3. (n + 1) - 1 = n /\ f[n + 1] = f[n] \o s[n + 1]
      <4>1. (n + 1) - 1 = n OBVIOUS
      <4>. QED BY <1>6, <3>1, <4>1
    <3>4. CASE n = 0
      <4>1. f[n + 1] = s[n + 1] BY <1>1, <1>5, <3>1, <3>3, <3>4, ConcatEmptySeq
      <4>. QED BY <3>2, <3>4, <4>1
    <3>5. CASE n # 0
      <4>1. n \in 1 .. N /\ n + 1 # 1 BY <1>1, <3>1, <3>5
      <4>2. h0[n] = f[n] BY <2>6, <4>1
      <4>3. h0[n + 1] = h0[n] \o s[n + 1] BY <3>2, <3>3, <4>1
      <4>. QED BY <3>3, <4>2, <4>3
    <3>. QED BY <3>4, <3>5
  <2>7. \A n \in Nat : n \in X => n + 1 \in X BY <2>6
  <2> HIDE DEF X
  <2>8. Nat \subseteq X BY <2>5, <2>7, NatInductive
  <2>9. N \in 1 .. N BY <1>1, <1>8
  <2>10. h0[N] = f[N] BY <1>1, <2>8, <2>9 DEF X
  <2>. QED BY <1>4, <2>4, <2>10
<1>. QED BY <1>7, <1>8

\* One more piece adds its words.
LEMMA FlatAppend ==
  ASSUME NEW A
  PROVE  /\ Flat(<<>>) = <<>>
         /\ \A s \in Seq(Seq(A)) : Flat(s) \in Seq(A)
         /\ \A s \in Seq(Seq(A)) : \A x \in Seq(A) : Flat(Append(s, x)) = Flat(s) \o x
<1>1. Flat(<<>>) = <<>>
  <2>1. Len(<<>>) = 0 BY EmptySeq
  <2>. QED BY <2>1 DEF Flat, Chunked!FlattenSeq
<1>2. ASSUME NEW s \in Seq(Seq(A)) PROVE Flat(s) \in Seq(A)
  <2>1. PICK f \in Steps(Seq(A), <<>>, Joining(A), s) : Flat(s) = f[Len(s)] BY FlatIs
  <2>2. Len(s) \in 0 .. Len(s) BY LenProperties
  <2>. QED BY <2>1, <2>2 DEF Steps
<1>3. ASSUME NEW s \in Seq(Seq(A)), NEW x \in Seq(A) PROVE Flat(Append(s, x)) = Flat(s) \o x
  <2>1. PICK r : r = Append(s, x) OBVIOUS
  <2>2. /\ r \in Seq(Seq(A)) /\ Len(s) \in Nat /\ Len(r) = Len(s) + 1 /\ Len(r) \in Nat
        /\ r[Len(r)] = x /\ \A n \in 1 .. Len(s) : s[n] = r[n]
    BY <2>1, LenProperties
  <2>3. PICK f \in Steps(Seq(A), <<>>, Joining(A), s) : Flat(s) = f[Len(s)] BY FlatIs
  <2>4. PICK g \in Steps(Seq(A), <<>>, Joining(A), r) : Flat(r) = g[Len(r)] BY <2>2, FlatIs
  <2>5. f[Len(s)] = g[Len(s)]
    <3>1. Len(s) <= Len(s) /\ Len(s) <= Len(r) BY <2>2
    <3>2. f \in Steps(Seq(A), <<>>, Joining(A), s) /\ g \in Steps(Seq(A), <<>>, Joining(A), r)
      BY <2>3, <2>4
    <3>3. \A n \in 1 .. Len(s) : s[n] = r[n] BY <2>2
    <3>4. Len(s) \in Nat /\ Len(r) \in Nat BY <2>2
    <3>. QED BY ONLY <3>1, <3>2, <3>3, <3>4, StepsSame
  <2>6. Len(r) \in 1 .. Len(r) /\ Len(r) - 1 = Len(s) BY <2>2
  <2>7. g[Len(r)] = Joining(A)[<<g[Len(s)], x>>] BY <2>2, <2>4, <2>6 DEF Steps
  <2>8. f[Len(s)] \in Seq(A) BY <1>2, <2>3
  <2>. QED BY <2>1, <2>3, <2>4, <2>5, <2>7, <2>8 DEF Joining
<1>. QED BY <1>1, <1>2, <1>3

\* The words of two lists of pieces.
LEMMA FlatConcat ==
  ASSUME NEW A, NEW a \in Seq(Seq(A)), NEW b \in Seq(Seq(A))
  PROVE  Flat(a \o b) = Flat(a) \o Flat(b)
<1> DEFINE X == {c \in Seq(Seq(A)) : Flat(a \o c) = Flat(a) \o Flat(c)}
<1>1. <<>> \in X
  <2>1. <<>> \in Seq(Seq(A)) /\ a \o <<>> = a BY EmptySeq, ConcatEmptySeq
  <2>2. Flat(a) \o Flat(<<>>) = Flat(a) BY FlatAppend, ConcatEmptySeq
  <2>. QED BY <2>1, <2>2
<1>2. ASSUME NEW c \in Seq(Seq(A)), NEW x \in Seq(A), c \in X PROVE Append(c, x) \in X
  <2>1. PICK d : d = a \o c OBVIOUS
  <2>2. d \in Seq(Seq(A)) /\ a \o Append(c, x) = Append(d, x)
    <3>0. a \in Seq(Seq(A)) /\ c \in Seq(Seq(A)) OBVIOUS
    <3>1. /\ d \in Seq(Seq(A)) /\ Len(d) = Len(a) + Len(c) /\ Len(a) \in Nat /\ Len(c) \in Nat
          /\ \A i \in 1 .. Len(d) : d[i] = IF i <= Len(a) THEN a[i] ELSE c[i - Len(a)]
      BY <2>1, ConcatProperties, LenProperties
    <3>2. PICK e : e = Append(c, x) OBVIOUS
    <3>3. /\ e \in Seq(Seq(A)) /\ Len(e) = Len(c) + 1 /\ e[Len(c) + 1] = x
          /\ \A i \in 1 .. Len(c) : e[i] = c[i]
      BY <3>1, <3>2
    <3>4. PICK u, v : u = a \o e /\ v = Append(d, x) OBVIOUS
    <3>5. /\ u \in Seq(Seq(A)) /\ Len(u) = Len(a) + Len(e)
          /\ \A i \in 1 .. Len(a) + Len(e) : u[i] = IF i <= Len(a) THEN a[i] ELSE e[i - Len(a)]
      <4>1. e \in Seq(Seq(A)) BY <3>3
      <4>. QED BY <3>4, <4>1, ConcatProperties
    <3>6. /\ v \in Seq(Seq(A)) /\ Len(v) = Len(d) + 1 /\ v[Len(d) + 1] = x
          /\ \A i \in 1 .. Len(d) : v[i] = d[i]
      BY <3>1, <3>4
    <3>7. ASSUME NEW i \in 1 .. Len(u) PROVE u[i] = v[i]
      <4>0. Len(u) = Len(a) + Len(c) + 1 /\ i \in 1 .. Len(a) + Len(e) BY <3>1, <3>3, <3>5
      <4>1. CASE i <= Len(a)
        <5>1. i \in 1 .. Len(d) BY <3>1, <4>1
        <5>2. u[i] = a[i] BY <3>5, <4>0, <4>1
        <5>3. v[i] = d[i] /\ d[i] = a[i] BY <3>1, <3>6, <4>1, <5>1
        <5>. QED BY <5>2, <5>3
      <4>2. CASE i > Len(a) /\ i <= Len(a) + Len(c)
        <5>1. i - Len(a) \in 1 .. Len(c) /\ i \in 1 .. Len(d) BY <3>1, <4>2
        <5>2. e[i - Len(a)] = c[i - Len(a)] BY <3>3, <5>1
        <5>3. u[i] = e[i - Len(a)]
          <6>1. ~ i <= Len(a) BY <3>1, <4>2
          <6>. QED BY <3>5, <4>0, <6>1
        <5>4. v[i] = d[i] /\ d[i] = c[i - Len(a)] BY <3>1, <3>6, <4>2, <5>1
        <5>. QED BY <5>2, <5>3, <5>4
      <4>3. CASE i = Len(a) + Len(c) + 1
        <5>1. i - Len(a) = Len(c) + 1 BY <3>1, <4>3
        <5>2. ~ i <= Len(a) /\ i = Len(d) + 1 BY <3>1, <4>3
        <5>3. u[i] = e[i - Len(a)] BY <3>5, <4>0, <5>2
        <5>. QED BY <3>3, <3>6, <5>1, <5>2, <5>3
      <4>4. i \in Nat /\ i <= Len(a) + Len(c) + 1 BY <3>1, <4>0
      <4>5. i <= Len(a) \/ (i > Len(a) /\ i <= Len(a) + Len(c)) \/ i = Len(a) + Len(c) + 1
        <5>1. Len(a) \in Nat /\ Len(c) \in Nat BY <3>1
        <5>2. ASSUME NEW p \in Nat, NEW q \in Nat, NEW j \in Nat, j <= p + q + 1
              PROVE  j <= p \/ (j > p /\ j <= p + q) \/ j = p + q + 1
          BY ONLY <5>2
        <5>. QED BY <4>4, <5>1, <5>2
      <4>. QED BY <4>1, <4>2, <4>3, <4>5
    <3>8. Len(u) = Len(v) BY <3>1, <3>3, <3>5, <3>6
    <3>9. u = v BY <3>5, <3>6, <3>7, <3>8, SeqEqual
    <3>. QED BY <3>1, <3>2, <3>4, <3>9
  <2>3. Flat(Append(d, x)) = Flat(d) \o x BY <2>2, FlatAppend
  <2>4. Flat(Append(c, x)) = Flat(c) \o x BY FlatAppend
  <2>5. Flat(d) = Flat(a) \o Flat(c) BY <1>2, <2>1
  <2>6. Flat(a) \in Seq(A) /\ Flat(c) \in Seq(A) BY FlatAppend
  <2>7. (Flat(a) \o Flat(c)) \o x = Flat(a) \o (Flat(c) \o x) BY <2>6, ConcatAssociative
  <2>8. Append(c, x) \in Seq(Seq(A)) OBVIOUS
  <2>. QED BY <2>2, <2>3, <2>4, <2>5, <2>7, <2>8
<1>3. \A c \in Seq(Seq(A)) : \A x \in Seq(A) : c \in X => Append(c, x) \in X BY <1>2
<1> HIDE DEF X
<1>4. Seq(Seq(A)) \subseteq X BY <1>1, <1>3, SeqInductive
<1>. QED BY <1>4 DEF X

\* Flattening twice is flattening each and then the results.
Flats(s) == [i \in DOMAIN s |-> Flat(s[i])]
LEMMA FlatFlat ==
  ASSUME NEW A, NEW s \in Seq(Seq(Seq(A)))
  PROVE  /\ Flats(s) \in Seq(Seq(A)) /\ Len(Flats(s)) = Len(s)
         /\ Flat(Flat(s)) = Flat(Flats(s))
<1> DEFINE B == Seq(Seq(A))
           X == {c \in Seq(B) : Flat(Flat(c)) = Flat(Flats(c))}
<1>1. ASSUME NEW c \in Seq(B)
      PROVE  /\ Flats(c) \in Seq(Seq(A)) /\ Len(Flats(c)) = Len(c) /\ Len(c) \in Nat
             /\ \A i \in 1 .. Len(c) : Flats(c)[i] = Flat(c[i]) /\ c[i] \in B
  <2>1. Len(c) \in Nat /\ DOMAIN c = 1 .. Len(c) BY LenProperties
  <2>2. \A i \in 1 .. Len(c) : c[i] \in B BY ElementOfSeq
  <2>3. \A i \in 1 .. Len(c) : Flat(c[i]) \in Seq(A) BY <2>2, FlatAppend
  <2>. QED BY <2>1, <2>2, <2>3 DEF Flats
<1>2. <<>> \in X
  <2>1. <<>> \in Seq(B) /\ Flat(<<>>) = <<>> BY EmptySeq, FlatAppend
  <2>2. Flats(<<>>) = <<>> BY <1>1, <2>1, EmptySeq
  <2>. QED BY <2>1, <2>2
<1>3. ASSUME NEW c \in Seq(B), NEW x \in B, c \in X PROVE Append(c, x) \in X
  <2>1. PICK d : d = Append(c, x) OBVIOUS
  <2>2. /\ d \in Seq(B) /\ Len(d) = Len(c) + 1 /\ d[Len(c) + 1] = x
        /\ \A i \in 1 .. Len(c) : d[i] = c[i]
    BY <1>1, <2>1
  <2>3. Flat(x) \in Seq(A) BY FlatAppend
  <2>4. PICK e : e = Append(Flats(c), Flat(x)) OBVIOUS
  <2>5. /\ e \in Seq(Seq(A)) /\ Len(e) = Len(c) + 1 /\ e[Len(c) + 1] = Flat(x)
        /\ \A i \in 1 .. Len(c) : e[i] = Flats(c)[i]
    BY <1>1, <2>3, <2>4
  <2>6. /\ Flats(d) \in Seq(Seq(A)) /\ Len(Flats(d)) = Len(d)
        /\ \A i \in 1 .. Len(d) : Flats(d)[i] = Flat(d[i])
    BY <1>1, <2>2
  <2>7. \A i \in 1 .. Len(d) : Flats(d)[i] = e[i]
    <3>1. TAKE i \in 1 .. Len(d)
    <3>2. CASE i = Len(c) + 1 BY <2>2, <2>5, <2>6, <3>2
    <3>3. CASE i # Len(c) + 1
      <4>1. i \in 1 .. Len(c) BY <1>1, <2>2, <3>3
      <4>2. e[i] = Flat(c[i]) BY <1>1, <2>5, <4>1
      <4>3. Flats(d)[i] = Flat(c[i]) BY <2>2, <2>6, <4>1
      <4>. QED BY <4>2, <4>3
    <3>. QED BY <3>2, <3>3
  <2>8. Flats(d) = e BY <2>2, <2>5, <2>6, <2>7, SeqEqual
  <2>9. Flat(Flats(d)) = Flat(Flats(c)) \o Flat(x)
    <3>1. Flats(c) \in Seq(Seq(A)) BY <1>1
    <3>2. Flat(Append(Flats(c), Flat(x))) = Flat(Flats(c)) \o Flat(x) BY <2>3, <3>1, FlatAppend
    <3>. QED BY <2>4, <2>8, <3>2
  <2>10. Flat(d) = Flat(c) \o x /\ Flat(c) \in B
    <3>1. c \in Seq(Seq(Seq(A))) /\ x \in Seq(Seq(A)) OBVIOUS
    <3>. QED BY <2>1, <3>1, FlatAppend
  <2>11. Flat(Flat(c) \o x) = Flat(Flat(c)) \o Flat(x) BY <2>10, FlatConcat
  <2>12. Flat(Flat(d)) = Flat(Flats(d)) BY <1>3, <2>9, <2>10, <2>11
  <2>. QED BY <2>1, <2>2, <2>12
<1>4. \A c \in Seq(B) : \A x \in B : c \in X => Append(c, x) \in X BY <1>3
<1>5. s \in Seq(B) OBVIOUS
<1> HIDE DEF X, B
<1>6. Seq(B) \subseteq X BY <1>2, <1>4, SeqInductive
<1>7. s \in X BY <1>5, <1>6
<1>. QED BY <1>1, <1>5, <1>7 DEF X, B

\* Where a piece is among the words of all.
Place(s, i, o) ==
  /\ o \in Nat /\ i \in 1 .. Len(s) /\ o + Len(s[i]) <= Len(Flat(s))
  /\ \A m \in 1 .. Len(s[i]) : Flat(s)[o + m] = s[i][m]
Placed(s) ==
  /\ \A i \in 1 .. Len(s) : \E o : Place(s, i, o)
  /\ \A k \in 1 .. Len(Flat(s)) : \E i, o : Place(s, i, o) /\ o < k /\ k <= o + Len(s[i])
LEMMA Places == ASSUME NEW A, NEW s \in Seq(Seq(A)) PROVE Placed(s)
<1> DEFINE X == {c \in Seq(Seq(A)) : Placed(c)}
<1>1. <<>> \in X
  <2>1. <<>> \in Seq(Seq(A)) /\ Len(<<>>) = 0 /\ Flat(<<>>) = <<>> BY EmptySeq, FlatAppend
  <2>. QED BY <2>1 DEF Placed
<1>2. ASSUME NEW c \in Seq(Seq(A)), NEW x \in Seq(A), c \in X PROVE Append(c, x) \in X
  <2>1. PICK d : d = Append(c, x) OBVIOUS
  <2>2. /\ d \in Seq(Seq(A)) /\ Len(c) \in Nat /\ Len(d) = Len(c) + 1 /\ d[Len(c) + 1] = x
        /\ \A i \in 1 .. Len(c) : d[i] = c[i]
    BY <2>1, LenProperties
  <2>3. PICK f : f = Flat(c) OBVIOUS
  <2>4. Flat(d) = f \o x /\ f \in Seq(A) BY <2>1, <2>3, FlatAppend
  <2>5. /\ Len(f) \in Nat /\ Len(x) \in Nat /\ Len(Flat(d)) = Len(f) + Len(x)
        /\ \A k \in 1 .. Len(f) + Len(x) : Flat(d)[k] = IF k <= Len(f) THEN f[k] ELSE x[k - Len(f)]
    BY <2>4, ConcatProperties, LenProperties
  <2>6. ASSUME NEW i, NEW o, Place(c, i, o) PROVE Place(d, i, o) /\ d[i] = c[i]
    <3>1. /\ o \in Nat /\ i \in 1 .. Len(c) /\ o + Len(c[i]) <= Len(f)
          /\ \A m \in 1 .. Len(c[i]) : f[o + m] = c[i][m]
      BY <2>3, <2>6 DEF Place
    <3>2. c[i] \in Seq(A) BY <3>1, ElementOfSeq
    <3>3. Len(c[i]) \in Nat BY <3>2, LenProperties
    <3>4. d[i] = c[i] /\ i \in 1 .. Len(d) BY <2>2, <3>1
    <3>5. ASSUME NEW m \in 1 .. Len(c[i]) PROVE Flat(d)[o + m] = c[i][m]
      <4>1. o + m \in 1 .. Len(f) + Len(x) /\ o + m <= Len(f) BY <2>5, <3>1, <3>3
      <4>. QED BY <2>5, <3>1, <4>1
    <3>6. o + Len(d[i]) <= Len(Flat(d)) BY <2>5, <3>1, <3>3, <3>4
    <3>. QED BY <3>1, <3>4, <3>5, <3>6 DEF Place
  <2>7. Place(d, Len(d), Len(f))
    <3>1. d[Len(d)] = x /\ Len(d) \in 1 .. Len(d) BY <2>2
    <3>2. ASSUME NEW m \in 1 .. Len(x) PROVE Flat(d)[Len(f) + m] = x[m]
      <4>1. Len(f) + m \in 1 .. Len(f) + Len(x) /\ ~ Len(f) + m <= Len(f) /\ (Len(f) + m) - Len(f) = m
        BY <2>5
      <4>2. Flat(d)[Len(f) + m] = x[(Len(f) + m) - Len(f)] BY <2>5, <4>1
      <4>. QED BY <4>1, <4>2
    <3>. QED BY <2>5, <3>1, <3>2 DEF Place
  <2>8. Placed(c) BY <1>2
  <2>9. ASSUME NEW i \in 1 .. Len(d) PROVE \E o : Place(d, i, o)
    <3>1. CASE i = Len(d) BY <2>7, <3>1
    <3>2. CASE i # Len(d)
      <4>1. i \in 1 .. Len(c) BY <2>2, <3>2
      <4>. QED BY <2>6, <2>8, <4>1 DEF Placed
    <3>. QED BY <3>1, <3>2
  <2>10. ASSUME NEW k \in 1 .. Len(Flat(d))
         PROVE  \E i, o : Place(d, i, o) /\ o < k /\ k <= o + Len(d[i])
    <3>1. CASE k <= Len(f)
      <4>1. k \in 1 .. Len(Flat(c)) BY <2>3, <2>5, <3>1
      <4>2. PICK i, o : Place(c, i, o) /\ o < k /\ k <= o + Len(c[i]) BY <2>8, <4>1 DEF Placed
      <4>. QED BY <2>6, <4>2
    <3>2. CASE k > Len(f)
      <4>1. Len(f) < k /\ k <= Len(f) + Len(d[Len(d)]) BY <2>2, <2>5, <3>2
      <4>. QED BY <2>7, <4>1
    <3>. QED BY <2>5, <3>1, <3>2
  <2>11. Placed(d) BY <2>9, <2>10 DEF Placed
  <2>. QED BY <2>1, <2>2, <2>11
<1>3. \A c \in Seq(Seq(A)) : \A x \in Seq(A) : c \in X => Append(c, x) \in X BY <1>2
<1> HIDE DEF X
<1>4. Seq(Seq(A)) \subseteq X BY <1>1, <1>3, SeqInductive
<1>. QED BY <1>4 DEF X

\* One more element.
LEMMA OneAppended ==
  ASSUME NEW A, NEW s \in Seq(A), NEW x \in A
  PROVE  /\ Append(s, x) \in Seq(A) /\ Len(s) \in Nat /\ Len(Append(s, x)) = Len(s) + 1
         /\ Append(s, x)[Len(s) + 1] = x /\ \A i \in 1 .. Len(s) : Append(s, x)[i] = s[i]
BY AppendProperties, LenProperties

\* The last words of a text.
LEMMA LastIs ==
  ASSUME NEW A, NEW s \in Seq(A), NEW n \in Nat
  PROVE  LET t == Chunked!LastTokens(n, s)
         IN  /\ t \in Seq(A) /\ Len(t) \in Nat /\ Len(t) <= n /\ Len(t) <= Len(s)
             /\ \A k \in 1 .. Len(t) : t[k] = s[Len(s) - Len(t) + k]
<1>1. Len(s) \in Nat BY LenProperties
<1>2. PICK m \in Nat : /\ m = IF Len(s) > n THEN Len(s) - n + 1 ELSE 1
                      /\ Len(s) - m + 1 \in Nat /\ Len(s) - m + 1 <= n /\ 1 <= m
  <2>1. CASE Len(s) > n
    <3>1. Len(s) - n + 1 \in Nat /\ Len(s) - (Len(s) - n + 1) + 1 = n /\ 1 <= Len(s) - n + 1
      BY <1>1, <2>1
    <3>. QED BY <2>1, <3>1
  <2>2. CASE ~ Len(s) > n
    <3>1. Len(s) - 1 + 1 = Len(s) /\ Len(s) <= n BY <1>1, <2>2
    <3>. QED BY <1>1, <2>2, <3>1
  <2>. QED BY <2>1, <2>2
<1>3. PICK t : t = SubSeq(s, m, Len(s)) OBVIOUS
<1>4. Chunked!LastTokens(n, s) = t BY <1>2, <1>3 DEF Chunked!LastTokens
<1>5. \A i \in m .. Len(s) : s[i] \in A
  <2>1. \A i \in m .. Len(s) : i \in 1 .. Len(s) BY <1>1, <1>2
  <2>. QED BY <2>1, ElementOfSeq
<1>6. /\ t \in Seq(A) /\ Len(t) = IF m <= Len(s) THEN Len(s) - m + 1 ELSE 0
      /\ \A i \in 1 .. Len(s) - m + 1 : t[i] = s[m + i - 1]
  BY <1>1, <1>3, <1>5, SubSeqProperties
<1>7. Len(t) = Len(s) - m + 1 /\ Len(t) <= n /\ Len(t) <= Len(s) /\ Len(t) \in Nat
  <2>0. Len(s) - m + 1 <= Len(s) BY <1>1, <1>2
  <2>1. CASE m <= Len(s)
    <3>1. Len(t) = Len(s) - m + 1 BY <1>6, <2>1
    <3>. QED BY <1>2, <2>0, <3>1
  <2>2. CASE ~ m <= Len(s)
    <3>1. Len(s) - m + 1 = 0 BY <1>1, <1>2, <2>2
    <3>2. Len(t) = 0 BY <1>6, <2>2
    <3>. QED BY <1>2, <2>0, <3>1, <3>2
  <2>. QED BY <2>1, <2>2
<1>8. ASSUME NEW k \in 1 .. Len(t) PROVE t[k] = s[Len(s) - Len(t) + k]
  <2>1. m + k - 1 = Len(s) - Len(t) + k BY <1>1, <1>2, <1>7
  <2>2. k \in 1 .. Len(s) - m + 1 BY <1>7
  <2>. QED BY <1>6, <2>1, <2>2
<1>. QED BY <1>4, <1>6, <1>7, <1>8

-----------------------------------------------------------------------------
(* Runs of tokens                                                          *)

\* A run of tokens is in p after the first a tokens.
At(r, p, a) == a \in Nat /\ a + Len(r) <= Len(p) /\ \A k \in 1 .. Len(r) : p[a + k] = r[k]

\* No word of p begins at the places from a to b.
NoStart(p, a, b) == \A k \in a .. b : p[k] \notin WordStarts
\* A word of p, or nothing of it, begins after the first m tokens.
Edge(p, m) == m \in 0 .. Len(p) /\ (m \in 1 .. Len(p) - 1 => p[m + 1] \in WordStarts)
\* No word of p has more than n tokens.
Fits(p, n) == \A a, b \in 1 .. Len(p) : a <= b /\ NoStart(p, a + 1, b) => (b - a) + 1 <= n

\* With the word that follows, l tokens after the first a are above the target.
Full(p, a, l, target) ==
  target <= l \/ \E e \in 0 .. Len(p) : a + l < e /\ target < e - a /\ NoStart(p, a + l + 2, e)
\* A run that is full and is followed at once, or overlapped, by itself.
Echoes(p, target) ==
  \E a, b, l \in 0 .. Len(p) :
    /\ a < b /\ b <= a + l /\ b + l <= Len(p) /\ Full(p, a, l, target)
    /\ \A k \in 1 .. l : p[a + k] = p[b + k]

Wraps(A) == [pieces : Seq(Seq(A)), current : Seq(A)]
NoWrap == [pieces |-> <<>>, current |-> <<>>]

RunsOf(ps, p, big) ==
  \A i \in 1 .. Len(ps) : Len(ps[i]) <= big /\ \E a : At(ps[i], p, a)
\* The places from k to l of p are in one of the pieces.
Holds(ps, p, k, l) == \E i \in 1 .. Len(ps) : \E a : At(ps[i], p, a) /\ a < k /\ l <= a + Len(ps[i])
Covers(ps, p, e) ==
  \A k, l \in 1 .. e : k <= l /\ NoStart(p, k + 1, l) => Holds(ps, p, k, l)
\* The last piece is full and ends where the tokens under way begin, or within them.
Follows(ps, c, p, target, n) ==
  ps # <<>> => \E a : LET r == ps[Len(ps)]
                      IN  /\ At(r, p, a) /\ Full(p, a, Len(r), target) /\ n <= a + Len(r) + Len(c)
                          /\ a + Len(r) <= n /\ (c # <<>> => a + Len(r) < n)

\* After n tokens of p, which are whole words.
Reached(A, p, target, overlap, big, ps, c, n) ==
  /\ ps \in Seq(Seq(A)) /\ c \in Seq(A) /\ Edge(p, n)
  /\ At(c, p, n - Len(c)) /\ Len(c) <= big /\ RunsOf(ps, p, big)
  /\ \E m \in Nat : n - Len(c) <= m /\ m <= n /\ Edge(p, m) /\ Covers(ps, p, m)
  /\ Follows(ps, c, p, target, n)
  /\ overlap = 0 => Flat(ps) \o c = SubSeq(p, 1, n)
Wrapped(A, p, target, overlap, big, st, n) ==
  st \in Wraps(A) /\ Reached(A, p, target, overlap, big, st.pieces, st.current, n)

\* A word more leaves the pieces as they are, or adds one or two.
LEMMA WrapShapes ==
  ASSUME NEW A, NEW st \in Wraps(A), NEW w \in Seq(A), NEW target \in Nat, NEW overlap \in Nat, NEW max \in Nat
  PROVE  LET next == Chunked!WrapWord(st, w, target, overlap, max)
             trial == st.current \o w
             tail == Chunked!LastTokens(overlap, st.current) \o w
         IN  \/ /\ st.current # <<>> /\ target < Len(st.current) + Len(w)
                /\ \/ next = [pieces |-> Append(st.pieces, st.current), current |-> tail]
                   \/ next = [pieces |-> Append(Append(st.pieces, st.current), tail), current |-> <<>>]
                      /\ max < Len(tail)
             \/ next = [pieces |-> Append(st.pieces, trial), current |-> <<>>] /\ max <= Len(trial)
                /\ (st.current = <<>> \/ Len(trial) <= target)
             \/ next = [pieces |-> st.pieces, current |-> trial] /\ Len(trial) < max
<1> DEFINE next == Chunked!WrapWord(st, w, target, overlap, max)
           trial == st.current \o w
           last == Chunked!LastTokens(overlap, st.current)
           tail == last \o w
           two == st.pieces \o <<st.current, tail>>
<1>1. st.pieces \in Seq(Seq(A)) /\ st.current \in Seq(A) BY DEF Wraps
<1>2. trial \in Seq(A) /\ Len(trial) = Len(st.current) + Len(w) /\ Len(trial) \in Nat
  BY <1>1, ConcatProperties, LenProperties
<1>3. last \in Seq(A) BY <1>1, LastIs
<1> HIDE DEF last
<1>4. tail \in Seq(A) /\ Len(tail) \in Nat BY <1>3, ConcatProperties, LenProperties
<1>5. two = Append(Append(st.pieces, st.current), tail)
  <2>1. PICK ps, c, d : ps = st.pieces /\ c = st.current /\ d = tail BY Zenon
  <2>2. ps \in Seq(Seq(A)) /\ c \in Seq(A) /\ d \in Seq(A) BY <1>1, <1>4, <2>1
  <2>3. ps \o <<c, d>> = Append(Append(ps, c), d)
    <3>1. PICK B : B = Seq(A) OBVIOUS
    <3>2. ps \in Seq(B) /\ c \in B /\ d \in B BY <2>2, <3>1
    <3>. QED BY ONLY <3>2
  <2>. QED BY <2>1, <2>3
<1>6. st = [pieces |-> st.pieces, current |-> st.current] BY DEF Wraps
<1>7. next = IF st.current # <<>> /\ Len(trial) > target
             THEN IF Len(tail) > max
                  THEN [pieces |-> two, current |-> <<>>]
                  ELSE [pieces |-> Append(st.pieces, st.current), current |-> tail]
             ELSE IF Len(trial) >= max
                  THEN [pieces |-> Append(st.pieces, trial), current |-> <<>>]
                  ELSE [st EXCEPT !.current = trial]
  BY DEF Chunked!WrapWord, last
<1>8. [st EXCEPT !.current = trial] = [pieces |-> st.pieces, current |-> trial]
  <2>1. \A u, v, x, y : u = [pieces |-> v, current |-> x] =>
                        [u EXCEPT !.current = y] = [pieces |-> v, current |-> y]
    BY ONLY SMT
  <2>. QED BY ONLY <1>6, <2>1
<1> HIDE DEF next, trial, tail, two
<1>9. CASE st.current # <<>> /\ Len(trial) > target
  <2>1. target < Len(st.current) + Len(w) BY <1>2, <1>9
  <2>2. Len(tail) > max => max < Len(tail) BY <1>4
  <2>. QED BY <1>5, <1>7, <1>9, <2>1, <2>2 DEF next, trial, tail, last
<1>10. CASE ~ (st.current # <<>> /\ Len(trial) > target)
  <2>1. st.current = <<>> \/ Len(trial) <= target BY <1>2, <1>10
  <2>2. CASE Len(trial) >= max
    <3>1. max <= Len(trial) BY <1>2, <2>2
    <3>. QED BY <1>7, <1>10, <2>1, <2>2, <3>1 DEF next, trial
  <2>3. CASE ~ Len(trial) >= max
    <3>1. Len(trial) < max BY <1>2, <2>3
    <3>. QED BY <1>7, <1>8, <1>10, <2>3, <3>1 DEF next, trial
  <2>. QED BY <2>2, <2>3
<1>. QED BY <1>9, <1>10

\* A piece that begins where the pieces have covered p, or earlier.
LEMMA RunAdded ==
  ASSUME NEW A, NEW p \in Seq(A), NEW ps \in Seq(Seq(A)), NEW r \in Seq(A),
         NEW a \in Nat, NEW m, NEW big \in Nat,
         At(r, p, a), Len(r) <= big, RunsOf(ps, p, big),
         Edge(p, m), Covers(ps, p, m), a <= m
  PROVE  LET q == Append(ps, r)
         IN  /\ q \in Seq(Seq(A)) /\ q # <<>> /\ q[Len(q)] = r
             /\ RunsOf(q, p, big) /\ Covers(q, p, a + Len(r))
<1>1. PICK q : q = Append(ps, r) OBVIOUS
<1>2. /\ q \in Seq(Seq(A)) /\ Len(ps) \in Nat /\ Len(q) = Len(ps) + 1 /\ q[Len(ps) + 1] = r
      /\ \A i \in 1 .. Len(ps) : q[i] = ps[i]
  BY <1>1, OneAppended
<1>3. Len(r) \in Nat /\ Len(p) \in Nat /\ a + Len(r) <= Len(p) BY LenProperties DEF At
<1>4. Len(q) \in 1 .. Len(q) /\ q[Len(q)] = r BY <1>2
<1>5. ASSUME NEW i \in 1 .. Len(q) PROVE Len(q[i]) <= big /\ \E b : At(q[i], p, b)
  <2>1. CASE i = Len(q) BY <1>4, <2>1
  <2>2. CASE i # Len(q)
    <3>1. i \in 1 .. Len(ps) BY <1>2, <2>2
    <3>. QED BY <1>2, <3>1 DEF RunsOf
  <2>. QED BY <2>1, <2>2
<1>6. ASSUME NEW k \in 1 .. a + Len(r), NEW l \in 1 .. a + Len(r), k <= l, NoStart(p, k + 1, l)
      PROVE  Holds(q, p, k, l)
  <2>0. m \in Nat BY <1>3 DEF Edge
  <2>1. CASE l <= m
    <3>1. k \in 1 .. m /\ l \in 1 .. m BY <1>3, <1>6, <2>0, <2>1
    <3>2. Holds(ps, p, k, l) BY <1>6, <3>1 DEF Covers
    <3>3. PICK i \in 1 .. Len(ps) : \E b : At(ps[i], p, b) /\ b < k /\ l <= b + Len(ps[i])
      BY <3>2 DEF Holds
    <3>4. i \in 1 .. Len(q) /\ q[i] = ps[i] BY <1>2
    <3>. QED BY <3>3, <3>4 DEF Holds
  <2>2. CASE ~ l <= m /\ k <= m
    <3>1. m \in 1 .. Len(p) - 1 /\ m + 1 \in k + 1 .. l BY <1>3, <1>6, <2>0, <2>2
    <3>2. p[m + 1] \in WordStarts BY <3>1 DEF Edge
    <3>. QED BY <1>6, <3>1, <3>2 DEF NoStart
  <2>3. CASE ~ k <= m
    <3>1. a < k /\ l <= a + Len(r) BY <1>3, <2>0, <2>3
    <3>. QED BY <1>4, <3>1 DEF Holds
  <2>. QED BY <2>1, <2>2, <2>3
<1>7. RunsOf(q, p, big) BY <1>5 DEF RunsOf
<1>8. Covers(q, p, a + Len(r)) BY <1>6 DEF Covers
<1>9. q # <<>> BY <1>2, EmptySeq
<1>. QED BY <1>1, <1>2, <1>4, <1>7, <1>8, <1>9

\* The next tokens follow it.
LEMMA PieceAdded ==
  ASSUME NEW A, NEW p \in Seq(A), NEW ps \in Seq(Seq(A)), NEW r \in Seq(A), NEW c \in Seq(A),
         NEW a \in Nat, NEW m, NEW n \in Nat, NEW target \in Nat, NEW big \in Nat,
         At(r, p, a), Len(r) <= big, RunsOf(ps, p, big), Edge(p, m), Covers(ps, p, m), a <= m,
         Full(p, a, Len(r), target),
         n <= a + Len(r) + Len(c), a + Len(r) <= n, c # <<>> => a + Len(r) < n
  PROVE  LET q == Append(ps, r)
         IN  /\ q \in Seq(Seq(A)) /\ RunsOf(q, p, big) /\ Covers(q, p, a + Len(r))
             /\ Follows(q, c, p, target, n)
<1>1. PICK q : q = Append(ps, r) OBVIOUS
<1>2. /\ q \in Seq(Seq(A)) /\ q # <<>> /\ q[Len(q)] = r
      /\ RunsOf(q, p, big) /\ Covers(q, p, a + Len(r))
  <2>1. /\ p \in Seq(A) /\ ps \in Seq(Seq(A)) /\ r \in Seq(A) /\ a \in Nat /\ big \in Nat
        /\ At(r, p, a) /\ Len(r) <= big /\ RunsOf(ps, p, big)
        /\ Edge(p, m) /\ Covers(ps, p, m) /\ a <= m
    OBVIOUS
  <2>2. LET d == Append(ps, r)
        IN  /\ d \in Seq(Seq(A)) /\ d # <<>> /\ d[Len(d)] = r
            /\ RunsOf(d, p, big) /\ Covers(d, p, a + Len(r))
    BY ONLY <2>1, RunAdded, Zenon
  <2>. QED BY <1>1, <2>2
<1>3. Follows(q, c, p, target, n) BY <1>2 DEF Follows
<1>. QED BY <1>1, <1>2, <1>3

\* The tokens so far, and a word more.
LEMMA WordRead ==
  ASSUME NEW A, NEW p \in Seq(A), NEW n \in Nat, NEW w \in Seq(A), At(w, p, n),
         NEW s, s = SubSeq(p, 1, n)
  PROVE  s \o w = SubSeq(p, 1, n + Len(w))
<1>1. /\ Len(p) \in Nat /\ Len(w) \in Nat /\ n + Len(w) \in Nat /\ n + Len(w) <= Len(p)
      /\ \A k \in 1 .. Len(w) : p[n + k] = w[k]
  BY LenProperties DEF At
<1>2. ASSUME NEW j \in Nat, j <= Len(p), NEW u, u = SubSeq(p, 1, j)
      PROVE  u \in Seq(A) /\ Len(u) = j /\ \A i \in 1 .. j : u[i] = p[i]
  <2>1. \A i \in 1 .. j : p[i] \in A
    <3>1. \A i \in 1 .. j : i \in 1 .. Len(p) BY <1>1, <1>2
    <3>. QED BY <3>1, ElementOfSeq
  <2>2. /\ u \in Seq(A) /\ Len(u) = IF 1 <= j THEN j - 1 + 1 ELSE 0
        /\ \A i \in 1 .. j - 1 + 1 : u[i] = p[1 + i - 1]
    BY <1>2, <2>1, SubSeqProperties
  <2>3. j - 1 + 1 = j /\ \A i \in 1 .. j : 1 + i - 1 = i OBVIOUS
  <2>4. Len(u) = j
    <3>1. CASE 1 <= j BY <2>2, <2>3, <3>1
    <3>2. CASE ~ 1 <= j BY <2>2, <3>2
    <3>. QED BY <3>1, <3>2
  <2>. QED BY <2>2, <2>3, <2>4
<1>3. PICK t : t = SubSeq(p, 1, n + Len(w)) OBVIOUS
<1>4. s \in Seq(A) /\ Len(s) = n /\ \A i \in 1 .. n : s[i] = p[i] BY <1>1, <1>2
<1>5. t \in Seq(A) /\ Len(t) = n + Len(w) /\ \A i \in 1 .. n + Len(w) : t[i] = p[i]
  BY <1>1, <1>2, <1>3
<1>6. PICK v : v = s \o w OBVIOUS
<1>7. /\ v \in Seq(A) /\ Len(v) = n + Len(w)
      /\ \A k \in 1 .. n + Len(w) : v[k] = IF k <= n THEN s[k] ELSE w[k - n]
  BY <1>4, <1>6, ConcatProperties
<1>8. \A k \in 1 .. Len(v) : v[k] = t[k]
  <2>1. TAKE k \in 1 .. Len(v)
  <2>2. k \in 1 .. n + Len(w) BY <1>7
  <2>3. CASE k <= n BY <1>4, <1>5, <1>7, <2>2, <2>3
  <2>4. CASE ~ k <= n
    <3>1. k - n \in 1 .. Len(w) /\ n + (k - n) = k BY <1>1, <2>2, <2>4
    <3>2. p[k] = w[k - n] BY <1>1, <3>1
    <3>. QED BY <1>5, <1>7, <2>2, <2>4, <3>2
  <2>. QED BY <2>3, <2>4
<1>9. v = t BY <1>5, <1>7, <1>8, SeqEqual
<1>. QED BY <1>3, <1>6, <1>9

\* The end of a run, and the word that follows it.
LEMMA RunGrows ==
  ASSUME NEW A, NEW p \in Seq(A), NEW n \in Nat, NEW c \in Seq(A), NEW d \in Seq(A), NEW w \in Seq(A),
         At(c, p, n - Len(c)), At(w, p, n), Len(d) <= Len(c),
         \A k \in 1 .. Len(d) : d[k] = c[Len(c) - Len(d) + k]
  PROVE  LET e == d \o w
         IN  /\ e \in Seq(A) /\ Len(e) = Len(d) + Len(w) /\ At(e, p, (n + Len(w)) - Len(e))
             /\ (n + Len(w)) - Len(e) = n - Len(d) /\ n - Len(d) \in Nat
<1>1. /\ Len(p) \in Nat /\ Len(c) \in Nat /\ Len(d) \in Nat /\ Len(w) \in Nat
      /\ n + Len(w) <= Len(p) /\ \A k \in 1 .. Len(w) : p[n + k] = w[k]
      /\ n - Len(c) \in Nat /\ \A k \in 1 .. Len(c) : p[(n - Len(c)) + k] = c[k]
  BY LenProperties DEF At
<1>2. PICK e : e = d \o w OBVIOUS
<1>3. /\ e \in Seq(A) /\ Len(e) = Len(d) + Len(w)
      /\ \A k \in 1 .. Len(d) + Len(w) : e[k] = IF k <= Len(d) THEN d[k] ELSE w[k - Len(d)]
  BY <1>2, ConcatProperties
<1>4. (n + Len(w)) - Len(e) = n - Len(d) /\ n - Len(d) \in Nat /\ (n - Len(d)) + Len(e) <= Len(p)
  BY <1>1, <1>3
<1>5. ASSUME NEW k \in 1 .. Len(e) PROVE p[(n - Len(d)) + k] = e[k]
  <2>0. k \in 1 .. Len(d) + Len(w) BY <1>3
  <2>1. CASE k <= Len(d)
    <3>1. k \in 1 .. Len(d) /\ Len(c) - Len(d) + k \in 1 .. Len(c) BY <1>1, <2>1
    <3>2. (n - Len(c)) + (Len(c) - Len(d) + k) = (n - Len(d)) + k BY <1>1
    <3>3. p[(n - Len(d)) + k] = c[Len(c) - Len(d) + k] BY <1>1, <3>1, <3>2
    <3>. QED BY <1>3, <2>0, <2>1, <3>1, <3>3
  <2>2. CASE ~ k <= Len(d)
    <3>1. k - Len(d) \in 1 .. Len(w) /\ n + (k - Len(d)) = (n - Len(d)) + k BY <1>1, <2>0, <2>2
    <3>2. p[n + (k - Len(d))] = w[k - Len(d)] BY <1>1, <3>1
    <3>. QED BY <1>3, <2>0, <2>2, <3>1, <3>2
  <2>. QED BY <2>1, <2>2
<1>6. At(e, p, (n + Len(w)) - Len(e)) BY <1>4, <1>5 DEF At
<1>. QED BY <1>2, <1>3, <1>4, <1>6

-----------------------------------------------------------------------------
(* Wrapping a paragraph                                                    *)

\* A word w after n tokens of p.
WordAt(A, p, n, w) ==
  /\ w \in Seq(A) /\ w # <<>> /\ n \in Nat /\ At(w, p, n)
  /\ Edge(p, n + Len(w)) /\ NoStart(p, n + 2, n + Len(w))

LEMMA WrapStep ==
  ASSUME NEW A, NEW p \in Seq(A), NEW target \in Nat, NEW overlap \in Nat, NEW max \in Nat,
         NEW big \in Nat, target <= max, max <= big,
         NEW st, NEW n, Wrapped(A, p, target, overlap, big, st, n),
         NEW w, WordAt(A, p, n, w), overlap + Len(w) <= big
  PROVE  Wrapped(A, p, target, overlap, big,
                 Chunked!WrapWord(st, w, target, overlap, max), n + Len(w))
<1> DEFINE next == Chunked!WrapWord(st, w, target, overlap, max)
<1>0. PICK ps, c, N : ps = st.pieces /\ c = st.current /\ N = n + Len(w) BY Zenon
<1>1. /\ st \in Wraps(A) /\ ps \in Seq(Seq(A)) /\ c \in Seq(A) /\ Edge(p, n)
      /\ At(c, p, n - Len(c)) /\ Len(c) <= big /\ RunsOf(ps, p, big)
      /\ Follows(ps, c, p, target, n)
      /\ overlap = 0 => Flat(ps) \o c = SubSeq(p, 1, n)
  BY <1>0 DEF Wrapped, Wraps, Reached
<1>2. /\ w \in Seq(A) /\ w # <<>> /\ n \in Nat /\ At(w, p, n)
      /\ Edge(p, N) /\ NoStart(p, n + 2, N)
  BY <1>0 DEF WordAt
<1>3. /\ Len(p) \in Nat /\ Len(c) \in Nat /\ Len(w) \in Nat /\ N \in Nat /\ N <= Len(p)
      /\ N = n + Len(w) /\ n < N /\ 0 < Len(w) /\ Len(ps) \in Nat
  <2>1. Len(p) \in Nat /\ Len(c) \in Nat /\ Len(w) \in Nat /\ Len(ps) \in Nat
    BY <1>1, <1>2, LenProperties
  <2>2. Len(w) # 0 BY <1>2, EmptySeq
  <2>3. n + Len(w) <= Len(p) BY <1>2 DEF At
  <2>. QED BY <1>0, <1>2, <2>1, <2>2, <2>3
<1>4. PICK a \in Nat : a = n - Len(c) BY <1>1 DEF At
<1>5. At(c, p, a) /\ a + Len(c) = n /\ a <= n BY <1>1, <1>2, <1>3, <1>4
<1>6. PICK m \in Nat : a <= m /\ m <= n /\ Edge(p, m) /\ Covers(ps, p, m)
  BY <1>0, <1>4 DEF Wrapped, Reached
<1>7. PICK trial, last, tail : /\ trial = c \o w /\ last = Chunked!LastTokens(overlap, c)
                               /\ tail = last \o w
  BY Zenon
<1>8. /\ trial \in Seq(A) /\ Len(trial) = Len(c) + Len(w) /\ At(trial, p, a) /\ a + Len(trial) = N
  <2>1. Len(c) <= Len(c) /\ \A k \in 1 .. Len(c) : c[k] = c[Len(c) - Len(c) + k] BY <1>3
  <2>2. LET e == c \o w
        IN  /\ e \in Seq(A) /\ Len(e) = Len(c) + Len(w) /\ At(e, p, (n + Len(w)) - Len(e))
            /\ (n + Len(w)) - Len(e) = n - Len(c) /\ n - Len(c) \in Nat
    BY <1>1, <1>2, <2>1, RunGrows
  <2>3. trial \in Seq(A) /\ Len(trial) = Len(c) + Len(w) /\ At(trial, p, a)
    BY <1>4, <1>7, <2>2
  <2>. QED BY <1>3, <1>5, <2>3
<1>9. /\ last \in Seq(A) /\ Len(last) \in Nat /\ Len(last) <= overlap /\ Len(last) <= Len(c)
      /\ \A k \in 1 .. Len(last) : last[k] = c[Len(c) - Len(last) + k]
  BY <1>1, <1>7, LastIs
<1>10. PICK b \in Nat : b = n - Len(last)
  <2>1. n - Len(last) \in Nat BY <1>2, <1>3, <1>5, <1>9
  <2>. QED BY <2>1
<1>11. /\ tail \in Seq(A) /\ Len(tail) = Len(last) + Len(w) /\ At(tail, p, b)
       /\ b + Len(tail) = N /\ Len(tail) <= big /\ Len(w) <= Len(tail) /\ b <= n
  <2>1. LET e == last \o w
        IN  /\ e \in Seq(A) /\ Len(e) = Len(last) + Len(w) /\ At(e, p, (n + Len(w)) - Len(e))
            /\ (n + Len(w)) - Len(e) = n - Len(last) /\ n - Len(last) \in Nat
    BY <1>1, <1>2, <1>9, RunGrows
  <2>2. tail \in Seq(A) /\ Len(tail) = Len(last) + Len(w) /\ At(tail, p, b)
    BY <1>7, <1>10, <2>1
  <2>. QED BY <1>2, <1>3, <1>9, <1>10, <2>2
<1>12. <<>> \in Seq(A) /\ Len(<<>>) = 0 BY EmptySeq
<1>13. overlap = 0 => /\ Flat(ps) \in Seq(A) /\ Flat(ps) \o trial = SubSeq(p, 1, N)
                      /\ (Flat(ps) \o c) \o w = SubSeq(p, 1, N) /\ tail = w
  <2>1. SUFFICES ASSUME overlap = 0
                 PROVE  /\ Flat(ps) \in Seq(A) /\ Flat(ps) \o trial = SubSeq(p, 1, N)
                        /\ (Flat(ps) \o c) \o w = SubSeq(p, 1, N) /\ tail = w
    OBVIOUS
  <2>2. Flat(ps) \in Seq(A) BY <1>1, FlatAppend
  <2>3. (Flat(ps) \o c) \o w = Flat(ps) \o trial
    <3>1. PICK f \in Seq(A) : f = Flat(ps) BY <2>2
    <3>2. (f \o c) \o w = f \o (c \o w)
      <4>1. f \in Seq(A) /\ c \in Seq(A) /\ w \in Seq(A) BY <1>1, <1>2
      <4>. QED BY ONLY <4>1, ConcatAssociative, SMTT(30)
    <3>. QED BY <1>7, <3>1, <3>2
  <2>4. (Flat(ps) \o c) \o w = SubSeq(p, 1, N)
    <3>1. PICK s : s = Flat(ps) \o c OBVIOUS
    <3>2. s = SubSeq(p, 1, n) BY <1>1, <2>1, <3>1
    <3>3. s \o w = SubSeq(p, 1, n + Len(w)) BY <1>2, <3>2, WordRead
    <3>. QED BY <1>3, <3>1, <3>3
  <2>5. tail = w
    <3>1. Len(last) = 0 BY <1>9, <2>1
    <3>2. last = <<>> BY <1>9, <3>1, EmptySeq
    <3>. QED BY <1>2, <1>7, <3>2, ConcatEmptySeq
  <2>. QED BY <2>2, <2>3, <2>4, <2>5
<1>14. \/ /\ c # <<>> /\ target < Len(c) + Len(w)
          /\ \/ next = [pieces |-> Append(ps, c), current |-> tail]
             \/ next = [pieces |-> Append(Append(ps, c), tail), current |-> <<>>] /\ max < Len(tail)
       \/ next = [pieces |-> Append(ps, trial), current |-> <<>>] /\ max <= Len(trial)
          /\ (c = <<>> \/ Len(trial) <= target)
       \/ next = [pieces |-> ps, current |-> trial] /\ Len(trial) < max
  <2>1. /\ st \in Wraps(A) /\ w \in Seq(A) /\ target \in Nat /\ overlap \in Nat /\ max \in Nat
    BY <1>1, <1>2
  <2>2. LET d == Chunked!WrapWord(st, w, target, overlap, max)
            x == st.current \o w
            y == Chunked!LastTokens(overlap, st.current) \o w
        IN  \/ /\ st.current # <<>> /\ target < Len(st.current) + Len(w)
               /\ \/ d = [pieces |-> Append(st.pieces, st.current), current |-> y]
                  \/ d = [pieces |-> Append(Append(st.pieces, st.current), y), current |-> <<>>]
                     /\ max < Len(y)
            \/ d = [pieces |-> Append(st.pieces, x), current |-> <<>>] /\ max <= Len(x)
               /\ (st.current = <<>> \/ Len(x) <= target)
            \/ d = [pieces |-> st.pieces, current |-> x] /\ Len(x) < max
    BY ONLY <2>1, WrapShapes, Zenon
  <2>. QED BY <1>0, <1>7, <2>2
<1>. HIDE DEF next
<1>15. ASSUME NEW qs, NEW d, next = [pieces |-> qs, current |-> d],
              Reached(A, p, target, overlap, big, qs, d, N)
       PROVE  Wrapped(A, p, target, overlap, big, next, N)
  <2>1. next.pieces = qs /\ next.current = d BY <1>15
  <2>2. next \in Wraps(A) BY <1>15 DEF Wraps, Reached
  <2>. QED BY <1>15, <2>1, <2>2 DEF Wrapped
<1>16. ASSUME c # <<>>, target < Len(c) + Len(w) PROVE Full(p, a, Len(c), target)
  <2>1. N \in 0 .. Len(p) /\ a + Len(c) < N /\ target < N - a /\ (a + Len(c)) + 2 = n + 2
    BY <1>2, <1>3, <1>5, <1>16
  <2>2. NoStart(p, a + Len(c) + 2, N) BY <1>2, <2>1
  <2>. QED BY <2>1, <2>2 DEF Full
<1>17. PICK qs : qs = Append(ps, c) OBVIOUS
<1>18. ASSUME c # <<>>, target < Len(c) + Len(w)
       PROVE  /\ qs \in Seq(Seq(A)) /\ RunsOf(qs, p, big) /\ Covers(qs, p, n)
              /\ Follows(qs, tail, p, target, N)
              /\ (overlap = 0 => Flat(qs) \in Seq(A) /\ Flat(qs) \o w = SubSeq(p, 1, N))
  <2>1. Full(p, a, Len(c), target) BY <1>16, <1>18
  <2>2. N <= a + Len(c) + Len(tail) /\ a + Len(c) <= N /\ a + Len(c) < N
    BY <1>2, <1>3, <1>5, <1>9, <1>11
  <2>3. /\ qs \in Seq(Seq(A)) /\ RunsOf(qs, p, big) /\ Covers(qs, p, a + Len(c))
        /\ Follows(qs, tail, p, target, N)
    <3>1. /\ p \in Seq(A) /\ ps \in Seq(Seq(A)) /\ c \in Seq(A) /\ tail \in Seq(A)
          /\ a \in Nat /\ N \in Nat /\ target \in Nat /\ big \in Nat
          /\ At(c, p, a) /\ Len(c) <= big /\ RunsOf(ps, p, big) /\ Edge(p, m) /\ Covers(ps, p, m)
          /\ a <= m /\ Full(p, a, Len(c), target)
          /\ N <= a + Len(c) + Len(tail) /\ a + Len(c) <= N /\ (tail # <<>> => a + Len(c) < N)
      BY <1>1, <1>3, <1>5, <1>6, <1>11, <2>1, <2>2
    <3>2. LET q == Append(ps, c)
          IN  /\ q \in Seq(Seq(A)) /\ RunsOf(q, p, big) /\ Covers(q, p, a + Len(c))
              /\ Follows(q, tail, p, target, N)
      BY ONLY <3>1, PieceAdded, Zenon
    <3>. QED BY <1>17, <3>2
  <2>4. Flat(qs) = Flat(ps) \o c BY <1>1, <1>17, FlatAppend
  <2>5. Flat(qs) \in Seq(A) BY <2>3, FlatAppend
  <2>. QED BY <1>5, <1>13, <2>3, <2>4, <2>5
<1>19. ASSUME NEW vs \in Seq(Seq(A)), NEW r \in Seq(A), NEW o \in Nat, NEW l \in Nat,
              RunsOf(vs, p, big), Edge(p, l), Covers(vs, p, l), o <= l,
              At(r, p, o), Len(r) <= big, max <= Len(r), o + Len(r) = N,
              overlap = 0 => Flat(vs) \in Seq(A) /\ Flat(vs) \o r = SubSeq(p, 1, N)
       PROVE  Reached(A, p, target, overlap, big, Append(vs, r), <<>>, N)
  <2>1. PICK d \in Seq(A) : d = <<>> BY <1>12
  <2>2. Len(d) = 0 /\ N - Len(d) = N BY <1>3, <1>12, <2>1
  <2>3. PICK q : q = Append(vs, r) OBVIOUS
  <2>4. /\ q \in Seq(Seq(A)) /\ RunsOf(q, p, big) /\ Covers(q, p, o + Len(r))
        /\ Follows(q, d, p, target, N)
    <3>0. Len(r) \in Nat BY LenProperties
    <3>1. /\ p \in Seq(A) /\ vs \in Seq(Seq(A)) /\ r \in Seq(A) /\ d \in Seq(A)
          /\ o \in Nat /\ N \in Nat /\ target \in Nat /\ big \in Nat
          /\ At(r, p, o) /\ Len(r) <= big /\ RunsOf(vs, p, big) /\ Edge(p, l) /\ Covers(vs, p, l)
          /\ o <= l /\ Full(p, o, Len(r), target)
          /\ N <= o + Len(r) + Len(d) /\ o + Len(r) <= N /\ (d # <<>> => o + Len(r) < N)
      <4>1. Full(p, o, Len(r), target)
        <5>1. target <= Len(r) BY <1>19, <3>0
        <5>. QED BY <5>1 DEF Full
      <4>2. N <= o + Len(r) + Len(d) /\ o + Len(r) <= N BY <1>3, <1>19, <2>2
      <4>. QED BY <1>3, <1>19, <2>1, <4>1, <4>2
    <3>2. LET e == Append(vs, r)
          IN  /\ e \in Seq(Seq(A)) /\ RunsOf(e, p, big) /\ Covers(e, p, o + Len(r))
              /\ Follows(e, d, p, target, N)
      BY ONLY <3>1, PieceAdded, Zenon
    <3>. QED BY <2>3, <3>2
  <2>5. At(d, p, N - Len(d))
    BY <1>3, <2>2 DEF At
  <2>6. overlap = 0 => Flat(q) \o d = SubSeq(p, 1, N)
    <3>1. Flat(q) = Flat(vs) \o r BY <2>3, FlatAppend
    <3>2. Flat(q) \in Seq(A) BY <2>4, FlatAppend
    <3>3. Flat(q) \o d = Flat(q) BY <2>1, <3>2, ConcatEmptySeq
    <3>. QED BY <1>19, <3>1, <3>3
  <2>7. Covers(q, p, N) /\ Len(d) <= big /\ N - Len(d) <= N /\ N <= N BY <1>3, <1>19, <2>2, <2>4
  <2>8. Reached(A, p, target, overlap, big, q, d, N)
    BY <1>2, <1>3, <2>4, <2>5, <2>6, <2>7 DEF Reached
  <2>. QED BY <2>1, <2>3, <2>8
<1>20. ASSUME c # <<>>, target < Len(c) + Len(w), next = [pieces |-> Append(ps, c), current |-> tail]
       PROVE  Wrapped(A, p, target, overlap, big, next, N)
  <2>1. /\ qs \in Seq(Seq(A)) /\ RunsOf(qs, p, big) /\ Covers(qs, p, n)
        /\ Follows(qs, tail, p, target, N)
        /\ (overlap = 0 => Flat(qs) \o tail = SubSeq(p, 1, N))
    BY <1>13, <1>18, <1>20
  <2>2. N - Len(tail) = b /\ b <= n /\ n <= N /\ n \in Nat
    <3>1. Len(tail) \in Nat BY <1>11, LenProperties
    <3>. QED BY <1>2, <1>3, <1>11, <3>1
  <2>3. next = [pieces |-> qs, current |-> tail] BY <1>17, <1>20
  <2>4. Reached(A, p, target, overlap, big, qs, tail, N)
    BY <1>1, <1>2, <1>11, <2>1, <2>2 DEF Reached
  <2>. QED BY <1>15, <2>3, <2>4
<1>21. ASSUME c # <<>>, target < Len(c) + Len(w), max < Len(tail),
              next = [pieces |-> Append(Append(ps, c), tail), current |-> <<>>]
       PROVE  Wrapped(A, p, target, overlap, big, next, N)
  <2>1. /\ qs \in Seq(Seq(A)) /\ RunsOf(qs, p, big) /\ Covers(qs, p, n)
        /\ (overlap = 0 => Flat(qs) \in Seq(A) /\ Flat(qs) \o tail = SubSeq(p, 1, N))
    BY <1>13, <1>18, <1>21
  <2>2. next = [pieces |-> Append(qs, tail), current |-> <<>>] BY <1>17, <1>21
  <2>3. max <= Len(tail) BY <1>3, <1>9, <1>11, <1>21
  <2>4. Reached(A, p, target, overlap, big, Append(qs, tail), <<>>, N)
    <3>1. /\ qs \in Seq(Seq(A)) /\ tail \in Seq(A) /\ b \in Nat /\ n \in Nat
          /\ RunsOf(qs, p, big) /\ Edge(p, n) /\ Covers(qs, p, n) /\ b <= n
          /\ At(tail, p, b) /\ Len(tail) <= big /\ max <= Len(tail) /\ b + Len(tail) = N
          /\ (overlap = 0 => Flat(qs) \in Seq(A) /\ Flat(qs) \o tail = SubSeq(p, 1, N))
      BY <1>1, <1>2, <1>11, <2>1, <2>3
    <3>. QED BY ONLY <1>19, <3>1, Zenon
  <2>. QED BY <1>15, <2>2, <2>4
<1>22. ASSUME next = [pieces |-> Append(ps, trial), current |-> <<>>], max <= Len(trial),
              c = <<>> \/ Len(trial) <= target
       PROVE  Wrapped(A, p, target, overlap, big, next, N)
  <2>1. Len(trial) <= big
    <3>1. c = <<>> => Len(c) = 0 BY EmptySeq
    <3>2. c = <<>> => Len(trial) <= big BY <1>3, <1>8, <3>1
    <3>3. Len(trial) <= target => Len(trial) <= big BY <1>3, <1>8
    <3>. QED BY <1>22, <3>2, <3>3
  <2>2. overlap = 0 => Flat(ps) \in Seq(A) /\ Flat(ps) \o trial = SubSeq(p, 1, N) BY <1>13
  <2>3. Reached(A, p, target, overlap, big, Append(ps, trial), <<>>, N)
    <3>1. /\ ps \in Seq(Seq(A)) /\ trial \in Seq(A) /\ a \in Nat /\ m \in Nat
          /\ RunsOf(ps, p, big) /\ Edge(p, m) /\ Covers(ps, p, m) /\ a <= m
          /\ At(trial, p, a) /\ Len(trial) <= big /\ max <= Len(trial) /\ a + Len(trial) = N
          /\ (overlap = 0 => Flat(ps) \in Seq(A) /\ Flat(ps) \o trial = SubSeq(p, 1, N))
      BY <1>1, <1>6, <1>8, <1>22, <2>1, <2>2
    <3>. QED BY ONLY <1>19, <3>1, Zenon
  <2>. QED BY <1>15, <1>22, <2>3
<1>23. ASSUME next = [pieces |-> ps, current |-> trial], Len(trial) < max
       PROVE  Wrapped(A, p, target, overlap, big, next, N)
  <2>1. Follows(ps, trial, p, target, N)
    <3>1. SUFFICES ASSUME ps # <<>>
                   PROVE  \E o : LET r == ps[Len(ps)]
                      IN  /\ At(r, p, o) /\ Full(p, o, Len(r), target)
                          /\ N <= o + Len(r) + Len(trial)
                          /\ o + Len(r) <= N /\ (trial # <<>> => o + Len(r) < N)
      BY DEF Follows
    <3>2. PICK r : r = ps[Len(ps)] OBVIOUS
    <3>3. PICK o : /\ At(r, p, o) /\ Full(p, o, Len(r), target) /\ n <= o + Len(r) + Len(c)
                   /\ o + Len(r) <= n
      BY <1>1, <3>1, <3>2 DEF Follows
    <3>4. Len(ps) \in 1 .. Len(ps)
      <4>1. Len(ps) # 0 BY <1>1, <3>1, EmptySeq
      <4>. QED BY <1>3, <4>1
    <3>5. r \in Seq(A) BY <1>1, <3>2, <3>4, ElementOfSeq
    <3>6. Len(r) \in Nat /\ o \in Nat BY <3>3, <3>5, LenProperties DEF At
    <3>7. N <= o + Len(r) + Len(trial) /\ o + Len(r) <= N /\ o + Len(r) < N
      BY <1>2, <1>3, <1>8, <3>3, <3>6
    <3>. QED BY <3>2, <3>3, <3>7
  <2>2. Len(trial) <= big /\ N - Len(trial) = a /\ At(trial, p, N - Len(trial)) /\ m <= N
    BY <1>2, <1>3, <1>5, <1>6, <1>8, <1>23
  <2>3. Reached(A, p, target, overlap, big, ps, trial, N)
    BY <1>1, <1>2, <1>6, <1>8, <1>13, <2>1, <2>2 DEF Reached
  <2>. QED BY <1>15, <1>23, <2>3
<1>24. Wrapped(A, p, target, overlap, big, next, N) BY <1>14, <1>20, <1>21, <1>22, <1>23
<1>. QED BY <1>0, <1>24 DEF next

Readings(A) == [wrap : Wraps(A), word : Seq(A)]
NoReading == [wrap |-> NoWrap, word |-> <<>>]

\* After n tokens of p, the last of which are of a word under way.
TokensRead(A, p, target, overlap, big, rs, n) ==
  /\ rs \in Readings(A) /\ n \in 0 .. Len(p)
  /\ Wrapped(A, p, target, overlap, big, rs.wrap, n - Len(rs.word))
  /\ At(rs.word, p, n - Len(rs.word)) /\ NoStart(p, (n - Len(rs.word)) + 2, n)
  /\ n # 0 => rs.word # <<>>

LEMMA WrapTyped ==
  ASSUME NEW A, NEW st \in Wraps(A), NEW w \in Seq(A), NEW target \in Nat, NEW overlap \in Nat, NEW max \in Nat
  PROVE  Chunked!WrapWord(st, w, target, overlap, max) \in Wraps(A)
<1>1. st.pieces \in Seq(Seq(A)) /\ st.current \in Seq(A) BY DEF Wraps
<1>2. PICK trial, tail : trial = st.current \o w /\ tail = Chunked!LastTokens(overlap, st.current) \o w
  BY Zenon
<1>3. trial \in Seq(A) /\ tail \in Seq(A) BY <1>1, <1>2, LastIs, ConcatProperties
<1>4. /\ Append(st.pieces, st.current) \in Seq(Seq(A)) /\ Append(st.pieces, trial) \in Seq(Seq(A))
      /\ Append(Append(st.pieces, st.current), tail) \in Seq(Seq(A))
  BY <1>1, <1>3, OneAppended
<1>5. <<>> \in Seq(A) BY EmptySeq
<1>6. PICK next : next = Chunked!WrapWord(st, w, target, overlap, max) OBVIOUS
<1>7. \/ next = [pieces |-> Append(st.pieces, st.current), current |-> tail]
      \/ next = [pieces |-> Append(Append(st.pieces, st.current), tail), current |-> <<>>]
      \/ next = [pieces |-> Append(st.pieces, trial), current |-> <<>>]
      \/ next = [pieces |-> st.pieces, current |-> trial]
  BY <1>2, <1>6, WrapShapes
<1>8. ASSUME NEW ps \in Seq(Seq(A)), NEW c \in Seq(A)
      PROVE  [pieces |-> ps, current |-> c] \in Wraps(A)
  BY DEF Wraps
<1>. QED BY <1>1, <1>3, <1>4, <1>5, <1>6, <1>7, <1>8

LEMMA ReadTyped ==
  ASSUME NEW A, NEW rs \in Readings(A), NEW x \in A, NEW target \in Nat, NEW overlap \in Nat, NEW max \in Nat
  PROVE  Chunked!ReadToken(rs, x, target, overlap, max) \in Readings(A)
<1>1. rs.wrap \in Wraps(A) /\ rs.word \in Seq(A) BY DEF Readings
<1>2. Chunked!WrapWord(rs.wrap, rs.word, target, overlap, max) \in Wraps(A) BY <1>1, WrapTyped
<1>3. <<x>> \in Seq(A) OBVIOUS
<1>4. Append(rs.word, x) \in Seq(A) BY <1>1, OneAppended
<1>5. ASSUME NEW u \in Wraps(A), NEW w \in Seq(A) PROVE [wrap |-> u, word |-> w] \in Readings(A)
  BY DEF Readings
<1>6. PICK next : next = Chunked!ReadToken(rs, x, target, overlap, max) OBVIOUS
<1>7. \/ next = [wrap |-> Chunked!WrapWord(rs.wrap, rs.word, target, overlap, max), word |-> <<x>>]
      \/ next = [wrap |-> rs.wrap, word |-> Append(rs.word, x)]
  BY <1>6 DEF Chunked!ReadToken
<1>. QED BY <1>1, <1>2, <1>3, <1>4, <1>5, <1>6, <1>7

\* The word under way ends.
LEMMA WordEnds ==
  ASSUME NEW A, NEW p \in Seq(A), NEW target \in Nat, NEW overlap \in Nat, NEW max \in Nat,
         NEW big \in Nat, NEW long \in Nat, target <= max, max <= big, overlap + long <= big, Fits(p, long),
         NEW rs, NEW n, TokensRead(A, p, target, overlap, big, rs, n), rs.word # <<>>, Edge(p, n)
  PROVE  Wrapped(A, p, target, overlap, big,
                 Chunked!WrapWord(rs.wrap, rs.word, target, overlap, max), n)
<1>1. PICK w, s : w = rs.word /\ s = n - Len(w) BY Zenon
<1>2. /\ w \in Seq(A) /\ w # <<>> /\ n \in 0 .. Len(p) /\ Wrapped(A, p, target, overlap, big, rs.wrap, s)
      /\ At(w, p, s) /\ NoStart(p, s + 2, n)
  BY <1>1 DEF TokensRead, Readings
<1>3. Len(p) \in Nat /\ Len(w) \in Nat /\ s \in Nat BY <1>2, LenProperties DEF At
<1>4. n \in Nat /\ s + Len(w) = n /\ 0 < Len(w)
  <2>1. Len(w) # 0 BY <1>2, EmptySeq
  <2>. QED BY <1>1, <1>2, <1>3, <2>1
<1>5. Len(w) <= long
  <2>1. s + 1 \in 1 .. Len(p) /\ n \in 1 .. Len(p) /\ s + 1 <= n /\ (s + 1) + 1 = s + 2
    BY <1>2, <1>3, <1>4
  <2>2. (n - (s + 1)) + 1 <= long BY <1>2, <2>1 DEF Fits
  <2>. QED BY <1>3, <1>4, <2>2
<1>6. overlap + Len(w) <= big BY <1>3, <1>5
<1>7. WordAt(A, p, s, w) BY <1>2, <1>3, <1>4 DEF WordAt
<1>8. Wrapped(A, p, target, overlap, big, Chunked!WrapWord(rs.wrap, w, target, overlap, max), s + Len(w))
  BY <1>2, <1>6, <1>7, WrapStep
<1>. QED BY <1>1, <1>4, <1>8

LEMMA ReadStep ==
  ASSUME NEW A, NEW p \in Seq(A), NEW target \in Nat, NEW overlap \in Nat, NEW max \in Nat,
         NEW big \in Nat, NEW long \in Nat, target <= max, max <= big, overlap + long <= big, Fits(p, long),
         NEW rs, NEW n \in 1 .. Len(p), TokensRead(A, p, target, overlap, big, rs, n - 1)
  PROVE  TokensRead(A, p, target, overlap, big, Chunked!ReadToken(rs, p[n], target, overlap, max), n)
<1>1. PICK w, s, next : /\ w = rs.word /\ s = (n - 1) - Len(w)
                        /\ next = Chunked!ReadToken(rs, p[n], target, overlap, max)
  BY Zenon
<1>2. /\ rs \in Readings(A) /\ w \in Seq(A) /\ Wrapped(A, p, target, overlap, big, rs.wrap, s)
      /\ At(w, p, s) /\ NoStart(p, s + 2, n - 1) /\ (n - 1 # 0 => w # <<>>)
  BY <1>1 DEF TokensRead, Readings
<1>3. Len(p) \in Nat /\ Len(w) \in Nat /\ s \in Nat /\ n \in Nat /\ n - 1 \in Nat /\ p[n] \in A
      /\ s + Len(w) = n - 1 /\ \A k \in 1 .. Len(w) : p[s + k] = w[k]
  <2>1. Len(p) \in Nat /\ Len(w) \in Nat /\ s \in Nat /\ \A k \in 1 .. Len(w) : p[s + k] = w[k]
    BY <1>2, LenProperties DEF At
  <2>2. p[n] \in A BY ElementOfSeq
  <2>. QED BY <1>1, <2>1, <2>2
<1>4. next \in Readings(A) BY <1>1, <1>2, <1>3, ReadTyped
<1>5. CASE w # <<>> /\ p[n] \in WordStarts
  <2>1. PICK u : u = Chunked!WrapWord(rs.wrap, w, target, overlap, max) OBVIOUS
  <2>2. next = [wrap |-> u, word |-> <<p[n]>>] BY <1>1, <1>5, <2>1 DEF Chunked!ReadToken
  <2>3. Edge(p, n - 1)
    <3>1. n - 1 \in 0 .. Len(p) /\ (n - 1) + 1 = n BY <1>3
    <3>. QED BY <1>5, <3>1 DEF Edge
  <2>4. Wrapped(A, p, target, overlap, big, u, n - 1)
    <3>1. /\ p \in Seq(A) /\ target \in Nat /\ overlap \in Nat /\ max \in Nat /\ big \in Nat /\ long \in Nat
          /\ target <= max /\ max <= big /\ overlap + long <= big /\ Fits(p, long)
          /\ TokensRead(A, p, target, overlap, big, rs, n - 1) /\ rs.word # <<>> /\ Edge(p, n - 1)
      BY <1>1, <1>5, <2>3
    <3>2. Wrapped(A, p, target, overlap, big,
                  Chunked!WrapWord(rs.wrap, rs.word, target, overlap, max), n - 1)
      BY ONLY <3>1, WordEnds, Zenon
    <3>. QED BY <1>1, <2>1, <3>2
  <2>5. PICK v : v = <<p[n]>> OBVIOUS
  <2>6. Len(v) = 1 /\ v[1] = p[n] /\ v # <<>> BY <2>5
  <2>7. At(v, p, n - 1)
    <3>1. \A k \in 1 .. 1 : k = 1 OBVIOUS
    <3>2. (n - 1) + 1 = n /\ (n - 1) + 1 <= Len(p) BY <1>3
    <3>. QED BY <1>3, <2>6, <3>1, <3>2 DEF At
  <2>8. NoStart(p, (n - 1) + 2, n)
    <3>1. (n - 1) + 2 .. n = {} BY <1>3
    <3>. QED BY <3>1 DEF NoStart
  <2>9. next.wrap = u /\ next.word = v BY <2>2, <2>5
  <2>10. n - Len(next.word) = n - 1 /\ next.word # <<>> /\ n \in 0 .. Len(p)
    <3>1. n \in 0 .. Len(p) BY <1>3
    <3>2. next.word = v BY <2>9
    <3>. QED BY ONLY <2>6, <3>1, <3>2
  <2>11. Wrapped(A, p, target, overlap, big, next.wrap, n - Len(next.word))
    BY <2>4, <2>9, <2>10
  <2>12. At(next.word, p, n - Len(next.word)) /\ NoStart(p, (n - Len(next.word)) + 2, n)
    BY <2>7, <2>8, <2>9, <2>10
  <2>13. TokensRead(A, p, target, overlap, big, next, n)
    BY <1>4, <2>10, <2>11, <2>12 DEF TokensRead
  <2>. QED BY <1>1, <2>13
<1>6. CASE ~ (w # <<>> /\ p[n] \in WordStarts)
  <2>1. PICK v : v = Append(w, p[n]) OBVIOUS
  <2>2. next = [wrap |-> rs.wrap, word |-> v] BY <1>1, <1>6, <2>1 DEF Chunked!ReadToken
  <2>3. /\ v \in Seq(A) /\ Len(v) = Len(w) + 1 /\ v[Len(w) + 1] = p[n]
        /\ \A i \in 1 .. Len(w) : v[i] = w[i]
    BY <1>2, <1>3, <2>1, OneAppended
  <2>4. n - Len(v) = s /\ s + Len(v) = n
    <3>1. ASSUME NEW i \in Nat, NEW j \in Nat, NEW l \in Nat, i + j = l - 1
          PROVE  l - (j + 1) = i /\ i + (j + 1) = l
      BY ONLY <3>1
    <3>2. s \in Nat /\ Len(w) \in Nat /\ n \in Nat /\ s + Len(w) = n - 1 BY <1>3
    <3>3. n - (Len(w) + 1) = s /\ s + (Len(w) + 1) = n BY ONLY <3>1, <3>2
    <3>. QED BY ONLY <2>3, <3>3
  <2>5. ASSUME NEW k \in 1 .. Len(v) PROVE p[s + k] = v[k]
    <3>1. CASE k = Len(w) + 1
      <4>1. s + k = n BY <1>3, <3>1
      <4>. QED BY <2>3, <3>1, <4>1
    <3>2. CASE k # Len(w) + 1
      <4>1. k \in 1 .. Len(w) BY <1>3, <2>3, <3>2
      <4>. QED BY <1>3, <2>3, <4>1
    <3>. QED BY <3>1, <3>2
  <2>6. At(v, p, s) BY <1>3, <2>4, <2>5 DEF At
  <2>7. NoStart(p, s + 2, n)
    <3>1. SUFFICES ASSUME NEW k \in s + 2 .. n PROVE p[k] \notin WordStarts
      BY DEF NoStart
    <3>2. CASE k = n
      <4>1. Len(w) # 0 BY <1>3, <3>1, <3>2
      <4>2. w # <<>> BY <4>1, EmptySeq
      <4>. QED BY <1>6, <3>2, <4>2
    <3>3. CASE k # n
      <4>1. k \in s + 2 .. n - 1 BY <1>3, <3>1, <3>3
      <4>. QED BY <1>2, <4>1 DEF NoStart
    <3>. QED BY <3>2, <3>3
  <2>8. v # <<>> BY <1>3, <2>3, EmptySeq
  <2>9. next.wrap = rs.wrap /\ next.word = v BY <2>2
  <2>10. TokensRead(A, p, target, overlap, big, next, n)
    BY <1>2, <1>3, <1>4, <2>4, <2>6, <2>7, <2>8, <2>9 DEF TokensRead
  <2>. QED BY <1>1, <2>10
<1>. QED BY <1>5, <1>6

\* A function defined by its steps is the one that takes them.
LEMMA StepsChosen ==
  ASSUME NEW S, NEW z, NEW G, NEW x, NEW f \in Steps(S, z, G, x), Len(x) \in Nat, NEW h, h[0] = z,
         \A n \in 1 .. Len(x) : f[n - 1] = h[n - 1] => h[n] = G[<<f[n - 1], x[n]>>]
  PROVE  h[Len(x)] = f[Len(x)]
<1> DEFINE X == {n \in Nat : n <= Len(x) => h[n] = f[n]}
<1>1. 0 \in X BY DEF Steps
<1>2. ASSUME NEW n \in Nat, n \in X PROVE n + 1 \in X
  <2> SUFFICES ASSUME n + 1 <= Len(x) PROVE h[n + 1] = f[n + 1]
    OBVIOUS
  <2>1. h[n] = f[n] /\ (n + 1) - 1 = n BY <1>2
  <2>2. n + 1 \in 1 .. Len(x) OBVIOUS
  <2>3. f[n + 1] = G[<<f[n], x[n + 1]>>] BY <2>1, <2>2 DEF Steps
  <2>4. h[n + 1] = G[<<f[n], x[n + 1]>>] BY <2>1, <2>2
  <2>. QED BY <2>3, <2>4
<1>3. \A n \in Nat : n \in X => n + 1 \in X BY <1>2
<1> HIDE DEF X
<1>4. Nat \subseteq X BY <1>1, <1>3, NatInductive
<1>. QED BY <1>4 DEF X

Reading(A, target, overlap, max) ==
  [q \in Readings(A) \X A |-> Chunked!ReadToken(q[1], q[2], target, overlap, max)]
\* The pieces when all is read.
Finished(rs, target, overlap, max) ==
  Chunked!WithRemainder(Chunked!WrapWord(rs.wrap, rs.word, target, overlap, max))

LEMMA HardWrapIs ==
  ASSUME NEW A, NEW p \in Seq(A), NEW target \in Nat, NEW overlap \in Nat, NEW max \in Nat
  PROVE  \E f \in Steps(Readings(A), NoReading, Reading(A, target, overlap, max), p) :
           Chunked!HardWrap(p, target, overlap, max) = Finished(f[Len(p)], target, overlap, max)
<1> DEFINE G == Reading(A, target, overlap, max)
           N == Len(p)
           Def(h) == h = [n \in 0 .. N |->
                            IF n = 0 THEN [wrap |-> [pieces |-> <<>>, current |-> <<>>], word |-> <<>>]
                            ELSE Chunked!ReadToken(h[n - 1], p[n], target, overlap, max)]
           h0 == CHOOSE h : Def(h)
<1>1. N \in Nat /\ \A n \in 1 .. N : p[n] \in A BY LenProperties, ElementOfSeq
<1>2. NoReading \in Readings(A)
  <2>1. NoWrap \in Wraps(A) /\ <<>> \in Seq(A) BY EmptySeq DEF NoWrap, Wraps
  <2>. QED BY <2>1 DEF NoReading, Readings
<1>3. G \in [Readings(A) \X A -> Readings(A)]
  <2>1. \A rs \in Readings(A) : \A x \in A :
          Chunked!ReadToken(rs, x, target, overlap, max) \in Readings(A)
    BY ReadTyped
  <2>. QED BY <2>1 DEF Reading
<1>4. PICK f : f \in Steps(Readings(A), NoReading, G, p) BY <1>2, <1>3, StepsExist
<1>5. f \in [0 .. N -> Readings(A)] /\ f[0] = NoReading BY <1>4 DEF Steps
<1>6. \A n \in 1 .. N : /\ f[n - 1] \in Readings(A) /\ f[n] = G[<<f[n - 1], p[n]>>]
                        /\ f[n] = Chunked!ReadToken(f[n - 1], p[n], target, overlap, max)
  <2>1. TAKE n \in 1 .. N
  <2>2. f[n] = G[<<f[n - 1], p[n]>>] BY <1>4 DEF Steps
  <2>3. n - 1 \in 0 .. N BY <1>1
  <2>4. f[n - 1] \in Readings(A) BY <1>5, <2>3
  <2>. QED BY <1>1, <2>2, <2>4 DEF Reading
<1>7. Def(f)
  <2>1. ASSUME NEW n \in 0 .. N
        PROVE  f[n] = IF n = 0 THEN [wrap |-> [pieces |-> <<>>, current |-> <<>>], word |-> <<>>]
                      ELSE Chunked!ReadToken(f[n - 1], p[n], target, overlap, max)
    <3>1. CASE n = 0 BY <1>5, <3>1 DEF NoReading, NoWrap
    <3>2. CASE n # 0
      <4>1. n \in 1 .. N BY <1>1, <3>2
      <4>. QED BY <1>6, <3>2, <4>1
    <3>. QED BY <3>1, <3>2
  <2>. QED BY <1>5, <2>1
<1>8. Chunked!HardWrap(p, target, overlap, max) = Finished(h0[N], target, overlap, max)
  BY DEF Chunked!HardWrap, Finished
<1> HIDE DEF Def
<1>9. Def(h0) BY <1>7
<1> HIDE DEF h0
<1>10. /\ h0[0] = NoReading
       /\ \A n \in 1 .. N : h0[n] = Chunked!ReadToken(h0[n - 1], p[n], target, overlap, max)
  <2>1. 0 \in 0 .. N /\ \A n \in 1 .. N : n \in 0 .. N /\ n # 0 BY <1>1
  <2>. QED BY <1>9, <2>1 DEF Def, NoReading, NoWrap
<1>11. \A n \in 1 .. N : f[n - 1] = h0[n - 1] => h0[n] = G[<<f[n - 1], p[n]>>]
  BY <1>6, <1>10
<1> HIDE DEF G, N
<1>12. h0[Len(p)] = f[Len(p)] BY <1>1, <1>4, <1>10, <1>11, StepsChosen DEF N
<1>. QED BY <1>4, <1>8, <1>12 DEF N, G

\* What the pieces of a paragraph are to it.
Divides(ps, p, overlap, big) ==
  /\ RunsOf(ps, p, big) /\ Covers(ps, p, Len(p))
  /\ overlap = 0 => Flat(ps) = p

\* All tokens but those under way are read.
LEMMA AllRead ==
  ASSUME NEW A, NEW p \in Seq(A), NEW target \in Nat, NEW overlap \in Nat, NEW max \in Nat,
         NEW big \in Nat, NEW long \in Nat, target <= max, max <= big, overlap + long <= big, Fits(p, long),
         NEW f \in Steps(Readings(A), NoReading, Reading(A, target, overlap, max), p)
  PROVE  TokensRead(A, p, target, overlap, big, f[Len(p)], Len(p))
<1> DEFINE G == Reading(A, target, overlap, max)
           Good == {e \in Readings(A) \X (0 .. Len(p)) :
                      TokensRead(A, p, target, overlap, big, e[1], e[2])}
<1>1. Len(p) \in Nat BY LenProperties
<1>3. f \in [0 .. Len(p) -> Readings(A)] BY DEF Steps
<1>4. <<NoReading, 0>> \in Good
  <2>1. /\ NoWrap \in Wraps(A) /\ NoWrap.pieces = <<>> /\ NoWrap.current = <<>>
        /\ NoReading.wrap = NoWrap /\ NoReading.word = <<>> /\ <<>> \in Seq(A) /\ <<>> \in Seq(Seq(A))
    BY EmptySeq DEF NoWrap, Wraps, NoReading
  <2>2. Len(<<>>) = 0 /\ 0 - 0 = 0 BY EmptySeq
  <2>3. At(<<>>, p, 0) BY <1>1, <2>2 DEF At
  <2>4. RunsOf(<<>>, p, big) /\ Covers(<<>>, p, 0) /\ Follows(<<>>, <<>>, p, target, 0)
    BY <2>2 DEF RunsOf, Covers, Follows
  <2>5. Flat(<<>>) \o <<>> = SubSeq(p, 1, 0)
    <3>1. Flat(<<>>) = <<>> /\ <<>> \in Seq(A) BY FlatAppend, EmptySeq
    <3>2. <<>> \o <<>> = <<>> BY <3>1, ConcatEmptySeq
    <3>3. SubSeq(p, 1, 0) = <<>> BY SubSeqEmpty
    <3>. QED BY <3>1, <3>2, <3>3
  <2>6. Len(<<>>) <= big BY <2>2
  <2>7. Edge(p, 0) BY <1>1 DEF Edge
  <2>8. Reached(A, p, target, overlap, big, <<>>, <<>>, 0)
    BY <1>1, <2>1, <2>2, <2>3, <2>4, <2>5, <2>6, <2>7 DEF Reached
  <2>9. Wrapped(A, p, target, overlap, big, NoWrap, 0) BY <2>1, <2>8 DEF Wrapped
  <2>10. NoStart(p, (0 - Len(NoReading.word)) + 2, 0)
    <3>1. (0 - Len(NoReading.word)) + 2 .. 0 = {} BY <2>1, <2>2
    <3>. QED BY <3>1 DEF NoStart
  <2>11. NoReading \in Readings(A) BY <2>1 DEF NoReading, Readings
  <2>12. 0 \in 0 .. Len(p) /\ 0 - Len(NoReading.word) = 0
    <3>1. Len(NoReading.word) = 0 BY ONLY <2>1, <2>2
    <3>2. 0 \in 0 .. Len(p) BY <1>1
    <3>. QED BY ONLY <2>2, <3>1, <3>2
  <2>13. TokensRead(A, p, target, overlap, big, NoReading, 0)
    BY <2>1, <2>3, <2>9, <2>10, <2>11, <2>12 DEF TokensRead
  <2>. QED BY <2>11, <2>12, <2>13
<1>5. ASSUME NEW n \in 1 .. Len(p), <<f[n - 1], n - 1>> \in Good
      PROVE  <<G[<<f[n - 1], p[n]>>], n>> \in Good
  <2>1. PICK rs, next : rs = f[n - 1] /\ next = Chunked!ReadToken(rs, p[n], target, overlap, max)
    BY Zenon
  <2>2. n - 1 \in 0 .. Len(p) /\ n \in 0 .. Len(p) /\ p[n] \in A BY <1>1, ElementOfSeq
  <2>3. rs \in Readings(A) /\ TokensRead(A, p, target, overlap, big, rs, n - 1)
    BY <1>5, <2>1, <2>2
  <2>6. TokensRead(A, p, target, overlap, big, next, n)
    <3>1. /\ p \in Seq(A) /\ target \in Nat /\ overlap \in Nat /\ max \in Nat /\ big \in Nat /\ long \in Nat
          /\ target <= max /\ max <= big /\ overlap + long <= big /\ Fits(p, long)
          /\ n \in 1 .. Len(p) /\ TokensRead(A, p, target, overlap, big, rs, n - 1)
      BY <2>3
    <3>2. TokensRead(A, p, target, overlap, big, Chunked!ReadToken(rs, p[n], target, overlap, max), n)
      BY ONLY <3>1, ReadStep, Zenon
    <3>. QED BY <2>1, <3>2
  <2>7. G[<<rs, p[n]>>] = next BY <2>1, <2>2, <2>3 DEF Reading
  <2>8. next \in Readings(A) BY <2>6 DEF TokensRead
  <2>. QED BY <2>1, <2>2, <2>6, <2>7, <2>8
<1> HIDE DEF G, Good
<1>6. <<f[Len(p)], Len(p)>> \in Good
  <2>1. \A n \in 1 .. Len(p) : <<f[n - 1], n - 1>> \in Good => <<G[<<f[n - 1], p[n]>>], n>> \in Good
    BY <1>5
  <2>2. f \in Steps(Readings(A), NoReading, G, p) BY DEF G
  <2>. QED BY <1>4, <2>1, <2>2, StepsKeep
<1>. QED BY <1>6 DEF Good

LEMMA HardWrapHolds ==
  ASSUME NEW A, NEW p \in Seq(A), NEW target \in Nat, NEW overlap \in Nat, NEW max \in Nat,
         NEW big \in Nat, NEW long \in Nat, target <= max, max <= big, overlap + long <= big, Fits(p, long),
         p # <<>>, ~ Echoes(p, target)
  PROVE  LET ps == Chunked!HardWrap(p, target, overlap, max)
         IN  ps \in Seq(Seq(A)) /\ Divides(ps, p, overlap, big)
<1>1. Len(p) \in Nat /\ Len(p) # 0 BY LenProperties, EmptySeq
<1>2. PICK f \in Steps(Readings(A), NoReading, Reading(A, target, overlap, max), p) :
        Chunked!HardWrap(p, target, overlap, max) = Finished(f[Len(p)], target, overlap, max)
  BY HardWrapIs
<1>3. PICK rs, n, st : /\ rs = f[Len(p)] /\ n = Len(p)
                       /\ st = Chunked!WrapWord(rs.wrap, rs.word, target, overlap, max)
  BY Zenon
<1>4. TokensRead(A, p, target, overlap, big, rs, n) BY <1>3, AllRead
<1>5. Edge(p, n) /\ rs.word # <<>> BY <1>1, <1>3, <1>4 DEF Edge, TokensRead
<1>6. Wrapped(A, p, target, overlap, big, st, n)
  <2>1. /\ p \in Seq(A) /\ target \in Nat /\ overlap \in Nat /\ max \in Nat /\ big \in Nat /\ long \in Nat
        /\ target <= max /\ max <= big /\ overlap + long <= big /\ Fits(p, long)
        /\ TokensRead(A, p, target, overlap, big, rs, n) /\ rs.word # <<>> /\ Edge(p, n)
    BY <1>4, <1>5
  <2>2. Wrapped(A, p, target, overlap, big,
                Chunked!WrapWord(rs.wrap, rs.word, target, overlap, max), n)
    BY ONLY <2>1, WordEnds, Zenon
  <2>. QED BY <1>3, <2>2
<1>7. PICK ps, c : ps = st.pieces /\ c = st.current BY Zenon
<1>8. PICK m \in Nat : n - Len(c) <= m /\ m <= n /\ Edge(p, m) /\ Covers(ps, p, m)
  BY <1>6, <1>7 DEF Wrapped, Reached
<1>10. /\ ps \in Seq(Seq(A)) /\ c \in Seq(A) /\ n \in Nat
       /\ At(c, p, n - Len(c)) /\ Len(c) <= big /\ RunsOf(ps, p, big)
       /\ Follows(ps, c, p, target, n)
       /\ overlap = 0 => Flat(ps) \o c = p
  <2>1. SubSeq(p, 1, n) = p BY <1>3, SubSeqFull
  <2>. QED BY <1>1, <1>3, <1>6, <1>7, <2>1 DEF Wrapped, Reached
<1>11. Len(c) \in Nat /\ n - Len(c) \in Nat BY <1>10, LenProperties DEF At
<1>12. c # <<>> /\ ps # <<>> => c # ps[Len(ps)]
  <2>1. SUFFICES ASSUME c # <<>>, ps # <<>>, c = ps[Len(ps)] PROVE FALSE
    OBVIOUS
  <2>2. PICK a : /\ At(c, p, a) /\ Full(p, a, Len(c), target) /\ n <= a + Len(c) + Len(c)
                 /\ a + Len(c) < n
    BY <1>10, <2>1 DEF Follows
  <2>3. PICK b, l : b = n - Len(c) /\ l = Len(c) BY Zenon
  <2>4. a \in Nat BY <2>2 DEF At
  <2>5. a < b /\ b <= a + l BY <1>10, <1>11, <2>2, <2>3, <2>4
  <2>6. At(c, p, b) BY <1>10, <2>3
  <2>8. b + l <= Len(p) /\ \A k \in 1 .. l : p[a + k] = p[b + k]
    BY <2>2, <2>3, <2>6 DEF At
  <2>9. b \in Nat /\ l \in Nat BY <1>11, <2>3
  <2>10. a \in 0 .. Len(p) /\ b \in 0 .. Len(p) /\ l \in 0 .. Len(p)
    BY <1>1, <2>4, <2>5, <2>8, <2>9
  <2>11. Full(p, a, l, target) BY <2>2, <2>3
  <2>. QED BY <2>5, <2>8, <2>10, <2>11 DEF Echoes
<1>13. PICK q : q = Chunked!WithRemainder(st) OBVIOUS
<1>14. q = IF c = <<>> THEN ps ELSE Append(ps, c)
  BY <1>7, <1>12, <1>13 DEF Chunked!WithRemainder
<1>15. q \in Seq(Seq(A)) /\ RunsOf(q, p, big) /\ Covers(q, p, n) /\ (overlap = 0 => Flat(q) = p)
  <2>1. CASE c = <<>>
    <3>1. Len(c) = 0 BY <2>1, EmptySeq
    <3>2. m = n BY <1>8, <1>10, <3>1
    <3>3. Flat(ps) \in Seq(A) BY <1>10, FlatAppend
    <3>4. Flat(ps) \o c = Flat(ps) BY <2>1, <3>3, ConcatEmptySeq
    <3>. QED BY <1>8, <1>10, <1>14, <2>1, <3>2, <3>4
  <2>2. CASE c # <<>>
    <3>1. PICK a \in Nat : a = n - Len(c) BY <1>11
    <3>2. a + Len(c) = n /\ a <= m BY <1>8, <1>10, <1>11, <3>1
    <3>3. q = Append(ps, c) BY <1>14, <2>2
    <3>4. At(c, p, a) BY <1>10, <3>1
    <3>5. LET d == Append(ps, c)
          IN  /\ d \in Seq(Seq(A)) /\ d # <<>> /\ d[Len(d)] = c
              /\ RunsOf(d, p, big) /\ Covers(d, p, a + Len(c))
      <4>1. /\ p \in Seq(A) /\ ps \in Seq(Seq(A)) /\ c \in Seq(A) /\ a \in Nat /\ big \in Nat
            /\ At(c, p, a) /\ Len(c) <= big /\ RunsOf(ps, p, big)
            /\ Edge(p, m) /\ Covers(ps, p, m) /\ a <= m
        BY <1>8, <1>10, <3>2, <3>4
      <4>. QED BY ONLY <4>1, RunAdded, Zenon
    <3>6. Flat(q) = Flat(ps) \o c BY <1>10, <3>3, FlatAppend
    <3>. QED BY <1>10, <3>2, <3>3, <3>5, <3>6
  <2>. QED BY <2>1, <2>2
<1>. QED BY <1>2, <1>3, <1>13, <1>15 DEF Divides, Finished

\* A paragraph is divided only where it is too long.
LEMMA PiecesHold ==
  ASSUME NEW A, NEW p \in Seq(A), NEW target \in Nat, NEW overlap \in Nat, NEW max \in Nat,
         NEW big \in Nat, NEW long \in Nat, target <= max, max <= big, overlap + long <= big, Fits(p, long),
         ~ Echoes(p, target)
  PROVE  LET ps == Chunked!Pieces(p, target, overlap, max)
         IN  ps \in Seq(Seq(A)) /\ Divides(ps, p, overlap, big)
<1>1. Len(p) \in Nat BY LenProperties
<1>2. CASE Len(p) > max
  <2>1. Chunked!Pieces(p, target, overlap, max) = Chunked!HardWrap(p, target, overlap, max)
    BY <1>2 DEF Chunked!Pieces
  <2>2. p # <<>> BY <1>2, EmptySeq
  <2>. QED BY <2>1, <2>2, HardWrapHolds
<1>3. CASE ~ Len(p) > max
  <2>1. PICK ps : ps = <<p>> OBVIOUS
  <2>2. Chunked!Pieces(p, target, overlap, max) = ps BY <1>3, <2>1 DEF Chunked!Pieces
  <2>3. ps \in Seq(Seq(A)) /\ Len(ps) = 1 /\ ps[1] = p BY <2>1
  <2>4. At(p, p, 0) /\ Len(p) <= big BY <1>1, <1>3 DEF At
  <2>5. RunsOf(ps, p, big)
    <3>1. \A i \in 1 .. Len(ps) : i = 1 BY <2>3
    <3>. QED BY <2>3, <2>4, <3>1 DEF RunsOf
  <2>6. Covers(ps, p, Len(p))
    <3>1. \A k, l \in 1 .. Len(p) : 0 < k /\ l <= 0 + Len(p) BY <1>1
    <3>2. 1 \in 1 .. Len(ps) BY <2>3
    <3>3. \A k, l \in 1 .. Len(p) : Holds(ps, p, k, l) BY <2>3, <2>4, <3>1, <3>2 DEF Holds
    <3>. QED BY <3>3 DEF Covers
  <2>7. Flat(ps) = p
    <3>1. <<>> \in Seq(Seq(A)) /\ Append(<<>>, p) = ps BY <2>1, EmptySeq
    <3>2. Flat(ps) = Flat(<<>>) \o p BY <3>1, FlatAppend
    <3>. QED BY <3>2, FlatAppend, ConcatEmptySeq
  <2>. QED BY <2>2, <2>3, <2>5, <2>6, <2>7 DEF Divides
<1>. QED BY <1>2, <1>3

-----------------------------------------------------------------------------
(* Packing windows                                                         *)

Packs(A) == [windows : Seq(Seq(Seq(A))), current : Seq(Seq(A))]
NoPack == [windows |-> <<>>, current |-> <<>>]
Wide(c) == Chunked!TokenLen(c)
\* What an overlap adds to a window.
Slack(overlap) == IF overlap = 0 THEN 0 ELSE overlap + 1

\* After n pieces: no window is longer than size, every piece is in one or waits,
\* and without an overlap nothing else is.
PackedSoFar(A, pieces, overlap, size, st, n) ==
  /\ st \in Packs(A) /\ n \in 0 .. Len(pieces)
  /\ Wide(st.current) <= size
  /\ \A i \in 1 .. Len(st.windows) : Wide(st.windows[i]) <= size
  /\ \A k \in 1 .. n :
       \/ \E i \in 1 .. Len(st.windows) : \E j \in 1 .. Len(st.windows[i]) :
            st.windows[i][j] = pieces[k]
       \/ \E j \in 1 .. Len(st.current) : st.current[j] = pieces[k]
  /\ overlap = 0 => Flat(st.windows) \o st.current = SubSeq(pieces, 1, n)

LEMMA FlatOne ==
  ASSUME NEW A, NEW x \in Seq(A)
  PROVE  <<x>> \in Seq(Seq(A)) /\ Flat(<<x>>) = x
<1>1. <<>> \in Seq(Seq(A)) /\ Append(<<>>, x) = <<x>> BY EmptySeq
<1>2. Flat(<<x>>) = Flat(<<>>) \o x BY <1>1, FlatAppend
<1>3. Flat(<<x>>) = x BY <1>2, FlatAppend, ConcatEmptySeq
<1>. QED BY <1>3

\* A piece more widens a window by its tokens and a blank line.
LEMMA Widened ==
  ASSUME NEW A, NEW c \in Seq(Seq(A)), NEW x \in Seq(A)
  PROVE  /\ Wide(Append(c, x)) = IF c = <<>> THEN Len(x) ELSE Wide(c) + 1 + Len(x)
         /\ Wide(Append(c, x)) \in Nat /\ (c # <<>> => Wide(c) \in Nat)
<1>1. PICK d : d = Append(c, x) OBVIOUS
<1>2. d \in Seq(Seq(A)) /\ Len(c) \in Nat /\ Len(d) = Len(c) + 1 BY <1>1, OneAppended
<1>3. Flat(c) \in Seq(A) /\ Flat(d) = Flat(c) \o x BY <1>1, FlatAppend
<1>4. Len(Flat(c)) \in Nat /\ Len(x) \in Nat /\ Len(Flat(d)) = Len(Flat(c)) + Len(x)
  BY <1>3, LenProperties, ConcatProperties
<1>5. d # <<>> BY <1>2, EmptySeq
<1>6. Wide(d) = Len(Flat(d)) + Len(d) - 1 BY <1>5 DEF Wide, Chunked!TokenLen, Chunked!Joined, Flat
<1>7. CASE c = <<>>
  <2>1. Len(c) = 0 /\ Len(Flat(c)) = 0 BY <1>7, EmptySeq, FlatAppend
  <2>2. Wide(d) = Len(x) BY ONLY <1>2, <1>4, <1>6, <2>1
  <2>. QED BY <1>1, <1>4, <1>7, <2>2
<1>8. CASE c # <<>>
  <2>1. Len(c) # 0 BY <1>8, EmptySeq
  <2>2. Wide(c) = Len(Flat(c)) + Len(c) - 1
    BY <1>8 DEF Wide, Chunked!TokenLen, Chunked!Joined, Flat
  <2>3. Wide(c) \in Nat /\ Wide(d) = Wide(c) + 1 + Len(x) BY ONLY <1>2, <1>4, <1>6, <2>1, <2>2
  <2>4. Wide(d) \in Nat BY ONLY <1>4, <2>3
  <2>. QED BY <1>1, <1>8, <2>3, <2>4
<1>. QED BY <1>7, <1>8

\* The text of pieces.
LEMMA TextIs ==
  ASSUME NEW A, NEW c \in Seq(Seq(A)), Chunked!Blank \in A
  PROVE  Chunked!Text(c) \in Seq(A)
<1>1. PICK s : s = [i \in DOMAIN c |-> IF i = 1 THEN c[i] ELSE <<Chunked!Blank>> \o c[i]] OBVIOUS
<1>2. DOMAIN c = 1 .. Len(c) /\ Len(c) \in Nat BY LenProperties
<1>3. ASSUME NEW i \in 1 .. Len(c) PROVE s[i] \in Seq(A)
  <2>1. c[i] \in Seq(A) BY ElementOfSeq
  <2>2. <<Chunked!Blank>> \in Seq(A) OBVIOUS
  <2>3. <<Chunked!Blank>> \o c[i] \in Seq(A) BY <2>1, <2>2, ConcatProperties
  <2>. QED BY <1>1, <1>2, <2>1, <2>3
<1>4. PICK B : B = Seq(A) OBVIOUS
<1>5. PICK n \in Nat : n = Len(c) BY <1>2
<1>6. s \in [1 .. n -> B] BY <1>1, <1>2, <1>3, <1>4, <1>5
<1>7. s \in Seq(B) BY ONLY <1>6, SeqDef
<1>8. s \in Seq(Seq(A)) BY <1>4, <1>7
<1>9. Flat(s) \in Seq(A) BY <1>8, FlatAppend
<1>. QED BY <1>1, <1>9 DEF Chunked!Text, Chunked!Joined, Flat

\* A piece more fills the window under way, or begins another with what is kept.
LEMMA PackShapes ==
  ASSUME NEW A, Chunked!Blank \in A, NEW st \in Packs(A), NEW piece \in Seq(A),
         NEW target \in Nat, NEW overlap \in Nat
  PROVE  LET next == Chunked!PackPiece(st, piece, target, overlap)
         IN  \/ \E kept \in Seq(Seq(A)) :
                  /\ Wide(Append(kept, piece)) <= Len(piece) + Slack(overlap)
                  /\ (overlap = 0 => kept = <<>>)
                  /\ next = [windows |-> Append(st.windows, st.current), current |-> Append(kept, piece)]
             \/ /\ \/ Wide(Append(st.current, piece)) <= target
                   \/ Wide(Append(st.current, piece)) <= Len(piece)
                /\ next = [windows |-> st.windows, current |-> Append(st.current, piece)]
<1> DEFINE c == st.current
           next == Chunked!PackPiece(st, piece, target, overlap)
           last == Chunked!LastTokens(overlap, Chunked!Text(c))
           tail == IF last # <<>> /\ Head(last) = Chunked!Blank THEN Tail(last) ELSE last
           full == c # <<>> /\ Wide(c) + Len(piece) + 2 > target
           kept == IF tail = <<>> THEN <<>> ELSE <<tail>>
<1>1. c \in Seq(Seq(A)) /\ Len(piece) \in Nat BY LenProperties DEF Packs
<1>2. Chunked!Text(c) \in Seq(A) BY <1>1, TextIs
<1>3. last \in Seq(A) /\ Len(last) \in Nat /\ Len(last) <= overlap BY <1>2, LastIs
<1>4. next = [windows |-> IF full THEN Append(st.windows, c) ELSE st.windows,
              current |-> Append(IF ~ full THEN c ELSE kept, piece)]
  BY DEF Chunked!PackPiece, Wide
<1> HIDE DEF next, last
<1>5. tail \in Seq(A) /\ Len(tail) \in Nat /\ Len(tail) <= overlap
  <2>1. CASE last # <<>> /\ Head(last) = Chunked!Blank
    <3>1. tail = Tail(last) BY <2>1
    <3>2. Tail(last) \in Seq(A) /\ Len(Tail(last)) = Len(last) - 1 BY <1>3, <2>1, HeadTailProperties
    <3>3. Len(Tail(last)) \in Nat BY <3>2, LenProperties
    <3>4. Len(Tail(last)) <= overlap BY ONLY <1>3, <3>2, <3>3, overlap \in Nat
    <3>. QED BY ONLY <3>1, <3>2, <3>3, <3>4
  <2>2. CASE ~ (last # <<>> /\ Head(last) = Chunked!Blank)
    <3>1. tail = last BY <2>2
    <3>. QED BY <1>3, <3>1
  <2>. QED BY <2>1, <2>2
<1> HIDE DEF tail
<1>6. CASE full
  <2>1. next = [windows |-> Append(st.windows, c), current |-> Append(kept, piece)] BY <1>4, <1>6
  <2>2. kept \in Seq(Seq(A)) /\ Wide(Append(kept, piece)) <= Len(piece) + Slack(overlap)
    <3>1. CASE tail = <<>>
      <4>1. kept = <<>> /\ <<>> \in Seq(Seq(A)) BY <3>1, EmptySeq
      <4>2. Wide(Append(<<>>, piece)) = Len(piece) BY <4>1, Widened
      <4>3. Len(piece) <= Len(piece) + Slack(overlap) BY <1>1 DEF Slack
      <4>. QED BY <4>1, <4>2, <4>3
    <3>2. CASE tail # <<>>
      <4>1. kept = <<tail>> BY <3>2
      <4>2. PICK d : d = <<tail>> OBVIOUS
      <4>3. d \in Seq(Seq(A)) /\ Flat(d) = tail /\ Len(d) = 1 /\ d # <<>> BY <1>5, <4>2, FlatOne
      <4>4. Wide(d) = Len(tail) + 1 - 1
        BY <4>3 DEF Wide, Chunked!TokenLen, Chunked!Joined, Flat
      <4>5. Wide(Append(d, piece)) = Wide(d) + 1 + Len(piece) BY <4>3, Widened
      <4>6. overlap # 0
        <5>1. Len(tail) # 0 BY <1>5, <3>2, EmptySeq
        <5>. QED BY <1>5, <5>1
      <4>7. Wide(Append(d, piece)) <= Len(piece) + Slack(overlap)
        <5>1. Slack(overlap) = overlap + 1 BY <4>6 DEF Slack
        <5>. QED BY ONLY <1>1, <1>5, <4>4, <4>5, <5>1, overlap \in Nat
      <4>. QED BY <4>1, <4>2, <4>3, <4>7
    <3>. QED BY <3>1, <3>2
  <2>3. overlap = 0 => kept = <<>>
    <3>1. overlap = 0 => Len(tail) = 0 BY <1>5
    <3>2. Len(tail) = 0 => tail = <<>> BY <1>5, EmptySeq
    <3>. QED BY <3>1, <3>2
  <2> HIDE DEF kept
  <2>. QED BY <2>1, <2>2, <2>3 DEF next
<1>7. CASE ~ full
  <2>1. next = [windows |-> st.windows, current |-> Append(c, piece)] BY <1>4, <1>7
  <2>2. \/ Wide(Append(c, piece)) <= target
        \/ Wide(Append(c, piece)) <= Len(piece)
    <3>1. CASE c = <<>>
      <4>1. Wide(Append(c, piece)) = Len(piece) BY <1>1, <3>1, Widened
      <4>. QED BY <1>1, <4>1
    <3>2. CASE c # <<>>
      <4>1. Wide(Append(c, piece)) = Wide(c) + 1 + Len(piece) /\ Wide(c) \in Nat
        BY <1>1, <3>2, Widened
      <4>2. ~ (Wide(c) + Len(piece) + 2 > target) BY <1>7, <3>2
      <4>3. ASSUME NEW i \in Nat, NEW j \in Nat, NEW l \in Nat, ~ (i + j + 2 > l)
            PROVE  i + 1 + j <= l
        BY ONLY <4>3
      <4>4. Wide(c) + 1 + Len(piece) <= target BY ONLY <1>1, <4>1, <4>2, <4>3, target \in Nat
      <4>. QED BY <4>1, <4>4
    <3>. QED BY <3>1, <3>2
  <2>. QED BY <2>1, <2>2 DEF next
<1>. QED BY <1>6, <1>7

\* The pieces so far, and one more.
LEMMA OneRead ==
  ASSUME NEW A, NEW p \in Seq(A), NEW n \in 1 .. Len(p), NEW s \in Seq(A), s = SubSeq(p, 1, n - 1)
  PROVE  s \o <<p[n]>> = SubSeq(p, 1, n)
<1>1. Len(p) \in Nat /\ 1 \in 1 .. Len(p) /\ n \in 1 .. Len(p) BY LenProperties
<1>. QED BY <1>1, SubSeqRecursiveSecond

LEMMA PackStep ==
  ASSUME NEW A, Chunked!Blank \in A, NEW pieces \in Seq(Seq(A)), NEW target \in Nat, NEW overlap \in Nat,
         NEW size \in Nat, target <= size, NEW st, NEW n \in 1 .. Len(pieces),
         Len(pieces[n]) + Slack(overlap) <= size,
         PackedSoFar(A, pieces, overlap, size, st, n - 1)
  PROVE  PackedSoFar(A, pieces, overlap, size,
                     Chunked!PackPiece(st, pieces[n], target, overlap), n)
<1> DEFINE next == Chunked!PackPiece(st, pieces[n], target, overlap)
<1>1. PICK ws, c, x : ws = st.windows /\ c = st.current /\ x = pieces[n] OBVIOUS
<1>2. /\ st \in Packs(A) /\ ws \in Seq(Seq(Seq(A))) /\ c \in Seq(Seq(A))
      /\ Wide(c) <= size /\ (\A i \in 1 .. Len(ws) : Wide(ws[i]) <= size)
      /\ (\A k \in 1 .. n - 1 : \/ \E i \in 1 .. Len(ws) : \E j \in 1 .. Len(ws[i]) : ws[i][j] = pieces[k]
                                \/ \E j \in 1 .. Len(c) : c[j] = pieces[k])
      /\ (overlap = 0 => Flat(ws) \o c = SubSeq(pieces, 1, n - 1))
  BY <1>1 DEF PackedSoFar, Packs
<1>30. Slack(overlap) \in Nat BY DEF Slack
<1>3. /\ Len(pieces) \in Nat /\ n \in 0 .. Len(pieces) /\ x \in Seq(A) /\ Len(x) \in Nat
      /\ Len(ws) \in Nat /\ Len(c) \in Nat /\ Len(x) + Slack(overlap) <= size /\ Slack(overlap) \in Nat
  BY <1>1, <1>2, LenProperties, ElementOfSeq, <1>30
<1>4. \A k \in 1 .. n : k # n => k \in 1 .. n - 1 BY <1>3
<1>5. \/ \E kept \in Seq(Seq(A)) :
           /\ Wide(Append(kept, x)) <= Len(x) + Slack(overlap) /\ (overlap = 0 => kept = <<>>)
           /\ next = [windows |-> Append(ws, c), current |-> Append(kept, x)]
      \/ /\ Wide(Append(c, x)) <= target \/ Wide(Append(c, x)) <= Len(x)
         /\ next = [windows |-> ws, current |-> Append(c, x)]
  <2>1. \/ \E kept \in Seq(Seq(A)) :
             /\ Wide(Append(kept, x)) <= Len(x) + Slack(overlap) /\ (overlap = 0 => kept = <<>>)
             /\ Chunked!PackPiece(st, x, target, overlap)
                  = [windows |-> Append(st.windows, st.current), current |-> Append(kept, x)]
        \/ /\ Wide(Append(st.current, x)) <= target \/ Wide(Append(st.current, x)) <= Len(x)
           /\ Chunked!PackPiece(st, x, target, overlap)
                = [windows |-> st.windows, current |-> Append(st.current, x)]
    <3>1. /\ Chunked!Blank \in A /\ st \in Packs(A) /\ x \in Seq(A) /\ target \in Nat /\ overlap \in Nat
      BY <1>2, <1>3
    <3>. QED BY ONLY <3>1, PackShapes, Zenon
  <2>. QED BY <1>1, <2>1
<1> HIDE DEF next
<1>6. ASSUME NEW vs \in Seq(Seq(Seq(A))), NEW d \in Seq(Seq(A)),
             next = [windows |-> vs, current |-> Append(d, x)],
             Wide(Append(d, x)) <= size, \A i \in 1 .. Len(vs) : Wide(vs[i]) <= size,
             \A k \in 1 .. n - 1 :
               \/ \E i \in 1 .. Len(vs) : \E j \in 1 .. Len(vs[i]) : vs[i][j] = pieces[k]
               \/ \E j \in 1 .. Len(d) : d[j] = pieces[k],
             overlap = 0 => Flat(vs) \o d = SubSeq(pieces, 1, n - 1)
      PROVE  PackedSoFar(A, pieces, overlap, size, next, n)
  <2>1. PICK e : e = Append(d, x) OBVIOUS
  <2>2. /\ e \in Seq(Seq(A)) /\ Len(d) \in Nat /\ Len(e) = Len(d) + 1 /\ e[Len(d) + 1] = x
        /\ \A j \in 1 .. Len(d) : e[j] = d[j]
    BY <1>3, <2>1, OneAppended
  <2>3. next \in Packs(A) /\ next.windows = vs /\ next.current = e BY <1>6, <2>1, <2>2 DEF Packs
  <2>4. Wide(e) <= size BY <1>6, <2>1
  <2>5. ASSUME NEW k \in 1 .. n
        PROVE  \/ \E i \in 1 .. Len(vs) : \E j \in 1 .. Len(vs[i]) : vs[i][j] = pieces[k]
               \/ \E j \in 1 .. Len(e) : e[j] = pieces[k]
    <3>1. CASE k = n
      <4>1. Len(d) + 1 \in 1 .. Len(e) /\ e[Len(d) + 1] = pieces[k] BY <1>1, <2>2, <3>1
      <4>. QED BY <4>1
    <3>2. CASE k # n
      <4>1. k \in 1 .. n - 1 BY <1>4, <3>2
      <4>2. CASE \E i \in 1 .. Len(vs) : \E j \in 1 .. Len(vs[i]) : vs[i][j] = pieces[k] BY <4>2
      <4>3. CASE \E j \in 1 .. Len(d) : d[j] = pieces[k]
        <5>1. PICK j \in 1 .. Len(d) : d[j] = pieces[k] BY <4>3
        <5>2. j \in 1 .. Len(e) /\ e[j] = pieces[k] BY <2>2, <5>1
        <5>. QED BY <5>2
      <4>. QED BY <1>6, <4>1, <4>2, <4>3
    <3>. QED BY <3>1, <3>2
  <2>6. ASSUME overlap = 0 PROVE Flat(vs) \o e = SubSeq(pieces, 1, n)
    <3>1. PICK f, z : f = Flat(vs) /\ z = <<x>> OBVIOUS
    <3>2. f \in Seq(Seq(A)) /\ z \in Seq(Seq(A)) /\ e = d \o z
      <4>1. f \in Seq(Seq(A)) BY <3>1, FlatAppend
      <4>2. z \in Seq(Seq(A)) BY <1>3, <3>1, FlatOne
      <4>3. Append(d, x) = d \o <<x>> BY <1>3, AppendIsConcat
      <4>. QED BY <2>1, <3>1, <4>1, <4>2, <4>3
    <3>3. (f \o d) \o z = f \o (d \o z)
      <4>1. d \in Seq(Seq(A)) OBVIOUS
      <4>2. PICK B : B = Seq(A) OBVIOUS
      <4>3. f \in Seq(B) /\ d \in Seq(B) /\ z \in Seq(B) BY <3>2, <4>1, <4>2
      <4>. QED BY ONLY <4>3, ConcatAssociative, SMTT(30)
    <3>4. f \o d \in Seq(Seq(A)) BY <3>2, ConcatProperties
    <3>5. f \o d = SubSeq(pieces, 1, n - 1) BY <1>6, <2>6, <3>1
    <3>6. (f \o d) \o <<pieces[n]>> = SubSeq(pieces, 1, n) BY <3>4, <3>5, OneRead
    <3>. QED BY <1>1, <3>1, <3>2, <3>3, <3>6
  <2>. QED BY <1>3, <1>6, <2>3, <2>4, <2>5, <2>6 DEF PackedSoFar
<1>7. CASE \E kept \in Seq(Seq(A)) :
             /\ Wide(Append(kept, x)) <= Len(x) + Slack(overlap) /\ (overlap = 0 => kept = <<>>)
             /\ next = [windows |-> Append(ws, c), current |-> Append(kept, x)]
  <2>1. PICK kept \in Seq(Seq(A)) :
             /\ Wide(Append(kept, x)) <= Len(x) + Slack(overlap) /\ (overlap = 0 => kept = <<>>)
             /\ next = [windows |-> Append(ws, c), current |-> Append(kept, x)]
    BY <1>7
  <2>2. PICK vs : vs = Append(ws, c) OBVIOUS
  <2>3. /\ vs \in Seq(Seq(Seq(A))) /\ Len(vs) = Len(ws) + 1 /\ vs[Len(ws) + 1] = c
        /\ \A i \in 1 .. Len(ws) : vs[i] = ws[i]
    BY <1>2, <2>2, OneAppended
  <2>41. Wide(Append(kept, x)) \in Nat BY <1>3, Widened
  <2>4. Wide(Append(kept, x)) <= size BY ONLY <1>3, <2>1, <2>41, size \in Nat
  <2>5. \A i \in 1 .. Len(vs) : Wide(vs[i]) <= size
    <3>1. TAKE i \in 1 .. Len(vs)
    <3>2. i = Len(ws) + 1 \/ i \in 1 .. Len(ws) BY <1>3, <2>3
    <3>. QED BY <1>2, <2>3, <3>2
  <2>6. \A k \in 1 .. n - 1 :
               \/ \E i \in 1 .. Len(vs) : \E j \in 1 .. Len(vs[i]) : vs[i][j] = pieces[k]
               \/ \E j \in 1 .. Len(kept) : kept[j] = pieces[k]
    <3>1. TAKE k \in 1 .. n - 1
    <3>2. CASE \E i \in 1 .. Len(ws) : \E j \in 1 .. Len(ws[i]) : ws[i][j] = pieces[k]
      <4>1. PICK i \in 1 .. Len(ws) : \E j \in 1 .. Len(ws[i]) : ws[i][j] = pieces[k] BY <3>2
      <4>2. i \in 1 .. Len(vs) /\ vs[i] = ws[i] BY <1>3, <2>3
      <4>. QED BY <4>1, <4>2
    <3>3. CASE \E j \in 1 .. Len(c) : c[j] = pieces[k]
      <4>1. Len(ws) + 1 \in 1 .. Len(vs) BY <1>3, <2>3
      <4>. QED BY <2>3, <3>3, <4>1
    <3>. QED BY <1>2, <3>2, <3>3
  <2>7. overlap = 0 => Flat(vs) \o kept = SubSeq(pieces, 1, n - 1)
    <3>1. Flat(vs) = Flat(ws) \o c /\ Flat(vs) \in Seq(Seq(A)) BY <1>2, <2>2, <2>3, FlatAppend
    <3>2. overlap = 0 => Flat(vs) \o kept = Flat(vs) BY <2>1, <3>1, ConcatEmptySeq
    <3>. QED BY <1>2, <3>1, <3>2
  <2>. QED BY <1>6, <2>1, <2>2, <2>3, <2>4, <2>5, <2>6, <2>7 DEF next
<1>8. CASE /\ Wide(Append(c, x)) <= target \/ Wide(Append(c, x)) <= Len(x)
           /\ next = [windows |-> ws, current |-> Append(c, x)]
  <2>2. Wide(Append(c, x)) \in Nat BY <1>2, <1>3, Widened
  <2>3. Wide(Append(c, x)) <= size
    BY ONLY <1>3, <1>8, <2>2, size \in Nat, target \in Nat, target <= size
  <2>. QED BY <1>2, <1>6, <1>8, <2>3 DEF next
<1>. QED BY <1>5, <1>7, <1>8 DEF next

Packing(A, target, overlap) ==
  [q \in Packs(A) \X Seq(A) |-> Chunked!PackPiece(q[1], q[2], target, overlap)]

\* The pieces of all paragraphs.
PiecesOf(paras, target, overlap, max) ==
  [i \in DOMAIN paras |-> Chunked!Pieces(paras[i], target, overlap, max)]
\* The windows of a finished packing.
Closed(st) == IF st.current = <<>> THEN st.windows ELSE Append(st.windows, st.current)

LEMMA PackedIs ==
  ASSUME NEW A, NEW paras, NEW target \in Nat, NEW overlap \in Nat, NEW max,
         Flat(PiecesOf(paras, target, overlap, max)) \in Seq(Seq(A)), Chunked!Blank \in A
  PROVE  LET pieces == Flat(PiecesOf(paras, target, overlap, max))
         IN  \E f \in Steps(Packs(A), NoPack, Packing(A, target, overlap), pieces) :
               Chunked!Packed(paras, target, overlap, max) = Closed(f[Len(pieces)])
<1>1. PICK pieces : pieces = Flat(PiecesOf(paras, target, overlap, max)) OBVIOUS
<1>2. pieces \in Seq(Seq(A)) BY <1>1
<1> DEFINE G == Packing(A, target, overlap)
           N == Len(pieces)
           Def(h) == h = [n \in 0 .. N |->
                            IF n = 0 THEN [windows |-> <<>>, current |-> <<>>]
                            ELSE Chunked!PackPiece(h[n - 1], pieces[n], target, overlap)]
           h0 == CHOOSE h : Def(h)
<1>3. N \in Nat /\ \A n \in 1 .. N : pieces[n] \in Seq(A) BY <1>2, LenProperties, ElementOfSeq
<1>4. NoPack \in Packs(A) BY EmptySeq DEF NoPack, Packs
<1>5. G \in [Packs(A) \X Seq(A) -> Packs(A)]
  <2>1. ASSUME NEW st \in Packs(A), NEW x \in Seq(A)
        PROVE  Chunked!PackPiece(st, x, target, overlap) \in Packs(A)
    <3>1. st.windows \in Seq(Seq(Seq(A))) /\ st.current \in Seq(Seq(A)) BY DEF Packs
    <3>2. ASSUME NEW ws \in Seq(Seq(Seq(A))), NEW c \in Seq(Seq(A))
          PROVE  [windows |-> ws, current |-> c] \in Packs(A)
      BY DEF Packs
    <3>3. /\ Append(st.windows, st.current) \in Seq(Seq(Seq(A)))
          /\ \A c \in Seq(Seq(A)) : Append(c, x) \in Seq(Seq(A))
      BY <3>1, OneAppended
    <3>4. PICK next : next = Chunked!PackPiece(st, x, target, overlap) OBVIOUS
    <3>5. \/ \E kept \in Seq(Seq(A)) :
               next = [windows |-> Append(st.windows, st.current), current |-> Append(kept, x)]
          \/ next = [windows |-> st.windows, current |-> Append(st.current, x)]
      BY <3>4, PackShapes
    <3>6. next \in Packs(A) BY <3>1, <3>2, <3>3, <3>5
    <3>. QED BY <3>4, <3>6
  <2>. QED BY <2>1 DEF Packing
<1>6. PICK f : f \in Steps(Packs(A), NoPack, G, pieces) BY <1>2, <1>4, <1>5, StepsExist
<1>7. f \in [0 .. N -> Packs(A)] /\ f[0] = NoPack BY <1>6 DEF Steps
<1>8. \A n \in 1 .. N : /\ f[n - 1] \in Packs(A) /\ f[n] = G[<<f[n - 1], pieces[n]>>]
                        /\ f[n] = Chunked!PackPiece(f[n - 1], pieces[n], target, overlap)
  <2>1. TAKE n \in 1 .. N
  <2>2. f[n] = G[<<f[n - 1], pieces[n]>>] BY <1>6 DEF Steps
  <2>3. n - 1 \in 0 .. N BY <1>3
  <2>4. f[n - 1] \in Packs(A) BY <1>7, <2>3
  <2>. QED BY <1>3, <2>2, <2>4 DEF Packing
<1>9. Def(f)
  <2>1. ASSUME NEW n \in 0 .. N
        PROVE  f[n] = IF n = 0 THEN [windows |-> <<>>, current |-> <<>>]
                      ELSE Chunked!PackPiece(f[n - 1], pieces[n], target, overlap)
    <3>1. CASE n = 0 BY <1>7, <3>1 DEF NoPack
    <3>2. CASE n # 0
      <4>1. n \in 1 .. N BY <1>3, <3>2
      <4>. QED BY <1>8, <3>2, <4>1
    <3>. QED BY <3>1, <3>2
  <2>. QED BY <1>7, <2>1
<1>10. Chunked!Packed(paras, target, overlap, max) = Closed(h0[N])
  BY <1>1 DEF Chunked!Packed, Flat, PiecesOf, Closed
<1> HIDE DEF Def
<1>11. Def(h0) BY <1>9
<1> HIDE DEF h0
<1>12. h0[0] = NoPack /\ \A n \in 1 .. N : h0[n] = Chunked!PackPiece(h0[n - 1], pieces[n], target, overlap)
  <2>1. 0 \in 0 .. N /\ \A n \in 1 .. N : n \in 0 .. N /\ n # 0 BY <1>3
  <2>. QED BY <1>11, <2>1 DEF Def, NoPack
<1>13. \A n \in 1 .. N : f[n - 1] = h0[n - 1] => h0[n] = G[<<f[n - 1], pieces[n]>>]
  BY <1>8, <1>12
<1> HIDE DEF G, N
<1>14. h0[Len(pieces)] = f[Len(pieces)] BY <1>3, <1>6, <1>12, <1>13, StepsChosen DEF N
<1>. QED BY <1>1, <1>6, <1>10, <1>14 DEF N, G

\* What packing makes of pieces.
PackedWell(A, pieces, overlap, size, ws) ==
  /\ ws \in Seq(Seq(Seq(A)))
  /\ \A i \in 1 .. Len(ws) : Wide(ws[i]) <= size
  /\ \A k \in 1 .. Len(pieces) :
       \E i \in 1 .. Len(ws) : \E j \in 1 .. Len(ws[i]) : ws[i][j] = pieces[k]
  /\ overlap = 0 => Flat(ws) = pieces

\* What the windows are to the pieces packed in them.
LEMMA PackedHolds ==
  ASSUME NEW A, Chunked!Blank \in A, NEW paras, NEW target \in Nat, NEW overlap \in Nat, NEW max,
         NEW size \in Nat, target <= size,
         NEW pieces \in Seq(Seq(A)), pieces = Flat(PiecesOf(paras, target, overlap, max)),
         \A n \in 1 .. Len(pieces) : Len(pieces[n]) + Slack(overlap) <= size
  PROVE  PackedWell(A, pieces, overlap, size, Chunked!Packed(paras, target, overlap, max))
<1> DEFINE G == Packing(A, target, overlap)
           Good == {e \in Packs(A) \X (0 .. Len(pieces)) :
                      PackedSoFar(A, pieces, overlap, size, e[1], e[2])}
<1>1. Len(pieces) \in Nat BY LenProperties
<1>2. PICK f \in Steps(Packs(A), NoPack, G, pieces) :
        Chunked!Packed(paras, target, overlap, max) = Closed(f[Len(pieces)])
  <2>1. Flat(PiecesOf(paras, target, overlap, max)) \in Seq(Seq(A)) OBVIOUS
  <2>. QED BY <2>1, PackedIs
<1>3. f \in [0 .. Len(pieces) -> Packs(A)] BY <1>2 DEF Steps
<1>4. <<NoPack, 0>> \in Good
  <2>1. NoPack \in Packs(A) /\ NoPack.windows = <<>> /\ NoPack.current = <<>>
    BY EmptySeq DEF NoPack, Packs
  <2>2. Len(<<>>) = 0 /\ Flat(<<>>) = <<>> /\ 0 <= size /\ Wide(<<>>) = 0
    BY EmptySeq, FlatAppend DEF Wide, Chunked!TokenLen
  <2>3. Flat(<<>>) \o <<>> = SubSeq(pieces, 1, 0)
    <3>1. Flat(<<>>) = <<>> /\ <<>> \in Seq(A) BY FlatAppend, EmptySeq
    <3>2. <<>> \o <<>> = <<>> BY <3>1, ConcatEmptySeq
    <3>3. SubSeq(pieces, 1, 0) = <<>> BY SubSeqEmpty
    <3>. QED BY <3>1, <3>2, <3>3
  <2>4. PackedSoFar(A, pieces, overlap, size, NoPack, 0)
    BY <1>1, <2>1, <2>2, <2>3 DEF PackedSoFar
  <2>. QED BY <1>1, <2>1, <2>4
<1>5. ASSUME NEW n \in 1 .. Len(pieces), <<f[n - 1], n - 1>> \in Good
      PROVE  <<G[<<f[n - 1], pieces[n]>>], n>> \in Good
  <2>1. PICK st : st = f[n - 1] OBVIOUS
  <2>2. n - 1 \in 0 .. Len(pieces) /\ n \in 0 .. Len(pieces) BY <1>1
  <2>3. st \in Packs(A) /\ PackedSoFar(A, pieces, overlap, size, st, n - 1)
    BY <1>3, <1>5, <2>1, <2>2
  <2>4. pieces[n] \in Seq(A) /\ Len(pieces[n]) + Slack(overlap) <= size BY ElementOfSeq
  <2>5. PICK next : next = Chunked!PackPiece(st, pieces[n], target, overlap) OBVIOUS
  <2>6. PackedSoFar(A, pieces, overlap, size, next, n) BY <2>3, <2>4, <2>5, PackStep
  <2>7. G[<<st, pieces[n]>>] = next BY <2>3, <2>4, <2>5 DEF Packing
  <2>8. next \in Packs(A) BY <2>6 DEF PackedSoFar
  <2>. QED BY <2>1, <2>2, <2>6, <2>7, <2>8
<1> HIDE DEF G, Good
<1>6. <<f[Len(pieces)], Len(pieces)>> \in Good
  <2>1. \A n \in 1 .. Len(pieces) :
          <<f[n - 1], n - 1>> \in Good => <<G[<<f[n - 1], pieces[n]>>], n>> \in Good
    BY <1>5
  <2>. QED BY <1>2, <1>4, <2>1, StepsKeep
<1>7. PICK st : st = f[Len(pieces)] OBVIOUS
<1>8. PICK vs, c : vs = st.windows /\ c = st.current BY Zenon
<1>9. /\ vs \in Seq(Seq(Seq(A))) /\ c \in Seq(Seq(A))
      /\ Wide(c) <= size /\ (\A i \in 1 .. Len(vs) : Wide(vs[i]) <= size)
      /\ \A k \in 1 .. Len(pieces) :
           \/ \E i \in 1 .. Len(vs) : \E j \in 1 .. Len(vs[i]) : vs[i][j] = pieces[k]
           \/ \E j \in 1 .. Len(c) : c[j] = pieces[k]
      /\ overlap = 0 => Flat(vs) \o c = pieces
  <2>1. st \in Packs(A) /\ PackedSoFar(A, pieces, overlap, size, st, Len(pieces))
    BY <1>6, <1>7 DEF Good
  <2>2. vs \in Seq(Seq(Seq(A))) /\ c \in Seq(Seq(A)) BY <1>8, <2>1 DEF Packs
  <2>3. SubSeq(pieces, 1, Len(pieces)) = pieces BY SubSeqFull
  <2>4. PackedSoFar(A, pieces, overlap, size, st, Len(pieces)) BY <2>1
  <2>5. /\ Wide(c) <= size /\ (\A i \in 1 .. Len(vs) : Wide(vs[i]) <= size)
        /\ overlap = 0 => Flat(vs) \o c = SubSeq(pieces, 1, Len(pieces))
    BY ONLY <1>8, <2>4 DEF PackedSoFar
  <2>6. \A k \in 1 .. Len(pieces) :
           \/ \E i \in 1 .. Len(vs) : \E j \in 1 .. Len(vs[i]) : vs[i][j] = pieces[k]
           \/ \E j \in 1 .. Len(c) : c[j] = pieces[k]
    BY ONLY <1>8, <2>4, Zenon DEF PackedSoFar
  <2>. QED BY ONLY <2>2, <2>3, <2>5, <2>6
<1>10. PICK ws : ws = Closed(st) OBVIOUS
<1>11. /\ ws \in Seq(Seq(Seq(A)))
       /\ \A i \in 1 .. Len(ws) : Wide(ws[i]) <= size
       /\ \A k \in 1 .. Len(pieces) :
            \E i \in 1 .. Len(ws) : \E j \in 1 .. Len(ws[i]) : ws[i][j] = pieces[k]
       /\ overlap = 0 => Flat(ws) = pieces
  <2>1. CASE c = <<>>
    <3>1. ws = vs BY <1>8, <1>10, <2>1 DEF Closed
    <3>2. 1 .. Len(c) = {}
      <4>1. Len(c) = 0 BY <2>1, EmptySeq
      <4>. QED BY <4>1
    <3>3. Flat(vs) \o c = Flat(vs)
      <4>1. Flat(vs) \in Seq(Seq(A)) BY <1>9, FlatAppend
      <4>. QED BY <2>1, <4>1, ConcatEmptySeq
    <3>. QED BY <1>9, <3>1, <3>2, <3>3
  <2>2. CASE c # <<>>
    <3>1. ws = Append(vs, c) BY <1>8, <1>10, <2>2 DEF Closed
    <3>2. /\ ws \in Seq(Seq(Seq(A))) /\ Len(vs) \in Nat /\ Len(ws) = Len(vs) + 1 /\ ws[Len(vs) + 1] = c
          /\ \A i \in 1 .. Len(vs) : ws[i] = vs[i]
      BY <1>9, <3>1, OneAppended
    <3>3. \A i \in 1 .. Len(ws) : Wide(ws[i]) <= size
      <4>1. TAKE i \in 1 .. Len(ws)
      <4>2. i = Len(vs) + 1 \/ i \in 1 .. Len(vs) BY <3>2
      <4>. QED BY <1>9, <3>2, <4>2
    <3>4. ASSUME NEW k \in 1 .. Len(pieces)
          PROVE  \E i \in 1 .. Len(ws) : \E j \in 1 .. Len(ws[i]) : ws[i][j] = pieces[k]
      <4>1. CASE \E i \in 1 .. Len(vs) : \E j \in 1 .. Len(vs[i]) : vs[i][j] = pieces[k]
        <5>1. PICK i \in 1 .. Len(vs) : \E j \in 1 .. Len(vs[i]) : vs[i][j] = pieces[k] BY <4>1
        <5>2. i \in 1 .. Len(ws) /\ ws[i] = vs[i] BY <3>2
        <5>. QED BY <5>1, <5>2
      <4>2. CASE \E j \in 1 .. Len(c) : c[j] = pieces[k]
        <5>1. Len(vs) + 1 \in 1 .. Len(ws) BY <3>2
        <5>. QED BY <3>2, <4>2, <5>1
      <4>. QED BY <1>9, <4>1, <4>2
    <3>5. Flat(ws) = Flat(vs) \o c BY <1>9, <3>1, FlatAppend
    <3>. QED BY <1>9, <3>2, <3>3, <3>4, <3>5
  <2>. QED BY <2>1, <2>2
<1>12. PackedWell(A, pieces, overlap, size, ws) BY <1>11 DEF PackedWell
<1>13. Chunked!Packed(paras, target, overlap, max) = ws BY <1>2, <1>7, <1>10
<1>. QED BY ONLY <1>12, <1>13

\* A run of a run, and its echoes.
LEMMA RunOfRun ==
  ASSUME NEW A, NEW p \in Seq(A), NEW r \in Seq(A), NEW o, At(r, p, o), NEW n \in Nat, Echoes(r, n)
  PROVE  Echoes(p, n)
<1>1. /\ Len(p) \in Nat /\ Len(r) \in Nat /\ o \in Nat /\ o + Len(r) <= Len(p)
      /\ \A k \in 1 .. Len(r) : p[o + k] = r[k]
  BY LenProperties DEF At
<1>2. PICK a \in 0 .. Len(r), b \in 0 .. Len(r), l \in 0 .. Len(r) :
        /\ a < b /\ b <= a + l /\ b + l <= Len(r) /\ Full(r, a, l, n)
        /\ \A k \in 1 .. l : r[a + k] = r[b + k]
  BY DEF Echoes
<1>3. PICK c, d : c = o + a /\ d = o + b BY Zenon
<1>4. /\ c \in 0 .. Len(p) /\ d \in 0 .. Len(p) /\ l \in 0 .. Len(p)
      /\ c < d /\ d <= c + l /\ d + l <= Len(p)
  <2>1. /\ Len(p) \in Nat /\ Len(r) \in Nat /\ o \in Nat /\ o + Len(r) <= Len(p)
        /\ a \in 0 .. Len(r) /\ b \in 0 .. Len(r) /\ l \in 0 .. Len(r)
        /\ a < b /\ b <= a + l /\ b + l <= Len(r)
    BY <1>1, <1>2
  <2>2. ASSUME NEW x \in Nat, NEW y \in Nat, NEW q \in Nat, q + y <= x,
               NEW e \in 0 .. y, NEW f \in 0 .. y, NEW g \in 0 .. y,
               e < f, f <= e + g, f + g <= y
        PROVE  /\ q + e \in 0 .. x /\ q + f \in 0 .. x /\ g \in 0 .. x
               /\ q + e < q + f /\ q + f <= (q + e) + g /\ (q + f) + g <= x
    BY ONLY <2>2
  <2>3. /\ o + a \in 0 .. Len(p) /\ o + b \in 0 .. Len(p) /\ l \in 0 .. Len(p)
        /\ o + a < o + b /\ o + b <= (o + a) + l /\ (o + b) + l <= Len(p)
    BY ONLY <2>1, <2>2
  <2>. QED BY ONLY <1>3, <2>3
<1>5. ASSUME NEW k \in 1 .. l PROVE p[c + k] = p[d + k]
  <2>1. /\ a + k \in 1 .. Len(r) /\ o + (a + k) = c + k
        /\ b + k \in 1 .. Len(r) /\ o + (b + k) = d + k
    <3>1. /\ Len(r) \in Nat /\ o \in Nat /\ k \in 1 .. l
          /\ a \in 0 .. Len(r) /\ b \in 0 .. Len(r) /\ l \in 0 .. Len(r)
          /\ a < b /\ b + l <= Len(r)
      BY <1>1, <1>2
    <3>2. /\ a + k \in 1 .. Len(r) /\ o + (a + k) = (o + a) + k
          /\ b + k \in 1 .. Len(r) /\ o + (b + k) = (o + b) + k
      BY ONLY <3>1
    <3>. QED BY ONLY <1>3, <3>2
  <2>2. p[o + (a + k)] = r[a + k] /\ p[o + (b + k)] = r[b + k] BY <1>1, <2>1
  <2>. QED BY <1>2, <2>1, <2>2
<1>6. Full(p, c, l, n)
  <2>1. CASE n <= l BY <2>1 DEF Full
  <2>2. CASE \E e \in 0 .. Len(r) : a + l < e /\ n < e - a /\ NoStart(r, a + l + 2, e)
    <3>1. PICK e \in 0 .. Len(r) : a + l < e /\ n < e - a /\ NoStart(r, a + l + 2, e) BY <2>2
    <3>2. PICK f : f = o + e BY Zenon
    <3>3. f \in 0 .. Len(p) /\ c + l < f /\ n < f - c BY <1>1, <1>2, <1>3, <3>1, <3>2
    <3>4. NoStart(p, c + l + 2, f)
      <4>1. SUFFICES ASSUME NEW k \in c + l + 2 .. f PROVE p[k] \notin WordStarts
        BY DEF NoStart
      <4>2. k - o \in a + l + 2 .. e /\ k - o \in 1 .. Len(r) /\ o + (k - o) = k
        BY <1>1, <1>2, <1>3, <3>1, <3>2
      <4>3. p[k] = r[k - o] BY <1>1, <4>2
      <4>. QED BY <3>1, <4>2, <4>3 DEF NoStart
    <3>. QED BY <3>3, <3>4 DEF Full
  <2>. QED BY <1>2, <2>1, <2>2 DEF Full
<1>. QED BY <1>4, <1>5, <1>6 DEF Echoes

\* The run that is in p after the first a tokens.
LEMMA RunStarts ==
  ASSUME NEW A, NEW p \in Seq(A), NEW r \in Seq(A), NEW a, At(r, p, a)
  PROVE  a \in 0 .. Len(p) - Len(r) /\ SubSeq(p, a + 1, a + Len(r)) = r
<1>1. /\ Len(p) \in Nat /\ Len(r) \in Nat /\ a \in Nat /\ a + Len(r) <= Len(p)
      /\ \A k \in 1 .. Len(r) : p[a + k] = r[k]
  BY LenProperties DEF At
<1>2. a \in 0 .. Len(p) - Len(r) BY <1>1
<1>3. PICK m, n : m = a + 1 /\ n = a + Len(r) OBVIOUS
<1>4. m \in Nat /\ n \in Nat /\ m \in Int /\ n \in Int /\ n - m + 1 = Len(r) /\ 1 <= m /\ n <= Len(p)
  BY ONLY <1>1, <1>3
<1>5. \A i \in m .. n : p[i] \in A
  <2>1. \A i \in m .. n : i \in 1 .. Len(p) BY ONLY <1>1, <1>4
  <2>. QED BY <2>1, ElementOfSeq
<1>6. PICK s : s = SubSeq(p, m, n) OBVIOUS
<1>7. /\ s \in Seq(A) /\ Len(s) = IF m <= n THEN n - m + 1 ELSE 0
      /\ \A i \in 1 .. n - m + 1 : s[i] = p[m + i - 1]
  BY ONLY <1>4, <1>5, <1>6, SubSeqProperties
<1>8. Len(s) = Len(r) BY ONLY <1>1, <1>4, <1>7
<1>9. \A k \in 1 .. Len(s) : s[k] = r[k]
  <2>1. TAKE k \in 1 .. Len(s)
  <2>20. a \in Nat /\ Len(r) \in Nat /\ k \in 1 .. Len(r) BY ONLY <1>1, <1>8
  <2>21. m + k - 1 = a + k BY ONLY <1>3, <2>20
  <2>22. k \in 1 .. n - m + 1 BY ONLY <1>4, <2>20
  <2>2. k \in 1 .. n - m + 1 /\ k \in 1 .. Len(r) /\ m + k - 1 = a + k BY ONLY <2>20, <2>21, <2>22
  <2>. QED BY <1>1, <1>7, <2>2
<1>10. s = r BY <1>7, <1>8, <1>9, SeqEqual
<1>. QED BY <1>2, <1>3, <1>6, <1>10

\* The longest word of paragraphs.
LEMMA LongestIs ==
  ASSUME NEW A, NEW paras \in Seq(Seq(A))
  PROVE  /\ Chunked!Longest(paras) \in Nat
         /\ \A h \in 1 .. Len(paras) : Fits(paras[h], Chunked!Longest(paras))
<1> DEFINE of(p) == {x[2] - x[1] + 1 : x \in Chunked!Spans(p)}
           sizes == {0} \cup UNION {of(p) : p \in Chunked!Range(paras)}
<1>1. DOMAIN paras = 1 .. Len(paras) /\ Placed(paras) /\ Flat(paras) \in Seq(A)
  BY LenProperties, Places, FlatAppend
<1>2. PICK top \in Nat : top = Len(Flat(paras)) BY <1>1, LenProperties
<1>3. \A h \in 1 .. Len(paras) : Len(paras[h]) \in Nat /\ Len(paras[h]) <= top
  <2>1. TAKE h \in 1 .. Len(paras)
  <2>2. PICK o : Place(paras, h, o) BY <1>1 DEF Placed
  <2>3. o \in Nat /\ o + Len(paras[h]) <= top BY <1>2, <2>2 DEF Place
  <2>4. paras[h] \in Seq(A) BY ElementOfSeq
  <2>5. Len(paras[h]) \in Nat BY <2>4, LenProperties
  <2>. QED BY <2>3, <2>5
<1>4. ASSUME NEW p \in Chunked!Range(paras), NEW x \in Chunked!Spans(p)
      PROVE  x[2] - x[1] + 1 \in 0 .. top
  <2>1. PICK h \in 1 .. Len(paras) : p = paras[h] BY <1>1 DEF Chunked!Range
  <2>2. Len(p) \in Nat /\ Len(p) <= top BY <1>3, <2>1
  <2>3. x[1] \in 1 .. Len(p) /\ x[2] \in 1 .. Len(p) /\ x[1] <= x[2] BY DEF Chunked!Spans
  <2>. QED BY <2>2, <2>3
<1>5. sizes \subseteq 0 .. top BY <1>4
<1>6. sizes \subseteq Nat /\ IsFiniteSet(sizes) /\ sizes # {}
  <2>1. IsFiniteSet(0 .. top) BY FS_Interval
  <2>2. IsFiniteSet(sizes) BY <1>5, <2>1, FS_Subset
  <2>3. 0 .. top \subseteq Nat /\ 0 \in sizes OBVIOUS
  <2>. QED BY <1>5, <2>2, <2>3
<1>7. Chunked!Longest(paras) = CHOOSE n \in sizes : \A m \in sizes : m <= n
  BY DEF Chunked!Longest
<1> HIDE DEF sizes
<1>8. \E n \in sizes : \A m \in sizes : m <= n
  <2>1. PICK n \in sizes : \A m \in sizes : n >= m BY <1>6, Largest
  <2>. QED BY <1>6, <2>1
<1>9. PICK long : long = Chunked!Longest(paras) OBVIOUS
<1>10. long \in sizes /\ \A m \in sizes : m <= long BY <1>7, <1>8, <1>9
<1>11. ASSUME NEW h \in 1 .. Len(paras), NEW a \in 1 .. Len(paras[h]), NEW b \in 1 .. Len(paras[h]),
              a <= b, NoStart(paras[h], a + 1, b)
       PROVE  (b - a) + 1 <= long
  <2>1. PICK x : x = <<a, b>> OBVIOUS
  <2>2. x \in Chunked!Spans(paras[h]) BY <1>11, <2>1 DEF Chunked!Spans, NoStart
  <2>3. paras[h] \in Chunked!Range(paras) BY <1>1 DEF Chunked!Range
  <2>4. x[2] - x[1] + 1 \in sizes BY <2>2, <2>3 DEF sizes
  <2>. QED BY <1>10, <2>1, <2>4
<1>12. \A h \in 1 .. Len(paras) : Fits(paras[h], long) BY <1>11 DEF Fits
<1>. QED BY <1>6, <1>9, <1>10, <1>12

\* Windows of paragraphs: every word is whole in one, none is beyond its size, and
\* without overlap they are the paragraphs.
WindowsOf(A, paras, overlap, max, ws) ==
  /\ ws \in Seq(Seq(Seq(A)))
  /\ Chunked!KeepsWords(paras, ws) /\ Chunked!Bounded(paras, ws, overlap, max)
  /\ overlap = 0 =>
       /\ Flat(Flats(ws)) = Flat(paras)
       /\ \A i \in 1 .. Len(ws) : \A j \in 1 .. Len(ws[i]) :
            \E h \in 1 .. Len(paras) : \E a : At(ws[i][j], paras[h], a)

\* _pack_paragraphs keeps every word, within the size of a window.
LEMMA PackedDivides ==
  ASSUME NEW A, Chunked!Blank \in A, NEW paras \in Seq(Seq(A)),
         NEW target \in Nat, NEW overlap \in Nat, NEW max \in Nat, target <= max,
         \A h \in 1 .. Len(paras) : ~ Echoes(paras[h], target)
  PROVE  WindowsOf(A, paras, overlap, max, Chunked!Packed(paras, target, overlap, max))
<1>1. Len(paras) \in Nat /\ DOMAIN paras = 1 .. Len(paras) BY LenProperties
<1>20. PICK long, big, size :
         /\ long = Chunked!Longest(paras)
         /\ big = IF overlap + long > max THEN overlap + long ELSE max
         /\ size = big + Slack(overlap)
  BY Zenon
<1>21. long \in Nat /\ \A h \in 1 .. Len(paras) : Fits(paras[h], long) BY <1>20, LongestIs
<1>22. Slack(overlap) \in Nat BY DEF Slack
<1>23. big \in Nat /\ max <= big /\ overlap + long <= big /\ size \in Nat /\ big <= size
  BY <1>20, <1>21, <1>22
<1>24. target <= size BY <1>23
<1>2. PICK pp : pp = PiecesOf(paras, target, overlap, max) OBVIOUS
<1>3. \A h \in 1 .. Len(paras) :
        pp[h] \in Seq(Seq(A)) /\ Divides(pp[h], paras[h], overlap, big) /\ paras[h] \in Seq(A)
  <2>1. TAKE h \in 1 .. Len(paras)
  <2>2. paras[h] \in Seq(A) BY ElementOfSeq
  <2>3. pp[h] = Chunked!Pieces(paras[h], target, overlap, max) BY <1>1, <1>2 DEF PiecesOf
  <2>4. /\ paras[h] \in Seq(A) /\ target \in Nat /\ overlap \in Nat /\ max \in Nat /\ big \in Nat
        /\ long \in Nat /\ target <= max /\ max <= big /\ overlap + long <= big
        /\ Fits(paras[h], long) /\ ~ Echoes(paras[h], target)
    BY <1>21, <1>23, <2>2
  <2>5. LET ps == Chunked!Pieces(paras[h], target, overlap, max)
        IN  ps \in Seq(Seq(A)) /\ Divides(ps, paras[h], overlap, big)
    BY ONLY <2>4, PiecesHold, Zenon
  <2>. QED BY <2>2, <2>3, <2>5
<1>4. pp \in Seq(Seq(Seq(A))) /\ Len(pp) = Len(paras)
  <2>1. DOMAIN pp = 1 .. Len(paras) BY <1>1, <1>2 DEF PiecesOf
  <2>2. pp = [h \in 1 .. Len(paras) |-> pp[h]] BY <1>1, <1>2 DEF PiecesOf
  <2>3. pp \in [1 .. Len(paras) -> Seq(Seq(A))] BY <1>3, <2>2
  <2>4. PICK B : B = Seq(Seq(A)) OBVIOUS
  <2>5. PICK n \in Nat : n = Len(paras) BY <1>1
  <2>6. pp \in [1 .. n -> B] BY <2>3, <2>4, <2>5
  <2>7. pp \in Seq(B) BY ONLY <2>6, SeqDef
  <2>8. Len(pp) = n
    <3>1. Len(pp) \in Nat /\ DOMAIN pp = 1 .. Len(pp) BY ONLY <2>7, LenProperties
    <3>2. DOMAIN pp = 1 .. n BY <2>1, <2>5
    <3>3. \A k : k \in 1 .. n <=> k \in 1 .. Len(pp) BY ONLY <3>1, <3>2
    <3>4. ASSUME n < Len(pp) PROVE FALSE
      BY ONLY <3>1, <3>3, <3>4, <2>5, n \in Nat, Len(pp) \in 1 .. Len(pp), ~ (Len(pp) \in 1 .. n)
    <3>5. ASSUME Len(pp) < n PROVE FALSE
      BY ONLY <3>1, <3>3, <3>5, n \in Nat, n \in 1 .. n, ~ (n \in 1 .. Len(pp))
    <3>6. n \in Nat /\ Len(pp) \in Nat BY ONLY <2>5, <3>1
    <3>7. ~ (n < Len(pp)) /\ ~ (Len(pp) < n) BY ONLY <3>4, <3>5
    <3>. QED BY ONLY <3>6, <3>7
  <2>. QED BY <2>4, <2>5, <2>7, <2>8
<1>5. PICK pieces : pieces = Flat(pp) OBVIOUS
<1>6. pieces \in Seq(Seq(A)) /\ Placed(pp) BY <1>4, <1>5, FlatAppend, Places
<1>7. ASSUME NEW h \in 1 .. Len(paras), NEW m \in 1 .. Len(pp[h])
      PROVE  \E k \in 1 .. Len(pieces) : pieces[k] = pp[h][m]
  <2>1. PICK o : Place(pp, h, o) BY <1>4, <1>6 DEF Placed
  <2>2. o \in Nat /\ o + Len(pp[h]) <= Len(pieces) /\ pieces[o + m] = pp[h][m]
    BY <1>5, <2>1 DEF Place
  <2>3. Len(pp[h]) \in Nat /\ Len(pieces) \in Nat BY <1>3, <1>6, LenProperties
  <2>4. o + m \in 1 .. Len(pieces) BY <2>2, <2>3
  <2>. QED BY <2>2, <2>4
<1>8. ASSUME NEW k \in 1 .. Len(pieces)
      PROVE  \E h \in 1 .. Len(paras) : \E m \in 1 .. Len(pp[h]) : pieces[k] = pp[h][m]
  <2>1. PICK h, o : Place(pp, h, o) /\ o < k /\ k <= o + Len(pp[h])
    BY <1>5, <1>6 DEF Placed
  <2>2. o \in Nat /\ h \in 1 .. Len(paras) /\ \A m \in 1 .. Len(pp[h]) : pieces[o + m] = pp[h][m]
    BY <1>4, <1>5, <2>1 DEF Place
  <2>3. Len(pp[h]) \in Nat /\ Len(pieces) \in Nat BY <1>3, <1>6, <2>2, LenProperties
  <2>4. k - o \in 1 .. Len(pp[h]) /\ o + (k - o) = k BY <2>1, <2>2, <2>3
  <2>5. pieces[o + (k - o)] = pp[h][k - o] BY <2>2, <2>4
  <2>6. pieces[k] = pp[h][k - o] BY <2>4, <2>5
  <2>. QED BY <2>2, <2>4, <2>6
<1>9. \A k \in 1 .. Len(pieces) : Len(pieces[k]) + Slack(overlap) <= size
  <2>1. TAKE k \in 1 .. Len(pieces)
  <2>2. PICK h \in 1 .. Len(paras) : \E m \in 1 .. Len(pp[h]) : pieces[k] = pp[h][m] BY <1>8
  <2>3. PICK m \in 1 .. Len(pp[h]) : pieces[k] = pp[h][m] BY <2>2
  <2>4. Len(pp[h][m]) <= big BY <1>3 DEF Divides, RunsOf
  <2>5. pieces[k] \in Seq(A) BY <1>6, ElementOfSeq
  <2>6. Len(pieces[k]) \in Nat /\ Len(pieces[k]) <= big BY <2>3, <2>4, <2>5, LenProperties
  <2>. QED BY ONLY <1>20, <1>22, <1>23, <2>6
<1>10. PICK ws : ws = Chunked!Packed(paras, target, overlap, max) OBVIOUS
<1>11. /\ ws \in Seq(Seq(Seq(A)))
       /\ \A i \in 1 .. Len(ws) : Wide(ws[i]) <= size
       /\ \A k \in 1 .. Len(pieces) :
            \E i \in 1 .. Len(ws) : \E j \in 1 .. Len(ws[i]) : ws[i][j] = pieces[k]
       /\ overlap = 0 => Flat(ws) = pieces
  <2>1. /\ Chunked!Blank \in A /\ target \in Nat /\ overlap \in Nat /\ size \in Nat /\ target <= size
        /\ pieces \in Seq(Seq(A)) /\ pieces = Flat(PiecesOf(paras, target, overlap, max))
        /\ \A n \in 1 .. Len(pieces) : Len(pieces[n]) + Slack(overlap) <= size
    BY <1>2, <1>5, <1>6, <1>9, <1>23, <1>24
  <2>2. PackedWell(A, pieces, overlap, size, Chunked!Packed(paras, target, overlap, max))
    BY ONLY <2>1, PackedHolds, Zenon
  <2>3. PackedWell(A, pieces, overlap, size, ws) BY ONLY <1>10, <2>2
  <2>. QED BY <2>3 DEF PackedWell
<1>12. Chunked!KeepsWords(paras, ws)
  <2>1. SUFFICES ASSUME NEW p \in Chunked!Range(paras), NEW x \in Chunked!Spans(p)
                 PROVE  \E c \in Chunked!Range(ws) : \E r \in Chunked!Range(c) : Chunked!Within(p, x, r)
    BY DEF Chunked!KeepsWords
  <2>2. PICK h \in 1 .. Len(paras) : p = paras[h] BY <1>1 DEF Chunked!Range
  <2>3. PICK k, l : k = x[1] /\ l = x[2] BY Zenon
  <2>4. k \in 1 .. Len(p) /\ l \in 1 .. Len(p) /\ k <= l /\ NoStart(p, k + 1, l)
    BY <2>3 DEF Chunked!Spans, NoStart
  <2>5. Holds(pp[h], p, k, l) BY <1>3, <2>2, <2>4 DEF Divides, Covers
  <2>6. PICK m \in 1 .. Len(pp[h]) : \E a : At(pp[h][m], p, a) /\ a < k /\ l <= a + Len(pp[h][m])
    BY <2>5 DEF Holds
  <2>7. PICK n \in 1 .. Len(pieces) : pieces[n] = pp[h][m] BY <1>7
  <2>8. PICK i \in 1 .. Len(ws) : \E j \in 1 .. Len(ws[i]) : ws[i][j] = pieces[n] BY <1>11
  <2>9. PICK j \in 1 .. Len(ws[i]) : ws[i][j] = pp[h][m] BY <2>7, <2>8
  <2>10. PICK r, a : r = ws[i][j] /\ At(r, p, a) /\ a < k /\ l <= a + Len(r) BY <2>6, <2>9
  <2>11. ws[i] \in Seq(Seq(A)) BY <1>11, ElementOfSeq
  <2>12. r \in Seq(A) BY <2>10, <2>11, ElementOfSeq
  <2>13. p \in Seq(A) BY <1>3, <2>2
  <2>14. a \in 0 .. Len(p) - Len(r) /\ SubSeq(p, a + 1, a + Len(r)) = r BY <2>10, <2>12, <2>13, RunStarts
  <2>15. Chunked!Within(p, x, r) BY <2>3, <2>10, <2>14 DEF Chunked!Within
  <2>16. ws[i] \in Chunked!Range(ws) /\ r \in Chunked!Range(ws[i])
    <3>1. DOMAIN ws = 1 .. Len(ws) /\ DOMAIN ws[i] = 1 .. Len(ws[i]) BY <1>11, <2>11, LenProperties
    <3>. QED BY <2>10, <3>1 DEF Chunked!Range
  <2>. QED BY <2>15, <2>16
<1>120. Chunked!Bounded(paras, ws, overlap, max)
  <2>1. DOMAIN ws = 1 .. Len(ws) BY <1>11, LenProperties
  <2>2. \A c \in Chunked!Range(ws) : Chunked!TokenLen(c) <= size
    BY <1>11, <2>1 DEF Chunked!Range, Wide
  <2>3. size = big + IF overlap = 0 THEN 0 ELSE overlap + 1 BY <1>20 DEF Slack
  <2>. QED BY <1>20, <2>2, <2>3 DEF Chunked!Bounded
<1>13. ASSUME overlap = 0 PROVE Flat(Flats(ws)) = Flat(paras)
  <2>1. Flat(Flat(ws)) = Flat(Flats(ws)) BY <1>11, FlatFlat
  <2>2. Flat(Flat(pp)) = Flat(Flats(pp)) /\ Flats(pp) \in Seq(Seq(A)) /\ Len(Flats(pp)) = Len(paras)
    BY <1>4, FlatFlat
  <2>3. \A h \in 1 .. Len(paras) : Flats(pp)[h] = paras[h]
    <3>1. TAKE h \in 1 .. Len(paras)
    <3>2. Flat(pp[h]) = paras[h] BY <1>3, <1>13 DEF Divides
    <3>3. h \in DOMAIN pp BY <1>4, LenProperties
    <3>. QED BY <3>2, <3>3 DEF Flats
  <2>4. Flats(pp) = paras BY <2>2, <2>3, SeqEqual
  <2>. QED BY <1>5, <1>11, <1>13, <2>1, <2>2, <2>4
<1>14. ASSUME overlap = 0, NEW i \in 1 .. Len(ws), NEW j \in 1 .. Len(ws[i])
       PROVE  \E h \in 1 .. Len(paras) : \E a : At(ws[i][j], paras[h], a)
  <2>1. Flat(ws) = pieces /\ Placed(ws) BY <1>11, <1>14, Places
  <2>2. PICK o : Place(ws, i, o) BY <2>1 DEF Placed
  <2>3. o \in Nat /\ o + Len(ws[i]) <= Len(pieces) /\ pieces[o + j] = ws[i][j]
    BY <2>1, <2>2 DEF Place
  <2>4. ws[i] \in Seq(Seq(A)) BY <1>11, ElementOfSeq
  <2>5. Len(ws[i]) \in Nat /\ Len(pieces) \in Nat BY <1>6, <2>4, LenProperties
  <2>6. o + j \in 1 .. Len(pieces) BY <2>3, <2>5
  <2>7. PICK h \in 1 .. Len(paras) : \E m \in 1 .. Len(pp[h]) : pieces[o + j] = pp[h][m] BY <1>8, <2>6
  <2>8. PICK m \in 1 .. Len(pp[h]) : ws[i][j] = pp[h][m] BY <2>3, <2>7
  <2>9. \E a : At(pp[h][m], paras[h], a) BY <1>3 DEF Divides, RunsOf
  <2>. QED BY <2>8, <2>9
<1>15. WindowsOf(A, paras, overlap, max, ws) BY <1>11, <1>12, <1>120, <1>13, <1>14 DEF WindowsOf
<1>. QED BY ONLY <1>10, <1>15

-----------------------------------------------------------------------------
(* Legible texts                                                           *)

\* A text is legible when no paragraph has, one after the other, the same tokens
\* as far as a piece may go, for then the wrap could take the end of it for what
\* it has already written.
Legible ==
  /\ Texts \subseteq Seq(Seq(Nat))
  /\ ParentTarget \in Nat /\ ParentMax \in Nat /\ ParentTarget <= ParentMax
  /\ ChildTarget \in Nat /\ ChildMax \in Nat /\ ChildTarget <= ChildMax
  /\ ChildOverlap \in Nat
  /\ \A t \in Texts : \A h \in 1 .. Len(t) :
       ~ Echoes(t[h], ParentTarget) /\ ~ Echoes(t[h], ChildTarget)

\* NothingLost of a text and its sections.
KeptWhole(t, ss) ==
  LET sections == [i \in DOMAIN ss |-> ss[i].text]
  IN  /\ Chunked!Joined([i \in DOMAIN ss |-> Chunked!Joined(sections[i])]) = Chunked!Joined(t)
      /\ Chunked!KeepsWords(t, sections)
      /\ Chunked!Bounded(t, sections, 0, ParentMax)
      /\ \A i \in DOMAIN ss :
           /\ Chunked!KeepsWords(sections[i], ss[i].children)
           /\ Chunked!Bounded(sections[i], ss[i].children, ChildOverlap, ChildMax)

\* Chunking keeps a legible text.
LEMMA ChunksKeep ==
  ASSUME Legible, NEW t \in Texts
  PROVE  KeptWhole(t, Chunked!ChunkDocument(t))
<1>1. PICK secs : secs = Chunked!Packed(t, ParentTarget, 0, ParentMax) OBVIOUS
<1>2. PICK ss : ss = Chunked!ChunkDocument(t) OBVIOUS
<1>3. ss = [i \in DOMAIN secs |->
              [text |-> secs[i],
               children |-> Chunked!Packed(secs[i], ChildTarget, ChildOverlap, ChildMax)]]
  BY <1>1, <1>2 DEF Chunked!ChunkDocument
<1>4. t \in Seq(Seq(Nat)) /\ \A h \in 1 .. Len(t) : t[h] \in Seq(Nat)
  <2>1. t \in Seq(Seq(Nat)) BY DEF Legible
  <2>. QED BY <2>1, ElementOfSeq
<1>5. Chunked!Blank \in Nat BY DEF Chunked!Blank
<1>6. WindowsOf(Nat, t, 0, ParentMax, secs)
  <2>1. \A h \in 1 .. Len(t) : ~ Echoes(t[h], ParentTarget) BY DEF Legible
  <2>2. /\ Chunked!Blank \in Nat /\ t \in Seq(Seq(Nat))
        /\ ParentTarget \in Nat /\ 0 \in Nat /\ ParentMax \in Nat /\ ParentTarget <= ParentMax
        /\ \A h \in 1 .. Len(t) : ~ Echoes(t[h], ParentTarget)
    BY <1>4, <1>5, <2>1 DEF Legible
  <2>3. WindowsOf(Nat, t, 0, ParentMax, Chunked!Packed(t, ParentTarget, 0, ParentMax))
    BY ONLY <2>2, PackedDivides, Zenon
  <2>. QED BY ONLY <1>1, <2>3
<1>7. /\ secs \in Seq(Seq(Seq(Nat))) /\ Flat(Flats(secs)) = Flat(t)
      /\ \A i \in 1 .. Len(secs) : \A j \in 1 .. Len(secs[i]) :
           \E h \in 1 .. Len(t) : \E a : At(secs[i][j], t[h], a)
      /\ Chunked!KeepsWords(t, secs) /\ Chunked!Bounded(t, secs, 0, ParentMax)
  BY <1>6 DEF WindowsOf
<1>8. DOMAIN secs = 1 .. Len(secs) BY <1>7, LenProperties
<1>9. [i \in DOMAIN ss |-> ss[i].text] = secs
  <2>1. DOMAIN ss = DOMAIN secs /\ \A i \in DOMAIN secs : ss[i].text = secs[i] BY <1>3
  <2>2. PICK n : n = Len(secs) OBVIOUS
  <2>3. secs = [i \in 1 .. n |-> secs[i]]
    <3>1. secs \in [1 .. n -> Seq(Seq(Nat))]
      <4>1. PICK B : B = Seq(Seq(Nat)) OBVIOUS
      <4>2. secs \in [1 .. Len(secs) -> B] BY <1>7, <4>1, LenProperties
      <4>. QED BY <2>2, <4>1, <4>2
    <3>. QED BY <3>1
  <2>. QED BY <1>8, <2>1, <2>2, <2>3
<1>10. Chunked!Joined([i \in DOMAIN ss |-> Chunked!Joined(secs[i])]) = Chunked!Joined(t)
  <2>1. [i \in DOMAIN ss |-> Chunked!Joined(secs[i])] = Flats(secs)
    <3>1. DOMAIN ss = DOMAIN secs BY <1>3
    <3>. QED BY <3>1 DEF Flats, Flat, Chunked!Joined
  <2>2. Chunked!Joined(Flats(secs)) = Flat(Flats(secs)) /\ Chunked!Joined(t) = Flat(t)
    BY DEF Flat, Chunked!Joined
  <2>. QED BY <1>7, <2>1, <2>2
<1>11. ASSUME NEW i \in DOMAIN ss
       PROVE  /\ Chunked!KeepsWords(secs[i], ss[i].children)
              /\ Chunked!Bounded(secs[i], ss[i].children, ChildOverlap, ChildMax)
  <2>1. PICK s, ws : /\ s = secs[i]
                     /\ ws = Chunked!Packed(s, ChildTarget, ChildOverlap, ChildMax)
    OBVIOUS
  <2>2. i \in 1 .. Len(secs) /\ ss[i].children = ws BY <1>3, <1>8, <2>1
  <2>3. s \in Seq(Seq(Nat)) BY <1>7, <2>1, <2>2, ElementOfSeq
  <2>4. \A j \in 1 .. Len(s) : ~ Echoes(s[j], ChildTarget)
    <3>1. TAKE j \in 1 .. Len(s)
    <3>2. PICK h \in 1 .. Len(t) : \E a : At(s[j], t[h], a) BY <1>7, <2>1, <2>2
    <3>3. s[j] \in Seq(Nat) BY <2>3, ElementOfSeq
    <3>4. Echoes(s[j], ChildTarget) => Echoes(t[h], ChildTarget)
      BY <1>4, <3>2, <3>3, RunOfRun DEF Legible
    <3>5. ~ Echoes(t[h], ChildTarget) BY DEF Legible
    <3>. QED BY <3>4, <3>5
  <2>5. /\ Chunked!Blank \in Nat /\ s \in Seq(Seq(Nat))
        /\ ChildTarget \in Nat /\ ChildOverlap \in Nat /\ ChildMax \in Nat /\ ChildTarget <= ChildMax
        /\ \A j \in 1 .. Len(s) : ~ Echoes(s[j], ChildTarget)
    BY <1>5, <2>3, <2>4 DEF Legible
  <2>6. WindowsOf(Nat, s, ChildOverlap, ChildMax, Chunked!Packed(s, ChildTarget, ChildOverlap, ChildMax))
    BY ONLY <2>5, PackedDivides, Zenon
  <2>7. WindowsOf(Nat, s, ChildOverlap, ChildMax, ws) BY ONLY <2>1, <2>6
  <2>. QED BY <2>1, <2>2, <2>7 DEF WindowsOf
<1>12. KeptWhole(t, ss)
  <2>1. PICK f : f = [i \in DOMAIN ss |-> ss[i].text] OBVIOUS
  <2>2. f = secs BY ONLY <1>9, <2>1
  <2>. QED BY <1>7, <1>9, <1>10, <1>11 DEF KeptWhole
<1>. QED BY ONLY <1>2, <1>12

\* What is in the index is chunked text.
ChunkInv == part = "chunks" => text = <<>> \/ (text \in Texts /\ parents = Chunked!ChunkDocument(text))

\* A search of any text finds every word of it: chunk_document keeps each word of
\* a section whole in a child of it, the sections are the text, and only a word
\* that is too long by itself makes a window grow.
THEOREM NothingIsLost == Legible => (ReadsSpec => []NothingLost)
<1> SUFFICES ASSUME Legible PROVE ReadsSpec => []NothingLost
  OBVIOUS
<1>1. ReadsInit => ChunkInv BY DEF ReadsInit, ChunkInv, Chunked!Init
<1>2. ChunkInv /\ [ReadsNext]_readsVars => ChunkInv'
  <2>1. SUFFICES ASSUME ChunkInv, [ReadsNext]_readsVars, part' = "chunks"
                 PROVE  text' = <<>> \/ (text' \in Texts /\ parents' = Chunked!ChunkDocument(text'))
    BY DEF ChunkInv
  <2>2. CASE part = "chunks" /\ Chunked!Next
    BY <2>2 DEF Chunked!Next, Chunked!Chunk
  <2>3. CASE part # "chunks" /\ ReadsNext
    BY <2>1, <2>3 DEF ReadsNext
  <2>4. CASE UNCHANGED readsVars
    BY <2>1, <2>4 DEF ChunkInv, readsVars, chunksVars
  <2>. QED BY <2>1, <2>2, <2>3, <2>4 DEF ReadsNext
<1>3. ChunkInv => NothingLost
  <2>1. SUFFICES ASSUME ChunkInv, part = "chunks", text # <<>> PROVE Chunked!NothingLost
    BY DEF NothingLost, Chunked!NothingLost
  <2>2. text \in Texts /\ parents = Chunked!ChunkDocument(text) BY <2>1 DEF ChunkInv
  <2>3. KeptWhole(text, parents) BY <2>2, ChunksKeep
  <2>. QED BY <2>3 DEF KeptWhole, Chunked!NothingLost
<1>. QED BY <1>1, <1>2, <1>3, PTL DEF ReadsSpec

-----------------------------------------------------------------------------
(* The parts of the read side                                              *)

EdgeProofs == INSTANCE Paths_proofs WITH
  Exclusive <- ExclusiveTypes, Docs <- Sources,
  Limits <- EdgeLimits, MaxRows <- EdgeRows
WalkProofs == INSTANCE Paths_proofs WITH
  Exclusive <- ExclusiveTypes, Docs <- Sources,
  Writers <- Walkers, Limits <- WalkLimits, MaxRows <- WalkRows

\* The edges of the read side are those the proofs are about.
LEMMA EdgesInit == Edges!Init => EdgeProofs!Init
<1>1. EdgeProofs!Ids = Edges!Ids BY DEF EdgeProofs!Ids, Edges!Ids
<1>2. EdgeProofs!NoRow = Edges!NoRow BY DEF EdgeProofs!NoRow, Edges!NoRow
<1>3. EdgeProofs!Off = Edges!Off BY <1>2 DEF EdgeProofs!Off, Edges!Off
<1>. QED BY <1>1, <1>2, <1>3 DEF Edges!Init, EdgeProofs!Init

LEMMA EdgesNext == Edges!Next => EdgeProofs!Next
BY DEF Edges!Next, Edges!Add, Edges!Close, Edges!Commit, Edges!Check, Edges!Abort,
       Edges!Find, Edges!Resolve, Edges!Delete, Edges!Ids, Edges!NoRow, Edges!Off,
       Edges!From, Edges!To, Edges!Type, Edges!Slot, Edges!Locked, Edges!InSlot,
       Edges!View, Edges!Stronger, Edges!Closed, Edges!Touched, Edges!Targets,
       Edges!Contested, Edges!Min, Edges!Max, Edges!Cardinality, Edges!IsFiniteSet,
       EdgeProofs!Next, EdgeProofs!Add, EdgeProofs!Close, EdgeProofs!Commit,
       EdgeProofs!Check, EdgeProofs!Abort, EdgeProofs!Find, EdgeProofs!Resolve,
       EdgeProofs!Delete, EdgeProofs!Ids, EdgeProofs!NoRow, EdgeProofs!Off,
       EdgeProofs!From, EdgeProofs!To, EdgeProofs!Type, EdgeProofs!Slot, EdgeProofs!Locked,
       EdgeProofs!InSlot, EdgeProofs!View, EdgeProofs!Stronger, EdgeProofs!Closed,
       EdgeProofs!Touched, EdgeProofs!Targets, EdgeProofs!Contested, EdgeProofs!Min,
       EdgeProofs!Max, EdgeProofs!Cardinality, EdgeProofs!IsFiniteSet

LEMMA WalksInit == Walked!Init => WalkProofs!Init
<1>1. WalkProofs!Ids = Walked!Ids BY DEF WalkProofs!Ids, Walked!Ids
<1>2. WalkProofs!NoRow = Walked!NoRow BY DEF WalkProofs!NoRow, Walked!NoRow
<1>3. WalkProofs!Off = Walked!Off BY <1>2 DEF WalkProofs!Off, Walked!Off
<1>. QED BY <1>1, <1>2, <1>3 DEF Walked!Init, WalkProofs!Init

LEMMA WalksNext == Walked!Next => WalkProofs!Next
BY DEF Walked!Next, Walked!Add, Walked!Close, Walked!Commit, Walked!Check, Walked!Abort,
       Walked!Find, Walked!Resolve, Walked!Delete, Walked!Ids, Walked!NoRow, Walked!Off,
       Walked!From, Walked!To, Walked!Type, Walked!Slot, Walked!Locked, Walked!InSlot,
       Walked!View, Walked!Stronger, Walked!Closed, Walked!Touched, Walked!Targets,
       Walked!Contested, Walked!Min, Walked!Max, Walked!Cardinality, Walked!IsFiniteSet,
       WalkProofs!Next, WalkProofs!Add, WalkProofs!Close, WalkProofs!Commit,
       WalkProofs!Check, WalkProofs!Abort, WalkProofs!Find, WalkProofs!Resolve,
       WalkProofs!Delete, WalkProofs!Ids, WalkProofs!NoRow, WalkProofs!Off,
       WalkProofs!From, WalkProofs!To, WalkProofs!Type, WalkProofs!Slot, WalkProofs!Locked,
       WalkProofs!InSlot, WalkProofs!View, WalkProofs!Stronger, WalkProofs!Closed,
       WalkProofs!Touched, WalkProofs!Targets, WalkProofs!Contested, WalkProofs!Min,
       WalkProofs!Max, WalkProofs!Cardinality, WalkProofs!IsFiniteSet

\* So are the walks, their answers and what they should have found.
LEMMA WalksSame == WalkProofs!PathsHonest => Walked!PathsHonest
<1>. SUFFICES
       ASSUME WalkProofs!PathsHonest,
              NEW s \in Walked!Nodes, NEW d \in 1 .. 3, NEW n \in WalkLimits,
              NEW a \in Walked!PathsFrom(s, d, n)
       PROVE  LET ends == {s} \cup {Walked!To(rel[Walked!Last(p)].link) : p \in a.paths}
              IN  /\ \A p \in a.paths : \A k \in DOMAIN p : Walked!MayWalk(p[k])
                  /\ ~a.truncated => ends = Walked!Reached(s, d)
                  /\ a.truncated =>
                       /\ Walked!Cardinality(a.paths) = n
                       /\ \A p \in a.paths : Walked!Reached(s, Len(p) - 1) \subseteq ends
  BY DEF Walked!PathsHonest
<1>1. \A x, y : WalkProofs!Walk(x, y) = Walked!Walk(x, y)
  BY DEF Walked!Walk, Walked!Step, Walked!First, Walked!MayExtend, Walked!MayWalk,
         Walked!Last, Walked!From, Walked!To, Walked!Ids, Walked!NodesOf, WalkProofs!Walk,
         WalkProofs!Step, WalkProofs!First, WalkProofs!MayExtend, WalkProofs!MayWalk,
         WalkProofs!Last, WalkProofs!From, WalkProofs!To, WalkProofs!Ids,
         WalkProofs!NodesOf
<1>2. \A x, y : WalkProofs!Reached(x, y) = Walked!Reached(x, y)
  BY DEF Walked!Reached, Walked!MayWalk, Walked!From, Walked!To, Walked!Ids,
         WalkProofs!Reached, WalkProofs!MayWalk, WalkProofs!From, WalkProofs!To,
         WalkProofs!Ids
<1>3. \A R, k : WalkProofs!Prefixes(R, k) = Walked!Prefixes(R, k)
  BY DEF Walked!Prefixes, Walked!Before, Walked!Last, Walked!Min, Walked!Cardinality,
         Walked!IsFiniteSet, WalkProofs!Prefixes, WalkProofs!Before, WalkProofs!Last,
         WalkProofs!Min, WalkProofs!Cardinality, WalkProofs!IsFiniteSet
<1>4. a \in WalkProofs!PathsFrom(s, d, n)
  BY <1>1, <1>3 DEF Walked!PathsFrom, Walked!Min, Walked!Cardinality, WalkProofs!PathsFrom,
         WalkProofs!Min, WalkProofs!Cardinality
<1>5. s \in WalkProofs!Nodes
  BY DEF Walked!Nodes, Walked!From, Walked!To, WalkProofs!Nodes, WalkProofs!From,
         WalkProofs!To
<1>6. LET ends == {s} \cup {WalkProofs!To(rel[WalkProofs!Last(p)].link) : p \in a.paths}
      IN  /\ \A p \in a.paths : \A k \in DOMAIN p : WalkProofs!MayWalk(p[k])
          /\ ~a.truncated => ends = WalkProofs!Reached(s, d)
          /\ a.truncated =>
               /\ WalkProofs!Cardinality(a.paths) = n
               /\ \A p \in a.paths : WalkProofs!Reached(s, Len(p) - 1) \subseteq ends
  BY <1>4, <1>5 DEF WalkProofs!PathsHonest
<1>. QED
  BY <1>2, <1>6 DEF Walked!MayWalk, Walked!To, Walked!Last, Walked!Cardinality, WalkProofs!MayWalk,
         WalkProofs!To, WalkProofs!Last, WalkProofs!Cardinality

\* The other parts leave the state of Recall alone.
THEOREM ReadsRecall == ReadsSpec => Spec
<1>1. ReadsInit => Init BY DEF ReadsInit
<1>2. [ReadsNext]_readsVars => [Next]_vars BY DEF ReadsNext, readsVars
<1>. QED BY <1>1, <1>2, PTL DEF ReadsSpec, Spec

\* A behaviour stays with the part it begins with.
LEMMA OnePart ==
  ASSUME NEW CONSTANT x
  PROVE  /\ part = x /\ [ReadsNext]_readsVars => (part = x)'
         /\ ~(part = x) /\ [ReadsNext]_readsVars => (~(part = x))'
BY DEF ReadsNext, readsVars

\* Whatever extractions overlap, two active targets of an exclusive edge have a
\* conflict job, or an extraction of one of them has still to count: on the read
\* side too, for any edges, documents, extractions and number of rows.
THEOREM EdgesNoticed ==
  <<>> \notin Links /\ EdgeRows \in Nat => (ReadsSpec => []OneTarget)
<1>. SUFFICES ASSUME <<>> \notin Links, EdgeRows \in Nat PROVE ReadsSpec => []OneTarget
  OBVIOUS
<1>1. EdgeProofs!Proper BY DEF EdgeProofs!Proper
<1>2. EdgeProofs!Spec => []EdgeProofs!OneTarget BY <1>1, EdgeProofs!TargetsNoticed
<1>3. ReadsInit /\ part = "edges" => EdgeProofs!Init BY EdgesInit DEF ReadsInit
<1>4. part = "edges" /\ [ReadsNext]_readsVars => [EdgeProofs!Next]_EdgeProofs!vars
  BY EdgesNext DEF ReadsNext, readsVars, edgesVars, EdgeProofs!vars
<1>5. EdgeProofs!OneTarget => OneTarget
  BY DEF OneTarget, Edges!OneTarget, Edges!Ids, Edges!From, Edges!To, Edges!Type, Edges!Slot,
         EdgeProofs!OneTarget, EdgeProofs!Ids, EdgeProofs!From, EdgeProofs!To,
         EdgeProofs!Type, EdgeProofs!Slot
<1>6. ~(part = "edges") => OneTarget BY DEF OneTarget
<1>7. /\ part = "edges" /\ [ReadsNext]_readsVars => (part = "edges")'
      /\ ~(part = "edges") /\ [ReadsNext]_readsVars => (~(part = "edges"))'
  BY OnePart
<1>. QED BY <1>2, <1>3, <1>4, <1>5, <1>6, <1>7, PTL DEF ReadsSpec, EdgeProofs!Spec

\* The paths of an answer lead over visible edges only; an answer that is not
\* cut leads to every node visible edges reach within the depth, and one that is
\* holds as many paths as the limit and misses no node nearer than they end: for
\* any edges, evidence, viewer and limits.
THEOREM WalksReachAll ==
  <<>> \notin Links /\ WalkRows \in Nat /\ WalkLimits \subseteq Nat => (ReadsSpec => []PathsHonest)
<1>. SUFFICES ASSUME <<>> \notin Links, WalkRows \in Nat, WalkLimits \subseteq Nat
              PROVE  ReadsSpec => []PathsHonest
  OBVIOUS
<1>1. WalkProofs!Proper BY DEF WalkProofs!Proper
<1>2. WalkProofs!Spec => []WalkProofs!PathsHonest BY <1>1, WalkProofs!WalksHonest
<1>3. ReadsInit /\ part = "paths" => WalkProofs!Init BY WalksInit DEF ReadsInit
<1>4. part = "paths" /\ [ReadsNext]_readsVars => [WalkProofs!Next]_WalkProofs!vars
  BY WalksNext DEF ReadsNext, readsVars, edgesVars, WalkProofs!vars
<1>5. WalkProofs!PathsHonest => PathsHonest BY WalksSame DEF PathsHonest
<1>6. ~(part = "paths") => PathsHonest BY DEF PathsHonest
<1>7. /\ part = "paths" /\ [ReadsNext]_readsVars => (part = "paths")'
      /\ ~(part = "paths") /\ [ReadsNext]_readsVars => (~(part = "paths"))'
  BY OnePart
<1>. QED BY <1>2, <1>3, <1>4, <1>5, <1>6, <1>7, PTL DEF ReadsSpec, WalkProofs!Spec

\* Fusion, decay, rerank, the section dedupe and the budget drop only what
\* matters less, for any rankings, scores, ages, sections, limits and budgets.
THEOREM BestAnswers == Rankable => (ReadsSpec => []BestKept)
<1>. SUFFICES ASSUME Rankable PROVE ReadsSpec => []BestKept OBVIOUS
<1>. DEFINE Inv == part = "search" => SearchInv
<1>1. ReadsInit => Inv BY SearchInit DEF ReadsInit
<1>2. Inv /\ [ReadsNext]_readsVars => Inv'
  <2>. SUFFICES ASSUME Inv, [ReadsNext]_readsVars, part' = "search" PROVE SearchInv' OBVIOUS
  <2>1. part = "search" /\ SearchInv BY DEF ReadsNext, readsVars
  <2>2. CASE UNCHANGED searchVars
    BY <2>1, <2>2 DEF searchVars, SearchInv, AreLists, IsList, Payloads
  <2>3. CASE Ranked!Next
    <3>1. CASE \E v, k \in Ranked!Rankings(Chunks \cap Visible),
                  f \in Ranked!Rankings(Facts \cap Visible), n \in Limits :
                 Ranked!Search(v, k, f, n)
      BY <2>1, <3>1, SearchKeeps
    <3>2. CASE \E mode \in {"graph_first", "joint", "vector_first"}, m \in Budgets,
                  g \in 0 .. 1 : Ranked!Pack(mode, m, g)
      BY <2>1, <3>2, PackKeeps
    <3>. QED BY <2>3, <3>1, <3>2 DEF Ranked!Next
  <2>. QED BY <2>1, <2>2, <2>3 DEF ReadsNext, readsVars
<1>3. Inv => BestKept
  <2>. SUFFICES ASSUME Inv, part = "search"
                PROVE  Ranked!BestKept /\ Ranked!PackedByPriority
    BY DEF BestKept
  <2>1. Ranked!BestKept
    <3>1. CASE limit = 0 BY <3>1 DEF Ranked!BestKept
    <3>2. CASE limit # 0
      <4>1. PICK f \in Ranked!Finals(lists, limit) : response = Ranked!Response(lists, f)
        BY <3>2 DEF SearchInv
      <4>2. AreLists(lists) /\ limit \in Limits BY <3>2 DEF SearchInv
      <4>. QED BY <4>1, <4>2, AnswerHonest
    <3>. QED BY <3>1, <3>2
  <2>2. Ranked!PackedByPriority
    <3>1. CASE packed = Ranked!NotPacked BY <3>1 DEF Ranked!PackedByPriority
    <3>2. CASE packed # Ranked!NotPacked
      <4>1. PICK p \in Payloads, m \in Budgets, mode \in {"graph_first", "joint", "vector_first"} :
              packed = [mode |-> mode, budget |-> m, before |-> p,
                        after |-> Ranked!Trimmed(p, m, mode)]
        BY <3>2 DEF SearchInv
      <4>. QED BY <4>1, TrimmedByPriority
    <3>. QED BY <3>1, <3>2
  <2>. QED BY <2>1, <2>2
<1>. QED BY <1>1, <1>2, <1>3, PTL DEF ReadsSpec
=============================================================================
