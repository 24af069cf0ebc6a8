----------------------------- MODULE Paths_proofs -----------------------------
(***************************************************************************)
(* Proofs about the relationship rows of Paths, for any edges, documents   *)
(* and extractions, and any number of rows.                                *)
(***************************************************************************)
EXTENDS Paths, FiniteSetTheorems, SequenceTheorems, WellFoundedInduction, TLAPS

-----------------------------------------------------------------------------
(* The inductive invariant                                                 *)

Row == [link : Links \cup {<<>>}, status : {"absent", "active", "superseded", "retracted"},
        ev : SUBSET Docs]
Versions == UNION {[D -> Row] : D \in SUBSET Ids}
Extraction ==
  [pc : {"off", "add", "close", "commit", "check"}, link : Links \cup {<<>>},
   doc : Docs \cup {0}, id : Ids \cup {0}, base : Row, rows : Versions, slot : SUBSET Ids]

Types == rel \in [Ids -> Row] /\ write \in [Writers -> Extraction]

\* Row i of the table is one of an edge unless it is free, an active row has
\* evidence, and a row that was retracted has none.
RowOK(i) ==
  /\ rel[i] = NoRow \/ (rel[i].link \in Links /\ rel[i].status # "absent")
  /\ rel[i].status = "active" => rel[i].ev # {}
  /\ rel[i].status = "retracted" => rel[i].ev = {}

\* Documents whose extraction has committed and has still to count.
Counting == {write[w].doc : w \in {v \in Writers : write[v].pc = "check"}}

\* Two active rows of one exclusive slot that lead to two targets.
Rival(r, q) ==
  /\ r.status = "active" /\ q.status = "active"
  /\ Slot(r.link) = Slot(q.link) /\ Type(r.link) \in Exclusive /\ To(r.link) # To(q.link)

\* Every committed rival of row k as w has it is one that w will close, or is
\* known to the job of the slot, or will be when those have counted who wrote it.
Seen(w, k) ==
  \A i \in Ids \ DOMAIN write[w].rows : Rival(rel[i], write[w].rows[k]) =>
    \/ i \in write[w].slot \/ Slot(write[w].link) \in jobs \/ rel[i].ev \subseteq Counting

\* A version w has of row k: closed, or active and either locked and not changed,
\* or an edge that nobody else has stated, or a merge into an active row.
VersionOK(w, k) ==
  LET r == write[w].rows[k] IN
  /\ r.link \in Links /\ Slot(r.link) = Slot(write[w].link)
  /\ rel[k] = NoRow \/ rel[k].link = r.link
  /\ \/ r.status = "superseded"
     \/ /\ r.status = "active" /\ r.ev # {}
        /\ \/ r = rel[k]
           \/ r.ev = {write[w].doc}
           \/ rel[k].status = "active" /\ Seen(w, k)

\* What w found, when it has not written yet.
FoundOK(w) ==
  LET x == write[w] IN
  x.id # 0 =>
    /\ rel[x.id].link = x.link
    /\ x.base.status = "active" => rel[x.id].status \in {"active", "superseded"}
    /\ x.base.status # "active" => x.base.ev = {}

WorkOK(w) ==
  LET x == write[w] IN
  /\ x.pc \in {"off", "add", "check"} => DOMAIN x.rows = {}
  /\ x.pc # "close" => x.slot = {}
  /\ x.pc # "off" => x.doc \in Docs
  /\ x.pc \in {"add", "close", "commit"} => x.link \in Links
  /\ x.pc = "add" => FoundOK(w)
  /\ \A k \in DOMAIN x.rows : VersionOK(w, k)
  /\ x.pc = "close" => \A k \in DOMAIN x.rows : x.rows[k].status = "active" => k \in x.slot
  /\ x.pc = "commit" => \A i, k \in DOMAIN x.rows : ~Rival(x.rows[i], x.rows[k])

\* A row has one writer.
LocksOK == \A u, w \in Writers : u # w => DOMAIN write[u].rows \cap DOMAIN write[w].rows = {}

\* Of two extractions that merge into rivals, one will close the other's row.
Merges(w, k) ==
  /\ k \in DOMAIN write[w].rows /\ write[w].rows[k].status = "active"
  /\ rel[k].status = "active" /\ write[w].rows[k] # rel[k]
OrderOK ==
  \A u, w \in Writers, i, k \in Ids :
    u # w /\ Merges(u, i) /\ Merges(w, k) /\ Rival(write[u].rows[i], write[w].rows[k])
      => k \in write[u].slot \/ i \in write[w].slot

\* Two targets are known to the job of the slot, or will be.
PairsOK ==
  \A i, j \in Ids : Rival(rel[i], rel[j]) =>
    Slot(rel[i].link) \in jobs \/ rel[i].ev \subseteq Counting \/ rel[j].ev \subseteq Counting

IInv ==
  /\ Types /\ (\A i \in Ids : RowOK(i)) /\ (\A w \in Writers : WorkOK(w))
  /\ LocksOK /\ OrderOK /\ PairsOK

\* What the constants stand for: an edge is never the blank of a free row.
Proper == <<>> \notin Links /\ MaxRows \in Nat

-----------------------------------------------------------------------------
(* Rows, versions and sets                                                 *)

\* A set of natural numbers has a least element: the first free row is one.
LEMMA NatMin ==
  ASSUME NEW S, S \subseteq Nat, S # {}
  PROVE  Min(S) \in S
<1>. DEFINE T == {1 .. k : k \in S}
<1>1. IsWellFoundedOn(StrictSubsetOrdering(Nat), FiniteSubsetsOf(Nat))
  BY FS_StrictSubsetOrderingWellFounded
<1>2. T \subseteq FiniteSubsetsOf(Nat) BY FS_Interval DEF FiniteSubsetsOf
<1>3. T # {} OBVIOUS
<1>. HIDE DEF T
<1>4. PICK x \in T : \A y \in T : ~ (<<y, x>> \in StrictSubsetOrdering(Nat))
  BY <1>1, <1>2, <1>3, WFMin
<1>5. PICK i \in S : x = 1 .. i BY DEF T
<1>6. ASSUME NEW j \in S, j < i PROVE FALSE
  <2>1. 1 .. j \in T BY DEF T
  <2>2. 1 .. j \subseteq 1 .. i BY <1>6
  <2>3. i \in 1 .. i /\ i \notin 1 .. j BY <1>6
  <2>4. <<1 .. j, x>> \in StrictSubsetOrdering(Nat)
    BY <2>2, <2>3, <1>5 DEF StrictSubsetOrdering
  <2>. QED BY <2>1, <2>4, <1>4
<1>7. \A y \in S : i =< y BY <1>6
<1>. QED BY <1>7 DEF Min

\* Two targets are counted as more than one.
LEMMA TwoTargets ==
  ASSUME Proper, NEW S, S \subseteq Ids, NEW i \in S, NEW j \in S,
         To(rel[i].link) # To(rel[j].link)
  PROVE  Cardinality({To(rel[k].link) : k \in S}) > 1
<1>. DEFINE T == {To(rel[k].link) : k \in S}
            a == To(rel[i].link)
            b == To(rel[j].link)
<1>0. IsFiniteSet(Ids) BY FS_Interval DEF Ids, Proper
<1>1. IsFiniteSet(S) BY <1>0, FS_Subset
<1>2. IsFiniteSet(T)
  <2>. DEFINE f == [k \in S |-> To(rel[k].link)]
  <2>1. f \in Surjection(S, T) BY DEF Surjection
  <2>. HIDE DEF f, T
  <2>. QED BY <1>1, <2>1, FS_Surjection
<1>3. a \in T /\ b \in T /\ a # b OBVIOUS
<1>. HIDE DEF T, a, b
<1>4. IsFiniteSet({a}) /\ Cardinality({a}) = 1 BY FS_Singleton
<1>5. {a, b} = {a} \cup {b} /\ b \notin {a} BY <1>3
<1>6. Cardinality({a} \cup {b}) = Cardinality({a}) + 1 BY <1>4, <1>5, FS_AddElement
<1>7. {a, b} \subseteq T BY <1>3
<1>8. Cardinality({a, b}) <= Cardinality(T) /\ Cardinality(T) \in Nat
  BY <1>2, <1>7, FS_Subset, FS_CardinalityType
<1>9. Cardinality({a, b}) = 2 BY <1>4, <1>5, <1>6
<1>10. Cardinality(T) > 1 BY <1>8, <1>9
<1>. QED BY <1>10 DEF T

LEMMA RowFields ==
  ASSUME NEW r \in Row
  PROVE  /\ r.link \in Links \cup {<<>>} /\ r.ev \subseteq Docs
         /\ r.status \in {"absent", "active", "superseded", "retracted"}
         /\ r = [link |-> r.link, status |-> r.status, ev |-> r.ev]
  BY DEF Row

LEMMA WorkFields ==
  ASSUME NEW x \in Extraction
  PROVE  /\ x.pc \in {"off", "add", "close", "commit", "check"}
         /\ x.link \in Links \cup {<<>>} /\ x.doc \in Docs \cup {0} /\ x.id \in Ids \cup {0}
         /\ x.base \in Row /\ x.slot \subseteq Ids
         /\ DOMAIN x.rows \subseteq Ids /\ \A k \in DOMAIN x.rows : x.rows[k] \in Row
<1>1. x.rows \in Versions /\ x.slot \in SUBSET Ids BY DEF Extraction
<1>2. PICK D \in SUBSET Ids : x.rows \in [D -> Row] BY <1>1 DEF Versions
<1>. QED BY <1>1, <1>2 DEF Extraction

LEMMA Blank == NoRow \in Row /\ <<>> \in Versions /\ DOMAIN <<>> = {} /\ Off \in Extraction
<1>1. NoRow \in Row BY DEF NoRow, Row
<1>2. <<>> \in [{} -> Row] OBVIOUS
<1>3. <<>> \in Versions BY <1>2 DEF Versions
<1>4. Off \in Extraction BY <1>1, <1>3 DEF Off, Extraction
<1>. QED BY <1>1, <1>3, <1>4

LEMMA OffFields ==
  /\ Off.pc = "off" /\ Off.slot = {} /\ DOMAIN Off.rows = {}
  /\ \A d : LET y == [[Off EXCEPT !.pc = "check"] EXCEPT !.doc = d] IN
       y.pc = "check" /\ y.doc = d /\ y.slot = {} /\ DOMAIN y.rows = {}
  BY DEF Off

\* A table with versions laid over it.
LEMMA ViewRow ==
  ASSUME NEW own, NEW k \in Ids
  PROVE  View(own)[k] = IF k \in DOMAIN own THEN own[k] ELSE rel[k]
  BY DEF View

\* What is left of a slot leads to one target; the rest is superseded.
LEMMA ClosedFacts ==
  ASSUME NEW rows, NEW S
  PROVE  /\ DOMAIN Closed(rows, S) = S
         /\ \E t : \A k \in S :
              \/ Closed(rows, S)[k] = rows[k] /\ To(rows[k].link) = t
              \/ Closed(rows, S)[k] = [rows[k] EXCEPT !.status = "superseded"]
<1>. DEFINE keep == CHOOSE i \in S : \A j \in S \ {i} : Stronger(rows, i, j)
            t == To(rows[keep].link)
<1>1. Closed(rows, S) = [i \in S |-> IF To(rows[i].link) = t THEN rows[i]
                                     ELSE [rows[i] EXCEPT !.status = "superseded"]]
  BY Zenon DEF Closed
<1>. HIDE DEF keep, t
<1>. QED BY <1>1

LEMMA SupersededRow ==
  ASSUME NEW r \in Row
  PROVE  LET q == [r EXCEPT !.status = "superseded"] IN
         q \in Row /\ q.link = r.link /\ q.ev = r.ev /\ q.status = "superseded"
  BY DEF Row

LEMMA SlotParts ==
  ASSUME NEW l, NEW m, Slot(l) = Slot(m)
  PROVE  From(l) = From(m) /\ Type(l) = Type(m)
  BY DEF Slot

\* Documents are counted by who is at the count.
LEMMA CountingIs == \A d : d \in Counting <=> \E w \in Writers : write[w].pc = "check" /\ write[w].doc = d
  BY DEF Counting

-----------------------------------------------------------------------------
(* Steps that commit nothing                                               *)

LEMMA RowsSame ==
  ASSUME rel' = rel, NEW i \in Ids, RowOK(i)
  PROVE  RowOK(i)'
  BY DEF RowOK

\* Who does not move keeps what holds of its work, as far as the rows it has
\* locked stay and what it has seen remains seen.
LEMMA WorkStays ==
  ASSUME Types, NEW u \in Writers, WorkOK(u), write'[u] = write[u],
         \A k \in DOMAIN write[u].rows : rel'[k] = rel[k],
         write[u].pc = "add" => FoundOK(u)',
         \A k \in Ids : Merges(u, k) /\ Seen(u, k) => Seen(u, k)'
  PROVE  WorkOK(u)'
<1>1. DOMAIN write[u].rows \subseteq Ids BY WorkFields DEF Types
<1>2. \A k \in DOMAIN write[u].rows : VersionOK(u, k)' 
  <2>. TAKE k \in DOMAIN write[u].rows
  <2>1. k \in Ids /\ VersionOK(u, k) /\ rel'[k] = rel[k] BY <1>1 DEF WorkOK
  <2>2. Merges(u, k) /\ Seen(u, k) => Seen(u, k)' BY <2>1
  <2>. QED BY <2>1, <2>2 DEF VersionOK, Merges
<1>. QED BY <1>2 DEF WorkOK

\* A step of w that changes only its own work, when that is as it should be.
LEMMA Quiet ==
  ASSUME IInv, NEW w \in Writers, NEW y \in Extraction,
         rel' = rel, jobs' = jobs, write' = [write EXCEPT ![w] = y],
         write[w].pc # "check", y.pc # "check", WorkOK(w)',
         \A u \in Writers \ {w} : DOMAIN y.rows \cap DOMAIN write[u].rows = {},
         \A u \in Writers \ {w}, i, k \in Ids :
           Merges(u, i) /\ Merges(w, k)' /\ Rival(write[u].rows[i], y.rows[k])
             => k \in write[u].slot \/ i \in y.slot
  PROVE  IInv'
<1>1. write'[w] = y /\ \A u \in Writers \ {w} : write'[u] = write[u] BY DEF IInv, Types
<1>2. Types' BY DEF IInv, Types
<1>3. Counting' = Counting
  <2>1. \A d : d \in Counting' <=> \E u \in Writers : write'[u].pc = "check" /\ write'[u].doc = d
    BY DEF Counting
  <2>2. \A d : d \in Counting' <=> d \in Counting BY <1>1, <2>1, CountingIs
  <2>. QED BY <2>2
<1>4. \A u \in Writers : WorkOK(u)'
  <2>1. ASSUME NEW u \in Writers, u # w PROVE WorkOK(u)'
    <3>1. write[u].pc = "add" => FoundOK(u)' BY <1>1, <2>1 DEF IInv, WorkOK, FoundOK
    <3>2. \A k \in Ids : Seen(u, k) => Seen(u, k)' BY <1>1, <1>3, <2>1 DEF Seen
    <3>. QED BY <1>1, <2>1, <3>1, <3>2, WorkStays DEF IInv
  <2>. QED BY <2>1
<1>5. LocksOK' BY <1>1 DEF IInv, LocksOK
<1>6. OrderOK'
  <2>1. \A u \in Writers \ {w}, k \in Ids : Merges(u, k)' <=> Merges(u, k) BY <1>1 DEF Merges
  <2>2. \A r, q : Rival(r, q) => Rival(q, r) BY SlotParts DEF Rival
  <2>. SUFFICES ASSUME NEW u \in Writers, NEW v \in Writers, NEW i \in Ids, NEW k \in Ids,
                       u # v, Merges(u, i)', Merges(v, k)',
                       Rival(write'[u].rows[i], write'[v].rows[k])
                PROVE  k \in write'[u].slot \/ i \in write'[v].slot
    BY DEF OrderOK
  <2>3. CASE u # w /\ v # w BY <1>1, <2>1, <2>3 DEF IInv, OrderOK
  <2>4. CASE v = w BY <1>1, <2>1, <2>4
  <2>5. CASE u = w BY <1>1, <2>1, <2>2, <2>5
  <2>. QED BY <2>3, <2>4, <2>5
<1>7. PairsOK' BY <1>3 DEF IInv, PairsOK
<1>8. \A i \in Ids : RowOK(i)' BY RowsSame DEF IInv
<1>. QED BY <1>2, <1>4, <1>5, <1>6, <1>7, <1>8 DEF IInv

LEMMA AbortInv == ASSUME IInv, NEW w \in Writers, Abort(w) PROVE IInv'
<1>1. /\ write[w].pc # "check" /\ write' = [write EXCEPT ![w] = Off]
      /\ rel' = rel /\ jobs' = jobs
  BY DEF Abort
<1>2. write'[w] = Off BY <1>1 DEF IInv, Types
<1>3. WorkOK(w)' BY <1>2, OffFields DEF WorkOK
<1>4. \A k : ~Merges(w, k)' BY <1>2, OffFields DEF Merges
<1>5. Off \in Extraction /\ Off.pc # "check" /\ DOMAIN Off.rows = {} BY Blank, OffFields
<1>. QED BY <1>1, <1>3, <1>4, <1>5, Quiet

\* What an extraction that has looked for its edge begins with.
Found(l, d, i, b) == [Off EXCEPT !.pc = "add", !.link = l, !.doc = d, !.id = i, !.base = b]

LEMMA FoundWork ==
  ASSUME NEW l \in Links, NEW d \in Docs, NEW i, i \in Ids \/ i = 0, NEW b \in Row
  PROVE  /\ Found(l, d, i, b) \in Extraction
         /\ Found(l, d, i, b).pc = "add" /\ Found(l, d, i, b).link = l
         /\ Found(l, d, i, b).doc = d /\ Found(l, d, i, b).id = i /\ Found(l, d, i, b).base = b
         /\ DOMAIN Found(l, d, i, b).rows = {} /\ Found(l, d, i, b).slot = {}
<1>. DEFINE y == Found(l, d, i, b)
<1>1. y \in Extraction BY Blank DEF Extraction, Found
<1>2. y.pc = "add" /\ y.link = l /\ y.doc = d /\ y.id = i /\ y.base = b BY DEF Off, Found
<1>3. y.rows = Off.rows /\ y.slot = Off.slot BY DEF Off, Found
<1>. QED BY <1>1, <1>2, <1>3, OffFields

LEMMA FindInv ==
  ASSUME IInv, NEW w \in Writers, NEW l \in Links, NEW d \in Docs, Find(w, l, d)
  PROVE  IInv'
<1>. DEFINE F == {i \in Ids : rel[i].link = l /\ rel[i].status # "superseded"}
            B(i) == IF i = 0 THEN NoRow ELSE rel[i]
<1>1. PICK i \in IF F = {} THEN {0} ELSE F : write' = [write EXCEPT ![w] = Found(l, d, i, B(i))]
  BY DEF Find, Found
<1>. DEFINE y == Found(l, d, i, B(i))
<1>2. /\ write[w].pc # "check" /\ rel' = rel /\ jobs' = jobs BY DEF Find
<1>3. i \in F \/ i = 0 BY <1>1
<1>4. i \in Ids \/ i = 0 BY <1>3
<1>5. B(i) \in Row BY <1>3, Blank DEF IInv, Types
<1>. HIDE DEF B
<1>6. /\ y \in Extraction
      /\ y.pc = "add" /\ y.link = l /\ y.doc = d /\ y.id = i
      /\ y.base = B(i)
      /\ DOMAIN y.rows = {} /\ y.slot = {}
  BY <1>4, <1>5, FoundWork
<1>7. write'[w] = y BY <1>1 DEF IInv, Types
<1>8. FoundOK(w)'
  <2>1. i # 0 => i \in Ids /\ rel[i] \in Row /\ RowOK(i) /\ rel[i].link = l /\ rel[i].status # "superseded"
    BY <1>3 DEF IInv, Types
  <2>2. i # 0 /\ rel[i].status # "active" => rel[i].ev = {}
    BY <2>1, RowFields DEF RowOK, NoRow
  <2>. QED BY <1>2, <1>6, <1>7, <2>1, <2>2 DEF FoundOK, B
<1>9. WorkOK(w)' BY <1>6, <1>7, <1>8 DEF WorkOK
<1>10. \A k : ~Merges(w, k)' BY <1>6, <1>7 DEF Merges
<1>. HIDE DEF y
<1>. QED BY <1>1, <1>2, <1>6, <1>9, <1>10, Quiet DEF y

-----------------------------------------------------------------------------
(* Writing a row and closing its slot                                      *)

\* The row an extraction writes when it adds its edge, and what it makes of it.
RowFor(w) ==
  IF write[w].id > 0 THEN write[w].id
  ELSE Min({k \in Ids : rel[k] = NoRow /\ ~Locked(k, w)} \cup {MaxRows + 1})
RowMade(w, i) ==
  LET x == write[w] IN
  IF x.id = 0 THEN [link |-> x.link, status |-> "active", ev |-> {x.doc}]
  ELSE [rel[i] EXCEPT !.ev = x.base.ev \cup {x.doc},
                      !.status = IF x.base.status = "active" THEN @ ELSE "active"]
Added(w, own) ==
  LET x == write[w]  exclusive == Type(x.link) \in Exclusive IN
  [x EXCEPT !.pc = IF exclusive THEN "close" ELSE "commit", !.rows = own,
            !.slot = IF exclusive THEN InSlot(View(own), Slot(x.link)) ELSE {}]

LEMMA AddShape ==
  ASSUME NEW w \in Writers, Add(w)
  PROVE  LET i == RowFor(w) IN
         /\ write[w].pc = "add" /\ i \in Ids /\ ~Locked(i, w)
         /\ write' = [write EXCEPT ![w] = Added(w, [k \in {i} |-> RowMade(w, i)])]
         /\ rel' = rel /\ jobs' = jobs
  BY Zenon DEF Add, RowFor, RowMade, Added

LEMMA FreeRow ==
  ASSUME Proper, NEW w \in Writers, RowFor(w) \in Ids, ~(write[w].id > 0)
  PROVE  rel[RowFor(w)] = NoRow
<1>. DEFINE S == {k \in Ids : rel[k] = NoRow /\ ~Locked(k, w)} \cup {MaxRows + 1}
<1>1. S \subseteq Nat /\ S # {} BY DEF Proper, Ids
<1>2. RowFor(w) = Min(S) BY DEF RowFor
<1>3. Min(S) \in S BY <1>1, NatMin
<1>4. MaxRows + 1 \notin Ids BY DEF Proper, Ids
<1>. QED BY <1>2, <1>3, <1>4

LEMMA AddedFields ==
  ASSUME NEW w \in Writers, write[w] \in Extraction, NEW own \in Versions
  PROVE  LET y == Added(w, own)  exclusive == Type(write[w].link) \in Exclusive IN
         /\ y \in Extraction
         /\ y.link = write[w].link /\ y.doc = write[w].doc /\ y.rows = own
         /\ y.pc = IF exclusive THEN "close" ELSE "commit"
         /\ y.slot = IF exclusive THEN InSlot(View(own), Slot(write[w].link)) ELSE {}
<1>. DEFINE s == InSlot(View(own), Slot(write[w].link))
<1>1. s \subseteq Ids BY DEF InSlot
<1>. HIDE DEF s
<1>2. Added(w, own) \in Extraction BY <1>1 DEF Added, Extraction, s
<1>. QED BY <1>2 DEF Added, Extraction

\* The row made is a row of the edge: closed already, or with the document of w
\* alone, or merged into an active row.
LEMMA MadeRow ==
  ASSUME Proper, IInv, NEW w \in Writers, write[w].pc = "add", RowFor(w) \in Ids
  PROVE  LET i == RowFor(w)  r == RowMade(w, i)  x == write[w] IN
         /\ r \in Row /\ r.link = x.link /\ x.link \in Links
         /\ rel[i] = NoRow \/ rel[i].link = r.link
         /\ \/ r.status = "superseded"
            \/ r.status = "active" /\ r.ev # {} /\ (r.ev = {x.doc} \/ rel[i].status = "active")
<1>. DEFINE i == RowFor(w)
            x == write[w]
            r == RowMade(w, i)
<1>1. x \in Extraction /\ WorkOK(w) /\ FoundOK(w) BY DEF IInv, Types, WorkOK
<1>2. x.link \in Links /\ x.doc \in Docs /\ x.base \in Row /\ x.id \in Ids \cup {0}
  BY <1>1, WorkFields DEF WorkOK
<1>3. CASE x.id = 0
  <2>1. r = [link |-> x.link, status |-> "active", ev |-> {x.doc}] BY <1>3 DEF RowMade
  <2>2. rel[i] = NoRow BY <1>3, FreeRow
  <2>. QED BY <1>2, <2>1, <2>2 DEF Row
<1>4. CASE x.id # 0
  <2>1. x.id \in Ids /\ x.id > 0 /\ i = x.id BY <1>2, <1>4 DEF RowFor, Ids, Proper
  <2>2. rel[i] \in Row /\ rel[i].link = x.link BY <1>1, <1>4, <2>1 DEF FoundOK, IInv, Types
  <2>3. r = [rel[i] EXCEPT !.ev = x.base.ev \cup {x.doc},
                           !.status = IF x.base.status = "active" THEN @ ELSE "active"]
    BY <1>4 DEF RowMade
  <2>4. x.base.ev \subseteq Docs BY <1>2, RowFields
  <2>5. /\ r \in Row /\ r.link = rel[i].link /\ r.ev = x.base.ev \cup {x.doc}
        /\ r.status = IF x.base.status = "active" THEN rel[i].status ELSE "active"
    <3>. DEFINE q == rel[i]
                e == x.base.ev \cup {x.doc}
                s == IF x.base.status = "active" THEN q.status ELSE "active"
    <3>1. q \in Row /\ e \in SUBSET Docs BY <1>2, <2>2, <2>4
    <3>2. s \in {"absent", "active", "superseded", "retracted"} BY <3>1, RowFields
    <3>3. r = [q EXCEPT !.ev = e, !.status = s] BY <2>3, <3>1, RowFields
    <3>. HIDE DEF q, e, s, r
    <3>4. r \in Row BY <3>1, <3>2, <3>3 DEF Row
    <3>5. r.link = q.link /\ r.ev = e /\ r.status = s BY <3>1, <3>3 DEF Row
    <3>. QED BY <3>4, <3>5 DEF q, e, s
  <2>6. /\ x.base.status = "active" => rel[i].status \in {"active", "superseded"}
        /\ x.base.status # "active" => x.base.ev = {}
    BY <1>1, <1>4, <2>1 DEF FoundOK
  <2>. HIDE DEF r
  <2>. QED BY <1>2, <2>2, <2>5, <2>6 DEF r
<1>. QED BY <1>3, <1>4

LEMMA AddInv == ASSUME Proper, IInv, NEW w \in Writers, Add(w) PROVE IInv'
<1>0. PICK i : i = RowFor(w) OBVIOUS
<1>. DEFINE x == write[w]
            r == RowMade(w, i)
            own == [k \in {i} |-> r]
            y == Added(w, own)
<1>1. /\ x.pc = "add" /\ i \in Ids /\ ~Locked(i, w)
      /\ write' = [write EXCEPT ![w] = y] /\ rel' = rel /\ jobs' = jobs
  BY <1>0, AddShape
<1>2. /\ r \in Row /\ r.link = x.link /\ x.link \in Links
      /\ rel[i] = NoRow \/ rel[i].link = r.link
      /\ \/ r.status = "superseded"
         \/ r.status = "active" /\ r.ev # {} /\ (r.ev = {x.doc} \/ rel[i].status = "active")
  BY <1>0, <1>1, MadeRow
<1>3. x \in Extraction /\ x.doc \in Docs BY <1>1 DEF IInv, Types, WorkOK
<1>. HIDE DEF r, x
<1>4. own \in Versions /\ DOMAIN own = {i} /\ own[i] = r BY <1>1, <1>2 DEF Versions
<1>. HIDE DEF own
<1>5. /\ y \in Extraction /\ y.link = x.link /\ y.doc = x.doc /\ y.rows = own
      /\ y.pc = IF Type(x.link) \in Exclusive THEN "close" ELSE "commit"
      /\ y.slot = IF Type(x.link) \in Exclusive THEN InSlot(View(own), Slot(x.link)) ELSE {}
  BY <1>3, <1>4, AddedFields DEF x
<1>. HIDE DEF y
<1>6. write'[w] = y BY <1>1 DEF IInv, Types
<1>7. ASSUME NEW k \in Ids, Slot(View(own)[k].link) = Slot(x.link), View(own)[k].status = "active",
             Type(x.link) \in Exclusive
      PROVE  k \in y.slot
  BY <1>5, <1>7 DEF InSlot
<1>8. \A k \in Ids : Rival(rel[k], r) /\ k # i => k \in y.slot
  <2>. SUFFICES ASSUME NEW k \in Ids, Rival(rel[k], r), k # i PROVE k \in y.slot OBVIOUS
  <2>1. View(own)[k] = rel[k] BY <1>4, ViewRow
  <2>2. /\ rel[k].status = "active" /\ Slot(rel[k].link) = Slot(x.link)
        /\ Type(rel[k].link) \in Exclusive
    BY <1>2 DEF Rival
  <2>3. Type(x.link) \in Exclusive BY <2>2, SlotParts
  <2>. QED BY <1>7, <2>1, <2>2, <2>3
<1>9. VersionOK(w, i)'
  <2>1. y.rows[i] = r /\ DOMAIN y.rows = {i} BY <1>4, <1>5
  <2>2. Seen(w, i)' BY <1>1, <1>6, <1>8, <2>1 DEF Seen
  <2>. QED BY <1>1, <1>2, <1>5, <1>6, <2>1, <2>2 DEF VersionOK
<1>10. r.status = "active" /\ Type(x.link) \in Exclusive => i \in y.slot
  <2>1. View(own)[i] = r BY <1>1, <1>4, ViewRow
  <2>. QED BY <1>1, <1>2, <1>7, <2>1
<1>11. ~Rival(r, r) BY DEF Rival
<1>12. WorkOK(w)'
  BY <1>3, <1>2, <1>4, <1>5, <1>6, <1>9, <1>10, <1>11 DEF WorkOK
<1>13. \A u \in Writers \ {w} : DOMAIN y.rows \cap DOMAIN write[u].rows = {}
  BY <1>1, <1>4, <1>5 DEF Locked
<1>14. ASSUME NEW u \in Writers \ {w}, NEW j \in Ids, NEW k \in Ids,
              Merges(u, j), Merges(w, k)', Rival(write[u].rows[j], y.rows[k])
       PROVE  j \in y.slot
  <2>1. k = i /\ y.rows[k] = r BY <1>4, <1>5, <1>6, <1>14 DEF Merges
  <2>2. j # i BY <1>4, <1>5, <1>13, <1>14 DEF Merges
  <2>3. VersionOK(u, j) /\ rel[j].status = "active" BY <1>14 DEF IInv, WorkOK, Merges
  <2>4. rel[j].link = write[u].rows[j].link BY <2>3 DEF VersionOK, NoRow
  <2>5. Rival(rel[j], r) BY <1>14, <2>1, <2>3, <2>4 DEF Rival
  <2>. QED BY <1>8, <2>2, <2>5
<1>15. x.pc # "check" /\ y.pc # "check" BY <1>1, <1>5
<1>. QED BY <1>1, <1>5, <1>12, <1>13, <1>14, <1>15, Quiet DEF x

\* What an extraction has when it has closed the slot.
ClosedWork(w) ==
  LET x == write[w]
      now == View(x.rows)
      S == x.slot \cap InSlot(now, Slot(x.link))
      closed == IF S = {} THEN <<>> ELSE Closed(now, S)
  IN  [x EXCEPT !.pc = "commit", !.slot = {},
                !.rows = [k \in DOMAIN x.rows \cup S |->
                            IF k \in S THEN closed[k] ELSE x.rows[k]]]

LEMMA CloseShape ==
  ASSUME NEW w \in Writers, Close(w)
  PROVE  /\ write[w].pc = "close" /\ \A k \in write[w].slot : ~Locked(k, w)
         /\ write' = [write EXCEPT ![w] = ClosedWork(w)]
         /\ rel' = rel /\ jobs' = jobs
  BY Zenon DEF Close, ClosedWork

WithRows(x, rows) == [x EXCEPT !.pc = "commit", !.slot = {}, !.rows = rows]

LEMMA WorkExcept ==
  ASSUME NEW x \in Extraction, NEW rows \in Versions
  PROVE  LET y == WithRows(x, rows) IN
         /\ y \in Extraction /\ y.pc = "commit" /\ y.slot = {} /\ y.rows = rows
         /\ y.link = x.link /\ y.doc = x.doc
<1>. DEFINE y == WithRows(x, rows)
<1>1. y \in Extraction BY DEF Extraction, WithRows
<1>2. y.pc = "commit" /\ y.slot = {} /\ y.rows = rows BY DEF Extraction, WithRows
<1>3. y.link = x.link /\ y.doc = x.doc BY DEF Extraction, WithRows
<1>. QED BY <1>1, <1>2, <1>3

\* Every row of the slot is closed or leads to one target t; what w had written
\* of others is superseded.
LEMMA ClosedRows ==
  ASSUME IInv, NEW w \in Writers, write[w].pc = "close"
  PROVE  LET x == write[w]  y == ClosedWork(w)
             S == x.slot \cap InSlot(View(x.rows), Slot(x.link)) IN
         /\ y \in Extraction /\ y.pc = "commit" /\ y.slot = {}
         /\ y.link = x.link /\ y.doc = x.doc
         /\ DOMAIN y.rows = DOMAIN x.rows \cup S
         /\ \E t : \A k \in DOMAIN y.rows :
              LET r == y.rows[k]  q == View(x.rows)[k] IN
              /\ k \in Ids /\ r.link = q.link /\ r.ev = q.ev
              /\ r.status = "superseded" \/ (k \in S /\ r = q /\ To(r.link) = t)
<1>. DEFINE x == write[w]
            now == View(x.rows)
            S == x.slot \cap InSlot(now, Slot(x.link))
            closed == IF S = {} THEN <<>> ELSE Closed(now, S)
            rows == [k \in DOMAIN x.rows \cup S |-> IF k \in S THEN closed[k] ELSE x.rows[k]]
            y == ClosedWork(w)
<1>1. x \in Extraction /\ WorkOK(w) BY DEF IInv, Types
<1>2. S \subseteq Ids /\ DOMAIN x.rows \subseteq Ids /\ \A k \in DOMAIN x.rows : x.rows[k] \in Row
  BY <1>1, WorkFields DEF InSlot
<1>3. \A k \in Ids : now[k] = IF k \in DOMAIN x.rows THEN x.rows[k] ELSE rel[k] BY ViewRow
<1>4. \A k \in Ids : now[k] \in Row BY <1>2, <1>3 DEF IInv, Types
<1>5. PICK t : \A k \in S : \/ closed[k] = now[k] /\ To(now[k].link) = t
                            \/ closed[k] = [now[k] EXCEPT !.status = "superseded"]
  <2>1. CASE S = {} BY <2>1
  <2>2. CASE S # {}
    <3>1. closed = Closed(now, S) BY <2>2
    <3>. HIDE DEF closed, S, now
    <3>. QED BY <3>1, ClosedFacts
  <2>. QED BY <2>1, <2>2
<1>6. \A k \in DOMAIN x.rows \ S : x.rows[k].status = "superseded"
  <2>. SUFFICES ASSUME NEW k \in DOMAIN x.rows, x.rows[k].status = "active" PROVE k \in S
    BY <1>1 DEF WorkOK, VersionOK
  <2>1. k \in Ids /\ now[k] = x.rows[k] BY <1>2, <1>3
  <2>2. k \in x.slot /\ Slot(x.rows[k].link) = Slot(x.link) BY <1>1 DEF WorkOK, VersionOK
  <2>. QED BY <2>1, <2>2 DEF InSlot
<1>. HIDE DEF closed, S, now
<1>7. \A k \in DOMAIN x.rows \cup S :
        /\ k \in Ids /\ rows[k] \in Row /\ rows[k].link = now[k].link /\ rows[k].ev = now[k].ev
        /\ rows[k].status = "superseded" \/ (k \in S /\ rows[k] = now[k] /\ To(rows[k].link) = t)
  <2>. TAKE k \in DOMAIN x.rows \cup S
  <2>1. k \in Ids /\ now[k] \in Row BY <1>2, <1>4
  <2>2. CASE k \in S
    <3>1. rows[k] = closed[k] BY <2>2
    <3>. HIDE DEF rows
    <3>2. CASE closed[k] = now[k] /\ To(now[k].link) = t BY <2>1, <2>2, <3>1, <3>2
    <3>3. CASE closed[k] = [now[k] EXCEPT !.status = "superseded"]
      <4>. DEFINE q == [now[k] EXCEPT !.status = "superseded"]
      <4>1. q \in Row /\ q.link = now[k].link /\ q.ev = now[k].ev /\ q.status = "superseded"
        BY <2>1, SupersededRow
      <4>2. rows[k] = q BY <3>1, <3>3
      <4>. HIDE DEF q
      <4>. QED BY <2>1, <4>1, <4>2
    <3>. QED BY <1>5, <2>2, <3>2, <3>3
  <2>3. CASE k \notin S
    <3>1. rows[k] = x.rows[k] /\ now[k] = x.rows[k] BY <1>3, <2>1, <2>3
    <3>. HIDE DEF rows
    <3>. QED BY <1>6, <2>1, <2>3, <3>1
  <2>. QED BY <2>2, <2>3
<1>8. DOMAIN rows = DOMAIN x.rows \cup S OBVIOUS
<1>9. rows \in Versions
  <2>1. DOMAIN x.rows \cup S \in SUBSET Ids BY <1>2
  <2>2. rows \in [DOMAIN x.rows \cup S -> Row] BY <1>7
  <2>. QED BY <2>1, <2>2 DEF Versions
<1>10. y = WithRows(x, rows) BY DEF ClosedWork, WithRows, closed, S, now
<1>. HIDE DEF rows, x
<1>11. /\ y \in Extraction /\ y.pc = "commit" /\ y.slot = {} /\ y.rows = rows
       /\ y.link = x.link /\ y.doc = x.doc
  BY <1>1, <1>9, <1>10, WorkExcept
<1>. HIDE DEF y
<1>. QED BY <1>7, <1>8, <1>11 DEF x, S, now, y

LEMMA CloseInv == ASSUME IInv, NEW w \in Writers, Close(w) PROVE IInv'
<1>. DEFINE x == write[w]
            now == View(x.rows)
            S == x.slot \cap InSlot(now, Slot(x.link))
            y == ClosedWork(w)
<1>1. /\ x.pc = "close" /\ \A k \in x.slot : ~Locked(k, w)
      /\ write' = [write EXCEPT ![w] = y] /\ rel' = rel /\ jobs' = jobs
  BY CloseShape
<1>2. /\ y \in Extraction /\ y.pc = "commit" /\ y.slot = {}
      /\ y.link = x.link /\ y.doc = x.doc
      /\ DOMAIN y.rows = DOMAIN x.rows \cup S
      /\ \E t : \A k \in DOMAIN y.rows :
           LET r == y.rows[k]  q == now[k] IN
           /\ k \in Ids /\ r.link = q.link /\ r.ev = q.ev
           /\ r.status = "superseded" \/ (k \in S /\ r = q /\ To(r.link) = t)
  BY <1>1, ClosedRows
<1>3. WorkOK(w) /\ x.doc \in Docs /\ x.link \in Links BY <1>1 DEF IInv, WorkOK
<1>4. /\ S \subseteq x.slot
      /\ \A k \in S : k \in Ids /\ now[k].status = "active" /\ Slot(now[k].link) = Slot(x.link)
      /\ \A k \in Ids : k \in x.slot /\ now[k].status = "active"
                          /\ Slot(now[k].link) = Slot(x.link) => k \in S
  BY DEF InSlot
<1>5. \A k \in Ids : now[k] = IF k \in DOMAIN x.rows THEN x.rows[k] ELSE rel[k] BY ViewRow
<1>. HIDE DEF y, S, now
<1>6. PICK t : \A k \in DOMAIN y.rows :
        /\ k \in Ids /\ y.rows[k].link = now[k].link /\ y.rows[k].ev = now[k].ev
        /\ y.rows[k].status = "superseded"
             \/ (k \in S /\ y.rows[k] = now[k] /\ To(y.rows[k].link) = t)
  BY <1>2
<1>7. write'[w] = y BY <1>1 DEF IInv, Types
<1>8. ASSUME NEW k \in DOMAIN x.rows, k \in DOMAIN y.rows, y.rows[k] = x.rows[k],
             Seen(w, k)
      PROVE  Seen(w, k)'
  <2>. SUFFICES ASSUME NEW i \in Ids \ DOMAIN y.rows, Rival(rel[i], x.rows[k])
                PROVE  Slot(x.link) \in jobs \/ rel[i].ev \subseteq Counting'
    BY <1>1, <1>2, <1>7, <1>8 DEF Seen
  <2>1. i \notin DOMAIN x.rows BY <1>2
  <2>2. i \in x.slot \/ Slot(x.link) \in jobs \/ rel[i].ev \subseteq Counting
    BY <1>8, <2>1 DEF Seen
  <2>3. i \notin x.slot
    <3>1. rel[i].status = "active" /\ Slot(rel[i].link) = Slot(x.rows[k].link) BY DEF Rival
    <3>2. Slot(x.rows[k].link) = Slot(x.link) BY <1>3 DEF WorkOK, VersionOK
    <3>3. now[i] = rel[i] BY <1>5, <2>1
    <3>4. i \notin S BY <1>2
    <3>. QED BY <1>4, <3>1, <3>2, <3>3, <3>4
  <2>4. Counting \subseteq Counting'
    <3>1. \A d : d \in Counting' <=> \E u \in Writers : write'[u].pc = "check" /\ write'[u].doc = d
      BY DEF Counting
    <3>2. \A u \in Writers : write[u].pc = "check" => write'[u] = write[u]
      BY <1>1 DEF IInv, Types
    <3>. QED BY <3>1, <3>2, CountingIs
  <2>. QED BY <2>2, <2>3, <2>4
<1>9. \A k \in DOMAIN y.rows : VersionOK(w, k)'
  <2>. TAKE k \in DOMAIN y.rows
  <2>0. k \in Ids /\ y.rows[k].link = now[k].link /\ y.rows[k].ev = now[k].ev BY <1>6
  <2>1. /\ now[k].link \in Links /\ Slot(now[k].link) = Slot(x.link)
        /\ rel[k] = NoRow \/ rel[k].link = now[k].link
    <3>1. CASE k \in DOMAIN x.rows BY <1>3, <1>5, <2>0, <3>1 DEF WorkOK, VersionOK
    <3>2. CASE k \notin DOMAIN x.rows
      <4>1. k \in S /\ now[k] = rel[k] BY <1>2, <1>5, <2>0, <3>2
      <4>2. rel[k] # NoRow BY <1>4, <4>1 DEF NoRow
      <4>. QED BY <1>4, <2>0, <4>1, <4>2 DEF IInv, RowOK
    <3>. QED BY <3>1, <3>2
  <2>2. CASE y.rows[k].status = "superseded"
    BY <1>1, <1>2, <1>7, <2>0, <2>1, <2>2 DEF VersionOK
  <2>3. CASE k \in S /\ y.rows[k] = now[k]
    <3>1. now[k].status = "active" BY <1>4, <2>3
    <3>2. CASE k \in DOMAIN x.rows
      <4>1. now[k] = x.rows[k] /\ VersionOK(w, k) BY <1>3, <1>5, <2>0, <3>2 DEF WorkOK
      <4>2. Seen(w, k) => Seen(w, k)' BY <1>8, <2>3, <3>2, <4>1
      <4>. QED BY <1>1, <1>2, <1>7, <2>1, <2>3, <3>1, <4>1, <4>2 DEF VersionOK
    <3>3. CASE k \notin DOMAIN x.rows
      <4>1. now[k] = rel[k] BY <1>5, <2>0, <3>3
      <4>2. rel[k].ev # {} BY <2>0, <3>1, <4>1 DEF IInv, RowOK
      <4>. QED BY <1>1, <1>2, <1>7, <2>1, <2>3, <3>1, <4>1, <4>2 DEF VersionOK
    <3>. QED BY <3>2, <3>3
  <2>. QED BY <1>6, <2>2, <2>3
<1>10. \A i, k \in DOMAIN y.rows : ~Rival(y.rows[i], y.rows[k]) BY <1>6 DEF Rival
<1>11. WorkOK(w)' BY <1>2, <1>3, <1>7, <1>9, <1>10 DEF WorkOK
<1>12. \A u \in Writers \ {w} : \A i \in DOMAIN write[u].rows : i \notin x.slot
  BY <1>1 DEF Locked
<1>13. \A u \in Writers \ {w} : DOMAIN y.rows \cap DOMAIN write[u].rows = {}
  BY <1>2, <1>4, <1>12 DEF IInv, LocksOK
<1>14. ASSUME NEW u \in Writers \ {w}, NEW i \in Ids, NEW k \in Ids,
              Merges(u, i), Merges(w, k)', Rival(write[u].rows[i], y.rows[k])
       PROVE  k \in write[u].slot \/ i \in y.slot
  <2>1. k \in DOMAIN y.rows /\ y.rows[k].status = "active" /\ rel[k].status = "active" /\ y.rows[k] # rel[k]
    BY <1>1, <1>7, <1>14 DEF Merges
  <2>2. y.rows[k] = now[k] BY <1>6, <2>1
  <2>3. k \in DOMAIN x.rows /\ y.rows[k] = x.rows[k] BY <1>5, <2>1, <2>2
  <2>4. Merges(w, k) BY <2>1, <2>3 DEF Merges
  <2>5. k \in write[u].slot \/ i \in x.slot BY <1>14, <2>3, <2>4 DEF IInv, OrderOK
  <2>6. i \in DOMAIN write[u].rows BY <1>14 DEF Merges
  <2>. QED BY <1>12, <2>5, <2>6
<1>. QED BY <1>1, <1>2, <1>11, <1>13, <1>14, Quiet

-----------------------------------------------------------------------------
(* Committing, counting, resolving, deleting                               *)

LEMMA CommitInv == ASSUME Proper, IInv, NEW w \in Writers, Commit(w) PROVE IInv'
<1>. DEFINE x == write[w]
            y == [[Off EXCEPT !.pc = "check"] EXCEPT !.doc = x.doc]
<1>1. x.pc = "commit" /\ rel' = View(x.rows) /\ jobs' = jobs BY DEF Commit
<1>2. x \in Extraction /\ WorkOK(w) /\ x.doc \in Docs /\ x.link \in Links /\ x.slot = {}
  BY <1>1 DEF IInv, Types, WorkOK
<1>3. DOMAIN x.rows \subseteq Ids /\ \A k \in DOMAIN x.rows : x.rows[k] \in Row
  BY <1>2, WorkFields
<1>4. y \in Extraction /\ y.pc = "check" /\ y.doc = x.doc /\ y.slot = {} /\ DOMAIN y.rows = {}
  <2>1. y \in Extraction BY <1>2, Blank DEF Extraction
  <2>. QED BY <2>1, OffFields
<1>5. write' = [write EXCEPT ![w] = y]
  <2>1. [Off EXCEPT !.pc = "check", !.doc = x.doc] = y OBVIOUS
  <2>. QED BY <2>1 DEF Commit
<1>. HIDE DEF y
<1>6. write'[w] = y /\ \A u \in Writers \ {w} : write'[u] = write[u] BY <1>5 DEF IInv, Types
<1>7. \A k \in Ids : rel'[k] = IF k \in DOMAIN x.rows THEN x.rows[k] ELSE rel[k]
  BY <1>1, ViewRow
<1>8. Types'
  <2>1. rel' \in [Ids -> Row]
    <3>1. rel' = [k \in Ids |-> IF k \in DOMAIN x.rows THEN x.rows[k] ELSE rel[k]]
      BY <1>1 DEF View
    <3>. QED BY <1>3, <3>1 DEF IInv, Types
  <2>. QED BY <1>4, <1>5, <2>1 DEF IInv, Types
<1>9. \A k \in DOMAIN x.rows :
        /\ x.rows[k].link \in Links /\ Slot(x.rows[k].link) = Slot(x.link)
        /\ rel[k] = NoRow \/ rel[k].link = x.rows[k].link
        /\ \/ x.rows[k].status = "superseded"
           \/ /\ x.rows[k].status = "active" /\ x.rows[k].ev # {}
              /\ \/ x.rows[k] = rel[k]
                 \/ x.rows[k].ev = {x.doc}
                 \/ rel[k].status = "active" /\ Seen(w, k)
  BY <1>2 DEF WorkOK, VersionOK
<1>10. \A i \in Ids : RowOK(i)'
  BY <1>7, <1>9 DEF IInv, RowOK
<1>11. Counting' = Counting \cup {x.doc}
  <2>1. \A d : d \in Counting' <=> \E u \in Writers : write'[u].pc = "check" /\ write'[u].doc = d
    BY DEF Counting
  <2>2. \A d : d \in Counting' <=> d \in Counting \/ d = x.doc
    BY <1>1, <1>4, <1>6, <2>1, CountingIs
  <2>. QED BY <2>2
<1>12. \A u \in Writers \ {w} : \A k \in DOMAIN write[u].rows : k \notin DOMAIN x.rows /\ k \in Ids
  BY WorkFields DEF IInv, LocksOK, Types
<1>13. ASSUME NEW u \in Writers \ {w} PROVE WorkOK(u)'
  <2>1. \A k \in DOMAIN write[u].rows : rel'[k] = rel[k] BY <1>7, <1>12
  <2>2. WorkOK(u) /\ write[u] \in Extraction BY DEF IInv, Types
  <2>3. write[u].pc = "add" => FoundOK(u)'
    <3>. SUFFICES ASSUME write[u].pc = "add", write[u].id # 0
                  PROVE  /\ rel'[write[u].id].link = write[u].link
                         /\ write[u].base.status = "active" =>
                              rel'[write[u].id].status \in {"active", "superseded"}
                         /\ write[u].base.status # "active" => write[u].base.ev = {}
      BY <1>6 DEF FoundOK
    <3>1. FoundOK(u) /\ write[u].link \in Links /\ write[u].id \in Ids
      BY <2>2, WorkFields DEF WorkOK
    <3>2. rel[write[u].id] # NoRow BY <3>1 DEF FoundOK, Proper, NoRow
    <3>. QED BY <1>7, <1>9, <3>1, <3>2 DEF FoundOK
  <2>4. ASSUME NEW k \in Ids, Merges(u, k), Seen(u, k) PROVE Seen(u, k)'
    <3>. SUFFICES ASSUME NEW i \in Ids \ DOMAIN write[u].rows, Rival(rel'[i], write[u].rows[k])
                  PROVE  \/ i \in write[u].slot \/ Slot(write[u].link) \in jobs
                         \/ rel'[i].ev \subseteq Counting'
      BY <1>1, <1>6 DEF Seen
    <3>1. CASE rel'[i] = rel[i] BY <1>11, <2>4, <3>1 DEF Seen
    <3>2. CASE rel'[i] # rel[i]
      <4>1. i \in DOMAIN x.rows /\ rel'[i] = x.rows[i] BY <1>7, <3>2
      <4>2. x.rows[i].status = "active" BY <4>1 DEF Rival
      <4>3. CASE x.rows[i].ev = {x.doc} BY <1>11, <4>1, <4>3
      <4>4. CASE rel[i].status = "active" /\ Seen(w, i)
        <5>1. Merges(w, i) BY <3>2, <4>1, <4>2, <4>4 DEF Merges
        <5>2. Rival(write[w].rows[i], write[u].rows[k]) BY <4>1
        <5>3. k \in write[w].slot \/ i \in write[u].slot BY <2>4, <5>1, <5>2 DEF IInv, OrderOK
        <5>. QED BY <1>2, <5>3
      <4>. QED BY <1>9, <3>2, <4>1, <4>2, <4>3, <4>4
    <3>. QED BY <3>1, <3>2
  <2>. QED BY <1>6, <2>1, <2>2, <2>3, <2>4, WorkStays DEF IInv
<1>14. WorkOK(w)' BY <1>2, <1>4, <1>6 DEF WorkOK
<1>15. LocksOK' BY <1>4, <1>6 DEF IInv, LocksOK
<1>16. OrderOK'
  <2>1. \A u \in Writers \ {w}, k \in Ids : Merges(u, k)' => Merges(u, k)
    BY <1>6, <1>7, <1>12 DEF Merges
  <2>2. \A k \in Ids : ~Merges(w, k)' BY <1>4, <1>6 DEF Merges
  <2>. QED BY <1>6, <2>1, <2>2 DEF IInv, OrderOK
<1>17. PairsOK'
  <2>. SUFFICES ASSUME NEW i \in Ids, NEW j \in Ids, Rival(rel'[i], rel'[j])
                PROVE  \/ Slot(rel'[i].link) \in jobs
                       \/ rel'[i].ev \subseteq Counting' \/ rel'[j].ev \subseteq Counting'
    BY <1>1 DEF PairsOK
  <2>1. rel'[i].status = "active" /\ rel'[j].status = "active"
          /\ Slot(rel'[i].link) = Slot(rel'[j].link) /\ Rival(rel'[j], rel'[i])
    BY SlotParts DEF Rival
  <2>2. ASSUME NEW a \in Ids, NEW b \in Ids, a \in DOMAIN x.rows, b \notin DOMAIN x.rows,
               Rival(rel'[b], rel'[a]), Rival(rel'[a], rel'[b]), rel'[a].status = "active"
        PROVE  \/ Slot(rel'[a].link) \in jobs
               \/ rel'[a].ev \subseteq Counting' \/ rel'[b].ev \subseteq Counting'
    <3>1. rel'[a] = x.rows[a] /\ rel'[b] = rel[b] BY <1>7, <2>2
    <3>2. CASE rel'[a] = rel[a]
      <4>1. Rival(rel[a], rel[b]) BY <2>2, <3>1, <3>2
      <4>. QED BY <1>11, <3>1, <3>2, <4>1 DEF IInv, PairsOK
    <3>3. CASE x.rows[a].ev = {x.doc} BY <1>11, <3>1, <3>3
    <3>4. CASE Seen(w, a)
      <4>1. Slot(x.link) \in jobs \/ rel[b].ev \subseteq Counting
        BY <1>2, <2>2, <3>1, <3>4 DEF Seen
      <4>2. Slot(rel'[a].link) = Slot(x.link) BY <1>9, <2>2, <3>1
      <4>. QED BY <1>11, <3>1, <4>1, <4>2
    <3>. QED BY <1>9, <2>2, <3>1, <3>2, <3>3, <3>4
  <2>3. CASE i \in DOMAIN x.rows /\ j \in DOMAIN x.rows
    BY <1>1, <1>2, <1>7, <2>3 DEF WorkOK
  <2>4. CASE i \in DOMAIN x.rows /\ j \notin DOMAIN x.rows BY <2>1, <2>2, <2>4
  <2>5. CASE i \notin DOMAIN x.rows /\ j \in DOMAIN x.rows BY <2>1, <2>2, <2>5
  <2>6. CASE i \notin DOMAIN x.rows /\ j \notin DOMAIN x.rows
    <3>1. rel'[i] = rel[i] /\ rel'[j] = rel[j] BY <1>7, <2>6
    <3>. QED BY <1>11, <3>1 DEF IInv, PairsOK
  <2>. QED BY <2>3, <2>4, <2>5, <2>6
<1>18. \A u \in Writers : WorkOK(u)' BY <1>13, <1>14
<1>. QED BY <1>8, <1>10, <1>15, <1>16, <1>17, <1>18 DEF IInv

\* A count misses no pair of targets that its document is evidence of.
LEMMA CheckCounts ==
  ASSUME Proper, IInv, NEW w \in Writers, Check(w), NEW i \in Ids, NEW j \in Ids,
         Rival(rel[i], rel[j]), write[w].doc \in rel[i].ev
  PROVE  Slot(rel[i].link) \in jobs'
<1>. DEFINE s == Slot(rel[i].link)
<1>1. s \in Touched(write[w].doc) BY DEF Touched, Rival
<1>2. InSlot(rel, s) \subseteq Ids /\ i \in InSlot(rel, s) /\ j \in InSlot(rel, s)
  BY DEF InSlot, Rival
<1>3. Cardinality(Targets(s)) > 1
  <2>1. To(rel[i].link) # To(rel[j].link) BY DEF Rival
  <2>. QED BY <1>2, <2>1, TwoTargets DEF Targets
<1>. QED BY <1>1, <1>3 DEF Check, Contested

LEMMA CheckInv == ASSUME Proper, IInv, NEW w \in Writers, Check(w) PROVE IInv'
<1>. DEFINE x == write[w]
<1>1. x.pc = "check" /\ write' = [write EXCEPT ![w] = Off] /\ rel' = rel /\ jobs \subseteq jobs'
  BY DEF Check
<1>2. write'[w] = Off /\ \A u \in Writers \ {w} : write'[u] = write[u] BY <1>1 DEF IInv, Types
<1>3. Types' BY <1>1, Blank DEF IInv, Types
<1>4. Counting \subseteq Counting' \cup {x.doc}
  <2>1. \A d : d \in Counting' <=> \E u \in Writers : write'[u].pc = "check" /\ write'[u].doc = d
    BY DEF Counting
  <2>. QED BY <1>2, <2>1, CountingIs
<1>5. \A i, j \in Ids : Rival(rel[i], rel[j]) /\ rel[i].ev \subseteq Counting =>
        Slot(rel[i].link) \in jobs' \/ rel[i].ev \subseteq Counting'
  BY <1>4, CheckCounts
<1>6. \A u \in Writers : WorkOK(u)'
  <2>1. ASSUME NEW u \in Writers \ {w} PROVE WorkOK(u)'
    <3>1. write[u].pc = "add" => FoundOK(u)' BY <1>1, <1>2 DEF IInv, WorkOK, FoundOK
    <3>2. ASSUME NEW k \in Ids, Merges(u, k), Seen(u, k) PROVE Seen(u, k)'
      <4>. SUFFICES ASSUME NEW i \in Ids \ DOMAIN write[u].rows, Rival(rel[i], write[u].rows[k])
                    PROVE  \/ i \in write[u].slot \/ Slot(write[u].link) \in jobs'
                           \/ rel[i].ev \subseteq Counting'
        BY <1>1, <1>2 DEF Seen
      <4>1. rel[k].status = "active" /\ VersionOK(u, k) BY <3>2 DEF Merges, IInv, WorkOK
      <4>2. rel[k].link = write[u].rows[k].link /\ Slot(rel[k].link) = Slot(write[u].link)
        BY <4>1 DEF VersionOK, NoRow
      <4>3. Rival(rel[i], rel[k]) /\ Slot(rel[i].link) = Slot(write[u].link)
        BY <4>1, <4>2 DEF Rival
      <4>4. i \in write[u].slot \/ Slot(write[u].link) \in jobs \/ rel[i].ev \subseteq Counting
        BY <3>2 DEF Seen
      <4>. QED BY <1>1, <1>5, <4>3, <4>4
    <3>. QED BY <1>1, <1>2, <3>1, <3>2, WorkStays DEF IInv
  <2>2. WorkOK(w)' BY <1>2, OffFields DEF WorkOK
  <2>. QED BY <2>1, <2>2
<1>7. LocksOK' BY <1>2, OffFields DEF IInv, LocksOK
<1>8. OrderOK'
  <2>1. \A u \in Writers \ {w}, k \in Ids : Merges(u, k)' => Merges(u, k)
    BY <1>1, <1>2 DEF Merges
  <2>2. \A k \in Ids : ~Merges(w, k)' BY <1>2, OffFields DEF Merges
  <2>. QED BY <1>2, <2>1, <2>2 DEF IInv, OrderOK
<1>9. PairsOK'
  <2>. SUFFICES ASSUME NEW i \in Ids, NEW j \in Ids, Rival(rel[i], rel[j])
                PROVE  \/ Slot(rel[i].link) \in jobs'
                       \/ rel[i].ev \subseteq Counting' \/ rel[j].ev \subseteq Counting'
    BY <1>1 DEF PairsOK
  <2>1. Rival(rel[j], rel[i]) /\ Slot(rel[i].link) = Slot(rel[j].link) BY SlotParts DEF Rival
  <2>. QED BY <1>1, <1>5, <2>1 DEF IInv, PairsOK
<1>10. \A i \in Ids : RowOK(i)' BY <1>1, RowsSame DEF IInv
<1>. QED BY <1>3, <1>6, <1>7, <1>8, <1>9, <1>10 DEF IInv

\* A resolution leaves one target of its slot, and touches no other row and none
\* that an extraction has locked.
LEMMA ResolveShape ==
  ASSUME Proper, IInv, NEW s, Resolve(s)
  PROVE  /\ write' = write /\ jobs' = jobs \ {s} /\ rel' \in [Ids -> Row]
         /\ \A i \in Ids : \/ rel'[i] = rel[i]
                           \/ /\ rel[i].status = "active" /\ Slot(rel[i].link) = s
                              /\ rel'[i] = [rel[i] EXCEPT !.status = "superseded"]
         /\ \A i, j \in Ids : Rival(rel'[i], rel'[j]) => Slot(rel'[i].link) # s
         /\ \A w \in Writers : \A k \in DOMAIN write[w].rows \cap Ids :
              rel'[k] = rel[k] /\ (rel[k].status = "active" => Slot(rel[k].link) # s)
<1>. DEFINE S == InSlot(rel, s)
            T == {To(rel[i].link) : i \in S}
<1>1. /\ write' = write /\ jobs' = jobs \ {s}
      /\ \A i \in S : \A w \in Writers : i \notin DOMAIN write[w].rows
      /\ rel' = IF Cardinality(T) < 2 THEN rel
                ELSE [i \in Ids |-> IF i \in S THEN Closed(rel, S)[i] ELSE rel[i]]
  BY DEF Resolve, Targets
<1>2. rel \in [Ids -> Row] BY DEF IInv, Types
<1>3. S \subseteq Ids /\ \A i \in Ids : i \in S <=> rel[i].status = "active" /\ Slot(rel[i].link) = s
  BY DEF InSlot
<1>4. \A w \in Writers : \A k \in DOMAIN write[w].rows \cap Ids :
        k \notin S /\ (rel[k].status = "active" => Slot(rel[k].link) # s)
  BY <1>1, <1>3
<1>5. CASE Cardinality(T) < 2
  <2>1. rel' = rel BY <1>1, <1>5
  <2>2. ASSUME NEW i \in Ids, NEW j \in Ids, Rival(rel[i], rel[j]), Slot(rel[i].link) = s
        PROVE  FALSE
    <3>1. i \in S /\ j \in S /\ To(rel[i].link) # To(rel[j].link) BY <1>3, <2>2 DEF Rival
    <3>2. Cardinality(T) > 1 BY <1>3, <3>1, TwoTargets
    <3>3. Cardinality(T) \in Nat
      <4>1. IsFiniteSet(Ids) BY FS_Interval DEF Ids, Proper
      <4>2. IsFiniteSet(S) BY <1>3, <4>1, FS_Subset
      <4>. DEFINE f == [k \in S |-> To(rel[k].link)]
      <4>3. f \in Surjection(S, T) BY DEF Surjection
      <4>. HIDE DEF f, T, S
      <4>. QED BY <4>2, <4>3, FS_Surjection, FS_CardinalityType
    <3>. QED BY <1>5, <3>2, <3>3
  <2>. QED BY <1>1, <1>2, <1>4, <2>1, <2>2
<1>6. CASE ~(Cardinality(T) < 2)
  <2>1. rel' = [i \in Ids |-> IF i \in S THEN Closed(rel, S)[i] ELSE rel[i]] BY <1>1, <1>6
  <2>. HIDE DEF S, T
  <2>2. PICK t : \A k \in S : \/ Closed(rel, S)[k] = rel[k] /\ To(rel[k].link) = t
                              \/ Closed(rel, S)[k] = [rel[k] EXCEPT !.status = "superseded"]
    BY ClosedFacts
  <2>3. \A i \in Ids \ S : rel'[i] = rel[i] BY <2>1
  <2>4. \A i \in S : \/ rel'[i] = rel[i] /\ To(rel[i].link) = t
                     \/ rel'[i] = [rel[i] EXCEPT !.status = "superseded"]
    BY <1>3, <2>1, <2>2
  <2>5. \A i \in S : \/ rel'[i] = rel[i] /\ To(rel[i].link) = t
                     \/ rel'[i].status = "superseded" /\ rel'[i] \in Row /\ rel'[i].link = rel[i].link
    <3>. TAKE i \in S
    <3>1. rel[i] \in Row BY <1>2, <1>3
    <3>2. CASE rel'[i] = [rel[i] EXCEPT !.status = "superseded"] BY <3>1, <3>2, SupersededRow
    <3>. QED BY <2>4, <3>2
  <2>6. rel' \in [Ids -> Row] BY <1>2, <1>3, <2>1, <2>3, <2>5
  <2>7. ASSUME NEW i \in Ids, NEW j \in Ids, Rival(rel'[i], rel'[j]), Slot(rel'[i].link) = s
        PROVE  FALSE
    <3>1. /\ rel'[i].status = "active" /\ rel'[j].status = "active"
          /\ Slot(rel'[j].link) = s /\ To(rel'[i].link) # To(rel'[j].link)
      BY <2>7 DEF Rival
    <3>2. i \in S /\ j \in S BY <1>3, <2>3, <2>7, <3>1
    <3>. QED BY <2>5, <3>1, <3>2
  <2>. QED BY <1>1, <1>3, <1>4, <2>3, <2>4, <2>6, <2>7
<1>. QED BY <1>5, <1>6

LEMMA SameCounting == ASSUME write' = write PROVE Counting' = Counting
  BY DEF Counting

LEMMA ResolveInv == ASSUME Proper, IInv, NEW s, Resolve(s) PROVE IInv'
<1>1. /\ write' = write /\ jobs' = jobs \ {s} /\ rel' \in [Ids -> Row]
      /\ \A i \in Ids : \/ rel'[i] = rel[i]
                        \/ /\ rel[i].status = "active" /\ Slot(rel[i].link) = s
                           /\ rel'[i] = [rel[i] EXCEPT !.status = "superseded"]
      /\ \A i, j \in Ids : Rival(rel'[i], rel'[j]) => Slot(rel'[i].link) # s
      /\ \A w \in Writers : \A k \in DOMAIN write[w].rows \cap Ids :
           rel'[k] = rel[k] /\ (rel[k].status = "active" => Slot(rel[k].link) # s)
  BY ResolveShape
<1>2. \A i \in Ids : \/ rel'[i] = rel[i]
                     \/ /\ rel[i].status = "active" /\ rel'[i].status = "superseded"
                        /\ rel'[i].link = rel[i].link /\ rel'[i].ev = rel[i].ev
  <2>. TAKE i \in Ids
  <2>1. rel[i] \in Row BY DEF IInv, Types
  <2>2. CASE rel'[i] = [rel[i] EXCEPT !.status = "superseded"] /\ rel[i].status = "active"
    BY <2>1, <2>2, SupersededRow
  <2>. QED BY <1>1, <2>2
<1>3. Counting' = Counting BY <1>1, SameCounting
<1>4. \A i \in Ids : RowOK(i)'
  <2>. TAKE i \in Ids
  <2>1. RowOK(i) BY DEF IInv
  <2>. QED BY <1>2, <2>1 DEF RowOK, NoRow
<1>5. ASSUME NEW u \in Writers PROVE WorkOK(u)'
  <2>1. write[u] \in Extraction /\ WorkOK(u) /\ DOMAIN write[u].rows \subseteq Ids
    BY WorkFields DEF IInv, Types
  <2>2. write[u].pc = "add" => FoundOK(u)'
    <3>. SUFFICES ASSUME write[u].pc = "add", write[u].id # 0
                  PROVE  /\ rel'[write[u].id].link = write[u].link
                         /\ write[u].base.status = "active" =>
                              rel'[write[u].id].status \in {"active", "superseded"}
                         /\ write[u].base.status # "active" => write[u].base.ev = {}
      BY <1>1 DEF FoundOK
    <3>1. FoundOK(u) /\ write[u].id \in Ids BY <2>1, WorkFields DEF WorkOK
    <3>. QED BY <1>2, <3>1 DEF FoundOK
  <2>3. ASSUME NEW k \in Ids, Merges(u, k), Seen(u, k) PROVE Seen(u, k)'
    <3>. SUFFICES ASSUME NEW i \in Ids \ DOMAIN write[u].rows, Rival(rel'[i], write[u].rows[k])
                  PROVE  \/ i \in write[u].slot \/ Slot(write[u].link) \in jobs'
                         \/ rel'[i].ev \subseteq Counting'
      BY <1>1 DEF Seen
    <3>1. rel'[i] = rel[i] BY <1>2 DEF Rival
    <3>2. i \in write[u].slot \/ Slot(write[u].link) \in jobs \/ rel[i].ev \subseteq Counting
      BY <2>3, <3>1 DEF Seen
    <3>3. k \in DOMAIN write[u].rows /\ rel[k].status = "active" /\ VersionOK(u, k)
      BY <2>1, <2>3 DEF Merges, WorkOK
    <3>4. Slot(rel[k].link) = Slot(write[u].link) BY <3>3 DEF VersionOK, NoRow
    <3>5. Slot(write[u].link) # s BY <1>1, <3>3, <3>4
    <3>. QED BY <1>1, <1>3, <3>1, <3>2, <3>5
  <2>4. \A k \in DOMAIN write[u].rows : rel'[k] = rel[k] BY <1>1, <2>1
  <2>. QED BY <1>1, <2>1, <2>2, <2>3, <2>4, WorkStays DEF IInv
<1>6. OrderOK'
  <2>1. \A u \in Writers, k \in Ids : Merges(u, k)' => Merges(u, k) BY <1>1 DEF Merges
  <2>. QED BY <1>1, <2>1 DEF IInv, OrderOK
<1>7. PairsOK'
  <2>. SUFFICES ASSUME NEW i \in Ids, NEW j \in Ids, Rival(rel'[i], rel'[j])
                PROVE  \/ Slot(rel'[i].link) \in jobs'
                       \/ rel'[i].ev \subseteq Counting' \/ rel'[j].ev \subseteq Counting'
    BY DEF PairsOK
  <2>1. rel'[i] = rel[i] /\ rel'[j] = rel[j] BY <1>2 DEF Rival
  <2>. QED BY <1>1, <1>3, <2>1 DEF IInv, PairsOK
<1>8. Types' /\ LocksOK' BY <1>1 DEF IInv, Types, LocksOK
<1>. QED BY <1>4, <1>5, <1>6, <1>7, <1>8 DEF IInv

LEMMA DeleteInv == ASSUME IInv, NEW d \in Docs, Delete(d) PROVE IInv'
<1>1. write' = write /\ jobs' = jobs /\ \A w \in Writers : write[w].pc \in {"off", "check"}
  BY DEF Delete
<1>2. rel' = [i \in Ids |->
                IF rel[i].status # "active" THEN rel[i]
                ELSE [rel[i] EXCEPT !.ev = @ \ {d},
                                    !.status = IF rel[i].ev = {d} THEN "retracted" ELSE @]]
  BY DEF Delete
<1>3. \A i \in Ids :
        \/ rel'[i] = rel[i] /\ rel[i].status # "active"
        \/ /\ rel[i].status = "active" /\ rel'[i] \in Row
           /\ rel'[i].link = rel[i].link /\ rel'[i].ev = rel[i].ev \ {d}
           /\ rel'[i].status = IF rel[i].ev = {d} THEN "retracted" ELSE "active"
  <2>. TAKE i \in Ids
  <2>. DEFINE q == rel[i]
              e == q.ev \ {d}
              st == IF q.ev = {d} THEN "retracted" ELSE q.status
  <2>1. CASE q.status # "active" BY <1>2, <2>1
  <2>2. CASE q.status = "active"
    <3>1. q \in Row BY DEF IInv, Types
    <3>2. e \in SUBSET Docs /\ st \in {"active", "retracted"} BY <2>2, <3>1, RowFields
    <3>3. rel'[i] = [q EXCEPT !.ev = e, !.status = st] BY <1>2, <2>2, <3>1, RowFields
    <3>. HIDE DEF q, e, st
    <3>4. rel'[i] \in Row BY <3>1, <3>2, <3>3 DEF Row
    <3>5. rel'[i].link = q.link /\ rel'[i].ev = e /\ rel'[i].status = st BY <3>1, <3>3 DEF Row
    <3>. QED BY <2>2, <3>4, <3>5 DEF q, e, st
  <2>. QED BY <2>1, <2>2
<1>4. Types'
  <2>1. \A i \in Ids : rel'[i] \in Row BY <1>3 DEF IInv, Types
  <2>2. rel' \in [Ids -> Row] BY <1>2, <2>1
  <2>. QED BY <1>1, <2>2 DEF IInv, Types
<1>5. Counting' = Counting BY <1>1, SameCounting
<1>6. \A i \in Ids : RowOK(i)'
  <2>. TAKE i \in Ids
  <2>1. RowOK(i) BY DEF IInv
  <2>. QED BY <1>3, <2>1 DEF RowOK, NoRow
<1>7. \A u \in Writers : WorkOK(u)' BY <1>1 DEF IInv, WorkOK
<1>8. LocksOK' BY <1>1 DEF IInv, LocksOK
<1>9. OrderOK'
  <2>1. \A u \in Writers : \A k : ~Merges(u, k)' BY <1>1 DEF IInv, WorkOK, Merges
  <2>. QED BY <2>1 DEF OrderOK
<1>10. PairsOK'
  <2>. SUFFICES ASSUME NEW i \in Ids, NEW j \in Ids, Rival(rel'[i], rel'[j])
                PROVE  \/ Slot(rel'[i].link) \in jobs
                       \/ rel'[i].ev \subseteq Counting \/ rel'[j].ev \subseteq Counting
    BY <1>1, <1>5 DEF PairsOK
  <2>1. /\ rel[i].status = "active" /\ rel'[i].link = rel[i].link /\ rel'[i].ev \subseteq rel[i].ev
        /\ rel[j].status = "active" /\ rel'[j].link = rel[j].link /\ rel'[j].ev \subseteq rel[j].ev
    BY <1>3 DEF Rival
  <2>2. Rival(rel[i], rel[j]) BY <2>1 DEF Rival
  <2>. QED BY <2>1, <2>2 DEF IInv, PairsOK
<1>. QED BY <1>4, <1>6, <1>7, <1>8, <1>9, <1>10 DEF IInv

-----------------------------------------------------------------------------
(* The theorems                                                            *)

LEMMA InitInv == Init => IInv
<1>. SUFFICES ASSUME Init PROVE IInv OBVIOUS
<1>1. \A i \in Ids : rel[i] = NoRow BY DEF Init
<1>2. \A w \in Writers : write[w] = Off BY DEF Init
<1>3. Types BY Blank DEF Init, Types
<1>4. \A i \in Ids : RowOK(i) BY <1>1 DEF RowOK, NoRow
<1>5. \A w \in Writers : WorkOK(w) BY <1>2, OffFields DEF WorkOK
<1>6. LocksOK BY <1>2, OffFields DEF LocksOK
<1>7. OrderOK BY <1>2, OffFields DEF OrderOK, Merges
<1>8. PairsOK BY <1>1 DEF PairsOK, Rival, NoRow
<1>. QED BY <1>3, <1>4, <1>5, <1>6, <1>7, <1>8 DEF IInv

LEMMA NextInv == Proper /\ IInv /\ [Next]_vars => IInv'
<1>. SUFFICES ASSUME Proper, IInv, [Next]_vars PROVE IInv' OBVIOUS
<1>1. CASE \E w \in Writers : Add(w) \/ Close(w) \/ Commit(w) \/ Check(w) \/ Abort(w)
                                \/ \E l \in Links, d \in Docs : Find(w, l, d)
  BY <1>1, AddInv, CloseInv, CommitInv, CheckInv, AbortInv, FindInv
<1>2. CASE \E s \in {Slot(l) : l \in Links} : Resolve(s) BY <1>2, ResolveInv
<1>3. CASE \E d \in Docs : Delete(d) BY <1>3, DeleteInv
<1>4. CASE UNCHANGED vars
  <2>1. rel' = rel /\ write' = write /\ jobs' = jobs BY <1>4 DEF vars
  <2>2. Counting' = Counting BY <2>1, SameCounting
  <2>3. \A u \in Writers : WorkOK(u)'
    BY <2>1, <2>2 DEF IInv, WorkOK, FoundOK, VersionOK, Seen
  <2>4. Types' /\ LocksOK' /\ \A i \in Ids : RowOK(i)'
    BY <2>1 DEF IInv, Types, LocksOK, RowOK
  <2>5. OrderOK' /\ PairsOK' BY <2>1, <2>2 DEF IInv, OrderOK, Merges, PairsOK
  <2>. QED BY <2>3, <2>4, <2>5 DEF IInv
<1>. QED BY <1>1, <1>2, <1>3, <1>4 DEF Next

\* The inductive invariant holds.
THEOREM Invariant == Proper => (Spec => []IInv)
<1>. SUFFICES ASSUME Proper PROVE Spec => []IInv OBVIOUS
<1>1. IInv /\ [Next]_vars => IInv' BY NextInv
<1>. QED BY <1>1, InitInv, PTL DEF Spec

\* Every row that is not free is one of an edge that documents state, with
\* documents for evidence, and an extraction holds versions of rows only.
THEOREM TypeCorrect == Proper => (Spec => []TypeOK)
<1>. SUFFICES ASSUME Proper PROVE Spec => []TypeOK OBVIOUS
<1>1. IInv => TypeOK
  <2>. SUFFICES ASSUME IInv PROVE TypeOK OBVIOUS
  <2>1. \A i \in Ids : rel[i] = NoRow \/ (rel[i].link \in Links /\ rel[i].ev \subseteq Docs)
    BY RowFields DEF IInv, RowOK, Types
  <2>2. \A w \in Writers : DOMAIN write[w].rows \subseteq Ids BY WorkFields DEF IInv, Types
  <2>. QED BY <2>1, <2>2 DEF TypeOK
<1>2. Spec => []IInv BY Invariant
<1>. QED BY <1>1, <1>2, PTL

\* Whatever extractions overlap, and although none sees what the others have not
\* committed, two active targets of an exclusive edge have a conflict job, or an
\* extraction that stated one of them has still to count.
THEOREM TargetsNoticed == Proper => (Spec => []OneTarget)
<1>. SUFFICES ASSUME Proper PROVE Spec => []OneTarget OBVIOUS
<1>1. IInv => OneTarget
  <2>. SUFFICES ASSUME IInv, NEW i \in Ids, NEW j \in Ids, Rival(rel[i], rel[j])
                PROVE  \/ Slot(rel[i].link) \in jobs
                       \/ \E w \in Writers : /\ write[w].pc = "check"
                                             /\ write[w].doc \in rel[i].ev \cup rel[j].ev
    BY DEF OneTarget, Rival
  <2>1. rel[i].ev # {} /\ rel[j].ev # {} BY DEF IInv, RowOK, Rival
  <2>2. \/ Slot(rel[i].link) \in jobs
        \/ rel[i].ev \subseteq Counting \/ rel[j].ev \subseteq Counting
    BY DEF IInv, PairsOK
  <2>. QED BY <2>1, <2>2, CountingIs
<1>2. Spec => []IInv BY Invariant
<1>. QED BY <1>1, <1>2, PTL
-----------------------------------------------------------------------------
(* Walks                                                                   *)

\* The walk, level by level, and what it should find, hop by hop.
Hop(N) == {To(rel[i].link) : i \in {j \in Ids : MayWalk(j) /\ From(rel[j].link) \in N}}
FirstLevel(start) == {p \in First(start) : MayWalk(p[1])}
Further(L) == {p \in Step(L) : MayExtend(p) /\ MayWalk(Last(p))}
Level(start, n) ==
  CASE n = 1 -> FirstLevel(start)
    [] n = 2 -> Further(FirstLevel(start))
    [] OTHER -> Further(Further(FirstLevel(start)))
Near(start, n) ==
  LET one == {start} \cup Hop({start})
      two == one \cup Hop(one)
  IN  CASE n = 0 -> {start} [] n = 1 -> one [] n = 2 -> two [] OTHER -> two \cup Hop(two)

LEMMA LevelNext ==
  ASSUME NEW start, NEW n \in 2 .. 3
  PROVE  Level(start, n) = Further(Level(start, n - 1))
BY DEF Level

LEMMA NearNext ==
  ASSUME NEW start, NEW n \in 1 .. 3
  PROVE  Near(start, n) = Near(start, n - 1) \cup Hop(Near(start, n - 1))
BY DEF Near

\* The recursive definitions, unfolded.
LEMMA ReachedIs ==
  ASSUME NEW start, NEW depth \in 0 .. 3
  PROVE  Reached(start, depth) = Near(start, depth)
<1>. DEFINE Def(f) == f = [n \in 0 .. depth |-> IF n = 0 THEN {start} ELSE f[n - 1] \cup Hop(f[n - 1])]
            f == CHOOSE g : Def(g)
            near == [n \in 0 .. depth |-> Near(start, n)]
<1>1. Reached(start, depth) = f[depth] BY DEF Reached, Hop
<1>2. Near(start, 0) = {start} BY DEF Near
<1>3. \A n \in 0 .. depth : n # 0 => near[n - 1] = Near(start, n - 1) OBVIOUS
<1>4. \A n \in 0 .. depth : n # 0 => n \in 1 .. 3 OBVIOUS
<1>5. \A n \in 0 .. depth :
        Near(start, n) = IF n = 0 THEN {start} ELSE near[n - 1] \cup Hop(near[n - 1])
  BY <1>2, <1>3, <1>4, NearNext
<1>6. Def(near) BY <1>5
<1>7. Def(f) BY <1>6
<1>. HIDE DEF f, near
<1>8. \A n \in 0 .. depth : f[n] = IF n = 0 THEN {start} ELSE f[n - 1] \cup Hop(f[n - 1])
  BY <1>7
<1>9. f[0] = Near(start, 0)
  <2>1. 0 \in 0 .. depth OBVIOUS
  <2>. QED BY <1>2, <1>8, <2>1
<1>10. ASSUME NEW n \in 1 .. depth, f[n - 1] = Near(start, n - 1) PROVE f[n] = Near(start, n)
  <2>1. n \in 1 .. 3 OBVIOUS
  <2>. QED BY <1>8, <1>10, <2>1, NearNext
<1>11. CASE depth = 0 BY <1>1, <1>9, <1>11
<1>12. CASE depth = 1 BY <1>1, <1>9, <1>10, <1>12
<1>13. CASE depth = 2
  <2>1. f[1] = Near(start, 1) BY <1>9, <1>10, <1>13
  <2>. QED BY <1>1, <1>10, <1>13, <2>1
<1>14. CASE depth = 3
  <2>1. f[1] = Near(start, 1) BY <1>9, <1>10, <1>14
  <2>2. f[2] = Near(start, 2) BY <1>10, <1>14, <2>1
  <2>. QED BY <1>1, <1>10, <1>14, <2>2
<1>. QED BY <1>11, <1>12, <1>13, <1>14

LEMMA WalkIs ==
  ASSUME NEW start, NEW depth \in 1 .. 3
  PROVE  Walk(start, depth) = UNION {Level(start, n) : n \in 1 .. depth}
<1>. DEFINE Def(f) == f = [n \in 1 .. depth |-> IF n = 1 THEN FirstLevel(start) ELSE Further(f[n - 1])]
            f == CHOOSE g : Def(g)
            level == [n \in 1 .. depth |-> Level(start, n)]
<1>1. Walk(start, depth) = UNION {f[n] : n \in 1 .. depth} BY DEF Walk, FirstLevel, Further
<1>2. Level(start, 1) = FirstLevel(start) BY DEF Level
<1>3. \A n \in 1 .. depth : n # 1 => level[n - 1] = Level(start, n - 1) OBVIOUS
<1>4. \A n \in 1 .. depth : n # 1 => n \in 2 .. 3 OBVIOUS
<1>5. \A n \in 1 .. depth :
        Level(start, n) = IF n = 1 THEN FirstLevel(start) ELSE Further(level[n - 1])
  BY <1>2, <1>3, <1>4, LevelNext
<1>6. Def(level) BY <1>5
<1>7. Def(f) BY <1>6
<1>. HIDE DEF f, level
<1>8. \A n \in 1 .. depth : f[n] = IF n = 1 THEN FirstLevel(start) ELSE Further(f[n - 1])
  BY <1>7
<1>9. f[1] = Level(start, 1) BY <1>2, <1>8
<1>10. ASSUME NEW n \in 2 .. depth, f[n - 1] = Level(start, n - 1) PROVE f[n] = Level(start, n)
  <2>1. n \in 2 .. 3 OBVIOUS
  <2>. QED BY <1>8, <1>10, <2>1, LevelNext
<1>11. \A n \in 1 .. depth : f[n] = Level(start, n)
  <2>1. CASE depth = 1 BY <1>9, <2>1
  <2>2. CASE depth = 2 BY <1>9, <1>10, <2>2
  <2>3. CASE depth = 3
    <3>1. f[2] = Level(start, 2) BY <1>9, <1>10, <2>3
    <3>2. f[3] = Level(start, 3) BY <1>10, <2>3, <3>1
    <3>. QED BY <1>9, <2>3, <3>1, <3>2
  <2>. QED BY <2>1, <2>2, <2>3
<1>. QED BY <1>1, <1>11

\* A path with one more edge.
Longer(p, q, i) ==
         /\ p \in Seq(Ids) /\ Len(p) = Len(q) + 1 /\ Last(p) = i
         /\ DOMAIN p = DOMAIN q \cup {Len(p)} /\ p[Len(p)] = i
         /\ \A n \in DOMAIN q : p[n] = q[n]
         /\ SubSeq(p, 1, Len(p) - 1) = q
         /\ NodesOf(p) = NodesOf(q) \cup {To(rel[i].link)}
         /\ Last(q) \in Ids

LEMMA LongerPath ==
  ASSUME NEW q \in Seq(Ids), q # <<>>, NEW i \in Ids
  PROVE  Longer(Append(q, i), q, i)
<1>. SUFFICES ASSUME NEW p, p = Append(q, i) PROVE Longer(p, q, i) OBVIOUS
<1>1. /\ p \in Seq(Ids) /\ Len(p) = Len(q) + 1 /\ p[Len(q) + 1] = i
      /\ \A n \in 1 .. Len(q) : p[n] = q[n]
  BY AppendProperties
<1>2. Len(q) \in Nat /\ Len(q) # 0 /\ DOMAIN q = 1 .. Len(q) /\ DOMAIN p = 1 .. Len(p) BY <1>1
<1>3. DOMAIN p = DOMAIN q \cup {Len(p)} BY <1>1, <1>2
<1>4. Last(p) = i BY <1>1 DEF Last
<1>5. SubSeq(p, 1, Len(p) - 1) = q BY <1>1, <1>2
<1>6. NodesOf(p) = NodesOf(q) \cup {To(rel[i].link)}
  <2>1. p[1] = q[1] BY <1>1, <1>2
  <2>2. {To(rel[p[n]].link) : n \in DOMAIN p}
          = {To(rel[q[n]].link) : n \in DOMAIN q} \cup {To(rel[i].link)}
    BY <1>1, <1>2, <1>3
  <2>. QED BY <2>1, <2>2 DEF NodesOf
<1>7. Last(q) \in Ids BY <1>2 DEF Last
<1>. QED BY <1>1, <1>2, <1>3, <1>4, <1>5, <1>6, <1>7 DEF Longer

\* A path of n edges of the walk: the viewer may see its edges, and it ends at
\* a node within n hops.
PathOK(start, n, p) ==
  /\ p \in Seq(Ids) /\ Len(p) = n
  /\ \A k \in DOMAIN p : MayWalk(p[k])
  /\ To(rel[Last(p)].link) \in Near(start, n)

LEMMA FirstPath ==
  ASSUME NEW start, NEW i \in Ids
  PROVE  /\ <<i>> \in Seq(Ids) /\ Len(<<i>>) = 1 /\ DOMAIN <<i>> = {1} /\ <<i>>[1] = i
         /\ Last(<<i>>) = i
         /\ <<i>> \in FirstLevel(start) <=> MayWalk(i) /\ From(rel[i].link) = start
<1>1. <<i>> \in Seq(Ids) /\ Len(<<i>>) = 1 /\ DOMAIN <<i>> = {1} /\ <<i>>[1] = i OBVIOUS
<1>2. Last(<<i>>) = i BY <1>1 DEF Last
<1>3. <<i>> \in First(start) <=> rel[i].status = "active" /\ From(rel[i].link) = start
  BY DEF First
<1>. QED BY <1>1, <1>2, <1>3 DEF FirstLevel, MayWalk

LEMMA PathsOK ==
  ASSUME NEW start, NEW n \in 1 .. 3, NEW p \in Level(start, n)
  PROVE  PathOK(start, n, p)
<1>1. ASSUME NEW r \in Level(start, 1) PROVE PathOK(start, 1, r)
  <2>1. r \in FirstLevel(start) BY <1>1 DEF Level
  <2>2. PICK i \in Ids : r = <<i>> BY <2>1 DEF FirstLevel, First
  <2>3. MayWalk(i) /\ From(rel[i].link) = start BY <2>1, <2>2, FirstPath
  <2>4. To(rel[i].link) \in Near(start, 1) BY <2>3 DEF Near, Hop
  <2>. QED BY <2>2, <2>3, <2>4, FirstPath DEF PathOK
<1>2. ASSUME NEW m \in 2 .. 3, \A q \in Level(start, m - 1) : PathOK(start, m - 1, q),
             NEW r \in Level(start, m)
      PROVE  PathOK(start, m, r)
  <2>1. r \in Further(Level(start, m - 1)) BY LevelNext
  <2>2. PICK q \in Level(start, m - 1), i \in Ids : r = Append(q, i) BY <2>1 DEF Further, Step
  <2>3. q \in Seq(Ids) /\ Len(q) = m - 1 /\ q # <<>> /\ PathOK(start, m - 1, q)
    <3>1. PathOK(start, m - 1, q) BY <1>2
    <3>2. Len(q) # 0 BY <3>1 DEF PathOK
    <3>. QED BY <3>1, <3>2 DEF PathOK
  <2>4. /\ r \in Seq(Ids) /\ Len(r) = m /\ Last(r) = i
        /\ DOMAIN r = DOMAIN q \cup {Len(r)} /\ r[Len(r)] = i
        /\ \A k \in DOMAIN q : r[k] = q[k]
        /\ SubSeq(r, 1, Len(r) - 1) = q
    <3>1. q \in Seq(Ids) /\ q # <<>> /\ i \in Ids BY <2>2, <2>3
    <3>2. Longer(Append(q, i), q, i) BY <3>1, LongerPath
    <3>3. Longer(r, q, i) BY <2>2, <3>2
    <3>4. (m - 1) + 1 = m OBVIOUS
    <3>. QED BY <2>3, <3>3, <3>4 DEF Longer
  <2>5. MayWalk(i) /\ From(rel[i].link) = To(rel[Last(q)].link)
    BY <2>1, <2>4 DEF Further, MayExtend
  <2>6. \A k \in DOMAIN r : MayWalk(r[k]) BY <2>3, <2>4, <2>5 DEF PathOK
  <2>7. To(rel[i].link) \in Near(start, m)
    <3>1. To(rel[Last(q)].link) \in Near(start, m - 1) BY <2>3 DEF PathOK
    <3>2. To(rel[i].link) \in Hop(Near(start, m - 1)) BY <2>5, <3>1 DEF Hop
    <3>3. m \in 1 .. 3 OBVIOUS
    <3>. QED BY <3>2, <3>3, NearNext
  <2>. QED BY <2>4, <2>6, <2>7 DEF PathOK
<1>3. \A r \in Level(start, 2) : PathOK(start, 2, r) BY <1>1, <1>2
<1>4. \A r \in Level(start, 3) : PathOK(start, 3, r) BY <1>2, <1>3
<1>. QED BY <1>1, <1>3, <1>4

\* A node that n hops reach and fewer do not ends a path of n edges, which
\* meets only nodes within n hops: no node of a shortest path is met twice.
Arrives(start, n, v) ==
  \E p \in Level(start, n) : To(rel[Last(p)].link) = v /\ NodesOf(p) \subseteq Near(start, n)

LEMMA ShortestPath ==
  ASSUME NEW start, NEW n \in 1 .. 3, NEW v \in Near(start, n), v \notin Near(start, n - 1)
  PROVE  Arrives(start, n, v)
<1>1. ASSUME NEW u \in Near(start, 1), u \notin Near(start, 0) PROVE Arrives(start, 1, u)
  <2>1. u # start /\ u \in Hop({start}) BY <1>1 DEF Near
  <2>2. PICK i \in Ids : MayWalk(i) /\ From(rel[i].link) = start /\ u = To(rel[i].link)
    BY <2>1 DEF Hop
  <2>3. PICK p : p = <<i>> OBVIOUS
  <2>4. p \in Level(start, 1) /\ Last(p) = i /\ DOMAIN p = {1} /\ p[1] = i
    BY <2>2, <2>3, FirstPath DEF Level
  <2>5. NodesOf(p) = {start, u} BY <2>2, <2>4 DEF NodesOf
  <2>6. {start, u} \subseteq Near(start, 1) BY <2>1 DEF Near
  <2>. QED BY <2>2, <2>4, <2>5, <2>6 DEF Arrives
<1>2. ASSUME NEW m \in 2 .. 3,
             \A u \in Near(start, m - 1) : u \notin Near(start, m - 2) => Arrives(start, m - 1, u),
             NEW u \in Near(start, m), u \notin Near(start, m - 1)
      PROVE  Arrives(start, m, u)
  <2>1. m \in 1 .. 3 /\ m - 1 \in 1 .. 3 /\ (m - 1) - 1 = m - 2 OBVIOUS
  <2>2. Near(start, m) = Near(start, m - 1) \cup Hop(Near(start, m - 1)) BY <2>1, NearNext
  <2>3. Near(start, m - 1) = Near(start, m - 2) \cup Hop(Near(start, m - 2)) BY <2>1, NearNext
  <2>4. PICK i \in Ids : /\ MayWalk(i) /\ From(rel[i].link) \in Near(start, m - 1)
                         /\ u = To(rel[i].link)
    BY <1>2, <2>2 DEF Hop
  <2>5. From(rel[i].link) \notin Near(start, m - 2)
    <3>1. SUFFICES ASSUME From(rel[i].link) \in Near(start, m - 2) PROVE FALSE OBVIOUS
    <3>2. u \in Hop(Near(start, m - 2)) BY <2>4, <3>1 DEF Hop
    <3>. QED BY <1>2, <2>3, <3>2
  <2>6. PICK q \in Level(start, m - 1) : /\ To(rel[Last(q)].link) = From(rel[i].link)
                                         /\ NodesOf(q) \subseteq Near(start, m - 1)
    BY <1>2, <2>4, <2>5 DEF Arrives
  <2>7. PathOK(start, m - 1, q) BY <2>1, PathsOK
  <2>8. q \in Seq(Ids) /\ q # <<>>
    <3>1. Len(q) # 0 /\ q \in Seq(Ids) BY <2>7 DEF PathOK
    <3>. QED BY <3>1
  <2>9. PICK p : p = Append(q, i) OBVIOUS
  <2>10. /\ Last(p) = i /\ SubSeq(p, 1, Len(p) - 1) = q
         /\ NodesOf(p) = NodesOf(q) \cup {To(rel[i].link)}
    BY <2>8, <2>9, LongerPath DEF Longer
  <2>11. p \in Step(Level(start, m - 1)) BY <2>9 DEF Step
  <2>12. MayExtend(p)
    <3>1. u \notin NodesOf(q) BY <1>2, <2>6
    <3>. QED BY <2>4, <2>6, <2>10, <3>1 DEF MayExtend, MayWalk
  <2>13. p \in Level(start, m) BY <2>4, <2>10, <2>11, <2>12, LevelNext DEF Further
  <2>14. NodesOf(p) \subseteq Near(start, m) BY <1>2, <2>2, <2>4, <2>6, <2>10
  <2>. QED BY <2>4, <2>10, <2>13, <2>14 DEF Arrives
<1>3. \A u \in Near(start, 2) : u \notin Near(start, 1) => Arrives(start, 2, u) BY <1>1, <1>2
<1>4. \A u \in Near(start, 3) : u \notin Near(start, 2) => Arrives(start, 3, u) BY <1>2, <1>3
<1>5. n = 1 \/ n = 2 \/ n = 3 OBVIOUS
<1>. QED BY <1>1, <1>3, <1>4, <1>5

\* The walk ends where hops lead.
LEMMA EndsAreNear ==
  ASSUME NEW start, NEW depth \in 1 .. 3
  PROVE  {start} \cup {To(rel[Last(p)].link) : p \in Walk(start, depth)} = Near(start, depth)
<1>1. ASSUME NEW m \in 1 .. 3, NEW n \in 1 .. 3, m <= n PROVE Near(start, m) \subseteq Near(start, n)
  BY <1>1 DEF Near
<1>2. start \in Near(start, depth) BY DEF Near
<1>3. ASSUME NEW p \in Walk(start, depth) PROVE To(rel[Last(p)].link) \in Near(start, depth)
  <2>1. PICK n \in 1 .. depth : p \in Level(start, n) BY <1>3, WalkIs
  <2>2. n \in 1 .. 3 /\ n <= depth OBVIOUS
  <2>3. To(rel[Last(p)].link) \in Near(start, n) BY <2>1, <2>2, PathsOK DEF PathOK
  <2>. QED BY <1>1, <2>2, <2>3
<1>4. ASSUME NEW v \in Near(start, depth), v # start
      PROVE  \E p \in Walk(start, depth) : To(rel[Last(p)].link) = v
  <2>1. Near(start, 0) = {start} BY DEF Near
  <2>2. PICK n \in 1 .. depth : v \in Near(start, n) /\ v \notin Near(start, n - 1)
    <3>1. CASE v \in Near(start, 1) BY <1>4, <2>1, <3>1
    <3>2. CASE v \notin Near(start, 1) /\ depth = 2 BY <1>4, <3>2
    <3>3. CASE v \notin Near(start, 1) /\ depth = 3
      <4>1. CASE v \in Near(start, 2) BY <3>3, <4>1
      <4>2. CASE v \notin Near(start, 2) BY <1>4, <3>3, <4>2
      <4>. QED BY <4>1, <4>2
    <3>. QED BY <1>4, <3>1, <3>2, <3>3
  <2>3. n \in 1 .. 3 OBVIOUS
  <2>4. Arrives(start, n, v) BY <2>2, <2>3, ShortestPath
  <2>5. PICK p \in Level(start, n) : To(rel[Last(p)].link) = v BY <2>4 DEF Arrives
  <2>6. p \in Walk(start, depth) BY <2>5, WalkIs
  <2>. QED BY <2>5, <2>6
<1>. QED BY <1>2, <1>3, <1>4

\* There are finitely many paths.
LEMMA FiniteStep ==
  ASSUME Proper, NEW L, IsFiniteSet(L)
  PROVE  IsFiniteSet(Step(L))
<1>. DEFINE f == [x \in L \X Ids |-> Append(x[1], x[2])]
<1>1. IsFiniteSet(Ids) BY FS_Interval DEF Ids, Proper
<1>2. IsFiniteSet(L \X Ids) BY <1>1, FS_Product
<1>3. f \in [L \X Ids -> Step(L)] BY DEF Step
<1>4. ASSUME NEW p \in Step(L) PROVE \E x \in L \X Ids : f[x] = p
  <2>1. PICK q \in L, i \in Ids : p = Append(q, i) BY DEF Step
  <2>2. <<q, i>> \in L \X Ids /\ f[<<q, i>>] = Append(q, i) OBVIOUS
  <2>. QED BY <2>1, <2>2
<1>. HIDE DEF f
<1>5. f \in Surjection(L \X Ids, Step(L)) BY <1>3, <1>4 DEF Surjection
<1>. QED BY <1>2, <1>5, FS_Surjection

LEMMA FiniteWalk ==
  ASSUME Proper, NEW start, NEW depth \in 1 .. 3
  PROVE  IsFiniteSet(Walk(start, depth))
<1>1. IsFiniteSet(FirstLevel(start))
  <2>. DEFINE f == [i \in Ids |-> <<i>>]
              T == {<<i>> : i \in Ids}
  <2>1. IsFiniteSet(Ids) BY FS_Interval DEF Ids, Proper
  <2>2. f \in Surjection(Ids, T) BY DEF Surjection
  <2>3. IsFiniteSet(T) BY <2>1, <2>2, FS_Surjection
  <2>4. FirstLevel(start) \in SUBSET T BY DEF FirstLevel, First
  <2>. QED BY <2>3, <2>4, FS_Subset
<1>2. ASSUME NEW L, IsFiniteSet(L) PROVE IsFiniteSet(Further(L))
  <2>1. Further(L) \in SUBSET Step(L) BY DEF Further
  <2>. QED BY <1>2, <2>1, FiniteStep, FS_Subset
<1>3. \A n \in 1 .. depth : IsFiniteSet(Level(start, n)) BY <1>1, <1>2 DEF Level
<1>. DEFINE S == {Level(start, n) : n \in 1 .. depth}
<1>4. IsFiniteSet(S)
  <2>. DEFINE f == [n \in 1 .. depth |-> Level(start, n)]
  <2>1. f \in Surjection(1 .. depth, S) BY DEF Surjection
  <2>2. IsFiniteSet(1 .. depth) BY FS_Interval
  <2>. QED BY <2>1, <2>2, FS_Surjection
<1>5. \A T \in S : IsFiniteSet(T) BY <1>3
<1>. HIDE DEF S
<1>6. IsFiniteSet(UNION S) BY <1>4, <1>5, FS_UNION
<1>. QED BY <1>6, WalkIs DEF S

LEMMA LesserIs ==
  ASSUME NEW a \in Nat, NEW b \in Nat
  PROVE  Min({a, b}) = IF a <= b THEN a ELSE b
BY DEF Min

\* The paths of an answer lead over visible edges only; an answer that is not
\* cut leads to every node visible edges reach within the depth, and one that is
\* holds as many paths as the limit and misses no node nearer than they end.
THEOREM WalksHonest == Proper /\ Limits \subseteq Nat => (Spec => []PathsHonest)
<1>. SUFFICES ASSUME Proper, Limits \subseteq Nat PROVE Spec => []PathsHonest OBVIOUS
<1>1. PathsHonest
  <2>. DEFINE Told(start, depth, limit, a) ==
                LET ends == {start} \cup {To(rel[Last(p)].link) : p \in a.paths}
                IN  /\ \A p \in a.paths : \A n \in DOMAIN p : MayWalk(p[n])
                    /\ ~a.truncated => ends = Reached(start, depth)
                    /\ a.truncated =>
                         /\ Cardinality(a.paths) = limit
                         /\ \A p \in a.paths : Reached(start, Len(p) - 1) \subseteq ends
  <2>. SUFFICES ASSUME NEW start \in Nodes, NEW depth \in 1 .. 3, NEW limit \in Limits,
                       NEW a \in PathsFrom(start, depth, limit)
                PROVE  Told(start, depth, limit, a)
    BY DEF PathsHonest
  <2>. SUFFICES ASSUME NEW ends, ends = {start} \cup {To(rel[Last(p)].link) : p \in a.paths}
                PROVE  /\ \A p \in a.paths : \A n \in DOMAIN p : MayWalk(p[n])
                       /\ ~a.truncated => ends = Reached(start, depth)
                       /\ a.truncated => /\ Cardinality(a.paths) = limit
                                         /\ \A p \in a.paths : Reached(start, Len(p) - 1) \subseteq ends
    OBVIOUS
  <2>1. PICK R : R = Walk(start, depth) OBVIOUS
  <2>2. Min({depth, 3}) = depth BY LesserIs
  <2>3. PICK T \in Prefixes(R, limit) : a = [paths |-> T, truncated |-> Cardinality(R) > limit]
    BY <2>1, <2>2 DEF PathsFrom
  <2>4. a.paths = T /\ (a.truncated <=> Cardinality(R) > limit) BY <2>3
  <2>5. IsFiniteSet(R) /\ Cardinality(R) \in Nat /\ limit \in Nat
    BY <2>1, FiniteWalk, FS_CardinalityType
  <2>6. /\ T \in SUBSET R
        /\ Cardinality(T) = IF limit <= Cardinality(R) THEN limit ELSE Cardinality(R)
        /\ \A p \in T, q \in R \ T : ~Before(q, p)
    BY <2>5, LesserIs DEF Prefixes
  <2>7. ASSUME NEW p \in R
        PROVE  \E n \in 1 .. depth : n \in 1 .. 3 /\ p \in Level(start, n) /\ PathOK(start, n, p)
    <3>1. PICK n \in 1 .. depth : p \in Level(start, n) BY <2>1, <2>7, WalkIs
    <3>2. n \in 1 .. 3 OBVIOUS
    <3>. QED BY <3>1, <3>2, PathsOK
  <2>8. \A p \in T : \A n \in DOMAIN p : MayWalk(p[n]) BY <2>6, <2>7 DEF PathOK
  <2>9. ASSUME ~a.truncated PROVE ends = Reached(start, depth)
    <3>1. T = R
      <4>1. Cardinality(T) = Cardinality(R) BY <2>4, <2>5, <2>6, <2>9
      <4>. QED BY <2>5, <2>6, <4>1, FS_Subset
    <3>2. ends = Near(start, depth) BY <2>1, <2>4, <3>1, EndsAreNear
    <3>. QED BY <3>2, ReachedIs
  <2>10. ASSUME a.truncated PROVE Cardinality(a.paths) = limit BY <2>4, <2>5, <2>6, <2>10
  <2>11. ASSUME NEW p \in T PROVE Reached(start, Len(p) - 1) \subseteq ends
    <3>1. PICK n \in 1 .. depth : n \in 1 .. 3 /\ PathOK(start, n, p) BY <2>6, <2>7
    <3>2. Len(p) = n BY <3>1 DEF PathOK
    <3>3. CASE n = 1
      <4>1. Reached(start, 0) = {start}
        <5>1. 0 \in 0 .. 3 OBVIOUS
        <5>2. Reached(start, 0) = Near(start, 0) BY <5>1, ReachedIs
        <5>3. Near(start, 0) = {start} BY DEF Near
        <5>. QED BY <5>2, <5>3
      <4>. QED BY <3>2, <3>3, <4>1
    <3>4. CASE n # 1
      <4>1. n - 1 \in 1 .. 3 /\ n - 1 \in 0 .. 3 BY <3>1, <3>4
      <4>2. Reached(start, n - 1) = {start} \cup {To(rel[Last(q)].link) : q \in Walk(start, n - 1)}
        BY <4>1, ReachedIs, EndsAreNear
      <4>3. ASSUME NEW q \in Walk(start, n - 1) PROVE q \in T
        <5>1. PICK m \in 1 .. n - 1 : q \in Level(start, m) BY <4>1, <4>3, WalkIs
        <5>2. m \in 1 .. 3 /\ m \in 1 .. depth /\ m < n BY <3>1, <5>1
        <5>3. Len(q) = m BY <5>1, <5>2, PathsOK DEF PathOK
        <5>4. q \in R BY <2>1, <5>1, <5>2, WalkIs
        <5>5. Before(q, p) BY <3>2, <5>2, <5>3 DEF Before
        <5>. QED BY <2>6, <5>4, <5>5
      <4>. QED BY <2>4, <3>2, <4>2, <4>3
    <3>. QED BY <3>3, <3>4
  <2>. QED BY <2>4, <2>8, <2>9, <2>10, <2>11
<1>. QED BY <1>1, PTL
=============================================================================
