-------------------------------- MODULE Paths --------------------------------
(***************************************************************************)
(* Relationship rows and the bounded walk over them.  A window of an       *)
(* extraction adds or merges an edge and closes the rivals of an exclusive *)
(* type in one transaction; the handler counts the targets afterwards and  *)
(* asks for a conflict job.  Relationships have no unique index and the    *)
(* search for a duplicate takes no lock.  Deletes come between the windows *)
(* (FactSlot interleaves them).  The walk is the recursive query of        *)
(* paths_from, for one viewer, at the current time.                        *)
(***************************************************************************)
EXTENDS Naturals, Sequences, FiniteSets, FiniteSetsExt

CONSTANTS
  Links,      \* edges documents may state: from, to, type
  Exclusive,  \* mutually exclusive types
  Docs,       \* documents, numbered by event_time
  Writers,    \* concurrent extractions
  Limits,
  MaxRows     \* bound: relationship rows

VARIABLES
  rel,    \* committed rows
  shown,  \* documents the viewer may see
  write,  \* an extraction: its link and document, the row it found as it read
          \* it, its uncommitted row versions, and the slot as it saw it
  jobs    \* slots with a resolve_relationship_conflict job

vars == <<rel, shown, write, jobs>>

Ids == 1 .. MaxRows
NoRow == [link |-> <<>>, status |-> "absent", ev |-> {}]
Off == [pc |-> "off", link |-> <<>>, doc |-> 0, id |-> 0, base |-> NoRow,
        rows |-> <<>>, slot |-> {}]
From(l) == l[1]  To(l) == l[2]  Type(l) == l[3]
Slot(l) == <<From(l), Type(l)>>

Init ==
  /\ rel = [i \in Ids |-> NoRow] /\ shown \in SUBSET Docs
  /\ write = [w \in Writers |-> Off] /\ jobs = {}

-----------------------------------------------------------------------------
(* Writing edges                                                           *)

Locked(i, w) == \E v \in Writers \ {w} : i \in DOMAIN write[v].rows
InSlot(rows, s) == {i \in Ids : rows[i].status = "active" /\ Slot(rows[i].link) = s}
\* The table as w sees it, its own versions over the committed ones.
View(own) == [i \in Ids |-> IF i \in DOMAIN own THEN own[i] ELSE rel[i]]

\* rank_conflict_candidates
Stronger(rows, i, j) ==
  LET key(k) == <<IF Cardinality(rows[k].ev) >= 2 THEN 1 ELSE 0,
                  Max({0} \cup rows[k].ev), k>>
      a == key(i)  b == key(j)
  IN  a[1] > b[1] \/ (a[1] = b[1] /\ (a[2] > b[2] \/ (a[2] = b[2] /\ a[3] > b[3])))
\* The rows S of a slot after all but the strongest target have been closed.
Closed(rows, S) ==
  LET keep == CHOOSE i \in S : \A j \in S \ {i} : Stronger(rows, i, j)
  IN  [i \in S |-> IF To(rows[i].link) = To(rows[keep].link) THEN rows[i]
                   ELSE [rows[i] EXCEPT !.status = "superseded"]]

\* find_relationship: any row of the edge but a superseded one, unlocked.
Find(w, l, d) ==
  /\ write[w].pc = "off"
  /\ LET F == {i \in Ids : rel[i].link = l /\ rel[i].status # "superseded"}
     IN \E i \in IF F = {} THEN {0} ELSE F :
          write' = [write EXCEPT ![w] = [Off EXCEPT !.pc = "add", !.link = l, !.doc = d,
                      !.id = i, !.base = IF i = 0 THEN NoRow ELSE rel[i]]]
  /\ UNCHANGED <<rel, shown, jobs>>

\* add_relationship, with the evidence as read.  The statement that closes the
\* slot sees what is committed now, and waits for the rows others have written.
Add(w) ==
  LET x == write[w]
      i == IF x.id > 0 THEN x.id
           ELSE Min({k \in Ids : rel[k] = NoRow /\ ~Locked(k, w)} \cup {MaxRows + 1})
      mine == IF x.id = 0 THEN [link |-> x.link, status |-> "active", ev |-> {x.doc}]
              ELSE [rel[i] EXCEPT !.ev = x.base.ev \cup {x.doc},
                                  !.status = IF x.base.status = "active" THEN @ ELSE "active"]
      own == [k \in {i} |-> mine]
      exclusive == Type(x.link) \in Exclusive
  IN  /\ x.pc = "add" /\ i \in Ids /\ ~Locked(i, w)
      /\ write' = [write EXCEPT ![w] =
                     [x EXCEPT !.pc = IF exclusive THEN "close" ELSE "commit", !.rows = own,
                               !.slot = IF exclusive THEN InSlot(View(own), Slot(x.link)) ELSE {}]]
      /\ UNCHANGED <<rel, shown, jobs>>

\* eager_close_relationship_slot: the rows it has seen, if they are active still.
Close(w) ==
  LET x == write[w]
      now == View(x.rows)
      S == x.slot \cap InSlot(now, Slot(x.link))
      closed == IF S = {} THEN <<>> ELSE Closed(now, S)
  IN  /\ x.pc = "close" /\ \A k \in x.slot : ~Locked(k, w)
      /\ write' = [write EXCEPT ![w] =
                     [x EXCEPT !.pc = "commit", !.slot = {},
                               !.rows = [k \in DOMAIN x.rows \cup S |->
                                           IF k \in S THEN closed[k] ELSE x.rows[k]]]]
      /\ UNCHANGED <<rel, shown, jobs>>

Commit(w) ==
  /\ write[w].pc = "commit"
  /\ rel' = View(write[w].rows)
  /\ write' = [write EXCEPT ![w] = [Off EXCEPT !.pc = "check", !.doc = write[w].doc]]
  /\ UNCHANGED <<shown, jobs>>

\* _enqueue_exclusive_relationship_conflicts: slots of active edges that the
\* document is evidence of, with more than one target.
Touched(d) == {Slot(rel[i].link) : i \in {j \in Ids : /\ rel[j].status = "active"
                                                     /\ d \in rel[j].ev
                                                     /\ Type(rel[j].link) \in Exclusive}}
Targets(s) == {To(rel[i].link) : i \in InSlot(rel, s)}
\* Mutant: one target more than the type allows is let pass.
ContestedByMany(d) == {s \in Touched(d) : Cardinality(Targets(s)) > 2}
Contested(d) == {s \in Touched(d) : Cardinality(Targets(s)) > 1}

\* A handler that fails here is tried again, and finds its window applied.
Check(w) ==
  /\ write[w].pc = "check"
  /\ jobs' = jobs \cup Contested(write[w].doc) /\ write' = [write EXCEPT ![w] = Off]
  /\ UNCHANGED <<rel, shown>>

Abort(w) ==
  /\ write[w].pc \in {"add", "close", "commit"} /\ write' = [write EXCEPT ![w] = Off]
  /\ UNCHANGED <<rel, shown, jobs>>

\* handle_resolve_relationship_conflict: the same ranking, under row locks.
Resolve(s) ==
  /\ s \in jobs /\ jobs' = jobs \ {s}
  /\ \A i \in InSlot(rel, s) : \A w \in Writers : i \notin DOMAIN write[w].rows
  /\ rel' = IF Cardinality(Targets(s)) < 2 THEN rel
            ELSE [i \in Ids |-> IF i \in InSlot(rel, s) THEN Closed(rel, InSlot(rel, s))[i]
                                ELSE rel[i]]
  /\ UNCHANGED <<shown, write>>

\* remove_document_evidence
Delete(d) ==
  /\ \A w \in Writers : write[w].pc \in {"off", "check"}
  /\ \E i \in Ids : rel[i].status = "active" /\ d \in rel[i].ev
  /\ rel' = [i \in Ids |->
       IF rel[i].status # "active" THEN rel[i]
       ELSE [rel[i] EXCEPT !.ev = @ \ {d},
                           !.status = IF rel[i].ev = {d} THEN "retracted" ELSE @]]
  /\ UNCHANGED <<shown, write, jobs>>

Next ==
  \/ \E w \in Writers : Add(w) \/ Close(w) \/ Commit(w) \/ Check(w) \/ Abort(w)
                        \/ \E l \in Links, d \in Docs : Find(w, l, d)
  \/ \E s \in {Slot(l) : l \in Links} : Resolve(s)
  \/ \E d \in Docs : Delete(d)

Spec == Init /\ [][Next]_vars

TypeOK ==
  /\ \A i \in Ids : rel[i] = NoRow \/ (rel[i].link \in Links /\ rel[i].ev \subseteq Docs)
  /\ \A w \in Writers : DOMAIN write[w].rows \subseteq Ids

-----------------------------------------------------------------------------
(* paths_from                                                              *)

\* _EDGE_ACL_SQL: every document of the evidence is visible.
MayWalk(i) == rel[i].status = "active" /\ rel[i].ev # {} /\ rel[i].ev \subseteq shown

Last(p) == p[Len(p)]
NodesOf(p) == {From(rel[p[1]].link)} \cup {To(rel[p[n]].link) : n \in DOMAIN p}
First(start) == {<<i>> : i \in {j \in Ids : rel[j].status = "active" /\ From(rel[j].link) = start}}
Step(P) == {Append(p, i) : p \in P, i \in Ids}
\* One more hop: no node of the path is entered again.
MayExtend(p) ==
  LET i == Last(p)  q == SubSeq(p, 1, Len(p) - 1)
  IN  /\ rel[i].status = "active" /\ From(rel[i].link) = To(rel[Last(q)].link)
      /\ To(rel[i].link) \notin NodesOf(q)
Walk(start, depth) ==
  LET level[n \in 1 .. depth] ==
        IF n = 1 THEN {p \in First(start) : MayWalk(p[1])}
        ELSE {p \in Step(level[n - 1]) : MayExtend(p) /\ MayWalk(Last(p))}
  IN  UNION {level[n] : n \in 1 .. depth}

\* ORDER BY depth, relationship_id LIMIT n: ties fall either way.
Before(p, q) == Len(p) < Len(q) \/ (Len(p) = Len(q) /\ Last(p) < Last(q))
Prefixes(R, n) ==
  {T \in SUBSET R : /\ Cardinality(T) = Min({n, Cardinality(R)})
                    /\ \A p \in T, q \in R \ T : ~Before(q, p)}

\* Mutant: the limit is applied before the visibility of the evidence.
PathsFromLimitFirst(start, depth, limit) ==
  LET level[n \in 1 .. depth] ==
        IF n = 1 THEN First(start) ELSE {p \in Step(level[n - 1]) : MayExtend(p)}
      open(R) == {p \in R : \A n \in DOMAIN p : MayWalk(p[n])}
  IN  {[paths |-> open(T), truncated |-> Cardinality(open(T)) > limit] :
         T \in Prefixes(UNION {level[n] : n \in 1 .. depth}, limit + 1)}

\* One more row than the limit is fetched, to tell whether it cut anything.
PathsFrom(start, depth, limit) ==
  LET R == Walk(start, Min({depth, 3}))
      over == Cardinality(R) > limit
  IN  {[paths |-> T, truncated |-> over] : T \in Prefixes(R, limit)}

-----------------------------------------------------------------------------
(* Properties                                                              *)

Nodes == {From(l) : l \in Links} \cup {To(l) : l \in Links}
\* Nodes that visible edges reach in 1 to n hops, found node by node.
Reached(start, depth) ==
  LET hop(N) == {To(rel[i].link) : i \in {j \in Ids : MayWalk(j) /\ From(rel[j].link) \in N}}
      reach[n \in 0 .. depth] == IF n = 0 THEN {start} ELSE reach[n - 1] \cup hop(reach[n - 1])
  IN  reach[depth]

\* The paths of an answer lead over visible edges only; an answer that is not
\* truncated leads to every node visible edges reach within the depth; one
\* that is holds as many paths as the limit and leads to every node nearer
\* than its longest path.  Edges the viewer may not see cost nothing.
PathsHonest ==
  \A start \in Nodes, depth \in 1 .. 3, limit \in Limits :
    \A a \in PathsFrom(start, depth, limit) :
      LET ends == {start} \cup {To(rel[Last(p)].link) : p \in a.paths}
      IN  /\ \A p \in a.paths : \A n \in DOMAIN p : MayWalk(p[n])
          /\ ~a.truncated => ends = Reached(start, depth)
          /\ a.truncated => /\ Cardinality(a.paths) = limit
                            /\ \A p \in a.paths : Reached(start, Len(p) - 1) \subseteq ends

\* An edge has one row that is not superseded.
NoTwinEdges ==
  \A i, j \in Ids : i # j /\ rel[i].status # "superseded" /\ rel[i] # NoRow
    => rel[j].status = "superseded" \/ rel[j].link # rel[i].link

\* An exclusive relationship has one active target, or a job to decide it, or
\* an extraction that has still to count, whatever the overlap of the windows
\* and although each sees the slot without what the others have not committed.
OneTarget ==
  \A i, j \in Ids :
    /\ rel[i].status = "active" /\ rel[j].status = "active"
    /\ Slot(rel[i].link) = Slot(rel[j].link) /\ Type(rel[i].link) \in Exclusive
    => \/ To(rel[i].link) = To(rel[j].link) \/ Slot(rel[i].link) \in jobs
       \/ \E w \in Writers : write[w].pc = "check" /\ write[w].doc \in rel[i].ev \cup rel[j].ev

\* Of every step: a document that is read into an edge stays in its evidence
\* until it is deleted.
EvidenceKept ==
  [][\A i \in Ids, d \in Docs :
       d \in rel[i].ev /\ d \notin rel'[i].ev /\ rel[i].status = "active"
         => write' = write]_vars
=============================================================================
