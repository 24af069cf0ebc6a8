-------------------------------- MODULE Memory --------------------------------
(***************************************************************************)
(* Procedural memories: an agent's creation checks its evidence, calls the *)
(* model and the embedder, inserts the row and supersedes the active rows  *)
(* of its key that it sees.  Spend is booked apart (Spend).                *)
(***************************************************************************)
EXTENDS Naturals, Sequences, FiniteSets

CONSTANTS
  Keys, Docs, People,
  Requests,    \* creations in progress at one time
  MaxMemories  \* bound

VARIABLES
  rows,   \* memories in order of their commits: key, by, acl, ev, status, next
  shown,  \* documents each viewer may see
  work    \* what a request creates, and the rows it has found to supersede

vars == <<rows, shown, work>>

Off == [pc |-> "off", key |-> "", by |-> "", acl |-> {}, ev |-> {}, old |-> {}]

Init ==
  /\ rows = <<>> /\ shown = [p \in People |-> Docs]
  /\ work = [r \in Requests |-> Off]

-----------------------------------------------------------------------------
(* create                                                                  *)

\* The checks: the viewer is in the access list and sees every document.
Start(r, p, k, acl, ev) ==
  /\ work[r].pc = "off" /\ ev # {} /\ p \in acl /\ ev \subseteq shown[p]
  /\ work' = [work EXCEPT ![r] = [Off EXCEPT !.pc = "call", !.key = k, !.by = p,
                                                !.acl = acl, !.ev = ev]]
  /\ UNCHANGED <<rows, shown>>

\* The model fails, or its answer does not refer to the events; or the embedder.
Fail(r) ==
  /\ work[r].pc # "off" /\ work' = [work EXCEPT ![r] = Off]
  /\ UNCHANGED <<rows, shown>>

\* Mutant: the creator is left out of the search.
ActiveForAnyone(k, p) == {i \in DOMAIN rows : rows[i].key = k /\ rows[i].status = "active"}
\* active_for_key: committed rows of the creator's own.
ActiveForKey(k, p) ==
  {i \in DOMAIN rows : rows[i].key = k /\ rows[i].by = p /\ rows[i].status = "active"}

\* INSERT, flush, and the search.
Insert(r) ==
  /\ work[r].pc = "call"
  /\ work' = [work EXCEPT ![r].pc = "commit",
                          ![r].old = ActiveForKey(work[r].key, work[r].by)]
  /\ UNCHANGED <<rows, shown>>

\* Rows found active are superseded, whoever has superseded them since.
Commit(r) ==
  LET new == Len(rows) + 1
  IN  /\ work[r].pc = "commit" /\ new <= MaxMemories
      /\ rows' = Append([i \in DOMAIN rows |->
                           IF i \in work[r].old
                             THEN [rows[i] EXCEPT !.status = "superseded", !.next = new]
                             ELSE rows[i]],
                        [key |-> work[r].key, by |-> work[r].by, acl |-> work[r].acl,
                         ev |-> work[r].ev, status |-> "active", next |-> 0])
      /\ work' = [work EXCEPT ![r] = Off]
      /\ UNCHANGED shown

\* Permissions and documents change while requests wait for their vendors.
Permit(p, d) ==
  /\ shown' = [shown EXCEPT ![p] = IF d \in @ THEN @ \ {d} ELSE @ \cup {d}]
  /\ UNCHANGED <<rows, work>>

Next ==
  \/ \E r \in Requests : Insert(r) \/ Commit(r) \/ Fail(r)
       \/ \E p \in People, k \in Keys, acl \in SUBSET People, ev \in SUBSET Docs :
            Start(r, p, k, acl, ev)
  \/ \E p \in People, d \in Docs : Permit(p, d)

Spec == Init /\ [][Next]_vars

TypeOK ==
  /\ \A i \in DOMAIN rows : rows[i].status \in {"active", "superseded"} /\ rows[i].next <= Len(rows)
  /\ \A r \in Requests : work[r].old \subseteq DOMAIN rows

-----------------------------------------------------------------------------
(* search_candidates, and the properties                                   *)

\* Active, in the viewer's access list, every document of the evidence visible.
Recall(p) ==
  {i \in DOMAIN rows : rows[i].status = "active" /\ p \in rows[i].acl
                       /\ rows[i].ev \subseteq shown[p]}

\* Whatever overlaps, the last memory that a creator has committed under a key
\* can be recalled by every viewer of its access list who sees its evidence,
\* and a superseded one leads to a later active one of its key and creator.
LastIsRecalled ==
  \A i \in DOMAIN rows :
    LET like(j) == rows[j].key = rows[i].key /\ rows[j].by = rows[i].by
    IN  /\ (\A j \in DOMAIN rows : j > i => ~like(j)) =>
             \A p \in rows[i].acl : rows[i].ev \subseteq shown[p] => i \in Recall(p)
        /\ rows[i].status = "superseded" => rows[i].next > i /\ like(rows[i].next)

\* A key of a creator has one active memory.
OneActivePerKey ==
  \A i, j \in DOMAIN rows : i # j /\ rows[i].status = "active" /\ rows[j].status = "active"
    => rows[i].key # rows[j].key \/ rows[i].by # rows[j].by
=============================================================================
