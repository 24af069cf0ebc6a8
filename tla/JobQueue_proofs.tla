---------------------------- MODULE JobQueue_proofs ----------------------------
(* Proofs about JobQueue, for every set of keys, workers, producers and      *)
(* admins and every value of the bounds.                                     *)
EXTENDS JobQueue, TLAPS

LEMMA InitInv == Init => IInv
  BY QueueAssumption
  DEF Init, IInv, TypeOK, RowInv, AttemptInv, HolderInv, SearchInv, UniqueInv,
      RequestInv, AdminInv, NoLostRequest, NoRow, NoOp, Row, Statuses, Stages,
      Procs, Ids, IsOpen, OpenStatuses

\* The helpers on rows keep the type and touch only what their name says.
LEMMA RefreshedRow ==
  ASSUME NEW r \in Row
  PROVE  /\ Refreshed(r) \in Row
         /\ Refreshed(r).key = r.key
         /\ Refreshed(r).status = r.status
         /\ Refreshed(r).attempts = r.attempts
  BY DEF Refreshed, RunAfter, Row

LEMMA NewRowRow ==
  ASSUME NEW k \in Keys
  PROVE  /\ NewRow(k) \in Row /\ NewRow(k).key = k
         /\ NewRow(k).status = "pending" /\ NewRow(k).attempts = 0
  BY QueueAssumption DEF NewRow, RunAfter, Row, Statuses

LEMMA FailedRow ==
  ASSUME NEW r \in Row
  PROVE  /\ Failed(r) \in Row
         /\ Failed(r).key = r.key
         /\ Failed(r).attempts = r.attempts
         /\ \/ Failed(r).status = "dead" /\ r.attempts = MaxAttempts
            \/ Failed(r).status = "pending" /\ r.attempts < MaxAttempts
<1>1. r.attempts \in 0 .. MaxAttempts BY DEF Row
<1>2. CASE r.attempts >= MaxAttempts
  BY <1>1, <1>2, QueueAssumption DEF Failed, Row, Statuses
<1>3. CASE ~(r.attempts >= MaxAttempts)
  <2>1. r.attempts < MaxAttempts BY <1>1, <1>3, QueueAssumption
  <2>2. Failed(r) = [r EXCEPT !.status = "pending", !.due = FALSE]
    BY <1>3 DEF Failed
  <2>. QED BY <2>1, <2>2 DEF Row, Statuses
<1>. QED BY <1>2, <1>3

LEMMA RequeuedRow ==
  ASSUME NEW r \in Row
  PROVE  /\ Requeued(r) \in Row /\ Requeued(r).key = r.key
         /\ Requeued(r).status = "pending" /\ Requeued(r).attempts = 0
<1>1. 0 \in 0 .. MaxAttempts BY QueueAssumption
<1>. QED BY <1>1 DEF Requeued, Row, Statuses

LEMMA StatusRow ==
  ASSUME NEW r \in Row, NEW st \in Statuses
  PROVE  /\ [r EXCEPT !.status = st] \in Row
         /\ [r EXCEPT !.status = st].key = r.key
         /\ [r EXCEPT !.status = st].status = st
         /\ [r EXCEPT !.status = st].attempts = r.attempts
  BY DEF Row

LEMMA DueRow ==
  ASSUME NEW r \in Row
  PROVE  /\ [r EXCEPT !.due = TRUE] \in Row
         /\ [r EXCEPT !.due = TRUE].key = r.key
         /\ [r EXCEPT !.due = TRUE].status = r.status
         /\ [r EXCEPT !.due = TRUE].attempts = r.attempts
  BY DEF Row

\* Begin only opens a transaction.
LEMMA BeginInv ==
  ASSUME IInv, NEW p \in Procs, Begin(p)
  PROVE  IInv'
<1>. USE QueueAssumption DEF Begin, IInv, Stages
<1>1. TypeOK' BY DEF TypeOK, Procs
<1>2. RowInv' BY DEF RowInv
<1>3. AttemptInv' BY DEF AttemptInv
<1>4. HolderInv' BY DEF HolderInv, TypeOK, Procs
<1>5. SearchInv' BY DEF SearchInv, KeyOf, Closed, HolderInv, Procs, TypeOK
<1>6. UniqueInv' BY DEF UniqueInv, IsOpen
<1>7. RequestInv' BY DEF RequestInv
<1>8. AdminInv' BY DEF AdminInv
<1>9. NoLostRequest' BY DEF NoLostRequest, IsOpen
<1>. QED BY <1>1, <1>2, <1>3, <1>4, <1>5, <1>6, <1>7, <1>8, <1>9

\* A rollback leaves the committed rows as they are and lets go of the rest.
LEMMA RollbackInv ==
  ASSUME IInv, NEW p \in Procs, stage[p] # "idle", Rollback(p), UNCHANGED adm,
         spent' \in [txns : Nat, crashes : Nat, adminOps : Nat, passes : Nat]
  PROVE  IInv'
<1>. USE QueueAssumption DEF Rollback, Discard, Finish, EndWork, IInv
<1>1. TypeOK' BY DEF TypeOK, Procs, Stages, KeyOf
<1>2. RowInv' BY DEF RowInv, TypeOK
<1>3. AttemptInv' BY DEF AttemptInv, TypeOK
<1>4. HolderInv' BY DEF HolderInv, TypeOK, Procs
<1>5. SearchInv' BY DEF SearchInv, KeyOf, Closed, HolderInv, Procs, TypeOK
<1>6. UniqueInv' BY DEF UniqueInv, IsOpen, TypeOK, RowInv
<1>7. RequestInv' BY DEF RequestInv, TypeOK
<1>8. AdminInv' BY DEF AdminInv
<1>9. NoLostRequest' BY DEF NoLostRequest, IsOpen, OpenStatuses, HolderInv, KeyOf, TypeOK
<1>. QED BY <1>1, <1>2, <1>3, <1>4, <1>5, <1>6, <1>7, <1>8, <1>9

\* The search changes nothing but what the process waits for.
LEMMA FindDuplicateInv ==
  ASSUME IInv, NEW p \in Procs, NEW k \in Keys, FindDuplicate(p, k)
  PROVE  IInv'
<1>. USE QueueAssumption DEF FindDuplicate, IInv
<1>1. TypeOK' BY DEF TypeOK, Procs, Stages, OpenFor, Closed
<1>2. RowInv' BY DEF RowInv, TypeOK
<1>3. AttemptInv' BY DEF AttemptInv, TypeOK
<1>4. HolderInv' BY DEF HolderInv, TypeOK, Procs
<1>5. SearchInv' BY SMTT(30) DEF SearchInv, TypeOK, OpenFor, Seen, IsOpen, OpenStatuses, MayEnqueue, RowInv, HolderInv, Closed, KeyOf, Procs
<1>6. UniqueInv' BY DEF UniqueInv, IsOpen, TypeOK, RowInv
<1>7. RequestInv' BY DEF RequestInv, TypeOK
<1>8. AdminInv' BY DEF AdminInv
<1>9. NoLostRequest' BY DEF NoLostRequest, IsOpen, TypeOK
<1>. QED BY <1>1, <1>2, <1>3, <1>4, <1>5, <1>6, <1>7, <1>8, <1>9

\* The refreshed row is pending and has the key that is enqueued.
LEMMA RefreshDuplicateInv ==
  ASSUME IInv, NEW p \in Procs, RefreshDuplicate(p)
  PROVE  IInv'
<1>. USE QueueAssumption DEF RefreshDuplicate, Enqueued, IInv
<1>. DEFINE i == found[p]
            r == Seen(p, i)
<1>1. /\ i \in Ids /\ r \in Row /\ r.key = target[p] /\ target[p] \in Keys
      /\ jobs[i].status # "absent" /\ jobs[i].key = target[p]
  BY DEF SearchInv, Seen, TypeOK, RowInv
<1>2. p \in Workers => i # current[p]
  BY <1>1 DEF SearchInv, KeyOf, Closed, Seen, IsOpen, OpenStatuses, HolderInv
<1>3. r.status = "pending" /\ r.attempts < MaxAttempts
  BY <1>1, <1>2 DEF Seen, IsOpen, OpenStatuses, RowInv, HolderInv, AttemptInv, CanLock
<1>. DEFINE n == Refreshed(r)
<1>4. n \in Row /\ n.key = target[p] /\ n.status = "pending" /\ n.attempts < MaxAttempts
  BY <1>1, <1>3, RefreshedRow
<1>5. /\ draft' = [draft EXCEPT ![i] = n] /\ holder' = [holder EXCEPT ![i] = p]
      /\ holder[i] \in {None, p}
  BY DEF CanLock
<1>. HIDE DEF n, r, i
<1>6. TypeOK'
  <2>. draft \in [Ids -> Row] /\ holder \in [Ids -> Procs \cup {None}] BY DEF TypeOK
  <2>1. draft' \in [Ids -> Row] BY ONLY draft \in [Ids -> Row], <1>4, <1>5
  <2>2. holder' \in [Ids -> Procs \cup {None}]
    BY ONLY holder \in [Ids -> Procs \cup {None}], p \in Procs, <1>5
  <2>3. req' \in [Procs -> SUBSET Keys] BY <1>1 DEF TypeOK
  <2>. QED BY <2>1, <2>2, <2>3 DEF TypeOK, Stages
<1>7. RowInv' BY <1>1, <1>4, <1>5 DEF RowInv, TypeOK, Procs
<1>8. AttemptInv' BY <1>1, <1>4, <1>5 DEF AttemptInv, TypeOK
<1>9. HolderInv' BY <1>1, <1>2, <1>4, <1>5 DEF HolderInv, TypeOK, Procs
<1>10. SearchInv' BY <1>1, <1>2, <1>4, <1>5 DEF SearchInv, TypeOK, KeyOf, Closed, Procs, HolderInv
<1>11. UniqueInv'
  <2>1. IsOpen(jobs[i]) \/ holder[i] = p
    BY <1>1, <1>3, <1>5 DEF r, Seen, IsOpen, OpenStatuses
  <2>2. holder[i] # p => draft[i] = jobs[i]
    BY <1>1, <1>5 DEF RowInv
  <2>3. IsOpen(draft[i]) /\ draft[i].key = target[p]
    BY <1>1, <1>3, <1>5, <2>2 DEF r, Seen, IsOpen, OpenStatuses, RowInv
  <2>. QED BY <1>1, <1>4, <1>5, <2>3 DEF UniqueInv, TypeOK, Procs
<1>12. RequestInv'
  <2>. SUFFICES ASSUME NEW q \in Procs, NEW x \in req'[q]
                PROVE  \E j \in Ids : holder'[j] = q /\ draft'[j].key = x /\ draft'[j].status = "pending"
    BY DEF RequestInv
  <2>1. CASE q = p /\ x = target[p] BY <1>1, <1>4, <1>5, <2>1 DEF TypeOK
  <2>2. CASE x \in req[q]
    <3>1. PICK j \in Ids : holder[j] = q /\ draft[j].key = x /\ draft[j].status = "pending"
      BY <2>2 DEF RequestInv
    <3>2. CASE j # i BY <1>5, <3>1, <3>2 DEF TypeOK
    <3>3. CASE j = i
      <4>1. q = p BY <1>5, <3>1, <3>3 DEF Procs
      <4>2. x = target[p] BY <1>1, <3>1, <3>3 DEF RowInv
      <4>. QED BY <1>1, <1>4, <1>5, <4>1, <4>2 DEF TypeOK
    <3>. QED BY <3>2, <3>3
  <2>. QED BY <2>1, <2>2 DEF TypeOK
<1>13. AdminInv' BY DEF AdminInv
<1>14. NoLostRequest' BY DEF NoLostRequest, IsOpen
<1>. QED BY <1>6, <1>7, <1>8, <1>9, <1>10, <1>11, <1>12, <1>13, <1>14

\* The wait ends with nothing found.
LEMMA DuplicateGoneInv ==
  ASSUME IInv, NEW p \in Procs, DuplicateGone(p)
  PROVE  IInv'
<1>. USE QueueAssumption DEF DuplicateGone, IInv
<1>1. TypeOK' BY SMTT(30) DEF TypeOK, Procs, Stages, KeyOf
<1>2. RowInv' BY DEF RowInv, TypeOK
<1>3. AttemptInv' BY DEF AttemptInv, TypeOK
<1>4. HolderInv' BY DEF HolderInv, TypeOK, Procs
<1>5. SearchInv' BY DEF SearchInv, KeyOf, Closed, HolderInv, Procs, TypeOK
<1>6. UniqueInv' BY DEF UniqueInv, IsOpen, TypeOK, RowInv
<1>7. RequestInv' BY DEF RequestInv, TypeOK
<1>8. AdminInv' BY DEF AdminInv
<1>9. NoLostRequest' BY DEF NoLostRequest, IsOpen, TypeOK
<1>. QED BY <1>1, <1>2, <1>3, <1>4, <1>5, <1>6, <1>7, <1>8, <1>9

\* The inserted row has a key of which there is no other open row.
LEMMA InsertInv ==
  ASSUME IInv, NEW p \in Procs, Insert(p)
  PROVE  IInv'
<1>. USE QueueAssumption DEF Insert, Enqueued, IInv
<1>. DEFINE k == target[p]
            n == NewRow(k)
<1>1. k \in Keys /\ k \notin req[p] /\ (p \in Workers /\ k = KeyOf(p) => Closed(p))
  BY DEF SearchInv
<1>2. n \in Row /\ n.key = k /\ n.status = "pending" /\ n.attempts < MaxAttempts
  BY <1>1, NewRowRow
<1>3. PICK i \in Ids : /\ draft[i] = NoRow /\ holder[i] = None
                       /\ holder' = [holder EXCEPT ![i] = p]
                       /\ draft' = [draft EXCEPT ![i] = n]
  OBVIOUS
<1>4. jobs[i] = NoRow /\ jobs[i].status = "absent" /\ draft[i].status = "absent"
  BY <1>3 DEF RowInv, NoRow
<1>5. \A j \in Ids : draft[j].key = k => ~IsOpen(jobs[j]) \/ holder[j] = p
  BY DEF Rivals, Live
<1>6. \A j \in Ids : draft[j].key = k => ~IsOpen(draft[j])
  <2>. SUFFICES ASSUME NEW j \in Ids, draft[j].key = k, IsOpen(draft[j]) PROVE FALSE
    OBVIOUS
  <2>1. holder[j] = p BY DEF Rivals, Live
  <2>2. p \in Workers /\ j = current[p] BY <1>1, <2>1 DEF HolderInv
  <2>3. draft[j].key = jobs[j].key BY <2>2 DEF HolderInv, RowInv, Procs
  <2>. QED BY <1>1, <2>2, <2>3 DEF KeyOf, Closed, IsOpen, OpenStatuses
<1>. HIDE DEF n, k
<1>. p # None BY DEF Procs
<1>7. TypeOK'
  <2>1. draft' \in [Ids -> Row] /\ holder' \in [Ids -> Procs \cup {None}]
    BY <1>1, <1>2, <1>3 DEF TypeOK
  <2>2. req' \in [Procs -> SUBSET Keys] BY <1>1 DEF TypeOK, k
  <2>. QED BY <2>1, <2>2 DEF TypeOK, Stages
<1>8. RowInv' BY <1>1, <1>2, <1>3, <1>4 DEF RowInv, TypeOK
<1>9. AttemptInv' BY <1>2, <1>3 DEF AttemptInv, TypeOK
<1>10. HolderInv' BY <1>2, <1>3, <1>4 DEF HolderInv, TypeOK, Procs, k
<1>11. SearchInv' BY <1>3, <1>4 DEF SearchInv, TypeOK, KeyOf, Closed, Procs, HolderInv
<1>12. UniqueInv'
  <2>. SUFFICES ASSUME NEW a \in Ids, NEW b \in Ids, a # b
                PROVE  /\ IsOpen(jobs[a]) /\ IsOpen(jobs[b]) => jobs[a].key # jobs[b].key
                       /\ IsOpen(draft'[a]) /\ IsOpen(draft'[b]) => draft'[a].key # draft'[b].key
                       /\ IsOpen(jobs[a]) /\ IsOpen(draft'[b]) /\ jobs[a].key = draft'[b].key =>
                            holder'[a] = holder'[b] /\ holder'[a] # None
    BY DEF UniqueInv, IsOpen
  <2>1. CASE a # i /\ b # i BY <1>3, <2>1 DEF UniqueInv, TypeOK
  <2>2. CASE a = i BY <1>2, <1>3, <1>4, <1>6, <2>2 DEF UniqueInv, TypeOK, IsOpen, OpenStatuses
  <2>3. CASE b = i
    <3>1. IsOpen(jobs[a]) => draft[a].key = jobs[a].key
      BY DEF RowInv, IsOpen, OpenStatuses
    <3>. QED BY <1>2, <1>3, <1>4, <1>5, <1>6, <2>3, <3>1 DEF UniqueInv, TypeOK, IsOpen, OpenStatuses
  <2>. QED BY <2>1, <2>2, <2>3
<1>13. RequestInv'
  <2>. SUFFICES ASSUME NEW q \in Procs, NEW x \in req'[q]
                PROVE  \E j \in Ids : holder'[j] = q /\ draft'[j].key = x /\ draft'[j].status = "pending"
    BY DEF RequestInv
  <2>1. CASE q = p /\ x = k BY <1>2, <1>3, <2>1 DEF TypeOK
  <2>2. CASE x \in req[q]
    <3>1. PICK j \in Ids : holder[j] = q /\ draft[j].key = x /\ draft[j].status = "pending"
      BY <2>2 DEF RequestInv
    <3>. QED BY <1>3, <1>4, <3>1 DEF TypeOK
  <2>. QED BY <2>1, <2>2 DEF TypeOK, k
<1>14. AdminInv' BY DEF AdminInv
<1>15. NoLostRequest' BY DEF NoLostRequest, IsOpen
<1>. QED BY <1>7, <1>8, <1>9, <1>10, <1>11, <1>12, <1>13, <1>14, <1>15

\* The conflicting row has the key that is enqueued.
LEMMA InsertConflictInv ==
  ASSUME IInv, NEW p \in Procs, InsertConflict(p)
  PROVE  IInv'
<1>. USE QueueAssumption DEF InsertConflict, IInv
<1>1. TypeOK' BY DEF TypeOK, Stages, Rivals
<1>2. RowInv' BY DEF RowInv, TypeOK
<1>3. AttemptInv' BY DEF AttemptInv, TypeOK
<1>4. HolderInv' BY DEF HolderInv, TypeOK, Procs
<1>5. SearchInv' BY DEF SearchInv, KeyOf, Closed, MayEnqueue, HolderInv, Procs, TypeOK, RowInv, Rivals, Live, IsOpen, OpenStatuses
<1>6. UniqueInv' BY DEF UniqueInv, IsOpen, TypeOK, RowInv
<1>7. RequestInv' BY DEF RequestInv, TypeOK
<1>8. AdminInv' BY DEF AdminInv
<1>9. NoLostRequest' BY DEF NoLostRequest, IsOpen, TypeOK
<1>. QED BY <1>1, <1>2, <1>3, <1>4, <1>5, <1>6, <1>7, <1>8, <1>9

\* A commit that publishes the row versions d: the drafts, except that the
\* outcome of the job p runs, if any, is written in it.
LEMMA PublishInv ==
  ASSUME IInv, NEW p \in Procs, stage[p] # "idle", NEW d \in [Ids -> Row],
         \A i \in Ids : (p \in Workers => i # current[p]) => d[i] = draft[i],
         p \in Workers =>
           /\ d[current[p]].key = jobs[current[p]].key
           /\ \/ d[current[p]].status = "done"
              \/ /\ d[current[p]].status = "dead"
                 /\ d[current[p]].attempts = MaxAttempts
              \/ /\ d[current[p]].status = "pending" /\ ~Closed(p)
                 /\ d[current[p]].attempts < MaxAttempts,
         CommitWith(p, d), Finish(p), UNCHANGED <<adm, spent>>,
         fresh' \in [Keys -> {"none", "queued", "taken"}],
         \A k \in Keys : fresh'[k] # "none" =>
           \/ k \in req[p]
           \/ p \in Workers /\ k = KeyOf(p) /\ d[current[p]].status = "pending"
           \/ ~(p \in Workers /\ k = KeyOf(p)) /\ fresh[k] # "none"
  PROVE  IInv'
<1>. USE QueueAssumption DEF Finish, EndWork, IInv
<1>1. p # None BY DEF Procs
<1>2. \A i \in Ids : holder[i] # p =>
        jobs'[i] = jobs[i] /\ draft'[i] = draft[i] /\ holder'[i] = holder[i]
  BY DEF CommitWith, TypeOK, HolderInv
<1>3. \A i \in Ids : holder[i] = p =>
        jobs'[i] = d[i] /\ draft'[i] = d[i] /\ holder'[i] = None
  BY DEF CommitWith, TypeOK
<1>4. \A i \in Ids : holder[i] = p /\ (p \in Workers => i # current[p]) =>
        d[i] = draft[i] /\ d[i].status = "pending" /\ d[i].key \in req[p]
  BY DEF HolderInv
<1>5. p \in Workers =>
        /\ current[p] \in Ids /\ holder[current[p]] = p
        /\ jobs[current[p]].status = "pending" /\ KeyOf(p) \in Keys
  BY DEF HolderInv, TypeOK, RowInv, KeyOf
<1>6. TypeOK' BY DEF TypeOK, CommitWith, Stages
<1>7. RowInv'
  <2>. SUFFICES ASSUME NEW i \in Ids
                PROVE  /\ holder'[i] = None => draft'[i] = jobs'[i]
                       /\ jobs'[i].status # "absent" => draft'[i].key = jobs'[i].key
                       /\ jobs'[i].status # "running"
                       /\ jobs'[i].status = "absent" => jobs'[i] = NoRow
                       /\ jobs'[i].status # "absent" => jobs'[i].key \in Keys
                       /\ draft'[i].status = "absent" => draft'[i] = NoRow
                       /\ draft'[i].status # "absent" => draft'[i].key \in Keys
    BY DEF RowInv
  <2>1. CASE holder[i] # p BY <1>2, <2>1 DEF RowInv
  <2>2. CASE holder[i] = p /\ (p \in Workers => i # current[p])
    BY <1>3, <1>4, <2>2 DEF RowInv, TypeOK
  <2>3. CASE p \in Workers /\ i = current[p]
    BY <1>3, <1>5, <2>3 DEF RowInv, KeyOf
  <2>. QED BY <2>1, <2>2, <2>3
<1>8. AttemptInv'
  <2>. SUFFICES ASSUME NEW i \in Ids
                PROVE  /\ jobs'[i].status = "pending" => jobs'[i].attempts < MaxAttempts
                       /\ draft'[i].status = "pending" => draft'[i].attempts < MaxAttempts
                       /\ jobs'[i].status = "dead" => jobs'[i].attempts = MaxAttempts
                       /\ draft'[i].status = "dead" => draft'[i].attempts = MaxAttempts
    BY DEF AttemptInv
  <2>1. CASE holder[i] # p BY <1>2, <2>1 DEF AttemptInv
  <2>2. CASE holder[i] = p /\ (p \in Workers => i # current[p])
    BY <1>3, <1>4, <2>2 DEF AttemptInv
  <2>3. CASE p \in Workers /\ i = current[p]
    BY <1>3, <1>5, <2>3
  <2>. QED BY <2>1, <2>2, <2>3
<1>9. HolderInv' BY <1>1, <1>2, <1>3, <1>5 DEF HolderInv, TypeOK, Procs
<1>10. SearchInv'
  <2>. SUFFICES ASSUME NEW q \in Procs \ {p}
                PROVE  /\ stage[q] \in {"locking", "inserting", "relocking"} =>
                            /\ target[q] \in Keys /\ target[q] \notin req[q]
                            /\ q \in Workers /\ target[q] = KeyOf(q)' => Closed(q)'
                       /\ stage[q] \in {"locking", "relocking"} =>
                            /\ found[q] \in Ids
                            /\ jobs'[found[q]].status # "absent"
                            /\ jobs'[found[q]].key = target[q]
    BY DEF SearchInv, TypeOK
  <2>1. q \in Workers /\ stage[q] # "idle" => KeyOf(q)' = KeyOf(q) /\ Closed(q)' = Closed(q)
    BY <1>2 DEF KeyOf, Closed, HolderInv, TypeOK
  <2>2. \A i \in Ids : jobs[i].status # "absent" =>
          jobs'[i].status # "absent" /\ jobs'[i].key = jobs[i].key
    BY <1>2, <1>3, <1>4, <1>5 DEF RowInv
  <2>. QED BY <2>1, <2>2 DEF SearchInv
<1>11. \A i, j \in Ids : i # j /\ IsOpen(jobs'[i]) /\ IsOpen(jobs'[j]) => jobs'[i].key # jobs'[j].key
  <2>. SUFFICES ASSUME NEW i \in Ids, NEW j \in Ids, i # j, IsOpen(jobs'[i]), IsOpen(jobs'[j]),
                       jobs'[i].key = jobs'[j].key
                PROVE  FALSE
    OBVIOUS
  <2>1. \A x \in Ids : holder[x] = p /\ IsOpen(jobs'[x]) =>
          IsOpen(draft[x]) /\ draft[x].key = jobs'[x].key
    BY <1>3, <1>4, <1>5 DEF IsOpen, OpenStatuses, HolderInv, Closed, RowInv
  <2>2. CASE holder[i] = p /\ holder[j] = p BY <2>1, <2>2 DEF UniqueInv
  <2>3. CASE holder[i] # p /\ holder[j] # p BY <1>2, <2>3 DEF UniqueInv
  <2>4. CASE holder[i] = p /\ holder[j] # p BY <1>1, <1>2, <2>1, <2>4 DEF UniqueInv
  <2>5. CASE holder[i] # p /\ holder[j] = p BY <1>1, <1>2, <2>1, <2>5 DEF UniqueInv
  <2>. QED BY <2>2, <2>3, <2>4, <2>5
<1>12. UniqueInv'
  <2>. SUFFICES ASSUME NEW i \in Ids, NEW j \in Ids, i # j
                PROVE  /\ IsOpen(jobs'[i]) /\ IsOpen(jobs'[j]) => jobs'[i].key # jobs'[j].key
                       /\ IsOpen(draft'[i]) /\ IsOpen(draft'[j]) => draft'[i].key # draft'[j].key
                       /\ IsOpen(jobs'[i]) /\ IsOpen(draft'[j]) /\ jobs'[i].key = draft'[j].key =>
                            holder'[i] = holder'[j] /\ holder'[i] # None
    BY DEF UniqueInv, IsOpen
  <2>1. \A x \in Ids : holder[x] = p /\ IsOpen(jobs'[x]) =>
          IsOpen(draft[x]) /\ draft[x].key = jobs'[x].key
    BY <1>3, <1>4, <1>5 DEF IsOpen, OpenStatuses, HolderInv, Closed, RowInv
  <2>2. CASE holder[i] = p /\ holder[j] = p
    BY <1>3, <1>11, <2>2
  <2>3. CASE holder[i] # p /\ holder[j] # p BY <1>2, <2>3 DEF UniqueInv
  <2>4. CASE holder[i] = p /\ holder[j] # p BY <1>1, <1>2, <1>3, <1>11, <2>1, <2>4 DEF UniqueInv
  <2>5. CASE holder[i] # p /\ holder[j] = p BY <1>1, <1>2, <1>3, <1>11, <2>1, <2>5 DEF UniqueInv
  <2>. QED BY <2>2, <2>3, <2>4, <2>5
<1>13. RequestInv'
  <2>. SUFFICES ASSUME NEW q \in Procs \ {p}, NEW x \in req[q]
                PROVE  \E j \in Ids : holder'[j] = q /\ draft'[j].key = x /\ draft'[j].status = "pending"
    BY DEF RequestInv, TypeOK
  <2>. QED BY <1>2 DEF RequestInv
<1>14. AdminInv' BY <1>2, <1>3, <1>4, <1>5 DEF AdminInv, TypeOK
<1>15. NoLostRequest'
  <2>. SUFFICES ASSUME NEW k \in Keys, fresh'[k] # "none"
                PROVE  \E i \in Ids : jobs'[i].key = k /\ IsOpen(jobs'[i])
    BY DEF NoLostRequest, IsOpen
  <2>1. CASE k \in req[p]
    <3>1. PICK i \in Ids : holder[i] = p /\ draft[i].key = k /\ draft[i].status = "pending"
      BY <2>1 DEF RequestInv
    <3>2. p \in Workers => i # current[p] BY <3>1 DEF HolderInv
    <3>. QED BY <1>3, <1>4, <3>1, <3>2 DEF IsOpen, OpenStatuses
  <2>2. CASE p \in Workers /\ k = KeyOf(p) /\ d[current[p]].status = "pending"
    BY <1>3, <1>5, <2>2 DEF IsOpen, OpenStatuses, KeyOf
  <2>3. CASE ~(p \in Workers /\ k = KeyOf(p)) /\ fresh[k] # "none"
    <3>1. PICK i \in Ids : jobs[i].key = k /\ IsOpen(jobs[i])
      BY <2>3 DEF NoLostRequest
    <3>2. p \in Workers => i # current[p] BY <2>3, <3>1 DEF KeyOf
    <3>. QED BY <1>2, <1>3, <1>4, <3>1, <3>2 DEF IsOpen, OpenStatuses, RowInv
  <2>. QED BY <2>1, <2>2, <2>3
<1>. QED BY <1>6, <1>7, <1>8, <1>9, <1>10, <1>12, <1>13, <1>14, <1>15

\* A request's commit publishes its drafts.
LEMMA CommitInv ==
  ASSUME IInv, NEW p \in Procs, Commit(p)
  PROVE  IInv'
<1>1. p \notin Workers BY QueueAssumption DEF Commit
<1>2. fresh' \in [Keys -> {"none", "queued", "taken"}]
  BY <1>1 DEF Commit, Settle, IInv, TypeOK
<1>. QED BY <1>1, <1>2, PublishInv DEF Commit, Settle, IInv, TypeOK

\* A worker's commit closes its job and publishes what it enqueued.
LEMMA CommitDoneInv ==
  ASSUME IInv, NEW w \in Workers, CommitDone(w)
  PROVE  IInv'
<1>1. w \in Procs /\ current[w] # 0 /\ current[w] \in Ids
  BY DEF CommitDone, IInv, HolderInv, TypeOK, Procs
<1>2. draft[current[w]].key = jobs[current[w]].key /\ draft[current[w]].status = "done"
  BY <1>1 DEF CommitDone, IInv, HolderInv, RowInv, Closed
<1>3. fresh' \in [Keys -> {"none", "queued", "taken"}]
  BY DEF CommitDone, Settle, IInv, TypeOK
<1>4. \A k \in Keys : fresh'[k] # "none" =>
        k \in req[w] \/ (~(w \in Workers /\ k = KeyOf(w)) /\ fresh[k] # "none")
  <2>. SUFFICES ASSUME NEW k \in Keys, fresh'[k] # "none", k \notin req[w]
                PROVE  k # KeyOf(w) /\ fresh[k] # "none"
    OBVIOUS
  <2>1. fresh'[k] = IF w \in Workers /\ k = KeyOf(w) THEN "none" ELSE fresh[k]
    BY DEF CommitDone, Settle
  <2>. QED BY <2>1
<1>5. draft \in [Ids -> Row] BY DEF IInv, TypeOK
<1>. QED BY <1>1, <1>2, <1>3, <1>4, <1>5, PublishInv DEF CommitDone

\* A failed job is open again or dead.
LEMMA FailJobInv ==
  ASSUME IInv, NEW w \in Workers, FailJob(w)
  PROVE  IInv'
<1>. DEFINE c == current[w]
            row == Failed(draft[c])
            d == [draft EXCEPT ![c] = row]
<1>1. w \in Procs /\ c # 0 /\ c \in Ids /\ stage[w] # "idle"
  BY DEF FailJob, RaceLost, IInv, HolderInv, TypeOK, Procs
<1>2. draft[c].key = jobs[c].key /\ draft[c] \in Row
  BY <1>1 DEF IInv, HolderInv, RowInv, TypeOK
<1>3. /\ row \in Row /\ row.key = jobs[c].key
      /\ \/ row.status = "dead" /\ row.attempts = MaxAttempts
         \/ row.status = "pending" /\ row.attempts < MaxAttempts
  BY <1>2, FailedRow
<1>4. d \in [Ids -> Row] /\ d[c] = row /\ \A i \in Ids : i # c => d[i] = draft[i]
  BY <1>1, <1>3 DEF IInv, TypeOK
<1>5. fresh' \in [Keys -> {"none", "queued", "taken"}]
  BY DEF FailJob, Settle, IInv, TypeOK
<1>6. \A k \in Keys : fresh'[k] # "none" =>
        \/ k \in req[w]
        \/ w \in Workers /\ k = KeyOf(w) /\ row.status = "pending"
        \/ ~(w \in Workers /\ k = KeyOf(w)) /\ fresh[k] # "none"
  BY <1>3 DEF FailJob, Settle
<1>7. ~Closed(w) /\ CommitWith(w, d) /\ Finish(w) /\ UNCHANGED <<adm, spent>>
  BY DEF FailJob
<1>. HIDE DEF d, row
<1>. QED BY <1>1, <1>3, <1>4, <1>5, <1>6, <1>7, PublishInv

\* A claim takes a pending row that nobody holds.
LEMMA ClaimInv ==
  ASSUME IInv, NEW w \in Workers, Claim(w)
  PROVE  IInv'
<1>. USE QueueAssumption DEF Claim, IInv
<1>1. PICK i \in Ids : /\ Claimable(i)
                       /\ holder' = [holder EXCEPT ![i] = w]
                       /\ draft' = [draft EXCEPT ![i].status = "running",
                                                 ![i].attempts = jobs[i].attempts + 1]
                       /\ current' = [current EXCEPT ![w] = i]
                       /\ fresh' = [fresh EXCEPT ![jobs[i].key] = "taken"]
  OBVIOUS
<1>2. /\ w \in Procs /\ w # None /\ holder[i] = None /\ draft[i] = jobs[i]
      /\ jobs[i].status = "pending" /\ jobs[i].attempts < MaxAttempts
      /\ jobs[i] \in Row /\ jobs[i].key \in Keys
  BY <1>1 DEF Claimable, RowInv, AttemptInv, TypeOK, Procs
<1>. DEFINE n == [jobs[i] EXCEPT !.status = "running", !.attempts = jobs[i].attempts + 1]
<1>3. draft' = [draft EXCEPT ![i] = n]
  <2>1. draft \in [Ids -> Row] BY DEF TypeOK
  <2>. QED BY ONLY <1>1, <1>2, <2>1
<1>4. n \in Row /\ n.key = jobs[i].key /\ n.status = "running"
  <2>1. jobs[i].attempts + 1 \in 0 .. MaxAttempts BY <1>2 DEF Row
  <2>. QED BY <1>2, <2>1 DEF Row, Statuses
<1>. HIDE DEF n
<1>5. \A p \in Procs : holder[i] # p BY <1>2 DEF Procs
<1>6. TypeOK'
  <2>1. draft' \in [Ids -> Row] BY <1>3, <1>4 DEF TypeOK
  <2>2. holder' \in [Ids -> Procs \cup {None}] BY <1>1, <1>2 DEF TypeOK
  <2>3. current' \in [Workers -> Ids \cup {0}] BY <1>1 DEF TypeOK
  <2>4. fresh' \in [Keys -> {"none", "queued", "taken"}] BY <1>1, <1>2 DEF TypeOK
  <2>. QED BY <2>1, <2>2, <2>3, <2>4 DEF TypeOK, Stages
<1>7. RowInv' BY <1>1, <1>2, <1>3, <1>4 DEF RowInv, TypeOK
<1>8. AttemptInv' BY <1>3, <1>4 DEF AttemptInv, TypeOK
<1>9. HolderInv'
  <2>1. \A p \in Procs : stage'[p] = "idle" => req'[p] = {} /\ \A j \in Ids : holder'[j] # p
    BY <1>1, <1>2, <1>5 DEF HolderInv, TypeOK
  <2>2. ASSUME NEW v \in Workers
        PROVE  /\ stage'[v] = "idle" <=> current'[v] = 0
               /\ current'[v] # 0 =>
                    /\ holder'[current'[v]] = v
                    /\ jobs'[current'[v]].status = "pending"
                    /\ draft'[current'[v]].status \in {"running", "done"}
    <3>1. CASE v = w BY <1>1, <1>2, <1>3, <1>4, <3>1 DEF HolderInv, TypeOK, Ids
    <3>2. CASE v # w
      <4>1. v \in Procs /\ (current[v] # 0 => current[v] \in Ids /\ current[v] # i)
        BY <1>5 DEF HolderInv, TypeOK, Procs
      <4>. QED BY <1>1, <1>3, <3>2, <4>1 DEF HolderInv, TypeOK
    <3>. QED BY <3>1, <3>2
  <2>3. \A p \in Procs, j \in Ids :
          holder'[j] = p /\ (p \in Workers => j # current'[p]) =>
            draft'[j].status = "pending" /\ draft'[j].key \in req'[p]
    <3>. SUFFICES ASSUME NEW p \in Procs, NEW j \in Ids, holder'[j] = p,
                         p \in Workers => j # current'[p]
                  PROVE  draft'[j].status = "pending" /\ draft'[j].key \in req'[p]
      OBVIOUS
    <3>1. j # i BY <1>1 DEF TypeOK
    <3>2. p # w BY <1>1, <1>2, <3>1 DEF HolderInv, TypeOK
    <3>. QED BY <1>1, <1>3, <3>1, <3>2 DEF HolderInv, TypeOK
  <2>. QED BY <2>1, <2>2, <2>3 DEF HolderInv
<1>10. SearchInv'
  <2>. SUFFICES ASSUME NEW q \in Procs, stage[q] # "idle", q # w
                PROVE  /\ stage[q] \in {"locking", "inserting", "relocking"} =>
                            /\ target[q] \in Keys /\ target[q] \notin req[q]
                            /\ q \in Workers /\ target[q] = KeyOf(q)' => Closed(q)'
                       /\ stage[q] \in {"locking", "relocking"} =>
                            /\ found[q] \in Ids
                            /\ jobs[found[q]].status # "absent"
                            /\ jobs[found[q]].key = target[q]
    BY <1>2 DEF SearchInv, TypeOK
  <2>1. q \in Workers => KeyOf(q)' = KeyOf(q) /\ Closed(q)' = Closed(q)
    BY <1>1, <1>3, <1>5 DEF KeyOf, Closed, HolderInv, TypeOK
  <2>. QED BY <2>1 DEF SearchInv
<1>11. UniqueInv' BY <1>1, <1>2, <1>3, <1>4 DEF UniqueInv, TypeOK, IsOpen, OpenStatuses
<1>12. RequestInv'
  <2>. req' = req OBVIOUS
  <2>. SUFFICES ASSUME NEW q \in Procs, NEW x \in req'[q]
                PROVE  \E j \in Ids : holder'[j] = q /\ draft'[j].key = x /\ draft'[j].status = "pending"
    BY DEF RequestInv
  <2>1. PICK j \in Ids : holder[j] = q /\ draft[j].key = x /\ draft[j].status = "pending"
    BY DEF RequestInv
  <2>. QED BY <1>1, <1>3, <1>5, <2>1 DEF TypeOK
<1>13. AdminInv' BY DEF AdminInv
<1>14. NoLostRequest'
  <2>. SUFFICES ASSUME NEW k \in Keys, fresh'[k] # "none"
                PROVE  \E j \in Ids : jobs[j].key = k /\ IsOpen(jobs[j])
    BY DEF NoLostRequest, IsOpen
  <2>1. CASE k = jobs[i].key BY <1>2, <2>1 DEF IsOpen, OpenStatuses
  <2>2. CASE k # jobs[i].key BY <1>1, <2>2 DEF NoLostRequest, TypeOK
  <2>. QED BY <2>1, <2>2
<1>. QED BY <1>6, <1>7, <1>8, <1>9, <1>10, <1>11, <1>12, <1>13, <1>14

\* Marking a job done closes only the draft of its row.
LEMMA MarkDoneInv ==
  ASSUME IInv, NEW w \in Workers, MarkDone(w)
  PROVE  IInv'
<1>. USE QueueAssumption DEF MarkDone, Closed, IInv
<1>. DEFINE c == current[w]
<1>a. /\ w \in Procs /\ c \in Ids /\ draft[c] \in Row /\ "done" \in Statuses
      /\ draft[c].status = "running"
  BY DEF HolderInv, TypeOK, Procs, Statuses
<1>1. TypeOK'
  <2>1. [draft[c] EXCEPT !.status = "done"] \in Row BY <1>a, StatusRow
  <2>. QED BY <1>a, <2>1 DEF TypeOK, Stages
<1>2. RowInv' BY DEF RowInv, TypeOK, HolderInv
<1>3. AttemptInv' BY DEF AttemptInv, TypeOK
<1>4. HolderInv' BY DEF HolderInv, TypeOK, Procs
<1>5. SearchInv' BY DEF SearchInv, KeyOf, Closed, HolderInv, Procs, TypeOK
<1>6. UniqueInv' BY DEF UniqueInv, TypeOK, RowInv, HolderInv, IsOpen, OpenStatuses
<1>7. RequestInv'
  <2>. SUFFICES ASSUME NEW q \in Procs, NEW x \in req[q]
                PROVE  \E j \in Ids : holder'[j] = q /\ draft'[j].key = x /\ draft'[j].status = "pending"
    BY DEF RequestInv
  <2>1. PICK j \in Ids : holder[j] = q /\ draft[j].key = x /\ draft[j].status = "pending"
    BY DEF RequestInv
  <2>. QED BY <1>a, <2>1 DEF TypeOK
<1>8. AdminInv' BY DEF AdminInv
<1>9. NoLostRequest' BY DEF NoLostRequest, IsOpen, TypeOK
<1>. QED BY <1>1, <1>2, <1>3, <1>4, <1>5, <1>6, <1>7, <1>8, <1>9

\* Time does not touch keys or statuses.
LEMMA BecomeDueInv ==
  ASSUME IInv, NEW i \in Ids, BecomeDue(i)
  PROVE  IInv'
<1>. USE QueueAssumption DEF BecomeDue, IInv
<1>a. /\ jobs[i] \in Row /\ draft[i] = jobs[i]
  BY DEF RowInv, TypeOK
<1>b. [jobs[i] EXCEPT !.due = TRUE] \in Row BY <1>a, DueRow
<1>1. TypeOK' BY <1>a, <1>b DEF TypeOK
<1>2. RowInv' BY <1>a, <1>b DEF RowInv, TypeOK, Row
<1>3. AttemptInv' BY DEF AttemptInv, TypeOK
<1>4. HolderInv' BY DEF HolderInv, TypeOK, Procs
<1>5. SearchInv' BY DEF SearchInv, KeyOf, Closed, HolderInv, Procs, TypeOK
<1>6. UniqueInv' BY DEF UniqueInv, IsOpen, TypeOK, RowInv
<1>7. RequestInv' BY DEF RequestInv, TypeOK
<1>8. AdminInv' BY DEF AdminInv
<1>9. NoLostRequest' BY DEF NoLostRequest, IsOpen, TypeOK
<1>. QED BY <1>1, <1>2, <1>3, <1>4, <1>5, <1>6, <1>7, <1>8, <1>9

\* Loading a row changes no row.
LEMMA AdminLoadInv ==
  ASSUME IInv, NEW a \in Admins, NEW i \in Ids, AdminLoad(a, i)
  PROVE  IInv'
<1>. USE QueueAssumption DEF AdminLoad, NoOp, IInv
<1>1. TypeOK'
  <2>1. \A o \in {"cancel", "retry"} :
          [op |-> o, job |-> i] \in [op : {"none", "cancel", "retry"}, job : Ids \cup {0}]
    OBVIOUS
  <2>2. PICK o \in {"cancel", "retry"} : adm' = [adm EXCEPT ![a] = [op |-> o, job |-> i]]
    OBVIOUS
  <2>3. adm' \in [Admins -> [op : {"none", "cancel", "retry"}, job : Ids \cup {0}]]
    BY <2>1, <2>2 DEF TypeOK
  <2>4. spent' \in [txns : Nat, crashes : Nat, adminOps : Nat, passes : Nat]
    BY DEF TypeOK
  <2>. QED BY <2>3, <2>4 DEF TypeOK
<1>2. RowInv' BY DEF RowInv, TypeOK
<1>3. AttemptInv' BY DEF AttemptInv, TypeOK
<1>4. HolderInv' BY DEF HolderInv, TypeOK, Procs
<1>5. SearchInv' BY DEF SearchInv, KeyOf, Closed, HolderInv, Procs, TypeOK
<1>6. UniqueInv' BY DEF UniqueInv, IsOpen, TypeOK, RowInv
<1>7. RequestInv' BY DEF RequestInv, TypeOK
<1>8. AdminInv' BY SMTT(30) DEF AdminInv, TypeOK, IsOpen, OpenStatuses
<1>9. NoLostRequest' BY DEF NoLostRequest, IsOpen, TypeOK
<1>. QED BY <1>1, <1>2, <1>3, <1>4, <1>5, <1>6, <1>7, <1>8, <1>9

\* A cancelled row was held by nobody.
LEMMA AdminCancelInv ==
  ASSUME IInv, NEW a \in Admins, AdminCancel(a)
  PROVE  IInv'
<1>. USE QueueAssumption DEF AdminCancel, NoOp, AdminInv, IInv
<1>. DEFINE c == adm[a].job
<1>a. /\ c \in Ids /\ jobs[c] \in Row /\ draft[c] = jobs[c] /\ "cancelled" \in Statuses
      /\ jobs[c].key \in Keys /\ holder[c] = None
  BY DEF RowInv, TypeOK, Statuses
<1>b. [jobs[c] EXCEPT !.status = "cancelled"] \in Row BY <1>a, StatusRow
<1>c. NoOp \in [op : {"none", "cancel", "retry"}, job : Ids \cup {0}]
  OBVIOUS
<1>1. TypeOK' BY <1>a, <1>b, <1>c DEF TypeOK
<1>2. RowInv' BY DEF RowInv, TypeOK
<1>3. AttemptInv' BY DEF AttemptInv, TypeOK
<1>4. HolderInv' BY DEF HolderInv, TypeOK, Procs
<1>5. SearchInv' BY DEF SearchInv, KeyOf, Closed, HolderInv, Procs, TypeOK
<1>6. UniqueInv' BY <1>a DEF UniqueInv, IsOpen, OpenStatuses, TypeOK
<1>7. RequestInv'
  <2>. req' = req OBVIOUS
  <2>. SUFFICES ASSUME NEW q \in Procs, NEW x \in req'[q]
                PROVE  \E j \in Ids : holder'[j] = q /\ draft'[j].key = x /\ draft'[j].status = "pending"
    BY DEF RequestInv
  <2>1. PICK j \in Ids : holder[j] = q /\ draft[j].key = x /\ draft[j].status = "pending"
    BY DEF RequestInv
  <2>2. j # c BY <1>a, <2>1 DEF Procs
  <2>3. draft'[j] = draft[j] /\ holder'[j] = holder[j] BY <2>2 DEF TypeOK
  <2>. QED BY <2>1, <2>3
<1>8. AdminInv' BY DEF AdminInv
<1>9. NoLostRequest' BY DEF NoLostRequest, TypeOK, RowInv, IsOpen, OpenStatuses
<1>. QED BY <1>1, <1>2, <1>3, <1>4, <1>5, <1>6, <1>7, <1>8, <1>9

\* A retried row has a key of which there is no open row.
LEMMA AdminRetryInv ==
  ASSUME IInv, NEW a \in Admins, AdminRetry(a)
  PROVE  IInv'
<1>. USE QueueAssumption DEF AdminRetry, Requeued, NoOp, AdminInv, IInv
<1>. DEFINE c == adm[a].job
<1>a. /\ c \in Ids /\ jobs[c] \in Row /\ draft[c] = jobs[c]
      /\ jobs[c].key \in Keys /\ holder[c] = None
  BY DEF RowInv, TypeOK
<1>b. Requeued(jobs[c]) \in Row BY <1>a, RequeuedRow
<1>c. NoOp \in [op : {"none", "cancel", "retry"}, job : Ids \cup {0}]
  OBVIOUS
<1>1. TypeOK' BY <1>a, <1>b, <1>c DEF TypeOK
<1>d. /\ Requeued(jobs[c]).key = jobs[c].key /\ Requeued(jobs[c]).status = "pending"
      /\ \A j \in Ids : /\ jobs'[j] = IF j = c THEN Requeued(jobs[c]) ELSE jobs[j]
                        /\ draft'[j] = IF j = c THEN Requeued(jobs[c]) ELSE draft[j]
  BY <1>a DEF TypeOK, Row
<1>2. RowInv'
  <2>. SUFFICES ASSUME NEW j \in Ids
                PROVE  /\ holder[j] = None => draft'[j] = jobs'[j]
                       /\ jobs'[j].status # "absent" => draft'[j].key = jobs'[j].key
                       /\ jobs'[j].status # "running"
                       /\ jobs'[j].status = "absent" => jobs'[j] = NoRow
                       /\ jobs'[j].status # "absent" => jobs'[j].key \in Keys
                       /\ draft'[j].status = "absent" => draft'[j] = NoRow
                       /\ draft'[j].status # "absent" => draft'[j].key \in Keys
    BY DEF RowInv
  <2>1. CASE j = c
    <3>1. PICK r : r = Requeued(jobs[c]) OBVIOUS
    <3>2. jobs'[j] = r /\ draft'[j] = r BY ONLY <1>d, <2>1, <3>1, j \in Ids
    <3>3. r.status = "pending" /\ r.key \in Keys BY ONLY <1>a, <1>d, <3>1
    <3>. QED BY ONLY <3>2, <3>3
  <2>2. CASE j # c BY <1>d, <2>2 DEF RowInv
  <2>. QED BY <2>1, <2>2
<1>3. AttemptInv' BY DEF AttemptInv, TypeOK
<1>4. HolderInv' BY DEF HolderInv, TypeOK, Procs
<1>5. SearchInv' BY DEF SearchInv, KeyOf, Closed, HolderInv, Procs, TypeOK
<1>6. UniqueInv' BY DEF UniqueInv, TypeOK, RowInv, Live, IsOpen, OpenStatuses
<1>7. RequestInv' BY DEF RequestInv, TypeOK
<1>8. AdminInv' BY DEF AdminInv
<1>9. NoLostRequest' BY DEF NoLostRequest, TypeOK, RowInv, IsOpen, OpenStatuses
<1>. QED BY <1>1, <1>2, <1>3, <1>4, <1>5, <1>6, <1>7, <1>8, <1>9

\* A refused retry changes no row.
LEMMA AdminRefusedInv ==
  ASSUME IInv, NEW a \in Admins, AdminRefused(a)
  PROVE  IInv'
<1>. USE QueueAssumption DEF AdminRefused, NoOp, IInv
<1>1. TypeOK' BY SMTT(30) DEF TypeOK, Procs, Stages, KeyOf
<1>2. RowInv' BY DEF RowInv, TypeOK
<1>3. AttemptInv' BY DEF AttemptInv, TypeOK
<1>4. HolderInv' BY DEF HolderInv, TypeOK, Procs
<1>5. SearchInv' BY DEF SearchInv, KeyOf, Closed, HolderInv, Procs, TypeOK
<1>6. UniqueInv' BY DEF UniqueInv, IsOpen, TypeOK, RowInv
<1>7. RequestInv' BY DEF RequestInv, TypeOK
<1>8. AdminInv' BY DEF AdminInv
<1>9. NoLostRequest' BY DEF NoLostRequest, IsOpen, TypeOK
<1>. QED BY <1>1, <1>2, <1>3, <1>4, <1>5, <1>6, <1>7, <1>8, <1>9

\* Every step preserves the invariant.
LEMMA StepInv == IInv /\ [Next]_vars => IInv'
<1>. SUFFICES ASSUME IInv, [Next]_vars PROVE IInv'
  OBVIOUS
<1>. Producers \subseteq Procs /\ Workers \subseteq Procs BY DEF Procs
<1>1. ASSUME NEW p \in Procs, EnqueueStep(p) PROVE IInv'
  <2>1. CASE DeadlockVictim(p)
    <3>1. stage[p] # "idle" BY <2>1 DEF DeadlockVictim, WaitsFor
    <3>. QED BY <2>1, <3>1, RollbackInv DEF DeadlockVictim, IInv, TypeOK
  <2>. QED BY <1>1, <2>1, FindDuplicateInv, RefreshDuplicateInv, DuplicateGoneInv,
              InsertInv, InsertConflictInv DEF EnqueueStep
<1>2. ASSUME NEW p \in Producers, Begin(p) \/ ProducerStep(p) PROVE IInv'
  <2>1. CASE Abort(p)
    <3>1. stage[p] # "idle" BY <2>1 DEF Abort, RaceLost
    <3>. QED BY <2>1, <3>1, RollbackInv DEF Abort, IInv, TypeOK
  <2>. QED BY <1>1, <1>2, <2>1, BeginInv, CommitInv DEF ProducerStep
<1>3. ASSUME NEW w \in Workers, WorkerStep(w) PROVE IInv'
  <2>1. CASE AbortedByDatabase(w)
    <3>1. stage[w] # "idle" BY <2>1 DEF AbortedByDatabase
    <3>. QED BY <2>1, <3>1, RollbackInv DEF AbortedByDatabase, IInv, TypeOK
  <2>. QED BY <1>1, <1>3, <2>1, ClaimInv, MarkDoneInv, CommitDoneInv, FailJobInv
           DEF WorkerStep
<1>4. ASSUME NEW w \in Workers, Crash(w) PROVE IInv'
  <2>1. spent' \in [txns : Nat, crashes : Nat, adminOps : Nat, passes : Nat]
    BY <1>4 DEF Crash, IInv, TypeOK
  <2>. QED BY <1>4, <2>1, RollbackInv DEF Crash, InTxn
<1>5. ASSUME NEW a \in Admins, AdminStep(a) PROVE IInv'
  BY <1>5, AdminCancelInv, AdminRetryInv, AdminRefusedInv DEF AdminStep
<1>6. CASE UNCHANGED vars
  BY <1>6 DEF vars, IInv, TypeOK, RowInv, AttemptInv, HolderInv, SearchInv, UniqueInv,
              RequestInv, AdminInv, NoLostRequest, IsOpen, KeyOf, Closed
<1>. QED BY <1>2, <1>3, <1>4, <1>5, <1>6, BecomeDueInv, AdminLoadInv DEF Next

\* The inductive invariant holds in every reachable state.
THEOREM Invariance == Spec => []IInv
  BY InitInv, StepInv, PTL DEF Spec

LEMMA OneRunnerState == IInv => OneRunnerPerKey
<1>. SUFFICES ASSUME IInv, NEW v \in Workers, NEW w \in Workers, v # w,
                     current[v] # 0, current[w] # 0, KeyOf(v) = KeyOf(w)
              PROVE  FALSE
  BY DEF OneRunnerPerKey
<1>1. /\ current[v] \in Ids /\ holder[current[v]] = v /\ IsOpen(jobs[current[v]])
      /\ current[w] \in Ids /\ holder[current[w]] = w /\ IsOpen(jobs[current[w]])
  BY DEF IInv, TypeOK, HolderInv, IsOpen, OpenStatuses
<1>. QED BY <1>1 DEF IInv, UniqueInv, KeyOf

\* Two workers never run jobs of one dedupe key at the same time.
THEOREM OneRunner == Spec => []OneRunnerPerKey
  BY OneRunnerState, Invariance, PTL

\* A committed request is never lost: an open row of its key backs it until a
\* later run of that key has served it, or it is dead or cancelled.
THEOREM RequestsBacked == Spec => []NoLostRequest
<1>1. IInv => NoLostRequest BY DEF IInv
<1>. QED BY <1>1, Invariance, PTL

\* A job is dead only after its last attempt; a pending one has an attempt left.
THEOREM DeadExhausted == Spec => []DeadOnlyWhenExhausted
<1>1. IInv => DeadOnlyWhenExhausted BY DEF IInv, AttemptInv, DeadOnlyWhenExhausted
<1>. QED BY <1>1, Invariance, PTL

-----------------------------------------------------------------------------
(* The job queue implements KeyedWork: the initial state maps to its initial *)
(* state and every step to one of its steps or to none.                      *)

\* Runner is who runs a key: at most one worker does.
RunnerOK ==
  /\ Runner \in [Keys -> Workers \cup {None}]
  /\ \A k \in Keys, w \in Workers : Runner[k] = w <=> Runs(w, k)

LEMMA RunnerChar == IInv => RunnerOK
<1>. SUFFICES ASSUME IInv PROVE RunnerOK
  OBVIOUS
<1>1. \A k \in Keys, v \in Workers, w \in Workers : Runs(v, k) /\ Runs(w, k) => v = w
  BY OneRunnerState DEF OneRunnerPerKey, Runs
<1>2. ASSUME NEW k \in Keys, NEW w \in Workers, Runs(w, k) PROVE Runner[k] = w
  <2>1. Runner[k] = CHOOSE v \in Workers : Runs(v, k) BY <1>2 DEF Runner
  <2>2. Runner[k] \in Workers /\ Runs(Runner[k], k) BY <1>2, <2>1
  <2>. QED BY <1>1, <1>2, <2>2
<1>3. ASSUME NEW k \in Keys, \A w \in Workers : ~Runs(w, k) PROVE Runner[k] = None
  BY <1>3 DEF Runner
<1>4. Runner \in [Keys -> Workers \cup {None}]
  <2>1. \A k \in Keys : Runner[k] \in Workers \cup {None} BY <1>2, <1>3
  <2>. QED BY <2>1 DEF Runner
<1>5. None \notin Workers BY QueueAssumption
<1>. QED BY <1>2, <1>3, <1>4, <1>5 DEF RunnerOK

LEMMA RunnerCharNext == IInv' => RunnerOK'
  BY RunnerChar, PTL

\* A key that is being run waits in an open row, held by its worker.
LEMMA RunHolds ==
  ASSUME IInv, NEW w \in Workers, current[w] # 0
  PROVE  /\ current[w] \in Ids /\ holder[current[w]] = w
         /\ IsOpen(jobs[current[w]]) /\ KeyOf(w) \in Keys
         /\ KeyOf(w) \in Waiting
<1>1. /\ current[w] \in Ids /\ holder[current[w]] = w
      /\ IsOpen(jobs[current[w]]) /\ KeyOf(w) \in Keys
  BY DEF IInv, TypeOK, HolderInv, RowInv, KeyOf, IsOpen, OpenStatuses
<1>. QED BY <1>1 DEF Waiting, KeyOf

\* A transaction holds the rows of the keys it has requested, so nobody else
\* is running one of them.
LEMMA RequestsNotRun ==
  ASSUME IInv, NEW p \in Procs, NEW w \in Workers, w # p, current[w] # 0
  PROVE  KeyOf(w) \notin req[p]
<1>. SUFFICES ASSUME KeyOf(w) \in req[p] PROVE FALSE
  OBVIOUS
<1>1. PICK i \in Ids : /\ holder[i] = p /\ draft[i].key = KeyOf(w)
                       /\ draft[i].status = "pending"
  BY DEF IInv, RequestInv
<1>2. current[w] \in Ids /\ holder[current[w]] = w /\ IsOpen(jobs[current[w]])
  BY RunHolds
<1>. QED BY <1>1, <1>2 DEF IInv, UniqueInv, KeyOf, IsOpen, OpenStatuses

\* A step that touches neither requests nor runs nor what is open.
LEMMA Stutter ==
  ASSUME IInv, IInv', current' = current, fresh' = fresh,
         \A i \in Ids : /\ jobs'[i].key = jobs[i].key
                        /\ IsOpen(jobs'[i]) <=> IsOpen(jobs[i])
  PROVE  UNCHANGED Work!vars
<1>1. Asked' = Asked BY DEF Asked
<1>2. Waiting' = Waiting BY DEF Waiting
<1>3. Runner' = Runner
  <2>1. \A w \in Workers, k \in Keys : Runs(w, k)' <=> Runs(w, k)
    BY DEF Runs, KeyOf, IInv, TypeOK
  <2>. QED BY <2>1, RunnerChar, RunnerCharNext, QueueAssumption DEF RunnerOK
<1>. QED BY <1>1, <1>2, <1>3 DEF Work!vars

\* A run that ends frees its key and no other.
LEMMA RunEnds ==
  ASSUME IInv, IInv', NEW w \in Workers, current[w] # 0, EndWork(w),
         \A i \in Ids : holder[i] # w => jobs'[i] = jobs[i]
  PROVE  Runner' = [Runner EXCEPT ![KeyOf(w)] = None]
<1>1. \A v \in Workers, k \in Keys : Runs(v, k)' <=> v # w /\ Runs(v, k)
  <2>. SUFFICES ASSUME NEW v \in Workers, NEW k \in Keys, v # w
                PROVE  Runs(v, k)' <=> Runs(v, k)
    BY DEF Runs, EndWork
  <2>1. current'[v] = current[v] BY DEF EndWork
  <2>2. current[v] # 0 => jobs'[current[v]] = jobs[current[v]] BY RunHolds
  <2>. QED BY <2>1, <2>2 DEF Runs, KeyOf
<1>2. Runs(w, KeyOf(w)) /\ KeyOf(w) \in Keys BY RunHolds DEF Runs
<1>3. ASSUME NEW k \in Keys
      PROVE  Runner'[k] = IF k = KeyOf(w) THEN None ELSE Runner[k]
  <2>1. CASE k = KeyOf(w)
    <3>1. \A v \in Workers : ~Runs(v, k)'
      BY <1>1, <1>2, <2>1, RunnerChar DEF RunnerOK
    <3>. QED BY <2>1, <3>1, RunnerCharNext, QueueAssumption DEF RunnerOK
  <2>2. CASE k # KeyOf(w)
    <3>1. \A v \in Workers : Runs(v, k)' <=> Runs(v, k) BY <1>1, <2>2 DEF Runs
    <3>. QED BY <2>2, <3>1, RunnerChar, RunnerCharNext, QueueAssumption DEF RunnerOK
  <2>. QED BY <2>1, <2>2
<1>. QED BY <1>3, RunnerChar, RunnerCharNext DEF RunnerOK

LEMMA RunningKeys ==
  ASSUME IInv, NEW k \in Keys
  PROVE  k \in Work!Running <=> \E w \in Workers : Runs(w, k)
  BY RunnerChar, QueueAssumption DEF RunnerOK, Work!Running

\* The keys that p has requested are run by nobody but p.
LEMMA RequestsFree ==
  ASSUME IInv, NEW p \in Procs
  PROVE  /\ p \notin Workers => req[p] \cap Work!Running = {}
         /\ p \in Workers /\ current[p] # 0 =>
              req[p] \cap Work!Running \subseteq {KeyOf(p)}
<1>1. \A k \in req[p] : k \in Keys BY DEF IInv, TypeOK
<1>2. \A k \in req[p], w \in Workers : Runs(w, k) => w = p
  BY RequestsNotRun DEF Runs
<1>. QED BY <1>1, <1>2, RunningKeys DEF Runs

\* A roll-back puts the job a worker ran back and is a stutter of a request.
LEMMA RollbackWork ==
  ASSUME IInv, IInv', NEW p \in Procs, p \in Workers => current[p] # 0, Rollback(p)
  PROVE  [Work!Next]_(Work!vars)
<1>1. jobs' = jobs /\ EndWork(p) BY DEF Rollback, Discard, Finish
<1>2. CASE p \notin Workers
  <2>1. current' = current BY <1>1, <1>2 DEF EndWork, IInv, TypeOK
  <2>2. fresh' = fresh BY <1>2 DEF Rollback, IInv, TypeOK
  <2>. QED BY <1>1, <2>1, <2>2, Stutter
<1>3. CASE p \in Workers
  <2>. DEFINE k == KeyOf(p)
  <2>1. k \in Keys /\ k \in Waiting /\ Runs(p, k) BY <1>3, RunHolds DEF Runs
  <2>2. Runner' = [Runner EXCEPT ![k] = None] BY <1>1, <1>3, RunEnds
  <2>3. Waiting' = Waiting BY <1>1 DEF Waiting
  <2>4. Asked' = Asked \cup {k} BY <1>3, <2>1 DEF Asked, Rollback
  <2>5. Runner[k] = p BY <1>3, <2>1, RunnerChar DEF RunnerOK
  <2>6. Work!GiveBack(p, k, {})
    BY <2>2, <2>3, <2>4, <2>5 DEF Work!GiveBack
  <2>. QED BY <1>3, <2>1, <2>6 DEF Work!Next
<1>. QED BY <1>2, <1>3

\* A commit opens the rows of the keys p has requested, and closes at most the
\* one that p runs.
LEMMA Published ==
  ASSUME IInv, NEW p \in Procs, p \in Workers => current[p] # 0, NEW d,
         \A i \in Ids : (p \in Workers => i # current[p]) => d[i] = draft[i],
         p \in Workers => d[current[p]].key = KeyOf(p), CommitWith(p, d)
  PROVE  /\ p \notin Workers => Waiting' = Waiting \cup req[p]
         /\ p \in Workers /\ ~IsOpen(d[current[p]]) =>
              Waiting' = (Waiting \ {KeyOf(p)}) \cup req[p]
         /\ p \in Workers /\ IsOpen(d[current[p]]) =>
              Waiting' = Waiting \cup req[p]
<1>. DEFINE own(i) == p \in Workers /\ i = current[p]
<1>1. \A i \in Ids : jobs'[i] = IF holder[i] = p THEN d[i] ELSE jobs[i]
  BY DEF CommitWith
<1>2. \A i \in Ids : holder[i] = p /\ ~own(i) =>
        /\ jobs'[i] = draft[i] /\ IsOpen(draft[i]) /\ draft[i].key \in req[p]
        /\ IsOpen(jobs[i]) => jobs[i].key = draft[i].key
  BY <1>1 DEF IInv, HolderInv, RowInv, IsOpen, OpenStatuses
<1>3. \A k \in req[p] : /\ k \in Keys
                        /\ \E i \in Ids : holder[i] = p /\ ~own(i) /\ draft[i].key = k
  BY DEF IInv, TypeOK, RequestInv, HolderInv
<1>4. p \in Workers => /\ current[p] \in Ids /\ holder[current[p]] = p
                       /\ IsOpen(jobs[current[p]]) /\ jobs'[current[p]] = d[current[p]]
                       /\ KeyOf(p) \in Keys
  BY <1>1, RunHolds
<1>5. \A k \in req[p] : k \in Waiting' BY <1>2, <1>3 DEF Waiting
<1>6. ASSUME NEW k \in Keys, k \notin req[p], p \in Workers => k # KeyOf(p)
      PROVE  k \in Waiting' <=> k \in Waiting
  <2>1. \A i \in Ids : jobs'[i].key = k \/ jobs[i].key = k =>
          \/ jobs'[i] = jobs[i]
          \/ ~IsOpen(jobs'[i]) /\ ~IsOpen(jobs[i])
          \/ own(i)
          \/ holder[i] = p /\ ~own(i) /\ jobs[i].key = k /\ ~IsOpen(jobs[i])
    BY <1>1, <1>2, <1>6
  <2>. QED BY <1>1, <1>2, <1>4, <1>6, <2>1 DEF Waiting, KeyOf
<1>7. CASE p \notin Workers BY <1>5, <1>6, <1>7 DEF Waiting
<1>8. CASE p \in Workers /\ IsOpen(d[current[p]])
  <2>1. KeyOf(p) \in Waiting' /\ KeyOf(p) \in Waiting
    BY <1>4, <1>8, RunHolds DEF Waiting
  <2>. QED BY <1>5, <1>6, <1>8, <2>1 DEF Waiting
<1>9. CASE p \in Workers /\ ~IsOpen(d[current[p]])
  <2>1. KeyOf(p) \notin req[p] => KeyOf(p) \notin Waiting'
    <3>. SUFFICES ASSUME KeyOf(p) \notin req[p], NEW i \in Ids,
                         jobs'[i].key = KeyOf(p), IsOpen(jobs'[i])
                  PROVE  FALSE
      BY DEF Waiting
    <3>1. i # current[p] BY <1>4, <1>9
    <3>2. holder[i] # p /\ jobs'[i] = jobs[i] BY <1>1, <1>2, <3>1
    <3>. QED BY <1>4, <1>9, <3>1, <3>2 DEF IInv, UniqueInv, KeyOf
  <2>. QED BY <1>5, <1>6, <1>9, <2>1 DEF Waiting
<1>. QED BY <1>7, <1>8, <1>9

LEMMA CommitWork ==
  ASSUME IInv, IInv', NEW p \in Procs, Commit(p)
  PROVE  Work!Next
<1>1. p \notin Workers /\ EndWork(p) BY QueueAssumption DEF Commit, Finish
<1>2. Waiting' = Waiting \cup req[p] BY <1>1, Published DEF Commit
<1>3. Asked' = Asked \cup req[p] /\ req[p] \subseteq Keys
  BY <1>1 DEF Commit, Settle, Asked, IInv, TypeOK
<1>4. current' = current BY <1>1 DEF EndWork, IInv, TypeOK
<1>5. \A w \in Workers : current[w] # 0 => jobs'[current[w]] = jobs[current[w]]
  BY <1>1, RunHolds DEF Commit, CommitWith
<1>6. \A w \in Workers, k \in Keys : Runs(w, k)' <=> Runs(w, k)
  BY <1>4, <1>5 DEF Runs, KeyOf
<1>7. Runner' = Runner
  BY <1>6, RunnerChar, RunnerCharNext, QueueAssumption DEF RunnerOK
<1>8. Work!Request(req[p]) BY <1>1, <1>2, <1>3, <1>7, RequestsFree DEF Work!Request
<1>. QED BY <1>3, <1>8 DEF Work!Next

\* What the end of a run does to the abstract state, up to its outcome.
LEMMA RunEndWork ==
  ASSUME IInv, IInv', NEW w \in Workers, current[w] # 0, NEW d, CommitWith(w, d), Finish(w)
  PROVE  /\ w \in Procs /\ KeyOf(w) \in Keys /\ req[w] \subseteq Keys
         /\ Runner[KeyOf(w)] = w /\ Runner' = [Runner EXCEPT ![KeyOf(w)] = None]
         /\ req[w] \cap Work!Running \subseteq {KeyOf(w)}
<1>1. w \in Procs BY DEF Procs
<1>2. KeyOf(w) \in Keys /\ Runs(w, KeyOf(w)) BY RunHolds DEF Runs
<1>3. Runner' = [Runner EXCEPT ![KeyOf(w)] = None]
  BY RunEnds DEF CommitWith, Finish
<1>4. req[w] \subseteq Keys BY <1>1 DEF IInv, TypeOK
<1>. QED BY <1>1, <1>2, <1>3, <1>4, RequestsFree, RunnerChar DEF RunnerOK

LEMMA CommitDoneWork ==
  ASSUME IInv, IInv', NEW w \in Workers, CommitDone(w)
  PROVE  Work!Next
<1>. DEFINE k == KeyOf(w)
<1>1. current[w] # 0 /\ ~IsOpen(draft[current[w]]) /\ draft[current[w]].key = k
  BY DEF CommitDone, Closed, IsOpen, OpenStatuses, KeyOf, IInv, HolderInv, RowInv, TypeOK
<1>2. /\ w \in Procs /\ k \in Keys /\ req[w] \subseteq Keys /\ Runner[k] = w
      /\ Runner' = [Runner EXCEPT ![k] = None] /\ req[w] \cap Work!Running \subseteq {k}
  BY <1>1, RunEndWork DEF CommitDone
<1>3. Waiting' = (Waiting \ {k}) \cup req[w] BY <1>1, <1>2, Published DEF CommitDone
<1>4. Asked' = (Asked \ {k}) \cup req[w] BY <1>2 DEF CommitDone, Settle, Asked
<1>5. Work!Settle(w, k, req[w]) BY <1>2, <1>3, <1>4 DEF Work!Settle
<1>. QED BY <1>2, <1>5 DEF Work!Next

LEMMA FailJobWork ==
  ASSUME IInv, IInv', NEW w \in Workers, FailJob(w)
  PROVE  Work!Next
<1>. DEFINE c == current[w]
            k == KeyOf(w)
            row == Failed(draft[c])
            d == [draft EXCEPT ![c] = row]
<1>1. c # 0 /\ c \in Ids /\ draft[c] \in Row /\ draft[c].key = k
  <2>1. c # 0 BY DEF FailJob, RaceLost, KeyOf, IInv, HolderInv, Procs, TypeOK
  <2>2. c \in Ids /\ IsOpen(jobs[c]) BY <2>1, RunHolds
  <2>3. draft[c] \in Row BY <2>2 DEF IInv, TypeOK
  <2>4. draft[c].key = k
    <3>1. draft[c].key = jobs[c].key BY <2>2 DEF IInv, RowInv, IsOpen, OpenStatuses
    <3>. QED BY <3>1 DEF KeyOf
  <2>. QED BY <2>1, <2>2, <2>3, <2>4
<1>2. /\ CommitWith(w, d) /\ Finish(w)
      /\ Settle(w, IF row.status = "dead" THEN "none" ELSE "queued")
  BY DEF FailJob
<1>3. /\ d[c] = row /\ row.key = k /\ row.status \in {"dead", "pending"}
      /\ \A i \in Ids : i # c => d[i] = draft[i]
  BY <1>1, FailedRow DEF IInv, TypeOK
<1>. HIDE DEF d, row
<1>4. /\ w \in Procs /\ k \in Keys /\ req[w] \subseteq Keys /\ Runner[k] = w
      /\ Runner' = [Runner EXCEPT ![k] = None] /\ req[w] \cap Work!Running \subseteq {k}
  BY <1>1, <1>2, RunEndWork
<1>5. CASE row.status = "dead"
  <2>1. Waiting' = (Waiting \ {k}) \cup req[w]
    BY <1>1, <1>2, <1>3, <1>4, <1>5, Published DEF IsOpen, OpenStatuses
  <2>2. Asked' = (Asked \ {k}) \cup req[w] BY <1>2, <1>4, <1>5 DEF Settle, Asked
  <2>3. Work!Settle(w, k, req[w]) BY <1>4, <2>1, <2>2 DEF Work!Settle
  <2>. QED BY <1>4, <2>3 DEF Work!Next
<1>6. CASE row.status = "pending"
  <2>1. Waiting' = Waiting \cup req[w]
    BY <1>1, <1>2, <1>3, <1>4, <1>6, Published DEF IsOpen, OpenStatuses
  <2>2. Asked' = Asked \cup {k} \cup req[w] BY <1>2, <1>4, <1>6 DEF Settle, Asked
  <2>3. Work!GiveBack(w, k, req[w]) BY <1>4, <2>1, <2>2 DEF Work!GiveBack
  <2>. QED BY <1>4, <2>3 DEF Work!Next
<1>. QED BY <1>3, <1>5, <1>6

LEMMA ClaimWork ==
  ASSUME IInv, IInv', NEW w \in Workers, Claim(w)
  PROVE  Work!Next
<1>1. PICK i \in Ids : /\ Claimable(i) /\ current' = [current EXCEPT ![w] = i]
                       /\ fresh' = [fresh EXCEPT ![jobs[i].key] = "taken"]
  BY DEF Claim
<1>. DEFINE k == jobs[i].key
<1>2. /\ holder[i] = None /\ IsOpen(jobs[i]) /\ k \in Keys /\ k \in Waiting
      /\ current[w] = 0 /\ jobs' = jobs /\ i # 0
  BY <1>1 DEF Claimable, Claim, IsOpen, OpenStatuses, Waiting, IInv, RowInv, HolderInv, Ids
<1>3. \A v \in Workers : ~Runs(v, k)
  <2>. SUFFICES ASSUME NEW v \in Workers, Runs(v, k) PROVE FALSE
    OBVIOUS
  <2>1. /\ current[v] \in Ids /\ holder[current[v]] = v /\ IsOpen(jobs[current[v]])
        /\ jobs[current[v]].key = k
    BY RunHolds DEF Runs, KeyOf
  <2>. QED BY <1>2, <2>1, QueueAssumption DEF IInv, UniqueInv
<1>4. \A v \in Workers, j \in Keys : Runs(v, j)' <=> IF v = w THEN j = k ELSE Runs(v, j)
  BY <1>1, <1>2 DEF Runs, KeyOf, IInv, TypeOK
<1>5. \A j \in Keys : ~Runs(w, j) BY <1>2 DEF Runs
<1>6. Runner' = [Runner EXCEPT ![k] = w]
  <2>1. ASSUME NEW j \in Keys PROVE Runner'[j] = IF j = k THEN w ELSE Runner[j]
    <3>1. CASE j = k BY <1>4, <3>1, RunnerCharNext DEF RunnerOK
    <3>2. CASE j # k
      <4>1. \A v \in Workers : Runs(v, j)' <=> Runs(v, j) BY <1>4, <1>5, <3>2
      <4>. QED BY <3>2, <4>1, RunnerChar, RunnerCharNext, QueueAssumption DEF RunnerOK
    <3>. QED BY <3>1, <3>2
  <2>. QED BY <2>1, RunnerChar, RunnerCharNext DEF RunnerOK
<1>7. Asked' = Asked \ {k} BY <1>1, <1>2 DEF Asked, IInv, TypeOK
<1>8. Waiting' = Waiting BY <1>2 DEF Waiting
<1>9. \A j \in Keys : Runner[j] # w BY <1>5, RunnerChar DEF RunnerOK
<1>10. k \notin Work!Running BY <1>2, <1>3, RunningKeys
<1>11. Work!Take(w, k) BY <1>2, <1>6, <1>7, <1>8, <1>9, <1>10 DEF Work!Take
<1>. QED BY <1>2, <1>11 DEF Work!Next

\* An operator writes one row that nobody holds: no run begins or ends, and its
\* key, if the row is open, is not being run.
LEMMA AdminRow ==
  ASSUME IInv, IInv', NEW c \in Ids, holder[c] = None, jobs[c].key \in Keys,
         current' = current,
         \A i \in Ids : jobs'[i].key = jobs[i].key /\ (i # c => jobs'[i] = jobs[i])
  PROVE  /\ Runner' = Runner
         /\ IsOpen(jobs[c]) => jobs[c].key \notin Work!Running
<1>1. \A w \in Workers, k \in Keys : Runs(w, k)' <=> Runs(w, k)
  BY DEF Runs, KeyOf, IInv, TypeOK
<1>2. Runner' = Runner
  BY <1>1, RunnerChar, RunnerCharNext, QueueAssumption DEF RunnerOK
<1>3. ASSUME IsOpen(jobs[c]), NEW w \in Workers, Runs(w, jobs[c].key) PROVE FALSE
  <2>1. /\ current[w] \in Ids /\ holder[current[w]] = w /\ IsOpen(jobs[current[w]])
        /\ jobs[current[w]].key = jobs[c].key
    BY <1>3, RunHolds DEF Runs, KeyOf
  <2>. QED BY <1>3, <2>1, QueueAssumption DEF IInv, UniqueInv
<1>. QED BY <1>2, <1>3, RunningKeys

LEMMA AdminCancelWork ==
  ASSUME IInv, IInv', NEW a \in Admins, AdminCancel(a)
  PROVE  [Work!Next]_(Work!vars)
<1>. DEFINE c == adm[a].job
            k == jobs[c].key
<1>1. c \in Ids /\ holder[c] = None /\ jobs[c] \in Row /\ k \in Keys
  BY DEF AdminCancel, IInv, AdminInv, RowInv, TypeOK
<1>2. /\ current' = current /\ jobs' = [jobs EXCEPT ![c].status = "cancelled"]
      /\ fresh' = IF IsOpen(jobs[c]) THEN [fresh EXCEPT ![k] = "none"] ELSE fresh
  BY DEF AdminCancel
<1>3. /\ ~IsOpen(jobs'[c]) /\ jobs'[c].key = k
      /\ \A i \in Ids : i # c => jobs'[i] = jobs[i]
  BY <1>1, <1>2 DEF IsOpen, OpenStatuses, IInv, TypeOK, Row
<1>4. CASE ~IsOpen(jobs[c])
  <2>1. \A i \in Ids : jobs'[i].key = jobs[i].key /\ (IsOpen(jobs'[i]) <=> IsOpen(jobs[i]))
    BY <1>3, <1>4
  <2>. QED BY <1>2, <1>4, <2>1, Stutter
<1>5. CASE IsOpen(jobs[c])
  <2>1. Runner' = Runner /\ k \notin Work!Running BY <1>1, <1>2, <1>3, <1>5, AdminRow
  <2>2. Asked' = Asked \ {k} BY <1>1, <1>2, <1>5 DEF Asked, IInv, TypeOK
  <2>3. \A i \in Ids : i # c /\ IsOpen(jobs[i]) => jobs[i].key # k
    BY <1>1, <1>5 DEF IInv, UniqueInv
  <2>4. Waiting' = Waiting \ {k} BY <1>1, <1>3, <2>3 DEF Waiting
  <2>5. Work!Drop(k) BY <1>1, <1>5, <2>1, <2>2, <2>4 DEF Work!Drop, Waiting
  <2>. QED BY <1>1, <2>5 DEF Work!Next
<1>. QED BY <1>4, <1>5

LEMMA AdminRetryWork ==
  ASSUME IInv, IInv', NEW a \in Admins, AdminRetry(a)
  PROVE  Work!Next
<1>. DEFINE c == adm[a].job
            k == jobs[c].key
<1>1. c \in Ids /\ holder[c] = None /\ jobs[c] \in Row /\ k \in Keys
  BY DEF AdminRetry, IInv, AdminInv, RowInv, TypeOK
<1>2. /\ current' = current /\ jobs' = [jobs EXCEPT ![c] = Requeued(jobs[c])]
      /\ fresh' = [fresh EXCEPT ![k] = "queued"]
      /\ \A j \in Ids \ {c} : jobs[j].key = k => ~IsOpen(jobs[j])
  BY DEF AdminRetry, Live
<1>3. /\ IsOpen(jobs'[c]) /\ jobs'[c].key = k
      /\ \A i \in Ids : i # c => jobs'[i] = jobs[i]
  BY <1>1, <1>2, RequeuedRow DEF IsOpen, OpenStatuses, IInv, TypeOK
<1>4. Runner' = Runner BY <1>1, <1>2, <1>3, AdminRow
<1>5. k \notin Work!Running
  <2>. SUFFICES ASSUME NEW w \in Workers, Runs(w, k) PROVE FALSE
    BY <1>1, RunningKeys
  <2>1. /\ current[w] \in Ids /\ holder[current[w]] = w /\ IsOpen(jobs[current[w]])
        /\ jobs[current[w]].key = k
    BY RunHolds DEF Runs, KeyOf
  <2>. QED BY <1>1, <1>2, <2>1, QueueAssumption
<1>6. Asked' = Asked \cup {k} BY <1>1, <1>2 DEF Asked, IInv, TypeOK
<1>7. Waiting' = Waiting \cup {k} BY <1>1, <1>3 DEF Waiting
<1>8. Work!Request({k}) BY <1>4, <1>5, <1>6, <1>7 DEF Work!Request
<1>. QED BY <1>1, <1>8 DEF Work!Next

\* A step inside a transaction changes no committed row.
LEMMA PrivateWork ==
  ASSUME IInv, IInv', jobs' = jobs, current' = current, fresh' = fresh
  PROVE  UNCHANGED Work!vars
  BY Stutter

LEMMA InitWork == Init => Work!Init
<1>. SUFFICES ASSUME Init PROVE Work!Init
  OBVIOUS
<1>1. Asked = {} BY DEF Init, Asked
<1>2. Waiting = {} BY DEF Init, Waiting, NoRow, IsOpen, OpenStatuses
<1>3. Runner = [k \in Keys |-> None] BY DEF Init, Runner, Runs
<1>. QED BY <1>1, <1>2, <1>3 DEF Work!Init

LEMMA StepWork == IInv /\ IInv' /\ [Next]_vars => [Work!Next]_(Work!vars)
<1>. SUFFICES ASSUME IInv, IInv', [Next]_vars PROVE [Work!Next]_(Work!vars)
  OBVIOUS
<1>1. ASSUME NEW p \in Procs, EnqueueStep(p) PROVE [Work!Next]_(Work!vars)
  <2>1. CASE \E k \in Keys : FindDuplicate(p, k)
    BY <2>1, PrivateWork DEF FindDuplicate
  <2>2. CASE RefreshDuplicate(p) BY <2>2, PrivateWork DEF RefreshDuplicate, Enqueued
  <2>3. CASE DuplicateGone(p) BY <2>3, PrivateWork DEF DuplicateGone
  <2>4. CASE Insert(p) BY <2>4, PrivateWork DEF Insert, Enqueued
  <2>5. CASE InsertConflict(p) BY <2>5, PrivateWork DEF InsertConflict
  <2>6. CASE DeadlockVictim(p)
    <3>1. PICK S \in SUBSET Procs : p \in S /\ \A q \in S : WaitsFor(q) # {}
      BY <2>6 DEF DeadlockVictim
    <3>2. stage[p] # "idle" BY <3>1 DEF WaitsFor
    <3>. QED BY <2>6, <3>2, RollbackWork DEF DeadlockVictim, IInv, HolderInv
  <2>. QED BY <1>1, <2>1, <2>2, <2>3, <2>4, <2>5, <2>6 DEF EnqueueStep
<1>2. ASSUME NEW p \in Producers, Begin(p) \/ ProducerStep(p)
      PROVE  [Work!Next]_(Work!vars)
  <2>0. p \in Procs /\ p \notin Workers BY QueueAssumption DEF Procs
  <2>1. CASE Begin(p) BY <2>1, PrivateWork DEF Begin
  <2>2. CASE EnqueueStep(p) BY <1>1, <2>0, <2>2
  <2>3. CASE Commit(p) BY <2>0, <2>3, CommitWork
  <2>4. CASE Abort(p) BY <2>0, <2>4, RollbackWork DEF Abort
  <2>. QED BY <1>2, <2>1, <2>2, <2>3, <2>4 DEF ProducerStep
<1>3. ASSUME NEW w \in Workers, WorkerStep(w) \/ Crash(w)
      PROVE  [Work!Next]_(Work!vars)
  <2>0. w \in Procs BY DEF Procs
  <2>1. CASE EnqueueStep(w) BY <1>1, <2>0, <2>1
  <2>2. CASE Claim(w) BY <2>2, ClaimWork
  <2>3. CASE MarkDone(w) BY <2>3, PrivateWork DEF MarkDone
  <2>4. CASE CommitDone(w) BY <2>4, CommitDoneWork
  <2>5. CASE FailJob(w) BY <2>5, FailJobWork
  <2>6. CASE AbortedByDatabase(w)
    <3>1. stage[w] # "idle" BY <2>6 DEF AbortedByDatabase
    <3>. QED BY <2>0, <2>6, <3>1, RollbackWork DEF AbortedByDatabase, IInv, HolderInv
  <2>7. CASE Crash(w)
    <3>1. stage[w] # "idle" BY <2>7 DEF Crash, InTxn
    <3>. QED BY <2>0, <2>7, <3>1, RollbackWork DEF Crash, IInv, HolderInv
  <2>. QED BY <1>3, <2>1, <2>2, <2>3, <2>4, <2>5, <2>6, <2>7 DEF WorkerStep
<1>4. ASSUME NEW i \in Ids, BecomeDue(i) PROVE [Work!Next]_(Work!vars)
  <2>1. jobs[i] \in Row /\ jobs' = [jobs EXCEPT ![i] = [jobs[i] EXCEPT !.due = TRUE]]
    BY <1>4 DEF BecomeDue, IInv, TypeOK
  <2>2. \A j \in Ids : /\ jobs'[j].key = jobs[j].key
                       /\ jobs'[j].status = jobs[j].status
    BY <2>1 DEF Row, IInv, TypeOK
  <2>3. current' = current /\ fresh' = fresh BY <1>4 DEF BecomeDue
  <2>. QED BY <2>2, <2>3, Stutter DEF IsOpen
<1>5. ASSUME NEW a \in Admins, AdminStep(a) \/ \E i \in Ids : AdminLoad(a, i)
      PROVE  [Work!Next]_(Work!vars)
  <2>1. CASE AdminCancel(a) BY <2>1, AdminCancelWork
  <2>2. CASE AdminRetry(a) BY <2>2, AdminRetryWork
  <2>3. CASE AdminRefused(a) BY <2>3, PrivateWork DEF AdminRefused
  <2>4. CASE \E i \in Ids : AdminLoad(a, i) BY <2>4, PrivateWork DEF AdminLoad
  <2>. QED BY <1>5, <2>1, <2>2, <2>3, <2>4 DEF AdminStep
<1>6. CASE UNCHANGED vars BY <1>6, PrivateWork DEF vars
<1>. QED BY <1>2, <1>3, <1>4, <1>5, <1>6 DEF Next

\* A key leaves the queue only through the end of a run or an operator, two
\* runs of a key never overlap and no request is lost in a run that began
\* before it, whatever the transactions, crashes and deadlocks in between.
THEOREM Implementation == Spec => ImplementsKeyedWork
<1>1. Spec => []IInv BY Invariance
<1>2. Init => Work!Init BY InitWork
<1>3. IInv /\ IInv' /\ [Next]_vars => [Work!Next]_(Work!vars) BY StepWork
<1>. QED BY <1>1, <1>2, <1>3, PTL DEF Spec, ImplementsKeyedWork, Work!Spec
=============================================================================
