---------------------------- MODULE FactSlot_proofs ----------------------------
(***************************************************************************)
(* Proofs about FactSlot, for any values, documents and processes and      *)
(* every value of the bounds.                                              *)
(***************************************************************************)
EXTENDS FactSlot, FiniteSetTheorems, WellFoundedInduction, TLAPS

-----------------------------------------------------------------------------
(* The inductive invariant                                                 *)

Adding == {"structured", "agent", "extract"}

\* Where a process holds no row.
AtRest == {"idle", "window", "applied"}

\* Where a process has closed the slot and writes no more.
Closed == {"count", "ready"}

\* What p is doing, t, fits where it is, s, and what p is.
KindFits(p, t) ==
  /\ p \in Writers => t.kind \in WriteKinds \cup {"none"}
  /\ p \in Removers => t.kind \in {"none", "delete"}
  /\ p \in Extractors => t.kind \in {"none", "extract"}
  /\ p \in Resolvers => t.kind \in {"none", "resolve", "rerank"}

Fits(p, s, t) ==
  /\ KindFits(p, t)
  /\ s = "idle" => t = NoTxn
  /\ s # "idle" => t.kind # "none"
  /\ t.kind \notin {"none", "resolve", "rerank"} => t.doc \in Docs
  /\ s \in {"own", "raced", "insert", "added"} => t.kind \in Adding
  /\ s \in {"own", "raced", "insert"} =>
       t.status \in {"proposed", "active"} /\ t.obj \in Values
  /\ s \in {"own", "raced", "added"} => t.row \in Ids
  /\ s \notin {"slot", "count", "ready"} => t.got = {}
  /\ s \in {"window", "applied"} => t.kind = "extract"
  /\ s = "removing" => t.kind \in {"delete", "extract"}
  /\ t.kind = "delete" => s = "removing"

TxnInv == \A p \in Procs : Fits(p, stage[p], txn[p])

\* A row that nobody has written is as committed; a holder is at work.
DraftInv ==
  \A i \in Ids : /\ holder[i] = None => draft[i] = claims[i]
                 /\ holder[i] # None => stage[holder[i]] \notin AtRest

\* The rows a closer has locked are active and its own.
SlotInv ==
  \A p \in Procs : stage[p] = "slot" =>
    \A i \in txn[p].got : holder[i] = p /\ IsActive(draft[i])

\* Row i, superseded by a transaction that has not ended, loses to an active
\* row of the same transaction, which writes no more.
LosesInside(i) ==
  /\ holder[i] \in Procs /\ stage[holder[i]] \in Closed
  /\ draft[i].winner \in Ids
  /\ holder[draft[i].winner] = holder[i]
  /\ IsActive(draft[draft[i].winner])
  /\ Precedence(draft[draft[i].winner].by, draft[draft[i].winner].docs)
       >= Precedence(draft[i].by, draft[i].docs)

CloseInv ==
  \A i \in Ids :
    draft[i].status = "superseded" /\ claims[i].status # "superseded" => LosesInside(i)

IInv == TypeOK /\ TxnInv /\ DraftInv /\ SlotInv /\ CloseInv

-----------------------------------------------------------------------------
(* Rows and transactions                                                   *)

\* A set of natural numbers has a least element: the rows to lock have a first.
LEMMA NatMin ==
  ASSUME NEW S, S \subseteq Nat, S # {}
  PROVE  \E i \in S : \A j \in S : i <= j
<1>. DEFINE T == {1 .. k : k \in S}
<1>1. IsWellFoundedOn(StrictSubsetOrdering(Nat), FiniteSubsetsOf(Nat))
  BY FS_StrictSubsetOrderingWellFounded
<1>2. T \subseteq FiniteSubsetsOf(Nat) BY FS_Interval DEF FiniteSubsetsOf
<1>3. T # {} OBVIOUS
<1>. HIDE DEF T
<1>4. PICK x \in T : \A y \in T : ~ (<<y, x>> \in StrictSubsetOrdering(Nat))
  BY <1>1, <1>2, <1>3, WFMin
<1>5. PICK i \in S : x = 1 .. i BY DEF T
<1>6. ASSUME NEW j \in S, j < i PROVE FALSE
  <2>1. 1 .. j \in T BY DEF T
  <2>2. 1 .. j \subseteq 1 .. i BY <1>6
  <2>3. i \in 1 .. i /\ i \notin 1 .. j BY <1>6
  <2>4. <<1 .. j, x>> \in StrictSubsetOrdering(Nat)
    BY <2>2, <2>3, <1>5 DEF StrictSubsetOrdering
  <2>. QED BY <2>1, <2>4, <1>4
<1>. QED BY <1>6

LEMMA FirstRow ==
  ASSUME NEW S, S \subseteq Ids, S # {}
  PROVE  First(S) \in S /\ First(S) \in Ids
<1>1. S \subseteq Nat BY SlotAssumption DEF Ids
<1>2. \E i \in S : \A j \in S : i <= j BY <1>1, NatMin
<1>. QED BY <1>2 DEF First

\* The fields of a row, and those of a transaction.
LEMMA ClaimFields ==
  ASSUME NEW c \in Claim
  PROVE  /\ c.obj \in Values \cup {None} /\ c.status \in Statuses
         /\ c.by \in Creators \cup {"nobody"} /\ c.docs \subseteq Docs
         /\ c.closed \in BOOLEAN /\ c.winner \in Ids \cup {0}
  BY DEF Claim

LEMMA TxnFields ==
  ASSUME NEW t \in Txn
  PROVE  /\ t.kind \in {"none", "structured", "clear", "agent", "delete", "extract",
                        "resolve", "rerank"}
         /\ t.obj \in Values \cup {None} /\ t.doc \in Docs \cup {None}
         /\ t.status \in Statuses /\ t.row \in Ids \cup {0}
         /\ t.todo \subseteq Ids /\ t.got \subseteq Ids
  BY DEF Txn

LEMMA NoRow == NoClaim \in Claim /\ NoTxn \in Txn
<1>1. NoClaim \in Claim BY DEF NoClaim, Claim, Statuses
<1>2. NoTxn \in Txn BY DEF NoTxn, Txn, Statuses
<1>. QED BY <1>1, <1>2

\* The row a process sees is a row.
LEMMA SeenRow ==
  ASSUME TypeOK, NEW p \in Procs, NEW i \in Ids
  PROVE  Seen(p, i) \in Claim
  BY DEF TypeOK, Seen

LEMMA PrecedenceNat ==
  ASSUME NEW by, NEW D
  PROVE  Precedence(by, D) \in 1 .. 4
  BY DEF Precedence

\* What a transaction makes of a live row, or of no row, is a live row that cites
\* its document.
LEMMA MergedRow ==
  ASSUME NEW c \in Claim, NEW t \in Txn, IsLive(c),
         t.kind \in Adding, t.doc \in Docs, t.status \in {"proposed", "active"}
  PROVE  Merged(c, t) \in Claim /\ IsLive(Merged(c, t))
<1>. DEFINE by == IF t.kind = "extract" THEN "extraction" ELSE t.kind
            docs == c.docs \cup {t.doc}
            b == IF Precedence(by, docs) > Precedence(c.by, docs) THEN by ELSE c.by
            s == IF t.status = "active" THEN "active"
                 ELSE IF c.status = "retracted" THEN "proposed" ELSE c.status
<1>1. b \in Creators \cup {"nobody"} BY ClaimFields DEF Creators, Adding
<1>2. s \in LiveStatuses BY DEF IsLive, LiveStatuses
<1>3. docs \subseteq Docs BY ClaimFields
<1>4. Merged(c, t) = [c EXCEPT !.docs = docs, !.by = b, !.status = s] BY DEF Merged
<1>. HIDE DEF by, docs, b, s
<1>. QED BY <1>1, <1>2, <1>3, <1>4 DEF Claim, IsLive, LiveStatuses, Statuses

LEMMA InsertedRow ==
  ASSUME NEW t \in Txn, t.obj \in Values,
         t.kind \in Adding, t.doc \in Docs, t.status \in {"proposed", "active"}
  PROVE  NewClaim(t) \in Claim /\ IsLive(NewClaim(t))
  BY DEF NewClaim, Claim, Adding, Creators, Statuses, IsLive, LiveStatuses

LEMMA ClosedRow ==
  ASSUME NEW c \in Claim, NEW w \in Ids
  PROVE  /\ Superseded(c, w) \in Claim /\ Superseded(c, w).winner = w
         /\ Superseded(c, w).status = "superseded"
         /\ Superseded(c, w).by = c.by /\ Superseded(c, w).docs = c.docs
  BY DEF Superseded, Claim, Statuses

LEMMA RetractedRow ==
  ASSUME NEW c \in Claim
  PROVE  Retracted(c) \in Claim /\ Retracted(c).status = "retracted"
  BY DEF Retracted, Claim, Statuses

-----------------------------------------------------------------------------
(* Steps of one process                                                    *)

\* Only p moves.
Moves(p) == \A q \in Procs \ {p} : stage'[q] = stage[q] /\ txn'[q] = txn[q]

\* The rows p writes are those it can lock, and it holds them from then on.
WritesOwn(p) ==
  /\ claims' = claims
  /\ \A i \in Ids : \/ holder'[i] = holder[i] /\ draft'[i] = draft[i]
                    \/ holder[i] \in {None, p} /\ holder'[i] = p

\* A step within a transaction keeps the invariant if what it does with its own
\* rows fits.
LEMMA StepInv ==
  ASSUME IInv, NEW p \in Procs, TypeOK', Moves(p), WritesOwn(p),
         Fits(p, stage'[p], txn'[p]),
         stage'[p] \in AtRest => stage[p] \in AtRest /\ UNCHANGED holder,
         stage[p] \in Closed => stage'[p] \in Closed /\ UNCHANGED <<draft, holder>>,
         stage'[p] = "slot" =>
           \A i \in txn'[p].got : holder'[i] = p /\ IsActive(draft'[i]),
         \A i \in Ids : \/ draft'[i] = draft[i]
                        \/ draft'[i].status # "superseded"
                        \/ claims[i].status = "superseded"
                        \/ LosesInside(i)'
  PROVE  IInv'
<1>1. TxnInv' BY DEF IInv, TxnInv, Moves
<1>2. DraftInv' 
  <2>. SUFFICES ASSUME NEW i \in Ids
                PROVE  /\ holder'[i] = None => draft'[i] = claims'[i]
                       /\ holder'[i] # None => stage'[holder'[i]] \notin AtRest
    BY DEF DraftInv
  <2>1. claims' = claims /\ (holder[i] = None => draft[i] = claims[i])
        /\ (holder[i] # None => stage[holder[i]] \notin AtRest)
    BY DEF IInv, DraftInv, WritesOwn
  <2>2. CASE holder'[i] = holder[i] /\ draft'[i] = draft[i]
    <3>1. CASE holder[i] = p BY <2>1, <2>2, <3>1, SlotAssumption DEF Procs
    <3>2. CASE holder[i] # p BY <2>1, <2>2, <3>2 DEF Moves, IInv, TypeOK
    <3>. QED BY <3>1, <3>2
  <2>3. CASE holder[i] \in {None, p} /\ holder'[i] = p
    <3>1. p # None BY SlotAssumption
    <3>2. ASSUME stage'[p] \in AtRest PROVE FALSE
      <4>1. holder[i] = p BY <2>3, <3>2
      <4>. QED BY <2>1, <3>1, <3>2, <4>1
    <3>. QED BY <2>3, <3>1, <3>2
  <2>. QED BY <2>2, <2>3 DEF WritesOwn
<1>3. SlotInv'
  <2>. SUFFICES ASSUME NEW q \in Procs, stage'[q] = "slot", NEW i \in txn'[q].got
                PROVE  holder'[i] = q /\ IsActive(draft'[i])
    BY DEF SlotInv, IsActive
  <2>1. CASE q = p BY <2>1
  <2>2. CASE q # p
    <3>1. i \in Ids /\ holder[i] = q /\ IsActive(draft[i])
      BY <2>2, TxnFields DEF IInv, SlotInv, Moves, TypeOK
    <3>. QED BY <2>2, <3>1, SlotAssumption DEF WritesOwn, IsActive
  <2>. QED BY <2>1, <2>2
<1>4. CloseInv'
  <2>. SUFFICES ASSUME NEW i \in Ids, draft'[i].status = "superseded",
                       claims'[i].status # "superseded"
                PROVE  LosesInside(i)'
    BY DEF CloseInv
  <2>1. CASE draft'[i] = draft[i]
    <3>1. LosesInside(i) BY <2>1 DEF IInv, CloseInv, WritesOwn
    <3>2. CASE holder[i] = p
      <4>1. UNCHANGED <<draft, holder>> /\ stage'[p] \in Closed
        BY <3>1, <3>2 DEF LosesInside
      <4>. QED BY <3>1, <3>2, <4>1 DEF LosesInside, IsActive
    <3>3. CASE holder[i] # p
      <4>1. holder[i] \in Procs /\ holder[draft[i].winner] = holder[i]
        BY <3>1 DEF LosesInside
      <4>2. \A j \in Ids : holder[j] = holder[i] => holder'[j] = holder[j] /\ draft'[j] = draft[j]
        BY <3>3, <4>1, SlotAssumption DEF WritesOwn
      <4>3. stage'[holder[i]] = stage[holder[i]] BY <3>3, <4>1 DEF Moves
      <4>. QED BY <3>1, <4>1, <4>2, <4>3 DEF LosesInside, IsActive
    <3>. QED BY <3>2, <3>3
  <2>2. CASE draft'[i] # draft[i] BY <2>2 DEF WritesOwn
  <2>. QED BY <2>1, <2>2
<1>. QED BY <1>1, <1>2, <1>3, <1>4 DEF IInv

\* So does the end of a transaction that is committed.
LEMMA CommitInv ==
  ASSUME IInv, NEW p \in Procs, TypeOK', Moves(p), CommitRows(p),
         Fits(p, stage'[p], txn'[p]), stage'[p] \in AtRest
  PROVE  IInv'
<1>1. TxnInv' BY DEF IInv, TxnInv, Moves
<1>2. DraftInv'
  <2>. SUFFICES ASSUME NEW i \in Ids
                PROVE  /\ holder'[i] = None => draft'[i] = claims'[i]
                       /\ holder'[i] # None => stage'[holder'[i]] \notin AtRest
    BY DEF DraftInv
  <2>. QED BY SlotAssumption DEF IInv, DraftInv, CommitRows, Moves, TypeOK
<1>3. SlotInv'
  <2>. SUFFICES ASSUME NEW q \in Procs, stage'[q] = "slot", NEW i \in txn'[q].got
                PROVE  holder'[i] = q /\ IsActive(draft'[i])
    BY DEF SlotInv, IsActive
  <2>1. q # p BY DEF AtRest
  <2>2. i \in Ids /\ holder[i] = q /\ IsActive(draft[i])
    BY <2>1, TxnFields DEF IInv, SlotInv, Moves, TypeOK
  <2>. QED BY <2>1, <2>2 DEF CommitRows, IsActive
<1>4. CloseInv'
  <2>. SUFFICES ASSUME NEW i \in Ids, draft'[i].status = "superseded",
                       claims'[i].status # "superseded"
                PROVE  LosesInside(i)'
    BY DEF CloseInv
  <2>1. holder[i] # p /\ claims'[i] = claims[i] /\ draft'[i] = draft[i]
    BY DEF CommitRows, IInv, DraftInv
  <2>2. LosesInside(i) BY <2>1 DEF IInv, CloseInv
  <2>3. holder[i] \in Procs /\ holder[draft[i].winner] = holder[i] BY <2>2 DEF LosesInside
  <2>4. \A j \in Ids : holder[j] = holder[i] => holder'[j] = holder[j] /\ draft'[j] = draft[j]
    BY <2>1 DEF CommitRows
  <2>5. stage'[holder[i]] = stage[holder[i]] BY <2>1, <2>3 DEF Moves
  <2>. QED BY <2>1, <2>2, <2>3, <2>4, <2>5 DEF LosesInside, IsActive
<1>. QED BY <1>1, <1>2, <1>3, <1>4 DEF IInv

\* And the end of one that is not.
LEMMA RollbackInv ==
  ASSUME IInv, NEW p \in Procs, stage[p] # "idle", Rollback(p), spent' \in
           [writes : 0 .. MaxWrites, aborts : 0 .. MaxAborts]
  PROVE  IInv'
<1>1. stage' = [stage EXCEPT ![p] = "idle"] /\ txn' = [txn EXCEPT ![p] = NoTxn]
  BY DEF Rollback, EndWork
<1>2. stage'[p] = "idle" /\ txn'[p] = NoTxn /\ Moves(p)
  BY <1>1 DEF Moves, IInv, TypeOK
<1>3. TypeOK'
  <2>1. txn' \in [Procs -> Txn] /\ stage' \in [Procs -> Stages]
    BY <1>1, NoRow DEF IInv, TypeOK, Stages
  <2>2. claims' \in [Ids -> Claim] /\ draft' \in [Ids -> Claim]
        /\ holder' \in [Ids -> Procs \cup {None}]
    BY DEF Rollback, IInv, TypeOK
  <2>3. loaded' \in [Procs -> [Ids -> Claim]] BY NoRow DEF Rollback, EndWork, IInv, TypeOK
  <2>4. docLock' \in [Docs -> Procs \cup {None}] /\ jobHolder' \in Procs \cup {None}
    BY DEF Rollback, Unlocked, IInv, TypeOK
  <2>5. extract' \in [Docs -> {"none", "queued", "running"}] BY DEF Rollback, IInv, TypeOK
  <2>. QED BY <2>1, <2>2, <2>3, <2>4, <2>5 DEF Rollback, IInv, TypeOK
<1>4. TxnInv'
  <2>1. Fits(p, "idle", NoTxn) BY DEF Fits, KindFits, NoTxn
  <2>. QED BY <1>2, <2>1 DEF IInv, TxnInv, Moves
<1>5. DraftInv'
  <2>. SUFFICES ASSUME NEW i \in Ids
                PROVE  /\ holder'[i] = None => draft'[i] = claims'[i]
                       /\ holder'[i] # None => stage'[holder'[i]] \notin AtRest
    BY DEF DraftInv
  <2>. QED BY <1>2, SlotAssumption DEF IInv, DraftInv, Rollback, Moves, TypeOK
<1>6. SlotInv'
  <2>. SUFFICES ASSUME NEW q \in Procs, stage'[q] = "slot", NEW i \in txn'[q].got
                PROVE  holder'[i] = q /\ IsActive(draft'[i])
    BY DEF SlotInv, IsActive
  <2>1. q # p BY <1>2
  <2>2. i \in Ids /\ holder[i] = q /\ IsActive(draft[i])
    BY <1>2, <2>1, TxnFields DEF IInv, SlotInv, Moves, TypeOK
  <2>. QED BY <2>1, <2>2 DEF Rollback, IsActive
<1>7. CloseInv'
  <2>. SUFFICES ASSUME NEW i \in Ids, draft'[i].status = "superseded",
                       claims'[i].status # "superseded"
                PROVE  LosesInside(i)'
    BY DEF CloseInv
  <2>1. holder[i] # p /\ claims'[i] = claims[i] /\ draft'[i] = draft[i]
    BY DEF Rollback
  <2>2. LosesInside(i) BY <2>1 DEF IInv, CloseInv
  <2>3. holder[i] \in Procs /\ holder[draft[i].winner] = holder[i] BY <2>2 DEF LosesInside
  <2>4. \A j \in Ids : holder[j] = holder[i] => holder'[j] = holder[j] /\ draft'[j] = draft[j]
    BY <2>1 DEF Rollback
  <2>5. stage'[holder[i]] = stage[holder[i]] BY <1>2, <2>1, <2>3 DEF Moves
  <2>. QED BY <2>1, <2>2, <2>3, <2>4, <2>5 DEF LosesInside, IsActive
<1>. QED BY <1>3, <1>4, <1>5, <1>6, <1>7 DEF IInv

\* The part of the state that is neither a row nor a transaction.
RestOK ==
  /\ loaded \in [Procs -> [Ids -> Claim]]
  /\ docLock \in [Docs -> Procs \cup {None}]
  /\ gone \subseteq Docs /\ applied \subseteq Docs
  /\ extract \in [Docs -> {"none", "queued", "running"}]
  /\ queued \in BOOLEAN /\ jobHolder \in Procs \cup {None}
  /\ spent \in [writes : 0 .. MaxWrites, aborts : 0 .. MaxAborts]

\* A step that writes no row: the process goes to s with t.
LEMMA LookInv ==
  ASSUME IInv, NEW p \in Procs, NEW s \in Stages, NEW t \in Txn,
         stage' = [stage EXCEPT ![p] = s], txn' = [txn EXCEPT ![p] = t],
         UNCHANGED tables, RestOK', Fits(p, s, t),
         s \in AtRest => stage[p] \in AtRest,
         stage[p] \in Closed => s \in Closed,
         s = "slot" => t.got \subseteq (IF stage[p] = "slot" THEN txn[p].got ELSE {})
  PROVE  IInv'
<1>1. TypeOK' BY DEF TypeOK, RestOK, tables, IInv
<1>2. stage'[p] = s /\ txn'[p] = t /\ Moves(p) BY DEF IInv, TypeOK, Moves
<1>3. WritesOwn(p) BY DEF WritesOwn, tables
<1>4. s = "slot" => \A i \in t.got : holder'[i] = p /\ IsActive(draft'[i])
  BY DEF IInv, SlotInv, tables
<1>. QED BY <1>1, <1>2, <1>3, <1>4, StepInv DEF tables

LEMMA SearchInv ==
  ASSUME IInv, NEW p \in Procs, NEW t \in Txn, stage[p] \in AtRest,
         t.kind \in Adding, t.obj \in Values, t.doc \in Docs,
         t.status \in {"proposed", "active"}, t.got = {}, KindFits(p, t),
         UNCHANGED tables, RestOK', Search(p, t)
  PROVE  IInv'
<1>1. CASE stage' = [stage EXCEPT ![p] = "insert"] /\ txn' = [txn EXCEPT ![p] = t]
  <2>1. Fits(p, "insert", t) BY DEF Fits, Adding
  <2>. QED BY <1>1, <2>1, LookInv DEF Stages, AtRest, Closed
<1>2. ASSUME NEW i \in SameObject(p, t.obj), stage' = [stage EXCEPT ![p] = "own"],
             txn' = [txn EXCEPT ![p] = [t EXCEPT !.row = i]]
      PROVE  IInv'
  <2>. DEFINE u == [t EXCEPT !.row = i]
  <2>1. u \in Txn /\ u.kind = t.kind /\ u.obj = t.obj /\ u.doc = t.doc
        /\ u.status = t.status /\ u.got = t.got /\ u.row \in Ids
    BY DEF Txn, SameObject
  <2>. HIDE DEF u
  <2>2. Fits(p, "own", u) BY <2>1 DEF Fits, KindFits, Adding
  <2>3. txn' = [txn EXCEPT ![p] = u] BY <1>2 DEF u
  <2>. QED BY <1>2, <2>1, <2>2, <2>3, LookInv DEF Stages, AtRest, Closed
<1>. QED BY <1>1, <1>2 DEF Search

-----------------------------------------------------------------------------
(* add_claim                                                               *)

\* A request that starts with document d.
LEMMA BeginWriteRest ==
  ASSUME TypeOK, NEW p \in Writers, NEW k, NEW d, BeginWrite(p, k, d),
         docLock' \in [Docs -> Procs \cup {None}]
  PROVE  RestOK' /\ UNCHANGED tables
<1>1. spent.writes + 1 \in 0 .. MaxWrites BY SlotAssumption DEF BeginWrite, TypeOK
<1>. QED BY <1>1 DEF BeginWrite, TypeOK, RestOK

LEMMA ApplyFieldInv ==
  ASSUME IInv, NEW p \in Writers, NEW o \in Values, NEW d \in Docs, ApplyField(p, o, d)
  PROVE  IInv'
<1>. DEFINE t == [Write("structured", d) EXCEPT !.obj = o]
<1>1. t \in Txn /\ t.kind = "structured" /\ t.doc = d /\ t.obj = o
      /\ t.status = "active" /\ t.got = {}
  BY DEF Write, NoTxn, Txn, Statuses
<1>2. p \in Procs BY DEF Procs
<1>3. docLock' \in [Docs -> Procs \cup {None}]
  BY <1>2 DEF ApplyField, IngestsDocument, IInv, TypeOK
<1>4. BeginWrite(p, "structured", d) /\ Search(p, t) BY DEF ApplyField
<1>5. RestOK' /\ UNCHANGED tables BY <1>3, <1>4, BeginWriteRest DEF IInv
<1>6. stage[p] \in AtRest BY <1>4 DEF BeginWrite, AtRest
<1>. HIDE DEF t
<1>7. KindFits(p, t) BY <1>1, <1>4, SlotAssumption DEF KindFits, BeginWrite
<1>. QED BY <1>1, <1>2, <1>4, <1>5, <1>6, <1>7, SearchInv DEF Adding

LEMMA PromoteInv ==
  ASSUME IInv, NEW p \in Writers, NEW o \in Values, NEW d \in Docs, Promote(p, o, d)
  PROVE  IInv'
<1>. DEFINE t == [Write("agent", d) EXCEPT !.obj = o]
<1>1. t \in Txn /\ t.kind = "agent" /\ t.doc = d /\ t.obj = o
      /\ t.status = "active" /\ t.got = {}
  BY DEF Write, NoTxn, Txn, Statuses
<1>2. p \in Procs BY DEF Procs
<1>3. docLock' \in [Docs -> Procs \cup {None}] BY DEF Promote, IInv, TypeOK
<1>4. BeginWrite(p, "agent", d) /\ Search(p, t) BY DEF Promote
<1>5. RestOK' /\ UNCHANGED tables BY <1>3, <1>4, BeginWriteRest DEF IInv
<1>6. stage[p] \in AtRest BY <1>4 DEF BeginWrite, AtRest
<1>. HIDE DEF t
<1>7. KindFits(p, t) BY <1>1, <1>4, SlotAssumption DEF KindFits, BeginWrite
<1>. QED BY <1>1, <1>2, <1>4, <1>5, <1>6, <1>7, SearchInv DEF Adding

LEMMA ClearFieldInv ==
  ASSUME IInv, NEW p \in Writers, NEW d \in Docs, ClearField(p, d)
  PROVE  IInv'
<1>. DEFINE t == [Write("clear", d) EXCEPT !.todo = ActiveRows(p)]
<1>1. ActiveRows(p) \subseteq Ids BY DEF ActiveRows
<1>2. t \in Txn /\ t.kind = "clear" /\ t.doc = d /\ t.got = {}
  BY <1>1 DEF Write, NoTxn, Txn, Statuses
<1>3. p \in Procs BY DEF Procs
<1>4. docLock' \in [Docs -> Procs \cup {None}]
  BY <1>3 DEF ClearField, IngestsDocument, IInv, TypeOK
<1>5. BeginWrite(p, "clear", d) /\ stage' = [stage EXCEPT ![p] = "slot"]
      /\ txn' = [txn EXCEPT ![p] = t]
  BY DEF ClearField
<1>6. RestOK' /\ UNCHANGED tables BY <1>4, <1>5, BeginWriteRest DEF IInv
<1>7. stage[p] \in AtRest /\ stage[p] \notin Closed BY <1>5 DEF BeginWrite, AtRest, Closed
<1>. HIDE DEF t
<1>8. Fits(p, "slot", t) BY <1>2, <1>5, SlotAssumption DEF Fits, KindFits, BeginWrite
<1>. QED BY <1>2, <1>3, <1>5, <1>6, <1>7, <1>8, LookInv DEF Stages, AtRest

\* What a process at a stage knows of its transaction.
LEMMA TxnOf ==
  ASSUME IInv, NEW p \in Procs
  PROVE  /\ txn[p] \in Txn /\ Fits(p, stage[p], txn[p])
         /\ stage[p] \in Stages /\ RestOK
  BY DEF IInv, TxnInv, TypeOK, RestOK

LEMMA MergeClaimInv ==
  ASSUME IInv, NEW p \in Procs, MergeClaim(p)
  PROVE  IInv'
<1>. DEFINE i == txn[p].row
            row == Merged(Seen(p, i), txn[p])
<1>1. stage[p] \in {"own", "raced"} /\ CanLock(p, i) /\ IsLive(Seen(p, i))
      /\ holder' = [holder EXCEPT ![i] = p] /\ draft' = [draft EXCEPT ![i] = row]
      /\ stage' = [stage EXCEPT ![p] = "added"]
      /\ UNCHANGED <<claims, txn, loaded, work, spent>>
  BY DEF MergeClaim
<1>2. txn[p] \in Txn /\ i \in Ids /\ txn[p].kind \in Adding /\ txn[p].doc \in Docs
      /\ txn[p].status \in {"proposed", "active"} /\ Fits(p, stage[p], txn[p])
  BY <1>1, TxnOf DEF Fits, Adding
<1>3. row \in Claim /\ IsLive(row) BY <1>1, <1>2, SeenRow, MergedRow DEF IInv
<1>. HIDE DEF row
<1>4. TypeOK' BY <1>1, <1>2, <1>3 DEF IInv, TypeOK, Stages, work
<1>5. stage'[p] = "added" /\ txn'[p] = txn[p] /\ Moves(p)
  BY <1>1 DEF IInv, TypeOK, Moves
<1>6. Fits(p, "added", txn[p]) BY <1>1, <1>2 DEF Fits
<1>7. WritesOwn(p) BY <1>1, <1>2 DEF WritesOwn, CanLock, IInv, TypeOK
<1>8. \A j \in Ids : draft'[j] = draft[j] \/ draft'[j].status # "superseded"
  BY <1>1, <1>2, <1>3 DEF IsLive, LiveStatuses, IInv, TypeOK
<1>9. "added" \notin AtRest /\ stage[p] \notin Closed BY <1>1 DEF AtRest, Closed
<1>. QED BY <1>4, <1>5, <1>6, <1>7, <1>8, <1>9, StepInv

LEMMA OwnRowGoneInv ==
  ASSUME IInv, NEW p \in Procs, OwnRowGone(p)
  PROVE  IInv'
<1>. DEFINE t == [txn[p] EXCEPT !.row = 0]
<1>1. stage[p] = "own" /\ stage' = [stage EXCEPT ![p] = "insert"]
      /\ txn' = [txn EXCEPT ![p] = t] /\ UNCHANGED <<tables, loaded, work, spent>>
  BY DEF OwnRowGone
<1>2. txn[p] \in Txn /\ Fits(p, "own", txn[p]) /\ RestOK BY <1>1, TxnOf
<1>3. t \in Txn /\ t.kind = txn[p].kind /\ t.obj = txn[p].obj /\ t.doc = txn[p].doc
      /\ t.status = txn[p].status /\ t.got = txn[p].got
  BY <1>2 DEF Txn
<1>. HIDE DEF t
<1>4. Fits(p, "insert", t) BY <1>2, <1>3 DEF Fits, KindFits
<1>5. RestOK' BY <1>1, <1>2 DEF RestOK, work
<1>. QED BY <1>1, <1>3, <1>4, <1>5, LookInv DEF Stages, AtRest, Closed

LEMMA InsertRacedInv ==
  ASSUME IInv, NEW p \in Procs, InsertRaced(p)
  PROVE  IInv'
<1>1. stage[p] = "insert" /\ stage' = [stage EXCEPT ![p] = "raced"]
      /\ UNCHANGED <<tables, loaded, work, spent>>
  BY DEF InsertRaced
<1>2. PICK i \in Rivals(p, txn[p].obj) : txn' = [txn EXCEPT ![p].row = i]
  BY DEF InsertRaced
<1>. DEFINE t == [txn[p] EXCEPT !.row = i]
<1>3. txn[p] \in Txn /\ Fits(p, "insert", txn[p]) /\ RestOK BY <1>1, TxnOf
<1>4. t \in Txn /\ t.kind = txn[p].kind /\ t.obj = txn[p].obj /\ t.doc = txn[p].doc
      /\ t.status = txn[p].status /\ t.got = txn[p].got /\ t.row \in Ids
  BY <1>3 DEF Txn, Rivals
<1>5. txn' = [txn EXCEPT ![p] = t] BY <1>2
<1>. HIDE DEF t
<1>6. Fits(p, "raced", t) BY <1>3, <1>4 DEF Fits, KindFits
<1>7. RestOK' BY <1>1, <1>3 DEF RestOK, work
<1>. QED BY <1>1, <1>4, <1>5, <1>6, <1>7, LookInv DEF Stages, AtRest, Closed

LEMMA InsertClaimInv ==
  ASSUME IInv, NEW p \in Procs, InsertClaim(p)
  PROVE  IInv'
<1>. DEFINE row == NewClaim(txn[p])
<1>1. stage[p] = "insert" /\ stage' = [stage EXCEPT ![p] = "added"]
      /\ UNCHANGED <<claims, loaded, work, spent>>
  BY DEF InsertClaim
<1>2. PICK i \in Ids :
        /\ holder[i] = None
        /\ holder' = [holder EXCEPT ![i] = p]
        /\ draft' = [draft EXCEPT ![i] = row]
        /\ txn' = [txn EXCEPT ![p].row = i]
  BY DEF InsertClaim
<1>. DEFINE t == [txn[p] EXCEPT !.row = i]
<1>3. txn[p] \in Txn /\ Fits(p, "insert", txn[p]) /\ RestOK BY <1>1, TxnOf
<1>4. t \in Txn /\ t.kind = txn[p].kind /\ t.obj = txn[p].obj /\ t.doc = txn[p].doc
      /\ t.status = txn[p].status /\ t.got = txn[p].got /\ t.row \in Ids
  BY <1>3 DEF Txn
<1>5. txn' = [txn EXCEPT ![p] = t] BY <1>2
<1>. HIDE DEF t
<1>6. row \in Claim /\ IsLive(row) BY <1>3, InsertedRow DEF Fits, Adding
<1>. HIDE DEF row
<1>7. TypeOK' BY <1>1, <1>2, <1>4, <1>5, <1>6 DEF IInv, TypeOK, Stages, work
<1>8. stage'[p] = "added" /\ txn'[p] = t /\ Moves(p) BY <1>1, <1>5 DEF IInv, TypeOK, Moves
<1>9. Fits(p, "added", t) BY <1>3, <1>4 DEF Fits, KindFits
<1>10. WritesOwn(p) BY <1>1, <1>2 DEF WritesOwn, IInv, TypeOK
<1>11. \A j \in Ids : draft'[j] = draft[j] \/ draft'[j].status # "superseded"
  BY <1>2, <1>6 DEF IsLive, LiveStatuses, IInv, TypeOK
<1>12. "added" \notin AtRest /\ stage[p] \notin Closed BY <1>1 DEF AtRest, Closed
<1>. QED BY <1>7, <1>8, <1>9, <1>10, <1>11, <1>12, StepInv

-----------------------------------------------------------------------------
(* eager_close_claim_slot                                                  *)

LEMMA OpenSlotInv ==
  ASSUME IInv, NEW p \in Procs, OpenSlot(p)
  PROVE  IInv'
<1>1. stage[p] = "added" /\ UNCHANGED <<tables, loaded, work, spent>> BY DEF OpenSlot
<1>2. txn[p] \in Txn /\ Fits(p, "added", txn[p]) /\ RestOK BY <1>1, TxnOf
<1>3. RestOK' BY <1>1, <1>2 DEF RestOK, work
<1>4. CASE stage' = [stage EXCEPT ![p] = "slot"]
           /\ txn' = [txn EXCEPT ![p].todo = ActiveRows(p)]
  <2>. DEFINE t == [txn[p] EXCEPT !.todo = ActiveRows(p)]
  <2>1. ActiveRows(p) \subseteq Ids BY DEF ActiveRows
  <2>2. t \in Txn /\ t.kind = txn[p].kind /\ t.doc = txn[p].doc /\ t.got = txn[p].got
    BY <1>2, <2>1 DEF Txn
  <2>3. txn' = [txn EXCEPT ![p] = t] BY <1>4
  <2>. HIDE DEF t
  <2>4. Fits(p, "slot", t) BY <1>2, <2>2 DEF Fits, KindFits
  <2>5. t.got = {} BY <1>2, <2>2 DEF Fits
  <2>. QED BY <1>1, <1>3, <1>4, <2>2, <2>3, <2>4, <2>5, LookInv DEF Stages, AtRest, Closed
<1>5. CASE stage' = [stage EXCEPT ![p] = "ready"] /\ UNCHANGED txn
  <2>1. txn' = [txn EXCEPT ![p] = txn[p]] BY <1>5 DEF IInv, TypeOK
  <2>2. Fits(p, "ready", txn[p]) BY <1>2 DEF Fits
  <2>. QED BY <1>1, <1>2, <1>3, <1>5, <2>1, <2>2, LookInv DEF Stages, AtRest, Closed
<1>. QED BY <1>4, <1>5 DEF OpenSlot

LEMMA LockSlotRowInv ==
  ASSUME IInv, NEW p \in Procs, LockSlotRow(p)
  PROVE  IInv'
<1>. DEFINE i == First(txn[p].todo)
<1>1. stage[p] = "slot" /\ txn[p].todo # {} /\ CanLock(p, i)
      /\ UNCHANGED <<claims, draft, stage, loaded, work, spent>>
  BY DEF LockSlotRow
<1>2. txn[p] \in Txn /\ Fits(p, "slot", txn[p]) /\ RestOK BY <1>1, TxnOf
<1>3. i \in Ids BY <1>1, <1>2, TxnFields, FirstRow
<1>4. RestOK' BY <1>1, <1>2 DEF RestOK, work
<1>5. CASE /\ IsActive(Seen(p, i)) /\ holder' = [holder EXCEPT ![i] = p]
           /\ txn' = [txn EXCEPT ![p].todo = @ \ {i}, ![p].got = @ \cup {i}]
  <2>. DEFINE t == [txn[p] EXCEPT !.todo = @ \ {i}, !.got = @ \cup {i}]
  <2>1. t \in Txn /\ t.kind = txn[p].kind /\ t.doc = txn[p].doc
        /\ t.got = txn[p].got \cup {i}
    BY <1>2, <1>3 DEF Txn
  <2>2. txn' = [txn EXCEPT ![p] = t] BY <1>5
  <2>. HIDE DEF t
  <2>3. TypeOK'
    <3>1. txn' \in [Procs -> Txn]
      <4>1. txn \in [Procs -> Txn] BY DEF IInv, TypeOK
      <4>. QED BY <2>1, <2>2, <4>1
    <3>2. holder' \in [Ids -> Procs \cup {None}]
      <4>1. holder \in [Ids -> Procs \cup {None}] BY DEF IInv, TypeOK
      <4>. QED BY <1>3, <1>5, <4>1
    <3>. QED BY <1>1, <3>1, <3>2 DEF IInv, TypeOK, work
  <2>4. stage'[p] = "slot" /\ txn'[p] = t /\ Moves(p)
    BY <1>1, <2>2 DEF IInv, TypeOK, Moves
  <2>5. Fits(p, "slot", t) BY <1>2, <2>1 DEF Fits, KindFits
  <2>6. WritesOwn(p) BY <1>1, <1>3, <1>5 DEF WritesOwn, CanLock, IInv, TypeOK
  <2>7. \A j \in t.got : holder'[j] = p /\ IsActive(draft'[j])
    <3>. TAKE j \in t.got
    <3>1. CASE j = i
      <4>1. draft[i] = Seen(p, i) BY <1>1, <1>3 DEF Seen, CanLock, IInv, DraftInv
      <4>. QED BY <1>1, <1>3, <1>5, <3>1, <4>1 DEF IInv, TypeOK
    <3>2. CASE j # i
      <4>1. j \in txn[p].got BY <2>1, <3>2
      <4>2. holder[j] = p /\ IsActive(draft[j]) BY <1>1, <4>1 DEF IInv, SlotInv
      <4>3. j \in Ids BY <1>2, <4>1, TxnFields
      <4>. QED BY <1>1, <1>5, <3>2, <4>2, <4>3 DEF IInv, TypeOK
    <3>. QED BY <3>1, <3>2
  <2>8. "slot" \notin AtRest /\ "slot" \notin Closed BY DEF AtRest, Closed
  <2>. QED BY <1>1, <2>3, <2>4, <2>5, <2>6, <2>7, <2>8, StepInv
<1>6. CASE txn' = [txn EXCEPT ![p].todo = @ \ {i}] /\ UNCHANGED holder
  <2>. DEFINE t == [txn[p] EXCEPT !.todo = @ \ {i}]
  <2>1. t \in Txn /\ t.kind = txn[p].kind /\ t.doc = txn[p].doc /\ t.got = txn[p].got
    BY <1>2 DEF Txn
  <2>2. txn' = [txn EXCEPT ![p] = t] BY <1>6
  <2>. HIDE DEF t
  <2>3. Fits(p, "slot", t) BY <1>2, <2>1 DEF Fits, KindFits
  <2>4. stage' = [stage EXCEPT ![p] = "slot"] BY <1>1 DEF IInv, TypeOK
  <2>. QED BY <1>1, <1>4, <1>6, <2>1, <2>2, <2>3, <2>4, LookInv
          DEF Stages, AtRest, Closed, tables
<1>. QED BY <1>5, <1>6 DEF LockSlotRow

\* The closer's rows: only active ones of its own are superseded, all but one.
LEMMA CloseSlotInv ==
  ASSUME IInv, NEW p \in Procs, CloseSlot(p)
  PROVE  IInv'
<1>. DEFINE s == IF p \in Writers THEN "count" ELSE "ready"
<1>1. stage[p] = "slot" /\ stage' = [stage EXCEPT ![p] = s]
      /\ UNCHANGED <<claims, holder, txn, loaded, work, spent>>
  BY DEF CloseSlot, SlotLocked
<1>2. txn[p] \in Txn /\ Fits(p, "slot", txn[p]) /\ RestOK BY <1>1, TxnOf
<1>3. Fits(p, s, txn[p]) BY <1>2 DEF Fits
<1>4. RestOK' BY <1>1, <1>2 DEF RestOK, work
<1>5. CASE UNCHANGED draft
  <2>1. txn' = [txn EXCEPT ![p] = txn[p]] BY <1>1 DEF IInv, TypeOK
  <2>2. s \in Stages /\ s \notin AtRest /\ s # "slot" BY DEF Stages, AtRest
  <2>3. stage[p] \notin Closed BY <1>1 DEF Closed
  <2>. HIDE DEF s
  <2>. QED BY <1>1, <1>2, <1>3, <1>4, <1>5, <2>1, <2>2, <2>3, LookInv DEF tables
<1>6. ASSUME NEW w \in Winners(txn[p].got),
             draft' = [i \in Ids |-> IF i \in txn[p].got \ {w}
                                     THEN Superseded(draft[i], w) ELSE draft[i]]
      PROVE  IInv'
  <2>1. txn[p].got \subseteq Ids /\ w \in txn[p].got
    BY <1>2, TxnFields DEF Winners
  <2>2. \A i \in txn[p].got : holder[i] = p /\ IsActive(draft[i])
    BY <1>1 DEF IInv, SlotInv
  <2>3. draft \in [Ids -> Claim] BY DEF IInv, TypeOK
  <2>4. draft' \in [Ids -> Claim] BY <1>6, <2>1, <2>3, ClosedRow
  <2>5. TypeOK' BY <1>1, <2>4 DEF IInv, TypeOK, Stages, work
  <2>6. stage'[p] = s /\ txn'[p] = txn[p] /\ Moves(p) BY <1>1 DEF IInv, TypeOK, Moves
  <2>7. WritesOwn(p) BY <1>1, <1>6, <2>2 DEF WritesOwn
  <2>8. ASSUME NEW i \in Ids, draft'[i] # draft[i] PROVE LosesInside(i)'
    <3>1. i \in txn[p].got /\ i # w /\ draft'[i] = Superseded(draft[i], w)
      BY <1>6, <2>8
    <3>2. draft'[w] = draft[w] BY <1>6, <2>1
    <3>3. draft'[i].winner = w /\ draft'[i].by = draft[i].by /\ draft'[i].docs = draft[i].docs
      BY <2>1, <2>3, <3>1, ClosedRow
    <3>4. ~Outranks(draft[i], draft[w]) BY <3>1 DEF Winners
    <3>5. Precedence(draft[w].by, draft[w].docs) >= Precedence(draft[i].by, draft[i].docs)
      BY <3>4, PrecedenceNat DEF Outranks
    <3>6. holder'[i] = p /\ holder'[w] = p /\ IsActive(draft'[w])
      BY <1>1, <2>1, <2>2, <3>1, <3>2 DEF IsActive
    <3>7. stage'[p] \in Closed BY <2>6 DEF Closed
    <3>. QED BY <2>1, <3>2, <3>3, <3>5, <3>6, <3>7 DEF LosesInside, IsActive
  <2>9. stage'[p] \notin AtRest /\ stage'[p] # "slot" /\ stage[p] \notin Closed
    BY <1>1, <2>6 DEF AtRest, Closed
  <2>. HIDE DEF s
  <2>. QED BY <1>3, <2>5, <2>6, <2>7, <2>8, <2>9, StepInv
<1>. QED BY <1>5, <1>6 DEF CloseSlot

LEMMA ClearSlotInv ==
  ASSUME IInv, NEW p \in Procs, ClearSlot(p)
  PROVE  IInv'
<1>1. stage[p] = "slot" /\ stage' = [stage EXCEPT ![p] = "ready"]
      /\ UNCHANGED <<claims, holder, txn, loaded, work, spent>>
      /\ draft' = [i \in Ids |-> IF i \in txn[p].got /\ draft[i].by = "structured"
                                 THEN Retracted(draft[i]) ELSE draft[i]]
  BY DEF ClearSlot, SlotLocked
<1>2. txn[p] \in Txn /\ Fits(p, "slot", txn[p]) BY <1>1, TxnOf
<1>3. Fits(p, "ready", txn[p]) BY <1>2 DEF Fits
<1>4. \A i \in txn[p].got : holder[i] = p BY <1>1 DEF IInv, SlotInv
<1>5. draft \in [Ids -> Claim] BY DEF IInv, TypeOK
<1>6. draft' \in [Ids -> Claim] BY <1>1, <1>5, RetractedRow
<1>7. TypeOK' BY <1>1, <1>6 DEF IInv, TypeOK, Stages, work
<1>8. stage'[p] = "ready" /\ txn'[p] = txn[p] /\ Moves(p) BY <1>1 DEF IInv, TypeOK, Moves
<1>9. WritesOwn(p) BY <1>1, <1>4 DEF WritesOwn
<1>10. \A i \in Ids : draft'[i] = draft[i] \/ draft'[i].status # "superseded"
  BY <1>1, <1>5, RetractedRow
<1>11. "ready" \notin AtRest /\ stage[p] \notin Closed BY <1>1 DEF AtRest, Closed
<1>. QED BY <1>3, <1>7, <1>8, <1>9, <1>10, <1>11, StepInv

LEMMA CountAndEnqueueInv ==
  ASSUME IInv, NEW p \in Procs, CountAndEnqueue(p)
  PROVE  IInv'
<1>1. stage[p] = "count" /\ stage' = [stage EXCEPT ![p] = "ready"]
      /\ jobHolder' \in {jobHolder, p}
      /\ UNCHANGED <<tables, txn, loaded, docLock, gone, extract, applied, queued, spent>>
  BY DEF CountAndEnqueue
<1>2. txn[p] \in Txn /\ Fits(p, "count", txn[p]) /\ RestOK BY <1>1, TxnOf
<1>3. RestOK' BY <1>1, <1>2 DEF RestOK
<1>4. Fits(p, "ready", txn[p]) BY <1>2 DEF Fits
<1>5. txn' = [txn EXCEPT ![p] = txn[p]] BY <1>1 DEF IInv, TypeOK
<1>. QED BY <1>1, <1>2, <1>3, <1>4, <1>5, LookInv DEF Stages, AtRest, Closed

-----------------------------------------------------------------------------
(* Transactions end                                                        *)

\* The rows of a committed transaction, and what the process goes on with.
LEMMA EndInv ==
  ASSUME IInv, NEW p \in Procs, CommitRows(p), NEW s \in AtRest,
         stage' = [stage EXCEPT ![p] = s], EndWork(p, s),
         s \in {"window", "applied"} => txn[p].kind = "extract",
         s = "idle" \/ stage[p] # "idle",
         gone' \subseteq Docs, applied' \subseteq Docs,
         docLock' \in [Docs -> Procs \cup {None}],
         extract' \in [Docs -> {"none", "queued", "running"}],
         queued' \in BOOLEAN, jobHolder' \in Procs \cup {None}, UNCHANGED spent
  PROVE  IInv'
<1>. DEFINE t == IF s = "idle" THEN NoTxn
                 ELSE [NoTxn EXCEPT !.kind = txn[p].kind, !.doc = txn[p].doc]
<1>1. txn[p] \in Txn /\ Fits(p, stage[p], txn[p]) BY TxnOf
<1>2. t \in Txn /\ t.got = {} /\ t.todo = {} /\ (s = "idle" => t = NoTxn /\ t.kind = "none")
      /\ (s # "idle" => t.kind = txn[p].kind /\ t.doc = txn[p].doc)
  <2>1. CASE s = "idle" BY <2>1, NoRow DEF NoTxn
  <2>2. CASE s # "idle" BY <1>1, <2>2, NoRow DEF NoTxn, Txn, Statuses
  <2>. QED BY <2>1, <2>2
<1>3. txn' = [txn EXCEPT ![p] = t] BY DEF EndWork
<1>. HIDE DEF t
<1>4. Fits(p, s, t) BY <1>1, <1>2 DEF Fits, KindFits, AtRest
<1>5. stage'[p] = s /\ txn'[p] = t /\ Moves(p) BY <1>3 DEF IInv, TypeOK, Moves
<1>6. claims' \in [Ids -> Claim] /\ draft' \in [Ids -> Claim]
      /\ holder' \in [Ids -> Procs \cup {None}]
  BY DEF CommitRows, IInv, TypeOK
<1>7. loaded' \in [Procs -> [Ids -> Claim]] BY NoRow DEF EndWork, IInv, TypeOK
<1>8. stage' \in [Procs -> Stages] /\ txn' \in [Procs -> Txn]
  BY <1>2, <1>3 DEF IInv, TypeOK, AtRest, Stages
<1>9. TypeOK' BY <1>6, <1>7, <1>8 DEF IInv, TypeOK
<1>. QED BY <1>4, <1>5, <1>9, CommitInv

LEMMA UnlockedOK ==
  ASSUME IInv, NEW p \in Procs
  PROVE  Unlocked(p) \in [Docs -> Procs \cup {None}]
  BY DEF Unlocked, IInv, TypeOK

LEMMA CommitWriteInv ==
  ASSUME IInv, NEW p \in Writers, CommitWrite(p)
  PROVE  IInv'
<1>1. p \in Procs BY DEF Procs
<1>2. txn[p] \in Txn /\ Fits(p, "ready", txn[p]) /\ RestOK BY <1>1, TxnOf DEF CommitWrite
<1>3. txn[p].doc \in Docs BY <1>2, TxnFields, SlotAssumption DEF Fits, KindFits
<1>4. extract' \in [Docs -> {"none", "queued", "running"}] /\ applied' \subseteq Docs
  BY <1>2, <1>3 DEF CommitWrite, RestOK
<1>5. docLock' \in [Docs -> Procs \cup {None}] BY <1>1, UnlockedOK DEF CommitWrite
<1>6. gone' \subseteq Docs /\ queued' \in BOOLEAN /\ jobHolder' \in Procs \cup {None}
      /\ UNCHANGED spent
  BY <1>2 DEF CommitWrite, RestOK
<1>7. CommitRows(p) /\ EndWork(p, "idle") BY DEF CommitWrite
<1>. QED BY <1>1, <1>4, <1>5, <1>6, <1>7, EndInv DEF AtRest, EndWork

LEMMA CommitDeleteInv ==
  ASSUME IInv, NEW p \in Removers, CommitDelete(p)
  PROVE  IInv'
<1>1. p \in Procs BY DEF Procs
<1>2. txn[p] \in Txn /\ Fits(p, "removing", txn[p]) /\ RestOK
  BY <1>1, TxnOf DEF CommitDelete, Removed
<1>3. txn[p].doc \in Docs BY <1>2, TxnFields DEF Fits, KindFits
<1>4. gone' \subseteq Docs BY <1>2, <1>3 DEF CommitDelete, RestOK
<1>5. docLock' \in [Docs -> Procs \cup {None}] BY <1>1, UnlockedOK DEF CommitDelete
<1>6. applied' \subseteq Docs /\ extract' \in [Docs -> {"none", "queued", "running"}]
      /\ queued' \in BOOLEAN /\ jobHolder' \in Procs \cup {None} /\ UNCHANGED spent
  BY <1>2 DEF CommitDelete, RestOK
<1>7. CommitRows(p) /\ EndWork(p, "idle") BY DEF CommitDelete
<1>. QED BY <1>1, <1>4, <1>5, <1>6, <1>7, EndInv DEF AtRest, EndWork

LEMMA CommitWipeInv ==
  ASSUME IInv, NEW p \in Extractors, CommitWipe(p)
  PROVE  IInv'
<1>1. p \in Procs BY DEF Procs
<1>2. txn[p] \in Txn /\ Fits(p, "removing", txn[p]) /\ RestOK
  BY <1>1, TxnOf DEF CommitWipe, Removed
<1>3. txn[p].kind = "extract" BY <1>2 DEF Fits, KindFits
<1>4. CommitRows(p) /\ EndWork(p, "window") /\ UNCHANGED <<work, spent>> /\ stage[p] # "idle"
  BY DEF CommitWipe, Removed
<1>. QED BY <1>1, <1>2, <1>3, <1>4, EndInv DEF AtRest, EndWork, work, RestOK

LEMMA CommitWindowInv ==
  ASSUME IInv, NEW p \in Extractors, CommitWindow(p)
  PROVE  IInv'
<1>1. p \in Procs BY DEF Procs
<1>2. txn[p] \in Txn /\ Fits(p, "ready", txn[p]) /\ RestOK
  BY <1>1, TxnOf DEF CommitWindow
<1>3. txn[p].kind = "extract" /\ txn[p].doc \in Docs BY <1>2 DEF Fits, KindFits
<1>4. applied' \subseteq Docs BY <1>2, <1>3 DEF CommitWindow, RestOK
<1>5. CommitRows(p) /\ EndWork(p, "applied") /\ stage[p] # "idle"
      /\ UNCHANGED <<docLock, gone, extract, queued, jobHolder, spent>>
  BY DEF CommitWindow
<1>. QED BY <1>1, <1>2, <1>3, <1>4, <1>5, EndInv DEF AtRest, EndWork, RestOK

LEMMA CommitResolveInv ==
  ASSUME IInv, NEW p \in Resolvers, CommitResolve(p)
  PROVE  IInv'
<1>1. p \in Procs /\ RestOK BY TxnOf DEF Procs
<1>2. CommitRows(p) /\ EndWork(p, "idle") /\ queued' = FALSE /\ jobHolder' = None
      /\ UNCHANGED <<docLock, gone, extract, applied, spent>>
  BY DEF CommitResolve
<1>. QED BY <1>1, <1>2, EndInv DEF AtRest, EndWork, RestOK

-----------------------------------------------------------------------------
(* Evidence is removed, extracted and ranked                               *)

\* A wipe or a delete of document d that has read rows S.
Removal(k, d, S) == [NoTxn EXCEPT !.kind = k, !.doc = d, !.todo = S]

LEMMA ReadEvidenceTxn ==
  ASSUME IInv, NEW p \in Procs, NEW k \in {"delete", "extract"}, NEW d \in Docs,
         NEW creators, ReadEvidence(p, k, d, creators)
  PROVE  LET t == Removal(k, d, Citing(p, d, creators))
         IN  /\ t \in Txn /\ t.kind = k /\ t.doc = d /\ t.got = {}
             /\ loaded' \in [Procs -> [Ids -> Claim]]
             /\ stage' = [stage EXCEPT ![p] = "removing"]
             /\ txn' = [txn EXCEPT ![p] = t]
<1>1. Citing(p, d, creators) \subseteq Ids BY DEF Citing
<1>. DEFINE t == Removal(k, d, Citing(p, d, creators))
<1>2. t \in Txn /\ t.kind = k /\ t.doc = d /\ t.got = {}
  BY <1>1 DEF Removal, NoTxn, Txn, Statuses
<1>3. txn' = [txn EXCEPT ![p] = t] BY DEF ReadEvidence, Removal
<1>4. loaded' \in [Procs -> [Ids -> Claim]]
  BY NoRow, SeenRow DEF ReadEvidence, IInv, TypeOK
<1>. HIDE DEF t
<1>. QED BY <1>2, <1>3, <1>4 DEF ReadEvidence, t

LEMMA BeginDeleteInv ==
  ASSUME IInv, NEW p \in Removers, NEW d \in Docs, BeginDelete(p, d)
  PROVE  IInv'
<1>1. p \in Procs BY DEF Procs
<1>2. stage[p] = "idle" /\ ReadEvidence(p, "delete", d, Creators) BY DEF BeginDelete
<1>. DEFINE t == Removal("delete", d, Citing(p, d, Creators))
<1>3. t \in Txn /\ t.kind = "delete" /\ t.doc = d /\ t.got = {}
      /\ txn' = [txn EXCEPT ![p] = t]
  BY <1>1, <1>2, ReadEvidenceTxn
<1>4. loaded' \in [Procs -> [Ids -> Claim]] /\ stage' = [stage EXCEPT ![p] = "removing"]
  BY <1>1, <1>2, ReadEvidenceTxn
<1>. HIDE DEF t
<1>5. spent.writes + 1 \in 0 .. MaxWrites BY SlotAssumption DEF BeginDelete, IInv, TypeOK
<1>6. RestOK' BY <1>1, <1>4, <1>5 DEF BeginDelete, RestOK, IInv, TypeOK
<1>7. Fits(p, "removing", t) BY <1>1, <1>3, SlotAssumption DEF Fits, KindFits
<1>8. UNCHANGED tables BY DEF BeginDelete
<1>. QED BY <1>1, <1>2, <1>3, <1>4, <1>6, <1>7, <1>8, LookInv DEF Stages, AtRest, Closed

\* A row keeps its status, or is retracted.
LEMMA RemoveEvidenceInv ==
  ASSUME IInv, NEW p \in Procs, RemoveEvidence(p)
  PROVE  IInv'
<1>. DEFINE i == First(txn[p].todo)
            row == [Seen(p, i) EXCEPT !.docs = loaded[p][i].docs \ {txn[p].doc}]
            t == [txn[p] EXCEPT !.todo = @ \ {i}]
<1>1. stage[p] = "removing" /\ txn[p].todo # {} /\ CanLock(p, i)
      /\ holder' = [holder EXCEPT ![i] = p]
      /\ UNCHANGED <<claims, stage, loaded, work, spent>>
      /\ txn' = [txn EXCEPT ![p] = t]
      /\ (\/ draft' = [draft EXCEPT ![i] = row]
          \/ draft' = [draft EXCEPT ![i] = Retracted(row)])
  BY DEF RemoveEvidence
<1>2. txn[p] \in Txn /\ Fits(p, "removing", txn[p]) BY <1>1, TxnOf
<1>3. i \in Ids BY <1>1, <1>2, TxnFields, FirstRow
<1>4. row \in Claim /\ row.status = Seen(p, i).status
  <2>1. Seen(p, i) \in Claim /\ loaded[p][i] \in Claim BY <1>3, SeenRow DEF IInv, TypeOK
  <2>2. loaded[p][i].docs \subseteq Docs BY <2>1, ClaimFields
  <2>. QED BY <2>1, <2>2 DEF Claim
<1>5. t \in Txn /\ t.kind = txn[p].kind /\ t.doc = txn[p].doc /\ t.got = txn[p].got
  BY <1>2 DEF Txn
<1>6. Seen(p, i).status = "superseded" => claims[i].status = "superseded"
  <2>1. CASE holder[i] = p
    <3>1. ~LosesInside(i) BY <1>1, <2>1 DEF LosesInside, Closed
    <3>. QED BY <1>3, <2>1, <3>1 DEF Seen, IInv, CloseInv
  <2>2. CASE holder[i] # p BY <2>2 DEF Seen
  <2>. QED BY <2>1, <2>2
<1>. HIDE DEF row, t
<1>7. \E r \in Claim : /\ draft' = [draft EXCEPT ![i] = r]
                       /\ r.status = "superseded" => claims[i].status = "superseded"
  BY <1>1, <1>4, <1>6, RetractedRow
<1>8. TypeOK' BY <1>1, <1>3, <1>5, <1>7 DEF IInv, TypeOK, work
<1>9. stage'[p] = "removing" /\ txn'[p] = t /\ Moves(p) BY <1>1 DEF IInv, TypeOK, Moves
<1>10. Fits(p, "removing", t) BY <1>2, <1>5 DEF Fits, KindFits
<1>11. WritesOwn(p) BY <1>1, <1>3, <1>7 DEF WritesOwn, CanLock, IInv, TypeOK
<1>12. \A j \in Ids : \/ draft'[j] = draft[j] \/ draft'[j].status # "superseded"
                      \/ claims[j].status = "superseded"
  BY <1>3, <1>7 DEF IInv, TypeOK
<1>13. "removing" \notin AtRest /\ stage[p] \notin Closed BY <1>1 DEF AtRest, Closed
<1>. QED BY <1>8, <1>9, <1>10, <1>11, <1>12, <1>13, StepInv

LEMMA TakeExtractionInv ==
  ASSUME IInv, NEW p \in Extractors, NEW d \in Docs, TakeExtraction(p, d)
  PROVE  IInv'
<1>1. p \in Procs BY DEF Procs
<1>2. stage[p] = "idle" /\ UNCHANGED <<tables, docLock, gone, applied, queued, jobHolder, spent>>
      /\ extract' \in [Docs -> {"none", "queued", "running"}]
  BY DEF TakeExtraction, IInv, TypeOK
<1>3. txn[p] \in Txn /\ Fits(p, "idle", txn[p]) /\ RestOK BY <1>1, <1>2, TxnOf
<1>4. CASE UNCHANGED <<stage, txn, loaded>>
  <2>1. RestOK' BY <1>2, <1>3, <1>4 DEF RestOK
  <2>2. stage' = [stage EXCEPT ![p] = "idle"] /\ txn' = [txn EXCEPT ![p] = txn[p]]
    BY <1>1, <1>2, <1>4 DEF IInv, TypeOK
  <2>. QED BY <1>1, <1>2, <1>3, <2>1, <2>2, LookInv DEF Stages, AtRest, Closed
<1>5. CASE ReadEvidence(p, "extract", d, {"extraction"})
  <2>. DEFINE t == Removal("extract", d, Citing(p, d, {"extraction"}))
  <2>1. t \in Txn /\ t.kind = "extract" /\ t.doc = d /\ t.got = {}
        /\ txn' = [txn EXCEPT ![p] = t]
    BY <1>1, <1>5, ReadEvidenceTxn
  <2>2. loaded' \in [Procs -> [Ids -> Claim]] /\ stage' = [stage EXCEPT ![p] = "removing"]
    BY <1>1, <1>5, ReadEvidenceTxn
  <2>. HIDE DEF t
  <2>3. RestOK' BY <1>2, <1>3, <2>2 DEF RestOK
  <2>4. Fits(p, "removing", t) BY <2>1, SlotAssumption DEF Fits, KindFits
  <2>. QED BY <1>1, <1>2, <2>1, <2>2, <2>3, <2>4, LookInv DEF Stages, AtRest, Closed
<1>6. CASE /\ stage' = [stage EXCEPT ![p] = "applied"]
           /\ txn' = [txn EXCEPT ![p] = [NoTxn EXCEPT !.kind = "extract", !.doc = d]]
           /\ UNCHANGED loaded
  <2>. DEFINE t == [NoTxn EXCEPT !.kind = "extract", !.doc = d]
  <2>1. t \in Txn /\ t.kind = "extract" /\ t.doc = d /\ t.got = {}
    BY DEF NoTxn, Txn, Statuses
  <2>2. RestOK' BY <1>2, <1>3, <1>6 DEF RestOK
  <2>. HIDE DEF t
  <2>3. Fits(p, "applied", t) BY <2>1, SlotAssumption DEF Fits, KindFits
  <2>4. txn' = [txn EXCEPT ![p] = t] BY <1>6 DEF t
  <2>. QED BY <1>1, <1>2, <1>6, <2>1, <2>2, <2>3, <2>4, LookInv DEF Stages, AtRest, Closed
<1>. QED BY <1>4, <1>5, <1>6 DEF TakeExtraction

LEMMA BeginWindowInv ==
  ASSUME IInv, NEW p \in Extractors, NEW o \in Values, NEW s \in {"proposed", "active"},
         BeginWindow(p, o, s)
  PROVE  IInv'
<1>. DEFINE t == [txn[p] EXCEPT !.obj = o, !.status = s]
<1>1. p \in Procs BY DEF Procs
<1>2. stage[p] = "window" /\ Search(p, t) /\ UNCHANGED <<tables, loaded, work, spent>>
  BY DEF BeginWindow
<1>3. txn[p] \in Txn /\ Fits(p, "window", txn[p]) /\ RestOK BY <1>1, <1>2, TxnOf
<1>4. t \in Txn /\ t.kind = txn[p].kind /\ t.doc = txn[p].doc /\ t.obj = o /\ t.status = s
      /\ t.got = txn[p].got
  BY <1>3 DEF Txn, Statuses
<1>. HIDE DEF t
<1>5. RestOK' BY <1>2, <1>3 DEF RestOK, work
<1>6. t.kind = "extract" /\ t.doc \in Docs /\ t.got = {} /\ KindFits(p, t)
  BY <1>3, <1>4 DEF Fits, KindFits
<1>. QED BY <1>1, <1>2, <1>4, <1>5, <1>6, SearchInv DEF Adding, AtRest

LEMMA FinishExtractionInv ==
  ASSUME IInv, NEW p \in Extractors, FinishExtraction(p)
  PROVE  IInv'
<1>1. p \in Procs BY DEF Procs
<1>2. stage[p] = "applied" /\ stage' = [stage EXCEPT ![p] = "idle"]
      /\ txn' = [txn EXCEPT ![p] = NoTxn]
      /\ loaded' = [loaded EXCEPT ![p] = [i \in Ids |-> NoClaim]]
      /\ extract' = [extract EXCEPT ![txn[p].doc] = "none"] /\ queued' \in {queued, TRUE}
      /\ UNCHANGED <<tables, docLock, gone, applied, jobHolder, spent>>
  BY DEF FinishExtraction, EndWork
<1>3. txn[p] \in Txn /\ Fits(p, "applied", txn[p]) /\ RestOK BY <1>1, <1>2, TxnOf
<1>4. RestOK' BY <1>2, <1>3, NoRow DEF RestOK
<1>5. Fits(p, "idle", NoTxn) BY DEF Fits, KindFits, NoTxn
<1>. QED BY <1>1, <1>2, <1>4, <1>5, NoRow, LookInv DEF Stages, AtRest, Closed

LEMMA BeginResolveInv ==
  ASSUME IInv, NEW p \in Resolvers, BeginResolve(p)
  PROVE  IInv'
<1>. DEFINE t == [NoTxn EXCEPT !.kind = "resolve", !.todo = ActiveRows(p)]
<1>1. p \in Procs BY DEF Procs
<1>2. stage[p] = "idle" /\ jobHolder' = p /\ stage' = [stage EXCEPT ![p] = "slot"]
      /\ UNCHANGED <<tables, loaded, docLock, gone, extract, applied, queued, spent>>
      /\ txn' = [txn EXCEPT ![p] = t]
  BY DEF BeginResolve
<1>3. ActiveRows(p) \subseteq Ids BY DEF ActiveRows
<1>4. t \in Txn /\ t.kind = "resolve" /\ t.got = {} BY <1>3 DEF NoTxn, Txn, Statuses
<1>. HIDE DEF t
<1>5. Fits(p, "slot", t) BY <1>4, SlotAssumption DEF Fits, KindFits
<1>6. RestOK' BY <1>1, <1>2, TxnOf DEF RestOK
<1>. QED BY <1>1, <1>2, <1>4, <1>5, <1>6, LookInv DEF Stages, AtRest, Closed

LEMMA ReselectInv ==
  ASSUME IInv, NEW p \in Resolvers, Reselect(p)
  PROVE  IInv'
<1>1. p \in Procs BY DEF Procs
<1>2. stage[p] = "slot" /\ UNCHANGED <<tables, loaded, work, spent>>
  BY DEF Reselect, SlotLocked
<1>3. txn[p] \in Txn /\ Fits(p, "slot", txn[p]) /\ RestOK BY <1>1, <1>2, TxnOf
<1>4. RestOK' BY <1>2, <1>3 DEF RestOK, work
<1>5. CASE stage' = [stage EXCEPT ![p] = "ready"] /\ UNCHANGED txn
  <2>1. txn' = [txn EXCEPT ![p] = txn[p]] BY <1>5 DEF IInv, TypeOK
  <2>2. Fits(p, "ready", txn[p]) BY <1>3 DEF Fits
  <2>. QED BY <1>1, <1>2, <1>3, <1>4, <1>5, <2>1, <2>2, LookInv DEF Stages, AtRest, Closed
<1>6. CASE /\ txn' = [txn EXCEPT ![p].kind = "rerank", ![p].todo = ActiveRows(p)]
           /\ UNCHANGED stage
  <2>. DEFINE t == [txn[p] EXCEPT !.kind = "rerank", !.todo = ActiveRows(p)]
  <2>1. ActiveRows(p) \subseteq Ids BY DEF ActiveRows
  <2>2. t \in Txn /\ t.kind = "rerank" /\ t.got = txn[p].got BY <1>3, <2>1 DEF Txn
  <2>3. txn' = [txn EXCEPT ![p] = t] BY <1>6
  <2>. HIDE DEF t
  <2>4. Fits(p, "slot", t) BY <2>2, SlotAssumption DEF Fits, KindFits
  <2>5. stage' = [stage EXCEPT ![p] = "slot"] BY <1>1, <1>2, <1>6 DEF IInv, TypeOK
  <2>. QED BY <1>1, <1>2, <1>4, <2>2, <2>3, <2>4, <2>5, LookInv DEF Stages, AtRest, Closed
<1>. QED BY <1>5, <1>6 DEF Reselect

-----------------------------------------------------------------------------
(* The specification                                                       *)

LEMMA InitInv == Init => IInv
<1>. SUFFICES ASSUME Init PROVE IInv OBVIOUS
<1>1. TypeOK
  <2>1. claims \in [Ids -> Claim] /\ draft \in [Ids -> Claim]
        /\ loaded \in [Procs -> [Ids -> Claim]]
    BY NoRow DEF Init
  <2>2. stage \in [Procs -> Stages] /\ txn \in [Procs -> Txn] BY NoRow DEF Init, Stages
  <2>3. spent \in [writes : 0 .. MaxWrites, aborts : 0 .. MaxAborts]
    BY SlotAssumption DEF Init
  <2>. QED BY <2>1, <2>2, <2>3 DEF Init, TypeOK
<1>2. TxnInv BY DEF Init, TxnInv, Fits, KindFits, NoTxn
<1>3. DraftInv BY DEF Init, DraftInv
<1>4. SlotInv BY DEF Init, SlotInv
<1>5. CloseInv BY DEF Init, CloseInv, NoClaim
<1>. QED BY <1>1, <1>2, <1>3, <1>4, <1>5 DEF IInv

LEMMA StatementFailsInv ==
  ASSUME IInv, NEW p \in Procs, StatementFails(p)
  PROVE  IInv'
<1>1. stage[p] = "idle" => WaitsFor(p) = {} BY DEF WaitsFor
<1>2. stage[p] # "idle" BY <1>1 DEF StatementFails, RaceLost, RemovalRefused
<1>. QED BY <1>2, RollbackInv DEF StatementFails, IInv, TypeOK

LEMMA AbortInv ==
  ASSUME IInv, NEW p \in Procs, AbortOrCrash(p)
  PROVE  IInv'
<1>1. spent.aborts + 1 \in 0 .. MaxAborts BY SlotAssumption DEF AbortOrCrash, IInv, TypeOK
<1>. QED BY <1>1, RollbackInv DEF AbortOrCrash, IInv, TypeOK

LEMMA AddStepInv ==
  ASSUME IInv, NEW p \in Procs, AddStep(p)
  PROVE  IInv'
<1>1. CASE MergeClaim(p) \/ OwnRowGone(p) \/ InsertClaim(p) \/ InsertRaced(p)
  BY <1>1, MergeClaimInv, OwnRowGoneInv, InsertClaimInv, InsertRacedInv
<1>2. CASE OpenSlot(p) \/ LockSlotRow(p) \/ CloseSlot(p) \/ StatementFails(p)
  BY <1>2, OpenSlotInv, LockSlotRowInv, CloseSlotInv, StatementFailsInv
<1>. QED BY <1>1, <1>2 DEF AddStep

LEMMA NextInv == IInv /\ [Next]_vars => IInv'
<1>. SUFFICES ASSUME IInv, [Next]_vars PROVE IInv' OBVIOUS
<1>0. ASSUME NEW p \in Writers \cup Removers \cup Extractors \cup Resolvers PROVE p \in Procs
  BY <1>0 DEF Procs
<1>1. ASSUME NEW p \in Writers, WriterStep(p) PROVE IInv'
  BY <1>0, <1>1, AddStepInv, ClearSlotInv, CountAndEnqueueInv, CommitWriteInv
     DEF WriterStep
<1>2. ASSUME NEW p \in Writers, NEW d \in Docs,
             \/ ClearField(p, d)
             \/ \E o \in Values : ApplyField(p, o, d) \/ Promote(p, o, d)
      PROVE  IInv'
  BY <1>2, ClearFieldInv, ApplyFieldInv, PromoteInv
<1>3. ASSUME NEW p \in Removers, RemoverStep(p) PROVE IInv'
  BY <1>0, <1>3, RemoveEvidenceInv, CommitDeleteInv, StatementFailsInv DEF RemoverStep
<1>4. ASSUME NEW p \in Removers, NEW d \in Docs, BeginDelete(p, d) PROVE IInv'
  BY <1>4, BeginDeleteInv
<1>5. ASSUME NEW p \in Extractors, ExtractorStep(p) PROVE IInv'
  BY <1>0, <1>5, TakeExtractionInv, RemoveEvidenceInv, CommitWipeInv, BeginWindowInv,
     AddStepInv, CommitWindowInv, FinishExtractionInv DEF ExtractorStep
<1>6. ASSUME NEW p \in Resolvers, ResolverStep(p) PROVE IInv'
  BY <1>0, <1>6, BeginResolveInv, LockSlotRowInv, ReselectInv, CloseSlotInv,
     CommitResolveInv, StatementFailsInv DEF ResolverStep
<1>7. ASSUME NEW p \in Procs, AbortOrCrash(p) PROVE IInv' BY <1>7, AbortInv
<1>8. CASE UNCHANGED vars
  <2>1. UNCHANGED <<claims, draft, holder, stage, txn, loaded, docLock, gone, extract,
                    applied, queued, jobHolder, spent>>
    BY <1>8 DEF vars
  <2>. QED BY <2>1 DEF IInv, TypeOK, TxnInv, DraftInv, SlotInv, CloseInv, LosesInside,
                       IsActive
<1>. QED BY <1>1, <1>2, <1>3, <1>4, <1>5, <1>6, <1>7, <1>8 DEF Next

\* Type correctness of the slot, for any number of processes, rows and requests.
THEOREM TypeCorrect == Spec => []TypeOK
<1>1. IInv => TypeOK BY DEF IInv
<1>. QED BY <1>1, InitInv, NextInv, PTL DEF Spec

\* The inductive invariant: types, drafts and holders, the index of live values, what
\* each closer has read of its slot.
THEOREM Invariant == Spec => []IInv
  BY InitInv, NextInv, PTL DEF Spec

-----------------------------------------------------------------------------
(* A step is a step of one process, of one of six shapes                   *)

Begins(p) ==
  \/ p \in Writers /\ \E d \in Docs : \/ ClearField(p, d)
                                      \/ \E o \in Values : ApplyField(p, o, d) \/ Promote(p, o, d)
  \/ p \in Removers /\ \E d \in Docs : BeginDelete(p, d)
  \/ p \in Extractors /\ \E d \in Docs : TakeExtraction(p, d)
  \/ p \in Extractors /\ \E o \in Values, s \in {"proposed", "active"} : BeginWindow(p, o, s)
  \/ p \in Resolvers /\ BeginResolve(p)

Looks(p) ==
  \/ OwnRowGone(p) \/ InsertRaced(p) \/ OpenSlot(p)
  \/ p \in Writers /\ CountAndEnqueue(p)
  \/ p \in Resolvers /\ Reselect(p)

Writes(p) ==
  \/ MergeClaim(p) \/ InsertClaim(p) \/ LockSlotRow(p) \/ CloseSlot(p)
  \/ p \in Writers /\ ClearSlot(p)
  \/ p \in Removers \cup Extractors /\ RemoveEvidence(p)

Commits(p) ==
  \/ p \in Writers /\ CommitWrite(p)
  \/ p \in Removers /\ CommitDelete(p)
  \/ p \in Extractors /\ (CommitWipe(p) \/ CommitWindow(p))
  \/ p \in Resolvers /\ CommitResolve(p)

Finishes(p) == p \in Extractors /\ FinishExtraction(p)

Fails(p) == StatementFails(p) \/ AbortOrCrash(p)

LEMMA Shapes ==
  ASSUME Next
  PROVE  \E p \in Procs : \/ Begins(p) \/ Looks(p) \/ Writes(p)
                          \/ Commits(p) \/ Finishes(p) \/ Fails(p)
<1>0. Writers \subseteq Procs /\ Removers \subseteq Procs /\ Extractors \subseteq Procs
      /\ Resolvers \subseteq Procs
  BY DEF Procs
<1>1. CASE \E p \in Writers :
             \/ WriterStep(p)
             \/ \E d \in Docs :
                  \/ ClearField(p, d)
                  \/ \E o \in Values : ApplyField(p, o, d) \/ Promote(p, o, d)
  BY <1>0, <1>1 DEF WriterStep, AddStep, Begins, Looks, Writes, Commits, Fails
<1>2. CASE \E p \in Removers : RemoverStep(p) \/ \E d \in Docs : BeginDelete(p, d)
  BY <1>0, <1>2 DEF RemoverStep, Begins, Writes, Commits, Fails
<1>3. CASE \E p \in Extractors : ExtractorStep(p)
  BY <1>0, <1>3 DEF ExtractorStep, AddStep, Begins, Looks, Writes, Commits, Finishes, Fails
<1>4. CASE \E p \in Resolvers : ResolverStep(p)
  BY <1>0, <1>4 DEF ResolverStep, Begins, Looks, Writes, Commits, Fails
<1>5. CASE \E p \in Procs : AbortOrCrash(p) BY <1>5 DEF Fails
<1>. QED BY <1>1, <1>2, <1>3, <1>4, <1>5 DEF Next

\* What each shape leaves alone.
LEMMA BeginsFrame ==
  ASSUME IInv, NEW p \in Procs, Begins(p)
  PROVE  /\ Moves(p) /\ stage[p] \in AtRest /\ stage'[p] \in Stages \ Closed
         /\ UNCHANGED <<claims, draft, holder, gone, applied, queued>>
<1>1. CASE p \in Writers /\ \E d \in Docs :
             ClearField(p, d) \/ \E o \in Values : ApplyField(p, o, d) \/ Promote(p, o, d)
  <2>1. PICK d \in Docs :
          ClearField(p, d) \/ \E o \in Values : ApplyField(p, o, d) \/ Promote(p, o, d)
    BY <1>1
  <2>2. CASE ClearField(p, d)
    BY <2>2 DEF ClearField, BeginWrite, tables, Moves, IInv, TypeOK, AtRest, Stages, Closed
  <2>3. ASSUME NEW o \in Values, ApplyField(p, o, d) \/ Promote(p, o, d)
        PROVE  /\ Moves(p) /\ stage[p] \in AtRest /\ stage'[p] \in Stages \ Closed
               /\ UNCHANGED <<claims, draft, holder, gone, applied, queued>>
    <3>1. PICK t : Search(p, t) BY <2>3 DEF ApplyField, Promote
    <3>2. stage' \in {[stage EXCEPT ![p] = "insert"], [stage EXCEPT ![p] = "own"]}
          /\ \E u : txn' = [txn EXCEPT ![p] = u]
      BY <3>1 DEF Search
    <3>3. stage[p] = "idle" /\ UNCHANGED <<tables, gone, applied, queued>>
      BY <2>3 DEF ApplyField, Promote, BeginWrite
    <3>. QED BY <3>2, <3>3 DEF tables, Moves, IInv, TypeOK, AtRest, Stages, Closed
  <2>. QED BY <2>1, <2>2, <2>3
<1>2. CASE \E d \in Docs : BeginDelete(p, d)
  BY <1>2 DEF BeginDelete, ReadEvidence, tables, Moves, IInv, TypeOK, AtRest, Stages, Closed
<1>3. CASE \E d \in Docs : TakeExtraction(p, d)
  BY <1>3 DEF TakeExtraction, ReadEvidence, tables, Moves, IInv, TypeOK, AtRest, Stages, Closed
<1>4. CASE \E o \in Values, s \in {"proposed", "active"} : BeginWindow(p, o, s)
  BY <1>4 DEF BeginWindow, Search, tables, work, Moves, IInv, TypeOK, AtRest, Stages, Closed
<1>5. CASE BeginResolve(p)
  BY <1>5 DEF BeginResolve, tables, Moves, IInv, TypeOK, AtRest, Stages, Closed
<1>. QED BY <1>1, <1>2, <1>3, <1>4, <1>5 DEF Begins

LEMMA LooksFrame ==
  ASSUME IInv, NEW p \in Procs, Looks(p)
  PROVE  /\ Moves(p) /\ txn'[p].doc = txn[p].doc
         /\ UNCHANGED <<claims, draft, holder, loaded, docLock, gone, extract, applied, queued>>
         /\ stage'[p] \in {"insert", "raced", "slot", "ready"}
         /\ stage[p] \in {"own", "insert", "added", "count", "slot"}
<1>0. txn[p] \in Txn BY TxnOf
<1>1. CASE OwnRowGone(p) \/ InsertRaced(p)
  BY <1>0, <1>1 DEF OwnRowGone, InsertRaced, tables, work, Moves, IInv, TypeOK, Txn
<1>2. CASE OpenSlot(p)
  BY <1>0, <1>2 DEF OpenSlot, tables, work, Moves, IInv, TypeOK, Txn
<1>3. CASE CountAndEnqueue(p)
  BY <1>3 DEF CountAndEnqueue, tables, Moves, IInv, TypeOK
<1>4. CASE Reselect(p)
  BY <1>0, <1>4 DEF Reselect, SlotLocked, tables, work, Moves, IInv, TypeOK, Txn
<1>. QED BY <1>1, <1>2, <1>3, <1>4 DEF Looks

LEMMA WritesFrame ==
  ASSUME IInv, NEW p \in Procs, Writes(p)
  PROVE  /\ Moves(p) /\ WritesOwn(p) /\ txn'[p].doc = txn[p].doc
         /\ UNCHANGED <<loaded, work>>
         /\ stage[p] \in {"own", "raced", "insert", "slot", "removing"}
         /\ stage'[p] \in {"added", "slot", "count", "ready", "removing"}
         /\ stage'[p] = "removing" => RemoveEvidence(p)
<1>0. txn[p] \in Txn /\ Fits(p, stage[p], txn[p]) BY TxnOf
<1>1. CASE MergeClaim(p)
  <2>1. txn[p].row \in Ids BY <1>0, <1>1 DEF MergeClaim, Fits
  <2>. QED BY <1>1, <2>1 DEF MergeClaim, CanLock, work, Moves, WritesOwn, IInv, TypeOK
<1>2. CASE InsertClaim(p)
  BY <1>0, <1>2 DEF InsertClaim, work, Moves, WritesOwn, IInv, TypeOK, Txn
<1>3. CASE LockSlotRow(p)
  <2>1. First(txn[p].todo) \in Ids BY <1>0, <1>3, TxnFields, FirstRow DEF LockSlotRow
  <2>2. Moves(p) /\ txn'[p].doc = txn[p].doc /\ UNCHANGED <<loaded, work>>
        /\ stage[p] = "slot" /\ stage'[p] = "slot"
    BY <1>0, <1>3 DEF LockSlotRow, work, Moves, IInv, TypeOK, Txn
  <2>. QED BY <1>3, <2>1, <2>2 DEF LockSlotRow, CanLock, WritesOwn, IInv, TypeOK
<1>4. CASE CloseSlot(p)
  <2>1. \A i \in txn[p].got : holder[i] = p BY <1>4 DEF CloseSlot, SlotLocked, IInv, SlotInv
  <2>. QED BY <1>4, <2>1 DEF CloseSlot, SlotLocked, work, Moves, WritesOwn, IInv, TypeOK
<1>5. CASE ClearSlot(p)
  <2>1. \A i \in txn[p].got : holder[i] = p BY <1>5 DEF ClearSlot, SlotLocked, IInv, SlotInv
  <2>. QED BY <1>5, <2>1 DEF ClearSlot, SlotLocked, work, Moves, WritesOwn, IInv, TypeOK
<1>6. CASE RemoveEvidence(p)
  <2>1. First(txn[p].todo) \in Ids BY <1>0, <1>6, TxnFields, FirstRow DEF RemoveEvidence
  <2>2. Moves(p) /\ txn'[p].doc = txn[p].doc /\ UNCHANGED <<loaded, work>>
        /\ stage[p] = "removing" /\ stage'[p] = "removing"
    BY <1>0, <1>6 DEF RemoveEvidence, work, Moves, IInv, TypeOK, Txn
  <2>3. WritesOwn(p)
    BY <1>6, <2>1 DEF RemoveEvidence, CanLock, WritesOwn, IInv, TypeOK
  <2>. QED BY <1>6, <2>2, <2>3
<1>. QED BY <1>1, <1>2, <1>3, <1>4, <1>5, <1>6 DEF Writes

LEMMA CommitsFrame ==
  ASSUME IInv, NEW p \in Procs, Commits(p)
  PROVE  /\ Moves(p) /\ CommitRows(p) /\ stage[p] \in {"ready", "removing"}
         /\ stage'[p] \in AtRest
<1>1. CASE CommitWrite(p) \/ CommitDelete(p) \/ CommitResolve(p)
  BY <1>1 DEF CommitWrite, CommitDelete, CommitResolve, Removed, EndWork, Moves, IInv,
     TypeOK, AtRest
<1>2. CASE CommitWipe(p) \/ CommitWindow(p)
  BY <1>2 DEF CommitWipe, CommitWindow, Removed, EndWork, Moves, IInv, TypeOK, AtRest
<1>. QED BY <1>1, <1>2 DEF Commits

LEMMA FinishesFrame ==
  ASSUME IInv, NEW p \in Procs, Finishes(p)
  PROVE  /\ Moves(p) /\ stage[p] \in AtRest /\ stage'[p] = "idle" /\ txn'[p] = NoTxn
         /\ UNCHANGED <<claims, draft, holder, docLock, gone, applied, jobHolder>>
  BY DEF Finishes, FinishExtraction, EndWork, Moves, IInv, TypeOK, AtRest, tables

LEMMA FailsFrame ==
  ASSUME IInv, NEW p \in Procs, Fails(p)
  PROVE  /\ Moves(p) /\ Rollback(p) /\ stage'[p] = "idle" /\ txn'[p] = NoTxn
         /\ UNCHANGED <<claims, gone, applied, queued>>
         /\ \A i \in Ids : IF holder[i] = p THEN holder'[i] = None /\ draft'[i] = claims[i]
                                            ELSE holder'[i] = holder[i] /\ draft'[i] = draft[i]
  BY DEF Fails, StatementFails, AbortOrCrash, Rollback, EndWork, Moves, IInv, TypeOK

-----------------------------------------------------------------------------
(* Who supersedes whom                                                     *)

\* Committed rows change only where a transaction commits.
LEMMA OnlyCommits ==
  ASSUME IInv, [Next]_vars, claims' # claims
  PROVE  \E p \in Procs : CommitRows(p)
<1>1. Next BY DEF vars
<1>2. PICK p \in Procs : \/ Begins(p) \/ Looks(p) \/ Writes(p)
                         \/ Commits(p) \/ Finishes(p) \/ Fails(p)
  BY <1>1, Shapes
<1>3. Commits(p)
  BY <1>2, BeginsFrame, LooksFrame, WritesFrame, FinishesFrame, FailsFrame DEF WritesOwn
<1>. QED BY <1>3, CommitsFrame

\* Whatever supersedes a value ranks at least as high and is in force from the same
\* commit on: the closer's winner is chosen among rows it holds, so no other
\* transaction can take the win away before both are committed.
THEOREM Supersession == Spec => SupersededByStronger
<1>. DEFINE Stronger(i) ==
       LET w == claims'[claims'[i].winner]
       IN  /\ IsActive(w)
           /\ Precedence(w.by, w.docs) >= Precedence(claims'[i].by, claims'[i].docs)
<1>1. ASSUME IInv, [Next]_vars, NEW i \in Ids, claims[i].status # "superseded",
             claims'[i].status = "superseded"
      PROVE  Stronger(i)
  <2>1. PICK p \in Procs : CommitRows(p) BY <1>1, OnlyCommits
  <2>2. holder[i] = p /\ claims'[i] = draft[i] BY <1>1, <2>1 DEF CommitRows
  <2>3. LosesInside(i) BY <1>1, <2>2 DEF IInv, CloseInv
  <2>4. claims'[draft[i].winner] = draft[draft[i].winner]
    BY <2>1, <2>2, <2>3 DEF LosesInside, CommitRows
  <2>. QED BY <2>2, <2>3, <2>4 DEF LosesInside
<1>2. IInv /\ [Next]_vars =>
        [\A i \in Ids : claims[i].status # "superseded" /\ claims'[i].status = "superseded"
                        => Stronger(i)]_vars
  BY <1>1
<1>. QED BY <1>2, InitInv, NextInv, PTL DEF Spec, SupersededByStronger

-----------------------------------------------------------------------------
(* A superseded claim stays superseded                                     *)

\* No document is deleted, and none is ingested a second time while extraction
\* runs: a removal of evidence then never finds a row to write.
DocumentsStay ==
  Removers = {} /\ (Extractors = {} \/ Writers = {} \/ WriteKinds \subseteq {"agent"})

\* Extraction facts cite documents whose window is applied, or is in progress.
CitesApplied ==
  \A i \in Ids :
    /\ claims[i].by = "extraction" => claims[i].docs \subseteq applied
    /\ holder[i] # None /\ draft[i].by = "extraction" =>
         draft[i].docs \subseteq
           applied \cup (IF holder[i] \in Extractors THEN {txn[holder[i]].doc} ELSE {})

\* A removal has nothing to write and has written nothing.
NothingToWipe ==
  \A p \in Procs : stage[p] = "removing" =>
    txn[p].todo = {} /\ \A i \in Ids : holder[i] # p

DraftFinal ==
  \A i \in Ids : claims[i].status = "superseded" => draft[i].status = "superseded"

\* What a commit does to what its rows cite.
LEMMA CommitCites ==
  ASSUME IInv, IInv', CitesApplied, NEW p \in Procs, CommitRows(p), Moves(p),
         applied \cup (IF p \in Extractors THEN {txn[p].doc} ELSE {}) \subseteq applied'
           \/ (applied \subseteq applied' /\ p \notin Extractors)
  PROVE  CitesApplied'
<1>. SUFFICES ASSUME NEW i \in Ids
              PROVE  /\ claims'[i].by = "extraction" => claims'[i].docs \subseteq applied'
                     /\ holder'[i] # None /\ draft'[i].by = "extraction" =>
                          draft'[i].docs \subseteq applied' \cup
                            (IF holder'[i] \in Extractors THEN {txn'[holder'[i]].doc} ELSE {})
  BY DEF CitesApplied
<1>1. applied \subseteq applied' OBVIOUS
<1>2. CASE holder[i] = p
  <2>1. claims'[i] = draft[i] /\ holder'[i] = None BY <1>2 DEF CommitRows
  <2>2. p # None BY SlotAssumption
  <2>. QED BY <1>1, <1>2, <2>1, <2>2 DEF CitesApplied
<1>3. CASE holder[i] # p
  <2>1. claims'[i] = claims[i] /\ draft'[i] = draft[i] /\ holder'[i] = holder[i]
    BY <1>3 DEF CommitRows
  <2>2. holder[i] # None => txn'[holder[i]] = txn[holder[i]]
    BY <1>3 DEF Moves, IInv, TypeOK
  <2>. QED BY <1>1, <1>3, <2>1, <2>2 DEF CitesApplied
<1>. QED BY <1>2, <1>3

\* The same for a step that commits nothing.
LEMMA DraftCites ==
  ASSUME IInv, IInv', CitesApplied, NEW p \in Procs, Moves(p), UNCHANGED <<claims, applied>>,
         \A i \in Ids :
           \/ holder'[i] = None
           \/ /\ holder'[i] = holder[i] /\ draft'[i] = draft[i]
              /\ holder[i] = p => txn'[p].doc = txn[p].doc
           \/ /\ holder'[i] = p
              /\ draft'[i].by = "extraction" =>
                   draft'[i].docs \subseteq
                     applied \cup (IF p \in Extractors THEN {txn'[p].doc} ELSE {})
  PROVE  CitesApplied'
<1>. SUFFICES ASSUME NEW i \in Ids, holder'[i] # None, draft'[i].by = "extraction"
              PROVE  draft'[i].docs \subseteq applied' \cup
                       (IF holder'[i] \in Extractors THEN {txn'[holder'[i]].doc} ELSE {})
  BY DEF CitesApplied
<1>1. CASE holder'[i] = p
           /\ draft'[i].docs \subseteq
                applied \cup (IF p \in Extractors THEN {txn'[p].doc} ELSE {})
  BY <1>1
<1>2. CASE /\ holder'[i] = holder[i] /\ draft'[i] = draft[i]
           /\ holder[i] = p => txn'[p].doc = txn[p].doc
  <2>1. txn'[holder[i]].doc = txn[holder[i]].doc BY <1>2 DEF Moves, IInv, TypeOK
  <2>. QED BY <1>2, <2>1 DEF CitesApplied
<1>. QED BY <1>1, <1>2

\* A process that has just begun holds no row.
LEMMA RestHoldsNothing ==
  ASSUME IInv, NEW p \in Procs, stage[p] \in AtRest, NEW i \in Ids
  PROVE  holder[i] # p
  BY SlotAssumption DEF IInv, DraftInv

\* Merging or inserting on behalf of a document of the transaction.
LEMMA CitesMerge ==
  ASSUME IInv, IInv', CitesApplied, NEW p \in Procs, MergeClaim(p)
  PROVE  CitesApplied'
<1>. DEFINE i == txn[p].row
            row == Merged(Seen(p, i), txn[p])
<1>1. stage[p] \in {"own", "raced"} /\ CanLock(p, i)
      /\ holder' = [holder EXCEPT ![i] = p] /\ draft' = [draft EXCEPT ![i] = row]
      /\ UNCHANGED <<claims, txn, work>> /\ stage' = [stage EXCEPT ![p] = "added"]
  BY DEF MergeClaim
<1>2. txn[p] \in Txn /\ i \in Ids /\ txn[p].kind \in Adding /\ KindFits(p, txn[p])
  BY <1>1, TxnOf DEF Fits
<1>3. Moves(p) BY <1>1 DEF Moves, IInv, TypeOK
<1>4. ASSUME row.by = "extraction"
      PROVE  row.docs \subseteq applied \cup (IF p \in Extractors THEN {txn[p].doc} ELSE {})
  <2>. DEFINE docs == Seen(p, i).docs \cup {txn[p].doc}
              by == IF txn[p].kind = "extract" THEN "extraction" ELSE txn[p].kind
  <2>1. Seen(p, i) \in Claim BY <1>2, SeenRow DEF IInv
  <2>2. row.docs = docs
        /\ row.by = IF Precedence(by, docs) > Precedence(Seen(p, i).by, docs)
                    THEN by ELSE Seen(p, i).by
    BY <2>1 DEF Merged, Claim
  <2>3. Seen(p, i).by = "extraction" \/ by = "extraction" BY <1>4, <2>2
  <2>4. txn[p].kind = "extract"
    <3>1. CASE txn[p].kind # "extract"
      <4>1. by \in {"structured", "agent"} BY <1>2, <3>1 DEF Adding
      <4>2. Precedence(by, docs) > Precedence("extraction", docs) BY <4>1 DEF Precedence
      <4>3. Seen(p, i).by = "extraction" BY <2>3, <4>1
      <4>. QED BY <1>4, <2>2, <4>1, <4>2, <4>3
    <3>. QED BY <3>1
  <2>5. p \in Extractors BY <1>2, <2>4, SlotAssumption DEF KindFits, Procs
  <2>6. Seen(p, i).by = "extraction"
    BY <1>4, <2>2, <2>4, PrecedenceNat DEF Precedence
  <2>7. Seen(p, i).docs \subseteq applied \cup {txn[p].doc}
    BY <1>2, <2>5, <2>6, SlotAssumption DEF Seen, CitesApplied
  <2>. QED BY <2>2, <2>5, <2>7
<1>. HIDE DEF row
<1>. QED BY <1>1, <1>2, <1>3, <1>4, DraftCites DEF work, IInv, TypeOK

LEMMA CitesInsert ==
  ASSUME IInv, IInv', CitesApplied, NEW p \in Procs, InsertClaim(p)
  PROVE  CitesApplied'
<1>1. stage[p] = "insert" /\ UNCHANGED <<claims, work>> /\ stage' = [stage EXCEPT ![p] = "added"]
  BY DEF InsertClaim
<1>2. PICK i \in Ids :
        /\ holder[i] = None
        /\ holder' = [holder EXCEPT ![i] = p]
        /\ draft' = [draft EXCEPT ![i] = NewClaim(txn[p])]
        /\ txn' = [txn EXCEPT ![p].row = i]
  BY DEF InsertClaim
<1>3. txn[p] \in Txn /\ txn[p].kind \in Adding /\ KindFits(p, txn[p])
  BY <1>1, TxnOf DEF Fits
<1>4. Moves(p) /\ txn'[p].doc = txn[p].doc
  BY <1>1, <1>2, <1>3 DEF Moves, IInv, TypeOK, Txn
<1>5. NewClaim(txn[p]).by = "extraction" =>
        p \in Extractors /\ NewClaim(txn[p]).docs = {txn[p].doc}
  BY <1>3, SlotAssumption DEF NewClaim, KindFits, Procs, Adding
<1>. QED BY <1>1, <1>2, <1>4, <1>5, DraftCites DEF work, IInv, TypeOK

\* A step that writes no row: a process keeps its document while it holds one.
LEMMA CitesLook ==
  ASSUME IInv, IInv', CitesApplied, NEW p \in Procs, Moves(p),
         UNCHANGED <<claims, draft, holder, applied>>,
         stage[p] \in AtRest \/ txn'[p].doc = txn[p].doc
  PROVE  CitesApplied'
<1>1. \A i \in Ids : holder[i] = p => txn'[p].doc = txn[p].doc BY RestHoldsNothing
<1>. QED BY <1>1, DraftCites

LEMMA CitesWrite ==
  ASSUME IInv, IInv', CitesApplied, NothingToWipe, NEW p \in Procs, Writes(p)
  PROVE  CitesApplied'
<1>0. Moves(p) /\ WritesOwn(p) /\ txn'[p].doc = txn[p].doc /\ UNCHANGED <<claims, applied>>
  BY WritesFrame DEF WritesOwn, work
\* A row that is only locked or closed cites what it cited.
<1>1. ASSUME \A i \in Ids : draft'[i].docs = draft[i].docs /\ draft'[i].by = draft[i].by
      PROVE  CitesApplied'
  <2>1. ASSUME NEW i \in Ids, holder'[i] = p, draft'[i].by = "extraction"
        PROVE  draft'[i].docs \subseteq
                 applied \cup (IF p \in Extractors THEN {txn'[p].doc} ELSE {})
    <3>1. draft[i].by = "extraction" /\ draft'[i].docs = draft[i].docs BY <1>1, <2>1
    <3>2. holder[i] \in {None, p} BY <1>0, <2>1 DEF WritesOwn
    <3>3. CASE holder[i] = None BY <1>0, <3>1, <3>3 DEF CitesApplied, IInv, DraftInv
    <3>4. CASE holder[i] = p BY <1>0, <3>1, <3>4, SlotAssumption DEF CitesApplied
    <3>. QED BY <3>2, <3>3, <3>4
  <2>2. \A i \in Ids : \/ holder'[i] = p
                       \/ holder'[i] = holder[i] /\ draft'[i] = draft[i] /\ holder[i] # p
    BY <1>0 DEF WritesOwn
  <2>. QED BY <1>0, <2>1, <2>2, DraftCites
<1>2. CASE LockSlotRow(p) BY <1>1, <1>2 DEF LockSlotRow
<1>3. CASE CloseSlot(p) \/ ClearSlot(p)
  <2>. SUFFICES ASSUME NEW i \in Ids
                PROVE  draft'[i].docs = draft[i].docs /\ draft'[i].by = draft[i].by
    BY <1>1
  <2>1. \/ draft'[i] = draft[i] \/ \E w : draft'[i] = Superseded(draft[i], w)
        \/ draft'[i] = Retracted(draft[i])
    BY <1>3 DEF CloseSlot, ClearSlot
  <2>2. draft[i] \in Claim BY DEF IInv, TypeOK
  <2>. QED BY <2>1, <2>2 DEF Superseded, Retracted, Claim
<1>4. ASSUME RemoveEvidence(p) PROVE FALSE BY <1>4 DEF RemoveEvidence, NothingToWipe
<1>. QED BY <1>2, <1>3, <1>4, CitesMerge, CitesInsert DEF Writes

LEMMA CitesCommit ==
  ASSUME IInv, IInv', CitesApplied, NothingToWipe, DocumentsStay, NEW p \in Procs,
         Extractors # {}, Commits(p)
  PROVE  CitesApplied'
<1>0. /\ Moves(p) /\ CommitRows(p) /\ Removers = {}
      /\ Writers = {} \/ WriteKinds \subseteq {"agent"}
  BY CommitsFrame DEF DocumentsStay
<1>1. CASE p \in Writers /\ CommitWrite(p)
  <2>1. txn[p].kind = "agent" BY <1>0, <1>1, TxnOf DEF CommitWrite, Fits, KindFits
  <2>2. applied' = applied BY <1>1, <2>1 DEF CommitWrite
  <2>3. p \notin Extractors BY <1>1, SlotAssumption
  <2>. QED BY <1>0, <2>2, <2>3, CommitCites
<1>2. CASE CommitWipe(p)
  <2>1. stage[p] = "removing" /\ applied' = applied BY <1>2 DEF CommitWipe, Removed, work
  <2>2. UNCHANGED <<claims, draft, holder>>
    BY <1>0, <2>1 DEF NothingToWipe, CommitRows, IInv, TypeOK
  <2>3. \A i \in Ids : holder[i] # p BY <2>1 DEF NothingToWipe
  <2>. QED BY <1>0, <2>1, <2>2, <2>3, DraftCites
<1>3. CASE CommitWindow(p)
  <2>1. applied' = applied \cup {txn[p].doc} BY <1>3 DEF CommitWindow
  <2>. QED BY <1>0, <2>1, CommitCites
<1>4. CASE p \in Resolvers /\ CommitResolve(p)
  <2>1. applied' = applied /\ p \notin Extractors BY <1>4, SlotAssumption DEF CommitResolve
  <2>. QED BY <1>0, <2>1, CommitCites
<1>. QED BY <1>0, <1>1, <1>2, <1>3, <1>4 DEF Commits

LEMMA CitesStep ==
  ASSUME IInv, IInv', CitesApplied, NothingToWipe, DocumentsStay, Extractors # {}, Next
  PROVE  CitesApplied'
<1>1. PICK p \in Procs : \/ Begins(p) \/ Looks(p) \/ Writes(p)
                         \/ Commits(p) \/ Finishes(p) \/ Fails(p)
  BY Shapes
<1>2. CASE Begins(p) BY <1>2, BeginsFrame, CitesLook
<1>3. CASE Looks(p) BY <1>3, LooksFrame, CitesLook
<1>4. CASE Finishes(p) BY <1>4, FinishesFrame, CitesLook
<1>5. CASE Fails(p) BY <1>5, FailsFrame, DraftCites
<1>. QED BY <1>1, <1>2, <1>3, <1>4, <1>5, CitesWrite, CitesCommit

\* A removal that begins finds no extraction fact of its document.
LEMMA WipeStep ==
  ASSUME IInv, IInv', NothingToWipe, Removers = {}, Extractors = {} \/ CitesApplied, Next
  PROVE  NothingToWipe'
<1>1. PICK p \in Procs : \/ Begins(p) \/ Looks(p) \/ Writes(p)
                         \/ Commits(p) \/ Finishes(p) \/ Fails(p)
  BY Shapes
<1>2. Moves(p) /\ \A i \in Ids : holder'[i] \in {holder[i], p, None}
  BY <1>1, BeginsFrame, LooksFrame, WritesFrame, CommitsFrame, FinishesFrame, FailsFrame
     DEF WritesOwn, CommitRows
<1>3. ASSUME NEW q \in Procs \ {p}, stage'[q] = "removing"
      PROVE  txn'[q].todo = {} /\ \A i \in Ids : holder'[i] # q
  BY <1>2, <1>3, SlotAssumption DEF Moves, NothingToWipe
<1>4. ASSUME stage'[p] = "removing"
      PROVE  txn'[p].todo = {} /\ \A i \in Ids : holder'[i] # p
  <2>1. ~RemoveEvidence(p) BY DEF RemoveEvidence, NothingToWipe
  <2>2. Begins(p)
    BY <1>1, <1>4, <2>1, LooksFrame, WritesFrame, CommitsFrame, FinishesFrame, FailsFrame
       DEF AtRest
  <2>3. \A i \in Ids : holder[i] # p /\ holder'[i] # p
    BY <2>2, BeginsFrame, RestHoldsNothing
  <2>4. p \in Extractors /\ \E d \in Docs : TakeExtraction(p, d)
    BY <1>4, <2>2 DEF Begins, ClearField, ApplyField, Promote, BeginWindow, BeginResolve,
       Search, IInv, TypeOK
  <2>5. PICK d \in Docs : d \notin applied /\ ReadEvidence(p, "extract", d, {"extraction"})
    BY <1>4, <2>4 DEF TakeExtraction, IInv, TypeOK
  <2>6. Citing(p, d, {"extraction"}) = {}
    BY <2>3, <2>4, <2>5 DEF Citing, Seen, CitesApplied
  <2>7. txn'[p].todo = {} BY <2>5, <2>6 DEF ReadEvidence, IInv, TypeOK, NoTxn
  <2>. QED BY <2>3, <2>7
<1>. QED BY <1>3, <1>4 DEF NothingToWipe

LEMMA FinalStep ==
  ASSUME IInv, IInv', NothingToWipe, DraftFinal, Next
  PROVE  /\ DraftFinal'
         /\ \A i \in Ids : claims[i].status = "superseded" => claims'[i].status = "superseded"
<1>1. PICK p \in Procs : \/ Begins(p) \/ Looks(p) \/ Writes(p)
                         \/ Commits(p) \/ Finishes(p) \/ Fails(p)
  BY Shapes
<1>. SUFFICES ASSUME NEW i \in Ids
              PROVE  /\ claims[i].status = "superseded" => claims'[i].status = "superseded"
                     /\ claims'[i].status = "superseded" => draft'[i].status = "superseded"
  BY DEF DraftFinal
<1>2. claims[i].status = "superseded" => draft[i].status = "superseded" BY DEF DraftFinal
<1>3. CASE Begins(p) \/ Looks(p) \/ Finishes(p)
  BY <1>2, <1>3, BeginsFrame, LooksFrame, FinishesFrame
<1>4. CASE Fails(p) BY <1>2, <1>4, FailsFrame
<1>5. CASE Commits(p) BY <1>2, <1>5, CommitsFrame DEF CommitRows
<1>6. CASE Writes(p)
  <2>1. claims' = claims BY <1>6, WritesFrame DEF WritesOwn
  <2>. SUFFICES ASSUME claims[i].status = "superseded", draft[i].status = "superseded"
                PROVE  draft'[i].status = "superseded"
    BY <1>2, <2>1
  <2>2. draft[i] \in Claim BY DEF IInv, TypeOK
  <2>3. CASE MergeClaim(p)
    BY <2>3 DEF MergeClaim, IsLive, LiveStatuses, Seen, IInv, TypeOK
  <2>4. CASE InsertClaim(p) BY <2>4 DEF InsertClaim, NoClaim, IInv, TypeOK
  <2>5. CASE LockSlotRow(p) BY <2>5 DEF LockSlotRow
  <2>6. CASE CloseSlot(p)
    <3>1. draft'[i] = draft[i] \/ \E w : draft'[i] = Superseded(draft[i], w)
      BY <2>6 DEF CloseSlot
    <3>. QED BY <2>2, <3>1 DEF Superseded, Claim
  <2>7. CASE ClearSlot(p)
    <3>1. i \notin txn[p].got
      BY <2>7 DEF ClearSlot, SlotLocked, IInv, SlotInv, IsActive
    <3>. QED BY <2>7, <3>1 DEF ClearSlot
  <2>8. ASSUME RemoveEvidence(p) PROVE FALSE BY <2>8 DEF RemoveEvidence, NothingToWipe
  <2>. QED BY <1>6, <2>3, <2>4, <2>5, <2>6, <2>7, <2>8 DEF Writes
<1>. QED BY <1>1, <1>3, <1>4, <1>5, <1>6

\* While no document is deleted or ingested again under extraction, a superseded
\* claim stays superseded, whoever retries or dies: no one but a removal of evidence
\* writes over a row it has read without a lock, and no removal finds one.
THEOREM Finality == DocumentsStay => (Spec => SupersededIsFinal)
<1>. DEFINE Inv == /\ IInv /\ NothingToWipe /\ DraftFinal
                   /\ Extractors = {} \/ CitesApplied
<1>. SUFFICES ASSUME DocumentsStay PROVE Spec => SupersededIsFinal OBVIOUS
<1>1. Init => Inv
  BY InitInv DEF Init, NothingToWipe, DraftFinal, CitesApplied, NoClaim
<1>2. Inv /\ [Next]_vars => Inv'
  <2>1. ASSUME Inv, Next PROVE Inv'
    <3>1. IInv' BY <2>1, NextInv
    <3>2. Extractors = {} \/ CitesApplied' BY <2>1, <3>1, CitesStep
    <3>3. NothingToWipe' BY <2>1, <3>1, WipeStep DEF DocumentsStay
    <3>4. DraftFinal' BY <2>1, <3>1, FinalStep
    <3>. QED BY <3>1, <3>2, <3>3, <3>4
  <2>2. ASSUME Inv, UNCHANGED vars PROVE Inv'
    <3>1. IInv' BY <2>2, NextInv
    <3>. QED BY <2>2, <3>1 DEF vars, NothingToWipe, DraftFinal, CitesApplied
  <2>. QED BY <2>1, <2>2
<1>3. Inv /\ [Next]_vars => [\A i \in Ids : claims[i].status = "superseded" =>
                                            claims'[i].status = "superseded"]_vars
  BY NextInv, FinalStep
<1>. HIDE DEF Inv
<1>. QED BY <1>1, <1>2, <1>3, PTL DEF Spec, SupersededIsFinal

-----------------------------------------------------------------------------
(* No active claim stands on deleted documents alone                       *)

\* One delete at a time, and no one else who adds or drops evidence but requests
\* that ingest the document they cite.
OneDeleter ==
  /\ Extractors = {} /\ WriteKinds \subseteq {"structured"}
  /\ \A p, q \in Removers : p = q

\* A request keeps its document locked, so nobody else deletes it.
HoldsDocument ==
  \A p \in Writers \cup Removers : stage[p] # "idle" =>
    docLock[txn[p].doc] = p /\ txn[p].doc \notin gone

\* What a live row cites is there; one that is retracted cites nothing.
CitesLiving(c) ==
  /\ c.status # "absent" => c.by \in Creators
  /\ IsLive(c) => c.docs \cap gone = {}
  /\ c.status \in {"proposed", "active"} => c.docs # {}
  /\ c.status = "retracted" => c.docs = {}

RowsBacked == \A i \in Ids : CitesLiving(claims[i]) /\ CitesLiving(draft[i])

\* Before its commit a row cites what it did, and its writer's document.
AddsOwn ==
  \A i \in Ids : holder[i] \in Procs \ Removers =>
    /\ draft[i].status \notin {"absent", "retracted"}
    /\ IsLive(draft[i]) =>
         draft[i].docs \subseteq
           (IF IsLive(claims[i]) THEN claims[i].docs ELSE {})
             \cup (IF holder[i] \in Writers THEN {txn[holder[i]].doc} ELSE {})

\* A delete still has row i to write, or nothing live cites its document there.
Removes(r, i) ==
  IF i \in txn[r].todo
  THEN /\ holder[i] # r /\ claims[i].status \notin {"absent", "retracted"}
       /\ loaded[r][i].docs \cap gone = {}
  ELSE /\ holder[i] = r => txn[r].doc \notin draft[i].docs
       /\ holder[i] # r => /\ IsLive(claims[i]) => txn[r].doc \notin claims[i].docs
                           /\ IsLive(draft[i]) => txn[r].doc \notin draft[i].docs

RemovesAll ==
  \A r \in Removers : stage[r] = "removing" => \A i \in Ids : Removes(r, i)

BackedInv == HoldsDocument /\ RowsBacked /\ AddsOwn /\ RemovesAll

\* Whose document is whose.
LEMMA OtherDocument ==
  ASSUME IInv, HoldsDocument, NEW p \in Writers \cup Removers, NEW q \in Writers \cup Removers,
         p # q, stage[p] # "idle", stage[q] # "idle"
  PROVE  txn[p].doc # txn[q].doc
  BY DEF HoldsDocument

LEMMA DocumentOf ==
  ASSUME IInv, OneDeleter, NEW p \in Writers \cup Removers, stage[p] # "idle"
  PROVE  txn[p].doc \in Docs /\ txn[p].kind \in {"structured", "delete"}
<1>1. p \in Procs /\ Fits(p, stage[p], txn[p]) BY TxnOf DEF Procs
<1>2. CASE p \in Writers BY <1>1, <1>2 DEF OneDeleter, Fits, KindFits
<1>3. CASE p \in Removers BY <1>1, <1>3 DEF Fits, KindFits
<1>. QED BY <1>2, <1>3

\* Nothing but the process that begins changes hands.
LEMMA BackedBegins ==
  ASSUME IInv, IInv', BackedInv, OneDeleter, NEW p \in Procs, Begins(p)
  PROVE  BackedInv'
<1>0. /\ Moves(p) /\ stage[p] \in AtRest
      /\ UNCHANGED <<claims, draft, holder, gone, applied, queued>>
  BY BeginsFrame
<1>1. \A i \in Ids : holder[i] # p BY <1>0, RestHoldsNothing
<1>2. RowsBacked' BY <1>0 DEF BackedInv, RowsBacked, CitesLiving, IsLive
<1>3. AddsOwn'
  <2>. SUFFICES ASSUME NEW i \in Ids, holder[i] \in Procs \ Removers
                PROVE  /\ draft[i].status \notin {"absent", "retracted"}
                       /\ IsLive(draft[i]) =>
                            draft[i].docs \subseteq
                              (IF IsLive(claims[i]) THEN claims[i].docs ELSE {})
                              \cup (IF holder[i] \in Writers THEN {txn'[holder[i]].doc} ELSE {})
    BY <1>0 DEF AddsOwn, IsLive
  <2>1. txn'[holder[i]] = txn[holder[i]] BY <1>0, <1>1 DEF Moves
  <2>. QED BY <2>1 DEF BackedInv, AddsOwn
<1>4. CASE p \in Resolvers /\ BeginResolve(p)
  <2>1. UNCHANGED <<loaded, docLock>> /\ p \notin Writers \cup Removers
    BY <1>4, SlotAssumption DEF BeginResolve
  <2>2. HoldsDocument' BY <1>0, <2>1 DEF BackedInv, HoldsDocument, Moves, Procs
  <2>3. RemovesAll' BY <1>0, <2>1 DEF BackedInv, RemovesAll, Removes, Moves, Procs, IsLive
  <2>. QED BY <1>2, <1>3, <2>2, <2>3 DEF BackedInv
<1>5. ASSUME NEW d \in Docs, docLock[d] = None, docLock' = [docLock EXCEPT ![d] = p],
             d \notin gone, txn'[p].doc = d
      PROVE  HoldsDocument'
  <2>. SUFFICES ASSUME NEW q \in Writers \cup Removers, stage'[q] # "idle"
                PROVE  docLock'[txn'[q].doc] = q /\ txn'[q].doc \notin gone'
    BY DEF HoldsDocument
  <2>1. CASE q = p BY <1>0, <1>5, <2>1 DEF IInv, TypeOK
  <2>2. CASE q # p
    <3>1. stage[q] # "idle" /\ txn'[q] = txn[q] BY <1>0, <2>2 DEF Moves, Procs
    <3>2. docLock[txn[q].doc] = q /\ txn[q].doc \notin gone BY <3>1 DEF BackedInv, HoldsDocument
    <3>3. q # None BY SlotAssumption DEF Procs
    <3>. QED BY <1>0, <1>5, <2>2, <3>1, <3>2, <3>3, DocumentOf DEF IInv, TypeOK
  <2>. QED BY <2>1, <2>2
<1>6. CASE p \in Writers
  <2>1. PICK d \in Docs : \E o \in Values : ApplyField(p, o, d)
    BY <1>6, SlotAssumption DEF Begins, OneDeleter, ClearField, Promote, BeginWrite
  <2>2. PICK o \in Values : ApplyField(p, o, d) BY <2>1
  <2>3. docLock[d] = None /\ docLock' = [docLock EXCEPT ![d] = p] /\ d \notin gone
        /\ UNCHANGED loaded
    BY <2>2 DEF ApplyField, BeginWrite, IngestsDocument
  <2>4. txn'[p].doc = d
    <3>1. CASE txn' = [txn EXCEPT ![p] = [Write("structured", d) EXCEPT !.obj = o]]
      BY <3>1 DEF Write, NoTxn, IInv, TypeOK
    <3>2. CASE \E i \in Ids :
                 txn' = [txn EXCEPT ![p] = [Write("structured", d) EXCEPT !.obj = o, !.row = i]]
      BY <3>2 DEF Write, NoTxn, IInv, TypeOK
    <3>. QED BY <2>2, <3>1, <3>2 DEF ApplyField, Search, SameObject, Write, NoTxn
  <2>5. RemovesAll'
    <3>1. p \notin Removers BY <1>6, SlotAssumption
    <3>. QED BY <1>0, <2>3, <3>1 DEF BackedInv, RemovesAll, Removes, Moves, Procs, IsLive
  <2>. QED BY <1>2, <1>3, <1>5, <2>3, <2>4, <2>5 DEF BackedInv
<1>7. CASE p \in Removers
  <2>1. PICK d \in Docs : BeginDelete(p, d) BY <1>7, SlotAssumption DEF Begins, OneDeleter
  <2>2. docLock[d] = None /\ docLock' = [docLock EXCEPT ![d] = p] /\ d \notin gone
        /\ ReadEvidence(p, "delete", d, Creators)
    BY <2>1 DEF BeginDelete
  <2>3. txn'[p].doc = d /\ txn'[p].todo = Citing(p, d, Creators)
    BY <2>2 DEF ReadEvidence, NoTxn, IInv, TypeOK
  <2>4. ASSUME NEW i \in Ids PROVE Removes(p, i)'
    <3>1. Seen(p, i) = claims[i] BY <1>1 DEF Seen
    <3>2. CitesLiving(claims[i]) BY DEF BackedInv, RowsBacked
    <3>3. CASE i \in Citing(p, d, Creators)
      <4>1. loaded'[p][i] = claims[i] BY <2>2, <3>1, <3>3 DEF ReadEvidence, IInv, TypeOK
      <4>2. claims[i].status \in {"proposed", "active"} BY <3>1, <3>3 DEF Citing
      <4>. QED BY <1>0, <1>1, <2>3, <3>2, <3>3, <4>1, <4>2
           DEF Removes, CitesLiving, IsLive, LiveStatuses
    <3>4. CASE i \notin Citing(p, d, Creators)
      <4>1. IsLive(claims[i]) => d \notin claims[i].docs
        BY <3>1, <3>2, <3>4 DEF Citing, CitesLiving, IsLive, LiveStatuses
      <4>2. ASSUME IsLive(draft[i]) PROVE d \notin draft[i].docs
        <5>1. CASE holder[i] = None BY <4>1, <4>2, <5>1 DEF IInv, DraftInv
        <5>2. CASE holder[i] \in Procs \ Removers
          <6>1. draft[i].docs \subseteq
                  (IF IsLive(claims[i]) THEN claims[i].docs ELSE {})
                  \cup (IF holder[i] \in Writers THEN {txn[holder[i]].doc} ELSE {})
            BY <4>2, <5>2 DEF BackedInv, AddsOwn
          <6>2. ASSUME holder[i] \in Writers PROVE txn[holder[i]].doc # d
            <7>1. stage[holder[i]] # "idle"
              BY <6>2, SlotAssumption DEF IInv, DraftInv, AtRest, Procs
            <7>. QED BY <2>2, <6>2, <7>1, SlotAssumption DEF BackedInv, HoldsDocument, Procs
          <6>. QED BY <4>1, <6>1, <6>2
        <5>3. holder[i] \notin Removers BY <1>1, <1>7 DEF OneDeleter
        <5>. QED BY <5>1, <5>2, <5>3 DEF IInv, TypeOK
      <4>. QED BY <1>0, <1>1, <2>3, <3>4, <4>1, <4>2 DEF Removes, IsLive
    <3>. QED BY <3>3, <3>4
  <2>5. RemovesAll' BY <1>7, <2>4 DEF RemovesAll, OneDeleter
  <2>6. HoldsDocument' BY <1>5, <2>2, <2>3
  <2>. QED BY <1>2, <1>3, <2>5, <2>6 DEF BackedInv
<1>. QED BY <1>4, <1>6, <1>7, SlotAssumption DEF Begins, OneDeleter

\* A step of p that keeps its document and the lock on it.
LEMMA KeepsDocument ==
  ASSUME IInv, HoldsDocument, NEW p \in Procs, Moves(p), UNCHANGED <<docLock, gone>>,
         stage[p] # "idle", txn'[p].doc = txn[p].doc
  PROVE  HoldsDocument'
  BY DEF HoldsDocument, Moves, Procs

LEMMA BackedLooks ==
  ASSUME IInv, IInv', BackedInv, OneDeleter, NEW p \in Procs, Looks(p)
  PROVE  BackedInv'
<1>0. /\ Moves(p) /\ txn'[p].doc = txn[p].doc /\ stage'[p] # "removing" /\ stage[p] # "idle"
      /\ UNCHANGED <<claims, draft, holder, loaded, docLock, gone>>
  BY LooksFrame
<1>1. HoldsDocument' BY <1>0, KeepsDocument DEF BackedInv
<1>2. RowsBacked' BY <1>0 DEF BackedInv, RowsBacked, CitesLiving, IsLive
<1>3. \A q \in Procs : txn'[q].doc = txn[q].doc BY <1>0 DEF Moves
<1>4. AddsOwn' BY <1>0, <1>3 DEF BackedInv, AddsOwn, IsLive
<1>5. RemovesAll' BY <1>0 DEF BackedInv, RemovesAll, Removes, Moves, Procs, IsLive
<1>. QED BY <1>1, <1>2, <1>4, <1>5 DEF BackedInv

\* A row that a request adds to, locks or closes.
LEMMA BackedRow ==
  ASSUME IInv, IInv', BackedInv, OneDeleter, NEW p \in Procs \ Removers, Moves(p),
         WritesOwn(p), UNCHANGED <<loaded, docLock, gone>>, txn'[p].doc = txn[p].doc,
         stage[p] # "idle", stage'[p] # "removing",
         \A i \in Ids :
           \/ holder'[i] = holder[i] /\ draft'[i] = draft[i]
           \/ /\ holder'[i] = p /\ draft'[i].status \notin {"absent", "retracted"}
              /\ draft'[i].by \in Creators
              /\ IsLive(draft'[i]) =>
                   /\ draft'[i].docs # {}
                   /\ draft'[i].docs \subseteq
                        (IF IsLive(Seen(p, i)) THEN Seen(p, i).docs ELSE {})
                        \cup (IF p \in Writers THEN {txn[p].doc} ELSE {})
  PROVE  BackedInv'
<1>1. HoldsDocument' BY KeepsDocument DEF BackedInv
<1>2. \A q \in Procs : txn'[q].doc = txn[q].doc BY DEF Moves
<1>3. claims' = claims BY DEF WritesOwn
<1>. DEFINE Fresh(i) ==
       /\ holder[i] \in {None, p} /\ holder'[i] = p /\ draft'[i].status \notin {"absent", "retracted"}
       /\ draft'[i].by \in Creators
       /\ IsLive(draft'[i]) =>
            /\ draft'[i].docs # {}
            /\ draft'[i].docs \subseteq
                 (IF IsLive(Seen(p, i)) THEN Seen(p, i).docs ELSE {})
                 \cup (IF p \in Writers THEN {txn[p].doc} ELSE {})
<1>4. \A i \in Ids : Fresh(i) \/ (holder'[i] = holder[i] /\ draft'[i] = draft[i])
  BY SlotAssumption DEF WritesOwn
<1>5. p \in Writers => txn[p].doc \notin gone BY DEF BackedInv, HoldsDocument
<1>6. \A i \in Ids : CitesLiving(Seen(p, i)) BY DEF BackedInv, RowsBacked, Seen
<1>7. RowsBacked'
  <2>. SUFFICES ASSUME NEW i \in Ids PROVE CitesLiving(claims[i]) /\ CitesLiving(draft'[i])
    BY <1>3 DEF RowsBacked, CitesLiving, IsLive
  <2>1. CASE Fresh(i)
    <3>1. IsLive(draft'[i]) => draft'[i].docs \cap gone = {}
      BY <1>5, <1>6, <2>1 DEF CitesLiving
    <3>. QED BY <2>1, <3>1 DEF BackedInv, RowsBacked, CitesLiving, IsLive, LiveStatuses
  <2>2. CASE draft'[i] = draft[i] BY <2>2 DEF BackedInv, RowsBacked
  <2>. QED BY <1>4, <2>1, <2>2
<1>8. AddsOwn'
  <2>. SUFFICES ASSUME NEW i \in Ids, holder'[i] \in Procs \ Removers
                PROVE  /\ draft'[i].status \notin {"absent", "retracted"}
                       /\ IsLive(draft'[i]) =>
                            draft'[i].docs \subseteq
                              (IF IsLive(claims[i]) THEN claims[i].docs ELSE {})
                              \cup (IF holder'[i] \in Writers THEN {txn[holder'[i]].doc} ELSE {})
    BY <1>2, <1>3 DEF AddsOwn, IsLive
  <2>1. CASE Fresh(i)
    <3>1. CASE holder[i] = None BY <2>1, <3>1, SlotAssumption DEF Seen
    <3>2. CASE holder[i] = p
      <4>1. Seen(p, i) = draft[i] BY <3>2 DEF Seen
      <4>2. IsLive(draft[i]) => draft[i].docs \subseteq
              (IF IsLive(claims[i]) THEN claims[i].docs ELSE {})
              \cup (IF p \in Writers THEN {txn[p].doc} ELSE {})
        BY <3>2 DEF BackedInv, AddsOwn
      <4>. QED BY <2>1, <4>1, <4>2
    <3>. QED BY <2>1, <3>1, <3>2
  <2>2. CASE holder'[i] = holder[i] /\ draft'[i] = draft[i]
    BY <2>2 DEF BackedInv, AddsOwn
  <2>. QED BY <1>4, <2>1, <2>2
<1>9. RemovesAll'
  <2>. SUFFICES ASSUME NEW r \in Removers, stage'[r] = "removing", NEW i \in Ids
                PROVE  Removes(r, i)'
    BY DEF RemovesAll
  <2>1. r # p /\ stage[r] = "removing" /\ txn'[r] = txn[r] BY DEF Moves, Procs
  <2>2. Removes(r, i) BY <2>1 DEF BackedInv, RemovesAll
  <2>3. CASE Fresh(i)
    <3>1. p \in Writers => txn[p].doc # txn[r].doc
      BY <2>1, OtherDocument DEF BackedInv
    <3>2. holder[i] # r BY <2>1, <2>3, SlotAssumption DEF Procs
    <3>3. i \notin txn[r].todo => (IsLive(Seen(p, i)) => txn[r].doc \notin Seen(p, i).docs)
      BY <2>2, <3>2 DEF Removes, Seen
    <3>4. i \notin txn[r].todo => (IsLive(draft'[i]) => txn[r].doc \notin draft'[i].docs)
      BY <2>3, <3>1, <3>3
    <3>. QED BY <1>3, <2>1, <2>2, <2>3, <3>2, <3>4 DEF Removes, IsLive
  <2>4. CASE holder'[i] = holder[i] /\ draft'[i] = draft[i]
    BY <1>3, <2>1, <2>2, <2>4 DEF Removes, IsLive
  <2>. QED BY <1>4, <2>3, <2>4
<1>. QED BY <1>1, <1>7, <1>8, <1>9 DEF BackedInv

LEMMA BackedRemoval ==
  ASSUME IInv, IInv', BackedInv, OneDeleter, NEW p \in Removers, RemoveEvidence(p)
  PROVE  BackedInv'
<1>. DEFINE i == First(txn[p].todo)
            rest == loaded[p][i].docs \ {txn[p].doc}
            row == [Seen(p, i) EXCEPT !.docs = rest]
<1>0. p \in Procs BY DEF Procs
<1>1. /\ stage[p] = "removing" /\ txn[p].todo # {} /\ CanLock(p, i)
      /\ holder' = [holder EXCEPT ![i] = p]
      /\ \/ rest # {} /\ draft' = [draft EXCEPT ![i] = row]
         \/ rest = {} /\ draft' = [draft EXCEPT ![i] = Retracted(row)]
      /\ txn' = [txn EXCEPT ![p].todo = @ \ {i}]
      /\ UNCHANGED <<claims, stage, loaded, work>>
  BY DEF RemoveEvidence
<1>2. txn[p] \in Txn BY <1>0, TxnOf
<1>3. i \in Ids /\ i \in txn[p].todo BY <1>1, <1>2, TxnFields, FirstRow
<1>4. txn'[p].doc = txn[p].doc /\ txn'[p].todo = txn[p].todo \ {i} /\ Moves(p)
  BY <1>0, <1>1, <1>2 DEF Moves, IInv, TypeOK, Txn
<1>5. HoldsDocument' BY <1>0, <1>1, <1>4, KeepsDocument DEF BackedInv, work
<1>6. /\ holder[i] = None /\ claims[i].status \notin {"absent", "retracted"}
      /\ loaded[p][i].docs \cap gone = {}
  BY <1>1, <1>3 DEF BackedInv, RemovesAll, Removes, CanLock
<1>7. Seen(p, i) = claims[i] /\ claims[i] \in Claim
  BY <1>0, <1>3, <1>6, SlotAssumption DEF Seen, IInv, TypeOK
<1>8. \E r \in Claim : /\ draft' = [draft EXCEPT ![i] = r]
                       /\ CitesLiving(r) /\ txn[p].doc \notin r.docs
  <2>1. row \in Claim /\ row.docs = rest /\ row.status = claims[i].status
        /\ row.by = claims[i].by
    <3>1. loaded[p][i] \in Claim BY <1>0, <1>3 DEF IInv, TypeOK
    <3>2. rest \subseteq Docs BY <3>1, ClaimFields
    <3>. QED BY <1>7, <3>2 DEF Claim
  <2>2. CitesLiving(claims[i]) BY <1>3 DEF BackedInv, RowsBacked
  <2>3. rest \cap gone = {} /\ txn[p].doc \notin rest BY <1>6
  <2>. HIDE DEF row, rest
  <2>4. Retracted(row) \in Claim /\ Retracted(row).status = "retracted"
        /\ Retracted(row).docs = row.docs /\ Retracted(row).by = row.by
    BY <2>1 DEF Retracted, Claim, Statuses
  <2>5. CASE rest # {} /\ draft' = [draft EXCEPT ![i] = row]
    BY <1>6, <2>1, <2>2, <2>3, <2>5 DEF CitesLiving, IsLive, LiveStatuses
  <2>6. CASE rest = {} /\ draft' = [draft EXCEPT ![i] = Retracted(row)]
    BY <1>6, <2>1, <2>2, <2>3, <2>4, <2>6 DEF CitesLiving, IsLive, LiveStatuses
  <2>. QED BY <1>1, <2>5, <2>6
<1>9. draft'[i] \in Claim /\ CitesLiving(draft'[i]) /\ txn[p].doc \notin draft'[i].docs
      /\ holder'[i] = p /\ \A j \in Ids \ {i} : draft'[j] = draft[j] /\ holder'[j] = holder[j]
  BY <1>1, <1>3, <1>8 DEF IInv, TypeOK
<1>10. claims' = claims /\ gone' = gone /\ loaded' = loaded /\ stage' = stage
  BY <1>1 DEF work
<1>. HIDE DEF i, row, rest
<1>11. RowsBacked'
  BY <1>9, <1>10 DEF BackedInv, RowsBacked, CitesLiving, IsLive
<1>12. AddsOwn'
  <2>. SUFFICES ASSUME NEW j \in Ids, holder'[j] \in Procs \ Removers
                PROVE  /\ draft'[j].status \notin {"absent", "retracted"}
                       /\ IsLive(draft'[j]) =>
                            draft'[j].docs \subseteq
                              (IF IsLive(claims[j]) THEN claims[j].docs ELSE {})
                              \cup (IF holder'[j] \in Writers THEN {txn'[holder'[j]].doc} ELSE {})
    BY <1>10 DEF AddsOwn, IsLive
  <2>1. j # i BY <1>9
  <2>2. txn'[holder'[j]] = txn[holder'[j]] BY <1>4 DEF Moves
  <2>. QED BY <1>9, <2>1, <2>2 DEF BackedInv, AddsOwn
<1>13. RemovesAll'
  <2>. SUFFICES ASSUME NEW j \in Ids PROVE Removes(p, j)'
    BY DEF RemovesAll, OneDeleter
  <2>1. Removes(p, j) BY <1>1 DEF BackedInv, RemovesAll
  <2>2. CASE j = i BY <1>4, <1>9, <2>2 DEF Removes
  <2>3. CASE j # i
    BY <1>4, <1>9, <1>10, <2>1, <2>3 DEF Removes, IsLive
  <2>. QED BY <2>2, <2>3
<1>. QED BY <1>5, <1>11, <1>12, <1>13 DEF BackedInv

LEMMA BackedWrites ==
  ASSUME IInv, IInv', BackedInv, OneDeleter, NEW p \in Procs, Writes(p)
  PROVE  BackedInv'
<1>0. /\ Moves(p) /\ WritesOwn(p) /\ txn'[p].doc = txn[p].doc /\ stage[p] # "idle"
      /\ UNCHANGED <<loaded, docLock, gone, claims>>
      /\ stage'[p] = "removing" => RemoveEvidence(p)
  BY WritesFrame DEF work, WritesOwn
<1>1. txn[p] \in Txn /\ Fits(p, stage[p], txn[p]) BY TxnOf
<1>2. CASE RemoveEvidence(p)
  <2>1. p \in Removers
    BY <1>1, <1>2, SlotAssumption DEF RemoveEvidence, Fits, KindFits, OneDeleter, Procs
  <2>. QED BY <1>2, <2>1, BackedRemoval
<1>. SUFFICES ASSUME ~RemoveEvidence(p) PROVE BackedInv' BY <1>2
<1>3. \A i \in Ids : Seen(p, i) \in Claim /\ CitesLiving(Seen(p, i))
  BY SeenRow DEF BackedInv, RowsBacked, Seen, IInv
<1>4. CASE MergeClaim(p)
  <2>. DEFINE i == txn[p].row
              row == Merged(Seen(p, i), txn[p])
  <2>1. /\ stage[p] \in {"own", "raced"} /\ IsLive(Seen(p, i))
        /\ holder' = [holder EXCEPT ![i] = p] /\ draft' = [draft EXCEPT ![i] = row]
    BY <1>4 DEF MergeClaim
  <2>2. i \in Ids /\ txn[p].kind \in Adding /\ p \notin Removers
        /\ txn[p].doc \in Docs /\ txn[p].status \in {"proposed", "active"}
    BY <1>1, <2>1 DEF Fits, KindFits, Adding
  <2>3. p \in Writers
    BY <1>1, <2>2 DEF KindFits, Fits, OneDeleter, Procs, Adding
  <2>4. row.docs = Seen(p, i).docs \cup {txn[p].doc} /\ row.by \in Creators
        /\ row.status \notin {"absent", "retracted"}
    <3>1. Seen(p, i) \in Claim /\ CitesLiving(Seen(p, i)) BY <1>3, <2>2
    <3>2. Seen(p, i).by \in Creators /\ Seen(p, i).status \in LiveStatuses
      BY <2>1, <3>1 DEF CitesLiving, IsLive, LiveStatuses
    <3>3. txn[p].kind \in {"structured", "agent", "extract"} BY <2>2 DEF Adding
    <3>. QED BY <2>2, <3>1, <3>2, <3>3 DEF Merged, Claim, Creators, LiveStatuses
  <2>. HIDE DEF row
  <2>5. \A j \in Ids : j # i => holder'[j] = holder[j] /\ draft'[j] = draft[j]
    BY <2>1, <2>2 DEF IInv, TypeOK
  <2>6. holder'[i] = p /\ draft'[i] = row BY <2>1, <2>2 DEF IInv, TypeOK
  <2>. QED BY <1>0, <2>1, <2>2, <2>3, <2>4, <2>5, <2>6, BackedRow
<1>5. CASE InsertClaim(p)
  <2>1. PICK i \in Ids : /\ holder' = [holder EXCEPT ![i] = p]
                         /\ draft' = [draft EXCEPT ![i] = NewClaim(txn[p])]
    BY <1>5 DEF InsertClaim
  <2>2. txn[p].kind \in Adding /\ txn[p].status \in {"proposed", "active"}
        /\ p \notin Removers
    BY <1>1, <1>5 DEF InsertClaim, Fits, KindFits, Adding
  <2>3. p \in Writers
    BY <1>1, <2>2 DEF KindFits, Fits, OneDeleter, Procs, Adding
  <2>4. NewClaim(txn[p]).docs = {txn[p].doc} /\ NewClaim(txn[p]).by \in Creators
        /\ NewClaim(txn[p]).status \notin {"absent", "retracted"}
    BY <2>2 DEF NewClaim, Creators, Adding
  <2>5. \A j \in Ids : j # i => holder'[j] = holder[j] /\ draft'[j] = draft[j]
    BY <2>1 DEF IInv, TypeOK
  <2>6. holder'[i] = p /\ draft'[i] = NewClaim(txn[p]) BY <2>1 DEF IInv, TypeOK
  <2>. QED BY <1>0, <2>2, <2>3, <2>4, <2>5, <2>6, BackedRow
<1>6. CASE LockSlotRow(p)
  <2>1. p \notin Removers /\ draft' = draft
    BY <1>1, <1>6, SlotAssumption DEF LockSlotRow, Fits, KindFits, Procs
  <2>2. First(txn[p].todo) \in Ids BY <1>1, <1>6, TxnFields, FirstRow DEF LockSlotRow
  <2>3. ASSUME NEW j \in Ids, holder'[j] # holder[j]
        PROVE  /\ holder'[j] = p /\ draft[j] = Seen(p, j) /\ IsActive(draft[j])
               /\ draft[j].by \in Creators /\ draft[j].docs # {}
    <3>1. holder'[j] = p /\ IsActive(Seen(p, j)) /\ holder[j] = None
      BY <1>6, <2>2, <2>3 DEF LockSlotRow, CanLock, IInv, TypeOK
    <3>2. draft[j] = Seen(p, j) BY <3>1 DEF Seen, IInv, DraftInv
    <3>. QED BY <1>3, <3>1, <3>2 DEF CitesLiving, IsActive
  <2>. QED BY <1>0, <2>1, <2>3, BackedRow DEF IsActive, IsLive, LiveStatuses
<1>7. CASE CloseSlot(p)
  <2>1. p \notin Removers
    BY <1>1, <1>7, SlotAssumption DEF CloseSlot, SlotLocked, Fits, KindFits, Procs
  <2>2. holder' = holder BY <1>7 DEF CloseSlot
  <2>3. ASSUME NEW j \in Ids, draft'[j] # draft[j]
        PROVE  holder[j] = p /\ draft'[j].status = "superseded" /\ draft'[j].by \in Creators
    <3>1. j \in txn[p].got /\ \E w : draft'[j] = Superseded(draft[j], w)
      BY <1>7, <2>3 DEF CloseSlot
    <3>2. holder[j] = p /\ IsActive(draft[j])
      BY <1>7, <3>1 DEF CloseSlot, SlotLocked, IInv, SlotInv
    <3>3. draft[j] \in Claim /\ CitesLiving(draft[j])
      BY DEF BackedInv, RowsBacked, IInv, TypeOK
    <3>. QED BY <3>1, <3>2, <3>3 DEF Superseded, Claim, CitesLiving, IsActive
  <2>. QED BY <1>0, <2>1, <2>2, <2>3, BackedRow DEF IsLive, LiveStatuses
<1>8. ASSUME p \in Writers, ClearSlot(p) PROVE FALSE
  BY <1>1, <1>8 DEF ClearSlot, Fits, KindFits, OneDeleter
<1>. QED BY <1>4, <1>5, <1>6, <1>7, <1>8 DEF Writes

LEMMA BackedCommits ==
  ASSUME IInv, IInv', BackedInv, OneDeleter, NEW p \in Procs, Commits(p)
  PROVE  BackedInv'
<1>0. /\ Moves(p) /\ CommitRows(p) /\ stage[p] \in {"ready", "removing"}
      /\ stage'[p] \in AtRest
  BY CommitsFrame
<1>. DEFINE d == txn[p].doc
<1>1. CASE p \in Removers
  <2>1. /\ stage[p] = "removing" /\ txn[p].todo = {} /\ stage'[p] = "idle"
        /\ gone' = gone \cup {d} /\ docLock' = Unlocked(p)
    BY <1>1, SlotAssumption DEF Commits, CommitDelete, Removed, OneDeleter, EndWork, IInv,
       TypeOK
  <2>2. HoldsDocument'
    <3>. SUFFICES ASSUME NEW q \in Writers \cup Removers, stage'[q] # "idle"
                  PROVE  docLock'[txn'[q].doc] = q /\ txn'[q].doc \notin gone'
      BY DEF HoldsDocument
    <3>1. q # p /\ stage[q] # "idle" /\ txn'[q] = txn[q] BY <1>0, <2>1 DEF Moves, Procs
    <3>2. docLock[txn[q].doc] = q /\ txn[q].doc \notin gone BY <3>1 DEF BackedInv, HoldsDocument
    <3>3. txn[q].doc # d BY <1>1, <2>1, <3>1, OtherDocument DEF BackedInv
    <3>4. txn[q].doc \in Docs BY <3>1, DocumentOf
    <3>. QED BY <2>1, <3>1, <3>2, <3>3, <3>4 DEF Unlocked
  <2>3. ASSUME NEW i \in Ids PROVE CitesLiving(claims[i])' /\ CitesLiving(draft[i])'
    <3>1. Removes(p, i) BY <1>1, <2>1 DEF BackedInv, RemovesAll
    <3>2. CitesLiving(claims[i]) /\ CitesLiving(draft[i]) BY DEF BackedInv, RowsBacked
    <3>3. draft'[i] = draft[i] /\ claims'[i] \in {claims[i], draft[i]}
          /\ (holder[i] = p => claims'[i] = draft[i])
      BY <1>0 DEF CommitRows
    <3>. QED BY <2>1, <3>1, <3>2, <3>3 DEF Removes, CitesLiving, IsLive
  <2>4. RowsBacked' BY <2>3 DEF RowsBacked
  <2>5. AddsOwn'
    <3>. SUFFICES ASSUME NEW i \in Ids, holder'[i] \in Procs \ Removers
                  PROVE  /\ draft'[i].status \notin {"absent", "retracted"}
                         /\ IsLive(draft'[i]) =>
                              draft'[i].docs \subseteq
                                (IF IsLive(claims'[i]) THEN claims'[i].docs ELSE {})
                                \cup (IF holder'[i] \in Writers THEN {txn'[holder'[i]].doc} ELSE {})
      BY DEF AddsOwn, IsLive
    <3>1. holder'[i] = holder[i] /\ holder[i] # p /\ claims'[i] = claims[i] /\ draft'[i] = draft[i]
      BY <1>0, SlotAssumption DEF CommitRows
    <3>2. txn'[holder[i]] = txn[holder[i]] BY <1>0, <3>1 DEF Moves
    <3>. QED BY <3>1, <3>2 DEF BackedInv, AddsOwn
  <2>6. RemovesAll' BY <1>1, <2>1 DEF RemovesAll, OneDeleter
  <2>. QED BY <2>2, <2>4, <2>5, <2>6 DEF BackedInv
<1>2. CASE p \notin Removers
  <2>1. stage[p] = "ready" /\ stage'[p] = "idle" /\ gone' = gone
        /\ docLock' \in {docLock, Unlocked(p)}
    BY <1>2 DEF Commits, CommitWrite, CommitResolve, OneDeleter, EndWork, IInv, TypeOK
  <2>2. HoldsDocument'
    <3>. SUFFICES ASSUME NEW q \in Writers \cup Removers, stage'[q] # "idle"
                  PROVE  docLock'[txn'[q].doc] = q /\ txn'[q].doc \notin gone'
      BY DEF HoldsDocument
    <3>1. q # p /\ stage[q] # "idle" /\ txn'[q] = txn[q] BY <1>0, <2>1 DEF Moves, Procs
    <3>2. docLock[txn[q].doc] = q /\ txn[q].doc \notin gone BY <3>1 DEF BackedInv, HoldsDocument
    <3>3. txn[q].doc \in Docs BY <3>1, DocumentOf
    <3>. QED BY <2>1, <3>1, <3>2, <3>3 DEF Unlocked
  <2>3. RowsBacked'
    BY <1>0, <2>1 DEF CommitRows, BackedInv, RowsBacked, CitesLiving, IsLive
  <2>4. ASSUME NEW i \in Ids, holder[i] # p
        PROVE  holder'[i] = holder[i] /\ claims'[i] = claims[i] /\ draft'[i] = draft[i]
    BY <1>0, <2>4 DEF CommitRows
  <2>5. AddsOwn'
    <3>. SUFFICES ASSUME NEW i \in Ids, holder'[i] \in Procs \ Removers
                  PROVE  /\ draft'[i].status \notin {"absent", "retracted"}
                         /\ IsLive(draft'[i]) =>
                              draft'[i].docs \subseteq
                                (IF IsLive(claims'[i]) THEN claims'[i].docs ELSE {})
                                \cup (IF holder'[i] \in Writers THEN {txn'[holder'[i]].doc} ELSE {})
      BY DEF AddsOwn, IsLive
    <3>1. holder[i] # p BY <1>0, SlotAssumption DEF CommitRows
    <3>2. holder'[i] = holder[i] /\ claims'[i] = claims[i] /\ draft'[i] = draft[i]
      BY <2>4, <3>1
    <3>3. txn'[holder[i]] = txn[holder[i]] BY <1>0, <3>1, <3>2 DEF Moves
    <3>. QED BY <3>2, <3>3 DEF BackedInv, AddsOwn
  <2>6. RemovesAll'
    <3>. SUFFICES ASSUME NEW r \in Removers, stage'[r] = "removing", NEW i \in Ids
                  PROVE  Removes(r, i)'
      BY DEF RemovesAll
    <3>1. r # p /\ stage[r] = "removing" /\ txn'[r] = txn[r]
      BY <1>0, <1>2 DEF Moves, Procs
    <3>2. Removes(r, i) BY <3>1 DEF BackedInv, RemovesAll
    <3>3. loaded'[r] = loaded[r]
      BY <1>2, <3>1 DEF Commits, CommitWrite, CommitResolve, OneDeleter, EndWork, IInv, TypeOK,
         Procs
    <3>4. CASE holder[i] # p
      BY <2>1, <2>4, <3>1, <3>2, <3>3, <3>4 DEF Removes, IsLive
    <3>5. CASE holder[i] = p
      <4>1. holder'[i] = None /\ claims'[i] = draft[i] /\ draft'[i] = draft[i]
        BY <1>0, <3>5 DEF CommitRows
      <4>2. draft[i].status \notin {"absent", "retracted"}
        BY <1>2, <3>5 DEF BackedInv, AddsOwn
      <4>. QED BY <2>1, <3>1, <3>2, <3>3, <3>5, <4>1, <4>2, SlotAssumption
               DEF Removes, IsLive, Procs
    <3>. QED BY <3>4, <3>5
  <2>. QED BY <2>2, <2>3, <2>5, <2>6 DEF BackedInv
<1>. QED BY <1>1, <1>2

LEMMA BackedFails ==
  ASSUME IInv, IInv', BackedInv, OneDeleter, NEW p \in Procs, Fails(p)
  PROVE  BackedInv'
<1>0. /\ Moves(p) /\ Rollback(p) /\ stage'[p] = "idle"
      /\ UNCHANGED <<claims, gone>>
      /\ \A i \in Ids : IF holder[i] = p THEN holder'[i] = None /\ draft'[i] = claims[i]
                                         ELSE holder'[i] = holder[i] /\ draft'[i] = draft[i]
  BY FailsFrame
<1>1. HoldsDocument'
  <2>. SUFFICES ASSUME NEW q \in Writers \cup Removers, stage'[q] # "idle"
                PROVE  docLock'[txn'[q].doc] = q /\ txn'[q].doc \notin gone'
    BY DEF HoldsDocument
  <2>1. q # p /\ stage[q] # "idle" /\ txn'[q] = txn[q] BY <1>0 DEF Moves, Procs
  <2>2. docLock[txn[q].doc] = q /\ txn[q].doc \notin gone BY <2>1 DEF BackedInv, HoldsDocument
  <2>3. txn[q].doc \in Docs BY <2>1, DocumentOf
  <2>. QED BY <1>0, <2>1, <2>2, <2>3 DEF Rollback, Unlocked
<1>2. RowsBacked' BY <1>0 DEF BackedInv, RowsBacked, CitesLiving, IsLive
<1>3. AddsOwn'
  <2>. SUFFICES ASSUME NEW i \in Ids, holder'[i] \in Procs \ Removers
                PROVE  /\ draft'[i].status \notin {"absent", "retracted"}
                       /\ IsLive(draft'[i]) =>
                            draft'[i].docs \subseteq
                              (IF IsLive(claims[i]) THEN claims[i].docs ELSE {})
                              \cup (IF holder'[i] \in Writers THEN {txn'[holder'[i]].doc} ELSE {})
    BY <1>0 DEF AddsOwn, IsLive
  <2>1. holder'[i] = holder[i] /\ holder[i] # p /\ draft'[i] = draft[i]
    BY <1>0, SlotAssumption
  <2>2. txn'[holder[i]] = txn[holder[i]] BY <1>0, <2>1 DEF Moves
  <2>. QED BY <2>1, <2>2 DEF BackedInv, AddsOwn
<1>4. RemovesAll'
  <2>. SUFFICES ASSUME NEW r \in Removers, stage'[r] = "removing", NEW i \in Ids
                PROVE  Removes(r, i)'
    BY DEF RemovesAll
  <2>1. r # p /\ stage[r] = "removing" /\ txn'[r] = txn[r] BY <1>0 DEF Moves, Procs
  <2>2. Removes(r, i) BY <2>1 DEF BackedInv, RemovesAll
  <2>3. loaded'[r] = loaded[r] BY <1>0, <2>1 DEF Rollback, EndWork, IInv, TypeOK, Procs
  <2>4. CASE holder[i] # p BY <1>0, <2>1, <2>2, <2>3, <2>4 DEF Removes, IsLive
  <2>5. CASE holder[i] = p
    BY <1>0, <2>1, <2>2, <2>3, <2>5, SlotAssumption DEF Removes, IsLive, Procs
  <2>. QED BY <2>4, <2>5
<1>. QED BY <1>1, <1>2, <1>3, <1>4 DEF BackedInv

LEMMA BackedStep ==
  ASSUME IInv, IInv', BackedInv, OneDeleter, Next
  PROVE  BackedInv'
<1>1. PICK p \in Procs : \/ Begins(p) \/ Looks(p) \/ Writes(p)
                         \/ Commits(p) \/ Finishes(p) \/ Fails(p)
  BY Shapes
<1>2. ~Finishes(p) BY DEF Finishes, OneDeleter
<1>. QED BY <1>1, <1>2, BackedBegins, BackedLooks, BackedWrites, BackedCommits, BackedFails

\* With one delete at a time and structured values that are never cleared, no active
\* claim ever stands on deleted documents alone: a delete that has read the claims
\* citing its document without a lock misses none, since whoever adds evidence holds
\* the lock of the document it adds.
THEOREM Backing == OneDeleter => (Spec => []ActiveIsBacked)
<1>. SUFFICES ASSUME OneDeleter PROVE Spec => []ActiveIsBacked OBVIOUS
<1>1. Init => IInv /\ BackedInv
  <2>. SUFFICES ASSUME Init PROVE BackedInv BY InitInv
  <2>1. \A i \in Ids : claims[i] = NoClaim /\ draft[i] = NoClaim /\ holder[i] = None
    BY DEF Init
  <2>2. \A p \in Procs : stage[p] = "idle" BY DEF Init
  <2>3. RowsBacked BY <2>1 DEF RowsBacked, CitesLiving, NoClaim, IsLive, LiveStatuses
  <2>. QED BY <2>1, <2>2, <2>3, SlotAssumption
       DEF BackedInv, HoldsDocument, AddsOwn, RemovesAll, Procs
<1>2. IInv /\ BackedInv /\ [Next]_vars => (IInv /\ BackedInv)'
  <2>1. ASSUME IInv, BackedInv, Next PROVE IInv' /\ BackedInv' BY <2>1, NextInv, BackedStep
  <2>2. ASSUME IInv, BackedInv, UNCHANGED vars PROVE IInv' /\ BackedInv'
    <3>1. IInv' BY <2>2, NextInv
    <3>. QED BY <2>2, <3>1 DEF vars, BackedInv, HoldsDocument, RowsBacked, AddsOwn, RemovesAll,
         CitesLiving, Removes, IsLive
  <2>. QED BY <2>1, <2>2
<1>3. IInv /\ BackedInv => ActiveIsBacked
  <2>. SUFFICES ASSUME BackedInv, NEW i \in Active PROVE ~(claims[i].docs \subseteq gone)
    BY DEF ActiveIsBacked
  <2>1. CitesLiving(claims[i]) /\ IsActive(claims[i]) BY DEF BackedInv, RowsBacked, Active
  <2>. QED BY <2>1 DEF CitesLiving, IsActive, IsLive, LiveStatuses
<1>. QED BY <1>1, <1>2, <1>3, PTL DEF Spec

-----------------------------------------------------------------------------
(* Two active values are noticed                                           *)

\* Only extractions activate values, and nothing deletes their evidence: two
\* requests that promote different values need not notice each other.
ExtractionAlone == Writers = {} /\ Removers = {}

\* An extraction that has committed its window for claim i has yet to count.
Uncounted(i) == \E d \in claims[i].docs \cap applied : extract[d] # "none"

PairsNoticed ==
  \A i, j \in Active : i # j => queued \/ Uncounted(i) \/ Uncounted(j)

\* One worker at a time runs the extraction of a document.
AtWork ==
  \A p \in Extractors : stage[p] # "idle" =>
    /\ extract[txn[p].doc] = "running"
    /\ \A q \in Extractors \ {p} : stage[q] # "idle" => txn[q].doc # txn[p].doc

\* Evidence is only added, and a value becomes active on behalf of a document.
DraftsGrow == gone = {} /\ \A i \in Ids : claims[i].docs \subseteq draft[i].docs
Activates ==
  \A i \in Ids : IsActive(draft[i]) /\ ~IsActive(claims[i]) =>
    holder[i] \in Extractors /\ txn[holder[i]].doc \in draft[i].docs

\* The conflict worker that holds the job has seen every pair that nobody has yet to
\* count, and has closed one of the two when it is ready to commit.
Resolves(r, i, j) ==
  \/ stage[r] = "slot" /\ {i, j} \subseteq txn[r].todo \cup txn[r].got
  \/ stage[r] = "ready" /\ \E k \in {i, j} : holder[k] = r /\ ~IsActive(draft[k])
Covered(r) ==
  \A i, j \in Active : i # j => Uncounted(i) \/ Uncounted(j) \/ Resolves(r, i, j)
HoldsGot(r) == stage[r] = "slot" => \A i \in Ids : holder[i] = r => i \in txn[r].got
Resolving ==
  \A r \in Resolvers : stage[r] # "idle" =>
    /\ jobHolder = r /\ stage[r] \in {"slot", "ready"}
    /\ HoldsGot(r) /\ Covered(r)

NoticeInv == AtWork /\ DraftsGrow /\ Activates /\ Resolving /\ PairsNoticed

\* Two values are counted as more than one, and conversely.
LEMMA TwoRows ==
  ASSUME NEW S, S \subseteq Ids
  PROVE  Cardinality(S) > 1 <=> \E i, j \in S : i # j
<1>1. IsFiniteSet(Ids) BY SlotAssumption, FS_Interval DEF Ids
<1>2. IsFiniteSet(S) /\ Cardinality(S) \in Nat BY <1>1, FS_Subset, FS_CardinalityType
<1>3. ASSUME NEW i \in S, NEW j \in S, i # j PROVE Cardinality(S) > 1
  <2>1. IsFiniteSet({i}) /\ Cardinality({i}) = 1 BY FS_Singleton
  <2>2. {i, j} = {i} \cup {j} /\ j \notin {i} BY <1>3
  <2>3. Cardinality({i} \cup {j}) = Cardinality({i}) + 1 BY <2>1, <2>2, FS_AddElement
  <2>4. {i, j} \subseteq S OBVIOUS
  <2>5. Cardinality({i, j}) <= Cardinality(S) BY <1>2, <2>4, FS_Subset
  <2>. QED BY <1>2, <2>1, <2>2, <2>3, <2>5
<1>4. ASSUME Cardinality(S) > 1 PROVE \E i, j \in S : i # j
  <2>1. S # {} BY <1>4, FS_EmptySet
  <2>2. PICK i \in S : TRUE BY <2>1
  <2>3. S # {i} BY <1>4, FS_Singleton
  <2>. QED BY <2>2, <2>3
<1>. QED BY <1>3, <1>4

\* Who has yet to count a claim still has to after a step that takes no evidence away
\* and finishes no extraction.
LEMMA StaysUncounted ==
  ASSUME NEW i \in Ids, claims[i].docs \subseteq claims'[i].docs, applied \subseteq applied',
         \A d \in applied : extract[d] # "none" => extract'[d] # "none", Uncounted(i)
  PROVE  Uncounted(i)'
  BY DEF Uncounted

LEMMA WorkKinds ==
  ASSUME IInv, ExtractionAlone, NEW p \in Procs
  PROVE  /\ p \in Extractors \/ p \in Resolvers
         /\ p \in Extractors => p \notin Resolvers /\ txn[p].kind \in {"none", "extract"}
         /\ p \in Resolvers => txn[p].kind \in {"none", "resolve", "rerank"}
         /\ p # None
  BY TxnOf, SlotAssumption DEF ExtractionAlone, Procs, Fits, KindFits

\* A step that commits no rows and finishes no extraction.
LEMMA QuietFrame ==
  ASSUME IInv, NoticeInv, NothingToWipe, ExtractionAlone, NEW p \in Procs,
         Begins(p) \/ Looks(p) \/ Writes(p) \/ Fails(p)
  PROVE  /\ Moves(p) /\ UNCHANGED <<claims, applied, queued, gone>>
         /\ \A d \in Docs : extract[d] # "none" => extract'[d] # "none"
<1>1. Moves(p) /\ UNCHANGED <<claims, applied, queued, gone>>
  BY BeginsFrame, LooksFrame, WritesFrame, FailsFrame DEF WritesOwn, work
<1>2. CASE Looks(p) \/ Writes(p) BY <1>1, <1>2, LooksFrame, WritesFrame DEF work
<1>3. CASE Fails(p)
  <2>1. Rollback(p) BY <1>3, FailsFrame
  <2>. QED BY <1>1, <2>1 DEF Rollback, IInv, TypeOK
<1>4. CASE Begins(p)
  <2>1. CASE \E d \in Docs : TakeExtraction(p, d)
    BY <1>1, <2>1 DEF TakeExtraction, NoticeInv, DraftsGrow, IInv, TypeOK
  <2>2. CASE UNCHANGED extract BY <1>1, <2>2
  <2>3. \/ \E d \in Docs : TakeExtraction(p, d)
        \/ UNCHANGED extract
    BY <1>4 DEF Begins, BeginWindow, BeginResolve, work, ExtractionAlone
  <2>. QED BY <2>1, <2>2, <2>3
<1>. QED BY <1>2, <1>3, <1>4

LEMMA QuietPairs ==
  ASSUME IInv, NoticeInv, UNCHANGED <<claims, applied, queued>>,
         \A d \in Docs : extract[d] # "none" => extract'[d] # "none"
  PROVE  PairsNoticed'
<1>1. Active' = Active BY DEF Active, IsActive
<1>2. \A i \in Ids : Uncounted(i) => Uncounted(i)' BY StaysUncounted DEF IInv, TypeOK
<1>3. \A i \in Active : i \in Ids BY DEF Active
<1>. QED BY <1>1, <1>2, <1>3 DEF NoticeInv, PairsNoticed

\* The document of an extraction at work.
LEMMA WorkDoc ==
  ASSUME IInv, NoticeInv, NEW p \in Extractors, stage[p] # "idle"
  PROVE  txn[p].doc \in Docs /\ extract[txn[p].doc] = "running"
<1>1. txn[p].kind \notin {"none", "resolve", "rerank"} /\ Fits(p, stage[p], txn[p])
  BY TxnOf, SlotAssumption DEF Fits, KindFits, Procs
<1>. QED BY <1>1 DEF Fits, NoticeInv, AtWork

\* A transaction that goes on keeps its document, and one that ends frees no other.
LEMMA AtWorkKeeps ==
  ASSUME IInv, NoticeInv, NEW p \in Procs, Moves(p),
         \A d \in Docs : extract'[d] = extract[d] \/ (p \in Extractors /\ d = txn[p].doc),
         stage'[p] # "idle" /\ p \in Extractors =>
                               /\ stage[p] # "idle" /\ txn'[p].doc = txn[p].doc
                               /\ extract' = extract
  PROVE  AtWork'
<1>. SUFFICES ASSUME NEW q \in Extractors, stage'[q] # "idle"
              PROVE  /\ extract'[txn'[q].doc] = "running"
                     /\ \A r \in Extractors \ {q} :
                          stage'[r] # "idle" => txn'[r].doc # txn'[q].doc
  BY DEF AtWork
<1>1. \A r \in Extractors : stage'[r] # "idle" => stage[r] # "idle" /\ txn'[r].doc = txn[r].doc
  BY DEF Moves, Procs
<1>2. txn[q].doc \in Docs /\ extract[txn[q].doc] = "running" BY <1>1, WorkDoc
<1>3. CASE q = p BY <1>1, <1>2, <1>3 DEF NoticeInv, AtWork
<1>4. CASE q # p
  <2>1. ASSUME p \in Extractors, txn[p].doc = txn[q].doc, extract' # extract PROVE FALSE
    <3>1. stage[p] = "idle" BY <1>1, <1>4, <2>1 DEF NoticeInv, AtWork
    <3>2. txn[p].doc = None BY <3>1, TxnOf DEF Fits, NoTxn
    <3>. QED BY <1>2, <2>1, <3>2, SlotAssumption
  <2>. QED BY <1>1, <1>2, <1>4, <2>1 DEF NoticeInv, AtWork
<1>. QED BY <1>3, <1>4

LEMMA AtWorkTakes ==
  ASSUME IInv, NoticeInv, NEW p \in Extractors, NEW d \in Docs, TakeExtraction(p, d)
  PROVE  AtWork'
<1>1. /\ extract' = [extract EXCEPT ![d] = "running"] /\ extract[d] = "queued"
      /\ txn'[p].doc = d /\ \A q \in Extractors \ {p} : stage'[q] = stage[q] /\ txn'[q] = txn[q]
  <2>1. gone = {} /\ p \in Procs BY DEF NoticeInv, DraftsGrow, Procs
  <2>2. \E t \in Txn : txn' = [txn EXCEPT ![p] = t] /\ t.doc = d
    <3>1. CASE ReadEvidence(p, "extract", d, {"extraction"})
      <4>. DEFINE t == [NoTxn EXCEPT !.kind = "extract", !.doc = d,
                                     !.todo = Citing(p, d, {"extraction"})]
      <4>1. t \in Txn /\ t.doc = d BY NoRow DEF NoTxn, Txn, Citing
      <4>. QED BY <3>1, <4>1 DEF ReadEvidence
    <3>2. CASE txn' = [txn EXCEPT ![p] = [NoTxn EXCEPT !.kind = "extract", !.doc = d]]
      <4>. DEFINE t == [NoTxn EXCEPT !.kind = "extract", !.doc = d]
      <4>1. t \in Txn /\ t.doc = d BY NoRow DEF NoTxn, Txn
      <4>. QED BY <3>2, <4>1
    <3>. QED BY <2>1, <3>1, <3>2 DEF TakeExtraction
  <2>3. Moves(p) BY <2>1, BeginsFrame DEF Begins
  <2>. QED BY <2>1, <2>2, <2>3 DEF TakeExtraction, Moves, Procs, IInv, TypeOK
<1>2. \A q \in Extractors \ {p} : stage[q] # "idle" =>
        txn[q].doc \in Docs /\ extract[txn[q].doc] = "running"
  BY WorkDoc
<1>. SUFFICES ASSUME NEW q \in Extractors, stage'[q] # "idle"
              PROVE  /\ extract'[txn'[q].doc] = "running"
                     /\ \A r \in Extractors \ {q} :
                          stage'[r] # "idle" => txn'[r].doc # txn'[q].doc
  BY DEF AtWork
<1>3. extract \in [Docs -> {"none", "queued", "running"}] BY DEF IInv, TypeOK
<1>4. CASE q = p BY <1>1, <1>2, <1>3, <1>4
<1>5. CASE q # p
  <2>1. \A r \in Extractors \ {q, p} : stage[r] # "idle" => txn[r].doc # txn[q].doc
    BY <1>1, <1>5 DEF NoticeInv, AtWork
  <2>. QED BY <1>1, <1>2, <1>3, <1>5, <2>1
<1>. QED BY <1>4, <1>5

LEMMA AtWorkStep ==
  ASSUME IInv, NoticeInv, ExtractionAlone, NEW p \in Procs,
         \/ Begins(p) \/ Looks(p) \/ Writes(p)
         \/ Commits(p) \/ Finishes(p) \/ Fails(p)
  PROVE  AtWork'
<1>0. p \in Extractors \/ (p \in Resolvers /\ p \notin Extractors) BY WorkKinds
<1>1. CASE Looks(p)
  BY <1>1, LooksFrame, AtWorkKeeps
<1>2. CASE Writes(p)
  BY <1>2, WritesFrame, AtWorkKeeps DEF work
<1>3. CASE Fails(p)
  <2>1. Rollback(p) /\ Moves(p) /\ stage'[p] = "idle" BY <1>3, FailsFrame
  <2>. QED BY <2>1, AtWorkKeeps DEF Rollback, IInv, TypeOK
<1>4. CASE Finishes(p)
  <2>1. Moves(p) /\ stage'[p] = "idle" BY <1>4, FinishesFrame
  <2>. QED BY <1>4, <2>1, AtWorkKeeps DEF Finishes, FinishExtraction, IInv, TypeOK
<1>5. CASE Commits(p)
  <2>1. Moves(p) /\ extract' = extract
    BY <1>5, CommitsFrame DEF Commits, CommitWipe, CommitWindow, CommitResolve, work,
       ExtractionAlone
  <2>2. stage[p] # "idle" BY <1>5, CommitsFrame
  <2>3. p \in Extractors /\ stage'[p] # "idle" => txn'[p].doc = txn[p].doc
    <3>1. CASE CommitWipe(p) \/ CommitWindow(p)
      <4>. DEFINE t == [NoTxn EXCEPT !.kind = txn[p].kind, !.doc = txn[p].doc]
      <4>1. txn' = [txn EXCEPT ![p] = t]
        BY <3>1 DEF CommitWipe, CommitWindow, EndWork
      <4>2. t.doc = txn[p].doc BY DEF NoTxn
      <4>. HIDE DEF t
      <4>. QED BY <4>1, <4>2 DEF IInv, TypeOK
    <3>2. CASE CommitResolve(p)
      BY <3>2 DEF CommitResolve, EndWork, IInv, TypeOK
    <3>. QED BY <1>5, <3>1, <3>2 DEF Commits, ExtractionAlone
  <2>. QED BY <2>1, <2>2, <2>3, AtWorkKeeps
<1>6. CASE Begins(p)
  <2>2. CASE \E d \in Docs : p \in Extractors /\ TakeExtraction(p, d) BY <2>2, AtWorkTakes
  <2>3. CASE \E o \in Values, s \in {"proposed", "active"} : BeginWindow(p, o, s)
    <3>1. PICK o \in Values, s \in {"proposed", "active"} : BeginWindow(p, o, s) BY <2>3
    <3>2. txn'[p].doc = txn[p].doc /\ stage[p] = "window" /\ extract' = extract
      <4>. DEFINE t == [txn[p] EXCEPT !.obj = o, !.status = s]
      <4>1. t \in Txn /\ t.doc = txn[p].doc BY TxnOf DEF Txn, Statuses
      <4>. HIDE DEF t
      <4>2. Search(p, t) /\ stage[p] = "window" /\ extract' = extract
        BY <3>1 DEF BeginWindow, work, t
      <4>3. txn'[p] = t \/ \E i \in Ids : txn'[p] = [t EXCEPT !.row = i]
        BY <4>2 DEF Search, SameObject, IInv, TypeOK
      <4>. QED BY <4>1, <4>2, <4>3 DEF Txn
    <3>. QED BY <1>6, <3>2, BeginsFrame, AtWorkKeeps
  <2>4. CASE p \in Resolvers /\ BeginResolve(p)
    <3>1. extract' = extract BY <2>4 DEF BeginResolve
    <3>. QED BY <1>0, <1>6, <2>4, <3>1, BeginsFrame, AtWorkKeeps, WorkKinds
  <2>. QED BY <1>6, <2>2, <2>3, <2>4 DEF Begins, ExtractionAlone
<1>. QED BY <1>1, <1>2, <1>3, <1>4, <1>5, <1>6

\* Which rows a step of extraction or of the conflict worker writes, and how: a row that
\* is merged or inserted cites the document of an extraction, any other keeps what it
\* cites and is no more active than it was.
LEMMA RowsWritten ==
  ASSUME IInv, NothingToWipe, ExtractionAlone, NEW p \in Procs, Writes(p), NEW i \in Ids
  PROVE  \/ /\ draft'[i].docs = draft[i].docs
            /\ IsActive(draft'[i]) => IsActive(draft[i])
         \/ /\ p \in Extractors /\ holder'[i] = p /\ draft[i].docs \subseteq draft'[i].docs
            /\ txn'[p].doc \in draft'[i].docs
<1>0. txn[p] \in Txn /\ Fits(p, stage[p], txn[p]) /\ draft[i] \in Claim
  BY TxnOf DEF IInv, TypeOK
<1>1. CASE MergeClaim(p)
  <2>. DEFINE k == txn[p].row
              row == Merged(Seen(p, k), txn[p])
  <2>1. stage[p] \in {"own", "raced"} /\ CanLock(p, k) /\ txn' = txn
        /\ holder' = [holder EXCEPT ![k] = p] /\ draft' = [draft EXCEPT ![k] = row]
    BY <1>1 DEF MergeClaim
  <2>2. k \in Ids /\ txn[p].kind \in Adding BY <1>0, <2>1 DEF Fits
  <2>3. p \in Extractors BY <2>2, WorkKinds DEF Adding
  <2>4. Seen(p, k) = draft[k] BY <2>1, <2>2 DEF Seen, CanLock, IInv, DraftInv
  <2>5. draft[k] \in Claim BY <2>2 DEF IInv, TypeOK
  <2>6. row.docs = draft[k].docs \cup {txn[p].doc} BY <2>4, <2>5 DEF Merged, Claim
  <2>. HIDE DEF row, k
  <2>7. CASE i = k BY <2>1, <2>2, <2>3, <2>6, <2>7 DEF IInv, TypeOK
  <2>8. CASE i # k BY <2>1, <2>8 DEF IInv, TypeOK
  <2>. QED BY <2>7, <2>8
<1>2. CASE InsertClaim(p)
  <2>1. PICK k \in Ids :
          /\ draft[k] = NoClaim
          /\ holder' = [holder EXCEPT ![k] = p]
          /\ draft' = [draft EXCEPT ![k] = NewClaim(txn[p])]
          /\ txn' = [txn EXCEPT ![p].row = k]
    BY <1>2 DEF InsertClaim
  <2>2. p \in Extractors BY <1>0, <1>2, WorkKinds DEF InsertClaim, Adding, Fits
  <2>3. txn'[p].doc = txn[p].doc BY <1>0, <2>1 DEF IInv, TypeOK, Txn
  <2>4. NewClaim(txn[p]).docs = {txn[p].doc} /\ NoClaim.docs = {} BY DEF NewClaim, NoClaim
  <2>5. CASE i = k BY <2>1, <2>2, <2>3, <2>4, <2>5 DEF IInv, TypeOK
  <2>6. CASE i # k BY <2>1, <2>6 DEF IInv, TypeOK
  <2>. QED BY <2>5, <2>6
<1>3. CASE LockSlotRow(p) BY <1>3 DEF LockSlotRow
<1>4. CASE CloseSlot(p)
  <2>1. draft'[i] = draft[i] \/ \E w : draft'[i] = Superseded(draft[i], w)
    BY <1>4 DEF CloseSlot
  <2>. QED BY <1>0, <2>1 DEF Superseded, Claim, IsActive
<1>5. ASSUME ClearSlot(p) PROVE FALSE
  <2>1. txn[p].kind = "clear" BY <1>5 DEF ClearSlot
  <2>. QED BY <2>1, WorkKinds
<1>6. ASSUME RemoveEvidence(p) PROVE FALSE BY <1>6 DEF RemoveEvidence, NothingToWipe
<1>. QED BY <1>1, <1>2, <1>3, <1>4, <1>5, <1>6 DEF Writes

LEMMA GrowStep ==
  ASSUME IInv, NoticeInv, NothingToWipe, ExtractionAlone, NEW p \in Procs,
         \/ Begins(p) \/ Looks(p) \/ Writes(p)
         \/ Commits(p) \/ Finishes(p) \/ Fails(p)
  PROVE  DraftsGrow' /\ Activates'
<1>. USE DEF NoticeInv
<1>0. Moves(p) /\ gone' = gone /\ p # None
  <2>1. CASE Commits(p)
    BY <2>1, WorkKinds, CommitsFrame DEF Commits, CommitWipe, CommitWindow, CommitResolve, work,
       ExtractionAlone
  <2>2. CASE ~Commits(p)
    BY <2>2, WorkKinds, BeginsFrame, LooksFrame, WritesFrame, FinishesFrame, FailsFrame DEF work
  <2>. QED BY <2>1, <2>2
<1>. SUFFICES ASSUME NEW i \in Ids
              PROVE  /\ claims'[i].docs \subseteq draft'[i].docs
                     /\ IsActive(draft'[i]) /\ ~IsActive(claims'[i]) =>
                          /\ holder'[i] \in Extractors
                          /\ txn'[holder'[i]].doc \in draft'[i].docs
  BY <1>0 DEF DraftsGrow, Activates, IsActive
<1>1. /\ claims[i].docs \subseteq draft[i].docs
      /\ IsActive(draft[i]) /\ ~IsActive(claims[i]) =>
           holder[i] \in Extractors /\ txn[holder[i]].doc \in draft[i].docs
  BY DEF DraftsGrow, Activates
<1>2. holder[i] \in Extractors /\ holder[i] # p => txn'[holder[i]] = txn[holder[i]]
  BY <1>0 DEF Moves, Procs
<1>3. CASE Begins(p) \/ Finishes(p)
  <2>1. UNCHANGED <<claims, draft, holder>> /\ holder[i] # p
    BY <1>3, BeginsFrame, FinishesFrame, RestHoldsNothing
  <2>. QED BY <1>1, <1>2, <2>1
<1>4. CASE Looks(p)
  <2>1. UNCHANGED <<claims, draft, holder>> /\ txn'[p].doc = txn[p].doc BY <1>4, LooksFrame
  <2>. QED BY <1>1, <1>2, <2>1
<1>5. CASE Fails(p)
  <2>1. claims' = claims /\ IF holder[i] = p THEN draft'[i] = claims[i]
                            ELSE holder'[i] = holder[i] /\ draft'[i] = draft[i]
    BY <1>5, FailsFrame
  <2>. QED BY <1>1, <1>2, <2>1
<1>6. CASE Commits(p)
  <2>1. CommitRows(p) BY <1>6, CommitsFrame
  <2>2. CASE holder[i] = p
    BY <2>1, <2>2 DEF CommitRows
  <2>3. CASE holder[i] # p
    <3>1. claims'[i] = claims[i] /\ draft'[i] = draft[i] /\ holder'[i] = holder[i]
      BY <2>1, <2>3 DEF CommitRows
    <3>. QED BY <1>1, <1>2, <2>3, <3>1
  <2>. QED BY <2>2, <2>3
<1>7. CASE Writes(p)
  <2>0. claims' = claims /\ txn'[p].doc = txn[p].doc /\ WritesOwn(p)
    BY <1>7, WritesFrame DEF WritesOwn
  <2>1. CASE /\ p \in Extractors /\ holder'[i] = p /\ draft[i].docs \subseteq draft'[i].docs
             /\ txn'[p].doc \in draft'[i].docs
    BY <1>1, <2>0, <2>1
  <2>2. CASE /\ draft'[i].docs = draft[i].docs
             /\ IsActive(draft'[i]) => IsActive(draft[i])
    <3>1. CASE holder[i] = None
      <4>1. draft[i] = claims[i] BY <3>1 DEF IInv, DraftInv
      <4>. QED BY <1>1, <2>0, <2>2, <4>1
    <3>2. CASE holder[i] # None
      <4>1. holder'[i] = holder[i] BY <2>0, <3>2 DEF WritesOwn
      <4>. QED BY <1>1, <1>2, <2>0, <2>2, <4>1
    <3>. QED BY <3>1, <3>2
  <2>. QED BY <1>7, <2>1, <2>2, RowsWritten
<1>. QED BY <1>3, <1>4, <1>5, <1>6, <1>7

\* A commit: an active row was active before, or an extraction has still to count it.
LEMMA CommitPairs ==
  ASSUME IInv, NoticeInv, NothingToWipe, ExtractionAlone, NEW p \in Procs, Commits(p)
  PROVE  /\ \A i \in Active' : i \in Active \/ Uncounted(i)'
         /\ \A i \in Ids : Uncounted(i) => Uncounted(i)'
         /\ \A i \in Active' : holder[i] = p => IsActive(draft[i])
         /\ \A i \in Active' : holder[i] = p /\ p \in Resolvers => i \in Active
<1>. USE DEF NoticeInv
<1>1. CommitRows(p) BY CommitsFrame
<1>2. CommitWipe(p) \/ CommitWindow(p) \/ CommitResolve(p)
  BY DEF Commits, ExtractionAlone
<1>3. extract' = extract /\ applied \subseteq applied'
  BY <1>2 DEF CommitWipe, CommitWindow, CommitResolve, work
<1>4. ASSUME NEW i \in Ids PROVE Uncounted(i) => Uncounted(i)'
  <2>1. claims[i].docs \subseteq claims'[i].docs
    BY <1>1 DEF CommitRows, DraftsGrow
  <2>. QED BY <1>3, <2>1, StaysUncounted
<1>5. ASSUME NEW i \in Ids, IsActive(claims'[i]), holder[i] = p
      PROVE  /\ IsActive(draft[i]) /\ claims'[i] = draft[i]
             /\ p \in Resolvers => IsActive(claims[i])
             /\ IsActive(claims[i]) \/ Uncounted(i)'
  <2>1. claims'[i] = draft[i] BY <1>1, <1>5 DEF CommitRows
  <2>2. IsActive(claims[i]) \/ (p \in Extractors /\ txn[p].doc \in draft[i].docs)
    BY <1>5, <2>1 DEF Activates
  <2>3. ASSUME p \in Extractors, txn[p].doc \in draft[i].docs PROVE Uncounted(i)'
    <3>1. stage[p] # "idle" /\ stage[p] # "removing"
      BY <1>5, CommitsFrame DEF NothingToWipe
    <3>2. CommitWindow(p) BY <1>2, <2>3, <3>1, WorkKinds
      DEF CommitWipe, Removed, CommitResolve
    <3>3. txn[p].doc \in Docs /\ extract[txn[p].doc] = "running" BY <2>3, <3>1, WorkDoc
    <3>4. txn[p].doc \in applied' BY <3>2 DEF CommitWindow
    <3>. QED BY <1>3, <2>1, <2>3, <3>3, <3>4 DEF Uncounted
  <2>. QED BY <1>5, <2>1, <2>2, <2>3, WorkKinds
<1>6. ASSUME NEW i \in Ids, holder[i] # p PROVE claims'[i] = claims[i]
  BY <1>1, <1>6 DEF CommitRows
<1>. QED BY <1>4, <1>5, <1>6 DEF Active, IsActive

\* An extraction that counts finds both of two active rows if one of them is its own.
LEMMA FinishPairs ==
  ASSUME IInv, NoticeInv, ExtractionAlone, NEW p \in Procs, Finishes(p),
         NEW i \in Active, NEW j \in Active, i # j, Uncounted(i)
  PROVE  Uncounted(i)' \/ (queued' = TRUE /\ jobHolder = None)
<1>1. claims' = claims /\ applied' = applied BY FinishesFrame
<1>2. PICK d \in claims[i].docs \cap applied : extract[d] # "none" BY DEF Uncounted
<1>3. CASE d = txn[p].doc
  <2>1. Active \subseteq Ids /\ i \in Ids /\ IsActive(claims[i]) BY DEF Active
  <2>2. Cardinality(Active) > 1 BY <2>1, TwoRows
  <2>3. Contested(d) BY <1>2, <2>1, <2>2 DEF Contested, Active
  <2>. QED BY <1>3, <2>3 DEF Finishes, FinishExtraction
<1>4. CASE d # txn[p].doc
  <2>1. extract'[d] = extract[d] BY <1>2, <1>4 DEF Finishes, FinishExtraction, IInv, TypeOK
  <2>. QED BY <1>1, <1>2, <2>1 DEF Uncounted
<1>. QED BY <1>3, <1>4

LEMMA PairsStep ==
  ASSUME IInv, NoticeInv, NothingToWipe, ExtractionAlone, NEW p \in Procs,
         \/ Begins(p) \/ Looks(p) \/ Writes(p)
         \/ Commits(p) \/ Finishes(p) \/ Fails(p)
  PROVE  PairsNoticed'
<1>1. CASE Begins(p) \/ Looks(p) \/ Writes(p) \/ Fails(p)
  BY <1>1, QuietFrame, QuietPairs
<1>. SUFFICES ASSUME Commits(p) \/ Finishes(p), NEW i \in Active', NEW j \in Active', i # j
              PROVE  queued' \/ Uncounted(i)' \/ Uncounted(j)'
  BY <1>1 DEF PairsNoticed
<1>2. i \in Ids /\ j \in Ids BY DEF Active
<1>3. CASE Finishes(p)
  <2>1. claims' = claims /\ applied' = applied BY <1>3, FinishesFrame
  <2>2. i \in Active /\ j \in Active BY <2>1 DEF Active, IsActive
  <2>3. queued => queued' BY <1>3 DEF Finishes, FinishExtraction
  <2>4. queued \/ Uncounted(i) \/ Uncounted(j) BY <2>2 DEF NoticeInv, PairsNoticed
  <2>. QED BY <1>3, <2>2, <2>3, <2>4, FinishPairs
<1>4. CASE Commits(p)
  <2>1. CASE ~(i \in Active /\ j \in Active) BY <1>4, <2>1, CommitPairs
  <2>2. CASE i \in Active /\ j \in Active
    <3>1. Uncounted(i) => Uncounted(i)' BY <1>2, <1>4, CommitPairs
    <3>2. Uncounted(j) => Uncounted(j)' BY <1>2, <1>4, CommitPairs
    <3>3. CASE queued' = queued BY <2>2, <3>1, <3>2, <3>3 DEF NoticeInv, PairsNoticed
    <3>4. CASE p \in Resolvers /\ CommitResolve(p)
      <4>1. stage[p] = "ready" BY <3>4 DEF CommitResolve
      <4>2. Covered(p) BY <3>4, <4>1 DEF NoticeInv, Resolving
      <4>3. \A k \in {i, j} : holder[k] = p => IsActive(draft[k]) BY <1>4, CommitPairs
      <4>4. ~Resolves(p, i, j) BY <4>1, <4>3 DEF Resolves
      <4>. QED BY <2>2, <3>1, <3>2, <4>2, <4>4 DEF Covered
    <3>. QED BY <1>4, <3>3, <3>4
         DEF Commits, CommitWipe, CommitWindow, work, ExtractionAlone
  <2>. QED BY <2>1, <2>2
<1>. QED BY <1>3, <1>4

\* Nobody else touches what the conflict worker holds, or takes its job away.
LEMMA OthersRows ==
  ASSUME IInv, NoticeInv, ExtractionAlone, NEW p \in Procs,
         \/ Begins(p) \/ Looks(p) \/ Writes(p)
         \/ Commits(p) \/ Finishes(p) \/ Fails(p),
         NEW r \in Resolvers \ {p}, stage[r] # "idle"
  PROVE  /\ stage'[r] = stage[r] /\ txn'[r] = txn[r] /\ jobHolder' = r
         /\ \A i \in Ids : holder'[i] = r => holder[i] = r
         /\ \A i \in Ids : holder[i] = r => holder'[i] = r /\ draft'[i] = draft[i]
<1>0. r \in Procs /\ r # None /\ p # None BY WorkKinds DEF Procs
<1>1. Moves(p)
  BY BeginsFrame, LooksFrame, WritesFrame, CommitsFrame, FinishesFrame, FailsFrame
<1>2. jobHolder = r BY DEF NoticeInv, Resolving
<1>3. CASE Begins(p) \/ Looks(p) \/ Finishes(p)
  <2>1. UNCHANGED <<draft, holder>> BY <1>3, BeginsFrame, LooksFrame, FinishesFrame
  <2>2. jobHolder' = jobHolder
    <3>1. CASE Begins(p)
      BY <1>0, <1>2, <3>1 DEF Begins, TakeExtraction, BeginWindow, BeginResolve, work,
         ExtractionAlone
    <3>2. CASE Looks(p)
      BY <3>2 DEF Looks, OwnRowGone, InsertRaced, OpenSlot, Reselect, work, ExtractionAlone
    <3>3. CASE Finishes(p) BY <3>3, FinishesFrame
    <3>. QED BY <1>3, <3>1, <3>2, <3>3
  <2>. QED BY <1>0, <1>1, <1>2, <2>1, <2>2 DEF Moves
<1>4. CASE Writes(p)
  <2>1. WritesOwn(p) /\ jobHolder' = jobHolder BY <1>4, WritesFrame DEF work
  <2>. QED BY <1>0, <1>1, <1>2, <2>1 DEF Moves, WritesOwn
<1>5. CASE Fails(p)
  <2>1. /\ Rollback(p)
        /\ \A i \in Ids : IF holder[i] = p THEN holder'[i] = None
                          ELSE holder'[i] = holder[i] /\ draft'[i] = draft[i]
    BY <1>5, FailsFrame
  <2>2. jobHolder' = jobHolder BY <1>2, <2>1 DEF Rollback
  <2>. QED BY <1>0, <1>1, <1>2, <2>1, <2>2 DEF Moves
<1>6. CASE Commits(p)
  <2>1. CommitRows(p) /\ stage[p] # "idle" BY <1>6, CommitsFrame
  <2>2. p \notin Resolvers BY <1>2, <2>1 DEF NoticeInv, Resolving
  <2>3. jobHolder' = jobHolder
    BY <1>6, <2>2 DEF Commits, CommitWipe, CommitWindow, work, ExtractionAlone
  <2>. QED BY <1>0, <1>1, <1>2, <2>1, <2>3 DEF Moves, CommitRows
<1>. QED BY <1>3, <1>4, <1>5, <1>6 DEF IInv

LEMMA OthersCovered ==
  ASSUME IInv, NoticeInv, NothingToWipe, ExtractionAlone, NEW p \in Procs,
         \/ Begins(p) \/ Looks(p) \/ Writes(p)
         \/ Commits(p) \/ Finishes(p) \/ Fails(p),
         NEW r \in Resolvers \ {p}, stage[r] # "idle"
  PROVE  HoldsGot(r)' /\ Covered(r)'
<1>0. /\ stage'[r] = stage[r] /\ txn'[r] = txn[r] /\ jobHolder' = r /\ jobHolder = r
      /\ \A i \in Ids : holder'[i] = r => holder[i] = r
      /\ \A i \in Ids : holder[i] = r => holder'[i] = r /\ draft'[i] = draft[i]
  BY OthersRows DEF NoticeInv, Resolving
<1>1. HoldsGot(r) /\ Covered(r) /\ r # None
  BY WorkKinds DEF NoticeInv, Resolving, Procs
<1>2. HoldsGot(r)' BY <1>0, <1>1 DEF HoldsGot
<1>3. ASSUME NEW i \in Active', NEW j \in Active', i # j
      PROVE  Uncounted(i)' \/ Uncounted(j)' \/ Resolves(r, i, j)'
  <2>1. i \in Ids /\ j \in Ids BY DEF Active
  <2>2. Resolves(r, i, j) => Resolves(r, i, j)'
    BY <1>0, <2>1 DEF Resolves, IsActive
  <2>3. CASE Commits(p)
    BY <1>1, <1>3, <2>1, <2>2, <2>3, CommitPairs DEF Covered
  <2>4. CASE Finishes(p)
    <3>1. claims' = claims BY <2>4, FinishesFrame
    <3>2. i \in Active /\ j \in Active BY <3>1 DEF Active, IsActive
    <3>3. Uncounted(i) => Uncounted(i)' BY <1>0, <1>1, <1>3, <2>4, <3>2, FinishPairs
    <3>4. Uncounted(j) => Uncounted(j)' BY <1>0, <1>1, <1>3, <2>4, <3>2, FinishPairs
    <3>. QED BY <1>1, <1>3, <2>2, <3>2, <3>3, <3>4 DEF Covered
  <2>5. CASE Begins(p) \/ Looks(p) \/ Writes(p) \/ Fails(p)
    <3>1. /\ UNCHANGED <<claims, applied>>
          /\ \A d \in Docs : extract[d] # "none" => extract'[d] # "none"
      BY <2>5, QuietFrame
    <3>2. i \in Active /\ j \in Active BY <3>1 DEF Active, IsActive
    <3>3. \A k \in {i, j} : Uncounted(k) => Uncounted(k)'
      BY <2>1, <3>1, StaysUncounted DEF IInv, TypeOK
    <3>. QED BY <1>1, <1>3, <2>2, <3>2, <3>3 DEF Covered
  <2>. QED BY <2>3, <2>4, <2>5
<1>4. Covered(r)'
  BY <1>3 DEF Covered
<1>. QED BY <1>2, <1>4

\* What the conflict worker itself does, at every step between its first and its last.
LEMMA OwnCovered ==
  ASSUME IInv, NoticeInv, NothingToWipe, ExtractionAlone, NEW p \in Resolvers,
         \/ Begins(p) \/ Looks(p) \/ Writes(p)
         \/ Commits(p) \/ Finishes(p) \/ Fails(p),
         stage'[p] # "idle"
  PROVE  /\ jobHolder' = p /\ stage'[p] \in {"slot", "ready"}
         /\ HoldsGot(p)' /\ Covered(p)'
<1>0. /\ p \in Procs /\ p # None /\ p \notin Extractors
      /\ txn[p] \in Txn /\ Fits(p, stage[p], txn[p])
      /\ txn[p].kind \in {"none", "resolve", "rerank"}
  BY TxnOf, WorkKinds DEF Procs
<1>1. \/ BeginResolve(p) \/ Reselect(p) \/ LockSlotRow(p) \/ CloseSlot(p)
  <2>1. ~Commits(p) /\ ~Fails(p) /\ ~Finishes(p)
    BY <1>0, FailsFrame DEF Commits, CommitResolve, EndWork, Finishes, ExtractionAlone,
       IInv, TypeOK
  <2>2. stage[p] \notin {"own", "raced", "insert", "added", "removing"}
    BY <1>0 DEF Fits, Adding
  <2>. QED BY <1>0, <2>1, <2>2
       DEF Begins, Looks, Writes, OwnRowGone, InsertRaced, OpenSlot, MergeClaim, InsertClaim,
           RemoveEvidence, ClearSlot, SlotLocked, ExtractionAlone
<1>2. UNCHANGED <<claims, applied>>
      /\ \A d \in Docs : extract[d] # "none" => extract'[d] # "none"
  BY <1>0, <1>1, QuietFrame DEF Begins, Looks, Writes
<1>3. Active' = Active /\ \A i \in Ids : Uncounted(i) => Uncounted(i)'
  BY <1>2, StaysUncounted DEF Active, IsActive, IInv, TypeOK
<1>4. Active \subseteq Ids BY DEF Active
<1>5. CASE BeginResolve(p)
  <2>1. \A i \in Ids : holder[i] # p BY <1>0, <1>5, RestHoldsNothing DEF BeginResolve, AtRest
  <2>2. ActiveRows(p) = Active BY <2>1 DEF ActiveRows, Active, Seen
  <2>3. stage'[p] = "slot" /\ jobHolder' = p /\ holder' = holder /\ txn'[p].todo = Active
    BY <1>0, <1>5, <2>2 DEF BeginResolve, tables, NoTxn, IInv, TypeOK
  <2>4. HoldsGot(p)' BY <2>1, <2>3 DEF HoldsGot
  <2>5. Covered(p)' BY <1>3, <2>3 DEF Covered, Resolves
  <2>. QED BY <2>3, <2>4, <2>5
<1>6. CASE ~BeginResolve(p)
  <2>1. stage[p] = "slot" /\ jobHolder' = jobHolder
    BY <1>1, <1>6 DEF Reselect, LockSlotRow, CloseSlot, SlotLocked, work
  <2>2. jobHolder' = p /\ HoldsGot(p) /\ Covered(p) BY <2>1 DEF NoticeInv, Resolving
  <2>3. ASSUME NEW i \in Active, NEW j \in Active, i # j, ~Uncounted(i)', ~Uncounted(j)'
        PROVE  {i, j} \subseteq txn[p].todo \cup txn[p].got
    BY <1>3, <1>4, <2>1, <2>2, <2>3 DEF Covered, Resolves
  <2>4. CASE Reselect(p)
    <3>1. CASE Cardinality(txn[p].got) < 2
      <4>0. txn[p].got \subseteq Ids /\ Cardinality(txn[p].got) \in Nat
        <5>1. txn[p].got \subseteq Ids BY <1>0, TxnFields
        <5>2. IsFiniteSet(Ids) BY SlotAssumption, FS_Interval DEF Ids
        <5>. QED BY <5>1, <5>2, FS_Subset, FS_CardinalityType
      <4>1. stage'[p] = "ready" /\ txn[p].todo = {}
        BY <1>0, <2>1, <2>4, <3>1, <4>0 DEF Reselect, SlotLocked, IInv, TypeOK
      <4>2. txn[p].got \subseteq Ids /\ ~(Cardinality(txn[p].got) > 1)
        BY <3>1, <4>0
      <4>3. \A i, j \in txn[p].got : i = j BY <4>2, TwoRows
      <4>4. Covered(p)' BY <1>3, <2>3, <4>1, <4>3 DEF Covered
      <4>. QED BY <2>2, <4>1, <4>4 DEF HoldsGot
    <3>2. CASE ~(Cardinality(txn[p].got) < 2)
      <4>1. /\ stage' = stage /\ holder' = holder
            /\ txn' = [txn EXCEPT ![p].kind = "rerank", ![p].todo = ActiveRows(p)]
        BY <2>4, <3>2 DEF Reselect, tables
      <4>2. txn'[p].got = txn[p].got BY <1>0, <4>1 DEF IInv, TypeOK, Txn
      <4>3. txn[p].todo = {} BY <2>4 DEF Reselect, SlotLocked
      <4>4. Covered(p)' BY <1>3, <2>1, <2>3, <4>1, <4>2, <4>3 DEF Covered, Resolves
      <4>. QED BY <2>1, <2>2, <4>1, <4>2, <4>4 DEF HoldsGot
    <3>. QED BY <3>1, <3>2
  <2>5. CASE LockSlotRow(p)
    <3>. DEFINE k == First(txn[p].todo)
    <3>1. k \in Ids /\ txn[p].todo # {}
      BY <1>0, <2>5, TxnFields, FirstRow DEF LockSlotRow
    <3>2. stage' = stage /\ draft' = draft /\ CanLock(p, k) BY <2>5 DEF LockSlotRow
    <3>3. CASE /\ holder' = [holder EXCEPT ![k] = p]
               /\ txn' = [txn EXCEPT ![p].todo = @ \ {k}, ![p].got = @ \cup {k}]
      <4>1. txn'[p].todo = txn[p].todo \ {k} /\ txn'[p].got = txn[p].got \cup {k}
        BY <1>0, <3>3 DEF IInv, TypeOK, Txn
      <4>2. HoldsGot(p)' BY <2>1, <2>2, <3>1, <3>2, <3>3, <4>1 DEF HoldsGot, IInv, TypeOK
      <4>3. Covered(p)' BY <1>3, <2>1, <2>3, <3>2, <4>1 DEF Covered, Resolves
      <4>. QED BY <2>1, <2>2, <3>2, <4>2, <4>3
    <3>4. CASE /\ ~IsActive(Seen(p, k)) /\ holder' = holder
               /\ txn' = [txn EXCEPT ![p].todo = @ \ {k}]
      <4>1. txn'[p].todo = txn[p].todo \ {k} /\ txn'[p].got = txn[p].got
        BY <1>0, <3>4 DEF IInv, TypeOK, Txn
      <4>2. k \notin Active
        <5>1. CASE holder[k] = p
          <6>1. k \in txn[p].got BY <2>1, <2>2, <3>1, <5>1 DEF HoldsGot
          <6>2. IsActive(draft[k]) BY <1>0, <2>1, <6>1 DEF IInv, SlotInv
          <6>. QED BY <3>4, <5>1, <6>2 DEF Seen
        <5>2. CASE holder[k] # p BY <3>4, <5>2 DEF Seen, Active
        <5>. QED BY <5>1, <5>2
      <4>. HIDE DEF k
      <4>3. HoldsGot(p)' BY <2>1, <2>2, <3>2, <3>4, <4>1 DEF HoldsGot
      <4>4. Covered(p)' BY <1>3, <2>1, <2>3, <3>2, <4>1, <4>2 DEF Covered, Resolves
      <4>. QED BY <2>1, <2>2, <3>2, <4>3, <4>4
    <3>. QED BY <2>5, <3>3, <3>4 DEF LockSlotRow
  <2>6. CASE CloseSlot(p)
    <3>1. stage'[p] = "ready" /\ txn[p].todo = {} /\ holder' = holder
      BY <1>0, <2>6 DEF CloseSlot, SlotLocked, ExtractionAlone, IInv, TypeOK
    <3>2. ASSUME NEW i \in Active, NEW j \in Active, i # j, ~Uncounted(i)', ~Uncounted(j)'
          PROVE  \E m \in {i, j} : holder'[m] = p /\ ~IsActive(draft'[m])
      <4>1. i \in txn[p].got /\ j \in txn[p].got BY <2>3, <3>1, <3>2
      <4>2. PICK w \in Winners(txn[p].got) :
              draft' = [m \in Ids |-> IF m \in txn[p].got \ {w}
                                      THEN Superseded(draft[m], w) ELSE draft[m]]
        BY <2>6, <4>1 DEF CloseSlot
      <4>3. PICK m \in {i, j} : m # w BY <3>2
      <4>4. m \in Ids /\ m \in txn[p].got BY <1>4, <3>2, <4>1
      <4>5. draft'[m] = Superseded(draft[m], w) BY <4>2, <4>3, <4>4
      <4>6. draft[m] \in Claim BY <4>4 DEF IInv, TypeOK
      <4>7. ~IsActive(draft'[m]) BY <4>5, <4>6 DEF Superseded, Claim, IsActive
      <4>8. holder[m] = p BY <1>0, <2>1, <4>4 DEF IInv, SlotInv
      <4>. QED BY <3>1, <4>7, <4>8
    <3>3. Covered(p)' BY <1>3, <3>1, <3>2 DEF Covered, Resolves, IsActive
    <3>. QED BY <2>2, <3>1, <3>3 DEF HoldsGot
  <2>. QED BY <1>1, <1>6, <2>4, <2>5, <2>6
<1>. QED BY <1>5, <1>6

LEMMA NoticeStep ==
  ASSUME IInv, NoticeInv, NothingToWipe, ExtractionAlone, Next
  PROVE  NoticeInv'
<1>1. PICK p \in Procs : \/ Begins(p) \/ Looks(p) \/ Writes(p)
                         \/ Commits(p) \/ Finishes(p) \/ Fails(p)
  BY Shapes
<1>2. ASSUME NEW r \in Resolvers, stage'[r] # "idle"
      PROVE  /\ jobHolder' = r /\ stage'[r] \in {"slot", "ready"}
             /\ HoldsGot(r)' /\ Covered(r)'
  <2>1. CASE r = p BY <1>1, <1>2, <2>1, OwnCovered
  <2>2. CASE r # p
    <3>1. Moves(p)
      BY <1>1, BeginsFrame, LooksFrame, WritesFrame, CommitsFrame, FinishesFrame, FailsFrame
    <3>2. stage[r] # "idle" /\ stage'[r] = stage[r] BY <1>2, <2>2, <3>1 DEF Moves, Procs
    <3>3. stage[r] \in {"slot", "ready"} BY <3>2 DEF NoticeInv, Resolving
    <3>. QED BY <1>1, <2>2, <3>2, <3>3, OthersRows, OthersCovered
  <2>. QED BY <2>1, <2>2
<1>3. Resolving' BY <1>2 DEF Resolving
<1>. QED BY <1>1, <1>3, AtWorkStep, GrowStep, PairsStep DEF NoticeInv

\* Where values become active by extraction alone, two of them never stay side by side
\* unnoticed: an extraction counts after it has committed, and one that could have seen
\* neither is followed by the other's count, or by the conflict worker's, who holds the
\* job until it has closed one of any two that nobody has yet to count.
THEOREM Noticed == ExtractionAlone => (Spec => []ConflictNoticed)
<1>. DEFINE Inv == /\ IInv /\ NothingToWipe /\ NoticeInv
                   /\ Extractors = {} \/ CitesApplied
<1>. SUFFICES ASSUME ExtractionAlone PROVE Spec => []ConflictNoticed OBVIOUS
<1>0. DocumentsStay BY DEF ExtractionAlone, DocumentsStay
<1>1. Init => Inv
  <2>. SUFFICES ASSUME Init PROVE Inv OBVIOUS
  <2>1. /\ \A i \in Ids : claims[i] = NoClaim /\ draft[i] = NoClaim /\ holder[i] = None
        /\ \A p \in Procs : stage[p] = "idle"
        /\ gone = {} /\ Extractors \cup Resolvers \subseteq Procs
    BY DEF Init, Procs
  <2>2. Active = {} BY <2>1 DEF Active, IsActive, NoClaim
  <2>3. AtWork /\ DraftsGrow /\ Activates /\ Resolving /\ PairsNoticed
    BY <2>1, <2>2 DEF AtWork, DraftsGrow, Activates, Resolving, PairsNoticed, IsActive, NoClaim
  <2>. QED BY <2>1, <2>3, InitInv DEF NoticeInv, NothingToWipe, CitesApplied, NoClaim
<1>2. Inv /\ [Next]_vars => Inv'
  <2>1. ASSUME Inv, Next PROVE Inv'
    <3>1. IInv' BY <2>1, NextInv
    <3>2. Extractors = {} \/ CitesApplied' BY <1>0, <2>1, <3>1, CitesStep
    <3>3. NothingToWipe' BY <2>1, <3>1, WipeStep DEF ExtractionAlone
    <3>4. NoticeInv' BY <2>1, NoticeStep
    <3>. QED BY <3>1, <3>2, <3>3, <3>4
  <2>2. ASSUME Inv, UNCHANGED vars PROVE Inv'
    <3>1. IInv' BY <2>2, NextInv
    <3>2. NoticeInv'
      BY <2>2 DEF vars, NoticeInv, AtWork, DraftsGrow, Activates, Resolving, PairsNoticed,
         HoldsGot, Covered, Resolves, Uncounted, Active, IsActive
    <3>. QED BY <2>2, <3>1, <3>2 DEF vars, NothingToWipe, CitesApplied
  <2>. QED BY <2>1, <2>2
<1>3. Inv => ConflictNoticed
  <2>. SUFFICES ASSUME Inv, Cardinality(Active) > 1, ~queued
                PROVE  \E d \in applied, i \in Active :
                         extract[d] # "none" /\ d \in claims[i].docs
    BY DEF ConflictNoticed
  <2>1. Active \subseteq Ids BY DEF Active
  <2>2. PICK i, j \in Active : i # j BY <2>1, TwoRows
  <2>3. Uncounted(i) \/ Uncounted(j) BY <2>2 DEF NoticeInv, PairsNoticed
  <2>. QED BY <2>2, <2>3 DEF Uncounted
<1>. HIDE DEF Inv
<1>. QED BY <1>1, <1>2, <1>3, PTL DEF Spec
=============================================================================
