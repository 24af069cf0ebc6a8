--------------------------- MODULE Documents_proofs ---------------------------
(***************************************************************************)
(* Proofs about Documents, for any envelopes, texts, ACLs and requests and *)
(* every value of the bounds.                                              *)
(***************************************************************************)
EXTENDS Documents, TLAPS

-----------------------------------------------------------------------------
(* The inductive invariant                                                 *)

\* A request that still has rows to write or has just written the last one.
Busy(p) == stage[p] \in {"open", "waiting", "missed"}

Left(s) == {s[n] : n \in 1 .. Len(s)}

\* What may be left of a plan.
Rests(e) == {Plan(e), Tail(Plan(e)), Tail(Tail(Plan(e))), <<>>}

\* A row is locked from its write to the end of the transaction.
PlanOf(p) ==
  /\ stage[p] # "idle" <=> env[p] # None
  /\ Busy(p) => /\ todo[p] \in Rests(env[p])
                /\ \A r \in Rows : lock[r] = p <=> r \notin Left(todo[p])
  /\ stage[p] = "archived" => \A r \in Rows : lock[r] = p
  /\ stage[p] \in {"idle", "cleanup"} => \A r \in Rows : lock[r] # p
PlanInv == \A p \in Ingesters : PlanOf(p)

DraftInv ==
  /\ lock["document"] = None => docDraft = doc
  /\ lock["chunks"] = None => chunkDraft = chunk

\* A document is none at all, or has a text that came with an envelope of S.
Cites(d, S) == Exists(d) => d.text # None /\ d.blob \in S

\* A document that has been there never disappears.
ExistOf(p) ==
  /\ Cites(loaded[p], Envelopes)
  /\ Exists(loaded[p]) => Exists(doc)
  /\ Busy(p) /\ env[p].kind = "permission" => Exists(loaded[p])
  /\ Busy(p) /\ env[p].kind = "delete" /\ "connector" \notin Left(todo[p]) =>
       Exists(loaded[p])
ExistInv ==
  /\ Exists(doc) => Exists(docDraft)
  /\ Cites(doc, Envelopes) /\ Cites(docDraft, Envelopes)
  /\ \A p \in Ingesters : ExistOf(p)

IInv == TypeOK /\ PlanInv /\ DraftInv /\ ExistInv

-----------------------------------------------------------------------------
(* Plans and rows                                                          *)

LEMMA Constants ==
  ASSUME NEW e \in Envelopes
  PROVE  /\ e.kind \in {"upsert", "permission", "delete"} /\ e.time \in Nat /\ e.time > 0
         /\ e.time \in Times
         /\ e.text \in Texts \cup {None} /\ e.acl \in Acls \cup {None}
         /\ e.kind = "upsert" <=> e.text # None
         /\ e.kind # "delete" <=> e.acl # None
<1>1. e \in [kind : {"upsert", "permission", "delete"}, time : Nat \ {0},
             text : Texts \cup {None}, acl : Acls \cup {None}]
  BY DocumentsAssumption
<1> QED  BY <1>1, DocumentsAssumption DEF Times

LEMMA TimesNat == Times \subseteq Nat
BY Constants DEF Times

\* No plan is left unfinished or names a row twice.
LEMMA PlanRests ==
  ASSUME NEW e \in Envelopes, NEW s \in Rests(e)
  PROVE  /\ s \in Seq(Rows) /\ Len(s) <= 3
         /\ s = <<>> <=> Left(s) = {}
         /\ s # <<>> => /\ Head(s) \in Left(s) /\ Tail(s) \in Rests(e)
                        /\ Tail(s) \in Seq(Rows) /\ Len(Tail(s)) <= 3
                        /\ Left(Tail(s)) = Left(s) \ {Head(s)}
         /\ e.kind = "delete" /\ s # <<>> /\ Head(s) # "connector" =>
              "connector" \notin Left(s)
<1> DEFINE Good(t) ==
      /\ t \in Seq(Rows) /\ Len(t) <= 3
      /\ t = <<>> <=> Left(t) = {}
      /\ t # <<>> => /\ Head(t) \in Left(t) /\ Tail(t) \in Rests(e)
                     /\ Tail(t) \in Seq(Rows) /\ Len(Tail(t)) <= 3
                     /\ Left(Tail(t)) = Left(t) \ {Head(t)}
      /\ e.kind = "delete" /\ t # <<>> /\ Head(t) # "connector" =>
           "connector" \notin Left(t)
<1>1. ASSUME NEW a \in Rows, NEW b \in Rows, NEW c \in Rows, a # b, b # c, a # c,
             Plan(e) = <<a, b, c>>, e.kind = "delete" => a = "connector"
      PROVE  Good(s)
  <2>1. /\ Tail(<<a, b, c>>) = <<b, c>> /\ Tail(<<b, c>>) = <<c>> /\ Tail(<<c>>) = <<>>
        /\ Head(<<a, b, c>>) = a /\ Head(<<b, c>>) = b /\ Head(<<c>>) = c
        /\ <<a, b, c>> # <<>> /\ <<b, c>> # <<>> /\ <<c>> # <<>>
    OBVIOUS
  <2>2. /\ <<a, b, c>> \in Seq(Rows) /\ <<b, c>> \in Seq(Rows) /\ <<c>> \in Seq(Rows)
        /\ <<>> \in Seq(Rows)
        /\ Len(<<a, b, c>>) = 3 /\ Len(<<b, c>>) = 2 /\ Len(<<c>>) = 1 /\ Len(<<>>) = 0
    OBVIOUS
  <2>3. /\ Left(<<a, b, c>>) = {a, b, c} /\ Left(<<b, c>>) = {b, c} /\ Left(<<c>>) = {c}
        /\ Left(<<>>) = {}
    BY <2>2 DEF Left
  <2>4. Rests(e) = {<<a, b, c>>, <<b, c>>, <<c>>, <<>>}
    BY <1>1, <2>1 DEF Rests
  <2>5. Good(<<a, b, c>>)  BY <1>1, <2>1, <2>2, <2>3, <2>4
  <2>6. Good(<<b, c>>)     BY <1>1, <2>1, <2>2, <2>3, <2>4
  <2>7. Good(<<c>>)        BY <1>1, <2>1, <2>2, <2>3, <2>4
  <2>8. Good(<<>>)         BY <2>2, <2>3
  <2> HIDE DEF Good
  <2> QED  BY <2>4, <2>5, <2>6, <2>7, <2>8
<1>2. e.kind \in {"upsert", "permission", "delete"}
  BY Constants
<1>3. \E a, b, c \in Rows :
        /\ a # b /\ b # c /\ a # c /\ Plan(e) = <<a, b, c>>
        /\ e.kind = "delete" => a = "connector"
  <2>1. CASE e.kind = "upsert"
    <3>1. Plan(e) = <<"document", "connector", "chunks">>  BY <2>1 DEF Plan
    <3> QED  BY <2>1, <3>1 DEF Rows
  <2>2. CASE e.kind = "permission"
    <3>1. Plan(e) = <<"chunks", "document", "connector">>  BY <2>2 DEF Plan
    <3> QED  BY <2>2, <3>1 DEF Rows
  <2>3. CASE e.kind = "delete"
    <3>1. Plan(e) = <<"connector", "chunks", "document">>  BY <2>3 DEF Plan
    <3> QED  BY <2>3, <3>1 DEF Rows
  <2> QED  BY <1>2, <2>1, <2>2, <2>3
<1>4. PICK a \in Rows, b \in Rows, c \in Rows :
        /\ a # b /\ b # c /\ a # c /\ Plan(e) = <<a, b, c>>
        /\ e.kind = "delete" => a = "connector"
  BY <1>3
<1>5. Good(s)
  <2> HIDE DEF Good
  <2> QED  BY <1>1, <1>4
<1> QED  BY <1>5

LEMMA PlanStarts ==
  ASSUME NEW e \in Envelopes
  PROVE  Plan(e) \in Rests(e) /\ Left(Plan(e)) = Rows
<1>1. \A a, b, c : Left(<<a, b, c>>) = {a, b, c}
  BY DEF Left
<1> QED  BY <1>1, Constants DEF Rests, Plan, Rows

LEMMA AppliedType ==
  ASSUME NEW d \in Document, NEW e \in Envelopes
  PROVE  /\ Applied(d, e) \in Document
         /\ e.kind = "upsert" => /\ Applied(d, e) = Upserted(d, e)
                                 /\ Applied(d, e).text = e.text /\ Applied(d, e).text # None
                                 /\ Applied(d, e).blob = e
                                 /\ Upserted(d, e).acl \in Acls \cup {None}
         /\ e.kind # "upsert" => Applied(d, e).text = d.text /\ Applied(d, e).blob = d.blob
<1>1. CASE e.kind = "upsert"
  <2>1. Upserted(d, e) \in Document  BY Constants DEF Upserted, Document
  <2>2. Applied(d, e) = Upserted(d, e)  BY <1>1 DEF Applied
  <2>3. /\ Upserted(d, e).text = e.text /\ Upserted(d, e).blob = e
        /\ Upserted(d, e).acl \in {e.acl, d.acl}
    BY DEF Upserted
  <2>4. e.text # None /\ {e.acl, d.acl} \subseteq Acls \cup {None}
    BY <1>1, Constants DEF Document
  <2> QED  BY <1>1, <2>1, <2>2, <2>3, <2>4
<1>2. CASE e.kind = "permission"  BY <1>2, Constants DEF Applied, Document
<1>3. CASE e.kind = "delete"      BY <1>3, Constants DEF Applied, Document
<1> QED  BY <1>1, <1>2, <1>3, Constants

LEMMA OverwriteType ==
  ASSUME NEW row \in Document, NEW read \in Document, NEW new \in Document
  PROVE  /\ Overwrite(row, read, new) \in Document
         /\ \A S : row.blob \in S /\ new.blob \in S => Overwrite(row, read, new).blob \in S
         /\ Overwrite(row, read, new).text \in {row.text, new.text}
         /\ row = read => Overwrite(row, read, new) = new
         /\ new.text = read.text => Overwrite(row, read, new).text = row.text
         /\ new.blob = read.blob => Overwrite(row, read, new).blob = row.blob
BY DEF Overwrite, Document

LEMMA RechunkedType ==
  ASSUME NEW c \in Chunk, NEW e \in Envelopes, NEW d \in Document, NEW found \in BOOLEAN
  PROVE  Rechunked(c, e, d, found) \in Chunk
<1>1. e.kind = "upsert" => Upserted(d, e).acl \in Acls \cup {None}
  BY AppliedType
<1> QED  BY <1>1, Constants DEF Rechunked, Replaced, Chunk

LEMMA NoDocumentType == NoDocument \in Document /\ NoChunk \in Chunk /\ ~Exists(NoDocument)
BY DEF NoDocument, NoChunk, Document, Chunk, Times, Exists

LEMMA TextExists == \A d : d.text # None => Exists(d)
BY DEF Exists, NoDocument

-----------------------------------------------------------------------------
(* Steps of one request seen from the others                               *)

\* Another request keeps its place and its locks; a commit may tell one that
\* waits for rows that they are gone.
Alike(p) ==
  \A q \in Ingesters \ {p} :
    /\ stage'[q] = stage[q] \/ (stage[q] = "waiting" /\ stage'[q] = "missed")
    /\ env'[q] = env[q] /\ todo'[q] = todo[q] /\ loaded'[q] = loaded[q]
    /\ \A r \in Rows : lock'[r] = q <=> lock[r] = q

LEMMA OthersStay ==
  ASSUME TypeOK, PlanInv, ExistInv, NEW p \in Ingesters, Alike(p),
         PlanOf(p)', ExistOf(p)', Exists(doc) => Exists(doc')
  PROVE  PlanInv' /\ \A q \in Ingesters : ExistOf(q)'
<1>1. ASSUME NEW q \in Ingesters, q # p
      PROVE  PlanOf(q)' /\ ExistOf(q)'
  <2>1. /\ stage'[q] = stage[q] \/ (stage[q] = "waiting" /\ stage'[q] = "missed")
        /\ env'[q] = env[q] /\ todo'[q] = todo[q] /\ loaded'[q] = loaded[q]
        /\ \A r \in Rows : lock'[r] = q <=> lock[r] = q
    BY <1>1 DEF Alike
  <2>2. Busy(q)' <=> Busy(q)
    BY <2>1 DEF Busy
  <2>3. PlanOf(q) /\ ExistOf(q)
    BY DEF PlanInv, ExistInv
  <2>4. PlanOf(q)'
    BY <2>1, <2>2, <2>3 DEF PlanOf
  <2>5. ExistOf(q)'
    BY <2>1, <2>2, <2>3 DEF ExistOf, Cites
  <2> QED  BY <2>4, <2>5
<1> QED  BY <1>1 DEF PlanInv

\* Rolling a transaction back
LEMMA UndoFacts ==
  ASSUME TypeOK, DraftInv, NEW p \in Ingesters, Undo(p), UNCHANGED <<doc, chunk>>
  PROVE  /\ lock' \in [Rows -> Ingesters \cup {None}]
         /\ \A q \in Ingesters \ {p} : \A r \in Rows : lock'[r] = q <=> lock[r] = q
         /\ \A r \in Rows : lock'[r] # p
         /\ DraftInv'
         /\ docDraft' \in {doc, docDraft} /\ chunkDraft' \in {chunk, chunkDraft}
<1>1. None # p  BY DocumentsAssumption
<1>2. \A r \in Rows : lock'[r] = IF lock[r] = p THEN None ELSE lock[r]
  BY DEF Undo
<1>3. \A q \in Ingesters : None # q
  BY DocumentsAssumption
<1>4. /\ lock' \in [Rows -> Ingesters \cup {None}]
      /\ \A q \in Ingesters \ {p} : \A r \in Rows : lock'[r] = q <=> lock[r] = q
      /\ \A r \in Rows : lock'[r] # p
  BY <1>2, <1>3 DEF Undo, TypeOK
<1>5. docDraft' \in {doc, docDraft} /\ chunkDraft' \in {chunk, chunkDraft}
  BY DEF Undo
<1>6. {"document", "chunks"} \subseteq Rows
  BY DEF Rows
<1>7. DraftInv'
  BY <1>2, <1>3, <1>6 DEF Undo, DraftInv
<1> QED  BY <1>4, <1>5, <1>7

Quit(p) ==
  /\ Undo(p) /\ UNCHANGED <<doc, chunk, versions>>
  /\ \/ Leave(p)
     \/ stage[p] # "idle" /\ Fail(p)
     \/ /\ stage[p] = "archived" /\ stage' = [stage EXCEPT ![p] = "cleanup"]
        /\ UNCHANGED <<env, todo, loaded>>
  /\ UNCHANGED <<blobs, sent>> /\ (faults' = faults \/ Fault)

LEMMA ExceptType ==
  ASSUME NEW S, NEW T, NEW f \in [S -> T], NEW g, NEW x \in S, NEW y \in T,
         g = [f EXCEPT ![x] = y]
  PROVE  g \in [S -> T]
OBVIOUS

LEMMA TodoCleared ==
  ASSUME TypeOK, NEW p, todo' = [todo EXCEPT ![p] = <<>>]
  PROVE  todo' \in [Ingesters -> Seq(Rows)] /\ \A q \in Ingesters : Len(todo'[q]) <= 3
<1>1. <<>> \in Seq(Rows) /\ Len(<<>>) = 0  OBVIOUS
<1>2. todo' = [todo EXCEPT ![p] = <<>>]  OBVIOUS
<1>3. todo \in [Ingesters -> Seq(Rows)] /\ \A q \in Ingesters : Len(todo[q]) <= 3
  BY DEF TypeOK
<1>4. todo' \in [Ingesters -> Seq(Rows)]  BY <1>1, <1>2, <1>3
<1>5. ASSUME NEW q \in Ingesters  PROVE Len(todo'[q]) <= 3
  <2>1. CASE q = p
    <3>1. todo'[q] = <<>>  BY <1>2, <1>3, <2>1
    <3> QED  BY <1>1, <3>1
  <2>2. CASE q # p
    <3>1. todo'[q] = todo[q]  BY <1>2, <1>3, <2>2
    <3> QED  BY <1>3, <3>1
  <2> QED  BY <2>1, <2>2
<1> QED  BY <1>4, <1>5

LEMMA FailTodo ==
  ASSUME TypeOK, NEW p, Fail(p)
  PROVE  todo' \in [Ingesters -> Seq(Rows)] /\ \A q \in Ingesters : Len(todo'[q]) <= 3
BY TodoCleared DEF Fail

LEMMA LeaveTodo ==
  ASSUME TypeOK, NEW p, Leave(p)
  PROVE  todo' \in [Ingesters -> Seq(Rows)] /\ \A q \in Ingesters : Len(todo'[q]) <= 3
BY TodoCleared DEF Leave

LEMMA FaultType == TypeOK /\ (faults' = faults \/ Fault) => faults' \in 0 .. MaxFaults
BY DocumentsAssumption DEF TypeOK, Fault

LEMMA QuitKeeps ==
  ASSUME IInv, NEW p \in Ingesters, Quit(p)
  PROVE  IInv'
<1> USE DEF IInv
<1>1. /\ lock' \in [Rows -> Ingesters \cup {None}]
      /\ \A q \in Ingesters \ {p} : \A r \in Rows : lock'[r] = q <=> lock[r] = q
      /\ \A r \in Rows : lock'[r] # p
      /\ DraftInv'
      /\ docDraft' \in {doc, docDraft} /\ chunkDraft' \in {chunk, chunkDraft}
  BY UndoFacts DEF Quit
<1>2. /\ stage'[p] \in {"idle", "failing", "cleanup"}
      /\ stage'[p] # "idle" <=> env'[p] # None
      /\ loaded'[p] \in {loaded[p], NoDocument}
      /\ stage' = [stage EXCEPT ![p] = stage'[p]]
      /\ env' = [env EXCEPT ![p] = env'[p]] /\ env'[p] \in {env[p], None}
      /\ todo' = [todo EXCEPT ![p] = todo'[p]] /\ todo'[p] \in {todo[p], <<>>}
      /\ loaded' = [loaded EXCEPT ![p] = loaded'[p]]
  <2>0. stage[p] # "idle" <=> env[p] # None
    BY DEF PlanInv, PlanOf
  <2>1. CASE Leave(p)  BY <2>1 DEF Leave, TypeOK
  <2>2. CASE stage[p] # "idle" /\ Fail(p)  BY <2>0, <2>2 DEF Fail, TypeOK
  <2>3. CASE stage[p] = "archived" /\ stage' = [stage EXCEPT ![p] = "cleanup"]
             /\ UNCHANGED <<env, todo, loaded>>
    BY <2>0, <2>3 DEF TypeOK
  <2> QED  BY <2>1, <2>2, <2>3 DEF Quit
<1>3. TypeOK'
  <2>1. /\ stage' \in [Ingesters -> {"idle", "open", "waiting", "missed", "archived",
                                     "failing", "cleanup"}]
        /\ env' \in [Ingesters -> Envelopes \cup {None}]
        /\ loaded' \in [Ingesters -> Document]
    <3>1. /\ stage'[p] \in {"idle", "failing", "cleanup"}
          /\ env'[p] \in Envelopes \cup {None} /\ loaded'[p] \in Document
      BY <1>2, NoDocumentType DEF TypeOK
    <3>2. stage' \in [Ingesters -> {"idle", "open", "waiting", "missed", "archived",
                                   "failing", "cleanup"}]
      BY <1>2, <3>1 DEF TypeOK
    <3>3. env' \in [Ingesters -> Envelopes \cup {None}]
      BY <1>2, <3>1, ExceptType DEF TypeOK
    <3>4. loaded' \in [Ingesters -> Document]
      BY <1>2, <3>1, ExceptType DEF TypeOK
    <3> QED  BY <3>2, <3>3, <3>4
  <2>2. /\ todo' \in [Ingesters -> Seq(Rows)] /\ \A q \in Ingesters : Len(todo'[q]) <= 3
    <3>1. todo'[p] \in Seq(Rows) /\ Len(todo'[p]) <= 3
      <4>1. <<>> \in Seq(Rows) /\ Len(<<>>) = 0  OBVIOUS
      <4>2. todo[p] \in Seq(Rows) /\ Len(todo[p]) <= 3  BY DEF TypeOK
      <4>3. todo'[p] = todo[p] \/ todo'[p] = <<>>  BY <1>2
      <4>4. CASE todo'[p] = todo[p]  BY <4>2, <4>4
      <4>5. CASE todo'[p] = <<>>  BY <4>1, <4>5
      <4> QED  BY <4>3, <4>4, <4>5
    <3>2. \A q \in Ingesters : todo'[q] = IF q = p THEN todo'[p] ELSE todo[q]
      BY <1>2 DEF TypeOK
    <3>3. todo' \in [Ingesters -> Seq(Rows)]
      BY <1>2, <3>1, ExceptType DEF TypeOK
    <3> QED  BY <3>1, <3>2, <3>3 DEF TypeOK
  <2>3. faults' \in 0 .. MaxFaults
    BY FaultType DEF Quit
  <2>4. /\ {doc, docDraft}' \subseteq Document /\ {chunk, chunkDraft}' \subseteq Chunk
        /\ versions' \subseteq Envelopes /\ blobs' \subseteq Envelopes
        /\ sent' \in [Envelopes -> 0 .. MaxDeliveries]
    BY <1>1 DEF TypeOK, Quit
  <2> QED  BY <1>1, <2>1, <2>2, <2>3, <2>4 DEF TypeOK
<1>4. Alike(p)
  BY <1>1, <1>2 DEF Alike, TypeOK
<1>5. PlanOf(p)'
  BY <1>1, <1>2 DEF PlanOf, Busy
<1>6. ExistOf(p)'
  <2>1. Exists(loaded'[p]) => loaded'[p] = loaded[p]
    BY <1>2, NoDocumentType
  <2>2. ~Busy(p)'  BY <1>2 DEF Busy
  <2> QED  BY <2>1, <2>2 DEF ExistOf, ExistInv, Quit, Cites
<1>7. PlanInv' /\ \A q \in Ingesters : ExistOf(q)'
  BY <1>4, <1>5, <1>6, OthersStay DEF Quit
<1>8. /\ Exists(doc') => Exists(docDraft')
      /\ Cites(doc', Envelopes) /\ Cites(docDraft', Envelopes)
  BY <1>1 DEF ExistInv, Quit
<1> QED  BY <1>1, <1>3, <1>7, <1>8 DEF ExistInv

-----------------------------------------------------------------------------
(* Writing a row                                                           *)

LEMMA BusyFacts ==
  ASSUME IInv, NEW p \in Ingesters, Busy(p)
  PROVE  /\ env[p] \in Envelopes /\ todo[p] \in Rests(env[p])
         /\ \A r \in Rows : lock[r] = p <=> r \notin Left(todo[p])
<1>1. stage[p] # "idle" /\ PlanOf(p)  BY DEF IInv, PlanInv, Busy
<1> QED  BY <1>1 DEF IInv, TypeOK, PlanOf

LEMMA WroteFacts ==
  ASSUME IInv, NEW p \in Ingesters, NEW r \in Rows, MayWrite(p, r), Wrote(p, r),
         UNCHANGED env
  PROVE  /\ Busy(p) /\ Busy(p)' /\ stage'[p] = "open" /\ env[p] \in Envelopes
         /\ lock \in [Rows -> Ingesters \cup {None}] /\ lock[r] = None
         /\ lock' = [lock EXCEPT ![r] = p]
         /\ lock' \in [Rows -> Ingesters \cup {None}]
         /\ stage' \in [Ingesters -> {"idle", "open", "waiting", "missed", "archived",
                                      "failing", "cleanup"}]
         /\ todo' \in [Ingesters -> Seq(Rows)] /\ \A q \in Ingesters : Len(todo'[q]) <= 3
         /\ \A q \in Ingesters \ {p} : /\ stage'[q] = stage[q] /\ todo'[q] = todo[q]
                                       /\ \A x \in Rows : lock'[x] = q <=> lock[x] = q
         /\ PlanOf(p)'
         /\ r \in Left(todo[p]) /\ Left(todo'[p]) = Left(todo[p]) \ {r}
         /\ env[p].kind = "delete" /\ r # "connector" => "connector" \notin Left(todo[p])
<1>1. /\ stage[p] \in {"open", "waiting", "missed"}
      /\ todo[p] # <<>> /\ Head(todo[p]) = r /\ lock[r] \in {None, p}
  BY DEF MayWrite
<1>2. /\ lock' = [lock EXCEPT ![r] = p]
      /\ todo' = [todo EXCEPT ![p] = Tail(todo[p])]
      /\ stage' = [stage EXCEPT ![p] = "open"]
  BY DEF Wrote
<1>3. /\ lock \in [Rows -> Ingesters \cup {None}] /\ todo \in [Ingesters -> Seq(Rows)]
      /\ stage \in [Ingesters -> {"idle", "open", "waiting", "missed", "archived",
                                  "failing", "cleanup"}]
      /\ \A q \in Ingesters : Len(todo[q]) <= 3
  BY DEF IInv, TypeOK
<1>4. Busy(p) /\ Busy(p)' /\ stage'[p] = "open"
  BY <1>1, <1>2, <1>3 DEF Busy
<1>5. /\ env[p] \in Envelopes /\ todo[p] \in Rests(env[p])
      /\ \A x \in Rows : lock[x] = p <=> x \notin Left(todo[p])
  BY <1>4, BusyFacts
<1>6. /\ r \in Left(todo[p]) /\ Tail(todo[p]) \in Rests(env[p])
      /\ Tail(todo[p]) \in Seq(Rows) /\ Len(Tail(todo[p])) <= 3
      /\ Left(Tail(todo[p])) = Left(todo[p]) \ {r}
      /\ env[p].kind = "delete" /\ r # "connector" => "connector" \notin Left(todo[p])
  BY <1>1, <1>5, PlanRests
<1>7. lock[r] = None
  BY <1>1, <1>5, <1>6
<1>8. todo'[p] = Tail(todo[p]) /\ Left(todo'[p]) = Left(todo[p]) \ {r}
  BY <1>2, <1>3, <1>6
<1>9. todo' \in [Ingesters -> Seq(Rows)] /\ \A q \in Ingesters : Len(todo'[q]) <= 3
  BY <1>2, <1>3, <1>6
<1>10. /\ lock' \in [Rows -> Ingesters \cup {None}]
       /\ stage' \in [Ingesters -> {"idle", "open", "waiting", "missed", "archived",
                                    "failing", "cleanup"}]
  BY <1>2, <1>3
<1>11. \A q \in Ingesters \ {p} : /\ stage'[q] = stage[q] /\ todo'[q] = todo[q]
                                  /\ \A x \in Rows : lock'[x] = q <=> lock[x] = q
  <2> SUFFICES ASSUME NEW q \in Ingesters \ {p}
               PROVE  /\ stage'[q] = stage[q] /\ todo'[q] = todo[q]
                      /\ \A x \in Rows : lock'[x] = q <=> lock[x] = q
    OBVIOUS
  <2>1. q # None  BY DocumentsAssumption
  <2> QED  BY <1>2, <1>3, <1>7, <2>1
<1>12. PlanOf(p)'
  <2>1. stage'[p] # "idle" <=> env'[p] # None
    BY <1>4, <1>5, DocumentsAssumption DEF IInv, PlanInv, PlanOf, Busy
  <2>2. \A x \in Rows : lock'[x] = p <=> x \notin Left(todo'[p])
    BY <1>2, <1>3, <1>5, <1>8
  <2>3. todo'[p] \in Rests(env'[p])
    BY <1>6, <1>8
  <2> QED  BY <1>4, <2>1, <2>2, <2>3 DEF PlanOf
<1> QED  BY <1>2, <1>3, <1>4, <1>5, <1>6, <1>7, <1>8, <1>9, <1>10, <1>11, <1>12

LEMMA WriteConnectorKeeps ==
  ASSUME IInv, NEW p \in Ingesters, WriteConnector(p)
  PROVE  IInv'
<1>0. /\ MayWrite(p, "connector") /\ "connector" \in Rows
      /\ UNCHANGED <<doc, chunk, versions, docDraft, chunkDraft, blobs, sent, faults>>
  BY DEF WriteConnector, committed, drafts, Rows
<1>1. CASE /\ Wrote(p, "connector") /\ UNCHANGED env
           /\ \/ env[p].kind # "delete" /\ UNCHANGED loaded
              \/ Exists(doc) /\ loaded' = [loaded EXCEPT ![p] = doc]
  <2>1. /\ Busy(p) /\ Busy(p)' /\ stage'[p] = "open" /\ env[p] \in Envelopes
        /\ lock \in [Rows -> Ingesters \cup {None}] /\ lock["connector"] = None
        /\ lock' = [lock EXCEPT !["connector"] = p]
        /\ lock' \in [Rows -> Ingesters \cup {None}]
        /\ stage' \in [Ingesters -> {"idle", "open", "waiting", "missed", "archived",
                                     "failing", "cleanup"}]
        /\ todo' \in [Ingesters -> Seq(Rows)] /\ \A q \in Ingesters : Len(todo'[q]) <= 3
        /\ \A q \in Ingesters \ {p} : /\ stage'[q] = stage[q] /\ todo'[q] = todo[q]
                                      /\ \A x \in Rows : lock'[x] = q <=> lock[x] = q
        /\ PlanOf(p)'
    BY <1>0, <1>1, WroteFacts
  <2>2. /\ loaded' \in [Ingesters -> Document]
        /\ \A q \in Ingesters \ {p} : loaded'[q] = loaded[q]
        /\ \/ env[p].kind # "delete" /\ loaded'[p] = loaded[p]
           \/ Exists(doc) /\ loaded'[p] = doc
    <3>1. doc \in Document /\ loaded \in [Ingesters -> Document]  BY DEF IInv, TypeOK
    <3>2. CASE env[p].kind # "delete" /\ UNCHANGED loaded  BY <3>1, <3>2
    <3>3. CASE Exists(doc) /\ loaded' = [loaded EXCEPT ![p] = doc]  BY <3>1, <3>3
    <3> QED  BY <1>1, <3>2, <3>3
  <2>3. TypeOK'
    <3>1. TypeOK  BY DEF IInv
    <3>2. env' = env  BY <1>1
    <3> QED  BY <1>0, <2>1, <2>2, <3>1, <3>2 DEF TypeOK
  <2>4. Alike(p)
    BY <1>1, <2>1, <2>2 DEF Alike
  <2>5. ExistOf(p)'
    BY <1>0, <1>1, <2>1, <2>2 DEF ExistOf, IInv, ExistInv, Cites
  <2>6. PlanInv' /\ \A q \in Ingesters : ExistOf(q)'
    BY <1>0, <2>1, <2>4, <2>5, OthersStay DEF IInv
  <2>7. DraftInv'
    BY <1>0, <2>1 DEF IInv, DraftInv, Rows
  <2> QED  BY <1>0, <2>3, <2>6, <2>7 DEF IInv, ExistInv, Cites
<1>2. CASE lock' = [lock EXCEPT !["connector"] = p] /\ Fail(p)
  <2>1. Busy(p) /\ lock["connector"] \in {None, p}
    BY <1>0 DEF MayWrite, Busy
  <2>2. env[p] # None
    BY <2>1 DEF IInv, PlanInv, PlanOf, Busy
  <2>3. /\ stage'[p] = "failing" /\ env' = env /\ loaded' = loaded
        /\ \A q \in Ingesters \ {p} : /\ stage'[q] = stage[q] /\ todo'[q] = todo[q]
                                      /\ \A x \in Rows : lock'[x] = q <=> lock[x] = q
    BY <1>2, <2>1, DocumentsAssumption DEF Fail, IInv, TypeOK
  <2>4. TypeOK'
    <3>1. TypeOK  BY DEF IInv
    <3>2. /\ lock' \in [Rows -> Ingesters \cup {None}]
          /\ stage' \in [Ingesters -> {"idle", "open", "waiting", "missed", "archived",
                                       "failing", "cleanup"}]
      BY <1>2, <3>1 DEF TypeOK, Fail
    <3>3. todo' \in [Ingesters -> Seq(Rows)] /\ \A q \in Ingesters : Len(todo'[q]) <= 3
      BY <1>2, <3>1, FailTodo
    <3> QED  BY <1>0, <2>3, <3>1, <3>2, <3>3 DEF TypeOK
  <2>5. Alike(p)  BY <2>3 DEF Alike
  <2>6. PlanOf(p)'  BY <2>2, <2>3 DEF PlanOf, Busy
  <2>7. ExistOf(p)'
    BY <1>0, <2>3 DEF ExistOf, IInv, ExistInv, Cites, Busy
  <2>8. PlanInv' /\ \A q \in Ingesters : ExistOf(q)'
    BY <1>0, <2>5, <2>6, <2>7, OthersStay DEF IInv
  <2>9. DraftInv'
    BY <1>0, <1>2 DEF IInv, DraftInv, Rows, TypeOK
  <2> QED  BY <1>0, <2>4, <2>8, <2>9 DEF IInv, ExistInv, Cites
<1> QED  BY <1>1, <1>2 DEF WriteConnector

\* What a write leaves of the document when it is new or was there already.
LEMMA WrittenDocument ==
  ASSUME IInv, NEW p \in Ingesters, env[p] \in Envelopes,
         env[p].kind # "upsert" => Exists(loaded[p]),
         Exists(loaded[p]) \/ ~Exists(docDraft),
         docDraft' = Overwrite(docDraft, loaded[p], Applied(loaded[p], env[p]))
  PROVE  /\ docDraft' \in Document /\ docDraft'.text # None
         /\ \A S : Cites(docDraft, S) /\ env[p] \in S => docDraft'.blob \in S
<1> DEFINE read == loaded[p]  new == Applied(loaded[p], env[p])
<1>1. docDraft \in Document /\ read \in Document
  BY DEF IInv, TypeOK
<1>2. /\ new \in Document
      /\ env[p].kind = "upsert" => new.text # None /\ new.blob = env[p]
      /\ env[p].kind # "upsert" => new.text = read.text /\ new.blob = read.blob
  BY <1>1, AppliedType
<1>3. Exists(read) => Exists(docDraft) /\ docDraft.text # None
  BY DEF IInv, ExistInv, ExistOf, Cites
<1>4. docDraft' = Overwrite(docDraft, read, new)
  OBVIOUS
<1> HIDE DEF read, new
<1>5. /\ docDraft' \in Document
      /\ docDraft'.text \in {docDraft.text, new.text}
      /\ docDraft = read => docDraft' = new
      /\ new.text = read.text => docDraft'.text = docDraft.text
      /\ new.blob = read.blob => docDraft'.blob = docDraft.blob
      /\ \A S : docDraft.blob \in S /\ new.blob \in S => docDraft'.blob \in S
  BY <1>1, <1>2, <1>4, OverwriteType
<1>6. CASE Exists(read)
  <2>1. docDraft'.text # None
    BY <1>2, <1>3, <1>5, <1>6
  <2>2. ASSUME NEW S, Cites(docDraft, S), env[p] \in S  PROVE docDraft'.blob \in S
    BY <1>2, <1>3, <1>5, <1>6, <2>2 DEF Cites
  <2> QED  BY <1>5, <2>1, <2>2
<1>7. CASE ~Exists(read)
  <2>1. env[p].kind = "upsert" /\ docDraft = read
    BY <1>7 DEF Exists, read
  <2> QED  BY <1>2, <1>5, <2>1
<1> QED  BY <1>6, <1>7

LEMMA WriteDocumentKeeps ==
  ASSUME IInv, NEW p \in Ingesters, WriteDocument(p)
  PROVE  IInv'
<1>0. /\ MayWrite(p, "document") /\ "document" \in Rows
      /\ UNCHANGED <<doc, chunk, versions, blobs, sent, faults>>
  BY DEF WriteDocument, committed, Rows
<1>1. CASE /\ Exists(loaded[p]) \/ ~Exists(docDraft)
           /\ docDraft' = Overwrite(docDraft, loaded[p], Applied(loaded[p], env[p]))
           /\ Wrote(p, "document")
           /\ UNCHANGED <<chunkDraft, env, loaded>>
  <2>1. /\ Busy(p) /\ Busy(p)' /\ stage'[p] = "open" /\ env[p] \in Envelopes
        /\ lock' = [lock EXCEPT !["document"] = p]
        /\ lock' \in [Rows -> Ingesters \cup {None}]
        /\ stage' \in [Ingesters -> {"idle", "open", "waiting", "missed", "archived",
                                     "failing", "cleanup"}]
        /\ todo' \in [Ingesters -> Seq(Rows)] /\ \A q \in Ingesters : Len(todo'[q]) <= 3
        /\ \A q \in Ingesters \ {p} : /\ stage'[q] = stage[q] /\ todo'[q] = todo[q]
                                      /\ \A x \in Rows : lock'[x] = q <=> lock[x] = q
        /\ PlanOf(p)'
        /\ Left(todo'[p]) = Left(todo[p]) \ {"document"}
        /\ env[p].kind = "delete" /\ "document" # "connector" => "connector" \notin Left(todo[p])
    BY <1>0, <1>1, WroteFacts
  <2>2. env[p].kind # "upsert" => Exists(loaded[p])
    BY <2>1, Constants DEF IInv, ExistInv, ExistOf
  <2>3. /\ docDraft' \in Document /\ docDraft'.text # None
        /\ \A S : Cites(docDraft, S) /\ env[p] \in S => docDraft'.blob \in S
    BY <1>1, <2>1, <2>2, WrittenDocument
  <2>4. TypeOK'
    <3>1. TypeOK  BY DEF IInv
    <3> QED  BY <1>0, <1>1, <2>1, <2>3, <3>1 DEF TypeOK
  <2>5. Alike(p)
    BY <1>1, <2>1 DEF Alike
  <2>6. ExistOf(p)'
    BY <1>0, <1>1, <2>1 DEF ExistOf, IInv, ExistInv, Cites
  <2>7. PlanInv' /\ \A q \in Ingesters : ExistOf(q)'
    BY <1>0, <2>1, <2>5, <2>6, OthersStay DEF IInv
  <2>8. DraftInv'
    <3>1. lock'["document"] # None /\ lock'["chunks"] = lock["chunks"]
      BY <2>1, DocumentsAssumption DEF IInv, TypeOK, Rows
    <3> QED  BY <1>0, <1>1, <3>1 DEF IInv, DraftInv
  <2>9. Exists(docDraft') /\ Cites(docDraft', Envelopes)
    BY <2>1, <2>3, TextExists DEF Cites, IInv, ExistInv
  <2> QED  BY <1>0, <2>4, <2>7, <2>8, <2>9 DEF IInv, ExistInv, Cites
<1>2. CASE Undo(p) /\ Fail(p)
  <2>1. Quit(p)
    BY <1>0, <1>2 DEF Quit, MayWrite
  <2> QED  BY <2>1, QuitKeeps
<1> QED  BY <1>1, <1>2 DEF WriteDocument

LEMMA WriteChunksKeeps ==
  ASSUME IInv, NEW p \in Ingesters, WriteChunks(p)
  PROVE  IInv'
<1>1. /\ MayWrite(p, "chunks") /\ "chunks" \in Rows /\ Wrote(p, "chunks")
      /\ chunkDraft' = Rechunked(chunkDraft, env[p], loaded[p], stage[p] # "missed")
      /\ UNCHANGED <<doc, chunk, versions, docDraft, blobs, env, loaded, sent, faults>>
  BY DEF WriteChunks, committed, Rows
<1>2. /\ Busy(p) /\ Busy(p)' /\ stage'[p] = "open" /\ env[p] \in Envelopes
      /\ lock' = [lock EXCEPT !["chunks"] = p]
      /\ lock' \in [Rows -> Ingesters \cup {None}]
      /\ stage' \in [Ingesters -> {"idle", "open", "waiting", "missed", "archived",
                                   "failing", "cleanup"}]
      /\ todo' \in [Ingesters -> Seq(Rows)] /\ \A q \in Ingesters : Len(todo'[q]) <= 3
      /\ \A q \in Ingesters \ {p} : /\ stage'[q] = stage[q] /\ todo'[q] = todo[q]
                                    /\ \A x \in Rows : lock'[x] = q <=> lock[x] = q
      /\ PlanOf(p)'
      /\ Left(todo'[p]) = Left(todo[p]) \ {"chunks"}
      /\ env[p].kind = "delete" /\ "chunks" # "connector" => "connector" \notin Left(todo[p])
  BY <1>1, WroteFacts
<1>3. TypeOK'
  <2>1. TypeOK  BY DEF IInv
  <2>2. chunkDraft \in Chunk /\ loaded[p] \in Document /\ (stage[p] # "missed") \in BOOLEAN
    BY <2>1 DEF TypeOK
  <2>3. chunkDraft' \in Chunk
    BY <1>1, <1>2, <2>2, RechunkedType
  <2> QED  BY <1>1, <1>2, <2>1, <2>3 DEF TypeOK
<1>4. Alike(p)
  BY <1>1, <1>2 DEF Alike
<1>5. ExistOf(p)'
  BY <1>1, <1>2 DEF ExistOf, IInv, ExistInv, Cites
<1>6. PlanInv' /\ \A q \in Ingesters : ExistOf(q)'
  BY <1>1, <1>2, <1>4, <1>5, OthersStay DEF IInv
<1>7. DraftInv'
  <2>1. lock'["chunks"] # None /\ lock'["document"] = lock["document"]
    BY <1>2, DocumentsAssumption DEF IInv, TypeOK, Rows
  <2> QED  BY <1>1, <2>1 DEF IInv, DraftInv
<1> QED  BY <1>1, <1>3, <1>6, <1>7 DEF IInv, ExistInv, Cites

-----------------------------------------------------------------------------
(* The other steps                                                         *)

LEMMA WaitKeeps ==
  ASSUME IInv, NEW p \in Ingesters, WaitForChunks(p)
  PROVE  IInv'
<1>1. /\ stage[p] = "open" /\ stage' = [stage EXCEPT ![p] = "waiting"]
      /\ UNCHANGED <<doc, chunk, versions, docDraft, chunkDraft, blobs, lock, env, todo,
                     loaded, sent, faults>>
  BY DEF WaitForChunks, committed, drafts
<1>2. TypeOK'
  BY <1>1 DEF IInv, TypeOK
<1>3. Alike(p) /\ Busy(p) /\ Busy(p)' /\ stage'[p] = "waiting"
  BY <1>1 DEF Alike, Busy, IInv, TypeOK
<1>4. PlanOf(p)'
  BY <1>1, <1>3 DEF IInv, PlanInv, PlanOf
<1>5. ExistOf(p)'
  BY <1>1, <1>3 DEF IInv, ExistInv, ExistOf
<1>6. PlanInv' /\ \A q \in Ingesters : ExistOf(q)'
  BY <1>1, <1>3, <1>4, <1>5, OthersStay DEF IInv
<1> QED  BY <1>1, <1>2, <1>6 DEF IInv, DraftInv, ExistInv, Cites

LEMMA ArchiveKeeps ==
  ASSUME IInv, NEW p \in Ingesters, Archive(p)
  PROVE  IInv'
<1>1. /\ stage[p] = "open" /\ todo[p] = <<>> /\ stage' = [stage EXCEPT ![p] = "archived"]
      /\ blobs' = blobs \cup {env[p]}
      /\ UNCHANGED <<doc, chunk, versions, docDraft, chunkDraft, lock, env, todo,
                     loaded, sent, faults>>
  BY DEF Archive, committed, drafts
<1>2. /\ env[p] \in Envelopes /\ todo[p] \in Rests(env[p])
      /\ \A r \in Rows : lock[r] = p <=> r \notin Left(todo[p])
  BY <1>1, BusyFacts DEF Busy
<1>3. \A r \in Rows : lock[r] = p
  BY <1>1, <1>2, PlanRests
<1>4. TypeOK'
  BY <1>1, <1>2 DEF IInv, TypeOK
<1>5. Alike(p) /\ ~Busy(p)' /\ stage'[p] = "archived"
  BY <1>1 DEF Alike, Busy, IInv, TypeOK
<1>6. PlanOf(p)'
  BY <1>1, <1>2, <1>3, <1>5, DocumentsAssumption DEF IInv, PlanInv, PlanOf
<1>7. ExistOf(p)'
  BY <1>1, <1>5 DEF IInv, ExistInv, ExistOf
<1>8. PlanInv' /\ \A q \in Ingesters : ExistOf(q)'
  BY <1>1, <1>5, <1>6, <1>7, OthersStay DEF IInv
<1> QED  BY <1>1, <1>4, <1>8 DEF IInv, DraftInv, ExistInv, Cites

LEMMA RefusedKeeps ==
  ASSUME IInv, NEW p \in Ingesters, ArchiveRefused(p)
  PROVE  IInv'
<1>1. /\ stage[p] = "open" /\ Fault /\ Fail(p)
      /\ UNCHANGED <<doc, chunk, versions, docDraft, chunkDraft, blobs, lock, sent>>
  BY DEF ArchiveRefused, committed, drafts
<1>2. /\ stage'[p] = "failing" /\ env' = env /\ loaded' = loaded /\ env[p] # None
      /\ \A q \in Ingesters \ {p} : stage'[q] = stage[q] /\ todo'[q] = todo[q]
  BY <1>1 DEF Fail, IInv, TypeOK, PlanInv, PlanOf
<1>3. TypeOK'
  <2>1. TypeOK  BY DEF IInv
  <2>2. todo' \in [Ingesters -> Seq(Rows)] /\ \A q \in Ingesters : Len(todo'[q]) <= 3
    BY <1>1, <2>1, FailTodo
  <2>3. stage' \in [Ingesters -> {"idle", "open", "waiting", "missed", "archived",
                                  "failing", "cleanup"}]
    BY <1>1, <2>1 DEF TypeOK, Fail
  <2>4. faults' \in 0 .. MaxFaults
    BY <1>1, <2>1, FaultType
  <2> QED  BY <1>1, <1>2, <2>1, <2>2, <2>3, <2>4 DEF TypeOK
<1>4. Alike(p)
  BY <1>1, <1>2 DEF Alike
<1>5. PlanOf(p)' /\ ExistOf(p)'
  BY <1>1, <1>2 DEF PlanOf, ExistOf, Busy, IInv, ExistInv, Cites
<1>6. PlanInv' /\ \A q \in Ingesters : ExistOf(q)'
  BY <1>1, <1>4, <1>5, OthersStay DEF IInv
<1> QED  BY <1>1, <1>3, <1>6 DEF IInv, DraftInv, ExistInv, Cites

\* All locks are those of the request that commits.
LEMMA CommitKeeps ==
  ASSUME IInv, NEW p \in Ingesters, Commit(p)
  PROVE  IInv'
<1> DEFINE gone(q) == /\ env[p].kind = "upsert" /\ ContentChanged(env[p], loaded[p])
                      /\ stage[q] = "waiting"
<1>1. /\ stage[p] = "archived" /\ doc' = docDraft /\ chunk' = chunkDraft
      /\ UNCHANGED <<docDraft, chunkDraft, blobs, todo, sent, faults>>
      /\ versions' = versions \cup {env[p]}
      /\ lock' = [r \in Rows |-> None]
      /\ env' = [env EXCEPT ![p] = None]
      /\ loaded' = [loaded EXCEPT ![p] = NoDocument]
  BY DEF Commit, drafts
<1>2. stage' = [q \in Ingesters |-> IF q = p THEN "idle"
                                    ELSE IF gone(q) THEN "missed" ELSE stage[q]]
  BY DEF Commit
<1>3. /\ env[p] \in Envelopes /\ \A r \in Rows : lock[r] = p
  BY <1>1 DEF IInv, TypeOK, PlanInv, PlanOf
<1> HIDE DEF gone
<1>4. /\ stage'[p] = "idle" /\ env'[p] = None /\ loaded'[p] = NoDocument
      /\ \A q \in Ingesters \ {p} : /\ stage'[q] = IF gone(q) THEN "missed" ELSE stage[q]
                                    /\ env'[q] = env[q] /\ loaded'[q] = loaded[q]
      /\ \A q \in Ingesters : \A r \in Rows : lock'[r] # q
  BY <1>1, <1>2, DocumentsAssumption DEF IInv, TypeOK
<1>5. TypeOK'
  <2>1. TypeOK  BY DEF IInv
  <2>2. stage' \in [Ingesters -> {"idle", "open", "waiting", "missed", "archived",
                                  "failing", "cleanup"}]
    BY <1>2, <2>1 DEF TypeOK
  <2>3. /\ env' \in [Ingesters -> Envelopes \cup {None}]
        /\ lock' \in [Rows -> Ingesters \cup {None}]
    BY <1>1, <2>1 DEF TypeOK
  <2>4. loaded' \in [Ingesters -> Document]
    BY <1>1, <2>1, NoDocumentType DEF TypeOK
  <2> QED  BY <1>1, <1>3, <2>1, <2>2, <2>3, <2>4 DEF TypeOK
<1>6. Alike(p)
  <2> SUFFICES ASSUME NEW q \in Ingesters \ {p}
               PROVE  /\ stage'[q] = stage[q] \/ (stage[q] = "waiting" /\ stage'[q] = "missed")
                      /\ \A r \in Rows : lock'[r] = q <=> lock[r] = q
    BY <1>1, <1>4 DEF Alike
  <2> QED  BY <1>3, <1>4 DEF gone
<1>7. PlanOf(p)' /\ ExistOf(p)'
  BY <1>4, NoDocumentType DEF PlanOf, ExistOf, Busy, Cites
<1>8. Exists(doc) => Exists(doc')
  BY <1>1 DEF IInv, ExistInv
<1>9. PlanInv' /\ \A q \in Ingesters : ExistOf(q)'
  BY <1>6, <1>7, <1>8, OthersStay DEF IInv
<1> QED  BY <1>1, <1>5, <1>9 DEF IInv, DraftInv, ExistInv, Cites

LEMMA DeleteBlobKeeps ==
  ASSUME IInv, NEW p \in Ingesters, DeleteBlob(p)
  PROVE  IInv'
<1>1. /\ stage[p] = "cleanup" /\ blobs' = blobs \ {env[p]} /\ Leave(p)
      /\ UNCHANGED <<doc, chunk, versions, docDraft, chunkDraft, lock, sent, faults>>
  BY DEF DeleteBlob, committed, drafts
<1>2. \A r \in Rows : lock[r] # p
  BY <1>1 DEF IInv, PlanInv, PlanOf
<1>3. /\ stage'[p] = "idle" /\ env'[p] = None /\ loaded'[p] = NoDocument
      /\ \A q \in Ingesters \ {p} : /\ stage'[q] = stage[q] /\ todo'[q] = todo[q]
                                    /\ env'[q] = env[q] /\ loaded'[q] = loaded[q]
  BY <1>1 DEF Leave, IInv, TypeOK
<1>4. TypeOK'
  <2>1. TypeOK  BY DEF IInv
  <2>2. todo' \in [Ingesters -> Seq(Rows)] /\ \A q \in Ingesters : Len(todo'[q]) <= 3
    BY <1>1, <2>1, LeaveTodo
  <2>3. /\ stage' \in [Ingesters -> {"idle", "open", "waiting", "missed", "archived",
                                     "failing", "cleanup"}]
        /\ env' \in [Ingesters -> Envelopes \cup {None}]
    BY <1>1, <2>1 DEF TypeOK, Leave
  <2>4. loaded' \in [Ingesters -> Document]
    BY <1>1, <2>1, NoDocumentType DEF TypeOK, Leave
  <2> QED  BY <1>1, <2>1, <2>2, <2>3, <2>4 DEF TypeOK
<1>5. Alike(p)
  BY <1>1, <1>3 DEF Alike
<1>6. PlanOf(p)' /\ ExistOf(p)'
  BY <1>1, <1>2, <1>3, NoDocumentType DEF PlanOf, ExistOf, Busy, Cites
<1>7. PlanInv' /\ \A q \in Ingesters : ExistOf(q)'
  BY <1>1, <1>5, <1>6, OthersStay DEF IInv
<1> QED  BY <1>1, <1>4, <1>7 DEF IInv, DraftInv, ExistInv, Cites

LEMMA ReceiveKeeps ==
  ASSUME IInv, NEW p \in Ingesters, NEW e \in Envelopes, Receive(p, e)
  PROVE  IInv'
<1>1. /\ stage[p] = "idle" /\ sent[e] < MaxDeliveries
      /\ sent' = [sent EXCEPT ![e] = sent[e] + 1]
      /\ UNCHANGED <<doc, chunk, versions, docDraft, chunkDraft, blobs, lock, faults>>
  BY DEF Receive, committed, drafts
<1>2. TypeOK /\ PlanOf(p) /\ ExistOf(p)
  BY DEF IInv, PlanInv, ExistInv
<1>3. env[p] = None /\ e # None /\ \A r \in Rows : lock[r] # p
  BY <1>1, <1>2, DocumentsAssumption DEF PlanOf
<1>4. sent' \in [Envelopes -> 0 .. MaxDeliveries]
  BY <1>1, <1>2, DocumentsAssumption DEF TypeOK
<1>5. CASE UNCHANGED <<stage, env, todo, loaded>>
  <2>1. TypeOK'
    BY <1>1, <1>2, <1>4, <1>5 DEF TypeOK
  <2>2. Alike(p) /\ PlanOf(p)' /\ ExistOf(p)'
    BY <1>1, <1>2, <1>5 DEF Alike, PlanOf, ExistOf, Busy
  <2>3. PlanInv' /\ \A q \in Ingesters : ExistOf(q)'
    BY <1>1, <2>2, OthersStay DEF IInv
  <2> QED  BY <1>1, <2>1, <2>3 DEF IInv, DraftInv, ExistInv, Cites
<1>6. CASE /\ stage' = [stage EXCEPT ![p] = "failing"]
           /\ env' = [env EXCEPT ![p] = e]
           /\ UNCHANGED <<todo, loaded>>
  <2>1. TypeOK'
    BY <1>1, <1>2, <1>4, <1>6 DEF TypeOK
  <2>2. Alike(p) /\ stage'[p] = "failing" /\ env'[p] = e
    BY <1>1, <1>2, <1>6 DEF Alike, TypeOK
  <2>3. PlanOf(p)' /\ ExistOf(p)'
    BY <1>1, <1>2, <1>3, <1>6, <2>2 DEF PlanOf, ExistOf, Busy
  <2>4. PlanInv' /\ \A q \in Ingesters : ExistOf(q)'
    BY <1>1, <2>2, <2>3, OthersStay DEF IInv
  <2> QED  BY <1>1, <2>1, <2>4 DEF IInv, DraftInv, ExistInv, Cites
<1>7. CASE /\ e.kind = "permission" => Exists(doc)
           /\ stage' = [stage EXCEPT ![p] = "open"]
           /\ env' = [env EXCEPT ![p] = e]
           /\ todo' = [todo EXCEPT ![p] = Plan(e)]
           /\ loaded' = [loaded EXCEPT ![p] = IF e.kind = "delete" THEN NoDocument ELSE doc]
  <2>1. /\ Plan(e) \in Rests(e) /\ Left(Plan(e)) = Rows
        /\ Plan(e) \in Seq(Rows) /\ Len(Plan(e)) <= 3
    BY PlanStarts, PlanRests
  <2>2. /\ Alike(p) /\ stage'[p] = "open" /\ env'[p] = e /\ todo'[p] = Plan(e)
        /\ loaded'[p] = IF e.kind = "delete" THEN NoDocument ELSE doc
    BY <1>1, <1>2, <1>7 DEF Alike, TypeOK
  <2>3. TypeOK'
    <3>1. /\ stage' \in [Ingesters -> {"idle", "open", "waiting", "missed", "archived",
                                       "failing", "cleanup"}]
          /\ env' \in [Ingesters -> Envelopes \cup {None}]
      BY <1>2, <1>7 DEF TypeOK
    <3>2. loaded' \in [Ingesters -> Document]
      BY <1>2, <1>7, NoDocumentType DEF TypeOK
    <3>3. todo' \in [Ingesters -> Seq(Rows)]
      BY <1>2, <1>7, <2>1 DEF TypeOK
    <3>4. ASSUME NEW q \in Ingesters  PROVE Len(todo'[q]) <= 3
      <4>1. CASE q = p   BY <2>1, <2>2, <4>1
      <4>2. CASE q # p
        <5>1. todo'[q] = todo[q]  BY <1>2, <1>7, <4>2 DEF TypeOK
        <5> QED  BY <1>2, <5>1 DEF TypeOK
      <4> QED  BY <4>1, <4>2
    <3> QED  BY <1>1, <1>2, <1>4, <3>1, <3>2, <3>3, <3>4 DEF TypeOK
  <2>4. PlanOf(p)'
    BY <1>1, <1>3, <2>1, <2>2 DEF PlanOf, Busy
  <2>5. ExistOf(p)'
    <3>1. "connector" \in Left(todo'[p])  BY <2>1, <2>2 DEF Rows
    <3>2. loaded'[p] = NoDocument \/ loaded'[p] = doc  BY <2>2
    <3>3. Cites(doc, Envelopes)  BY DEF IInv, ExistInv
    <3> QED  BY <1>1, <1>7, <2>2, <3>1, <3>2, <3>3, NoDocumentType DEF ExistOf, Cites
  <2>6. PlanInv' /\ \A q \in Ingesters : ExistOf(q)'
    BY <1>1, <2>2, <2>4, <2>5, OthersStay DEF IInv
  <2> QED  BY <1>1, <2>3, <2>6 DEF IInv, DraftInv, ExistInv, Cites
<1>8. \/ UNCHANGED <<stage, env, todo, loaded>>
      \/ /\ stage' = [stage EXCEPT ![p] = "failing"]
         /\ env' = [env EXCEPT ![p] = e]
         /\ UNCHANGED <<todo, loaded>>
      \/ /\ e.kind = "permission" => Exists(doc)
         /\ stage' = [stage EXCEPT ![p] = "open"]
         /\ env' = [env EXCEPT ![p] = e]
         /\ todo' = [todo EXCEPT ![p] = Plan(e)]
         /\ loaded' = [loaded EXCEPT ![p] = IF e.kind = "delete" THEN NoDocument ELSE doc]
  BY DEF Receive
<1> QED  BY <1>5, <1>6, <1>7, <1>8

-----------------------------------------------------------------------------
(* Every behaviour                                                         *)

LEMMA InitKnown ==
  ASSUME Init
  PROVE  /\ doc \in Document /\ chunk \in Chunk /\ Cites(doc, versions)
         /\ versions = {Known} \ {None} /\ versions \subseteq Envelopes
         /\ Known = None => doc = NoDocument
         /\ Known # None => /\ Known \in Envelopes /\ Known.kind = "upsert"
                            /\ doc = Upserted(NoDocument, Known)
                            /\ chunk = Replaced(Known, NoDocument)
<1>1. CASE Known = None
  BY <1>1, NoDocumentType DEF Init, Cites
<1>2. CASE Known # None
  <2>1. Known \in Envelopes /\ Known.kind = "upsert" /\ Known # None
    BY <1>2, DocumentsAssumption
  <2>2. /\ doc = Upserted(NoDocument, Known) /\ chunk = Replaced(Known, NoDocument)
        /\ versions = {Known}
    BY <1>2 DEF Init
  <2>3. /\ Applied(NoDocument, Known) = Upserted(NoDocument, Known)
        /\ Upserted(NoDocument, Known) \in Document
        /\ Upserted(NoDocument, Known).text = Known.text /\ Known.text # None
        /\ Upserted(NoDocument, Known).blob = Known
        /\ Upserted(NoDocument, Known).acl \in Acls \cup {None}
    BY <2>1, AppliedType, NoDocumentType
  <2>4. Replaced(Known, NoDocument) \in Chunk
    BY <2>1, <2>3, Constants DEF Replaced, Chunk
  <2> QED  BY <2>1, <2>2, <2>3, <2>4 DEF Cites
<1> QED  BY <1>1, <1>2

LEMMA InitInv ==
  ASSUME Init
  PROVE  IInv
<1>1. /\ doc \in Document /\ chunk \in Chunk /\ Cites(doc, versions)
      /\ versions \subseteq Envelopes
  BY InitKnown
<1>2. /\ docDraft = doc /\ chunkDraft = chunk /\ blobs = versions
      /\ lock = [r \in Rows |-> None]
      /\ stage = [p \in Ingesters |-> "idle"]
      /\ env = [p \in Ingesters |-> None]
      /\ todo = [p \in Ingesters |-> <<>>]
      /\ loaded = [p \in Ingesters |-> NoDocument]
      /\ faults = 0
  BY DEF Init
<1>3. TypeOK
  <2>1. todo \in [Ingesters -> Seq(Rows)] /\ \A p \in Ingesters : Len(todo[p]) <= 3
    BY <1>2
  <2>2. sent \in [Envelopes -> 0 .. MaxDeliveries]
    BY DocumentsAssumption DEF Init
  <2>3. loaded \in [Ingesters -> Document]  BY <1>2, NoDocumentType
  <2> QED  BY <1>1, <1>2, <2>1, <2>2, <2>3, DocumentsAssumption DEF TypeOK
<1>4. PlanInv
  BY <1>2, DocumentsAssumption DEF PlanInv, PlanOf, Busy
<1>5. DraftInv
  BY <1>2 DEF DraftInv
<1>6. ExistInv
  BY <1>1, <1>2, NoDocumentType DEF ExistInv, ExistOf, Busy, Cites
<1> QED  BY <1>3, <1>4, <1>5, <1>6 DEF IInv

LEMMA NextInv ==
  ASSUME IInv, [Next]_vars
  PROVE  IInv'
<1>1. ASSUME NEW p \in Ingesters, NEW e \in Envelopes, Receive(p, e)  PROVE IInv'
  BY <1>1, ReceiveKeeps
<1>2. ASSUME NEW p \in Ingesters, Step(p)  PROVE IInv'
  <2>1. CASE RecordFailure(p) \/ DeadlockVictim(p)
    <3>1. stage[p] # "idle"
      <4>1. DeadlockVictim(p) => WaitsFor(p) # {}  BY DEF DeadlockVictim
      <4> QED  BY <2>1, <4>1 DEF RecordFailure, WaitsFor
    <3>2. Quit(p)
      BY <2>1, <3>1 DEF RecordFailure, DeadlockVictim, Quit, committed
    <3> QED  BY <3>2, QuitKeeps
  <2> QED  BY <1>2, <2>1, WriteConnectorKeeps, WriteDocumentKeeps, WaitKeeps,
              WriteChunksKeeps, ArchiveKeeps, CommitKeeps, DeleteBlobKeeps DEF Step
<1>3. ASSUME NEW p \in Ingesters, CommitFails(p) \/ Crash(p)  PROVE IInv'
  <2>1. Quit(p)  BY <1>3 DEF CommitFails, Crash, Quit, committed
  <2> QED  BY <2>1, QuitKeeps
<1>4. CASE UNCHANGED vars
  <2>1. UNCHANGED <<doc, chunk, versions, docDraft, chunkDraft, blobs, lock, stage, env,
                    todo, loaded, sent, faults>>
    BY <1>4 DEF vars
  <2>2. TypeOK' /\ DraftInv'
    BY <2>1 DEF IInv, TypeOK, DraftInv
  <2>3. PlanInv'
    BY <2>1 DEF IInv, PlanInv, PlanOf, Busy
  <2>4. ExistInv'
    BY <2>1 DEF IInv, ExistInv, ExistOf, Cites, Busy
  <2> QED  BY <2>2, <2>3, <2>4 DEF IInv
<1> QED  BY <1>1, <1>2, <1>3, <1>4, RefusedKeeps DEF Next

\* The inductive invariant: types, who holds which row, and what a request still has to
\* write.
THEOREM Invariant == Spec => []IInv
<1>1. Init => IInv  BY InitInv
<1>2. IInv /\ [Next]_vars => IInv'  BY NextInv
<1> QED  BY <1>1, <1>2, PTL DEF Spec

\* What the tables, the locks and the requests hold is what they may hold; no
\* plan of writes is longer than the three rows a request touches
\* (services/ingest.py).
THEOREM TypeCorrect == Spec => []TypeOK
<1>1. IInv => TypeOK  BY DEF IInv
<1> QED  BY <1>1, Invariant, PTL

-----------------------------------------------------------------------------
(* The archive, where each envelope is delivered once                      *)

SentOnce == MaxDeliveries = 1

\* The envelopes under way are different and new.
OnceInv ==
  /\ \A e \in Envelopes : sent[e] = 0 => e \notin versions /\ \A p \in Ingesters : env[p] # e
  /\ \A p, q \in Ingesters : env[p] # None /\ env[p] = env[q] => p = q
  /\ \A p \in Ingesters : env[p] \notin versions

\* An envelope is archived before anything that cites it can be committed.
ArchiveInv ==
  /\ versions \subseteq blobs
  /\ \A p \in Ingesters : stage[p] = "archived" => env[p] \in blobs
  /\ Cites(doc, versions)
  /\ \A p \in Ingesters : lock["document"] = p => Cites(docDraft, versions \cup {env[p]})

LEMMA OnceFrame ==
  ASSUME IInv, OnceInv, NEW p \in Ingesters, UNCHANGED <<versions, sent>>,
         env' = env \/ env' = [env EXCEPT ![p] = None]
  PROVE  OnceInv'
<1>1. \A q \in Ingesters : env'[q] = env[q] \/ env'[q] = None
  BY DEF IInv, TypeOK
<1>2. None \notin versions /\ None \notin Envelopes
  BY DocumentsAssumption DEF IInv, TypeOK
<1> QED  BY <1>1, <1>2 DEF OnceInv

LEMMA OnceStep ==
  ASSUME IInv, OnceInv, SentOnce, Next
  PROVE  OnceInv'
<1>1. ASSUME NEW p \in Ingesters, NEW e \in Envelopes, Receive(p, e)  PROVE OnceInv'
  <2>1. /\ sent[e] < 1 /\ sent' = [sent EXCEPT ![e] = sent[e] + 1] /\ versions' = versions
        /\ env' = env \/ env' = [env EXCEPT ![p] = e]
    BY <1>1 DEF Receive, SentOnce, committed
  <2>2. sent \in [Envelopes -> 0 .. 1] /\ env \in [Ingesters -> Envelopes \cup {None}]
    BY DEF IInv, TypeOK, SentOnce
  <2>3. sent[e] = 0 /\ sent'[e] = 1 /\ \A f \in Envelopes : f # e => sent'[f] = sent[f]
    BY <2>1, <2>2
  <2>4. /\ \A q \in Ingesters : env'[q] = env[q] \/ (q = p /\ env'[q] = e)
        /\ e \notin versions /\ \A q \in Ingesters : env[q] # e
    BY <2>1, <2>2, <2>3 DEF OnceInv
  <2> QED  BY <2>1, <2>3, <2>4 DEF OnceInv
<1>2. ASSUME NEW p \in Ingesters, Commit(p)  PROVE OnceInv'
  <2>1. /\ env' = [env EXCEPT ![p] = None] /\ sent' = sent /\ versions' = versions \cup {env[p]}
        /\ stage[p] = "archived"
    BY <1>2 DEF Commit
  <2>2. env \in [Ingesters -> Envelopes \cup {None}] /\ None \notin versions \cup Envelopes
    BY DocumentsAssumption DEF IInv, TypeOK
  <2>3. env[p] \in Envelopes
    BY <2>1, <2>2 DEF IInv, PlanInv, PlanOf
  <2>4. \A q \in Ingesters : /\ env'[q] = env[q] \/ env'[q] = None
                             /\ q = p <=> env[q] = env[p]
                             /\ q = p => env'[q] = None
    BY <2>1, <2>2, <2>3 DEF OnceInv
  <2> QED  BY <2>1, <2>2, <2>3, <2>4 DEF OnceInv
<1>3. ASSUME NEW p \in Ingesters, Step(p) \/ ArchiveRefused(p) \/ CommitFails(p) \/ Crash(p),
             ~Commit(p)
      PROVE  OnceInv'
  <2>1. /\ UNCHANGED <<versions, sent>>
        /\ env' = env \/ env' = [env EXCEPT ![p] = None]
    BY <1>3 DEF Step, WriteConnector, WriteDocument, WaitForChunks, WriteChunks, Archive,
                RecordFailure, DeleteBlob, DeadlockVictim, ArchiveRefused, CommitFails, Crash,
                Fail, Leave, committed
  <2> QED  BY <2>1, OnceFrame
<1> QED  BY <1>1, <1>2, <1>3 DEF Next

LEMMA ArchiveFrame ==
  ASSUME ArchiveInv, UNCHANGED <<doc, versions>>, versions \subseteq blobs',
         \A q \in Ingesters :
           /\ stage'[q] = "archived" => stage[q] = "archived" /\ env'[q] = env[q]
                                        /\ (env[q] \in blobs => env[q] \in blobs')
           /\ lock'["document"] = q => /\ lock["document"] = q /\ env'[q] = env[q]
                                       /\ docDraft' = docDraft
  PROVE  ArchiveInv'
BY DEF ArchiveInv, Cites

LEMMA QuitFrame ==
  ASSUME IInv, NEW p \in Ingesters, Quit(p), NEW q \in Ingesters
  PROVE  /\ stage'[q] = "archived" => stage[q] = "archived" /\ env'[q] = env[q]
         /\ lock'["document"] = q => /\ lock["document"] = q /\ env'[q] = env[q]
                                     /\ docDraft' = docDraft
<1>1. /\ q # p => stage'[q] = stage[q] /\ env'[q] = env[q]
      /\ stage'[p] \in {"idle", "failing", "cleanup"}
  BY DEF Quit, Leave, Fail, IInv, TypeOK
<1>2. lock'["document"] = IF lock["document"] = p THEN None ELSE lock["document"]
  BY DEF Quit, Undo, Rows
<1>3. lock["document"] # p => docDraft' = docDraft
  BY DEF Quit, Undo
<1> QED  BY <1>1, <1>2, <1>3, DocumentsAssumption

LEMMA ArchiveStep ==
  ASSUME IInv, OnceInv, ArchiveInv, Next
  PROVE  ArchiveInv'
<1>1. ASSUME NEW p \in Ingesters, Quit(p)  PROVE ArchiveInv'
  <2>1. UNCHANGED <<doc, versions, blobs>>  BY <1>1 DEF Quit
  <2> QED  BY <1>1, <2>1, QuitFrame, ArchiveFrame DEF ArchiveInv
<1>2. ASSUME UNCHANGED <<doc, docDraft, versions, blobs>>,
             lock'["document"] = lock["document"],
             \A q \in Ingesters : stage'[q] = "archived" => stage[q] = "archived",
             \A q \in Ingesters : env'[q] = env[q] \/ (stage[q] = "idle" /\ stage'[q] # "archived")
      PROVE  ArchiveInv'
  <2>1. \A q \in Ingesters : stage[q] = "idle" => lock["document"] # q
    BY DEF IInv, PlanInv, PlanOf, Rows
  <2> QED  BY <1>2, <2>1, ArchiveFrame DEF ArchiveInv
<1>3. ASSUME NEW p \in Ingesters, NEW e \in Envelopes, Receive(p, e)  PROVE ArchiveInv'
  <2>1. /\ UNCHANGED <<doc, docDraft, versions, blobs, lock>> /\ stage[p] = "idle"
        /\ \/ stage' = stage /\ env' = env
           \/ /\ \E s \in {"open", "failing"} : stage' = [stage EXCEPT ![p] = s]
              /\ env' = [env EXCEPT ![p] = e]
    BY <1>3 DEF Receive, committed, drafts
  <2>2. \A q \in Ingesters : stage'[q] = "archived" => stage[q] = "archived"
    BY <2>1 DEF IInv, TypeOK
  <2>3. \A q \in Ingesters : env'[q] = env[q] \/ (stage[q] = "idle" /\ stage'[q] # "archived")
    BY <2>1 DEF IInv, TypeOK
  <2> QED  BY <1>2, <2>1, <2>2, <2>3
<1>4. ASSUME NEW p \in Ingesters, WriteConnector(p)  PROVE ArchiveInv'
  <2>1. /\ UNCHANGED <<doc, docDraft, versions, blobs, env>>
        /\ lock' = [lock EXCEPT !["connector"] = p]
        /\ stage' = [stage EXCEPT ![p] = "open"] \/ stage' = [stage EXCEPT ![p] = "failing"]
    BY <1>4 DEF WriteConnector, Wrote, Fail, committed, drafts
  <2> QED  BY <1>2, <2>1 DEF IInv, TypeOK, Rows
<1>5. ASSUME NEW p \in Ingesters, WriteChunks(p)  PROVE ArchiveInv'
  <2>1. /\ UNCHANGED <<doc, docDraft, versions, blobs, env>>
        /\ lock' = [lock EXCEPT !["chunks"] = p]
        /\ stage' = [stage EXCEPT ![p] = "open"]
    BY <1>5 DEF WriteChunks, Wrote, committed
  <2> QED  BY <1>2, <2>1 DEF IInv, TypeOK, Rows
<1>6. ASSUME NEW p \in Ingesters, WaitForChunks(p) \/ ArchiveRefused(p)  PROVE ArchiveInv'
  <2>1. /\ UNCHANGED <<doc, docDraft, versions, blobs, env, lock>>
        /\ stage' = [stage EXCEPT ![p] = "waiting"] \/ stage' = [stage EXCEPT ![p] = "failing"]
    BY <1>6 DEF WaitForChunks, ArchiveRefused, Fail, committed, drafts
  <2> QED  BY <1>2, <2>1 DEF IInv, TypeOK
<1>7. ASSUME NEW p \in Ingesters, WriteDocument(p)  PROVE ArchiveInv'
  <2>1. CASE Undo(p) /\ Fail(p)
    <3>1. Quit(p)
      BY <1>7, <2>1 DEF WriteDocument, MayWrite, Quit, committed
    <3> QED  BY <1>1, <3>1
  <2>2. CASE /\ Exists(loaded[p]) \/ ~Exists(docDraft)
             /\ docDraft' = Overwrite(docDraft, loaded[p], Applied(loaded[p], env[p]))
             /\ Wrote(p, "document")
             /\ UNCHANGED <<chunkDraft, env, loaded>>
    <3>0. "document" \in Rows /\ MayWrite(p, "document") /\ UNCHANGED <<doc, versions, blobs>>
      BY <1>7 DEF WriteDocument, Rows, committed
    <3>1. /\ Busy(p) /\ env[p] \in Envelopes /\ lock["document"] = None
          /\ lock \in [Rows -> Ingesters \cup {None}]
          /\ lock' = [lock EXCEPT !["document"] = p]
          /\ env[p].kind = "delete" /\ "document" # "connector" =>
               "connector" \notin Left(todo[p])
      BY <2>2, <3>0, WroteFacts
    <3>2. env[p].kind # "upsert" => Exists(loaded[p])
      BY <3>1, Constants DEF IInv, ExistInv, ExistOf
    <3>3. \A S : Cites(docDraft, S) /\ env[p] \in S => docDraft'.blob \in S
      BY <2>2, <3>1, <3>2, WrittenDocument
    <3>4. docDraft'.text # None
      BY <2>2, <3>1, <3>2, WrittenDocument
    <3>5. Cites(docDraft, versions \cup {env[p]})
      BY <3>1 DEF IInv, DraftInv, ArchiveInv, Cites
    <3>6. Cites(docDraft', versions \cup {env[p]})
      BY <3>3, <3>4, <3>5 DEF Cites
    <3>7. /\ \A q \in Ingesters : lock'["document"] = q => q = p
          /\ \A q \in Ingesters : stage'[q] = "archived" => stage[q] = "archived"
      BY <2>2, <3>0, <3>1 DEF Wrote, IInv, TypeOK
    <3> QED  BY <2>2, <3>0, <3>6, <3>7 DEF ArchiveInv
  <2> QED  BY <1>7, <2>1, <2>2 DEF WriteDocument
<1>8. ASSUME NEW p \in Ingesters, Archive(p)  PROVE ArchiveInv'
  BY <1>8 DEF Archive, ArchiveInv, IInv, TypeOK, committed, drafts, Cites
<1>9. ASSUME NEW p \in Ingesters, Commit(p)  PROVE ArchiveInv'
  <2>1. /\ stage[p] = "archived" /\ doc' = docDraft /\ UNCHANGED <<docDraft, blobs>>
        /\ versions' = versions \cup {env[p]} /\ env' = [env EXCEPT ![p] = None]
        /\ \A q \in Ingesters : stage'[q] = "archived" => q # p /\ stage[q] = "archived"
        /\ lock' = [r \in Rows |-> None]
    BY <1>9 DEF Commit, drafts
  <2>2. env[p] \in blobs /\ lock["document"] = p
    BY <2>1 DEF IInv, PlanInv, PlanOf, ArchiveInv, Rows
  <2>3. Cites(doc', versions')
    BY <2>1, <2>2 DEF ArchiveInv
  <2>4. \A q \in Ingesters : lock'["document"] # q /\ (q # p => env'[q] = env[q])
    BY <2>1, DocumentsAssumption DEF Rows, IInv, TypeOK
  <2> QED  BY <2>1, <2>2, <2>3, <2>4 DEF ArchiveInv
<1>10. ASSUME NEW p \in Ingesters, DeleteBlob(p)  PROVE ArchiveInv'
  <2>1. /\ stage[p] = "cleanup" /\ blobs' = blobs \ {env[p]}
        /\ UNCHANGED <<doc, docDraft, versions, lock>>
        /\ \A q \in Ingesters \ {p} : stage'[q] = stage[q] /\ env'[q] = env[q]
        /\ stage'[p] = "idle"
    BY <1>10 DEF DeleteBlob, Leave, committed, drafts, IInv, TypeOK
  <2>2. env[p] # None /\ lock["document"] # p
    BY <2>1 DEF IInv, PlanInv, PlanOf, Rows
  <2>3. versions \subseteq blobs' /\ \A q \in Ingesters \ {p} : env[q] # env[p]
    BY <2>1, <2>2 DEF OnceInv, ArchiveInv
  <2> QED  BY <2>1, <2>2, <2>3, ArchiveFrame
<1>11. ASSUME NEW p \in Ingesters, RecordFailure(p) \/ DeadlockVictim(p) \/ CommitFails(p) \/ Crash(p)
       PROVE  Quit(p)
  <2>1. DeadlockVictim(p) => stage[p] # "idle"
    <3>1. DeadlockVictim(p) => WaitsFor(p) # {}  BY DEF DeadlockVictim
    <3> QED  BY <3>1 DEF WaitsFor
  <2> QED  BY <1>11, <2>1 DEF RecordFailure, DeadlockVictim, CommitFails, Crash, Quit, committed
<1> QED  BY <1>1, <1>3, <1>4, <1>5, <1>6, <1>7, <1>8, <1>9, <1>10, <1>11 DEF Next, Step

\* Where a connector sends an envelope once, every committed version and document
\* row has its archived blob, whatever fails or dies half-way; a second delivery is
\* what the clean-up of a failed commit may take the blob from.
THEOREM Archived == SentOnce => (Spec => []EveryDocumentArchived)
<1> SUFFICES ASSUME SentOnce PROVE Spec => []EveryDocumentArchived  OBVIOUS
<1>1. Init => IInv /\ OnceInv /\ ArchiveInv
  <2> SUFFICES ASSUME Init PROVE IInv /\ OnceInv /\ ArchiveInv  OBVIOUS
  <2>1. IInv  BY InitInv
  <2>2. OnceInv
    BY InitKnown, DocumentsAssumption DEF Init, OnceInv
  <2>3. ArchiveInv
    BY InitKnown, DocumentsAssumption DEF Init, ArchiveInv, Rows
  <2> QED  BY <2>1, <2>2, <2>3
<1>2. IInv /\ OnceInv /\ ArchiveInv /\ [Next]_vars => (IInv /\ OnceInv /\ ArchiveInv)'
  <2>1. ASSUME OnceInv, ArchiveInv, UNCHANGED vars  PROVE OnceInv' /\ ArchiveInv'
    BY <2>1 DEF vars, OnceInv, ArchiveInv, Cites
  <2> QED  BY <2>1, NextInv, OnceStep, ArchiveStep
<1>3. IInv /\ OnceInv /\ ArchiveInv => EveryDocumentArchived
  BY DEF ArchiveInv, Cites, EveryDocumentArchived
<1> QED  BY <1>1, <1>2, <1>3, PTL DEF Spec

-----------------------------------------------------------------------------
(* One request at a time                                                   *)

OneAtATime == \A p, q \in Ingesters : p = q

\* Once the request has read the document, nobody changes it before the commit; what
\* it writes is what the envelope makes of the committed rows.
Read(p) == \/ stage[p] = "archived"
           \/ stage[p] = "open" /\ (env[p].kind # "delete" \/ "connector" \notin Left(todo[p]))
Done(p, r) == stage[p] = "archived" \/ (stage[p] = "open" /\ r \notin Left(todo[p]))

SerialOf(p) ==
  /\ stage[p] \notin {"waiting", "missed"}
  /\ Read(p) => loaded[p] = doc /\ ~Stale(env[p], doc)
  /\ Done(p, "document") => docDraft = Applied(doc, env[p])
  /\ Done(p, "chunks") => chunkDraft = Rechunked(chunk, env[p], doc, TRUE)
  /\ stage[p] = "archived" => (env[p].kind # "upsert" => Exists(doc))

SerialInv == \A p \in Ingesters : SerialOf(p)

LEMMA SerialStep ==
  ASSUME IInv, SerialInv, OneAtATime, Next
  PROVE  SerialInv'
<1>1. ASSUME NEW p \in Ingesters, SerialOf(p)'  PROVE SerialInv'
  BY <1>1 DEF SerialInv, OneAtATime
<1>2. ASSUME NEW p \in Ingesters, stage'[p] \in {"idle", "failing", "cleanup"}
      PROVE  SerialInv'
  <2>1. SerialOf(p)'  BY <1>2 DEF SerialOf, Read, Done
  <2> QED  BY <1>1, <2>1
<1>3. ASSUME NEW p \in Ingesters, NEW e \in Envelopes, Receive(p, e)  PROVE SerialInv'
  <2>1. CASE stage'[p] # "open"
    BY <1>2, <1>3, <2>1 DEF Receive, IInv, TypeOK
  <2>2. CASE stage'[p] = "open"
    <3>1. /\ UNCHANGED <<doc, chunk, docDraft, chunkDraft>>
          /\ e.kind = "delete" \/ ~Stale(e, doc)
          /\ env'[p] = e /\ todo'[p] = Plan(e)
          /\ loaded'[p] = IF e.kind = "delete" THEN NoDocument ELSE doc
      BY <1>3, <2>2 DEF Receive, IInv, TypeOK, committed, drafts
    <3>2. Left(todo'[p]) = Rows  BY <3>1, PlanStarts
    <3>3. SerialOf(p)'
      BY <2>2, <3>1, <3>2 DEF SerialOf, Read, Done, Rows
    <3> QED  BY <1>1, <3>3
  <2> QED  BY <2>1, <2>2
<1>4. ASSUME NEW p \in Ingesters, NEW r \in Rows, MayWrite(p, r), Wrote(p, r), UNCHANGED env
      PROVE  /\ stage[p] = "open" /\ stage'[p] = "open" /\ env[p] \in Envelopes
             /\ lock[r] = None /\ r \in Left(todo[p])
             /\ Left(todo'[p]) = Left(todo[p]) \ {r}
             /\ r = "connector" \/ Read(p)
  <2>1. /\ Busy(p) /\ stage'[p] = "open" /\ env[p] \in Envelopes
        /\ lock[r] = None /\ r \in Left(todo[p]) /\ Left(todo'[p]) = Left(todo[p]) \ {r}
        /\ env[p].kind = "delete" /\ r # "connector" => "connector" \notin Left(todo[p])
    BY <1>4, WroteFacts
  <2>2. stage[p] = "open"
    BY <2>1 DEF Busy, SerialInv, SerialOf
  <2> QED  BY <2>1, <2>2 DEF Read
<1>5. ASSUME NEW p \in Ingesters, WriteConnector(p)  PROVE SerialInv'
  <2>1. CASE Fail(p)
    BY <1>2, <2>1 DEF Fail, IInv, TypeOK
  <2>2. CASE /\ Wrote(p, "connector") /\ UNCHANGED env
             /\ \/ env[p].kind # "delete" /\ UNCHANGED loaded
                \/ env[p].kind = "delete" /\ loaded' = [loaded EXCEPT ![p] = doc]
    <3>1. /\ MayWrite(p, "connector") /\ "connector" \in Rows
          /\ UNCHANGED <<doc, chunk, docDraft, chunkDraft>>
      BY <1>5 DEF WriteConnector, Rows, committed, drafts
    <3>2. /\ stage[p] = "open" /\ stage'[p] = "open" /\ env[p] \in Envelopes
          /\ Left(todo'[p]) = Left(todo[p]) \ {"connector"}
      BY <1>4, <2>2, <3>1
    <3>3. loaded'[p] = IF env[p].kind = "delete" THEN doc ELSE loaded[p]
      BY <2>2 DEF IInv, TypeOK
    <3>4. SerialOf(p)
      BY DEF SerialInv
    <3>5. Read(p)' => loaded'[p] = doc /\ ~Stale(env[p], doc)
      <4>1. CASE env[p].kind = "delete"
        BY <3>3, <4>1 DEF Stale
      <4>2. CASE env[p].kind # "delete"
        <5>1. Read(p)  BY <3>2, <4>2 DEF Read
        <5> QED  BY <3>3, <3>4, <4>2, <5>1 DEF SerialOf
      <4> QED  BY <4>1, <4>2
    <3>6. \A r \in {"document", "chunks"} : Done(p, r)' => Done(p, r)
      BY <3>2 DEF Done
    <3>7. SerialOf(p)'
      BY <2>2, <3>1, <3>2, <3>4, <3>5, <3>6 DEF SerialOf
    <3> QED  BY <1>1, <3>7
  <2> QED  BY <1>5, <2>1, <2>2 DEF WriteConnector
<1>6. ASSUME NEW p \in Ingesters, WriteDocument(p)  PROVE SerialInv'
  <2>1. CASE Fail(p)
    BY <1>2, <2>1 DEF Fail, IInv, TypeOK
  <2>2. CASE /\ docDraft' = Overwrite(docDraft, loaded[p], Applied(loaded[p], env[p]))
             /\ Wrote(p, "document") /\ UNCHANGED <<chunkDraft, env, loaded>>
    <3>1. /\ MayWrite(p, "document") /\ "document" \in Rows /\ UNCHANGED <<doc, chunk>>
      BY <1>6 DEF WriteDocument, Rows, committed
    <3>2. /\ stage[p] = "open" /\ stage'[p] = "open" /\ env[p] \in Envelopes
          /\ lock["document"] = None
          /\ Left(todo'[p]) = Left(todo[p]) \ {"document"}
          /\ "document" = "connector" \/ Read(p)
      BY <1>4, <2>2, <3>1
    <3>3. SerialOf(p) /\ loaded[p] = doc /\ docDraft = doc /\ doc \in Document
      BY <3>2 DEF SerialInv, SerialOf, IInv, DraftInv, TypeOK
    <3>4. docDraft' = Applied(doc, env[p])
      BY <2>2, <3>2, <3>3, AppliedType, OverwriteType
    <3>5. Read(p)' => Read(p)
      BY <2>2, <3>2 DEF Read
    <3>6. Done(p, "chunks")' => Done(p, "chunks")
      BY <3>2 DEF Done
    <3>7. SerialOf(p)'
      BY <2>2, <3>1, <3>2, <3>3, <3>4, <3>5, <3>6 DEF SerialOf
    <3> QED  BY <1>1, <3>7
  <2> QED  BY <1>6, <2>1, <2>2 DEF WriteDocument
<1>7. ASSUME NEW p \in Ingesters, WriteChunks(p)  PROVE SerialInv'
  <2>1. /\ MayWrite(p, "chunks") /\ "chunks" \in Rows /\ Wrote(p, "chunks")
        /\ chunkDraft' = Rechunked(chunkDraft, env[p], loaded[p], stage[p] # "missed")
        /\ UNCHANGED <<doc, chunk, docDraft, env, loaded>>
    BY <1>7 DEF WriteChunks, Rows, committed
  <2>2. /\ stage[p] = "open" /\ stage'[p] = "open" /\ env[p] \in Envelopes
        /\ lock["chunks"] = None
        /\ Left(todo'[p]) = Left(todo[p]) \ {"chunks"}
        /\ "chunks" = "connector" \/ Read(p)
    BY <1>4, <2>1
  <2>3. SerialOf(p) /\ loaded[p] = doc /\ chunkDraft = chunk
    BY <2>2 DEF SerialInv, SerialOf, IInv, DraftInv
  <2>4. (stage[p] # "missed") = TRUE
    BY <2>2
  <2>5. chunkDraft' = Rechunked(chunk, env[p], doc, TRUE)
    BY <2>1, <2>3, <2>4
  <2>6. Read(p)' => Read(p)
    BY <2>1, <2>2 DEF Read
  <2>7. Done(p, "document")' => Done(p, "document")
    BY <2>2 DEF Done
  <2>8. SerialOf(p)'
    BY <2>1, <2>2, <2>3, <2>5, <2>6, <2>7 DEF SerialOf
  <2> QED  BY <1>1, <2>8
<1>8. ASSUME NEW p \in Ingesters, WaitForChunks(p)  PROVE SerialInv'
  <2>1. lock["chunks"] \in Ingesters \ {p}
    BY <1>8 DEF WaitForChunks, IInv, TypeOK, Rows
  <2> QED  BY <2>1 DEF OneAtATime
<1>9. ASSUME NEW p \in Ingesters, Archive(p)  PROVE SerialInv'
  <2>1. /\ stage[p] = "open" /\ todo[p] = <<>>
        /\ UNCHANGED <<doc, chunk, docDraft, chunkDraft, env, todo, loaded>>
        /\ stage'[p] = "archived"
    BY <1>9 DEF Archive, IInv, TypeOK, committed, drafts
  <2>2. env[p] \in Envelopes /\ Left(todo[p]) = {}
    BY <2>1, BusyFacts, PlanRests DEF Busy
  <2>3. Read(p) /\ Done(p, "document") /\ Done(p, "chunks") /\ SerialOf(p)
    BY <2>1, <2>2 DEF Read, Done, SerialInv
  <2>4. env[p].kind # "upsert" => Exists(doc)
    BY <2>1, <2>2, <2>3, Constants DEF IInv, ExistInv, ExistOf, SerialOf, Busy
  <2>5. SerialOf(p)'
    BY <2>1, <2>3, <2>4 DEF SerialOf
  <2> QED  BY <1>1, <2>5
<1>10. ASSUME NEW p \in Ingesters,
              \/ ArchiveRefused(p) \/ Commit(p) \/ RecordFailure(p) \/ DeleteBlob(p)
              \/ DeadlockVictim(p) \/ CommitFails(p) \/ Crash(p)
       PROVE  SerialInv'
  <2>1. stage'[p] \in {"idle", "failing", "cleanup"}
    BY <1>10 DEF ArchiveRefused, Commit, RecordFailure, DeleteBlob, DeadlockVictim,
                 CommitFails, Crash, Fail, Leave, IInv, TypeOK
  <2> QED  BY <1>2, <2>1
<1> QED  BY <1>3, <1>5, <1>6, <1>7, <1>8, <1>9, <1>10 DEF Next, Step

LEMMA OnlyCommits ==
  ASSUME Next
  PROVE  UNCHANGED <<doc, chunk, versions>> \/ \E p \in Ingesters : Commit(p)
BY DEF Next, Step, Receive, WriteConnector, WriteDocument, WaitForChunks, WriteChunks,
       Archive, RecordFailure, DeleteBlob, DeadlockVictim, ArchiveRefused, CommitFails,
       Crash, committed

LEMMA SerialCommit ==
  ASSUME IInv, SerialInv, NEW p \in Ingesters, Commit(p)
  PROVE  /\ env[p] \in Envelopes /\ ~Stale(env[p], doc)
         /\ env[p].kind # "upsert" => Exists(doc)
         /\ doc' = Applied(doc, env[p]) /\ chunk' = Rechunked(chunk, env[p], doc, TRUE)
         /\ versions' = versions \cup {env[p]}
<1>1. /\ stage[p] = "archived" /\ doc' = docDraft /\ chunk' = chunkDraft
      /\ versions' = versions \cup {env[p]}
  BY DEF Commit
<1>2. env[p] \in Envelopes
  BY <1>1 DEF IInv, TypeOK, PlanInv, PlanOf
<1>3. SerialOf(p) /\ Read(p) /\ Done(p, "document") /\ Done(p, "chunks")
  BY <1>1 DEF SerialInv, Read, Done
<1> QED  BY <1>1, <1>2, <1>3 DEF SerialOf

LEMMA ChunksStep ==
  ASSUME IInv, SerialInv, ChunksFollowDocument, Next
  PROVE  ChunksFollowDocument'
<1>1. CASE UNCHANGED <<doc, chunk, versions>>
  BY <1>1 DEF ChunksFollowDocument
<1>2. ASSUME NEW p \in Ingesters, Commit(p)  PROVE ChunksFollowDocument'
  <2> DEFINE e == env[p]
  <2>1. /\ e \in Envelopes
        /\ e.kind # "upsert" => Exists(doc)
        /\ doc' = Applied(doc, e) /\ chunk' = Rechunked(chunk, e, doc, TRUE)
    BY <1>2, SerialCommit
  <2>2. doc \in Document /\ chunk \in Chunk
    BY DEF IInv, TypeOK
  <2> HIDE DEF e
  <2>3. CASE e.kind = "upsert"
    <3>1. doc' = Upserted(doc, e)
      BY <2>1, <2>3 DEF Applied
    <3>2. Upserted(doc, e).deleted = FALSE /\ Upserted(doc, e).text = e.text
      BY DEF Upserted
    <3>3. CASE ContentChanged(e, doc)
      <4>1. chunk' = Replaced(e, doc)  BY <2>1, <2>3, <3>3 DEF Rechunked
      <4> QED  BY <3>1, <3>2, <4>1 DEF Replaced, ChunksFollowDocument
    <3>4. CASE ~ContentChanged(e, doc)
      <4>1. chunk.live /\ chunk.text = e.text
        BY <3>4 DEF ContentChanged, ChunksFollowDocument
      <4>2. chunk' = [chunk EXCEPT !.acl = Upserted(doc, e).acl]
        BY <2>1, <2>3, <3>4, <4>1 DEF Rechunked
      <4>3. chunk'.live = chunk.live /\ chunk'.text = chunk.text /\ chunk'.acl = Upserted(doc, e).acl
        BY <2>2, <4>2 DEF Chunk
      <4> QED  BY <2>2, <3>1, <3>2, <4>1, <4>3 DEF Chunk, ChunksFollowDocument
    <3> QED  BY <3>3, <3>4
  <2>4. CASE e.kind = "permission"
    <3>1. /\ doc' = [doc EXCEPT !.acl = e.acl, !.aclTime = e.time]
          /\ chunk' = [chunk EXCEPT !.acl = e.acl]
      BY <2>1, <2>4 DEF Applied, Rechunked
    <3>2. /\ doc'.text = doc.text /\ doc'.deleted = doc.deleted /\ doc'.acl = e.acl
          /\ chunk'.text = chunk.text /\ chunk'.live = chunk.live /\ chunk'.acl = e.acl
      BY <2>2, <3>1 DEF Document, Chunk
    <3> QED  BY <2>1, <2>4, <3>2 DEF ChunksFollowDocument
  <2>5. CASE e.kind = "delete"
    <3>1. doc' = [doc EXCEPT !.deleted = TRUE] /\ chunk' = [chunk EXCEPT !.live = FALSE]
      BY <2>1, <2>5 DEF Applied, Rechunked
    <3>2. doc'.deleted = TRUE /\ chunk'.live = FALSE
      BY <2>2, <3>1 DEF Document, Chunk
    <3> QED  BY <3>2 DEF ChunksFollowDocument
  <2> QED  BY <2>1, <2>3, <2>4, <2>5, Constants
<1> QED  BY <1>1, <1>2, OnlyCommits

\* The content is that of an accepted upsert, and none is newer; the ACL that of
\* an accepted envelope no older than any accepted permission change.
NewestInv ==
  /\ \A e \in Accepted({"upsert"}) : e.time <= doc.time
  /\ \A e \in Accepted({"permission"}) : e.time <= doc.aclTime
  /\ Exists(doc) => /\ \E e \in Accepted({"upsert"}) : e.time = doc.time /\ e.text = doc.text
                    /\ \E f \in Accepted({"upsert", "permission"}) :
                         f.time >= doc.aclTime /\ f.acl = doc.acl
  /\ ~Exists(doc) => versions = {}

LEMMA NewestStep ==
  ASSUME IInv, SerialInv, NewestInv, Next
  PROVE  NewestInv'
<1>1. CASE UNCHANGED <<doc, chunk, versions>>
  BY <1>1 DEF NewestInv, Accepted
<1>2. ASSUME NEW p \in Ingesters, Commit(p)  PROVE NewestInv'
  <2> DEFINE e == env[p]
  <2>1. /\ e \in Envelopes /\ ~Stale(e, doc)
        /\ e.kind # "upsert" => Exists(doc)
        /\ doc' = Applied(doc, e) /\ versions' = versions \cup {e}
    BY <1>2, SerialCommit
  <2>2. /\ doc \in Document /\ doc.time \in Nat /\ doc.aclTime \in Nat
        /\ versions \subseteq Envelopes /\ \A f \in Envelopes : f.time \in Nat
        /\ doc.text # None => Exists(doc)
    BY Constants, TimesNat, TextExists DEF IInv, TypeOK, Document
  <2> HIDE DEF e
  <2>3. CASE e.kind = "upsert"
    <3>1. doc' = Upserted(doc, e)
      BY <2>1, <2>3 DEF Applied
    <3>2. /\ doc'.text = e.text /\ doc'.time = e.time /\ e.time >= doc.time
          /\ \/ e.time >= doc.aclTime /\ doc'.acl = e.acl /\ doc'.aclTime \in {e.time, doc.aclTime}
             \/ e.time < doc.aclTime /\ doc'.acl = doc.acl /\ doc'.aclTime = doc.aclTime
      BY <2>1, <2>2, <2>3, <3>1 DEF Upserted, Stale
    <3>3. /\ e.text # None /\ e.time > 0
          /\ Accepted({"upsert"})' = Accepted({"upsert"}) \cup {e}
          /\ Accepted({"permission"})' = Accepted({"permission"})
          /\ Accepted({"upsert", "permission"})' = Accepted({"upsert", "permission"}) \cup {e}
      BY <2>1, <2>3, Constants DEF Accepted
    <3>4. Exists(doc')
      BY <3>2, <3>3, TextExists
    <3>5. \A f \in Accepted({"upsert"})' : f.time <= doc'.time
      BY <2>1, <2>2, <3>2, <3>3 DEF NewestInv, Accepted
    <3>6. \A f \in Accepted({"permission"})' : f.time <= doc'.aclTime
      BY <2>1, <2>2, <3>2, <3>3 DEF NewestInv, Accepted
    <3>7. \E f \in Accepted({"upsert", "permission"})' : f.time >= doc'.aclTime /\ f.acl = doc'.acl
      <4>1. CASE e.time >= doc.aclTime
        BY <2>1, <2>2, <3>2, <3>3, <4>1
      <4>2. CASE e.time < doc.aclTime
        <5>1. Exists(doc)
          BY <2>1, <2>2, <4>2, Constants DEF Exists, NoDocument
        <5> QED  BY <2>1, <2>2, <3>2, <3>3, <4>2, <5>1 DEF NewestInv
      <4> QED  BY <2>1, <2>2, <4>1, <4>2
    <3> QED  BY <3>2, <3>3, <3>4, <3>5, <3>6, <3>7 DEF NewestInv
  <2>4. CASE e.kind = "permission"
    <3>1. doc' = [doc EXCEPT !.acl = e.acl, !.aclTime = e.time]
      BY <2>1, <2>4 DEF Applied
    <3>2. /\ doc'.text = doc.text /\ doc'.time = doc.time /\ doc'.acl = e.acl
          /\ doc'.aclTime = e.time /\ e.time >= doc.aclTime
      BY <2>1, <2>2, <2>4, <3>1 DEF Stale, Document
    <3>3. /\ Accepted({"upsert"})' = Accepted({"upsert"})
          /\ Accepted({"permission"})' = Accepted({"permission"}) \cup {e}
          /\ Accepted({"upsert", "permission"})' = Accepted({"upsert", "permission"}) \cup {e}
      BY <2>1, <2>4 DEF Accepted
    <3>4. Exists(doc) /\ Exists(doc')
      BY <2>1, <2>2, <2>4, <3>2, TextExists DEF IInv, ExistInv, Cites
    <3>5. \A f \in Accepted({"upsert"})' : f.time <= doc'.time
      BY <3>2, <3>3 DEF NewestInv
    <3>6. \A f \in Accepted({"permission"})' : f.time <= doc'.aclTime
      BY <2>1, <2>2, <3>2, <3>3 DEF NewestInv, Accepted
    <3>7. \E f \in Accepted({"upsert"})' : f.time = doc'.time /\ f.text = doc'.text
      BY <3>2, <3>3, <3>4 DEF NewestInv
    <3>8. \E f \in Accepted({"upsert", "permission"})' : f.time >= doc'.aclTime /\ f.acl = doc'.acl
      BY <2>1, <2>2, <3>2, <3>3
    <3> QED  BY <3>4, <3>5, <3>6, <3>7, <3>8 DEF NewestInv
  <2>5. CASE e.kind = "delete"
    <3>1. doc' = [doc EXCEPT !.deleted = TRUE]
      BY <2>1, <2>5 DEF Applied
    <3>2. /\ doc'.text = doc.text /\ doc'.time = doc.time /\ doc'.acl = doc.acl
          /\ doc'.aclTime = doc.aclTime
      BY <2>2, <3>1 DEF Document
    <3>3. \A K \in {{"upsert"}, {"permission"}, {"upsert", "permission"}} : Accepted(K)' = Accepted(K)
      BY <2>1, <2>5 DEF Accepted
    <3>4. Exists(doc) /\ Exists(doc')
      BY <2>1, <2>2, <2>5, <3>2, TextExists DEF IInv, ExistInv, Cites
    <3>5. /\ Accepted({"upsert"})' = Accepted({"upsert"})
          /\ Accepted({"permission"})' = Accepted({"permission"})
          /\ Accepted({"upsert", "permission"})' = Accepted({"upsert", "permission"})
      BY <3>3
    <3> QED  BY <3>2, <3>4, <3>5 DEF NewestInv
  <2> QED  BY <2>1, <2>3, <2>4, <2>5, Constants
<1> QED  BY <1>1, <1>2, OnlyCommits

LEMMA InitSerial ==
  ASSUME Init
  PROVE  SerialInv /\ ChunksFollowDocument /\ NewestInv
<1>1. SerialInv
  BY DEF Init, SerialInv, SerialOf, Read, Done
<1>2. CASE Known = None
  <2>1. doc = NoDocument /\ versions = {}
    BY <1>2, InitKnown
  <2>2. ~Exists(doc)  BY <2>1, NoDocumentType
  <2> QED  BY <1>1, <2>1, <2>2 DEF ChunksFollowDocument, NewestInv, Accepted
<1>3. CASE Known # None
  <2>1. /\ Known \in Envelopes /\ Known.kind = "upsert" /\ versions = {Known}
        /\ doc = Upserted(NoDocument, Known) /\ chunk = Replaced(Known, NoDocument)
    BY <1>3, InitKnown
  <2>2. /\ Known.text # None /\ Known.acl # None /\ Known.time \in Nat
    BY <2>1, Constants
  <2>3. /\ doc.text = Known.text /\ doc.time = Known.time /\ doc.deleted = FALSE
        /\ doc.acl = Known.acl /\ doc.aclTime = Known.time
    BY <2>1, <2>2 DEF Upserted, NoDocument
  <2>4. Exists(doc)  BY <2>2, <2>3, TextExists
  <2>5. chunk.live /\ chunk.text = doc.text /\ chunk.acl = doc.acl
    BY <2>1, <2>3 DEF Replaced
  <2>6. chunk.live = TRUE  BY <2>1 DEF Replaced
  <2>7. ChunksFollowDocument
    BY <2>3, <2>5, <2>6 DEF ChunksFollowDocument
  <2>8. /\ Accepted({"upsert"}) = {Known} /\ Accepted({"permission"}) = {}
        /\ Accepted({"upsert", "permission"}) = {Known}
    BY <2>1 DEF Accepted
  <2>9. NewestInv
    BY <2>2, <2>3, <2>4, <2>8 DEF NewestInv
  <2> QED  BY <1>1, <2>7, <2>9
<1> QED  BY <1>2, <1>3

LEMMA SerialInvariant ==
  ASSUME OneAtATime
  PROVE  Spec => [](IInv /\ SerialInv /\ ChunksFollowDocument /\ NewestInv)
<1> DEFINE Inv == IInv /\ SerialInv /\ ChunksFollowDocument /\ NewestInv
<1>1. Init => Inv
  BY InitInv, InitSerial
<1>2. Inv /\ [Next]_vars => Inv'
  <2>1. ASSUME Inv, UNCHANGED vars
        PROVE  SerialInv' /\ ChunksFollowDocument' /\ NewestInv'
    <3>1. UNCHANGED <<doc, docDraft, chunk, chunkDraft, versions, stage, env, todo, loaded>>
      BY <2>1 DEF vars
    <3>2. SerialInv'
      BY <2>1, <3>1 DEF SerialInv, SerialOf, Read, Done
    <3>3. ChunksFollowDocument' /\ NewestInv'
      BY <2>1, <3>1 DEF ChunksFollowDocument, NewestInv, Accepted
    <3> QED  BY <3>2, <3>3
  <2> QED  BY <2>1, NextInv, SerialStep, ChunksStep, NewestStep
<1> HIDE DEF Inv
<1>3. Spec => []Inv
  BY <1>1, <1>2, PTL DEF Spec
<1> QED  BY <1>3 DEF Inv

\* Where one request is in progress at a time, search never finds a deleted document
\* and finds a live one by its own text under its own ACL, whatever fails or dies.
THEOREM ChunksFollow == OneAtATime => (Spec => []ChunksFollowDocument)
<1> SUFFICES ASSUME OneAtATime PROVE Spec => []ChunksFollowDocument  OBVIOUS
<1> QED  BY SerialInvariant, PTL

\* Where one request is in progress at a time, an accepted permission change is never
\* undone by what an older envelope brings, in whatever order they are delivered.
THEOREM PermissionsInOrder == OneAtATime => (Spec => []PermissionChangesInOrder)
<1> SUFFICES ASSUME OneAtATime PROVE Spec => []PermissionChangesInOrder  OBVIOUS
<1>1. IInv /\ NewestInv => PermissionChangesInOrder
  <2> SUFFICES ASSUME IInv, NewestInv, NEW e \in versions, Newest(Accepted({"permission"}), e)
               PROVE  \E f \in Accepted({"upsert", "permission"}) :
                        f.time >= e.time /\ f.acl = doc.acl
    BY DEF PermissionChangesInOrder
  <2>1. e.time <= doc.aclTime /\ Exists(doc)
    BY DEF NewestInv, Newest
  <2>2. PICK f \in Accepted({"upsert", "permission"}) : f.time >= doc.aclTime /\ f.acl = doc.acl
    BY <2>1 DEF NewestInv
  <2>3. e.time \in Nat /\ f.time \in Nat /\ doc.aclTime \in Nat
    BY Constants, TimesNat DEF IInv, TypeOK, Document, Accepted
  <2> QED  BY <2>1, <2>2, <2>3
<1> QED  BY <1>1, SerialInvariant, PTL

\* No two upserts that differ carry the same time: of those that do, the last to
\* arrive is the text, for a stale envelope is one that is strictly older.
UpsertsOrdered ==
  \A e, f \in Envelopes :
    e.kind = "upsert" /\ f.kind = "upsert" /\ e.time = f.time => e = f

\* Where one request is in progress at a time, the content is that of the newest
\* accepted upsert, in whatever order and however often they are delivered.
THEOREM NewestText == OneAtATime /\ UpsertsOrdered => (Spec => []TextIsNewest)
<1> SUFFICES ASSUME OneAtATime, UpsertsOrdered PROVE Spec => []TextIsNewest  OBVIOUS
<1>1. IInv /\ NewestInv => TextIsNewest
  <2> SUFFICES ASSUME IInv, NewestInv, NEW e \in versions, Newest(Accepted({"upsert"}), e)
               PROVE  doc.time = e.time /\ doc.text = e.text
    BY DEF TextIsNewest
  <2>1. e.time <= doc.time /\ Exists(doc)
    BY DEF NewestInv, Newest
  <2>2. PICK g \in Accepted({"upsert"}) : g.time = doc.time /\ g.text = doc.text
    BY <2>1 DEF NewestInv
  <2>3. g.time <= e.time
    BY <2>2 DEF Newest
  <2>4. e.time \in Nat /\ doc.time \in Nat /\ e \in Envelopes /\ g \in Envelopes
    BY Constants, TimesNat DEF IInv, TypeOK, Document, Accepted
  <2>5. e = g
    BY <2>1, <2>2, <2>3, <2>4 DEF UpsertsOrdered, Accepted, Newest
  <2> QED  BY <2>2, <2>5
<1> QED  BY <1>1, SerialInvariant, PTL

=============================================================================
