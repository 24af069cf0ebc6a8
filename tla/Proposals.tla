------------------------------ MODULE Proposals ------------------------------
(***************************************************************************)
(* Field-value proposals to the host: generation from active claims,       *)
(* agent promotions, the webhook push job and the host's decisions.        *)
(*                                                                         *)
(* A claim id stands for a value with its evidence, and larger ids for     *)
(* more confident or later claims.  A writer is one transaction: it looks  *)
(* (claims and open rows as committed), enqueues the push, and commits.    *)
(* The push job is a singleton row: whoever enqueues or runs it holds its  *)
(* lock until it commits (modelled in full in JobQueue).                   *)
(***************************************************************************)
EXTENDS Naturals, Sequences, FiniteSets, SequencesExt

CONSTANTS
  Slots, Claims, SlotOf,
  Writers,     \* among job (the worker), route (the operator's) and agent
  By,          \* who wrote a claim: structured, promote, extraction, untyped
  Weak,        \* claims below the activation confidence
  Evidence,    \* number of documents of a claim
  Page,        \* rows of one push (200)
  None,
  MaxRows      \* bound: proposals

VARIABLES
  active,  \* active claims, bound to a host field, whose evidence exists
  rows,    \* proposals in order of created_at: claim, status, by
  told,    \* rows the host has received
  write,   \* what a writer is doing: its claims and the open rows it saw
  decide,  \* the row a decision has loaded (0: none)
  push     \* the push job, the holder of its row, and the page being pushed

vars == <<active, rows, told, write, decide, push>>

Off == [pc |-> "off", claims |-> {}, seen |-> [s \in Slots |-> 0], won |-> FALSE]

Init ==
  /\ active \in SUBSET Claims /\ \A c, d \in active : SlotOf[c] = SlotOf[d] => c = d
  /\ rows = <<>> /\ told = {} /\ decide = 0
  /\ write = [w \in Writers |-> Off]
  /\ push = [job |-> "none", lock |-> None, page |-> {}]

-----------------------------------------------------------------------------
(* Claims change                                                           *)

\* An exclusive slot: the new claim closes the others.
Winning(c) == {d \in active : SlotOf[d] # SlotOf[c]} \cup {c}

Activate(c) ==
  /\ c \notin active /\ active' = Winning(c)
  /\ UNCHANGED <<rows, told, write, decide, push>>
\* Retracted, or a document of its evidence is deleted.
Retract(c) ==
  /\ c \in active /\ active' = active \ {c}
  /\ UNCHANGED <<rows, told, write, decide, push>>

-----------------------------------------------------------------------------
(* Generation and promotion                                                *)

\* precedence_rank
Rank(c) == CASE By[c] = "structured" -> 4
             [] By[c] = "promote" -> 3
             [] OTHER -> IF Evidence[c] >= 2 THEN 2 ELSE 1
Outranks(c, d) == Rank(c) > Rank(d) \/ (Rank(c) = Rank(d) /\ c > d)

\* The gates of generate_from_active_claims.
Candidates ==
  {c \in active : /\ By[c] # "untyped"
                  /\ c \in Weak => By[c] = "structured"
                  /\ Evidence[c] > 0}
\* pick_slot_winners
Winners ==
  {c \in Candidates : \A d \in Candidates \ {c} : SlotOf[d] = SlotOf[c] => Outranks(c, d)}

\* pending_for_slot
Open(s) == {i \in DOMAIN rows : rows[i].status = "pending" /\ SlotOf[rows[i].claim] = s}
Seen(C) == [s \in Slots |->
              IF Open(s) # {} /\ s \in {SlotOf[c] : c \in C} THEN CHOOSE i \in Open(s) : TRUE
              ELSE 0]

Generate(w) ==
  /\ w # "agent" /\ write[w].pc = "off"
  /\ write' = [write EXCEPT ![w] = [Off EXCEPT !.claims = Winners, !.seen = Seen(Winners),
                                      !.pc = IF w = "job" THEN "enqueue" ELSE "commit"]]
  /\ UNCHANGED <<active, rows, told, decide, push>>

\* promote: the claim takes its slot, or loses it to a later value; it is
\* proposed all the same.
Promote(c, won) ==
  /\ By[c] = "promote" /\ "agent" \in Writers /\ write["agent"].pc = "off"
  /\ write' = [write EXCEPT !["agent"] =
                 [pc |-> "enqueue", claims |-> {c}, seen |-> Seen({c}), won |-> won]]
  /\ UNCHANGED <<active, rows, told, decide, push>>

\* Mutant: the search for an open job does not lock it.
EnqueueUnlocked(w) ==
  /\ write[w].pc = "enqueue"
  /\ write' = [write EXCEPT ![w].pc = "commit"]
  /\ push.job = "queued" \/ push.lock = None
  /\ push' = IF push.job = "queued" THEN push ELSE [push EXCEPT !.lock = w]
  /\ UNCHANGED <<active, rows, told, decide>>
\* enqueue of the push: a new row, or the open one refreshed.
Enqueue(w) ==
  /\ write[w].pc = "enqueue" /\ push.lock = None
  /\ write' = [write EXCEPT ![w].pc = "commit"]
  /\ push' = [push EXCEPT !.lock = w]
  /\ UNCHANGED <<active, rows, told, decide>>

Freed(w) == IF push.lock = w THEN [push EXCEPT !.lock = None, !.job = "queued"] ELSE push

\* upsert_pending for each claim, against the row the writer saw: the same
\* claim is refreshed, another one supersedes it.
New(w) == {c \in write[w].claims :
             LET i == write[w].seen[SlotOf[c]] IN i > 0 => rows[i].claim # c}
Replaced(w) == {write[w].seen[SlotOf[c]] : c \in New(w)} \ {0}
\* Somebody else has inserted a pending row (ux_taxonomy_proposals_open_slot).
Clash(w) == \E c \in New(w) : ~ Open(SlotOf[c]) \subseteq {write[w].seen[SlotOf[c]]}

Commit(w) ==
  /\ write[w].pc = "commit" /\ ~Clash(w) /\ Len(rows) + Cardinality(New(w)) <= MaxRows
  /\ rows' = [i \in DOMAIN rows |-> IF i \in Replaced(w)
                                      THEN [rows[i] EXCEPT !.status = "superseded"] ELSE rows[i]]
             \o SetToSeq({[claim |-> c, status |-> "pending", by |-> w] : c \in New(w)})
  /\ active' = IF write[w].won THEN UNION {Winning(c) : c \in write[w].claims} ELSE active
  /\ write' = [write EXCEPT ![w] = Off] /\ push' = Freed(w)
  /\ UNCHANGED <<told, decide>>

\* The unique index refuses the row, or the transaction fails otherwise.
Abort(w) ==
  /\ write[w].pc # "off"
  /\ write' = [write EXCEPT ![w] = Off]
  /\ push' = IF push.lock = w THEN [push EXCEPT !.lock = None] ELSE push
  /\ UNCHANGED <<active, rows, told, decide>>

-----------------------------------------------------------------------------
(* The webhook and the host                                                *)

\* list_pending(limit)
FirstPending ==
  LET P == {i \in DOMAIN rows : rows[i].status = "pending"}
  IN  {i \in P : Cardinality({j \in P : j < i}) < Page}

\* The worker claims the job and loads a page; with nothing pending it is done.
PushLoad ==
  /\ push.job = "queued" /\ push.lock = None
  /\ push' = IF FirstPending = {} THEN [push EXCEPT !.job = "none"]
             ELSE [push EXCEPT !.lock = "worker", !.page = FirstPending]
  /\ UNCHANGED <<active, rows, told, write, decide>>

\* The host answers the POST.
Deliver ==
  /\ push.lock = "worker" /\ ~ push.page \subseteq told
  /\ told' = told \cup push.page
  /\ UNCHANGED <<active, rows, write, decide, push>>

\* A refused POST, a lost answer or a dead worker: retried, or dead at the end.
PushFails(job) ==
  /\ push.lock = "worker"
  /\ push' = [job |-> job, lock |-> None, page |-> {}]
  /\ UNCHANGED <<active, rows, told, write, decide>>

\* Leftovers ask for another pass.
PushDone ==
  /\ push.lock = "worker" /\ push.page \subseteq told
  /\ push' = [job |-> IF FirstPending \subseteq push.page THEN "none" ELSE "queued",
              lock |-> None, page |-> {}]
  /\ UNCHANGED <<active, rows, told, write, decide>>

\* mark_applied, mark_rejected: the check, and the write at the commit.
DecideLook(i) ==
  /\ decide = 0 /\ i \in DOMAIN rows /\ rows[i].status = "pending"
  /\ decide' = i
  /\ UNCHANGED <<active, rows, told, write, push>>
DecideWrite(status) ==
  /\ decide # 0 /\ rows' = [rows EXCEPT ![decide].status = status]
  /\ decide' = 0
  /\ UNCHANGED <<active, told, write, push>>

Next ==
  \/ \E c \in Claims : Activate(c) \/ Retract(c) \/ \E won \in BOOLEAN : Promote(c, won)
  \/ \E w \in Writers : Generate(w) \/ Enqueue(w) \/ Commit(w) \/ Abort(w)
  \/ PushLoad \/ Deliver \/ PushDone \/ \E job \in {"queued", "dead"} : PushFails(job)
  \/ \E i \in 1 .. MaxRows : DecideLook(i)
  \/ \E status \in {"applied", "rejected"} : DecideWrite(status)

Spec == Init /\ [][Next]_vars

TypeOK ==
  /\ active \subseteq Claims /\ told \subseteq DOMAIN rows
  /\ \A i \in DOMAIN rows : rows[i].claim \in Claims
       /\ rows[i].status \in {"pending", "superseded", "applied", "rejected"}
  /\ push.lock \in Writers \cup {None, "worker"} /\ push.job \in {"none", "queued", "dead"}

-----------------------------------------------------------------------------
(* Properties                                                              *)

\* When the push job is done, whoever is about to open it again, the host has
\* received every pending row that a writer has announced; and a slot has one
\* pending row.
NothingUntold ==
  /\ \A s \in Slots : Cardinality(Open(s)) <= 1
  /\ push.job = "none" => \A i \in DOMAIN rows :
       rows[i].status = "pending" /\ rows[i].by # "route" => i \in told

\* Of every step: only a pending row is decided, and a decision stands.
DecisionStands ==
  \A i \in DOMAIN rows : rows'[i].status # rows[i].status => rows[i].status = "pending"

\* A value that was applied or rejected is not proposed again.
NeverAskedTwice ==
  \A i, j \in DOMAIN rows :
    i < j /\ rows[i].claim = rows[j].claim /\ rows[i].status \in {"applied", "rejected"}
      => rows[j].status # "pending"

\* Of every step: after a generation on the claims of now, what is pending is
\* the active claim of its slot that has evidence and ranks first.
PendingIsActive ==
  \A w \in Writers \ {"agent"} :
    write[w].pc = "commit" /\ write'[w].pc = "off" /\ rows' # rows /\ write[w].claims = Winners
      => \A i \in DOMAIN rows' : rows'[i].status = "pending" => rows'[i].claim \in Winners
=============================================================================
