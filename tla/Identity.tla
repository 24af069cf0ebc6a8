------------------------------ MODULE Identity ------------------------------
(***************************************************************************)
(* Who is who: EntityResolutionService observes the actors of an envelope, *)
(* handle_adjudicate_persons decides candidate pairs around a model call,  *)
(* merge_people and split_person move rows between persons.                *)
(*                                                                         *)
(* An observation reads whose alias it is without a lock.  What it writes  *)
(* afterwards waits for the persons row, which an adjudication holds FOR   *)
(* UPDATE while it waits for the model; the person is not read again.      *)
(* Once it has the row an observation runs to its commit undisturbed, so   *)
(* this is one step.                                                       *)
(*                                                                         *)
(* Everybody has the same name, so that search_by_name finds every pair    *)
(* and a shared verified address is what corroboration comes down to.  A   *)
(* source does not change an address it has reported.  Persons are         *)
(* numbered in the order of created_at.  claims is one registry-exclusive  *)
(* predicate of persons; whom its ranking prefers is left open (FactSlot). *)
(***************************************************************************)
EXTENDS Naturals, FiniteSets

CONSTANTS
  Keys,        \* source identities: source_system with external_id
  Source,      \* Source[k]: the source_system of k
  Mails,       \* verified addresses
  Identities,  \* what an envelope may say of an actor: key, identifiers, mail
  Values,      \* object_text
  Ingests,     \* API requests that ingest a new document
  Promoters,   \* API requests that promote a fact about a person
  Workers,     \* workers that run adjudicate_persons jobs
  None,        \* no address, no value
  MaxPeople,   \* bound: persons
  MaxRequests, \* bound: requests
  MaxFaults    \* bound: failed model calls and worker deaths

Requests == Ingests \cup Promoters

ASSUME IdentityAssumption ==
  /\ Identities \subseteq [key : Keys, also : SUBSET Keys, mail : Mails \cup {None}]
  /\ None \notin Mails \cup Values /\ Ingests \cap Promoters = {}
  /\ Source \in [Keys -> {Source[k] : k \in Keys}]
  /\ {MaxPeople, MaxRequests, MaxFaults} \subseteq Nat

VARIABLES
  people,    \* persons 1 .. people exist
  into,      \* merged_into_id (0: a canonical root)
  alias,     \* person_aliases by key (owner 0: no row)
  parts,     \* document_participants
  claims,
  refresh,   \* persons with an open refresh_identity_embedding job
  pairs,     \* pairs with an open adjudicate_persons job
  decisions, \* person_merge_decisions
  request,   \* the requests: stage and the person they have read
  work,      \* the pair a worker asks the model about, its rows locked
  overtaken, \* persons that were merged while a request had already read them
  begun, faults

vars == <<people, into, alias, parts, claims, refresh, pairs, decisions,
          request, work, overtaken, begun, faults>>
rows == <<people, into, alias, parts, claims>>

People == 1 .. MaxPeople
Pairs == {pr \in SUBSET People : Cardinality(pr) = 2}
NoAlias == [owner |-> 0, observed |-> 0, mail |-> None]
NoRequest == [stage |-> "idle", identity |-> None, person |-> 0]

\* What the first n persons may own.
Row(n) == [owner : 1 .. n, observed : 1 .. n]
AliasRow(n) == [owner : 1 .. n, observed : 1 .. n, mail : Mails \cup {None}]
Fact(n) == [owner : 1 .. n, observed : 1 .. n, value : Values,
            status : {"active", "superseded"}]
\* A verdict on a pair, with the identity_fingerprint it was given on.
Verdict == [pair : Pairs,
            status : {"blocked_conflict", "same", "different", "unsure", "auto_merged", "split_conflict"},
            print : SUBSET [id : People,
                            rows : SUBSET [key : Keys, mail : Mails \cup {None}, observed : People]]]

TypeOK ==
  /\ people \in 0 .. MaxPeople
  /\ into \in [People -> 0 .. people]
  /\ \A p \in People : into[p] # 0 => into[p] < p /\ p <= people
  /\ alias \in [Keys -> AliasRow(people) \cup {NoAlias}]
  /\ parts \subseteq Row(people) /\ claims \subseteq Fact(people)
  /\ refresh \subseteq 1 .. people /\ pairs \subseteq Pairs \cap SUBSET (1 .. people)
  /\ decisions \subseteq Verdict
  /\ request \in [Requests -> [stage : {"idle", "matched", "recognised", "checked"},
                             identity : Identities \cup {None}, person : 0 .. people]]
  /\ \A r \in Requests : /\ request[r].stage = "matched" => request[r].identity \in Identities
                         /\ request[r].stage \in {"recognised", "checked"} => request[r].person # 0
  /\ work \in [Workers -> pairs \cup {{}}]
  /\ overtaken \subseteq People /\ begun \in 0 .. MaxRequests /\ faults \in 0 .. MaxFaults

-----------------------------------------------------------------------------
(* Evidence                                                                *)

Owned(al, p) == {k \in Keys : al[k].owner = p}
Observed(al, p) == {k \in Keys : al[k].owner # 0 /\ al[k].observed = p}
Locked(p) == \E w \in Workers : p \in work[w]

\* hard_identity_conflicts: a source that knows both under different ids.
OfSource(K, s) == {k \in K : Source[k] = s}
Conflicting(K, L) ==
  \E s \in {Source[k] : k \in K} \cap {Source[k] : k \in L} :
    OfSource(K, s) \cap OfSource(L, s) = {}

\* identity_fingerprint over the given rows of two persons.
Evidence(p, K) == [id |-> p, rows |-> {[key |-> k, mail |-> alias[k].mail,
                                        observed |-> alias[k].observed] : k \in K}]
Fingerprint(pr) == {Evidence(p, Owned(alias, p)) : p \in pr}

Decision(pr, status, print) == [pair |-> pr, status |-> status, print |-> print]
DecisionOn(pr, status) == Decision(pr, status, Fingerprint(pr))

Mailing(p) == {alias[k].mail : k \in Owned(alias, p)} \ {None}
Corroborated(pr) == \A p, q \in pr : Mailing(p) \cap Mailing(q) # {}

-----------------------------------------------------------------------------
(* Facts                                                                   *)

Active(C, p) == {c \in C : c.owner = p /\ c.status = "active"}

\* Eager close: one active value of the slot stays, the others are superseded.
NotClosed(C, p) == {C}
Closings(C, p) ==
  IF Active(C, p) = {} THEN {C}
  ELSE {{IF c \in Active(C, p) \ {winner} THEN [c EXCEPT !.status = "superseded"] ELSE c :
           c \in C} : winner \in Active(C, p)}

\* add_claim and eager close for person p; no value writes nothing.
Stated(C, p, v) ==
  IF v = None THEN {C}
  ELSE Closings(IF \E c \in Active(C, p) : c.value = v THEN C
                ELSE C \cup {[owner |-> p, observed |-> p, value |-> v, status |-> "active"]}, p)

\* uq_claims_live_object refuses to give p's value to q, who has it already.
SameValue(C, p, q) == \E c \in Active(C, p), d \in Active(C, q) : c.value = d.value
Clash(pr) == \E p, q \in pr : p # q /\ SameValue(claims, p, q)

-----------------------------------------------------------------------------
(* Ingest: observe_identity                                                *)

\* _deterministic_match: by source id, by verified identifier, by address.
Matches(d) ==
  LET byId == {alias[k].owner : k \in d.also} \ {0}
      byMail == {alias[k].owner : k \in {j \in Keys : alias[j].mail = d.mail}} \ {0}
  IN  IF alias[d.key].owner # 0 THEN {alias[d.key].owner}
      ELSE IF byId # {} THEN byId
      ELSE IF d.mail # None /\ byMail # {} THEN byMail
      ELSE {0}

Match(r, d) ==
  /\ request[r] = NoRequest /\ begun < MaxRequests
  /\ begun' = begun + 1
  /\ \E p \in Matches(d) :
       request' = [request EXCEPT ![r] = [stage |-> "matched", identity |-> d, person |-> p]]
  /\ UNCHANGED <<rows, refresh, pairs, decisions, work, overtaken, faults>>

\* add_alias looks for the key among the person's own rows only.
Unrecorded(d, p) == {k \in {d.key} \cup d.also : p = 0 \/ alias[k].owner # p}
Taken(d, p) == {k \in Unrecorded(d, p) : alias[k].owner # 0}

NewAlias(p, mail) == [owner |-> p, observed |-> p, mail |-> mail]
WithAliases(d, new, p) ==
  [k \in Keys |->
     IF k \in new THEN NewAlias(p, IF k = d.key THEN d.mail ELSE None)
     ELSE IF k = d.key /\ d.mail # None THEN [alias[k] EXCEPT !.mail = d.mail]
     ELSE alias[k]]

\* reconcile_merged_identity_conflicts: merged children that contradict p.
NeverContradicted(al, p) == {}
Contradicted(al, p) ==
  {c \in People : into[c] = p /\ Conflicting(Observed(al, p), Observed(al, c))}

\* split_person: rows go back to the person for whom they were observed.
Restored(x, p, S) == IF x.owner = p /\ x.observed \in S THEN [x EXCEPT !.owner = x.observed] ELSE x
RestoredRowsKept(X, p, S) == X
RestoredRows(X, p, S) == {Restored(x, p, S) : x \in X}
Reversed(d, p, S) ==
  IF d.status = "auto_merged" /\ \E c \in S : d.pair = {p, c}
    THEN [d EXCEPT !.status = "split_conflict"] ELSE d
Splits(al, p, S) ==
  {Decision({p, c}, "split_conflict",
            {[id |-> q, rows |-> {[key |-> k, mail |-> al[k].mail, observed |-> q] :
                                    k \in Observed(al, q)}] : q \in {p, c}}) : c \in S}

\* Every alias is recorded already: nothing is written, and nothing locked,
\* before the persons row is.
Recognise(r) ==
  LET q == request[r]
      d == q.identity IN
  /\ q.stage = "matched" /\ q.person # 0 /\ Unrecorded(d, q.person) = {}
  /\ d.mail \in {None, alias[d.key].mail} /\ Contradicted(alias, q.person) = {}
  /\ request' = [request EXCEPT ![r].stage = "recognised"]
  /\ UNCHANGED <<rows, refresh, pairs, decisions, work, overtaken, begun, faults>>

\* Something is new.  The INSERT of an alias waits for an adjudication of the
\* person; then the children that contradict are split off, the document gets
\* its participant, the structured field its claim, and all of it commits.
Observe(r) ==
  LET q == request[r]
      d == q.identity
      p == IF q.person = 0 THEN people + 1 ELSE q.person
      new == Unrecorded(d, q.person)
      al == WithAliases(d, new, p)
      S == Contradicted(al, p)
      kept == RestoredRows(claims, p, S) IN
  /\ q.stage = "matched" /\ Taken(d, q.person) = {} /\ p \in People /\ ~Locked(p)
  /\ new # {} \/ d.mail \notin {None, alias[d.key].mail} \/ S # {}
  /\ \A c \in S : \A x \in Active(claims, c) :
       ~\E y \in Active(claims, p) : y.observed = c /\ y.value = x.value
  /\ people' = IF q.person = 0 THEN p ELSE people
  /\ alias' = [k \in Keys |-> Restored(al[k], p, S)]
  /\ into' = [c \in People |-> IF c \in S THEN 0 ELSE into[c]]
  /\ parts' = RestoredRows(parts, p, S) \cup {[owner |-> p, observed |-> p]}
  /\ \E v \in Values \cup {None} : claims' \in Stated(kept, p, v)
  /\ decisions' = {Reversed(x, p, S) : x \in decisions} \cup Splits(al, p, S)
  /\ refresh' = refresh \cup {p}
  /\ request' = [request EXCEPT ![r] = NoRequest]
  /\ UNCHANGED <<pairs, work, overtaken, begun, faults>>

\* The rest of the request of a recognised actor, once its persons row is free.
Attach(r) ==
  LET p == request[r].person IN
  /\ request[r].stage = "recognised" /\ ~Locked(p)
  /\ parts' = parts \cup {[owner |-> p, observed |-> p]}
  /\ \E v \in Values \cup {None} : claims' \in Stated(claims, p, v)
  /\ refresh' = refresh \cup {p}
  /\ request' = [request EXCEPT ![r] = NoRequest]
  /\ UNCHANGED <<people, into, alias, pairs, decisions, work, overtaken, begun, faults>>

\* A promotion checks that its subject is a root, and locks no person at all.
CheckSubject(r, p) ==
  /\ request[r] = NoRequest /\ begun < MaxRequests
  /\ p <= people /\ into[p] = 0
  /\ begun' = begun + 1
  /\ request' = [request EXCEPT ![r] = [stage |-> "checked", identity |-> None, person |-> p]]
  /\ UNCHANGED <<rows, refresh, pairs, decisions, work, overtaken, faults>>

Promote(r) ==
  /\ request[r].stage = "checked"
  /\ \E v \in Values : claims' \in Stated(claims, request[r].person, v)
  /\ request' = [request EXCEPT ![r] = NoRequest]
  /\ UNCHANGED <<people, into, alias, parts, refresh, pairs, decisions, work, overtaken, begun, faults>>

\* The request fails, for instance because a key is somebody else's.
Abort(r) ==
  /\ request[r] # NoRequest
  /\ request' = [request EXCEPT ![r] = NoRequest]
  /\ UNCHANGED <<rows, refresh, pairs, decisions, work, overtaken, begun, faults>>

-----------------------------------------------------------------------------
(* Workers                                                                 *)

\* refresh_identity_embedding: everybody of the same name is a candidate; an
\* enqueue waits for the run of its pair.
RefreshIdentity(p) ==
  LET candidates == IF into[p] # 0 THEN {} ELSE {{p, q} : q \in (1 .. people) \ {p}} IN
  /\ p \in refresh
  /\ \A w \in Workers : work[w] \notin candidates
  /\ refresh' = refresh \ {p}
  /\ pairs' = pairs \cup candidates
  /\ UNCHANGED <<rows, decisions, request, work, overtaken, begun, faults>>

\* A worker claims a pair and gets both persons rows.
Take(w, pr) ==
  /\ work[w] = {} /\ pr \in pairs
  /\ \A p \in pr : ~Locked(p)

Roots(pr) == \A p \in pr : into[p] = 0
Decided(pr) == \E d \in decisions : d.print = Fingerprint(pr)

\* One of them has been merged, or this evidence has had its verdict.
ClosedByMerge(pr) == ~Roots(pr)
Closed(pr) == ~Roots(pr) \/ Decided(pr)

Skip(w, pr) ==
  /\ Take(w, pr) /\ Closed(pr)
  /\ pairs' = pairs \ {pr}
  /\ UNCHANGED <<rows, refresh, decisions, request, work, overtaken, begun, faults>>

Contradictory(pr) == \E p, q \in pr : p # q /\ Conflicting(Owned(alias, p), Owned(alias, q))

\* Decided without the model: a hard conflict, or too little in common.
DecideAlone(w, pr) ==
  /\ Take(w, pr) /\ Roots(pr) /\ ~Decided(pr)
  /\ \/ Contradictory(pr) /\ decisions' = decisions \cup {DecisionOn(pr, "blocked_conflict")}
     \/ /\ ~Contradictory(pr) /\ ~Corroborated(pr)
        /\ decisions' = decisions \cup {DecisionOn(pr, "unsure")}
  /\ pairs' = pairs \ {pr}
  /\ UNCHANGED <<rows, refresh, request, work, overtaken, begun, faults>>

Ask(w, pr) ==
  /\ Take(w, pr) /\ Roots(pr) /\ ~Decided(pr)
  /\ ~Contradictory(pr) /\ Corroborated(pr)
  /\ work' = [work EXCEPT ![w] = pr]
  /\ UNCHANGED <<rows, refresh, pairs, decisions, request, overtaken, begun, faults>>

\* The verdict is in: the pair's job is done and its rows are free.
Settle(w, status) ==
  /\ pairs' = pairs \ {work[w]}
  /\ decisions' = decisions \cup {DecisionOn(work[w], status)}
  /\ work' = [work EXCEPT ![w] = {}]

Decline(w) ==
  /\ work[w] # {}
  /\ \E status \in {"same", "different", "unsure"} : Settle(w, status)
  /\ UNCHANGED <<rows, refresh, request, overtaken, begun, faults>>

\* merge_people: the younger person's rows go to the elder, whose exclusive
\* slot is closed again.
Given(x, p, q) == IF x.owner = q THEN [x EXCEPT !.owner = p] ELSE x
GivenRowsKept(X, p, q) == X
GivenRows(X, p, q) == {Given(x, p, q) : x \in X}
Merge(w) ==
  /\ work[w] # {} /\ ~Clash(work[w])
  /\ \E p, q \in work[w] :
       /\ p < q
       /\ alias' = [k \in Keys |-> Given(alias[k], p, q)]
       /\ parts' = GivenRows(parts, p, q)
       /\ claims' \in Closings(GivenRows(claims, p, q), p)
       /\ into' = [into EXCEPT ![q] = p]
       /\ overtaken' = IF \E r \in Requests : request[r].person = q
                         THEN overtaken \cup {q} ELSE overtaken
  /\ Settle(w, "auto_merged")
  /\ UNCHANGED <<people, refresh, request, begun, faults>>

\* The UPDATE of the claims breaks the live-value index: the transaction is
\* aborted, the process ends and the job is as it was.
MergeClash(w) ==
  /\ work[w] # {} /\ Clash(work[w])
  /\ work' = [work EXCEPT ![w] = {}]
  /\ UNCHANGED <<rows, refresh, pairs, decisions, request, overtaken, begun, faults>>

\* The model fails or answers nonsense, or the worker dies: another attempt.
CallFails(w) ==
  /\ work[w] # {} /\ faults < MaxFaults
  /\ faults' = faults + 1
  /\ work' = [work EXCEPT ![w] = {}]
  /\ UNCHANGED <<rows, refresh, pairs, decisions, request, overtaken, begun>>

-----------------------------------------------------------------------------
Init ==
  /\ people = 0 /\ into = [p \in People |-> 0]
  /\ alias = [k \in Keys |-> NoAlias]
  /\ parts = {} /\ claims = {} /\ refresh = {} /\ pairs = {} /\ decisions = {}
  /\ request = [r \in Requests |-> NoRequest]
  /\ work = [w \in Workers |-> {}]
  /\ overtaken = {} /\ begun = 0 /\ faults = 0

Adjudicate(pr) == \E w \in Workers : Skip(w, pr) \/ DecideAlone(w, pr) \/ Ask(w, pr)
Answer(w) == Decline(w) \/ Merge(w) \/ MergeClash(w)

Next ==
  \/ \E r \in Ingests :
       \/ \E d \in Identities : Match(r, d)
       \/ Recognise(r) \/ Observe(r) \/ Attach(r)
  \/ \E r \in Promoters : Promote(r) \/ \E p \in People : CheckSubject(r, p)
  \/ \E r \in Requests : Abort(r)
  \/ \E p \in People : RefreshIdentity(p)
  \/ \E pr \in Pairs : Adjudicate(pr)
  \/ \E w \in Workers : Answer(w) \/ CallFails(w)

Spec == Init /\ [][Next]_vars

\* A worker gets the rows it waits for in its turn, and the model answers.
Fairness ==
  /\ \A pr \in Pairs : SF_vars(Adjudicate(pr))
  /\ \A w \in Workers : WF_vars(Answer(w))
  /\ \A p \in People : WF_vars(RefreshIdentity(p))

FairSpec == Spec /\ Fairness

-----------------------------------------------------------------------------
(* Properties                                                              *)

\* What belongs to a person: aliases, participants, claims.
Belongings == {alias[k] : k \in {j \in Keys : alias[j].owner # 0}} \cup parts \cup claims

\* Nothing belongs to a person who has been merged, in particular nothing that
\* arrived after the merge: every reader follows the merge away from it.  Only
\* a request that had read the person before the merge can break this.
OwnersAreRootsUnless(excused) ==
  \A x \in Belongings : into[x.owner] = 0 \/ x.owner \in excused
OwnersAreRoots == OwnersAreRootsUnless(overtaken)

\* What was observed for one person stays together through merges, merges of
\* merges and splits: aliases, documents and facts never end up with different
\* persons.
RowsStayTogether ==
  \A x, y \in Belongings :
    x.observed = y.observed /\ x.observed \notin overtaken => x.owner = y.owner

\* A person is never merged with one whom a source knows as somebody else,
\* however late the evidence arrives; so two who were split for that are never
\* merged again.
NoConflictInside ==
  \A p, c \in People \ overtaken :
    into[c] = p => ~Conflicting(Observed(alias, p), Observed(alias, c))

\* A person about whom something was stated has exactly one value in force,
\* through merges of persons who each had one.  A split breaks this: what the
\* merge has superseded stays so, also when either of the two is merged again.
ValueInForceUnless(excused) ==
  \A p \in People \ excused :
    (\E c \in claims : c.owner = p) => Cardinality(Active(claims, p)) = 1
SplitPeople == UNION {d.pair : d \in {e \in decisions : e.status = "split_conflict"}}
ClosedUnderMerge(T) ==
  \A d \in decisions : d.status = "auto_merged" /\ d.pair \cap T # {} => d.pair \subseteq T
SplitOrMergedWithSplit ==
  {p \in People : \A T \in SUBSET People :
                    SplitPeople \subseteq T /\ ClosedUnderMerge(T) => p \in T}
ValueInForce == ValueInForceUnless(overtaken \cup SplitOrMergedWithSplit)

\* Every candidate pair gets a verdict, unless a pair with a common value
\* blocks the queue.
PairsSettle ==
  \A pr \in Pairs : pr \in pairs ~> pr \notin pairs \/ \E other \in pairs : Clash(other)

\* The same without the exceptions; instances of their own show where each of
\* them fails.
EveryOwnerIsRoot == OwnersAreRootsUnless({})
ValueAlwaysInForce == ValueInForceUnless({})
EveryPairSettles == \A pr \in Pairs : pr \in pairs ~> pr \notin pairs

\* A component is free of contradictions, over several merges too.
ComponentsAgree ==
  \A j, k \in Keys :
    /\ alias[j].owner # 0 /\ alias[j].owner = alias[k].owner
    /\ Source[j] = Source[k]
    => alias[j].observed = alias[k].observed

\* An actor who is known under one of the keys of an envelope can be recorded.
KeysAgree ==
  \A r \in Requests : request[r].stage = "matched" /\ request[r].person # 0 =>
    Taken(request[r].identity, request[r].person) = {}
=============================================================================
