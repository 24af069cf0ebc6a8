--------------------------- MODULE Identity_proofs ---------------------------
(***************************************************************************)
(* Proofs about Identity, for any sources, keys, identities and requests   *)
(* and every value of the bounds.                                          *)
(***************************************************************************)
EXTENDS Identity, FiniteSetTheorems, TLAPS

-----------------------------------------------------------------------------
(* The inductive invariant                                                 *)

\* Where a belonging is, and for whom it was observed.
Seat(p, o) == [owner |-> p, observed |-> o]
Seats(X) == {Seat(x.owner, x.observed) : x \in X}
Aliases == {alias[k] : k \in {j \in Keys : alias[j].owner # 0}}
AliasSeats == Seats(Aliases)
AllSeats == Seats(Belongings)

\* A pair that the model is asked about stays as it was when it was taken.
WorkInv ==
  /\ \A w \in Workers : work[w] # {} =>
       /\ Roots(work[w]) /\ ~Contradictory(work[w])
       /\ \A p \in work[w] : Owned(alias, p) # {}
  /\ \A v, w \in Workers : v # w => work[v] \cap work[w] = {}

\* Belongings and requests are with roots, unless a merge has overtaken them.
RootInv ==
  /\ \A s \in AllSeats : into[s.owner] = 0 \/ s.owner \in overtaken
  /\ \A r \in Requests : LET p == request[r].person IN
       p # 0 => into[p] = 0 \/ p \in overtaken

\* Belongings in the seats X that were observed for one person are together, and
\* with that person himself if he is in P: if he has an alias, or a request works
\* for him.  The persons in O are excepted.
Home(X, P, O) ==
  /\ \A x, y \in X : x.observed = y.observed /\ x.observed \notin O => x.owner = y.owner
  /\ \A x \in X : x.observed \in P \ O => x.owner = x.observed
Present == {s.owner : s \in AliasSeats} \cup {request[r].person : r \in Ingests}
HomeInv(X) == Home(X, Present, overtaken)

TogetherInv == HomeInv(AllSeats)

IInv == TypeOK /\ WorkInv /\ RootInv /\ HomeInv(AliasSeats) /\ NoConflictInside

-----------------------------------------------------------------------------
(* Persons, rows and pairs                                                 *)

LEMMA PeopleType ==
  ASSUME TypeOK
  PROVE  /\ 1 .. people \subseteq People /\ people \in Nat /\ 0 \notin People
         /\ People \subseteq Nat /\ MaxPeople \in Nat /\ MaxRequests \in Nat
BY IdentityAssumption DEF TypeOK, People

LEMMA PairType ==
  ASSUME NEW pr \in Pairs
  PROVE  \E p, q \in People : p # q /\ pr = {p, q}
<1>1. pr \subseteq People /\ Cardinality(pr) = 2  BY DEF Pairs
<1>2. IsFiniteSet(People)
  <2>1. 1 \in Int /\ MaxPeople \in Int  BY IdentityAssumption
  <2> QED  BY <2>1, FS_Interval DEF People
<1>3. IsFiniteSet(pr)  BY <1>1, <1>2, FS_Subset
<1>4. pr # {}  BY <1>1, FS_EmptySet
<1>5. PICK p : p \in pr  BY <1>4
<1>6. Cardinality(pr \ {p}) = 1 /\ IsFiniteSet(pr \ {p})
  BY <1>1, <1>3, <1>5, FS_RemoveElement
<1>7. pr \ {p} # {}  BY <1>6, FS_EmptySet
<1>8. PICK q : pr \ {p} = {q}  BY <1>6, FS_Singleton
<1> QED  BY <1>1, <1>5, <1>8

LEMMA TwoArePair ==
  ASSUME TypeOK, NEW p \in 1 .. people, NEW q \in 1 .. people, p # q
  PROVE  {p, q} \in Pairs \cap SUBSET (1 .. people)
<1>1. p \in People /\ q \in People  BY PeopleType
<1>2. Cardinality({p, q}) = 2
  <2>1. IsFiniteSet({p}) /\ Cardinality({p}) = 1  BY FS_Singleton
  <2>2. {p, q} = {p} \cup {q} /\ q \notin {p}  OBVIOUS
  <2>3. Cardinality({p} \cup {q}) = Cardinality({p}) + 1
    BY <2>1, <2>2, FS_AddElement
  <2> QED  BY <2>1, <2>2, <2>3
<1> QED  BY <1>1, <1>2 DEF Pairs

\* Closing a slot moves no claim and adds none.
LEMMA ClosingsKeep ==
  ASSUME NEW n, NEW C \in SUBSET Fact(n), NEW p, NEW D \in Closings(C, p)
  PROVE  D \subseteq Fact(n) /\ Seats(D) = Seats(C)
<1>1. CASE Active(C, p) = {}
  BY <1>1 DEF Closings
<1>2. CASE Active(C, p) # {}
  <2>1. PICK winner \in Active(C, p) :
          D = {IF c \in Active(C, p) \ {winner} THEN [c EXCEPT !.status = "superseded"] ELSE c :
                 c \in C}
    BY <1>2 DEF Closings
  <2> DEFINE f(c) == IF c \in Active(C, p) \ {winner} THEN [c EXCEPT !.status = "superseded"] ELSE c
  <2>2. D = {f(c) : c \in C}  BY <2>1
  <2>3. \A c \in C : f(c) \in Fact(n) /\ f(c).owner = c.owner /\ f(c).observed = c.observed
    BY DEF Fact
  <2> HIDE DEF f
  <2>4. D \subseteq Fact(n)  BY <2>2, <2>3
  <2>5. \A s : s \in Seats(D) <=> s \in Seats(C)
    BY <2>2, <2>3 DEF Seats
  <2> QED  BY <2>4, <2>5
<1> QED  BY <1>1, <1>2

LEMMA StatedKeep ==
  ASSUME NEW n, NEW C \in SUBSET Fact(n), NEW p \in 1 .. n, NEW v \in Values \cup {None},
         NEW D \in Stated(C, p, v)
  PROVE  D \subseteq Fact(n) /\ Seats(D) \subseteq Seats(C) \cup {Seat(p, p)}
<1>1. CASE v = None
  BY <1>1 DEF Stated
<1>2. CASE v # None
  <2> DEFINE new == [owner |-> p, observed |-> p, value |-> v, status |-> "active"]
             E == IF \E c \in Active(C, p) : c.value = v THEN C ELSE C \cup {new}
  <2>1. new \in Fact(n) /\ new.owner = p /\ new.observed = p
    BY <1>2 DEF Fact
  <2>2. D \in Closings(E, p)
    BY <1>2 DEF Stated
  <2> HIDE DEF new
  <2>3. E \in SUBSET Fact(n) /\ Seats(E) \subseteq Seats(C) \cup {Seat(p, p)}
    BY <2>1 DEF Seats
  <2> HIDE DEF E
  <2> QED  BY <2>2, <2>3, ClosingsKeep
<1> QED  BY <1>1, <1>2

LEMMA AliasFacts ==
  ASSUME TypeOK, NEW k \in Keys
  PROVE  /\ alias[k].owner \in 0 .. people
         /\ alias[k].owner # 0 => alias[k] \in AliasRow(people)
         /\ alias[k].owner = 0 => alias[k] = NoAlias
         /\ alias[k].observed \in 0 .. people
<1>1. people \in Nat  BY PeopleType
<1>2. alias[k] \in AliasRow(people) \/ alias[k] = NoAlias  BY DEF TypeOK
<1> QED  BY <1>1, <1>2 DEF AliasRow, NoAlias

LEMMA SeatFacts ==
  ASSUME TypeOK
  PROVE  /\ AliasSeats \subseteq AllSeats
         /\ \A s \in AllSeats : s.owner \in 1 .. people /\ s.observed \in 1 .. people
<1>1. AliasSeats \subseteq AllSeats
  BY DEF AliasSeats, AllSeats, Seats, Belongings, Aliases
<1>2. ASSUME NEW x \in Belongings  PROVE x.owner \in 1 .. people /\ x.observed \in 1 .. people
  <2>1. CASE x \in parts  BY <2>1 DEF TypeOK, Row
  <2>2. CASE x \in claims  BY <2>2 DEF TypeOK, Fact
  <2>3. CASE \E k \in Keys : alias[k].owner # 0 /\ x = alias[k]
    BY <2>3, AliasFacts DEF AliasRow
  <2> QED  BY <2>1, <2>2, <2>3 DEF Belongings
<1> QED  BY <1>1, <1>2 DEF AllSeats, Seats, Seat

LEMMA SeatOfAlias ==
  ASSUME NEW k \in Keys, alias[k].owner # 0
  PROVE  Seat(alias[k].owner, alias[k].observed) \in AliasSeats
BY DEF AliasSeats, Aliases, Seats

-----------------------------------------------------------------------------
(* What an observation writes                                              *)

\* The person whom a request observes, and how many there are then.
Subject(r) == IF request[r].person = 0 THEN people + 1 ELSE request[r].person
Written(r) ==
  WithAliases(request[r].identity, Unrecorded(request[r].identity, request[r].person), Subject(r))
Split(r) == Contradicted(Written(r), Subject(r))

LEMMA WrittenFacts ==
  ASSUME TypeOK, NEW r \in Ingests, request[r].stage = "matched",
         Taken(request[r].identity, request[r].person) = {}, Subject(r) \in People,
         NEW n \in Nat, n >= people, n >= Subject(r)
  PROVE  /\ Written(r) \in [Keys -> AliasRow(n) \cup {NoAlias}]
         /\ \A k \in Keys :
              LET a == Written(r)[k] IN
              \/ alias[k].owner = 0 /\ a.owner = Subject(r) /\ a.observed = Subject(r)
              \/ a.owner = alias[k].owner /\ a.observed = alias[k].observed
<1> DEFINE d == request[r].identity  q == request[r].person  p == Subject(r)
           new == Unrecorded(d, q)
<1>1. /\ d \in Identities /\ q \in 0 .. people /\ p \in 1 .. n
      /\ d.key \in Keys /\ d.also \subseteq Keys /\ d.mail \in Mails \cup {None}
  <2>1. r \in Requests  BY DEF Requests
  <2>2. d \in Identities /\ q \in 0 .. people  BY <2>1 DEF TypeOK
  <2>3. p \in Nat /\ p > 0  BY PeopleType
  <2> QED  BY <2>2, <2>3, IdentityAssumption
<1>2. \A k \in new : k \in Keys /\ alias[k].owner = 0
  BY <1>1 DEF Taken, Unrecorded
<1>3. \A k \in Keys : k = d.key /\ k \notin new => alias[k].owner = q /\ q # 0
  BY <1>1 DEF Unrecorded
<1>4. ASSUME NEW k \in Keys
      PROVE  /\ Written(r)[k] \in AliasRow(n) \cup {NoAlias}
             /\ LET a == Written(r)[k] IN
                \/ alias[k].owner = 0 /\ a.owner = Subject(r) /\ a.observed = Subject(r)
                \/ a.owner = alias[k].owner /\ a.observed = alias[k].observed
  <2>0. Written(r)[k] = IF k \in new THEN NewAlias(p, IF k = d.key THEN d.mail ELSE None)
                        ELSE IF k = d.key /\ d.mail # None THEN [alias[k] EXCEPT !.mail = d.mail]
                        ELSE alias[k]
    BY DEF Written, WithAliases
  <2>1. CASE k \in new
    <3>1. Written(r)[k] = NewAlias(p, IF k = d.key THEN d.mail ELSE None)  BY <2>0, <2>1
    <3>2. (IF k = d.key THEN d.mail ELSE None) \in Mails \cup {None}  BY <1>1
    <3>3. Written(r)[k] \in AliasRow(n)  BY <1>1, <3>1, <3>2 DEF NewAlias, AliasRow
    <3> QED  BY <1>2, <2>1, <3>1, <3>3 DEF NewAlias
  <2>2. CASE k \notin new
    <3>1. alias[k] \in AliasRow(people) \cup {NoAlias}  BY DEF TypeOK
    <3>2. AliasRow(people) \subseteq AliasRow(n)  BY PeopleType DEF AliasRow
    <3>3. CASE k = d.key /\ d.mail # None
      <4>1. alias[k] \in AliasRow(people)  BY <1>3, <2>2, <3>3, AliasFacts
      <4>2. Written(r)[k] = [alias[k] EXCEPT !.mail = d.mail]  BY <2>0, <2>2, <3>3
      <4> QED  BY <1>1, <3>2, <4>1, <4>2 DEF AliasRow
    <3>4. CASE ~(k = d.key /\ d.mail # None)
      BY <2>0, <2>2, <3>1, <3>2, <3>4
    <3> QED  BY <3>3, <3>4
  <2> QED  BY <2>1, <2>2
<1>5. Written(r) \in [Keys -> AliasRow(n) \cup {NoAlias}]
  <2>1. Written(r) = [k \in Keys |-> Written(r)[k]]  BY DEF Written, WithAliases
  <2> HIDE DEF d, q, p, new
  <2> QED  BY <1>4, <2>1
<1> QED  BY <1>4, <1>5

LEMMA RestoredFacts ==
  ASSUME NEW n, NEW x, NEW p, NEW S
  PROVE  /\ x \in Row(n) => Restored(x, p, S) \in Row(n)
         /\ x \in Fact(n) => Restored(x, p, S) \in Fact(n)
         /\ x \in AliasRow(n) => Restored(x, p, S) \in AliasRow(n)
         /\ x \in Row(n) \/ x \in Fact(n) \/ x \in AliasRow(n) \/ x = NoAlias =>
              /\ Restored(x, p, S).observed = x.observed
              /\ Restored(x, p, S).owner = IF x.owner = p /\ x.observed \in S
                                           THEN x.observed ELSE x.owner
BY DEF Restored, Row, Fact, AliasRow, NoAlias

LEMMA RestoredSeats ==
  ASSUME NEW n, NEW X, X \subseteq Row(n) \/ X \subseteq Fact(n) \/ X \subseteq AliasRow(n),
         NEW p, NEW S
  PROVE  Seats(RestoredRows(X, p, S)) = {Restored(s, p, S) : s \in Seats(X)}
<1>1. ASSUME NEW x \in X
      PROVE  Restored(Seat(x.owner, x.observed), p, S)
               = Seat(Restored(x, p, S).owner, Restored(x, p, S).observed)
  <2>1. /\ Restored(x, p, S).observed = x.observed
        /\ Restored(x, p, S).owner = IF x.owner = p /\ x.observed \in S
                                     THEN x.observed ELSE x.owner
    BY RestoredFacts
  <2>2. Restored(Seat(x.owner, x.observed), p, S)
          = Seat(IF x.owner = p /\ x.observed \in S THEN x.observed ELSE x.owner, x.observed)
    BY DEF Restored, Seat
  <2> QED  BY <2>1, <2>2
<1> QED  BY <1>1 DEF Seats, RestoredRows

\* An observation in terms of seats: what was observed for a person who is split off
\* goes back to him, and what is new is the subject's own.
LEMMA ObserveShape ==
  ASSUME IInv, NEW r \in Ingests, Observe(r)
  PROVE  LET p == Subject(r)  S == Split(r) IN
         /\ p \in 1 .. people' /\ p \in People /\ people' \in people .. MaxPeople /\ ~Locked(p)
         /\ request[r].stage = "matched" /\ Taken(request[r].identity, request[r].person) = {}
         /\ \/ request[r].person = p /\ people' = people
            \/ request[r].person = 0 /\ p = people + 1
         /\ S \subseteq People /\ p \notin S /\ \A c \in S : into[c] = p
         /\ alias' = [k \in Keys |-> Restored(Written(r)[k], p, S)]
         /\ alias' \in [Keys -> AliasRow(people') \cup {NoAlias}]
         /\ parts' \subseteq Row(people') /\ claims' \subseteq Fact(people')
         /\ AliasSeats' \subseteq {Restored(s, p, S) : s \in AliasSeats} \cup {Seat(p, p)}
         /\ AllSeats' \subseteq {Restored(s, p, S) : s \in AllSeats} \cup {Seat(p, p)}
<1> DEFINE q == request[r].person  d == request[r].identity  p == Subject(r)  S == Split(r)
<1>0. TypeOK /\ r \in Requests /\ q \in 0 .. people
  BY DEF IInv, TypeOK, Requests
<1>1. /\ request[r].stage = "matched" /\ Taken(d, q) = {} /\ p \in People /\ ~Locked(p)
      /\ people' = IF q = 0 THEN p ELSE people
      /\ alias' = [k \in Keys |-> Restored(Written(r)[k], p, S)]
      /\ parts' = RestoredRows(parts, p, S) \cup {[owner |-> p, observed |-> p]}
      /\ \E v \in Values \cup {None} : claims' \in Stated(RestoredRows(claims, p, S), p, v)
  BY DEF Observe, Subject, Written, Split
<1>2. /\ p \in 1 .. people' /\ people' \in people .. MaxPeople /\ people' \in Nat /\ people \in Nat
      /\ \/ q = p /\ people' = people
         \/ q = 0 /\ p = people + 1
  BY <1>0, <1>1, PeopleType DEF Subject, People
<1>3. S \subseteq People /\ \A c \in S : into[c] = p
  BY DEF Split, Contradicted
<1>4. p \notin S
  <2> SUFFICES ASSUME p \in S PROVE FALSE  OBVIOUS
  <2>1. into[p] = p /\ p \in People  BY <1>3
  <2>2. p \in Nat /\ p # 0  BY <1>0, <1>1, PeopleType
  <2> QED  BY <1>0, <2>1, <2>2 DEF TypeOK
<1>5. /\ Written(r) \in [Keys -> AliasRow(people') \cup {NoAlias}]
      /\ \A k \in Keys :
           LET a == Written(r)[k] IN
           \/ alias[k].owner = 0 /\ a.owner = p /\ a.observed = p
           \/ a.owner = alias[k].owner /\ a.observed = alias[k].observed
  <2>1. people' >= people /\ people' >= p  BY <1>2
  <2> QED  BY <1>0, <1>1, <1>2, <2>1, WrittenFacts
<1> HIDE DEF p, S
<1>6. \A k \in Keys :
        /\ alias'[k] = Restored(Written(r)[k], p, S)
        /\ alias'[k] \in AliasRow(people') \cup {NoAlias}
        /\ alias'[k].observed = Written(r)[k].observed
        /\ alias'[k].owner = IF Written(r)[k].owner = p /\ Written(r)[k].observed \in S
                             THEN Written(r)[k].observed ELSE Written(r)[k].owner
  <2> SUFFICES ASSUME NEW k \in Keys
               PROVE  /\ alias'[k] = Restored(Written(r)[k], p, S)
                      /\ alias'[k] \in AliasRow(people') \cup {NoAlias}
                      /\ alias'[k].observed = Written(r)[k].observed
                      /\ alias'[k].owner = IF Written(r)[k].owner = p /\ Written(r)[k].observed \in S
                                           THEN Written(r)[k].observed ELSE Written(r)[k].owner
    OBVIOUS
  <2>1. alias'[k] = Restored(Written(r)[k], p, S)  BY <1>1
  <2>2. Written(r)[k] \in AliasRow(people') \/ Written(r)[k] = NoAlias  BY <1>5
  <2>3. 0 # p  BY <1>2
  <2>4. Restored(NoAlias, p, S) = NoAlias  BY <2>3 DEF Restored, NoAlias
  <2> QED  BY <2>1, <2>2, <2>4, RestoredFacts
<1>7. alias' \in [Keys -> AliasRow(people') \cup {NoAlias}]
  BY <1>1, <1>6
<1>8. AliasSeats' \subseteq {Restored(s, p, S) : s \in AliasSeats} \cup {Seat(p, p)}
  <2> SUFFICES ASSUME NEW k \in Keys, alias'[k].owner # 0
               PROVE  Seat(alias'[k].owner, alias'[k].observed)
                        \in {Restored(s, p, S) : s \in AliasSeats} \cup {Seat(p, p)}
    BY DEF AliasSeats, Aliases, Seats
  <2>1. CASE Written(r)[k].owner = p /\ Written(r)[k].observed = p
    BY <1>4, <1>6, <2>1
  <2>2. CASE Written(r)[k].owner = alias[k].owner /\ Written(r)[k].observed = alias[k].observed
    <3>1. alias[k].owner # 0
      <4>1. CASE alias[k].owner = p  BY <1>2, <4>1
      <4>2. CASE alias[k].owner # p  BY <1>6, <2>2, <4>2
      <4> QED  BY <4>1, <4>2
    <3>2. Seat(alias[k].owner, alias[k].observed) \in AliasSeats  BY <3>1, SeatOfAlias
    <3>3. Seat(alias'[k].owner, alias'[k].observed)
            = Restored(Seat(alias[k].owner, alias[k].observed), p, S)
      BY <1>6, <2>2 DEF Restored, Seat
    <3> QED  BY <3>2, <3>3
  <2> QED  BY <1>5, <2>1, <2>2
<1>9. /\ claims' \subseteq Fact(people')
      /\ Seats(claims') \subseteq Seats(RestoredRows(claims, p, S)) \cup {Seat(p, p)}
  <2>1. PICK v \in Values \cup {None} : claims' \in Stated(RestoredRows(claims, p, S), p, v)
    BY <1>1
  <2>2. claims \subseteq Fact(people')
    <3>1. Fact(people) \subseteq Fact(people')  BY <1>2 DEF Fact
    <3> QED  BY <1>0, <3>1 DEF TypeOK
  <2>3. RestoredRows(claims, p, S) \in SUBSET Fact(people')
    BY <2>2, RestoredFacts DEF RestoredRows
  <2> QED  BY <1>2, <2>1, <2>3, StatedKeep
<1>10. /\ parts' \subseteq Row(people')
       /\ Seats(parts') \subseteq Seats(RestoredRows(parts, p, S)) \cup {Seat(p, p)}
  <2>1. parts \subseteq Row(people')
    <3>1. Row(people) \subseteq Row(people')  BY <1>2 DEF Row
    <3> QED  BY <1>0, <3>1 DEF TypeOK
  <2>2. RestoredRows(parts, p, S) \subseteq Row(people')
    BY <2>1, RestoredFacts DEF RestoredRows
  <2>3. [owner |-> p, observed |-> p] \in Row(people')
    BY <1>2 DEF Row
  <2> QED  BY <1>1, <2>2, <2>3 DEF Seats
<1>11. AllSeats' \subseteq {Restored(s, p, S) : s \in AllSeats} \cup {Seat(p, p)}
  <2>1. /\ Seats(RestoredRows(claims, p, S)) = {Restored(s, p, S) : s \in Seats(claims)}
        /\ Seats(RestoredRows(parts, p, S)) = {Restored(s, p, S) : s \in Seats(parts)}
    <3>1. claims \subseteq Fact(people) /\ parts \subseteq Row(people)  BY <1>0 DEF TypeOK
    <3>2. Seats(RestoredRows(claims, p, S)) = {Restored(s, p, S) : s \in Seats(claims)}
      BY <3>1, RestoredSeats
    <3>3. Seats(RestoredRows(parts, p, S)) = {Restored(s, p, S) : s \in Seats(parts)}
      BY <3>1, RestoredSeats
    <3> QED  BY <3>2, <3>3
  <2>2. AllSeats = AliasSeats \cup Seats(parts) \cup Seats(claims)
    BY DEF AllSeats, AliasSeats, Aliases, Belongings, Seats
  <2>3. AllSeats' = AliasSeats' \cup Seats(parts') \cup Seats(claims')
    BY DEF AllSeats, AliasSeats, Aliases, Belongings, Seats
  <2> QED  BY <1>8, <1>9, <1>10, <2>1, <2>2, <2>3
<1> QED  BY <1>1, <1>2, <1>3, <1>4, <1>7, <1>8, <1>9, <1>10, <1>11 DEF p, S


LEMMA GivenFacts ==
  ASSUME NEW n, NEW x, NEW p \in 1 .. n, NEW q
  PROVE  /\ x \in Row(n) => Given(x, p, q) \in Row(n)
         /\ x \in Fact(n) => Given(x, p, q) \in Fact(n) /\ Given(x, p, q).status = x.status
         /\ x \in AliasRow(n) => Given(x, p, q) \in AliasRow(n)
         /\ x \in Row(n) \/ x \in Fact(n) \/ x \in AliasRow(n) \/ x = NoAlias =>
              /\ Given(x, p, q).observed = x.observed
              /\ Given(x, p, q).owner = IF x.owner = q THEN p ELSE x.owner
BY DEF Given, Row, Fact, AliasRow, NoAlias

LEMMA GivenSeats ==
  ASSUME NEW n, NEW X, X \subseteq Row(n) \/ X \subseteq Fact(n) \/ X \subseteq AliasRow(n),
         NEW p \in 1 .. n, NEW q
  PROVE  Seats(GivenRows(X, p, q)) = {Given(s, p, q) : s \in Seats(X)}
<1>1. ASSUME NEW x \in X
      PROVE  Given(Seat(x.owner, x.observed), p, q)
               = Seat(Given(x, p, q).owner, Given(x, p, q).observed)
  <2>1. /\ Given(x, p, q).observed = x.observed
        /\ Given(x, p, q).owner = IF x.owner = q THEN p ELSE x.owner
    BY GivenFacts
  <2>2. Given(Seat(x.owner, x.observed), p, q)
          = Seat(IF x.owner = q THEN p ELSE x.owner, x.observed)
    BY DEF Given, Seat
  <2> QED  BY <2>1, <2>2
<1> QED  BY <1>1 DEF Seats, GivenRows

\* A merge of q with the elder p: both are roots with aliases that do not
\* contradict each other, and everything that is q's becomes p's.
Merged(w, p, q) ==
  /\ work[w] = {p, q} /\ p # q /\ p < q /\ p \in 1 .. people /\ q \in 1 .. people
  /\ into[p] = 0 /\ into[q] = 0 /\ into' = [into EXCEPT ![q] = p]
  /\ Owned(alias, p) # {} /\ Owned(alias, q) # {}
  /\ ~Conflicting(Owned(alias, p), Owned(alias, q))
  /\ alias' = [k \in Keys |-> Given(alias[k], p, q)]
  /\ overtaken' = IF \E r \in Requests : request[r].person = q
                    THEN overtaken \cup {q} ELSE overtaken
  /\ pairs' = pairs \ {{p, q}} /\ work' = [work EXCEPT ![w] = {}]
  /\ decisions' = decisions \cup {DecisionOn({p, q}, "auto_merged")}
  /\ claims' \in Closings(GivenRows(claims, p, q), p)
  /\ UNCHANGED <<people, refresh, request, begun, faults>>
  /\ alias' \in [Keys -> AliasRow(people) \cup {NoAlias}]
  /\ \A k \in Keys : /\ alias'[k].observed = alias[k].observed
                     /\ alias'[k].owner = IF alias[k].owner = q THEN p ELSE alias[k].owner
  /\ parts' \subseteq Row(people) /\ claims' \subseteq Fact(people)
  /\ AliasSeats' = {Given(s, p, q) : s \in AliasSeats}
  /\ AllSeats' = {Given(s, p, q) : s \in AllSeats}

LEMMA MergeShape ==
  ASSUME IInv, NEW w \in Workers, Merge(w)
  PROVE  \E p, q \in People : Merged(w, p, q)
<1>0. TypeOK /\ WorkInv /\ people \in Nat  BY PeopleType DEF IInv
<1>1. PICK p \in work[w], q \in work[w] :
        /\ p < q
        /\ alias' = [k \in Keys |-> Given(alias[k], p, q)]
        /\ parts' = GivenRows(parts, p, q)
        /\ claims' \in Closings(GivenRows(claims, p, q), p)
        /\ into' = [into EXCEPT ![q] = p]
        /\ overtaken' = IF \E r \in Requests : request[r].person = q
                          THEN overtaken \cup {q} ELSE overtaken
  BY DEF Merge
<1>2. work[w] # {} /\ work[w] \in Pairs /\ work[w] \subseteq 1 .. people
  BY <1>0, <1>1 DEF TypeOK
<1>3. p \in 1 .. people /\ q \in 1 .. people /\ p \in People /\ q \in People /\ p # q
  BY <1>0, <1>1, <1>2, PeopleType
<1>4. work[w] = {p, q}
  BY <1>1, <1>2, <1>3, PairType
<1>5. /\ into[p] = 0 /\ into[q] = 0 /\ Owned(alias, p) # {} /\ Owned(alias, q) # {}
      /\ ~Conflicting(Owned(alias, p), Owned(alias, q))
  BY <1>0, <1>1, <1>2, <1>3 DEF WorkInv, Roots, Contradictory
<1>6. /\ pairs' = pairs \ {{p, q}} /\ work' = [work EXCEPT ![w] = {}]
      /\ decisions' = decisions \cup {DecisionOn({p, q}, "auto_merged")}
      /\ UNCHANGED <<people, refresh, request, begun, faults>>
  BY <1>4 DEF Merge, Settle
<1>7. \A k \in Keys : /\ alias'[k] \in AliasRow(people) \cup {NoAlias}
                      /\ alias'[k].observed = alias[k].observed
                      /\ alias'[k].owner = IF alias[k].owner = q THEN p ELSE alias[k].owner
  <2> SUFFICES ASSUME NEW k \in Keys
               PROVE  /\ alias'[k] \in AliasRow(people) \cup {NoAlias}
                      /\ alias'[k].observed = alias[k].observed
                      /\ alias'[k].owner = IF alias[k].owner = q THEN p ELSE alias[k].owner
    OBVIOUS
  <2>1. alias'[k] = Given(alias[k], p, q)  BY <1>1
  <2>2. alias[k] \in AliasRow(people) \/ alias[k] = NoAlias  BY <1>0 DEF TypeOK
  <2>3. q # 0  BY <1>3
  <2>4. Given(NoAlias, p, q) = NoAlias  BY <2>3 DEF Given, NoAlias
  <2> QED  BY <1>3, <2>1, <2>2, <2>4, GivenFacts
<1>8. alias' \in [Keys -> AliasRow(people) \cup {NoAlias}]
  BY <1>1, <1>7
<1>9. AliasSeats' = {Given(s, p, q) : s \in AliasSeats}
  <2> DEFINE K == {j \in Keys : alias[j].owner # 0}
  <2>1. {j \in Keys : alias'[j].owner # 0} = K
    BY <1>3, <1>7
  <2>2. AliasSeats' = {Seat(alias'[k].owner, alias'[k].observed) : k \in K}
    BY <2>1 DEF AliasSeats, Aliases, Seats
  <2>3. AliasSeats = {Seat(alias[k].owner, alias[k].observed) : k \in K}
    BY DEF AliasSeats, Aliases, Seats
  <2>4. \A k \in K : Seat(alias'[k].owner, alias'[k].observed)
                       = Given(Seat(alias[k].owner, alias[k].observed), p, q)
    BY <1>7 DEF Given, Seat
  <2> HIDE DEF K
  <2> QED  BY <2>2, <2>3, <2>4
<1>10. /\ claims \subseteq Fact(people) /\ parts \subseteq Row(people)
       /\ GivenRows(claims, p, q) \in SUBSET Fact(people)
       /\ GivenRows(parts, p, q) \subseteq Row(people)
  <2>1. claims \subseteq Fact(people) /\ parts \subseteq Row(people)  BY <1>0 DEF TypeOK
  <2> QED  BY <1>3, <2>1, GivenFacts DEF GivenRows
<1>11. claims' \subseteq Fact(people) /\ Seats(claims') = {Given(s, p, q) : s \in Seats(claims)}
  <2>1. claims' \subseteq Fact(people) /\ Seats(claims') = Seats(GivenRows(claims, p, q))
    BY <1>1, <1>10, ClosingsKeep
  <2>2. Seats(GivenRows(claims, p, q)) = {Given(s, p, q) : s \in Seats(claims)}
    BY <1>3, <1>10, GivenSeats
  <2> QED  BY <2>1, <2>2
<1>12. parts' \subseteq Row(people) /\ Seats(parts') = {Given(s, p, q) : s \in Seats(parts)}
  <2>1. Seats(GivenRows(parts, p, q)) = {Given(s, p, q) : s \in Seats(parts)}
    BY <1>3, <1>10, GivenSeats
  <2> QED  BY <1>1, <1>10, <2>1
<1>13. AllSeats' = {Given(s, p, q) : s \in AllSeats}
  <2>1. AllSeats = AliasSeats \cup Seats(parts) \cup Seats(claims)
    BY DEF AllSeats, AliasSeats, Aliases, Belongings, Seats
  <2>2. AllSeats' = AliasSeats' \cup Seats(parts') \cup Seats(claims')
    BY DEF AllSeats, AliasSeats, Aliases, Belongings, Seats
  <2> QED  BY <1>9, <1>11, <1>12, <2>1, <2>2
<1>14. Merged(w, p, q)
  BY <1>1, <1>3, <1>4, <1>5, <1>6, <1>7, <1>8, <1>9, <1>11, <1>12, <1>13 DEF Merged
<1> QED  BY <1>3, <1>14

\* A statement about a person adds at most a seat of his own, and changes no alias.
LEMMA StatementShape ==
  ASSUME TypeOK, NEW p \in 1 .. people, NEW v \in Values \cup {None},
         claims' \in Stated(claims, p, v), UNCHANGED <<people, alias>>,
         parts' \in {parts, parts \cup {[owner |-> p, observed |-> p]}}
  PROVE  /\ parts' \subseteq Row(people) /\ claims' \subseteq Fact(people)
         /\ AliasSeats' = AliasSeats /\ AllSeats' \subseteq AllSeats \cup {Seat(p, p)}
<1>1. parts \subseteq Row(people) /\ claims \in SUBSET Fact(people)  BY DEF TypeOK
<1>2. claims' \subseteq Fact(people) /\ Seats(claims') \subseteq Seats(claims) \cup {Seat(p, p)}
  BY <1>1, StatedKeep
<1>3. parts' \subseteq Row(people) /\ Seats(parts') \subseteq Seats(parts) \cup {Seat(p, p)}
  BY <1>1 DEF Row, Seats
<1>4. AliasSeats' = AliasSeats  BY DEF AliasSeats, Aliases
<1>5. AllSeats = AliasSeats \cup Seats(parts) \cup Seats(claims)
  BY DEF AllSeats, AliasSeats, Aliases, Belongings, Seats
<1>6. AllSeats' = AliasSeats' \cup Seats(parts') \cup Seats(claims')
  BY DEF AllSeats, AliasSeats, Aliases, Belongings, Seats
<1> QED  BY <1>2, <1>3, <1>4, <1>5, <1>6

\* The steps that move no belonging.
Still == UNCHANGED <<rows, overtaken>>

LEMMA StillSeats ==
  ASSUME Still
  PROVE  AliasSeats' = AliasSeats /\ AllSeats' = AllSeats
BY DEF Still, rows, AliasSeats, AllSeats, Aliases, Belongings

-----------------------------------------------------------------------------
(* Types                                                                   *)

RowTypes ==
  /\ people \in 0 .. MaxPeople /\ into \in [People -> 0 .. people]
  /\ \A p \in People : into[p] # 0 => into[p] < p /\ p <= people
  /\ alias \in [Keys -> AliasRow(people) \cup {NoAlias}]
  /\ parts \subseteq Row(people) /\ claims \subseteq Fact(people)
JobTypes ==
  /\ refresh \subseteq 1 .. people /\ pairs \subseteq Pairs \cap SUBSET (1 .. people)
  /\ work \in [Workers -> pairs \cup {{}}]
RequestOK(q, n) ==
  /\ q \in [stage : {"idle", "matched", "recognised", "checked"},
            identity : Identities \cup {None}, person : 0 .. n]
  /\ q.stage = "matched" => q.identity \in Identities
  /\ q.stage \in {"recognised", "checked"} => q.person # 0
RequestTypes ==
  /\ DOMAIN request = Requests /\ request = [r \in Requests |-> request[r]]
  /\ \A r \in Requests : RequestOK(request[r], people)
OtherTypes ==
  decisions \subseteq Verdict /\ overtaken \subseteq People /\ begun \in 0 .. MaxRequests /\ faults \in 0 .. MaxFaults

LEMMA TypeParts == TypeOK <=> RowTypes /\ JobTypes /\ RequestTypes /\ OtherTypes
<1>1. ASSUME TypeOK PROVE RowTypes /\ JobTypes /\ RequestTypes /\ OtherTypes
  <2>1. RequestTypes  BY <1>1 DEF TypeOK, RequestTypes, RequestOK
  <2>2. RowTypes /\ JobTypes /\ OtherTypes  BY <1>1 DEF TypeOK, RowTypes, JobTypes, OtherTypes
  <2> QED  BY <2>1, <2>2
<1>2. ASSUME RowTypes, JobTypes, RequestTypes, OtherTypes PROVE TypeOK
  <2>1. request \in [Requests -> [stage : {"idle", "matched", "recognised", "checked"},
                                identity : Identities \cup {None}, person : 0 .. people]]
    BY <1>2 DEF RequestTypes, RequestOK
  <2>2. \A r \in Requests : /\ request[r].stage = "matched" => request[r].identity \in Identities
                            /\ request[r].stage \in {"recognised", "checked"} => request[r].person # 0
    BY <1>2 DEF RequestTypes, RequestOK
  <2> QED  BY <1>2, <2>1, <2>2 DEF TypeOK, RowTypes, JobTypes, OtherTypes
<1> QED  BY <1>1, <1>2

LEMMA TypePartsNext ==
  ASSUME RowTypes', JobTypes', RequestTypes', OtherTypes'
  PROVE  TypeOK'
<1>1. request' \in [Requests -> [stage : {"idle", "matched", "recognised", "checked"},
                               identity : Identities \cup {None}, person : 0 .. people']]
  BY DEF RequestTypes, RequestOK
<1>2. \A r \in Requests : /\ request'[r].stage = "matched" => request'[r].identity \in Identities
                          /\ request'[r].stage \in {"recognised", "checked"} => request'[r].person # 0
  BY DEF RequestTypes, RequestOK
<1> QED  BY <1>1, <1>2 DEF TypeOK, RowTypes, JobTypes, OtherTypes

LEMMA IdleOK == \A n \in Nat : RequestOK(NoRequest, n)
BY DEF RequestOK, NoRequest

\* A step that gives one request another record.
LEMMA RequestStep ==
  ASSUME TypeOK, NEW r \in Requests, NEW q, RequestOK(q, people'),
         people' \in Nat, people' >= people, request' = [request EXCEPT ![r] = q]
  PROVE  RequestTypes'
<1>1. RequestTypes /\ people \in Nat  BY TypeParts, PeopleType
<1>2. request' = [s \in Requests |-> IF s = r THEN q ELSE request[s]]
  BY <1>1 DEF RequestTypes
<1>3. ASSUME NEW s \in Requests PROVE RequestOK(request'[s], people')
  <2>1. RequestOK(request[s], people)  BY <1>1 DEF RequestTypes
  <2>2. 0 .. people \subseteq 0 .. people'  BY <1>1
  <2>3. RequestOK(request[s], people')  BY <2>1, <2>2 DEF RequestOK
  <2> QED  BY <1>2, <2>3
<1> QED  BY <1>2, <1>3 DEF RequestTypes

LEMMA VerdictType ==
  ASSUME TypeOK, NEW pr \in Pairs,
         NEW status \in {"blocked_conflict", "same", "different", "unsure", "auto_merged"}
  PROVE  DecisionOn(pr, status) \in Verdict
<1> DEFINE R == [key : Keys, mail : Mails \cup {None}, observed : People]
           E == [id : People, rows : SUBSET R]
<1>0. 1 .. people \subseteq People /\ pr \subseteq People  BY PeopleType DEF Pairs
<1>1. ASSUME NEW p \in pr PROVE Evidence(p, Owned(alias, p)) \in E
  <2>1. ASSUME NEW k \in Owned(alias, p)
        PROVE  [key |-> k, mail |-> alias[k].mail, observed |-> alias[k].observed] \in R
    <3>1. p \in People /\ p # 0 /\ k \in Keys /\ alias[k].owner = p
      BY <1>0, PeopleType DEF Owned
    <3>2. alias[k] \in AliasRow(people)  BY <3>1, AliasFacts
    <3> QED  BY <1>0, <3>1, <3>2 DEF AliasRow
  <2> HIDE DEF R
  <2>2. {[key |-> k, mail |-> alias[k].mail, observed |-> alias[k].observed] : k \in Owned(alias, p)}
          \in SUBSET R
    BY <2>1
  <2> QED  BY <1>0, <2>2 DEF Evidence
<1> HIDE DEF E
<1>2. Fingerprint(pr) \in SUBSET E  BY <1>1 DEF Fingerprint
<1> QED  BY <1>2 DEF DecisionOn, Decision, Verdict, E

LEMMA ObserveDecisions ==
  ASSUME IInv, NEW r \in Ingests, Observe(r)
  PROVE  decisions' \subseteq Verdict
<1> DEFINE p == Subject(r)  S == Split(r)
           R == [key : Keys, mail : Mails \cup {None}, observed : People]
           E == [id : People, rows : SUBSET R]
<1>1. TypeOK  BY DEF IInv
<1>2. /\ p \in 1 .. people' /\ p \in People /\ people' \in people .. MaxPeople /\ people \in Nat
      /\ request[r].stage = "matched" /\ Taken(request[r].identity, request[r].person) = {}
      /\ S \subseteq People /\ p \notin S /\ \A c \in S : into[c] = p
  BY <1>1, ObserveShape, PeopleType
<1>3. decisions' = {Reversed(x, p, S) : x \in decisions} \cup Splits(Written(r), p, S)
  BY DEF Observe, Subject, Split, Written
<1>4. Written(r) \in [Keys -> AliasRow(people') \cup {NoAlias}]
  <2>1. people' \in Nat /\ people' >= people /\ people' >= p  BY <1>2
  <2> QED  BY <1>1, <1>2, <2>1, WrittenFacts
<1>5. ASSUME NEW x \in decisions PROVE Reversed(x, p, S) \in Verdict
  <2>1. x \in Verdict  BY <1>1 DEF TypeOK
  <2> QED  BY <2>1 DEF Reversed, Verdict
<1>6. ASSUME NEW c \in S PROVE {p, c} \in Pairs
  <2>1. into[c] # 0 /\ c \in 1 .. people /\ into[c] \in 1 .. people
    <3>1. c \in People /\ into[c] = p /\ p # 0 /\ c \in Nat /\ c # 0 /\ p \in Nat
      BY <1>1, <1>2, PeopleType
    <3>2. into[c] < c /\ c <= people  BY <1>1, <3>1 DEF TypeOK
    <3> QED  BY <1>2, <3>1, <3>2
  <2> QED  BY <1>1, <1>2, <2>1, TwoArePair
<1>7. ASSUME NEW q \in People
      PROVE  {[key |-> k, mail |-> Written(r)[k].mail, observed |-> q] : k \in Observed(Written(r), q)}
               \in SUBSET R
  <2>1. ASSUME NEW k \in Observed(Written(r), q)
        PROVE  [key |-> k, mail |-> Written(r)[k].mail, observed |-> q] \in R
    <3>1. k \in Keys /\ Written(r)[k] # NoAlias  BY DEF Observed, NoAlias
    <3>2. Written(r)[k] \in AliasRow(people')  BY <1>4, <3>1
    <3> QED  BY <3>1, <3>2 DEF AliasRow
  <2> HIDE DEF R
  <2> QED  BY <2>1
<1>8. ASSUME NEW c \in S
      PROVE  Decision({p, c}, "split_conflict",
               {[id |-> q, rows |-> {[key |-> k, mail |-> Written(r)[k].mail, observed |-> q] :
                                       k \in Observed(Written(r), q)}] : q \in {p, c}}) \in Verdict
  <2> HIDE DEF p, S, R
  <2>1. p \in People /\ c \in People  BY <1>2
  <2>2. {[id |-> q, rows |-> {[key |-> k, mail |-> Written(r)[k].mail, observed |-> q] :
                                k \in Observed(Written(r), q)}] : q \in {p, c}} \in SUBSET E
    BY <1>7, <2>1
  <2> QED  BY <1>6, <2>2 DEF Decision, Verdict, E, R
<1> HIDE DEF p, S, R, E
<1> QED  BY <1>3, <1>5, <1>8 DEF Splits

-----------------------------------------------------------------------------
(* The shapes of the steps                                                 *)

\* A step of a request that has written nothing yet.
Looks(r) == \/ r \in Ingests /\ (Recognise(r) \/ \E d \in Identities : Match(r, d))
            \/ r \in Promoters /\ \E p \in People : CheckSubject(r, p)
            \/ Abort(r)
\* A fact or a participant about the person a request has read.
States(r) == (r \in Ingests /\ Attach(r)) \/ (r \in Promoters /\ Promote(r))
\* The steps of the jobs but for a merge.
Takes(w) == \E pr \in Pairs : Skip(w, pr) \/ DecideAlone(w, pr) \/ Ask(w, pr)
Works == \/ \E p \in People : RefreshIdentity(p)
         \/ \E w \in Workers : Takes(w) \/ Decline(w) \/ MergeClash(w) \/ CallFails(w)

LEMMA NextCases ==
  Next => \/ \E r \in Requests : Looks(r) \/ States(r)
          \/ \E r \in Ingests : Observe(r)
          \/ Works
          \/ \E w \in Workers : Merge(w)
<1> SUFFICES ASSUME Next
             PROVE  \/ \E r \in Requests : Looks(r) \/ States(r)
                    \/ \E r \in Ingests : Observe(r)
                    \/ Works
                    \/ \E w \in Workers : Merge(w)
  OBVIOUS
<1>1. ASSUME NEW r \in Ingests,
             (\E d \in Identities : Match(r, d)) \/ Recognise(r) \/ Observe(r) \/ Attach(r)
      PROVE  r \in Requests /\ (Looks(r) \/ States(r) \/ Observe(r))
  <2>1. r \in Requests  BY DEF Requests
  <2>2. CASE \E d \in Identities : Match(r, d)  BY <2>1, <2>2 DEF Looks
  <2>3. CASE Recognise(r)  BY <2>1, <2>3 DEF Looks
  <2>4. CASE Observe(r)  BY <2>1, <2>4
  <2>5. CASE Attach(r)  BY <2>1, <2>5 DEF States
  <2> QED  BY <1>1, <2>2, <2>3, <2>4, <2>5
<1>2. ASSUME NEW r \in Promoters, Promote(r) \/ \E p \in People : CheckSubject(r, p)
      PROVE  r \in Requests /\ (Looks(r) \/ States(r))
  BY <1>2 DEF Looks, States, Requests
<1>3. ASSUME NEW r \in Requests, Abort(r) PROVE Looks(r)
  BY <1>3 DEF Looks
<1>4. ASSUME NEW p \in People, RefreshIdentity(p) PROVE Works
  BY <1>4 DEF Works
<1>5. ASSUME NEW pr \in Pairs, Adjudicate(pr) PROVE Works
  BY <1>5 DEF Works, Takes, Adjudicate
<1>6. ASSUME NEW w \in Workers, Answer(w) \/ CallFails(w) PROVE Works \/ Merge(w)
  BY <1>6 DEF Works, Answer
<1> QED  BY <1>1, <1>2, <1>3, <1>4, <1>5, <1>6 DEF Next

\* Whom a request may come to have read.
Found(r, p) ==
  \/ p \in {0, request[r].person}
  \/ \E a \in AliasSeats : a.owner = p
  \/ r \notin Ingests /\ into[p] = 0 /\ p \in 1 .. people

LEMMA MatchesFacts ==
  ASSUME TypeOK, NEW d \in Identities, NEW p \in Matches(d)
  PROVE  p \in 0 .. people /\ (p = 0 \/ \E a \in AliasSeats : a.owner = p)
<1>1. d.key \in Keys /\ d.also \subseteq Keys  BY IdentityAssumption
<1>2. p = 0 \/ \E k \in Keys : alias[k].owner = p /\ p # 0
  <2> DEFINE byId == {alias[k].owner : k \in d.also} \ {0}
             byMail == {alias[k].owner : k \in {j \in Keys : alias[j].mail = d.mail}} \ {0}
  <2>1. \/ p = alias[d.key].owner /\ alias[d.key].owner # 0
        \/ p \in byId \/ p \in byMail \/ p = 0
    <3>1. Matches(d) = IF alias[d.key].owner # 0 THEN {alias[d.key].owner}
                       ELSE IF byId # {} THEN byId
                       ELSE IF d.mail # None /\ byMail # {} THEN byMail
                       ELSE {0}
      BY DEF Matches
    <3> HIDE DEF byId, byMail
    <3> QED  BY <3>1
  <2> QED  BY <1>1, <2>1
<1>3. CASE p = 0  BY <1>3, PeopleType
<1>4. ASSUME NEW k \in Keys, alias[k].owner = p, p # 0
      PROVE  p \in 0 .. people /\ \E a \in AliasSeats : a.owner = p
  <2>1. Seat(p, alias[k].observed) \in AliasSeats  BY <1>4, SeatOfAlias
  <2>2. Seat(p, alias[k].observed).owner = p  BY DEF Seat
  <2> QED  BY <1>4, <2>1, <2>2, AliasFacts
<1> QED  BY <1>2, <1>3, <1>4

LEMMA LooksShape ==
  ASSUME TypeOK, NEW r \in Requests, Looks(r)
  PROVE  /\ Still /\ UNCHANGED <<refresh, pairs, decisions, work, faults>>
         /\ begun' \in 0 .. MaxRequests /\ RequestTypes'
         /\ \A s \in Requests : s # r => request'[s] = request[s]
         /\ Found(r, request'[r].person)
<1>0. /\ people \in Nat /\ begun \in 0 .. MaxRequests /\ MaxRequests \in Nat
      /\ RequestOK(request[r], people) /\ DOMAIN request = Requests
  BY TypeParts, PeopleType DEF OtherTypes, RequestTypes
<1>5. people' = people => people' \in Nat /\ people' >= people  BY <1>0
<1>1. CASE r \in Ingests /\ Recognise(r)
  <2> DEFINE q1 == [request[r] EXCEPT !.stage = "recognised"]
  <2>1. request' = [request EXCEPT ![r] = q1] /\ Still /\ people' = people
        /\ UNCHANGED <<refresh, pairs, decisions, work, faults, begun>>
    BY <1>1 DEF Recognise, Still, rows
  <2>2. RequestOK(q1, people) /\ q1.person = request[r].person
    BY <1>0, <1>1 DEF Recognise, RequestOK
  <2>3. Found(r, q1.person)  BY <2>2 DEF Found
  <2> HIDE DEF q1
  <2>4. RequestTypes'  BY <1>0, <2>1, <2>2, <1>5, RequestStep
  <2>5. request'[r] = q1 /\ \A s \in Requests : s # r => request'[s] = request[s]
    BY <1>0, <2>1
  <2> QED  BY <1>0, <2>1, <2>3, <2>4, <2>5
<1>2. ASSUME NEW d \in Identities, r \in Ingests, Match(r, d)
      PROVE  /\ Still /\ UNCHANGED <<refresh, pairs, decisions, work, faults>>
             /\ begun' \in 0 .. MaxRequests /\ RequestTypes'
             /\ \A s \in Requests : s # r => request'[s] = request[s]
             /\ Found(r, request'[r].person)
  <2>1. PICK p \in Matches(d) :
          request' = [request EXCEPT ![r] = [stage |-> "matched", identity |-> d, person |-> p]]
    BY <1>2 DEF Match
  <2> DEFINE q1 == [stage |-> "matched", identity |-> d, person |-> p]
  <2>2. Still /\ UNCHANGED <<refresh, pairs, decisions, work, faults>> /\ people' = people
        /\ begun' = begun + 1 /\ begun < MaxRequests
    BY <1>2 DEF Match, Still, rows
  <2>3. RequestOK(q1, people) /\ q1.person = p
    BY <1>2, MatchesFacts DEF RequestOK
  <2>4. Found(r, q1.person)  BY <2>3, MatchesFacts DEF Found
  <2>5. request' = [request EXCEPT ![r] = q1]  BY <2>1
  <2> HIDE DEF q1
  <2>6. RequestTypes'  BY <1>0, <2>2, <2>3, <2>5, <1>5, RequestStep
  <2>7. request'[r] = q1 /\ \A s \in Requests : s # r => request'[s] = request[s]
    BY <1>0, <2>5
  <2> QED  BY <1>0, <2>2, <2>4, <2>6, <2>7
<1>3. ASSUME NEW p \in People, r \in Promoters, CheckSubject(r, p)
      PROVE  /\ Still /\ UNCHANGED <<refresh, pairs, decisions, work, faults>>
             /\ begun' \in 0 .. MaxRequests /\ RequestTypes'
             /\ \A s \in Requests : s # r => request'[s] = request[s]
             /\ Found(r, request'[r].person)
  <2> DEFINE q1 == [stage |-> "checked", identity |-> None, person |-> p]
  <2>1. /\ Still /\ UNCHANGED <<refresh, pairs, decisions, work, faults>> /\ people' = people
        /\ begun' = begun + 1 /\ begun < MaxRequests
        /\ p <= people /\ into[p] = 0
        /\ request' = [request EXCEPT ![r] = q1]
    BY <1>3 DEF CheckSubject, Still, rows
  <2>2. p \in 1 .. people  BY <2>1, PeopleType DEF People
  <2>3. RequestOK(q1, people) /\ q1.person = p
    <3>2. p # 0 /\ p \in 0 .. people  BY <2>2, <1>0
    <3> QED  BY <3>2 DEF RequestOK
  <2>4. Found(r, q1.person)  BY <1>3, <2>1, <2>2, <2>3, IdentityAssumption DEF Found
  <2> HIDE DEF q1
  <2>6. RequestTypes'  BY <1>0, <2>1, <2>3, <1>5, RequestStep
  <2>7. request'[r] = q1 /\ \A s \in Requests : s # r => request'[s] = request[s]
    BY <1>0, <2>1
  <2> QED  BY <1>0, <2>1, <2>4, <2>6, <2>7
<1>4. CASE Abort(r)
  <2>1. request' = [request EXCEPT ![r] = NoRequest] /\ Still /\ people' = people
        /\ UNCHANGED <<refresh, pairs, decisions, work, faults, begun>>
    BY <1>4 DEF Abort, Still, rows
  <2>2. RequestOK(NoRequest, people) /\ Found(r, NoRequest.person)
    BY <1>0, IdleOK DEF Found, NoRequest
  <2>4. RequestTypes'  BY <1>0, <2>1, <2>2, <1>5, RequestStep
  <2>5. request'[r] = NoRequest /\ \A s \in Requests : s # r => request'[s] = request[s]
    BY <1>0, <2>1
  <2> QED  BY <1>0, <2>1, <2>2, <2>4, <2>5
<1> QED  BY <1>1, <1>2, <1>3, <1>4 DEF Looks

LEMMA StatesShape ==
  ASSUME TypeOK, NEW r \in Requests, States(r)
  PROVE  LET p == request[r].person IN
         /\ p \in 1 .. people /\ r \in Ingests \cup Promoters
         /\ UNCHANGED <<people, into, alias, pairs, decisions, work, overtaken, begun, faults>>
         /\ refresh' \subseteq 1 .. people
         /\ parts' \subseteq Row(people) /\ claims' \subseteq Fact(people)
         /\ \E v \in Values \cup {None} : claims' \in Stated(claims, p, v)
         /\ RequestTypes' /\ request'[r].person = 0
         /\ \A s \in Requests : s # r => request'[s] = request[s]
         /\ AliasSeats' = AliasSeats /\ AllSeats' \subseteq AllSeats \cup {Seat(p, p)}
<1> DEFINE p == request[r].person
<1>1. /\ request[r].stage \in {"recognised", "checked"}
      /\ request' = [request EXCEPT ![r] = NoRequest]
      /\ UNCHANGED <<people, into, alias, pairs, decisions, work, overtaken, begun, faults>>
      /\ refresh' \in {refresh, refresh \cup {p}}
      /\ parts' \in {parts, parts \cup {[owner |-> p, observed |-> p]}}
      /\ \E v \in Values \cup {None} : claims' \in Stated(claims, p, v)
  <2>1. CASE Attach(r)  BY <2>1 DEF Attach
  <2>2. CASE Promote(r)  BY <2>2 DEF Promote
  <2> QED  BY <2>1, <2>2 DEF States
<1>2. p \in 1 .. people /\ people \in Nat /\ DOMAIN request = Requests
  <2>1. RequestOK(request[r], people) /\ people \in Nat /\ DOMAIN request = Requests
    BY TypeParts, PeopleType DEF RequestTypes
  <2> QED  BY <1>1, <2>1 DEF RequestOK
<1>3. /\ parts' \subseteq Row(people) /\ claims' \subseteq Fact(people)
      /\ AliasSeats' = AliasSeats /\ AllSeats' \subseteq AllSeats \cup {Seat(p, p)}
  <2>1. PICK v \in Values \cup {None} : claims' \in Stated(claims, p, v)  BY <1>1
  <2> HIDE DEF p
  <2> QED  BY <1>1, <1>2, <2>1, StatementShape
<1>4. RequestTypes' /\ request'[r].person = 0
  <2>1. people' \in Nat /\ people' >= people /\ RequestOK(NoRequest, people')
    BY <1>1, <1>2, IdleOK
  <2>2. RequestTypes'  BY <1>1, <2>1, RequestStep
  <2>3. request'[r] = NoRequest  BY <1>1, <1>2
  <2> QED  BY <2>2, <2>3 DEF NoRequest
<1>5. refresh' \subseteq 1 .. people  BY <1>1, <1>2 DEF TypeOK
<1> QED  BY <1>1, <1>2, <1>3, <1>4, <1>5 DEF Requests

LEMMA TakeFacts ==
  ASSUME TypeOK, NEW w \in Workers, NEW pr \in Pairs, Take(w, pr)
  PROVE  /\ pr # {} /\ pr \in pairs /\ work[w] = {}
         /\ \A v \in Workers : work[v] \cap pr = {} /\ work[v] # pr
<1>1. pr # {}  BY PairType
<1> QED  BY <1>1 DEF Take, Locked

\* The pair that has its verdict leaves, and no other worker has it.
LEMMA PairDone ==
  ASSUME TypeOK, NEW pr, pairs' = pairs \ {pr}, \A v \in Workers : work'[v] \in {{}, work[v]},
         \A v \in Workers : work'[v] # pr \/ work'[v] = {}, DOMAIN work' = Workers,
         work' = [v \in Workers |-> work'[v]], refresh' \subseteq 1 .. people', people' = people
  PROVE  JobTypes'
<1>1. work \in [Workers -> pairs \cup {{}}] /\ pairs \subseteq Pairs \cap SUBSET (1 .. people)
  BY DEF TypeOK
<1>2. \A v \in Workers : work'[v] \in pairs' \cup {{}}  BY <1>1
<1>3. work' \in [Workers -> pairs' \cup {{}}]  BY <1>2
<1> QED  BY <1>1, <1>3 DEF JobTypes

LEMMA WorksJobs ==
  ASSUME TypeOK, WorkInv, Works
  PROVE  /\ Still /\ UNCHANGED <<request, begun>> /\ faults' \in 0 .. MaxFaults
         /\ JobTypes'
         /\ decisions \subseteq decisions' /\ decisions' \subseteq Verdict
         /\ \A d \in decisions' : d \in decisions \/ d.status \notin {"auto_merged", "split_conflict"}
         /\ \A v \in Workers :
              \/ work'[v] \in {{}, work[v]}
              \/ /\ work'[v] \in Pairs /\ Roots(work'[v])
                 /\ ~Contradictory(work'[v]) /\ Corroborated(work'[v])
                 /\ \A u \in Workers : u # v => work'[u] = work[u] /\ work[u] \cap work'[v] = {}
<1>0. /\ refresh \subseteq 1 .. people /\ pairs \subseteq Pairs \cap SUBSET (1 .. people)
      /\ work \in [Workers -> pairs \cup {{}}] /\ decisions \subseteq Verdict
      /\ faults \in 0 .. MaxFaults /\ MaxFaults \in Nat /\ people \in Nat
  BY PeopleType, IdentityAssumption DEF TypeOK
<1>1. ASSUME NEW p \in People, RefreshIdentity(p)
      PROVE  /\ Still /\ UNCHANGED <<request, begun, faults, work, decisions>> /\ JobTypes'
  <2> DEFINE candidates == IF into[p] # 0 THEN {} ELSE {{p, q} : q \in (1 .. people) \ {p}}
  <2>1. /\ p \in refresh /\ refresh' = refresh \ {p} /\ pairs' = pairs \cup candidates
        /\ Still /\ UNCHANGED <<request, begun, faults, work, decisions, people>>
    BY <1>1 DEF RefreshIdentity, Still, rows
  <2>2. \A q \in (1 .. people) \ {p} : {p, q} \in Pairs \cap SUBSET (1 .. people)
    BY <1>0, <2>1, TwoArePair
  <2>3. candidates \subseteq Pairs \cap SUBSET (1 .. people)  BY <2>2
  <2> HIDE DEF candidates
  <2>4. work \in [Workers -> pairs' \cup {{}}]  BY <1>0, <2>1
  <2> QED  BY <1>0, <2>1, <2>3, <2>4 DEF JobTypes
<1>2. ASSUME NEW w \in Workers, NEW pr \in Pairs, Skip(w, pr) \/ DecideAlone(w, pr)
      PROVE  /\ Still /\ UNCHANGED <<request, begun, faults, work>> /\ JobTypes'
             /\ decisions' = decisions
                \/ \E status \in {"blocked_conflict", "unsure"} :
                     decisions' = decisions \cup {DecisionOn(pr, status)}
  <2>1. /\ Take(w, pr) /\ pairs' = pairs \ {pr}
        /\ Still /\ UNCHANGED <<request, begun, faults, work, people, refresh>>
    BY <1>2 DEF Skip, DecideAlone, Still, rows
  <2>2. decisions' = decisions
        \/ \E status \in {"blocked_conflict", "unsure"} :
             decisions' = decisions \cup {DecisionOn(pr, status)}
    BY <1>2 DEF Skip, DecideAlone
  <2>3. \A v \in Workers : work[v] # pr  BY <2>1, TakeFacts
  <2>4. JobTypes'
    BY <1>0, <2>1, <2>3, PairDone
  <2> QED  BY <2>1, <2>2, <2>4
<1>3. ASSUME NEW w \in Workers, NEW pr \in Pairs, Ask(w, pr)
      PROVE  /\ Still /\ UNCHANGED <<request, begun, faults, decisions>> /\ JobTypes'
             /\ work'[w] \in Pairs /\ Roots(work'[w])
             /\ ~Contradictory(work'[w]) /\ Corroborated(work'[w])
             /\ \A u \in Workers : u # w => work'[u] = work[u] /\ work[u] \cap work'[w] = {}
  <2>1. /\ Take(w, pr) /\ work' = [work EXCEPT ![w] = pr]
        /\ Roots(pr) /\ ~Contradictory(pr) /\ Corroborated(pr)
        /\ Still /\ UNCHANGED <<request, begun, faults, decisions, pairs, people, refresh>>
    BY <1>3 DEF Ask, Still, rows
  <2>2. pr \in pairs /\ \A v \in Workers : work[v] \cap pr = {}  BY <2>1, TakeFacts
  <2>3. work'[w] = pr /\ \A u \in Workers : u # w => work'[u] = work[u]  BY <1>0, <2>1
  <2>4. work' \in [Workers -> pairs \cup {{}}]  BY <1>0, <2>1, <2>2
  <2>5. JobTypes'  BY <1>0, <2>1, <2>4 DEF JobTypes
  <2> QED  BY <2>1, <2>2, <2>3, <2>5
<1>4. ASSUME NEW w \in Workers, Decline(w)
      PROVE  /\ Still /\ UNCHANGED <<request, begun, faults>> /\ JobTypes'
             /\ \E status \in {"same", "different", "unsure"} :
                  decisions' = decisions \cup {DecisionOn(work[w], status)}
             /\ work[w] \in Pairs
             /\ \A v \in Workers : work'[v] \in {{}, work[v]}
  <2>1. /\ work[w] # {} /\ pairs' = pairs \ {work[w]} /\ work' = [work EXCEPT ![w] = {}]
        /\ \E status \in {"same", "different", "unsure"} :
             decisions' = decisions \cup {DecisionOn(work[w], status)}
        /\ Still /\ UNCHANGED <<request, begun, faults, people, refresh>>
    BY <1>4 DEF Decline, Settle, Still, rows
  <2>2. \A v \in Workers : work'[v] = IF v = w THEN {} ELSE work[v]  BY <1>0, <2>1
  <2>3. \A v \in Workers : work'[v] \in {{}, work[v]}  BY <2>2
  <2>4. \A v \in Workers : work'[v] # work[w] \/ work'[v] = {}
    BY <2>2 DEF WorkInv
  <2>5. DOMAIN work' = Workers /\ work' = [v \in Workers |-> work'[v]]  BY <1>0, <2>1
  <2>6. JobTypes'  BY <1>0, <2>1, <2>3, <2>4, <2>5, PairDone
  <2>7. work[w] \in Pairs  BY <1>0, <2>1
  <2> QED  BY <2>1, <2>3, <2>6, <2>7
<1>5. ASSUME NEW w \in Workers, MergeClash(w) \/ CallFails(w)
      PROVE  /\ Still /\ UNCHANGED <<request, begun, decisions>> /\ JobTypes'
             /\ faults' \in 0 .. MaxFaults
             /\ \A v \in Workers : work'[v] \in {{}, work[v]}
  <2>1. /\ work' = [work EXCEPT ![w] = {}] /\ Still
        /\ UNCHANGED <<request, begun, decisions, people, refresh, pairs>>
        /\ faults' = faults \/ (faults < MaxFaults /\ faults' = faults + 1)
    BY <1>5 DEF MergeClash, CallFails, Still, rows
  <2>2. work' \in [Workers -> pairs \cup {{}}]  BY <1>0, <2>1
  <2>3. \A v \in Workers : work'[v] \in {{}, work[v]}  BY <1>0, <2>1
  <2>4. JobTypes'  BY <1>0, <2>1, <2>2 DEF JobTypes
  <2>5. faults' \in 0 .. MaxFaults  BY <1>0, <2>1
  <2> QED  BY <2>1, <2>3, <2>4, <2>5
<1>6. ASSUME NEW pr \in Pairs, NEW status \in {"blocked_conflict", "same", "different", "unsure"},
             decisions' = decisions \cup {DecisionOn(pr, status)}
      PROVE  /\ decisions \subseteq decisions' /\ decisions' \subseteq Verdict
             /\ \A d \in decisions' : d \in decisions \/ d.status \notin {"auto_merged", "split_conflict"}
  <2>1. DecisionOn(pr, status) \in Verdict  BY VerdictType
  <2>2. DecisionOn(pr, status).status = status  BY DEF DecisionOn, Decision
  <2> QED  BY <1>0, <1>6, <2>1, <2>2
<1>7. CASE \E p \in People : RefreshIdentity(p)
  BY <1>0, <1>1, <1>7
<1>8. ASSUME NEW w \in Workers, NEW pr \in Pairs, Skip(w, pr) \/ DecideAlone(w, pr)
      PROVE  /\ Still /\ UNCHANGED <<request, begun, faults, work>> /\ JobTypes'
             /\ decisions \subseteq decisions' /\ decisions' \subseteq Verdict
             /\ \A d \in decisions' : d \in decisions \/ d.status \notin {"auto_merged", "split_conflict"}
  <2>1. CASE decisions' = decisions  BY <1>0, <1>2, <1>8, <2>1
  <2>2. CASE \E status \in {"blocked_conflict", "unsure"} :
               decisions' = decisions \cup {DecisionOn(pr, status)}
    BY <1>2, <1>6, <1>8, <2>2
  <2> QED  BY <1>2, <1>8, <2>1, <2>2
<1>9. ASSUME NEW w \in Workers, Decline(w)
      PROVE  /\ decisions \subseteq decisions' /\ decisions' \subseteq Verdict
             /\ \A d \in decisions' : d \in decisions \/ d.status \notin {"auto_merged", "split_conflict"}
  BY <1>4, <1>6, <1>9
<1>10. CASE \E w \in Workers : Takes(w)
  <2>1. PICK w \in Workers, pr \in Pairs : Skip(w, pr) \/ DecideAlone(w, pr) \/ Ask(w, pr)
    BY <1>10 DEF Takes
  <2>2. CASE Skip(w, pr) \/ DecideAlone(w, pr)  BY <1>0, <1>8, <2>2
  <2>3. CASE Ask(w, pr)
    <3>1. ASSUME NEW v \in Workers
          PROVE  \/ work'[v] \in {{}, work[v]}
                 \/ /\ work'[v] \in Pairs /\ Roots(work'[v])
                    /\ ~Contradictory(work'[v]) /\ Corroborated(work'[v])
                    /\ \A u \in Workers : u # v => work'[u] = work[u] /\ work[u] \cap work'[v] = {}
      <4>1. CASE v = w  BY <1>3, <2>3, <4>1
      <4>2. CASE v # w  BY <1>3, <2>3, <4>2
      <4> QED  BY <4>1, <4>2
    <3> QED  BY <1>0, <1>3, <2>3, <3>1
  <2> QED  BY <2>1, <2>2, <2>3
<1>11. CASE \E w \in Workers : Decline(w)
  BY <1>0, <1>4, <1>9, <1>11
<1>12. CASE \E w \in Workers : MergeClash(w) \/ CallFails(w)
  BY <1>0, <1>5, <1>12
<1> QED  BY <1>7, <1>10, <1>11, <1>12 DEF Works

-----------------------------------------------------------------------------
(* Every step keeps the types                                              *)

LEMMA WorksTypes ==
  ASSUME IInv, Works
  PROVE  TypeOK'
<1>1. TypeOK /\ WorkInv  BY DEF IInv
<1>2. /\ Still /\ UNCHANGED <<request, begun>> /\ faults' \in 0 .. MaxFaults
      /\ JobTypes' /\ decisions' \subseteq Verdict
  BY <1>1, WorksJobs
<1>3. RowTypes /\ RequestTypes /\ OtherTypes  BY <1>1, TypeParts
<1>4. RowTypes'  BY <1>2, <1>3 DEF Still, rows, RowTypes
<1>5. RequestTypes'
  <2>1. people' = people  BY <1>2 DEF Still, rows
  <2> QED  BY <1>2, <1>3, <2>1 DEF RequestTypes
<1>6. OtherTypes'  BY <1>2, <1>3 DEF Still, OtherTypes
<1> QED  BY <1>2, <1>4, <1>5, <1>6, TypePartsNext

LEMMA LooksTypes ==
  ASSUME IInv, NEW r \in Requests, Looks(r)
  PROVE  TypeOK'
<1>1. TypeOK  BY DEF IInv
<1>2. /\ Still /\ UNCHANGED <<refresh, pairs, decisions, work, faults>>
      /\ begun' \in 0 .. MaxRequests /\ RequestTypes'
  BY <1>1, LooksShape
<1>3. RowTypes /\ JobTypes /\ OtherTypes  BY <1>1, TypeParts
<1>4. RowTypes'  BY <1>2, <1>3 DEF Still, rows, RowTypes
<1>5. JobTypes'  BY <1>2, <1>3 DEF Still, rows, JobTypes
<1>6. OtherTypes'  BY <1>2, <1>3 DEF Still, OtherTypes
<1> QED  BY <1>2, <1>4, <1>5, <1>6, TypePartsNext

LEMMA StatesTypes ==
  ASSUME IInv, NEW r \in Requests, States(r)
  PROVE  TypeOK'
<1>1. TypeOK  BY DEF IInv
<1>2. /\ UNCHANGED <<people, into, alias, pairs, decisions, work, overtaken, begun, faults>>
      /\ refresh' \subseteq 1 .. people
      /\ parts' \subseteq Row(people) /\ claims' \subseteq Fact(people)
      /\ RequestTypes'
  BY <1>1, StatesShape
<1>3. RowTypes /\ JobTypes /\ OtherTypes  BY <1>1, TypeParts
<1>4. RowTypes'  BY <1>2, <1>3 DEF RowTypes
<1>5. JobTypes'  BY <1>2, <1>3 DEF JobTypes
<1>6. OtherTypes'  BY <1>2, <1>3 DEF OtherTypes
<1> QED  BY <1>2, <1>4, <1>5, <1>6, TypePartsNext

LEMMA ObserveTypes ==
  ASSUME IInv, NEW r \in Ingests, Observe(r)
  PROVE  TypeOK'
<1> DEFINE p == Subject(r)  S == Split(r)
<1>1. TypeOK /\ r \in Requests /\ people \in Nat  BY PeopleType DEF IInv, Requests
<1>2. /\ p \in 1 .. people' /\ p \in People /\ people' \in people .. MaxPeople
      /\ S \subseteq People /\ p \notin S /\ \A c \in S : into[c] = p
      /\ alias' \in [Keys -> AliasRow(people') \cup {NoAlias}]
      /\ parts' \subseteq Row(people') /\ claims' \subseteq Fact(people')
  BY ObserveShape
<1>3. /\ into' = [c \in People |-> IF c \in S THEN 0 ELSE into[c]]
      /\ refresh' = refresh \cup {p} /\ request' = [request EXCEPT ![r] = NoRequest]
      /\ UNCHANGED <<pairs, work, overtaken, begun, faults>>
  BY DEF Observe, Subject, Split, Written
<1> HIDE DEF p, S
<1>4. RowTypes /\ JobTypes /\ OtherTypes  BY <1>1, TypeParts
<1>5. people' \in Nat /\ people' >= people /\ people' <= MaxPeople /\ MaxPeople \in Nat
  BY <1>1, <1>2, PeopleType
<1>6. RowTypes'
  <2>1. into' \in [People -> 0 .. people']
    BY <1>1, <1>3, <1>4, <1>5 DEF RowTypes
  <2>2. \A c \in People : into'[c] # 0 => into'[c] < c /\ c <= people'
    <3> SUFFICES ASSUME NEW c \in People, into'[c] # 0 PROVE into'[c] < c /\ c <= people'
      OBVIOUS
    <3>1. into'[c] = into[c]  BY <1>3
    <3>2. into[c] < c /\ c <= people  BY <1>4, <3>1 DEF RowTypes
    <3>3. c \in Nat  BY <1>1, PeopleType
    <3> QED  BY <1>1, <1>5, <3>1, <3>2, <3>3
  <2>3. people' \in 0 .. MaxPeople  BY <1>5
  <2> QED  BY <1>2, <2>1, <2>2, <2>3 DEF RowTypes
<1>7. JobTypes'
  <2>1. 1 .. people \subseteq 1 .. people'  BY <1>1, <1>5
  <2>2. SUBSET (1 .. people) \subseteq SUBSET (1 .. people')  BY <2>1
  <2>3. refresh' \subseteq 1 .. people'  BY <1>2, <1>3, <1>4, <2>1 DEF JobTypes
  <2>4. pairs' \subseteq Pairs \cap SUBSET (1 .. people')  BY <1>3, <1>4, <2>2 DEF JobTypes
  <2>5. work' \in [Workers -> pairs' \cup {{}}]  BY <1>3, <1>4 DEF JobTypes
  <2> QED  BY <2>3, <2>4, <2>5 DEF JobTypes
<1>8. RequestTypes'
  <2>1. RequestOK(NoRequest, people')  BY <1>5, IdleOK
  <2> QED  BY <1>1, <1>3, <1>5, <2>1, RequestStep
<1>9. OtherTypes'
  <2>1. decisions' \subseteq Verdict  BY ObserveDecisions
  <2> QED  BY <1>3, <1>4, <2>1 DEF OtherTypes
<1> QED  BY <1>6, <1>7, <1>8, <1>9, TypePartsNext

LEMMA MergeTypes ==
  ASSUME IInv, NEW w \in Workers, NEW p \in People, NEW q \in People, Merged(w, p, q)
  PROVE  TypeOK'
<1>1. TypeOK /\ WorkInv  BY DEF IInv
<1>2. RowTypes /\ JobTypes /\ OtherTypes /\ RequestTypes  BY <1>1, TypeParts
<1>3. /\ work[w] = {p, q} /\ p < q /\ p \in 1 .. people /\ q \in 1 .. people
      /\ into' = [into EXCEPT ![q] = p]
      /\ overtaken' = IF \E r \in Requests : request[r].person = q
                        THEN overtaken \cup {q} ELSE overtaken
      /\ pairs' = pairs \ {{p, q}} /\ work' = [work EXCEPT ![w] = {}]
      /\ decisions' = decisions \cup {DecisionOn({p, q}, "auto_merged")}
      /\ UNCHANGED <<people, refresh, request, begun, faults>>
      /\ alias' \in [Keys -> AliasRow(people) \cup {NoAlias}]
      /\ parts' \subseteq Row(people) /\ claims' \subseteq Fact(people)
  BY DEF Merged
<1>4. RowTypes'
  <2>0. people \in Nat /\ p \in 0 .. people  BY <1>1, <1>3, PeopleType
  <2>1. into' \in [People -> 0 .. people']  BY <1>2, <1>3, <2>0 DEF RowTypes
  <2>2. \A c \in People : into'[c] # 0 => into'[c] < c /\ c <= people'
    <3> SUFFICES ASSUME NEW c \in People, into'[c] # 0 PROVE into'[c] < c /\ c <= people'
      OBVIOUS
    <3>1. CASE c = q
      <4>1. into'[c] = p  BY <1>2, <1>3, <3>1 DEF RowTypes
      <4> QED  BY <1>3, <3>1, <4>1
    <3>2. CASE c # q
      <4>1. into'[c] = into[c]  BY <1>2, <1>3, <3>2 DEF RowTypes
      <4> QED  BY <1>2, <1>3, <4>1 DEF RowTypes
    <3> QED  BY <3>1, <3>2
  <2>3. people' \in 0 .. MaxPeople  BY <1>2, <1>3 DEF RowTypes
  <2> QED  BY <1>3, <2>1, <2>2, <2>3 DEF RowTypes
<1>5. JobTypes'
  <2>1. \A v \in Workers : work'[v] = IF v = w THEN {} ELSE work[v]
    BY <1>2, <1>3 DEF JobTypes
  <2>2. \A v \in Workers : work'[v] \in {{}, work[v]}  BY <2>1
  <2>3. \A v \in Workers : work'[v] # {p, q} \/ work'[v] = {}
    BY <1>1, <1>3, <2>1 DEF WorkInv
  <2>4. DOMAIN work' = Workers /\ work' = [v \in Workers |-> work'[v]]
    BY <1>2, <1>3 DEF JobTypes
  <2>5. refresh' \subseteq 1 .. people'  BY <1>2, <1>3 DEF JobTypes
  <2> QED  BY <1>1, <1>3, <2>2, <2>3, <2>4, <2>5, PairDone
<1>6. RequestTypes'  BY <1>2, <1>3 DEF RequestTypes
<1>7. OtherTypes'
  <2>1. DecisionOn({p, q}, "auto_merged") \in Verdict
    <3>1. p # q  BY DEF Merged
    <3>2. {p, q} \in Pairs  BY <1>1, <1>3, <3>1, TwoArePair
    <3> QED  BY <1>1, <3>2, VerdictType
  <2> QED  BY <1>2, <1>3, <2>1 DEF OtherTypes
<1> QED  BY <1>4, <1>5, <1>6, <1>7, TypePartsNext

-----------------------------------------------------------------------------
(* Every step keeps the pairs at work, and the roots                       *)

LEMMA MailingFacts ==
  ASSUME NEW pr, Corroborated(pr), NEW p \in pr
  PROVE  Owned(alias, p) # {}
BY DEF Corroborated, Mailing

\* The pair at work is as it was when no alias of its two persons has moved
\* and both are roots still.
LEMMA PairsKeep ==
  ASSUME WorkInv, \A v \in Workers : work'[v] \in {{}, work[v]},
         \A v \in Workers : \A p \in work'[v] :
           (into[p] = 0 => into'[p] = 0) /\ Owned(alias', p) = Owned(alias, p)
  PROVE  WorkInv'
<1>1. ASSUME NEW v \in Workers, work'[v] # {}
      PROVE  /\ Roots(work[v])' /\ ~Contradictory(work[v])'
             /\ \A p \in work'[v] : Owned(alias', p) # {}
  <2>1. work'[v] = work[v] /\ work[v] # {}  BY <1>1
  <2>2. Roots(work[v]) /\ ~Contradictory(work[v]) /\ \A p \in work[v] : Owned(alias, p) # {}
    BY <2>1 DEF WorkInv
  <2>3. Roots(work[v])'  BY <2>1, <2>2 DEF Roots
  <2>4. ~Contradictory(work[v])'
    BY <2>1, <2>2 DEF Contradictory
  <2> QED  BY <2>1, <2>2, <2>3, <2>4
<1>2. ASSUME NEW u \in Workers, NEW v \in Workers, u # v
      PROVE  work'[u] \cap work'[v] = {}
  <2>1. work[u] \cap work[v] = {}  BY <1>2 DEF WorkInv
  <2> QED  BY <2>1
<1> QED  BY <1>1, <1>2 DEF WorkInv

LEMMA WorksPairs ==
  ASSUME IInv, Works
  PROVE  WorkInv'
<1>1. TypeOK /\ WorkInv  BY DEF IInv
<1>2. into' = into /\ alias' = alias
  BY <1>1, WorksJobs DEF Still, rows
<1>3. \A v \in Workers :
        \/ work'[v] \in {{}, work[v]}
        \/ /\ work'[v] \in Pairs /\ Roots(work'[v])
           /\ ~Contradictory(work'[v]) /\ Corroborated(work'[v])
           /\ \A u \in Workers : u # v => work'[u] = work[u] /\ work[u] \cap work'[v] = {}
  BY <1>1, WorksJobs
<1>4. ASSUME NEW v \in Workers, work'[v] # {}
      PROVE  /\ \A p \in work'[v] : into'[p] = 0 /\ Owned(alias', p) # {}
             /\ \A p, q \in work'[v] : p # q => ~Conflicting(Owned(alias', p), Owned(alias', q))
  <2>1. CASE work'[v] \in {{}, work[v]}
    <3>1. work'[v] = work[v]  BY <1>4, <2>1
    <3> QED  BY <1>1, <1>2, <1>4, <3>1 DEF WorkInv, Roots, Contradictory
  <2>2. CASE Roots(work'[v]) /\ ~Contradictory(work'[v]) /\ Corroborated(work'[v])
    BY <1>2, <2>2, MailingFacts DEF Roots, Contradictory
  <2> QED  BY <1>3, <2>1, <2>2
<1>5. ASSUME NEW u \in Workers, NEW v \in Workers, u # v
      PROVE  work'[u] \cap work'[v] = {}
  <2>1. work[u] \cap work[v] = {}  BY <1>1, <1>5 DEF WorkInv
  <2>2. CASE work'[u] \in {{}, work[u]} /\ work'[v] \in {{}, work[v]}  BY <2>1, <2>2
  <2>3. CASE ~(work'[u] \in {{}, work[u]})  BY <1>3, <1>5, <2>3
  <2>4. CASE ~(work'[v] \in {{}, work[v]})  BY <1>3, <1>5, <2>4
  <2> QED  BY <2>2, <2>3, <2>4
<1> QED  BY <1>4, <1>5 DEF WorkInv, Roots, Contradictory

LEMMA ObservePairs ==
  ASSUME IInv, NEW r \in Ingests, Observe(r)
  PROVE  WorkInv'
<1> DEFINE p == Subject(r)  S == Split(r)
<1>1. TypeOK /\ WorkInv  BY DEF IInv
<1>2. /\ p \in 1 .. people' /\ p \in People /\ ~Locked(p) /\ people' \in people .. MaxPeople
      /\ request[r].stage = "matched" /\ Taken(request[r].identity, request[r].person) = {}
      /\ S \subseteq People /\ \A c \in S : into[c] = p
      /\ alias' = [k \in Keys |-> Restored(Written(r)[k], p, S)]
  BY ObserveShape
<1>3. /\ Written(r) \in [Keys -> AliasRow(people') \cup {NoAlias}]
      /\ \A k \in Keys :
           LET a == Written(r)[k] IN
           \/ alias[k].owner = 0 /\ a.owner = p /\ a.observed = p
           \/ a.owner = alias[k].owner /\ a.observed = alias[k].observed
  <2>1. people' \in Nat /\ people' >= people /\ people' >= p  BY <1>1, <1>2, PeopleType
  <2> QED  BY <1>1, <1>2, <2>1, WrittenFacts
<1>4. /\ into' = [c \in People |-> IF c \in S THEN 0 ELSE into[c]] /\ work' = work
  BY DEF Observe, Subject, Split, Written
<1> HIDE DEF p, S
<1>5. ASSUME NEW v \in Workers, NEW x \in work[v]
      PROVE  (into[x] = 0 => into'[x] = 0) /\ Owned(alias', x) = Owned(alias, x)
  <2>1. x \in People /\ x # 0 /\ p # 0 /\ into[x] = 0 /\ x # p
    <3>1. work[v] \subseteq 1 .. people  BY <1>1 DEF TypeOK
    <3> QED  BY <1>1, <1>2, <1>5, <3>1, PeopleType DEF WorkInv, Roots, Locked
  <2>2. x \notin S  BY <1>2, <2>1
  <2>3. ASSUME NEW k \in Keys PROVE alias'[k].owner = x <=> alias[k].owner = x
    <3>1. alias'[k] = Restored(Written(r)[k], p, S)  BY <1>2
    <3>2. Written(r)[k] \in AliasRow(people') \/ Written(r)[k] = NoAlias  BY <1>3
    <3>3. alias'[k].owner = IF Written(r)[k].owner = p /\ Written(r)[k].observed \in S
                            THEN Written(r)[k].observed ELSE Written(r)[k].owner
      BY <3>1, <3>2, RestoredFacts
    <3> QED  BY <1>3, <2>1, <2>2, <3>3
  <2> QED  BY <1>4, <2>1, <2>3 DEF Owned
<1> QED  BY <1>1, <1>4, <1>5, PairsKeep

LEMMA MergePairs ==
  ASSUME IInv, NEW w \in Workers, NEW p \in People, NEW q \in People, Merged(w, p, q)
  PROVE  WorkInv'
<1>1. TypeOK /\ WorkInv  BY DEF IInv
<1>2. /\ work[w] = {p, q} /\ into' = [into EXCEPT ![q] = p] /\ work' = [work EXCEPT ![w] = {}]
      /\ \A k \in Keys : alias'[k].owner = IF alias[k].owner = q THEN p ELSE alias[k].owner
  BY DEF Merged
<1>3. work \in [Workers -> pairs \cup {{}}] /\ into \in [People -> 0 .. people]  BY <1>1 DEF TypeOK
<1>4. \A v \in Workers : work'[v] = IF v = w THEN {} ELSE work[v]  BY <1>2, <1>3
<1>5. ASSUME NEW v \in Workers, NEW x \in work'[v]
      PROVE  (into[x] = 0 => into'[x] = 0) /\ Owned(alias', x) = Owned(alias, x)
  <2>1. v # w /\ x \in work[v]  BY <1>4, <1>5
  <2>2. x # p /\ x # q  BY <1>1, <1>2, <2>1 DEF WorkInv
  <2>3. into'[x] = into[x]  BY <1>2, <1>3, <2>2
  <2> QED  BY <1>2, <2>2, <2>3 DEF Owned
<1>6. \A v \in Workers : work'[v] \in {{}, work[v]}  BY <1>4
<1> QED  BY <1>1, <1>5, <1>6, PairsKeep

LEMMA PairsStep ==
  ASSUME IInv, Next
  PROVE  WorkInv'
<1>1. TypeOK /\ WorkInv  BY DEF IInv
<1>2. ASSUME NEW r \in Requests, Looks(r) \/ States(r)
      PROVE  WorkInv'
  <2>1. UNCHANGED <<into, alias, work>>
    <3>1. CASE Looks(r)  BY <1>1, <3>1, LooksShape DEF Still, rows
    <3>2. CASE States(r)  BY <1>1, <3>2, StatesShape
    <3> QED  BY <1>2, <3>1, <3>2
  <2> QED  BY <1>1, <2>1, PairsKeep
<1>3. ASSUME NEW r \in Ingests, Observe(r) PROVE WorkInv'
  BY <1>3, ObservePairs
<1>4. CASE Works  BY <1>4, WorksPairs
<1>5. ASSUME NEW w \in Workers, Merge(w) PROVE WorkInv'
  BY <1>5, MergeShape, MergePairs
<1> QED  BY <1>2, <1>3, <1>4, <1>5, NextCases

LEMMA TypeStep ==
  ASSUME IInv, Next
  PROVE  TypeOK'
<1>1. ASSUME NEW w \in Workers, Merge(w) PROVE TypeOK'
  BY <1>1, MergeShape, MergeTypes
<1> QED
  BY <1>1, NextCases, LooksTypes, StatesTypes, ObserveTypes, WorksTypes

LEMMA RootStep ==
  ASSUME IInv, Next
  PROVE  RootInv'
<1>1. TypeOK /\ RootInv  BY DEF IInv
<1>2. /\ \A s \in AllSeats : into[s.owner] = 0 \/ s.owner \in overtaken
      /\ \A r \in Requests : request[r].person # 0 =>
           into[request[r].person] = 0 \/ request[r].person \in overtaken
      /\ AliasSeats \subseteq AllSeats
      /\ \A s \in AllSeats : s.owner \in 1 .. people /\ s.observed \in 1 .. people
  BY <1>1, SeatFacts DEF RootInv
<1>3. into \in [People -> 0 .. people] /\ people \in Nat /\ 1 .. people \subseteq People
  BY <1>1, PeopleType DEF TypeOK
<1>4. ASSUME NEW r \in Requests, Looks(r) PROVE RootInv'
  <2>1. /\ AllSeats' = AllSeats /\ into' = into /\ overtaken' = overtaken
        /\ \A s \in Requests : s # r => request'[s] = request[s]
        /\ Found(r, request'[r].person)
    BY <1>1, <1>4, LooksShape, StillSeats DEF Still, rows
  <2>2. request'[r].person # 0 =>
          into[request'[r].person] = 0 \/ request'[r].person \in overtaken
    BY <1>2, <2>1 DEF Found
  <2> QED  BY <1>2, <2>1, <2>2 DEF RootInv
<1>5. ASSUME NEW r \in Requests, States(r) PROVE RootInv'
  <2> DEFINE p == request[r].person
  <2>1. /\ AllSeats' \subseteq AllSeats \cup {Seat(p, p)} /\ into' = into /\ overtaken' = overtaken
        /\ p \in 1 .. people /\ request'[r].person = 0
        /\ \A s \in Requests : s # r => request'[s] = request[s]
    BY <1>1, <1>5, StatesShape
  <2>2. into[p] = 0 \/ p \in overtaken  BY <1>2, <2>1
  <2>3. Seat(p, p).owner = p  BY DEF Seat
  <2> HIDE DEF p
  <2> QED  BY <1>2, <2>1, <2>2, <2>3 DEF RootInv
<1>6. ASSUME NEW r \in Ingests, Observe(r) PROVE RootInv'
  <2> DEFINE p == Subject(r)  S == Split(r)
  <2>1. /\ p \in People /\ S \subseteq People /\ p \notin S
        /\ request[r].person = p \/ (request[r].person = 0 /\ p = people + 1)
        /\ AllSeats' \subseteq {Restored(s, p, S) : s \in AllSeats} \cup {Seat(p, p)}
    BY <1>6, ObserveShape
  <2>2. /\ into' = [c \in People |-> IF c \in S THEN 0 ELSE into[c]] /\ overtaken' = overtaken
        /\ request' = [request EXCEPT ![r] = NoRequest]
    BY <1>6 DEF Observe, Subject, Split, Written
  <2> HIDE DEF p, S
  <2>3. into[p] = 0 \/ p \in overtaken
    <3>1. CASE request[r].person = p
      <4>1. r \in Requests /\ p # 0  BY <1>1, <2>1, PeopleType DEF Requests
      <4> QED  BY <1>2, <3>1, <4>1
    <3>2. CASE p = people + 1
      <4>1. into[p] # 0 => p <= people  BY <1>1, <2>1 DEF TypeOK
      <4> QED  BY <1>3, <3>2, <4>1
    <3> QED  BY <2>1, <3>1, <3>2
  <2>4. \A x \in People : into[x] = 0 => into'[x] = 0  BY <2>2
  <2>5. ASSUME NEW s \in AllSeats'
        PROVE  into'[s.owner] = 0 \/ s.owner \in overtaken
    <3>1. CASE s = Seat(p, p)
      <4>1. s.owner = p  BY <3>1 DEF Seat
      <4> QED  BY <2>1, <2>3, <2>4, <4>1
    <3>2. ASSUME NEW t \in AllSeats, s = Restored(t, p, S)
          PROVE  into'[s.owner] = 0 \/ s.owner \in overtaken
      <4>1. PICK a, b : t = Seat(a, b)  BY DEF AllSeats, Seats
      <4>2. s.owner = IF t.owner = p /\ t.observed \in S THEN t.observed ELSE t.owner
        BY <3>2, <4>1 DEF Restored, Seat
      <4>3. \A x \in S : into'[x] = 0  BY <2>1, <2>2
      <4> QED  BY <1>2, <1>3, <2>4, <4>2, <4>3
    <3> QED  BY <2>1, <3>1, <3>2
  <2>6. ASSUME NEW t \in Requests, request'[t].person # 0
        PROVE  into'[request'[t].person] = 0 \/ request'[t].person \in overtaken
    <3>1. request \in [Requests -> [stage : {"idle", "matched", "recognised", "checked"},
                                  identity : Identities \cup {None}, person : 0 .. people]]
      BY <1>1 DEF TypeOK
    <3>2. t # r /\ request'[t] = request[t] /\ request[t].person \in 0 .. people
      BY <2>2, <2>6, <3>1 DEF NoRequest
    <3>3. request[t].person \in People  BY <1>3, <2>6, <3>2
    <3> QED  BY <1>2, <2>4, <2>6, <3>2, <3>3
  <2> QED  BY <2>2, <2>5, <2>6 DEF RootInv
<1>7. CASE Works
  <2>1. AllSeats' = AllSeats /\ into' = into /\ overtaken' = overtaken /\ request' = request
    <3>1. Still /\ request' = request  BY <1>1, <1>7, WorksJobs DEF IInv
    <3> QED  BY <3>1, StillSeats DEF Still, rows
  <2> QED  BY <1>2, <2>1 DEF RootInv
<1>8. ASSUME NEW w \in Workers, NEW p \in People, NEW q \in People, Merged(w, p, q) PROVE RootInv'
  <2>1. /\ p # q /\ into[p] = 0 /\ into' = [into EXCEPT ![q] = p] /\ request' = request
        /\ overtaken' = IF \E r \in Requests : request[r].person = q
                          THEN overtaken \cup {q} ELSE overtaken
        /\ AllSeats' = {Given(s, p, q) : s \in AllSeats}
    BY <1>8 DEF Merged
  <2>2. ASSUME NEW x \in People, x # q, into[x] = 0 \/ x \in overtaken
        PROVE  into'[x] = 0 \/ x \in overtaken'
    BY <1>3, <2>1, <2>2
  <2>3. ASSUME NEW s \in AllSeats' PROVE into'[s.owner] = 0 \/ s.owner \in overtaken'
    <3>1. PICK t \in AllSeats : s = Given(t, p, q)  BY <2>1
    <3>2. PICK a, b : t = Seat(a, b)  BY DEF AllSeats, Seats
    <3>3. s.owner = IF t.owner = q THEN p ELSE t.owner
      BY <3>1, <3>2 DEF Given, Seat
    <3>4. t.owner \in People  BY <1>2, <1>3
    <3> QED  BY <1>2, <2>1, <2>2, <3>3, <3>4
  <2>4. ASSUME NEW r \in Requests, request'[r].person # 0
        PROVE  into'[request'[r].person] = 0 \/ request'[r].person \in overtaken'
    <3>1. request[r].person \in 0 .. people  BY <1>1 DEF TypeOK
    <3>2. request[r].person \in People  BY <1>3, <2>1, <2>4, <3>1
    <3> QED  BY <1>2, <2>1, <2>2, <2>4, <3>2
  <2> QED  BY <2>3, <2>4 DEF RootInv
<1>9. ASSUME NEW w \in Workers, Merge(w) PROVE RootInv'
  BY <1>8, <1>9, MergeShape
<1> QED  BY <1>4, <1>5, <1>6, <1>7, <1>9, NextCases

-----------------------------------------------------------------------------
(* Every step keeps belongings at home                                     *)

LEMMA HomeKept ==
  ASSUME NEW X, NEW P, NEW O, NEW Q, Home(X, P, O),
         \A x \in X : x.observed \in Q => x.observed \in P
  PROVE  Home(X, Q, O)
BY DEF Home

LEMMA HomeRestored ==
  ASSUME NEW X, NEW P, NEW O, NEW Y, NEW Q, NEW p, NEW S,
         Home(X, P, O), \A s \in X : \E a, b : s = Seat(a, b),
         Y \subseteq {Restored(s, p, S) : s \in X} \cup {Seat(p, p)}, p \notin S,
         p \in P \/ \A x \in X : x.observed # p,
         \A x \in X : x.observed \in Q =>
           \/ x.observed \in P \cup {p}
           \/ x.observed \in S /\ Seat(p, x.observed) \in X
  PROVE  Home(Y, Q, O)
<1>1. ASSUME NEW y \in Y
      PROVE  \/ y.owner = p /\ y.observed = p
             \/ \E x \in X : /\ y.observed = x.observed
                             /\ y.owner = IF x.owner = p /\ x.observed \in S THEN x.observed ELSE x.owner
  <2>1. CASE y = Seat(p, p)  BY <2>1 DEF Seat
  <2>2. ASSUME NEW x \in X, y = Restored(x, p, S)
        PROVE  /\ y.observed = x.observed
               /\ y.owner = IF x.owner = p /\ x.observed \in S THEN x.observed ELSE x.owner
    <3>1. PICK a, b : x = Seat(a, b)  OBVIOUS
    <3> QED  BY <2>2, <3>1 DEF Restored, Seat
  <2> QED  BY <2>1, <2>2
<1>2. ASSUME NEW x \in X, x.observed = p, p \notin O PROVE x.owner = p
  BY <1>2 DEF Home
<1>3. ASSUME NEW x \in Y, NEW y \in Y, x.observed = y.observed, x.observed \notin O
      PROVE  x.owner = y.owner
  BY <1>1, <1>2, <1>3 DEF Home
<1>4. ASSUME NEW x \in Y, x.observed \in Q \ O PROVE x.owner = x.observed
  <2>1. CASE x.owner = p /\ x.observed = p  BY <2>1
  <2>2. ASSUME NEW y \in X, x.observed = y.observed,
               x.owner = IF y.owner = p /\ y.observed \in S THEN y.observed ELSE y.owner
        PROVE  x.owner = x.observed
    <3>1. CASE y.observed \in P  BY <1>4, <2>2, <3>1 DEF Home
    <3>2. CASE y.observed = p  BY <1>2, <1>4, <2>2, <3>2
    <3>3. CASE y.observed \in S /\ Seat(p, y.observed) \in X
      <4>1. Seat(p, y.observed).owner = p /\ Seat(p, y.observed).observed = y.observed  BY DEF Seat
      <4>2. y.owner = p  BY <1>4, <2>2, <3>3, <4>1 DEF Home
      <4> QED  BY <2>2, <3>3, <4>2
    <3> QED  BY <1>4, <2>2, <3>1, <3>2, <3>3
  <2> QED  BY <1>1, <2>1, <2>2
<1> QED  BY <1>3, <1>4 DEF Home

LEMMA HomeGiven ==
  ASSUME NEW X, NEW P, NEW O, NEW Q, NEW U, NEW p, NEW q,
         Home(X, P, O), \A s \in X : \E a, b : s = Seat(a, b), O \subseteq U,
         \A x \in X : x.observed \in Q \ U => x.observed \in P /\ x.observed # q
  PROVE  Home({Given(s, p, q) : s \in X}, Q, U)
<1>1. ASSUME NEW x \in X
      PROVE  /\ Given(x, p, q).observed = x.observed
             /\ Given(x, p, q).owner = IF x.owner = q THEN p ELSE x.owner
  <2>1. PICK a, b : x = Seat(a, b)  OBVIOUS
  <2> QED  BY <2>1 DEF Given, Seat
<1>2. ASSUME NEW x \in X, NEW y \in X, x.observed = y.observed, x.observed \notin U
      PROVE  Given(x, p, q).owner = Given(y, p, q).owner
  BY <1>1, <1>2 DEF Home
<1>3. ASSUME NEW x \in X, x.observed \in Q \ U
      PROVE  Given(x, p, q).owner = x.observed
  BY <1>1, <1>3 DEF Home
<1>4. \A x, y \in {Given(s, p, q) : s \in X} :
        x.observed = y.observed /\ x.observed \notin U => x.owner = y.owner
  BY <1>1, <1>2
<1>5. \A x \in {Given(s, p, q) : s \in X} : x.observed \in Q \ U => x.owner = x.observed
  BY <1>1, <1>3
<1> QED  BY <1>4, <1>5 DEF Home

LEMMA SeatsAre == \A X : \A s \in Seats(X) : \E a, b : s = Seat(a, b)
BY DEF Seats

LEMMA LooksHome ==
  ASSUME TypeOK, NEW r \in Requests, Looks(r), NEW X, X \subseteq AllSeats, HomeInv(X)
  PROVE  Home(X, Present', overtaken')
<1>1. /\ AliasSeats' = AliasSeats /\ overtaken' = overtaken
      /\ \A s \in Requests : s # r => request'[s] = request[s]
      /\ Found(r, request'[r].person)
  BY LooksShape, StillSeats DEF Still
<1>2. \A x \in X : x.observed \in 1 .. people  BY SeatFacts
<1>3. people \in Nat  BY PeopleType
<1>4. ASSUME NEW x \in X, x.observed \in Present' PROVE x.observed \in Present
  <2>1. CASE \E a \in AliasSeats : a.owner = x.observed  BY <2>1 DEF Present
  <2>2. ASSUME NEW s \in Ingests, x.observed = request'[s].person PROVE x.observed \in Present
    <3>1. CASE s # r  BY <1>1, <2>2, <3>1 DEF Present, Requests
    <3>2. CASE s = r
      <4>1. x.observed # 0  BY <1>2, <1>3
      <4> QED  BY <1>1, <2>2, <3>2, <4>1 DEF Present, Found
    <3> QED  BY <3>1, <3>2
  <2> QED  BY <1>1, <1>4, <2>1, <2>2 DEF Present
<1> QED  BY <1>1, <1>4, HomeKept DEF HomeInv

LEMMA StatesHome ==
  ASSUME TypeOK, NEW r \in Requests, States(r), NEW X, X \subseteq AllSeats, HomeInv(X)
  PROVE  /\ Home(X, Present', overtaken')
         /\ r \in Ingests => Home(X \cup {Seat(request[r].person, request[r].person)}, Present', overtaken')
<1> DEFINE p == request[r].person
<1>1. /\ AliasSeats' = AliasSeats /\ overtaken' = overtaken
      /\ \A s \in Requests : s # r => request'[s] = request[s]
      /\ request'[r].person = 0
  BY StatesShape
<1>2. \A x \in X : x.observed \in 1 .. people /\ people \in Nat  BY SeatFacts, PeopleType
<1>3. ASSUME NEW x \in X, x.observed \in Present' PROVE x.observed \in Present
  <2>1. CASE \E a \in AliasSeats : a.owner = x.observed  BY <2>1 DEF Present
  <2>2. ASSUME NEW s \in Ingests, x.observed = request'[s].person PROVE x.observed \in Present
    <3>1. x.observed # 0  BY <1>2
    <3>2. s # r  BY <1>1, <2>2, <3>1
    <3> QED  BY <1>1, <2>2, <3>2 DEF Present, Requests
  <2> QED  BY <1>1, <1>3, <2>1, <2>2 DEF Present
<1>4. Home(X, Present', overtaken')
  BY <1>1, <1>3, HomeKept DEF HomeInv
<1>5. ASSUME r \in Ingests PROVE Home(X \cup {Seat(p, p)}, Present', overtaken')
  <2>1. p \in Present  BY <1>5 DEF Present
  <2>2. \A s \in X : \E a, b : s = Seat(a, b)  BY SeatsAre DEF AllSeats
  <2>3. X \cup {Seat(p, p)} \subseteq {Restored(s, p, {}) : s \in X} \cup {Seat(p, p)}
    BY DEF Restored
  <2> HIDE DEF p
  <2>4. Home(X \cup {Seat(p, p)}, Present', overtaken)
    <3>1. Home(X, Present, overtaken)  BY DEF HomeInv
    <3> DEFINE S == {}
    <3>2. p \notin S  OBVIOUS
    <3>3. \A x \in X : x.observed \in Present' =>
            \/ x.observed \in Present \cup {p}
            \/ x.observed \in S /\ Seat(p, x.observed) \in X
      BY <1>3
    <3>4. X \cup {Seat(p, p)} \subseteq {Restored(s, p, S) : s \in X} \cup {Seat(p, p)}
      BY <2>3
    <3>5. p \in Present \/ \A x \in X : x.observed # p  BY <2>1
    <3> HIDE DEF S
    <3> QED  BY <2>2, <3>1, <3>2, <3>3, <3>4, <3>5, HomeRestored
  <2> QED  BY <1>1, <2>4
<1> QED  BY <1>4, <1>5

LEMMA ObserveHome ==
  ASSUME IInv, NEW r \in Ingests, Observe(r), NEW X, AliasSeats \subseteq X, X \subseteq AllSeats,
         HomeInv(X), NEW Y,
         Y \subseteq {Restored(s, Subject(r), Split(r)) : s \in X} \cup {Seat(Subject(r), Subject(r))}
  PROVE  Home(Y, Present', overtaken')
<1> DEFINE p == Subject(r)  S == Split(r)
<1>1. /\ p \in People /\ S \subseteq People /\ p \notin S
      /\ request[r].person = p \/ (request[r].person = 0 /\ p = people + 1)
      /\ AliasSeats' \subseteq {Restored(s, p, S) : s \in AliasSeats} \cup {Seat(p, p)}
  BY ObserveShape
<1>2. overtaken' = overtaken /\ request' = [request EXCEPT ![r] = NoRequest]
  BY DEF Observe
<1>3. TypeOK /\ r \in Requests /\ people \in Nat /\ DOMAIN request = Requests
  BY PeopleType, TypeParts DEF IInv, Requests, RequestTypes
<1>4. \A x \in X : x.observed \in 1 .. people  BY <1>3, SeatFacts
<1>5. p \in Present \/ \A x \in X : x.observed # p
  <2>1. CASE request[r].person = p  BY <2>1 DEF Present
  <2>2. CASE p = people + 1  BY <1>3, <1>4, <2>2
  <2> QED  BY <1>1, <2>1, <2>2
<1>6. \A s \in X : \E a, b : s = Seat(a, b)  BY SeatsAre DEF AllSeats
<1> HIDE DEF p, S
<1>7. ASSUME NEW x \in X, x.observed \in Present'
      PROVE  \/ x.observed \in Present \cup {p}
             \/ x.observed \in S /\ Seat(p, x.observed) \in X
  <2>1. ASSUME NEW t \in Ingests, x.observed = request'[t].person PROVE x.observed \in Present
    <3>1. request'[t] = IF t = r THEN NoRequest ELSE request[t]
      BY <1>2, <1>3 DEF Requests
    <3>2. x.observed # 0  BY <1>3, <1>4
    <3> QED  BY <2>1, <3>1, <3>2 DEF Present, NoRequest
  <2>2. ASSUME NEW a \in AliasSeats', a.owner = x.observed
        PROVE  \/ x.observed \in Present \cup {p}
               \/ x.observed \in S /\ Seat(p, x.observed) \in X
    <3>1. CASE a = Seat(p, p)  BY <2>2, <3>1 DEF Seat
    <3>2. ASSUME NEW b \in AliasSeats, a = Restored(b, p, S)
          PROVE  \/ x.observed \in Present \cup {p}
                 \/ x.observed \in S /\ Seat(p, x.observed) \in X
      <4>1. PICK u, v : b = Seat(u, v)  BY <1>6
      <4>2. a.owner = IF u = p /\ v \in S THEN v ELSE u  BY <3>2, <4>1 DEF Restored, Seat
      <4>3. CASE u = p /\ v \in S  BY <2>2, <4>1, <4>2, <4>3
      <4>4. CASE a.owner = u
        <5>1. b.owner = u  BY <4>1 DEF Seat
        <5> QED  BY <2>2, <4>4, <5>1 DEF Present
      <4> QED  BY <4>2, <4>3, <4>4
    <3> QED  BY <1>1, <2>2, <3>1, <3>2
  <2> QED  BY <1>7, <2>1, <2>2 DEF Present
<1>8. Home(Y, Present', overtaken)
  <2>1. Home(X, Present, overtaken)  BY DEF HomeInv
  <2>2. Y \subseteq {Restored(s, p, S) : s \in X} \cup {Seat(p, p)}  BY DEF p, S
  <2> QED  BY <1>1, <1>5, <1>6, <1>7, <2>1, <2>2, HomeRestored
<1> QED  BY <1>2, <1>8

LEMMA MergeHome ==
  ASSUME IInv, NEW w \in Workers, NEW p \in People, NEW q \in People, Merged(w, p, q),
         NEW X, X \subseteq AllSeats, HomeInv(X)
  PROVE  Home({Given(s, p, q) : s \in X}, Present', overtaken')
<1>1. /\ p # q /\ Owned(alias, p) # {} /\ request' = request
      /\ overtaken' = IF \E r \in Requests : request[r].person = q
                        THEN overtaken \cup {q} ELSE overtaken
      /\ AliasSeats' = {Given(s, p, q) : s \in AliasSeats}
  BY DEF Merged
<1>2. TypeOK /\ 0 \notin People  BY PeopleType DEF IInv
<1>3. \A s \in AllSeats : \E a, b : s = Seat(a, b)  BY SeatsAre DEF AllSeats
<1>4. p \in Present
  <2>1. PICK k \in Keys : alias[k].owner = p  BY <1>1 DEF Owned
  <2>2. Seat(p, alias[k].observed) \in AliasSeats  BY <1>2, <2>1, SeatOfAlias
  <2>3. Seat(p, alias[k].observed).owner = p  BY DEF Seat
  <2> QED  BY <2>2, <2>3 DEF Present
<1>5. ASSUME NEW o \in Present', o \notin overtaken' PROVE o \in Present /\ o # q
  <2>1. ASSUME NEW t \in Ingests, o = request[t].person PROVE o \in Present /\ o # q
    BY <1>1, <1>5, <2>1 DEF Present, Requests
  <2>2. ASSUME NEW a \in AliasSeats', o = a.owner PROVE o \in Present /\ o # q
    <3>1. PICK b \in AliasSeats : a = Given(b, p, q)  BY <1>1
    <3>2. PICK u, v : b = Seat(u, v)  BY <1>2, <1>3, SeatFacts
    <3>3. a.owner = IF u = q THEN p ELSE u  BY <3>1, <3>2 DEF Given, Seat
    <3>4. u \in Present
      <4>1. b.owner = u  BY <3>2 DEF Seat
      <4> QED  BY <4>1 DEF Present
    <3> QED  BY <1>1, <1>4, <2>2, <3>3, <3>4
  <2> QED  BY <1>1, <1>5, <2>1, <2>2 DEF Present
<1>6. overtaken \subseteq overtaken'  BY <1>1
<1> QED  BY <1>3, <1>5, <1>6, HomeGiven DEF HomeInv

LEMMA HomeStep ==
  ASSUME IInv, Next
  PROVE  /\ HomeInv(AliasSeats)'
         /\ Promoters = {} /\ TogetherInv => TogetherInv'
<1>1. TypeOK /\ WorkInv /\ HomeInv(AliasSeats) /\ AliasSeats \subseteq AllSeats
  BY SeatFacts DEF IInv
<1> USE DEF HomeInv, TogetherInv
<1>2. ASSUME NEW r \in Requests, Looks(r)
      PROVE  HomeInv(AliasSeats)' /\ (TogetherInv => TogetherInv')
  <2>1. AliasSeats' = AliasSeats /\ AllSeats' = AllSeats
    BY <1>1, <1>2, LooksShape, StillSeats
  <2>2. Home(AliasSeats, Present', overtaken')  BY <1>1, <1>2, LooksHome
  <2>3. TogetherInv => Home(AllSeats, Present', overtaken')  BY <1>1, <1>2, LooksHome
  <2> QED  BY <2>1, <2>2, <2>3
<1>3. ASSUME NEW r \in Requests, States(r)
      PROVE  HomeInv(AliasSeats)' /\ (Promoters = {} /\ TogetherInv => TogetherInv')
  <2> DEFINE p == request[r].person
  <2>1. AliasSeats' = AliasSeats /\ AllSeats' \subseteq AllSeats \cup {Seat(p, p)}
    BY <1>1, <1>3, StatesShape
  <2>2. Home(AliasSeats, Present', overtaken')  BY <1>1, <1>3, StatesHome
  <2>3. ASSUME Promoters = {}, TogetherInv PROVE Home(AllSeats', Present', overtaken')
    <3>1. r \in Ingests  BY <2>3 DEF Requests
    <3>2. Home(AllSeats \cup {Seat(p, p)}, Present', overtaken')
      BY <1>1, <1>3, <2>3, <3>1, StatesHome
    <3> HIDE DEF p
    <3> QED  BY <2>1, <3>2 DEF Home
  <2> QED  BY <2>1, <2>2, <2>3
<1>4. ASSUME NEW r \in Ingests, Observe(r)
      PROVE  HomeInv(AliasSeats)' /\ (TogetherInv => TogetherInv')
  <2>1. /\ AliasSeats' \subseteq {Restored(s, Subject(r), Split(r)) : s \in AliasSeats} \cup {Seat(Subject(r), Subject(r))}
        /\ AllSeats' \subseteq {Restored(s, Subject(r), Split(r)) : s \in AllSeats} \cup {Seat(Subject(r), Subject(r))}
    BY <1>4, ObserveShape
  <2>2. Home(AliasSeats', Present', overtaken')  BY <1>1, <1>4, <2>1, ObserveHome
  <2>3. TogetherInv => Home(AllSeats', Present', overtaken')  BY <1>1, <1>4, <2>1, ObserveHome
  <2> QED  BY <2>2, <2>3
<1>5. CASE Works
  <2>1. /\ AliasSeats' = AliasSeats /\ AllSeats' = AllSeats
        /\ request' = request /\ overtaken' = overtaken
    BY <1>1, <1>5, WorksJobs, StillSeats DEF Still
  <2>2. Present' = Present  BY <2>1 DEF Present
  <2> QED  BY <1>1, <2>1, <2>2
<1>6. ASSUME NEW w \in Workers, NEW p \in People, NEW q \in People, Merged(w, p, q)
      PROVE  HomeInv(AliasSeats)' /\ (TogetherInv => TogetherInv')
  <2>1. /\ AliasSeats' = {Given(s, p, q) : s \in AliasSeats}
        /\ AllSeats' = {Given(s, p, q) : s \in AllSeats}
    BY <1>6 DEF Merged
  <2>2. Home({Given(s, p, q) : s \in AliasSeats}, Present', overtaken')  BY <1>1, <1>6, MergeHome
  <2>3. TogetherInv => Home({Given(s, p, q) : s \in AllSeats}, Present', overtaken')  BY <1>6, MergeHome
  <2> QED  BY <2>1, <2>2, <2>3
<1>7. ASSUME NEW w \in Workers, Merge(w)
      PROVE  HomeInv(AliasSeats)' /\ (TogetherInv => TogetherInv')
  BY <1>6, <1>7, MergeShape
<1> QED  BY <1>2, <1>3, <1>4, <1>5, <1>7, NextCases

-----------------------------------------------------------------------------
(* No conflict inside a person                                             *)

\* The aliases observed for a person who is not overtaken and owns an alias are
\* his own.
LEMMA ObservedIsOwned ==
  ASSUME IInv, NEW p \in People, p \notin overtaken, Owned(alias, p) # {}
  PROVE  Observed(alias, p) \subseteq Owned(alias, p)
<1>1. PICK j \in Keys : alias[j].owner = p  BY DEF Owned
<1>2. p # 0 /\ TypeOK  BY PeopleType DEF IInv
<1>3. p \in Present
  <2>1. Seat(p, alias[j].observed) \in AliasSeats  BY <1>1, <1>2, SeatOfAlias
  <2>2. Seat(p, alias[j].observed).owner = p  BY DEF Seat
  <2> QED  BY <2>1, <2>2 DEF Present
<1>4. ASSUME NEW k \in Observed(alias, p) PROVE alias[k].owner = p
  <2>1. k \in Keys /\ alias[k].owner # 0 /\ alias[k].observed = p  BY DEF Observed
  <2>2. Seat(alias[k].owner, p) \in AliasSeats  BY <2>1, SeatOfAlias
  <2>3. Seat(alias[k].owner, p).owner = alias[k].owner /\ Seat(alias[k].owner, p).observed = p
    BY DEF Seat
  <2> QED  BY <1>3, <2>2, <2>3 DEF IInv, HomeInv, Home
<1> QED  BY <1>4 DEF Observed, Owned

\* Persons without a common alias conflict in every source they have in common.
LEMMA FewerConflicts ==
  ASSUME NEW K \in SUBSET Keys, NEW L \in SUBSET Keys, K \cap L = {}, ~Conflicting(K, L),
         NEW A, NEW B, A \subseteq K, B \subseteq L
  PROVE  ~Conflicting(A, B)
<1> SUFFICES ASSUME NEW j \in A, NEW k \in B, Source[j] = Source[k] PROVE FALSE
  BY DEF Conflicting
<1>1. Source[j] \in {Source[i] : i \in K} \cap {Source[i] : i \in L}  OBVIOUS
<1>2. OfSource(K, Source[j]) \cap OfSource(L, Source[j]) # {}  BY <1>1 DEF Conflicting
<1> QED  BY <1>2 DEF OfSource

LEMMA ObserveConflict ==
  ASSUME IInv, NEW r \in Ingests, Observe(r)
  PROVE  NoConflictInside'
<1> DEFINE p == Subject(r)  S == Split(r)
<1>1. TypeOK /\ RootInv /\ NoConflictInside /\ r \in Requests /\ people \in Nat
  BY PeopleType DEF IInv, Requests
<1>2. /\ p \in 1 .. people' /\ p \in People /\ people' \in people .. MaxPeople
      /\ request[r].stage = "matched" /\ Taken(request[r].identity, request[r].person) = {}
      /\ request[r].person = p \/ (request[r].person = 0 /\ p = people + 1)
      /\ alias' = [k \in Keys |-> Restored(Written(r)[k], p, S)]
  BY ObserveShape
<1>3. /\ Written(r) \in [Keys -> AliasRow(people') \cup {NoAlias}]
      /\ \A k \in Keys :
           LET a == Written(r)[k] IN
           \/ alias[k].owner = 0 /\ a.owner = p /\ a.observed = p
           \/ a.owner = alias[k].owner /\ a.observed = alias[k].observed
  <2>1. people' \in Nat /\ people' >= people /\ people' >= p  BY <1>1, <1>2
  <2> QED  BY <1>1, <1>2, <2>1, WrittenFacts
<1>4. /\ into' = [c \in People |-> IF c \in S THEN 0 ELSE into[c]] /\ overtaken' = overtaken
  BY DEF Observe, Subject, Split, Written
<1>5. \A c \in People : into[c] = p /\ c \notin S => ~Conflicting(Observed(Written(r), p), Observed(Written(r), c))
  BY DEF Split, Contradicted
<1>6. ASSUME NEW x \in People PROVE Observed(alias', x) = Observed(Written(r), x)
  <2>1. ASSUME NEW k \in Keys
        PROVE  /\ alias'[k].observed = Written(r)[k].observed
               /\ alias'[k].owner # 0 <=> Written(r)[k].owner # 0
    <3>1. alias'[k] = Restored(Written(r)[k], p, S)  BY <1>2
    <3>2. Written(r)[k] \in AliasRow(people') \/ Written(r)[k] = NoAlias  BY <1>3
    <3>3. /\ alias'[k].observed = Written(r)[k].observed
          /\ alias'[k].owner = IF Written(r)[k].owner = p /\ Written(r)[k].observed \in S
                               THEN Written(r)[k].observed ELSE Written(r)[k].owner
      BY <3>1, <3>2, RestoredFacts
    <3>4. CASE Written(r)[k] \in AliasRow(people')
      <4>1. Written(r)[k].owner # 0 /\ Written(r)[k].observed # 0
        BY <1>1, <1>2, <3>4 DEF AliasRow
      <4> QED  BY <3>3, <4>1
    <3>5. CASE Written(r)[k] = NoAlias
      <4>1. Written(r)[k].owner = 0 /\ p # 0  BY <1>2, <3>5 DEF NoAlias
      <4> QED  BY <3>3, <4>1
    <3> QED  BY <3>2, <3>4, <3>5
  <2> QED  BY <2>1 DEF Observed
<1>7. ASSUME NEW x \in People, x # p PROVE Observed(Written(r), x) = Observed(alias, x)
  <2>1. ASSUME NEW k \in Keys
        PROVE  (Written(r)[k].owner # 0 /\ Written(r)[k].observed = x)
                 <=> (alias[k].owner # 0 /\ alias[k].observed = x)
    BY <1>3, <1>7
  <2> QED  BY <2>1 DEF Observed
<1>8. into[p] = 0 \/ p \in overtaken
  <2>1. CASE request[r].person = p
    <3>1. p # 0  BY <1>2
    <3> QED  BY <1>1, <2>1, <3>1 DEF RootInv
  <2>2. CASE p = people + 1
    <3>1. into[p] # 0 => p <= people  BY <1>1, <1>2 DEF TypeOK
    <3> QED  BY <1>1, <2>2, <3>1
  <2> QED  BY <1>2, <2>1, <2>2
<1> HIDE DEF p, S
<1> SUFFICES ASSUME NEW x \in People \ overtaken, NEW c \in People \ overtaken, into'[c] = x
             PROVE  ~Conflicting(Observed(alias', x), Observed(alias', c))
  BY <1>4 DEF NoConflictInside
<1>9. x # 0 /\ c \notin S /\ into[c] = x
  BY <1>1, <1>4, PeopleType
<1>10. c # p  BY <1>8, <1>9
<1>11. CASE x = p  BY <1>5, <1>6, <1>9, <1>11
<1>12. CASE x # p
  <2>1. ~Conflicting(Observed(alias, x), Observed(alias, c))
    BY <1>1, <1>9 DEF NoConflictInside
  <2> QED  BY <1>6, <1>7, <1>10, <1>12, <2>1
<1> QED  BY <1>11, <1>12

LEMMA MergeConflict ==
  ASSUME IInv, NEW w \in Workers, NEW p \in People, NEW q \in People, Merged(w, p, q)
  PROVE  NoConflictInside'
<1>1. /\ p # q /\ into' = [into EXCEPT ![q] = p]
      /\ Owned(alias, p) # {} /\ Owned(alias, q) # {}
      /\ ~Conflicting(Owned(alias, p), Owned(alias, q))
      /\ overtaken \subseteq overtaken'
      /\ \A k \in Keys : /\ alias'[k].observed = alias[k].observed
                         /\ alias'[k].owner = IF alias[k].owner = q THEN p ELSE alias[k].owner
  BY DEF Merged
<1>2. TypeOK /\ NoConflictInside /\ p # 0 /\ q # 0 /\ into \in [People -> 0 .. people]
  BY PeopleType DEF IInv, TypeOK
<1>3. \A x : Observed(alias', x) = Observed(alias, x)
  BY <1>1, <1>2 DEF Observed
<1> SUFFICES ASSUME NEW x \in People \ overtaken', NEW c \in People \ overtaken', into'[c] = x
             PROVE  ~Conflicting(Observed(alias', x), Observed(alias', c))
  BY DEF NoConflictInside
<1>4. CASE c = q
  <2>1. x = p  BY <1>1, <1>2, <1>4
  <2>2. Observed(alias, p) \subseteq Owned(alias, p) /\ Observed(alias, q) \subseteq Owned(alias, q)
    BY <1>1, <1>4, <2>1, ObservedIsOwned
  <2>3. /\ Owned(alias, p) \cap Owned(alias, q) = {}
        /\ Owned(alias, p) \in SUBSET Keys /\ Owned(alias, q) \in SUBSET Keys
    BY <1>1 DEF Owned
  <2>4. ~Conflicting(Observed(alias, p), Observed(alias, q))
    BY <1>1, <2>2, <2>3, FewerConflicts
  <2> QED  BY <1>3, <1>4, <2>1, <2>4
<1>5. CASE c # q
  <2>1. into[c] = x  BY <1>1, <1>2, <1>5
  <2>2. ~Conflicting(Observed(alias, x), Observed(alias, c))
    BY <1>1, <1>2, <2>1 DEF NoConflictInside
  <2> QED  BY <1>3, <2>2
<1> QED  BY <1>4, <1>5

LEMMA ConflictStep ==
  ASSUME IInv, Next
  PROVE  NoConflictInside'
<1>1. TypeOK /\ WorkInv /\ NoConflictInside  BY DEF IInv
<1>2. ASSUME UNCHANGED <<into, alias, overtaken>> PROVE NoConflictInside'
  BY <1>1, <1>2 DEF NoConflictInside
<1>3. ASSUME NEW r \in Requests, Looks(r) PROVE NoConflictInside'
  <2>1. Still  BY <1>1, <1>3, LooksShape
  <2> QED  BY <1>2, <2>1 DEF Still, rows
<1>4. ASSUME NEW r \in Requests, States(r) PROVE NoConflictInside'
  BY <1>1, <1>2, <1>4, StatesShape
<1>5. CASE Works
  <2>1. Still  BY <1>1, <1>5, WorksJobs
  <2> QED  BY <1>2, <2>1 DEF Still, rows
<1>6. ASSUME NEW w \in Workers, Merge(w) PROVE NoConflictInside'
  BY <1>6, MergeShape, MergeConflict
<1> QED  BY <1>3, <1>4, <1>5, <1>6, NextCases, ObserveConflict

-----------------------------------------------------------------------------
(* The theorems                                                            *)

LEMMA InitHolds ==
  ASSUME Init
  PROVE  IInv /\ TogetherInv
<1>1. TypeOK
  <2>1. RowTypes
    BY IdentityAssumption DEF Init, RowTypes
  <2>2. JobTypes /\ OtherTypes
    BY IdentityAssumption DEF Init, JobTypes, OtherTypes
  <2>3. RequestTypes
    BY IdleOK DEF Init, RequestTypes
  <2> QED  BY <2>1, <2>2, <2>3, TypeParts
<1>2. WorkInv  BY DEF Init, WorkInv
<1>3. AllSeats = {} /\ AliasSeats = {}
  BY DEF Init, AllSeats, AliasSeats, Seats, Belongings, Aliases, NoAlias
<1>4. RootInv
  <2>1. \A r \in Requests : request[r].person = 0  BY DEF Init, NoRequest
  <2> QED  BY <1>3, <2>1 DEF RootInv
<1>5. HomeInv(AliasSeats) /\ HomeInv(AllSeats)
  BY <1>3 DEF HomeInv, Home
<1>6. NoConflictInside
  BY PeopleType, <1>1 DEF Init, NoConflictInside
<1> QED  BY <1>1, <1>2, <1>4, <1>5, <1>6 DEF IInv, TogetherInv

LEMMA StutterHolds ==
  ASSUME UNCHANGED vars
  PROVE  (IInv => IInv') /\ (TogetherInv => TogetherInv')
<1>1. UNCHANGED <<people, into, alias, parts, claims, refresh, pairs, decisions, request, work, overtaken, begun, faults>>
  BY DEF vars
<1>2. AliasSeats' = AliasSeats /\ AllSeats' = AllSeats
  BY <1>1 DEF AliasSeats, AllSeats, Aliases, Belongings
<1>3. Present' = Present  BY <1>1, <1>2 DEF Present
<1>4. TypeOK => TypeOK'  BY <1>1 DEF TypeOK
<1>5. WorkInv => WorkInv'  BY <1>1 DEF WorkInv, Roots, Contradictory
<1>6. RootInv => RootInv'  BY <1>1, <1>2 DEF RootInv
<1>7. HomeInv(AliasSeats) => HomeInv(AliasSeats)'  BY <1>1, <1>2, <1>3 DEF HomeInv
<1>8. HomeInv(AllSeats) => HomeInv(AllSeats)'  BY <1>1, <1>2, <1>3 DEF HomeInv
<1>9. NoConflictInside => NoConflictInside'  BY <1>1 DEF NoConflictInside
<1> QED  BY <1>4, <1>5, <1>6, <1>7, <1>8, <1>9 DEF IInv, TogetherInv

\* The inductive invariant: types, the pairs at work, where belongings are.
THEOREM Invariant == Spec => []IInv
<1>1. Init => IInv  BY InitHolds
<1>2. IInv /\ [Next]_vars => IInv'
  <2>1. CASE IInv /\ Next
    BY <2>1, TypeStep, PairsStep, RootStep, HomeStep, ConflictStep DEF IInv
  <2>2. CASE IInv /\ UNCHANGED vars  BY <2>2, StutterHolds
  <2> QED  BY <2>1, <2>2
<1> QED  BY <1>1, <1>2, PTL DEF Spec

\* Rows, jobs, verdicts and requests are what the tables may hold.
THEOREM TypeCorrect == Spec => []TypeOK
<1>1. IInv => TypeOK  BY DEF IInv
<1> QED  BY <1>1, Invariant, PTL

\* However observations, promotions, splits and merges interleave, what belongs
\* to a person who has been merged arrived by a request that had read the person
\* before the merge.
THEOREM Owners == Spec => []OwnersAreRoots
<1>1. IInv => OwnersAreRoots
  <2> SUFFICES ASSUME IInv, NEW x \in Belongings
               PROVE  into[x.owner] = 0 \/ x.owner \in overtaken
    BY DEF OwnersAreRoots, OwnersAreRootsUnless
  <2>1. Seat(x.owner, x.observed) \in AllSeats  BY DEF AllSeats, Seats
  <2>2. Seat(x.owner, x.observed).owner = x.owner  BY DEF Seat
  <2> QED  BY <2>1, <2>2 DEF IInv, RootInv
<1> QED  BY <1>1, Invariant, PTL

\* No merge joins persons whom a source tells apart, and none survives the
\* observation that tells them apart, for any number of sources and persons.
THEOREM NoConflict == Spec => []NoConflictInside
<1>1. IInv => NoConflictInside  BY DEF IInv
<1> QED  BY <1>1, Invariant, PTL

\* What the proof that rows stay together assumes: no fact is promoted.
NoPromotions == Promoters = {}

\* Without promotions, the aliases, documents and facts that were observed for
\* one person are always with one person, through merges, chains of merges and
\* splits.
THEOREM Together == NoPromotions => (Spec => []RowsStayTogether)
<1> SUFFICES ASSUME NoPromotions PROVE Spec => []RowsStayTogether
  OBVIOUS
<1>1. Init => TogetherInv  BY InitHolds
<1>2. IInv /\ TogetherInv /\ [Next]_vars => TogetherInv'
  <2>1. CASE IInv /\ TogetherInv /\ Next
    BY <2>1, HomeStep DEF NoPromotions
  <2>2. CASE TogetherInv /\ UNCHANGED vars  BY <2>2, StutterHolds
  <2> QED  BY <2>1, <2>2
<1>3. TogetherInv => RowsStayTogether
  <2> SUFFICES ASSUME TogetherInv, NEW x \in Belongings, NEW y \in Belongings,
                      x.observed = y.observed, x.observed \notin overtaken
               PROVE  x.owner = y.owner
    BY DEF RowsStayTogether
  <2>1. Seat(x.owner, x.observed) \in AllSeats /\ Seat(y.owner, y.observed) \in AllSeats
    BY DEF AllSeats, Seats
  <2>2. /\ Seat(x.owner, x.observed).owner = x.owner /\ Seat(x.owner, x.observed).observed = x.observed
        /\ Seat(y.owner, y.observed).owner = y.owner /\ Seat(y.owner, y.observed).observed = y.observed
    BY DEF Seat
  <2> QED  BY <2>1, <2>2 DEF TogetherInv, HomeInv, Home
<1>4. Spec => []TogetherInv  BY <1>1, <1>2, Invariant, PTL DEF Spec
<1> QED  BY <1>3, <1>4, PTL

-----------------------------------------------------------------------------
(* One value in force                                                      *)

\* A person has at most one value in force, unless he was overtaken by a merge:
\* then he may get back a value beside one that arrived late, both his own.  He
\* has at least one if he was never split nor merged with somebody who was.
ValueInv ==
  /\ \A p \in People : \A c, d \in Active(claims, p) :
       c = d \/ (p \in overtaken /\ c.observed = p /\ d.observed = p)
  /\ \A p \in People \ (overtaken \cup SplitOrMergedWithSplit) :
       \A c \in claims : c.owner = p => Active(claims, p) # {}
  /\ \A p \in overtaken : into[p] # 0 \/ p \in SplitPeople
  /\ \A c \in claims : into[c.owner] = 0 \/ c.observed = c.owner

\* Rows of n people, and what closing leaves of them: at most one of p's is active.
Facts(n, C) == C \in SUBSET Fact(n)
OneLeft(C, D, p) ==
  /\ \A c, d \in Active(D, p) : c = d
  /\ Active(C, p) # {} => Active(D, p) # {}
  /\ \A q : q # p => Active(D, q) = Active(C, q)

\* Closing a slot leaves one value in force where there was one, and touches
\* nobody else.
LEMMA ClosingsActive ==
  ASSUME NEW n, NEW C, Facts(n, C), NEW p, NEW D \in Closings(C, p)
  PROVE  OneLeft(C, D, p)
<1> USE DEF Facts, OneLeft
<1>1. CASE Active(C, p) = {}
  BY <1>1 DEF Closings
<1>2. CASE Active(C, p) # {}
  <2>1. PICK winner \in Active(C, p) :
          D = {IF c \in Active(C, p) \ {winner} THEN [c EXCEPT !.status = "superseded"] ELSE c :
                 c \in C}
    BY <1>2 DEF Closings
  <2> DEFINE f(c) == IF c \in Active(C, p) \ {winner} THEN [c EXCEPT !.status = "superseded"] ELSE c
  <2>2. D = {f(c) : c \in C}  BY <2>1
  <2>3. \A c \in C : c \in Active(C, p) \ {winner} =>
          f(c).owner = p /\ f(c).status = "superseded"
    BY DEF Fact, Active
  <2>4. \A c \in C : c \notin Active(C, p) \ {winner} => f(c) = c
    OBVIOUS
  <2> HIDE DEF f
  <2>5. Active(D, p) = {winner}
    BY <2>1, <2>2, <2>3, <2>4 DEF Active
  <2>6. ASSUME NEW q, q # p PROVE Active(D, q) = Active(C, q)
    <3>1. \A c \in C : c.owner = q => f(c) = c  BY <2>4, <2>6 DEF Active
    <3>2. \A c \in C : f(c).owner = q => f(c) = c  BY <2>3, <2>4, <2>6
    <3> QED  BY <2>2, <3>1, <3>2 DEF Active
  <2> QED  BY <2>5, <2>6
<1> QED  BY <1>1, <1>2

LEMMA StatedActive ==
  ASSUME NEW n, NEW C \in SUBSET Fact(n), NEW p \in 1 .. n, NEW v \in Values \cup {None},
         NEW D \in Stated(C, p, v)
  PROVE  /\ D # C => Active(D, p) # {} /\ \A c, d \in Active(D, p) : c = d
         /\ \A q : q # p => Active(D, q) = Active(C, q)
<1>1. CASE v = None
  BY <1>1 DEF Stated
<1>2. CASE v # None
  <2> DEFINE new == [owner |-> p, observed |-> p, value |-> v, status |-> "active"]
             E == IF \E c \in Active(C, p) : c.value = v THEN C ELSE C \cup {new}
  <2>1. new \in Fact(n) /\ new.owner = p /\ new.status = "active"
    BY <1>2 DEF Fact
  <2>2. D \in Closings(E, p)
    BY <1>2 DEF Stated
  <2> HIDE DEF new
  <2>3. /\ E \in SUBSET Fact(n) /\ Active(E, p) # {}
        /\ \A q : q # p => Active(E, q) = Active(C, q)
    BY <2>1 DEF Active
  <2> HIDE DEF E
  <2>4. Facts(n, E)  BY <2>3 DEF Facts
  <2>5. OneLeft(E, D, p)  BY <2>2, <2>4, ClosingsActive
  <2> QED  BY <2>3, <2>5 DEF OneLeft
<1> QED  BY <1>1, <1>2

\* The persons of the splits, and those merged with them, only become more.
LEMMA SplitMore ==
  ASSUME SplitPeople \subseteq SplitPeople',
         \A T \in SUBSET People :
           SplitPeople' \subseteq T /\ ClosedUnderMerge(T)' => ClosedUnderMerge(T)
  PROVE  SplitOrMergedWithSplit \subseteq SplitOrMergedWithSplit'
<1>1. ASSUME NEW p \in SplitOrMergedWithSplit, NEW T \in SUBSET People,
             SplitPeople' \subseteq T, ClosedUnderMerge(T)'
      PROVE  p \in T
  BY <1>1 DEF SplitOrMergedWithSplit
<1>2. SplitOrMergedWithSplit \subseteq People  BY DEF SplitOrMergedWithSplit
<1> QED  BY <1>1, <1>2 DEF SplitOrMergedWithSplit

LEMMA SplitMoreDecisions ==
  ASSUME decisions \subseteq decisions'
  PROVE  SplitPeople \subseteq SplitPeople' /\ SplitOrMergedWithSplit \subseteq SplitOrMergedWithSplit'
<1>1. SplitPeople \subseteq SplitPeople'  BY DEF SplitPeople
<1>2. \A T \in SUBSET People : ClosedUnderMerge(T)' => ClosedUnderMerge(T)
  BY DEF ClosedUnderMerge
<1> QED  BY <1>1, <1>2, SplitMore

LEMMA SplitPeopleCovered ==
  ASSUME NEW p \in SplitPeople, p \in People
  PROVE  p \in SplitOrMergedWithSplit
BY DEF SplitOrMergedWithSplit

\* A step that moves no person and no fact.
LEMMA StillValues ==
  ASSUME ValueInv, UNCHANGED <<into, claims, overtaken>>, decisions \subseteq decisions'
  PROVE  ValueInv'
BY SplitMoreDecisions DEF ValueInv

LEMMA StatesValues ==
  ASSUME TypeOK, ValueInv, NEW r \in Requests, States(r)
  PROVE  ValueInv'
<1> DEFINE p == request[r].person
<1>1. /\ p \in 1 .. people /\ UNCHANGED <<into, decisions, overtaken>>
      /\ \E v \in Values \cup {None} : claims' \in Stated(claims, p, v)
      /\ claims' \subseteq Fact(people)
  BY StatesShape
<1>2. claims \in SUBSET Fact(people)  BY DEF TypeOK
<1> HIDE DEF p
<1>3. PICK v \in Values \cup {None} : claims' \in Stated(claims, p, v)  BY <1>1
<1>4. /\ claims' = claims \/ (Active(claims', p) # {} /\ \A c, d \in Active(claims', p) : c = d)
      /\ \A q : q # p => Active(claims', q) = Active(claims, q)
      /\ Seats(claims') \subseteq Seats(claims) \cup {Seat(p, p)}
  <2>1. /\ claims' = claims \/ (Active(claims', p) # {} /\ \A c, d \in Active(claims', p) : c = d)
        /\ \A q : q # p => Active(claims', q) = Active(claims, q)
    <3>1. ASSUME NEW C \in SUBSET Fact(people), NEW D \in Stated(C, p, v)
          PROVE  /\ D # C => Active(D, p) # {} /\ \A c, d \in Active(D, p) : c = d
                 /\ \A q : q # p => Active(D, q) = Active(C, q)
      BY <1>1, StatedActive
    <3> QED  BY <1>2, <1>3, <3>1
  <2>2. Seats(claims') \subseteq Seats(claims) \cup {Seat(p, p)}
    BY <1>1, <1>2, <1>3, StatedKeep
  <2> QED  BY <2>1, <2>2
<1>5. CASE claims' = claims
  BY <1>1, <1>5, StillValues
<1>6. CASE Active(claims', p) # {} /\ \A c, d \in Active(claims', p) : c = d
  <2>1. ASSUME NEW c \in claims'
        PROVE  \/ c.owner = p /\ c.observed = p
               \/ \E d \in claims : c.owner = d.owner /\ c.observed = d.observed
    <3>1. Seat(c.owner, c.observed) \in Seats(claims) \cup {Seat(p, p)}
      BY <1>4 DEF Seats
    <3> QED  BY <3>1 DEF Seats, Seat
  <2>2. SplitOrMergedWithSplit' = SplitOrMergedWithSplit /\ SplitPeople' = SplitPeople
    BY <1>1 DEF SplitOrMergedWithSplit, SplitPeople, ClosedUnderMerge
  <2>3. \A q \in People : \A c, d \in Active(claims', q) :
          c = d \/ (q \in overtaken /\ c.observed = q /\ d.observed = q)
    BY <1>4, <1>6 DEF ValueInv
  <2>4. ASSUME NEW q \in People \ (overtaken \cup SplitOrMergedWithSplit), NEW c \in claims', c.owner = q
        PROVE  Active(claims', q) # {}
    <3>1. CASE q = p  BY <1>6, <3>1
    <3>2. CASE q # p  BY <1>4, <2>1, <2>4, <3>2 DEF ValueInv
    <3> QED  BY <3>1, <3>2
  <2>5. \A c \in claims' : into[c.owner] = 0 \/ c.observed = c.owner
    BY <2>1 DEF ValueInv
  <2> QED  BY <1>1, <2>2, <2>3, <2>4, <2>5 DEF ValueInv
<1> QED  BY <1>4, <1>5, <1>6

LEMMA ObserveSplits ==
  ASSUME IInv, NEW r \in Ingests, Observe(r)
  PROVE  /\ SplitPeople \subseteq SplitPeople'
         /\ \A c \in Split(r) : c \in SplitPeople' /\ Subject(r) \in SplitPeople'
         /\ SplitOrMergedWithSplit \subseteq SplitOrMergedWithSplit'
<1> DEFINE p == Subject(r)  S == Split(r)
<1>1. /\ decisions' = {Reversed(d, p, S) : d \in decisions} \cup Splits(Written(r), p, S)
      /\ decisions \subseteq Verdict
  BY DEF Observe, Subject, Split, Written, IInv, TypeOK
<1> HIDE DEF p, S
<1>2. ASSUME NEW c \in S
      PROVE  \E e \in decisions' : e.status = "split_conflict" /\ e.pair = {p, c}
  <2> DEFINE print == {[id |-> q, rows |-> {[key |-> k, mail |-> Written(r)[k].mail, observed |-> q] :
                                              k \in Observed(Written(r), q)}] : q \in {p, c}}
             e == Decision({p, c}, "split_conflict", print)
  <2>1. e \in Splits(Written(r), p, S)  BY DEF Splits
  <2>2. e.status = "split_conflict" /\ e.pair = {p, c}  BY DEF Decision
  <2> HIDE DEF e
  <2> QED  BY <1>1, <2>1, <2>2
<1>3. ASSUME NEW d \in decisions
      PROVE  /\ Reversed(d, p, S).pair = d.pair
             /\ d.status = "split_conflict" => Reversed(d, p, S) = d
             /\ Reversed(d, p, S) = d \/ \E c \in S : d.pair = {p, c}
  <2>1. d \in Verdict  BY <1>1
  <2> QED  BY <2>1 DEF Reversed, Verdict
<1>4. SplitPeople \subseteq SplitPeople'
  <2> SUFFICES ASSUME NEW d \in decisions, d.status = "split_conflict"
               PROVE  d \in decisions'
    BY DEF SplitPeople
  <2>1. Reversed(d, p, S) = d  BY <1>3
  <2> QED  BY <1>1, <2>1
<1>5. ASSUME NEW c \in S PROVE c \in SplitPeople' /\ p \in SplitPeople'
  <2>1. PICK e \in decisions' : e.status = "split_conflict" /\ e.pair = {p, c}  BY <1>2
  <2> QED  BY <2>1 DEF SplitPeople
<1>6. ASSUME NEW T \in SUBSET People, SplitPeople' \subseteq T, ClosedUnderMerge(T)'
      PROVE  ClosedUnderMerge(T)
  <2> SUFFICES ASSUME NEW d \in decisions, d.status = "auto_merged", d.pair \cap T # {}
               PROVE  d.pair \subseteq T
    BY DEF ClosedUnderMerge
  <2>1. CASE Reversed(d, p, S) = d
    <3>1. d \in decisions'  BY <1>1, <2>1
    <3> QED  BY <1>6, <3>1 DEF ClosedUnderMerge
  <2>2. CASE \E c \in S : d.pair = {p, c}
    BY <1>5, <1>6, <2>2
  <2> QED  BY <1>3, <2>1, <2>2
<1>7. SplitOrMergedWithSplit \subseteq SplitOrMergedWithSplit'
  BY <1>4, <1>6, SplitMore
<1> QED  BY <1>4, <1>5, <1>7 DEF p, S

\* What a split leaves with p, and what it gives back.
LEMMA RestoredActive ==
  ASSUME NEW n, NEW C \in SUBSET Fact(n), NEW p, NEW S, p \notin S
  PROVE  Active(RestoredRows(C, p, S), p) \subseteq Active(C, p)
<1>1. ASSUME NEW x \in C, Restored(x, p, S).owner = p PROVE Restored(x, p, S) = x
  BY <1>1 DEF Restored, Fact
<1>2. \A y \in RestoredRows(C, p, S) : \E x \in C : y = Restored(x, p, S)
  BY DEF RestoredRows
<1> QED  BY <1>1, <1>2 DEF Active

LEMMA RestoredOthers ==
  ASSUME NEW n, NEW C \in SUBSET Fact(n), NEW p, NEW S, p \notin S, NEW q, q # p, q \notin S
  PROVE  Active(RestoredRows(C, p, S), q) = Active(C, q)
<1>1. ASSUME NEW x \in C, x.owner = q \/ Restored(x, p, S).owner = q PROVE Restored(x, p, S) = x
  BY <1>1 DEF Restored, Fact
<1>2. /\ \A y \in RestoredRows(C, p, S) : \E x \in C : y = Restored(x, p, S)
      /\ \A x \in C : Restored(x, p, S) \in RestoredRows(C, p, S)
  BY DEF RestoredRows
<1> QED  BY <1>1, <1>2 DEF Active

LEMMA RestoredBack ==
  ASSUME NEW n, NEW C \in SUBSET Fact(n), NEW p, NEW S, p \notin S, NEW q \in S,
         NEW y \in Active(RestoredRows(C, p, S), q)
  PROVE  y \in Active(C, q) \/ \E x \in Active(C, p) : x.observed = q /\ y = Restored(x, p, S)
<1>1. PICK x \in C : y = Restored(x, p, S)  BY DEF Active, RestoredRows
<1>2. /\ Restored(x, p, S).status = x.status
      /\ x.owner = p /\ x.observed \in S => Restored(x, p, S).owner = x.observed
      /\ ~(x.owner = p /\ x.observed \in S) => Restored(x, p, S) = x
  BY DEF Restored, Fact
<1>3. y.owner = q /\ y.status = "active" /\ x.status = "active"
  BY <1>1, <1>2 DEF Active
<1>4. CASE x.owner = p /\ x.observed \in S
  BY <1>1, <1>2, <1>3, <1>4 DEF Active
<1>5. CASE ~(x.owner = p /\ x.observed \in S)
  BY <1>1, <1>2, <1>3, <1>5 DEF Active
<1> QED  BY <1>4, <1>5

LEMMA ObserveValues ==
  ASSUME IInv, ValueInv, NEW r \in Ingests, Observe(r)
  PROVE  ValueInv'
<1> DEFINE p == Subject(r)  S == Split(r)
           kept == RestoredRows(claims, p, S)
<1>1. /\ p \in 1 .. people' /\ p \in People /\ people' \in people .. MaxPeople
      /\ S \subseteq People /\ p \notin S /\ \A c \in S : into[c] = p
  BY ObserveShape
<1>2. /\ into' = [c \in People |-> IF c \in S THEN 0 ELSE into[c]] /\ overtaken' = overtaken
      /\ \E v \in Values \cup {None} : claims' \in Stated(kept, p, v)
  BY DEF Observe, Subject, Split, Written
<1>3. /\ SplitPeople \subseteq SplitPeople' /\ \A c \in S : c \in SplitPeople' /\ p \in SplitPeople'
      /\ SplitOrMergedWithSplit \subseteq SplitOrMergedWithSplit'
  BY ObserveSplits
<1>4. TypeOK /\ RootInv /\ people \in Nat /\ overtaken \subseteq People /\ 0 \notin People
      /\ 1 .. people \subseteq People
  BY PeopleType DEF IInv, TypeOK
<1> HIDE DEF p, S
<1>5. claims \in SUBSET Fact(people')
  <2>1. Fact(people) \subseteq Fact(people')  BY <1>1, <1>4 DEF Fact
  <2> QED  BY <1>4, <2>1 DEF TypeOK
<1>6. /\ Active(kept, p) \subseteq Active(claims, p)
      /\ \A q : q # p /\ q \notin S => Active(kept, q) = Active(claims, q)
      /\ \A q \in S : \A y \in Active(kept, q) :
           y \in Active(claims, q) \/ \E x \in Active(claims, p) : x.observed = q /\ y = Restored(x, p, S)
  <2>1. ASSUME NEW C \in SUBSET Fact(people')
        PROVE  /\ Active(RestoredRows(C, p, S), p) \subseteq Active(C, p)
               /\ \A q : q # p /\ q \notin S => Active(RestoredRows(C, p, S), q) = Active(C, q)
               /\ \A q \in S : \A y \in Active(RestoredRows(C, p, S), q) :
                    y \in Active(C, q) \/ \E x \in Active(C, p) : x.observed = q /\ y = Restored(x, p, S)
    <3>1. p \notin S  BY <1>1
    <3>2. Active(RestoredRows(C, p, S), p) \subseteq Active(C, p)  BY <3>1, RestoredActive
    <3>3. \A q : q # p /\ q \notin S => Active(RestoredRows(C, p, S), q) = Active(C, q)
      BY <3>1, RestoredOthers
    <3>4. \A q \in S : \A y \in Active(RestoredRows(C, p, S), q) :
            y \in Active(C, q) \/ \E x \in Active(C, p) : x.observed = q /\ y = Restored(x, p, S)
      BY <3>1, RestoredBack
    <3> QED  BY <3>2, <3>3, <3>4
  <2> QED  BY <1>5, <2>1
<1>7. kept \in SUBSET Fact(people')
  BY <1>5, RestoredFacts DEF RestoredRows
<1>8. ASSUME NEW x \in claims
      PROVE  /\ Restored(x, p, S).observed = x.observed
             /\ Restored(x, p, S).owner = IF x.owner = p /\ x.observed \in S THEN x.observed ELSE x.owner
  BY <1>5, RestoredFacts
<1> HIDE DEF kept
<1>9. /\ claims' # kept => Active(claims', p) # {} /\ \A c, d \in Active(claims', p) : c = d
      /\ \A q : q # p => Active(claims', q) = Active(kept, q)
      /\ Seats(claims') \subseteq Seats(kept) \cup {Seat(p, p)}
  <2>1. PICK v \in Values \cup {None} : claims' \in Stated(kept, p, v)  BY <1>2
  <2>2. ASSUME NEW C \in SUBSET Fact(people'), NEW D \in Stated(C, p, v)
        PROVE  /\ D # C => Active(D, p) # {} /\ \A c, d \in Active(D, p) : c = d
               /\ \A q : q # p => Active(D, q) = Active(C, q)
    BY <1>1, StatedActive
  <2>3. ASSUME NEW C \in SUBSET Fact(people'), NEW D \in Stated(C, p, v)
        PROVE  Seats(D) \subseteq Seats(C) \cup {Seat(p, p)}
    BY <1>1, StatedKeep
  <2> QED  BY <1>7, <2>1, <2>2, <2>3
<1>10. ASSUME NEW c \in claims'
       PROVE  \/ c.owner = p /\ c.observed = p
              \/ \E d \in claims : /\ c.observed = d.observed
                                   /\ c.owner = IF d.owner = p /\ d.observed \in S THEN d.observed ELSE d.owner
  <2>1. Seat(c.owner, c.observed) \in Seats(kept) \cup {Seat(p, p)}
    BY <1>9 DEF Seats
  <2>2. CASE Seat(c.owner, c.observed) = Seat(p, p)  BY <2>2 DEF Seat
  <2>3. ASSUME NEW y \in kept, Seat(c.owner, c.observed) = Seat(y.owner, y.observed)
        PROVE  \E d \in claims : /\ c.observed = d.observed
                                 /\ c.owner = IF d.owner = p /\ d.observed \in S THEN d.observed ELSE d.owner
    <3>1. PICK d \in claims : y = Restored(d, p, S)  BY DEF kept, RestoredRows
    <3>2. c.owner = y.owner /\ c.observed = y.observed  BY <2>3 DEF Seat
    <3> QED  BY <1>8, <3>1, <3>2
  <2> QED  BY <2>1, <2>2, <2>3 DEF Seats
<1>11. ASSUME NEW q \in People, NEW c \in Active(claims', q), NEW d \in Active(claims', q)
       PROVE  c = d \/ (q \in overtaken /\ c.observed = q /\ d.observed = q)
  <2>1. CASE q = p
    BY <1>6, <1>9, <2>1 DEF ValueInv
  <2>2. CASE q # p /\ q \notin S
    BY <1>6, <1>9, <2>2 DEF ValueInv
  <2>3. CASE q \in S
    <3>0. q # p /\ into[q] # 0 /\ c \in Active(kept, q) /\ d \in Active(kept, q)
      BY <1>1, <1>4, <1>9, <2>3
    <3>1. ASSUME NEW x \in Active(claims, q) PROVE x.observed = q /\ q \in overtaken
      <4>1. x \in claims /\ x.owner = q  BY DEF Active
      <4>2. x.observed = q  BY <3>0, <4>1 DEF ValueInv
      <4>3. Seat(q, x.observed) \in AllSeats /\ Seat(q, x.observed).owner = q
        BY <4>1 DEF AllSeats, Seats, Belongings, Seat
      <4> QED  BY <1>4, <3>0, <4>2, <4>3 DEF RootInv
    <3>2. ASSUME NEW y \in Active(kept, q)
          PROVE  \/ y \in Active(claims, q)
                 \/ \E x \in Active(claims, p) : x.observed = q /\ y = Restored(x, p, S)
      BY <1>6, <2>3
    <3>3. ASSUME NEW y \in Active(kept, q) PROVE y.observed = q
      <4>1. CASE y \in Active(claims, q)  BY <3>1, <4>1
      <4>2. ASSUME NEW x \in Active(claims, p), x.observed = q, y = Restored(x, p, S)
            PROVE  y.observed = q
        <5>1. x \in claims  BY DEF Active
        <5> QED  BY <1>8, <4>2, <5>1
      <4> QED  BY <3>2, <4>1, <4>2
    <3>4. CASE c \in Active(claims, q) \/ d \in Active(claims, q)
      BY <3>0, <3>1, <3>3, <3>4
    <3>5. CASE c \notin Active(claims, q) /\ d \notin Active(claims, q)
      <4>1. PICK x \in Active(claims, p) : x.observed = q /\ c = Restored(x, p, S)
        BY <3>0, <3>2, <3>5
      <4>2. PICK y \in Active(claims, p) : y.observed = q /\ d = Restored(y, p, S)
        BY <3>0, <3>2, <3>5
      <4>3. x = y  BY <1>1, <3>0, <4>1, <4>2 DEF ValueInv
      <4> QED  BY <4>1, <4>2, <4>3
    <3> QED  BY <3>4, <3>5
  <2> QED  BY <2>1, <2>2, <2>3
<1>12. ASSUME NEW q \in People \ (overtaken \cup SplitOrMergedWithSplit'), NEW c \in claims', c.owner = q
       PROVE  Active(claims', q) # {}
  <2>1. q \notin SplitPeople' /\ q \notin SplitOrMergedWithSplit
    <3>1. q \notin SplitOrMergedWithSplit  BY <1>3, <1>12
    <3>2. q \in People /\ q \notin SplitOrMergedWithSplit'  BY <1>12
    <3>3. SplitPeople' \cap People \subseteq SplitOrMergedWithSplit'
      BY DEF SplitOrMergedWithSplit
    <3> QED  BY <3>1, <3>2, <3>3
  <2>2. q \notin S  BY <1>3, <2>1
  <2>3. CASE q = p
    <3>1. S = {}  BY <1>3, <2>1, <2>3
    <3>2. kept = claims
      <4>1. \A x \in claims : Restored(x, p, S) = x  BY <3>1 DEF Restored
      <4> QED  BY <4>1 DEF kept, RestoredRows
    <3>3. CASE claims' = kept  BY <1>12, <2>1, <3>2, <3>3 DEF ValueInv
    <3> QED  BY <1>9, <2>3, <3>3
  <2>4. CASE q # p
    <3>1. PICK d \in claims : c.owner = IF d.owner = p /\ d.observed \in S THEN d.observed ELSE d.owner
      BY <1>10, <1>12, <2>4
    <3>2. d.owner = q  BY <1>12, <2>2, <3>1
    <3>3. Active(claims, q) # {}  BY <1>12, <2>1, <3>2 DEF ValueInv
    <3> QED  BY <1>6, <1>9, <2>2, <2>4, <3>3
  <2> QED  BY <2>3, <2>4
<1>13. ASSUME NEW q \in overtaken PROVE into'[q] # 0 \/ q \in SplitPeople'
  <2>1. q \in People  BY <1>4
  <2>2. CASE q \in S  BY <1>3, <2>2
  <2>3. CASE q \notin S
    <3>1. into'[q] = into[q]  BY <1>2, <2>1, <2>3
    <3> QED  BY <1>3, <3>1 DEF ValueInv
  <2> QED  BY <2>2, <2>3
<1>14. ASSUME NEW c \in claims' PROVE into'[c.owner] = 0 \/ c.observed = c.owner
  <2>1. CASE c.owner = p /\ c.observed = p  BY <2>1
  <2>2. ASSUME NEW d \in claims, c.observed = d.observed,
               c.owner = IF d.owner = p /\ d.observed \in S THEN d.observed ELSE d.owner
        PROVE  into'[c.owner] = 0 \/ c.observed = c.owner
    <3>1. CASE d.owner = p /\ d.observed \in S  BY <2>2, <3>1
    <3>2. CASE c.owner = d.owner
      <4>1. d.owner \in People  BY <1>4 DEF TypeOK, Fact
      <4>2. into[d.owner] = 0 \/ d.observed = d.owner  BY DEF ValueInv
      <4> QED  BY <1>2, <2>2, <3>2, <4>1, <4>2
    <3> QED  BY <2>2, <3>1, <3>2
  <2> QED  BY <1>10, <2>1, <2>2
<1> QED  BY <1>2, <1>11, <1>12, <1>13, <1>14 DEF ValueInv

LEMMA MergeValues ==
  ASSUME IInv, ValueInv, NEW w \in Workers, NEW p \in People, NEW q \in People, Merged(w, p, q)
  PROVE  ValueInv'
<1>1. /\ p # q /\ p \in 1 .. people /\ into[p] = 0 /\ into[q] = 0 /\ into' = [into EXCEPT ![q] = p]
      /\ overtaken' = IF \E r \in Requests : request[r].person = q
                        THEN overtaken \cup {q} ELSE overtaken
      /\ decisions' = decisions \cup {DecisionOn({p, q}, "auto_merged")}
      /\ claims' \in Closings(GivenRows(claims, p, q), p)
  BY DEF Merged
<1>2. /\ TypeOK /\ people \in Nat /\ overtaken \subseteq People /\ 0 \notin People
      /\ 1 .. people \subseteq People /\ into \in [People -> 0 .. people]
      /\ claims \in SUBSET Fact(people)
  BY PeopleType DEF IInv, TypeOK
<1>3. SplitPeople \subseteq SplitPeople' /\ SplitOrMergedWithSplit \subseteq SplitOrMergedWithSplit'
  BY <1>1, SplitMoreDecisions
<1> DEFINE given == GivenRows(claims, p, q)
<1>4. ASSUME NEW x \in claims
      PROVE  /\ Given(x, p, q) \in Fact(people) /\ Given(x, p, q).status = x.status
             /\ Given(x, p, q).observed = x.observed
             /\ Given(x, p, q).owner = IF x.owner = q THEN p ELSE x.owner
             /\ x.owner # q => Given(x, p, q) = x
  <2>1. x \in Fact(people)  BY <1>2
  <2> QED  BY <1>1, <2>1, GivenFacts DEF Given
<1>5. /\ given \in SUBSET Fact(people)
      /\ \A y \in given : \E x \in claims : y = Given(x, p, q)
      /\ \A x \in claims : Given(x, p, q) \in given
  BY <1>4 DEF GivenRows
<1> HIDE DEF given
<1>6. /\ \A c, d \in Active(claims', p) : c = d
      /\ Active(given, p) # {} => Active(claims', p) # {}
      /\ \A x : x # p => Active(claims', x) = Active(given, x)
      /\ Seats(claims') = Seats(given)
  <2>1. claims' \in Closings(given, p)  BY <1>1 DEF given
  <2>2. Facts(people, given)  BY <1>5 DEF Facts
  <2>3. ASSUME NEW C \in SUBSET Fact(people), NEW D \in Closings(C, p)
        PROVE  Seats(D) = Seats(C)
    BY ClosingsKeep
  <2>4. OneLeft(given, claims', p)  BY <2>1, <2>2, ClosingsActive
  <2>5. Seats(claims') = Seats(given)  BY <1>5, <2>1, <2>3
  <2> QED  BY <2>4, <2>5 DEF OneLeft
<1>7. ASSUME NEW c \in claims'
      PROVE  \E x \in claims : /\ c.observed = x.observed
                               /\ c.owner = IF x.owner = q THEN p ELSE x.owner
  <2>1. Seat(c.owner, c.observed) \in Seats(given)  BY <1>6 DEF Seats
  <2>2. PICK y \in given : Seat(c.owner, c.observed) = Seat(y.owner, y.observed)
    BY <2>1 DEF Seats
  <2>3. c.owner = y.owner /\ c.observed = y.observed  BY <2>2 DEF Seat
  <2> QED  BY <1>4, <1>5, <2>3
<1>8. Active(given, q) = {}
  BY <1>1, <1>4, <1>5 DEF Active
<1>9. ASSUME NEW x, x # p, x # q PROVE Active(given, x) = Active(claims, x)
  <2>1. ASSUME NEW y \in Active(given, x) PROVE y \in Active(claims, x)
    <3>1. y \in given /\ y.owner = x /\ y.status = "active"  BY DEF Active
    <3>2. PICK z \in claims : y = Given(z, p, q)  BY <1>5, <3>1
    <3>3. z.owner # q  BY <1>4, <1>9, <3>1, <3>2
    <3>4. y = z  BY <1>4, <3>2, <3>3
    <3> QED  BY <3>1, <3>4 DEF Active
  <2>2. ASSUME NEW y \in Active(claims, x) PROVE y \in Active(given, x)
    <3>1. y \in claims /\ y.owner = x /\ y.status = "active"  BY DEF Active
    <3>2. Given(y, p, q) = y /\ Given(y, p, q) \in given  BY <1>4, <1>5, <1>9, <3>1
    <3> QED  BY <3>1, <3>2 DEF Active
  <2> QED  BY <2>1, <2>2
<1>10. ASSUME NEW x \in Active(claims, p) \cup Active(claims, q)
       PROVE  Active(given, p) # {}
  <2>1. x \in claims /\ x.status = "active" /\ (x.owner = p \/ x.owner = q)  BY DEF Active
  <2>2. Given(x, p, q) \in given /\ Given(x, p, q).owner = p /\ Given(x, p, q).status = "active"
    <3>1. Given(x, p, q) \in given  BY <1>5, <2>1
    <3>2. Given(x, p, q).owner = p  BY <1>4, <2>1
    <3>3. Given(x, p, q).status = x.status  BY <1>4, <2>1
    <3> QED  BY <2>1, <3>1, <3>2, <3>3
  <2> QED  BY <2>2 DEF Active
<1>11. ASSUME NEW x \in People, NEW c \in Active(claims', x), NEW d \in Active(claims', x)
       PROVE  c = d \/ (x \in overtaken' /\ c.observed = x /\ d.observed = x)
  <2>1. CASE x = p  BY <1>6, <2>1
  <2>2. CASE x = q  BY <1>1, <1>6, <1>8, <2>2
  <2>3. CASE x # p /\ x # q
    BY <1>1, <1>6, <1>9, <2>3 DEF ValueInv
  <2> QED  BY <2>1, <2>2, <2>3
\* Who is not merged with a split person now was not before, and nor was q.
<1>12. p \notin SplitOrMergedWithSplit' => q \notin SplitOrMergedWithSplit
  <2> SUFFICES ASSUME p \notin SplitOrMergedWithSplit' PROVE q \notin SplitOrMergedWithSplit
    OBVIOUS
  <2>1. PICK T \in SUBSET People : SplitPeople' \subseteq T /\ ClosedUnderMerge(T)' /\ p \notin T
    BY DEF SplitOrMergedWithSplit
  <2>2. /\ DecisionOn({p, q}, "auto_merged").status = "auto_merged"
        /\ DecisionOn({p, q}, "auto_merged").pair = {p, q}
        /\ DecisionOn({p, q}, "auto_merged") \in decisions'
    BY <1>1 DEF DecisionOn, Decision
  <2>3. q \notin T  BY <2>1, <2>2 DEF ClosedUnderMerge
  <2>4. ClosedUnderMerge(T)  BY <1>1, <2>1 DEF ClosedUnderMerge
  <2>5. SplitPeople \subseteq T  BY <1>3, <2>1
  <2> QED  BY <2>3, <2>4, <2>5 DEF SplitOrMergedWithSplit
<1>13. ASSUME NEW x \in People \ (overtaken' \cup SplitOrMergedWithSplit'), NEW c \in claims', c.owner = x
       PROVE  Active(claims', x) # {}
  <2>0. x \notin overtaken /\ x \notin SplitOrMergedWithSplit  BY <1>1, <1>3, <1>13
  <2>1. PICK y \in claims : c.owner = IF y.owner = q THEN p ELSE y.owner  BY <1>7
  <2>2. CASE x = p
    <3>1. CASE y.owner = p
      <4>1. Active(claims, p) # {}  BY <2>0, <2>2, <3>1 DEF ValueInv
      <4> QED  BY <1>6, <1>10, <2>2, <4>1
    <3>2. CASE y.owner = q
      <4>1. q \notin SplitOrMergedWithSplit  BY <1>12, <1>13, <2>2
      <4>2. q \notin overtaken
        <5>1. q \in SplitPeople => q \in SplitOrMergedWithSplit  BY SplitPeopleCovered
        <5> QED  BY <1>1, <4>1, <5>1 DEF ValueInv
      <4>3. Active(claims, q) # {}  BY <3>2, <4>1, <4>2 DEF ValueInv
      <4> QED  BY <1>6, <1>10, <2>2, <4>3
    <3> QED  BY <1>13, <2>1, <2>2, <3>1, <3>2
  <2>3. CASE x # p
    <3>1. y.owner = x /\ x # q  BY <1>13, <2>1, <2>3
    <3>2. Active(claims, x) # {}  BY <2>0, <3>1 DEF ValueInv
    <3> QED  BY <1>6, <1>9, <2>3, <3>1, <3>2
  <2> QED  BY <2>2, <2>3
<1>14. ASSUME NEW x \in overtaken' PROVE into'[x] # 0 \/ x \in SplitPeople'
  <2>1. CASE x = q  BY <1>1, <1>2, <2>1
  <2>2. CASE x # q
    <3>1. x \in overtaken /\ into'[x] = into[x]  BY <1>1, <1>2, <1>14, <2>2
    <3> QED  BY <1>3, <3>1 DEF ValueInv
  <2> QED  BY <2>1, <2>2
<1>15. ASSUME NEW c \in claims' PROVE into'[c.owner] = 0 \/ c.observed = c.owner
  <2>1. PICK x \in claims : /\ c.observed = x.observed
                            /\ c.owner = IF x.owner = q THEN p ELSE x.owner
    BY <1>7
  <2>2. CASE c.owner = p  BY <1>1, <1>2, <2>2
  <2>3. CASE c.owner # p
    <3>1. c.owner = x.owner /\ x.owner # q  BY <2>1, <2>3
    <3>2. x.owner \in People  BY <1>2 DEF Fact
    <3> QED  BY <1>1, <1>2, <2>1, <3>1, <3>2 DEF ValueInv
  <2> QED  BY <2>2, <2>3
<1> QED  BY <1>11, <1>13, <1>14, <1>15 DEF ValueInv

LEMMA ValueStep ==
  ASSUME IInv, ValueInv, Next
  PROVE  ValueInv'
<1>1. TypeOK /\ WorkInv  BY DEF IInv
<1>2. ASSUME NEW r \in Requests, Looks(r) PROVE ValueInv'
  <2>1. Still /\ decisions' = decisions  BY <1>1, <1>2, LooksShape
  <2> QED  BY <2>1, StillValues DEF Still, rows
<1>3. CASE Works
  <2>1. Still /\ decisions \subseteq decisions'  BY <1>1, <1>3, WorksJobs
  <2> QED  BY <2>1, StillValues DEF Still, rows
<1>4. ASSUME NEW w \in Workers, Merge(w) PROVE ValueInv'
  BY <1>4, MergeShape, MergeValues
<1> QED  BY <1>1, <1>2, <1>3, <1>4, NextCases, StatesValues, ObserveValues

\* A person about whom something was stated has exactly one value in force,
\* through merges of persons who each had one, unless a split or a late request
\* concerned the person or somebody merged with him.
THEOREM OneValue == Spec => []ValueInForce
<1>1. Init => ValueInv
  BY DEF Init, ValueInv, Active
<1>2. IInv /\ ValueInv /\ [Next]_vars => ValueInv'
  <2>1. CASE IInv /\ ValueInv /\ Next  BY <2>1, ValueStep
  <2>2. CASE ValueInv /\ UNCHANGED vars
    BY <2>2, StillValues DEF vars
  <2> QED  BY <2>1, <2>2
<1>3. ValueInv => ValueInForce
  <2> SUFFICES ASSUME ValueInv, NEW p \in People \ (overtaken \cup SplitOrMergedWithSplit),
                      NEW c \in claims, c.owner = p
               PROVE  Cardinality(Active(claims, p)) = 1
    BY DEF ValueInForce, ValueInForceUnless
  <2>1. Active(claims, p) # {}  BY DEF ValueInv
  <2>2. PICK d : d \in Active(claims, p)  BY <2>1
  <2>3. Active(claims, p) = {d}  BY <2>2 DEF ValueInv
  <2> QED  BY <2>3, FS_Singleton
<1>4. Spec => []ValueInv  BY <1>1, <1>2, Invariant, PTL DEF Spec
<1> QED  BY <1>3, <1>4, PTL

=============================================================================
