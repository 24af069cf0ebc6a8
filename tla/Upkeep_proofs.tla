---------------------------- MODULE Upkeep_proofs ----------------------------
(***************************************************************************)
(* Proofs about Upkeep, a section for each part and one for the whole.     *)
(* What a recursive function computes is proved by induction over a set of *)
(* numbers: WFMin of the library needs no operator for a parameter.        *)
(***************************************************************************)
EXTENDS Upkeep, FiniteSetTheorems, WellFoundedInduction, TLAPS

-----------------------------------------------------------------------------
(* Induction and running sums                                              *)

\* Induction over the naturals, through sets: what holds of 0 and passes from
\* n to n + 1 holds of all.
LEMMA NatInductive ==
  ASSUME NEW X, 0 \in X, \A n \in Nat : n \in X => n + 1 \in X
  PROVE  Nat \subseteq X
<1>1. SUFFICES ASSUME NEW k \in Nat, k \notin X PROVE FALSE
  OBVIOUS
<1> DEFINE T == Nat \ X
           R == {ss \in Nat \X Nat : ss[1] < ss[2]}
<1>2. IsWellFoundedOn(R, Nat) BY NatLessThanWellFounded DEF OpToRel
<1>3. T # {} /\ T \subseteq Nat BY <1>1
<1>4. \A j, m \in Nat : <<j, m>> \notin R => m <= j
  OBVIOUS
<1> HIDE DEF T, R
<1>5. \E m \in T : \A j \in T : ~ (<<j, m>> \in R)
  BY <1>2, <1>3, WFMin, Zenon
<1>6. PICK m \in T : \A j \in T : m <= j BY <1>3, <1>4, <1>5
<1>7. m # 0 /\ m - 1 \in Nat /\ ~ m <= m - 1 BY <1>6 DEF T
<1>8. m - 1 \in X BY <1>6, <1>7 DEF T
<1>9. (m - 1) + 1 = m BY <1>6 DEF T
<1> QED BY <1>6, <1>7, <1>8, <1>9 DEF T

Added(a, N) == {g \in [0 .. N -> Int] : g[0] = 0 /\ \A n \in 1 .. N : g[n] = g[n - 1] + a[n]}

\* Running sums exist.
LEMMA AddedExists ==
  ASSUME NEW N \in Nat, NEW a \in [1 .. N -> Int]
  PROVE  \E g : g \in Added(a, N)
<1> DEFINE X == {n \in Nat : n <= N => \E g : g \in Added(a, n)}
<1>1. 0 \in X
  <2>1. [n \in 0 .. 0 |-> 0] \in Added(a, 0) BY DEF Added
  <2> QED BY <2>1
<1>2. ASSUME NEW n \in Nat, n \in X PROVE n + 1 \in X
  <2> SUFFICES ASSUME n + 1 <= N PROVE \E g : g \in Added(a, n + 1)
    OBVIOUS
  <2>1. PICK g : g \in Added(a, n) BY <1>2
  <2> DEFINE h == [i \in 0 .. n + 1 |-> IF i = n + 1 THEN g[n] + a[n + 1] ELSE g[i]]
  <2>2. g \in [0 .. n -> Int] /\ g[0] = 0 /\ \A i \in 1 .. n : g[i] = g[i - 1] + a[i]
    BY <2>1 DEF Added
  <2>3. a[n + 1] \in Int OBVIOUS
  <2>4. h \in [0 .. n + 1 -> Int] /\ h[0] = 0 BY <2>2, <2>3
  <2>5. ASSUME NEW i \in 1 .. n + 1 PROVE h[i] = h[i - 1] + a[i]
    <3>1. CASE i = n + 1 BY <2>2, <3>1
    <3>2. CASE i # n + 1
      <4>1. i \in 1 .. n /\ i - 1 \in 0 .. n BY <3>2
      <4> QED BY <2>2, <4>1
    <3> QED BY <3>1, <3>2
  <2> HIDE DEF h
  <2> QED BY <2>4, <2>5 DEF Added
<1>3. \A n \in Nat : n \in X => n + 1 \in X BY <1>2
<1> HIDE DEF X
<1>4. Nat \subseteq X BY <1>1, <1>3, NatInductive
<1> QED BY <1>4 DEF X

\* Sequences that agree up to k have the same sum up to k.
LEMMA AddedSame ==
  ASSUME NEW N \in Nat, NEW M0 \in Nat, NEW a, NEW b, NEW g \in Added(a, N), NEW h \in Added(b, M0),
         NEW k \in Nat, k <= N, k <= M0, \A n \in 1 .. k : a[n] = b[n]
  PROVE  g[k] = h[k]
<1> DEFINE X == {n \in Nat : n <= k => g[n] = h[n]}
<1>1. 0 \in X BY DEF Added
<1>2. ASSUME NEW n \in Nat, n \in X PROVE n + 1 \in X
  <2> SUFFICES ASSUME n + 1 <= k PROVE g[n + 1] = h[n + 1]
    OBVIOUS
  <2>1. g[n] = h[n] /\ a[n + 1] = b[n + 1] /\ (n + 1) - 1 = n BY <1>2
  <2>2. n + 1 \in 1 .. N /\ n + 1 \in 1 .. M0 OBVIOUS
  <2>3. g[n + 1] = g[n] + a[n + 1] /\ h[n + 1] = h[n] + b[n + 1]
    BY <2>1, <2>2 DEF Added
  <2> QED BY <2>1, <2>3
<1>3. \A n \in Nat : n \in X => n + 1 \in X BY <1>2
<1> HIDE DEF X
<1>4. Nat \subseteq X BY <1>1, <1>3, NatInductive
<1> QED BY <1>4 DEF X

-----------------------------------------------------------------------------
Entries == [call : Calls, month : 1 .. LastMonth, tokens : Nat]
\* What each row adds to month m.
Adds(q, m) == [n \in DOMAIN q |-> IF q[n].month = m THEN q[n].tokens ELSE 0]

\* What the rows add is a sequence of naturals.
LEMMA AddsType ==
  ASSUME NEW q \in Seq(Entries), NEW m
  PROVE  Len(q) \in Nat /\ DOMAIN q = 1 .. Len(q) /\ Adds(q, m) \in [1 .. Len(q) -> Nat]
<1>1. Len(q) \in Nat /\ DOMAIN q = 1 .. Len(q) /\ \A n \in 1 .. Len(q) : q[n] \in Entries
  OBVIOUS
<1> QED BY <1>1 DEF Adds, Entries

\* The recursive function of Booked is a running sum of what the rows add.
LEMMA BookedAdded ==
  ASSUME NEW q \in Seq(Entries), NEW m
  PROVE  \E g \in Added(Adds(q, m), Len(q)) : S!Booked(q, m) = g[Len(q)] /\ g[Len(q)] \in Nat
<1> DEFINE N == Len(q)
           a == Adds(q, m)
<1>1. N \in Nat /\ DOMAIN q = 1 .. N /\ a \in [1 .. N -> Nat]
  BY AddsType
<1>2. \A n \in 1 .. N : a[n] = IF q[n].month = m THEN q[n].tokens ELSE 0
  BY <1>1 DEF Adds
<1> HIDE DEF a
<1>3. PICK g : g \in Added(a, N) BY <1>1, AddedExists
<1>4. g \in [0 .. N -> Int] /\ g[0] = 0 /\ \A n \in 1 .. N : g[n] = g[n - 1] + a[n]
  BY <1>3 DEF Added
<1> DEFINE Sums(t) == t = [n \in 0 .. N |->
                         IF n = 0 THEN 0
                         ELSE t[n - 1] + IF q[n].month = m THEN q[n].tokens ELSE 0]
           sum == CHOOSE t : Sums(t)
<1>5. Sums(g)
  <2>1. ASSUME NEW n \in 0 .. N
        PROVE g[n] = IF n = 0 THEN 0
                         ELSE g[n - 1] + IF q[n].month = m THEN q[n].tokens ELSE 0
    <3>1. CASE n = 0 BY <1>4, <3>1
    <3>2. CASE n # 0
      <4>1. n \in 1 .. N BY <1>1, <3>2
      <4> QED BY <1>2, <1>4, <3>2, <4>1
    <3> QED BY <3>1, <3>2
  <2> QED BY <1>4, <2>1
<1>6. Sums(sum) /\ S!Booked(q, m) = sum[N] BY <1>5 DEF S!Booked
<1> HIDE DEF sum
<1>7. sum[0] = 0 /\ \A n \in 1 .. N : sum[n] = sum[n - 1] + a[n]
  BY SMTT(30), <1>1, <1>2, <1>6
<1>8. \A n \in Nat : n <= N => sum[n] \in Nat
  <2> DEFINE X == {n \in Nat : n <= N => sum[n] \in Nat}
  <2>1. 0 \in X BY <1>7
  <2>2. ASSUME NEW n \in Nat, n \in X PROVE n + 1 \in X
    <3> SUFFICES ASSUME n + 1 <= N PROVE sum[n + 1] \in Nat
      OBVIOUS
    <3>1. n + 1 \in 1 .. N /\ (n + 1) - 1 = n BY <1>1
    <3>2. sum[n + 1] = sum[n] + a[n + 1] BY <1>7, <3>1
    <3>3. a[n + 1] \in Nat BY <1>1, <3>1
    <3>4. sum[n] \in Nat BY <2>2, <3>1, <1>1
    <3> QED BY <3>2, <3>3, <3>4
  <2>3. \A n \in Nat : n \in X => n + 1 \in X BY <2>2
  <2> HIDE DEF X
  <2>4. Nat \subseteq X BY <2>1, <2>3, NatInductive
  <2> QED BY <2>4 DEF X
<1>9. sum \in [0 .. N -> Int] /\ sum[N] \in Nat
  <2>1. \A n \in 0 .. N : sum[n] \in Nat BY <1>1, <1>8
  <2> QED BY <1>1, <1>6, <2>1
<1>10. sum \in Added(a, N) BY <1>7, <1>9 DEF Added
<1> QED BY <1>6, <1>9, <1>10 DEF a

\* The sum of a month is a natural number.
LEMMA BookedType ==
  ASSUME NEW q \in Seq(Entries), NEW m
  PROVE  S!Booked(q, m) \in Nat
BY BookedAdded

\* A new row adds its tokens to its month.
LEMMA BookedAppend ==
  ASSUME NEW q \in Seq(Entries), NEW m, NEW e \in Entries
  PROVE  S!Booked(Append(q, e), m) = S!Booked(q, m) + IF e.month = m THEN e.tokens ELSE 0
<1> DEFINE N == Len(q)
           r == Append(q, e)
<1>1. /\ N \in Nat /\ r \in Seq(Entries) /\ Len(r) = N + 1
      /\ DOMAIN q = 1 .. N /\ DOMAIN r = 1 .. N + 1
      /\ r[N + 1] = e /\ \A n \in 1 .. N : r[n] = q[n]
  OBVIOUS
<1> HIDE DEF r
<1>2. PICK g \in Added(Adds(q, m), N) : S!Booked(q, m) = g[N] BY BookedAdded
<1>3. PICK h \in Added(Adds(r, m), N + 1) : S!Booked(r, m) = h[N + 1] BY <1>1, BookedAdded
<1>4. /\ \A n \in 1 .. N : Adds(r, m)[n] = Adds(q, m)[n]
      /\ Adds(r, m)[N + 1] = IF e.month = m THEN e.tokens ELSE 0
  BY <1>1 DEF Adds
<1>5. h[N] = g[N]
  <2>1. N <= N /\ N <= N + 1 /\ N + 1 \in Nat BY <1>1
  <2> QED BY <1>1, <1>4, <2>1, AddedSame
<1>6. h[N + 1] = h[N] + Adds(r, m)[N + 1]
  <2>1. N + 1 \in 1 .. N + 1 /\ (N + 1) - 1 = N BY <1>1
  <2> QED BY <2>1 DEF Added
<1> QED BY <1>2, <1>3, <1>4, <1>5, <1>6 DEF r

\* A month without rows sums up to nothing.
LEMMA BookedNone ==
  ASSUME NEW q \in Seq(Entries), NEW m, \A n \in DOMAIN q : q[n].month # m
  PROVE  S!Booked(q, m) = 0
<1> DEFINE N == Len(q)
           h == [n \in 0 .. N |-> 0]
<1>1. N \in Nat /\ DOMAIN q = 1 .. N OBVIOUS
<1>2. PICK g \in Added(Adds(q, m), N) : S!Booked(q, m) = g[N] BY BookedAdded
<1>3. h \in Added(Adds(q, m), N) BY <1>1 DEF Added, Adds
<1>4. g[N] = h[N]
  <2> HIDE DEF h
  <2> DEFINE a == Adds(q, m)
  <2>1. N <= N /\ \A n \in 1 .. N : a[n] = a[n] BY <1>1
  <2>2. g \in Added(a, N) /\ h \in Added(a, N) BY <1>2, <1>3
  <2> HIDE DEF a, N
  <2> QED BY SMTT(30), <1>1, <2>1, <2>2, AddedSame
<1> QED BY <1>1, <1>2, <1>4

\* A changed row changes its month's sum by the difference.
LEMMA BookedChange ==
  ASSUME NEW q \in Seq(Entries), NEW m, NEW i \in DOMAIN q, NEW x \in Nat
  PROVE  LET r == [q EXCEPT ![i].tokens = x]
         IN  /\ r \in Seq(Entries)
             /\ S!Booked(r, m) = S!Booked(q, m) + IF q[i].month = m THEN x - q[i].tokens ELSE 0
<1> DEFINE N == Len(q)
           new == [q[i] EXCEPT !.tokens = x]
           r == [q EXCEPT ![i] = new]
<1>1. N \in Nat /\ DOMAIN q = 1 .. N /\ i \in 1 .. N /\ q[i] \in Entries OBVIOUS
<1>2. new \in Entries /\ new.month = q[i].month /\ new.tokens = x BY <1>1 DEF Entries
<1>3. r = [q EXCEPT ![i].tokens = x] OBVIOUS
<1> HIDE DEF new
<1>4. r \in Seq(Entries) /\ Len(r) = N /\ DOMAIN r = 1 .. N
      /\ \A n \in 1 .. N : r[n] = IF n = i THEN new ELSE q[n]
  BY <1>1, <1>2
<1> HIDE DEF r
<1> DEFINE d == IF q[i].month = m THEN x - q[i].tokens ELSE 0
<1>5. PICK g \in Added(Adds(q, m), N) : S!Booked(q, m) = g[N] BY BookedAdded
<1>6. PICK f \in Added(Adds(r, m), N) : S!Booked(r, m) = f[N] BY <1>4, BookedAdded
<1> DEFINE h == [n \in 0 .. N |-> g[n] + IF n >= i THEN d ELSE 0]
<1>7. d \in Int BY <1>1 DEF Entries
<1>8. \A n \in 1 .. N : Adds(r, m)[n] = Adds(q, m)[n] + IF n = i THEN d ELSE 0
  <2> SUFFICES ASSUME NEW n \in 1 .. N
               PROVE Adds(r, m)[n] = Adds(q, m)[n] + IF n = i THEN d ELSE 0
    OBVIOUS
  <2>1. CASE n = i BY <1>1, <1>2, <1>4, <2>1 DEF Adds, Entries
  <2>2. CASE n # i
    <3>1. q[n] \in Entries BY <1>1
    <3>2. Adds(r, m)[n] = Adds(q, m)[n] /\ Adds(q, m)[n] \in Nat
      BY <1>1, <1>4, <2>2, <3>1 DEF Adds, Entries
    <3> QED BY <2>2, <3>2
  <2> QED BY <2>1, <2>2
<1> HIDE DEF d
<1>9. h \in Added(Adds(r, m), N)
  <2>1. g \in [0 .. N -> Int] /\ g[0] = 0 /\ \A n \in 1 .. N : g[n] = g[n - 1] + Adds(q, m)[n]
    BY <1>5 DEF Added
  <2>2. h \in [0 .. N -> Int] /\ h[0] = 0 BY <1>1, <1>7, <2>1
  <2>3. ASSUME NEW n \in 1 .. N PROVE h[n] = h[n - 1] + Adds(r, m)[n]
    <3>1. h[n] = g[n] + (IF n >= i THEN d ELSE 0) /\ h[n - 1] = g[n - 1] + IF n - 1 >= i THEN d ELSE 0
      BY <1>1
    <3>2. g[n] = g[n - 1] + Adds(q, m)[n] /\ Adds(r, m)[n] = Adds(q, m)[n] + IF n = i THEN d ELSE 0
      BY <1>8, <2>1
    <3>3. g[n] \in Int /\ g[n - 1] \in Int /\ Adds(q, m)[n] \in Int
      <4>1. n \in 0 .. N /\ n - 1 \in 0 .. N BY <1>1
      <4>2. Adds(q, m)[n] \in Nat BY AddsType
      <4> QED BY <2>1, <4>1, <4>2
    <3> HIDE DEF h
    <3> QED BY <1>1, <1>7, <3>1, <3>2, <3>3
  <2> HIDE DEF h
  <2> QED BY <2>2, <2>3 DEF Added
<1>10. f[N] = h[N]
  <2> HIDE DEF h
  <2>1. N <= N BY <1>1
  <2> QED BY <1>1, <1>6, <1>9, <2>1, AddedSame
<1>11. h[N] = g[N] + d BY <1>1
<1> QED BY <1>3, <1>4, <1>5, <1>6, <1>10, <1>11 DEF d

-----------------------------------------------------------------------------
(* The ledger under its lock                                               *)

Stages == {"start", "gate", "cleared", "called", "book", "done", "failed"}
SpendTypes ==
  /\ month \in 1 .. LastMonth /\ lock \in Calls \cup {None} /\ ledger \in Seq(Entries)
  /\ pc \in [Calls -> Stages] /\ seen \in [Calls -> Nat] /\ cost \in [Calls -> Nat]
  /\ row \in [Calls -> Nat] /\ kept \subseteq Calls /\ tries \in [Calls -> 1 .. MaxTries]

\* A transaction of call c is under the lock, and the sum it has read is not
\* below the month's.
LockFits(c) == pc[c] \in {"gate", "book"} => lock = c /\ S!Used <= seen[c]
\* The reservation of a call is its row.
RowFits(c) ==
  /\ row[c] \in 0 .. Len(ledger)
  /\ Kind[c] = "embed" /\ pc[c] \in {"cleared", "called", "book"} =>
       row[c] \in DOMAIN ledger /\ ledger[row[c]].call = c
\* What is kept, but for vectors, has been recorded, and its call is over.
KeptFits(c) ==
  c \in kept /\ Kind[c] # "embed" =>
    /\ pc[c] = "done"
    /\ \E n \in DOMAIN ledger : ledger[n].call = c /\ ledger[n].tokens = cost[c]

SpendInv ==
  /\ SpendTypes
  /\ \A n \in DOMAIN ledger : ledger[n].month <= month
  /\ \A c \in Calls : LockFits(c) /\ RowFits(c) /\ KeptFits(c)
  /\ S!Used <= Limit

\* Nothing is booked at first.
LEMMA SpendInit == S!Init => SpendInv
<1> SUFFICES ASSUME S!Init PROVE SpendInv
  OBVIOUS
<1>1. ledger = <<>> /\ ledger \in Seq(Entries) /\ DOMAIN ledger = {} /\ Len(ledger) = 0
  BY DEF S!Init
<1>2. SpendTypes BY <1>1, SpendAssumption DEF S!Init, SpendTypes, S!Begin, Stages
<1>3. S!Used = 0 BY <1>1, BookedNone DEF S!Used
<1>4. \A c \in Calls : pc[c] \in {"start", "cleared"} /\ row[c] = 0 /\ (Kind[c] = "embed" => pc[c] = "start")
  BY DEF S!Init, S!Begin
<1>5. kept = {} BY DEF S!Init
<1>6. \A c \in Calls : LockFits(c) /\ RowFits(c) /\ KeptFits(c)
  BY <1>1, <1>4, <1>5 DEF LockFits, RowFits, KeptFits
<1> QED BY <1>1, <1>2, <1>3, <1>6, SpendAssumption DEF SpendInv

\* Call c takes a step; nobody else's rows and variables change.
LEMMA CallMoves ==
  ASSUME SpendInv, SpendTypes', NEW c \in Calls, month' = month,
         \A b \in Calls \ {c} : /\ pc'[b] = pc[b] /\ seen'[b] = seen[b] /\ cost'[b] = cost[b]
                                 /\ row'[b] = row[b] /\ (b \in kept' => b \in kept),
         \A n \in DOMAIN ledger : /\ n \in DOMAIN ledger'
                                  /\ ledger'[n].call = ledger[n].call
                                  /\ ledger[n].call # c => ledger'[n] = ledger[n],
         \A n \in DOMAIN ledger' : ledger'[n].month <= month,
         \A b \in Calls \ {c} : pc[b] \in {"gate", "book"} => lock' = b /\ S!Used' <= seen[b],
         LockFits(c)', RowFits(c)', KeptFits(c)', S!Used' <= Limit
  PROVE  SpendInv'
<1>1. ASSUME NEW b \in Calls, b # c PROVE LockFits(b)'
  BY <1>1 DEF LockFits
<1>2. ASSUME NEW b \in Calls, b # c PROVE RowFits(b)'
  <2>1. RowFits(b) BY DEF SpendInv
  <2>2. Len(ledger) <= Len(ledger') /\ Len(ledger) \in Nat /\ Len(ledger') \in Nat
    <3>1. /\ DOMAIN ledger = 1 .. Len(ledger) /\ DOMAIN ledger' = 1 .. Len(ledger')
          /\ Len(ledger) \in Nat /\ Len(ledger') \in Nat
      <4>1. ledger \in Seq(Entries) /\ ledger' \in Seq(Entries) BY DEF SpendInv, SpendTypes
      <4> QED BY <4>1
    <3>2. Len(ledger) # 0 => Len(ledger) \in DOMAIN ledger' BY <3>1
    <3> QED BY <3>1, <3>2
  <2> QED BY <1>2, <2>1, <2>2 DEF RowFits
<1>3. ASSUME NEW b \in Calls, b # c PROVE KeptFits(b)'
  BY <1>3 DEF SpendInv, KeptFits
<1> QED BY <1>1, <1>2, <1>3 DEF SpendInv

\* The same of a step that writes no row.
LEMMA CallMovesQuietly ==
  ASSUME SpendInv, SpendTypes', NEW c \in Calls, month' = month, ledger' = ledger,
         \A b \in Calls \ {c} : /\ pc'[b] = pc[b] /\ seen'[b] = seen[b] /\ cost'[b] = cost[b]
                                 /\ row'[b] = row[b] /\ (b \in kept' => b \in kept),
         \A b \in Calls \ {c} : lock = b => lock' = b,
         LockFits(c)', RowFits(c)', KeptFits(c)'
  PROVE  SpendInv'
<1>1. S!Used' = S!Used BY DEF S!Used
<1>2. \A b \in Calls \ {c} : pc[b] \in {"gate", "book"} => lock' = b /\ S!Used' <= seen[b]
  BY <1>1 DEF SpendInv, LockFits
<1>3. \A n \in DOMAIN ledger' : ledger'[n].month <= month BY DEF SpendInv
<1>4. S!Used' <= Limit BY <1>1 DEF SpendInv
<1> QED BY <1>2, <1>3, <1>4, CallMoves

\* Under the lock a transaction reads the month's sum.
LEMMA SpendEnter ==
  ASSUME SpendInv, NEW c \in Calls, S!Enter(c)
  PROVE  SpendInv'
<1>1. /\ pc[c] \in {"start", "called"} /\ lock = None /\ lock' = c
      /\ seen' = [seen EXCEPT ![c] = S!Used]
      /\ pc' = [pc EXCEPT ![c] = IF pc[c] = "start" THEN "gate" ELSE "book"]
      /\ UNCHANGED <<month, ledger, cost, row, kept, tries>>
  BY DEF S!Enter, S!Locked, S!Goto
<1>2. S!Used \in Nat BY BookedType DEF S!Used, SpendInv, SpendTypes
<1>3. SpendTypes' BY <1>1, <1>2 DEF SpendInv, SpendTypes, Stages
<1>4. S!Used' = S!Used BY <1>1 DEF S!Used
<1>5. /\ pc'[c] = IF pc[c] = "start" THEN "gate" ELSE "book"
      /\ seen'[c] = S!Used
      /\ \A b \in Calls \ {c} : pc'[b] = pc[b] /\ seen'[b] = seen[b]
  BY <1>1 DEF SpendInv, SpendTypes
<1>6. LockFits(c)' BY <1>1, <1>2, <1>4, <1>5 DEF LockFits
<1>7. RowFits(c)' BY <1>1, <1>5 DEF RowFits, SpendInv
<1>8. KeptFits(c)' BY <1>1, <1>5 DEF KeptFits, SpendInv
<1>9. \A b \in Calls : lock # b BY <1>1, SpendAssumption
<1> QED BY <1>1, <1>3, <1>5, <1>6, <1>7, <1>8, <1>9, CallMovesQuietly

\* A row that call c adds or changes.
LEMMA EntryType ==
  ASSUME SpendInv, NEW c \in Calls, NEW x \in Nat
  PROVE  S!Entry(c, x) \in Entries /\ S!Entry(c, x).call = c
         /\ S!Entry(c, x).month = month /\ S!Entry(c, x).tokens = x
BY DEF SpendInv, SpendTypes, S!Entry, Entries

\* A call that holds the lock appends a row that stays within the limit, and
\* frees the lock.
LEMMA CallAppends ==
  ASSUME SpendInv, SpendTypes', NEW c \in Calls, pc[c] \in {"gate", "book"}, NEW x \in Nat,
         month' = month, ledger' = Append(ledger, S!Entry(c, x)), seen[c] + x <= Limit,
         \A b \in Calls \ {c} : /\ pc'[b] = pc[b] /\ seen'[b] = seen[b] /\ cost'[b] = cost[b]
                                 /\ row'[b] = row[b] /\ (b \in kept' => b \in kept),
         pc'[c] \notin {"gate", "book"},
         RowFits(c)', KeptFits(c)'
  PROVE  SpendInv'
<1> DEFINE e == S!Entry(c, x)
           N == Len(ledger)
<1>1. e \in Entries /\ e.month = month /\ e.tokens = x BY EntryType
<1>2. ledger \in Seq(Entries) /\ month \in 1 .. LastMonth /\ LastMonth \in Nat
  BY SpendAssumption DEF SpendInv, SpendTypes
<1>3. lock = c /\ S!Used <= seen[c] /\ seen[c] \in Nat
  BY DEF SpendInv, LockFits, SpendTypes
<1>4. S!Used \in Nat /\ S!Used' = S!Used + x
  <2>1. S!Booked(Append(ledger, e), month) = S!Booked(ledger, month) + x
    <3>1. PICK m \in 1 .. LastMonth : m = month BY <1>2
    <3> HIDE DEF e
    <3>2. S!Booked(Append(ledger, e), m) = S!Booked(ledger, m) + IF e.month = m THEN e.tokens ELSE 0
      BY <1>1, <1>2, BookedAppend
    <3> QED BY <1>1, <3>1, <3>2
  <2>2. S!Booked(ledger, month) \in Nat BY <1>2, BookedType
  <2> QED BY <2>1, <2>2 DEF S!Used
<1>5. S!Used' <= Limit BY <1>3, <1>4, SpendAssumption
<1>6. /\ \A n \in DOMAIN ledger : n \in DOMAIN ledger' /\ ledger'[n] = ledger[n]
      /\ \A n \in DOMAIN ledger' : n \in DOMAIN ledger \/ ledger'[n] = e
  <2> HIDE DEF e
  <2>1. /\ N \in Nat /\ DOMAIN ledger = 1 .. N /\ DOMAIN Append(ledger, e) = 1 .. N + 1
        /\ Append(ledger, e)[N + 1] = e
        /\ \A n \in 1 .. N : Append(ledger, e)[n] = ledger[n]
    BY <1>1, <1>2
  <2>2. ledger' = Append(ledger, e) BY DEF e
  <2> QED BY <2>1, <2>2
<1>7. \A n \in DOMAIN ledger' : ledger'[n].month <= month
  BY <1>1, <1>2, <1>6 DEF SpendInv
<1>8. \A b \in Calls \ {c} : pc[b] \notin {"gate", "book"}
  BY <1>3 DEF SpendInv, LockFits
<1>9. LockFits(c)' BY DEF LockFits
<1> HIDE DEF e
<1> QED BY <1>5, <1>6, <1>7, <1>8, <1>9, CallMoves

\* The gate refuses, lets pass or reserves what fits.
LEMMA SpendGate ==
  ASSUME SpendInv, NEW c \in Calls, S!Gate(c)
  PROVE  SpendInv'
<1> DEFINE reserves == Kind[c] = "embed"
           refused == IF reserves THEN seen[c] + Estimate > Limit ELSE seen[c] >= Limit
<1>1. pc[c] = "gate" /\ lock' = None /\ UNCHANGED <<month, seen, cost, kept, tries>>
  BY DEF S!Gate
<1>2. SpendTypes /\ lock = c /\ \A b \in Calls \ {c} : lock # b
  BY <1>1 DEF SpendInv, LockFits
<1>3. c \in kept => Kind[c] = "embed"
  BY <1>1 DEF SpendInv, KeptFits
<1>4. ASSUME pc' = [pc EXCEPT ![c] = "failed"], ledger' = ledger, row' = row PROVE SpendInv'
  <2>1. SpendTypes' BY <1>1, <1>2, <1>4 DEF SpendTypes, Stages
  <2>2. pc'[c] = "failed" /\ \A b \in Calls \ {c} : pc'[b] = pc[b] BY <1>2, <1>4 DEF SpendTypes
  <2>3. LockFits(c)' /\ RowFits(c)' /\ KeptFits(c)'
    BY <1>1, <1>3, <1>4, <2>2 DEF LockFits, RowFits, KeptFits, SpendInv
  <2> QED BY <1>1, <1>2, <1>4, <2>1, <2>2, <2>3, CallMovesQuietly
<1>5. ASSUME pc' = [pc EXCEPT ![c] = "cleared"], ledger' = ledger, row' = [row EXCEPT ![c] = 0],
             Kind[c] # "embed"
      PROVE  SpendInv'
  <2>1. SpendTypes' BY <1>1, <1>2, <1>5 DEF SpendTypes, Stages
  <2>2. /\ pc'[c] = "cleared" /\ row'[c] = 0
        /\ \A b \in Calls \ {c} : pc'[b] = pc[b] /\ row'[b] = row[b]
    BY <1>2, <1>5 DEF SpendTypes
  <2>3. LockFits(c)' /\ RowFits(c)' /\ KeptFits(c)'
    BY <1>1, <1>2, <1>3, <1>5, <2>2 DEF LockFits, RowFits, KeptFits, SpendTypes
  <2> QED BY <1>1, <1>2, <1>5, <2>1, <2>2, <2>3, CallMovesQuietly
<1>6. ASSUME pc' = [pc EXCEPT ![c] = "cleared"], ledger' = Append(ledger, S!Entry(c, Estimate)),
             row' = [row EXCEPT ![c] = Len(ledger) + 1], Kind[c] = "embed",
             ~ seen[c] + Estimate > Limit
      PROVE  SpendInv'
  <2> DEFINE e == S!Entry(c, Estimate)
  <2>1. e \in Entries /\ e.call = c BY EntryType, SpendAssumption
  <2> HIDE DEF e
  <2>2. /\ ledger' \in Seq(Entries) /\ Len(ledger') = Len(ledger) + 1 /\ Len(ledger) \in Nat
        /\ DOMAIN ledger' = 1 .. Len(ledger) + 1 /\ ledger'[Len(ledger) + 1] = e
    <3>1. ledger \in Seq(Entries) /\ ledger' = Append(ledger, e) BY <1>2, <1>6 DEF SpendTypes, e
    <3> QED BY <2>1, <3>1
  <2>3. SpendTypes' BY <1>1, <1>2, <1>6, <2>2 DEF SpendTypes, Stages
  <2>4. /\ pc'[c] = "cleared" /\ row'[c] = Len(ledger) + 1
        /\ \A b \in Calls \ {c} : pc'[b] = pc[b] /\ row'[b] = row[b]
    BY <1>2, <1>6 DEF SpendTypes
  <2>5. RowFits(c)' /\ KeptFits(c)'
    BY <1>6, <2>1, <2>2, <2>4 DEF RowFits, KeptFits
  <2>6. seen[c] + Estimate <= Limit /\ Estimate \in Nat
    BY <1>2, <1>6, SpendAssumption DEF SpendTypes
  <2> QED BY <1>1, <1>6, <2>3, <2>4, <2>5, <2>6, CallAppends
<1>7. CASE refused
  BY <1>4, <1>7 DEF S!Gate, S!Goto
<1>8. CASE ~refused /\ reserves
  BY <1>6, <1>8 DEF S!Gate, S!Goto
<1>9. CASE ~refused /\ ~reserves
  BY <1>5, <1>9 DEF S!Gate, S!Goto
<1> QED BY <1>7, <1>8, <1>9

\* Steps outside the lock.
LEMMA SpendCall ==
  ASSUME SpendInv, NEW c \in Calls, S!Call(c) \/ S!Unusable(c)
  PROVE  SpendInv'
<1>1. /\ pc[c] \in {"cleared", "called"} /\ UNCHANGED <<month, ledger, lock, seen, row, kept, tries>>
      /\ \/ \E n \in Tokens : pc[c] = "cleared" /\ cost' = [cost EXCEPT ![c] = n] /\ pc' = [pc EXCEPT ![c] = "called"]
         \/ cost' = cost /\ pc' = [pc EXCEPT ![c] = "failed"]
  BY DEF S!Call, S!Unusable, S!Goto
<1>2. SpendTypes'
  <2>1. SpendTypes BY DEF SpendInv
  <2>2. pc' \in [Calls -> Stages] BY <1>1, <2>1 DEF SpendTypes, Stages
  <2>3. cost' \in [Calls -> Nat]
    <3>1. Tokens \subseteq Nat BY SpendAssumption
    <3> QED BY <1>1, <2>1, <3>1 DEF SpendTypes
  <2> QED BY <1>1, <2>1, <2>2, <2>3 DEF SpendTypes
<1>3. /\ pc'[c] = "failed" \/ pc'[c] = "called"
      /\ \A b \in Calls \ {c} : pc'[b] = pc[b] /\ cost'[b] = cost[b]
  BY <1>1 DEF SpendInv, SpendTypes
<1>4. LockFits(c)' /\ RowFits(c)' /\ KeptFits(c)'
  BY <1>1, <1>3 DEF LockFits, RowFits, KeptFits, SpendInv
<1> QED BY <1>1, <1>2, <1>3, <1>4, CallMovesQuietly

\* A dead process frees the lock.
LEMMA SpendCrash ==
  ASSUME SpendInv, NEW c \in Calls, S!Crash(c)
  PROVE  SpendInv'
<1>1. /\ pc[c] \in {"gate", "cleared", "called", "book"} /\ lock' = IF lock = c THEN None ELSE lock
      /\ pc' = [pc EXCEPT ![c] = "failed"] /\ UNCHANGED <<month, ledger, seen, cost, row, kept, tries>>
  BY DEF S!Crash, S!Goto
<1>2. SpendTypes' BY <1>1 DEF SpendInv, SpendTypes, Stages
<1>3. pc'[c] = "failed" /\ \A b \in Calls \ {c} : pc'[b] = pc[b] BY <1>1 DEF SpendInv, SpendTypes
<1>4. LockFits(c)' /\ RowFits(c)' /\ KeptFits(c)'
  BY <1>1, <1>3 DEF LockFits, RowFits, KeptFits, SpendInv
<1> QED BY <1>1, <1>2, <1>3, <1>4, CallMovesQuietly

\* Only vectors survive a failed try, so nothing else is kept unrecorded.
LEMMA SpendRetry ==
  ASSUME SpendInv, NEW c \in Calls, S!Retry(c)
  PROVE  SpendInv'
<1>1. /\ pc[c] = "failed" /\ tries[c] < MaxTries
      /\ pc' = [pc EXCEPT ![c] = IF c \in kept THEN "done" ELSE S!Begin(c)]
      /\ tries' = [tries EXCEPT ![c] = tries[c] + 1]
      /\ cost' = [cost EXCEPT ![c] = 0] /\ row' = [row EXCEPT ![c] = 0]
      /\ UNCHANGED <<month, ledger, lock, seen, kept>>
  BY DEF S!Retry, S!Goto
<1>2. SpendTypes'
  <2>1. tries[c] + 1 \in 1 .. MaxTries BY <1>1, SpendAssumption DEF SpendInv, SpendTypes
  <2> QED BY <1>1, <2>1 DEF SpendInv, SpendTypes, Stages, S!Begin
<1>3. /\ pc'[c] \in {"done", "start", "cleared"} /\ (Kind[c] = "embed" => pc'[c] # "cleared")
      /\ row'[c] = 0
      /\ \A b \in Calls \ {c} : pc'[b] = pc[b] /\ cost'[b] = cost[b] /\ row'[b] = row[b]
  BY <1>1 DEF SpendInv, SpendTypes, S!Begin
<1>4. c \in kept => Kind[c] = "embed" BY <1>1 DEF SpendInv, KeptFits
<1>5. Len(ledger') \in Nat BY <1>1 DEF SpendInv, SpendTypes
<1>6. LockFits(c)' /\ RowFits(c)' /\ KeptFits(c)'
  BY <1>1, <1>3, <1>4, <1>5 DEF LockFits, RowFits, KeptFits
<1> QED BY <1>1, <1>2, <1>3, <1>6, CallMovesQuietly

\* A new month begins with no rows.
LEMMA SpendNewMonth ==
  ASSUME SpendInv, S!NewMonth
  PROVE  SpendInv'
<1>1. /\ month' = month + 1 /\ month < LastMonth
      /\ UNCHANGED <<ledger, lock, pc, seen, cost, row, kept, tries>>
  BY DEF S!NewMonth
<1>2. month \in 1 .. LastMonth /\ LastMonth \in Nat /\ ledger \in Seq(Entries)
  BY SpendAssumption DEF SpendInv, SpendTypes
<1>3. \A n \in DOMAIN ledger : ledger[n].month <= month /\ ledger[n].month \in Nat
  <2>1. \A n \in DOMAIN ledger : ledger[n] \in Entries BY <1>2
  <2> QED BY <2>1, SpendAssumption DEF SpendInv, Entries
<1>4. S!Used' = 0
  <2>1. PICK m \in 1 .. LastMonth : m = month + 1 BY <1>1, <1>2
  <2>2. \A n \in DOMAIN ledger : ledger[n].month # m BY <1>2, <1>3, <2>1
  <2>3. S!Booked(ledger, m) = 0 BY <1>2, <2>2, BookedNone
  <2> QED BY <1>1, <2>1, <2>3 DEF S!Used
<1>5. SpendTypes' BY <1>1, <1>2 DEF SpendInv, SpendTypes
<1>6. \A n \in DOMAIN ledger' : ledger'[n].month <= month'
  BY <1>1, <1>2, <1>3
<1>7. \A c \in Calls : LockFits(c)' /\ RowFits(c)' /\ KeptFits(c)'
  BY <1>1, <1>4 DEF SpendInv, SpendTypes, LockFits, RowFits, KeptFits
<1> QED BY <1>4, <1>5, <1>6, <1>7, SpendAssumption DEF SpendInv

\* A record or a finalized reservation fits into the limit: the sum read under the
\* lock is still not below the real one.
LEMMA SpendBook ==
  ASSUME SpendInv, NEW c \in Calls, S!Book(c)
  PROVE  SpendInv'
<1>1. /\ pc[c] = "book" /\ lock' = None /\ UNCHANGED <<month, seen, cost, row, tries>>
      /\ IF Kind[c] = "embed" THEN S!Finalize(c) ELSE S!Record(c)
  BY DEF S!Book
<1>2. /\ SpendTypes /\ lock = c /\ S!Used <= seen[c] /\ RowFits(c)
      /\ \A b \in Calls \ {c} : lock # b
  BY <1>1 DEF SpendInv, LockFits
<1>3. c \in kept => Kind[c] = "embed" BY <1>1 DEF SpendInv, KeptFits
<1>4. cost[c] \in Nat /\ seen[c] \in Nat BY <1>2 DEF SpendTypes
<1>5. ASSUME pc' = [pc EXCEPT ![c] = "failed"], ledger' = ledger,
             kept' = kept \/ (Kind[c] = "embed" /\ kept' = kept \cup {c})
      PROVE  SpendInv'
  <2>1. SpendTypes' BY <1>1, <1>2, <1>5 DEF SpendTypes, Stages
  <2>2. /\ pc'[c] = "failed" /\ \A b \in Calls \ {c} : pc'[b] = pc[b]
        /\ \A b \in Calls \ {c} : b \in kept' => b \in kept
    BY <1>2, <1>5 DEF SpendTypes
  <2>3. LockFits(c)' /\ RowFits(c)' /\ KeptFits(c)'
    BY <1>1, <1>2, <1>3, <1>5, <2>2 DEF LockFits, RowFits, KeptFits
  <2> QED BY <1>1, <1>2, <1>5, <2>1, <2>2, <2>3, CallMovesQuietly
<1>6. ASSUME ledger' = Append(ledger, S!Entry(c, cost[c])), Kind[c] # "embed",
             ~ seen[c] + cost[c] > Limit,
             \/ pc' = [pc EXCEPT ![c] = "done"] /\ kept' = kept \cup {c}
             \/ pc' = [pc EXCEPT ![c] = "failed"] /\ kept' = kept
      PROVE  SpendInv'
  <2> DEFINE e == S!Entry(c, cost[c])
  <2>1. e \in Entries /\ e.call = c /\ e.tokens = cost[c] BY <1>4, EntryType
  <2> HIDE DEF e
  <2>2. /\ ledger' \in Seq(Entries) /\ Len(ledger') = Len(ledger) + 1 /\ Len(ledger) \in Nat
        /\ DOMAIN ledger' = 1 .. Len(ledger) + 1 /\ ledger'[Len(ledger) + 1] = e
    <3>1. ledger \in Seq(Entries) /\ ledger' = Append(ledger, e) BY <1>2, <1>6 DEF SpendTypes, e
    <3> QED BY <2>1, <3>1
  <2>3. pc' \in [Calls -> Stages] /\ kept' \subseteq Calls BY <1>2, <1>6 DEF SpendTypes, Stages
  <2>4. SpendTypes' BY <1>1, <1>2, <2>2, <2>3 DEF SpendTypes
  <2>5. /\ pc'[c] = "done" \/ (pc'[c] = "failed" /\ kept' = kept)
        /\ \A b \in Calls \ {c} : pc'[b] = pc[b] /\ (b \in kept' => b \in kept)
    BY <1>2, <1>6 DEF SpendTypes
  <2>6. RowFits(c)'
    BY <1>1, <1>2, <1>6, <2>2 DEF RowFits
  <2>7. KeptFits(c)'
    <3>1. cost'[c] = cost[c] /\ Len(ledger) + 1 \in DOMAIN ledger' BY <1>1, <2>2
    <3> QED BY <1>3, <1>6, <2>1, <2>2, <2>5, <3>1 DEF KeptFits
  <2>8. seen[c] + cost[c] <= Limit BY <1>4, <1>6, SpendAssumption
  <2>9. pc'[c] \notin {"gate", "book"} BY <2>5
  <2> QED BY <1>1, <1>4, <1>6, <2>4, <2>5, <2>6, <2>7, <2>8, <2>9, CallAppends
<1>7. ASSUME ledger' = [ledger EXCEPT ![row[c]].tokens = cost[c]], Kind[c] = "embed",
             ~ seen[c] - ledger[row[c]].tokens + cost[c] > Limit,
             pc' = [pc EXCEPT ![c] = "done"], kept' = kept \cup {c}
      PROVE  SpendInv'
  <2>1. row[c] \in DOMAIN ledger /\ ledger[row[c]].call = c BY <1>1, <1>2, <1>7 DEF RowFits
  <2>2. PICK i \in DOMAIN ledger : i = row[c] BY <2>1
  <2>3. ledger \in Seq(Entries) /\ month \in 1 .. LastMonth /\ LastMonth \in Nat
    BY <1>2, SpendAssumption DEF SpendTypes
  <2>4. \A n \in DOMAIN ledger : ledger[n] \in Entries BY <2>3
  <2>5. ledger[i].tokens \in Nat /\ ledger[i].month \in Nat /\ ledger[i].month <= month /\ ledger[i].call = c
    BY <2>1, <2>2, <2>4, SpendAssumption DEF Entries, SpendInv
  <2>6. /\ ledger' \in Seq(Entries)
        /\ S!Used' = S!Used + IF ledger[i].month = month THEN cost[c] - ledger[i].tokens ELSE 0
    <3>1. PICK m \in 1 .. LastMonth : m = month BY <2>3
    <3>2. PICK x \in Nat : x = cost[c] BY <1>4
    <3>3. PICK q \in Seq(Entries) : q = ledger BY <2>3
    <3>4. LET r == [q EXCEPT ![i].tokens = x]
          IN  /\ r \in Seq(Entries)
              /\ S!Booked(r, m) = S!Booked(q, m) + IF q[i].month = m THEN x - q[i].tokens ELSE 0
      BY <3>3, BookedChange
    <3> QED BY <1>1, <1>7, <2>2, <3>1, <3>2, <3>3, <3>4 DEF S!Used
  <2>7. S!Used' <= Limit
    <3>1. S!Used \in Nat BY <2>3, BookedType DEF S!Used
    <3>2. seen[c] - ledger[i].tokens + cost[c] <= Limit
      BY <1>4, <1>7, <2>2, <2>5, SpendAssumption
    <3>3. S!Used <= Limit BY DEF SpendInv
    <3>4. CASE ledger[i].month = month
      <4>1. S!Used' = S!Used + (cost[c] - ledger[i].tokens) BY <2>6, <3>4
      <4> QED BY <1>2, <1>4, <2>5, <3>1, <3>2, <4>1, SpendAssumption
    <3>5. CASE ledger[i].month # month
      <4>1. S!Used' = S!Used BY <2>6, <3>1, <3>5
      <4> QED BY <3>3, <4>1
    <3> QED BY <3>4, <3>5
  <2>8. DOMAIN ledger' = DOMAIN ledger /\ Len(ledger') = Len(ledger) BY <1>7, <2>3, <2>6
  <2>9. /\ \A n \in DOMAIN ledger : n # i => ledger'[n] = ledger[n]
        /\ ledger'[i].call = ledger[i].call /\ ledger'[i].month = ledger[i].month
    BY <1>7, <2>2, <2>4 DEF Entries
  <2>10. SpendTypes' BY <1>1, <1>2, <1>7, <2>6 DEF SpendTypes, Stages
  <2>11. /\ pc'[c] = "done"
         /\ \A b \in Calls \ {c} : pc'[b] = pc[b] /\ (b \in kept' => b \in kept)
    BY <1>2, <1>7 DEF SpendTypes
  <2>12. LockFits(c)' /\ RowFits(c)' /\ KeptFits(c)'
    BY <1>1, <1>2, <1>7, <2>8, <2>11 DEF LockFits, RowFits, KeptFits
  <2>13. ASSUME NEW n \in DOMAIN ledger' PROVE ledger'[n].month <= month
    <3>1. CASE n = i BY <2>5, <2>9, <3>1
    <3>2. CASE n # i
      <4>1. ledger'[n] = ledger[n] BY <2>8, <2>9, <3>2
      <4> QED BY <2>8, <4>1 DEF SpendInv
    <3> QED BY <3>1, <3>2
  <2>14. ASSUME NEW n \in DOMAIN ledger
         PROVE  /\ n \in DOMAIN ledger'
                /\ ledger'[n].call = ledger[n].call
                /\ ledger[n].call # c => ledger'[n] = ledger[n]
    <3>1. CASE n = i BY <2>5, <2>8, <2>9, <3>1
    <3>2. CASE n # i BY <2>8, <2>9, <3>2
    <3> QED BY <3>1, <3>2
  <2>15. \A b \in Calls \ {c} : pc[b] \notin {"gate", "book"}
    BY <1>2 DEF SpendInv, LockFits
  <2> QED BY <1>1, <2>7, <2>10, <2>11, <2>12, <2>13, <2>14, <2>15, CallMoves
<1>8. CASE Kind[c] = "embed" BY <1>1, <1>5, <1>7, <1>8 DEF S!Finalize, S!Goto
<1>9. CASE Kind[c] # "embed" BY <1>1, <1>5, <1>6, <1>9 DEF S!Record, S!Goto
<1> QED BY <1>8, <1>9

\* Every step of the ledger keeps the invariant, which implies what the run checks.
LEMMA SpendStep ==
  ASSUME SpendInv, S!Next \/ UNCHANGED spendVars
  PROVE  SpendInv'
<1>1. CASE UNCHANGED spendVars
  <2>1. UNCHANGED <<month, ledger, lock, pc, seen, cost, row, kept, tries>> BY <1>1 DEF spendVars
  <2>2. S!Used' = S!Used BY <2>1 DEF S!Used
  <2> QED BY <2>1, <2>2 DEF SpendInv, SpendTypes, LockFits, RowFits, KeptFits
<1>2. CASE S!NewMonth BY <1>2, SpendNewMonth
<1>3. ASSUME NEW c \in Calls,
             \/ S!Enter(c) \/ S!Gate(c) \/ S!Call(c) \/ S!Unusable(c) \/ S!Book(c)
             \/ S!Crash(c) \/ S!Retry(c)
      PROVE  SpendInv'
  <2>1. CASE S!Enter(c) BY <2>1, SpendEnter
  <2>2. CASE S!Gate(c) BY <2>2, SpendGate
  <2>3. CASE S!Call(c) \/ S!Unusable(c) BY <2>3, SpendCall
  <2>4. CASE S!Book(c) BY <2>4, SpendBook
  <2>5. CASE S!Crash(c) BY <2>5, SpendCrash
  <2>6. CASE S!Retry(c) BY <2>6, SpendRetry
  <2> QED BY <1>3, <2>1, <2>2, <2>3, <2>4, <2>5, <2>6
<1> QED BY <1>1, <1>2, <1>3 DEF S!Next

\* The ledger has its types.
LEMMA SpendTyped == SpendInv => S!TypeOK
BY DEF SpendInv, SpendTypes, RowFits, S!TypeOK, Stages, Entries

\* The ledger keeps the limit.
LEMMA SpendLimited == SpendInv => S!WithinLimit
<1> SUFFICES ASSUME SpendInv PROVE S!WithinLimit
  OBVIOUS
<1>1. ASSUME NEW c \in kept, Kind[c] # "embed"
      PROVE  cost[c] \in {ledger[i].tokens : i \in {j \in DOMAIN ledger : ledger[j].call = c}}
  <2>1. c \in Calls BY DEF SpendInv, SpendTypes
  <2>2. PICK n \in DOMAIN ledger : ledger[n].call = c /\ ledger[n].tokens = cost[c]
    BY <1>1, <2>1 DEF SpendInv, KeptFits
  <2> QED BY <2>2
<1> QED BY <1>1 DEF SpendInv, S!WithinLimit

-----------------------------------------------------------------------------
(* Windows: the division of a text                                         *)

\* The states of the division into windows of words of A.
Divided(A) == [windows : Seq(Seq(A)), current : Seq(A)]
\* What the first n paragraphs of t say, and what the windows of st hold.
SaidBy(t, n) == UNION {W!Range(t[i]) : i \in 1 .. n}
Held(st) == W!Words(st.windows) \cup W!Range(st.current)

\* One more element adds its words.
LEMMA WordsOfLonger ==
  ASSUME NEW q, NEW r, NEW k, DOMAIN r = DOMAIN q \cup {k}, \A i \in DOMAIN q : r[i] = q[i]
  PROVE  W!Words(r) = W!Words(q) \cup W!Range(r[k])
<1>1. ASSUME NEW x PROVE x \in W!Words(r) <=> x \in W!Words(q) \/ x \in W!Range(r[k])
  <2>1. x \in W!Words(r) <=> \E i \in DOMAIN r : x \in W!Range(r[i]) BY DEF W!Words
  <2>2. x \in W!Words(q) <=> \E i \in DOMAIN q : x \in W!Range(q[i]) BY DEF W!Words
  <2> QED BY <2>1, <2>2
<1> QED BY <1>1

\* The words of a concatenation.
LEMMA RangeOf ==
  ASSUME NEW A, NEW s \in Seq(A), NEW r \in Seq(A)
  PROVE  /\ s \o r \in Seq(A) /\ W!Range(s \o r) = W!Range(s) \cup W!Range(r)
<1>1. /\ s \o r \in Seq(A) /\ Len(s) \in Nat /\ Len(r) \in Nat
      /\ DOMAIN s = 1 .. Len(s) /\ DOMAIN r = 1 .. Len(r)
      /\ DOMAIN (s \o r) = 1 .. Len(s) + Len(r)
      /\ \A i \in 1 .. Len(s) : (s \o r)[i] = s[i]
      /\ \A i \in 1 .. Len(r) : (s \o r)[Len(s) + i] = r[i]
  OBVIOUS
<1> DEFINE q == s \o r
<1> HIDE DEF q
<1>2. /\ DOMAIN q = 1 .. Len(s) + Len(r) /\ \A i \in 1 .. Len(s) : q[i] = s[i]
      /\ \A i \in 1 .. Len(r) : q[Len(s) + i] = r[i]
  BY <1>1 DEF q
<1>3. \A x : (\E i \in DOMAIN q : q[i] = x) <=> (\E i \in DOMAIN s : s[i] = x) \/ (\E i \in DOMAIN r : r[i] = x)
  <2>1. ASSUME NEW x, NEW i \in DOMAIN q, q[i] = x
        PROVE  (\E j \in DOMAIN s : s[j] = x) \/ (\E j \in DOMAIN r : r[j] = x)
    <3>1. CASE i <= Len(s) BY <1>1, <1>2, <2>1, <3>1
    <3>2. CASE ~ i <= Len(s)
      <4>1. i - Len(s) \in 1 .. Len(r) /\ Len(s) + (i - Len(s)) = i BY <1>1, <1>2, <3>2
      <4> QED BY <1>1, <1>2, <2>1, <4>1
    <3> QED BY <3>1, <3>2
  <2>2. ASSUME NEW i \in DOMAIN s PROVE \E j \in DOMAIN q : q[j] = s[i]
    <3>1. i \in DOMAIN q /\ q[i] = s[i] BY <1>1, <1>2
    <3> QED BY <3>1
  <2>3. ASSUME NEW i \in DOMAIN r PROVE \E j \in DOMAIN q : q[j] = r[i]
    <3>1. Len(s) + i \in DOMAIN q /\ q[Len(s) + i] = r[i] BY <1>1, <1>2
    <3> QED BY <3>1
  <2> QED BY <2>1, <2>2, <2>3
<1>4. W!Range(q) = W!Range(s) \cup W!Range(r) BY <1>3 DEF W!Range
<1> QED BY <1>1, <1>4 DEF q

\* The overlap says nothing that the former window does not say.
LEMMA RangeOfLastWords ==
  ASSUME NEW A, NEW s \in Seq(A), NEW n \in Nat
  PROVE  W!LastWords(n, s) \in Seq(A) /\ W!Range(W!LastWords(n, s)) \subseteq W!Range(s)
<1> DEFINE k == IF Len(s) > n THEN Len(s) - n + 1 ELSE 1
<1>1. Len(s) \in Nat /\ k \in 1 .. Len(s) + 1 /\ W!LastWords(n, s) = SubSeq(s, k, Len(s))
  BY DEF W!LastWords
<1> HIDE DEF k
<1> DEFINE q == SubSeq(s, k, Len(s))
<1>2. /\ q \in Seq(A) /\ DOMAIN q = 1 .. Len(s) - k + 1
      /\ \A i \in DOMAIN q : k + i - 1 \in DOMAIN s /\ q[i] = s[k + i - 1]
  BY <1>1
<1> QED BY <1>1, <1>2 DEF W!Range

\* One paragraph more: nothing is lost and nothing is invented.
LEMMA AddParagraphHolds ==
  ASSUME NEW A, NEW st \in Divided(A), NEW para \in Seq(A)
  PROVE  /\ W!AddParagraph(st, para) \in Divided(A)
         /\ Held(W!AddParagraph(st, para)) = Held(st) \cup W!Range(para)
<1> DEFINE new == W!AddParagraph(st, para)
<1>1. st.windows \in Seq(Seq(A)) /\ st.current \in Seq(A) BY DEF Divided
<1>2. CASE st.current # <<>> /\ Len(st.current) + Len(para) > Target
  <2> DEFINE last == W!LastWords(Overlap, st.current)
             q == st.windows
             r == Append(st.windows, st.current)
  <2>1. last \in Seq(A) /\ W!Range(last) \subseteq W!Range(st.current)
    BY <1>1, RangeOfLastWords, WindowsAssumption
  <2>2. /\ r \in Seq(Seq(A)) /\ Len(q) \in Nat /\ DOMAIN q = 1 .. Len(q) /\ DOMAIN r = 1 .. Len(q) + 1
        /\ r[Len(q) + 1] = st.current /\ \A i \in 1 .. Len(q) : r[i] = q[i]
    BY <1>1
  <2>3. new = [windows |-> r, current |-> last \o para] BY <1>2 DEF W!AddParagraph
  <2> HIDE DEF last, r, new
  <2>4. last \o para \in Seq(A) /\ W!Range(last \o para) = W!Range(last) \cup W!Range(para)
    BY <2>1, RangeOf
  <2>5. W!Words(r) = W!Words(q) \cup W!Range(st.current)
    <3>1. DOMAIN r = DOMAIN q \cup {Len(q) + 1} BY <2>2
    <3>2. r[Len(q) + 1] = st.current /\ \A i \in DOMAIN q : r[i] = q[i] BY <2>2
    <3> HIDE DEF q
    <3> QED BY <3>1, <3>2, WordsOfLonger
  <2>6. new.windows = r /\ new.current = last \o para BY <2>3
  <2>7. Held(new) = Held(st) \cup W!Range(para) BY <2>1, <2>4, <2>5, <2>6 DEF Held
  <2>8. new \in Divided(A) BY <2>2, <2>3, <2>4 DEF Divided
  <2> QED BY <2>7, <2>8 DEF new
<1>3. CASE ~ (st.current # <<>> /\ Len(st.current) + Len(para) > Target)
  <2>1. new = [windows |-> st.windows, current |-> st.current \o para] BY <1>3 DEF W!AddParagraph
  <2> HIDE DEF new
  <2>2. st.current \o para \in Seq(A) /\ W!Range(st.current \o para) = W!Range(st.current) \cup W!Range(para)
    BY <1>1, RangeOf
  <2>3. new.windows = st.windows /\ new.current = st.current \o para BY <2>1
  <2>4. Held(new) = Held(st) \cup W!Range(para) BY <2>2, <2>3 DEF Held
  <2>5. new \in Divided(A) BY <1>1, <2>1, <2>2 DEF Divided
  <2> QED BY <2>4, <2>5 DEF new
<1> QED BY <1>2, <1>3

Divisions(t, A, N) ==
  {g \in [0 .. N -> Divided(A)] :
     g[0] = [windows |-> <<>>, current |-> <<>>] /\ \A n \in 1 .. N : g[n] = W!AddParagraph(g[n - 1], t[n])}

\* The division of a text, paragraph by paragraph, exists.
LEMMA DivisionsExist ==
  ASSUME NEW A, NEW t \in Seq(Seq(A))
  PROVE  \E g : g \in Divisions(t, A, Len(t))
<1> DEFINE none == [windows |-> <<>>, current |-> <<>>]
           X == {n \in Nat : n <= Len(t) => \E g : g \in Divisions(t, A, n)}
<1>0. none \in Divided(A)
  <2>1. <<>> \in Seq(Seq(A)) /\ <<>> \in Seq(A) OBVIOUS
  <2> QED BY <2>1 DEF Divided
<1>1. 0 \in X
  <2>1. [n \in 0 .. 0 |-> none] \in Divisions(t, A, 0) BY <1>0 DEF Divisions
  <2> QED BY <2>1
<1>2. ASSUME NEW n \in Nat, n \in X PROVE n + 1 \in X
  <2> SUFFICES ASSUME n + 1 <= Len(t) PROVE \E g : g \in Divisions(t, A, n + 1)
    OBVIOUS
  <2>0. Len(t) \in Nat /\ t[n + 1] \in Seq(A) OBVIOUS
  <2>1. PICK g : g \in Divisions(t, A, n) BY <1>2, <2>0
  <2>2. g \in [0 .. n -> Divided(A)] /\ g[0] = none /\ \A i \in 1 .. n : g[i] = W!AddParagraph(g[i - 1], t[i])
    BY <2>1 DEF Divisions
  <2> DEFINE next == W!AddParagraph(g[n], t[n + 1])
             h == [i \in 0 .. n + 1 |-> IF i = n + 1 THEN next ELSE g[i]]
  <2>3. next \in Divided(A) BY <2>0, <2>2, AddParagraphHolds
  <2> HIDE DEF none, next
  <2>4. h \in [0 .. n + 1 -> Divided(A)] /\ h[0] = none BY <2>2, <2>3
  <2>5. ASSUME NEW i \in 1 .. n + 1 PROVE h[i] = W!AddParagraph(h[i - 1], t[i])
    <3>1. CASE i = n + 1
      <4>1. i - 1 = n /\ h[i - 1] = g[n] /\ h[i] = next BY <3>1
      <4> HIDE DEF h
      <4> QED BY <3>1, <4>1 DEF next
    <3>2. CASE i # n + 1
      <4>1. i \in 1 .. n /\ i - 1 \in 0 .. n /\ h[i] = g[i] /\ h[i - 1] = g[i - 1] BY <3>2
      <4> HIDE DEF h
      <4> QED BY <2>2, <4>1
    <3> QED BY <3>1, <3>2
  <2> HIDE DEF h
  <2> QED BY <2>4, <2>5 DEF Divisions, none
<1>3. \A n \in Nat : n \in X => n + 1 \in X BY <1>2
<1> HIDE DEF X
<1>4. Nat \subseteq X BY <1>1, <1>3, NatInductive
<1> QED BY <1>4 DEF X

\* The windows filled so far and the one under way hold the words of the paragraphs.
LEMMA FilledHolds ==
  ASSUME NEW A, NEW t \in Seq(Seq(A))
  PROVE  LET st == W!Filled(t)[Len(t)]
         IN  st \in Divided(A) /\ Held(st) = SaidBy(t, Len(t))
<1> DEFINE N == Len(t)
           none == [windows |-> <<>>, current |-> <<>>]
           Filling(f) == f = [n \in 0 .. N |-> IF n = 0 THEN none
                                               ELSE W!AddParagraph(f[n - 1], t[n])]
           st == CHOOSE f : Filling(f)
<1>1. N \in Nat /\ \A n \in 1 .. N : t[n] \in Seq(A) OBVIOUS
<1>2. PICK g : g \in Divisions(t, A, N) BY DivisionsExist
<1>3. g \in [0 .. N -> Divided(A)] /\ g[0] = none /\ \A n \in 1 .. N : g[n] = W!AddParagraph(g[n - 1], t[n])
  BY <1>2 DEF Divisions
<1>4. Filling(g)
  <2>1. ASSUME NEW n \in 0 .. N PROVE g[n] = IF n = 0 THEN none ELSE W!AddParagraph(g[n - 1], t[n])
    <3>1. CASE n = 0 BY <1>3, <3>1
    <3>2. CASE n # 0
      <4>1. n \in 1 .. N BY <1>1, <3>2
      <4> QED BY <1>3, <3>2, <4>1
    <3> QED BY <3>1, <3>2
  <2> HIDE DEF none
  <2> QED BY <1>3, <2>1
<1>5. Filling(st) /\ W!Filled(t) = st BY <1>4 DEF W!Filled
<1> HIDE DEF st
<1>6. none \in Divided(A) /\ Held(none) = {}
  <2>1. <<>> \in Seq(Seq(A)) /\ <<>> \in Seq(A) /\ DOMAIN <<>> = {} OBVIOUS
  <2> QED BY <2>1 DEF Divided, Held, W!Words, W!Range
<1> HIDE DEF none
<1>7. st[0] = none /\ \A n \in 1 .. N : st[n] = W!AddParagraph(st[n - 1], t[n])
  <2>1. \A n \in 0 .. N : st[n] = IF n = 0 THEN none ELSE W!AddParagraph(st[n - 1], t[n])
    BY <1>5
  <2>2. 0 \in 0 .. N /\ \A n \in 1 .. N : n \in 0 .. N /\ n # 0 BY <1>1
  <2> QED BY <2>1, <2>2
<1> HIDE DEF Filling
<1> DEFINE X == {n \in Nat : n <= N => st[n] \in Divided(A) /\ Held(st[n]) = SaidBy(t, n)}
<1>8. 0 \in X
  <2>1. SaidBy(t, 0) = {} BY DEF SaidBy
  <2> QED BY <1>6, <1>7, <2>1
<1>9. ASSUME NEW n \in Nat, n \in X PROVE n + 1 \in X
  <2> SUFFICES ASSUME n + 1 <= N PROVE st[n + 1] \in Divided(A) /\ Held(st[n + 1]) = SaidBy(t, n + 1)
    OBVIOUS
  <2>1. n + 1 \in 1 .. N /\ (n + 1) - 1 = n /\ n <= N BY <1>1
  <2>2. st[n] \in Divided(A) /\ Held(st[n]) = SaidBy(t, n) BY <1>9, <2>1
  <2>3. st[n + 1] = W!AddParagraph(st[n], t[n + 1]) BY <1>7, <2>1
  <2>4. t[n + 1] \in Seq(A) BY <1>1, <2>1
  <2>5. SaidBy(t, n + 1) = SaidBy(t, n) \cup W!Range(t[n + 1])
    <3>1. 1 .. n + 1 = (1 .. n) \cup {n + 1} OBVIOUS
    <3> QED BY <3>1 DEF SaidBy
  <2>6. /\ W!AddParagraph(st[n], t[n + 1]) \in Divided(A)
        /\ Held(W!AddParagraph(st[n], t[n + 1])) = Held(st[n]) \cup W!Range(t[n + 1])
    BY <2>2, <2>4, AddParagraphHolds
  <2> QED BY <2>2, <2>3, <2>5, <2>6
<1>10. \A n \in Nat : n \in X => n + 1 \in X BY <1>9
<1> HIDE DEF X
<1>11. Nat \subseteq X BY <1>8, <1>10, NatInductive
<1>12. st[N] \in Divided(A) /\ Held(st[N]) = SaidBy(t, N) BY <1>1, <1>11 DEF X
<1> QED BY <1>5, <1>12

\* The windows of a text are a sequence, and say what the text says.
LEMMA SplitHolds ==
  ASSUME NEW t \in Texts \cup {<<>>}
  PROVE  LET w == W!SplitWindows(t)
         IN  /\ Len(w) \in Nat /\ DOMAIN w = 1 .. Len(w) /\ (t = <<>> => Len(w) = 0)
             /\ W!Words(t) = W!Words(w)
<1> DEFINE A == W!Words(t)
<1>1. t \in Seq(Seq(A))
  <2>1. CASE t = <<>>
    <3>1. <<>> \in Seq(Seq(A)) OBVIOUS
    <3> QED BY <2>1, <3>1
  <2> QED BY <2>1, WindowsAssumption
<1>2. CASE t = <<>>
  <2>1. W!SplitWindows(t) = <<>> BY <1>2 DEF W!SplitWindows
  <2>2. Len(<<>>) = 0 /\ DOMAIN <<>> = {} /\ DOMAIN <<>> = 1 .. 0 OBVIOUS
  <2>3. W!Words(W!SplitWindows(t)) = W!Words(t) BY <1>2, <2>1
  <2> HIDE DEF A
  <2>4. LET w == W!SplitWindows(t) IN Len(w) \in Nat /\ DOMAIN w = 1 .. Len(w) /\ Len(w) = 0
    BY <2>1, <2>2
  <2> QED BY <2>3, <2>4
<1>3. CASE t # <<>>
  <2> DEFINE st == W!Filled(t)[Len(t)]
             q == st.windows
             w == Append(q, st.current)
  <2> HIDE DEF A
  <2>1. st \in Divided(A) /\ Held(st) = SaidBy(t, Len(t)) BY <1>1, FilledHolds
  <2>2. W!SplitWindows(t) = w BY <1>3 DEF W!SplitWindows
  <2> HIDE DEF st
  <2>3. q \in Seq(Seq(A)) /\ st.current \in Seq(A) BY <2>1 DEF Divided
  <2> HIDE DEF q
  <2>4. /\ Len(w) \in Nat /\ Len(w) = Len(q) + 1 /\ DOMAIN w = 1 .. Len(w) /\ DOMAIN q = 1 .. Len(q)
        /\ w[Len(q) + 1] = st.current /\ \A i \in DOMAIN q : w[i] = q[i] /\ DOMAIN w = DOMAIN q \cup {Len(q) + 1}
    BY <2>3
  <2> HIDE DEF w
  <2>5. W!Words(w) = W!Words(q) \cup W!Range(st.current)
    <3>1. DOMAIN w = DOMAIN q \cup {Len(q) + 1} BY <2>3, <2>4
    <3>2. w[Len(q) + 1] = st.current /\ \A i \in DOMAIN q : w[i] = q[i] BY <2>4
    <3> QED BY <3>1, <3>2, WordsOfLonger
  <2>6. W!Words(t) = SaidBy(t, Len(t))
    <3>1. DOMAIN t = 1 .. Len(t) BY <1>1
    <3> QED BY <3>1 DEF W!Words, SaidBy
  <2> QED BY <1>3, <2>1, <2>2, <2>4, <2>5, <2>6 DEF Held, q
<1> QED BY <1>2, <1>3

-----------------------------------------------------------------------------
(* Windows: the extraction                                                 *)

\* The instance counts as everybody does.
LEMMA WindowsCardinality == \A X : W!Cardinality(X) = Cardinality(X)
BY DEF W!Cardinality, Cardinality

Jobs == [state : {"none", "pending", "running", "dead"}, attempts : 0 .. MaxAttempts, next : Nat]
WindowTypes ==
  /\ text \in Texts \cup {<<>>}
  /\ past \subseteq Nat \X Texts /\ IsFiniteSet(past) /\ Cardinality(past) <= MaxEdits
  /\ \A p \in past : p[1] < Cardinality(past)
  /\ job \in Jobs
  /\ job.state = "pending" => job.attempts < MaxAttempts
  /\ job.state = "running" => job.attempts > 0

Contents == {p[2] : p \in past}
\* Windows have been applied of former contents and the present one only, each
\* with facts that it states.
AppliedFits ==
  /\ text # <<>> => text \in Contents
  /\ \A x \in DOMAIN applied :
       /\ x \in Texts \X Nat /\ x[1] \in Contents
       /\ x[2] \in DOMAIN W!SplitWindows(x[1])
       /\ applied[x] \subseteq W!Range(W!SplitWindows(x[1])[x[2]])
\* A run has applied the windows before its next one, and a finished one all.
Progress ==
  /\ job.state = "running" =>
       /\ job.next \in 1 .. Len(W!SplitWindows(text)) + 1
       /\ \A i \in 1 .. job.next - 1 : <<text, i>> \in DOMAIN applied
  /\ job.state = "none" => \A i \in DOMAIN W!SplitWindows(text) : <<text, i>> \in DOMAIN applied
\* But for a new content whose extraction has not begun, the document is cited for
\* what was applied of its content.
Found == UNION {applied[x] : x \in W!Windowed(text)}
CitedFits ==
  W!Windowed(text) # {} \/ job.state # "pending" => cited \ Structured = Found \ Structured

WindowsInv ==
  /\ WindowTypes /\ AppliedFits /\ Progress
  /\ W!NeverBack => CitedFits

\* There is no text at first.
LEMMA WindowsInit == W!Init => WindowsInv
<1> SUFFICES ASSUME W!Init PROVE WindowsInv
  OBVIOUS
<1>1. /\ text = <<>> /\ past = {} /\ job = [state |-> "none", attempts |-> 0, next |-> 0]
      /\ applied = [x \in {} |-> {}] /\ DOMAIN applied = {} /\ cited = {}
  BY DEF W!Init, W!Idle
<1>2. Len(W!SplitWindows(text)) = 0 /\ DOMAIN W!SplitWindows(text) = 1 .. 0
  BY <1>1, SplitHolds
<1>3. IsFiniteSet({}) /\ Cardinality({}) = 0 BY FS_EmptySet
<1>4. WindowTypes BY <1>1, <1>3, WindowsAssumption DEF WindowTypes, Jobs
<1>5. W!Windowed(text) = {} BY <1>1 DEF W!Windowed
<1>6. Found = {} BY <1>5 DEF Found
<1> QED BY <1>1, <1>2, <1>4, <1>6 DEF WindowsInv, AppliedFits, Progress, CitedFits

\* A content that is new has no applied windows.
LEMMA WindowsEdit ==
  ASSUME WindowsInv, NEW t \in Texts, W!Edit(t)
  PROVE  WindowsInv'
<1>1. /\ job.state # "running" /\ t # text /\ Cardinality(past) < MaxEdits
      /\ text' = t /\ past' = past \cup {<<Cardinality(past), t>>}
      /\ job' = IF job.state = "pending" THEN job ELSE [state |-> "pending", attempts |-> 0, next |-> 0]
      /\ UNCHANGED <<applied, cited>>
  BY WindowsCardinality DEF W!Edit, W!Pending
<1>2. Cardinality(past) \in Nat BY FS_CardinalityType DEF WindowsInv, WindowTypes
<1> DEFINE p == <<Cardinality(past), t>>
<1>3. p \notin past BY <1>2 DEF WindowsInv, WindowTypes
<1>4. IsFiniteSet(past') /\ Cardinality(past') = Cardinality(past) + 1
  BY <1>1, <1>3, FS_AddElement DEF WindowsInv, WindowTypes
<1>5. job' \in Jobs /\ job'.state = "pending" /\ job'.attempts < MaxAttempts
  <2>1. job \in Jobs /\ (job.state = "pending" => job.attempts < MaxAttempts)
    BY DEF WindowsInv, WindowTypes
  <2> QED BY <1>1, <2>1, WindowsAssumption DEF Jobs
<1>6. WindowTypes'
  <2>1. past' \subseteq Nat \X Texts BY <1>1, <1>2 DEF WindowsInv, WindowTypes
  <2>2. \A r \in past' : r[1] < Cardinality(past')
    <3>1. \A r \in past : r[1] < Cardinality(past) /\ r[1] \in Nat BY DEF WindowsInv, WindowTypes
    <3> QED BY <1>1, <1>2, <1>4, <3>1
  <2>3. Cardinality(past') <= MaxEdits BY <1>1, <1>2, <1>4, WindowsAssumption
  <2> QED BY <1>1, <1>4, <1>5, <2>1, <2>2, <2>3 DEF WindowTypes
<1>7. Contents \subseteq Contents' /\ t \in Contents'
  <2>1. p \in past' /\ p[2] = t /\ past \subseteq past' BY <1>1
  <2> HIDE DEF p
  <2> QED BY <2>1 DEF Contents
<1>8. AppliedFits'
  <2>1. text' \in Contents' BY <1>1, <1>7
  <2> QED BY <1>1, <1>7, <2>1 DEF WindowsInv, AppliedFits
<1>9. Progress' BY <1>5 DEF Progress
<1>10. ASSUME W!NeverBack' PROVE CitedFits'
  <2>1. \A r \in past : r[2] # t
    <3>1. p \in past' /\ p[2] = t /\ past \subseteq past' BY <1>1
    <3>2. \A x, y \in past' : x[2] = y[2] => x = y BY <1>10 DEF W!NeverBack
    <3> HIDE DEF p
    <3> QED BY <1>3, <3>1, <3>2
  <2>2. \A x \in DOMAIN applied' : x[1] # t BY <1>1, <2>1 DEF WindowsInv, AppliedFits, Contents
  <2>3. W!Windowed(text)' = {} BY <1>1, <2>2 DEF W!Windowed
  <2> QED BY <1>5, <2>3 DEF CitedFits
<1> QED BY <1>6, <1>8, <1>9, <1>10 DEF WindowsInv

\* A run that finds no window of its content wipes the evidence of the former one.
LEMMA WindowsBegin ==
  ASSUME WindowsInv, W!Begin
  PROVE  WindowsInv'
<1>1. /\ job.state = "pending" /\ job' = [state |-> "running", attempts |-> job.attempts + 1, next |-> 1]
      /\ cited' = IF W!Windowed(text) = {} THEN cited \cap Structured ELSE cited
      /\ UNCHANGED <<text, past, applied>>
  BY DEF W!Begin, W!Wipe, W!Windowed
<1>2. job' \in Jobs /\ job'.attempts > 0 /\ job'.state = "running" /\ job'.next = 1
  <2>1. job \in Jobs /\ job.attempts < MaxAttempts BY <1>1 DEF WindowsInv, WindowTypes
  <2> QED BY <1>1, <2>1, WindowsAssumption DEF Jobs
<1>3. WindowTypes' BY <1>1, <1>2 DEF WindowsInv, WindowTypes
<1>4. AppliedFits' BY <1>1 DEF WindowsInv, AppliedFits, Contents
<1>5. Progress'
  <2>1. Len(W!SplitWindows(text)) \in Nat BY SplitHolds DEF WindowsInv, WindowTypes
  <2> QED BY <1>1, <1>2, <2>1 DEF Progress
<1>6. ASSUME W!NeverBack' PROVE CitedFits'
  <2>1. W!NeverBack /\ Found' = Found BY <1>1, <1>6 DEF W!NeverBack, Found, W!Windowed
  <2>2. CASE W!Windowed(text) = {}
    <3>1. Found = {} BY <2>2 DEF Found
    <3>2. cited' \ Structured = {} BY <1>1, <2>2
    <3> QED BY <2>1, <3>1, <3>2 DEF CitedFits
  <2>3. CASE W!Windowed(text) # {}
    <3>1. cited \ Structured = Found \ Structured BY <2>1, <2>3 DEF WindowsInv, CitedFits
    <3> QED BY <1>1, <2>1, <2>3, <3>1 DEF CitedFits
  <2> QED BY <2>2, <2>3
<1> QED BY <1>3, <1>4, <1>5, <1>6 DEF WindowsInv

\* A step that leaves the documents and the windows alone.
LEMMA JobMoves ==
  ASSUME WindowsInv, UNCHANGED <<text, past, applied, cited>>, job.state # "pending",
         WindowTypes', Progress'
  PROVE  WindowsInv'
<1>1. AppliedFits' BY DEF WindowsInv, AppliedFits, Contents
<1>2. (W!NeverBack => CitedFits)'
  BY DEF WindowsInv, W!NeverBack, CitedFits, Found, W!Windowed
<1> QED BY <1>1, <1>2 DEF WindowsInv

\* A run that ends otherwise than by its last window leaves a job that goes on.
LEMMA WindowsStop ==
  ASSUME WindowsInv, W!Finish \/ W!Fail \/ W!Crash
  PROVE  WindowsInv'
<1>1. /\ job.state = "running" /\ UNCHANGED <<text, past, applied, cited>>
      /\ \/ job.next > Len(W!SplitWindows(text)) /\ job' = [state |-> "none", attempts |-> 0, next |-> 0]
         \/ job' = [state |-> "dead", attempts |-> 0, next |-> 0]
         \/ job.attempts < MaxAttempts /\ job' = [state |-> "pending", attempts |-> job.attempts, next |-> 0]
         \/ job' = [state |-> "pending", attempts |-> job.attempts - 1, next |-> 0]
  <2>1. job \in Jobs BY DEF WindowsInv, WindowTypes
  <2> QED BY <2>1, WindowsAssumption DEF W!Finish, W!Fail, W!Crash, W!Idle, W!Pending, Jobs
<1>2. job \in Jobs /\ job.attempts \in 1 .. MaxAttempts
  <2>1. job \in Jobs /\ job.attempts > 0 BY <1>1 DEF WindowsInv, WindowTypes
  <2> QED BY <2>1 DEF Jobs
<1>3. /\ job' \in Jobs /\ job'.state # "running"
      /\ job'.state = "pending" => job'.attempts < MaxAttempts
      /\ job'.state = "none" => job.next > Len(W!SplitWindows(text))
  BY <1>1, <1>2, WindowsAssumption DEF Jobs
<1>4. WindowTypes' BY <1>1, <1>3 DEF WindowsInv, WindowTypes
<1>5. Progress'
  <2>1. Len(W!SplitWindows(text)) \in Nat /\ DOMAIN W!SplitWindows(text) = 1 .. Len(W!SplitWindows(text))
    BY SplitHolds DEF WindowsInv, WindowTypes
  <2>2. /\ job.next \in 1 .. Len(W!SplitWindows(text)) + 1
        /\ \A i \in 1 .. job.next - 1 : <<text, i>> \in DOMAIN applied
    BY <1>1 DEF WindowsInv, Progress
  <2> QED BY <1>1, <1>3, <2>1, <2>2 DEF Progress
<1> QED BY <1>1, <1>4, <1>5, JobMoves

\* A window is skipped, or its facts are applied and cited at once.
LEMMA WindowsWindow ==
  ASSUME WindowsInv, NEW answer, W!Window(answer)
  PROVE  WindowsInv'
<1> DEFINE i == job.next
           w == W!SplitWindows(text)
           x0 == <<text, i>>
           facts == answer \cap W!Range(w[i])
<1>1. /\ job.state = "running" /\ i <= Len(w) /\ job' = [job EXCEPT !.next = i + 1]
      /\ UNCHANGED <<text, past>>
      /\ \/ x0 \in DOMAIN applied /\ UNCHANGED <<applied, cited>>
         \/ /\ x0 \notin DOMAIN applied /\ cited' = cited \cup facts
            /\ applied' = [x \in DOMAIN applied \cup {x0} |-> IF x = x0 THEN facts ELSE applied[x]]
  BY DEF W!Window, W!Supported
<1>2. job \in Jobs /\ job.attempts > 0 /\ text \in Texts \cup {<<>>}
  BY <1>1 DEF WindowsInv, WindowTypes
<1>3. /\ job' \in Jobs /\ job'.state = "running" /\ job'.next = i + 1 /\ job'.attempts = job.attempts
  BY <1>1, <1>2 DEF Jobs
<1>4. WindowTypes' BY <1>1, <1>2, <1>3 DEF WindowsInv, WindowTypes
<1>5. Len(w) \in Nat /\ DOMAIN w = 1 .. Len(w) /\ (text = <<>> => Len(w) = 0)
  BY <1>2, SplitHolds
<1>6. i \in 1 .. Len(w) /\ \A k \in 1 .. i - 1 : <<text, k>> \in DOMAIN applied
  BY <1>1, <1>5 DEF WindowsInv, Progress
<1>7. text # <<>> /\ text \in Texts /\ text \in Contents
  BY <1>2, <1>5, <1>6 DEF WindowsInv, AppliedFits
<1>8. x0 \in Texts \X Nat /\ x0[1] = text /\ x0[2] = i /\ i \in DOMAIN w /\ i \in Nat
  BY <1>5, <1>6, <1>7
<1> HIDE DEF x0
<1>9. DOMAIN applied \subseteq DOMAIN applied' /\ x0 \in DOMAIN applied'
  BY <1>1
<1>10. Progress'
  <2>1. \A k \in 1 .. (i + 1) - 1 : k \in 1 .. i - 1 \/ k = i BY <1>6
  <2>2. \A k \in 1 .. (i + 1) - 1 : <<text, k>> \in DOMAIN applied'
    BY <1>6, <1>9, <2>1 DEF x0
  <2>3. i + 1 \in 1 .. Len(w) + 1 BY <1>5, <1>6
  <2> QED BY <1>1, <1>3, <2>2, <2>3 DEF Progress
<1>11. CASE x0 \in DOMAIN applied
  <2>1. UNCHANGED <<text, past, applied, cited>> BY <1>1, <1>11
  <2> QED BY <1>1, <1>4, <1>10, <2>1, JobMoves
<1>12. CASE x0 \notin DOMAIN applied
  <2>1. /\ cited' = cited \cup facts
        /\ applied' = [x \in DOMAIN applied \cup {x0} |-> IF x = x0 THEN facts ELSE applied[x]]
    BY <1>1, <1>12
  <2>2. /\ DOMAIN applied' = DOMAIN applied \cup {x0} /\ applied'[x0] = facts
        /\ \A x \in DOMAIN applied : x # x0 /\ applied'[x] = applied[x]
    BY <1>12, <2>1
  <2>3. facts \subseteq W!Range(w[i]) OBVIOUS
  <2> HIDE DEF facts
  <2>4. AppliedFits'
    <3>1. Contents' = Contents BY <1>1 DEF Contents
    <3>2. ASSUME NEW x \in DOMAIN applied'
          PROVE  /\ x \in Texts \X Nat /\ x[1] \in Contents
                 /\ x[2] \in DOMAIN W!SplitWindows(x[1])
                 /\ applied'[x] \subseteq W!Range(W!SplitWindows(x[1])[x[2]])
      <4>1. CASE x = x0 BY <1>7, <1>8, <2>2, <2>3, <4>1
      <4>2. CASE x # x0
        <5>1. x \in DOMAIN applied /\ applied'[x] = applied[x] BY <2>2, <4>2
        <5> QED BY <5>1 DEF WindowsInv, AppliedFits
      <4> QED BY <4>1, <4>2
    <3> QED BY <1>1, <1>7, <3>1, <3>2 DEF AppliedFits
  <2>5. ASSUME W!NeverBack' PROVE CitedFits'
    <3>1. cited \ Structured = Found \ Structured
      BY <1>1, <2>5 DEF WindowsInv, W!NeverBack, CitedFits
    <3>2. W!Windowed(text)' = W!Windowed(text) \cup {x0} /\ x0 \notin W!Windowed(text)
          /\ \A x \in W!Windowed(text) : x \in DOMAIN applied
      BY <1>1, <1>8, <1>12, <2>2 DEF W!Windowed
    <3>3. Found' = Found \cup facts
      <4>1. ASSUME NEW y PROVE y \in Found' <=> y \in Found \/ y \in facts
        <5>1. y \in Found' <=> \E x \in W!Windowed(text)' : y \in applied'[x] BY DEF Found
        <5>2. y \in Found <=> \E x \in W!Windowed(text) : y \in applied[x] BY DEF Found
        <5> QED BY <2>2, <3>2, <5>1, <5>2
      <4> QED BY <4>1
    <3>4. cited' \ Structured = Found' \ Structured BY <2>1, <3>1, <3>3
    <3> QED BY <3>4 DEF CitedFits
  <2> QED BY <1>4, <1>10, <2>4, <2>5 DEF WindowsInv
<1> QED BY <1>11, <1>12

\* Every step of the extraction keeps the invariant.
LEMMA WindowsStep ==
  ASSUME WindowsInv, W!Next \/ UNCHANGED windowVars
  PROVE  WindowsInv'
<1>1. CASE UNCHANGED windowVars
  BY <1>1 DEF windowVars, WindowsInv, WindowTypes, AppliedFits, Contents, Progress, CitedFits,
              Found, W!NeverBack, W!Windowed
<1>2. CASE W!Begin BY <1>2, WindowsBegin
<1>3. CASE W!Finish \/ W!Fail \/ W!Crash BY <1>3, WindowsStop
<1>4. ASSUME NEW t \in Texts, W!Edit(t) PROVE WindowsInv' BY <1>4, WindowsEdit
<1>5. ASSUME NEW answer, W!Window(answer) PROVE WindowsInv' BY <1>5, WindowsWindow
<1> QED BY <1>1, <1>2, <1>3, <1>4, <1>5 DEF W!Next

\* The extraction has its types.
LEMMA WindowsTyped == WindowsInv => W!TypeOK
BY WindowsCardinality DEF WindowsInv, WindowTypes, AppliedFits, Jobs, W!TypeOK

\* The invariant implies what the run checks.
LEMMA WindowsComplete == WindowsInv => W!FactsOfText
<1> SUFFICES ASSUME WindowsInv, W!NeverBack, text # <<>>
             PROVE  /\ job.state = "none" => W!Complete(text, Structured)
                    /\ job.state = "running" => cited \ Structured \subseteq W!Words(text)
  BY DEF W!FactsOfText
<1> DEFINE w == W!SplitWindows(text)
<1>1. text \in Texts \cup {<<>>} BY DEF WindowsInv, WindowTypes
<1>2. Len(w) \in Nat /\ DOMAIN w = 1 .. Len(w) /\ W!Words(text) = W!Words(w)
  BY <1>1, SplitHolds
<1>3. \A x \in W!Windowed(text) : /\ x \in Texts \X Nat /\ x[1] = text /\ x[2] \in DOMAIN w
                                  /\ applied[x] \subseteq W!Range(w[x[2]])
  BY DEF WindowsInv, AppliedFits, W!Windowed
<1>4. ASSUME job.state = "running" PROVE cited \ Structured \subseteq W!Words(text)
  <2>1. cited \ Structured = Found \ Structured BY <1>4 DEF WindowsInv, CitedFits
  <2>2. ASSUME NEW y \in Found PROVE y \in W!Words(w)
    <3>1. PICK x \in W!Windowed(text) : y \in applied[x] BY <2>2 DEF Found
    <3>2. x[2] \in DOMAIN w /\ y \in W!Range(w[x[2]]) BY <1>3, <3>1
    <3> QED BY <3>2 DEF W!Words
  <2> QED BY <1>2, <2>1, <2>2
<1>5. ASSUME job.state = "none" PROVE W!Complete(text, Structured)
  <2>1. cited \ Structured = Found \ Structured BY <1>5 DEF WindowsInv, CitedFits
  <2>2. \A k \in DOMAIN w : <<text, k>> \in DOMAIN applied BY <1>5 DEF WindowsInv, Progress
  <2>3. W!Windowed(text) = {<<text, k>> : k \in DOMAIN w}
    <3>1. ASSUME NEW x \in W!Windowed(text) PROVE \E k \in DOMAIN w : x = <<text, k>>
      BY <1>3
    <3>2. \A k \in DOMAIN w : <<text, k>> \in W!Windowed(text) BY <2>2 DEF W!Windowed
    <3> HIDE DEF w
    <3> QED BY <3>1, <3>2
  <2>4. W!Words(text) = UNION {W!Range(w[k]) : k \in DOMAIN w} BY <1>2 DEF W!Words
  <2>5. cited \ Structured = (UNION {applied[x] : x \in W!Windowed(text)}) \ Structured
    BY <2>1 DEF Found
  <2> QED BY <2>3, <2>4, <2>5 DEF W!Complete
<1> QED BY <1>4, <1>5

-----------------------------------------------------------------------------
(* Retention and legal holds                                               *)

DocumentRow == [text : BOOLEAN, expired : BOOLEAN, versions : 1 .. MaxVersions,
                people : SUBSET People, observed : SUBSET People]
Purge == [pc : {"off", "next", "purge"}, todo : SUBSET Docs, doc : Docs \cup {None},
          erased : SUBSET Docs]

\* The documents the running purge has found free of holds.
Condemned == purge.erased \cup (IF purge.pc = "purge" THEN {purge.doc} ELSE {})

RetentionInv ==
  /\ docs \in [Docs -> DocumentRow] /\ store \subseteq Docs \X (1 .. MaxVersions)
  /\ holds \subseteq H!Scopes /\ purge \in Purge
  /\ purge.pc = "purge" => purge.doc \in Docs
  /\ purge.pc = "off" => purge.erased = {}
  /\ \A x \in early : /\ x[1] \in holds /\ x[2] \in Docs
                      /\ H!Covers(x[1], x[2], docs[x[2]].people)
  /\ \A d \in Condemned : \A h \in holds : <<h, d>> \notin early

\* There is no hold at first.
LEMMA RetentionInit == H!Init => RetentionInv
<1> SUFFICES ASSUME H!Init PROVE RetentionInv
  OBVIOUS
<1>1. docs \in [Docs -> DocumentRow] /\ store \subseteq Docs \X (1 .. MaxVersions)
  <2>1. 1 \in 1 .. MaxVersions BY RetentionAssumption
  <2>2. ASSUME NEW Q \in {{p} : p \in People}
        PROVE  [text |-> TRUE, expired |-> TRUE, versions |-> 1, people |-> Q, observed |-> Q]
                 \in DocumentRow
    BY <2>1 DEF DocumentRow
  <2>3. docs \in [Docs -> DocumentRow] BY <2>2 DEF H!Init
  <2> QED BY <2>1, <2>3 DEF H!Init
<1>2. purge = H!Off /\ purge \in Purge /\ Condemned = {} /\ purge.pc = "off" /\ purge.erased = {}
  BY DEF H!Init, H!Off, Purge, Condemned
<1> QED BY <1>1, <1>2 DEF H!Init, RetentionInv

\* What goes on around a purge: holds, documents and blobs change, the purge
\* does not, and early loses the pairs that cover no more.
LEMMA AroundPurge ==
  ASSUME RetentionInv, purge' = purge, docs' \in [Docs -> DocumentRow],
         store' \subseteq Docs \X (1 .. MaxVersions), holds' \subseteq H!Scopes,
         \/ H!StillCovering
         \/ early' = early /\ holds \subseteq holds' /\ docs' = docs
  PROVE  RetentionInv'
<1>1. /\ early' \subseteq early
      /\ \A x \in early' : x[1] \in holds' /\ x[2] \in Docs /\ H!Covers(x[1], x[2], docs'[x[2]].people)
  BY DEF RetentionInv, H!StillCovering, H!Covers
<1>2. Condemned' = Condemned BY DEF Condemned
<1>3. \A d \in Condemned : \A h : <<h, d>> \notin early
  BY DEF RetentionInv
<1> QED BY <1>1, <1>2, <1>3 DEF RetentionInv

\* What happens around a purge.
LEMMA RetentionAround ==
  ASSUME RetentionInv,
         \/ \E h \in H!Scopes : H!Place(h) \/ H!Release(h)
         \/ \E d \in Docs, e \in BOOLEAN, Q \in SUBSET People : H!Upsert(d, e, Q)
         \/ \E p, q \in People : H!Merge(p, q)
  PROVE  RetentionInv' /\ H!HeldIsKept
<1>1. ASSUME NEW h \in H!Scopes, H!Place(h) \/ H!Release(h) PROVE RetentionInv' /\ H!HeldIsKept
  <2>1. RetentionInv' BY <1>1, AroundPurge DEF H!Place, H!Release, RetentionInv
  <2>2. H!HeldIsKept BY <1>1 DEF H!Place, H!Release, H!HeldIsKept, H!Destroys
  <2> QED BY <2>1, <2>2
<1>2. ASSUME NEW d \in Docs, NEW e \in BOOLEAN, NEW Q \in SUBSET People, H!Upsert(d, e, Q)
      PROVE  RetentionInv' /\ H!HeldIsKept
  <2> DEFINE n == docs[d].versions + 1
             new == [text |-> TRUE, expired |-> e, versions |-> n, people |-> Q, observed |-> Q]
  <2>1. docs' = [docs EXCEPT ![d] = new] /\ store' = store \cup {<<d, n>>} /\ n <= MaxVersions
    BY <1>2 DEF H!Upsert
  <2>2. new \in DocumentRow /\ n \in 1 .. MaxVersions
    <3>1. docs[d] \in DocumentRow BY DEF RetentionInv
    <3> QED BY <2>1, <3>1, RetentionAssumption DEF DocumentRow
  <2>3. new.text = TRUE OBVIOUS
  <2> HIDE DEF new, n
  <2>4. docs' \in [Docs -> DocumentRow] /\ store' \subseteq Docs \X (1 .. MaxVersions)
    BY <2>1, <2>2 DEF RetentionInv
  <2>5. RetentionInv' BY <1>2, <2>4, AroundPurge DEF H!Upsert, RetentionInv
  <2>6. H!HeldIsKept BY <2>1, <2>3 DEF H!HeldIsKept, H!Destroys, RetentionInv
  <2> QED BY <2>5, <2>6
<1>3. ASSUME NEW p \in People, NEW q \in People, H!Merge(p, q) PROVE RetentionInv' /\ H!HeldIsKept
  <2> DEFINE who(d) == IF q \in docs[d].people THEN (docs[d].people \ {q}) \cup {p}
                       ELSE docs[d].people
             row0(d) == [docs[d] EXCEPT !.people = who(d)]
  <2>1. docs' = [d \in Docs |-> row0(d)] BY <1>3 DEF H!Merge
  <2>2. \A d \in Docs : row0(d) \in DocumentRow /\ row0(d).text = docs[d].text
    <3> SUFFICES ASSUME NEW d \in Docs PROVE row0(d) \in DocumentRow /\ row0(d).text = docs[d].text
      OBVIOUS
    <3>1. docs[d] \in DocumentRow BY DEF RetentionInv
    <3>2. who(d) \in SUBSET People BY <3>1 DEF DocumentRow
    <3> HIDE DEF who
    <3> QED BY <3>1, <3>2 DEF DocumentRow
  <2> HIDE DEF row0
  <2>3. docs' \in [Docs -> DocumentRow] /\ \A d \in Docs : docs'[d].text = docs[d].text
    BY <2>1, <2>2
  <2>4. RetentionInv' BY <1>3, <2>3, AroundPurge DEF H!Merge, RetentionInv
  <2>5. H!HeldIsKept BY <1>3, <2>3 DEF H!Merge, H!HeldIsKept, H!Destroys
  <2> QED BY <2>4, <2>5
<1> QED BY <1>1, <1>2, <1>3

\* A purge begins.
LEMMA RetentionBegin ==
  ASSUME RetentionInv, NEW S0 \in SUBSET Docs, H!Begin(S0)
  PROVE  RetentionInv' /\ H!HeldIsKept
<1>1. /\ purge' \in Purge /\ purge'.pc = "next" /\ purge'.erased = {}
      /\ docs' = docs /\ store' = store /\ holds' = holds
  BY DEF H!Begin, H!Off, Purge
<1>2. \A x \in early' : /\ x[1] \in holds /\ x[2] \in Docs
                        /\ H!Covers(x[1], x[2], docs[x[2]].people)
  BY DEF H!Begin
<1>3. Condemned' = {} BY <1>1 DEF Condemned
<1>4. RetentionInv' BY <1>1, <1>2, <1>3 DEF RetentionInv, H!Covers
<1> QED BY <1>1, <1>4 DEF H!HeldIsKept, H!Destroys

\* A purge asks for the holds on its next document.
LEMMA RetentionCheck ==
  ASSUME RetentionInv, NEW d \in Docs, H!Check(d)
  PROVE  RetentionInv' /\ H!HeldIsKept
<1>1. docs' = docs /\ store' = store /\ holds' = holds /\ early' = early
  BY DEF H!Check
<1>2. /\ purge' \in Purge /\ purge'.erased = purge.erased
      /\ \/ H!Held(d) /\ purge'.pc = "next" 
         \/ ~H!Held(d) /\ purge'.pc = "purge" /\ purge'.doc = d
  <2>1. purge \in Purge BY DEF RetentionInv
  <2> QED BY <2>1 DEF H!Check, Purge
<1>3. ~H!Held(d) => \A h \in holds : <<h, d>> \notin early
  BY DEF RetentionInv, H!Held
<1>4. \A c \in Condemned' : c \in Condemned \/ (c = d /\ ~H!Held(d))
  BY <1>2 DEF Condemned
<1>5. RetentionInv'
  BY <1>1, <1>2, <1>3, <1>4 DEF RetentionInv, H!Covers
<1> QED BY <1>1, <1>5 DEF H!HeldIsKept, H!Destroys

\* A purge erases the document it has found free.
LEMMA RetentionErase ==
  ASSUME RetentionInv, H!Erase
  PROVE  RetentionInv' /\ H!HeldIsKept
<1> DEFINE d == purge.doc
<1>1. docs' = docs /\ holds' = holds /\ early' = early /\ store' \subseteq store
      /\ \A x \in store \ store' : x[1] = d
  BY DEF H!Erase
<1>2. /\ purge' \in Purge /\ purge'.pc = "next" /\ purge'.erased = purge.erased \cup {d} /\ purge.pc = "purge"
      /\ d \in Docs
  <2>1. purge \in Purge /\ purge.doc \in Docs BY DEF RetentionInv, H!Erase
  <2> QED BY <2>1 DEF H!Erase, Purge
<1>3. Condemned' = Condemned BY <1>2 DEF Condemned
<1>4. RetentionInv' BY <1>1, <1>2, <1>3 DEF RetentionInv, H!Covers
<1>5. d \in Condemned BY <1>2 DEF Condemned
<1>6. \A c \in Docs : H!Destroys(c) => c = d BY <1>1 DEF H!Destroys
<1> QED BY <1>2, <1>4, <1>5, <1>6 DEF H!HeldIsKept, RetentionInv

\* A purge ends: nothing is condemned, and early is forgotten.
LEMMA PurgeEnds ==
  ASSUME RetentionInv, purge' = H!Off, early' = {}, holds' = holds,
         docs' \in [Docs -> DocumentRow], store' \subseteq store
  PROVE  RetentionInv'
<1>1. purge' \in Purge /\ purge'.pc = "off" /\ purge'.erased = {} BY DEF H!Off, Purge
<1>2. Condemned' = {} BY <1>1 DEF Condemned
<1> QED BY <1>1, <1>2 DEF RetentionInv

\* A purge is over.
LEMMA RetentionEnd ==
  ASSUME RetentionInv, H!Commit \/ H!Abort \/ \E S0 \in SUBSET store : H!EraseHalf(S0)
  PROVE  RetentionInv' /\ H!HeldIsKept
<1>1. CASE H!Abort
  BY <1>1, PurgeEnds DEF H!Abort, RetentionInv, H!HeldIsKept, H!Destroys
<1>2. CASE H!Commit
  <2> DEFINE gone(d) == [docs[d] EXCEPT !.text = FALSE, !.people = {}, !.observed = {}]
  <2>1. docs' = [d \in Docs |-> IF d \in purge.erased THEN gone(d) ELSE docs[d]]
    BY <1>2 DEF H!Commit
  <2>2. \A d \in Docs : gone(d) \in DocumentRow
    <3> SUFFICES ASSUME NEW d \in Docs PROVE gone(d) \in DocumentRow OBVIOUS
    <3>1. docs[d] \in DocumentRow BY DEF RetentionInv
    <3> QED BY <3>1 DEF DocumentRow
  <2> HIDE DEF gone
  <2>3. docs' \in [Docs -> DocumentRow] BY <2>1, <2>2 DEF RetentionInv
  <2>4. RetentionInv' BY <1>2, <2>3, PurgeEnds DEF H!Commit
  <2>5. \A d \in Docs : H!Destroys(d) => d \in purge.erased
    BY <1>2, <2>1 DEF H!Destroys, H!Commit
  <2>6. purge.pc # "off" BY <1>2 DEF H!Commit
  <2> QED BY <2>4, <2>5, <2>6 DEF H!HeldIsKept, RetentionInv, Condemned
<1>3. ASSUME NEW S0 \in SUBSET store, H!EraseHalf(S0) PROVE RetentionInv' /\ H!HeldIsKept
  <2>1. RetentionInv' BY <1>3, PurgeEnds DEF H!EraseHalf, RetentionInv
  <2>2. \A d \in Docs : H!Destroys(d) => d = purge.doc
    BY <1>3 DEF H!EraseHalf, H!Destroys
  <2>3. purge.pc = "purge" /\ purge.doc \in Condemned BY <1>3 DEF H!EraseHalf, Condemned
  <2> QED BY <2>1, <2>2, <2>3 DEF H!HeldIsKept, RetentionInv
<1> QED BY <1>1, <1>2, <1>3

\* Every step keeps the invariant and spares what is held.
LEMMA RetentionStep ==
  RetentionInv /\ (H!Next \/ UNCHANGED retentionVars) => RetentionInv' /\ H!HeldIsKept
<1>1. ASSUME RetentionInv, H!Next PROVE RetentionInv' /\ H!HeldIsKept
  <2>1. H!Expired \subseteq Docs BY DEF H!Expired
  <2> QED
    BY <1>1, <2>1, RetentionAround, RetentionBegin, RetentionCheck, RetentionErase, RetentionEnd
    DEF H!Next
<1>2. ASSUME RetentionInv, UNCHANGED retentionVars PROVE RetentionInv' /\ H!HeldIsKept
  BY <1>2 DEF RetentionInv, retentionVars, Condemned, H!HeldIsKept, H!Destroys, H!Covers
<1> QED BY <1>1, <1>2

\* Documents, holds and the purge have their types.
LEMMA RetentionTypes == RetentionInv => H!TypeOK
BY DEF RetentionInv, H!TypeOK, DocumentRow, Purge

-----------------------------------------------------------------------------
(* Proposals and the push to the host                                      *)

Proposal == [claim : Claims, status : {"pending", "superseded", "applied", "rejected"},
             by : Writers]
Writing == [pc : {"off", "enqueue", "commit"}, claims : SUBSET Claims, seen : [Slots -> Nat],
            won : BOOLEAN]
PushJob == [job : {"none", "queued", "dead"}, lock : Writers \cup {None, "worker"},
            page : SUBSET Nat]

OneEach(C) == \A c, d \in C : SlotOf[c] = SlotOf[d] => c = d
IsPending(i) == i \in DOMAIN rows /\ rows[i].status = "pending"
OnePending ==
  \A i, j \in DOMAIN rows :
    /\ rows[i].status = "pending" /\ rows[j].status = "pending"
    /\ SlotOf[rows[i].claim] = SlotOf[rows[j].claim]
    => i = j

\* A slot has one pending row, a writer one claim of each slot, and the writer
\* of a commit that announces rows holds the push job.
ProposalsInv ==
  /\ rows \in Seq(Proposal) /\ active \subseteq Claims /\ told \subseteq DOMAIN rows
  /\ decide \in Nat /\ (decide # 0 => decide \in DOMAIN rows)
  /\ write \in [Writers -> Writing] /\ push \in PushJob /\ push.page \subseteq DOMAIN rows
  /\ \A w \in Writers : OneEach(write[w].claims)
  /\ \A w \in Writers : w # "route" /\ write[w].pc = "commit" => push.lock = w
  /\ push.lock = "worker" => push.job = "queued"
  /\ OnePending

\* When nobody is to push, everything announced has been told.
Told ==
  push.job = "none" => \A i \in DOMAIN rows :
    rows[i].status = "pending" /\ rows[i].by # "route" => i \in told

\* The instance counts as everybody does.
LEMMA SameCardinality == \A X : P!Cardinality(X) = Cardinality(X)
BY DEF P!Cardinality, Cardinality

\* A sequence of a finite set has each element once.
LEMMA SetToSeqProperties ==
  ASSUME NEW X, IsFiniteSet(X)
  PROVE  /\ P!SetToSeq(X) \in Seq(X)
         /\ \A i, j \in DOMAIN P!SetToSeq(X) : P!SetToSeq(X)[i] = P!SetToSeq(X)[j] => i = j
<1>1. Cardinality(X) \in Nat /\ ExistsBijection(1 .. Cardinality(X), X)
  BY FS_CardinalityType
<1>2. PICK f \in [1 .. Cardinality(X) -> X] : \A i, j \in DOMAIN f : f[i] = f[j] => i = j
  BY <1>1 DEF ExistsBijection, Bijection, Injection, IsInjective
<1>3. P!IsInjective(f) BY <1>2 DEF P!IsInjective
<1>4. /\ P!SetToSeq(X) \in [1 .. Cardinality(X) -> X]
      /\ P!IsInjective(P!SetToSeq(X))
  <2>1. \E g \in [1 .. Cardinality(X) -> X] : P!IsInjective(g) BY <1>3
  <2> QED BY <2>1, SameCardinality, Zenon DEF P!SetToSeq
<1>5. P!SetToSeq(X) \in Seq(X) BY <1>1, <1>4
<1> QED BY <1>4, <1>5 DEF P!IsInjective

\* Nothing is proposed at first.
LEMMA ProposalsInit == P!Init => ProposalsInv /\ Told
<1> SUFFICES ASSUME P!Init PROVE ProposalsInv /\ Told
  OBVIOUS
<1>1. P!Off \in Writing /\ P!Off.claims = {} /\ P!Off.pc = "off"
  BY DEF P!Off, Writing
<1>2. push \in PushJob /\ push.lock = None /\ push.page = {} BY DEF P!Init, PushJob
<1>3. rows = <<>> /\ rows \in Seq(Proposal) /\ DOMAIN rows = {} BY DEF P!Init
<1>4. write \in [Writers -> Writing] /\ \A w \in Writers : write[w] = P!Off
  BY <1>1 DEF P!Init
<1>5. push.lock # "worker" BY <1>2, ProposalsAssumption
<1>6. /\ active \subseteq Claims /\ told = {} /\ decide = 0
  BY DEF P!Init
<1> QED BY <1>1, <1>2, <1>3, <1>4, <1>5, <1>6 DEF ProposalsInv, Told, OneEach, OnePending

\* The winners of pick_slot_winners: one of each slot.
LEMMA WinnersOneEach == P!Winners \subseteq active /\ (active \subseteq Claims => OneEach(P!Winners))
<1>1. P!Winners \subseteq active BY DEF P!Winners, P!Candidates
<1>2. ASSUME active \subseteq Claims, NEW c \in P!Winners, NEW d \in P!Winners,
             SlotOf[c] = SlotOf[d], c # d
      PROVE  FALSE
  <2>1. P!Outranks(c, d) /\ P!Outranks(d, c) BY <1>2 DEF P!Winners
  <2>2. c \in Nat /\ d \in Nat BY <1>1, <1>2, ProposalsAssumption
  <2>3. \A x : P!Rank(x) \in Nat
    BY DEF P!Rank
  <2> HIDE DEF P!Rank
  <2> QED BY <2>1, <2>2, <2>3 DEF P!Outranks
<1> QED BY <1>1, <1>2 DEF OneEach

\* What a writer has seen of the slots.
LEMMA SeenType == rows \in Seq(Proposal) => \A C : P!Seen(C) \in [Slots -> Nat]
<1> SUFFICES ASSUME rows \in Seq(Proposal), NEW C PROVE P!Seen(C) \in [Slots -> Nat]
  OBVIOUS
<1>1. \A s \in Slots : P!Open(s) \subseteq Nat BY DEF P!Open
<1>2. \A s \in Slots : P!Open(s) # {} => (CHOOSE i \in P!Open(s) : TRUE) \in Nat
  BY <1>1
<1> QED BY <1>2 DEF P!Seen

\* Claims come and go.
LEMMA ProposalsClaims ==
  ASSUME ProposalsInv, NEW c \in Claims, P!Activate(c) \/ P!Retract(c)
  PROVE  ProposalsInv' /\ (Told => Told')
<1>1. active' \subseteq Claims BY DEF P!Activate, P!Retract, P!Winning, ProposalsInv
<1>2. UNCHANGED <<rows, told, write, decide, push>> BY DEF P!Activate, P!Retract
<1> QED BY <1>1, <1>2 DEF ProposalsInv, OnePending, Told

\* A writer begins: it has looked, and holds no lock yet.
LEMMA WriterBegins ==
  ASSUME ProposalsInv, NEW w \in Writers, NEW t \in Writing, OneEach(t.claims),
         t.pc = "commit" => w = "route", write' = [write EXCEPT ![w] = t],
         UNCHANGED <<active, rows, told, decide, push>>
  PROVE  ProposalsInv' /\ (Told => Told')
<1>1. \A v \in Writers : write'[v] = IF v = w THEN t ELSE write[v] BY DEF ProposalsInv
<1>2. write' \in [Writers -> Writing] BY DEF ProposalsInv
<1>3. \A v \in Writers : OneEach(write'[v].claims) BY <1>1 DEF ProposalsInv
<1>4. \A v \in Writers : v # "route" /\ write'[v].pc = "commit" => push'.lock = v
  BY <1>1 DEF ProposalsInv
<1> QED BY <1>2, <1>3, <1>4 DEF ProposalsInv, OnePending, Told

\* A writer begins.
LEMMA ProposalsGenerate ==
  ASSUME ProposalsInv, NEW w \in Writers, P!Generate(w)
  PROVE  ProposalsInv' /\ (Told => Told')
<1> DEFINE t == [P!Off EXCEPT !.claims = P!Winners, !.seen = P!Seen(P!Winners),
                              !.pc = IF w = "job" THEN "enqueue" ELSE "commit"]
<1>1. P!Winners \subseteq Claims /\ OneEach(P!Winners) BY WinnersOneEach DEF ProposalsInv
<1>2. P!Seen(P!Winners) \in [Slots -> Nat] BY SeenType DEF ProposalsInv
<1>3. t \in Writing /\ t.claims = P!Winners /\ t.pc = IF w = "job" THEN "enqueue" ELSE "commit"
  BY <1>1, <1>2 DEF P!Off, Writing
<1>4. w \in {"job", "route"} BY ProposalsAssumption DEF P!Generate
<1>5. write' = [write EXCEPT ![w] = t] /\ UNCHANGED <<active, rows, told, decide, push>>
  BY DEF P!Generate
<1> HIDE DEF t
<1> QED BY <1>1, <1>3, <1>4, <1>5, WriterBegins

\* A promotion begins.
LEMMA ProposalsPromote ==
  ASSUME ProposalsInv, NEW c \in Claims, NEW won \in BOOLEAN, P!Promote(c, won)
  PROVE  ProposalsInv' /\ (Told => Told')
<1> DEFINE t == [pc |-> "enqueue", claims |-> {c}, seen |-> P!Seen({c}), won |-> won]
<1>1. P!Seen({c}) \in [Slots -> Nat] BY SeenType DEF ProposalsInv
<1>2. t \in Writing /\ OneEach(t.claims) /\ t.pc = "enqueue" BY <1>1 DEF Writing, OneEach
<1>3. /\ "agent" \in Writers /\ write' = [write EXCEPT !["agent"] = t]
      /\ UNCHANGED <<active, rows, told, decide, push>>
  BY DEF P!Promote
<1> HIDE DEF t
<1> QED BY <1>2, <1>3, WriterBegins

\* A writer takes the push job, or finds it queued.
LEMMA ProposalsEnqueue ==
  ASSUME ProposalsInv, NEW w \in Writers, P!Enqueue(w)
  PROVE  ProposalsInv' /\ (Told => Told')
<1>1. /\ push' = [push EXCEPT !.lock = w] /\ push.lock = None
      /\ write' = [write EXCEPT ![w].pc = "commit"] /\ UNCHANGED <<active, rows, told, decide>>
  BY DEF P!Enqueue
<1>2. push' \in PushJob /\ push'.lock = w /\ push'.job = push.job /\ push'.page = push.page
  BY <1>1 DEF ProposalsInv, PushJob
<1>3. w # "worker" /\ None \notin Writers BY ProposalsAssumption
<1>4. /\ write' \in [Writers -> Writing]
      /\ \A v \in Writers : write'[v].claims = write[v].claims
      /\ \A v \in Writers : v # w => write'[v] = write[v]
  BY <1>1 DEF ProposalsInv, Writing
<1>5. \A v \in Writers : v # "route" /\ write'[v].pc = "commit" => v = w
  BY <1>1, <1>3, <1>4 DEF ProposalsInv
<1> QED BY <1>1, <1>2, <1>3, <1>4, <1>5 DEF ProposalsInv, OnePending, OneEach, Told

\* A writer gives up.
LEMMA ProposalsAbort ==
  ASSUME ProposalsInv, NEW w \in Writers, P!Abort(w)
  PROVE  ProposalsInv' /\ (Told => Told')
<1>1. /\ push' = IF push.lock = w THEN [push EXCEPT !.lock = None] ELSE push
      /\ write' = [write EXCEPT ![w] = P!Off] /\ UNCHANGED <<active, rows, told, decide>>
  BY DEF P!Abort
<1>2. /\ push' \in PushJob /\ push'.job = push.job /\ push'.page = push.page
      /\ push'.lock = IF push.lock = w THEN None ELSE push.lock
  BY <1>1 DEF ProposalsInv, PushJob
<1>3. P!Off \in Writing /\ P!Off.claims = {} /\ P!Off.pc = "off" BY DEF P!Off, Writing
<1>4. /\ write' \in [Writers -> Writing]
      /\ \A v \in Writers : write'[v] = IF v = w THEN P!Off ELSE write[v]
  BY <1>1, <1>3 DEF ProposalsInv
<1>5. \A v \in Writers : v # "route" /\ write'[v].pc = "commit" => push'.lock = v
  BY <1>2, <1>3, <1>4 DEF ProposalsInv
<1>6. \A v \in Writers : OneEach(write'[v].claims) BY <1>3, <1>4 DEF ProposalsInv, OneEach
<1>7. push'.lock = "worker" => push'.job = "queued" BY <1>2, ProposalsAssumption DEF ProposalsInv
<1> QED BY <1>1, <1>2, <1>4, <1>5, <1>6, <1>7 DEF ProposalsInv, OnePending, Told

\* The push job changes hands between None and the worker; writers that wait to
\* commit hold it, so there is none.
LEMMA PushChanges ==
  ASSUME ProposalsInv, push.lock \in {None, "worker"}, push' \in PushJob,
         push'.page \subseteq DOMAIN rows, push'.lock = "worker" => push'.job = "queued",
         told' \subseteq DOMAIN rows, UNCHANGED <<active, rows, write, decide>>
  PROVE  ProposalsInv'
<1>1. \A w \in Writers : ~ (w # "route" /\ write[w].pc = "commit")
  BY ProposalsAssumption DEF ProposalsInv
<1> QED BY <1>1 DEF ProposalsInv, OnePending

\* A page consists of rows.
LEMMA FirstPendingRows == P!FirstPending \subseteq DOMAIN rows
BY DEF P!FirstPending

\* The push keeps the invariant.
LEMMA ProposalsPush ==
  ASSUME ProposalsInv, P!PushLoad \/ P!Deliver \/ P!PushDone \/ \E j \in {"queued", "dead"} : P!PushFails(j)
  PROVE  ProposalsInv'
<1>0. push \in PushJob /\ DOMAIN rows \subseteq Nat BY DEF ProposalsInv
<1>1. CASE P!PushLoad
  <2>1. push' \in PushJob /\ push'.page \subseteq DOMAIN rows
        /\ (push'.lock = "worker" => push'.job = "queued")
    <3>1. CASE P!FirstPending = {}
      <4>1. push' = [push EXCEPT !.job = "none"] /\ push.lock = None BY <1>1, <3>1 DEF P!PushLoad
      <4> QED BY <1>0, <4>1, ProposalsAssumption DEF PushJob, ProposalsInv
    <3>2. CASE P!FirstPending # {}
      <4>1. push' = [push EXCEPT !.lock = "worker", !.page = P!FirstPending] /\ push.job = "queued"
        BY <1>1, <3>2 DEF P!PushLoad
      <4> QED BY <1>0, <4>1, FirstPendingRows DEF PushJob
    <3> QED BY <3>1, <3>2
  <2> QED BY <1>1, <2>1, PushChanges DEF P!PushLoad, ProposalsInv
<1>2. CASE P!Deliver
  BY <1>2, PushChanges DEF P!Deliver, ProposalsInv
<1>3. ASSUME NEW j \in {"queued", "dead", "none"}, push.lock = "worker",
             push' = [job |-> j, lock |-> None, page |-> {}], UNCHANGED <<active, rows, told, write, decide>>
      PROVE  ProposalsInv'
  <2>1. push' \in PushJob /\ push'.page = {} /\ push'.lock = None BY <1>3 DEF PushJob
  <2> QED BY <1>3, <2>1, PushChanges, ProposalsAssumption DEF ProposalsInv
<1>4. CASE P!PushDone
  <2> DEFINE j == IF P!FirstPending \subseteq push.page THEN "none" ELSE "queued"
  <2>1. j \in {"queued", "dead", "none"} OBVIOUS
  <2>2. /\ push.lock = "worker" /\ push' = [job |-> j, lock |-> None, page |-> {}]
        /\ UNCHANGED <<active, rows, told, write, decide>>
    BY <1>4 DEF P!PushDone
  <2> HIDE DEF j
  <2> QED BY <1>3, <2>1, <2>2
<1>5. ASSUME NEW j \in {"queued", "dead"}, P!PushFails(j) PROVE ProposalsInv'
  BY <1>3, <1>5 DEF P!PushFails
<1> QED BY <1>1, <1>2, <1>4, <1>5

\* A decision keeps the invariant.
LEMMA ProposalsDecide ==
  ASSUME ProposalsInv, \/ \E i \in 1 .. MaxRows : P!DecideLook(i)
                       \/ \E status \in {"applied", "rejected"} : P!DecideWrite(status)
  PROVE  ProposalsInv' /\ (Told => Told')
<1>1. ASSUME NEW i \in 1 .. MaxRows, P!DecideLook(i) PROVE ProposalsInv' /\ (Told => Told')
  BY <1>1 DEF P!DecideLook, ProposalsInv, OnePending, Told
<1>2. ASSUME NEW status \in {"applied", "rejected"}, P!DecideWrite(status)
      PROVE  ProposalsInv' /\ (Told => Told')
  <2> DEFINE new == [rows[decide] EXCEPT !.status = status]
  <2>1. rows' = [rows EXCEPT ![decide] = new] /\ decide \in DOMAIN rows
    BY <1>2 DEF P!DecideWrite, ProposalsInv
  <2>2. rows[decide] \in Proposal BY <2>1 DEF ProposalsInv
  <2>3. new \in Proposal /\ new.status # "pending" BY <1>2, <2>2 DEF Proposal
  <2> HIDE DEF new
  <2>4. rows' \in Seq(Proposal) /\ DOMAIN rows' = DOMAIN rows
        /\ \A i \in DOMAIN rows : rows'[i] = IF i = decide THEN new ELSE rows[i]
    BY <2>1, <2>3 DEF ProposalsInv
  <2>5. OnePending' BY <2>3, <2>4 DEF OnePending, ProposalsInv
  <2>6. UNCHANGED <<active, told, write, push>> /\ decide' = 0 BY <1>2 DEF P!DecideWrite
  <2>7. ProposalsInv' BY <2>4, <2>5, <2>6 DEF ProposalsInv
  <2> QED BY <2>3, <2>4, <2>6, <2>7 DEF Told
<1> QED BY <1>1, <1>2

\* The rows after a commit of w: the old ones, some superseded, and the new.
LEMMA ProposedRows ==
  ASSUME ProposalsInv, NEW w \in Writers, P!Commit(w)
  PROVE  \E m \in Nat :
           /\ rows' \in Seq(Proposal) /\ DOMAIN rows = 1 .. Len(rows) /\ Len(rows) \in Nat
           /\ DOMAIN rows' = 1 .. Len(rows) + m
           /\ \A i \in 1 .. Len(rows) :
                /\ rows'[i].claim = rows[i].claim /\ rows'[i].by = rows[i].by
                /\ rows'[i].status = IF i \in P!Replaced(w) THEN "superseded" ELSE rows[i].status
           /\ \A i \in 1 .. Len(rows) + m : i > Len(rows) =>
                rows'[i].claim \in P!New(w) /\ rows'[i].by = w
           /\ \A i, j \in 1 .. Len(rows) + m : i > Len(rows) /\ j > Len(rows) =>
                (rows'[i].claim = rows'[j].claim => i = j)
<1> DEFINE rec(c) == [claim |-> c, status |-> "pending", by |-> w]
           S0 == {rec(c) : c \in P!New(w)}
           n == Len(rows)
           gone(i) == [rows[i] EXCEPT !.status = "superseded"]
           A == [i \in DOMAIN rows |-> IF i \in P!Replaced(w) THEN gone(i) ELSE rows[i]]
           B == P!SetToSeq(S0)
<1>1. n \in Nat /\ DOMAIN rows = 1 .. n /\ \A i \in 1 .. n : rows[i] \in Proposal
  BY DEF ProposalsInv
<1>2. P!New(w) \subseteq Claims /\ IsFiniteSet(P!New(w))
  <2>1. P!New(w) \subseteq Claims BY DEF P!New, ProposalsInv, Writing
  <2> QED BY <2>1, FS_Subset, ProposalsAssumption
<1>3. \A x \in S0 : x \in Proposal /\ x.claim \in P!New(w) /\ x.by = w
  BY <1>2 DEF Proposal
<1>4. \A x, y \in S0 : x.claim = y.claim => x = y
  OBVIOUS
<1>5. IsFiniteSet(S0)
  <2> DEFINE f == [c \in P!New(w) |-> rec(c)]
  <2>1. f \in Surjection(P!New(w), S0) BY DEF Surjection
  <2> HIDE DEF f, S0
  <2> QED BY <1>2, <2>1, FS_Surjection
<1>6. rows' = A \o B BY DEF P!Commit
<1>7. \A i \in 1 .. n : /\ gone(i) \in Proposal /\ gone(i).claim = rows[i].claim
                        /\ gone(i).by = rows[i].by /\ gone(i).status = "superseded"
  <2> SUFFICES ASSUME NEW i \in 1 .. n
               PROVE  /\ gone(i) \in Proposal /\ gone(i).claim = rows[i].claim
                      /\ gone(i).by = rows[i].by /\ gone(i).status = "superseded"
    OBVIOUS
  <2> QED BY <1>1 DEF Proposal
<1> HIDE DEF rec, S0, gone
<1>8. B \in Seq(S0) /\ \A i, j \in DOMAIN B : B[i] = B[j] => i = j
  BY <1>5, SetToSeqProperties
<1> HIDE DEF B
<1>9. B \in Seq(Proposal) /\ Len(B) \in Nat /\ DOMAIN B = 1 .. Len(B)
      /\ \A i \in 1 .. Len(B) : B[i] \in S0
  <2>1. S0 \subseteq Proposal BY <1>3
  <2> QED BY <1>8, <2>1
<1>10. A \in Seq(Proposal) /\ Len(A) = n /\ DOMAIN A = 1 .. n
  <2>1. A \in [1 .. n -> Proposal] BY <1>1, <1>7
  <2> QED BY <1>1, <2>1
<1>11. \A i \in 1 .. n : A[i] = IF i \in P!Replaced(w) THEN gone(i) ELSE rows[i]
  BY <1>1
<1> HIDE DEF A
<1>12. /\ A \o B \in Seq(Proposal) /\ DOMAIN (A \o B) = 1 .. n + Len(B)
       /\ \A i \in 1 .. n : (A \o B)[i] = A[i]
       /\ \A i \in 1 .. n + Len(B) : i > n => (A \o B)[i] = B[i - n] /\ i - n \in 1 .. Len(B)
  BY <1>1, <1>9, <1>10
<1> WITNESS Len(B) \in Nat
<1>13. \A i \in 1 .. n : /\ rows'[i].claim = rows[i].claim /\ rows'[i].by = rows[i].by
                         /\ rows'[i].status = IF i \in P!Replaced(w) THEN "superseded" ELSE rows[i].status
  BY <1>6, <1>7, <1>11, <1>12
<1>14. \A i \in 1 .. n + Len(B) : i > n => rows'[i].claim \in P!New(w) /\ rows'[i].by = w
  BY <1>3, <1>6, <1>9, <1>12
<1>15. ASSUME NEW i \in 1 .. n + Len(B), NEW j \in 1 .. n + Len(B), i > n, j > n,
              rows'[i].claim = rows'[j].claim
       PROVE  i = j
  <2>1. B[i - n] \in S0 /\ B[j - n] \in S0 /\ rows'[i] = B[i - n] /\ rows'[j] = B[j - n]
        /\ i - n \in DOMAIN B /\ j - n \in DOMAIN B
    BY <1>6, <1>9, <1>12, <1>15
  <2>2. B[i - n] = B[j - n] BY <1>4, <1>15, <2>1
  <2>3. i - n = j - n BY <1>8, <2>1, <2>2
  <2> QED BY <1>1, <2>3
<1> QED BY <1>1, <1>6, <1>12, <1>13, <1>14, <1>15

\* A commit leaves one pending row of each slot, and whoever announces one has a push job
\* queued.
LEMMA ProposalsCommit ==
  ASSUME ProposalsInv, NEW w \in Writers, P!Commit(w)
  PROVE  ProposalsInv' /\ (Told => Told')
<1> DEFINE n == Len(rows)
<1>1. PICK m \in Nat :
           /\ rows' \in Seq(Proposal) /\ DOMAIN rows = 1 .. n /\ n \in Nat
           /\ DOMAIN rows' = 1 .. n + m
           /\ \A i \in 1 .. n :
                /\ rows'[i].claim = rows[i].claim /\ rows'[i].by = rows[i].by
                /\ rows'[i].status = IF i \in P!Replaced(w) THEN "superseded" ELSE rows[i].status
           /\ \A i \in 1 .. n + m : i > n =>
                rows'[i].claim \in P!New(w) /\ rows'[i].by = w
           /\ \A i, j \in 1 .. n + m : i > n /\ j > n =>
                (rows'[i].claim = rows'[j].claim => i = j)
  BY ProposedRows
<1> HIDE DEF n
<1>2. P!New(w) \subseteq write[w].claims /\ write[w] \in Writing /\ OneEach(write[w].claims)
  BY DEF P!New, ProposalsInv
<1>3. /\ ~P!Clash(w) /\ write[w].pc = "commit" /\ push' = P!Freed(w)
      /\ write' = [write EXCEPT ![w] = P!Off] /\ UNCHANGED <<told, decide>>
      /\ active' = IF write[w].won THEN UNION {P!Winning(c) : c \in write[w].claims} ELSE active
  BY DEF P!Commit
\* An old row that stays pending is of a slot that gets no new one.
<1>4. ASSUME NEW i \in 1 .. n, rows'[i].status = "pending", NEW c \in P!New(w)
      PROVE  SlotOf[rows[i].claim] # SlotOf[c]
  <2> SUFFICES ASSUME SlotOf[rows[i].claim] = SlotOf[c] PROVE FALSE
    OBVIOUS
  <2>1. rows[i].status = "pending" /\ i \notin P!Replaced(w) BY <1>1, <1>4
  <2>2. i \in P!Open(SlotOf[c]) BY <1>1, <2>1 DEF P!Open
  <2>3. i = write[w].seen[SlotOf[c]] BY <1>3, <2>2 DEF P!Clash
  <2>4. i # 0 BY <1>1
  <2> QED BY <2>1, <2>3, <2>4 DEF P!Replaced
<1>5. OnePending'
  <2> SUFFICES ASSUME NEW i \in 1 .. n + m, NEW j \in 1 .. n + m,
                      rows'[i].status = "pending", rows'[j].status = "pending",
                      SlotOf[rows'[i].claim] = SlotOf[rows'[j].claim]
               PROVE  i = j
    BY <1>1 DEF OnePending
  <2>1. CASE i \in 1 .. n /\ j \in 1 .. n
    <3>1. rows[i].status = "pending" /\ rows[j].status = "pending" BY <1>1, <2>1
    <3> QED BY <1>1, <2>1, <3>1 DEF ProposalsInv, OnePending
  <2>2. CASE i \in 1 .. n /\ j > n BY <1>1, <1>4, <2>2
  <2>3. CASE j \in 1 .. n /\ i > n BY <1>1, <1>4, <2>3
  <2>4. CASE i > n /\ j > n
    <3>1. rows'[i].claim \in P!New(w) /\ rows'[j].claim \in P!New(w) BY <1>1, <2>4
    <3>2. rows'[i].claim = rows'[j].claim BY <1>2, <3>1 DEF OneEach
    <3> QED BY <1>1, <2>4, <3>2
  <2> QED BY <1>1, <2>1, <2>2, <2>3, <2>4
<1>6. /\ push' \in PushJob /\ push'.page = push.page
      /\ push.lock # w => push' = push
      /\ push.lock = w => push'.lock = None /\ push'.job = "queued"
  BY <1>3 DEF P!Freed, ProposalsInv, PushJob
<1>7. P!Off \in Writing /\ P!Off.claims = {} /\ P!Off.pc = "off" BY DEF P!Off, Writing
<1>8. /\ write' \in [Writers -> Writing]
      /\ \A v \in Writers : write'[v] = IF v = w THEN P!Off ELSE write[v]
  BY <1>3, <1>7 DEF ProposalsInv
<1>9. \A v \in Writers : v # "route" /\ write'[v].pc = "commit" => push'.lock = v
  BY <1>6, <1>7, <1>8 DEF ProposalsInv
<1>10. \A v \in Writers : OneEach(write'[v].claims) BY <1>7, <1>8 DEF ProposalsInv, OneEach
<1>11. push'.lock = "worker" => push'.job = "queued" BY <1>6, ProposalsAssumption DEF ProposalsInv
<1>12. active' \subseteq Claims
  <2>1. \A c \in write[w].claims : P!Winning(c) \subseteq Claims
    BY <1>2 DEF P!Winning, ProposalsInv, Writing
  <2> QED BY <1>3, <2>1 DEF ProposalsInv
<1>13. DOMAIN rows \subseteq DOMAIN rows' BY <1>1
<1>14. ProposalsInv'
  BY <1>1, <1>3, <1>5, <1>6, <1>8, <1>9, <1>10, <1>11, <1>12, <1>13 DEF ProposalsInv
<1>15. ASSUME Told PROVE Told'
  <2> SUFFICES ASSUME push'.job = "none", NEW i \in 1 .. n + m,
                      rows'[i].status = "pending", rows'[i].by # "route"
               PROVE  i \in told
    BY <1>1, <1>3 DEF Told
  <2>1. push' = push /\ push.lock # w BY <1>6
  <2>2. w = "route" BY <1>3, <2>1 DEF ProposalsInv
  <2>3. i \in 1 .. n BY <1>1, <2>2
  <2>4. rows[i].status = "pending" /\ rows[i].by # "route" BY <1>1, <2>3
  <2> QED BY <1>1, <1>15, <2>1, <2>3, <2>4 DEF Told
<1> QED BY <1>14, <1>15

\* Pending rows are no more than slots, so a page has them all.
LEMMA PageHasAll ==
  ASSUME ProposalsInv, IsFiniteSet(Slots), Cardinality(Slots) <= Page
  PROVE  \A i \in DOMAIN rows : rows[i].status = "pending" => i \in P!FirstPending
<1> DEFINE Q == {i \in DOMAIN rows : rows[i].status = "pending"}
           f == [i \in Q |-> SlotOf[rows[i].claim]]
<1>1. \A i \in Q : rows[i] \in Proposal BY DEF ProposalsInv
<1>2. f \in [Q -> Slots] BY <1>1, ProposalsAssumption DEF Proposal
<1>3. \A i, j \in Q : f[i] = f[j] => i = j BY DEF ProposalsInv, OnePending
<1>4. f \in Injection(Q, Slots) BY <1>2, <1>3 DEF Injection, IsInjective
<1>5. P!FirstPending = {i \in Q : Cardinality({j \in Q : j < i}) < Page}
  BY SameCardinality DEF P!FirstPending
<1>6. Q \subseteq Nat BY DEF ProposalsInv
<1> HIDE DEF f, Q
<1>7. IsFiniteSet(Q) /\ Cardinality(Q) <= Cardinality(Slots) BY <1>4, FS_Injection
<1>8. Cardinality(Q) \in Nat /\ Cardinality(Slots) \in Nat BY <1>7, FS_CardinalityType
<1>9. ASSUME NEW i \in Q PROVE i \in P!FirstPending
  <2> DEFINE R == {j \in Q : j < i}
  <2>1. R \in SUBSET Q /\ i \notin R BY <1>6
  <2> HIDE DEF R
  <2>2. IsFiniteSet(R) /\ Cardinality(R) <= Cardinality(Q) /\ Cardinality(R) # Cardinality(Q)
    BY <1>7, <1>9, <2>1, FS_Subset
  <2>3. Cardinality(R) \in Nat BY <2>2, FS_CardinalityType
  <2>4. Cardinality(R) < Page BY <1>7, <1>8, <2>2, <2>3, ProposalsAssumption
  <2> QED BY <1>5, <1>9, <2>4 DEF R
<1> QED BY <1>9 DEF Q

\* A push that is done has told all that is announced, where a page takes one row of each
\* slot.
LEMMA ToldPush ==
  ASSUME ProposalsInv, IsFiniteSet(Slots), Cardinality(Slots) <= Page, Told,
         P!PushLoad \/ P!Deliver \/ P!PushDone \/ \E j \in {"queued", "dead"} : P!PushFails(j)
  PROVE  Told'
<1>0. push \in PushJob BY DEF ProposalsInv
<1>1. CASE P!PushLoad
  <2>1. CASE P!FirstPending = {}
    <3>1. \A i \in DOMAIN rows : rows[i].status # "pending" BY <2>1, PageHasAll
    <3> QED BY <1>1, <3>1 DEF Told, P!PushLoad
  <2>2. CASE P!FirstPending # {}
    <3>1. push'.job = push.job BY <1>0, <1>1, <2>2 DEF P!PushLoad, PushJob
    <3> QED BY <1>1, <3>1 DEF Told, P!PushLoad
  <2> QED BY <2>1, <2>2
<1>2. CASE P!Deliver BY <1>2 DEF P!Deliver, Told
<1>3. CASE P!PushDone
  <2>1. push'.job = "none" => P!FirstPending \subseteq told BY <1>3 DEF P!PushDone
  <2> QED BY <1>3, <2>1, PageHasAll DEF Told, P!PushDone
<1>4. ASSUME NEW j \in {"queued", "dead"}, P!PushFails(j) PROVE Told'
  BY <1>4 DEF P!PushFails, Told
<1> QED BY <1>1, <1>2, <1>3, <1>4

\* Every step of the proposals keeps the invariants.
LEMMA ProposalsStep ==
  /\ ProposalsInv /\ (P!Next \/ UNCHANGED proposalVars) => ProposalsInv'
  /\ ProposalsInv /\ Told /\ IsFiniteSet(Slots) /\ Cardinality(Slots) <= Page
       /\ (P!Next \/ UNCHANGED proposalVars) => Told'
<1>1. CASE UNCHANGED proposalVars
  BY <1>1 DEF proposalVars, ProposalsInv, OnePending, Told
<1>2. CASE P!Next
  BY <1>2, ProposalsClaims, ProposalsPromote, ProposalsGenerate, ProposalsEnqueue, ProposalsCommit,
     ProposalsAbort, ProposalsPush, ToldPush, ProposalsDecide DEF P!Next
<1> QED BY <1>1, <1>2

\* Proposals have their types.
LEMMA ProposalsTypes == ProposalsInv => P!TypeOK
<1> SUFFICES ASSUME ProposalsInv PROVE P!TypeOK
  OBVIOUS
<1>1. \A i \in DOMAIN rows : rows[i] \in Proposal BY DEF ProposalsInv
<1> QED BY <1>1 DEF ProposalsInv, P!TypeOK, Proposal, PushJob

\* The invariants imply what the run checks.
LEMMA ProposalsUntold == ProposalsInv /\ Told => P!NothingUntold
<1> SUFFICES ASSUME ProposalsInv, Told PROVE P!NothingUntold
  OBVIOUS
<1>1. ASSUME NEW s \in Slots PROVE P!Cardinality(P!Open(s)) <= 1
  <2>1. \A i, j \in P!Open(s) : i = j BY DEF P!Open, ProposalsInv, OnePending
  <2>2. CASE P!Open(s) = {} BY <2>2, FS_EmptySet, SameCardinality
  <2>3. CASE P!Open(s) # {}
    <3>1. PICK i : P!Open(s) = {i} BY <2>1, <2>3
    <3>2. Cardinality({i}) = 1 BY FS_Singleton
    <3>3. P!Cardinality(P!Open(s)) = 1 BY <3>1, <3>2, SameCardinality
    <3> QED BY <3>3
  <2> QED BY <2>2, <2>3
<1> QED BY <1>1 DEF P!NothingUntold, Told

-----------------------------------------------------------------------------
(* Procedural memories                                                     *)

MemoryRow == [key : Keys, by : People, acl : SUBSET People, ev : SUBSET Docs,
              status : {"active", "superseded"}, next : Nat]
Creation == [pc : {"off", "call", "commit"}, key : Keys \cup {""}, by : People \cup {""},
             acl : SUBSET People, ev : SUBSET Docs, old : SUBSET Nat]

\* A row that is superseded leads to a later one of its key and creator; what a
\* creation will supersede has its key and creator.
MemoryInv ==
  /\ memories \in Seq(MemoryRow) /\ shown \in [People -> SUBSET Docs]
  /\ work \in [Requests -> Creation]
  /\ \A i \in DOMAIN memories : memories[i].status = "superseded" =>
       LET j == memories[i].next
       IN  /\ j > i /\ j \in DOMAIN memories
           /\ memories[j].key = memories[i].key /\ memories[j].by = memories[i].by
  /\ \A i \in DOMAIN memories : memories[i].next <= Len(memories)
  /\ \A r \in Requests : \A i \in work[r].old :
       i \in DOMAIN memories /\ memories[i].key = work[r].key /\ memories[i].by = work[r].by
  /\ \A r \in Requests : work[r].pc # "off" => work[r].key \in Keys /\ work[r].by \in People

\* A request that has not begun.
LEMMA MemoryOff == M!Off \in Creation /\ M!Off.old = {} /\ M!Off.pc = "off"
BY DEF M!Off, Creation

\* There is no memory at first.
LEMMA MemoryInit == M!Init => MemoryInv
<1> SUFFICES ASSUME M!Init PROVE MemoryInv
  OBVIOUS
<1>1. memories \in Seq(MemoryRow) /\ Len(memories) = 0 /\ DOMAIN memories = {}
  BY DEF M!Init
<1>2. shown \in [People -> SUBSET Docs] BY DEF M!Init
<1>3. work \in [Requests -> Creation] /\ \A r \in Requests : work[r] = M!Off
  BY MemoryOff DEF M!Init
<1> QED BY <1>1, <1>2, <1>3, MemoryOff DEF MemoryInv

\* A request begins.
LEMMA MemoryStart ==
  ASSUME MemoryInv, NEW r \in Requests, NEW p \in People, NEW k \in Keys,
         NEW acl \in SUBSET People, NEW ev \in SUBSET Docs, M!Start(r, p, k, acl, ev)
  PROVE  MemoryInv'
BY DEF MemoryInv, M!Start, M!Off, Creation

\* A step that leaves the rows alone and gives r the creation t.
LEMMA MemoryGoesOn ==
  ASSUME MemoryInv, NEW r \in Requests, NEW t \in Creation,
         memories' = memories, shown' = shown, work' = [work EXCEPT ![r] = t],
         t.pc # "off" => t.key \in Keys /\ t.by \in People,
         \A i \in t.old : i \in DOMAIN memories /\ memories[i].key = t.key /\ memories[i].by = t.by
  PROVE  MemoryInv'
BY DEF MemoryInv

\* It inserts its row and reads those it will supersede.
LEMMA MemoryInsert ==
  ASSUME MemoryInv, NEW r \in Requests, M!Insert(r)
  PROVE  MemoryInv'
<1> DEFINE A == M!ActiveForKey(work[r].key, work[r].by)
           t == [work[r] EXCEPT !.pc = "commit", !.old = A]
<1>1. work[r] \in Creation /\ A \subseteq DOMAIN memories /\ DOMAIN memories \subseteq Nat
  BY DEF MemoryInv, M!ActiveForKey
<1>2. \A i \in A : memories[i].key = work[r].key /\ memories[i].by = work[r].by
  BY DEF M!ActiveForKey
<1>3. work' = [work EXCEPT ![r] = t] /\ memories' = memories /\ shown' = shown
  BY DEF M!Insert
<1>4. work[r].key \in Keys /\ work[r].by \in People BY DEF M!Insert, MemoryInv
<1> HIDE DEF A
<1>5. t \in Creation /\ t.key = work[r].key /\ t.by = work[r].by /\ t.old = A
  BY <1>1 DEF Creation
<1> HIDE DEF t
<1> QED BY <1>1, <1>2, <1>3, <1>4, <1>5, MemoryGoesOn

\* It fails.
LEMMA MemoryFail ==
  ASSUME MemoryInv, NEW r \in Requests, M!Fail(r)
  PROVE  MemoryInv'
BY MemoryOff, MemoryGoesOn DEF M!Fail

\* The rows after a commit of r: the new one, those it supersedes, the others.
LEMMA CommittedRows ==
  ASSUME MemoryInv, NEW r \in Requests, M!Commit(r)
  PROVE  LET n == Len(memories)
         IN  /\ n \in Nat /\ DOMAIN memories = 1 .. n
             /\ memories' \in Seq(MemoryRow) /\ Len(memories') = n + 1
             /\ DOMAIN memories' = 1 .. n + 1
             /\ memories'[n + 1].status = "active" /\ memories'[n + 1].next = 0
             /\ memories'[n + 1].key = work[r].key /\ memories'[n + 1].by = work[r].by
             /\ \A i \in 1 .. n : /\ memories'[i].key = memories[i].key
                                  /\ memories'[i].by = memories[i].by
                                  /\ i \in work[r].old => memories'[i].next = n + 1
                                  /\ i \notin work[r].old => memories'[i] = memories[i]
<1> DEFINE n == Len(memories)
           new == [key |-> work[r].key, by |-> work[r].by, acl |-> work[r].acl,
                   ev |-> work[r].ev, status |-> "active", next |-> 0]
           lost(i) == [memories[i] EXCEPT !.status = "superseded", !.next = n + 1]
           old == [i \in DOMAIN memories |-> IF i \in work[r].old THEN lost(i) ELSE memories[i]]
<1>1. n \in Nat /\ DOMAIN memories = 1 .. n BY DEF MemoryInv
<1>2. \A i \in 1 .. n : memories[i] \in MemoryRow BY <1>1 DEF MemoryInv
<1>3. new \in MemoryRow /\ new.status = "active" /\ new.next = 0 /\ new.key = work[r].key
      /\ new.by = work[r].by
  <2>1. work[r] \in Creation /\ work[r].key \in Keys /\ work[r].by \in People
    BY DEF MemoryInv, M!Commit
  <2> QED BY <2>1 DEF MemoryRow, Creation
<1>4. \A i \in 1 .. n : /\ lost(i) \in MemoryRow /\ lost(i).next = n + 1
                        /\ lost(i).key = memories[i].key /\ lost(i).by = memories[i].by
  <2>1. ASSUME NEW row0 \in MemoryRow, NEW k \in Nat
        PROVE  LET x == [row0 EXCEPT !.status = "superseded", !.next = k]
               IN x \in MemoryRow /\ x.next = k /\ x.key = row0.key /\ x.by = row0.by
    BY DEF MemoryRow
  <2>2. n + 1 \in Nat BY <1>1
  <2> QED BY <1>2, <2>1, <2>2
<1>5. memories' = Append(old, new) BY DEF M!Commit
<1> HIDE DEF new, lost
<1>6. old \in [1 .. n -> MemoryRow] BY <1>1, <1>2, <1>4
<1>7. old \in Seq(MemoryRow) /\ Len(old) = n /\ DOMAIN old = 1 .. n BY <1>1, <1>6
<1>8. \A i \in 1 .. n : old[i] = IF i \in work[r].old THEN lost(i) ELSE memories[i]
  BY <1>1
<1> HIDE DEF old
<1>9. /\ Append(old, new) \in Seq(MemoryRow) /\ Len(Append(old, new)) = n + 1
      /\ \A i \in 1 .. n : Append(old, new)[i] = old[i]
      /\ Append(old, new)[n + 1] = new
  BY <1>3, <1>7
<1>10. DOMAIN memories' = 1 .. n + 1 BY <1>5, <1>9
<1> QED BY <1>1, <1>3, <1>4, <1>5, <1>8, <1>9, <1>10

\* It commits: what it supersedes leads to its row, which is later.
LEMMA MemoryCommit ==
  ASSUME MemoryInv, NEW r \in Requests, M!Commit(r)
  PROVE  MemoryInv'
<1> DEFINE n == Len(memories)
<1>1. /\ n \in Nat /\ DOMAIN memories = 1 .. n
      /\ memories' \in Seq(MemoryRow) /\ Len(memories') = n + 1 /\ DOMAIN memories' = 1 .. n + 1
      /\ memories'[n + 1].status = "active" /\ memories'[n + 1].next = 0
      /\ memories'[n + 1].key = work[r].key /\ memories'[n + 1].by = work[r].by
  BY CommittedRows
<1>2. ASSUME NEW i \in 1 .. n
      PROVE  /\ memories'[i].key = memories[i].key
             /\ memories'[i].by = memories[i].by
             /\ i \in work[r].old => memories'[i].next = n + 1
             /\ i \notin work[r].old => memories'[i] = memories[i]
  BY CommittedRows
<1> HIDE DEF n
<1>3. work' = [work EXCEPT ![r] = M!Off] /\ shown' = shown BY DEF M!Commit
<1>4. /\ \A q \in Requests : work'[q] = IF q = r THEN M!Off ELSE work[q]
      /\ work' \in [Requests -> Creation]
  BY <1>3, MemoryOff DEF MemoryInv
<1>5. ASSUME NEW i \in 1 .. n + 1, memories'[i].status = "superseded"
      PROVE LET j == memories'[i].next
            IN  /\ j > i /\ j \in 1 .. n + 1
                /\ memories'[j].key = memories'[i].key /\ memories'[j].by = memories'[i].by
  <2>1. i \in 1 .. n BY <1>1, <1>5
  <2>2. CASE i \in work[r].old
    <3>1. memories[i].key = work[r].key /\ memories[i].by = work[r].by
      BY <2>2 DEF MemoryInv
    <3> QED BY <1>1, <1>2, <2>1, <2>2, <3>1
  <2>3. CASE i \notin work[r].old
    <3> DEFINE j == memories[i].next
    <3>1. memories'[i] = memories[i] BY <1>2, <2>1, <2>3
    <3>2. j > i /\ j \in 1 .. n /\ memories[j].key = memories[i].key /\ memories[j].by = memories[i].by
      BY <1>1, <1>5, <2>1, <3>1 DEF MemoryInv
    <3> HIDE DEF j
    <3>3. memories'[j].key = memories[j].key /\ memories'[j].by = memories[j].by
      BY <1>2, <3>2
    <3>4. j \in 1 .. n + 1 BY <1>1, <3>2
    <3> QED BY <3>1, <3>2, <3>3, <3>4 DEF j
  <2> QED BY <2>2, <2>3
<1>6. ASSUME NEW i \in 1 .. n + 1 PROVE memories'[i].next <= n + 1
  <2>1. CASE i \in 1 .. n /\ i \notin work[r].old
    <3>1. memories[i] \in MemoryRow /\ memories[i].next <= n
      BY <1>1, <2>1 DEF MemoryInv, n
    <3> QED BY <1>1, <1>2, <2>1, <3>1 DEF MemoryRow
  <2>2. CASE i \in 1 .. n /\ i \in work[r].old BY <1>1, <1>2, <2>2
  <2>3. CASE i = n + 1 BY <1>1, <2>3
  <2> QED BY <1>1, <2>1, <2>2, <2>3
<1>7. ASSUME NEW q \in Requests, NEW i \in work'[q].old
      PROVE i \in 1 .. n + 1 /\ memories'[i].key = work'[q].key /\ memories'[i].by = work'[q].by
  <2>1. q # r /\ work'[q] = work[q] BY <1>4, <1>7, MemoryOff
  <2>2. i \in 1 .. n /\ memories[i].key = work[q].key /\ memories[i].by = work[q].by
    BY <1>1, <1>7, <2>1 DEF MemoryInv
  <2> QED BY <1>1, <1>2, <2>1, <2>2
<1>8. ASSUME NEW q \in Requests, work'[q].pc # "off"
      PROVE work'[q].key \in Keys /\ work'[q].by \in People
  <2>1. q # r /\ work'[q] = work[q] BY <1>4, <1>8, MemoryOff
  <2> QED BY <1>8, <2>1 DEF MemoryInv
<1>9. shown' \in [People -> SUBSET Docs] BY <1>3 DEF MemoryInv
<1> QED BY <1>1, <1>4, <1>5, <1>6, <1>7, <1>8, <1>9 DEF MemoryInv

\* Documents are shown or hidden.
LEMMA MemoryPermit ==
  ASSUME MemoryInv, NEW p \in People, NEW d \in Docs, M!Permit(p, d)
  PROVE  MemoryInv'
BY DEF MemoryInv, M!Permit

\* Every step of the memories keeps the invariant.
LEMMA MemoryStep == MemoryInv /\ (M!Next \/ UNCHANGED memoryVars) => MemoryInv'
<1>1. CASE UNCHANGED memoryVars BY <1>1 DEF MemoryInv, memoryVars
<1>2. CASE M!Next
  BY <1>2, MemoryStart, MemoryInsert, MemoryFail, MemoryCommit, MemoryPermit DEF M!Next
<1> QED BY <1>1, <1>2

\* The last memory of a key and creator is not superseded, since it would lead to a
\* later one.
LEMMA MemoryLast == MemoryInv => M!LastIsRecalled
<1> SUFFICES ASSUME MemoryInv, NEW i \in DOMAIN memories
             PROVE
    LET like(j) == memories[j].key = memories[i].key /\ memories[j].by = memories[i].by
    IN  /\ (\A j \in DOMAIN memories : j > i => ~like(j)) =>
             \A p \in memories[i].acl : memories[i].ev \subseteq shown[p] => i \in M!Recall(p)
        /\ memories[i].status = "superseded" => memories[i].next > i /\ like(memories[i].next)
  BY DEF M!LastIsRecalled
<1> DEFINE like(j) == memories[j].key = memories[i].key /\ memories[j].by = memories[i].by
<1>1. memories[i].status = "superseded" =>
        memories[i].next \in DOMAIN memories /\ memories[i].next > i /\ like(memories[i].next)
  BY DEF MemoryInv
<1>2. memories[i].status \in {"active", "superseded"}
  <2>1. memories[i] \in MemoryRow BY DEF MemoryInv
  <2> QED BY <2>1 DEF MemoryRow
<1>3. ASSUME \A j \in DOMAIN memories : j > i => ~like(j), NEW p \in memories[i].acl,
             memories[i].ev \subseteq shown[p]
      PROVE  i \in M!Recall(p)
  BY <1>1, <1>2, <1>3 DEF M!Recall
<1> QED BY <1>1, <1>3

\* The memories have their types.
LEMMA MemoryTyped == MemoryInv => M!TypeOK
<1> SUFFICES ASSUME MemoryInv PROVE M!TypeOK
  OBVIOUS
<1>1. \A i \in DOMAIN memories : memories[i] \in MemoryRow BY DEF MemoryInv
<1>2. \A i \in DOMAIN memories : memories[i].status \in {"active", "superseded"}
  BY <1>1 DEF MemoryRow
<1> QED BY <1>2 DEF MemoryInv, M!TypeOK

-----------------------------------------------------------------------------
(* The whole                                                               *)

\* Each part keeps its invariant while a behaviour is of that part.
UpkeepInv ==
  /\ part \in Parts
  /\ part = "spend" => SpendInv
  /\ part = "windows" => WindowsInv
  /\ part = "retention" => RetentionInv
  /\ part = "proposals" => ProposalsInv
  /\ part = "memory" => MemoryInv

\* A behaviour begins in the initial state of its part.
LEMMA UpkeepInit == Init => UpkeepInv /\ (part = "proposals" => Told)
BY SpendInit, WindowsInit, RetentionInit, ProposalsInit, MemoryInit DEF Init, UpkeepInv

\* A step is one of the running part, or none.
LEMMA PartSteps ==
  ASSUME [Next]_vars
  PROVE  /\ part' = part
         /\ part = "spend" => S!Next \/ UNCHANGED spendVars
         /\ part = "windows" => W!Next \/ UNCHANGED windowVars
         /\ part = "retention" => H!Next \/ UNCHANGED retentionVars
         /\ part = "proposals" => P!Next \/ UNCHANGED proposalVars
         /\ part = "memory" => M!Next \/ UNCHANGED memoryVars
BY DEF Next, vars

\* Every step keeps the invariant.
LEMMA UpkeepStep == UpkeepInv /\ [Next]_vars => UpkeepInv'
<1> SUFFICES ASSUME UpkeepInv, [Next]_vars PROVE UpkeepInv'
  OBVIOUS
<1>1. part' = part BY PartSteps
<1>2. part = "spend" => SpendInv' BY PartSteps, SpendStep DEF UpkeepInv
<1>3. part = "windows" => WindowsInv' BY PartSteps, WindowsStep DEF UpkeepInv
<1>4. part = "retention" => RetentionInv' BY PartSteps, RetentionStep DEF UpkeepInv
<1>5. part = "proposals" => ProposalsInv' BY PartSteps, ProposalsStep DEF UpkeepInv
<1>6. part = "memory" => MemoryInv' BY PartSteps, MemoryStep DEF UpkeepInv
<1> QED BY <1>1, <1>2, <1>3, <1>4, <1>5, <1>6 DEF UpkeepInv

\* The variables of the running part keep their types: ledger, locks and calls, the text
\* and its extraction job, holds and the purge, proposal rows and the push, memories.
THEOREM TypeCorrect == Spec => []TypeOK
<1>1. UpkeepInv => TypeOK
  BY PartsAssumption, SpendTyped, WindowsTyped, RetentionTypes, ProposalsTypes, MemoryTyped
     DEF UpkeepInv, TypeOK
<1> QED BY <1>1, UpkeepInit, UpkeepStep, PTL DEF Spec

\* However many calls of whatever kinds run at once, fail, crash and are tried again, the
\* month's ledger never passes the hard limit, since sum and row are read and written under
\* one lock; and what a call other than an embedding keeps is on the ledger at its cost.
THEOREM Limited == Spec => []WithinLimit
<1>1. UpkeepInv => WithinLimit BY SpendLimited DEF UpkeepInv, WithinLimit
<1> QED BY <1>1, UpkeepInit, UpkeepStep, PTL DEF Spec

\* For texts of any length and windows and overlaps of any size: a finished extraction,
\* through whatever failures, crashes and edits, cites exactly what was found in the present
\* text, every word of which a window has shown; and one under way cites no former text.
THEOREM TextFollowed == Spec => []FactsOfText
<1>1. UpkeepInv => FactsOfText BY WindowsComplete DEF UpkeepInv, FactsOfText
<1> QED BY <1>1, UpkeepInit, UpkeepStep, PTL DEF Spec

\* A purge of any number of documents never erases one that has been under a hold, of its
\* own, its source or a person, since before the purge began.
THEOREM HeldKept == Spec => HeldIsKept
<1>1. UpkeepInv /\ [Next]_vars => [part = "retention" => H!HeldIsKept]_vars
  BY PartSteps, RetentionStep DEF UpkeepInv
<1> QED BY <1>1, UpkeepInit, UpkeepStep, PTL DEF Spec, HeldIsKept

\* Where a page of the push takes a row of every slot, a push that is done has told the
\* host every announced proposal that is still pending, and a slot has one of them.
THEOREM Announced ==
  IsFiniteSet(Slots) /\ Cardinality(Slots) <= Page => (Spec => []NothingUntold)
<1> SUFFICES ASSUME IsFiniteSet(Slots), Cardinality(Slots) <= Page PROVE Spec => []NothingUntold
  OBVIOUS
<1> DEFINE Inv == UpkeepInv /\ (part = "proposals" => Told)
<1>1. Init => Inv BY UpkeepInit
<1>2. Inv /\ [Next]_vars => Inv'
  <2> SUFFICES ASSUME Inv, [Next]_vars PROVE Inv'
    OBVIOUS
  <2>1. part' = part BY PartSteps
  <2>2. part = "proposals" => Told' BY PartSteps, ProposalsStep DEF UpkeepInv
  <2> QED BY <2>1, <2>2, UpkeepStep
<1>3. Inv => NothingUntold BY ProposalsUntold DEF UpkeepInv, NothingUntold
<1> QED BY <1>1, <1>2, <1>3, PTL DEF Spec

\* Whatever concurrent requests for one key do, the last memory of a key and creator is
\* active and can be recalled by those who may see it and its evidence.
THEOREM Recalled == Spec => []LastIsRecalled
<1>1. UpkeepInv => LastIsRecalled BY MemoryLast DEF UpkeepInv, LastIsRecalled
<1> QED BY <1>1, UpkeepInit, UpkeepStep, PTL DEF Spec
=============================================================================
