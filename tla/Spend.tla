-------------------------------- MODULE Spend --------------------------------
(***************************************************************************)
(* The token ledger and the vendor calls it meters.  Every use of the      *)
(* ledger is a short transaction that takes the workspace's advisory lock, *)
(* sums the current month and then refuses or writes.  Four kinds of       *)
(* callers:                                                                *)
(*   asked   search, temporal assist: gate, call, record                   *)
(*   plain   memories, adjudication, profiles: call, record                *)
(*   window  extraction: gate, call, record in the window's transaction    *)
(*   embed   chunk vectors: reserve, call, check the text again, finalize  *)
(***************************************************************************)
EXTENDS Integers, Sequences, FiniteSets

CONSTANTS
  Calls,
  Kind,       \* kind of each call
  Limit,      \* spend_hard_limit_tokens_monthly
  Estimate,   \* tokens an embed call reserves
  Tokens,     \* what a vendor may charge
  None,
  MaxTries,   \* bound: tries of one call
  LastMonth   \* bound: months

VARIABLES
  month,
  ledger,  \* rows of spend_ledger: call, month and tokens
  lock,    \* holder of the advisory lock
  pc,
  seen,    \* the month's sum a transaction has read
  cost,    \* tokens the vendor charged for the running try
  row,     \* index of the reservation of the running try
  kept,    \* calls whose result is stored or returned
  tries

vars == <<month, ledger, lock, pc, seen, cost, row, kept, tries>>

\* What rows q of the ledger add up to in month m.
Booked(q, m) ==
  LET sum[n \in 0 .. Len(q)] ==
        IF n = 0 THEN 0 ELSE sum[n - 1] + IF q[n].month = m THEN q[n].tokens ELSE 0
  IN  sum[Len(q)]
\* tokens_used_this_month
Used == Booked(ledger, month)

Entry(c, n) == [call |-> c, month |-> month, tokens |-> n]
\* Plain calls ask nobody before they pay.
Begin(c) == IF Kind[c] = "plain" THEN "cleared" ELSE "start"

Init ==
  /\ month = 1 /\ ledger = <<>> /\ lock = None
  /\ pc = [c \in Calls |-> Begin(c)] /\ tries = [c \in Calls |-> 1]
  /\ seen = [c \in Calls |-> 0] /\ cost = [c \in Calls |-> 0]
  /\ row = [c \in Calls |-> 0] /\ kept = {}

Goto(c, l) == pc' = [pc EXCEPT ![c] = l]

\* A transaction of the ledger may begin ...
Unlocked(c) == pc[c] \in {"start", "called"}
\* ... under _lock_workspace_spend.
Locked(c) == pc[c] \in {"start", "called"} /\ lock = None

Enter(c) ==
  /\ Locked(c)
  /\ lock' = c /\ seen' = [seen EXCEPT ![c] = Used]
  /\ Goto(c, IF pc[c] = "start" THEN "gate" ELSE "book")
  /\ UNCHANGED <<month, ledger, cost, row, kept, tries>>

\* assert_under_hard_limit, or reserve: the estimate is committed.
Gate(c) ==
  LET reserves == Kind[c] = "embed"
      refused == IF reserves THEN seen[c] + Estimate > Limit ELSE seen[c] >= Limit
  IN  /\ pc[c] = "gate"
      /\ IF refused THEN Goto(c, "failed") /\ UNCHANGED <<ledger, row>>
         ELSE /\ Goto(c, "cleared")
              /\ ledger' = IF reserves THEN Append(ledger, Entry(c, Estimate)) ELSE ledger
              /\ row' = [row EXCEPT ![c] = IF reserves THEN Len(ledger) + 1 ELSE 0]
      /\ lock' = None
      /\ UNCHANGED <<month, seen, cost, kept, tries>>

\* The vendor answers, and charges; or he fails.
Call(c) ==
  /\ pc[c] = "cleared"
  /\ \/ \E n \in Tokens : cost' = [cost EXCEPT ![c] = n] /\ Goto(c, "called")
     \/ Goto(c, "failed") /\ UNCHANGED cost
  /\ UNCHANGED <<month, ledger, lock, seen, row, kept, tries>>

\* The text changed during an embed call, whose estimate stays in the ledger, or
\* the answer for a window cannot be applied.
Unusable(c) ==
  /\ pc[c] = "called" /\ Kind[c] \in {"embed", "window"}
  /\ Goto(c, "failed")
  /\ UNCHANGED <<month, ledger, lock, seen, cost, row, kept, tries>>

\* record: refused tokens have been paid and are not recorded.  The answer to
\* an asked or a plain call may prove unusable after it was recorded.
Record(c) ==
  IF seen[c] + cost[c] > Limit
  THEN Goto(c, "failed") /\ UNCHANGED <<ledger, kept>>
  ELSE /\ ledger' = Append(ledger, Entry(c, cost[c]))
       /\ \/ Goto(c, "done") /\ kept' = kept \cup {c}
          \/ Kind[c] # "window" /\ Goto(c, "failed") /\ UNCHANGED kept

\* finalize_reservation: if it refuses, the estimate stays; the vectors have
\* been assigned before, and mark_failed commits them.
Finalize(c) ==
  /\ kept' = kept \cup {c}
  /\ IF seen[c] - ledger[row[c]].tokens + cost[c] > Limit
     THEN Goto(c, "failed") /\ UNCHANGED ledger
     ELSE Goto(c, "done") /\ ledger' = [ledger EXCEPT ![row[c]].tokens = cost[c]]

Book(c) ==
  /\ pc[c] = "book"
  /\ IF Kind[c] = "embed" THEN Finalize(c) ELSE Record(c)
  /\ lock' = None
  /\ UNCHANGED <<month, seen, cost, row, tries>>

\* A process dies: its transaction is rolled back and the lock is free.
Crash(c) ==
  /\ pc[c] \in {"gate", "cleared", "called", "book"}
  /\ Goto(c, "failed") /\ lock' = IF lock = c THEN None ELSE lock
  /\ UNCHANGED <<month, ledger, seen, cost, row, kept, tries>>

\* The queue or the caller tries again; vectors that are there need no call.
Retry(c) ==
  /\ pc[c] = "failed" /\ tries[c] < MaxTries
  /\ Goto(c, IF c \in kept THEN "done" ELSE Begin(c))
  /\ tries' = [tries EXCEPT ![c] = @ + 1]
  /\ cost' = [cost EXCEPT ![c] = 0] /\ row' = [row EXCEPT ![c] = 0]
  /\ UNCHANGED <<month, ledger, lock, seen, kept>>

NewMonth ==
  /\ month < LastMonth
  /\ month' = month + 1
  /\ UNCHANGED <<ledger, lock, pc, seen, cost, row, kept, tries>>

Next ==
  \/ \E c \in Calls : Enter(c) \/ Gate(c) \/ Call(c) \/ Unusable(c) \/ Book(c)
                        \/ Crash(c) \/ Retry(c)
  \/ NewMonth

Spec == Init /\ [][Next]_vars

TypeOK ==
  /\ month \in 1 .. LastMonth /\ lock \in Calls \cup {None}
  /\ ledger \in Seq([call : Calls, month : 1 .. LastMonth, tokens : Nat])
  /\ pc \in [Calls -> {"start", "gate", "cleared", "called", "book", "done", "failed"}]
  /\ \A c \in Calls : row[c] \in 0 .. Len(ledger)
  /\ kept \subseteq Calls /\ tries \in [Calls -> 1 .. MaxTries]

-----------------------------------------------------------------------------
(* Properties                                                              *)

\* However the checks and the writes of concurrent calls fall, the current
\* month's ledger never passes the hard limit, and what a call other than an
\* embedding has kept is in the ledger at its cost.
WithinLimit ==
  /\ Used <= Limit
  /\ \A c \in kept : Kind[c] # "embed" => cost[c] \in
       {ledger[i].tokens : i \in {j \in DOMAIN ledger : ledger[j].call = c}}

\* The same of every month.
EveryMonthWithinLimit == \A m \in 1 .. LastMonth : Booked(ledger, m) <= Limit

\* Paid work that is kept is on the ledger with what it cost.
KeptIsRecorded ==
  \A c \in kept : \E i \in DOMAIN ledger :
    ledger[i].call = c /\ ledger[i].tokens >= cost[c]

\* Of every step: no new vendor call is made in a month whose ledger has
\* reached the limit.
HardStop ==
  \A c \in Calls : pc[c] = "cleared" /\ pc'[c] = "called" /\ Kind[c] = "plain"
    => Used < Limit
=============================================================================
