-------------------------------- MODULE Upkeep --------------------------------
(***************************************************************************)
(* What runs beside ingest, in one specification: the token ledger (Spend),*)
(* windowed extraction (Windows), retention and legal holds (Retention),   *)
(* proposals to the host (Proposals) and procedural memories (Memory).     *)
(* They share documents and people but none of their state.  A behaviour   *)
(* is one of the part it begins with; the variables of the others stay     *)
(* idle.                                                                   *)
(***************************************************************************)
EXTENDS Integers, Sequences, FiniteSets

CONSTANTS
  Parts,         \* the parts a behaviour may be of
  None, Docs, People,
  Calls, Kind, Limit, Estimate, Tokens, MaxTries, LastMonth,           \* Spend
  Texts, Target, Overlap, Structured, MaxAttempts, MaxEdits,           \* Windows
  SourceOf, Batch, MaxVersions,                                        \* Retention
  Slots, Claims, SlotOf, Writers, By, Weak, Evidence, Page, MaxRows,   \* Proposals
  Keys, Requests, MaxMemories                                          \* Memory

VARIABLES part, month, ledger, lock, pc, seen, cost, row, kept, tries,
          text, past, job, applied, cited, docs, store, holds, purge, early,
          active, rows, told, write, decide, push, memories, shown, work

S == INSTANCE Spend
W == INSTANCE Windows
H == INSTANCE Retention
P == INSTANCE Proposals
M == INSTANCE Memory WITH rows <- memories

ASSUME PartsAssumption == Parts \subseteq {"spend", "windows", "retention", "proposals", "memory"}
ASSUME SpendAssumption ==
  /\ Kind \in [Calls -> {"asked", "plain", "window", "embed"}] /\ None \notin Calls
  /\ Limit \in Nat /\ Estimate \in Nat /\ Tokens \subseteq Nat
  /\ MaxTries \in Nat \ {0} /\ LastMonth \in Nat \ {0}
\* A text is a sequence of sequences of words.
ASSUME WindowsAssumption ==
  /\ \A t \in Texts : t \in Seq(Seq(W!Words(t)))
  /\ Target \in Nat /\ Overlap \in Nat /\ MaxAttempts \in Nat \ {0} /\ MaxEdits \in Nat
ASSUME RetentionAssumption == MaxVersions \in Nat \ {0}
ASSUME ProposalsAssumption ==
  /\ Claims \subseteq Nat /\ IsFiniteSet(Claims) /\ SlotOf \in [Claims -> Slots]
  /\ By \in [Claims -> {"structured", "promote", "extraction", "untyped"}]
  /\ Evidence \in [Claims -> Nat]
  /\ Writers \subseteq {"job", "route", "agent"}
  /\ None \notin {"job", "route", "agent", "worker"} /\ Page \in Nat

-----------------------------------------------------------------------------
spendVars == <<month, ledger, lock, pc, seen, cost, row, kept, tries>>
windowVars == <<text, past, job, applied, cited>>
retentionVars == <<docs, store, holds, purge, early>>
proposalVars == <<active, rows, told, write, decide, push>>
memoryVars == <<memories, shown, work>>

SpendIdle ==
  /\ month = <<>> /\ ledger = <<>> /\ lock = <<>> /\ pc = <<>> /\ seen = <<>>
  /\ cost = <<>> /\ row = <<>> /\ kept = <<>> /\ tries = <<>>
WindowsIdle == text = <<>> /\ past = <<>> /\ job = <<>> /\ applied = <<>> /\ cited = <<>>
RetentionIdle == docs = <<>> /\ store = <<>> /\ holds = <<>> /\ purge = <<>> /\ early = <<>>
ProposalsIdle ==
  /\ active = <<>> /\ rows = <<>> /\ told = <<>> /\ write = <<>> /\ decide = <<>> /\ push = <<>>
MemoryIdle == memories = <<>> /\ shown = <<>> /\ work = <<>>

Init ==
  /\ part \in Parts
  /\ IF part = "spend" THEN S!Init ELSE SpendIdle
  /\ IF part = "windows" THEN W!Init ELSE WindowsIdle
  /\ IF part = "retention" THEN H!Init ELSE RetentionIdle
  /\ IF part = "proposals" THEN P!Init ELSE ProposalsIdle
  /\ IF part = "memory" THEN M!Init ELSE MemoryIdle

Next ==
  \/ part = "spend" /\ S!Next /\ UNCHANGED <<part, windowVars, retentionVars, proposalVars, memoryVars>>
  \/ part = "windows" /\ W!Next /\ UNCHANGED <<part, spendVars, retentionVars, proposalVars, memoryVars>>
  \/ part = "retention" /\ H!Next /\ UNCHANGED <<part, spendVars, windowVars, proposalVars, memoryVars>>
  \/ part = "proposals" /\ P!Next /\ UNCHANGED <<part, spendVars, windowVars, retentionVars, memoryVars>>
  \/ part = "memory" /\ M!Next /\ UNCHANGED <<part, spendVars, windowVars, retentionVars, proposalVars>>

vars == <<part, spendVars, windowVars, retentionVars, proposalVars, memoryVars>>
Spec == Init /\ [][Next]_vars

\* The variables of the running part have their types.
TypeOK ==
  CASE part = "spend" -> S!TypeOK
    [] part = "windows" -> W!TypeOK
    [] part = "retention" -> H!TypeOK
    [] part = "proposals" -> P!TypeOK
    [] OTHER -> M!TypeOK

-----------------------------------------------------------------------------
(* The properties of the parts, stated and explained in their modules       *)

\* Concurrent calls keep the ledger within the month's limit.
WithinLimit == part = "spend" => S!WithinLimit
\* A finished extraction cites the document for its present text and no other.
FactsOfText == part = "windows" => W!FactsOfText
\* A purge spares what has been on hold since it began.
HeldIsKept == [][part = "retention" => H!HeldIsKept]_vars
\* A finished push has told the host every announced proposal.
NothingUntold == part = "proposals" => P!NothingUntold
\* The last memory of a key can be recalled.
LastIsRecalled == part = "memory" => M!LastIsRecalled

-----------------------------------------------------------------------------
(* What the code departs from                                               *)

\* No month's ledger passes the limit.
EveryMonthWithinLimit == part = "spend" => S!EveryMonthWithinLimit
\* Paid work that is kept is on the ledger.
KeptIsRecorded == part = "spend" => S!KeptIsRecorded
\* A month at its limit pays for no further call.
HardStop == [][part = "spend" => S!HardStop]_vars
\* FactsOfText for contents that return.
FactsOfReturningText == part = "windows" => W!FactsOfReturningText
\* FactsOfText for facts that a structured field states too.
FactsOfSharedText == part = "windows" => W!FactsOfSharedText
\* A hold in force spares its documents, whenever it was placed.
HeldIsAlwaysKept == [][part = "retention" => H!HeldIsAlwaysKept]_vars
\* A hold on a person covers the documents he was observed in.
ObservedIsKept == [][part = "retention" => H!ObservedIsKept]_vars
\* A purge erases expired documents only.
FreshIsKept == [][part = "retention" => H!FreshIsKept]_vars
\* A document with its text has its archived envelope.
TextIsArchived == part = "retention" => H!TextIsArchived
\* A purge that erases nothing has nothing left to erase.
PurgeMovesOn == [][part = "retention" => H!PurgeMovesOn]_vars
\* A decision is not undone.
DecisionStands == [][part = "proposals" => P!DecisionStands]_vars
\* What was decided is not proposed again.
NeverAskedTwice == part = "proposals" => P!NeverAskedTwice
\* What is proposed is an active claim.
PendingIsActive == [][part = "proposals" => P!PendingIsActive]_vars
\* A key of a creator has one active memory.
OneActivePerKey == part = "memory" => M!OneActivePerKey
=============================================================================
