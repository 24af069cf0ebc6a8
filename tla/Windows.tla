------------------------------- MODULE Windows -------------------------------
(***************************************************************************)
(* Extraction of one document, window by window: ExtractionService, the    *)
(* job handle_extract_graph around it and the windows it remembers.        *)
(*                                                                         *)
(* A text is a sequence of paragraphs, a paragraph a sequence of words; a  *)
(* fact is the word that states it, so that a quote is supported by a      *)
(* window when the word is in it.  An ingest of new content waits for the  *)
(* job it folds into, so the text does not change while a worker runs.     *)
(***************************************************************************)
EXTENDS Naturals, Sequences, FiniteSets, Functions

CONSTANTS
  Texts,        \* the contents the document may have
  Target,       \* _WINDOW_TARGET_CHARS, in words
  Overlap,      \* _WINDOW_OVERLAP_CHARS, in words
  Structured,   \* facts that a structured field of another document states
  MaxAttempts,
  MaxEdits      \* bound: ingests of new content

VARIABLES
  text,      \* rendered_text
  past,      \* history: the contents the document has had
  job,       \* state, attempts and progress of the extraction job
  applied,   \* extraction_windows: what was parsed for <<text, index>>
  cited      \* facts whose evidence names the document

vars == <<text, past, job, applied, cited>>

Idle == [state |-> "none", attempts |-> 0, next |-> 0]
Pending(n) == [state |-> "pending", attempts |-> n, next |-> 0]
Words(t) == UNION {Range(t[i]) : i \in DOMAIN t}

-----------------------------------------------------------------------------
(* split_windows                                                           *)

LastWords(n, s) == SubSeq(s, IF Len(s) > n THEN Len(s) - n + 1 ELSE 1, Len(s))
\* One paragraph: the window is full, or not.
AddParagraph(st, para) ==
  LET full == st.current # <<>> /\ Len(st.current) + Len(para) > Target
  IN  [windows |-> IF full THEN Append(st.windows, st.current) ELSE st.windows,
       current |-> (IF full THEN LastWords(Overlap, st.current) ELSE st.current) \o para]
\* The windows that n paragraphs have filled, and the one under way.
Filled(t) ==
  LET st[n \in 0 .. Len(t)] == IF n = 0 THEN [windows |-> <<>>, current |-> <<>>]
                               ELSE AddParagraph(st[n - 1], t[n])
  IN  st
\* No window for no text, and one for a text that fits.
SplitWindows(t) ==
  IF t = <<>> THEN <<>> ELSE Append(Filled(t)[Len(t)].windows, Filled(t)[Len(t)].current)

-----------------------------------------------------------------------------
(* The system                                                              *)

Init ==
  /\ text = <<>> /\ past = {} /\ job = Idle
  /\ applied = [x \in {} |-> {}] /\ cited = {}

\* An ingest changes the text and enqueues the job, or refreshes the open one,
\* which keeps its attempts.  The facts of its structured fields are not here.
Edit(t) ==
  /\ job.state # "running" /\ t # text /\ Cardinality(past) < MaxEdits
  /\ text' = t /\ past' = past \cup {<<Cardinality(past), t>>}
  /\ job' = IF job.state = "pending" THEN job ELSE Pending(0)
  /\ UNCHANGED <<applied, cited>>

\* The worker claims the job and passes the spend gate; what is applied of this
\* content decides whether the evidence of the former one is wiped.
WipeNever(facts) == facts
Wipe(facts) == facts \cap Structured
Begin ==
  LET known == {x \in DOMAIN applied : x[1] = text}
  IN  /\ job.state = "pending"
      /\ job' = [state |-> "running", attempts |-> job.attempts + 1, next |-> 1]
      /\ cited' = IF known = {} THEN Wipe(cited) ELSE cited
      /\ UNCHANGED <<text, past, applied>>

\* _apply_extraction drops what its window does not say.
Supported(answer, window) == answer \cap Range(window)

\* One window, in a transaction of its own: skipped if it has been applied,
\* else asked for and applied.
Window(answer) ==
  LET i == job.next
      windows == SplitWindows(text)
      done == <<text, i>> \in DOMAIN applied
      facts == Supported(answer, windows[i])
  IN  /\ job.state = "running" /\ i <= Len(windows)
      /\ job' = [job EXCEPT !.next = i + 1]
      /\ IF done THEN answer = {} /\ UNCHANGED <<applied, cited>>
         ELSE /\ applied' = [x \in DOMAIN applied \cup {<<text, i>>} |->
                               IF x = <<text, i>> THEN facts ELSE applied[x]]
              /\ cited' = cited \cup facts
      /\ UNCHANGED <<text, past>>

Finish ==
  /\ job.state = "running" /\ job.next > Len(SplitWindows(text))
  /\ job' = Idle
  /\ UNCHANGED <<text, past, applied, cited>>

\* Mutant: the last attempt is followed by another.
FailForever ==
  /\ job.state = "running" /\ job.attempts <= MaxAttempts
  /\ job' = Pending(job.attempts)
  /\ UNCHANGED <<text, past, applied, cited>>
\* The gate or the vendor refuses, an answer is unusable: the attempt counts.
Fail ==
  /\ job.state = "running"
  /\ job' = IF job.attempts >= MaxAttempts THEN [Idle EXCEPT !.state = "dead"]
            ELSE Pending(job.attempts)
  /\ UNCHANGED <<text, past, applied, cited>>

\* The worker dies: its claim is rolled back, the windows stay.
Crash ==
  /\ job.state = "running"
  /\ job' = Pending(job.attempts - 1)
  /\ UNCHANGED <<text, past, applied, cited>>

Next ==
  \/ \E t \in Texts : Edit(t)
  \/ Begin \/ Finish \/ Fail \/ Crash
  \/ \E answer \in SUBSET UNION {Words(t) : t \in Texts} : Window(answer)

Spec == Init /\ [][Next]_vars

TypeOK ==
  /\ text \in Texts \cup {<<>>} /\ Cardinality(past) <= MaxEdits
  /\ job.state \in {"none", "pending", "running", "dead"} /\ job.attempts \in 0 .. MaxAttempts
  /\ \A x \in DOMAIN applied : x[1] \in Texts /\ x[2] \in Nat

-----------------------------------------------------------------------------
(* Properties                                                              *)

Windowed(t) == {x \in DOMAIN applied : x[1] = t}
\* Every content has been the document's once.
NeverBack == \A x, y \in past : x[2] = y[2] => x = y

\* When an extraction is over, through whatever failures, crashes and edits, the
\* document is cited for exactly what was found in its present text, every word
\* of which a window has shown to the vendor; and while one is under way for
\* nothing that a former text alone says.  Facts that a structured field of
\* another document states are left aside.
Complete(t, others) ==
  /\ Words(t) = UNION {Range(SplitWindows(t)[i]) : i \in DOMAIN SplitWindows(t)}
  /\ Windowed(t) = {<<t, i>> : i \in DOMAIN SplitWindows(t)}
  /\ cited \ others = (UNION {applied[x] : x \in Windowed(t)}) \ others
FactsOfText ==
  NeverBack /\ text # <<>> =>
    /\ job.state = "none" => Complete(text, Structured)
    /\ job.state = "running" => cited \ Structured \subseteq Words(text)

\* The same of contents that return.
FactsOfReturningText == text # <<>> /\ job.state = "none" => Complete(text, Structured)

\* The same of facts that a structured field states too.
FactsOfSharedText == NeverBack /\ text # <<>> /\ job.state = "none" => Complete(text, {})
=============================================================================
