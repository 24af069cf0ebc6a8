------------------------------ MODULE MCRecall ------------------------------
(***************************************************************************)
(* Recall on a small instance: two titles that exclude each other, one     *)
(* team that does not, three documents, and questions of every kind.       *)
(***************************************************************************)
EXTENDS Recall, TLC

Titles == {"eng", "mgr", "red"}
KindOf == [v \in Titles |-> IF v = "red" THEN "team" ELSE "title"]

Plain == [from |-> None, phrase |-> None, ended |-> None, grain |-> "unknown", sure |-> TRUE]
Sayings == {Plain, [Plain EXCEPT !.sure = FALSE],
            [Plain EXCEPT !.phrase = [ago |-> 1, grain |-> "month"]],
            [Plain EXCEPT !.from = 2, !.ended = 1, !.grain = "day"],
            [Plain EXCEPT !.from = 0, !.ended = 1]}

Sizes == [unknown |-> 1, day |-> 1, month |-> 3, quarter |-> 6, year |-> 6]

AboutNow == [belief |-> FALSE, soft |-> FALSE, between |-> FALSE, at |-> None, end |-> None,
             grain |-> None]
Asked == {AboutNow, [AboutNow EXCEPT !.soft = TRUE],
          [AboutNow EXCEPT !.at = 1, !.grain = "month"],
          [AboutNow EXCEPT !.at = 1, !.grain = "day", !.belief = TRUE],
          [AboutNow EXCEPT !.at = 0, !.end = 2, !.between = TRUE, !.grain = "day"],
          [AboutNow EXCEPT !.at = 0, !.end = 2, !.between = TRUE, !.grain = "day",
                           !.belief = TRUE]}
\* What is asked of the facts, what is known and what the host's filters leave.
Words == {{"title"}, {"title", "mgr"}}
Knowing == {{"title", "team"}, {"title"}}
Filtered == {Docs, Docs \ {2}}
PlansOfModel == {[ok |-> TRUE, axis |-> x, at |-> a, end |-> b, grain |-> None] :
                   x \in {"current", "world"}, a \in {1, None}, b \in {1, None}}
=============================================================================
