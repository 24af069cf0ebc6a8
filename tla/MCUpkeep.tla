------------------------------ MODULE MCUpkeep ------------------------------
(* Instances of Upkeep for TLC.                                            *)
EXTENDS Upkeep

\* Calls of every kind; two estimates fill the month.
MCKind == [c \in Calls |-> c]
\* Contents of three windows, of one, and one that shares a word.
MCTexts == {<< <<1>>, <<2>>, <<3>> >>, << <<4>> >>, << <<1>>, <<5>> >>}
MCSourceOf == [d \in Docs |-> "src"]
\* Two values of one slot, one of them an agent's, and another.
MCSlotOf == [c \in Claims |-> IF c = 3 THEN "t" ELSE "s"]
MCBy == [c \in Claims |-> IF c = 2 THEN "promote" ELSE "extraction"]
MCEvidence == [c \in Claims |-> 1]
=============================================================================
