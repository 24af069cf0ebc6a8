------------------------------ MODULE MCJobQueue ------------------------------
(* Small instances of JobQueue: "extract" is a document's extraction job,    *)
(* whose handler enqueues the singleton "push", which may ask for a further  *)
(* pass of itself.                                                           *)
EXTENDS JobQueue, TLC

MCFollow == [k \in Keys |-> IF k = "extract" THEN Keys \cap {"push"} ELSE {}]
MCRefire == Keys \cap {"push"}
Symmetric == Permutations(Producers) \cup Permutations(Workers)
=============================================================================
