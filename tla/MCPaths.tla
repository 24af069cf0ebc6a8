------------------------------ MODULE MCPaths ------------------------------
(***************************************************************************)
(* Paths with two extractions at once: b or c is where a belongs,          *)
(* exclusively, and y leads from b to c and back to a.                     *)
(***************************************************************************)
EXTENDS Paths, TLC

Web == {<<"a", "b", "x">>, <<"a", "c", "x">>, <<"b", "c", "y">>, <<"c", "a", "y">>}

Symmetry == Permutations(Writers)
=============================================================================
