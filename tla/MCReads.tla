------------------------------- MODULE MCReads -------------------------------
(***************************************************************************)
(* The parts of the read side on small instances.                          *)
(***************************************************************************)
EXTENDS Reads, MCRecall

Symmetry == Permutations(Writers)

\* Retrieval: chunks 1 and 2 are of one section, 3 of another, 4 is a fact.
SectionOf == [c \in 1 .. 3 |-> IF c = 3 THEN 2 ELSE 1]
Recency == [x \in 1 .. 4 |-> IF x \in {2, 4} THEN 2 ELSE 1]

\* Chunking: paragraphs of distinct words of several sizes, one of them longer
\* than a section may be.
Word(w, n) == [i \in 1 .. n |-> 10 * w + i - 1]
Firsts == {10 * w : w \in 1 .. 30}
Lists(S, n) == UNION {[1 .. m -> S] : m \in 1 .. n}
Para(w, sizes) ==
  LET upto[n \in 0 .. Len(sizes)] ==
        IF n = 0 THEN <<>> ELSE upto[n - 1] \o Word(w + n, sizes[n])
  IN  upto[Len(sizes)]
Pages == {<<Para(0, a)>> : a \in Lists({1, 2, 5}, 5) \cup Lists({1, 4, 9}, 3)}
           \cup {<<Para(0, a), Para(10, b)>> : a, b \in Lists({1, 3}, 3)}
           \cup {<<Para(0, a), Para(10, b), Para(20, c)>> : a, b, c \in Lists({1, 4}, 2)}
\* A paragraph of six words twice over.
Refrain == Para(0, <<1, 1, 1, 1, 1, 1>>)
Refrains == {<<Refrain \o Refrain>>}

\* Paths: b or c is where a belongs, exclusively, and y leads back to a.
Web == {<<"a", "b", "x">>, <<"a", "c", "x">>, <<"b", "c", "y">>, <<"c", "a", "y">>}
=============================================================================
