----------------------------- MODULE MCEmbedding -----------------------------
(* Small instances of Embedding.                                           *)
EXTENDS Embedding, TLC

CONSTANTS a, b, c

\* Sections that are edited in place, added and dropped at the end.
InPlace == {<<a>>, <<b>>, <<a, c>>, <<b, c>>}

\* A section inserted at the front.
Inserted == {<<a>>, <<b, a>>}
=============================================================================
