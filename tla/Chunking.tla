------------------------------ MODULE Chunking ------------------------------
(***************************************************************************)
(* chunk_document: parent sections, which are returned, and their child    *)
(* windows, which are embedded and searched.                               *)
(*                                                                         *)
(* A text is a sequence of paragraphs, a paragraph a sequence of tokens,   *)
(* some of which begin a word; the blank line between two paragraphs is a  *)
(* token too.  A text has the tokens of its words, and a word that an      *)
(* overlap cuts keeps those it is cut to.  The title is a prefix of every  *)
(* child and changes no window.                                            *)
(***************************************************************************)
EXTENDS Naturals, Sequences, SequencesExt

CONSTANTS
  Texts,                                      \* texts of documents
  WordStarts,                                 \* tokens that begin a word
  ParentTarget, ParentMax,
  ChildTarget, ChildMax, ChildOverlap

VARIABLES text, parents

vars == <<text, parents>>

Blank == 0   \* the token of a blank line

\* The last tokens of a text, which may begin inside a word.
LastTokens(n, s) == SubSeq(s, IF Len(s) > n THEN Len(s) - n + 1 ELSE 1, Len(s))

\* The tokens of pieces, their text with a blank line between two of them, and
\* how many tokens that is.
Joined(pieces) == FlattenSeq(pieces)
Text(pieces) ==
  Joined([i \in DOMAIN pieces |-> IF i = 1 THEN pieces[i] ELSE <<Blank>> \o pieces[i]])
TokenLen(pieces) ==
  IF pieces = <<>> THEN 0 ELSE Len(Joined(pieces)) + Len(pieces) - 1

\* _hard_wrap_tokens: one step per word, then the remainder.  A word that does
\* not fit is taken whole.
WrapWord(st, word, target, overlap, max) ==
  LET trial == st.current \o word
      tail == LastTokens(overlap, st.current) \o word
  IN  IF st.current # <<>> /\ Len(trial) > target
      THEN IF Len(tail) > max
           THEN [pieces |-> st.pieces \o <<st.current, tail>>, current |-> <<>>]
           ELSE [pieces |-> Append(st.pieces, st.current), current |-> tail]
      ELSE IF Len(trial) >= max
           THEN [pieces |-> Append(st.pieces, trial), current |-> <<>>]
           ELSE [st EXCEPT !.current = trial]
WithoutRemainder(st) == st.pieces
WithRemainder(st) ==
  IF st.current = <<>> \/ (st.pieces # <<>> /\ st.current = st.pieces[Len(st.pieces)])
  THEN st.pieces ELSE Append(st.pieces, st.current)
\* paragraph.split(): a word ends where the next begins.
ReadToken(st, token, target, overlap, max) ==
  IF st.word # <<>> /\ token \in WordStarts
  THEN [wrap |-> WrapWord(st.wrap, st.word, target, overlap, max), word |-> <<token>>]
  ELSE [wrap |-> st.wrap, word |-> Append(st.word, token)]
HardWrap(paragraph, target, overlap, max) ==
  LET st[n \in 0 .. Len(paragraph)] ==
        IF n = 0 THEN [wrap |-> [pieces |-> <<>>, current |-> <<>>], word |-> <<>>]
        ELSE ReadToken(st[n - 1], paragraph[n], target, overlap, max)
      last == st[Len(paragraph)]
  IN  WithRemainder(WrapWord(last.wrap, last.word, target, overlap, max))

\* _pack_paragraphs: one step per piece.  A window is a sequence of pieces.
PackPiece(st, piece, target, overlap) ==
  LET full == st.current # <<>> /\ TokenLen(st.current) + Len(piece) + 2 > target
      cut == LastTokens(overlap, Text(st.current))
      tail == IF cut # <<>> /\ Head(cut) = Blank THEN Tail(cut) ELSE cut
      kept == IF ~full THEN st.current ELSE IF tail = <<>> THEN <<>> ELSE <<tail>>
  IN  [windows |-> IF full THEN Append(st.windows, st.current) ELSE st.windows,
       current |-> Append(kept, piece)]
Pieces(para, target, overlap, max) ==
  IF Len(para) > max THEN HardWrap(para, target, overlap, max) ELSE <<para>>
Packed(paras, target, overlap, max) ==
  LET pieces == FlattenSeq([i \in DOMAIN paras |-> Pieces(paras[i], target, overlap, max)])
      st[n \in 0 .. Len(pieces)] ==
        IF n = 0 THEN [windows |-> <<>>, current |-> <<>>]
        ELSE PackPiece(st[n - 1], pieces[n], target, overlap)
      last == st[Len(pieces)]
  IN  IF last.current = <<>> THEN last.windows ELSE Append(last.windows, last.current)

\* chunk_document: a parent is a window, its children are windows of it.
ChunkDocument(t) ==
  LET sections == Packed(t, ParentTarget, 0, ParentMax)
  IN  [i \in DOMAIN sections |->
         [text |-> sections[i],
          children |-> Packed(sections[i], ChildTarget, ChildOverlap, ChildMax)]]

Init == text = <<>> /\ parents = <<>>

\* An ingest chunks its text.
Chunk(t) ==
  /\ text = <<>> /\ t # <<>>
  /\ text' = t /\ parents' = ChunkDocument(t)

Next == \E t \in Texts : Chunk(t)

Spec == Init /\ [][Next]_vars

TypeOK == parents \in Seq([text : Seq(Seq(Nat)), children : Seq(Seq(Seq(Nat)))])

-----------------------------------------------------------------------------
(* Properties                                                              *)

\* The places of a paragraph that belong to one word.
Spans(p) ==
  {x \in (1 .. Len(p)) \X (1 .. Len(p)) :
     x[1] <= x[2] /\ \A k \in x[1] + 1 .. x[2] : p[k] \notin WordStarts}
Longest(paras) ==
  LET sizes == {0} \cup UNION {{x[2] - x[1] + 1 : x \in Spans(p)} : p \in Range(paras)}
  IN  CHOOSE n \in sizes : \A m \in sizes : m <= n

\* Every word of the paragraphs is whole in a window, in a run of tokens as the
\* paragraph has them.
Within(p, x, r) ==
  \E s \in 0 .. Len(p) - Len(r) :
    s < x[1] /\ x[2] <= s + Len(r) /\ SubSeq(p, s + 1, s + Len(r)) = r
KeepsWords(paras, windows) ==
  \A p \in Range(paras) : \A x \in Spans(p) :
    \E c \in Range(windows) : \E r \in Range(c) : Within(p, x, r)

\* No window grows beyond the largest piece, which is one of the maximum or a
\* longer word with its overlap, and the overlap before it.
Bounded(paras, windows, overlap, max) ==
  LET long == overlap + Longest(paras)
      piece == IF long > max THEN long ELSE max
  IN  \A c \in Range(windows) :
        TokenLen(c) <= piece + IF overlap = 0 THEN 0 ELSE overlap + 1

\* Nothing of a text is lost on the way to the index: its sections, one after
\* the other, are the text; every word of it is whole in a section and every word
\* of a section whole in a child of it, although overlaps begin inside words; and
\* only a word that is too long by itself makes a window grow.
NothingLost ==
  text # <<>> =>
    LET sections == [i \in DOMAIN parents |-> parents[i].text]
    IN  /\ Joined([i \in DOMAIN parents |-> Joined(sections[i])]) = Joined(text)
        /\ KeepsWords(text, sections)
        /\ Bounded(text, sections, 0, ParentMax)
        /\ \A i \in DOMAIN parents :
             /\ KeepsWords(sections[i], parents[i].children)
             /\ Bounded(sections[i], parents[i].children, ChildOverlap, ChildMax)
=============================================================================
