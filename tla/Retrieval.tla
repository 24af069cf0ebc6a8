------------------------------ MODULE Retrieval ------------------------------
(***************************************************************************)
(* Hybrid retrieval: RetrievalService.search and the packing of its answer *)
(* under a token budget.                                                   *)
(*                                                                         *)
(* The candidate channels are ranked lists of what the filters let the     *)
(* viewer see; the vendor's rerank scores are arbitrary.  Fused scores are *)
(* fractions over k + rank; they are kept as whole numbers by the factor   *)
(* Scale, a multiple of every denominator, and a decay is a whole number   *)
(* of parts.  The lists of an answer are sets here: their order is that of *)
(* the scores, which the answer keeps.                                     *)
(***************************************************************************)
EXTENDS Naturals, Sequences, FiniteSets, SequencesExt

CONSTANTS
  Chunks,      \* child chunks
  Parent,      \* their parent sections
  Facts,       \* claims and relationships
  Decay,       \* recency_multiplier of each item, in parts
  Visible,     \* items whose documents the viewer may read
  K, Scale,    \* rrf_k, and a multiple of K + 1, K + 2, ...
  Pool,        \* rerank_candidates
  Limits,      \* limits of requests
  Scores,      \* scores a reranker gives
  ItemSize,    \* tokens of one packed item
  Budgets      \* max_tokens of requests

VARIABLES
  lists,     \* channel -> ranked items, as the candidate queries return them
  limit,
  response,  \* what the search returns
  packed     \* what is left of the channels of the composed payload

vars == <<lists, limit, response, packed>>

Items == Chunks \cup Facts
Channels == {"vector", "keyword", "fact"}
NoResponse == [shortlist |-> {}, scores |-> <<>>, final |-> {}, passages |-> {}, facts |-> {}]
Blocks == {"passages", "search_facts", "paths", "fact_diffs", "structured_facts"}
NotPacked == [mode |-> "none", budget |-> 0, before |-> [b \in Blocks |-> 0],
              after |-> [b \in Blocks |-> 0]]

-----------------------------------------------------------------------------
(* Fusion and decay                                                        *)

Has(list, x) == x \in Range(list)
RankOf(list, x) == CHOOSE r \in DOMAIN list : list[r] = x

\* rrf_fuse, one channel's share.
Share(list, x) == IF Has(list, x) THEN Scale \div (K + RankOf(list, x)) ELSE 0
Fused(l, x) == Share(l["vector"], x) + Share(l["keyword"], x) + Share(l["fact"], x)
Decayed(l, x) == Fused(l, x) * Decay[x]

Candidates(l) == UNION {Range(l[c]) : c \in Channels}

\* By score, then by item id: chunk ids sort before fact ids.
Before(score, x, y) ==
  \/ score[x] > score[y]
  \/ score[x] = score[y] /\ x < y
Rank(S, score, x) == Cardinality({y \in S : Before(score, y, x)})
First(n, S, score) == {x \in S : Rank(S, score, x) < n}

Scored(l) == [x \in Candidates(l) |-> Decayed(l, x)]
Shortlist(l) == First(Pool, Candidates(l), Scored(l))

\* Only a shortlist longer than the limit is reranked.
Finals(l, n) ==
  LET short == Shortlist(l)
  IN  IF Cardinality(short) <= n THEN {[items |-> short, scores |-> Scored(l)]}
      ELSE {[items |-> First(n, short, s), scores |-> s] : s \in [short -> Scores]}

\* Mutant: every hit is a passage.
EveryHit(chunks, score) == chunks
\* One passage per parent section.
OnePerParent(chunks, score) ==
  {c \in chunks : \A k \in chunks : Before(score, k, c) => Parent[k] # Parent[c]}

Response(l, f) ==
  [shortlist |-> Shortlist(l), scores |-> f.scores, final |-> f.items,
   passages |-> OnePerParent(f.items \cap Chunks, f.scores), facts |-> f.items \cap Facts]

-----------------------------------------------------------------------------
(* _apply_token_budget                                                     *)

TrimOrder(mode) ==
  CASE mode = "graph_first" ->
         <<"passages", "search_facts", "paths", "fact_diffs", "structured_facts">>
    [] mode = "joint" ->
         <<"paths", "fact_diffs", "search_facts", "structured_facts", "passages">>
    [] mode = "vector_first" ->
         <<"paths", "fact_diffs", "structured_facts", "search_facts", "passages">>

Measure(payload) ==
  ItemSize * (payload["passages"] + payload["search_facts"] + payload["paths"]
                + payload["fact_diffs"] + payload["structured_facts"])

\* The last items of one block are dropped until the payload fits.
Trim(payload, b, budget) ==
  LET fits(n) == Measure([payload EXCEPT ![b] = n]) <= budget
  IN  [payload EXCEPT ![b] = Max({0} \cup {n \in 0 .. payload[b] : fits(n)})]
Trimmed(payload, budget, mode) ==
  LET order == TrimOrder(mode)
      trim[n \in 0 .. 5] == IF n = 0 THEN payload ELSE Trim(trim[n - 1], order[n], budget)
  IN  trim[5]

-----------------------------------------------------------------------------
(* The system                                                              *)

\* Rankings without repetition of what a channel may hold.
Rankings(S) == {s \in BoundedSeq(S, Pool) : Cardinality(Range(s)) = Len(s)}

Init ==
  /\ lists = [c \in Channels |-> <<>>] /\ limit = 0
  /\ response = NoResponse /\ packed = NotPacked

\* A request: the three candidate queries, fusion, rerank, dedupe.
Search(v, k, f, n) ==
  LET l == [vector |-> v, keyword |-> k, fact |-> f]
  IN  /\ limit = 0
      /\ lists' = l /\ limit' = n
      /\ \E final \in Finals(l, n) : response' = Response(l, final)
      /\ UNCHANGED packed

\* The composed payload of the same answer is packed.
Pack(mode, budget, graph) ==
  LET before == [b \in Blocks |-> CASE b = "passages" -> Cardinality(response.passages)
                                    [] b = "search_facts" -> Cardinality(response.facts)
                                    [] OTHER -> graph]
  IN  /\ limit # 0 /\ packed = NotPacked
      /\ packed' = [mode |-> mode, budget |-> budget, before |-> before,
                    after |-> Trimmed(before, budget, mode)]
      /\ UNCHANGED <<lists, limit, response>>

Next ==
  \/ \E v, k \in Rankings(Chunks \cap Visible), f \in Rankings(Facts \cap Visible),
        n \in Limits : Search(v, k, f, n)
  \/ \E mode \in {"graph_first", "joint", "vector_first"}, budget \in Budgets,
        graph \in 0 .. 1 : Pack(mode, budget, graph)

Spec == Init /\ [][Next]_vars

TypeOK ==
  /\ lists \in [Channels -> Seq(Items)] /\ limit \in Limits \cup {0}
  /\ response.final \subseteq Items
  /\ packed.after \in [Blocks -> Nat]

-----------------------------------------------------------------------------
(* Properties                                                              *)

\* What precedes another item in every channel that found that item, and is
\* no older, is shortlisted whenever the other is, for any channels and ties;
\* and an item is left out of the answer only for items that score at least as
\* high, or for a passage of its own parent section.
BestKept ==
  limit # 0 =>
    /\ \A x, y \in Candidates(lists) :
         (/\ Decay[x] >= Decay[y]
          /\ \A c \in Channels : Has(lists[c], y) =>
               Has(lists[c], x) /\ RankOf(lists[c], x) < RankOf(lists[c], y))
         => (y \in response.shortlist => x \in response.shortlist)
    /\ \A x \in response.shortlist :
         \/ x \in response.passages \/ x \in response.facts
         \/ /\ Cardinality(response.final) = limit
            /\ \A y \in response.final : response.scores[y] >= response.scores[x]
         \/ \E p \in response.passages : x \in Chunks /\ Parent[p] = Parent[x]
    /\ \A p, q \in response.passages : Parent[p] = Parent[q] => p = q

\* A block of the payload loses items only after every block of lower priority
\* is empty, and the result exceeds the budget only if nothing is left.
PackedByPriority ==
  packed # NotPacked =>
    LET order == TrimOrder(packed.mode)
    IN  /\ Measure(packed.after) <= packed.budget
             \/ \A b \in Blocks : packed.after[b] = 0
        /\ \A i, j \in DOMAIN order :
             i < j /\ packed.after[order[j]] < packed.before[order[j]]
               => packed.after[order[i]] = 0
=============================================================================
