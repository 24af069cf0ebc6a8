-------------------------------- MODULE Reads --------------------------------
(***************************************************************************)
(* The read side: bitemporal reads (Recall), hybrid search and packing     *)
(* (Retrieval), chunking (Chunking), relationship walks and the edges they *)
(* follow (Paths).  The parts share no state, so a behaviour is one of the *)
(* part it begins with; the variables of the others stay as they are.      *)
(***************************************************************************)
EXTENDS Recall

CONSTANTS
  Chunks, Parent, Facts, Decay, Visible,                      \* Retrieval
  K, Scale, Pool, Limits, Scores, ItemSize, Budgets,
  Texts, WordStarts, ParentTarget, ParentMax,                 \* Chunking
  ChildTarget, ChildMax, ChildOverlap,
  Links, ExclusiveTypes, Sources,                             \* Paths, with
  Walkers, WalkLimits, WalkRows,  \* one extraction, for the walks,
  Writers, EdgeLimits, EdgeRows   \* and with several, for the edges

VARIABLES part, lists, limit, response, packed, text, parents, rel, shown, write, jobs

Ranked == INSTANCE Retrieval
Chunked == INSTANCE Chunking
Walked == INSTANCE Paths WITH
  Exclusive <- ExclusiveTypes, Docs <- Sources,
  Writers <- Walkers, Limits <- WalkLimits, MaxRows <- WalkRows
Edges == INSTANCE Paths WITH
  Exclusive <- ExclusiveTypes, Docs <- Sources,
  Limits <- EdgeLimits, MaxRows <- EdgeRows

-----------------------------------------------------------------------------

Idle(v) == v = <<>>
SearchIdle == Idle(lists) /\ Idle(limit) /\ Idle(response) /\ Idle(packed)
ChunksIdle == Idle(text) /\ Idle(parents)
EdgesIdle == Idle(rel) /\ Idle(shown) /\ Idle(write) /\ Idle(jobs)
searchVars == <<lists, limit, response, packed>>
chunksVars == <<text, parents>>
edgesVars == <<rel, shown, write, jobs>>
readsVars == <<part, vars, searchVars, chunksVars, edgesVars>>

\* Recall is at its beginning while another part runs.
ReadsInit ==
  /\ Init
  /\ \/ part = "recall" /\ SearchIdle /\ ChunksIdle /\ EdgesIdle
     \/ part = "search" /\ Ranked!Init /\ ChunksIdle /\ EdgesIdle
     \/ part = "chunks" /\ Chunked!Init /\ SearchIdle /\ EdgesIdle
     \/ part = "paths" /\ Walked!Init /\ SearchIdle /\ ChunksIdle
     \/ part = "edges" /\ Edges!Init /\ shown = {} /\ SearchIdle /\ ChunksIdle

ReadsNext ==
  \/ part = "recall" /\ Next /\ UNCHANGED <<part, searchVars, chunksVars, edgesVars>>
  \/ part = "search" /\ Ranked!Next /\ UNCHANGED <<part, vars, chunksVars, edgesVars>>
  \/ part = "chunks" /\ Chunked!Next /\ UNCHANGED <<part, vars, searchVars, edgesVars>>
  \/ part = "paths" /\ Walked!Next /\ UNCHANGED <<part, vars, searchVars, chunksVars>>
  \/ part = "edges" /\ Edges!Next /\ UNCHANGED <<part, vars, searchVars, chunksVars>>

ReadsSpec == ReadsInit /\ [][ReadsNext]_readsVars

\* The variables of all parts have their types.
ReadsTypeOK ==
  /\ TypeOK
  /\ CASE part = "search" -> Ranked!TypeOK
       [] part = "chunks" -> Chunked!TypeOK
       [] part = "paths" -> Walked!TypeOK
       [] part = "edges" -> Edges!TypeOK
       [] OTHER -> TRUE

-----------------------------------------------------------------------------
(* The properties of the parts, stated and explained in their modules;      *)
(* those of Recall have their names from there                              *)

\* Fusion, rerank, section dedupe and packing drop only what matters less.
BestKept == part = "search" => Ranked!BestKept /\ Ranked!PackedByPriority
\* Every word of a text is whole in its sections and in their children.
NothingLost == part = "chunks" => Chunked!NothingLost
\* Walks find what visible edges reach, nearest first.
PathsHonest == part = "paths" => Walked!PathsHonest
\* An exclusive relationship with two targets is noticed.
OneTarget == part = "edges" => Edges!OneTarget
=============================================================================
