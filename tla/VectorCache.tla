----------------------------- MODULE VectorCache ----------------------------
(***************************************************************************)
(* The semantic cache (app/database/vector_cache.py): an append-only list  *)
(* of texts with the level of the request that stored them, searched by    *)
(* the similarity of the masked prompts.  get and set run under a lock and *)
(* without an await, so each is one step.                                  *)
(***************************************************************************)
EXTENDS Shield, Sequences

CONSTANTS
    Score,          \* Score[p, q]: cosine similarity, in hundredths
    Threshold       \* 97 in the default settings

ASSUME ScoreAssumption ==
    Score \in [Prompts \X Prompts -> Nat] /\ Threshold \in Nat

VARIABLE entries    \* _index, _values and _levels, which grow together

Entry == [prompt: Prompts, text: Texts, level: Levels]

CacheTypeOK == entries \in Seq(Entry)

CacheInit == entries = <<>>

\* The single neighbour index.search(vec, 1) returns; which of several
\* equally near entries that is, is left open.
Nearest(p) ==
    {i \in DOMAIN entries :
        \A j \in DOMAIN entries :
            Score[p, entries[j].prompt] <= Score[p, entries[i].prompt]}

\* A mistake to be caught: the level of the entry is not looked at.
VisibleToAll(i, p, level) ==
    /\ Score[p, entries[i].prompt] >= Threshold
    /\ level \in Levels

\* The neighbour is near enough and the caller's level lets it be seen.
Visible(i, p, level) ==
    /\ Score[p, entries[i].prompt] >= Threshold
    /\ entries[i].level <= level

\* The values get may return: the next neighbour is never tried.
CacheGet(p, level) ==
    IF entries = <<>>
    THEN {None}
    ELSE {IF Visible(i, p, level) THEN entries[i].text ELSE None :
            i \in Nearest(p)}

CacheSet(p, t, level) ==
    entries' = Append(entries, [prompt |-> p, text |-> t, level |-> level])

CacheLost == entries' = <<>>
=============================================================================
