------------------------- MODULE GatewayAnonymizer --------------------------
(***************************************************************************)
(* AnonymizerEngine (gateway/anonymizer/engine.py), as operators.  A text  *)
(* is a sequence of symbols: <<"char", n>>, or the placeholder <<t, n>> of *)
(* the n-th entity of type t.  What a recognizer found is a span, a record *)
(* of type, start, end (as in a Python slice) and score.                   *)
(***************************************************************************)
EXTENDS SequencesExt

Chars == {"char"} \X Nat

Span == [type : STRING \ {"char"}, start : Nat, end : Nat, score : Nat]

\* What recognizers find in a text: no span is empty or goes past its end.
FoundIn(text) == {found \in Seq(Span) :
    \A i \in DOMAIN found : found[i].start < found[i].end /\ found[i].end <= Len(text)}

Overlap(a, b) == ~(a.end <= b.start \/ a.start >= b.end)

\* a comes before b when sorted by score, then by length, both descending.
Stronger(a, b) ==
    \/ a.score > b.score
    \/ a.score = b.score /\ a.end - a.start > b.end - b.start

\* The elements of S in the order R, a set of pairs.
InOrder(S, R) ==
    CHOOSE p \in [1 .. Cardinality(S) -> S] :
        /\ ToSet(p) = S
        /\ \A i, j \in DOMAIN p : i < j => <<p[i], p[j]>> \in R

\* sorted is stable: equals stay in the order in which they were found.
ByStrength(found) ==
    InOrder(DOMAIN found,
            {ij \in (DOMAIN found) \X (DOMAIN found) :
                \/ Stronger(found[ij[1]], found[ij[2]])
                \/ ~Stronger(found[ij[2]], found[ij[1]]) /\ ij[1] < ij[2]})

ByStart(spans) == InOrder(spans, {ab \in spans \X spans : ab[1].start < ab[2].start})

\* The spans of found that are kept when they are taken in this order, a sequence of
\* indices.
KeptOf(found, order) ==
    LET kept[n \in 0 .. Len(order)] ==
            IF n = 0 THEN {}
            ELSE IF \E k \in kept[n - 1] : Overlap(found[order[n]], k) THEN kept[n - 1]
            ELSE kept[n - 1] \cup {found[order[n]]}
    IN  kept[Len(order)]

\* A mistake to be caught: spans are taken as they come, not by score.
RemoveOverlapsInOrder(found) == ByStart(KeptOf(found, [i \in DOMAIN found |-> i]))

\* _remove_overlaps
RemoveOverlaps(found) == ByStart(KeptOf(found, ByStrength(found)))

\* One replacement of the loop in anonymize, of text[start:end] by a placeholder
\* numbered within its type; mapping lists pairs in the order of insertion.
Replace(text, acc, r) ==
    LET n  == 1 + Cardinality({i \in DOMAIN acc.mapping :
                                   acc.mapping[i][1][1] = r.type})
        ph == <<r.type, n>>
    IN  [text |-> SubSeq(acc.text, 1, r.start) \o <<ph>>
                      \o SubSeq(acc.text, r.end + 1, Len(acc.text)),
         mapping |-> Append(acc.mapping,
                            <<ph, SubSeq(text, r.start + 1, r.end)>>)]

\* The loop in anonymize over these spans.
Masked(text, spans) ==
    LET acc[n \in 0 .. Len(spans)] ==
            IF n = 0 THEN [text |-> text, mapping |-> <<>>]
            ELSE Replace(text, acc[n - 1], spans[n])
    IN  acc[Len(spans)]

\* A mistake to be caught: replacing from the left moves the spans to come.
AnonymizeFromLeft(text, found) == Masked(text, RemoveOverlaps(found))

\* anonymize: from right to left, so that the spans to come keep their place.
Anonymize(text, found) == Masked(text, Reverse(RemoveOverlaps(found)))

\* deanonymize.  Longest placeholders first: none is taken for a part of another.
Deanonymize(text, mapping) ==
    FlattenSeq([i \in DOMAIN text |->
        IF text[i] \in DOMAIN mapping THEN mapping[text[i]] ELSE <<text[i]>>])
=============================================================================
