-------------------------- MODULE GatewayWatermark --------------------------
(***************************************************************************)
(* Watermarker (gateway/watermark/engine.py), as operators.  Of a text     *)
(* they only see which forms, "a" or "b", of which synonym pairs it has;   *)
(* no word is in two pairs.  bits is the bit stream of a session.          *)
(***************************************************************************)
EXTENDS FiniteSets, Naturals

CONSTANT Pairs          \* _SYNONYM_MAP

ASSUME PairsAssumption == IsFiniteSet(Pairs)

BitStreams == [Pairs -> BOOLEAN]

\* A mistake to be caught: the second form is put where the bit is 0.
ApplyInverted(words, bits) ==
    [p \in Pairs |-> IF ~bits[p] /\ "a" \in words[p]
                     THEN (words[p] \ {"a"}) \cup {"b"} ELSE words[p]]

\* apply
Apply(words, bits) ==
    [p \in Pairs |-> IF bits[p] /\ "a" \in words[p]
                     THEN (words[p] \ {"a"}) \cup {"b"} ELSE words[p]]

\* What detect counts: the pairs that occur in a text.
Occurring(words) == {p \in Pairs : words[p] # {}}

\* detect: at least half of the pairs that occur are in the form expected.
Detect(words, bits) ==
    LET checks == Occurring(words)
        hits   == {p \in checks : (IF bits[p] THEN "b" ELSE "a") \in words[p]}
    IN  checks = {} \/ 2 * Cardinality(hits) >= Cardinality(checks)

\* Of these pairs a text has only the second form although the bit is 0: apply does
\* not touch them and detect looks for the first form in vain.
Misleading(words, bits) == {p \in Pairs : ~bits[p] /\ words[p] = {"b"}}
=============================================================================
