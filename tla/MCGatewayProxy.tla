--------------------------- MODULE MCGatewayProxy ---------------------------
(* GatewayProxy for TLC: bodies with entities of every kind of overlap.    *)
EXTENDS GatewayProxy

CONSTANTS s1, s2, s3

MCText(m) == [i \in 1 .. 4 |-> <<"char", 10 * m + i>>]

Person(from, to) == [type |-> "PERSON", start |-> from, end |-> to, score |-> 50]
Phone(from, to) == [type |-> "PHONE", start |-> from, end |-> to, score |-> 40]
Email(from, to) == [type |-> "EMAIL", start |-> from, end |-> to, score |-> 100]

Message(m, role, found) == [role |-> role, text |-> MCText(m), found |-> found]

MCBodies == <<
    \* Two messages number their own person from one.  Persons are found first.
    <<Message(1, "user", <<Person(0, 2)>>), Message(2, "assistant", <<Person(1, 3)>>),
      Message(3, "user", <<Person(0, 1)>>)>>,
    <<Message(1, "user", <<>>)>>,
    \* A middle one stronger than both neighbours; one within another.
    <<Message(1, "system", <<Email(1, 2)>>),
      Message(2, "user", <<Person(1, 3), Phone(0, 2), Phone(2, 4)>>)>>,
    <<Message(1, "user", <<Person(0, 4), Email(1, 2)>>)>>,
    \* Equal but for their length; adjacent; two around one that is dropped.
    <<Message(1, "user", <<Person(0, 2), Person(1, 4)>>)>>,
    <<Message(1, "user", <<Person(0, 2), Person(3, 4), Phone(0, 4), Email(2, 3)>>)>> >>

MCAccepts == [s \in Sessions |-> IF s = s1 THEN DOMAIN Bodies ELSE {2}]
MCReplySizes == [s \in Sessions |-> IF s = s1 THEN {1, 2} ELSE {0}]

\* The sessions without entities and choices are interchangeable.
Symmetry == Permutations({s2, s3})
=============================================================================
