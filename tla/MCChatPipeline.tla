--------------------------- MODULE MCChatPipeline ---------------------------
(***************************************************************************)
(* ChatPipeline for TLC.  The two prompts are near enough for the text of  *)
(* one to answer the other, though only one of them has a placeholder.     *)
(***************************************************************************)
EXTENDS ChatPipeline, TLC

CONSTANTS bare, personal, person1

MCSlotsOf == [p \in Prompts |-> IF p = personal THEN {person1} ELSE {}]
MCScore == [pair \in Prompts \X Prompts |->
                IF pair[1] = pair[2] THEN 100 ELSE 98]

\* The requests are interchangeable.
Symmetry == Permutations(Requests)

\* The part of the behaviours in which the TTL is longer than the run: no
\* timer fires.
LongTTL == \A r \in Requests : pc[r] # "idle" => r \in timers
=============================================================================
