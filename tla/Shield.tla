------------------------------- MODULE Shield -------------------------------
(***************************************************************************)
(* The data of the chat proxy as ShieldEngine (app/engine/shield.py)       *)
(* produces it.  A prompt is known by the masked text mask() returns; the  *)
(* placeholders of that text are its slots, the domain of the mapping that *)
(* goes to the vault.  The original behind a slot belongs to the request   *)
(* that was masked, so an original is known by its owner.  A text is known *)
(* by the request whose model call wrote it, the placeholders left in it,  *)
(* the requests whose originals were put in it, and the requests whose     *)
(* watermark it carries.                                                   *)
(***************************************************************************)
EXTENDS Naturals

CONSTANTS
    Requests,       \* request ids: uuid4 in routes.py, also the vault sessions
    Prompts,        \* masked prompts
    Slots,          \* placeholders, such as PERSON_001
    SlotsOf,        \* SlotsOf[p]: the placeholders that occur in prompt p
    Levels,         \* permission levels of callers
    None            \* Python's None

ASSUME SlotsAssumption == SlotsOf \in [Prompts -> SUBSET Slots]

ASSUME LevelsAssumption == Levels \subseteq Nat

Texts ==
    [author: Requests, slots: SUBSET Slots, owners: SUBSET Requests,
     marks: SUBSET Requests]

ASSUME NoneAssumption == None \notin Texts

\* What the model answers to request r: placeholders only, for it never saw
\* an original, and only placeholders it was shown.
Completions(r, p) ==
    [author: {r}, slots: SUBSET SlotsOf[p], owners: {{}}, marks: {{}}]

\* A text no original and no watermark has been put in.
Masked(t) == t.owners = {} /\ t.marks = {}

\* deanonymize: the slots of r's mapping give way to r's originals.
Deanonymize(t, r, p) ==
    [t EXCEPT !.slots = @ \ SlotsOf[p],
              !.owners = IF t.slots \cap SlotsOf[p] = {} THEN @ ELSE @ \cup {r}]

\* watermark: the synonym choices or the closing tag depend on r alone.
Watermark(t, r) == [t EXCEPT !.marks = @ \cup {r}]
=============================================================================
