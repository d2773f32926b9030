---------------------------- MODULE MCAppService ----------------------------
(***************************************************************************)
(* AppService for TLC.                                                     *)
(***************************************************************************)
EXTENDS AppService, TLC

\* By hand: an .env that leaves CONFIG_READY and the URL out, one for a local model
\* that only leaves the URL out, and the README's spelling of the backend.
ByHand == {[ready |-> "unset", backend |-> "CLOUD", openai |-> "unset"],
           [ready |-> "true", backend |-> "LOCAL", openai |-> "unset"],
           [ready |-> "true", backend |-> "local", openai |-> "vllm"]}

\* The addresses are interchangeable.
Symmetry == Permutations(Addresses)
=============================================================================
