----------------------------- MODULE MCDocuments -----------------------------
(* Instance of Documents for model checking.                               *)
EXTENDS Documents

CONSTANTS h1, h2

Symmetry == Permutations({h1, h2})
=============================================================================
