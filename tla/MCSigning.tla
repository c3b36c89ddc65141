----------------------------- MODULE MCSigning -----------------------------
(* The instances of Signing that TLC checks.                               *)
EXTENDS Signing

(* The job's question needs two agreements, and bounds of its own: an      *)
(* agreement ends by a cancellation only, which may come at any moment, and*)
(* the month turns only once something is stranded.                        *)
Recovering ==
  /\ \A a \in Agreements : status'[a] # "REJECTED" /\ due'[a] # "lapsed"
  /\ month' # month => \E t \in DOMAIN tx : Stranded(t)

Symmetry == Permutations(Agreements) \cup Permutations(Callers)

=============================================================================
