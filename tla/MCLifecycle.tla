---------------------------- MODULE MCLifecycle ----------------------------
(* The instance of AgreementLifecycle that TLC checks.                     *)
EXTENDS AgreementLifecycle, TLC

Symmetry == Permutations(Agreements)

=============================================================================
