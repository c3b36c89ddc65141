---------------------------- MODULE MCAuditChain ----------------------------
(* The instances of AuditChain that TLC checks.                            *)
EXTENDS AuditChain

Symmetry == Permutations(Writers)

=============================================================================
