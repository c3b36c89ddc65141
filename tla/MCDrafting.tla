----------------------------- MODULE MCDrafting -----------------------------
(***************************************************************************)
(* The instances of Drafting and of StampIntake that TLC checks.  Drafting *)
(* starts from an inventory that StampIntake has filled, and the two share *)
(* nothing after that: a run is of one.                                    *)
(***************************************************************************)
EXTENDS Drafting, TLC

CONSTANTS
  Subject,                                 \* the module whose behaviours a run checks
  Sheets,                                  \* the papers that StampIntake enters
  Operators, Kinds, Printed, Misread, Account, NONE, MaxRows    \* see StampIntake

VARIABLES rows, desk

Intake == INSTANCE StampIntake WITH Papers <- Sheets

ASSUME IntakeAssumption == Intake!Kinded /\ Intake!Identifying

MCInit == Init /\ Intake!Init

MCNext ==
  \/ Subject = "Drafting" /\ Next /\ UNCHANGED <<rows, desk>>
  \/ Subject = "StampIntake" /\ Intake!Next /\ UNCHANGED vars

MCSpec == MCInit /\ [][MCNext]_<<vars, rows, desk>>

(* DEC-029: "getting any one right is enough to catch a duplicate"; see    *)
(* StampIntake (stamps.service.ts register).                               *)
CaughtByAnyOneRight == Intake!CaughtByAnyOneRight

(* A form is refused as already registered only for a cause; see           *)
(* StampIntake (stamps.service.ts register, StampScanForm.tsx).            *)
RefusedOnlyForCause == Intake!RefusedOnlyForCause

-----------------------------------------------------------------------------
(* The second agreement competes for the papers, and stays a draft that    *)
(* nobody edits.                                                           *)
CONSTANTS a1, a2

OneSigned ==
  status[a2] = "DRAFT" /\ \A p \in Handlers : h[p].pc \in {"edit", "generate"} => h[p].agr = a1

(* An e-Stamp with all three identifiers and a vendor's paper with a serial*)
(* only, one digit from the serial of the other.                           *)
CONSTANTS p1, p2, certificate, reference, s1, s2, garbled, none

KindsInOrder == <<"CERTIFICATE_NO", "UNIQUE_DOC_REF", "PAPER_SERIAL">>

PrintedOn ==
  p1 :> [CERTIFICATE_NO |-> certificate, UNIQUE_DOC_REF |-> reference, PAPER_SERIAL |-> s1] @@
  p2 :> [CERTIFICATE_NO |-> none, UNIQUE_DOC_REF |-> none, PAPER_SERIAL |-> s2]

TakenFor == certificate :> {garbled} @@ reference :> {} @@ s1 :> {s2} @@ s2 :> {}

Symmetry ==
  Permutations(Handlers) \cup Permutations(Papers) \cup Permutations(Fields) \cup Permutations(Operators)

=============================================================================
