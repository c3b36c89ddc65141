----------------------------- MODULE MCRegisters -----------------------------
(***************************************************************************)
(* The instances of Registers and Templates that TLC checks.  The two share*)
(* nothing, so that interleaving them would show nothing more: a behaviour *)
(* is of one or of the other.                                              *)
(***************************************************************************)
EXTENDS Registers, TLC

CONSTANTS Staff, Plain, Dotted, SystemProvided, Agreements, MaxTexts

VARIABLES versions, made, pending, retired, overtaken,
  module      \* whose behaviour it is

Texts == INSTANCE Templates

textVars == <<versions, made, pending, retired, overtaken>>
MCVars   == <<vars, textVars, module>>
MCInit == Init /\ Texts!Init /\ module \in {"Registers", "Templates"}

MCNext ==
  \/ module = "Registers" /\ Next /\ UNCHANGED textVars /\ UNCHANGED module
  \/ module = "Templates" /\ Texts!Next /\ UNCHANGED vars /\ UNCHANGED module

MCSpec == MCInit /\ [][MCNext]_MCVars

(* As in Templates: an agreement begun after its text was retired is one   *)
(* whose text an approval under way at the retirement brought back, and a  *)
(* generated document shows a bare placeholder only where its name has a   *)
(* dot (approveVersion, assertTemplateVariables, mergeTemplate).           *)
ExecutedAsApproved == Texts!ExecutedAsApproved

Symmetry == Permutations(Handlers)

=============================================================================
