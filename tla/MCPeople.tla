------------------------------ MODULE MCPeople ------------------------------
(***************************************************************************)
(* The instances of Portal and of Administration that TLC checks.  The two *)
(* share nothing: the people of the one are the holders of its accounts,   *)
(* those of the other the rows that say who has one.  A run is of one.     *)
(***************************************************************************)
EXTENDS Portal, TLC

CONSTANTS
  agent, employee, md, none,
  Subject,                                      \* the module whose behaviours a run checks
  Users, Banks, Handlers, Grants, MaxScripts    \* see Administration

VARIABLES user, bank, asked, scripts, demoted, bypassed, unfit

Staff == INSTANCE Administration WITH request <- asked

ASSUME StaffAssumption == Staff!Staffed

staffVars == <<user, bank, asked, scripts, demoted, bypassed, unfit>>

MCInit == Init /\ Staff!Init

MCNext ==
  \/ Subject = "Portal" /\ Next /\ UNCHANGED staffVars
  \/ Subject = "Administration" /\ Staff!Next /\ UNCHANGED vars

MCSpec == MCInit /\ [][MCNext]_<<vars, staffVars>>

(* "Nobody may remove the last account that can administer the system", as *)
(* long as administrators are removed one at a time, and by deactivation   *)
(* (users.service.ts deactivate).                                          *)
AdministratorRemains == Staff!AdministratorRemains

(* The employee an agreement names to countersign is, when it is created,  *)
(* an active EMPLOYEE of no bank, unless something changed him after he    *)
(* was designated (agreements.service.ts create, resolveEmployeeSigner).   *)
CountersignerFit == Staff!CountersignerFit

(* Only a draft is asked whether its type requires a stamp: an agreement of*)
(* a type that does not is followed until its document is there.           *)
StampedBeyondDraft == requiresStamp \/ status[A] \in {"DRAFT", "READY_FOR_AGENT_SIGNATURE"}

(* Two pages of one version are had in the first.  Of the second, one      *)
(* browser has the page: the other may show what the correction closed.    *)
OneCorrectedPage == Cardinality({b \in Browsers : page[b] # NONE /\ page[b].version > 1}) <= 1

Roles == agent :> {"AGENT"} @@ employee :> {"EMPLOYEE", "AGREEMENT_ADMIN"} @@ md :> {"MD", "EMPLOYEE"}
Names == [AGENT |-> agent, EMPLOYEE |-> employee, MD |-> md]

RoleSets == {{"SUPER_ADMIN"}, {"EMPLOYEE"}, {"AGENT"}}

Symmetry == Permutations(Browsers) \cup Permutations(Handlers) \cup Permutations(Users)

=============================================================================
