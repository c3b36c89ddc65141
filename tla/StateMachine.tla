---------------------------- MODULE StateMachine ----------------------------
(***************************************************************************)
(* The transition table of the agreement workflow and the functions over   *)
(* it (api/src/workflow/state-machine.ts).  Nothing here has state: the    *)
(* modules that change an agreement's status look the edge up here, as     *)
(* WorkflowService.transition does through assertTransition.               *)
(***************************************************************************)

AgreementState ==
  {"DRAFT", "READY_FOR_AGENT_SIGNATURE", "AGENT_SIGNING", "AGENT_SIGNED",
   "PENDING_EMPLOYEE_APPROVAL", "EMPLOYEE_APPROVING", "EMPLOYEE_APPROVED",
   "PENDING_EMPLOYEE_SIGNATURE", "EMPLOYEE_SIGNING", "EMPLOYEE_SIGNED",
   "PENDING_MD_SIGNATURE", "MD_SIGNING", "COMPLETED", "REJECTED",
   "CANCELLED", "EXPIRED", "SIGNATURE_FAILED"}

WorkflowAction ==
  {"GENERATE", "AGENT_SIGN_INITIATE", "AGENT_SIGN_SUCCEED", "AGENT_SIGN_FAIL",
   "ADVANCE_TO_EMPLOYEE", "EMPLOYEE_SIGN_INITIATE", "EMPLOYEE_SIGN_SUCCEED",
   "EMPLOYEE_SIGN_FAIL", "ADVANCE_TO_MD", "MD_SIGN_INITIATE",
   "MD_SIGN_SUCCEED", "MD_SIGN_FAIL", "RETRY_AGENT_SIGNATURE",
   "RETRY_EMPLOYEE_SIGNATURE", "RETRY_MD_SIGNATURE", "REJECT",
   "EMPLOYEE_REJECT", "CANCEL", "EXPIRE", "CORRECT"}

(* The actions some service requests: nothing requests a RETRY edge.       *)
ServiceActions ==
  WorkflowAction \ {"RETRY_AGENT_SIGNATURE", "RETRY_EMPLOYEE_SIGNATURE", "RETRY_MD_SIGNATURE"}

Role == {"SUPER_ADMIN", "AGREEMENT_ADMIN", "AGENT", "EMPLOYEE", "MD",
         "MD_DELEGATE", "AUDITOR", "SYSTEM"}

Admins   == {"AGREEMENT_ADMIN", "SUPER_ADMIN"}
MdRoles  == {"MD", "MD_DELEGATE"}
System   == {"SYSTEM"}

-----------------------------------------------------------------------------
(* The edges: where an action starts, where it leads, who may request it.  *)

From(act) ==
  CASE act = "GENERATE"                 -> {"DRAFT"}
    [] act = "AGENT_SIGN_INITIATE"      -> {"READY_FOR_AGENT_SIGNATURE"}
    [] act \in {"AGENT_SIGN_SUCCEED", "AGENT_SIGN_FAIL"} -> {"AGENT_SIGNING"}
    [] act = "ADVANCE_TO_EMPLOYEE"      -> {"AGENT_SIGNED"}
    [] act = "EMPLOYEE_SIGN_INITIATE"   -> {"PENDING_EMPLOYEE_SIGNATURE"}
    [] act \in {"EMPLOYEE_SIGN_SUCCEED", "EMPLOYEE_SIGN_FAIL"} -> {"EMPLOYEE_SIGNING"}
    [] act = "ADVANCE_TO_MD"            -> {"EMPLOYEE_SIGNED"}
    [] act = "MD_SIGN_INITIATE"         -> {"PENDING_MD_SIGNATURE"}
    [] act \in {"MD_SIGN_SUCCEED", "MD_SIGN_FAIL"} -> {"MD_SIGNING"}
    [] act \in {"RETRY_AGENT_SIGNATURE", "RETRY_EMPLOYEE_SIGNATURE",
                "RETRY_MD_SIGNATURE"}   -> {"SIGNATURE_FAILED"}
    [] act = "REJECT"                   -> {"PENDING_MD_SIGNATURE", "MD_SIGNING"}
    [] act = "EMPLOYEE_REJECT"          -> {"PENDING_EMPLOYEE_SIGNATURE", "EMPLOYEE_SIGNING"}
    [] act = "CANCEL"                   ->
         AgreementState \ {"COMPLETED", "REJECTED", "CANCELLED", "EXPIRED"}
    [] act = "EXPIRE"                   ->
         {"READY_FOR_AGENT_SIGNATURE", "AGENT_SIGNING", "PENDING_EMPLOYEE_SIGNATURE",
          "EMPLOYEE_SIGNING", "PENDING_MD_SIGNATURE", "MD_SIGNING", "SIGNATURE_FAILED"}
    [] OTHER -> {"REJECTED", "EXPIRED"}                    \* CORRECT

To(act) ==
  CASE act \in {"GENERATE", "RETRY_AGENT_SIGNATURE"} -> "READY_FOR_AGENT_SIGNATURE"
    [] act = "AGENT_SIGN_INITIATE"      -> "AGENT_SIGNING"
    [] act = "AGENT_SIGN_SUCCEED"       -> "AGENT_SIGNED"
    [] act \in {"ADVANCE_TO_EMPLOYEE", "RETRY_EMPLOYEE_SIGNATURE"} -> "PENDING_EMPLOYEE_SIGNATURE"
    [] act = "EMPLOYEE_SIGN_INITIATE"   -> "EMPLOYEE_SIGNING"
    [] act = "EMPLOYEE_SIGN_SUCCEED"    -> "EMPLOYEE_SIGNED"
    [] act \in {"ADVANCE_TO_MD", "RETRY_MD_SIGNATURE"} -> "PENDING_MD_SIGNATURE"
    [] act = "MD_SIGN_INITIATE"         -> "MD_SIGNING"
    [] act = "MD_SIGN_SUCCEED"          -> "COMPLETED"
    [] act \in {"AGENT_SIGN_FAIL", "EMPLOYEE_SIGN_FAIL", "MD_SIGN_FAIL"} -> "SIGNATURE_FAILED"
    [] act \in {"REJECT", "EMPLOYEE_REJECT"} -> "REJECTED"
    [] act = "CANCEL"                   -> "CANCELLED"
    [] act = "EXPIRE"                   -> "EXPIRED"
    [] OTHER -> "DRAFT"                                   \* CORRECT

RolesFor(act) ==
  CASE act \in {"GENERATE", "RETRY_AGENT_SIGNATURE", "CORRECT"} -> {"AGENT"} \cup Admins
    [] act = "AGENT_SIGN_INITIATE"      -> {"AGENT"}
    [] act \in {"EMPLOYEE_SIGN_INITIATE", "EMPLOYEE_REJECT"} -> {"EMPLOYEE"}
    [] act = "RETRY_EMPLOYEE_SIGNATURE" -> {"EMPLOYEE"} \cup Admins
    [] act \in {"MD_SIGN_INITIATE", "REJECT"} -> MdRoles
    [] act = "RETRY_MD_SIGNATURE"       -> MdRoles \cup Admins
    [] act = "CANCEL"                   -> Admins
    [] OTHER                            -> System

RequiresReason(act) == act \in {"REJECT", "EMPLOYEE_REJECT", "CANCEL"}

-----------------------------------------------------------------------------

AbsolutelyTerminal == {"COMPLETED", "CANCELLED"}
VersionTerminal    == {"REJECTED", "EXPIRED"}
IsTerminal(s)      == s \in AbsolutelyTerminal \cup VersionTerminal

(* States in which the SLA clock is started: a human is being waited on.   *)
PendingActionStates ==
  {"READY_FOR_AGENT_SIGNATURE", "PENDING_EMPLOYEE_SIGNATURE", "PENDING_MD_SIGNATURE"}

(* Mutant: the state is not checked, only who asks.                        *)
AssertTransition_NoState(from, act, actorRoles, hasReason) ==
  /\ RolesFor(act) \cap actorRoles # {}
  /\ RequiresReason(act) => hasReason

(* assertTransition: the state, then the role, then the reason.            *)
AssertTransition(from, act, actorRoles, hasReason) ==
  /\ from \in From(act)
  /\ RolesFor(act) \cap actorRoles # {}
  /\ RequiresReason(act) => hasReason

AvailableActions(from, actorRoles) ==
  {act \in WorkflowAction : from \in From(act) /\ RolesFor(act) \cap actorRoles # {}}

(* Which signature a state is waiting on; "NONE" is the code's null.       *)
PendingSigner(s) ==
  CASE s \in {"READY_FOR_AGENT_SIGNATURE", "AGENT_SIGNING"}    -> "AGENT"
    [] s \in {"PENDING_EMPLOYEE_SIGNATURE", "EMPLOYEE_SIGNING"} -> "EMPLOYEE"
    [] s \in {"PENDING_MD_SIGNATURE", "MD_SIGNING"}             -> "MD"
    [] OTHER                                                    -> "NONE"

=============================================================================
