------------------------- MODULE AgreementLifecycle -------------------------
(***************************************************************************)
(* What the workflow promises about an agreement, with every committed     *)
(* transition one atomic step: the status moves along the table's edges,   *)
(* the SLA clock runs while a person is waited on, a correction opens the  *)
(* next version.  It is the row lock of WorkflowService that makes it one  *)
(* step (AuditChain has the lock and what waits on it).  Signing, with its *)
(* documents, ceremonies and crashes, implements this specification.       *)
(***************************************************************************)
EXTENDS StateMachine, Naturals

CONSTANTS
  Agreements,      \* the agreement records
  Requestable,     \* the workflow actions some service actually requests
  MaxVersion       \* bound on current_version: corrections stop there

RetryActions ==
  {"RETRY_AGENT_SIGNATURE", "RETRY_EMPLOYEE_SIGNATURE", "RETRY_MD_SIGNATURE"}

ASSUME RequestableAssumption == Requestable \subseteq WorkflowAction
ASSUME MaxVersionAssumption  == MaxVersion \in Nat \ {0}

VARIABLES
  status,    \* agreements.status
  version,   \* agreements.current_version
  due,       \* agreements.expires_at: "none" (null), "running", "lapsed"
  entered    \* to_state of the workflow_transitions rows of current_version

vars == <<status, version, due, entered>>

TypeOK ==
  /\ status  \in [Agreements -> AgreementState]
  /\ version \in [Agreements -> 1..MaxVersion]
  /\ due     \in [Agreements -> {"none", "running", "lapsed"}]
  /\ entered \in [Agreements -> SUBSET AgreementState]

Init ==
  /\ status  = [a \in Agreements |-> "DRAFT"]
  /\ version = [a \in Agreements |-> 1]
  /\ due     = [a \in Agreements |-> "none"]
  /\ entered = [a \in Agreements |-> {}]

-----------------------------------------------------------------------------
(* Mutant: the SLA clock is not started.                                   *)
Deadline_NotStarted(to, d) == d

(* The deadline written with a status: landing on a person restarts it     *)
(* unless the caller's patch says otherwise; nothing else touches it.      *)
Deadline(to, d) == IF to \in PendingActionStates THEN "running" ELSE d

(* Some caller holds a role, and gives a reason, that the edge accepts.    *)
Permitted(from, act) ==
  /\ act \in Requestable
  /\ \E role \in Role, hasReason \in BOOLEAN :
       AssertTransition(from, act, {role}, hasReason)

(* The actions whose callers patch columns beside the status.              *)
PatchingActions == {"REJECT", "EMPLOYEE_REJECT", "MD_SIGN_SUCCEED", "CORRECT"}

(* Actions taken only as the first half of a chain, or as its second.      *)
ChainedActions ==
  {"AGENT_SIGN_SUCCEED", "ADVANCE_TO_EMPLOYEE", "EMPLOYEE_SIGN_SUCCEED", "ADVANCE_TO_MD"}

(* WorkflowService.transition with no patch.                               *)
Transition(a, act) ==
  /\ act \notin PatchingActions \cup ChainedActions
  /\ Permitted(status[a], act)
  /\ status'  = [status EXCEPT ![a] = To(act)]
  /\ due'     = [due EXCEPT ![a] = Deadline(To(act), @)]
  /\ entered' = [entered EXCEPT ![a] = @ \cup {To(act)}]
  /\ UNCHANGED version

(* transitionChain: the signature succeeds and the agreement moves to the  *)
(* next signer in one commit.                                              *)
Chain(a, succeed, advance) ==
  /\ Permitted(status[a], succeed)
  /\ Permitted(To(succeed), advance)
  /\ status'  = [status EXCEPT ![a] = To(advance)]
  /\ due'     = [due EXCEPT ![a] = Deadline(To(advance), @)]
  /\ entered' = [entered EXCEPT ![a] = @ \cup {To(succeed), To(advance)}]
  /\ UNCHANGED version

(* reject, and the MD's signature, clear expires_at with the status.       *)
TransitionClearingDeadline(a, act) ==
  /\ act \in {"REJECT", "EMPLOYEE_REJECT", "MD_SIGN_SUCCEED"}
  /\ Permitted(status[a], act)
  /\ status'  = [status EXCEPT ![a] = To(act)]
  /\ due'     = [due EXCEPT ![a] = "none"]
  /\ entered' = [entered EXCEPT ![a] = @ \cup {To(act)}]
  /\ UNCHANGED version

(* Mutant: a correction reopens the same version.                          *)
Correct_SameVersion(a) ==
  /\ Permitted(status[a], "CORRECT")
  /\ version[a] < MaxVersion
  /\ status' = [status EXCEPT ![a] = To("CORRECT")]
  /\ due'    = [due EXCEPT ![a] = "none"]
  /\ UNCHANGED <<version, entered>>

(* correct: version N+1 opens at DRAFT with nothing entered.               *)
Correct(a) ==
  /\ Permitted(status[a], "CORRECT")
  /\ version[a] < MaxVersion
  /\ status'  = [status EXCEPT ![a] = To("CORRECT")]
  /\ version' = [version EXCEPT ![a] = @ + 1]
  /\ due'     = [due EXCEPT ![a] = "none"]
  /\ entered' = [entered EXCEPT ![a] = {}]

(* Time: expires_at falls behind the clock.                                *)
Lapse(a) ==
  /\ due[a] = "running"
  /\ due' = [due EXCEPT ![a] = "lapsed"]
  /\ UNCHANGED <<status, version, entered>>

Next ==
  \E a \in Agreements :
    \/ \E act \in WorkflowAction : Transition(a, act)
    \/ Chain(a, "AGENT_SIGN_SUCCEED", "ADVANCE_TO_EMPLOYEE")
    \/ Chain(a, "EMPLOYEE_SIGN_SUCCEED", "ADVANCE_TO_MD")
    \/ \E act \in WorkflowAction : TransitionClearingDeadline(a, act)
    \/ Correct(a)
    \/ Lapse(a)

Spec == Init /\ [][Next]_vars

-----------------------------------------------------------------------------
(* Properties.                                                             *)

AfterAgent    == {"PENDING_EMPLOYEE_SIGNATURE", "EMPLOYEE_SIGNING", "EMPLOYEE_SIGNED"}
AfterEmployee == {"PENDING_MD_SIGNATURE", "MD_SIGNING", "COMPLETED"}

(* BR-002, BR-003: on the current version the employee is not reached      *)
(* before the agent has signed, nor the MD before both have, and an        *)
(* employee signature is never recorded without the agent's.               *)
SignedInOrder ==
  \A a \in Agreements :
    /\ status[a] \in AfterAgent    => "AGENT_SIGNED" \in entered[a]
    /\ status[a] \in AfterEmployee => {"AGENT_SIGNED", "EMPLOYEE_SIGNED"} \subseteq entered[a]
    /\ "EMPLOYEE_SIGNED" \in entered[a] => "AGENT_SIGNED" \in entered[a]

(* FR-021: every state the SLA sweep may expire has a deadline, so no      *)
(* agreement waits on a person, or on a ceremony, without one.             *)
WaitingHasDeadline ==
  \A a \in Agreements : status[a] \in From("EXPIRE") => due[a] # "none"

(* transitionChain: an agreement is never left signed but waiting on       *)
(* nobody, and the attested-click states are never entered again.          *)
NeverParked ==
  \A a \in Agreements :
    status[a] \notin {"AGENT_SIGNED", "EMPLOYEE_SIGNED", "PENDING_EMPLOYEE_APPROVAL",
                      "EMPLOYEE_APPROVING", "EMPLOYEE_APPROVED"}

(* BR-005: COMPLETED and CANCELLED are final, and FR-015a: REJECTED and    *)
(* EXPIRED are left only by opening the next version, which carries        *)
(* nothing over.                                                           *)
TerminalStays ==
  [][\A a \in Agreements :
       /\ status[a] \in AbsolutelyTerminal => status'[a] = status[a]
       /\ status[a] \in VersionTerminal /\ status'[a] # status[a] =>
            /\ status'[a] = "DRAFT"
            /\ version'[a] = version[a] + 1
            /\ entered'[a] = {}]_vars

(* The edges and pendingSigner agree: a lone signing role has nothing to   *)
(* do on an agreement that waits on another signer, except that the agent  *)
(* may generate and correct.  It is what keeps the employee from rejecting *)
(* after signing.                                                          *)
ActsOnOwnTurn ==
  \A a \in Agreements, signer \in {"AGENT", "EMPLOYEE", "MD"} :
    AvailableActions(status[a], {signer}) \cap Requestable # {} =>
      \/ PendingSigner(status[a]) = signer
      \/ signer = "AGENT" /\ status[a] \in {"DRAFT", "REJECTED", "EXPIRED"}

=============================================================================
