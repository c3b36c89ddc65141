-------------------------- MODULE LifecycleProofs --------------------------
(***************************************************************************)
(* Theorems about AgreementLifecycle for any set of agreements, any bound  *)
(* on versions and, where no retry edge is requested, any set of           *)
(* requestable actions.                                                    *)
(***************************************************************************)
EXTENDS AgreementLifecycle, TLAPS

(* No service requests a RETRY edge: the hypothesis of the sequencing      *)
(* theorem, and a fact about the callers of WorkflowService.               *)
NoRetry == Requestable \cap RetryActions = {}

-----------------------------------------------------------------------------
(* The table.                                                              *)

(* Every edge leads to a state of the enumeration.                         *)
LEMMA ToIsState ==
  ASSUME NEW act \in WorkflowAction
  PROVE  To(act) \in AgreementState
BY DEF WorkflowAction, To, AgreementState

(* BR-005 in the table: no edge leaves COMPLETED or CANCELLED, and only    *)
(* CORRECT leaves REJECTED or EXPIRED.                                     *)
LEMMA NoEdgeFromTerminal ==
  ASSUME NEW act \in WorkflowAction
  PROVE  /\ From(act) \cap AbsolutelyTerminal = {}
         /\ From(act) \cap VersionTerminal # {} => act = "CORRECT"
BY DEF WorkflowAction, From, AbsolutelyTerminal, VersionTerminal, AgreementState

(* What a permitted action tells of the state it leaves.                   *)
LEMMA PermittedFrom ==
  ASSUME NEW s, NEW act, Permitted(s, act)
  PROVE  s \in From(act) /\ act \in Requestable /\ act \in WorkflowAction
BY RequestableAssumption DEF Permitted, AssertTransition

-----------------------------------------------------------------------------
(* Type correctness, for any Requestable.                                  *)

LEMMA InitType == Init => TypeOK
BY MaxVersionAssumption DEF Init, TypeOK, AgreementState

LEMMA NextType == TypeOK /\ [Next]_vars => TypeOK'
<1> SUFFICES ASSUME TypeOK, [Next]_vars PROVE TypeOK'
  OBVIOUS
<1>1. CASE UNCHANGED vars
  BY <1>1 DEF TypeOK, vars
<1>2. ASSUME NEW a \in Agreements, NEW act \in WorkflowAction, Transition(a, act)
      PROVE  TypeOK'
  BY <1>2, ToIsState DEF TypeOK, Transition, Deadline
<1>3. ASSUME NEW a \in Agreements, NEW succeed \in WorkflowAction,
             NEW advance \in WorkflowAction, Chain(a, succeed, advance)
      PROVE  TypeOK'
  BY <1>3, ToIsState DEF TypeOK, Chain, Deadline
<1>4. ASSUME NEW a \in Agreements, NEW act \in WorkflowAction,
             TransitionClearingDeadline(a, act)
      PROVE  TypeOK'
  BY <1>4, ToIsState DEF TypeOK, TransitionClearingDeadline
<1>5. ASSUME NEW a \in Agreements, Correct(a) PROVE TypeOK'
  BY <1>5, MaxVersionAssumption DEF TypeOK, Correct, To, AgreementState
<1>6. ASSUME NEW a \in Agreements, Lapse(a) PROVE TypeOK'
  BY <1>6 DEF TypeOK, Lapse
<1>7. {"AGENT_SIGN_SUCCEED", "ADVANCE_TO_EMPLOYEE", "EMPLOYEE_SIGN_SUCCEED",
       "ADVANCE_TO_MD"} \subseteq WorkflowAction
  BY DEF WorkflowAction
<1> QED
  BY <1>1, <1>2, <1>3, <1>4, <1>5, <1>6, <1>7 DEF Next

(* The columns keep their types whatever actions are requested.            *)
THEOREM TypeCorrect == Spec => []TypeOK
<1>1. Init => TypeOK
  BY InitType
<1>2. TypeOK /\ [Next]_vars => TypeOK'
  BY NextType
<1> QED
  BY <1>1, <1>2, PTL DEF Spec

-----------------------------------------------------------------------------
(* BR-002 and BR-003: the sequencing invariant is inductive on its own.    *)

LEMMA OrderStep ==
  ASSUME NoRetry, TypeOK, SignedInOrder, [Next]_vars
  PROVE  SignedInOrder'
<1>1. CASE UNCHANGED vars
  BY <1>1 DEF SignedInOrder, vars
<1>2. ASSUME NEW a \in Agreements, NEW act \in WorkflowAction, Transition(a, act)
      PROVE  SignedInOrder'
  <2>1. /\ status[a] \in From(act)
        /\ act \notin RetryActions \cup PatchingActions \cup ChainedActions
    BY <1>2, PermittedFrom DEF Transition, NoRetry
  <2>2. /\ To(act) \in AfterAgent => status[a] \in AfterAgent
        /\ To(act) \in AfterEmployee => status[a] \in AfterEmployee
        /\ To(act) # "EMPLOYEE_SIGNED"
    BY <2>1 DEF WorkflowAction, RetryActions, PatchingActions, ChainedActions,
                From, To, AfterAgent, AfterEmployee
  <2> QED
    BY <1>2, <2>2 DEF Transition, SignedInOrder, TypeOK
<1>3. ASSUME NEW a \in Agreements, Chain(a, "AGENT_SIGN_SUCCEED", "ADVANCE_TO_EMPLOYEE")
      PROVE  SignedInOrder'
  <2>1. /\ To("AGENT_SIGN_SUCCEED") = "AGENT_SIGNED"
        /\ To("ADVANCE_TO_EMPLOYEE") = "PENDING_EMPLOYEE_SIGNATURE"
    BY DEF To
  <2> QED
    BY <1>3, <2>1 DEF Chain, SignedInOrder, TypeOK, AfterAgent, AfterEmployee
<1>4. ASSUME NEW a \in Agreements, Chain(a, "EMPLOYEE_SIGN_SUCCEED", "ADVANCE_TO_MD")
      PROVE  SignedInOrder'
  <2>1. status[a] \in From("EMPLOYEE_SIGN_SUCCEED")
    BY <1>4, PermittedFrom DEF Chain
  <2>2. "AGENT_SIGNED" \in entered[a]
    BY <2>1 DEF From, SignedInOrder, AfterAgent
  <2>3. /\ To("EMPLOYEE_SIGN_SUCCEED") = "EMPLOYEE_SIGNED"
        /\ To("ADVANCE_TO_MD") = "PENDING_MD_SIGNATURE"
    BY DEF To
  <2> QED
    BY <1>4, <2>2, <2>3 DEF Chain, SignedInOrder, TypeOK, AfterAgent, AfterEmployee
<1>5. ASSUME NEW a \in Agreements, NEW act \in WorkflowAction,
             TransitionClearingDeadline(a, act)
      PROVE  SignedInOrder'
  <2>1. /\ status[a] \in From(act)
        /\ act \in {"REJECT", "EMPLOYEE_REJECT", "MD_SIGN_SUCCEED"}
    BY <1>5, PermittedFrom DEF TransitionClearingDeadline
  <2>2. /\ To(act) \notin AfterAgent
        /\ To(act) \in AfterEmployee => status[a] \in AfterEmployee
        /\ To(act) # "EMPLOYEE_SIGNED"
    BY <2>1 DEF From, To, AfterAgent, AfterEmployee
  <2> QED
    BY <1>5, <2>2 DEF TransitionClearingDeadline, SignedInOrder, TypeOK
<1>6. ASSUME NEW a \in Agreements, Correct(a) PROVE SignedInOrder'
  <2>1. To("CORRECT") = "DRAFT"
    BY DEF To
  <2> QED
    BY <1>6, <2>1 DEF Correct, SignedInOrder, TypeOK, AfterAgent, AfterEmployee
<1>7. ASSUME NEW a \in Agreements, Lapse(a) PROVE SignedInOrder'
  BY <1>7 DEF Lapse, SignedInOrder
<1> QED
  BY <1>1, <1>2, <1>3, <1>4, <1>5, <1>6, <1>7 DEF Next

(* Where no retry edge is requested, the agent, the employee and the MD    *)
(* execute each version in that order (BR-002, BR-003).                    *)
THEOREM SequencingHolds ==
  ASSUME NoRetry
  PROVE  Spec => []SignedInOrder
<1>1. Init => SignedInOrder
  BY DEF Init, SignedInOrder, AfterAgent, AfterEmployee
<1>2. TypeOK /\ SignedInOrder /\ [Next]_vars => SignedInOrder'
  BY OrderStep
<1> QED
  BY <1>1, <1>2, TypeCorrect, PTL DEF Spec

-----------------------------------------------------------------------------
(* FR-021: the deadline, for any Requestable.                              *)

LEMMA DeadlineStep ==
  ASSUME TypeOK, WaitingHasDeadline, [Next]_vars
  PROVE  WaitingHasDeadline'
<1>1. CASE UNCHANGED vars
  BY <1>1 DEF WaitingHasDeadline, vars
<1>2. ASSUME NEW a \in Agreements, NEW act \in WorkflowAction, Transition(a, act)
      PROVE  WaitingHasDeadline'
  <2>1. status[a] \in From(act) /\ act \notin PatchingActions \cup ChainedActions
    BY <1>2, PermittedFrom DEF Transition
  <2>2. To(act) \in From("EXPIRE") =>
          To(act) \in PendingActionStates \/ status[a] \in From("EXPIRE")
    BY <2>1 DEF WorkflowAction, PatchingActions, ChainedActions, From, To,
                PendingActionStates
  <2> QED
    BY <1>2, <2>2 DEF Transition, WaitingHasDeadline, TypeOK, Deadline
<1>3. ASSUME NEW a \in Agreements, NEW succeed \in WorkflowAction,
             NEW advance \in {"ADVANCE_TO_EMPLOYEE", "ADVANCE_TO_MD"},
             Chain(a, succeed, advance)
      PROVE  WaitingHasDeadline'
  <2>1. To(advance) \in PendingActionStates
    BY DEF To, PendingActionStates
  <2> QED
    BY <1>3, <2>1 DEF Chain, WaitingHasDeadline, TypeOK, Deadline
<1>4. ASSUME NEW a \in Agreements, NEW act \in WorkflowAction,
             TransitionClearingDeadline(a, act)
      PROVE  WaitingHasDeadline'
  <2>1. To(act) \notin From("EXPIRE")
    BY <1>4 DEF TransitionClearingDeadline, To, From
  <2> QED
    BY <1>4, <2>1 DEF TransitionClearingDeadline, WaitingHasDeadline, TypeOK
<1>5. ASSUME NEW a \in Agreements, Correct(a) PROVE WaitingHasDeadline'
  <2>1. To("CORRECT") \notin From("EXPIRE")
    BY DEF To, From
  <2> QED
    BY <1>5, <2>1 DEF Correct, WaitingHasDeadline, TypeOK
<1>6. ASSUME NEW a \in Agreements, Lapse(a) PROVE WaitingHasDeadline'
  BY <1>6 DEF Lapse, WaitingHasDeadline, TypeOK
<1>7. {"AGENT_SIGN_SUCCEED", "EMPLOYEE_SIGN_SUCCEED"} \subseteq WorkflowAction
  BY DEF WorkflowAction
<1> QED
  BY <1>1, <1>2, <1>3, <1>4, <1>5, <1>6, <1>7 DEF Next

(* Every state the sweep may expire carries a deadline, retries included.  *)
THEOREM DeadlineHolds == Spec => []WaitingHasDeadline
<1>1. Init => WaitingHasDeadline
  BY DEF Init, WaitingHasDeadline, From
<1>2. TypeOK /\ WaitingHasDeadline /\ [Next]_vars => WaitingHasDeadline'
  BY DeadlineStep
<1> QED
  BY <1>1, <1>2, TypeCorrect, PTL DEF Spec

-----------------------------------------------------------------------------
(* BR-005 and FR-015a as an action property.                               *)

LEMMA TerminalStep ==
  ASSUME TypeOK, [Next]_vars, NEW a \in Agreements
  PROVE  /\ status[a] \in AbsolutelyTerminal => status'[a] = status[a]
         /\ status[a] \in VersionTerminal /\ status'[a] # status[a] =>
              /\ status'[a] = "DRAFT"
              /\ version'[a] = version[a] + 1
              /\ entered'[a] = {}
<1>1. CASE UNCHANGED vars
  BY <1>1 DEF vars
<1>2. ASSUME NEW b \in Agreements, NEW act \in WorkflowAction,
             act # "CORRECT", Permitted(status[b], act)
      PROVE  status[b] \notin AbsolutelyTerminal \cup VersionTerminal
  BY <1>2, PermittedFrom, NoEdgeFromTerminal
<1>3. ASSUME NEW b \in Agreements, NEW act \in WorkflowAction, Transition(b, act)
      PROVE  status'[a] = status[a] \/ status[a] \notin AbsolutelyTerminal \cup VersionTerminal
  BY <1>2, <1>3 DEF Transition, TypeOK, PatchingActions
<1>4. ASSUME NEW b \in Agreements, NEW succeed \in WorkflowAction \ {"CORRECT"},
             NEW advance \in WorkflowAction, Chain(b, succeed, advance)
      PROVE  status'[a] = status[a] \/ status[a] \notin AbsolutelyTerminal \cup VersionTerminal
  BY <1>2, <1>4 DEF Chain, TypeOK
<1>5. ASSUME NEW b \in Agreements, NEW act \in WorkflowAction,
             TransitionClearingDeadline(b, act)
      PROVE  status'[a] = status[a] \/ status[a] \notin AbsolutelyTerminal \cup VersionTerminal
  BY <1>2, <1>5 DEF TransitionClearingDeadline, TypeOK
<1>6. ASSUME NEW b \in Agreements, Correct(b)
      PROVE  \/ status'[a] = status[a]
             \/ /\ status[a] \notin AbsolutelyTerminal
                /\ status'[a] = "DRAFT"
                /\ version'[a] = version[a] + 1
                /\ entered'[a] = {}
  <2>1. status[b] \in From("CORRECT") /\ "CORRECT" \in WorkflowAction
    BY <1>6, PermittedFrom DEF Correct
  <2>2. status[b] \notin AbsolutelyTerminal /\ To("CORRECT") = "DRAFT"
    BY <2>1 DEF From, To, AbsolutelyTerminal
  <2> QED
    BY <1>6, <2>2 DEF Correct, TypeOK
<1>7. ASSUME NEW b \in Agreements, Lapse(b) PROVE status'[a] = status[a]
  BY <1>7 DEF Lapse
<1>8. {"AGENT_SIGN_SUCCEED", "ADVANCE_TO_EMPLOYEE", "EMPLOYEE_SIGN_SUCCEED",
       "ADVANCE_TO_MD"} \subseteq WorkflowAction \ {"CORRECT"}
  BY DEF WorkflowAction
<1> QED
  BY <1>1, <1>3, <1>4, <1>5, <1>6, <1>7, <1>8 DEF Next

(* COMPLETED and CANCELLED are final; REJECTED and EXPIRED are left only   *)
(* into the next version, whatever actions are requested.                  *)
THEOREM TerminalHolds == Spec => TerminalStays
<1>1. TypeOK /\ [Next]_vars =>
        [\A a \in Agreements :
           /\ status[a] \in AbsolutelyTerminal => status'[a] = status[a]
           /\ status[a] \in VersionTerminal /\ status'[a] # status[a] =>
                /\ status'[a] = "DRAFT"
                /\ version'[a] = version[a] + 1
                /\ entered'[a] = {}]_vars
  BY TerminalStep
<1> QED
  BY <1>1, TypeCorrect, PTL DEF Spec, TerminalStays

-----------------------------------------------------------------------------
(* Parking, and the turn-taking of the table.                              *)

LEMMA ParkedStep ==
  ASSUME TypeOK, NeverParked, [Next]_vars
  PROVE  NeverParked'
<1>1. CASE UNCHANGED vars
  BY <1>1 DEF NeverParked, vars
<1>2. ASSUME NEW a \in Agreements, NEW act \in WorkflowAction, Transition(a, act)
      PROVE  NeverParked'
  BY <1>2 DEF Transition, NeverParked, TypeOK, WorkflowAction, PatchingActions,
              ChainedActions, To
<1>3. ASSUME NEW a \in Agreements, NEW succeed,
             NEW advance \in {"ADVANCE_TO_EMPLOYEE", "ADVANCE_TO_MD"},
             Chain(a, succeed, advance)
      PROVE  NeverParked'
  BY <1>3 DEF Chain, NeverParked, TypeOK, To
<1>4. ASSUME NEW a \in Agreements, NEW act \in WorkflowAction,
             TransitionClearingDeadline(a, act)
      PROVE  NeverParked'
  BY <1>4 DEF TransitionClearingDeadline, NeverParked, TypeOK, To
<1>5. ASSUME NEW a \in Agreements, Correct(a) PROVE NeverParked'
  BY <1>5 DEF Correct, NeverParked, TypeOK, To
<1>6. ASSUME NEW a \in Agreements, Lapse(a) PROVE NeverParked'
  BY <1>6 DEF Lapse, NeverParked
<1> QED
  BY <1>1, <1>2, <1>3, <1>4, <1>5, <1>6 DEF Next

(* No commit leaves an agreement signed but waiting on nobody.             *)
THEOREM NeverParkedHolds == Spec => []NeverParked
<1>1. Init => NeverParked
  BY DEF Init, NeverParked
<1>2. TypeOK /\ NeverParked /\ [Next]_vars => NeverParked'
  BY ParkedStep
<1> QED
  BY <1>1, <1>2, TypeCorrect, PTL DEF Spec

(* A lone signer can act only while pendingSigner names it, except for the *)
(* agent's drafting and correcting.                                        *)
THEOREM TurnsHold ==
  ASSUME NoRetry
  PROVE  Spec => []ActsOnOwnTurn
<1>1. TypeOK => ActsOnOwnTurn
  <2> SUFFICES ASSUME TypeOK, NEW a \in Agreements,
                      NEW signer \in {"AGENT", "EMPLOYEE", "MD"},
                      NEW act \in AvailableActions(status[a], {signer}) \cap Requestable
               PROVE  \/ PendingSigner(status[a]) = signer
                      \/ signer = "AGENT" /\ status[a] \in {"DRAFT", "REJECTED", "EXPIRED"}
    BY DEF ActsOnOwnTurn
  <2>1. /\ act \in WorkflowAction \ RetryActions
        /\ status[a] \in From(act)
        /\ signer \in RolesFor(act)
    BY DEF AvailableActions, NoRetry
  <2> QED
    BY <2>1 DEF WorkflowAction, RetryActions, From, RolesFor, Admins, MdRoles,
                System, PendingSigner
<1> QED
  BY <1>1, TypeCorrect, PTL

=============================================================================
