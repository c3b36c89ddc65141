--------------------------- MODULE DraftingProofs ---------------------------
(***************************************************************************)
(* Theorems about Drafting, for any agreements, papers, handlers and bound *)
(* on versions: what a stamp paper serves, what a version is printed on,   *)
(* and whether it holds the data that was saved.  And, at the end, about   *)
(* StampIntake, for any papers, operators and readings: when a paper is    *)
(* recognised as one that is already in the inventory.                     *)
(***************************************************************************)
EXTENDS MCDrafting, FiniteSetTheorems, SequenceTheorems, WellFoundedInduction, TLAPS

(* The theorems of the workflow, for the actions the services request.     *)
Lifecycle == INSTANCE LifecycleProofs WITH Requestable <- ServiceActions

(* Both instances of AgreementLifecycle speak of the same steps.           *)
LEMMA SameNext == Workflow!Next <=> Lifecycle!Next
BY Zenon
DEF Workflow!Next, Lifecycle!Next, Workflow!Transition, Lifecycle!Transition,
    Workflow!Chain, Lifecycle!Chain, Workflow!Correct, Lifecycle!Correct,
    Workflow!TransitionClearingDeadline, Lifecycle!TransitionClearingDeadline,
    Workflow!Lapse, Lifecycle!Lapse, Workflow!Deadline, Lifecycle!Deadline,
    Workflow!Permitted, Lifecycle!Permitted, Workflow!PatchingActions,
    Lifecycle!PatchingActions, Workflow!ChainedActions, Lifecycle!ChainedActions,
    Workflow!PendingActionStates, Lifecycle!PendingActionStates,
    Workflow!AssertTransition, Lifecycle!AssertTransition,
    Workflow!From, Lifecycle!From, Workflow!To, Lifecycle!To,
    Workflow!RolesFor, Lifecycle!RolesFor, Workflow!Admins, Lifecycle!Admins,
    Workflow!MdRoles, Lifecycle!MdRoles, Workflow!System, Lifecycle!System,
    Workflow!RequiresReason, Lifecycle!RequiresReason,
    Workflow!AgreementState, Lifecycle!AgreementState,
    Workflow!WorkflowAction, Lifecycle!WorkflowAction, Workflow!Role, Lifecycle!Role

(* The states that lie behind a generation.                                *)
Generated == AgreementState \ {"DRAFT", "CANCELLED"}

-----------------------------------------------------------------------------
(* The workflow's part of a step.                                          *)

(* What an action leads to, and from where.                                *)
LEMMA Edges ==
  ASSUME NEW act \in WorkflowAction
  PROVE  /\ Workflow!To(act) \in AgreementState
         /\ "COMPLETED" \notin Workflow!From(act)
         /\ Workflow!To(act) = "COMPLETED" => act = "MD_SIGN_SUCCEED"
         /\ act # "GENERATE" /\ Workflow!To(act) \in Generated => Workflow!From(act) \subseteq Generated
BY DEF WorkflowAction, AgreementState, Generated, Workflow!To, Workflow!From, Workflow!AgreementState

LEMMA PermittedFrom ==
  ASSUME NEW s, NEW act, Workflow!Permitted(s, act)
  PROVE  act \in WorkflowAction /\ s \in Workflow!From(act)
BY DEF Workflow!Permitted, Workflow!AssertTransition, ServiceActions

(* One agreement moves along an edge of the table that is not a generation,*)
(* or along two of them at once.                                           *)
Moves(a) ==
  \E s \in AgreementState :
    /\ status' = [status EXCEPT ![a] = s]
    /\ status[a] # "COMPLETED" /\ s # "COMPLETED"
    /\ s \in Generated => status[a] \in Generated

LEMMA TransitionMoves ==
  ASSUME NEW a \in Agreements, NEW act \in WorkflowAction \ {"GENERATE"}, Workflow!Transition(a, act)
  PROVE  Moves(a)
<1>1. act # "MD_SIGN_SUCCEED"
  BY DEF Workflow!Transition, Workflow!PatchingActions
<1>2. status[a] \in Workflow!From(act)
  BY PermittedFrom DEF Workflow!Transition
<1> QED
  BY <1>1, <1>2, Edges DEF Workflow!Transition, Moves

LEMMA ChainMoves ==
  ASSUME NEW a \in Agreements, NEW succeed, NEW advance,
         <<succeed, advance>> \in {<<"AGENT_SIGN_SUCCEED", "ADVANCE_TO_EMPLOYEE">>,
                                   <<"EMPLOYEE_SIGN_SUCCEED", "ADVANCE_TO_MD">>},
         Workflow!Chain(a, succeed, advance)
  PROVE  Moves(a)
<1>1. status[a] \in Workflow!From(succeed) /\ status' = [status EXCEPT ![a] = Workflow!To(advance)]
  BY PermittedFrom DEF Workflow!Chain
<1>2. /\ Workflow!From(succeed) \subseteq Generated /\ "COMPLETED" \notin Workflow!From(succeed)
      /\ Workflow!To(advance) \in Generated \ {"COMPLETED"}
  BY DEF Workflow!From, Workflow!To, Generated, AgreementState
<1> QED
  BY <1>1, <1>2 DEF Moves, Generated

LEMMA RejectionMoves ==
  ASSUME NEW a \in Agreements, NEW act \in {"REJECT", "EMPLOYEE_REJECT"},
         Workflow!TransitionClearingDeadline(a, act)
  PROVE  Moves(a)
<1>1. act \in WorkflowAction /\ status[a] \in Workflow!From(act)
  BY PermittedFrom DEF Workflow!TransitionClearingDeadline
<1> QED
  BY <1>1, Edges DEF Workflow!TransitionClearingDeadline, Moves

LEMMA CorrectionMoves ==
  ASSUME NEW a \in Agreements, Workflow!Correct(a)
  PROVE  Moves(a)
<1>1. status[a] \in Workflow!From("CORRECT") /\ "CORRECT" \in WorkflowAction
  BY PermittedFrom DEF Workflow!Correct
<1> QED
  BY <1>1, Edges DEF Workflow!Correct, Moves

LEMMA ElsewhereMoves ==
  ASSUME NEW a \in Agreements, Elsewhere(a)
  PROVE  Moves(a)
BY TransitionMoves, ChainMoves, RejectionMoves, CorrectionMoves DEF Elsewhere

(* What a handler holds.                                                   *)
LEMMA HandlerWork ==
  ASSUME TypeOK, NEW p \in Handlers
  PROVE  /\ At(p, "allocate") => h[p] \in [pc : {"allocate"}, agr : Agreements, paper : Papers]
         /\ At(p, "edit") => 
              h[p] \in [pc : {"edit"}, agr : Agreements, field : Fields, merged : SUBSET Fields]
         /\ At(p, "generate") =>
              h[p] \in [pc : {"generate"}, agr : Agreements, ver : 1..MaxVersion, doc : Document]
BY DEF TypeOK, At, Idle

-----------------------------------------------------------------------------
(* Type correctness.                                                       *)

LEMMA WorkflowType ==
  ASSUME TypeOK, [Next]_vars
  PROVE  Workflow!TypeOK'
<1>0. Workflow!TypeOK
  BY DEF TypeOK
<1>1. CASE UNCHANGED agreementVars
  BY <1>0, <1>1 DEF agreementVars, Workflow!TypeOK
<1>2. ASSUME NEW a \in Agreements, NEW act \in WorkflowAction, Workflow!Transition(a, act)
      PROVE  Workflow!TypeOK'
  <2>1. Workflow!To(act) \in Workflow!AgreementState
    BY Edges DEF Workflow!AgreementState, AgreementState
  <2> QED
    BY <1>0, <1>2, <2>1 DEF Workflow!Transition, Workflow!Deadline, Workflow!TypeOK
<1>3. ASSUME NEW a \in Agreements, NEW succeed \in WorkflowAction, NEW advance \in WorkflowAction,
             Workflow!Chain(a, succeed, advance)
      PROVE  Workflow!TypeOK'
  <2>1. Workflow!To(succeed) \in Workflow!AgreementState /\ Workflow!To(advance) \in Workflow!AgreementState
    BY Edges DEF Workflow!AgreementState, AgreementState
  <2> QED
    BY <1>0, <1>3, <2>1 DEF Workflow!Chain, Workflow!Deadline, Workflow!TypeOK
<1>4. ASSUME NEW a \in Agreements, NEW act \in WorkflowAction,
             Workflow!TransitionClearingDeadline(a, act)
      PROVE  Workflow!TypeOK'
  <2>1. Workflow!To(act) \in Workflow!AgreementState
    BY Edges DEF Workflow!AgreementState, AgreementState
  <2> QED
    BY <1>0, <1>4, <2>1 DEF Workflow!TransitionClearingDeadline, Workflow!TypeOK
<1>5. ASSUME NEW a \in Agreements, Workflow!Correct(a) PROVE Workflow!TypeOK'
  BY <1>0, <1>5, VersionsAssumption DEF Workflow!Correct, Workflow!To, Workflow!AgreementState, Workflow!TypeOK
<1>6. {"GENERATE", "REJECT", "EMPLOYEE_REJECT", "MD_SIGN_SUCCEED", "AGENT_SIGN_SUCCEED",
       "ADVANCE_TO_EMPLOYEE", "EMPLOYEE_SIGN_SUCCEED", "ADVANCE_TO_MD"} \subseteq WorkflowAction
  BY DEF WorkflowAction
<1>7. ASSUME NEW a \in Agreements, Elsewhere(a) PROVE Workflow!TypeOK'
  BY <1>2, <1>3, <1>4, <1>5, <1>6, <1>7 DEF Elsewhere
<1>8. ASSUME NEW a \in Agreements, Complete(a) PROVE Workflow!TypeOK'
  BY <1>4, <1>6, <1>8 DEF Complete
<1>9. ASSUME NEW p \in Handlers, CommitGenerate(p) PROVE Workflow!TypeOK'
  <2>1. h[p].agr \in Agreements
    BY <1>9, HandlerWork DEF CommitGenerate
  <2> QED
    BY <1>2, <1>6, <1>9, <2>1 DEF CommitGenerate
<1> QED
  BY <1>1, <1>7, <1>8, <1>9 DEF Next, vars, agreementVars, BeginAllocate, BeginEdit, BeginGenerate,
     CommitAllocate, CommitEdit, GivesUp

LEMMA InitType == Init => TypeOK
BY VersionsAssumption DEF Init, TypeOK, Workflow!Init, Workflow!TypeOK, Workflow!AgreementState, Idle

LEMMA NextType == TypeOK /\ [Next]_vars => TypeOK'
<1> SUFFICES ASSUME TypeOK, [Next]_vars PROVE TypeOK'
  OBVIOUS
<1>0. Workflow!TypeOK'
  BY WorkflowType
<1>1. CASE UNCHANGED vars
  BY <1>0, <1>1 DEF vars, TypeOK
<1>2. ASSUME NEW p \in Handlers, NEW a \in Agreements, NEW n \in Papers, BeginAllocate(p, a, n)
      PROVE  TypeOK'
  BY <1>0, <1>2 DEF BeginAllocate, Goto, history, TypeOK
<1>3. ASSUME NEW p \in Handlers, NEW a \in Agreements, NEW f \in Fields, BeginEdit(p, a, f)
      PROVE  TypeOK'
  <2>1. data[a] \cup {f} \in SUBSET Fields
    BY DEF TypeOK
  <2> QED
    BY <1>0, <1>3, <2>1 DEF BeginEdit, Goto, history, TypeOK
<1>4. ASSUME NEW p \in Handlers, NEW a \in Agreements, BeginGenerate(p, a) PROVE TypeOK'
  <2>1. version[a] \in 1..MaxVersion /\ data[a] \in SUBSET Fields
    BY DEF TypeOK, Workflow!TypeOK
  <2>2. LoadStampScan(a) \subseteq {NoScan} \cup Papers
    BY DEF LoadStampScan, PapersOf
  <2>3. PICK scan \in LoadStampScan(a) :
          Goto(p, [pc |-> "generate", agr |-> a, ver |-> version[a],
                   doc |-> [data |-> data[a], scan |-> scan]])
    BY <1>4 DEF BeginGenerate
  <2>4. [pc |-> "generate", agr |-> a, ver |-> version[a], doc |-> [data |-> data[a], scan |-> scan]]
          \in [pc : {"generate"}, agr : Agreements, ver : 1..MaxVersion, doc : Document]
    BY <2>1, <2>2 DEF Document
  <2> QED
    BY <1>0, <1>4, <2>3, <2>4 DEF BeginGenerate, Goto, history, TypeOK
<1>5. ASSUME NEW p \in Handlers, CommitAllocate(p) PROVE TypeOK'
  BY <1>0, <1>5, HandlerWork DEF CommitAllocate, Returns, history, TypeOK
<1>o. ASSUME NEW p \in Handlers, NEW pcs, h[p].agr \in Agreements, Overlaps(p, pcs)
      PROVE  overlapped' \subseteq Agreements
  BY <1>o DEF Overlaps, TypeOK
<1>6. ASSUME NEW p \in Handlers, CommitEdit(p) PROVE TypeOK'
  <2>1. h[p].agr \in Agreements /\ h[p].field \in Fields /\ h[p].merged \in SUBSET Fields
    BY <1>6, HandlerWork DEF CommitEdit
  <2>2. acked' \in [Agreements -> SUBSET Fields] /\ overlapped' \subseteq Agreements
    BY <1>6, <1>o, <2>1 DEF CommitEdit, TypeOK
  <2> QED
    BY <1>0, <1>6, <2>1, <2>2 DEF CommitEdit, Returns, TypeOK
<1>7. ASSUME NEW p \in Handlers, CommitGenerate(p) PROVE TypeOK'
  <2>1. h[p].agr \in Agreements /\ h[p].ver \in 1..MaxVersion /\ h[p].doc \in Document
    BY <1>7, HandlerWork DEF CommitGenerate
  <2>2. docs' \in [Agreements -> [1..MaxVersion -> SUBSET Document]]
    BY <1>7, <2>1 DEF CommitGenerate, TypeOK
  <2>3. overlapped' \subseteq Agreements
    BY <1>7, <1>o, <2>1 DEF CommitGenerate
  <2> QED
    BY <1>0, <1>7, <2>2, <2>3 DEF CommitGenerate, Returns, TypeOK
<1>8. ASSUME NEW p \in Handlers, GivesUp(p) PROVE TypeOK'
  BY <1>0, <1>8 DEF GivesUp, Returns, history, TypeOK
<1>9. ASSUME NEW a \in Agreements, Complete(a) PROVE TypeOK'
  <2>1. papers' \in [Papers -> {"AVAILABLE", "ALLOCATED", "USED"}]
    BY <1>9 DEF Complete, MarkUsed, TypeOK
  <2> QED
    BY <1>0, <1>9, <2>1 DEF Complete, history, TypeOK
<1>10. ASSUME NEW a \in Agreements, Elsewhere(a) PROVE TypeOK'
  BY <1>0, <1>10 DEF Elsewhere, history, TypeOK
<1> QED
  BY <1>1, <1>2, <1>3, <1>4, <1>5, <1>6, <1>7, <1>8, <1>9, <1>10 DEF Next

(* Drafts, papers and what handlers hold keep their types.                 *)
THEOREM TypeCorrect == Spec => []TypeOK
<1>1. Init => TypeOK
  BY InitType
<1>2. TypeOK /\ [Next]_vars => TypeOK'
  BY NextType
<1> QED
  BY <1>1, <1>2, PTL DEF Spec

-----------------------------------------------------------------------------
(* The workflow behind drafts and stamps.                                  *)

(* A generation, a completion and whatever else happens to the agreement   *)
(* go through transition, transitionChain and correct                      *)
(* (workflow.service.ts), and no allocation or edit moves it: for any      *)
(* agreements, papers and requests, the statuses here are a behaviour of   *)
(* the abstract workflow.                                                  *)
THEOREM DraftingImplementsLifecycle == Spec => Workflow!Spec
<1>1. Init => Workflow!Init
  BY DEF Init
<1>2. TypeOK /\ [Next]_vars => [Workflow!Next]_Workflow!vars
  <2> SUFFICES ASSUME TypeOK, [Next]_vars PROVE Workflow!Next \/ UNCHANGED agreementVars
    BY DEF agreementVars, Workflow!vars
  <2>0. {"GENERATE", "REJECT", "EMPLOYEE_REJECT", "MD_SIGN_SUCCEED"} \subseteq Workflow!WorkflowAction
        /\ WorkflowAction = Workflow!WorkflowAction
    BY DEF WorkflowAction, Workflow!WorkflowAction
  <2>1. ASSUME NEW p \in Handlers, CommitGenerate(p) PROVE Workflow!Next
    BY <2>0, <2>1, HandlerWork DEF CommitGenerate, Workflow!Next
  <2>2. ASSUME NEW a \in Agreements, Complete(a) PROVE Workflow!Next
    BY <2>0, <2>2 DEF Complete, Workflow!Next
  <2>3. ASSUME NEW a \in Agreements, Elsewhere(a) PROVE Workflow!Next
    BY <2>0, <2>3 DEF Elsewhere, Workflow!Next
  <2> QED
    BY <2>1, <2>2, <2>3 DEF Next, vars, agreementVars, BeginAllocate, BeginEdit, BeginGenerate,
       CommitAllocate, CommitEdit, GivesUp
<1> QED
  BY <1>1, <1>2, TypeCorrect, PTL DEF Spec, Workflow!Spec

LEMMA DraftingInherits == Spec => Lifecycle!Spec
<1>1. Workflow!Init => Lifecycle!Init
  BY DEF Workflow!Init, Lifecycle!Init
<1>2. [Workflow!Next]_Workflow!vars => [Lifecycle!Next]_Lifecycle!vars
  BY SameNext DEF Workflow!vars, Lifecycle!vars
<1>. QED  BY <1>1, <1>2, DraftingImplementsLifecycle, PTL DEF Workflow!Spec, Lifecycle!Spec

LEMMA WorkflowConstants ==
  /\ ServiceActions \subseteq Lifecycle!WorkflowAction /\ MaxVersion \in Nat \ {0}
  /\ Lifecycle!NoRetry
BY VersionsAssumption DEF ServiceActions, WorkflowAction, Lifecycle!WorkflowAction, Lifecycle!NoRetry, Lifecycle!RetryActions

(* A generation committed from what was read earlier, and a stamp paper    *)
(* allocated late, keep the order of signatures (BR-002, BR-003), the      *)
(* deadlines (FR-021) and the finality of ended agreements (BR-005).       *)
THEOREM DraftingKeepsWorkflow ==
  Spec => /\ []Lifecycle!SignedInOrder
          /\ []Lifecycle!WaitingHasDeadline
          /\ Lifecycle!TerminalStays
<1>1. Lifecycle!Spec => []Lifecycle!SignedInOrder
  BY WorkflowConstants, Lifecycle!SequencingHolds
<1>2. Lifecycle!Spec => []Lifecycle!WaitingHasDeadline
  BY WorkflowConstants, Lifecycle!DeadlineHolds
<1>3. Lifecycle!Spec => Lifecycle!TerminalStays
  BY WorkflowConstants, Lifecycle!TerminalHolds
<1>. QED  BY <1>1, <1>2, <1>3, DraftingInherits, PTL

-----------------------------------------------------------------------------
(* The document and the data.                                              *)

(* A version gets its document when the agreement leaves its draft.        *)
DraftsHaveNone ==
  /\ \A a \in Agreements, v \in 1..MaxVersion :
       v > version[a] \/ (v = version[a] /\ status[a] = "DRAFT") => docs[a][v] = {}
  /\ \A p \in Handlers : At(p, "generate") => h[p].ver <= version[h[p].agr]

(* What the requests open for an agreement that none has overlapped read   *)
(* is still so, and an edit among them finds a draft's version.            *)
AsRead ==
  \A p \in Handlers : h[p] # Idle /\ h[p].agr \notin overlapped =>
    /\ At(p, "edit") => /\ h[p].merged = data[h[p].agr] \cup {h[p].field}
                        /\ docs[h[p].agr][version[h[p].agr]] = {}
    /\ At(p, "generate") => h[p].doc.data = data[h[p].agr]

RecordInv == DraftsHaveNone /\ AsRead /\ DocumentIsTheRecord

(* What a status or a version becomes leaves the documents in their place. *)
LEMMA WorkflowStep ==
  ASSUME TypeOK, NEW a \in Agreements, Complete(a) \/ Elsewhere(a)
  PROVE  /\ UNCHANGED <<data, docs, h, acked, overlapped>>
         /\ \A b \in Agreements :
              \/ version'[b] = version[b] /\ (status'[b] = "DRAFT" => status[b] = "DRAFT")
              \/ version'[b] = version[b] + 1
<1>1. UNCHANGED <<data, docs, h, acked, overlapped>>
  BY DEF Complete, Elsewhere, history
<1>2. \A act \in WorkflowAction \ {"CORRECT"} : Workflow!To(act) # "DRAFT"
  BY DEF WorkflowAction, Workflow!To
<1>3. status \in [Agreements -> Workflow!AgreementState] /\ version \in [Agreements -> 1..MaxVersion]
  BY DEF TypeOK, Workflow!TypeOK
<1>4. ASSUME NEW s, s # "DRAFT", status' = [status EXCEPT ![a] = s], version' = version
      PROVE  \A b \in Agreements : version'[b] = version[b] /\ (status'[b] = "DRAFT" => status[b] = "DRAFT")
  BY <1>3, <1>4
<1>5. ASSUME NEW act \in WorkflowAction, Workflow!Transition(a, act)
      PROVE  \A b \in Agreements : version'[b] = version[b] /\ (status'[b] = "DRAFT" => status[b] = "DRAFT")
  <2>1. act # "CORRECT" /\ status' = [status EXCEPT ![a] = Workflow!To(act)] /\ version' = version
    BY <1>5 DEF Workflow!Transition, Workflow!PatchingActions
  <2> QED
    BY <1>2, <1>4, <2>1
<1>6. ASSUME NEW act \in {"REJECT", "EMPLOYEE_REJECT", "MD_SIGN_SUCCEED"},
             Workflow!TransitionClearingDeadline(a, act)
      PROVE  \A b \in Agreements : version'[b] = version[b] /\ (status'[b] = "DRAFT" => status[b] = "DRAFT")
  <2>1. status' = [status EXCEPT ![a] = Workflow!To(act)] /\ version' = version
        /\ act \in WorkflowAction \ {"CORRECT"}
    BY <1>6 DEF Workflow!TransitionClearingDeadline, WorkflowAction
  <2> QED
    BY <1>2, <1>4, <2>1
<1>7. ASSUME NEW succeed, NEW advance \in {"ADVANCE_TO_EMPLOYEE", "ADVANCE_TO_MD"},
             Workflow!Chain(a, succeed, advance)
      PROVE  \A b \in Agreements : version'[b] = version[b] /\ (status'[b] = "DRAFT" => status[b] = "DRAFT")
  <2>1. status' = [status EXCEPT ![a] = Workflow!To(advance)] /\ version' = version
        /\ advance \in WorkflowAction \ {"CORRECT"}
    BY <1>7 DEF Workflow!Chain, WorkflowAction
  <2> QED
    BY <1>2, <1>4, <2>1
<1>8. ASSUME Workflow!Correct(a)
      PROVE  \A b \in Agreements : \/ version'[b] = version[b] /\ (status'[b] = "DRAFT" => status[b] = "DRAFT")
                                   \/ version'[b] = version[b] + 1
  BY <1>3, <1>8 DEF Workflow!Correct
<1> QED
  BY <1>1, <1>5, <1>6, <1>7, <1>8 DEF Complete, Elsewhere

(* The workflow moves while requests are open.                             *)
LEMMA WorkflowKeepsRecord ==
  ASSUME TypeOK, TypeOK', RecordInv, NEW a \in Agreements, Complete(a) \/ Elsewhere(a)
  PROVE  RecordInv'
<1>1. /\ UNCHANGED <<data, docs, h, acked, overlapped>>
      /\ \A b \in Agreements :
           \/ version'[b] = version[b] /\ (status'[b] = "DRAFT" => status[b] = "DRAFT")
           \/ version'[b] = version[b] + 1
  BY WorkflowStep
<1>2. \A b \in Agreements : version[b] \in 1..MaxVersion /\ version'[b] \in 1..MaxVersion
  BY DEF TypeOK, Workflow!TypeOK
<1>3. \A p \in Handlers : At(p, "generate") =>
        h[p].agr \in Agreements /\ h[p].ver \in 1..MaxVersion
  BY HandlerWork
<1>4. DraftsHaveNone'
  BY <1>1, <1>2, <1>3, VersionsAssumption DEF RecordInv, DraftsHaveNone, At
<1>5. \A b \in Agreements : docs'[b][version'[b]] \in {docs[b][version[b]], {}}
  BY <1>1, <1>2, VersionsAssumption DEF RecordInv, DraftsHaveNone
<1>6. \A p \in Handlers : At(p, "edit") => h[p].agr \in Agreements
  BY HandlerWork
<1>7. AsRead'
  BY <1>1, <1>5, <1>6 DEF RecordInv, AsRead, At
<1>8. DocumentIsTheRecord'
  BY <1>1, <1>5 DEF RecordInv, DocumentIsTheRecord
<1> QED
  BY <1>4, <1>7, <1>8 DEF RecordInv

(* A request begins: it reads what is.                                     *)
LEMMA BeginKeepsRecord ==
  ASSUME TypeOK, RecordInv, NEW p \in Handlers,
         UNCHANGED <<agreementVars, data, docs, history>>,
         \A q \in Handlers \ {p} : h'[q] = h[q],
         h'[p].pc = "edit" => /\ h'[p].agr \in Agreements /\ status[h'[p].agr] = "DRAFT"
                              /\ h'[p].merged = data[h'[p].agr] \cup {h'[p].field},
         h'[p].pc = "generate" => /\ h'[p].agr \in Agreements /\ h'[p].ver = version[h'[p].agr]
                                  /\ h'[p].doc.data = data[h'[p].agr]
  PROVE  RecordInv'
<1>1. \A a \in Agreements : version[a] \in 1..MaxVersion
  BY DEF TypeOK, Workflow!TypeOK
<1>2. UNCHANGED <<status, version, data, docs, acked, overlapped>>
  BY DEF agreementVars, history
<1>3. DraftsHaveNone'
  BY <1>1, <1>2 DEF RecordInv, DraftsHaveNone, At
<1>4. AsRead'
  BY <1>1, <1>2 DEF RecordInv, AsRead, DraftsHaveNone, At
<1>5. DocumentIsTheRecord'
  BY <1>2 DEF RecordInv, DocumentIsTheRecord
<1> QED
  BY <1>3, <1>4, <1>5 DEF RecordInv

LEMMA EditKeepsRecord ==
  ASSUME TypeOK, RecordInv, NEW p \in Handlers, CommitEdit(p)
  PROVE  RecordInv'
<1>1. PICK a \in Agreements, f \in Fields : a = h[p].agr /\ f = h[p].field
  BY HandlerWork DEF CommitEdit
<1>2. /\ data' = [data EXCEPT ![a] = h[p].merged] /\ acked' = [acked EXCEPT ![a] = acked[a] \cup {f}]
      /\ UNCHANGED <<status, version, docs>> /\ At(p, "edit") /\ h' = [h EXCEPT ![p] = Idle]
      /\ data \in [Agreements -> SUBSET Fields] /\ acked \in [Agreements -> SUBSET Fields]
      /\ overlapped \subseteq Agreements
  BY <1>1 DEF CommitEdit, Returns, agreementVars, TypeOK
<1>3. /\ overlapped \subseteq overlapped' /\ overlapped' \subseteq overlapped \cup {a}
      /\ \A q \in Handlers \ {p} : h[q].pc \in {"edit", "generate"} /\ h[q].agr = a => a \in overlapped'
  BY <1>1 DEF CommitEdit, Overlaps
<1>4. h'[p] = Idle /\ \A q \in Handlers \ {p} : h'[q] = h[q]
  BY <1>2 DEF TypeOK
<1>5. DraftsHaveNone'
  BY <1>2, <1>4 DEF RecordInv, DraftsHaveNone, At, Idle
<1>6. AsRead'
  <2> SUFFICES ASSUME NEW q \in Handlers \ {p}, h[q].pc \in {"edit", "generate"}, h[q].agr \notin overlapped'
               PROVE  /\ At(q, "edit") => /\ h[q].merged = data'[h[q].agr] \cup {h[q].field}
                                          /\ docs[h[q].agr][version[h[q].agr]] = {}
                      /\ At(q, "generate") => h[q].doc.data = data'[h[q].agr]
    <3> SUFFICES ASSUME NEW q \in Handlers, h'[q] # Idle, h'[q].agr \notin overlapped'
                 PROVE  /\ h'[q].pc = "edit" => /\ h'[q].merged = data'[h'[q].agr] \cup {h'[q].field}
                                                /\ docs'[h'[q].agr][version'[h'[q].agr]] = {}
                        /\ h'[q].pc = "generate" => h'[q].doc.data = data'[h'[q].agr]
      BY DEF AsRead, At
    <3>1. q # p /\ h'[q] = h[q] /\ UNCHANGED <<docs, version>>
      BY <1>2, <1>4
    <3> QED
      BY <3>1 DEF At
  <2>1. h[q].agr # a /\ h[q].agr \notin overlapped
    BY <1>3
  <2>2. h[q].agr \in Agreements
    BY HandlerWork DEF At
  <2>3. data'[h[q].agr] = data[h[q].agr]
    BY <1>2, <2>1, <2>2
  <2> QED
    BY <2>1, <2>3 DEF RecordInv, AsRead, Idle, At
<1>7. DocumentIsTheRecord'
  <2> SUFFICES ASSUME NEW b \in Agreements \ overlapped'
               PROVE  data'[b] = acked'[b] /\ \A doc \in docs'[b][version'[b]] : doc.data = acked'[b]
    BY DEF DocumentIsTheRecord
  <2>1. data[b] = acked[b] /\ \A doc \in docs[b][version[b]] : doc.data = acked[b]
    BY <1>3 DEF RecordInv, DocumentIsTheRecord
  <2>2. CASE b # a
    BY <1>2, <2>1, <2>2
  <2>3. CASE b = a
    <3>1. h[p].merged = data[a] \cup {f} /\ docs[a][version[a]] = {}
      BY <1>1, <1>2, <1>3, <2>3 DEF RecordInv, AsRead, At, Idle
    <3> QED
      BY <1>2, <2>1, <2>3, <3>1
  <2> QED
    BY <2>2, <2>3
<1> QED
  BY <1>5, <1>6, <1>7 DEF RecordInv

LEMMA GenerateKeepsRecord ==
  ASSUME TypeOK, RecordInv, NEW p \in Handlers, CommitGenerate(p)
  PROVE  RecordInv'
<1>1. PICK a \in Agreements, v \in 1..MaxVersion : a = h[p].agr /\ v = h[p].ver
  BY HandlerWork DEF CommitGenerate
<1>2. /\ docs' = [docs EXCEPT ![a][v] = docs[a][v] \cup {h[p].doc}] /\ docs[a][v] = {}
      /\ UNCHANGED <<version, data, acked>> /\ At(p, "generate") /\ h' = [h EXCEPT ![p] = Idle]
      /\ docs \in [Agreements -> [1..MaxVersion -> SUBSET Document]]
      /\ overlapped \subseteq Agreements
  BY <1>1 DEF CommitGenerate, CanGenerate, Returns, Workflow!Transition, TypeOK
<1>3. /\ overlapped \subseteq overlapped' /\ overlapped' \subseteq overlapped \cup {a}
      /\ \A q \in Handlers \ {p} : h[q].pc = "edit" /\ h[q].agr = a => a \in overlapped'
  BY <1>1 DEF CommitGenerate, Overlaps
<1>4. h'[p] = Idle /\ \A q \in Handlers \ {p} : h'[q] = h[q]
  BY <1>2 DEF TypeOK
<1>5. status'[a] # "DRAFT" /\ \A b \in Agreements \ {a} : status'[b] = status[b]
  BY <1>1 DEF CommitGenerate, Workflow!Transition, Workflow!To, TypeOK, Workflow!TypeOK
<1>6. /\ v <= version[a]
      /\ \A b \in Agreements, u \in 1..MaxVersion : b # a \/ u # v => docs'[b][u] = docs[b][u]
      /\ docs'[a][v] = {h[p].doc}
      /\ \A b \in Agreements : version[b] \in 1..MaxVersion
  BY <1>1, <1>2 DEF RecordInv, DraftsHaveNone, TypeOK, Workflow!TypeOK
<1>7. DraftsHaveNone'
  BY <1>2, <1>4, <1>5, <1>6 DEF RecordInv, DraftsHaveNone, At, Idle
<1>8. AsRead'
  <2> SUFFICES ASSUME NEW q \in Handlers \ {p}, h[q] # Idle, h[q].agr \notin overlapped'
               PROVE  /\ At(q, "edit") => /\ h[q].merged = data[h[q].agr] \cup {h[q].field}
                                          /\ docs'[h[q].agr][version[h[q].agr]] = {}
                      /\ At(q, "generate") => h[q].doc.data = data[h[q].agr]
    <3> SUFFICES ASSUME NEW q \in Handlers, h'[q] # Idle, h'[q].agr \notin overlapped'
                 PROVE  /\ h'[q].pc = "edit" => /\ h'[q].merged = data'[h'[q].agr] \cup {h'[q].field}
                                                /\ docs'[h'[q].agr][version'[h'[q].agr]] = {}
                        /\ h'[q].pc = "generate" => h'[q].doc.data = data'[h'[q].agr]
      BY DEF AsRead, At
    <3>1. q # p /\ h'[q] = h[q] /\ UNCHANGED <<data, version>>
      BY <1>2, <1>4
    <3> QED
      BY <3>1 DEF At
  <2>1. /\ At(q, "edit") => /\ h[q].merged = data[h[q].agr] \cup {h[q].field}
                            /\ docs[h[q].agr][version[h[q].agr]] = {}
        /\ At(q, "generate") => h[q].doc.data = data[h[q].agr]
    BY <1>3 DEF RecordInv, AsRead
  <2>2. At(q, "edit") => h[q].agr # a /\ h[q].agr \in Agreements
    BY <1>3, HandlerWork DEF At
  <2> QED
    BY <1>6, <2>1, <2>2
<1>9. DocumentIsTheRecord'
  <2> SUFFICES ASSUME NEW b \in Agreements \ overlapped'
               PROVE  data[b] = acked[b] /\ \A doc \in docs'[b][version[b]] : doc.data = acked[b]
    BY <1>2 DEF DocumentIsTheRecord
  <2>1. data[b] = acked[b] /\ \A doc \in docs[b][version[b]] : doc.data = acked[b]
    BY <1>3 DEF RecordInv, DocumentIsTheRecord
  <2>2. CASE b = a /\ v = version[a]
    <3>1. h[p].doc.data = data[a]
      BY <1>1, <1>2, <1>3, <2>2 DEF RecordInv, AsRead, At, Idle
    <3> QED
      BY <1>6, <2>1, <2>2, <3>1
  <2>3. CASE ~(b = a /\ v = version[a])
    BY <1>6, <2>1, <2>3
  <2> QED
    BY <2>2, <2>3
<1> QED
  BY <1>7, <1>8, <1>9 DEF RecordInv

LEMMA RecordNext == TypeOK /\ RecordInv /\ [Next]_vars => RecordInv'
<1> SUFFICES ASSUME TypeOK, RecordInv, [Next]_vars PROVE RecordInv'
  OBVIOUS
<1>1. CASE UNCHANGED vars
  BY <1>1 DEF vars, RecordInv, DraftsHaveNone, AsRead, DocumentIsTheRecord, At
<1>2. ASSUME NEW p \in Handlers, NEW a \in Agreements, NEW n \in Papers, BeginAllocate(p, a, n)
      PROVE  RecordInv'
  BY <1>2, BeginKeepsRecord DEF BeginAllocate, Goto, TypeOK
<1>3. ASSUME NEW p \in Handlers, NEW a \in Agreements, NEW f \in Fields, BeginEdit(p, a, f)
      PROVE  RecordInv'
  BY <1>3, BeginKeepsRecord DEF BeginEdit, Goto, TypeOK
<1>4. ASSUME NEW p \in Handlers, NEW a \in Agreements, BeginGenerate(p, a) PROVE RecordInv'
  <2>1. PICK scan : h' = [h EXCEPT ![p] = [pc |-> "generate", agr |-> a, ver |-> version[a],
                                           doc |-> [data |-> data[a], scan |-> scan]]]
    BY <1>4 DEF BeginGenerate, Goto
  <2>2. /\ \A q \in Handlers \ {p} : h'[q] = h[q]
        /\ h'[p] = [pc |-> "generate", agr |-> a, ver |-> version[a],
                    doc |-> [data |-> data[a], scan |-> scan]]
    BY <2>1 DEF TypeOK
  <2>3. UNCHANGED <<agreementVars, data, docs, history>>
    BY <1>4 DEF BeginGenerate
  <2> QED
    BY <2>2, <2>3, BeginKeepsRecord
<1>5. ASSUME NEW p \in Handlers, CommitAllocate(p) \/ GivesUp(p) PROVE RecordInv'
  <2>1. /\ UNCHANGED <<agreementVars, data, docs, history>> /\ h'[p].pc = "idle"
        /\ \A q \in Handlers \ {p} : h'[q] = h[q]
    BY <1>5 DEF CommitAllocate, GivesUp, Returns, TypeOK, Idle
  <2> QED
    BY <2>1, BeginKeepsRecord
<1> QED
  BY <1>1, <1>2, <1>3, <1>4, <1>5, EditKeepsRecord, GenerateKeepsRecord, WorkflowKeepsRecord, NextType DEF Next

LEMMA RecordInit == Init => RecordInv
BY VersionsAssumption DEF Init, Workflow!Init, RecordInv, DraftsHaveNone, AsRead, DocumentIsTheRecord, At, Idle

(* updateDraft and generate: no saved edit is lost and the current version *)
(* holds what was saved, for any fields, requests, rejections and          *)
(* corrections, unless requests overlapped.                                *)
THEOREM RecordHolds == Spec => []DocumentIsTheRecord
<1>1. RecordInv => DocumentIsTheRecord
  BY DEF RecordInv
<1> QED
  BY <1>1, InitType, NextType, RecordInit, RecordNext, PTL DEF Spec

-----------------------------------------------------------------------------
(* Stamps.  The properties are inductive once it is known that whoever is  *)
(* past its draft, or about to leave it, has the paper it needs.           *)
StampHeld == \A a \in Stamped : status[a] \in Generated => PapersOf(a) # {}

PaperInHand ==
  \A p \in Handlers : At(p, "generate") =>
    /\ h[p].agr \in Stamped => PapersOf(h[p].agr) # {}
    /\ h[p].doc.scan # NoScan => h[p].doc.scan \in PapersOf(h[p].agr)

StampInv == HeldOnce /\ UsedOnCompletion /\ StampHeld /\ PaperInHand

(* No allocation is ever released.                                         *)
LEMMA HeldStays ==
  ASSUME [Next]_vars, NEW a \in Agreements
  PROVE  PapersOf(a) \subseteq PapersOf(a)'
BY DEF Next, vars, BeginAllocate, BeginEdit, BeginGenerate, CommitAllocate, CommitEdit, CommitGenerate,
   GivesUp, Complete, Elsewhere, PapersOf

(* A step that changes no paper and no allocation, and no status but along *)
(* an edge that is neither a generation nor the completion.                *)
LEMMA StampsAside ==
  ASSUME TypeOK, HeldOnce, UsedOnCompletion, StampHeld, UNCHANGED <<papers, held>>,
         UNCHANGED status \/ \E a \in Agreements : Moves(a)
  PROVE  HeldOnce' /\ UsedOnCompletion' /\ StampHeld'
<1>1. HeldOnce'
  BY DEF HeldOnce, PapersOf
<1>2. \A b \in Agreements : PapersOf(b)' = PapersOf(b)
  BY DEF PapersOf
<1>3. \A b \in Agreements : (status'[b] = "COMPLETED" <=> status[b] = "COMPLETED")
                            /\ (status'[b] \in Generated => status[b] \in Generated)
  BY DEF Moves, TypeOK, Workflow!TypeOK
<1>4. UsedOnCompletion'
  BY <1>2, <1>3 DEF UsedOnCompletion
<1>5. StampHeld'
  BY <1>2, <1>3, StampedAssumption DEF StampHeld
<1> QED
  BY <1>1, <1>4, <1>5

(* The paper is free under its row lock, and the agreement has none.       *)
LEMMA AllocateStep ==
  ASSUME TypeOK, HeldOnce, UsedOnCompletion, StampHeld, NEW p \in Handlers, CommitAllocate(p)
  PROVE  HeldOnce' /\ UsedOnCompletion' /\ StampHeld'
<1>1. PICK a \in Agreements, n \in Papers : h[p].agr = a /\ h[p].paper = n
  BY HandlerWork DEF CommitAllocate
<1>2. papers[n] = "AVAILABLE" /\ PapersOf(a) = {}
  BY <1>1 DEF CommitAllocate, CanAllocate
<1>3. \A b \in Agreements : n \notin PapersOf(b)
  BY <1>1, <1>2 DEF HeldOnce
<1>4. /\ PapersOf(a)' = {n}
      /\ \A b \in Agreements \ {a} : PapersOf(b)' = PapersOf(b)
  BY <1>1, <1>2 DEF CommitAllocate, PapersOf, TypeOK
<1>5. papers' = [papers EXCEPT ![n] = "ALLOCATED"] /\ status' = status
  BY <1>1 DEF CommitAllocate, agreementVars
<1>6. HeldOnce'
  <2>1. \A b, c \in Agreements : b # c => PapersOf(b)' \cap PapersOf(c)' = {}
    BY <1>3, <1>4 DEF HeldOnce
  <2>2. \A b \in Agreements : Cardinality(PapersOf(b)') <= 1
    <3>1. Cardinality({n}) = 1
      BY FS_Singleton
    <3>2. \A b \in Agreements \ {a} : Cardinality(PapersOf(b)') <= 1
      BY <1>4 DEF HeldOnce
    <3> QED
      BY <1>4, <3>1, <3>2
  <2>3. \A m \in Papers : papers'[m] # "AVAILABLE" <=> \E b \in Agreements : m \in PapersOf(b)'
    <3>1. papers'[n] = "ALLOCATED" /\ \A m \in Papers \ {n} : papers'[m] = papers[m]
      BY <1>1, <1>5 DEF TypeOK
    <3>2. \A m \in Papers \ {n} :
            (\E b \in Agreements : m \in PapersOf(b)') <=> (\E b \in Agreements : m \in PapersOf(b))
      BY <1>2, <1>4
    <3> QED
      BY <1>1, <1>4, <3>1, <3>2 DEF HeldOnce
  <2> QED
    BY <2>1, <2>2, <2>3 DEF HeldOnce
<1>7. UsedOnCompletion'
  <2>1. a \in Stamped => status[a] # "COMPLETED"
    BY <1>2 DEF StampHeld, Generated, AgreementState
  <2> QED
    BY <1>1, <1>3, <1>4, <1>5, <2>1 DEF UsedOnCompletion, TypeOK
<1>8. StampHeld'
  BY <1>1, <1>4, <1>5, StampedAssumption DEF StampHeld
<1> QED
  BY <1>6, <1>7, <1>8

(* Nobody else holds the paper that is used.                               *)
LEMMA CompleteStep ==
  ASSUME TypeOK, HeldOnce, UsedOnCompletion, StampHeld, NEW a \in Agreements, Complete(a)
  PROVE  HeldOnce' /\ UsedOnCompletion' /\ StampHeld'
<1>1. status[a] \in Workflow!From("MD_SIGN_SUCCEED") /\ status' = [status EXCEPT ![a] = "COMPLETED"]
  BY PermittedFrom DEF Complete, Workflow!TransitionClearingDeadline, Workflow!To
<1>2. status[a] \in Generated
  BY <1>1 DEF Workflow!From, Generated, AgreementState
<1>3. \A b \in Agreements : PapersOf(b)' = PapersOf(b)
  BY DEF Complete, PapersOf
<1>4. \A n \in Papers : papers'[n] = IF n \in PapersOf(a) THEN "USED" ELSE papers[n]
  BY DEF Complete, MarkUsed
<1>5. HeldOnce'
  <2>1. \A n \in Papers : papers'[n] # "AVAILABLE" <=> papers[n] # "AVAILABLE"
    BY <1>4 DEF HeldOnce
  <2> QED
    BY <1>3, <2>1 DEF HeldOnce
<1>6. UsedOnCompletion'
  <2>1. \A b \in Agreements \ {a} : \A n \in PapersOf(b) : n \in Papers /\ n \notin PapersOf(a)
    BY DEF HeldOnce, PapersOf
  <2>2. \A n \in PapersOf(a) : n \in Papers
    BY DEF PapersOf
  <2>3. \A b \in Agreements : status'[b] = IF b = a THEN "COMPLETED" ELSE status[b]
    BY <1>1 DEF TypeOK, Workflow!TypeOK
  <2> QED
    BY <1>3, <1>4, <2>1, <2>2, <2>3 DEF UsedOnCompletion
<1>7. StampHeld'
  <2>1. \A b \in Agreements : status'[b] \in Generated => status[b] \in Generated
    BY <1>1, <1>2 DEF TypeOK, Workflow!TypeOK
  <2> QED
    BY <1>3, <2>1, StampedAssumption DEF StampHeld
<1> QED
  BY <1>5, <1>6, <1>7

(* The generation commits what was found when it began.                    *)
LEMMA GenerateStep ==
  ASSUME TypeOK, StampInv, NEW p \in Handlers, CommitGenerate(p)
  PROVE  HeldOnce' /\ UsedOnCompletion' /\ StampHeld'
<1> DEFINE a == h[p].agr
<1>1. a \in Agreements
  BY HandlerWork DEF CommitGenerate
<1>2. status[a] = "DRAFT" /\ status' = [status EXCEPT ![a] = "READY_FOR_AGENT_SIGNATURE"]
  BY DEF CommitGenerate, CanGenerate, From, Workflow!Transition, Workflow!To
<1>3. papers' = papers /\ \A b \in Agreements : PapersOf(b)' = PapersOf(b)
  BY DEF CommitGenerate, PapersOf
<1>4. a \in Stamped => PapersOf(a) # {}
  BY DEF StampInv, PaperInHand, CommitGenerate
<1>5. \A b \in Agreements : status'[b] = IF b = a THEN "READY_FOR_AGENT_SIGNATURE" ELSE status[b]
  BY <1>2 DEF TypeOK, Workflow!TypeOK
<1>6. HeldOnce'
  BY <1>3 DEF StampInv, HeldOnce
<1>7. UsedOnCompletion'
  BY <1>2, <1>3, <1>5 DEF StampInv, UsedOnCompletion
<1>8. StampHeld'
  BY <1>3, <1>4, <1>5, StampedAssumption DEF StampInv, StampHeld
<1> QED
  BY <1>6, <1>7, <1>8

(* Papers only come to an agreement, so what a generation found stays true.*)
LEMMA PaperInHandStep ==
  ASSUME TypeOK, PaperInHand, [Next]_vars
  PROVE  PaperInHand'
<1> SUFFICES ASSUME NEW p \in Handlers, At(p, "generate")'
             PROVE  /\ h'[p].agr \in Stamped => PapersOf(h[p].agr)' # {}
                    /\ h'[p].doc.scan # NoScan => h'[p].doc.scan \in PapersOf(h[p].agr)'
  BY DEF PaperInHand
<1>1. CASE h'[p] = h[p]
  <2>1. At(p, "generate")
    BY <1>1 DEF At
  <2>2. PICK a \in Agreements : h[p].agr = a /\ h'[p].agr = a
    BY <1>1, <2>1, HandlerWork
  <2>3. PapersOf(a) \subseteq PapersOf(a)'
    BY HeldStays
  <2>4. PapersOf(h[p].agr) = PapersOf(a) /\ PapersOf(h[p].agr)' = PapersOf(a)'
    BY <2>2
  <2> QED
    BY <1>1, <2>1, <2>2, <2>3, <2>4 DEF PaperInHand
<1>2. CASE \E a \in Agreements : BeginGenerate(p, a)
  <2>1. PICK a \in Agreements : BeginGenerate(p, a)
    BY <1>2
  <2>2. PICK scan \in LoadStampScan(a) :
          h'[p] = [pc |-> "generate", agr |-> a, ver |-> version[a],
                   doc |-> [data |-> data[a], scan |-> scan]]
    BY <2>1 DEF BeginGenerate, Goto, TypeOK
  <2>3. MayGenerate(a) /\ held' = held
    BY <2>1 DEF BeginGenerate
  <2> QED
    BY <2>2, <2>3 DEF MayGenerate, LoadStampScan, PapersOf
<1>3. h'[p] = h[p] \/ \E a \in Agreements : BeginGenerate(p, a)
  <2>1. h = [q \in Handlers |-> h[q]] /\ h'[p].pc = "generate"
    BY DEF At, TypeOK
  <2>2. ASSUME NEW q \in Handlers, Returns(q) PROVE h'[p] = h[p]
    BY <2>1, <2>2 DEF Returns, Idle
  <2>3. ASSUME NEW q \in Handlers, NEW a \in Agreements, NEW n \in Papers, BeginAllocate(q, a, n)
        PROVE  h'[p] = h[p]
    BY <2>1, <2>3 DEF BeginAllocate, Goto
  <2>4. ASSUME NEW q \in Handlers, NEW a \in Agreements, NEW f \in Fields, BeginEdit(q, a, f)
        PROVE  h'[p] = h[p]
    BY <2>1, <2>4 DEF BeginEdit, Goto
  <2>5. ASSUME NEW q \in Handlers \ {p}, NEW a \in Agreements, BeginGenerate(q, a) PROVE h'[p] = h[p]
    BY <2>5 DEF BeginGenerate, Goto, TypeOK
  <2> QED
    BY <2>2, <2>3, <2>4, <2>5 DEF Next, vars, CommitAllocate, CommitEdit, CommitGenerate, GivesUp,
       Complete, Elsewhere
<1> QED
  BY <1>1, <1>2, <1>3

LEMMA StampStep == TypeOK /\ StampInv /\ [Next]_vars => StampInv'
<1> SUFFICES ASSUME TypeOK, StampInv, [Next]_vars PROVE StampInv'
  OBVIOUS
<1>0. PaperInHand'
  BY PaperInHandStep DEF StampInv
<1>1. CASE UNCHANGED <<status, papers, held>>
  BY <1>0, <1>1, StampsAside DEF StampInv
<1>2. ASSUME NEW p \in Handlers, CommitAllocate(p) PROVE StampInv'
  BY <1>0, <1>2, AllocateStep DEF StampInv
<1>3. ASSUME NEW p \in Handlers, CommitGenerate(p) PROVE StampInv'
  BY <1>0, <1>3, GenerateStep DEF StampInv
<1>4. ASSUME NEW a \in Agreements, Complete(a) PROVE StampInv'
  BY <1>0, <1>4, CompleteStep DEF StampInv
<1>5. ASSUME NEW a \in Agreements, Elsewhere(a) PROVE StampInv'
  <2>1. UNCHANGED <<papers, held>>
    BY <1>5 DEF Elsewhere
  <2> QED
    BY <1>0, <1>5, <2>1, ElsewhereMoves, StampsAside DEF StampInv
<1> QED
  BY <1>1, <1>2, <1>3, <1>4, <1>5 DEF Next, vars, agreementVars, BeginAllocate, BeginEdit, BeginGenerate,
     CommitEdit, GivesUp

LEMMA StampInit == Init => StampInv
<1> SUFFICES ASSUME Init PROVE StampInv
  OBVIOUS
<1>1. \A a \in Agreements : PapersOf(a) = {}
  BY DEF Init, PapersOf
<1>2. HeldOnce
  <2>1. Cardinality({}) <= 1
    BY FS_EmptySet
  <2> QED
    BY <1>1, <2>1 DEF Init, HeldOnce
<1>3. UsedOnCompletion
  BY <1>1 DEF Init, Workflow!Init, UsedOnCompletion
<1>4. StampHeld /\ PaperInHand
  BY StampedAssumption DEF Init, Workflow!Init, StampHeld, PaperInHand, Generated, At, Idle
<1> QED
  BY <1>2, <1>3, <1>4 DEF StampInv

(* BR-006, DEC-009: one paper, one agreement, used exactly when it is      *)
(* completed, however allocations, generations and completions interleave. *)
THEOREM PapersHold == Spec => []PaperServesOneAgreement
<1>1. Init => TypeOK /\ StampInv
  BY InitType, StampInit
<1>2. TypeOK /\ StampInv /\ [Next]_vars => TypeOK' /\ StampInv'
  BY NextType, StampStep
<1>3. StampInv => PaperServesOneAgreement
  BY DEF StampInv, PaperServesOneAgreement
<1> QED
  BY <1>1, <1>2, <1>3, PTL DEF Spec

(* A version is on the paper of its agreement, and one that needs a stamp  *)
(* has one, although the allocation was read before the commit.            *)
THEOREM OwnStampHolds == Spec => []OnItsOwnStamp
<1>1. Init => TypeOK /\ StampInv /\ OnItsOwnStamp
  <2>1. Init => OnItsOwnStamp
    BY DEF Init, OnItsOwnStamp
  <2> QED
    BY <2>1, InitType, StampInit
<1>2. TypeOK /\ StampInv /\ OnItsOwnStamp /\ [Next]_vars => TypeOK' /\ StampInv' /\ OnItsOwnStamp'
  <2> SUFFICES ASSUME TypeOK, StampInv, OnItsOwnStamp, [Next]_vars PROVE OnItsOwnStamp'
    BY NextType, StampStep
  <2>1. SUFFICES ASSUME NEW a \in Agreements, NEW v \in 1..MaxVersion, NEW doc \in docs'[a][v]
                 PROVE  /\ doc.scan # NoScan => doc.scan \in PapersOf(a)'
                        /\ a \in Stamped => PapersOf(a)' # {}
    BY DEF OnItsOwnStamp
  <2>2. PapersOf(a) \subseteq PapersOf(a)'
    BY HeldStays
  <2>3. CASE doc \in docs[a][v]
    BY <2>2, <2>3 DEF OnItsOwnStamp
  <2>4. ASSUME NEW p \in Handlers, CommitGenerate(p), doc \notin docs[a][v]
        PROVE  h[p].agr = a /\ h[p].doc = doc /\ At(p, "generate")
    <3>1. h[p].agr \in Agreements /\ h[p].ver \in 1..MaxVersion
      BY <2>4, HandlerWork DEF CommitGenerate
    <3> QED
      BY <2>4, <3>1 DEF CommitGenerate, TypeOK
  <2>5. doc \in docs[a][v] \/ \E p \in Handlers : CommitGenerate(p)
    BY DEF Next, vars, BeginAllocate, BeginEdit, BeginGenerate, CommitAllocate, CommitEdit, GivesUp,
       Complete, Elsewhere
  <2> QED
    BY <2>2, <2>3, <2>4, <2>5 DEF StampInv, PaperInHand
<1> QED
  BY <1>1, <1>2, PTL DEF Spec

-----------------------------------------------------------------------------
(* The intake of stamp papers.                                             *)

(* What reading and correcting may leave in a field.                       *)
Taken(p, k) == IF Printed[p][k] = NONE THEN {NONE}
               ELSE {Printed[p][k], NONE} \cup Misread[Printed[p][k]]

(* No identifier of a paper is taken for another one of that paper, and no *)
(* two are taken for the same: a fact about the scans, which the code      *)
(* cannot enforce.                                                         *)
ReadApart ==
  \A p \in Sheets, k, l \in Intake!Kind : k # l => Taken(p, k) \cap Taken(p, l) \subseteq {NONE}

Written == Intake!Values \cup (UNION {Misread[v] : v \in Intake!Values}) \cup {NONE}

Holding == [pc : {"proposed", "checked"}, paper : Sheets, form : [Intake!Kind -> Written],
            labelled : BOOLEAN]

StampRow == [paper : Sheets, ids : SUBSET (Intake!Kind \X Written)]

(* Every field is as the paper has it or was taken for, but for the        *)
(* certificate field filled with whatever was found.                       *)
FromPaper(w) ==
  \A k \in Intake!Kind : w.form[k] \in Taken(w.paper, k) \/ (k = "CERTIFICATE_NO" /\ ~w.labelled)

IntakeTyped ==
  /\ rows \in Seq(StampRow)
  /\ desk \in [Operators -> {Intake!Idle} \cup Holding]

IntakeInv ==
  /\ IntakeTyped
  /\ \A o \in Operators : desk[o] \in Holding => FromPaper(desk[o])
  /\ \A m, n \in DOMAIN rows :
       m # n => Intake!ValuesOf(rows[m].ids) \cap Intake!ValuesOf(rows[n].ids) = {}

LEMMA SameCardinality == \A S : Intake!Cardinality(S) = Cardinality(S)
BY Zenon DEF Intake!Cardinality, Cardinality

LEMMA NotIdle ==
  /\ Intake!Idle \notin Holding
  /\ \A o, pc : Intake!At(o, pc) /\ pc \in {"proposed", "checked"} => desk[o] # Intake!Idle
BY DEF Intake!Idle, Holding, Intake!At

LEMMA Found ==
  ASSUME NEW r \in [Intake!Kind -> Written]
  PROVE  Intake!StampNumber(r) \in Written /\ (r["CERTIFICATE_NO"] # NONE => Intake!Proposal(r) = r)
<1>. DEFINE found == {i \in DOMAIN Kinds : r[Kinds[i]] # NONE}
            First(i) == i \in found /\ \A j \in found : i <= j
<1>1. /\ DOMAIN Kinds = 1..Len(Kinds) /\ Len(Kinds) \in Nat
      /\ \A i \in DOMAIN Kinds : Kinds[i] \in Intake!Kind
  BY IntakeAssumption DEF Intake!Kinded
<1>2. ASSUME found # {} PROVE r[Kinds[CHOOSE i \in found : \A j \in found : i <= j]] \in Written
  <2>1. found \subseteq Nat
    BY <1>1
  <2>. HIDE DEF found
  <2>2. PICK i \in found : \A j \in found : <<j, i>> \notin OpToRel(<, Nat)
    BY <1>2, <2>1, WFMin, NatLessThanWellFounded, Zenon
  <2>3. \A j \in found : ~(j < i)
    BY <2>1, <2>2, Zenon DEF OpToRel
  <2>4. \E k \in found : \A j \in found : k <= j
    BY <2>1, <2>3
  <2>5. (CHOOSE k \in found : \A j \in found : k <= j) \in found
    BY <2>4
  <2>. QED  BY <1>1, <2>5 DEF found
<1>3. NONE \in Written /\ r["CERTIFICATE_NO"] \in Written
  <2>1. NONE \in Written
    BY DEF Written
  <2>. QED  BY <2>1, IntakeAssumption DEF Intake!Kinded
<1>4. Intake!StampNumber(r) \in Written
  BY <1>2, <1>3 DEF Intake!StampNumber
<1>. QED  BY <1>4 DEF Intake!StampNumber, Intake!Proposal

LEMMA Printing ==
  ASSUME NEW p \in Sheets, NEW k \in Intake!Kind
  PROVE  {Printed[p][k], NONE} \subseteq Written /\ {Printed[p][k], NONE} \subseteq Taken(p, k)
<1>1. Printed[p][k] \in Intake!Values \cup {NONE}
  BY DEF Intake!Values
<1>. QED  BY <1>1 DEF Written, Taken

LEMMA ReadStep ==
  ASSUME IntakeInv, NEW o \in Operators, NEW p \in Sheets, Intake!Read(o, p)
  PROVE  IntakeInv'
<1>1. PICK r \in Intake!Readings(p) :
        desk' = [desk EXCEPT ![o] = [pc |-> "proposed", paper |-> p, form |-> Intake!Proposal(r),
                                     labelled |-> r["CERTIFICATE_NO"] # NONE]]
  BY DEF Intake!Read, Intake!Hold
<1>. DEFINE w == [pc |-> "proposed", paper |-> p, form |-> Intake!Proposal(r),
                  labelled |-> r["CERTIFICATE_NO"] # NONE]
<1>2. r \in [Intake!Kind -> Written] /\ \A k \in Intake!Kind : r[k] \in Taken(p, k)
  BY DEF Intake!Readings, Written, Taken
<1>3. Intake!Proposal(r) \in [Intake!Kind -> Written]
  BY <1>2, Found DEF Intake!Proposal
<1>4. w \in Holding
  BY <1>3 DEF Holding
<1>5. FromPaper(w)
  BY <1>2, Found DEF FromPaper, Intake!Proposal
<1>. HIDE DEF w
<1>6. desk' = [desk EXCEPT ![o] = w] /\ rows' = rows
  BY <1>1 DEF w, Intake!Read
<1>. QED  BY <1>4, <1>5, <1>6 DEF IntakeInv, IntakeTyped

LEMMA CompareStep ==
  ASSUME IntakeInv, NEW o \in Operators, NEW k \in Intake!Kind, Intake!Compare(o, k)
  PROVE  IntakeInv'
<1>1. desk[o] \in Holding
  BY NotIdle DEF IntakeInv, IntakeTyped, Intake!Compare
<1>2. PICK v \in {Printed[desk[o].paper][k], NONE} :
        desk' = [desk EXCEPT ![o] = [desk[o] EXCEPT !.form[k] = v]] /\ rows' = rows
  BY DEF Intake!Compare, Intake!Hold
<1>. DEFINE w == [desk[o] EXCEPT !.form[k] = v]
<1>3. v \in Written /\ v \in Taken(desk[o].paper, k)
  BY <1>1, Printing DEF Holding
<1>4. w \in Holding
  BY <1>1, <1>3 DEF Holding
<1>5. FromPaper(w)
  BY <1>1, <1>3 DEF Holding, FromPaper, IntakeInv
<1>. HIDE DEF w
<1>6. desk' = [desk EXCEPT ![o] = w]
  BY <1>2 DEF w
<1>. QED  BY <1>2, <1>4, <1>5, <1>6 DEF IntakeInv, IntakeTyped

LEMMA Leaves ==
  ASSUME IntakeInv, NEW o \in Operators, desk' = [desk EXCEPT ![o] = Intake!Idle]
  PROVE  /\ desk' \in [Operators -> {Intake!Idle} \cup Holding]
         /\ \A q \in Operators : desk'[q] \in Holding => FromPaper(desk'[q])
BY NotIdle DEF IntakeInv, IntakeTyped

LEMMA ConfirmStep ==
  ASSUME IntakeInv, NEW o \in Operators, Intake!Confirm(o)
  PROVE  IntakeInv'
<1>1. desk[o] \in Holding
  BY NotIdle DEF IntakeInv, IntakeTyped, Intake!Confirm
<1>. DEFINE w == [desk[o] EXCEPT !.pc = "checked"]
<1>2. w \in Holding /\ FromPaper(w)
  BY <1>1 DEF Holding, FromPaper, IntakeInv
<1>3. rows' = rows /\ (desk' = [desk EXCEPT ![o] = Intake!Idle] \/ desk' = [desk EXCEPT ![o] = w])
  BY DEF Intake!Confirm, Intake!Hold
<1>. HIDE DEF w
<1>4. CASE desk' = [desk EXCEPT ![o] = Intake!Idle]
  BY <1>3, <1>4, Leaves DEF IntakeInv, IntakeTyped
<1>5. CASE desk' = [desk EXCEPT ![o] = w]
  BY <1>2, <1>3, <1>5 DEF IntakeInv, IntakeTyped
<1>. QED  BY <1>3, <1>4, <1>5

LEMMA RegisterStep ==
  ASSUME IntakeInv, NEW o \in Operators, Intake!Register(o)
  PROVE  IntakeInv'
<1>. DEFINE ids == Intake!Identifiers(desk[o].form)
            new == [paper |-> desk[o].paper, ids |-> ids]
<1>1. desk[o] \in Holding
  BY NotIdle DEF IntakeInv, IntakeTyped, Intake!Register
<1>2. new \in StampRow
  BY <1>1 DEF Holding, StampRow, Intake!Identifiers
<1>3. desk' = [desk EXCEPT ![o] = Intake!Idle]
  BY DEF Intake!Register, Intake!Hold
<1>4. CASE rows' = rows
  BY <1>3, <1>4, Leaves DEF IntakeInv, IntakeTyped
<1>5. CASE ~Intake!Clash(ids) /\ rows' = Append(rows, new)
  <2>1. new.ids = ids
    OBVIOUS
  <2>. HIDE DEF new
  <2>2. /\ rows' \in Seq(StampRow) /\ Len(rows) \in Nat
        /\ DOMAIN rows = 1..Len(rows) /\ DOMAIN rows' = 1..Len(rows) + 1
        /\ rows'[Len(rows) + 1] = new /\ \A n \in DOMAIN rows : rows'[n] = rows[n]
    BY <1>2, <1>5 DEF IntakeInv, IntakeTyped
  <2>3. \A n \in DOMAIN rows : Intake!ValuesOf(rows[n].ids) \cap Intake!ValuesOf(new.ids) = {}
    BY <1>5, <2>1 DEF Intake!Clash
  <2>4. \A n \in DOMAIN rows' : n \in DOMAIN rows \/ n = Len(rows) + 1
    BY <2>2
  <2>5. \A m, n \in DOMAIN rows' :
          m # n => Intake!ValuesOf(rows'[m].ids) \cap Intake!ValuesOf(rows'[n].ids) = {}
    BY <2>2, <2>3, <2>4 DEF IntakeInv
  <2>6. IntakeTyped'
    BY <1>3, <2>2, Leaves DEF IntakeTyped
  <2>. QED  BY <1>3, <2>5, <2>6, Leaves DEF IntakeInv, Intake!ValuesOf
<1>. QED  BY <1>4, <1>5 DEF Intake!Register, Intake!UniqueIdentifiers

LEMMA IntakeKeeps == IntakeInv /\ [Intake!Next]_Intake!vars => IntakeInv'
<1>. SUFFICES ASSUME IntakeInv, [Intake!Next]_Intake!vars PROVE IntakeInv'
  OBVIOUS
<1>1. CASE UNCHANGED Intake!vars
  BY <1>1 DEF Intake!vars, IntakeInv, IntakeTyped
<1>2. ASSUME NEW o \in Operators, Intake!GivesUp(o) PROVE IntakeInv'
  BY <1>2, Leaves DEF Intake!GivesUp, Intake!Hold, IntakeInv, IntakeTyped
<1>. QED  BY <1>1, <1>2, ReadStep, CompareStep, ConfirmStep, RegisterStep DEF Intake!Next

LEMMA IntakeInvariant == Intake!Spec => []IntakeInv
<1>1. Intake!Init => IntakeInv
  BY NotIdle DEF Intake!Init, IntakeInv, IntakeTyped
<1>. QED  BY <1>1, IntakeKeeps, PTL DEF Intake!Spec

(* DEC-029, "getting any one right is enough to catch a duplicate", for    *)
(* any papers, operators and readings: two rows for one paper share none   *)
(* of the values printed on it, whoever registered them and at what moment *)
(* (stamps.service.ts register, uq_stamp_identifier_normalized).           *)
THEOREM AnyOneRightCatches == Intake!Spec => []CaughtByAnyOneRight
<1>1. IntakeInv => CaughtByAnyOneRight
  BY DEF IntakeInv, CaughtByAnyOneRight, Intake!CaughtByAnyOneRight
<1>. QED  BY <1>1, IntakeInvariant, PTL

(* As many values as identifiers, unless two fields hold the same.         *)
LEMMA ValuesCounted ==
  ASSUME NEW form,
         \A k, l \in Intake!Kind : form[k] = form[l] /\ form[k] # NONE => k = l
  PROVE  Cardinality(Intake!ValuesOf(Intake!Identifiers(form))) = Cardinality(Intake!Identifiers(form))
<1>. DEFINE ids    == Intake!Identifiers(form)
            filled == {j \in Intake!Kind : form[j] # NONE}
            value  == [i \in ids |-> i[2]]
            number == [i \in DOMAIN Kinds |-> Kinds[i]]
<1>1. IsFiniteSet(Intake!Kind)
  <2>1. DOMAIN Kinds = 1..Len(Kinds) /\ Len(Kinds) \in Nat
    BY IntakeAssumption DEF Intake!Kinded
  <2>2. IsFiniteSet(DOMAIN Kinds)
    BY <2>1, FS_Interval
  <2>3. number \in Surjection(DOMAIN Kinds, Intake!Kind)
    BY DEF Intake!Kind, Surjection
  <2>. QED  BY <2>2, <2>3, FS_Surjection
<1>2. IsFiniteSet(filled)
  BY <1>1, FS_Subset
<1>3. IsFiniteSet(ids)
  <2>1. [k \in filled |-> <<k, form[k]>>] \in Surjection(filled, ids)
    BY DEF Surjection, Intake!Identifiers
  <2>. QED  BY <1>2, <2>1, FS_Surjection
<1>4. value \in Surjection(ids, Intake!ValuesOf(ids))
  BY DEF Surjection, Intake!ValuesOf
<1>5. value \in Injection(ids, Intake!ValuesOf(ids))
  <2>1. \A i, j \in ids : i[2] = j[2] => i = j
    BY DEF Intake!Identifiers
  <2>. QED  BY <1>4, <2>1 DEF Injection, IsInjective, Surjection
<1>. QED  BY <1>3, <1>4, <1>5, FS_Surjection

(* For any papers and operators, and any readings that keep the            *)
(* identifiers of a paper apart: a form is refused as registered only      *)
(* because a registered paper carries one of its values, or because the    *)
(* certificate field was filled with another identifier of the form        *)
(* (stamps.service.ts register, StampScanForm.tsx).                        *)
THEOREM RefusalsHaveCause ==
  ASSUME ReadApart
  PROVE  Intake!Spec => []RefusedOnlyForCause
<1>1. IntakeInv => RefusedOnlyForCause
  <2>. SUFFICES ASSUME IntakeInv, NEW o \in Operators, desk[o].pc \in {"proposed", "checked"},
                       \/ Intake!Clash(Intake!Identifiers(desk[o].form))
                       \/ ~Intake!UniqueIdentifiers(Intake!Identifiers(desk[o].form))
                PROVE  \/ \E n \in DOMAIN rows, k, l \in Intake!Kind :
                            <<l, desk[o].form[k]>> \in rows[n].ids
                       \/ /\ ~desk[o].labelled
                          /\ \E k \in Intake!Kind \ {"CERTIFICATE_NO"} :
                               desk[o].form["CERTIFICATE_NO"] = desk[o].form[k]
    BY DEF RefusedOnlyForCause, Intake!RefusedOnlyForCause
  <2>. DEFINE form == desk[o].form
              ids  == Intake!Identifiers(form)
  <2>1. desk[o] \in Holding /\ FromPaper(desk[o])
    BY DEF IntakeInv, IntakeTyped, Intake!Idle
  <2>2. ASSUME Intake!Clash(ids)
        PROVE  \E n \in DOMAIN rows, k, l \in Intake!Kind : <<l, form[k]>> \in rows[n].ids
    <3>1. PICK n \in DOMAIN rows : Intake!ValuesOf(rows[n].ids) \cap Intake!ValuesOf(ids) # {}
      BY <2>2 DEF Intake!Clash
    <3>0. PICK v \in Intake!ValuesOf(rows[n].ids) : v \in Intake!ValuesOf(ids)
      BY <3>1
    <3>2. PICK k \in Intake!Kind : v = form[k]
      BY <3>0 DEF Intake!ValuesOf, Intake!Identifiers
    <3>3. PICK i \in rows[n].ids : v = i[2]
      BY <3>0 DEF Intake!ValuesOf
    <3>4. rows[n].ids \subseteq Intake!Kind \X Written
      <4>1. rows[n] \in StampRow
        BY DEF IntakeInv, IntakeTyped
      <4>. QED  BY <4>1 DEF StampRow
    <3>5. i = <<i[1], v>> /\ i[1] \in Intake!Kind
      BY <3>3, <3>4
    <3>. QED  BY <3>2, <3>3, <3>5
  <2>3. ASSUME Cardinality(Intake!ValuesOf(ids)) # Cardinality(ids)
        PROVE  /\ ~desk[o].labelled
               /\ \E k \in Intake!Kind \ {"CERTIFICATE_NO"} : form["CERTIFICATE_NO"] = form[k]
    <3>1. PICK k, l \in Intake!Kind : form[k] = form[l] /\ form[k] # NONE /\ k # l
      BY <2>3, ValuesCounted
    <3>2. ~(form[k] \in Taken(desk[o].paper, k) /\ form[l] \in Taken(desk[o].paper, l))
      BY <2>1, <3>1 DEF ReadApart, Holding
    <3>. QED  BY <2>1, <3>1, <3>2 DEF FromPaper
  <2>4. Intake!UniqueIdentifiers(ids) <=>
          ~Intake!Clash(ids) /\ Cardinality(Intake!ValuesOf(ids)) = Cardinality(ids)
    BY SameCardinality DEF Intake!UniqueIdentifiers
  <2>. QED  BY <2>2, <2>3, <2>4
<1>. QED  BY <1>1, IntakeInvariant, PTL

=============================================================================
