--------------------------- MODULE SigningProofs ---------------------------
(***************************************************************************)
(* Theorems about Signing, for any agreements and callers and any bounds:  *)
(* type correctness, the implementation of AgreementLifecycle with what    *)
(* that carries over from LifecycleProofs, BR-007 on every recorded        *)
(* document, that a signature is final, and how status, documents,         *)
(* transactions and stored objects go together.                            *)
(***************************************************************************)
EXTENDS Signing, FiniteSetTheorems, TLAPS

(* The theorems of the workflow, for the actions the services request.     *)
Lifecycle == INSTANCE LifecycleProofs WITH Requestable <- ServiceActions

LEMMA WorkflowConstants ==
  /\ MaxVersion \in Nat \ {0}
  /\ ServiceActions \subseteq WorkflowAction
BY BoundsAssumption DEF ServiceActions

(* Both instances of AgreementLifecycle speak of the same steps.           *)
LEMMA SameNext == Workflow!Next <=> Lifecycle!Next
BY Zenon
DEF Workflow!Next, Lifecycle!Next, Workflow!Transition, Lifecycle!Transition,
    Workflow!Chain, Lifecycle!Chain, Workflow!Correct, Lifecycle!Correct,
    Workflow!TransitionClearingDeadline, Lifecycle!TransitionClearingDeadline,
    Workflow!Lapse, Lifecycle!Lapse, Workflow!Deadline, Lifecycle!Deadline,
    Workflow!Permitted, Lifecycle!Permitted, Workflow!PatchingActions,
    Lifecycle!PatchingActions, Workflow!ChainedActions, Lifecycle!ChainedActions,
    Workflow!PendingActionStates, Lifecycle!PendingActionStates,
    Workflow!AssertTransition, Lifecycle!AssertTransition,
    Workflow!From, Lifecycle!From, Workflow!To, Lifecycle!To,
    Workflow!RolesFor, Lifecycle!RolesFor, Workflow!Admins, Lifecycle!Admins,
    Workflow!MdRoles, Lifecycle!MdRoles, Workflow!System, Lifecycle!System,
    Workflow!RequiresReason, Lifecycle!RequiresReason,
    Workflow!AgreementState, Lifecycle!AgreementState,
    Workflow!WorkflowAction, Lifecycle!WorkflowAction, Workflow!Role, Lifecycle!Role

LEMMA SameType == Workflow!TypeOK <=> Lifecycle!TypeOK
BY DEF Workflow!TypeOK, Lifecycle!TypeOK, Workflow!AgreementState, Lifecycle!AgreementState

(* The columns of the agreements rows keep their types in a workflow step. *)
LEMMA WorkflowType ==
  ASSUME Workflow!TypeOK, [Workflow!Next]_agreementVars
  PROVE  Workflow!TypeOK'
<1>1. Lifecycle!TypeOK /\ [Lifecycle!Next]_Lifecycle!vars
  BY SameNext, SameType DEF agreementVars, Lifecycle!vars
<1>2. Lifecycle!TypeOK'
  BY <1>1, WorkflowConstants, Lifecycle!NextType DEF WorkflowAction, Lifecycle!WorkflowAction
<1> QED
  BY <1>2 DEF Workflow!TypeOK, Lifecycle!TypeOK, Workflow!AgreementState, Lifecycle!AgreementState

-----------------------------------------------------------------------------
(* What a handler holds at each of its steps.                              *)

(* The agreements' rows and the documents, by agreement.                   *)
LEMMA AgreementRows ==
  ASSUME TypeOK
  PROVE  /\ status \in [Agreements -> AgreementState]
         /\ version \in [Agreements -> 1..MaxVersion] /\ MaxVersion \in Nat
         /\ \A a \in Agreements :
              /\ status[a] \in AgreementState
              /\ version[a] \in 1..MaxVersion /\ version[a] \in Nat
              /\ docs[a][version[a]] \in Seq(Row)
              /\ \A v \in 1..MaxVersion : docs[a][v] \in Seq(Row)
<1>1. /\ status \in [Agreements -> AgreementState]
      /\ version \in [Agreements -> 1..MaxVersion] /\ MaxVersion \in Nat
  BY BoundsAssumption DEF TypeOK, Workflow!TypeOK, Workflow!AgreementState, AgreementState
<1>2. docs \in [Agreements -> [1..MaxVersion -> Seq(Row)]]
  BY DEF TypeOK
<1>3. ASSUME NEW a \in Agreements
      PROVE  /\ status[a] \in AgreementState
             /\ version[a] \in 1..MaxVersion /\ version[a] \in Nat
  BY <1>1, <1>3
<1>4. ASSUME NEW a \in Agreements, NEW v \in 1..MaxVersion
      PROVE  docs[a][v] \in Seq(Row)
  BY <1>2
<1> QED
  BY <1>1, <1>3, <1>4

LEMMA WorkKinds ==
  ASSUME NEW n \in Nat, NEW w \in Work(n)
  PROVE  /\ w.pc \in {"prepare", "generate"} => w \in OnAgreement
         /\ w.pc \in {"initiate", "create"}  => w \in Initiating
         /\ w.pc = "park"  => w \in Parking(n)
         /\ w.pc = "embed" => w \in Embedding(n)
         /\ w.pc = "sign"  => w \in Recording(n)
         /\ w.pc = "fail"  => w \in GivingUp(n)
BY DEF Work, Idle, OnAgreement, Initiating, Parking, Embedding, Recording, GivingUp

LEMMA WorkGrows == ASSUME NEW n \in Nat PROVE Work(n) \subseteq Work(n + 1)
BY DEF Work, Parking, Embedding, Recording, GivingUp

LEMMA StartsOfWork ==
  ASSUME TypeOK
  PROVE  /\ Idle \in Work(Len(tx))
         /\ \A t \in DOMAIN tx :
              /\ Completing(t) \in Work(Len(tx))
              /\ Failing(t) \in Work(Len(tx))
              /\ Resolving(t) \in Work(Len(tx))
<1>1. Idle \in Work(Len(tx))
  BY DEF Work
<1>2. ASSUME NEW t \in DOMAIN tx
      PROVE  Completing(t) \in Work(Len(tx)) /\ Failing(t) \in Work(Len(tx))
  <2>1. t \in 1..Len(tx) /\ tx[t] \in Transaction
    BY <1>2 DEF TypeOK
  <2>2. tx[t].agr \in Agreements
    BY <2>1 DEF Transaction
  <2>3. version[tx[t].agr] \in 1..MaxVersion /\ status[tx[t].agr] \in AgreementState
    BY <2>2, AgreementRows
  <2> QED
    BY <2>1, <2>3 DEF Completing, Failing, Work, Embedding, GivingUp
<1> QED
  BY <1>1, <1>2 DEF Resolving

(* A handler that goes on to well-formed work leaves all work well formed. *)
LEMMA GotoType ==
  ASSUME TypeOK, NEW p \in Processes, NEW w \in Work(Len(tx)), Goto(p, w)
  PROVE  h' \in [Processes -> Work(Len(tx))] /\ pass' \subseteq 1..Len(tx)
BY DEF TypeOK, Goto

LEMMA AddRowType ==
  ASSUME TypeOK, NEW a \in Agreements, NEW v \in 1..MaxVersion,
         NEW state \in DocumentState, NEW bytes \in Bytes, AddRow(a, v, state, bytes)
  PROVE  docs' \in [Agreements -> [1..MaxVersion -> Seq(Row)]]
<1>1. docs[a][v] \in Seq(Row) /\ [state |-> state, bytes |-> bytes] \in Row
  BY DEF TypeOK, Row
<1>2. Append(docs[a][v], [state |-> state, bytes |-> bytes]) \in Seq(Row)
  BY <1>1
<1> QED
  BY <1>2 DEF TypeOK, AddRow

LEMMA StatusType ==
  ASSUME TypeOK, NEW t \in 1..Len(tx), NEW s \in {"SIGNED", "FAILED", "CANCELLED"},
         SetTxStatus(t, s)
  PROVE  tx' \in Seq(Transaction) /\ Len(tx') = Len(tx)
<1>1. tx[t] \in Transaction
  BY DEF TypeOK
<1>2. [tx[t] EXCEPT !.status = s] \in Transaction
  BY <1>1 DEF Transaction
<1> QED
  BY <1>2 DEF TypeOK, SetTxStatus

LEMMA CrossingType ==
  ASSUME TypeOK, NEW a \in Agreements, NEW vs, Crossing(a, vs)
  PROVE  crossed' \in [Agreements -> BOOLEAN]
BY DEF TypeOK, Crossing
-----------------------------------------------------------------------------
(* Every step of the pipeline is a step of the workflow, or leaves the     *)
(* agreements rows alone.                                                  *)

LEMMA HandlerWork ==
  ASSUME TypeOK
  PROVE  /\ Len(tx) \in Nat /\ DOMAIN tx = 1..Len(tx)
         /\ \A p \in Processes : h[p] \in Work(Len(tx))
         /\ \A t \in DOMAIN tx : tx[t] \in Transaction /\ tx[t].agr \in Agreements
                                  /\ tx[t].party \in Parties
<1>1. /\ tx \in Seq(Transaction)
      /\ h \in [Processes -> Work(Len(tx))]
  BY DEF TypeOK
<1>2. Len(tx) \in Nat /\ DOMAIN tx = 1..Len(tx) /\ \A t \in DOMAIN tx : tx[t] \in Transaction
  BY <1>1
<1>3. \A r \in Transaction : r.agr \in Agreements /\ r.party \in Parties
  BY DEF Transaction
<1> QED
  BY <1>1, <1>2, <1>3

LEMMA WorkflowStep ==
  ASSUME TypeOK, Next
  PROVE  Workflow!Next \/ UNCHANGED agreementVars
<1> DEFINE Fine == Workflow!Next \/ UNCHANGED agreementVars
<1>0. /\ \A a \in Agreements, act \in WorkflowAction : Workflow!Transition(a, act) => Workflow!Next
      /\ \A a \in Agreements, act \in WorkflowAction :
           Workflow!TransitionClearingDeadline(a, act) => Workflow!Next
      /\ \A a \in Agreements : Workflow!Correct(a) \/ Workflow!Lapse(a) => Workflow!Next
  BY DEF Workflow!Next, WorkflowAction, Workflow!WorkflowAction
<1>1. ASSUME NEW p \in Processes, Step(p) PROVE Fine
  <2>1. CASE CommitGenerate(p)
    <3>1. h[p] \in OnAgreement
      BY <2>1, HandlerWork, WorkKinds DEF CommitGenerate, At
    <3> QED
      BY <2>1, <3>1, <1>0 DEF CommitGenerate, OnAgreement, WorkflowAction
  <2>2. CASE CommitInitiate(p)
    <3>1. h[p] \in Initiating
      BY <2>2, HandlerWork, WorkKinds DEF CommitInitiate, At
    <3>2. h[p].agr \in Agreements /\ SIGNING_PARTY[h[p].party].initiate \in WorkflowAction
      BY <3>1 DEF Initiating, Parties, SIGNING_PARTY, WorkflowAction
    <3> QED
      BY <2>2, <3>2, <1>0 DEF CommitInitiate
  <2>3. CASE CommitSignature(p)
    <3>1. h[p] \in Recording(Len(tx))
      BY <2>3, HandlerWork, WorkKinds DEF CommitSignature, At
    <3>2. tx[h[p].tx].agr \in Agreements /\ tx[h[p].tx].party \in Parties
      BY <3>1, HandlerWork DEF Recording
    <3> DEFINE a == tx[h[p].tx].agr
               spec == SIGNING_PARTY[tx[h[p].tx].party]
    <3>3. \/ spec.advance # "NONE" /\ Workflow!Chain(a, spec.succeed, spec.advance)
          \/ spec.advance = "NONE" /\ Workflow!TransitionClearingDeadline(a, spec.succeed)
      BY <2>3 DEF CommitSignature
    <3>4. \/ spec.succeed = "AGENT_SIGN_SUCCEED" /\ spec.advance = "ADVANCE_TO_EMPLOYEE"
          \/ spec.succeed = "EMPLOYEE_SIGN_SUCCEED" /\ spec.advance = "ADVANCE_TO_MD"
          \/ spec.succeed = "MD_SIGN_SUCCEED" /\ spec.advance = "NONE"
      BY <3>2 DEF Parties, SIGNING_PARTY
    <3>5. CASE spec.advance = "NONE"
      BY <3>2, <3>3, <3>4, <3>5, <1>0 DEF WorkflowAction
    <3>6. CASE spec.advance # "NONE"
      BY <3>2, <3>3, <3>4, <3>6 DEF Workflow!Next
    <3> QED
      BY <3>5, <3>6
  <2>4. CASE CommitFailure(p)
    <3>1. h[p] \in GivingUp(Len(tx))
      BY <2>4, HandlerWork, WorkKinds DEF CommitFailure, At
    <3>2. tx[h[p].tx].agr \in Agreements
      BY <3>1, HandlerWork DEF GivingUp
    <3>3. h[p].status \in SigningStates => FailEdge(h[p].status) \in WorkflowAction
      BY DEF SigningStates, FailEdge, Parties, SIGNING_PARTY, WorkflowAction
    <3> QED
      BY <2>4, <3>2, <3>3, <1>0 DEF CommitFailure
  <2>5. CASE Prepare(p) \/ CreateTransaction(p) \/ Park(p) \/ Embed(p)
               \/ IntegrityAlert(p) \/ CannotCompose(p) \/ Refused(p)
    BY <2>5 DEF Prepare, CreateTransaction, Park, Embed, IntegrityAlert, CannotCompose, Refused
  <2> QED
    BY <1>1, <2>1, <2>2, <2>3, <2>4, <2>5 DEF Step
<1>2. ASSUME NEW p \in Callers, NEW a \in Agreements, BeginGenerate(p, a) PROVE Fine
  BY <1>2 DEF BeginGenerate
<1>3. ASSUME NEW p \in Callers, NEW a \in Agreements, NEW party \in Parties,
             BeginInitiate(p, a, party)
      PROVE  Fine
  BY <1>3 DEF BeginInitiate
<1>4. ASSUME NEW p \in Callers, NEW t \in DOMAIN tx, Callback(p, t) PROVE Fine
  BY <1>4 DEF Callback
<1>5. ASSUME NEW p \in Processes, Interrupt(p) PROVE Fine
  BY <1>5 DEF Interrupt
<1>6. ASSUME NEW a \in Agreements, Reject(a) \/ Cancel(a) \/ Correct(a) \/ ExpireNext(a) \/ Lapse(a)
      PROVE  Fine
  BY <1>6, <1>0 DEF Reject, Cancel, Correct, ExpireNext, Lapse, WorkflowAction
<1>7. ASSUME NEW t \in DOMAIN tx, Ceremony(t) \/ Visit(t) PROVE Fine
  BY <1>7 DEF Ceremony, Visit
<1>8. CASE BeginPass \/ BeginSweep \/ TurnOfMonth
  BY <1>8 DEF BeginPass, BeginSweep, TurnOfMonth
<1> QED
  BY <1>1, <1>2, <1>3, <1>4, <1>5, <1>6, <1>7, <1>8 DEF Next
-----------------------------------------------------------------------------
(* Type correctness.                                                       *)

LEMMA InitType == Init => TypeOK
<1> SUFFICES ASSUME Init PROVE TypeOK
  OBVIOUS
<1>1. Workflow!TypeOK
  BY WorkflowConstants DEF Init, Workflow!Init, Workflow!TypeOK, Workflow!AgreementState
<1>2. Idle \in Work(0)
  BY DEF Work
<1>3. tx = <<>> /\ Len(tx) = 0 /\ h \in [Processes -> Work(Len(tx))]
  BY <1>2 DEF Init
<1>4. docs \in [Agreements -> [1..MaxVersion -> Seq(Row)]]
  BY DEF Init
<1>5. month \in 1..MaxMonth /\ interrupts \in 0..MaxInterrupts
  BY BoundsAssumption DEF Init
<1> QED
  BY <1>1, <1>3, <1>4, <1>5 DEF Init, TypeOK

(* The rows of the agreements, in any step.                                *)
LEMMA WorkflowTypeStep ==
  ASSUME TypeOK, [Next]_vars
  PROVE  Workflow!TypeOK'
<1>1. [Workflow!Next]_agreementVars
  BY WorkflowStep DEF vars, agreementVars
<1> QED
  BY <1>1, WorkflowType DEF TypeOK

(* A step that adds no transaction row preserves the rest by parts.        *)
LEMMA CommitTypes ==
  ASSUME TypeOK, NEW p \in Processes, Step(p), ~CreateTransaction(p)
  PROVE  /\ docs' \in [Agreements -> [1..MaxVersion -> Seq(Row)]]
         /\ files' \subseteq Key
         /\ tx' \in Seq(Transaction) /\ Len(tx') = Len(tx)
         /\ h' \in [Processes -> Work(Len(tx))] /\ pass' \subseteq 1..Len(tx)
         /\ crossed' \in [Agreements -> BOOLEAN]
         /\ UNCHANGED <<history, ledger, sweep, month, provider, interrupts>>
         /\ uncomposed' \subseteq Agreements \X (1..MaxVersion)
<1> DEFINE Fine == /\ docs' \in [Agreements -> [1..MaxVersion -> Seq(Row)]]
                   /\ files' \subseteq Key
                   /\ tx' \in Seq(Transaction) /\ Len(tx') = Len(tx)
                   /\ h' \in [Processes -> Work(Len(tx))] /\ pass' \subseteq 1..Len(tx)
                   /\ crossed' \in [Agreements -> BOOLEAN]
                   /\ UNCHANGED <<history, ledger, sweep, month, provider, interrupts>>
                   /\ uncomposed' \subseteq Agreements \X (1..MaxVersion)
<1>0. /\ docs \in [Agreements -> [1..MaxVersion -> Seq(Row)]]
      /\ files \subseteq Key /\ month \in 1..MaxMonth
      /\ tx \in Seq(Transaction)
      /\ crossed \in [Agreements -> BOOLEAN]
      /\ pass \subseteq 1..Len(tx)
      /\ Len(tx) \in Nat /\ DOMAIN tx = 1..Len(tx)
  BY HandlerWork DEF TypeOK
<1>e. UNCHANGED environment => /\ UNCHANGED <<month, provider, interrupts>>
                               /\ uncomposed' \subseteq Agreements \X (1..MaxVersion)
  BY DEF TypeOK, environment
<1>1. CASE Prepare(p)
  <2>1. h[p] \in OnAgreement
    BY <1>1, HandlerWork, WorkKinds DEF Prepare, At
  <2>2. [h[p] EXCEPT !.pc = "generate"] \in Work(Len(tx))
    BY <2>1 DEF OnAgreement, Work
  <2>3. files' \subseteq Key
    BY <1>0, <1>1, <2>1 DEF Prepare, OnAgreement, ObjectKey, Key, DocumentState
  <2> QED
    BY <1>0, <1>e, <1>1, <2>2, <2>3, GotoType DEF Prepare
<1>2. CASE CommitGenerate(p)
  <2>1. h[p] \in OnAgreement
    BY <1>2, HandlerWork, WorkKinds DEF CommitGenerate, At
  <2>2. /\ h[p].agr \in Agreements /\ h[p].ver \in 1..MaxVersion
        /\ [text |-> h[p].ver, sigs |-> <<>>] \in Bytes
        /\ "UNSIGNED" \in DocumentState
    BY <2>1 DEF OnAgreement, Bytes, DocumentState
  <2>3. docs' \in [Agreements -> [1..MaxVersion -> Seq(Row)]]
    BY <1>2, <2>2, AddRowType DEF CommitGenerate
  <2> QED
    BY <1>0, <1>e, <1>2, <2>2, <2>3, GotoType, StartsOfWork, CrossingType DEF CommitGenerate, Returns
<1>3. CASE CommitInitiate(p)
  <2>1. h[p] \in Initiating
    BY <1>3, HandlerWork, WorkKinds DEF CommitInitiate, At
  <2>2. [h[p] EXCEPT !.pc = "create"] \in Work(Len(tx)) /\ h[p].agr \in Agreements
    BY <2>1 DEF Initiating, Work
  <2> QED
    BY <1>0, <1>e, <1>3, <2>2, GotoType, CrossingType DEF CommitInitiate
<1>4. CASE Park(p)
  <2>1. h[p] \in Parking(Len(tx))
    BY <1>4, HandlerWork, WorkKinds DEF Park, At
  <2>2. h[p].tx \in 1..Len(tx) /\ h[p].source \in Bytes
    BY <2>1 DEF Parking
  <2>3. [tx[h[p].tx] EXCEPT !.parked = h[p].source] \in Transaction
    BY <2>2, HandlerWork DEF Transaction
  <2>4. tx' \in Seq(Transaction) /\ Len(tx') = Len(tx)
    BY <1>0, <1>4, <2>2, <2>3 DEF Park
  <2> QED
    BY <1>0, <1>e, <1>4, <2>4, GotoType, StartsOfWork DEF Park, Returns
<1>5. CASE Embed(p)
  <2>1. h[p] \in Embedding(Len(tx))
    BY <1>5, HandlerWork, WorkKinds DEF Embed, At
  <2>2. /\ h[p].tx \in 1..Len(tx) /\ h[p].ver \in 1..MaxVersion
        /\ tx[h[p].tx].agr \in Agreements /\ tx[h[p].tx].party \in Parties
        /\ tx[h[p].tx].parked \in Bytes
    BY <2>1, HandlerWork DEF Embedding, Transaction
  <2>3. Append(tx[h[p].tx].parked.sigs, tx[h[p].tx].party) \in Seq(Parties)
    BY <2>2 DEF Bytes
  <2>4. [tx[h[p].tx].parked EXCEPT !.sigs = Append(@, tx[h[p].tx].party)] \in Bytes
    BY <2>2, <2>3 DEF Bytes
  <2>5. [pc |-> "sign", tx |-> h[p].tx, ver |-> h[p].ver,
         bytes |-> [tx[h[p].tx].parked EXCEPT !.sigs = Append(@, tx[h[p].tx].party)]]
          \in Recording(Len(tx))
    BY <2>2, <2>4 DEF Recording
  <2>r. Recording(Len(tx)) \subseteq Work(Len(tx))
    BY DEF Work
  <2>6. DocumentStateAfter(tx[h[p].tx].party) \in DocumentState
    BY DEF DocumentStateAfter, DocumentState
  <2>k. <<tx[h[p].tx].agr, h[p].ver, DocumentStateAfter(tx[h[p].tx].party), month>> \in Key
    BY <1>0, <2>2, <2>6 DEF Key
  <2>7. files' \subseteq Key
    BY <1>0, <1>5, <2>k DEF Embed, ObjectKey
  <2> QED
    BY <1>0, <1>e, <1>5, <2>5, <2>r, <2>7, GotoType DEF Embed
<1>6. CASE IntegrityAlert(p)
  <2>1. h[p] \in Embedding(Len(tx))
    BY <1>6, HandlerWork, WorkKinds DEF IntegrityAlert, At
  <2>2. Failing(h[p].tx) \in Work(Len(tx))
    BY <1>0, <2>1, StartsOfWork DEF Embedding
  <2> QED
    BY <1>0, <1>e, <1>6, <2>2, GotoType DEF IntegrityAlert
<1>7. CASE CommitSignature(p)
  <2>1. h[p] \in Recording(Len(tx))
    BY <1>7, HandlerWork, WorkKinds DEF CommitSignature, At
  <2>2. /\ h[p].tx \in 1..Len(tx) /\ h[p].ver \in 1..MaxVersion /\ h[p].bytes \in Bytes
        /\ tx[h[p].tx].agr \in Agreements
        /\ DocumentStateAfter(tx[h[p].tx].party) \in DocumentState
    BY <2>1, HandlerWork DEF Recording, DocumentStateAfter, DocumentState
  <2>3. docs' \in [Agreements -> [1..MaxVersion -> Seq(Row)]]
    BY <1>7, <2>2, AddRowType DEF CommitSignature
  <2>4. tx' \in Seq(Transaction) /\ Len(tx') = Len(tx)
    BY <1>7, <2>2, StatusType DEF CommitSignature
  <2> QED
    BY <1>0, <1>e, <1>7, <2>2, <2>3, <2>4, GotoType, StartsOfWork, CrossingType
       DEF CommitSignature, Returns
<1>8. CASE CommitFailure(p)
  <2>1. h[p] \in GivingUp(Len(tx))
    BY <1>8, HandlerWork, WorkKinds DEF CommitFailure, At
  <2>2. h[p].tx \in 1..Len(tx) /\ tx[h[p].tx].agr \in Agreements
    BY <2>1, HandlerWork DEF GivingUp
  <2>3. tx' \in Seq(Transaction) /\ Len(tx') = Len(tx)
    BY <1>8, <2>2, StatusType DEF CommitFailure
  <2>4. crossed' \in [Agreements -> BOOLEAN]
    BY <1>0, <1>8, <2>2, CrossingType DEF CommitFailure
  <2> QED
    BY <1>0, <1>e, <1>8, <2>3, <2>4, GotoType, StartsOfWork DEF CommitFailure, Returns
<1>9. CASE Refused(p)
  BY <1>0, <1>e, <1>9, StartsOfWork DEF Refused, Throws, TypeOK
<1>10. CASE CannotCompose(p)
  <2>1. h[p] \in OnAgreement
    BY <1>10, HandlerWork, WorkKinds DEF CannotCompose, At
  <2>2. <<h[p].agr, h[p].ver>> \in Agreements \X (1..MaxVersion)
    BY <2>1 DEF OnAgreement
  <2> QED
    BY <1>0, <1>10, <2>2, StartsOfWork DEF CannotCompose, Throws, TypeOK
<1> QED
  BY <1>1, <1>2, <1>3, <1>4, <1>5, <1>6, <1>7, <1>8, <1>9, <1>10 DEF Step

LEMMA StepType == ASSUME TypeOK, NEW p \in Processes, Step(p) PROVE TypeOK'
<1>1. Workflow!TypeOK'
  BY WorkflowTypeStep DEF Next
<1>2. CASE ~CreateTransaction(p)
  <2>1. /\ docs' \in [Agreements -> [1..MaxVersion -> Seq(Row)]]
        /\ files' \subseteq Key
        /\ tx' \in Seq(Transaction) /\ Len(tx') = Len(tx)
        /\ h' \in [Processes -> Work(Len(tx))] /\ pass' \subseteq 1..Len(tx)
        /\ crossed' \in [Agreements -> BOOLEAN]
        /\ UNCHANGED <<history, ledger, sweep, month, provider, interrupts>>
        /\ uncomposed' \subseteq Agreements \X (1..MaxVersion)
    BY <1>2, CommitTypes
  <2> QED
    BY <1>1, <2>1 DEF TypeOK
<1>3. CASE CreateTransaction(p)
  <2> DEFINE row == [agr |-> h[p].agr, party |-> h[p].party, ver |-> h[p].ver,
                     parked |-> NoBytes, status |-> "PENDING_SIGNER"]
             n == Len(tx)
  <2>1. h[p] \in Initiating
    BY <1>3, HandlerWork, WorkKinds DEF CreateTransaction, At
  <2>2. h[p].agr \in Agreements /\ h[p].source \in Bytes
    BY <2>1 DEF Initiating
  <2>3. NoBytes \in Bytes
    BY WorkflowConstants DEF NoBytes, Bytes
  <2>4. row \in Transaction
    BY <2>1, <2>3 DEF Initiating, Transaction
  <2>5. n \in Nat /\ tx' = Append(tx, row) /\ tx' \in Seq(Transaction) /\ Len(tx') = n + 1
    BY <1>3, <2>4 DEF CreateTransaction, TypeOK
  <2>6. /\ provider' \in Seq({"PENDING_SIGNER", "SIGNED", "FAILED"})
        /\ Len(provider') = n + 1
    BY <1>3 DEF CreateTransaction, TypeOK
  <2>7. h' \in [Processes -> Work(n + 1)]
    <3>1. [pc |-> "park", tx |-> n + 1, source |-> h[p].source] \in Work(n + 1)
      BY <2>2, <2>5 DEF Work, Parking
    <3>2. h \in [Processes -> Work(n + 1)]
      BY <2>5, WorkGrows DEF TypeOK
    <3> QED
      BY <1>3, <3>1, <3>2 DEF CreateTransaction, Goto
  <2>8. ledger' \subseteq 1..(n + 1) /\ pass' \subseteq 1..(n + 1)
    BY <1>3, <2>5 DEF CreateTransaction, Goto, TypeOK
  <2>9. crossed' \in [Agreements -> BOOLEAN]
    BY <1>3, <2>2, CrossingType DEF CreateTransaction
  <2> QED
    BY <1>1, <1>3, <2>5, <2>6, <2>7, <2>8, <2>9 DEF CreateTransaction, TypeOK
<1> QED
  BY <1>2, <1>3

LEMMA CorrectType == ASSUME TypeOK, NEW a \in Agreements, Correct(a) PROVE TypeOK'
<1>1. Workflow!TypeOK'
  BY WorkflowTypeStep DEF Next
<1>2. history' \in [Agreements -> Seq(Nat)]
  <2>1. docs[a][version[a]] \in Seq(Row)
    BY AgreementRows
  <2>2. IsFiniteSet(DOMAIN docs[a][version[a]])
    <3>1. /\ Len(docs[a][version[a]]) \in Nat
          /\ DOMAIN docs[a][version[a]] = 1..Len(docs[a][version[a]])
      BY <2>1
    <3> QED
      BY <3>1, FS_Interval
  <2>3. Cardinality(VoidedRows(a)) \in Nat
    BY <2>2, FS_Subset, FS_CardinalityType DEF VoidedRows
  <2>4. Append(history[a], Cardinality(VoidedRows(a))) \in Seq(Nat)
    BY <2>3 DEF TypeOK
  <2> QED
    BY <2>4 DEF Correct, TypeOK
<1>3. tx' \in Seq(Transaction) /\ Len(tx') = Len(tx)
  <2>1. \A r \in Transaction : [r EXCEPT !.status = "CANCELLED"] \in Transaction
    BY DEF Transaction
  <2> DEFINE closed(t) == IF tx[t].agr = a /\ tx[t].ver = version[a] /\ tx[t].status \in Open
                          THEN [tx[t] EXCEPT !.status = "CANCELLED"] ELSE tx[t]
  <2>2. ASSUME NEW t \in 1..Len(tx) PROVE closed(t) \in Transaction
    <3>1. tx[t] \in Transaction
      BY DEF TypeOK
    <3>2. [tx[t] EXCEPT !.status = "CANCELLED"] \in Transaction
      BY <2>1, <3>1
    <3> QED
      BY <3>1, <3>2
  <2>3. Len(tx) \in Nat /\ tx' = [t \in 1..Len(tx) |-> closed(t)]
    BY HandlerWork DEF Correct, TypeOK
  <2> HIDE DEF closed
  <2>4. tx' \in [1..Len(tx) -> Transaction]
    BY <2>2, <2>3
  <2> QED
    BY <2>3, <2>4
<1> QED
  BY <1>1, <1>2, <1>3 DEF Correct, TypeOK, environment

LEMMA NextType == TypeOK /\ [Next]_vars => TypeOK'
<1> SUFFICES ASSUME TypeOK, [Next]_vars PROVE TypeOK'
  OBVIOUS
<1>0. Workflow!TypeOK'
  BY WorkflowTypeStep
<1>1. CASE UNCHANGED vars
  BY <1>0, <1>1 DEF vars, TypeOK
<1>2. ASSUME NEW p \in Processes, Step(p) PROVE TypeOK'
  BY <1>2, StepType
<1>3. ASSUME NEW p \in Callers, NEW a \in Agreements, BeginGenerate(p, a) PROVE TypeOK'
  <2>1. [pc |-> "prepare", agr |-> a, ver |-> version[a]] \in Work(Len(tx))
    BY AgreementRows DEF Work, OnAgreement
  <2> QED
    BY <1>0, <1>3, <2>1, GotoType DEF BeginGenerate, TypeOK, Processes, environment
<1>4. ASSUME NEW p \in Callers, NEW a \in Agreements, NEW party \in Parties,
             BeginInitiate(p, a, party)
      PROVE  TypeOK'
  <2>1. docs[a][version[a]] \in Seq(Row) /\ docs[a][version[a]] # <<>>
    BY <1>4, AgreementRows DEF BeginInitiate
  <2>2. Last(docs[a][version[a]]) \in Row
    BY <2>1 DEF Last
  <2>3. [pc |-> "initiate", agr |-> a, ver |-> version[a], party |-> party,
         source |-> Last(docs[a][version[a]]).bytes] \in Work(Len(tx))
    BY <2>2, AgreementRows DEF Work, Initiating, Row
  <2> QED
    BY <1>0, <1>4, <2>3, GotoType DEF BeginInitiate, TypeOK, Processes, environment
<1>5. ASSUME NEW p \in Callers, NEW t \in DOMAIN tx, Callback(p, t) PROVE TypeOK'
  <2>1. Resolving(t) \in Work(Len(tx)) /\ t \in 1..Len(tx)
    BY StartsOfWork, HandlerWork
  <2> QED
    BY <1>0, <1>5, <2>1, GotoType DEF Callback, TypeOK, Processes, environment
<1>6. ASSUME NEW p \in Processes, Interrupt(p) PROVE TypeOK'
  <2>1. interrupts' \in 0..MaxInterrupts
    BY <1>6, BoundsAssumption DEF Interrupt, TypeOK
  <2>2. h' \in [Processes -> Work(Len(tx))] /\ pass' \subseteq 1..Len(tx)
    BY <1>6, StartsOfWork DEF Interrupt, Throws, TypeOK
  <2> QED
    BY <1>0, <1>6, <2>1, <2>2 DEF Interrupt, TypeOK
<1>7. ASSUME NEW a \in Agreements, Reject(a) \/ Cancel(a) \/ Lapse(a) PROVE TypeOK'
  BY <1>0, <1>7 DEF Reject, Cancel, Lapse, EndTransaction, TypeOK, environment
<1>8. ASSUME NEW a \in Agreements, Correct(a) PROVE TypeOK'
  BY <1>8, CorrectType
<1>9. ASSUME NEW a \in Agreements, ExpireNext(a) PROVE TypeOK'
  BY <1>0, <1>9 DEF ExpireNext, TypeOK, environment
<1>10. ASSUME NEW t \in DOMAIN tx, Ceremony(t) PROVE TypeOK'
  <2>1. /\ provider' \in Seq({"PENDING_SIGNER", "SIGNED", "FAILED"})
        /\ Len(provider') = Len(provider)
    BY <1>10, HandlerWork DEF Ceremony, TypeOK
  <2> QED
    BY <1>0, <1>10, <2>1 DEF Ceremony, TypeOK
<1>11. ASSUME NEW t \in DOMAIN tx, Visit(t) PROVE TypeOK'
  <2>1. Resolving(t) \in Work(Len(tx))
    BY StartsOfWork
  <2> QED
    BY <1>0, <1>11, <2>1 DEF Visit, TypeOK, environment
<1>12. CASE BeginPass
  <2>1. pass' \subseteq 1..Len(tx)
    BY <1>12, HandlerWork DEF BeginPass, OpenTx
  <2> QED
    BY <1>0, <1>12, <2>1 DEF BeginPass, TypeOK, environment
<1>13. CASE TurnOfMonth
  BY <1>0, <1>13, BoundsAssumption DEF TurnOfMonth, TypeOK
<1>14. CASE BeginSweep
  BY <1>0, <1>14 DEF BeginSweep, TypeOK, environment
<1> QED
  BY <1>1, <1>2, <1>3, <1>4, <1>5, <1>6, <1>7, <1>8, <1>9, <1>10, <1>11, <1>12, <1>13,
     <1>14 DEF Next

(* Rows, documents and what handlers hold keep their types, for any        *)
(* agreements, callers and bounds.                                         *)
THEOREM TypeCorrect == Spec => []TypeOK
<1>1. Init => TypeOK
  BY InitType
<1>2. TypeOK /\ [Next]_vars => TypeOK'
  BY NextType
<1> QED
  BY <1>1, <1>2, PTL DEF Spec

-----------------------------------------------------------------------------
(* The pipeline implements the workflow, and inherits what is proved of it.*)

(* No handler, job or interruption moves an agreement but along the edges  *)
(* of the table, one committed transition at a time.                       *)
THEOREM Implements == Spec => ImplementsLifecycle
<1>1. Init => Workflow!Init
  BY DEF Init
<1>2. TypeOK /\ [Next]_vars => [Workflow!Next]_Workflow!vars
  BY WorkflowStep DEF vars, agreementVars, Workflow!vars
<1> QED
  BY <1>1, <1>2, TypeCorrect, PTL DEF Spec, ImplementsLifecycle, Workflow!Spec

LEMMA ImplementsInherited == Spec => Lifecycle!Spec
<1>1. Workflow!Init => Lifecycle!Init
  BY DEF Workflow!Init, Lifecycle!Init
<1>2. [Workflow!Next]_Workflow!vars => [Lifecycle!Next]_Lifecycle!vars
  BY SameNext DEF Workflow!vars, Lifecycle!vars
<1> QED
  BY <1>1, <1>2, Implements, PTL DEF ImplementsLifecycle, Workflow!Spec, Lifecycle!Spec

(* Nothing the services do requests a retry edge, so BR-002 and BR-003     *)
(* hold of the pipeline: nobody is reached before those who sign first.    *)
THEOREM PipelineSequencing == Spec => []Lifecycle!SignedInOrder
<1>1. ServiceActions \subseteq Lifecycle!WorkflowAction /\ MaxVersion \in Nat \ {0}
  BY WorkflowConstants DEF WorkflowAction, Lifecycle!WorkflowAction
<1>2. Lifecycle!NoRetry
  BY DEF Lifecycle!NoRetry, Lifecycle!RetryActions, ServiceActions
<1>3. Lifecycle!Spec => []Lifecycle!SignedInOrder
  BY <1>1, <1>2, Lifecycle!SequencingHolds
<1> QED
  BY <1>3, ImplementsInherited, PTL

(* BR-005 and FR-015a hold of the pipeline: late signatures, callbacks and  *)
(* passes of the job do not revive an ended agreement.                     *)
THEOREM PipelineTerminal == Spec => Lifecycle!TerminalStays
<1>1. ServiceActions \subseteq Lifecycle!WorkflowAction /\ MaxVersion \in Nat \ {0}
  BY WorkflowConstants DEF WorkflowAction, Lifecycle!WorkflowAction
<1>2. Lifecycle!Spec => Lifecycle!TerminalStays
  BY <1>1, Lifecycle!TerminalHolds
<1> QED
  BY <1>2, ImplementsInherited, PTL

(* FR-021 holds of the pipeline: whatever is interrupted, an agreement the *)
(* sweep may expire has a deadline.                                        *)
THEOREM PipelineDeadline == Spec => []Lifecycle!WaitingHasDeadline
<1>1. ServiceActions \subseteq Lifecycle!WorkflowAction /\ MaxVersion \in Nat \ {0}
  BY WorkflowConstants DEF WorkflowAction, Lifecycle!WorkflowAction
<1>2. Lifecycle!Spec => []Lifecycle!WaitingHasDeadline
  BY <1>1, Lifecycle!DeadlineHolds
<1> QED
  BY <1>2, ImplementsInherited, PTL

-----------------------------------------------------------------------------
(* BR-007.  A recorded document carries the signatures its state claims    *)
(* because a signature is appended only to bytes that hold exactly those   *)
(* that come before it, and because no bytes anywhere hold them out of     *)
(* order: the invariant speaks of the documents recorded, shown to a       *)
(* signer, parked, and about to be recorded.                               *)

InOrder(bytes) == \E state \in DocumentState : bytes.sigs = SignaturesOf(state)

ParkedInOrder == \A t \in DOMAIN tx : InOrder(tx[t].parked)

ShownInOrder ==
  \A p \in Processes : h[p].pc \in {"initiate", "create", "park"} => InOrder(h[p].source)

SignedAsClaimed ==
  \A p \in Processes :
    h[p].pc = "sign" =>
      h[p].bytes.sigs = SignaturesOf(DocumentStateAfter(tx[h[p].tx].party))

SignaturesInOrder ==
  EveryDocumentFullySigned /\ ParkedInOrder /\ ShownInOrder /\ SignedAsClaimed

LEMMA SignatureTable ==
  /\ SignaturesOf("UNSIGNED") = <<>>
  /\ SignaturesOf("AGENT_SIGNED") = <<"AGENT">>
  /\ SignaturesOf("EMPLOYEE_SIGNED") = <<"AGENT", "EMPLOYEE">>
  /\ SignaturesOf("FINAL") = <<"AGENT", "EMPLOYEE", "MD">>
BY DEF SignaturesOf

(* The count identifies the signatures, and the party's own comes next.    *)
LEMMA NextSignature ==
  ASSUME NEW bytes, InOrder(bytes), NEW party \in Parties,
         Len(bytes.sigs) = SIGNING_PARTY[party].signaturesBefore
  PROVE  Append(bytes.sigs, party) = SignaturesOf(DocumentStateAfter(party))
<1>1. bytes.sigs \in {<<>>, <<"AGENT">>, <<"AGENT", "EMPLOYEE">>, <<"AGENT", "EMPLOYEE", "MD">>}
  BY SignatureTable DEF InOrder, DocumentState
<1>2. CASE party = "AGENT"
  <2>1. bytes.sigs = <<>>
    BY <1>1, <1>2 DEF SIGNING_PARTY
  <2> QED
    BY <1>2, <2>1, SignatureTable DEF DocumentStateAfter
<1>3. CASE party = "EMPLOYEE"
  <2>1. bytes.sigs = <<"AGENT">>
    BY <1>1, <1>3 DEF SIGNING_PARTY
  <2> QED
    BY <1>3, <2>1, SignatureTable DEF DocumentStateAfter
<1>4. CASE party = "MD"
  <2>1. Len(bytes.sigs) = 2
    BY <1>4 DEF SIGNING_PARTY
  <2>2. /\ Len(<<>>) = 0 /\ Len(<<"AGENT">>) = 1
        /\ Len(<<"AGENT", "EMPLOYEE", "MD">>) = 3
    OBVIOUS
  <2>3. bytes.sigs = <<"AGENT", "EMPLOYEE">>
    BY <1>1, <2>1, <2>2
  <2> QED
    BY <1>4, <2>3, SignatureTable DEF DocumentStateAfter
<1> QED
  BY <1>2, <1>3, <1>4 DEF Parties

LEMMA AddRowSigned ==
  ASSUME TypeOK, EveryDocumentFullySigned,
         NEW a \in Agreements, NEW v \in 1..MaxVersion, NEW state, NEW bytes,
         AddRow(a, v, state, bytes), bytes.sigs = SignaturesOf(state)
  PROVE  EveryDocumentFullySigned'
<1> DEFINE row == [state |-> state, bytes |-> bytes]
<1> SUFFICES ASSUME NEW b \in Agreements, NEW u \in 1..MaxVersion,
                    NEW i \in DOMAIN docs'[b][u]
             PROVE  docs'[b][u][i].bytes.sigs = SignaturesOf(docs'[b][u][i].state)
  BY DEF EveryDocumentFullySigned, Range
<1>1. docs[b][u] \in Seq(Row) /\ docs[a][v] \in Seq(Row)
  BY DEF TypeOK
<1>2. \A j \in DOMAIN docs[b][u] :
        docs[b][u][j].bytes.sigs = SignaturesOf(docs[b][u][j].state)
  BY DEF EveryDocumentFullySigned, Range
<1>3. docs' = [docs EXCEPT ![a][v] = Append(docs[a][v], row)]
  BY DEF AddRow
<1>4. CASE b = a /\ u = v
  <2>1. docs'[b][u] = Append(docs[b][u], row)
    BY <1>3, <1>4 DEF TypeOK
  <2>2. (i \in DOMAIN docs[b][u] /\ docs'[b][u][i] = docs[b][u][i]) \/ docs'[b][u][i] = row
    BY <1>1, <2>1
  <2> QED
    BY <1>2, <2>2
<1>5. CASE ~(b = a /\ u = v)
  <2>1. docs'[b][u] = docs[b][u]
    BY <1>3, <1>5 DEF TypeOK
  <2> QED
    BY <1>2, <2>1
<1> QED
  BY <1>4, <1>5

(* A handler's step keeps the invariant if what it leaves in hand is in    *)
(* order and nobody's transaction changes party.                           *)
LEMMA HandOver ==
  ASSUME TypeOK, SignaturesInOrder, EveryDocumentFullySigned', ParkedInOrder',
         \A t \in DOMAIN tx : tx'[t].party = tx[t].party,
         NEW p \in Processes, NEW w, h' = [h EXCEPT ![p] = w],
         w.pc \in {"initiate", "create", "park"} => InOrder(w.source),
         w.pc = "sign" => w.bytes.sigs = SignaturesOf(DocumentStateAfter(tx'[w.tx].party))
  PROVE  SignaturesInOrder'
<1>1. ShownInOrder'
  BY DEF ShownInOrder, SignaturesInOrder, TypeOK
<1>2. SignedAsClaimed'
  <2> SUFFICES ASSUME NEW q \in Processes, h'[q].pc = "sign"
               PROVE  h'[q].bytes.sigs = SignaturesOf(DocumentStateAfter(tx'[h'[q].tx].party))
    BY DEF SignedAsClaimed
  <2>1. CASE q = p
    BY <2>1 DEF TypeOK
  <2>2. CASE q # p
    <3>1. h'[q] = h[q]
      BY <2>2 DEF TypeOK
    <3>2. h[q].tx \in DOMAIN tx
      BY <3>1, HandlerWork, WorkKinds DEF Recording
    <3> QED
      BY <3>1, <3>2 DEF SignaturesInOrder, SignedAsClaimed
  <2> QED
    BY <2>1, <2>2
<1> QED
  BY <1>1, <1>2 DEF SignaturesInOrder

(* The same for a step that writes neither document nor transaction.       *)
LEMMA HandOverOnly ==
  ASSUME TypeOK, SignaturesInOrder, UNCHANGED <<docs, tx>>,
         NEW p \in Processes, NEW w, h' = [h EXCEPT ![p] = w],
         w.pc \in {"initiate", "create", "park"} => InOrder(w.source),
         w.pc = "sign" => w.bytes.sigs = SignaturesOf(DocumentStateAfter(tx[w.tx].party))
  PROVE  SignaturesInOrder'
<1>1. EveryDocumentFullySigned' /\ ParkedInOrder'
  BY DEF SignaturesInOrder, EveryDocumentFullySigned, ParkedInOrder
<1> QED
  BY <1>1, HandOver

LEMMA IdleHand ==
  /\ Idle.pc = "idle"
  /\ \A t \in DOMAIN tx : Failing(t).pc = "fail" /\ Resolving(t).pc \in {"embed", "fail"}
BY DEF Idle, Failing, Completing, Resolving

LEMMA StepSigned ==
  ASSUME TypeOK, SignaturesInOrder, NEW p \in Processes, Step(p)
  PROVE  SignaturesInOrder'
<1>0. p \in Processes /\ Idle.pc = "idle"
  BY IdleHand
<1>1. CASE Prepare(p)
  <2>1. [h[p] EXCEPT !.pc = "generate"].pc = "generate"
    <3>1. h[p] \in OnAgreement
      BY <1>1, HandlerWork, WorkKinds DEF Prepare, At
    <3> QED
      BY <3>1 DEF OnAgreement
  <2> QED
    BY <1>1, <2>1, HandOverOnly DEF Prepare, Goto
<1>2. CASE CommitGenerate(p)
  <2>1. h[p] \in OnAgreement
    BY <1>2, HandlerWork, WorkKinds DEF CommitGenerate, At
  <2>2. h[p].agr \in Agreements /\ h[p].ver \in 1..MaxVersion
    BY <2>1 DEF OnAgreement
  <2>3. EveryDocumentFullySigned'
    <3>1. [text |-> h[p].ver, sigs |-> <<>>].sigs = SignaturesOf("UNSIGNED")
      BY SignatureTable
    <3> QED
      BY <1>2, <2>2, <3>1, AddRowSigned DEF CommitGenerate, SignaturesInOrder
  <2>4. ParkedInOrder'
    BY <1>2 DEF CommitGenerate, SignaturesInOrder, ParkedInOrder
  <2> QED
    BY <1>0, <1>2, <2>3, <2>4, HandOver DEF CommitGenerate, Returns, Goto
<1>3. CASE CommitInitiate(p)
  <2>1. h[p] \in Initiating /\ InOrder(h[p].source)
    BY <1>3, HandlerWork, WorkKinds DEF CommitInitiate, At, SignaturesInOrder, ShownInOrder
  <2>2. /\ [h[p] EXCEPT !.pc = "create"].pc = "create"
        /\ [h[p] EXCEPT !.pc = "create"].source = h[p].source
    BY <2>1 DEF Initiating
  <2> QED
    BY <1>3, <2>1, <2>2, HandOverOnly DEF CommitInitiate, Goto
<1>4. CASE CreateTransaction(p)
  <2> DEFINE row == [agr |-> h[p].agr, party |-> h[p].party, ver |-> h[p].ver,
                     parked |-> NoBytes, status |-> "PENDING_SIGNER"]
  <2>1. InOrder(h[p].source)
    BY <1>4 DEF CreateTransaction, At, SignaturesInOrder, ShownInOrder
  <2>2. InOrder(NoBytes)
    BY SignatureTable DEF InOrder, NoBytes, DocumentState
  <2>3. tx \in Seq(Transaction) /\ tx' = Append(tx, row)
    BY <1>4 DEF CreateTransaction, TypeOK
  <2>4. \A t \in DOMAIN tx' : (t \in DOMAIN tx /\ tx'[t] = tx[t]) \/ tx'[t] = row
    BY <2>3
  <2>5. \A t \in DOMAIN tx : tx'[t] = tx[t]
    BY <2>3
  <2>6. ParkedInOrder'
    BY <2>2, <2>4 DEF ParkedInOrder, SignaturesInOrder
  <2>7. EveryDocumentFullySigned'
    BY <1>4 DEF CreateTransaction, SignaturesInOrder, EveryDocumentFullySigned
  <2> QED
    BY <1>4, <2>1, <2>5, <2>6, <2>7, HandOver DEF CreateTransaction, Goto
<1>5. CASE Park(p)
  <2>1. h[p] \in Parking(Len(tx)) /\ InOrder(h[p].source)
    BY <1>5, HandlerWork, WorkKinds DEF Park, At, SignaturesInOrder, ShownInOrder
  <2>2. \A t \in DOMAIN tx : tx[t] \in Transaction
    BY HandlerWork
  <2>3. /\ DOMAIN tx' = DOMAIN tx
        /\ \A t \in DOMAIN tx : /\ tx'[t].party = tx[t].party
                                /\ tx'[t].parked \in {tx[t].parked, h[p].source}
    BY <1>5, <2>2 DEF Park, Transaction
  <2>4. ParkedInOrder'
    BY <2>1, <2>3 DEF ParkedInOrder, SignaturesInOrder
  <2>5. EveryDocumentFullySigned'
    BY <1>5 DEF Park, SignaturesInOrder, EveryDocumentFullySigned
  <2> QED
    BY <1>0, <1>5, <2>3, <2>4, <2>5, HandOver DEF Park, Returns, Goto
<1>6. CASE Embed(p)
  <2> DEFINE t == h[p].tx
             w == [pc |-> "sign", tx |-> t, ver |-> h[p].ver,
                   bytes |-> [tx[t].parked EXCEPT !.sigs = Append(@, tx[t].party)]]
  <2>1. t \in DOMAIN tx
    BY <1>6, HandlerWork, WorkKinds DEF Embed, At, Embedding
  <2>2. /\ tx[t].party \in Parties /\ tx[t].parked \in Bytes
        /\ InOrder(tx[t].parked)
    BY <2>1, HandlerWork DEF SignaturesInOrder, ParkedInOrder, Transaction
  <2>3. Append(tx[t].parked.sigs, tx[t].party) = SignaturesOf(DocumentStateAfter(tx[t].party))
    BY <1>6, <2>2, NextSignature DEF Embed, IntegrityHolds
  <2>4. w.pc = "sign" /\ w.tx = t
        /\ w.bytes.sigs = SignaturesOf(DocumentStateAfter(tx[t].party))
    BY <2>2, <2>3 DEF Bytes
  <2>5. h' = [h EXCEPT ![p] = w] /\ UNCHANGED <<docs, tx>>
    BY <1>6 DEF Embed, Goto
  <2> HIDE DEF w, t
  <2> QED
    BY <2>4, <2>5, HandOverOnly
<1>7. CASE IntegrityAlert(p)
  <2>1. h[p].tx \in DOMAIN tx
    BY <1>7, HandlerWork, WorkKinds DEF IntegrityAlert, At, Embedding
  <2> QED
    BY <1>7, <2>1, IdleHand, HandOverOnly DEF IntegrityAlert, Goto
<1>8. CASE CommitSignature(p)
  <2>1. h[p] \in Recording(Len(tx))
    BY <1>8, HandlerWork, WorkKinds DEF CommitSignature, At
  <2>2. /\ h[p].tx \in DOMAIN tx /\ h[p].ver \in 1..MaxVersion
        /\ tx[h[p].tx].agr \in Agreements
    BY <2>1, HandlerWork DEF Recording
  <2>3. EveryDocumentFullySigned'
    BY <1>8, <2>2, AddRowSigned DEF CommitSignature, At, SignaturesInOrder, SignedAsClaimed
  <2>4. /\ DOMAIN tx' = DOMAIN tx
        /\ \A t \in DOMAIN tx : tx'[t].party = tx[t].party /\ tx'[t].parked = tx[t].parked
    BY <1>8, HandlerWork DEF CommitSignature, SetTxStatus, Transaction
  <2>5. ParkedInOrder'
    BY <2>4 DEF ParkedInOrder, SignaturesInOrder
  <2> QED
    BY <1>0, <1>8, <2>3, <2>4, <2>5, HandOver DEF CommitSignature, Returns, Goto
<1>9. CASE CommitFailure(p)
  <2>1. /\ DOMAIN tx' = DOMAIN tx
        /\ \A t \in DOMAIN tx : tx'[t].party = tx[t].party /\ tx'[t].parked = tx[t].parked
    BY <1>9, HandlerWork DEF CommitFailure, SetTxStatus, Transaction
  <2>2. ParkedInOrder'
    BY <2>1 DEF ParkedInOrder, SignaturesInOrder
  <2>3. EveryDocumentFullySigned'
    BY <1>9 DEF CommitFailure, SignaturesInOrder, EveryDocumentFullySigned
  <2> QED
    BY <1>0, <1>9, <2>1, <2>2, <2>3, HandOver DEF CommitFailure, Returns, Goto
<1>10. CASE Refused(p) \/ CannotCompose(p)
  BY <1>0, <1>10, HandOverOnly DEF Refused, CannotCompose, Throws
<1> QED
  BY <1>1, <1>2, <1>3, <1>4, <1>5, <1>6, <1>7, <1>8, <1>9, <1>10 DEF Step

LEMMA NextSigned ==
  ASSUME TypeOK, SignaturesInOrder, [Next]_vars
  PROVE  SignaturesInOrder'
<1> USE DEF SignaturesInOrder
<1>1. ASSUME UNCHANGED <<docs, tx, h>> PROVE SignaturesInOrder'
  BY <1>1 DEF EveryDocumentFullySigned, ParkedInOrder, ShownInOrder, SignedAsClaimed
<1>2. CASE UNCHANGED vars
  BY <1>1, <1>2 DEF vars
<1>3. ASSUME NEW p \in Processes, Step(p) PROVE SignaturesInOrder'
  BY <1>3, StepSigned
<1>4. ASSUME NEW p \in Callers, NEW a \in Agreements, BeginGenerate(p, a)
      PROVE  SignaturesInOrder'
  BY <1>4, HandOverOnly DEF BeginGenerate, Goto, Processes
<1>5. ASSUME NEW p \in Callers, NEW a \in Agreements, NEW party \in Parties,
             BeginInitiate(p, a, party)
      PROVE  SignaturesInOrder'
  <2> DEFINE rows == docs[a][version[a]]
  <2>1. /\ version[a] \in 1..MaxVersion
        /\ rows \in Seq(Row) /\ rows # <<>>
    BY <1>5, AgreementRows DEF BeginInitiate
  <2>2. Len(rows) \in DOMAIN rows /\ Last(rows) = rows[Len(rows)] /\ Last(rows) \in Row
    BY <2>1 DEF Last
  <2>3. Last(rows) \in Range(rows)
    BY <2>2 DEF Range
  <2>4. Last(rows).bytes.sigs = SignaturesOf(Last(rows).state)
    BY <2>1, <2>3 DEF EveryDocumentFullySigned
  <2>5. InOrder(Last(rows).bytes)
    BY <2>2, <2>4 DEF InOrder, Row
  <2> QED
    BY <1>5, <2>5, HandOverOnly DEF BeginInitiate, Goto, Processes
<1>6. ASSUME NEW p \in Callers, NEW t \in DOMAIN tx, Callback(p, t)
      PROVE  SignaturesInOrder'
  BY <1>6, IdleHand, HandOverOnly DEF Callback, Goto, Processes
<1>7. ASSUME NEW p \in Processes, Interrupt(p) PROVE SignaturesInOrder'
  BY <1>7, IdleHand, HandOverOnly DEF Interrupt, Throws
<1>8. ASSUME NEW a \in Agreements, Reject(a) \/ Cancel(a) \/ ExpireNext(a) \/ Lapse(a)
      PROVE  SignaturesInOrder'
  BY <1>1, <1>8 DEF Reject, Cancel, ExpireNext, Lapse, EndTransaction
<1>9. ASSUME NEW a \in Agreements, Correct(a) PROVE SignaturesInOrder'
  <2>1. /\ DOMAIN tx' = DOMAIN tx
        /\ \A t \in DOMAIN tx : tx'[t].party = tx[t].party /\ tx'[t].parked = tx[t].parked
    BY <1>9, HandlerWork DEF Correct, Transaction
  <2>2. ParkedInOrder'
    BY <2>1 DEF ParkedInOrder
  <2>3. EveryDocumentFullySigned' /\ ShownInOrder'
    BY <1>9 DEF Correct, EndTransaction, EveryDocumentFullySigned, ShownInOrder
  <2>4. \A p \in Processes : h[p].pc = "sign" => h[p].tx \in DOMAIN tx
    BY HandlerWork, WorkKinds DEF Recording
  <2>5. SignedAsClaimed'
    BY <1>9, <2>1, <2>4 DEF Correct, SignedAsClaimed
  <2> QED
    BY <2>2, <2>3, <2>5
<1>10. ASSUME NEW t \in DOMAIN tx, Ceremony(t) PROVE SignaturesInOrder'
  BY <1>1, <1>10 DEF Ceremony
<1>11. ASSUME NEW t \in DOMAIN tx, Visit(t) PROVE SignaturesInOrder'
  <2>1. CASE h' = h
    BY <1>1, <1>11, <2>1 DEF Visit
  <2>2. CASE h' = [h EXCEPT ![Reconciler] = Resolving(t)]
    BY <1>11, <2>2, IdleHand, HandOverOnly DEF Visit, Processes
  <2> QED
    BY <1>11, <2>1, <2>2 DEF Visit
<1>12. CASE BeginPass \/ BeginSweep \/ TurnOfMonth
  BY <1>1, <1>12 DEF BeginPass, BeginSweep, TurnOfMonth
<1> QED
  BY <1>2, <1>3, <1>4, <1>5, <1>6, <1>7, <1>8, <1>9, <1>10, <1>11, <1>12 DEF Next

(* BR-007, for any number of handlers, corrections and interruptions: every*)
(* recorded document carries exactly the signatures its state claims, and  *)
(* the final one those of the agent, the employee and the MD in that order.*)
THEOREM DocumentsFullySigned == Spec => []EveryDocumentFullySigned
<1>1. Init => SignaturesInOrder
  BY IdleHand DEF Init, SignaturesInOrder, EveryDocumentFullySigned, ParkedInOrder,
                  ShownInOrder, SignedAsClaimed, Range
<1>2. TypeOK /\ SignaturesInOrder /\ [Next]_vars => SignaturesInOrder'
  BY NextSigned
<1>3. SignaturesInOrder => EveryDocumentFullySigned
  BY DEF SignaturesInOrder
<1> QED
  BY <1>1, <1>2, <1>3, TypeCorrect, PTL DEF Spec

-----------------------------------------------------------------------------
(* What a step does to what the remaining invariants speak of.  Most steps *)
(* only change hands; the others are described one by one.                 *)

Sound(row) == Len(row.parked.sigs) = SIGNING_PARTY[row.party].signaturesBefore

Signable(row, outcome) == outcome = "SIGNED" /\ row.parked # NoBytes /\ Sound(row)
Hopeless(row, outcome) == outcome = "FAILED" \/ (row.parked # NoBytes /\ ~Sound(row))

(* Work that a handler takes up without writing anything.                  *)
Takes(w) ==
  \/ w = Idle
  \/ w.pc = "prepare" /\ w \in OnAgreement /\ w.ver = version[w.agr]
  \/ /\ w.pc = "initiate" /\ w \in Initiating /\ w.ver = version[w.agr]
     /\ docs[w.agr][w.ver] # <<>> /\ w.source = Last(docs[w.agr][w.ver]).bytes
  \/ /\ w.pc = "embed" /\ w \in Embedding(Len(tx))
     /\ provider[w.tx] = "SIGNED" /\ w.ver = version[tx[w.tx].agr]
  \/ w.pc = "fail" /\ w \in GivingUp(Len(tx)) /\ Hopeless(tx[w.tx], provider[w.tx])

(* A composed document that is not going to be committed.                  *)
Abandoned(w) == ~CanGenerate(w) \/ interrupts' > 0 \/ <<w.agr, w.ver>> \in uncomposed'

Aside ==
  /\ UNCHANGED <<status, version, docs, files, tx, crossed>>
  /\ interrupts <= interrupts' /\ uncomposed \subseteq uncomposed'
  /\ \A t \in DOMAIN tx : provider[t] # "PENDING_SIGNER" => provider'[t] = provider[t]
  /\ \A p \in Processes :
       \/ h'[p] = h[p]
       \/ /\ Takes(h'[p])
          /\ h[p].pc = "generate" => Abandoned(h[p])

Ends(a) ==
  /\ status[a] \notin {"COMPLETED", "REJECTED", "CANCELLED", "EXPIRED"}
  /\ \/ status'[a] \in {"REJECTED", "EXPIRED"} /\ status[a] # "DRAFT"
     \/ status'[a] = "CANCELLED"
  /\ \A b \in Agreements \ {a} : status'[b] = status[b]
  /\ UNCHANGED <<version, docs, files, tx, provider, h, crossed, interrupts, uncomposed>>

(* A fresh look at a transaction finds out what will become of it.         *)
LEMMA ResolvingTakes ==
  ASSUME TypeOK, NEW t \in DOMAIN tx, provider[t] # "PENDING_SIGNER"
  PROVE  Takes(Resolving(t))
<1>1. /\ t \in 1..Len(tx) /\ tx[t].agr \in Agreements
      /\ provider[t] \in {"SIGNED", "FAILED"}
  BY HandlerWork DEF TypeOK
<1>2. version[tx[t].agr] \in 1..MaxVersion /\ status[tx[t].agr] \in AgreementState
  BY <1>1, AgreementRows
<1>3. CASE provider[t] = "SIGNED"
  <2>1. Completing(t) \in Embedding(Len(tx)) /\ Completing(t).pc = "embed"
        /\ Completing(t).tx = t /\ Completing(t).ver = version[tx[t].agr]
    BY <1>1, <1>2 DEF Completing, Embedding
  <2> QED
    BY <1>3, <2>1 DEF Takes, Resolving
<1>4. CASE provider[t] = "FAILED"
  <2>1. Failing(t) \in GivingUp(Len(tx)) /\ Failing(t).pc = "fail" /\ Failing(t).tx = t
    BY <1>1, <1>2 DEF Failing, GivingUp
  <2> QED
    BY <1>4, <2>1 DEF Takes, Resolving, Hopeless
<1> QED
  BY <1>1, <1>3, <1>4

(* One handler takes up work, and all else stands still.                   *)
LEMMA HandTaken ==
  ASSUME TypeOK, NEW p \in Processes, NEW w, h' = [h EXCEPT ![p] = w], Takes(w),
         h[p].pc = "generate" => Abandoned(h[p]), uncomposed \subseteq uncomposed',
         UNCHANGED <<status, version, docs, files, tx, crossed, provider>>,
         interrupts' \in {interrupts, interrupts + 1}
  PROVE  Aside
<1>1. h \in [Processes -> Work(Len(tx))] /\ interrupts \in Nat
  BY BoundsAssumption DEF TypeOK
<1>2. interrupts <= interrupts'
  BY <1>1
<1>3. \A q \in Processes : h'[q] = IF q = p THEN w ELSE h[q]
  BY <1>1
<1> QED
  BY <1>2, <1>3 DEF Aside

LEMMA AsideStep ==
  ASSUME TypeOK, NEW p \in Processes,
         IntegrityAlert(p) \/ CannotCompose(p) \/ Refused(p) \/ Interrupt(p)
  PROVE  Aside
<1>0. interrupts \in Nat
  BY BoundsAssumption DEF TypeOK
<1>1. CASE IntegrityAlert(p)
  <2>1. h[p] \in Embedding(Len(tx))
    BY <1>1, HandlerWork, WorkKinds DEF IntegrityAlert, At
  <2> DEFINE t == h[p].tx
  <2>2. t \in 1..Len(tx) /\ tx[t].agr \in Agreements
    BY <2>1, HandlerWork DEF Embedding
  <2>3. status[tx[t].agr] \in AgreementState
    BY <2>2, AgreementRows
  <2>4. Failing(t) \in GivingUp(Len(tx)) /\ Failing(t).pc = "fail" /\ Failing(t).tx = t
    BY <2>2, <2>3 DEF Failing, GivingUp
  <2>5. Hopeless(tx[t], provider[t])
    BY <1>1 DEF IntegrityAlert, CanEmbed, IntegrityHolds, Hopeless, Sound
  <2>6. Takes(Failing(t))
    BY <2>4, <2>5 DEF Takes
  <2>7. h[p].pc # "generate"
    BY <1>1 DEF IntegrityAlert, At
  <2> QED
    BY <1>1, <2>6, <2>7, HandTaken DEF IntegrityAlert, Goto, agreementVars, environment
<1>2. CASE Refused(p)
  <2>1. h[p].pc = "generate" => Abandoned(h[p])
    BY <1>2 DEF Refused, At, Abandoned
  <2>2. Takes(Idle)
    BY DEF Takes
  <2> QED
    BY <1>2, <2>1, <2>2, HandTaken DEF Refused, Throws, agreementVars, environment
<1>3. CASE Interrupt(p)
  <2>1. Takes(Idle) /\ Abandoned(h[p])
    BY <1>0, <1>3 DEF Takes, Interrupt, Abandoned
  <2> QED
    BY <1>3, <2>1, HandTaken DEF Interrupt, Throws, agreementVars
<1>4. CASE CannotCompose(p)
  <2>1. Takes(Idle) /\ Abandoned(h[p])
    BY <1>4 DEF Takes, CannotCompose, Abandoned
  <2> QED
    BY <1>4, <2>1, HandTaken DEF CannotCompose, Throws, agreementVars
<1> QED
  BY <1>1, <1>2, <1>3, <1>4

LEMMA AsideStart ==
  ASSUME TypeOK, NEW p \in Callers, NEW a \in Agreements,
         BeginGenerate(p, a) \/ \E party \in Parties : BeginInitiate(p, a, party)
  PROVE  Aside
<1>0. version[a] \in 1..MaxVersion /\ docs[a][version[a]] \in Seq(Row) /\ p \in Processes
  BY AgreementRows DEF Processes
<1>1. CASE BeginGenerate(p, a)
  <2> DEFINE w == [pc |-> "prepare", agr |-> a, ver |-> version[a]]
  <2>1. Takes(w)
    BY <1>0 DEF Takes, OnAgreement
  <2>2. h[p].pc # "generate"
    BY <1>1, IdleHand DEF BeginGenerate
  <2> QED
    BY <1>0, <1>1, <2>1, <2>2, HandTaken DEF BeginGenerate, Goto, agreementVars, environment
<1>2. ASSUME NEW party \in Parties, BeginInitiate(p, a, party) PROVE Aside
  <2> DEFINE w == [pc |-> "initiate", agr |-> a, ver |-> version[a], party |-> party,
                   source |-> Last(docs[a][version[a]]).bytes]
  <2>1. Last(docs[a][version[a]]) \in Row /\ docs[a][version[a]] # <<>>
    BY <1>0, <1>2 DEF BeginInitiate, Last
  <2>2. Takes(w)
    BY <1>0, <2>1 DEF Takes, Initiating, Row
  <2>3. h[p].pc # "generate"
    BY <1>2, IdleHand DEF BeginInitiate
  <2> QED
    BY <1>0, <1>2, <2>2, <2>3, HandTaken DEF BeginInitiate, Goto, agreementVars, environment
<1> QED
  BY <1>1, <1>2

LEMMA AsideTx ==
  ASSUME TypeOK, NEW t \in DOMAIN tx,
         Ceremony(t) \/ Visit(t) \/ \E p \in Callers : Callback(p, t)
  PROVE  Aside
<1>0. interrupts \in Nat /\ Len(provider) = Len(tx) /\ provider \in Seq({"PENDING_SIGNER", "SIGNED", "FAILED"})
  BY BoundsAssumption DEF TypeOK
<1>1. CASE Ceremony(t)
  BY <1>0, <1>1 DEF Ceremony, agreementVars, Aside
<1>2. CASE Visit(t) /\ h' = h
  BY <1>0, <1>2 DEF Visit, agreementVars, environment, Aside
<1>3. CASE Visit(t) /\ h' # h
  <2>1. h' = [h EXCEPT ![Reconciler] = Resolving(t)] /\ provider[t] # "PENDING_SIGNER"
    BY <1>3 DEF Visit
  <2>2. h[Reconciler].pc # "generate" /\ Reconciler \in Processes
    BY <1>3, IdleHand DEF Visit, Processes
  <2> QED
    BY <1>3, <2>1, <2>2, ResolvingTakes, HandTaken DEF Visit, agreementVars, environment
<1>4. ASSUME NEW p \in Callers, Callback(p, t) PROVE Aside
  <2>1. h[p].pc # "generate" /\ p \in Processes
    BY <1>4, IdleHand DEF Callback, Processes
  <2> QED
    BY <1>4, <2>1, ResolvingTakes, HandTaken DEF Callback, Goto, agreementVars, environment
<1> QED
  BY <1>1, <1>2, <1>3, <1>4

LEMMA EndsOne ==
  ASSUME TypeOK, NEW a \in Agreements,
         NEW act \in {"REJECT", "EMPLOYEE_REJECT", "CANCEL", "EXPIRE"},
         Workflow!Transition(a, act) \/ Workflow!TransitionClearingDeadline(a, act),
         UNCHANGED <<docs, files, tx, provider, h, crossed, interrupts, uncomposed>>
  PROVE  Ends(a)
<1>1. status \in [Agreements -> AgreementState]
  BY AgreementRows
<1>2. status[a] \in Workflow!From(act) /\ status' = [status EXCEPT ![a] = Workflow!To(act)]
      /\ version' = version
  BY DEF Workflow!Transition, Workflow!TransitionClearingDeadline, Workflow!Permitted,
         Workflow!AssertTransition
<1>3. /\ Workflow!To(act) \in {"REJECTED", "EXPIRED"} => "DRAFT" \notin Workflow!From(act)
      /\ Workflow!To(act) \in {"REJECTED", "EXPIRED", "CANCELLED"}
      /\ Workflow!From(act) \cap {"COMPLETED", "REJECTED", "CANCELLED", "EXPIRED"} = {}
  BY DEF Workflow!To, Workflow!From, Workflow!AgreementState
<1> QED
  BY <1>1, <1>2, <1>3 DEF Ends

LEMMA Kinds ==
  ASSUME TypeOK, [Next]_vars
  PROVE  \/ Aside
         \/ \E a \in Agreements : Ends(a) \/ Correct(a)
         \/ \E p \in Processes :
              \/ Prepare(p) \/ CommitGenerate(p) \/ CommitInitiate(p)
              \/ CreateTransaction(p) \/ Park(p) \/ Embed(p)
              \/ CommitSignature(p) \/ CommitFailure(p)
<1>0. interrupts \in Nat
  BY BoundsAssumption DEF TypeOK
<1>1. CASE UNCHANGED vars \/ BeginPass \/ BeginSweep \/ TurnOfMonth
  BY <1>0, <1>1 DEF vars, BeginPass, BeginSweep, TurnOfMonth, agreementVars, environment, Aside
<1>2. ASSUME NEW a \in Agreements, Reject(a) \/ Cancel(a) PROVE Ends(a)
  BY <1>2, EndsOne DEF Reject, Cancel, EndTransaction, environment
<1>3. ASSUME NEW a \in Agreements, ExpireNext(a) PROVE Ends(a) \/ Aside
  BY <1>0, <1>3, EndsOne DEF ExpireNext, environment, agreementVars, Aside
<1>4. ASSUME NEW a \in Agreements, Lapse(a) PROVE Aside
  BY <1>0, <1>4 DEF Lapse, Workflow!Lapse, EndTransaction, environment, Aside
<1> QED
  BY <1>1, <1>2, <1>3, <1>4, AsideStep, AsideStart, AsideTx DEF Next, Step

-----------------------------------------------------------------------------
(* The other steps, one by one.                                            *)

SigningOf(party) == SIGNING_PARTY[party].signingState

Turn(party) ==
  CASE party = "AGENT"    -> "READY_FOR_AGENT_SIGNATURE"
    [] party = "EMPLOYEE" -> "PENDING_EMPLOYEE_SIGNATURE"
    [] OTHER              -> "PENDING_MD_SIGNATURE"

Following(party) ==
  CASE party = "AGENT"    -> "PENDING_EMPLOYEE_SIGNATURE"
    [] party = "EMPLOYEE" -> "PENDING_MD_SIGNATURE"
    [] OTHER              -> "COMPLETED"

OthersKeep(p) == \A q \in Processes \ {p} : h'[q] = h[q]

Becomes(a, s) == status'[a] = s /\ \A b \in Agreements \ {a} : status'[b] = status[b]

MayCross(a, vs) ==
  /\ crossed'[a] = (crossed[a] \/ vs # {version[a]})
  /\ \A b \in Agreements \ {a} : crossed'[b] = crossed[b]

Records(a, v, row) ==
  /\ docs'[a][v] = Append(docs[a][v], row) /\ ~HasRow(a, v, row.state)
  /\ \A b \in Agreements, u \in 1..MaxVersion : b # a \/ u # v => docs'[b][u] = docs[b][u]

SameRow(t) ==
  /\ tx'[t].agr = tx[t].agr /\ tx'[t].party = tx[t].party /\ tx'[t].ver = tx[t].ver

Resolves(t, s) ==
  /\ DOMAIN tx' = DOMAIN tx /\ tx'[t].status = s /\ SameRow(t) /\ tx'[t].parked = tx[t].parked
  /\ \A u \in DOMAIN tx \ {t} : tx'[u] = tx[u]

LEMMA RecordsRow ==
  ASSUME TypeOK, NEW a \in Agreements, NEW v \in 1..MaxVersion, NEW state, NEW bytes,
         AddRow(a, v, state, bytes)
  PROVE  Records(a, v, [state |-> state, bytes |-> bytes])
BY DEF TypeOK, AddRow, Records

LEMMA ResolvesRow ==
  ASSUME TypeOK, NEW t \in DOMAIN tx, NEW s, SetTxStatus(t, s)
  PROVE  Resolves(t, s)
<1>1. tx \in Seq(Transaction) /\ tx[t] \in Transaction
  BY HandlerWork DEF TypeOK
<1> QED
  BY <1>1 DEF SetTxStatus, Resolves, SameRow, Transaction

LEMMA MayCrossOne ==
  ASSUME TypeOK, NEW a \in Agreements, NEW vs, Crossing(a, vs)
  PROVE  MayCross(a, vs)
BY DEF TypeOK, Crossing, MayCross

LEMMA HandPassed ==
  ASSUME TypeOK, NEW p \in Processes, NEW w, h' = [h EXCEPT ![p] = w]
  PROVE  h'[p] = w /\ OthersKeep(p)
BY DEF TypeOK, OthersKeep

LEMMA Moved ==
  ASSUME TypeOK, NEW a \in Agreements, NEW s, status' = [status EXCEPT ![a] = s]
  PROVE  Becomes(a, s)
BY AgreementRows DEF Becomes

LEMMA PartyEdges ==
  ASSUME NEW party \in Parties
  PROVE  LET spec == SIGNING_PARTY[party] IN
         /\ From(spec.initiate) = {Turn(party)} /\ Workflow!To(spec.initiate) = SigningOf(party)
         /\ From(spec.succeed) = {SigningOf(party)}
         /\ spec.advance # "NONE" => Workflow!To(spec.advance) = Following(party)
         /\ spec.advance = "NONE" => Workflow!To(spec.succeed) = Following(party)
         /\ Workflow!To(spec.fail) = "SIGNATURE_FAILED"
<1>1. CASE party = "AGENT"
  BY <1>1 DEF SIGNING_PARTY, From, Workflow!To, Turn, SigningOf, Following
<1>2. CASE party = "EMPLOYEE"
  BY <1>2 DEF SIGNING_PARTY, From, Workflow!To, Turn, SigningOf, Following
<1>3. CASE party = "MD"
  BY <1>3 DEF SIGNING_PARTY, From, Workflow!To, Turn, SigningOf, Following
<1> QED
  BY <1>1, <1>2, <1>3 DEF Parties

LEMMA Prepares ==
  ASSUME TypeOK, NEW p \in Processes, Prepare(p)
  PROVE  /\ h[p] \in OnAgreement /\ h[p].pc = "prepare"
         /\ files' = files \cup {<<h[p].agr, h[p].ver, "UNSIGNED", month>>}
         /\ h'[p] = [h[p] EXCEPT !.pc = "generate"] /\ OthersKeep(p)
         /\ UNCHANGED <<status, version, docs, tx, crossed, provider, interrupts, uncomposed>>
<1>1. h[p] \in OnAgreement
  BY HandlerWork, WorkKinds DEF Prepare, At
<1> QED
  BY <1>1, HandPassed DEF Prepare, At, Goto, ObjectKey, agreementVars, environment

LEMMA Generates ==
  ASSUME TypeOK, NEW p \in Processes, CommitGenerate(p)
  PROVE  /\ h[p] \in OnAgreement /\ h[p].pc = "generate"
         /\ status[h[p].agr] = "DRAFT" /\ Becomes(h[p].agr, "READY_FOR_AGENT_SIGNATURE")
         /\ Records(h[p].agr, h[p].ver,
                    [state |-> "UNSIGNED", bytes |-> [text |-> h[p].ver, sigs |-> <<>>]])
         /\ MayCross(h[p].agr, {h[p].ver})
         /\ h'[p] = Idle /\ OthersKeep(p)
         /\ UNCHANGED <<version, files, tx, provider, interrupts, uncomposed>>
<1>1. h[p] \in OnAgreement
  BY HandlerWork, WorkKinds DEF CommitGenerate, At
<1>2. h[p].agr \in Agreements /\ h[p].ver \in 1..MaxVersion
  BY <1>1 DEF OnAgreement
<1>3. /\ status' = [status EXCEPT ![h[p].agr] = "READY_FOR_AGENT_SIGNATURE"]
      /\ UNCHANGED version
  BY DEF CommitGenerate, Workflow!Transition, Workflow!To
<1> QED
  BY <1>1, <1>2, <1>3, HandPassed, Moved, MayCrossOne, RecordsRow
     DEF CommitGenerate, CanGenerate, At, Returns, Goto, environment

LEMMA Initiates ==
  ASSUME TypeOK, NEW p \in Processes, CommitInitiate(p)
  PROVE  /\ h[p] \in Initiating /\ h[p].pc = "initiate"
         /\ status[h[p].agr] = Turn(h[p].party) /\ Becomes(h[p].agr, SigningOf(h[p].party))
         /\ MayCross(h[p].agr, {h[p].ver})
         /\ h'[p] = [h[p] EXCEPT !.pc = "create"] /\ OthersKeep(p)
         /\ UNCHANGED <<version, docs, files, tx, provider, interrupts, uncomposed>>
<1>1. h[p] \in Initiating
  BY HandlerWork, WorkKinds DEF CommitInitiate, At
<1>2. h[p].agr \in Agreements /\ h[p].party \in Parties
  BY <1>1 DEF Initiating
<1> DEFINE act == SIGNING_PARTY[h[p].party].initiate
<1>3. status[h[p].agr] \in From(act)
  BY DEF CommitInitiate, CanInitiate
<1>4. status' = [status EXCEPT ![h[p].agr] = Workflow!To(act)] /\ UNCHANGED version
  BY DEF CommitInitiate, Workflow!Transition
<1>5. From(act) = {Turn(h[p].party)} /\ Workflow!To(act) = SigningOf(h[p].party)
  BY <1>2, PartyEdges
<1> HIDE DEF act
<1>6. Becomes(h[p].agr, SigningOf(h[p].party)) /\ status[h[p].agr] = Turn(h[p].party)
  BY <1>2, <1>3, <1>4, <1>5, Moved
<1> QED
  BY <1>1, <1>2, <1>4, <1>6, HandPassed, MayCrossOne DEF CommitInitiate, At, Goto, environment

LEMMA Creates ==
  ASSUME TypeOK, NEW p \in Processes, CreateTransaction(p)
  PROVE  /\ h[p] \in Initiating /\ h[p].pc = "create"
         /\ DOMAIN tx' = DOMAIN tx \cup {Len(tx) + 1} /\ Len(tx) + 1 \notin DOMAIN tx
         /\ \A t \in DOMAIN tx : tx'[t] = tx[t] /\ provider'[t] = provider[t]
         /\ tx'[Len(tx) + 1].agr = h[p].agr /\ tx'[Len(tx) + 1].party = h[p].party
         /\ tx'[Len(tx) + 1].ver = h[p].ver /\ tx'[Len(tx) + 1].parked = NoBytes
         /\ tx'[Len(tx) + 1].status = "PENDING_SIGNER"
         /\ provider'[Len(tx) + 1] = "PENDING_SIGNER"
         /\ MayCross(h[p].agr, {h[p].ver})
         /\ h'[p].pc = "park" /\ h'[p].tx = Len(tx) + 1 /\ h'[p].source = h[p].source
         /\ OthersKeep(p)
         /\ UNCHANGED <<status, version, docs, files, interrupts, uncomposed>>
<1>1. h[p] \in Initiating
  BY HandlerWork, WorkKinds DEF CreateTransaction, At
<1>2. h[p].agr \in Agreements
  BY <1>1 DEF Initiating
<1>3. /\ tx \in Seq(Transaction) /\ Len(tx) \in Nat /\ DOMAIN tx = 1..Len(tx)
      /\ provider \in Seq({"PENDING_SIGNER", "SIGNED", "FAILED"}) /\ Len(provider) = Len(tx)
  BY HandlerWork DEF TypeOK
<1> DEFINE row == [agr |-> h[p].agr, party |-> h[p].party, ver |-> h[p].ver,
                   parked |-> NoBytes, status |-> "PENDING_SIGNER"]
<1>4. tx' = Append(tx, row) /\ provider' = Append(provider, "PENDING_SIGNER")
  BY DEF CreateTransaction
<1> HIDE DEF row
<1>5. /\ DOMAIN tx' = 1..(Len(tx) + 1)
      /\ \A t \in DOMAIN tx : tx'[t] = tx[t] /\ provider'[t] = provider[t]
      /\ tx'[Len(tx) + 1] = row /\ provider'[Len(tx) + 1] = "PENDING_SIGNER"
  BY <1>3, <1>4
<1>6. DOMAIN tx' = DOMAIN tx \cup {Len(tx) + 1} /\ Len(tx) + 1 \notin DOMAIN tx
  BY <1>3, <1>5
<1>7. h' = [h EXCEPT ![p] = [pc |-> "park", tx |-> Len(tx) + 1, source |-> h[p].source]]
  BY DEF CreateTransaction, Goto
<1>8. h'[p] = [pc |-> "park", tx |-> Len(tx) + 1, source |-> h[p].source] /\ OthersKeep(p)
  BY <1>7, HandPassed
<1>9. h'[p].pc = "park" /\ h'[p].tx = Len(tx) + 1 /\ h'[p].source = h[p].source
  BY <1>8
<1>10. /\ tx'[Len(tx) + 1].agr = h[p].agr /\ tx'[Len(tx) + 1].party = h[p].party
       /\ tx'[Len(tx) + 1].ver = h[p].ver /\ tx'[Len(tx) + 1].parked = NoBytes
       /\ tx'[Len(tx) + 1].status = "PENDING_SIGNER"
  BY <1>5 DEF row
<1>11. /\ h[p].pc = "create" /\ MayCross(h[p].agr, {h[p].ver})
       /\ UNCHANGED <<status, version, docs, files, interrupts, uncomposed>>
  BY <1>2, MayCrossOne DEF CreateTransaction, At, agreementVars
<1> QED
  BY <1>1, <1>5, <1>6, <1>8, <1>9, <1>10, <1>11

LEMMA Parks ==
  ASSUME TypeOK, NEW p \in Processes, Park(p)
  PROVE  /\ h[p] \in Parking(Len(tx)) /\ h[p].pc = "park"
         /\ DOMAIN tx' = DOMAIN tx /\ tx'[h[p].tx] = [tx[h[p].tx] EXCEPT !.parked = h[p].source]
         /\ \A u \in DOMAIN tx \ {h[p].tx} : tx'[u] = tx[u]
         /\ h'[p] = Idle /\ OthersKeep(p)
         /\ UNCHANGED <<status, version, docs, files, crossed, provider, interrupts, uncomposed>>
<1>1. h[p] \in Parking(Len(tx))
  BY HandlerWork, WorkKinds DEF Park, At
<1>2. h[p].tx \in DOMAIN tx
  BY <1>1, HandlerWork DEF Parking
<1> QED
  BY <1>1, <1>2, HandPassed DEF Park, At, Returns, Goto, agreementVars, environment

LEMMA Embeds ==
  ASSUME TypeOK, NEW p \in Processes, Embed(p)
  PROVE  /\ h[p] \in Embedding(Len(tx)) /\ h[p].pc = "embed"
         /\ tx[h[p].tx].parked # NoBytes /\ Sound(tx[h[p].tx])
         /\ files' = files \cup
              {<<tx[h[p].tx].agr, h[p].ver, DocumentStateAfter(tx[h[p].tx].party), month>>}
         /\ h'[p].pc = "sign" /\ h'[p].tx = h[p].tx /\ h'[p].ver = h[p].ver
         /\ h'[p].bytes.text = tx[h[p].tx].parked.text
         /\ OthersKeep(p)
         /\ UNCHANGED <<status, version, docs, tx, crossed, provider, interrupts, uncomposed>>
<1>1. h[p] \in Embedding(Len(tx))
  BY HandlerWork, WorkKinds DEF Embed, At
<1>2. h[p].tx \in DOMAIN tx
  BY <1>1, HandlerWork DEF Embedding
<1>3. tx[h[p].tx].parked \in Bytes
  BY <1>2, HandlerWork DEF Transaction
<1> DEFINE bytes == [tx[h[p].tx].parked EXCEPT !.sigs = Append(@, tx[h[p].tx].party)]
<1>4. bytes.text = tx[h[p].tx].parked.text
  BY <1>3 DEF Bytes
<1>5. h' = [h EXCEPT ![p] = [pc |-> "sign", tx |-> h[p].tx, ver |-> h[p].ver, bytes |-> bytes]]
  BY DEF Embed, Goto
<1> HIDE DEF bytes
<1>6. /\ h'[p] = [pc |-> "sign", tx |-> h[p].tx, ver |-> h[p].ver, bytes |-> bytes]
      /\ OthersKeep(p)
  BY <1>5, HandPassed
<1>7. h[p].pc = "embed" /\ tx[h[p].tx].parked # NoBytes /\ Sound(tx[h[p].tx])
  BY <1>1 DEF Embed, CanEmbed, IntegrityHolds, Sound, At
<1>8. files' = files \cup
        {<<tx[h[p].tx].agr, h[p].ver, DocumentStateAfter(tx[h[p].tx].party), month>>}
  BY DEF Embed, ObjectKey
<1>9. UNCHANGED <<status, version, docs, tx, crossed, provider, interrupts, uncomposed>>
  BY DEF Embed, agreementVars, environment
<1>10. /\ h'[p].pc = "sign" /\ h'[p].tx = h[p].tx /\ h'[p].ver = h[p].ver
       /\ h'[p].bytes.text = tx[h[p].tx].parked.text
  BY <1>4, <1>6
<1> QED
  BY <1>1, <1>6, <1>7, <1>8, <1>9, <1>10

LEMMA Signs ==
  ASSUME TypeOK, NEW p \in Processes, CommitSignature(p)
  PROVE  LET w == h[p]  t == h[p].tx  a == tx[h[p].tx].agr  party == tx[h[p].tx].party IN
         /\ w \in Recording(Len(tx)) /\ w.pc = "sign"
         /\ t \in DOMAIN tx /\ a \in Agreements /\ party \in Parties
         /\ w.ver \in 1..MaxVersion /\ tx[t].ver \in 1..MaxVersion
         /\ status[a] = SigningOf(party) /\ Becomes(a, Following(party))
         /\ Records(a, w.ver, [state |-> DocumentStateAfter(party), bytes |-> w.bytes])
         /\ Resolves(t, "SIGNED")
         /\ MayCross(a, {w.ver, tx[t].ver})
         /\ h'[p] = Idle /\ OthersKeep(p)
         /\ UNCHANGED <<version, files, provider, interrupts, uncomposed>>
<1>1. h[p] \in Recording(Len(tx))
  BY HandlerWork, WorkKinds DEF CommitSignature, At
<1>2. h[p].tx \in DOMAIN tx /\ h[p].ver \in 1..MaxVersion
  BY <1>1, HandlerWork DEF Recording
<1> DEFINE a == tx[h[p].tx].agr
           party == tx[h[p].tx].party
           spec == SIGNING_PARTY[party]
<1>3. a \in Agreements /\ party \in Parties /\ tx[h[p].tx].ver \in 1..MaxVersion
  BY <1>2, HandlerWork DEF Transaction
<1>4. status[a] \in From(spec.succeed)
  BY DEF CommitSignature, CanSign
<1>5. \/ spec.advance # "NONE" /\ Workflow!Chain(a, spec.succeed, spec.advance)
      \/ spec.advance = "NONE" /\ Workflow!TransitionClearingDeadline(a, spec.succeed)
  BY DEF CommitSignature
<1>6. /\ From(spec.succeed) = {SigningOf(party)}
      /\ spec.advance # "NONE" => Workflow!To(spec.advance) = Following(party)
      /\ spec.advance = "NONE" => Workflow!To(spec.succeed) = Following(party)
  BY <1>3, PartyEdges
<1> HIDE DEF spec
<1>7. status' = [status EXCEPT ![a] = Following(party)] /\ UNCHANGED version
  BY <1>5, <1>6 DEF Workflow!Chain, Workflow!TransitionClearingDeadline
<1>8. status[a] = SigningOf(party) /\ Becomes(a, Following(party))
  BY <1>3, <1>4, <1>6, <1>7, Moved
<1>9. /\ Records(a, h[p].ver, [state |-> DocumentStateAfter(party), bytes |-> h[p].bytes])
      /\ Resolves(h[p].tx, "SIGNED") /\ MayCross(a, {h[p].ver, tx[h[p].tx].ver})
  BY <1>2, <1>3, RecordsRow, ResolvesRow, MayCrossOne DEF CommitSignature
<1> QED
  BY <1>1, <1>2, <1>3, <1>7, <1>8, <1>9, HandPassed
     DEF CommitSignature, At, Returns, Goto, environment

LEMMA Fails ==
  ASSUME TypeOK, NEW p \in Processes, CommitFailure(p)
  PROVE  LET t == h[p].tx  a == tx[h[p].tx].agr IN
         /\ h[p] \in GivingUp(Len(tx)) /\ h[p].pc = "fail"
         /\ t \in DOMAIN tx /\ a \in Agreements
         /\ Resolves(t, "FAILED")
         /\ \/ /\ status[a] \in SigningStates /\ Becomes(a, "SIGNATURE_FAILED")
               /\ MayCross(a, {tx[t].ver})
            \/ UNCHANGED <<status, crossed>>
         /\ h'[p] = Idle /\ OthersKeep(p)
         /\ UNCHANGED <<version, docs, files, provider, interrupts, uncomposed>>
<1>1. h[p] \in GivingUp(Len(tx))
  BY HandlerWork, WorkKinds DEF CommitFailure, At
<1>2. h[p].tx \in DOMAIN tx /\ tx[h[p].tx].agr \in Agreements
  BY <1>1, HandlerWork DEF GivingUp
<1> DEFINE a == tx[h[p].tx].agr
           act == FailEdge(h[p].status)
<1>3. CASE h[p].status \in SigningStates /\ Workflow!Transition(a, act) /\ Crossing(a, {tx[h[p].tx].ver})
  <2>1. Workflow!To(act) = "SIGNATURE_FAILED" /\ status[a] = h[p].status
    <3>1. PICK party \in Parties : act = SIGNING_PARTY[party].fail
      BY <1>3 DEF SigningStates, FailEdge
    <3>2. status[a] = h[p].status
      BY <1>3 DEF CommitFailure, CanFail
    <3> QED
      BY <3>1, <3>2, PartyEdges
  <2>2. status' = [status EXCEPT ![a] = "SIGNATURE_FAILED"] /\ UNCHANGED version
    BY <1>3, <2>1 DEF Workflow!Transition
  <2>3. Becomes(a, "SIGNATURE_FAILED") /\ MayCross(a, {tx[h[p].tx].ver})
    BY <1>2, <1>3, <2>2, Moved, MayCrossOne
  <2> QED
    BY <1>1, <1>2, <1>3, <2>1, <2>2, <2>3, HandPassed, ResolvesRow
       DEF CommitFailure, At, Returns, Goto, environment
<1>4. CASE UNCHANGED <<agreementVars, crossed>>
  BY <1>1, <1>2, <1>4, HandPassed, ResolvesRow
     DEF CommitFailure, At, Returns, Goto, agreementVars, environment
<1> QED
  BY <1>3, <1>4 DEF CommitFailure

LEMMA Corrects ==
  ASSUME TypeOK, NEW a \in Agreements, Correct(a)
  PROVE  /\ status[a] \in {"REJECTED", "EXPIRED"} /\ Becomes(a, "DRAFT")
         /\ version[a] + 1 \in 1..MaxVersion /\ version'[a] = version[a] + 1
         /\ \A b \in Agreements \ {a} : version'[b] = version[b]
         /\ DOMAIN tx' = DOMAIN tx
         /\ \A t \in DOMAIN tx :
              tx'[t] = IF tx[t].agr = a /\ tx[t].ver = version[a] /\ tx[t].status \in Open
                       THEN [tx[t] EXCEPT !.status = "CANCELLED"] ELSE tx[t]
         /\ UNCHANGED <<docs, files, h, crossed, provider, interrupts, uncomposed>>
<1>1. /\ status \in [Agreements -> AgreementState] /\ version \in [Agreements -> 1..MaxVersion]
      /\ MaxVersion \in Nat
  BY AgreementRows
<1>2. /\ status[a] \in Workflow!From("CORRECT") /\ version[a] < MaxVersion
      /\ status' = [status EXCEPT ![a] = Workflow!To("CORRECT")]
      /\ version' = [version EXCEPT ![a] = @ + 1]
  BY DEF Correct, Workflow!Correct, Workflow!Permitted, Workflow!AssertTransition
<1>3. Workflow!From("CORRECT") = {"REJECTED", "EXPIRED"} /\ Workflow!To("CORRECT") = "DRAFT"
  BY DEF Workflow!From, Workflow!To
<1>4. status[a] \in {"REJECTED", "EXPIRED"} /\ Becomes(a, "DRAFT")
  BY <1>2, <1>3, Moved
<1>5. /\ version[a] + 1 \in 1..MaxVersion /\ version'[a] = version[a] + 1
      /\ \A b \in Agreements \ {a} : version'[b] = version[b]
  BY <1>1, <1>2
<1> QED
  BY <1>4, <1>5 DEF Correct, environment

-----------------------------------------------------------------------------
(* A transaction row keeps whose it is; only its creator parks bytes in it,*)
(* and only the commits of the handlers that hold it give it a status.     *)
LEMMA RowsKept ==
  ASSUME TypeOK, [Next]_vars, NEW t \in DOMAIN tx
  PROVE  /\ t \in DOMAIN tx' /\ SameRow(t)
         /\ provider[t] # "PENDING_SIGNER" => provider'[t] = provider[t]
         /\ \/ tx'[t].parked = tx[t].parked
            \/ \E p \in Processes : Park(p) /\ h[p].tx = t
         /\ \/ tx'[t].status = tx[t].status
            \/ tx'[t].status = "CANCELLED" /\ tx[t].status \in Open
            \/ \E p \in Processes : CommitSignature(p) /\ h[p].tx = t /\ tx'[t].status = "SIGNED"
            \/ \E p \in Processes : CommitFailure(p) /\ h[p].tx = t /\ tx'[t].status = "FAILED"
<1>0. tx[t] \in Transaction
  BY HandlerWork
<1>1. CASE Aside
  BY <1>1 DEF Aside, SameRow
<1>2. ASSUME NEW a \in Agreements, Ends(a) \/ Correct(a)
      PROVE  /\ DOMAIN tx' = DOMAIN tx /\ SameRow(t) /\ provider' = provider
             /\ tx'[t].parked = tx[t].parked
             /\ \/ tx'[t].status = tx[t].status
                \/ tx'[t].status = "CANCELLED" /\ tx[t].status \in Open
  BY <1>0, <1>2, Corrects DEF Ends, SameRow, Transaction
<1>3. ASSUME NEW p \in Processes, Prepare(p) \/ CommitGenerate(p) \/ CommitInitiate(p) \/ Embed(p)
      PROVE  tx' = tx /\ provider' = provider
  BY <1>3, Prepares, Generates, Initiates, Embeds
<1>4. ASSUME NEW p \in Processes, CreateTransaction(p)
      PROVE  t \in DOMAIN tx' /\ tx'[t] = tx[t] /\ provider'[t] = provider[t]
  BY <1>4, Creates
<1>5. ASSUME NEW p \in Processes, Park(p)
      PROVE  /\ DOMAIN tx' = DOMAIN tx /\ SameRow(t) /\ provider' = provider
             /\ tx'[t].status = tx[t].status
             /\ tx'[t].parked = tx[t].parked \/ h[p].tx = t
  <2>1. CASE h[p].tx = t
    BY <1>0, <1>5, <2>1, Parks DEF SameRow, Transaction
  <2>2. CASE h[p].tx # t
    BY <1>5, <2>2, Parks DEF SameRow
  <2> QED
    BY <2>1, <2>2
<1>6. ASSUME NEW p \in Processes, CommitSignature(p)
      PROVE  /\ DOMAIN tx' = DOMAIN tx /\ SameRow(t) /\ provider' = provider
             /\ tx'[t].parked = tx[t].parked
             /\ tx'[t].status = tx[t].status \/ (h[p].tx = t /\ tx'[t].status = "SIGNED")
  <2>1. Resolves(h[p].tx, "SIGNED") /\ provider' = provider
    BY <1>6, Signs
  <2> QED
    BY <2>1 DEF Resolves, SameRow
<1>7. ASSUME NEW p \in Processes, CommitFailure(p)
      PROVE  /\ DOMAIN tx' = DOMAIN tx /\ SameRow(t) /\ provider' = provider
             /\ tx'[t].parked = tx[t].parked
             /\ tx'[t].status = tx[t].status \/ (h[p].tx = t /\ tx'[t].status = "FAILED")
  <2>1. Resolves(h[p].tx, "FAILED") /\ provider' = provider
    BY <1>7, Fails
  <2> QED
    BY <2>1 DEF Resolves, SameRow
<1>8. CASE \E p \in Processes : Prepare(p) \/ CommitGenerate(p) \/ CommitInitiate(p) \/ Embed(p)
                                \/ CreateTransaction(p)
  BY <1>3, <1>4, <1>8 DEF SameRow
<1>9. CASE \E p \in Processes : Park(p)
  BY <1>5, <1>9
<1>10. CASE \E p \in Processes : CommitSignature(p)
  BY <1>6, <1>10
<1>11. CASE \E p \in Processes : CommitFailure(p)
  BY <1>7, <1>11
<1>12. CASE \E a \in Agreements : Ends(a) \/ Correct(a)
  BY <1>2, <1>12
<1> QED
  BY <1>1, <1>8, <1>9, <1>10, <1>11, <1>12, Kinds

(* A row nobody had before is one just created.                            *)
LEMMA RowsNew ==
  ASSUME TypeOK, [Next]_vars, NEW t \in DOMAIN tx', t \notin DOMAIN tx
  PROVE  \E p \in Processes : CreateTransaction(p) /\ t = Len(tx) + 1
<1>1. ASSUME NEW p \in Processes, CreateTransaction(p) PROVE t = Len(tx) + 1
  <2>1. DOMAIN tx' = DOMAIN tx \cup {Len(tx) + 1}
    BY <1>1, Creates
  <2> QED
    BY <2>1
<1>2. ASSUME NEW p \in Processes, CommitSignature(p) \/ CommitFailure(p) PROVE DOMAIN tx' = DOMAIN tx
  BY <1>2, Signs, Fails DEF Resolves
<1>3. ASSUME NEW p \in Processes,
             Prepare(p) \/ CommitGenerate(p) \/ CommitInitiate(p) \/ Embed(p) \/ Park(p)
      PROVE  DOMAIN tx' = DOMAIN tx
  BY <1>3, Prepares, Generates, Initiates, Embeds, Parks
<1>4. ASSUME NEW a \in Agreements, Ends(a) \/ Correct(a) PROVE DOMAIN tx' = DOMAIN tx
  BY <1>4, Corrects DEF Ends
<1> QED
  BY <1>1, <1>2, <1>3, <1>4, Kinds DEF Aside

(* What a handler has in hand after a step.                                *)
LEMMA HandKinds ==
  ASSUME TypeOK, [Next]_vars, NEW p \in Processes
  PROVE  \/ h'[p] = h[p]
         \/ h'[p].pc = "idle" /\ (h[p].pc = "generate" => CommitGenerate(p))
         \/ Aside /\ Takes(h'[p])
         \/ /\ Prepare(p) /\ h[p].pc = "prepare" /\ h'[p].pc = "generate"
            /\ h'[p].agr = h[p].agr /\ h'[p].ver = h[p].ver
         \/ /\ CommitInitiate(p) /\ h[p].pc = "initiate" /\ h'[p].pc = "create"
            /\ h'[p].agr = h[p].agr /\ h'[p].ver = h[p].ver
            /\ h'[p].party = h[p].party /\ h'[p].source = h[p].source
         \/ CreateTransaction(p) /\ h[p].pc = "create" /\ h'[p].pc = "park"
         \/ Embed(p) /\ h[p].pc = "embed" /\ h'[p].pc = "sign"
<1>1. CASE Aside
  BY <1>1 DEF Aside
<1>2. ASSUME NEW a \in Agreements, Ends(a) \/ Correct(a) PROVE h' = h
  BY <1>2, Corrects DEF Ends
<1>3. ASSUME NEW q \in Processes, Prepare(q)
      PROVE  \/ h'[p] = h[p]
             \/ /\ q = p /\ h[p].pc = "prepare" /\ h'[p].pc = "generate"
                /\ h'[p].agr = h[p].agr /\ h'[p].ver = h[p].ver
  BY <1>3, Prepares DEF OthersKeep, OnAgreement
<1>4. ASSUME NEW q \in Processes, CommitInitiate(q)
      PROVE  \/ h'[p] = h[p]
             \/ /\ q = p /\ h[p].pc = "initiate" /\ h'[p].pc = "create"
                /\ h'[p].agr = h[p].agr /\ h'[p].ver = h[p].ver
                /\ h'[p].party = h[p].party /\ h'[p].source = h[p].source
  BY <1>4, Initiates DEF OthersKeep, Initiating
<1>5. ASSUME NEW q \in Processes, CreateTransaction(q)
      PROVE  h'[p] = h[p] \/ (q = p /\ h[p].pc = "create" /\ h'[p].pc = "park")
  BY <1>5, Creates DEF OthersKeep
<1>6. ASSUME NEW q \in Processes, Embed(q)
      PROVE  h'[p] = h[p] \/ (q = p /\ h[p].pc = "embed" /\ h'[p].pc = "sign")
  BY <1>6, Embeds DEF OthersKeep
<1>7. ASSUME NEW q \in Processes,
             CommitGenerate(q) \/ Park(q) \/ CommitSignature(q) \/ CommitFailure(q)
      PROVE  \/ h'[p] = h[p]
             \/ h'[p].pc = "idle" /\ (h[p].pc = "generate" => CommitGenerate(p))
  <2>1. h'[q] = Idle /\ OthersKeep(q)
    BY <1>7, Generates, Parks, Signs, Fails
  <2>2. h[q].pc = "generate" => CommitGenerate(q)
    BY <1>7, Parks, Signs, Fails
  <2> QED
    BY <2>1, <2>2, IdleHand DEF OthersKeep
<1> QED
  BY <1>1, <1>2, <1>3, <1>4, <1>5, <1>6, <1>7, Kinds

(* Work taken up is one of a few kinds.                                    *)
LEMMA TakesKinds ==
  ASSUME NEW w, Takes(w)
  PROVE  /\ w.pc \in {"idle", "prepare", "initiate", "embed", "fail"}
         /\ w.pc = "prepare" => w \in OnAgreement /\ w.ver = version[w.agr]
         /\ w.pc = "initiate" =>
              /\ w \in Initiating /\ w.ver = version[w.agr]
              /\ docs[w.agr][w.ver] # <<>> /\ w.source = Last(docs[w.agr][w.ver]).bytes
         /\ w.pc = "embed" => /\ w \in Embedding(Len(tx)) /\ provider[w.tx] = "SIGNED"
                              /\ w.ver = version[tx[w.tx].agr]
         /\ w.pc = "fail" => w \in GivingUp(Len(tx)) /\ Hopeless(tx[w.tx], provider[w.tx])
BY IdleHand DEF Takes

-----------------------------------------------------------------------------
(* The outcome of a ceremony is decided once: by what the provider holds   *)
(* and by the bytes parked, which are parked once.  Handlers that hold the *)
(* same transaction agree on it, so none fails what another signed.        *)
Outcomes ==
  /\ \A p \in Processes : h[p].pc = "park" => tx[h[p].tx].parked = NoBytes
  /\ \A p, q \in Processes :
       h[p].pc = "park" /\ h[q].pc = "park" /\ h[p].tx = h[q].tx => p = q
  /\ \A p \in Processes : h[p].pc = "embed" => provider[h[p].tx] = "SIGNED"
  /\ \A p \in Processes : h[p].pc = "sign" => Signable(tx[h[p].tx], provider[h[p].tx])
  /\ \A p \in Processes : h[p].pc = "fail" => Hopeless(tx[h[p].tx], provider[h[p].tx])
  /\ \A t \in DOMAIN tx : tx[t].status = "SIGNED" => Signable(tx[t], provider[t])

LEMMA HandsRows ==
  ASSUME TypeOK, NEW p \in Processes
  PROVE  h[p].pc \in {"park", "embed", "sign", "fail"} => h[p].tx \in DOMAIN tx
BY HandlerWork, WorkKinds DEF Parking, Embedding, Recording, GivingUp

LEMMA OutcomeKept ==
  ASSUME TypeOK, Outcomes, [Next]_vars, NEW t \in DOMAIN tx
  PROVE  /\ Signable(tx[t], provider[t]) => Signable(tx'[t], provider'[t])
         /\ Hopeless(tx[t], provider[t]) => Hopeless(tx'[t], provider'[t])
         /\ tx'[t].parked = tx[t].parked \/ tx[t].parked = NoBytes
<1>1. tx'[t].parked = tx[t].parked \/ tx[t].parked = NoBytes
  <2>1. ASSUME NEW p \in Processes, Park(p), h[p].tx = t PROVE tx[t].parked = NoBytes
    BY <2>1, Parks DEF Outcomes
  <2> QED
    BY <2>1, RowsKept
<1>2. tx'[t].party = tx[t].party
  BY RowsKept DEF SameRow
<1> QED
  BY <1>1, <1>2, RowsKept DEF Signable, Hopeless, Sound

LEMMA OutcomesNext == TypeOK /\ Outcomes /\ [Next]_vars => Outcomes'
<1> SUFFICES ASSUME TypeOK, Outcomes, [Next]_vars PROVE Outcomes'
  OBVIOUS
<1>1. ASSUME NEW p \in Processes, h'[p].pc = "park"
      PROVE  \/ h'[p] = h[p] /\ h[p].tx \in DOMAIN tx
             \/ /\ h'[p].tx = Len(tx) + 1 /\ Len(tx) + 1 \notin DOMAIN tx
                /\ tx'[Len(tx) + 1].parked = NoBytes
                /\ OthersKeep(p) /\ h[p].pc = "create"
  <2>1. CASE h'[p] = h[p]
    BY <1>1, <2>1, HandsRows
  <2>2. CASE CreateTransaction(p)
    BY <2>2, Creates
  <2> QED
    BY <1>1, <2>1, <2>2, HandKinds, TakesKinds
<1>2. ASSUME NEW p \in Processes, h'[p].pc = "park"
      PROVE  tx'[h'[p].tx].parked = NoBytes
  <2>1. CASE h'[p] = h[p] /\ h[p].tx \in DOMAIN tx
    <3>1. tx[h[p].tx].parked = NoBytes
      BY <1>2, <2>1 DEF Outcomes
    <3>2. ASSUME NEW q \in Processes, Park(q), h[q].tx = h[p].tx PROVE FALSE
      <4>1. h[q].pc = "park" /\ h'[q] = Idle
        BY <3>2, Parks
      <4>2. q = p
        BY <1>2, <2>1, <3>2, <4>1 DEF Outcomes
      <4> QED
        BY <1>2, <4>1, <4>2, IdleHand
    <3> QED
      BY <2>1, <3>1, <3>2, RowsKept
  <2> QED
    BY <1>1, <1>2, <2>1
<1>3. ASSUME NEW p \in Processes, NEW q \in Processes,
             h'[p].pc = "park", h'[q].pc = "park", h'[p].tx = h'[q].tx, p # q
      PROVE  FALSE
  <2>1. CASE h'[p] = h[p] /\ h'[q] = h[q]
    BY <1>3, <2>1 DEF Outcomes
  <2>2. CASE OthersKeep(p) /\ h[p].pc = "create"
    <3>1. h'[q] = h[q]
      BY <1>3, <2>2 DEF OthersKeep
    <3> QED
      BY <1>1, <1>3, <2>2, <3>1
  <2>3. CASE OthersKeep(q) /\ h[q].pc = "create"
    <3>1. h'[p] = h[p]
      BY <1>3, <2>3 DEF OthersKeep
    <3> QED
      BY <1>1, <1>3, <2>3, <3>1
  <2> QED
    BY <1>1, <1>3, <2>1, <2>2, <2>3
<1>4. ASSUME NEW p \in Processes, h'[p].pc = "embed"
      PROVE  provider'[h'[p].tx] = "SIGNED"
  <2>1. CASE h'[p] = h[p]
    BY <1>4, <2>1, HandsRows, RowsKept DEF Outcomes
  <2>2. CASE Takes(h'[p])
    <3>1. h'[p].tx \in DOMAIN tx /\ provider[h'[p].tx] = "SIGNED"
      BY <1>4, <2>2, TakesKinds, HandlerWork DEF Embedding
    <3> QED
      BY <3>1, RowsKept
  <2> QED
    BY <1>4, <2>1, <2>2, HandKinds
<1>5. ASSUME NEW p \in Processes, h'[p].pc = "sign"
      PROVE  Signable(tx'[h'[p].tx], provider'[h'[p].tx])
  <2>1. CASE h'[p] = h[p]
    <3>1. h[p].tx \in DOMAIN tx /\ Signable(tx[h[p].tx], provider[h[p].tx])
      BY <1>5, <2>1, HandsRows DEF Outcomes
    <3> QED
      BY <2>1, <3>1, OutcomeKept
  <2>2. CASE Embed(p)
    <3>1. h'[p].tx \in DOMAIN tx /\ h'[p].tx = h[p].tx /\ Signable(tx[h[p].tx], provider[h[p].tx])
      BY <2>2, HandsRows, Embeds DEF Outcomes, Signable
    <3> QED
      BY <3>1, OutcomeKept
  <2> QED
    BY <1>5, <2>1, <2>2, HandKinds, TakesKinds
<1>6. ASSUME NEW p \in Processes, h'[p].pc = "fail"
      PROVE  Hopeless(tx'[h'[p].tx], provider'[h'[p].tx])
  <2>1. CASE h'[p] = h[p]
    <3>1. h[p].tx \in DOMAIN tx /\ Hopeless(tx[h[p].tx], provider[h[p].tx])
      BY <1>6, <2>1, HandsRows DEF Outcomes
    <3> QED
      BY <2>1, <3>1, OutcomeKept
  <2>2. CASE Takes(h'[p])
    <3>1. h'[p].tx \in DOMAIN tx /\ Hopeless(tx[h'[p].tx], provider[h'[p].tx])
      BY <1>6, <2>2, TakesKinds, HandlerWork DEF GivingUp
    <3> QED
      BY <3>1, OutcomeKept
  <2> QED
    BY <1>6, <2>1, <2>2, HandKinds
<1>7. ASSUME NEW t \in DOMAIN tx', tx'[t].status = "SIGNED"
      PROVE  Signable(tx'[t], provider'[t])
  <2>1. t \in DOMAIN tx
    <3>1. ASSUME NEW p \in Processes, CreateTransaction(p)
          PROVE  tx'[Len(tx) + 1].status = "PENDING_SIGNER"
      BY <3>1, Creates
    <3> QED
      BY <1>7, <3>1, RowsNew
  <2>2. ASSUME NEW p \in Processes, CommitSignature(p), h[p].tx = t PROVE Signable(tx[t], provider[t])
    BY <2>2, Signs DEF Outcomes
  <2>3. Signable(tx[t], provider[t])
    BY <1>7, <2>1, <2>2, RowsKept DEF Outcomes
  <2> QED
    BY <2>1, <2>3, OutcomeKept
<1>8. /\ \A p \in Processes : h'[p].pc = "park" => tx'[h'[p].tx].parked = NoBytes
      /\ \A p, q \in Processes :
           h'[p].pc = "park" /\ h'[q].pc = "park" /\ h'[p].tx = h'[q].tx => p = q
      /\ \A p \in Processes : h'[p].pc = "embed" => provider'[h'[p].tx] = "SIGNED"
  BY <1>2, <1>3, <1>4
<1> QED
  BY <1>5, <1>6, <1>7, <1>8 DEF Outcomes

(* What a signed ceremony keeps, as a fact of every step.                  *)
LEMMA SignedKept ==
  ASSUME TypeOK, Outcomes, [Next]_vars, NEW t \in DOMAIN tx, tx[t].status = "SIGNED"
  PROVE  tx'[t].status = "SIGNED"
<1>1. Signable(tx[t], provider[t])
  BY DEF Outcomes
<1>2. ASSUME NEW p \in Processes, CommitFailure(p), h[p].tx = t PROVE FALSE
  <2>1. Hopeless(tx[t], provider[t])
    BY <1>2, Fails DEF Outcomes
  <2> QED
    BY <1>1, <2>1 DEF Signable, Hopeless
<1> QED
  BY <1>2, RowsKept DEF Open

(* A signed ceremony is evidence: whatever handlers hold it, and whatever  *)
(* is answered late or twice, its transaction stays SIGNED.                *)
THEOREM SignedStays == Spec => SignedIsFinal
<1>1. Init => Outcomes
  BY IdleHand DEF Init, Outcomes
<1>2. TypeOK /\ Outcomes /\ [Next]_vars =>
        [\A t \in DOMAIN tx : tx[t].status = "SIGNED" => tx'[t].status = "SIGNED"]_vars
  <2> SUFFICES ASSUME TypeOK, Outcomes, [Next]_vars, NEW t \in DOMAIN tx, tx[t].status = "SIGNED"
               PROVE  tx'[t].status = "SIGNED"
    OBVIOUS
  <2> QED
    BY SignedKept
<1> QED
  BY <1>1, <1>2, OutcomesNext, TypeCorrect, PTL DEF Spec, SignedIsFinal

-----------------------------------------------------------------------------
(* A version moves only by a correction, one at a time.                    *)
LEMMA VersionGrows ==
  ASSUME TypeOK, [Next]_vars, NEW a \in Agreements
  PROVE  /\ version[a] \in Nat /\ version'[a] \in Nat /\ version[a] <= version'[a]
         /\ version'[a] = version[a] \/ (Correct(a) /\ version'[a] = version[a] + 1)
<1>0. version[a] \in Nat /\ MaxVersion \in Nat
  BY AgreementRows, BoundsAssumption DEF TypeOK
<1>1. ASSUME NEW b \in Agreements, Correct(b)
      PROVE  version'[a] = version[a] \/ (Correct(a) /\ version'[a] = version[a] + 1)
  <2>1. CASE b = a
    BY <1>1, <2>1, Corrects
  <2>2. CASE b # a
    BY <1>1, <2>2, Corrects
  <2> QED
    BY <2>1, <2>2
<1>2. ASSUME NEW b \in Agreements, Ends(b) PROVE version' = version
  BY <1>2 DEF Ends
<1>3. ASSUME NEW p \in Processes,
             \/ Prepare(p) \/ CommitGenerate(p) \/ CommitInitiate(p)
             \/ CreateTransaction(p) \/ Park(p) \/ Embed(p)
             \/ CommitSignature(p) \/ CommitFailure(p)
      PROVE  version' = version
  BY <1>3, Prepares, Generates, Initiates, Creates, Parks, Embeds, Signs, Fails
<1>4. version'[a] = version[a] \/ (Correct(a) /\ version'[a] = version[a] + 1)
  BY <1>1, <1>2, <1>3, Kinds DEF Aside
<1> QED
  BY <1>0, <1>4

(* Nobody works on a version that does not exist yet.                      *)
NothingAhead ==
  /\ \A p \in Processes :
       h[p].pc \in {"prepare", "generate", "initiate", "create"} => h[p].ver <= version[h[p].agr]
  /\ \A p \in Processes :
       h[p].pc \in {"embed", "sign"} => h[p].ver <= version[tx[h[p].tx].agr]
  /\ \A t \in DOMAIN tx : tx[t].ver <= version[tx[t].agr]

(* What the work of a handler is on.                                       *)
LEMMA WorkOn ==
  ASSUME TypeOK, NEW p \in Processes
  PROVE  /\ h[p].pc \in {"prepare", "generate", "initiate", "create"} =>
              h[p].agr \in Agreements /\ h[p].ver \in 1..MaxVersion
         /\ h[p].pc \in {"park", "embed", "sign", "fail"} =>
              h[p].tx \in DOMAIN tx /\ tx[h[p].tx].agr \in Agreements
         /\ h[p].pc \in {"embed", "sign"} => h[p].ver \in 1..MaxVersion
<1>1. h[p].pc \in {"prepare", "generate", "initiate", "create"} =>
        h[p].agr \in Agreements /\ h[p].ver \in 1..MaxVersion
  BY HandlerWork, WorkKinds DEF OnAgreement, Initiating
<1>2. h[p].pc \in {"embed", "sign"} => h[p].ver \in 1..MaxVersion
  BY HandlerWork, WorkKinds DEF Embedding, Recording
<1> QED
  BY <1>1, <1>2, HandsRows, HandlerWork

LEMMA NothingAheadNext == TypeOK /\ NothingAhead /\ [Next]_vars => NothingAhead'
<1> SUFFICES ASSUME TypeOK, NothingAhead, [Next]_vars PROVE NothingAhead'
  OBVIOUS
<1>0. MaxVersion \in Nat
  BY BoundsAssumption
<1>1. ASSUME NEW p \in Processes, h'[p].pc \in {"prepare", "generate", "initiate", "create"}
      PROVE  h'[p].ver <= version'[h'[p].agr]
  <2>1. CASE /\ h[p].pc \in {"prepare", "generate", "initiate", "create"}
             /\ h'[p].agr = h[p].agr /\ h'[p].ver = h[p].ver
    <3> DEFINE a == h[p].agr
    <3>1. a \in Agreements /\ h[p].ver \in 1..MaxVersion /\ h[p].ver <= version[a]
      BY <2>1, WorkOn DEF NothingAhead
    <3>2. version[a] <= version'[a] /\ version[a] \in Nat /\ version'[a] \in Nat
      BY <3>1, VersionGrows
    <3> QED
      BY <1>0, <2>1, <3>1, <3>2
  <2>2. CASE Aside /\ Takes(h'[p])
    <3>1. h'[p].agr \in Agreements /\ h'[p].ver = version[h'[p].agr]
      BY <1>1, <2>2, TakesKinds DEF OnAgreement, Initiating
    <3>2. version[h'[p].agr] \in Nat /\ version' = version
      BY <2>2, <3>1 DEF Aside, TypeOK, Workflow!TypeOK
    <3> QED
      BY <3>1, <3>2
  <2> QED
    BY <1>1, <2>1, <2>2, HandKinds
<1>2. ASSUME NEW p \in Processes, h'[p].pc \in {"embed", "sign"}
      PROVE  h'[p].ver <= version'[tx'[h'[p].tx].agr]
  <2>1. CASE /\ h[p].pc \in {"embed", "sign"}
             /\ h'[p].tx = h[p].tx /\ h'[p].ver = h[p].ver
    <3> DEFINE t == h[p].tx
               a == tx[t].agr
    <3>1. t \in DOMAIN tx /\ a \in Agreements /\ h[p].ver \in 1..MaxVersion /\ h[p].ver <= version[a]
      BY <2>1, WorkOn DEF NothingAhead
    <3>2. version[a] <= version'[a] /\ version[a] \in Nat /\ version'[a] \in Nat
      BY <3>1, VersionGrows
    <3>3. tx'[t].agr = a
      BY <3>1, RowsKept DEF SameRow
    <3> QED
      BY <1>0, <2>1, <3>1, <3>2, <3>3
  <2>2. CASE Aside /\ Takes(h'[p])
    <3>1. h'[p].tx \in DOMAIN tx /\ h'[p].ver = version[tx[h'[p].tx].agr]
      BY <1>2, <2>2, TakesKinds, HandlerWork DEF Embedding
    <3>2. tx[h'[p].tx].agr \in Agreements
      BY <3>1, HandlerWork
    <3>3. version[tx[h'[p].tx].agr] \in Nat /\ version' = version /\ tx' = tx
      BY <2>2, <3>2 DEF Aside, TypeOK, Workflow!TypeOK
    <3> QED
      BY <3>1, <3>3
  <2>3. CASE Embed(p)
    BY <2>1, <2>3, Embeds
  <2> QED
    BY <1>2, <2>1, <2>2, <2>3, HandKinds
<1>3. ASSUME NEW t \in DOMAIN tx' PROVE tx'[t].ver <= version'[tx'[t].agr]
  <2>1. CASE t \in DOMAIN tx
    <3>1. tx[t].agr \in Agreements /\ tx[t].ver \in 1..MaxVersion
      BY <2>1, HandlerWork DEF Transaction
    <3>2. SameRow(t) /\ tx[t].ver <= version[tx[t].agr]
      BY <2>1, RowsKept DEF NothingAhead
    <3>3. /\ version[tx[t].agr] <= version'[tx[t].agr]
          /\ version[tx[t].agr] \in Nat /\ version'[tx[t].agr] \in Nat
      BY <3>1, VersionGrows
    <3> QED
      BY <1>0, <3>1, <3>2, <3>3 DEF SameRow
  <2>2. CASE t \notin DOMAIN tx
    <3>1. PICK p \in Processes : CreateTransaction(p) /\ t = Len(tx) + 1
      BY <2>2, RowsNew
    <3>2. /\ tx'[t].agr = h[p].agr /\ tx'[t].ver = h[p].ver /\ version' = version
          /\ h[p].pc = "create"
      BY <3>1, Creates
    <3> QED
      BY <3>2 DEF NothingAhead
  <2> QED
    BY <2>1, <2>2
<1> QED
  BY <1>1, <1>2, <1>3 DEF NothingAhead

-----------------------------------------------------------------------------
(* Which steps change the status of an agreement, and the rows of a version*)
LEMMA StatusKinds ==
  ASSUME TypeOK, [Next]_vars, NEW a \in Agreements
  PROVE  \/ status'[a] = status[a]
         \/ Ends(a)
         \/ Correct(a)
         \/ \E p \in Processes : CommitGenerate(p) /\ h[p].agr = a
         \/ \E p \in Processes : CommitInitiate(p) /\ h[p].agr = a
         \/ \E p \in Processes : CommitSignature(p) /\ tx[h[p].tx].agr = a
         \/ \E p \in Processes : /\ CommitFailure(p) /\ tx[h[p].tx].agr = a
                                /\ status[a] \in SigningStates
                                /\ status'[a] = "SIGNATURE_FAILED"
                                /\ MayCross(a, {tx[h[p].tx].ver})
<1>1. ASSUME NEW b \in Agreements, Ends(b) \/ Correct(b), ~Ends(a), ~Correct(a)
      PROVE  status'[a] = status[a]
  BY <1>1, Corrects DEF Ends, Becomes
<1>2. ASSUME NEW p \in Processes, CommitGenerate(p), h[p].agr # a PROVE status'[a] = status[a]
  BY <1>2, Generates DEF Becomes
<1>3. ASSUME NEW p \in Processes, CommitInitiate(p), h[p].agr # a PROVE status'[a] = status[a]
  BY <1>3, Initiates DEF Becomes
<1>4. ASSUME NEW p \in Processes, CommitSignature(p), tx[h[p].tx].agr # a
      PROVE  status'[a] = status[a]
  BY <1>4, Signs DEF Becomes
<1>5. ASSUME NEW p \in Processes, CommitFailure(p), status'[a] # status[a]
      PROVE  /\ tx[h[p].tx].agr = a /\ status[a] \in SigningStates
             /\ status'[a] = "SIGNATURE_FAILED" /\ MayCross(a, {tx[h[p].tx].ver})
  BY <1>5, Fails DEF Becomes
<1>6. ASSUME NEW p \in Processes,
             Prepare(p) \/ CreateTransaction(p) \/ Park(p) \/ Embed(p)
      PROVE  status' = status
  BY <1>6, Prepares, Creates, Parks, Embeds
<1> QED
  BY <1>1, <1>2, <1>3, <1>4, <1>5, <1>6, Kinds DEF Aside

LEMMA DocsKinds ==
  ASSUME TypeOK, [Next]_vars, NEW a \in Agreements, NEW v \in 1..MaxVersion
  PROVE  \/ docs'[a][v] = docs[a][v]
         \/ \E p \in Processes : CommitGenerate(p) /\ h[p].agr = a /\ h[p].ver = v
         \/ \E p \in Processes : CommitSignature(p) /\ tx[h[p].tx].agr = a /\ h[p].ver = v
<1>1. ASSUME NEW b \in Agreements, Ends(b) \/ Correct(b) PROVE docs' = docs
  BY <1>1, Corrects DEF Ends
<1>2. ASSUME NEW p \in Processes, CommitGenerate(p), h[p].agr # a \/ h[p].ver # v
      PROVE  docs'[a][v] = docs[a][v]
  BY <1>2, Generates DEF Records
<1>3. ASSUME NEW p \in Processes, CommitSignature(p), tx[h[p].tx].agr # a \/ h[p].ver # v
      PROVE  docs'[a][v] = docs[a][v]
  BY <1>3, Signs DEF Records
<1>4. ASSUME NEW p \in Processes,
             \/ Prepare(p) \/ CommitInitiate(p) \/ CreateTransaction(p)
             \/ Park(p) \/ Embed(p) \/ CommitFailure(p)
      PROVE  docs' = docs
  BY <1>4, Prepares, Initiates, Creates, Parks, Embeds, Fails
<1> QED
  BY <1>1, <1>2, <1>3, <1>4, Kinds DEF Aside

(* What Append adds to a sequence of rows.                                 *)
LEMMA Appended ==
  ASSUME NEW s \in Seq(Row), NEW row \in Row
  PROVE  /\ Append(s, row) # <<>> /\ Last(Append(s, row)) = row
         /\ Range(Append(s, row)) = Range(s) \cup {row}
BY DEF Last, Range

(* Rows are never lost.                                                    *)
LEMMA RecordedStays ==
  ASSUME TypeOK, [Next]_vars, NEW a \in Agreements, NEW v \in 1..MaxVersion
  PROVE  /\ Range(docs[a][v]) \subseteq Range(docs'[a][v])
         /\ \A state : HasRow(a, v, state) => \E row \in Range(docs'[a][v]) : row.state = state
<1>1. ASSUME NEW row, docs'[a][v] = Append(docs[a][v], row)
      PROVE  Range(docs[a][v]) \subseteq Range(docs'[a][v])
  <2> DEFINE s == docs[a][v]
             t == Append(s, row)
  <2>1. Len(s) \in Nat /\ DOMAIN s = 1..Len(s)
    BY AgreementRows
  <2>2. DOMAIN t = 1..(Len(s) + 1) /\ \A i \in 1..Len(s) : t[i] = s[i]
    BY <2>1
  <2>3. docs'[a][v] = t
    BY <1>1
  <2> HIDE DEF s, t
  <2>4. \A i \in DOMAIN s : i \in DOMAIN t /\ t[i] = s[i]
    BY <2>1, <2>2
  <2>5. Range(s) \subseteq Range(t)
    BY <2>4 DEF Range
  <2> QED
    BY <2>3, <2>5 DEF s
<1>2. Range(docs[a][v]) \subseteq Range(docs'[a][v])
  <2>1. ASSUME NEW p \in Processes, CommitGenerate(p), h[p].agr = a, h[p].ver = v
        PROVE  \E row : docs'[a][v] = Append(docs[a][v], row)
    BY <2>1, Generates DEF Records
  <2>2. ASSUME NEW p \in Processes, CommitSignature(p), tx[h[p].tx].agr = a, h[p].ver = v
        PROVE  \E row : docs'[a][v] = Append(docs[a][v], row)
    BY <2>2, Signs DEF Records
  <2> QED
    BY <1>1, <2>1, <2>2, DocsKinds
<1> QED
  BY <1>2 DEF HasRow

-----------------------------------------------------------------------------
(* Every version but a fresh draft has its unsigned document, and no later *)
(* version has anything: so a stale generation is refused.                 *)
Generated ==
  \A a \in Agreements :
    /\ \A v \in 1..MaxVersion : v > version[a] => docs[a][v] = <<>>
    /\ \A v \in 1..MaxVersion : v < version[a] => HasRow(a, v, "UNSIGNED")
    /\ status[a] = "DRAFT" => docs[a][version[a]] = <<>>
    /\ status[a] \notin {"DRAFT", "CANCELLED"} => HasRow(a, version[a], "UNSIGNED")

LEMMA GeneratesCurrent ==
  ASSUME TypeOK, NothingAhead, Generated, NEW p \in Processes, CommitGenerate(p)
  PROVE  h[p].ver = version[h[p].agr]
<1>1. /\ h[p].agr \in Agreements /\ h[p].ver \in 1..MaxVersion /\ h[p].pc = "generate"
      /\ ~HasRow(h[p].agr, h[p].ver, "UNSIGNED")
  BY Generates DEF OnAgreement, Records
<1>2. h[p].ver <= version[h[p].agr] /\ version[h[p].agr] \in 1..MaxVersion
  BY <1>1 DEF NothingAhead, TypeOK, Workflow!TypeOK
<1>3. MaxVersion \in Nat
  BY BoundsAssumption
<1> QED
  BY <1>1, <1>2, <1>3 DEF Generated

LEMMA GeneratedNext == TypeOK /\ NothingAhead /\ Generated /\ [Next]_vars => Generated'
<1> SUFFICES ASSUME TypeOK, NothingAhead, Generated, [Next]_vars, NEW a \in Agreements
             PROVE  /\ \A v \in 1..MaxVersion : v > version'[a] => docs'[a][v] = <<>>
                    /\ \A v \in 1..MaxVersion :
                         v < version'[a] => \E row \in Range(docs'[a][v]) : row.state = "UNSIGNED"
                    /\ status'[a] = "DRAFT" => docs'[a][version'[a]] = <<>>
                    /\ status'[a] \notin {"DRAFT", "CANCELLED"} =>
                         \E row \in Range(docs'[a][version'[a]]) : row.state = "UNSIGNED"
  BY DEF Generated, HasRow
<1>0. MaxVersion \in Nat /\ version[a] \in 1..MaxVersion /\ status[a] \in AgreementState
  BY AgreementRows
<1>1. \A v \in 1..MaxVersion : v > version[a] => docs'[a][v] = docs[a][v]
  <2>1. ASSUME NEW v \in 1..MaxVersion, v > version[a],
               NEW p \in Processes, CommitGenerate(p), h[p].agr = a, h[p].ver = v
        PROVE  FALSE
    BY <1>0, <2>1, GeneratesCurrent
  <2>2. ASSUME NEW v \in 1..MaxVersion, v > version[a],
               NEW p \in Processes, CommitSignature(p), tx[h[p].tx].agr = a, h[p].ver = v
        PROVE  FALSE
    <3>1. h[p].ver <= version[a]
      BY <2>2, Signs DEF NothingAhead
    <3> QED
      BY <1>0, <2>2, <3>1
  <2> QED
    BY <2>1, <2>2, DocsKinds
<1>2. CASE Correct(a)
  <2>1. /\ version'[a] = version[a] + 1 /\ version'[a] \in 1..MaxVersion /\ docs' = docs
        /\ status'[a] = "DRAFT" /\ status[a] \in {"REJECTED", "EXPIRED"}
    BY <1>2, Corrects DEF Becomes
  <2>2. HasRow(a, version[a], "UNSIGNED")
    BY <2>1 DEF Generated
  <2> QED
    BY <1>0, <2>1, <2>2 DEF Generated, HasRow
<1>3. CASE version'[a] = version[a] /\ ~Correct(a)
  <2>1. /\ \A v \in 1..MaxVersion : v > version'[a] => docs'[a][v] = <<>>
        /\ \A v \in 1..MaxVersion :
             v < version'[a] => \E row \in Range(docs'[a][v]) : row.state = "UNSIGNED"
    BY <1>1, <1>3, RecordedStays DEF Generated
  <2>2. ASSUME status'[a] = "DRAFT" PROVE docs'[a][version'[a]] = <<>>
    <3>1. status[a] = "DRAFT"
      <4>1. ASSUME NEW p \in Processes, CommitGenerate(p), h[p].agr = a PROVE FALSE
        BY <2>2, <4>1, Generates DEF Becomes
      <4>2. ASSUME NEW p \in Processes, CommitInitiate(p), h[p].agr = a PROVE FALSE
        <5>1. status'[a] = SigningOf(h[p].party) /\ h[p].party \in Parties
          BY <4>2, Initiates DEF Becomes, Initiating
        <5> QED
          BY <2>2, <5>1 DEF SigningOf, SIGNING_PARTY, Parties
      <4>3. ASSUME NEW p \in Processes, CommitSignature(p), tx[h[p].tx].agr = a PROVE FALSE
        <5>1. status'[a] = Following(tx[h[p].tx].party)
          BY <4>3, Signs DEF Becomes
        <5> QED
          BY <2>2, <5>1 DEF Following
      <4> QED
        BY <1>3, <2>2, <4>1, <4>2, <4>3, StatusKinds DEF Ends
    <3>2. ASSUME NEW p \in Processes, CommitGenerate(p), h[p].agr = a PROVE FALSE
      BY <2>2, <3>2, Generates DEF Becomes
    <3>3. ASSUME NEW p \in Processes, CommitSignature(p), tx[h[p].tx].agr = a PROVE FALSE
      <4>1. status[a] = SigningOf(tx[h[p].tx].party) /\ tx[h[p].tx].party \in Parties
        BY <3>3, Signs
      <4> QED
        BY <3>1, <4>1 DEF SigningOf, SIGNING_PARTY, Parties
    <3>4. docs'[a][version[a]] = docs[a][version[a]]
      BY <1>0, <3>2, <3>3, DocsKinds
    <3> QED
      BY <1>3, <3>1, <3>4 DEF Generated
  <2>3. ASSUME status'[a] \notin {"DRAFT", "CANCELLED"}
        PROVE  \E row \in Range(docs'[a][version'[a]]) : row.state = "UNSIGNED"
    <3>1. CASE HasRow(a, version[a], "UNSIGNED")
      BY <1>0, <1>3, <3>1, RecordedStays
    <3>2. CASE status[a] \in {"DRAFT", "CANCELLED"}
      <4>1. ASSUME NEW p \in Processes, CommitInitiate(p), h[p].agr = a PROVE FALSE
        <5>1. status[a] = Turn(h[p].party)
          BY <4>1, Initiates
        <5> QED
          BY <3>2, <5>1 DEF Turn
      <4>2. ASSUME NEW p \in Processes, CommitSignature(p), tx[h[p].tx].agr = a PROVE FALSE
        <5>1. status[a] = SigningOf(tx[h[p].tx].party) /\ tx[h[p].tx].party \in Parties
          BY <4>2, Signs
        <5> QED
          BY <3>2, <5>1 DEF SigningOf, SIGNING_PARTY, Parties
      <4>3. "DRAFT" \notin SigningStates /\ "CANCELLED" \notin SigningStates
        BY DEF SigningStates, SIGNING_PARTY, Parties
      <4>4. PICK p \in Processes : CommitGenerate(p) /\ h[p].agr = a
        BY <1>3, <2>3, <3>2, <4>1, <4>2, <4>3, StatusKinds DEF Ends
      <4> DEFINE row == [state |-> "UNSIGNED", bytes |-> [text |-> h[p].ver, sigs |-> <<>>]]
      <4>5. h[p].ver = version[a] /\ docs'[a][version[a]] = Append(docs[a][version[a]], row)
        BY <4>4, GeneratesCurrent, Generates DEF Records
      <4>6. docs[a][version[a]] \in Seq(Row) /\ row.state = "UNSIGNED"
        BY <1>0 DEF TypeOK
      <4> HIDE DEF row
      <4>7. row \in Range(docs'[a][version[a]])
        BY <4>5, <4>6 DEF Range
      <4> QED
        BY <1>3, <4>6, <4>7
    <3> QED
      BY <3>1, <3>2 DEF Generated
  <2> QED
    BY <2>1, <2>2, <2>3
<1> QED
  BY <1>2, <1>3, VersionGrows

-----------------------------------------------------------------------------
LEMMA OnceCrossed ==
  ASSUME TypeOK, [Next]_vars, NEW a \in Agreements, crossed[a]
  PROVE  crossed'[a]
<1>1. ASSUME NEW b \in Agreements, NEW vs, MayCross(b, vs) PROVE crossed'[a]
  BY <1>1 DEF MayCross
<1>2. ASSUME NEW b \in Agreements, Ends(b) \/ Correct(b) PROVE crossed' = crossed
  BY <1>2, Corrects DEF Ends
<1>3. ASSUME NEW p \in Processes, CommitGenerate(p) PROVE crossed'[a]
  <2>1. h[p].agr \in Agreements /\ MayCross(h[p].agr, {h[p].ver})
    BY <1>3, Generates DEF OnAgreement
  <2> QED
    BY <1>1, <2>1
<1>4. ASSUME NEW p \in Processes, CommitInitiate(p) \/ CreateTransaction(p) PROVE crossed'[a]
  <2>1. h[p].agr \in Agreements /\ MayCross(h[p].agr, {h[p].ver})
    BY <1>4, Initiates, Creates DEF Initiating
  <2> QED
    BY <1>1, <2>1
<1>5. ASSUME NEW p \in Processes, CommitSignature(p) PROVE crossed'[a]
  <2>1. /\ tx[h[p].tx].agr \in Agreements
        /\ MayCross(tx[h[p].tx].agr, {h[p].ver, tx[h[p].tx].ver})
    BY <1>5, Signs
  <2> QED
    BY <1>1, <2>1
<1>6. ASSUME NEW p \in Processes, CommitFailure(p) PROVE crossed'[a]
  <2>1. /\ tx[h[p].tx].agr \in Agreements
        /\ crossed' = crossed \/ MayCross(tx[h[p].tx].agr, {tx[h[p].tx].ver})
    BY <1>6, Fails
  <2> QED
    BY <1>1, <2>1
<1>7. ASSUME NEW p \in Processes, Prepare(p) \/ Park(p) \/ Embed(p) PROVE crossed' = crossed
  BY <1>7, Prepares, Parks, Embeds
<1> QED
  BY <1>2, <1>3, <1>4, <1>5, <1>6, <1>7, Kinds DEF Aside

(* As long as nothing of an agreement was crossed, every document, parked  *)
(* or recorded or in a handler's hands, has the text of its own version.   *)
TextsOf(a) ==
  /\ \A v \in 1..MaxVersion : \A row \in Range(docs[a][v]) : row.bytes.text = v
  /\ \A t \in DOMAIN tx :
       tx[t].agr = a => tx[t].parked = NoBytes \/ tx[t].parked.text = tx[t].ver
  /\ \A p \in Processes :
       h[p].pc \in {"initiate", "create"} /\ h[p].agr = a => h[p].source.text = h[p].ver
  /\ \A p \in Processes :
       h[p].pc = "park" /\ tx[h[p].tx].agr = a => h[p].source.text = tx[h[p].tx].ver
  /\ \A p \in Processes :
       h[p].pc = "sign" /\ tx[h[p].tx].agr = a => h[p].bytes.text = tx[h[p].tx].ver

Texts == \A a \in Agreements : crossed[a] \/ TextsOf(a)

LEMMA TextsNext == TypeOK /\ Texts /\ [Next]_vars => Texts'
<1> SUFFICES ASSUME TypeOK, Texts, [Next]_vars, NEW a \in Agreements, ~crossed'[a]
             PROVE  TextsOf(a)'
  BY DEF Texts
<1>0. ~crossed[a] /\ TextsOf(a)
  BY OnceCrossed DEF Texts
<1>1. ASSUME NEW v \in 1..MaxVersion, NEW row \in Range(docs'[a][v]) PROVE row.bytes.text = v
  <2>0. docs[a][v] \in Seq(Row)
    BY DEF TypeOK
  <2>1. CASE row \in Range(docs[a][v])
    BY <1>0, <2>1 DEF TextsOf
  <2>2. ASSUME NEW p \in Processes, CommitGenerate(p), h[p].agr = a, h[p].ver = v,
               row \notin Range(docs[a][v])
        PROVE  row.bytes.text = v
    <3> DEFINE new == [state |-> "UNSIGNED", bytes |-> [text |-> h[p].ver, sigs |-> <<>>]]
    <3>1. docs'[a][v] = Append(docs[a][v], new)
      BY <2>2, Generates DEF Records
    <3>2. new.bytes.text = v
      BY <2>2
    <3> HIDE DEF new
    <3>3. row = new
      BY <1>1, <2>0, <2>2, <3>1 DEF Range
    <3> QED
      BY <3>2, <3>3
  <2>3. ASSUME NEW p \in Processes, CommitSignature(p), tx[h[p].tx].agr = a, h[p].ver = v,
               row \notin Range(docs[a][v])
        PROVE  row.bytes.text = v
    <3> DEFINE t == h[p].tx
               new == [state |-> DocumentStateAfter(tx[t].party), bytes |-> h[p].bytes]
    <3>1. /\ docs'[a][v] = Append(docs[a][v], new) /\ h[p].pc = "sign"
          /\ MayCross(a, {v, tx[t].ver})
      BY <2>3, Signs DEF Records
    <3>2. tx[t].ver = v
      BY <3>1 DEF MayCross
    <3>3. new.bytes.text = v
      BY <1>0, <2>3, <3>1, <3>2 DEF TextsOf
    <3> HIDE DEF new
    <3>4. row = new
      BY <1>1, <2>0, <2>3, <3>1 DEF Range
    <3> QED
      BY <3>3, <3>4
  <2> QED
    BY <1>1, <2>1, <2>2, <2>3, DocsKinds
<1>2. ASSUME NEW t \in DOMAIN tx', tx'[t].agr = a, tx'[t].parked # NoBytes
      PROVE  tx'[t].parked.text = tx'[t].ver
  <2>1. CASE t \in DOMAIN tx /\ tx'[t].parked = tx[t].parked
    BY <1>0, <1>2, <2>1, RowsKept DEF SameRow, TextsOf
  <2>2. ASSUME NEW p \in Processes, Park(p), h[p].tx = t, t \in DOMAIN tx
        PROVE  tx'[t].parked.text = tx'[t].ver
    <3>1. /\ tx[t].agr = a /\ tx'[t].ver = tx[t].ver /\ h[p].pc = "park"
          /\ tx'[t] = [tx[t] EXCEPT !.parked = h[p].source] /\ tx[t] \in Transaction
      BY <1>2, <2>2, RowsKept, Parks, HandlerWork DEF SameRow
    <3>2. tx'[t].parked = h[p].source
      BY <3>1 DEF Transaction
    <3> QED
      BY <1>0, <2>2, <3>1, <3>2 DEF TextsOf
  <2>3. CASE t \notin DOMAIN tx
    <3>1. PICK p \in Processes : CreateTransaction(p) /\ t = Len(tx) + 1
      BY <2>3, RowsNew
    <3> QED
      BY <1>2, <3>1, Creates
  <2> QED
    BY <2>1, <2>2, <2>3, RowsKept
<1>3. ASSUME NEW p \in Processes, h'[p].pc \in {"initiate", "create"}, h'[p].agr = a
      PROVE  h'[p].source.text = h'[p].ver
  <2>1. CASE /\ h[p].pc \in {"initiate", "create"} /\ h'[p].agr = h[p].agr
             /\ h'[p].ver = h[p].ver /\ h'[p].source = h[p].source
    BY <1>0, <1>3, <2>1 DEF TextsOf
  <2>2. CASE Aside /\ Takes(h'[p])
    <3> DEFINE rows == docs[a][h'[p].ver]
    <3>1. /\ rows # <<>> /\ h'[p].source = Last(rows).bytes /\ h'[p].ver \in 1..MaxVersion
      BY <1>3, <2>2, TakesKinds DEF Initiating
    <3>2. rows \in Seq(Row)
      BY <3>1 DEF TypeOK
    <3>3. Last(rows) \in Range(rows)
      BY <3>1, <3>2 DEF Last, Range
    <3> QED
      BY <1>0, <3>1, <3>3 DEF TextsOf
  <2> QED
    BY <1>3, <2>1, <2>2, HandKinds
<1>4. ASSUME NEW p \in Processes, h'[p].pc = "park", tx'[h'[p].tx].agr = a
      PROVE  h'[p].source.text = tx'[h'[p].tx].ver
  <2>1. CASE h'[p] = h[p]
    <3>1. h[p].tx \in DOMAIN tx
      BY <1>4, <2>1, HandsRows
    <3>2. SameRow(h[p].tx)
      BY <3>1, RowsKept
    <3> QED
      BY <1>0, <1>4, <2>1, <3>2 DEF SameRow, TextsOf
  <2>2. CASE CreateTransaction(p)
    <3>1. /\ h'[p].tx = Len(tx) + 1 /\ h'[p].source = h[p].source /\ h[p].pc = "create"
          /\ tx'[Len(tx) + 1].agr = h[p].agr /\ tx'[Len(tx) + 1].ver = h[p].ver
      BY <2>2, Creates
    <3> QED
      BY <1>0, <1>4, <3>1 DEF TextsOf
  <2> QED
    BY <1>4, <2>1, <2>2, HandKinds, TakesKinds
<1>5. ASSUME NEW p \in Processes, h'[p].pc = "sign", tx'[h'[p].tx].agr = a
      PROVE  h'[p].bytes.text = tx'[h'[p].tx].ver
  <2>1. CASE h'[p] = h[p]
    <3>1. h[p].tx \in DOMAIN tx
      BY <1>5, <2>1, HandsRows
    <3>2. SameRow(h[p].tx)
      BY <3>1, RowsKept
    <3> QED
      BY <1>0, <1>5, <2>1, <3>2 DEF SameRow, TextsOf
  <2>2. CASE Embed(p)
    <3>1. /\ h[p].tx \in DOMAIN tx /\ h'[p].tx = h[p].tx /\ tx' = tx
          /\ h'[p].bytes.text = tx[h[p].tx].parked.text /\ tx[h[p].tx].parked # NoBytes
      BY <2>2, HandsRows, Embeds
    <3> QED
      BY <1>0, <1>5, <3>1 DEF TextsOf
  <2> QED
    BY <1>5, <2>1, <2>2, HandKinds, TakesKinds
<1> QED
  BY <1>1, <1>2, <1>3, <1>4, <1>5 DEF TextsOf

-----------------------------------------------------------------------------
(* The latest document of the current version is the one its state implies.*)
LatestFits ==
  \A a \in Agreements : LET rows == docs[a][version[a]] IN
    ~crossed[a] /\ DocumentOf(status[a]) # "NONE" =>
      rows # <<>> /\ Last(rows).state = DocumentOf(status[a])

LEMMA DocumentsOfStates ==
  /\ \A party \in Parties :
       /\ DocumentOf(Turn(party)) = DocumentOf(SigningOf(party))
       /\ DocumentOf(Following(party)) = DocumentStateAfter(party)
  /\ \A s \in {"DRAFT", "REJECTED", "CANCELLED", "EXPIRED", "SIGNATURE_FAILED"} :
       DocumentOf(s) = "NONE"
  /\ DocumentOf("READY_FOR_AGENT_SIGNATURE") = "UNSIGNED"
BY DEF Parties, Turn, SigningOf, Following, SIGNING_PARTY, DocumentOf, DocumentStateAfter

LEMMA LatestFitsNext ==
  TypeOK /\ NothingAhead /\ Generated /\ LatestFits /\ [Next]_vars => LatestFits'
<1> SUFFICES ASSUME TypeOK, NothingAhead, Generated, LatestFits, [Next]_vars,
                    NEW a \in Agreements, ~crossed'[a], DocumentOf(status'[a]) # "NONE"
             PROVE  /\ docs'[a][version'[a]] # <<>>
                    /\ Last(docs'[a][version'[a]]).state = DocumentOf(status'[a])
  BY DEF LatestFits
<1>0. ~crossed[a] /\ version[a] \in 1..MaxVersion
  BY OnceCrossed, AgreementRows
<1>1. ~Ends(a) /\ ~Correct(a)
  BY Corrects, DocumentsOfStates DEF Ends, Becomes
<1>2. version'[a] = version[a]
  BY <1>1, VersionGrows
<1> DEFINE rows == docs[a][version[a]]
<1>3. rows \in Seq(Row)
  BY <1>0 DEF TypeOK
<1>4. ASSUME NEW p \in Processes, CommitGenerate(p), h[p].agr = a
      PROVE  docs'[a][version[a]] # <<>> /\ Last(docs'[a][version[a]]).state = DocumentOf(status'[a])
  <2> DEFINE new == [state |-> "UNSIGNED", bytes |-> [text |-> h[p].ver, sigs |-> <<>>]]
  <2>1. /\ h[p].ver = version[a] /\ docs'[a][version[a]] = Append(rows, new)
        /\ status'[a] = "READY_FOR_AGENT_SIGNATURE"
    BY <1>4, Generates, GeneratesCurrent DEF Records, Becomes
  <2>2. new.state = "UNSIGNED"
    OBVIOUS
  <2> HIDE DEF new
  <2>3. Append(rows, new) # <<>> /\ Last(Append(rows, new)) = new
    BY <1>3 DEF Last
  <2> QED
    BY <2>1, <2>2, <2>3, DocumentsOfStates
<1>5. ASSUME NEW p \in Processes, CommitSignature(p), tx[h[p].tx].agr = a
      PROVE  docs'[a][version[a]] # <<>> /\ Last(docs'[a][version[a]]).state = DocumentOf(status'[a])
  <2> DEFINE party == tx[h[p].tx].party
             new == [state |-> DocumentStateAfter(party), bytes |-> h[p].bytes]
  <2>1. /\ MayCross(a, {h[p].ver, tx[h[p].tx].ver}) /\ party \in Parties
        /\ docs'[a][h[p].ver] = Append(docs[a][h[p].ver], new)
        /\ status'[a] = Following(party)
    BY <1>5, Signs DEF Records, Becomes
  <2>2. h[p].ver = version[a]
    BY <2>1 DEF MayCross
  <2>3. new.state = DocumentStateAfter(party)
    OBVIOUS
  <2> HIDE DEF new, party
  <2>4. Append(rows, new) # <<>> /\ Last(Append(rows, new)) = new
    BY <1>3 DEF Last
  <2> QED
    BY <2>1, <2>2, <2>3, <2>4, DocumentsOfStates
<1>6. CASE \A p \in Processes : /\ ~(CommitGenerate(p) /\ h[p].agr = a)
                               /\ ~(CommitSignature(p) /\ tx[h[p].tx].agr = a)
  <2>1. docs'[a][version[a]] = docs[a][version[a]]
    BY <1>0, <1>6, DocsKinds
  <2>2. ASSUME NEW p \in Processes, CommitInitiate(p), h[p].agr = a
        PROVE  DocumentOf(status'[a]) = DocumentOf(status[a])
    <3>1. h[p].party \in Parties /\ status[a] = Turn(h[p].party) /\ status'[a] = SigningOf(h[p].party)
      BY <2>2, Initiates DEF Initiating, Becomes
    <3> QED
      BY <3>1, DocumentsOfStates
  <2>3. status'[a] # "SIGNATURE_FAILED"
    BY DocumentsOfStates
  <2>4. DocumentOf(status'[a]) = DocumentOf(status[a])
    BY <1>1, <1>6, <2>2, <2>3, StatusKinds
  <2> QED
    BY <1>0, <1>2, <2>1, <2>4 DEF LatestFits
<1> QED
  BY <1>2, <1>4, <1>5, <1>6

(* Crossing takes a correction: in an agreement never corrected, the       *)
(* version a handler read is the version it writes.                        *)
CrossedLater == \A a \in Agreements : crossed[a] => version[a] > 1

LEMMA CrossedLaterNext == TypeOK /\ NothingAhead /\ CrossedLater /\ [Next]_vars => CrossedLater'
<1> SUFFICES ASSUME TypeOK, NothingAhead, CrossedLater, [Next]_vars,
                    NEW a \in Agreements, crossed'[a]
             PROVE  version'[a] > 1
  BY DEF CrossedLater
<1>0. MaxVersion \in Nat /\ version[a] \in 1..MaxVersion
  BY AgreementRows, BoundsAssumption DEF TypeOK
<1>1. ASSUME NEW b \in Agreements, NEW v \in 1..MaxVersion, NEW u \in 1..MaxVersion,
             v <= version[b], u <= version[b], MayCross(b, {v, u})
      PROVE  crossed[a] \/ version[a] > 1
  <2>1. CASE b # a
    BY <1>1, <2>1 DEF MayCross
  <2>2. CASE b = a /\ ~crossed[a]
    <3>1. v # version[a] \/ u # version[a]
      BY <1>1, <2>2 DEF MayCross
    <3> QED
      BY <1>0, <1>1, <2>2, <3>1
  <2> QED
    BY <2>1, <2>2
<1>2. ASSUME NEW p \in Processes,
             CommitGenerate(p) \/ CommitInitiate(p) \/ CreateTransaction(p)
      PROVE  crossed[a] \/ version[a] > 1
  <2>1. MayCross(h[p].agr, {h[p].ver}) /\ h[p].pc \in {"generate", "initiate", "create"}
    BY <1>2, Generates, Initiates, Creates
  <2>2. h[p].agr \in Agreements /\ h[p].ver \in 1..MaxVersion /\ h[p].ver <= version[h[p].agr]
    BY <2>1, WorkOn DEF NothingAhead
  <2>3. MayCross(h[p].agr, {h[p].ver, h[p].ver})
    BY <2>1
  <2> QED
    BY <1>1, <2>2, <2>3
<1>3. ASSUME NEW p \in Processes, CommitSignature(p)
      PROVE  crossed[a] \/ version[a] > 1
  <2> DEFINE t == h[p].tx
             b == tx[t].agr
  <2>1. /\ MayCross(b, {h[p].ver, tx[t].ver}) /\ b \in Agreements /\ t \in DOMAIN tx
        /\ h[p].ver \in 1..MaxVersion /\ tx[t].ver \in 1..MaxVersion /\ h[p].pc = "sign"
    BY <1>3, Signs
  <2>2. h[p].ver <= version[b] /\ tx[t].ver <= version[b]
    BY <2>1 DEF NothingAhead
  <2> QED
    BY <1>1, <2>1, <2>2
<1>4. ASSUME NEW p \in Processes, CommitFailure(p)
      PROVE  crossed[a] \/ version[a] > 1
  <2> DEFINE t == h[p].tx
             b == tx[t].agr
  <2>1. /\ crossed' = crossed \/ MayCross(b, {tx[t].ver})
        /\ b \in Agreements /\ t \in DOMAIN tx
    BY <1>4, Fails
  <2>2. tx[t].ver <= version[b] /\ tx[t].ver \in 1..MaxVersion
    BY <2>1, HandlerWork DEF NothingAhead, Transaction
  <2>3. crossed' = crossed \/ MayCross(b, {tx[t].ver, tx[t].ver})
    BY <2>1
  <2> QED
    BY <1>1, <2>1, <2>2, <2>3
<1>5. ASSUME NEW b \in Agreements, Ends(b) \/ Correct(b) PROVE crossed' = crossed
  BY <1>5, Corrects DEF Ends
<1>6. ASSUME NEW p \in Processes, Prepare(p) \/ Park(p) \/ Embed(p) PROVE crossed' = crossed
  BY <1>6, Prepares, Parks, Embeds
<1>7. crossed[a] \/ version[a] > 1
  BY <1>2, <1>3, <1>4, <1>5, <1>6, Kinds DEF Aside
<1>8. version[a] > 1
  BY <1>7 DEF CrossedLater
<1> QED
  BY <1>0, <1>8, VersionGrows

(* The strengthening of the coupling, and why it implies it.               *)
CouplingInv == NothingAhead /\ Generated /\ Texts /\ LatestFits /\ CrossedLater

LEMMA InitCoupling == Init => CouplingInv
<1> SUFFICES ASSUME Init PROVE CouplingInv
  OBVIOUS
<1>0. \A a \in Agreements : status[a] = "DRAFT" /\ version[a] = 1
  BY DEF Init, Workflow!Init
<1>1. tx = <<>> /\ (\A p \in Processes : h[p].pc = "idle") /\ MaxVersion \in Nat \ {0}
  BY IdleHand, BoundsAssumption DEF Init
<1>2. \A a \in Agreements : ~crossed[a] /\ \A v \in 1..MaxVersion : docs[a][v] = <<>>
  BY DEF Init
<1>3. NothingAhead
  BY <1>1 DEF NothingAhead
<1>4. Generated
  BY <1>0, <1>1, <1>2 DEF Generated
<1>5. Texts
  BY <1>1, <1>2 DEF Texts, TextsOf, Range
<1>6. LatestFits
  BY <1>0, DocumentsOfStates DEF LatestFits
<1>7. CrossedLater
  BY <1>2 DEF CrossedLater
<1> QED
  BY <1>3, <1>4, <1>5, <1>6, <1>7 DEF CouplingInv

LEMMA CouplingNext == TypeOK /\ CouplingInv /\ [Next]_vars => CouplingInv'
BY NothingAheadNext, GeneratedNext, TextsNext, LatestFitsNext, CrossedLaterNext DEF CouplingInv

LEMMA CouplingHolds == Spec => [](TypeOK /\ CouplingInv)
BY InitCoupling, CouplingNext, TypeCorrect, PTL DEF Spec

LEMMA CouplingUncrossed ==
  ASSUME TypeOK, CouplingInv, NEW a \in Agreements, ~crossed[a]
  PROVE  Coupled(a)
<1> DEFINE rows == docs[a][version[a]]
<1>1. version[a] \in 1..MaxVersion /\ rows \in Seq(Row)
  BY AgreementRows
<1>2. status[a] = "DRAFT" => rows = <<>>
  BY DEF CouplingInv, Generated
<1>3. DocumentOf(status[a]) # "NONE" =>
        rows # <<>> /\ Last(rows).state = DocumentOf(status[a])
  BY DEF CouplingInv, LatestFits
<1>4. rows # <<>> => Last(rows) \in Range(rows)
  BY <1>1 DEF Last, Range
<1>5. rows # <<>> => Last(rows).bytes.text = version[a]
  BY <1>1, <1>4 DEF CouplingInv, Texts, TextsOf
<1> QED
  BY <1>2, <1>3, <1>5 DEF Coupled

(* The coupling of state and document, with corrections: on the current    *)
(* version the latest document, its state and its text, are what the state *)
(* implies, unless a handler wrote across a correction.                    *)
THEOREM CouplingUnlessCrossed == Spec => []StateMatchesDocumentUnlessCrossed
<1>1. TypeOK /\ CouplingInv => StateMatchesDocumentUnlessCrossed
  BY CouplingUncrossed DEF StateMatchesDocumentUnlessCrossed
<1> QED
  BY <1>1, CouplingHolds, PTL

(* An agreement never corrected has the document its state implies,        *)
(* whatever becomes of the others.                                         *)
THEOREM CouplingUncorrected ==
  Spec => [](\A a \in Agreements : version[a] = 1 => Coupled(a))
<1>1. TypeOK /\ CouplingInv => \A a \in Agreements : version[a] = 1 => Coupled(a)
  BY CouplingUncrossed DEF CouplingInv, CrossedLater
<1> QED
  BY <1>1, CouplingHolds, PTL

-----------------------------------------------------------------------------
(* The key of an unsigned document is taken by one attempt: unless that    *)
(* attempt is interrupted, or cannot compose the document, it goes on to   *)
(* commit, or is refused because the draft was generated by another.       *)
Lost(a, v) == interrupts > 0 \/ <<a, v>> \in uncomposed

Keys ==
  \A a \in Agreements, v \in 1..MaxVersion, m \in 1..MaxMonth :
    <<a, v, "UNSIGNED", m>> \in files =>
      /\ v <= version[a]
      /\ \/ Lost(a, v) \/ v < version[a] \/ status[a] # "DRAFT"
         \/ \E p \in Processes : h[p].pc = "generate" /\ h[p].agr = a /\ h[p].ver = v

LEMMA KeysNew ==
  ASSUME TypeOK, [Next]_vars, NEW a, NEW v, NEW m, <<a, v, "UNSIGNED", m>> \in files'
  PROVE  \/ <<a, v, "UNSIGNED", m>> \in files
         \/ \E p \in Processes : Prepare(p) /\ h[p].agr = a /\ h[p].ver = v
<1>1. ASSUME NEW p \in Processes, Embed(p), <<a, v, "UNSIGNED", m>> \notin files PROVE FALSE
  <2>1. DocumentStateAfter(tx[h[p].tx].party) = "UNSIGNED"
    BY <1>1, Embeds
  <2> QED
    BY <2>1 DEF DocumentStateAfter
<1>2. ASSUME NEW p \in Processes, Prepare(p), <<a, v, "UNSIGNED", m>> \notin files
      PROVE  h[p].agr = a /\ h[p].ver = v
  <2>1. <<a, v, "UNSIGNED", m>> = <<h[p].agr, h[p].ver, "UNSIGNED", month>>
    BY <1>2, Prepares
  <2> QED
    BY <2>1
<1>3. ASSUME NEW b \in Agreements, Ends(b) \/ Correct(b) PROVE files' = files
  BY <1>3, Corrects DEF Ends
<1>4. ASSUME NEW p \in Processes,
             \/ CommitGenerate(p) \/ CommitInitiate(p) \/ CreateTransaction(p)
             \/ Park(p) \/ CommitSignature(p) \/ CommitFailure(p)
      PROVE  files' = files
  BY <1>4, Generates, Initiates, Creates, Parks, Signs, Fails
<1> QED
  BY <1>1, <1>2, <1>3, <1>4, Kinds DEF Aside

LEMMA InterruptsGrow ==
  ASSUME TypeOK, [Next]_vars
  PROVE  /\ interrupts \in Nat /\ interrupts' \in Nat /\ interrupts <= interrupts'
         /\ uncomposed \subseteq uncomposed'
<1>1. interrupts \in Nat /\ interrupts' \in Nat
  BY NextType, BoundsAssumption DEF TypeOK
<1>2. ASSUME NEW b \in Agreements, Ends(b) \/ Correct(b)
      PROVE  UNCHANGED <<interrupts, uncomposed>>
  BY <1>2, Corrects DEF Ends
<1>3. ASSUME NEW p \in Processes,
             \/ Prepare(p) \/ CommitGenerate(p) \/ CommitInitiate(p)
             \/ CreateTransaction(p) \/ Park(p) \/ Embed(p)
             \/ CommitSignature(p) \/ CommitFailure(p)
      PROVE  UNCHANGED <<interrupts, uncomposed>>
  BY <1>3, Prepares, Generates, Initiates, Creates, Parks, Embeds, Signs, Fails
<1> QED
  BY <1>1, <1>2, <1>3, Kinds DEF Aside

LEMMA KeysNext == TypeOK /\ NothingAhead /\ Generated /\ Keys /\ [Next]_vars => Keys'
<1> SUFFICES ASSUME TypeOK, NothingAhead, Generated, Keys, [Next]_vars,
                    NEW a \in Agreements, NEW v \in 1..MaxVersion, NEW m \in 1..MaxMonth,
                    <<a, v, "UNSIGNED", m>> \in files'
             PROVE  /\ v <= version'[a]
                    /\ \/ Lost(a, v)' \/ v < version'[a] \/ status'[a] # "DRAFT"
                       \/ \E p \in Processes :
                            h'[p].pc = "generate" /\ h'[p].agr = a /\ h'[p].ver = v
  BY DEF Keys
<1>0. /\ MaxVersion \in Nat /\ version[a] \in Nat /\ version'[a] \in Nat
      /\ version[a] <= version'[a] /\ v \in Nat
  BY BoundsAssumption, VersionGrows
<1>1. CASE <<a, v, "UNSIGNED", m>> \in files
  <2>0. v <= version[a]
    BY <1>1 DEF Keys
  <2>1. CASE Lost(a, v) \/ v < version[a]
    BY <1>0, <2>0, <2>1, InterruptsGrow DEF Lost
  <2>2. CASE status[a] # "DRAFT" /\ status'[a] = "DRAFT"
    <3>1. ASSUME NEW p \in Processes, CommitGenerate(p), h[p].agr = a PROVE FALSE
      BY <2>2, <3>1, Generates
    <3>2. ASSUME NEW p \in Processes, CommitInitiate(p), h[p].agr = a PROVE FALSE
      <4>1. status'[a] = SigningOf(h[p].party) /\ h[p].party \in Parties
        BY <3>2, Initiates DEF Becomes, Initiating
      <4> QED
        BY <2>2, <4>1 DEF SigningOf, SIGNING_PARTY, Parties
    <3>3. ASSUME NEW p \in Processes, CommitSignature(p), tx[h[p].tx].agr = a PROVE FALSE
      <4>1. status'[a] = Following(tx[h[p].tx].party)
        BY <3>3, Signs DEF Becomes
      <4> QED
        BY <2>2, <4>1 DEF Following
    <3>4. Correct(a)
      BY <2>2, <3>1, <3>2, <3>3, StatusKinds DEF Ends
    <3>5. version'[a] = version[a] + 1
      BY <3>4, Corrects
    <3> QED
      BY <1>0, <2>0, <3>5
  <2>3. ASSUME NEW p \in Processes, h[p].pc = "generate", h[p].agr = a, h[p].ver = v,
               status[a] = "DRAFT", status'[a] = "DRAFT", v = version[a]
        PROVE  h'[p] = h[p] \/ Lost(a, v)'
    <3>1. ASSUME CommitGenerate(p) PROVE FALSE
      BY <2>3, <3>1, Generates DEF Becomes
    <3>2. ASSUME Aside, h'[p] # h[p] PROVE Lost(a, v)'
      <4>1. CanGenerate(h[p])
        BY <2>3 DEF CanGenerate, Generated, HasRow, Range
      <4> QED
        BY <2>3, <3>2, <4>1 DEF Aside, Abandoned, Lost
    <3> QED
      BY <2>3, <3>1, <3>2, HandKinds
  <2>4. CASE status'[a] # "DRAFT"
    BY <1>0, <2>0, <2>4
  <2>5. Lost(a, v) \/ v < version[a] \/ status[a] # "DRAFT"
        \/ \E p \in Processes : h[p].pc = "generate" /\ h[p].agr = a /\ h[p].ver = v
    BY <1>1 DEF Keys
  <2> QED
    BY <1>0, <2>0, <2>1, <2>2, <2>3, <2>4, <2>5
<1>2. ASSUME NEW p \in Processes, Prepare(p), h[p].agr = a, h[p].ver = v
      PROVE  /\ v <= version[a]
             /\ h'[p].pc = "generate" /\ h'[p].agr = a /\ h'[p].ver = v
  BY <1>2, Prepares DEF NothingAhead, OnAgreement
<1> QED
  BY <1>0, <1>1, <1>2, KeysNew

(* A draft at rest can be generated, corrections included, unless an       *)
(* attempt was interrupted after storing its documents, or could not       *)
(* compose them.                                                           *)
THEOREM DraftGeneratable == Spec => []DraftCanBeGenerated
<1>1. Init => Keys
  BY DEF Init, Keys
<1>2. TypeOK /\ Keys => DraftCanBeGenerated
  <2> SUFFICES ASSUME TypeOK, Keys, NEW a \in Agreements, status[a] = "DRAFT", interrupts = 0,
                      <<a, version[a]>> \notin uncomposed, \A p \in Processes : h[p] = Idle,
                      <<a, version[a], "UNSIGNED", month>> \in files
               PROVE  FALSE
    BY DEF DraftCanBeGenerated, ObjectKey
  <2>1. version[a] \in 1..MaxVersion /\ month \in 1..MaxMonth /\ MaxVersion \in Nat
    BY AgreementRows, BoundsAssumption DEF TypeOK
  <2> QED
    BY <2>1, IdleHand DEF Keys, Lost
<1>3. TypeOK /\ CouplingInv /\ Keys /\ [Next]_vars => Keys'
  BY KeysNext DEF CouplingInv
<1> QED
  BY <1>1, <1>2, <1>3, CouplingHolds, PTL DEF Spec

-----------------------------------------------------------------------------
LEMMA SignedDocuments ==
  TypeOK /\ Outcomes /\ SignedTxHasDocument /\ [Next]_vars => SignedTxHasDocument'
<1> SUFFICES ASSUME TypeOK, Outcomes, SignedTxHasDocument, [Next]_vars,
                    NEW a \in Agreements, NEW v \in 1..MaxVersion, NEW party \in Parties,
                    ~crossed'[a]
             PROVE  (\E row \in Range(docs'[a][v]) : row.state = DocumentStateAfter(party))
                      <=> \E t \in DOMAIN tx' :
                            tx'[t].agr = a /\ tx'[t].ver = v /\ tx'[t].party = party
                              /\ tx'[t].status = "SIGNED"
  BY DEF SignedTxHasDocument, HasRow
<1>0. ~crossed[a] /\ docs[a][v] \in Seq(Row)
  BY OnceCrossed DEF TypeOK
<1>1. HasRow(a, v, DocumentStateAfter(party)) <=>
        \E t \in DOMAIN tx : tx[t].agr = a /\ tx[t].ver = v /\ tx[t].party = party
                               /\ tx[t].status = "SIGNED"
  BY <1>0 DEF SignedTxHasDocument
<1>2. ASSUME NEW t \in DOMAIN tx, tx[t].agr = a, tx[t].ver = v, tx[t].party = party,
             tx[t].status = "SIGNED"
      PROVE  /\ t \in DOMAIN tx' /\ tx'[t].agr = a /\ tx'[t].ver = v /\ tx'[t].party = party
             /\ tx'[t].status = "SIGNED"
  BY <1>2, RowsKept, SignedKept DEF SameRow
<1>3. ASSUME NEW p \in Processes, CommitSignature(p), tx[h[p].tx].agr = a
      PROVE  LET t == h[p].tx IN
             /\ t \in DOMAIN tx' /\ tx'[t].agr = a /\ tx'[t].ver = tx[t].ver /\ h[p].ver = tx[t].ver
             /\ tx'[t].party = tx[t].party /\ tx[t].party \in Parties /\ tx'[t].status = "SIGNED"
             /\ tx[t].ver \in 1..MaxVersion
             /\ docs'[a][tx[t].ver] = Append(docs[a][tx[t].ver],
                  [state |-> DocumentStateAfter(tx[t].party), bytes |-> h[p].bytes])
  <2>1. /\ MayCross(a, {h[p].ver, tx[h[p].tx].ver}) /\ h[p].tx \in DOMAIN tx
        /\ Resolves(h[p].tx, "SIGNED")
        /\ Records(a, h[p].ver, [state |-> DocumentStateAfter(tx[h[p].tx].party), bytes |-> h[p].bytes])
        /\ tx[h[p].tx].party \in Parties /\ tx[h[p].tx].ver \in 1..MaxVersion
    BY <1>3, Signs
  <2>2. h[p].ver = tx[h[p].tx].ver
    BY <2>1 DEF MayCross
  <2> QED
    BY <1>3, <2>1, <2>2 DEF Resolves, SameRow, Records
<1>4. ASSUME NEW row \in Range(docs'[a][v]), row.state = DocumentStateAfter(party)
      PROVE  \E t \in DOMAIN tx' :
               tx'[t].agr = a /\ tx'[t].ver = v /\ tx'[t].party = party
                 /\ tx'[t].status = "SIGNED"
  <2>1. CASE row \in Range(docs[a][v])
    BY <1>1, <1>2, <1>4, <2>1 DEF HasRow
  <2>2. ASSUME NEW p \in Processes, CommitGenerate(p), h[p].agr = a, h[p].ver = v,
               row \notin Range(docs[a][v])
        PROVE  FALSE
    <3> DEFINE new == [state |-> "UNSIGNED", bytes |-> [text |-> h[p].ver, sigs |-> <<>>]]
    <3>1. docs'[a][v] = Append(docs[a][v], new)
      BY <2>2, Generates DEF Records
    <3>2. new.state = "UNSIGNED"
      OBVIOUS
    <3> HIDE DEF new
    <3>3. row = new
      BY <1>0, <1>4, <2>2, <3>1 DEF Range
    <3> QED
      BY <1>4, <3>2, <3>3 DEF DocumentStateAfter
  <2>3. ASSUME NEW p \in Processes, CommitSignature(p), tx[h[p].tx].agr = a, h[p].ver = v,
               row \notin Range(docs[a][v])
        PROVE  tx[h[p].tx].party = party
    <3> DEFINE q == tx[h[p].tx].party
               new == [state |-> DocumentStateAfter(q), bytes |-> h[p].bytes]
    <3>1. docs'[a][v] = Append(docs[a][v], new) /\ q \in Parties
      BY <1>3, <2>3
    <3>2. new.state = DocumentStateAfter(q)
      OBVIOUS
    <3> HIDE DEF new, q
    <3>3. row = new
      BY <1>0, <1>4, <2>3, <3>1 DEF Range
    <3>4. q = party
      BY <1>4, <3>1, <3>2, <3>3 DEF DocumentStateAfter, Parties
    <3> QED
      BY <3>4 DEF q
  <2>4. ASSUME NEW p \in Processes, CommitSignature(p), tx[h[p].tx].agr = a, h[p].ver = v,
               row \notin Range(docs[a][v])
        PROVE  \E t \in DOMAIN tx' :
                 tx'[t].agr = a /\ tx'[t].ver = v /\ tx'[t].party = party
                   /\ tx'[t].status = "SIGNED"
    BY <1>3, <2>3, <2>4
  <2>5. CASE docs'[a][v] = docs[a][v]
    BY <1>4, <2>1, <2>5
  <2> QED
    BY <2>1, <2>2, <2>4, <2>5, DocsKinds
<1>5. ASSUME NEW t \in DOMAIN tx', tx'[t].agr = a, tx'[t].ver = v, tx'[t].party = party,
             tx'[t].status = "SIGNED"
      PROVE  \E row \in Range(docs'[a][v]) : row.state = DocumentStateAfter(party)
  <2>1. t \in DOMAIN tx
    <3>1. ASSUME NEW p \in Processes, CreateTransaction(p)
          PROVE  tx'[Len(tx) + 1].status = "PENDING_SIGNER"
      BY <3>1, Creates
    <3> QED
      BY <1>5, <3>1, RowsNew
  <2>2. tx[t].agr = a /\ tx[t].ver = v /\ tx[t].party = party
    BY <1>5, <2>1, RowsKept DEF SameRow
  <2>3. CASE tx[t].status = "SIGNED"
    BY <1>1, <2>1, <2>2, <2>3, RecordedStays
  <2>4. ASSUME NEW p \in Processes, CommitSignature(p), h[p].tx = t
        PROVE  \E row \in Range(docs'[a][v]) : row.state = DocumentStateAfter(party)
    <3> DEFINE new == [state |-> DocumentStateAfter(party), bytes |-> h[p].bytes]
    <3>1. docs'[a][v] = Append(docs[a][v], new)
      BY <1>3, <2>2, <2>4
    <3>2. new.state = DocumentStateAfter(party)
      OBVIOUS
    <3> HIDE DEF new
    <3>3. new \in Range(docs'[a][v])
      BY <1>0, <3>1 DEF Range
    <3> QED
      BY <3>2, <3>3
  <2> QED
    BY <1>5, <2>1, <2>3, <2>4, RowsKept
<1> QED
  BY <1>4, <1>5

(* A ceremony is SIGNED exactly when the document with its signature is    *)
(* recorded, in every agreement where nothing was crossed.                 *)
THEOREM SignedWithDocument == Spec => []SignedTxHasDocument
<1>1. Init => Outcomes /\ SignedTxHasDocument
  BY IdleHand DEF Init, Outcomes, SignedTxHasDocument, HasRow, Range
<1>2. TypeOK /\ Outcomes /\ SignedTxHasDocument /\ [Next]_vars
        => (Outcomes /\ SignedTxHasDocument)'
  BY OutcomesNext, SignedDocuments
<1> QED
  BY <1>1, <1>2, TypeCorrect, PTL DEF Spec

-----------------------------------------------------------------------------
(* The states an agreement can be in once the party has signed.            *)
After(party) ==
  CASE party = "AGENT"    -> {"PENDING_EMPLOYEE_SIGNATURE", "EMPLOYEE_SIGNING",
                              "PENDING_MD_SIGNATURE", "MD_SIGNING"}
    [] party = "EMPLOYEE" -> {"PENDING_MD_SIGNATURE", "MD_SIGNING"}
    [] OTHER              -> {}

LEMMA Stages ==
  /\ \A p \in Parties :
       /\ Turn(p) \notin After(p) /\ SigningOf(p) \notin After(p)
       /\ ~IsTerminal(Turn(p)) /\ ~IsTerminal(SigningOf(p))
       /\ Turn(p) # "SIGNATURE_FAILED" /\ SigningOf(p) # "SIGNATURE_FAILED"
       /\ Following(p) \in After(p) \/ IsTerminal(Following(p))
       /\ "DRAFT" \notin After(p) /\ "DRAFT" # SigningOf(p)
  /\ \A p, q \in Parties :
       /\ Turn(q) # SigningOf(p)
       /\ SigningOf(p) = SigningOf(q) => p = q
       /\ Turn(q) \in After(p) => SigningOf(q) \in After(p)
       /\ SigningOf(q) \in After(p) => Following(q) \in After(p) \/ IsTerminal(Following(q))
  /\ ~IsTerminal("DRAFT") /\ ~IsTerminal("SIGNATURE_FAILED")
  /\ \A s \in {"REJECTED", "EXPIRED", "CANCELLED"} : IsTerminal(s)
  /\ \A s \in SigningStates : ~IsTerminal(s) /\ s # "SIGNATURE_FAILED"
BY DEF Parties, After, Turn, SigningOf, Following, SIGNING_PARTY, SigningStates,
       IsTerminal, AbsolutelyTerminal, VersionTerminal

(* A transaction of the version in force, and a handler about to open one, *)
(* in an agreement where nothing was crossed.                              *)
OnCurrent(t) == tx[t].ver = version[tx[t].agr] /\ ~crossed[tx[t].agr]
Creating(p)  == h[p].pc = "create" /\ h[p].ver = version[h[p].agr] /\ ~crossed[h[p].agr]

Underway(t) ==
  LET s == status[tx[t].agr]  party == tx[t].party IN
  \/ s = SigningOf(party) \/ IsTerminal(s)
  \/ tx[t].status = "SIGNED" /\ s \in After(party)
  \/ tx[t].status \notin Open /\ s = "SIGNATURE_FAILED"

(* Every ceremony of the version in force belongs to the signing state its *)
(* agreement is in or has passed, and each party has one at most.          *)
Ceremonies ==
  /\ \A t \in OpenTx : crossed[tx[t].agr] \/ OnCurrent(t)
  /\ \A t \in DOMAIN tx : OnCurrent(t) => Underway(t)
  /\ \A t, u \in DOMAIN tx :
       OnCurrent(t) /\ OnCurrent(u) /\ tx[t].agr = tx[u].agr /\ tx[t].party = tx[u].party => t = u
  /\ \A p \in Processes : Creating(p) =>
       /\ status[h[p].agr] = SigningOf(h[p].party) \/ IsTerminal(status[h[p].agr])
       /\ \A t \in DOMAIN tx :
            OnCurrent(t) /\ tx[t].agr = h[p].agr => tx[t].party # h[p].party
       /\ \A q \in Processes : Creating(q) /\ h[q].agr = h[p].agr => q = p

(* What is on the version in force after a step was on it before, and no   *)
(* correction was made.                                                    *)
LEMMA StaysOn ==
  ASSUME TypeOK, [Next]_vars, NEW a \in Agreements, NEW v \in 1..MaxVersion,
         v <= version[a], v = version'[a], ~crossed'[a]
  PROVE  v = version[a] /\ version'[a] = version[a] /\ ~crossed[a] /\ ~Correct(a)
<1>1. version[a] \in Nat /\ v \in Nat /\ MaxVersion \in Nat
  BY AgreementRows, BoundsAssumption DEF TypeOK
<1>2. ~Correct(a)
  BY <1>1, Corrects
<1> QED
  BY <1>1, <1>2, VersionGrows, OnceCrossed

LEMMA TxStaysOn ==
  ASSUME TypeOK, NothingAhead, [Next]_vars, NEW t \in DOMAIN tx, OnCurrent(t)'
  PROVE  /\ OnCurrent(t) /\ SameRow(t) /\ tx[t].agr \in Agreements /\ tx[t].party \in Parties
         /\ ~crossed'[tx[t].agr] /\ ~Correct(tx[t].agr)
<1>1. tx[t].agr \in Agreements /\ tx[t].party \in Parties /\ tx[t].ver \in 1..MaxVersion
  BY HandlerWork DEF Transaction
<1>2. SameRow(t) /\ tx[t].ver <= version[tx[t].agr]
  BY RowsKept DEF NothingAhead
<1>3. tx[t].ver = version'[tx[t].agr] /\ ~crossed'[tx[t].agr]
  BY <1>2 DEF OnCurrent, SameRow
<1> QED
  BY <1>1, <1>2, <1>3, StaysOn DEF OnCurrent

LEMMA CreatorStaysOn ==
  ASSUME TypeOK, NothingAhead, [Next]_vars, NEW p \in Processes, Creating(p)'
  PROVE  /\ h'[p].agr = h[p].agr /\ h'[p].party = h[p].party /\ h'[p].ver = h[p].ver
         /\ h[p].ver = version[h[p].agr]
         /\ h[p].agr \in Agreements /\ h[p].party \in Parties
         /\ ~crossed'[h[p].agr] /\ ~crossed[h[p].agr] /\ ~Correct(h[p].agr)
         /\ Creating(p) \/ CommitInitiate(p)
<1>1. \/ h'[p] = h[p] /\ h[p].pc = "create"
      \/ /\ CommitInitiate(p) /\ h[p].pc = "initiate" /\ h'[p].agr = h[p].agr
         /\ h'[p].party = h[p].party /\ h'[p].ver = h[p].ver
  BY HandKinds, TakesKinds DEF Creating
<1>2. /\ h[p].agr \in Agreements /\ h[p].party \in Parties /\ h[p].ver \in 1..MaxVersion
      /\ h[p].ver <= version[h[p].agr]
  BY <1>1, HandlerWork, WorkKinds DEF Initiating, NothingAhead
<1>3. h[p].ver = version'[h[p].agr] /\ ~crossed'[h[p].agr]
  BY <1>1 DEF Creating
<1>4. h[p].ver = version[h[p].agr] /\ ~crossed[h[p].agr] /\ ~Correct(h[p].agr)
  BY <1>2, <1>3, StaysOn
<1> QED
  BY <1>1, <1>2, <1>3, <1>4 DEF Creating

(* The transaction just created, and its creator, were on the version in   *)
(* force, if nothing is crossed.                                           *)
LEMMA CreatorWas ==
  ASSUME TypeOK, NEW p \in Processes, CreateTransaction(p), ~crossed'[h[p].agr]
  PROVE  Creating(p) /\ h[p].agr \in Agreements /\ h[p].party \in Parties
<1>1. h[p] \in Initiating /\ h[p].pc = "create" /\ MayCross(h[p].agr, {h[p].ver})
  BY Creates
<1> QED
  BY <1>1 DEF Initiating, MayCross, Creating

(* The commits that take a ceremony's agreement to another state, if they  *)
(* cross nothing, were of its own ceremony on the version in force.        *)
LEMMA ResolverWas ==
  ASSUME TypeOK, Outcomes, Ceremonies, NEW p \in Processes, NEW a \in Agreements,
         tx[h[p].tx].agr = a, ~crossed'[a],
         \/ CommitSignature(p)
         \/ CommitFailure(p) /\ status[a] \in SigningStates /\ MayCross(a, {tx[h[p].tx].ver})
  PROVE  LET u == h[p].tx IN
         /\ u \in DOMAIN tx /\ OnCurrent(u) /\ tx[u].party \in Parties
         /\ status[a] = SigningOf(tx[u].party)
<1> DEFINE u == h[p].tx
<1>1. CASE CommitSignature(p)
  <2>1. /\ u \in DOMAIN tx /\ tx[u].party \in Parties /\ status[a] = SigningOf(tx[u].party)
        /\ MayCross(a, {h[p].ver, tx[u].ver})
    BY <1>1, Signs
  <2>2. tx[u].ver = version[a] /\ ~crossed[a]
    BY <2>1 DEF MayCross
  <2> QED
    BY <2>1, <2>2 DEF OnCurrent
<1>2. CASE CommitFailure(p) /\ status[a] \in SigningStates /\ MayCross(a, {tx[u].ver})
  <2>1. u \in DOMAIN tx /\ h[p].pc = "fail" /\ tx[u].party \in Parties
    BY <1>2, Fails, HandlerWork DEF Transaction
  <2>2. OnCurrent(u)
    BY <1>2 DEF MayCross, OnCurrent
  <2>3. tx[u].status # "SIGNED"
    <3>1. Hopeless(tx[u], provider[u])
      BY <2>1 DEF Outcomes
    <3> QED
      BY <2>1, <3>1 DEF Outcomes, Signable, Hopeless
  <2>4. Underway(u)
    BY <2>1, <2>2 DEF Ceremonies
  <2> QED
    BY <1>2, <2>1, <2>2, <2>3, <2>4, Stages DEF Underway
<1> QED
  BY <1>1, <1>2

LEMMA UnderwayNext ==
  ASSUME TypeOK, Outcomes, NothingAhead, Ceremonies, [Next]_vars,
         NEW t \in DOMAIN tx, OnCurrent(t)'
  PROVE  Underway(t)'
<1> DEFINE a == tx[t].agr
           party == tx[t].party
<1>1. /\ OnCurrent(t) /\ a \in Agreements /\ party \in Parties /\ ~crossed'[a] /\ ~Correct(a)
      /\ tx'[t].agr = a /\ tx'[t].party = party
  BY TxStaysOn DEF SameRow
<1>2. Underway(t)
  BY <1>1 DEF Ceremonies
<1>3. /\ tx[t].status = "SIGNED" => tx'[t].status = "SIGNED"
      /\ tx[t].status \notin Open => tx'[t].status \notin Open
  BY SignedKept, RowsKept DEF Open
<1> SUFFICES \/ status'[a] = SigningOf(party) \/ IsTerminal(status'[a])
             \/ tx'[t].status = "SIGNED" /\ status'[a] \in After(party)
             \/ tx'[t].status \notin Open /\ status'[a] = "SIGNATURE_FAILED"
  BY <1>1 DEF Underway, IsTerminal, Open, SigningOf, After
<1>4. CASE status'[a] = status[a]
  BY <1>2, <1>3, <1>4 DEF Underway
<1>5. CASE Ends(a)
  BY <1>5, Stages DEF Ends
<1>6. ASSUME NEW p \in Processes, CommitGenerate(p), h[p].agr = a PROVE FALSE
  <2>1. status[a] = "DRAFT"
    BY <1>6, Generates
  <2> QED
    BY <1>1, <1>2, <2>1, Stages DEF Underway
<1>7. ASSUME NEW p \in Processes, CommitInitiate(p), h[p].agr = a
      PROVE  tx[t].status = "SIGNED" /\ status'[a] \in After(party)
  <2>1. /\ h[p].party \in Parties /\ status[a] = Turn(h[p].party)
        /\ status'[a] = SigningOf(h[p].party)
    BY <1>7, Initiates DEF Initiating, Becomes
  <2> QED
    BY <1>1, <1>2, <2>1, Stages DEF Underway
<1>8. ASSUME NEW p \in Processes, CommitSignature(p), tx[h[p].tx].agr = a
      PROVE  tx'[t].status = "SIGNED" /\ (status'[a] \in After(party) \/ IsTerminal(status'[a]))
  <2> DEFINE u == h[p].tx
  <2>1. u \in DOMAIN tx /\ OnCurrent(u) /\ tx[u].party \in Parties /\ status[a] = SigningOf(tx[u].party)
    BY <1>1, <1>8, ResolverWas
  <2>2. status'[a] = Following(tx[u].party) /\ tx'[u].status = "SIGNED"
    BY <1>8, Signs DEF Becomes, Resolves
  <2>3. CASE u = t
    BY <2>2, <2>3, <1>1, Stages
  <2>4. CASE u # t
    <3>1. tx[u].party # party
      BY <1>1, <1>8, <2>1, <2>4 DEF Ceremonies
    <3>2. tx[t].status = "SIGNED" /\ status[a] \in After(party)
      BY <1>1, <1>2, <2>1, <3>1, Stages DEF Underway
    <3> QED
      BY <1>1, <1>3, <2>1, <2>2, <3>2, Stages
  <2> QED
    BY <2>3, <2>4
<1>9. ASSUME NEW p \in Processes, CommitFailure(p), tx[h[p].tx].agr = a,
             status[a] \in SigningStates, MayCross(a, {tx[h[p].tx].ver})
      PROVE  tx'[t].status \notin Open
  <2> DEFINE u == h[p].tx
  <2>1. u \in DOMAIN tx /\ OnCurrent(u) /\ tx[u].party \in Parties /\ status[a] = SigningOf(tx[u].party)
    BY <1>1, <1>9, ResolverWas
  <2>2. CASE u = t
    BY <1>9, <2>2, Fails DEF Resolves, Open
  <2>3. CASE u # t
    <3>1. tx[u].party # party
      BY <1>1, <1>9, <2>1, <2>3 DEF Ceremonies
    <3>2. tx[t].status = "SIGNED"
      BY <1>1, <1>2, <2>1, <3>1, Stages DEF Underway
    <3> QED
      BY <1>3, <3>2 DEF Open
  <2> QED
    BY <2>2, <2>3
<1> QED
  BY <1>1, <1>3, <1>4, <1>5, <1>6, <1>7, <1>8, <1>9, StatusKinds

(* No step but its own party's initiation starts a handler on a ceremony,  *)
(* and none takes the signing state away from a handler at work on one.    *)
LEMMA CreatorNext ==
  ASSUME TypeOK, Outcomes, NothingAhead, Ceremonies, [Next]_vars,
         NEW p \in Processes, Creating(p)'
  PROVE  /\ status'[h[p].agr] = SigningOf(h[p].party) \/ IsTerminal(status'[h[p].agr])
         /\ \A t \in DOMAIN tx :
              OnCurrent(t) /\ tx[t].agr = h[p].agr => tx[t].party # h[p].party
         /\ \A q \in Processes : Creating(q) /\ h[q].agr = h[p].agr => q = p
<1> DEFINE a == h[p].agr
           party == h[p].party
<1>1. /\ a \in Agreements /\ party \in Parties /\ ~crossed'[a] /\ ~Correct(a)
      /\ Creating(p) \/ CommitInitiate(p)
  BY CreatorStaysOn
<1>2. CASE CommitInitiate(p)
  <2>1. status[a] = Turn(party) /\ status'[a] = SigningOf(party) /\ h[p].pc = "initiate"
    BY <1>2, Initiates DEF Becomes
  <2>2. ASSUME NEW t \in DOMAIN tx, OnCurrent(t), tx[t].agr = a PROVE tx[t].party # party
    <3>1. Underway(t) /\ tx[t].party \in Parties
      BY <2>2, HandlerWork DEF Ceremonies, Transaction
    <3> QED
      BY <1>1, <2>1, <2>2, <3>1, Stages DEF Underway
  <2>3. ASSUME NEW q \in Processes, Creating(q), h[q].agr = a PROVE FALSE
    <3>1. h[q].party \in Parties
      BY <2>3, HandlerWork, WorkKinds DEF Creating, Initiating
    <3>2. status[a] = SigningOf(h[q].party) \/ IsTerminal(status[a])
      BY <2>3 DEF Ceremonies
    <3> QED
      BY <1>1, <2>1, <3>1, <3>2, Stages
  <2> QED
    BY <2>1, <2>2, <2>3
<1>3. CASE Creating(p)
  <2>1. /\ status[a] = SigningOf(party) \/ IsTerminal(status[a])
        /\ \A t \in DOMAIN tx : OnCurrent(t) /\ tx[t].agr = a => tx[t].party # party
        /\ \A q \in Processes : Creating(q) /\ h[q].agr = a => q = p
    BY <1>3 DEF Ceremonies
  <2>2. ASSUME NEW q \in Processes, CommitGenerate(q), h[q].agr = a PROVE FALSE
    <3>1. status[a] = "DRAFT"
      BY <2>2, Generates
    <3> QED
      BY <1>1, <2>1, <3>1, Stages
  <2>3. ASSUME NEW q \in Processes, CommitInitiate(q), h[q].agr = a PROVE FALSE
    <3>1. status[a] = Turn(h[q].party) /\ h[q].party \in Parties
      BY <2>3, Initiates DEF Initiating
    <3> QED
      BY <1>1, <2>1, <3>1, Stages
  <2>4. ASSUME NEW q \in Processes, tx[h[q].tx].agr = a,
               \/ CommitSignature(q)
               \/ CommitFailure(q) /\ status[a] \in SigningStates /\ MayCross(a, {tx[h[q].tx].ver})
        PROVE  FALSE
    <3> DEFINE u == h[q].tx
    <3>1. u \in DOMAIN tx /\ OnCurrent(u) /\ tx[u].party \in Parties /\ status[a] = SigningOf(tx[u].party)
      BY <1>1, <2>4, ResolverWas
    <3> QED
      BY <1>1, <2>1, <2>4, <3>1, Stages
  <2>5. status'[a] = status[a] \/ Ends(a)
    BY <1>1, <2>2, <2>3, <2>4, StatusKinds
  <2>6. status'[a] = SigningOf(party) \/ IsTerminal(status'[a])
    BY <2>1, <2>5, Stages DEF Ends
  <2> QED
    BY <2>1, <2>6
<1> QED
  BY <1>1, <1>2, <1>3

(* A transaction on the version in force was on it, or has just been       *)
(* created on it.                                                          *)
LEMMA CurrentNext ==
  ASSUME TypeOK, NothingAhead, [Next]_vars, NEW t \in DOMAIN tx', OnCurrent(t)'
  PROVE  \/ /\ t \in DOMAIN tx /\ OnCurrent(t)
            /\ tx'[t].agr = tx[t].agr /\ tx'[t].party = tx[t].party
         \/ \E p \in Processes :
              /\ CreateTransaction(p) /\ Creating(p) /\ t = Len(tx) + 1 /\ t \notin DOMAIN tx
              /\ tx'[t].agr = h[p].agr /\ tx'[t].party = h[p].party
<1>1. CASE t \in DOMAIN tx
  BY <1>1, TxStaysOn DEF SameRow
<1>2. CASE t \notin DOMAIN tx
  <2>1. PICK p \in Processes : CreateTransaction(p) /\ t = Len(tx) + 1
    BY <1>2, RowsNew
  <2>2. tx'[t].agr = h[p].agr /\ tx'[t].party = h[p].party
    BY <2>1, Creates
  <2>3. ~crossed'[h[p].agr]
    BY <2>2 DEF OnCurrent
  <2> QED
    BY <1>2, <2>1, <2>2, <2>3, CreatorWas
<1> QED
  BY <1>1, <1>2

LEMMA CeremoniesNext ==
  TypeOK /\ Outcomes /\ NothingAhead /\ Ceremonies /\ [Next]_vars => Ceremonies'
<1> SUFFICES ASSUME TypeOK, Outcomes, NothingAhead, Ceremonies, [Next]_vars PROVE Ceremonies'
  OBVIOUS
<1>1. ASSUME NEW t \in DOMAIN tx', tx'[t].status \in Open, ~crossed'[tx'[t].agr]
      PROVE  OnCurrent(t)'
  <2>1. CASE t \in DOMAIN tx
    <3> DEFINE a == tx[t].agr
    <3>1. a \in Agreements /\ tx'[t].agr = a /\ tx'[t].ver = tx[t].ver
      BY <2>1, RowsKept, HandlerWork DEF SameRow
    <3>2. tx[t].status \in Open /\ ~crossed[a]
      BY <1>1, <2>1, <3>1, RowsKept, OnceCrossed DEF Open
    <3>3. tx[t].ver = version[a]
      BY <2>1, <3>2 DEF Ceremonies, OpenTx, OnCurrent
    <3>4. ASSUME Correct(a) PROVE FALSE
      <4>1. tx'[t] = [tx[t] EXCEPT !.status = "CANCELLED"] /\ tx[t] \in Transaction
        BY <2>1, <3>2, <3>3, <3>4, <3>1, Corrects, HandlerWork
      <4>2. tx'[t].status = "CANCELLED"
        BY <4>1 DEF Transaction
      <4> QED
        BY <1>1, <4>2 DEF Open
    <3>5. version'[a] = version[a]
      BY <3>1, <3>4, VersionGrows
    <3> QED
      BY <1>1, <3>1, <3>3, <3>5 DEF OnCurrent
  <2>2. CASE t \notin DOMAIN tx
    <3>1. PICK p \in Processes : CreateTransaction(p) /\ t = Len(tx) + 1
      BY <2>2, RowsNew
    <3>2. tx'[t].agr = h[p].agr /\ tx'[t].ver = h[p].ver /\ version' = version
      BY <3>1, Creates
    <3>3. Creating(p)
      BY <1>1, <3>1, <3>2, CreatorWas
    <3> QED
      BY <1>1, <3>2, <3>3 DEF Creating, OnCurrent
  <2> QED
    BY <2>1, <2>2
<1>2. ASSUME NEW t \in DOMAIN tx', OnCurrent(t)' PROVE Underway(t)'
  <2>1. CASE t \in DOMAIN tx
    BY <1>2, <2>1, UnderwayNext
  <2>2. ASSUME NEW p \in Processes, CreateTransaction(p), Creating(p),
               tx'[t].agr = h[p].agr, tx'[t].party = h[p].party
        PROVE  Underway(t)'
    <3>1. status' = status
      BY <2>2, Creates
    <3>2. status[h[p].agr] = SigningOf(h[p].party) \/ IsTerminal(status[h[p].agr])
      BY <2>2 DEF Ceremonies
    <3>3. status'[tx'[t].agr] = SigningOf(tx'[t].party) \/ IsTerminal(status'[tx'[t].agr])
      BY <2>2, <3>1, <3>2
    <3> QED
      BY <3>3 DEF Underway, IsTerminal, SigningOf
  <2> QED
    BY <1>2, <2>1, <2>2, CurrentNext
<1>3. ASSUME NEW t \in DOMAIN tx', NEW u \in DOMAIN tx', OnCurrent(t)', OnCurrent(u)',
             tx'[t].agr = tx'[u].agr, tx'[t].party = tx'[u].party
      PROVE  t = u
  <2>1. CASE t \in DOMAIN tx /\ u \in DOMAIN tx
    BY <1>3, <2>1, TxStaysOn DEF SameRow, Ceremonies
  <2>2. ASSUME NEW x \in DOMAIN tx, NEW y \in DOMAIN tx' \ DOMAIN tx, OnCurrent(x)', OnCurrent(y)',
               tx'[x].agr = tx'[y].agr, tx'[x].party = tx'[y].party
        PROVE  FALSE
    <3>1. OnCurrent(x) /\ tx'[x].agr = tx[x].agr /\ tx'[x].party = tx[x].party
      BY <2>2, TxStaysOn DEF SameRow
    <3>2. PICK p \in Processes : Creating(p) /\ tx'[y].agr = h[p].agr /\ tx'[y].party = h[p].party
      BY <2>2, CurrentNext
    <3> QED
      BY <2>2, <3>1, <3>2 DEF Ceremonies
  <2>3. CASE t \notin DOMAIN tx /\ u \notin DOMAIN tx
    BY <1>3, <2>3, RowsNew
  <2> QED
    BY <1>3, <2>1, <2>2, <2>3
<1>4. ASSUME NEW p \in Processes, Creating(p)'
      PROVE  /\ status'[h'[p].agr] = SigningOf(h'[p].party) \/ IsTerminal(status'[h'[p].agr])
             /\ \A t \in DOMAIN tx' :
                  OnCurrent(t)' /\ tx'[t].agr = h'[p].agr => tx'[t].party # h'[p].party
             /\ \A q \in Processes : Creating(q)' /\ h'[q].agr = h'[p].agr => q = p
  <2>1. h'[p].agr = h[p].agr /\ h'[p].party = h[p].party /\ (Creating(p) \/ CommitInitiate(p))
    BY <1>4, CreatorStaysOn
  <2>2. /\ status'[h[p].agr] = SigningOf(h[p].party) \/ IsTerminal(status'[h[p].agr])
        /\ \A t \in DOMAIN tx :
             OnCurrent(t) /\ tx[t].agr = h[p].agr => tx[t].party # h[p].party
        /\ \A q \in Processes : Creating(q) /\ h[q].agr = h[p].agr => q = p
    BY <1>4, CreatorNext
  <2>3. ASSUME NEW t \in DOMAIN tx', OnCurrent(t)', tx'[t].agr = h[p].agr, tx'[t].party = h[p].party
        PROVE  FALSE
    <3>1. ASSUME NEW q \in Processes, CreateTransaction(q), Creating(q), tx'[t].agr = h[q].agr
          PROVE  FALSE
      <4>1. q = p
        BY <2>2, <2>3, <3>1
      <4>2. h'[q].pc = "park"
        BY <3>1, Creates
      <4> QED
        BY <1>4, <4>1, <4>2 DEF Creating
    <3> QED
      BY <2>2, <2>3, <3>1, CurrentNext
  <2>4. ASSUME NEW q \in Processes, Creating(q)', h'[q].agr = h[p].agr PROVE q = p
    <3>1. h[q].agr = h[p].agr /\ (Creating(q) \/ CommitInitiate(q))
      BY <2>4, CreatorStaysOn
    <3>2. CASE Creating(q)
      BY <2>2, <3>1, <3>2
    <3>3. CASE CommitInitiate(q) /\ Creating(p)
      <4>1. \A x \in Processes : Creating(x) /\ h[x].agr = h[q].agr => x = q
        BY <2>4, CreatorNext
      <4> QED
        BY <3>1, <3>3, <4>1
    <3>4. CASE CommitInitiate(q) /\ CommitInitiate(p)
      <4>1. OthersKeep(q) /\ h[p].pc = "initiate"
        BY <3>4, Initiates
      <4> QED
        BY <1>4, <4>1 DEF OthersKeep, Creating
    <3> QED
      BY <2>1, <3>1, <3>2, <3>3, <3>4
  <2> QED
    BY <2>1, <2>2, <2>3, <2>4
<1>5. \A t \in OpenTx' : crossed'[tx'[t].agr] \/ OnCurrent(t)'
  BY <1>1 DEF OpenTx
<1> QED
  BY <1>2, <1>3, <1>4, <1>5 DEF Ceremonies, IsTerminal, SigningOf

(* "An open ceremony must be visible to everyone else": while a ceremony   *)
(* is open its agreement is in that party's signing state, or has ended,   *)
(* unless a handler wrote across a correction.                             *)
THEOREM OpenVisible == Spec => []OpenCeremonyIsVisible
<1>1. Init => Outcomes /\ Ceremonies
  BY IdleHand DEF Init, Outcomes, Ceremonies, OpenTx, Creating
<1>2. Ceremonies => OpenCeremonyIsVisible
  <2> SUFFICES ASSUME Ceremonies, NEW t \in OpenTx, ~crossed[tx[t].agr]
               PROVE  \/ status[tx[t].agr] = SigningOf(tx[t].party)
                      \/ IsTerminal(status[tx[t].agr])
    BY DEF OpenCeremonyIsVisible, SigningOf
  <2>1. Underway(t) /\ tx[t].status \in Open
    BY DEF Ceremonies, OpenTx
  <2> QED
    BY <2>1 DEF Underway, Open
<1>3. TypeOK /\ CouplingInv /\ Outcomes /\ Ceremonies /\ [Next]_vars => (Outcomes /\ Ceremonies)'
  BY OutcomesNext, CeremoniesNext DEF CouplingInv
<1> QED
  BY <1>1, <1>2, <1>3, CouplingHolds, PTL DEF Spec

=============================================================================
