------------------------------ MODULE Signing ------------------------------
(***************************************************************************)
(* The signing pipeline: document generation, the signing ceremonies of    *)
(* the agent, the employee and the MD, the provider callback, the          *)
(* reconciliation job and the expiry sweep (signing.service.ts,            *)
(* esign.service.ts, documents.service.ts, scheduled-jobs.service.ts).     *)
(*                                                                         *)
(* A database transaction is one step, because the row lock of             *)
(* WorkflowService serialises it; everything a handler reads before that   *)
(* transaction, and every object it puts in storage, is a step of its own. *)
(***************************************************************************)
EXTENDS StateMachine, SequencesExt

CONSTANTS
  Agreements,
  Callers,         \* request and callback handlers that may run at once
  Reconciler,      \* the run of the reconciliation job
  MaxVersion,      \* bound on current_version
  MaxTx,           \* bound on the esign_transactions rows
  MaxMonth,        \* bound on the calendar months that pass
  MaxInterrupts    \* bound on the handlers that crash, or fail for want of
                   \* storage, provider or database

ASSUME BoundsAssumption ==
  /\ MaxVersion \in Nat \ {0} /\ MaxTx \in Nat /\ MaxMonth \in Nat \ {0}
  /\ MaxInterrupts \in Nat
ASSUME ReconcilerAssumption == Reconciler \notin Callers

VARIABLES
  status, version, due, entered,   \* the agreements rows: see AgreementLifecycle
  docs,       \* agreement_versions rows of each agreement and version, oldest first
  history,    \* agreement_version_history: voided_signature_count per closed version
  files,      \* keys of the objects in storage
  month,      \* the calendar month, part of every key
  tx,         \* the esign_transactions rows, oldest first
  provider,   \* the outcome the provider holds for each transaction
  ledger,     \* transactions whose callback event has been claimed
  h,          \* what each handler has read and does next
  pass,       \* transactions the reconciliation pass has still to visit
  sweep,      \* agreements the expiry sweep has still to visit
  interrupts, \* interruptions so far
  crossed,    \* history: a handler committed a status change on a version
              \* other than the one it read, or its transaction was opened on
  uncomposed       \* history: <<agreement, version>> an attempt's document could
              \* not be composed for

agreementVars == <<status, version, due, entered>>
environment   == <<month, provider, interrupts, uncomposed>>
vars == <<status, version, due, entered, docs, history, files, month, tx,
          provider, ledger, h, pass, sweep, interrupts, crossed, uncomposed>>

Workflow == INSTANCE AgreementLifecycle WITH Requestable <- ServiceActions

Processes == Callers \cup {Reconciler}
Parties   == {"AGENT", "EMPLOYEE", "MD"}

-----------------------------------------------------------------------------
(* Mutant: whoever is not the agent completes the agreement.               *)
DocumentStateAfter_TwoParty(party) == IF party = "AGENT" THEN "AGENT_SIGNED" ELSE "FINAL"

DocumentStateAfter(party) ==
  CASE party = "AGENT"    -> "AGENT_SIGNED"
    [] party = "EMPLOYEE" -> "EMPLOYEE_SIGNED"
    [] OTHER              -> "FINAL"

(* Everything that differs between the three signing parties.              *)
SIGNING_PARTY ==
  [AGENT    |-> [initiate |-> "AGENT_SIGN_INITIATE", succeed |-> "AGENT_SIGN_SUCCEED",
                 fail |-> "AGENT_SIGN_FAIL", signingState |-> "AGENT_SIGNING",
                 advance |-> "ADVANCE_TO_EMPLOYEE", signaturesBefore |-> 0],
   EMPLOYEE |-> [initiate |-> "EMPLOYEE_SIGN_INITIATE", succeed |-> "EMPLOYEE_SIGN_SUCCEED",
                 fail |-> "EMPLOYEE_SIGN_FAIL", signingState |-> "EMPLOYEE_SIGNING",
                 advance |-> "ADVANCE_TO_MD", signaturesBefore |-> 1],
   MD       |-> [initiate |-> "MD_SIGN_INITIATE", succeed |-> "MD_SIGN_SUCCEED",
                 fail |-> "MD_SIGN_FAIL", signingState |-> "MD_SIGNING",
                 advance |-> "NONE", signaturesBefore |-> 2]]

SigningStates == {SIGNING_PARTY[party].signingState : party \in Parties}

(* The bytes of a document: the version whose text it is, and the          *)
(* signatures embedded so far.  NoBytes is a null pending_file_key.        *)
Bytes   == [text : 0..MaxVersion, sigs : Seq(Parties)]
NoBytes == [text |-> 0, sigs |-> <<>>]

DocumentState == {"UNSIGNED", "AGENT_SIGNED", "EMPLOYEE_SIGNED", "FINAL"}
Row           == [state : DocumentState, bytes : Bytes]
Transaction   == [agr : Agreements, party : Parties, ver : 1..MaxVersion, parked : Bytes,
                  status : {"PENDING_SIGNER", "SIGNED", "FAILED", "CANCELLED"}]
Key           == Agreements \X (1..MaxVersion) \X DocumentState \X (1..MaxMonth)

Open      == {"PENDING_SIGNER"}
Idle      == [pc |-> "idle"]

HasRow(a, v, state) == \E row \in Range(docs[a][v]) : row.state = state
OpenTx              == {t \in DOMAIN tx : tx[t].status \in Open}

(* What a handler can have in hand while n transactions exist.             *)
OnAgreement == [pc : {"prepare", "generate"}, agr : Agreements, ver : 1..MaxVersion]
Initiating  == [pc : {"initiate", "create"}, agr : Agreements, ver : 1..MaxVersion,
                party : Parties, source : Bytes]
Parking(n)  == [pc : {"park"}, tx : 1..n, source : Bytes]
Embedding(n) == [pc : {"embed"}, tx : 1..n, ver : 1..MaxVersion]
Recording(n) == [pc : {"sign"}, tx : 1..n, ver : 1..MaxVersion, bytes : Bytes]
GivingUp(n)  == [pc : {"fail"}, tx : 1..n, status : AgreementState]
Work(n) == {Idle} \cup OnAgreement \cup Initiating \cup Parking(n)
             \cup Embedding(n) \cup Recording(n) \cup GivingUp(n)

TypeOK ==
  /\ Workflow!TypeOK
  /\ docs \in [Agreements -> [1..MaxVersion -> Seq(Row)]]
  /\ history \in [Agreements -> Seq(Nat)]
  /\ files \subseteq Key /\ month \in 1..MaxMonth
  /\ tx \in Seq(Transaction)
  /\ provider \in Seq({"PENDING_SIGNER", "SIGNED", "FAILED"}) /\ Len(provider) = Len(tx)
  /\ ledger \subseteq 1..Len(tx) /\ pass \subseteq 1..Len(tx)
  /\ sweep \subseteq Agreements
  /\ interrupts \in 0..MaxInterrupts
  /\ crossed \in [Agreements -> BOOLEAN]
  /\ uncomposed \subseteq Agreements \X (1..MaxVersion)
  /\ h \in [Processes -> Work(Len(tx))]

Init ==
  /\ Workflow!Init
  /\ docs = [a \in Agreements |-> [v \in 1..MaxVersion |-> <<>>]]
  /\ history = [a \in Agreements |-> <<>>]
  /\ files = {} /\ month = 1
  /\ tx = <<>> /\ provider = <<>> /\ ledger = {}
  /\ h = [p \in Processes |-> Idle]
  /\ pass = {} /\ sweep = {}
  /\ interrupts = 0
  /\ crossed = [a \in Agreements |-> FALSE] /\ uncomposed = {}

-----------------------------------------------------------------------------
(* A handler goes on to its next step, returns, or throws.  A throw rolls  *)
(* its transaction back and, in the job, leaves the loop over the pass.    *)
Goto(p, w) == h' = [h EXCEPT ![p] = w] /\ UNCHANGED pass
Returns(p) == Goto(p, Idle)
Throws(p)  ==
  /\ h' = [h EXCEPT ![p] = Idle]
  /\ pass' = IF p = Reconciler THEN {} ELSE pass

At(p, pc) == h[p].pc = pc

(* A handler writes of agreement a, having worked on the versions vs.      *)
Crossing(a, vs) == crossed' = [crossed EXCEPT ![a] = @ \/ vs # {version[a]}]

(* Storage objects are write-once: link() fails when the key exists.       *)
ObjectKey(a, v, state) == <<a, v, state, month>>

(* INSERT INTO agreement_versions.                                         *)
AddRow(a, v, state, bytes) ==
  /\ ~HasRow(a, v, state)
  /\ docs' = [docs EXCEPT ![a][v] = Append(@, [state |-> state, bytes |-> bytes])]

SetTxStatus(t, s) == tx' = [tx EXCEPT ![t].status = s]

-----------------------------------------------------------------------------
(* composeFromBankDocument, uploadAgreementDocument and what they share,   *)
(* composeAndGenerate: DRAFT is checked on an unlocked read, the artifacts *)
(* go to storage inside the transaction, the first of them, the document   *)
(* as supplied, under a key that must be new and before anything is made   *)
(* of it; the rows commit with GENERATE.  generate() lacks the early       *)
(* check; its commit refuses the same requests.                            *)

BeginGenerate(p, a) ==
  /\ h[p] = Idle /\ status[a] = "DRAFT"
  /\ Goto(p, [pc |-> "prepare", agr |-> a, ver |-> version[a]])
  /\ UNCHANGED <<agreementVars, docs, history, files, tx, ledger, sweep, crossed, environment>>

CanPrepare(w) == ObjectKey(w.agr, w.ver, "UNSIGNED") \notin files

Prepare(p) ==
  /\ At(p, "prepare") /\ CanPrepare(h[p])
  /\ files' = files \cup {ObjectKey(h[p].agr, h[p].ver, "UNSIGNED")}
  /\ Goto(p, [h[p] EXCEPT !.pc = "generate"])
  /\ UNCHANGED <<agreementVars, docs, history, tx, ledger, sweep, crossed, environment>>

(* The supplied PDF is corrupt or encrypted, or the stamp's scan cannot be *)
(* embedded: compose or prepare throws, and what was stored stays.         *)
CannotCompose(p) ==
  /\ At(p, "generate")
  /\ uncomposed' = uncomposed \cup {<<h[p].agr, h[p].ver>>}
  /\ Throws(p)
  /\ UNCHANGED <<agreementVars, docs, history, files, tx, ledger, sweep, crossed, month,
                 provider, interrupts>>

CanGenerate(w) == status[w.agr] = "DRAFT" /\ ~HasRow(w.agr, w.ver, "UNSIGNED")

CommitGenerate(p) ==
  /\ At(p, "generate") /\ CanGenerate(h[p])
  /\ AddRow(h[p].agr, h[p].ver, "UNSIGNED", [text |-> h[p].ver, sigs |-> <<>>])
  /\ Workflow!Transition(h[p].agr, "GENERATE")
  /\ Crossing(h[p].agr, {h[p].ver})
  /\ Returns(p)
  /\ UNCHANGED <<history, files, tx, ledger, sweep, environment>>

-----------------------------------------------------------------------------
(* initiateSignature.  The document shown to the signer is compared with   *)
(* the latest row of the version read; a request that fails the comparison *)
(* changes nothing.  The state changes first, then the ceremony is opened  *)
(* with the provider, then the parked bytes are recorded: three commits.   *)

(* Mutant: the ceremony is opened before the state says so.                *)
BeginInitiate_NoState(p, a, party) ==
  /\ h[p] = Idle
  /\ docs[a][version[a]] # <<>> /\ Len(tx) < MaxTx
  /\ Goto(p, [pc |-> "create", agr |-> a, ver |-> version[a], party |-> party,
              source |-> Last(docs[a][version[a]]).bytes])
  /\ UNCHANGED <<agreementVars, docs, history, files, tx, ledger, sweep, crossed, environment>>

BeginInitiate(p, a, party) ==
  /\ h[p] = Idle
  /\ docs[a][version[a]] # <<>>
  /\ Len(tx) + Cardinality({q \in Processes : h[q].pc \in {"initiate", "create"}}) < MaxTx
  /\ Goto(p, [pc |-> "initiate", agr |-> a, ver |-> version[a], party |-> party,
              source |-> Last(docs[a][version[a]]).bytes])
  /\ UNCHANGED <<agreementVars, docs, history, files, tx, ledger, sweep, crossed, environment>>

CanInitiate(w) == status[w.agr] \in From(SIGNING_PARTY[w.party].initiate)

CommitInitiate(p) ==
  /\ At(p, "initiate") /\ CanInitiate(h[p])
  /\ Workflow!Transition(h[p].agr, SIGNING_PARTY[h[p].party].initiate)
  /\ Crossing(h[p].agr, {h[p].ver})
  /\ Goto(p, [h[p] EXCEPT !.pc = "create"])
  /\ UNCHANGED <<docs, history, files, tx, ledger, sweep, environment>>

(* beginSignature refuses a field already signed; uq_esign_open_per_party  *)
(* refuses a second open ceremony.                                         *)
CanCreate(w) ==
  /\ w.party \notin Range(w.source.sigs)
  /\ \A t \in OpenTx : <<tx[t].agr, tx[t].party, tx[t].ver>> # <<w.agr, w.party, w.ver>>

CreateTransaction(p) ==
  /\ At(p, "create") /\ CanCreate(h[p])
  /\ tx' = Append(tx, [agr |-> h[p].agr, party |-> h[p].party, ver |-> h[p].ver,
                       parked |-> NoBytes, status |-> "PENDING_SIGNER"])
  /\ provider' = Append(provider, "PENDING_SIGNER")
  /\ Crossing(h[p].agr, {h[p].ver})
  /\ Goto(p, [pc |-> "park", tx |-> Len(tx) + 1, source |-> h[p].source])
  /\ UNCHANGED <<agreementVars, docs, history, files, ledger, sweep, month, interrupts, uncomposed>>

Park(p) ==
  /\ At(p, "park")
  /\ tx' = [tx EXCEPT ![h[p].tx].parked = h[p].source]
  /\ Returns(p)
  /\ UNCHANGED <<agreementVars, docs, history, files, ledger, sweep, crossed, environment>>

-----------------------------------------------------------------------------
(* completeSignature and failSignature.  Each is entered, for a            *)
(* transaction row, by the callback and by the reconciliation job; what    *)
(* completeSignature reads of the agreement it uses until it returns.      *)

Completing(t) == [pc |-> "embed", tx |-> t, ver |-> version[tx[t].agr]]
Failing(t)    == [pc |-> "fail", tx |-> t, status |-> status[tx[t].agr]]
Resolving(t)  == IF provider[t] = "SIGNED" THEN Completing(t) ELSE Failing(t)

(* Mutant: the signatures are not counted.                                 *)
IntegrityHolds_Uncounted(t) == tx[t].parked # NoBytes

(* assertIntegrityAfterSigning: the signatures found are as many as the    *)
(* party's turn implies.                                                   *)
IntegrityHolds(t) ==
  Len(tx[t].parked.sigs) = SIGNING_PARTY[tx[t].party].signaturesBefore

CanEmbed(w) ==
  /\ tx[w.tx].parked # NoBytes
  /\ IntegrityHolds(w.tx) =>
       ObjectKey(tx[w.tx].agr, w.ver, DocumentStateAfter(tx[w.tx].party)) \notin files

(* Mutant: the document's row does not join the transaction.               *)
Embed_OwnTransaction(p) ==
  LET t == h[p].tx
      bytes == [tx[t].parked EXCEPT !.sigs = Append(@, tx[t].party)] IN
  /\ At(p, "embed") /\ CanEmbed(h[p]) /\ IntegrityHolds(t)
  /\ files' = files \cup {ObjectKey(tx[t].agr, h[p].ver, DocumentStateAfter(tx[t].party))}
  /\ AddRow(tx[t].agr, h[p].ver, DocumentStateAfter(tx[t].party), bytes)
  /\ Goto(p, [pc |-> "sign", tx |-> t, ver |-> h[p].ver, bytes |-> bytes])
  /\ UNCHANGED <<agreementVars, history, tx, ledger, sweep, crossed, environment>>

(* The signed document is stored before the transaction's rows are written.*)
Embed(p) ==
  LET t == h[p].tx IN
  /\ At(p, "embed") /\ CanEmbed(h[p]) /\ IntegrityHolds(t)
  /\ files' = files \cup {ObjectKey(tx[t].agr, h[p].ver, DocumentStateAfter(tx[t].party))}
  /\ Goto(p, [pc |-> "sign", tx |-> t, ver |-> h[p].ver,
              bytes |-> [tx[t].parked EXCEPT !.sigs = Append(@, tx[t].party)]])
  /\ UNCHANGED <<agreementVars, docs, history, tx, ledger, sweep, crossed, environment>>

(* SignatureIntegrityError: nothing is stored, the attempt is failed.      *)
IntegrityAlert(p) ==
  /\ At(p, "embed") /\ CanEmbed(h[p]) /\ ~IntegrityHolds(h[p].tx)
  /\ Goto(p, Failing(h[p].tx))
  /\ UNCHANGED <<agreementVars, docs, history, files, tx, ledger, sweep, crossed, environment>>

CanSign(w) ==
  /\ status[tx[w.tx].agr] \in From(SIGNING_PARTY[tx[w.tx].party].succeed)
  /\ ~HasRow(tx[w.tx].agr, w.ver, DocumentStateAfter(tx[w.tx].party))

CommitSignature(p) ==
  LET w == h[p]  a == tx[w.tx].agr  party == tx[w.tx].party
      spec == SIGNING_PARTY[party] IN
  /\ At(p, "sign") /\ CanSign(w)
  /\ AddRow(a, w.ver, DocumentStateAfter(party), w.bytes)
  /\ SetTxStatus(w.tx, "SIGNED")
  /\ \/ spec.advance # "NONE" /\ Workflow!Chain(a, spec.succeed, spec.advance)
     \/ spec.advance = "NONE" /\ Workflow!TransitionClearingDeadline(a, spec.succeed)
  /\ Crossing(a, {w.ver, tx[w.tx].ver})
  /\ Returns(p)
  /\ UNCHANGED <<history, files, ledger, sweep, environment>>

(* The edge failSignature takes is chosen by the status it read, and the   *)
(* transaction row is written whatever its status has become.              *)
FailEdge(s) == SIGNING_PARTY[CHOOSE party \in Parties :
                               SIGNING_PARTY[party].signingState = s].fail

CanFail(w) == w.status \in SigningStates => status[tx[w.tx].agr] = w.status

CommitFailure(p) ==
  LET w == h[p]  a == tx[w.tx].agr IN
  /\ At(p, "fail") /\ CanFail(w)
  /\ SetTxStatus(w.tx, "FAILED")
  /\ \/ /\ w.status \in SigningStates
        /\ Workflow!Transition(a, FailEdge(w.status))
        /\ Crossing(a, {tx[w.tx].ver})
     \/ w.status \notin SigningStates /\ UNCHANGED <<agreementVars, crossed>>
  /\ Returns(p)
  /\ UNCHANGED <<docs, history, files, ledger, sweep, environment>>

-----------------------------------------------------------------------------
(* A step that cannot be taken throws.                                     *)
Refused(p) ==
  /\ \/ At(p, "prepare")  /\ ~CanPrepare(h[p])
     \/ At(p, "generate") /\ ~CanGenerate(h[p])
     \/ At(p, "initiate") /\ ~CanInitiate(h[p])
     \/ At(p, "create")   /\ ~CanCreate(h[p])
     \/ At(p, "embed")    /\ ~CanEmbed(h[p])
     \/ At(p, "sign")     /\ ~CanSign(h[p])
     \/ At(p, "fail")     /\ ~CanFail(h[p])
  /\ Throws(p)
  /\ UNCHANGED <<agreementVars, docs, history, files, tx, ledger, sweep, crossed, environment>>

(* The process dies, or storage, the provider or the database fails it.    *)
Interrupt(p) ==
  /\ h[p] # Idle /\ interrupts < MaxInterrupts
  /\ interrupts' = interrupts + 1
  /\ Throws(p)
  /\ UNCHANGED <<agreementVars, docs, history, files, tx, ledger, sweep, crossed, month, provider, uncomposed>>

-----------------------------------------------------------------------------
(* Requests that are one transaction under the row lock.  reject() picks   *)
(* its edge by an unlocked read, but the edges start from disjoint states, *)
(* so the edge that commits is the one the locked status has.              *)

EndTransaction ==
  UNCHANGED <<docs, files, tx, ledger, h, pass, sweep, crossed, environment>>

Reject(a) ==
  /\ \/ Workflow!TransitionClearingDeadline(a, "REJECT")
     \/ Workflow!TransitionClearingDeadline(a, "EMPLOYEE_REJECT")
  /\ EndTransaction /\ UNCHANGED history

(* Mutant: the controller writes the status itself.                        *)
Cancel_Direct(a) ==
  /\ status' = [status EXCEPT ![a] = "CANCELLED"]
  /\ EndTransaction /\ UNCHANGED <<version, due, entered, history>>

Cancel(a) ==
  /\ Workflow!Transition(a, "CANCEL")
  /\ EndTransaction /\ UNCHANGED history

VoidedRows(a) ==
  {i \in DOMAIN docs[a][version[a]] : docs[a][version[a]][i].state # "UNSIGNED"}

(* Mutant: every transaction of the closed version is cancelled.           *)
Correct_CancelsAll(a) ==
  /\ Workflow!Correct(a)
  /\ history' = [history EXCEPT ![a] = Append(@, Cardinality(VoidedRows(a)))]
  /\ tx' = [t \in DOMAIN tx |->
              IF tx[t].agr = a /\ tx[t].ver = version[a]
              THEN [tx[t] EXCEPT !.status = "CANCELLED"] ELSE tx[t]]
  /\ UNCHANGED <<docs, files, ledger, h, pass, sweep, crossed, environment>>

(* correct: closes the version, cancels its open transactions.             *)
Correct(a) ==
  /\ Workflow!Correct(a)
  /\ history' = [history EXCEPT ![a] = Append(@, Cardinality(VoidedRows(a)))]
  /\ tx' = [t \in DOMAIN tx |->
              IF tx[t].agr = a /\ tx[t].ver = version[a] /\ tx[t].status \in Open
              THEN [tx[t] EXCEPT !.status = "CANCELLED"] ELSE tx[t]]
  /\ UNCHANGED <<docs, files, ledger, h, pass, sweep, crossed, environment>>

-----------------------------------------------------------------------------
(* The signer at the provider, and the provider's callback.  The event is  *)
(* claimed before the outcome is applied, and the reply does not wait for  *)
(* it.  An event already claimed, or for a transaction already resolved,   *)
(* changes nothing but the ledger's own rows.                              *)

Ceremony(t) ==
  /\ provider[t] = "PENDING_SIGNER"
  /\ \E outcome \in {"SIGNED", "FAILED"} : provider' = [provider EXCEPT ![t] = outcome]
  /\ UNCHANGED <<agreementVars, docs, history, files, tx, ledger, h, pass, sweep, crossed, month, interrupts, uncomposed>>

Callback(p, t) ==
  /\ h[p] = Idle
  /\ provider[t] # "PENDING_SIGNER" /\ t \notin ledger
  /\ tx[t].status \in Open
  /\ ledger' = ledger \cup {t}
  /\ Goto(p, Resolving(t))
  /\ UNCHANGED <<agreementVars, docs, history, files, tx, sweep, crossed, environment>>

-----------------------------------------------------------------------------
(* reconcileSigningTransactions: one pass over the open transactions older *)
(* than a minute, in the order the query returns them; a throw ends it.    *)

BeginPass ==
  /\ h[Reconciler] = Idle /\ pass = {}
  /\ \E youngest \in OpenTx : pass' = {t \in OpenTx : t <= youngest}
  /\ UNCHANGED <<agreementVars, docs, history, files, tx, ledger, h, sweep, crossed, environment>>

(* Mutant: a transaction signed at the provider is left to its callback.   *)
Visit_FailuresOnly(t) ==
  /\ h[Reconciler] = Idle /\ t \in pass
  /\ pass' = pass \ {t}
  /\ h' = IF provider[t] # "FAILED" THEN h
          ELSE [h EXCEPT ![Reconciler] = Resolving(t)]
  /\ UNCHANGED <<agreementVars, docs, history, files, tx, ledger, sweep, crossed, environment>>

Visit(t) ==
  /\ h[Reconciler] = Idle /\ t \in pass
  /\ pass' = pass \ {t}
  /\ h' = IF provider[t] = "PENDING_SIGNER" THEN h
          ELSE [h EXCEPT ![Reconciler] = Resolving(t)]
  /\ UNCHANGED <<agreementVars, docs, history, files, tx, ledger, sweep, crossed, environment>>

(* expireOverdueAgreements: a list read once, then a transaction each; an  *)
(* agreement that can no longer expire is logged and passed over.          *)
BeginSweep ==
  /\ sweep = {}
  /\ sweep' = {a \in Agreements : due[a] = "lapsed" /\ ~IsTerminal(status[a])}
  /\ sweep' # {}
  /\ UNCHANGED <<agreementVars, docs, history, files, tx, ledger, h, pass, crossed, environment>>

ExpireNext(a) ==
  /\ a \in sweep /\ sweep' = sweep \ {a}
  /\ \/ Workflow!Transition(a, "EXPIRE")
     \/ status[a] \notin From("EXPIRE") /\ UNCHANGED agreementVars
  /\ UNCHANGED <<docs, history, files, tx, ledger, h, pass, crossed, environment>>

(* Time.                                                                   *)
Lapse(a) ==
  /\ Workflow!Lapse(a)
  /\ EndTransaction /\ UNCHANGED history

TurnOfMonth ==
  /\ month < MaxMonth /\ month' = month + 1
  /\ UNCHANGED <<agreementVars, docs, history, files, tx, ledger, h, pass, sweep, crossed, provider, interrupts,
                 uncomposed>>

-----------------------------------------------------------------------------
Step(p) ==
  \/ Prepare(p) \/ CannotCompose(p) \/ CommitGenerate(p)
  \/ CommitInitiate(p) \/ CreateTransaction(p) \/ Park(p)
  \/ Embed(p) \/ IntegrityAlert(p) \/ CommitSignature(p) \/ CommitFailure(p)
  \/ Refused(p)

Next ==
  \/ \E p \in Callers :
       \/ \E a \in Agreements : BeginGenerate(p, a)
       \/ \E a \in Agreements, party \in Parties : BeginInitiate(p, a, party)
       \/ \E t \in DOMAIN tx : Callback(p, t)
  \/ \E p \in Processes : Step(p) \/ Interrupt(p)
  \/ \E a \in Agreements : Reject(a) \/ Cancel(a) \/ Correct(a) \/ ExpireNext(a) \/ Lapse(a)
  \/ \E t \in DOMAIN tx : Ceremony(t) \/ Visit(t)
  \/ BeginPass \/ BeginSweep \/ TurnOfMonth

Spec == Init /\ [][Next]_vars

(* The clock, the hourly sweep and the once-a-minute job do run, a         *)
(* transaction still open comes to be older than a minute, and a handler   *)
(* that is not interrupted goes on.  Nothing makes a person act.           *)
SweepRuns ==
  /\ WF_vars(BeginSweep)
  /\ \A a \in Agreements : WF_vars(ExpireNext(a)) /\ WF_vars(Lapse(a))
JobRuns ==
  \A t \in 1..MaxTx :
    /\ SF_vars(BeginPass /\ t \in pass')
    /\ WF_vars(t \in DOMAIN tx /\ Visit(t))
HandlersRun == \A p \in Processes : WF_vars(Step(p))

SweptSpec      == Spec /\ SweepRuns
JobSpec        == Spec /\ JobRuns /\ HandlersRun
ReconciledSpec == Spec /\ SweepRuns /\ JobRuns /\ HandlersRun

-----------------------------------------------------------------------------
(* Properties.                                                             *)

(* Every step of the pipeline is a step of the workflow, or none: no       *)
(* handler, job or interruption moves an agreement but along its edges.    *)
ImplementsLifecycle == Workflow!Spec

(* The state of the current version's latest document, by the stage the    *)
(* agreement has reached.                                                  *)
DocumentOf(s) ==
  CASE s \in {"READY_FOR_AGENT_SIGNATURE", "AGENT_SIGNING"}     -> "UNSIGNED"
    [] s \in {"PENDING_EMPLOYEE_SIGNATURE", "EMPLOYEE_SIGNING"} -> "AGENT_SIGNED"
    [] s \in {"PENDING_MD_SIGNATURE", "MD_SIGNING"}             -> "EMPLOYEE_SIGNED"
    [] s = "COMPLETED"                                          -> "FINAL"
    [] OTHER                                                    -> "NONE"

Coupled(a) ==
  LET rows == docs[a][version[a]]  expected == DocumentOf(status[a]) IN
  /\ status[a] = "DRAFT" => rows = <<>>
  /\ expected # "NONE" =>
       rows # <<>> /\ Last(rows).state = expected /\ Last(rows).bytes.text = version[a]

(* "The coupling between a state change and its document effect, so the    *)
(* two can never disagree" (signing.service.ts): on the current version    *)
(* the latest document is the one the state implies.                       *)
StateMatchesDocument == \A a \in Agreements : Coupled(a)

(* The same with corrections: only a handler that worked across one, on a  *)
(* version it did not re-read, can part the two.                           *)
StateMatchesDocumentUnlessCrossed == \A a \in Agreements : crossed[a] \/ Coupled(a)

SignaturesOf(state) ==
  CASE state = "UNSIGNED"        -> <<>>
    [] state = "AGENT_SIGNED"    -> <<"AGENT">>
    [] state = "EMPLOYEE_SIGNED" -> <<"AGENT", "EMPLOYEE">>
    [] OTHER                     -> <<"AGENT", "EMPLOYEE", "MD">>

(* BR-007: a recorded document carries exactly the signatures its state    *)
(* claims, in order; the final one all three.  It holds across corrections *)
(* and stale handlers, because the signatures are counted before storing.  *)
EveryDocumentFullySigned ==
  \A a \in Agreements, v \in 1..MaxVersion :
    \A row \in Range(docs[a][v]) : row.bytes.sigs = SignaturesOf(row.state)

(* "All in one transaction": a ceremony is SIGNED exactly when the         *)
(* document with its signature is recorded.                                *)
SignedTxHasDocument ==
  \A a \in Agreements, v \in 1..MaxVersion, party \in Parties :
    crossed[a] \/
    (HasRow(a, v, DocumentStateAfter(party)) <=>
       \E t \in DOMAIN tx : tx[t].agr = a /\ tx[t].ver = v /\ tx[t].party = party
                             /\ tx[t].status = "SIGNED")

(* "An open ceremony must be visible to everyone else": while a ceremony   *)
(* is open its agreement is in that party's signing state, or has ended.   *)
OpenCeremonyIsVisible ==
  \A t \in OpenTx :
    LET a == tx[t].agr IN
    \/ crossed[a]
    \/ status[a] = SIGNING_PARTY[tx[t].party].signingState
    \/ IsTerminal(status[a])

(* A signed ceremony is evidence: no late failure, duplicate or correction *)
(* rewrites it, though markSigned and markFailed look at no status.        *)
SignedIsFinal ==
  [][\A t \in DOMAIN tx : tx[t].status = "SIGNED" => tx'[t].status = "SIGNED"]_vars

(* composeAndGenerate: a draft at rest can be generated, corrections and   *)
(* attempts refused half way included: no earlier attempt holds the keys   *)
(* its documents need, unless that attempt was interrupted after storing   *)
(* them, or could not compose what it had stored.                          *)
DraftCanBeGenerated ==
  \A a \in Agreements :
    /\ status[a] = "DRAFT" /\ \A p \in Processes : h[p] = Idle
    /\ interrupts = 0 /\ <<a, version[a]>> \notin uncomposed
    => ObjectKey(a, version[a], "UNSIGNED") \notin files

(* FR-021: no ceremony lasts for ever, whatever is lost or crashes.        *)
SigningEnds ==
  \A a \in Agreements : status[a] \in SigningStates ~> status[a] \notin SigningStates

(* What a crash can leave behind that no pass can finish: a ceremony whose *)
(* bytes were never parked, or whose signed document was stored, under a   *)
(* key that must be new, and never recorded.                               *)
Stranded(t) ==
  /\ interrupts > 0
  /\ \A p \in Processes : h[p].pc \in {"park", "sign"} => h[p].tx # t
  /\ \/ tx[t].parked = NoBytes
     \/ ObjectKey(tx[t].agr, version[tx[t].agr], DocumentStateAfter(tx[t].party)) \in files

(* A transaction every pass is refused over: its agreement has ended      *)
(* without it, or a crash stranded it.                                     *)
Blocking(u) ==
  u \in OpenTx /\ provider[u] = "SIGNED" /\ (IsTerminal(status[tx[u].agr]) \/ Stranded(u))

(* AC-14: a signature given at the provider is recorded, or its agreement  *)
(* ends, though no callback arrives, or its handler crashed on the way,    *)
(* whatever goes on in the other agreements; unless the crash stranded it, *)
(* or a transaction every pass is refused over ends each before its turn.  *)
LostCallbackRecovered ==
  \A t \in 1..MaxTx :
    (t \in OpenTx /\ provider[t] = "SIGNED" /\ ~IsTerminal(status[tx[t].agr]))
      ~> \/ t \notin OpenTx \/ IsTerminal(status[tx[t].agr]) \/ Stranded(t)
         \/ \E u \in OpenTx \ {t} : Blocking(u)

=============================================================================
