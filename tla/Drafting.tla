------------------------------ MODULE Drafting ------------------------------
(***************************************************************************)
(* What happens to an agreement before anybody signs it: a stamp paper is  *)
(* allocated to it (stamps.service.ts), the draft is edited and its        *)
(* document generated (agreements.service.ts).  StampIntake has how papers *)
(* come into the inventory; signing is abstracted by AgreementLifecycle,   *)
(* which it implements.                                                    *)
(*                                                                         *)
(* Every operation here checks the agreement on an unlocked read and       *)
(* writes in a transaction of its own, which locks or checks less.         *)
(***************************************************************************)
EXTENDS StateMachine, Integers, FiniteSets

CONSTANTS
  Agreements,
  Stamped,      \* those whose type requires a stamp
  Handlers,     \* requests that may run at once
  Papers,       \* the stamp_papers rows
  NoScan,       \* the scan of no paper
  Fields,       \* the fields of an agreement's data
  MaxVersion    \* bound on current_version

ASSUME StampedAssumption == Stamped \subseteq Agreements
ASSUME VersionsAssumption == MaxVersion \in Nat \ {0} /\ NoScan \notin Papers

VARIABLES
  status, version, due, entered,   \* the agreements rows: see AgreementLifecycle
  data,      \* agreements.data: the fields that have been given their value
  papers,    \* stamp_papers.status
  held,      \* stamp_allocations not released: <<agreement, paper>>
  docs,      \* per version, the set (at most one) of documents generated
  h,         \* what each handler has read and does next
  acked,     \* history: the fields whose editor was told that they are saved
  overlapped \* history: agreements an edit of which overlapped another request

agreementVars == <<status, version, due, entered>>
history == <<acked, overlapped>>
vars == <<status, version, due, entered, data, papers, held, docs, h, acked, overlapped>>

Workflow == INSTANCE AgreementLifecycle WITH Requestable <- ServiceActions

Idle    == [pc |-> "idle"]
PapersOf(a)    == {n \in Papers : <<a, n>> \in held}
Document       == [data : SUBSET Fields, scan : {NoScan} \cup Papers]

TypeOK ==
  /\ Workflow!TypeOK
  /\ data \in [Agreements -> SUBSET Fields]
  /\ papers \in [Papers -> {"AVAILABLE", "ALLOCATED", "USED"}]
  /\ held \subseteq Agreements \X Papers
  /\ docs \in [Agreements -> [1..MaxVersion -> SUBSET Document]]
  /\ h \in [Handlers ->
       {Idle}
       \cup [pc : {"allocate"}, agr : Agreements, paper : Papers]
       \cup [pc : {"edit"}, agr : Agreements, field : Fields, merged : SUBSET Fields]
       \cup [pc : {"generate"}, agr : Agreements, ver : 1..MaxVersion, doc : Document]]
  /\ acked \in [Agreements -> SUBSET Fields] /\ overlapped \subseteq Agreements

Init ==
  /\ Workflow!Init
  /\ data = [a \in Agreements |-> {}]
  /\ papers = [n \in Papers |-> "AVAILABLE"] /\ held = {}
  /\ docs = [a \in Agreements |-> [v \in 1..MaxVersion |-> {}]]
  /\ h = [p \in Handlers |-> Idle]
  /\ acked = [a \in Agreements |-> {}] /\ overlapped = {}

-----------------------------------------------------------------------------
At(p, pc)  == h[p].pc = pc
Goto(p, w) == h[p] = Idle /\ h' = [h EXCEPT ![p] = w]
Returns(p) == h' = [h EXCEPT ![p] = Idle]

(* History: p commits while another request is open for the same agreement.*)
Overlaps(p, pcs) ==
  overlapped' = IF \E q \in Handlers \ {p} : h[q].pc \in pcs /\ h[q].agr = h[p].agr
                THEN overlapped \cup {h[p].agr} ELSE overlapped

(* allocateStamp: DRAFT is checked on an unlocked read, the paper's status *)
(* under its row lock; one live allocation per paper and per agreement are *)
(* unique indexes.  The agreement's status is not looked at again.         *)
BeginAllocate(p, a, n) ==
  /\ status[a] = "DRAFT"
  /\ Goto(p, [pc |-> "allocate", agr |-> a, paper |-> n])
  /\ UNCHANGED <<agreementVars, data, papers, held, docs, history>>

(* Mutant: the paper's row is neither locked nor checked.                  *)
CanAllocate_AnyPaper(w) == PapersOf(w.agr) = {}

CanAllocate(w) == papers[w.paper] = "AVAILABLE" /\ PapersOf(w.agr) = {}

CommitAllocate(p) ==
  /\ At(p, "allocate") /\ CanAllocate(h[p])
  /\ held' = held \cup {<<h[p].agr, h[p].paper>>}
  /\ papers' = [papers EXCEPT ![h[p].paper] = "ALLOCATED"]
  /\ Returns(p)
  /\ UNCHANGED <<agreementVars, data, docs, history>>

-----------------------------------------------------------------------------
(* updateDraft: the patch is merged into the data read, and the result     *)
(* written, in a transaction that looks at nothing; the trigger of BR-005  *)
(* refuses to change the data of a completed agreement.                    *)

(* Mutant: an agreement is edited in any status.                           *)
BeginEdit_Anytime(p, a, f) ==
  /\ Goto(p, [pc |-> "edit", agr |-> a, field |-> f, merged |-> data[a] \cup {f}])
  /\ UNCHANGED <<agreementVars, data, papers, held, docs, history>>

BeginEdit(p, a, f) ==
  /\ status[a] = "DRAFT"
  /\ Goto(p, [pc |-> "edit", agr |-> a, field |-> f, merged |-> data[a] \cup {f}])
  /\ UNCHANGED <<agreementVars, data, papers, held, docs, history>>

CanEdit(w) == status[w.agr] = "COMPLETED" => w.merged = data[w.agr]

CommitEdit(p) ==
  /\ At(p, "edit") /\ CanEdit(h[p])
  /\ data' = [data EXCEPT ![h[p].agr] = h[p].merged]
  /\ acked' = [acked EXCEPT ![h[p].agr] = @ \cup {h[p].field}]
  /\ Overlaps(p, {"edit", "generate"})
  /\ Returns(p)
  /\ UNCHANGED <<agreementVars, papers, held, docs>>

-----------------------------------------------------------------------------
(* generate and composeAndGenerate: the agreement, its paper and the scan  *)
(* are read first.  Only the second checks DRAFT here; the transition      *)
(* refuses what the first lets through.                                    *)

(* Mutant: the stamp is looked for only when the scan is loaded.           *)
MayGenerate_Unstamped(a) == TRUE

MayGenerate(a) == a \in Stamped => PapersOf(a) # {}

(* What loadStampScan may return: a scan that cannot be read is passed over.*)
LoadStampScan(a) == PapersOf(a) \cup {NoScan}

BeginGenerate(p, a) ==
  /\ MayGenerate(a)
  /\ \E scan \in LoadStampScan(a) :
       Goto(p, [pc |-> "generate", agr |-> a, ver |-> version[a],
                doc |-> [data |-> data[a], scan |-> scan]])
  /\ UNCHANGED <<agreementVars, data, papers, held, docs, history>>

CanGenerate(w) == status[w.agr] \in From("GENERATE") /\ docs[w.agr][w.ver] = {}

CommitGenerate(p) ==
  /\ At(p, "generate") /\ CanGenerate(h[p])
  /\ docs' = [docs EXCEPT ![h[p].agr][h[p].ver] = @ \cup {h[p].doc}]
  /\ Workflow!Transition(h[p].agr, "GENERATE")
  /\ Overlaps(p, {"edit"})
  /\ Returns(p)
  /\ UNCHANGED <<data, papers, held, acked>>

-----------------------------------------------------------------------------
(* A refused request, or one that crashes before its commit.               *)
GivesUp(p) ==
  /\ h[p] # Idle /\ Returns(p)
  /\ UNCHANGED <<agreementVars, data, papers, held, docs, history>>

(* markUsed: the papers this agreement holds are consumed.                 *)
MarkUsed(a) ==
  papers' = [n \in Papers |-> IF n \in PapersOf(a) THEN "USED" ELSE papers[n]]

(* The MD's signature completes the agreement and consumes its stamp.      *)
Complete(a) ==
  /\ Workflow!TransitionClearingDeadline(a, "MD_SIGN_SUCCEED")
  /\ MarkUsed(a)
  /\ UNCHANGED <<data, held, docs, h, history>>

(* The rest of the workflow leaves drafts and stamps alone.  A correction  *)
(* keeps the stamp; so does a cancellation, which never releases it.       *)
Elsewhere(a) ==
  /\ \/ \E act \in WorkflowAction \ {"GENERATE"} : Workflow!Transition(a, act)
     \/ Workflow!Chain(a, "AGENT_SIGN_SUCCEED", "ADVANCE_TO_EMPLOYEE")
     \/ Workflow!Chain(a, "EMPLOYEE_SIGN_SUCCEED", "ADVANCE_TO_MD")
     \/ Workflow!TransitionClearingDeadline(a, "REJECT")
     \/ Workflow!TransitionClearingDeadline(a, "EMPLOYEE_REJECT")
     \/ Workflow!Correct(a)
  /\ UNCHANGED <<data, papers, held, docs, h, history>>

Next ==
  \/ \E p \in Handlers :
       \/ \E a \in Agreements, n \in Papers : BeginAllocate(p, a, n)
       \/ \E a \in Agreements, f \in Fields : BeginEdit(p, a, f)
       \/ \E a \in Agreements : BeginGenerate(p, a)
       \/ CommitAllocate(p) \/ CommitEdit(p) \/ CommitGenerate(p)
       \/ GivesUp(p)
  \/ \E a \in Agreements : Complete(a) \/ Elsewhere(a)

Spec == Init /\ [][Next]_vars

-----------------------------------------------------------------------------
(* Properties.                                                             *)

HeldOnce ==
  /\ \A a, b \in Agreements : a # b => PapersOf(a) \cap PapersOf(b) = {}
  /\ \A a \in Agreements : Cardinality(PapersOf(a)) <= 1
  /\ \A n \in Papers : papers[n] # "AVAILABLE" <=> \E a \in Agreements : n \in PapersOf(a)

UsedOnCompletion ==
  \A a \in Agreements : \A n \in PapersOf(a) :
    /\ papers[n] = "USED" => status[a] = "COMPLETED"
    /\ status[a] = "COMPLETED" /\ a \in Stamped => papers[n] = "USED"

(* BR-006, DEC-009, FR-015b: a paper is held by one agreement at most, an  *)
(* agreement holds one at most, the paper's status says whether it is held,*)
(* and it is used exactly when the agreement that holds it is completed.   *)
(* An agreement whose type needs no stamp may be given one after it is     *)
(* completed, by a request that began in its draft.                        *)
PaperServesOneAgreement == HeldOnce /\ UsedOnCompletion

(* "It becomes page 1 of the executed document", but for a scan that could *)
(* not be read: every version of an agreement is on the paper it holds,    *)
(* and one that needs a stamp never leaves its draft without.              *)
OnItsOwnStamp ==
  \A a \in Agreements, v \in 1..MaxVersion : \A doc \in docs[a][v] :
    /\ doc.scan # NoScan => doc.scan \in PapersOf(a)
    /\ a \in Stamped => PapersOf(a) # {}

(* "Once generation has happened the document is the record, and changing  *)
(* the data underneath it would desynchronise the two" (updateDraft): no   *)
(* saved edit is lost, and the document of the current version holds the   *)
(* data as it was saved, whatever is rejected, corrected and generated     *)
(* again, unless an edit was open while another edit or a generation of    *)
(* the agreement was committed: neither looks at the row again.            *)
DocumentIsTheRecord ==
  \A a \in Agreements \ overlapped :
    /\ data[a] = acked[a]
    /\ \A doc \in docs[a][version[a]] : doc.data = acked[a]

=============================================================================
