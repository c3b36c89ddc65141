---------------------------- MODULE PeopleProofs ----------------------------
(***************************************************************************)
(* Theorems about Portal, for any browsers, people, roles and links, and,  *)
(* in the second half, about Administration, for any users, banks, grants  *)
(* and number of requests at once: what the portal tells and offers people *)
(* is true, and who administers and countersigns is someone who may.       *)
(***************************************************************************)
EXTENDS MCPeople, TLAPS

(* The theorems of the workflow, for the portal's agreement.               *)
Lifecycle == INSTANCE LifecycleProofs WITH Agreements <- {A}, Requestable <- ServiceActions

(* Both instances of AgreementLifecycle speak of the same steps.           *)
LEMMA SameNext == Workflow!Next <=> Lifecycle!Next
BY Zenon
DEF Workflow!Next, Lifecycle!Next, Workflow!Transition, Lifecycle!Transition,
    Workflow!Chain, Lifecycle!Chain, Workflow!Correct, Lifecycle!Correct,
    Workflow!TransitionClearingDeadline, Lifecycle!TransitionClearingDeadline,
    Workflow!Lapse, Lifecycle!Lapse, Workflow!Deadline, Lifecycle!Deadline,
    Workflow!Permitted, Lifecycle!Permitted, Workflow!PatchingActions,
    Lifecycle!PatchingActions, Workflow!ChainedActions, Lifecycle!ChainedActions,
    Workflow!PendingActionStates, Lifecycle!PendingActionStates,
    Workflow!AssertTransition, Lifecycle!AssertTransition,
    Workflow!From, Lifecycle!From, Workflow!To, Lifecycle!To,
    Workflow!RolesFor, Lifecycle!RolesFor, Workflow!Admins, Lifecycle!Admins,
    Workflow!MdRoles, Lifecycle!MdRoles, Workflow!System, Lifecycle!System,
    Workflow!RequiresReason, Lifecycle!RequiresReason,
    Workflow!AgreementState, Lifecycle!AgreementState,
    Workflow!WorkflowAction, Lifecycle!WorkflowAction, Workflow!Role, Lifecycle!Role

-----------------------------------------------------------------------------
(* The table, as Portal and as the instance of AgreementLifecycle see it.  *)
LEMMA SameTable ==
  /\ Workflow!WorkflowAction = WorkflowAction
  /\ \A act : Workflow!From(act) = From(act) /\ Workflow!To(act) = To(act)
BY DEF Workflow!WorkflowAction, WorkflowAction, Workflow!From, From, Workflow!To, To,
       Workflow!AgreementState, AgreementState

(* What a step of the workflow does to the agreement.                      *)
Row == status \in [{A} -> AgreementState] /\ version \in [{A} -> Nat]

Moved(to) == Row' /\ status'[A] = to /\ version' = version

LEMMA Permitted ==
  ASSUME NEW act, Workflow!Permitted(status[A], act)
  PROVE  status[A] \in From(act) /\ act \in ServiceActions
BY SameTable DEF Workflow!Permitted, Workflow!AssertTransition

LEMMA ToIsState ==
  ASSUME NEW act \in WorkflowAction
  PROVE  To(act) \in AgreementState
BY DEF WorkflowAction, To, AgreementState

LEMMA TransitionMoves ==
  ASSUME Row, NEW act, Workflow!Transition(A, act)
  PROVE  /\ status[A] \in From(act) /\ act \in ServiceActions /\ Moved(To(act))
         /\ act \notin {"REJECT", "EMPLOYEE_REJECT", "MD_SIGN_SUCCEED", "CORRECT"}
         /\ act \notin {"AGENT_SIGN_SUCCEED", "ADVANCE_TO_EMPLOYEE",
                        "EMPLOYEE_SIGN_SUCCEED", "ADVANCE_TO_MD"}
<1>1. status[A] \in From(act) /\ act \in ServiceActions /\ act \in WorkflowAction
  BY Permitted DEF Workflow!Transition, ServiceActions
<1>2. /\ status' = [status EXCEPT ![A] = To(act)] /\ version' = version
      /\ To(act) \in AgreementState
  BY <1>1, SameTable, ToIsState DEF Workflow!Transition
<1>3. Moved(To(act))
  BY <1>2 DEF Moved, Row
<1>. QED  BY <1>1, <1>3 DEF Workflow!Transition, Workflow!PatchingActions, Workflow!ChainedActions

LEMMA ClearingMoves ==
  ASSUME Row, NEW act, Workflow!TransitionClearingDeadline(A, act)
  PROVE  /\ status[A] \in From(act) /\ Moved(To(act))
         /\ act \in {"REJECT", "EMPLOYEE_REJECT", "MD_SIGN_SUCCEED"}
<1>1. status[A] \in From(act) /\ act \in WorkflowAction
  BY Permitted DEF Workflow!TransitionClearingDeadline, ServiceActions
<1>2. /\ status' = [status EXCEPT ![A] = To(act)] /\ version' = version
      /\ To(act) \in AgreementState
  BY <1>1, SameTable, ToIsState DEF Workflow!TransitionClearingDeadline
<1>. QED  BY <1>1, <1>2 DEF Workflow!TransitionClearingDeadline, Moved, Row

LEMMA ChainMoves ==
  ASSUME Row, NEW succeed, NEW advance, Workflow!Chain(A, succeed, advance)
  PROVE  status[A] \in From(succeed) /\ Moved(To(advance))
<1>1. status[A] \in From(succeed) /\ advance \in WorkflowAction
  BY Permitted DEF Workflow!Chain, Workflow!Permitted, ServiceActions
<1>2. /\ status' = [status EXCEPT ![A] = To(advance)] /\ version' = version
      /\ To(advance) \in AgreementState
  BY <1>1, SameTable, ToIsState DEF Workflow!Chain
<1>. QED  BY <1>1, <1>2 DEF Moved, Row

LEMMA CorrectMoves ==
  ASSUME Row, Workflow!Correct(A)
  PROVE  Row' /\ status'[A] = "DRAFT" /\ version'[A] = version[A] + 1
<1>1. Workflow!To("CORRECT") = "DRAFT"
  BY DEF Workflow!To
<1>. QED  BY <1>1 DEF Workflow!Correct, Row, AgreementState

LEMMA IsWorkflowStep ==
  /\ \A act : Workflow!Transition(A, act) => Workflow!Next
  /\ \A act : Workflow!TransitionClearingDeadline(A, act) => Workflow!Next
  /\ Workflow!Chain(A, "AGENT_SIGN_SUCCEED", "ADVANCE_TO_EMPLOYEE") => Workflow!Next
  /\ Workflow!Chain(A, "EMPLOYEE_SIGN_SUCCEED", "ADVANCE_TO_MD") => Workflow!Next
  /\ Workflow!Correct(A) => Workflow!Next
<1>1. ASSUME NEW act, Workflow!Transition(A, act) PROVE Workflow!Next
  <2>1. act \in Workflow!WorkflowAction
    BY <1>1, Permitted, SameTable DEF Workflow!Transition, ServiceActions
  <2>. QED  BY <1>1, <2>1 DEF Workflow!Next
<1>2. ASSUME NEW act, Workflow!TransitionClearingDeadline(A, act) PROVE Workflow!Next
  <2>1. act \in Workflow!WorkflowAction
    BY <1>2, Permitted, SameTable DEF Workflow!TransitionClearingDeadline, ServiceActions
  <2>. QED  BY <1>2, <2>1 DEF Workflow!Next
<1>. QED  BY <1>1, <1>2 DEF Workflow!Next

(* For any people, roles, links and browsers: no page, request, ceremony   *)
(* or sweep moves the agreement but along an edge of the table that some   *)
(* service requests (workflow.service.ts transition, transitionChain).     *)
THEOREM PortalImplementsLifecycle == Spec => Workflow!Spec
<1>1. Init => Workflow!Init
  BY DEF Init
<1>2. [Next]_vars => [Workflow!Next]_Workflow!vars
  <2>. SUFFICES ASSUME [Next]_vars PROVE Workflow!Next \/ UNCHANGED agreement
    BY DEF agreement, Workflow!vars
  <2>1. CASE UNCHANGED vars
    BY <2>1 DEF vars
  <2>2. ASSUME NEW b \in Browsers,
               \/ \E person \in People : Login(b, person)
               \/ \E party \in Linked : RedeemPartyLink(b, party)
               \/ \E party \in Parties : PostSigning(b, party)
               \/ EndSession(b) \/ OpenPage(b) \/ LoadDocument(b)
               \/ PostReject(b) \/ Refused(b) \/ PostAllocate(b)
        PROVE  UNCHANGED agreement
    BY <2>2 DEF Login, RedeemPartyLink, PostSigning, EndSession, OpenPage, LoadDocument,
                PostReject, Refused, PostAllocate, ServerUnchanged
  <2>3. ASSUME NEW b \in Browsers,
               CommitSigning(b) \/ CommitReject(b) \/ PostCorrect(b) \/ PostCancel(b) \/ PostCompose(b)
        PROVE  Workflow!Next
    BY <2>3, IsWorkflowStep DEF CommitSigning, CommitReject, PostCorrect, PostCancel, PostCompose
  <2>4. ASSUME NEW c, \/ CompletionBegins(c) \/ FailureBegins(c) \/ IntegrityAlert(c)
                      \/ CeremonySigned(c) \/ CeremonyFailed(c)
        PROVE  Workflow!Next \/ UNCHANGED agreement
    BY <2>4, IsWorkflowStep
    DEF CompletionBegins, FailureBegins, IntegrityAlert, CeremonySigned, CeremonyFailed
  <2>5. CASE SweepExpires
    BY <2>5, IsWorkflowStep DEF SweepExpires
  <2>. QED  BY <2>1, <2>2, <2>3, <2>4, <2>5 DEF Next
<1>. QED  BY <1>1, <1>2, PTL DEF Spec, Workflow!Spec

LEMMA PortalInherits == Spec => Lifecycle!Spec
<1>1. Workflow!Init => Lifecycle!Init
  BY DEF Workflow!Init, Lifecycle!Init
<1>2. [Workflow!Next]_Workflow!vars => [Lifecycle!Next]_Lifecycle!vars
  BY SameNext DEF Workflow!vars, Lifecycle!vars
<1>. QED  BY <1>1, <1>2, PortalImplementsLifecycle, PTL DEF Workflow!Spec, Lifecycle!Spec

LEMMA WorkflowConstants ==
  /\ ServiceActions \subseteq Lifecycle!WorkflowAction /\ MaxVersion \in Nat \ {0}
  /\ Lifecycle!NoRetry
BY VersionsAssumption DEF ServiceActions, WorkflowAction, Lifecycle!WorkflowAction, Lifecycle!NoRetry, Lifecycle!RetryActions

(* Whatever people do in stale pages, with links and roles that are gone,  *)
(* the order of signatures (BR-002, BR-003), the deadlines (FR-021) and    *)
(* the finality of an ended agreement (BR-005) are kept.                   *)
THEOREM PortalKeepsWorkflow ==
  Spec => /\ []Lifecycle!SignedInOrder
          /\ []Lifecycle!WaitingHasDeadline
          /\ Lifecycle!TerminalStays
<1>1. Lifecycle!Spec => []Lifecycle!SignedInOrder
  BY WorkflowConstants, Lifecycle!SequencingHolds
<1>2. Lifecycle!Spec => []Lifecycle!WaitingHasDeadline
  BY WorkflowConstants, Lifecycle!DeadlineHolds
<1>3. Lifecycle!Spec => Lifecycle!TerminalStays
  BY WorkflowConstants, Lifecycle!TerminalHolds
<1>. QED  BY <1>1, <1>2, <1>3, PortalInherits, PTL

-----------------------------------------------------------------------------
(* Status and document.  The agreement rests in these states only, and has *)
(* a document when it should; unless a stale completion moved it on, the   *)
(* document has the signatures of those whose turn is past.                *)
Prefixes == {sigs \in Seq(Parties) : \A i \in DOMAIN sigs : Turn(sigs[i]) = i - 1}

Drawn == [text : Nat, sigs : Prefixes]

Waiting(party) ==
  CASE party = "AGENT"    -> {"READY_FOR_AGENT_SIGNATURE", "AGENT_SIGNING"}
    [] party = "EMPLOYEE" -> {"PENDING_EMPLOYEE_SIGNATURE", "EMPLOYEE_SIGNING"}
    [] OTHER              -> {"PENDING_MD_SIGNATURE", "MD_SIGNING"}

Stopped == {"REJECTED", "CANCELLED", "EXPIRED", "SIGNATURE_FAILED"}

Present(s, doc) ==
  /\ s \in {"DRAFT", "COMPLETED"} \cup Stopped \cup UNION {Waiting(party) : party \in Parties}
  /\ doc \in Drawn \cup {NONE}
  /\ s = "DRAFT" => doc = NONE
  /\ s \in {"COMPLETED"} \cup UNION {Waiting(party) : party \in Parties} => doc \in Drawn

Coupled(s, doc) ==
  /\ \A party \in Parties : s \in Waiting(party) => Len(doc.sigs) = Turn(party)
  /\ s = "COMPLETED" => Len(doc.sigs) = 3

LEMMA DrawnIsNoNull == \A doc \in Drawn : doc # NONE
BY NoneAssumption DEF Drawn, Document, Prefixes

LEMMA StaysCoupled ==
  ASSUME NEW s, NEW doc, Present(s, doc), NEW act \in WorkflowAction, s \in From(act),
         act \notin {"GENERATE", "CORRECT", "RETRY_AGENT_SIGNATURE", "RETRY_EMPLOYEE_SIGNATURE",
                     "RETRY_MD_SIGNATURE", "AGENT_SIGN_SUCCEED", "ADVANCE_TO_EMPLOYEE",
                     "EMPLOYEE_SIGN_SUCCEED", "ADVANCE_TO_MD", "MD_SIGN_SUCCEED"}
  PROVE  Present(To(act), doc) /\ (Coupled(s, doc) => Coupled(To(act), doc))
<1>1. CASE To(act) \in Stopped
  BY <1>1 DEF Present, Coupled, Stopped, Waiting, Parties
<1>2. CASE act \in {Initiates(party) : party \in Parties}
  <2>1. PICK party \in Parties : act = Initiates(party)
    BY <1>2
  <2>2. s \in Waiting(party) /\ To(act) \in Waiting(party)
    BY <2>1 DEF Initiates, Parties, From, To, Waiting
  <2>3. \A other \in Parties : To(act) \in Waiting(other) => other = party
    BY <2>2 DEF Waiting, Parties
  <2>4. To(act) \notin {"DRAFT", "COMPLETED"}
    BY <2>2 DEF Waiting, Parties
  <2>. QED  BY <2>2, <2>3, <2>4 DEF Present, Coupled
<1>3. To(act) \in Stopped \/ act \in {Initiates(party) : party \in Parties}
  BY DEF WorkflowAction, To, Stopped, Initiates, Parties
<1>. QED  BY <1>1, <1>2, <1>3

(* The next party's signature on a document of those before it.            *)
LEMMA SignedOnce ==
  ASSUME NEW party \in Parties, NEW doc \in Drawn, Len(doc.sigs) = Turn(party)
  PROVE  LET signed == [doc EXCEPT !.sigs = Append(@, party)]
         IN signed \in Drawn /\ Len(signed.sigs) = Turn(party) + 1
<1>. DEFINE sigs == doc.sigs  more == Append(sigs, party)
<1>1. sigs \in Seq(Parties) /\ \A i \in DOMAIN sigs : Turn(sigs[i]) = i - 1
  BY DEF Drawn, Prefixes
<1>2. /\ more \in Seq(Parties) /\ Len(more) = Turn(party) + 1 /\ DOMAIN more = 1..Len(more)
      /\ \A i \in 1..Len(more) : more[i] = IF i = Len(more) THEN party ELSE sigs[i]
  BY <1>1
<1>3. \A i \in DOMAIN more : Turn(more[i]) = i - 1
  BY <1>1, <1>2
<1>4. more \in Prefixes
  BY <1>2, <1>3 DEF Prefixes
<1>. HIDE DEF more
<1>5. [doc EXCEPT !.sigs = more] \in Drawn /\ [doc EXCEPT !.sigs = more].sigs = more
  BY <1>4 DEF Drawn
<1>. QED  BY <1>2, <1>5 DEF more

-----------------------------------------------------------------------------
(* The inductive invariant.  What a page shows of the current version: it  *)
(* has a document if the agreement waits for somebody, and a page loaded   *)
(* for an account has it too.                                              *)
PageRow == [status : AgreementState, version : Nat, stamped : BOOLEAN,
            document : Drawn \cup {NONE}, loaded : BOOLEAN]

View(p, s, v, doc) == p # NONE =>
  /\ p.version <= v
  /\ p.version = v /\ p.status \in UNION {Waiting(party) : party \in Parties} =>
       doc # NONE /\ (p.loaded /\ CanBeRecorded(s) => p.document # NONE)

(* What a request to sign carries, and what became of it.                  *)
Asks(r) == r # NONE =>
  IF r.act = "REJECT" THEN r.edge \in {"REJECT", "EMPLOYEE_REJECT"}
  ELSE /\ r.party \in Parties /\ r.act = Initiates(r.party)
       /\ r.source \in Drawn /\ r.source = r.shown

(* A ceremony is of the document its signer was shown.                     *)
Shows(c) == c.party \in Parties /\ c.source \in Drawn /\ c.source = c.shown

Bound ==
  /\ \A c \in ceremonies : Shows(c)
  /\ \A w \in completing : Shows(w.ceremony)
  /\ SignedAsShown

Sessions ==
  /\ session = [b \in Browsers |-> session[b]] /\ request = [b \in Browsers |-> request[b]]
  /\ page \in [Browsers -> PageRow \cup {NONE}]
  /\ \A b \in Browsers :
       /\ session[b] = NONE => page[b] = NONE /\ request[b] = NONE
       /\ Asks(request[b]) /\ View(page[b], session[b], version[A], document)

PortalInv ==
  /\ Row /\ stamped \in BOOLEAN /\ Present(status[A], document)
  /\ crossed \/ Coupled(status[A], document)
  /\ Bound /\ Sessions

(* What every step does to the agreement.                                  *)
Moves ==
  /\ Row' /\ stamped' \in BOOLEAN /\ Present(status'[A], document')
  /\ crossed' \/ Coupled(status'[A], document')
  /\ version'[A] >= version[A]
  /\ version'[A] = version[A] /\ document # NONE => document' # NONE

LEMMA ViewStays ==
  ASSUME PortalInv, Moves, NEW b \in Browsers
  PROVE  View(page[b], session[b], version'[A], document')
<1>1. View(page[b], session[b], version[A], document)
  BY DEF PortalInv, Sessions
<1>2. version[A] \in Nat /\ version'[A] \in Nat /\ (page[b] # NONE => page[b].version \in Nat)
  BY DEF PortalInv, Moves, Row, Sessions, PageRow
<1>. QED  BY <1>1, <1>2 DEF View, Moves

LEMMA ServerStep ==
  ASSUME PortalInv, Moves, Bound', UNCHANGED browser
  PROVE  PortalInv'
<1>1. \A b \in Browsers : View(page[b], session[b], version'[A], document')
  BY ViewStays
<1>. QED  BY <1>1 DEF PortalInv, Moves, Sessions, browser, Asks

(* Nothing happens to a browser but one.                                   *)
Only(b) ==
  /\ session' = [c \in Browsers |-> session'[c]] /\ request' = [c \in Browsers |-> request'[c]]
  /\ page' = [c \in Browsers |-> page'[c]]
  /\ \A c \in Browsers : c # b =>
       session'[c] = session[c] /\ page'[c] = page[c] /\ request'[c] = request[c]

LEMMA BrowserStep ==
  ASSUME PortalInv, Moves, Bound', NEW b \in Browsers, Only(b),
         page'[b] \in PageRow \cup {NONE},
         session'[b] = NONE => page'[b] = NONE /\ request'[b] = NONE,
         Asks(request'[b]), View(page'[b], session'[b], version'[A], document')
  PROVE  PortalInv'
<1>1. \A c \in Browsers : View(page'[c], session'[c], version'[A], document')
  <2>. SUFFICES ASSUME NEW c \in Browsers, c # b
                PROVE  View(page'[c], session'[c], version'[A], document')
    OBVIOUS
  <2>. QED  BY ViewStays DEF Only
<1>2. \A c \in Browsers :
        /\ session'[c] = NONE => page'[c] = NONE /\ request'[c] = NONE
        /\ Asks(request'[c]) /\ page'[c] \in PageRow \cup {NONE}
  BY DEF PortalInv, Sessions, Only
<1>3. page' \in [Browsers -> PageRow \cup {NONE}]
  BY <1>2 DEF Only
<1>4. Sessions'
  BY <1>1, <1>2, <1>3 DEF Sessions, Only, Asks
<1>. QED  BY <1>4 DEF PortalInv, Moves

(* A step of a browser that leaves the agreement alone.                    *)
LEMMA Still ==
  ASSUME PortalInv, ServerUnchanged
  PROVE  Moves /\ Bound'
<1>1. UNCHANGED <<status, version, stamped, document, ceremonies, completing, signatures, crossed>>
  BY DEF ServerUnchanged, agreement, paper, signing
<1>. QED  BY <1>1 DEF PortalInv, Moves, Row, Bound, SignedAsShown

LEMMA LoginStep ==
  ASSUME PortalInv, NEW b \in Browsers, NEW s, session[b] = NONE,
         session' = [session EXCEPT ![b] = s], ServerUnchanged, UNCHANGED <<page, request>>
  PROVE  PortalInv'
<1>1. page[b] = NONE /\ request[b] = NONE
  BY DEF PortalInv, Sessions
<1>2. Only(b) /\ page'[b] = NONE /\ request'[b] = NONE
  BY <1>1 DEF PortalInv, Sessions, Only
<1>3. Asks(request'[b]) /\ View(page'[b], session'[b], version'[A], document')
  BY <1>2 DEF Asks, View
<1>. QED  BY <1>2, <1>3, Still, BrowserStep

LEMMA EndSessionStep ==
  ASSUME PortalInv, NEW b \in Browsers, EndSession(b)
  PROVE  PortalInv'
<1>1. Only(b) /\ page'[b] = NONE /\ request'[b] = NONE
  BY DEF EndSession, PortalInv, Sessions, Only
<1>2. Asks(request'[b]) /\ View(page'[b], session'[b], version'[A], document')
  BY <1>1 DEF Asks, View
<1>. QED  BY <1>1, <1>2, Still, BrowserStep DEF EndSession

LEMMA OpenPageStep ==
  ASSUME PortalInv, NEW b \in Browsers, OpenPage(b)
  PROVE  PortalInv'
<1>1. /\ AgreementDetail \in PageRow /\ AgreementDetail.version = version[A]
      /\ AgreementDetail.status = status[A] /\ AgreementDetail.loaded = FALSE
  BY DEF AgreementDetail, PageRow, PortalInv, Row
<1>2. Only(b) /\ page'[b] = AgreementDetail /\ session'[b] # NONE /\ request'[b] = NONE
  BY DEF OpenPage, PortalInv, Sessions, Only
<1>3. status[A] \in UNION {Waiting(party) : party \in Parties} => document # NONE
  BY DrawnIsNoNull DEF PortalInv, Present
<1>4. version'[A] = version[A] /\ document' = document /\ version[A] \in Nat
  BY DEF OpenPage, ServerUnchanged, agreement, PortalInv, Row
<1>5. Asks(request'[b]) /\ View(page'[b], session'[b], version'[A], document')
  BY <1>1, <1>2, <1>3, <1>4 DEF Asks, View
<1>. QED  BY <1>1, <1>2, <1>5, Still, BrowserStep DEF OpenPage

LEMMA LoadDocumentStep ==
  ASSUME PortalInv, NEW b \in Browsers, LoadDocument(b)
  PROVE  PortalInv'
<1>. DEFINE old   == page[b]
            found == IF old.status # "DRAFT" THEN DocumentUrl(session[b]) ELSE NONE
            new   == [old EXCEPT !.loaded = TRUE, !.document = found]
<1>1. old \in PageRow /\ old # NONE /\ document \in Drawn \cup {NONE}
  BY DEF LoadDocument, PortalInv, Sessions, Present
<1>2. found \in Drawn \cup {NONE}
  BY <1>1 DEF DocumentUrl
<1>3. CanBeRecorded(session[b]) /\ old.status # "DRAFT" => found = document
  BY DEF DocumentUrl
<1>4. page' = [page EXCEPT ![b] = new]
  BY <1>1 DEF LoadDocument
<1>. HIDE DEF found
<1>5. /\ new \in PageRow /\ new.version = old.version /\ new.status = old.status
      /\ new.document = found
  BY <1>1, <1>2 DEF PageRow
<1>. HIDE DEF old, new
<1>6. Only(b) /\ page'[b] = new /\ session'[b] = session[b] /\ request'[b] = request[b]
  BY <1>4 DEF LoadDocument, PortalInv, Sessions, Only
<1>7. View(old, session[b], version[A], document) /\ Asks(request[b])
      /\ (session[b] = NONE => old = NONE /\ request[b] = NONE)
  BY DEF PortalInv, Sessions, old
<1>8. \A party \in Parties : "DRAFT" \notin Waiting(party)
  BY DEF Waiting
<1>9. version'[A] = version[A] /\ document' = document
  BY DEF LoadDocument, ServerUnchanged, agreement
<1>10. View(new, session[b], version[A], document)
  BY <1>1, <1>3, <1>5, <1>7, <1>8 DEF View
<1>. QED  BY <1>1, <1>5, <1>6, <1>7, <1>9, <1>10, Still, BrowserStep DEF LoadDocument

LEMMA PostStep ==
  ASSUME PortalInv, NEW b \in Browsers, NEW r, request[b] # NONE \/ Shown(b), Asks(r),
         request' = [request EXCEPT ![b] = r], ServerUnchanged, UNCHANGED <<session, page>>
  PROVE  PortalInv'
<1>1. /\ Only(b) /\ request'[b] = r /\ page'[b] \in PageRow \cup {NONE}
      /\ session'[b] = session[b] /\ session[b] # NONE /\ page'[b] = page[b]
  BY DEF PortalInv, Sessions, Only, Shown
<1>2. version'[A] = version[A] /\ document' = document
  BY DEF ServerUnchanged, agreement
<1>3. View(page[b], session[b], version[A], document)
  BY DEF PortalInv, Sessions
<1>. QED  BY <1>1, <1>2, <1>3, Still, BrowserStep

LEMMA PostSigningStep ==
  ASSUME PortalInv, NEW b \in Browsers, NEW party \in Parties, PostSigning(b, party)
  PROVE  PortalInv'
<1>. DEFINE r == [act |-> Initiates(party), party |-> party, version |-> version[A],
                  source |-> document, shown |-> page[b].document]
<1>1. document \in Drawn /\ document = page[b].document
  BY DEF PostSigning, MayBeginSigning, PortalInv, Present
<1>2. Asks(r)
  BY <1>1 DEF Asks, Initiates
<1>3. Shown(b) /\ request' = [request EXCEPT ![b] = r]
      /\ ServerUnchanged /\ UNCHANGED <<session, page>>
  BY DEF PostSigning
<1>. HIDE DEF r
<1>. QED  BY <1>2, <1>3, PostStep

LEMMA PostRejectStep ==
  ASSUME PortalInv, NEW b \in Browsers, PostReject(b)
  PROVE  PortalInv'
<1>. DEFINE r == [act |-> "REJECT", edge |-> RejectionEdge(status[A])]
<1>1. Asks(r)
  BY DEF Asks, RejectionEdge
<1>2. Shown(b) /\ request' = [request EXCEPT ![b] = r]
      /\ ServerUnchanged /\ UNCHANGED <<session, page>>
  BY DEF PostReject
<1>. HIDE DEF r
<1>. QED  BY <1>1, <1>2, PostStep

LEMMA RefusedStep ==
  ASSUME PortalInv, NEW b \in Browsers, Refused(b)
  PROVE  PortalInv'
<1>1. Asks(NONE)
  BY DEF Asks
<1>. QED  BY <1>1, PostStep DEF Refused

-----------------------------------------------------------------------------
(* The steps of the agreement.                                             *)
LEMMA AnsweredStep ==
  ASSUME PortalInv, NEW b \in Browsers, Moves, Bound', Answered(b)
  PROVE  PortalInv'
<1>1. Only(b) /\ page'[b] = NONE /\ request'[b] = NONE
  BY DEF Answered, PortalInv, Sessions, Only
<1>2. Asks(request'[b]) /\ View(page'[b], session'[b], version'[A], document')
  BY <1>1 DEF Asks, View
<1>. QED  BY <1>1, <1>2, BrowserStep

(* A transition that leaves the document as it is.                         *)
LEMMA EdgeMoves ==
  ASSUME PortalInv, NEW act \in ServiceActions, status[A] \in From(act), Moved(To(act)),
         UNCHANGED <<stamped, document, crossed>>,
         act \notin {"GENERATE", "CORRECT", "AGENT_SIGN_SUCCEED", "ADVANCE_TO_EMPLOYEE",
                     "EMPLOYEE_SIGN_SUCCEED", "ADVANCE_TO_MD", "MD_SIGN_SUCCEED"}
  PROVE  Moves
<1>1. act \in WorkflowAction /\ Present(status[A], document)
      /\ act \notin {"RETRY_AGENT_SIGNATURE", "RETRY_EMPLOYEE_SIGNATURE", "RETRY_MD_SIGNATURE"}
  BY DEF ServiceActions, PortalInv
<1>2. /\ Present(To(act), document)
      /\ Coupled(status[A], document) => Coupled(To(act), document)
  BY <1>1, StaysCoupled
<1>3. version[A] \in Nat
  BY DEF PortalInv, Row
<1>. QED  BY <1>2, <1>3 DEF Moves, Moved, PortalInv

LEMMA TransitionStep ==
  ASSUME PortalInv, NEW act, Workflow!Transition(A, act), act # "GENERATE",
         UNCHANGED <<stamped, document, crossed>>
  PROVE  Moves
<1>1. Row
  BY DEF PortalInv
<1>. QED  BY <1>1, TransitionMoves, EdgeMoves

LEMMA CommitSigningStep ==
  ASSUME PortalInv, NEW b \in Browsers, CommitSigning(b)
  PROVE  PortalInv'
<1>. DEFINE r == request[b]
<1>1. /\ r # NONE /\ r.act # "REJECT" /\ Workflow!Transition(A, r.act)
      /\ ceremonies' \subseteq ceremonies \cup
           {[party |-> r.party, version |-> r.version, source |-> r.source, shown |-> r.shown,
             opened |-> version[A]]}
      /\ Answered(b) /\ UNCHANGED <<stamped, document, completing, signatures, crossed>>
  BY DEF CommitSigning, paper, signing
<1>2. /\ r.party \in Parties /\ r.act = Initiates(r.party)
      /\ r.source \in Drawn /\ r.source = r.shown
  BY <1>1 DEF PortalInv, Sessions, Asks
<1>3. r.act # "GENERATE"
  BY <1>2 DEF Initiates
<1>4. Moves
  BY <1>1, <1>3, TransitionStep
<1>5. Bound'
  <2>1. (\A c \in ceremonies : Shows(c)) /\ (\A w \in completing : Shows(w.ceremony))
    BY DEF PortalInv, Bound
  <2>2. SignedAsShown' /\ (\A w \in completing' : Shows(w.ceremony))
    BY <1>1, <2>1 DEF PortalInv, Bound, SignedAsShown
  <2>3. ASSUME NEW c \in ceremonies' PROVE Shows(c)
    BY <1>1, <1>2, <2>1 DEF Shows
  <2>. QED  BY <2>2, <2>3 DEF Bound
<1>. QED  BY <1>1, <1>4, <1>5, AnsweredStep

(* Nothing is signed and no ceremony begun.                                *)
LEMMA BoundStays ==
  ASSUME PortalInv, ceremonies' \subseteq ceremonies, completing' \subseteq completing,
         signatures' \subseteq signatures
  PROVE  Bound'
BY DEF PortalInv, Bound, SignedAsShown

LEMMA CommitRejectStep ==
  ASSUME PortalInv, NEW b \in Browsers, CommitReject(b)
  PROVE  PortalInv'
<1>. DEFINE act == request[b].edge
<1>1. /\ Workflow!TransitionClearingDeadline(A, act) /\ Answered(b)
      /\ request[b] # NONE /\ request[b].act = "REJECT"
      /\ UNCHANGED <<stamped, document, ceremonies, completing, signatures, crossed>>
  BY DEF CommitReject, paper, signing
<1>2. act \in {"REJECT", "EMPLOYEE_REJECT"} /\ Row
  BY <1>1 DEF PortalInv, Sessions, Asks
<1>. HIDE DEF act
<1>3. status[A] \in From(act) /\ Moved(To(act)) /\ act \in ServiceActions
  BY <1>1, <1>2, ClearingMoves DEF ServiceActions, WorkflowAction
<1>4. Moves
  BY <1>1, <1>2, <1>3, EdgeMoves
<1>. QED  BY <1>1, <1>4, BoundStays, AnsweredStep

LEMMA PostCorrectStep ==
  ASSUME PortalInv, NEW b \in Browsers, PostCorrect(b)
  PROVE  PortalInv'
<1>1. /\ Row' /\ status'[A] = "DRAFT" /\ version'[A] = version[A] + 1 /\ version[A] \in Nat
  BY CorrectMoves DEF PostCorrect, PortalInv, Row
<1>2. /\ document' = NONE /\ signatures' = {} /\ ceremonies' \subseteq ceremonies
      /\ UNCHANGED <<stamped, completing>> /\ Answered(b)
  BY DEF PostCorrect, paper
<1>3. Present("DRAFT", NONE) /\ Coupled("DRAFT", NONE)
  BY DEF Present, Coupled, Waiting
<1>4. Moves
  BY <1>1, <1>2, <1>3 DEF Moves, PortalInv
<1>. QED  BY <1>2, <1>4, BoundStays, AnsweredStep

LEMMA PostComposeStep ==
  ASSUME PortalInv, NEW b \in Browsers, PostCompose(b)
  PROVE  PortalInv'
<1>. DEFINE doc == [text |-> version[A], sigs |-> <<>>]
<1>1. /\ Workflow!Transition(A, "GENERATE") /\ document' = doc
      /\ UNCHANGED <<stamped, ceremonies, completing, signatures>> /\ Answered(b)
      /\ Row /\ version[A] \in Nat
  BY DEF PostCompose, PortalInv, Row, paper, signing
<1>2. Moved("READY_FOR_AGENT_SIGNATURE")
  BY <1>1, TransitionMoves DEF To
<1>3. doc \in Drawn /\ Len(doc.sigs) = 0
  BY <1>1 DEF Drawn, Prefixes
<1>. HIDE DEF doc
<1>4. Present("READY_FOR_AGENT_SIGNATURE", doc) /\ Coupled("READY_FOR_AGENT_SIGNATURE", doc)
  BY <1>3 DEF Present, Coupled, Waiting, Turn, Parties
<1>5. Moves
  BY <1>1, <1>2, <1>3, <1>4, DrawnIsNoNull DEF Moves, Moved, PortalInv
<1>. QED  BY <1>1, <1>5, BoundStays, AnsweredStep

(* The provider's success moves the agreement on to the next party.        *)
After(party) ==
  CASE party = "AGENT"    -> "PENDING_EMPLOYEE_SIGNATURE"
    [] party = "EMPLOYEE" -> "PENDING_MD_SIGNATURE"
    [] OTHER              -> "COMPLETED"

LEMMA SignedMoves ==
  ASSUME PortalInv, NEW w \in completing, CeremonySigned(w)
  PROVE  Moves
<1>. DEFINE c == w.ceremony
            party == c.party
            signed == [c.source EXCEPT !.sigs = Append(@, c.party)]
<1>1. /\ Row /\ version[A] \in Nat /\ stamped' = stamped /\ stamped \in BOOLEAN
      /\ party \in Parties /\ c.source \in Drawn /\ Len(c.source.sigs) = Turn(party)
      /\ document' = IF w.version = version[A] THEN signed ELSE document
      /\ w.version # version[A] => crossed'
  BY DEF CeremonySigned, DocumentAfter, PortalInv, Bound, Shows, Row, paper
<1>2. status[A] \in Waiting(party) /\ Moved(After(party))
  <2>1. CASE party = "AGENT"
    <3>1. Workflow!Chain(A, "AGENT_SIGN_SUCCEED", "ADVANCE_TO_EMPLOYEE")
      BY <2>1 DEF CeremonySigned
    <3>. QED  BY <1>1, <2>1, <3>1, ChainMoves DEF To, From, Waiting, After
  <2>2. CASE party = "EMPLOYEE"
    <3>1. Workflow!Chain(A, "EMPLOYEE_SIGN_SUCCEED", "ADVANCE_TO_MD")
      BY <2>2 DEF CeremonySigned
    <3>. QED  BY <1>1, <2>2, <3>1, ChainMoves DEF To, From, Waiting, After
  <2>3. CASE party = "MD"
    <3>1. Workflow!TransitionClearingDeadline(A, "MD_SIGN_SUCCEED")
      BY <2>3 DEF CeremonySigned
    <3>. QED  BY <1>1, <2>3, <3>1, ClearingMoves DEF To, From, Waiting, After
  <2>. QED  BY <1>1, <2>1, <2>2, <2>3 DEF Parties
<1>3. signed \in Drawn /\ Len(signed.sigs) = Turn(party) + 1
  BY <1>1, SignedOnce
<1>4. document \in Drawn
  BY <1>1, <1>2 DEF PortalInv, Present
<1>. HIDE DEF signed, party
<1>5. document' \in Drawn /\ document' # NONE
  BY <1>1, <1>3, <1>4, DrawnIsNoNull
<1>6. Present(After(party), document')
  BY <1>1, <1>5 DEF Present, After, Waiting, Parties
<1>7. ASSUME w.version = version[A] PROVE Coupled(After(party), document')
  <2>1. Len(document'.sigs) = Turn(party) + 1
    BY <1>1, <1>3, <1>7
  <2>2. /\ party = "AGENT" => After(party) = "PENDING_EMPLOYEE_SIGNATURE" /\ Turn(party) = 0
        /\ party = "EMPLOYEE" => After(party) = "PENDING_MD_SIGNATURE" /\ Turn(party) = 1
        /\ party = "MD" => After(party) = "COMPLETED" /\ Turn(party) = 2
    BY DEF After, Turn
  <2>3. \A other \in Parties : After(party) \in Waiting(other) => Turn(other) = Turn(party) + 1
    BY <1>1, <2>2 DEF Waiting, Turn, Parties
  <2>4. After(party) = "COMPLETED" => Turn(party) + 1 = 3
    BY <1>1, <2>2 DEF Parties
  <2>. QED  BY <2>1, <2>3, <2>4 DEF Coupled
<1>8. status'[A] = After(party) /\ version' = version /\ Row'
  BY <1>2 DEF Moved
<1>. QED  BY <1>1, <1>5, <1>6, <1>7, <1>8 DEF Moves

LEMMA FailureEdge ==
  ASSUME NEW s
  PROVE  FailureOf(s) \in {"AGENT_SIGN_FAIL", "EMPLOYEE_SIGN_FAIL", "MD_SIGN_FAIL"}
BY DEF FailureOf

(* Nothing happens to the agreement.                                       *)
LEMMA AgreementStays ==
  ASSUME PortalInv, UNCHANGED <<agreement, stamped, document, crossed>>
  PROVE  Moves
BY DEF PortalInv, agreement, Moves, Row

(* A handler reads the agreement.                                          *)
LEMMA HandlerReads ==
  ASSUME PortalInv, UNCHANGED <<agreement, paper, document, ceremonies, signatures, crossed, browser>>,
         \A w \in completing' : w \in completing \/ w.ceremony \in ceremonies
  PROVE  PortalInv'
<1>1. Moves
  BY AgreementStays DEF paper
<1>2. Bound'
  BY DEF PortalInv, Bound, SignedAsShown
<1>. QED  BY <1>1, <1>2, ServerStep

LEMMA CompletionBeginsStep ==
  ASSUME PortalInv, NEW c \in ceremonies, CompletionBegins(c) \/ FailureBegins(c)
  PROVE  PortalInv'
<1>1. /\ UNCHANGED <<agreement, paper, document, ceremonies, signatures, crossed, browser>>
      /\ completing' \subseteq completing \cup {[ceremony |-> c, version |-> version[A]]}
  BY DEF CompletionBegins, FailureBegins
<1>. QED  BY <1>1, HandlerReads

LEMMA IntegrityAlertStep ==
  ASSUME PortalInv, NEW w \in completing, IntegrityAlert(w)
  PROVE  PortalInv'
BY HandlerReads DEF IntegrityAlert

LEMMA CeremonySignedStep ==
  ASSUME PortalInv, NEW w \in completing, CeremonySigned(w)
  PROVE  PortalInv'
<1>1. Moves
  BY SignedMoves
<1>2. /\ ceremonies' \subseteq ceremonies /\ completing' \subseteq completing /\ UNCHANGED browser
      /\ signatures' = signatures \cup {[party |-> w.ceremony.party, on |-> w.ceremony.source,
                                        shown |-> w.ceremony.shown]}
  BY DEF CeremonySigned, Closed
<1>3. SignedAsShown'
  BY <1>2 DEF PortalInv, Bound, Shows, SignedAsShown
<1>4. Bound'
  BY <1>2, <1>3 DEF PortalInv, Bound
<1>. QED  BY <1>1, <1>2, <1>4, ServerStep

LEMMA CeremonyFailedStep ==
  ASSUME PortalInv, NEW w, CeremonyFailed(w)
  PROVE  PortalInv'
<1>1. /\ ceremonies' \subseteq ceremonies
      /\ UNCHANGED <<stamped, document, completing, signatures, crossed, browser>>
  BY DEF CeremonyFailed, Closed, paper
<1>2. Moves
  BY <1>1, FailureEdge, TransitionStep, AgreementStays DEF CeremonyFailed
<1>. QED  BY <1>1, <1>2, BoundStays, ServerStep

-----------------------------------------------------------------------------
LEMMA NextKeeps ==
  ASSUME PortalInv, [Next]_vars
  PROVE  PortalInv'
<1>1. ASSUME NEW b \in Browsers, NEW person \in People, Login(b, person) PROVE PortalInv'
  BY <1>1, LoginStep DEF Login
<1>2. ASSUME NEW b \in Browsers, NEW party \in Linked, RedeemPartyLink(b, party) PROVE PortalInv'
  BY <1>2, LoginStep DEF RedeemPartyLink
<1>3. ASSUME NEW b \in Browsers, NEW party \in Parties, PostSigning(b, party) PROVE PortalInv'
  BY <1>3, PostSigningStep
<1>4. ASSUME NEW b \in Browsers, EndSession(b) \/ OpenPage(b) \/ LoadDocument(b) PROVE PortalInv'
  BY <1>4, EndSessionStep, OpenPageStep, LoadDocumentStep
<1>5. ASSUME NEW b \in Browsers,
             CommitSigning(b) \/ PostReject(b) \/ CommitReject(b) \/ Refused(b) \/ PostCorrect(b)
      PROVE  PortalInv'
  BY <1>5, CommitSigningStep, PostRejectStep, CommitRejectStep, RefusedStep, PostCorrectStep
<1>6. ASSUME NEW b \in Browsers, PostCancel(b) PROVE PortalInv'
  <2>1. /\ Workflow!Transition(A, "CANCEL") /\ Answered(b)
        /\ UNCHANGED <<stamped, document, ceremonies, completing, signatures, crossed>>
    BY <1>6 DEF PostCancel, paper, signing
  <2>2. Moves
    BY <2>1, TransitionStep
  <2>. QED  BY <2>1, <2>2, BoundStays, AnsweredStep
<1>7. ASSUME NEW b \in Browsers, PostAllocate(b) PROVE PortalInv'
  <2>1. /\ stamped' = TRUE /\ Answered(b)
        /\ UNCHANGED <<agreement, document, ceremonies, completing, signatures, crossed>>
    BY <1>7 DEF PostAllocate, signing
  <2>2. Moves
    BY <2>1 DEF PortalInv, agreement, Moves, Row
  <2>. QED  BY <2>1, <2>2, BoundStays, AnsweredStep
<1>8. ASSUME NEW b \in Browsers, PostCompose(b) PROVE PortalInv'
  BY <1>8, PostComposeStep
<1>9. ASSUME NEW c \in ceremonies, CompletionBegins(c) \/ FailureBegins(c) PROVE PortalInv'
  BY <1>9, CompletionBeginsStep
<1>9a. ASSUME NEW w \in completing, CeremonySigned(w) \/ IntegrityAlert(w) PROVE PortalInv'
  BY <1>9a, CeremonySignedStep, IntegrityAlertStep
<1>9b. ASSUME NEW w \in failing, CeremonyFailed(w) PROVE PortalInv'
  BY <1>9b, CeremonyFailedStep
<1>10. CASE SweepExpires
  <2>1. /\ Workflow!Transition(A, "EXPIRE")
        /\ UNCHANGED <<stamped, document, ceremonies, completing, signatures, crossed, browser>>
    BY <1>10 DEF SweepExpires, paper, signing
  <2>2. Moves
    BY <2>1, TransitionStep
  <2>. QED  BY <2>1, <2>2, BoundStays, ServerStep
<1>11. CASE UNCHANGED vars
  <2>1. Moves
    BY <1>11, AgreementStays DEF vars, paper, signing
  <2>. QED  BY <1>11, <2>1, BoundStays, ServerStep DEF vars, signing
<1>. QED  BY <1>1, <1>2, <1>3, <1>4, <1>5, <1>6, <1>7, <1>8, <1>9, <1>9a, <1>9b, <1>10, <1>11
    DEF Next

LEMMA PortalInvariant == Spec => []PortalInv
<1>1. Init => PortalInv
  <2>. SUFFICES ASSUME Init PROVE PortalInv
    OBVIOUS
  <2>1. Row /\ status[A] = "DRAFT" /\ document = NONE
    BY DEF Init, Workflow!Init, Row, AgreementState
  <2>2. Present("DRAFT", NONE) /\ Coupled("DRAFT", NONE)
    BY DEF Present, Coupled, Waiting
  <2>3. Bound /\ stamped \in BOOLEAN
    BY DEF Init, Bound, SignedAsShown
  <2>4. Sessions
    BY DEF Init, Sessions, Asks, View
  <2>. QED  BY <2>1, <2>2, <2>3, <2>4 DEF PortalInv
<1>2. PortalInv /\ [Next]_vars => PortalInv'
  BY NextKeeps
<1>. QED  BY <1>1, <1>2, PTL DEF Spec

(* FR-027, for any people, roles, links and browsers: a signature is put   *)
(* on the document the signer's page showed (signing.service.ts            *)
(* initiateSignature compares the hash presented; the row keeps it).       *)
THEOREM ShownIsSigned == Spec => []SignedAsShown
<1>1. PortalInv => SignedAsShown
  BY DEF PortalInv, Bound
<1>. QED  BY <1>1, PortalInvariant, PTL

-----------------------------------------------------------------------------
(* Where the progress rail has a status.                                   *)
LEMMA Positions ==
  /\ At("AGENT_SIGNING") = 3 /\ At("AGENT_SIGNED") = 4
  /\ At("PENDING_EMPLOYEE_SIGNATURE") = 5 /\ At("EMPLOYEE_SIGNING") = 6
  /\ At("EMPLOYEE_SIGNED") = 7 /\ At("PENDING_MD_SIGNATURE") = 8 /\ At("MD_SIGNING") = 9
  /\ At("COMPLETED") = 10 /\ At("DRAFT") = 1 /\ At("READY_FOR_AGENT_SIGNATURE") = 2
  /\ \A s \in {"REJECTED", "CANCELLED", "EXPIRED", "SIGNATURE_FAILED"} : At(s) = 0
<1>1. /\ PROGRESS_ORDER[1] = "DRAFT" /\ PROGRESS_ORDER[2] = "READY_FOR_AGENT_SIGNATURE"
      /\ PROGRESS_ORDER[3] = "AGENT_SIGNING" /\ PROGRESS_ORDER[4] = "AGENT_SIGNED"
      /\ PROGRESS_ORDER[5] = "PENDING_EMPLOYEE_SIGNATURE"
      /\ PROGRESS_ORDER[6] = "EMPLOYEE_SIGNING" /\ PROGRESS_ORDER[7] = "EMPLOYEE_SIGNED"
      /\ PROGRESS_ORDER[8] = "PENDING_MD_SIGNATURE" /\ PROGRESS_ORDER[9] = "MD_SIGNING"
      /\ PROGRESS_ORDER[10] = "COMPLETED"
  BY DEF PROGRESS_ORDER
<1>2. \A i \in 1..10 : i = 1 \/ i = 2 \/ i = 3 \/ i = 4 \/ i = 5 \/ i = 6 \/ i = 7 \/ i = 8
                       \/ i = 9 \/ i = 10
  OBVIOUS
<1>3. \A i, j \in 1..10 : PROGRESS_ORDER[i] = PROGRESS_ORDER[j] => i = j
  BY <1>1, <1>2
<1>4. \A i \in 1..10 : At(PROGRESS_ORDER[i]) = i
  BY <1>3 DEF At
<1>5. \A s \in {"REJECTED", "CANCELLED", "EXPIRED", "SIGNATURE_FAILED"}, i \in 1..10 :
        PROGRESS_ORDER[i] # s
  BY <1>1, <1>2
<1>6. \A s \in {"REJECTED", "CANCELLED", "EXPIRED", "SIGNATURE_FAILED"} : At(s) = 0
  BY <1>5 DEF At
<1>. QED  BY <1>1, <1>4, <1>6

(* Who has signed a document of so many signatures.                        *)
LEMMA SignersOf ==
  ASSUME NEW doc \in Drawn, NEW party \in Parties
  PROVE  (\E i \in DOMAIN doc.sigs : doc.sigs[i] = party) <=> Turn(party) < Len(doc.sigs)
<1>1. /\ doc.sigs \in Seq(Parties) /\ \A i \in DOMAIN doc.sigs : Turn(doc.sigs[i]) = i - 1
  BY DEF Drawn, Prefixes
<1>2. DOMAIN doc.sigs = 1..Len(doc.sigs) /\ Len(doc.sigs) \in Nat
  BY <1>1
<1>3. Turn(party) \in Nat /\ \A other \in Parties : Turn(other) = Turn(party) => other = party
  BY DEF Turn, Parties
<1>4. ASSUME Turn(party) < Len(doc.sigs)
      PROVE  \E i \in DOMAIN doc.sigs : doc.sigs[i] = party
  <2>1. Turn(party) + 1 \in DOMAIN doc.sigs
    BY <1>2, <1>3, <1>4
  <2>2. doc.sigs[Turn(party) + 1] \in Parties /\ Turn(doc.sigs[Turn(party) + 1]) = Turn(party)
    BY <1>1, <1>3, <2>1
  <2>. QED  BY <1>3, <2>1, <2>2
<1>5. ASSUME NEW i \in DOMAIN doc.sigs, doc.sigs[i] = party
      PROVE  Turn(party) < Len(doc.sigs)
  BY <1>1, <1>2, <1>5
<1>. QED  BY <1>4, <1>5

(* For any people, roles, links and browsers: the rail shows a milestone   *)
(* done only if the party has signed the document of the current version,  *)
(* and, unless the agreement is stopped, as soon as it has; unless a       *)
(* completion begun before a correction committed after it                 *)
(* (web/src/lib/workflow.ts milestoneStates, signing.service.ts).          *)
THEOREM RailTellsTheTruth == Spec => []MilestonesTellTheTruth
<1>1. PortalInv => MilestonesTellTheTruth
  <2>. SUFFICES ASSUME PortalInv, ~crossed, NEW m \in Parties
                PROVE  LET signed == document # NONE /\ \E i \in DOMAIN document.sigs : document.sigs[i] = m
                           shown  == MilestoneState(status[A], m)
                       IN /\ shown = "done" => signed
                          /\ signed /\ status[A] # "SIGNATURE_FAILED" => shown \in {"done", "stopped"}
    BY DEF MilestonesTellTheTruth
  <2>. DEFINE s == status[A]
              signed == document # NONE /\ \E i \in DOMAIN document.sigs : document.sigs[i] = m
              shown  == MilestoneState(s, m)
  <2>1. Present(s, document) /\ Coupled(s, document)
    BY DEF PortalInv
  <2>2. document \in Drawn => (signed <=> Turn(m) < Len(document.sigs))
    BY SignersOf, DrawnIsNoNull
  <2>. HIDE DEF signed
  <2>3. CASE s \in Stopped
    BY <2>3, Positions DEF MilestoneState, MILESTONE_RANGE, Stopped, Parties
  <2>4. ASSUME s = "DRAFT" PROVE ~signed /\ shown # "done"
    <3>1. ~signed
      BY <2>1, <2>4 DEF Present, signed
    <3>2. shown # "done"
      BY <2>4, Positions DEF MilestoneState, MILESTONE_RANGE, Parties
    <3>. QED  BY <3>1, <3>2
  <2>5. ASSUME s = "COMPLETED" PROVE signed /\ shown = "done"
    <3>1. document \in Drawn /\ Len(document.sigs) = 3
      BY <2>1, <2>5 DEF Present, Coupled
    <3>2. Turn(m) < 3
      BY DEF Turn, Parties
    <3>3. signed
      BY <2>2, <3>1, <3>2
    <3>4. shown = "done"
      BY <2>5, Positions DEF MilestoneState, MILESTONE_RANGE, Parties
    <3>. QED  BY <3>3, <3>4
  <2>6. ASSUME NEW party \in Parties, s \in Waiting(party)
        PROVE  (shown = "done" => signed) /\ (signed => shown = "done")
    <3>1. signed <=> Turn(m) < Turn(party)
      BY <2>1, <2>2, <2>6 DEF Present, Coupled
    <3>2. shown = "done" <=> Turn(m) < Turn(party)
      BY <2>6, Positions DEF MilestoneState, MILESTONE_RANGE, Parties, Turn, Waiting
    <3>. QED  BY <3>1, <3>2
  <2>7. s \in {"DRAFT", "COMPLETED"} \cup Stopped \/ \E party \in Parties : s \in Waiting(party)
    BY <2>1 DEF Present
  <2>. QED  BY <2>3, <2>4, <2>5, <2>6, <2>7 DEF signed
<1>. QED  BY <1>1, PortalInvariant, PTL

-----------------------------------------------------------------------------
(* An offer to sign is an edge the table has for the holder of the role.   *)
LEMMA TableOffers ==
  ASSUME NEW b, NEW act \in WorkflowAction, page[b].status = status[A]
  PROVE  Can(b, act) <=> AssertTransition(status[A], act, session[b].roles, TRUE)
BY DEF Can, AvailableActions, AssertTransition

(* For any people, roles, links and browsers: on a page that is up to date *)
(* the portal offers what the API would accept but the one offer withheld, *)
(* and what it offers is accepted but for the three kinds made in vain     *)
(* (web/src/app/(portal)/agreements/[id]/page.tsx, agreements.controller). *)
THEOREM PortalAgreesWithTheApi == Spec => []OffersWhatTheApiAccepts
<1>1. PortalInv => OffersWhatTheApiAccepts
  <2>. SUFFICES ASSUME PortalInv, NEW b \in Browsers, NEW post \in Posts, Fresh(b)
                PROVE  /\ Accepts(session[b], post) => Offers(b, post) \/ Withheld(post)
                       /\ Offers(b, post) => Accepts(session[b], post) \/ OfferedInVain(session[b], post)
    BY DEF OffersWhatTheApiAccepts
  <2>. DEFINE s == session[b]
  <2>1. /\ page[b] # NONE /\ page[b].loaded /\ page[b].status = status[A]
        /\ page[b].version = version[A] /\ page[b].stamped = stamped
        /\ page[b].document \in {document, NONE}
    BY DEF Fresh, Shown
  <2>2. \A act \in WorkflowAction : Can(b, act) <=> AssertTransition(status[A], act, s.roles, TRUE)
    BY <2>1, TableOffers
  <2>3. \A act \in WorkflowAction :
          Commits(s, act) <=> Can(b, act) /\ CanBeRecorded(s)
    BY <2>2 DEF Commits
  <2>4. \A act \in WorkflowAction :
          Can(b, act) <=> status[A] \in From(act) /\ RolesFor(act) \cap s.roles # {}
    BY <2>1 DEF Can, AvailableActions
  <2>. HIDE DEF s
  <2>5. CASE post = "REJECT"
    <3>1. "REJECT" \in WorkflowAction /\ "EMPLOYEE_REJECT" \in WorkflowAction
      BY DEF WorkflowAction
    <3>2. /\ status[A] \in From("REJECT") <=> status[A] \in {"PENDING_MD_SIGNATURE", "MD_SIGNING"}
          /\ status[A] \in From("EMPLOYEE_REJECT") <=> status[A] \in EmployeeStates
      BY DEF From, EmployeeStates
    <3>. QED  BY <2>3, <2>4, <2>5, <3>1, <3>2
              DEF Accepts, Offers, OffersReject, OfferedInVain, RejectionEdge, EmployeeStates, s
  <2>6. CASE post \in {"CORRECT", "CANCEL"}
    <3>1. post \in WorkflowAction /\ RouteRoles(post) = RolesFor(post)
      BY <2>6 DEF WorkflowAction, RouteRoles, RolesFor
    <3>2. Can(b, post) => CanActivate(s, post)
      BY <2>4, <3>1 DEF CanActivate
    <3>. QED  BY <2>3, <2>6, <3>1, <3>2
              DEF Accepts, Offers, OffersCorrect, OffersCancel, OfferedInVain, s
  <2>7. CASE post = "ALLOCATE"
    BY <2>1, <2>7 DEF Accepts, Offers, OffersAllocate, OfferedInVain, s
  <2>8. CASE post = "GENERATE"
    <3>1. /\ "GENERATE" \in WorkflowAction /\ RouteRoles("GENERATE") = RolesFor("GENERATE")
          /\ From("GENERATE") = {"DRAFT"}
      BY DEF WorkflowAction, RouteRoles, RolesFor, From
    <3>2. Commits(s, "GENERATE") <=> status[A] = "DRAFT" /\ CanActivate(s, "GENERATE") /\ CanBeRecorded(s)
      BY <2>3, <2>4, <3>1 DEF CanActivate
    <3>. QED  BY <2>1, <2>8, <3>2 DEF Accepts, Offers, OffersCompose, OfferedInVain, Withheld, s
  <2>9. ASSUME NEW party \in Parties, post = Initiates(party)
        PROVE  /\ Accepts(s, post) => Offers(b, post)
               /\ Offers(b, post) => Accepts(s, post) \/ OfferedInVain(s, post)
    <3>1. /\ post \in WorkflowAction
          /\ post \notin {"REJECT", "ALLOCATE", "GENERATE", "CORRECT", "CANCEL"}
          /\ \A other \in Parties : post = Initiates(other) => other = party
          /\ From(post) \subseteq Waiting(party)
      BY <2>9 DEF Initiates, Parties, WorkflowAction, From, Waiting
    <3>2. Accepts(s, post) <=> MayBeginSigning(s, party, document) /\ Can(b, post) /\ CanBeRecorded(s)
      BY <2>3, <2>9, <3>1 DEF Accepts
    <3>3. Offers(b, post) <=> Can(b, post) /\ page[b].document # NONE
      BY <2>9, <3>1 DEF Offers, OffersSigning
    <3>4. Can(b, post) /\ CanBeRecorded(s) => page[b].document # NONE
      <4>1. View(page[b], s, version[A], document)
        BY DEF PortalInv, Sessions, s
      <4>. QED  BY <2>1, <2>4, <3>1, <4>1 DEF View
    <3>. QED  BY <2>1, <2>9, <3>2, <3>3, <3>4 DEF MayBeginSigning, OfferedInVain
  <2>. QED  BY <2>5, <2>6, <2>7, <2>8, <2>9 DEF Posts, s
<1>. QED  BY <1>1, PortalInvariant, PTL

-----------------------------------------------------------------------------
(* Administration.                                                         *)

(* What a request has read, by what it asks.                               *)
LEMMA RequestKinds ==
  ASSUME Staff!TypeOK, NEW h \in Handlers
  PROVE  /\ Staff!Is(h, "upsert") =>
              /\ asked[h].user \in Users /\ asked[h].roles \in Grants
              /\ asked[h].bank \in Banks \cup {NONE}
         /\ Staff!Is(h, "deactivate") => asked[h].user \in Users
         /\ Staff!Is(h, "designate") => asked[h].bank \in Banks /\ asked[h].user \in Users
         /\ Staff!Is(h, "create") => asked[h].signer \in Users
BY DEF Staff!TypeOK, Staff!Request, Staff!Is, Staff!Idle

LEMMA AskedType ==
  ASSUME Staff!TypeOK, NEW h \in Handlers, NEW req \in Staff!Request, Staff!Asks(h, req)
  PROVE  asked' \in [Handlers -> Staff!Request]
BY DEF Staff!TypeOK, Staff!Asks

LEMMA DoneType ==
  ASSUME Staff!TypeOK, NEW h \in Handlers, Staff!Done(h)
  PROVE  asked' \in [Handlers -> Staff!Request]
BY DEF Staff!TypeOK, Staff!Done, Staff!Request

LEMMA OverwrittenType ==
  ASSUME Staff!TypeOK, NEW u \in Users, NEW row \in Staff!UserRow, Staff!Overwrite(u, row)
  PROVE  user' \in [Users -> Staff!UserRow] /\ demoted' \subseteq Users /\ bypassed' \in BOOLEAN
BY DEF Staff!TypeOK, Staff!Overwrite, Staff!Demotes

LEMMA GrantedRoles ==
  /\ \A roles \in Grants : roles \subseteq Staff!GrantableRole
  /\ \A role \in UNION Grants : role \in Staff!GrantableRole
BY StaffAssumption DEF Staff!Staffed

LEMMA RequestsNext ==
  ASSUME Staff!TypeOK, NEW h \in Handlers,
         \/ \E u \in Users, roles \in Grants, b \in Banks \cup {NONE} : Staff!BeginUpsert(h, u, roles, b)
         \/ \E u \in Users : Staff!BeginDeactivate(h, u) \/ Staff!BeginCreate(h, u)
         \/ \E b \in Banks, u \in Users : Staff!BeginDesignate(h, b, u)
         \/ Staff!CommitUpsert(h) \/ Staff!CommitDeactivate(h) \/ Staff!CommitDesignate(h)
         \/ Staff!CommitCreate(h) \/ Staff!GivesUp(h)
  PROVE  Staff!TypeOK'
<1>1. ASSUME NEW u \in Users, NEW roles \in Grants, NEW b \in Banks \cup {NONE},
             Staff!BeginUpsert(h, u, roles, b)
      PROVE  Staff!TypeOK'
  <2> DEFINE req == [op |-> "upsert", user |-> u, roles |-> roles, bank |-> b,
                     existing |-> user[u].exists]
  <2>1. req \in Staff!Request
    BY DEF Staff!Request, Staff!TypeOK, Staff!UserRow
  <2> QED
    BY <1>1, <2>1, AskedType DEF Staff!BeginUpsert, Staff!UsersKept, Staff!TypeOK
<1>2. ASSUME NEW u \in Users, Staff!BeginDeactivate(h, u) PROVE Staff!TypeOK'
  <2>1. [op |-> "deactivate", user |-> u] \in Staff!Request
    BY DEF Staff!Request
  <2> QED
    BY <1>2, <2>1, AskedType DEF Staff!BeginDeactivate, Staff!TypeOK
<1>3. ASSUME NEW by \in Users, Staff!BeginCreate(h, by) PROVE Staff!TypeOK'
  <2>1. PICK u \in Users : Staff!Asks(h, [op |-> "create", signer |-> u])
    BY <1>3 DEF Staff!BeginCreate, Staff!ResolveEmployeeSigner
  <2>2. [op |-> "create", signer |-> u] \in Staff!Request
    BY DEF Staff!Request
  <2> QED
    BY <1>3, <2>1, <2>2, AskedType DEF Staff!BeginCreate, Staff!UsersKept, Staff!TypeOK
<1>4. ASSUME NEW b \in Banks, NEW u \in Users, Staff!BeginDesignate(h, b, u) PROVE Staff!TypeOK'
  <2>1. [op |-> "designate", bank |-> b, user |-> u] \in Staff!Request
    BY DEF Staff!Request
  <2> QED
    BY <1>4, <2>1, AskedType DEF Staff!BeginDesignate, Staff!UsersKept, Staff!TypeOK
<1>5. CASE Staff!CommitUpsert(h)
  <2> DEFINE row == [exists |-> TRUE, active |-> TRUE, roles |-> asked[h].roles,
                     bank |-> asked[h].bank]
  <2>1. asked[h].user \in Users /\ row \in Staff!UserRow
    BY <1>5, RequestKinds, GrantedRoles DEF Staff!CommitUpsert, Staff!UserRow
  <2>2. Staff!Overwrite(asked[h].user, row) /\ Staff!Done(h) /\ UNCHANGED <<bank, scripts, unfit>>
    BY <1>5 DEF Staff!CommitUpsert
  <2> HIDE DEF row
  <2> QED
    BY <2>1, <2>2, OverwrittenType, DoneType DEF Staff!TypeOK
<1>6. CASE Staff!CommitDeactivate(h)
  <2>1. asked[h].user \in Users
    BY <1>6, RequestKinds DEF Staff!CommitDeactivate
  <2> QED
    BY <1>6, <2>1, DoneType DEF Staff!CommitDeactivate, Staff!Demotes, Staff!TypeOK, Staff!UserRow
<1>7. CASE Staff!CommitDesignate(h)
  <2>1. asked[h].bank \in Banks /\ asked[h].user \in Users
    BY <1>7, RequestKinds DEF Staff!CommitDesignate
  <2> QED
    BY <1>7, <2>1, DoneType DEF Staff!CommitDesignate, Staff!UsersKept, Staff!TypeOK, Staff!BankRow
<1>8. CASE Staff!CommitCreate(h)
  <2>1. asked[h].signer \in Users
    BY <1>8, RequestKinds DEF Staff!CommitCreate
  <2> QED
    BY <1>8, <2>1, DoneType DEF Staff!CommitCreate, Staff!UsersKept, Staff!TypeOK
<1>9. CASE Staff!GivesUp(h)
  BY <1>9, DoneType DEF Staff!GivesUp, Staff!UsersKept, Staff!TypeOK
<1> QED
  BY <1>1, <1>2, <1>3, <1>4, <1>5, <1>6, <1>7, <1>8, <1>9

LEMMA StaffNextType == Staff!TypeOK /\ [Staff!Next]_Staff!vars => Staff!TypeOK'
<1> SUFFICES ASSUME Staff!TypeOK, [Staff!Next]_Staff!vars PROVE Staff!TypeOK'
  OBVIOUS
<1>1. CASE UNCHANGED Staff!vars
  BY <1>1 DEF Staff!vars, Staff!TypeOK
<1>2. ASSUME NEW u \in Users, Staff!Activate(u) PROVE Staff!TypeOK'
  BY <1>2 DEF Staff!Activate, Staff!TypeOK, Staff!UserRow
<1>3. ASSUME NEW u \in Users, NEW role \in UNION Grants, Staff!ScriptGrant(u, role) PROVE Staff!TypeOK'
  <2> DEFINE row == [user[u] EXCEPT !.exists = TRUE, !.active = TRUE, !.roles = @ \cup {role}]
  <2>1. row \in Staff!UserRow
    BY GrantedRoles DEF Staff!TypeOK, Staff!UserRow
  <2>2. /\ Staff!Overwrite(u, row) /\ UNCHANGED <<bank, asked, unfit>>
        /\ scripts < MaxScripts /\ scripts' = scripts + 1
    BY <1>3 DEF Staff!ScriptGrant
  <2> HIDE DEF row
  <2> QED
    BY <2>1, <2>2, OverwrittenType, StaffAssumption DEF Staff!TypeOK, Staff!Staffed
<1>4. ASSUME NEW u \in Users, Staff!ScriptDeactivate(u) PROVE Staff!TypeOK'
  <2> DEFINE row == [user[u] EXCEPT !.active = FALSE]
  <2>1. row \in Staff!UserRow
    BY DEF Staff!TypeOK, Staff!UserRow
  <2>2. /\ Staff!Overwrite(u, row) /\ UNCHANGED <<bank, asked, unfit>>
        /\ scripts < MaxScripts /\ scripts' = scripts + 1
    BY <1>4 DEF Staff!ScriptDeactivate
  <2> HIDE DEF row
  <2> QED
    BY <2>1, <2>2, OverwrittenType, StaffAssumption DEF Staff!TypeOK, Staff!Staffed
<1>5. ASSUME NEW b \in Banks, Staff!CreateBank(b) PROVE Staff!TypeOK'
  BY <1>5 DEF Staff!CreateBank, Staff!UsersKept, Staff!TypeOK, Staff!BankRow
<1>6. ASSUME NEW b \in Banks, NEW active \in BOOLEAN, Staff!SetBankActive(b, active) PROVE Staff!TypeOK'
  BY <1>6 DEF Staff!SetBankActive, Staff!UsersKept, Staff!TypeOK, Staff!BankRow
<1> QED
  BY <1>1, <1>2, <1>3, <1>4, <1>5, <1>6, RequestsNext DEF Staff!Next

(* Every row and every request keeps its type.                             *)
LEMMA StaffTypeCorrect == Staff!Spec => []Staff!TypeOK
<1>1. ASSUME Staff!Init PROVE Staff!TypeOK
  <2>1. user \in [Users -> Staff!UserRow]
    <3> DEFINE admin == [Staff!NoUser EXCEPT !.exists = TRUE, !.active = TRUE, !.roles = {"SUPER_ADMIN"}]
    <3>1. admin \in Staff!UserRow /\ Staff!NoUser \in Staff!UserRow
      BY DEF Staff!NoUser, Staff!UserRow, Staff!GrantableRole
    <3>2. PICK u \in Users : user = [v \in Users |-> IF v = u THEN admin ELSE Staff!NoUser]
      BY <1>1 DEF Staff!Init
    <3> HIDE DEF admin
    <3> QED
      BY <3>1, <3>2
  <2>2. bank \in [Banks -> Staff!BankRow]
    BY <1>1 DEF Staff!Init, Staff!NoBank, Staff!BankRow
  <2>3. asked \in [Handlers -> Staff!Request] /\ scripts \in 0..MaxScripts
    BY <1>1, StaffAssumption DEF Staff!Init, Staff!Request, Staff!Staffed
  <2> QED
    BY <1>1, <2>1, <2>2, <2>3 DEF Staff!Init, Staff!TypeOK
<1> QED
  BY <1>1, StaffNextType, PTL DEF Staff!Spec

-----------------------------------------------------------------------------
(* The last administrator.  A deactivation under way, while it is the only *)
(* one, leaves somebody else to administer: so its write cannot remove the *)
(* last one, although it is checked before the write and outside it.       *)
OneRemains ==
  ~bypassed =>
    /\ Staff!Administrators # {}
    /\ \A h \in Handlers :
         Staff!Is(h, "deactivate") => Staff!Administrators \ {asked[h].user} # {}
    /\ \A g, h \in Handlers : Staff!Is(g, "deactivate") /\ Staff!Is(h, "deactivate") => g = h

LEMMA OverwriteKeepsAdministrators ==
  ASSUME Staff!TypeOK, NEW u \in Users, NEW row \in Staff!UserRow, Staff!Overwrite(u, row), ~bypassed'
  PROVE  ~bypassed /\ Staff!Administrators \subseteq Staff!Administrators'
BY DEF Staff!TypeOK, Staff!Overwrite, Staff!Administrators

(* A step that takes nobody's administration away and starts no            *)
(* deactivation leaves the rule standing.                                  *)
LEMMA RemainsUnless ==
  ASSUME OneRemains, bypassed => bypassed',
         ~bypassed' => Staff!Administrators \subseteq Staff!Administrators',
         \A h \in Handlers :
           Staff!Is(h, "deactivate")' => Staff!Is(h, "deactivate") /\ asked'[h].user = asked[h].user
  PROVE  OneRemains'
BY DEF OneRemains

LEMMA AskedOnly ==
  ASSUME Staff!TypeOK, NEW h \in Handlers, NEW req,
         Staff!Asks(h, req) \/ (Staff!Done(h) /\ req = Staff!Idle),
         req.op # "deactivate"
  PROVE  \A g \in Handlers :
           Staff!Is(g, "deactivate")' => Staff!Is(g, "deactivate") /\ asked'[g].user = asked[g].user
BY DEF Staff!TypeOK, Staff!Asks, Staff!Done, Staff!Is

LEMMA RemainsNext == Staff!TypeOK /\ OneRemains /\ [Staff!Next]_Staff!vars => OneRemains'
<1> SUFFICES ASSUME Staff!TypeOK, OneRemains, [Staff!Next]_Staff!vars PROVE OneRemains'
  OBVIOUS
<1>0. Staff!Idle.op # "deactivate"
  BY DEF Staff!Idle
<1>1. CASE UNCHANGED Staff!vars
  BY <1>1 DEF Staff!vars, OneRemains, Staff!Administrators, Staff!Is
<1>2. ASSUME NEW h \in Handlers, Staff!CommitCreate(h) \/ Staff!GivesUp(h) \/ Staff!CommitDesignate(h)
      PROVE  OneRemains'
  <2>1. Staff!Done(h) /\ UNCHANGED <<user, bypassed>>
    BY <1>2 DEF Staff!CommitCreate, Staff!GivesUp, Staff!CommitDesignate, Staff!UsersKept
  <2>2. \A g \in Handlers :
          Staff!Is(g, "deactivate")' => Staff!Is(g, "deactivate") /\ asked'[g].user = asked[g].user
    BY <1>0, <2>1, AskedOnly
  <2> QED
    BY <2>1, <2>2, RemainsUnless DEF Staff!Administrators
<1>3. ASSUME NEW h \in Handlers,
             \/ \E u \in Users, roles \in Grants, b \in Banks \cup {NONE} : Staff!BeginUpsert(h, u, roles, b)
             \/ \E u \in Users : Staff!BeginCreate(h, u)
             \/ \E b \in Banks : \E u \in Users : Staff!BeginDesignate(h, b, u)
      PROVE  OneRemains'
  <2>1. UNCHANGED <<user, bypassed>>
    BY <1>3 DEF Staff!BeginUpsert, Staff!BeginCreate, Staff!BeginDesignate, Staff!UsersKept
  <2>2. \E req : Staff!Asks(h, req) /\ req.op # "deactivate"
    <3>1. ASSUME NEW u \in Users, NEW roles \in Grants, NEW b \in Banks \cup {NONE},
                 Staff!BeginUpsert(h, u, roles, b)
          PROVE  \E req : Staff!Asks(h, req) /\ req.op # "deactivate"
      BY <3>1 DEF Staff!BeginUpsert
    <3>2. ASSUME NEW by \in Users, Staff!BeginCreate(h, by)
          PROVE  \E req : Staff!Asks(h, req) /\ req.op # "deactivate"
      <4>1. PICK u : Staff!Asks(h, [op |-> "create", signer |-> u])
        BY <3>2 DEF Staff!BeginCreate
      <4> QED
        BY <4>1
    <3>3. ASSUME NEW b \in Banks, NEW u \in Users, Staff!BeginDesignate(h, b, u)
          PROVE  \E req : Staff!Asks(h, req) /\ req.op # "deactivate"
      BY <3>3 DEF Staff!BeginDesignate
    <3> QED
      BY <1>3, <3>1, <3>2, <3>3
  <2>3. \A g \in Handlers :
          Staff!Is(g, "deactivate")' => Staff!Is(g, "deactivate") /\ asked'[g].user = asked[g].user
    BY <2>2, AskedOnly
  <2> QED
    BY <2>1, <2>3, RemainsUnless DEF Staff!Administrators
<1>4. ASSUME NEW h \in Handlers, Staff!CommitUpsert(h) PROVE OneRemains'
  <2> DEFINE row == [exists |-> TRUE, active |-> TRUE, roles |-> asked[h].roles,
                     bank |-> asked[h].bank]
  <2>1. asked[h].user \in Users /\ row \in Staff!UserRow
    BY <1>4, RequestKinds, GrantedRoles DEF Staff!CommitUpsert, Staff!UserRow
  <2>2. Staff!Overwrite(asked[h].user, row) /\ Staff!Done(h)
    BY <1>4 DEF Staff!CommitUpsert
  <2> HIDE DEF row
  <2>3. /\ bypassed => bypassed'
        /\ ~bypassed' => Staff!Administrators \subseteq Staff!Administrators'
    BY <2>1, <2>2, OverwriteKeepsAdministrators DEF Staff!Overwrite
  <2>4. \A g \in Handlers :
          Staff!Is(g, "deactivate")' => Staff!Is(g, "deactivate") /\ asked'[g].user = asked[g].user
    BY <1>0, <2>2, AskedOnly
  <2> QED
    BY <2>3, <2>4, RemainsUnless
<1>5. ASSUME NEW h \in Handlers, NEW u \in Users, Staff!BeginDeactivate(h, u) PROVE OneRemains'
  <2>1. /\ asked' = [asked EXCEPT ![h] = [op |-> "deactivate", user |-> u]]
        /\ Staff!Administrators \ {u} # {} /\ user' = user
        /\ bypassed' = (bypassed \/ \E g \in Handlers : Staff!Is(g, "deactivate"))
    BY <1>5 DEF Staff!BeginDeactivate, Staff!Asks, Staff!NotLastAdministrator
  <2>2. Staff!Administrators' = Staff!Administrators
    BY <2>1 DEF Staff!Administrators
  <2>3. asked'[h].user = u /\ \A g \in Handlers \ {h} : asked'[g] = asked[g]
    BY <2>1 DEF Staff!TypeOK
  <2>4. ~bypassed' => ~bypassed /\ \A g \in Handlers \ {h} : asked'[g].op # "deactivate"
    BY <2>1, <2>3 DEF Staff!Is
  <2> QED
    BY <2>1, <2>2, <2>3, <2>4 DEF OneRemains, Staff!Is
<1>6. ASSUME NEW h \in Handlers, Staff!CommitDeactivate(h) PROVE OneRemains'
  <2> DEFINE u == asked[h].user
  <2>1. /\ Staff!Is(h, "deactivate") /\ user' = [user EXCEPT ![u].active = FALSE]
        /\ asked' = [asked EXCEPT ![h] = Staff!Idle] /\ bypassed' = bypassed
    BY <1>6 DEF Staff!CommitDeactivate, Staff!Done
  <2>2. Staff!Administrators \ {u} \subseteq Staff!Administrators'
    BY <2>1 DEF Staff!Administrators, Staff!TypeOK
  <2>3. ~bypassed => Staff!Administrators' # {}
    BY <2>1, <2>2 DEF OneRemains
  <2>4. ~bypassed => \A g \in Handlers : asked'[g].op # "deactivate"
    BY <1>0, <2>1 DEF OneRemains, Staff!Is, Staff!TypeOK
  <2> QED
    BY <2>1, <2>3, <2>4 DEF OneRemains, Staff!Is
<1>7. ASSUME NEW u \in Users, Staff!Activate(u) PROVE OneRemains'
  <2>1. Staff!Administrators \subseteq Staff!Administrators'
    BY <1>7 DEF Staff!Activate, Staff!Administrators, Staff!TypeOK
  <2> QED
    BY <1>7, <2>1, RemainsUnless DEF Staff!Activate, Staff!Is
<1>8. ASSUME NEW u \in Users, NEW role \in UNION Grants, Staff!ScriptGrant(u, role) PROVE OneRemains'
  <2> DEFINE row == [user[u] EXCEPT !.exists = TRUE, !.active = TRUE, !.roles = @ \cup {role}]
  <2>1. row \in Staff!UserRow
    BY GrantedRoles DEF Staff!TypeOK, Staff!UserRow
  <2>2. Staff!Overwrite(u, row) /\ asked' = asked
    BY <1>8 DEF Staff!ScriptGrant
  <2> HIDE DEF row
  <2>3. /\ bypassed => bypassed'
        /\ ~bypassed' => Staff!Administrators \subseteq Staff!Administrators'
    BY <2>1, <2>2, OverwriteKeepsAdministrators DEF Staff!Overwrite
  <2> QED
    BY <2>2, <2>3, RemainsUnless DEF Staff!Is
<1>9. ASSUME NEW u \in Users, Staff!ScriptDeactivate(u) PROVE OneRemains'
  <2> DEFINE row == [user[u] EXCEPT !.active = FALSE]
  <2>1. row \in Staff!UserRow
    BY DEF Staff!TypeOK, Staff!UserRow
  <2>2. Staff!Overwrite(u, row) /\ asked' = asked
    BY <1>9 DEF Staff!ScriptDeactivate
  <2> HIDE DEF row
  <2>3. /\ bypassed => bypassed'
        /\ ~bypassed' => Staff!Administrators \subseteq Staff!Administrators'
    BY <2>1, <2>2, OverwriteKeepsAdministrators DEF Staff!Overwrite
  <2> QED
    BY <2>2, <2>3, RemainsUnless DEF Staff!Is
<1>10. ASSUME NEW b \in Banks, Staff!CreateBank(b) \/ \E active \in BOOLEAN : Staff!SetBankActive(b, active)
       PROVE  OneRemains'
  BY <1>10 DEF Staff!CreateBank, Staff!SetBankActive, Staff!UsersKept, OneRemains,
               Staff!Administrators, Staff!Is
<1> QED
  BY <1>1, <1>2, <1>3, <1>4, <1>5, <1>6, <1>7, <1>8, <1>9, <1>10 DEF Staff!Next

(* "Nobody may remove the last account that can administer the system":    *)
(* one deactivation at a time, it holds whatever happens between the count *)
(* and the write, though an upsert and the script can break it.            *)
THEOREM LastAdministrator == Staff!Spec => []AdministratorRemains
<1>1. Staff!Init => OneRemains
  <2> SUFFICES ASSUME Staff!Init PROVE OneRemains
    OBVIOUS
  <2>1. Staff!Administrators # {}
    <3>1. PICK u \in Users :
            user = [v \in Users |->
                      IF v = u THEN [Staff!NoUser EXCEPT !.exists = TRUE, !.active = TRUE,
                                                         !.roles = {"SUPER_ADMIN"}]
                                    ELSE Staff!NoUser]
      BY DEF Staff!Init
    <3>2. user[u].active /\ user[u].roles = {"SUPER_ADMIN"}
      BY <3>1 DEF Staff!NoUser
    <3> QED
      BY <3>2 DEF Staff!Administrators, Staff!Admins
  <2>2. \A h \in Handlers : ~Staff!Is(h, "deactivate")
    BY DEF Staff!Init, Staff!Is, Staff!Idle
  <2> QED
    BY <2>1, <2>2 DEF OneRemains
<1>2. OneRemains => AdministratorRemains
  BY DEF OneRemains, AdministratorRemains, Staff!AdministratorRemains
<1> QED
  BY <1>1, <1>2, RemainsNext, StaffTypeCorrect, PTL DEF Staff!Spec

-----------------------------------------------------------------------------
(* The countersigner.  Once a bank has designated him, or a request has    *)
(* found him fit to be, he is an employee of no bank or has been demoted;  *)
(* and an agreement about to name him found him active besides.            *)
Suitable(u) == u \in demoted \/ (user[u].exists /\ Staff!IsEmployee(user[u]))
Certain(u)  == u \in demoted \/ Staff!Eligible(user[u])

FitToSign ==
  /\ unfit \subseteq demoted
  /\ \A b \in Banks : bank[b].signer \in Users => Suitable(bank[b].signer)
  /\ \A h \in Handlers : Staff!Is(h, "designate") => Suitable(asked[h].user)
  /\ \A h \in Handlers : Staff!Is(h, "create") => Certain(asked[h].signer)

(* A step keeps who is suitable, and who is certain as long as an agreement*)
(* is about to name him.                                                   *)
Keeps ==
  /\ demoted \subseteq demoted'
  /\ \A u \in Users : Suitable(u) => Suitable(u)'
  /\ \A h \in Handlers :
       Staff!Is(h, "create") /\ Certain(asked[h].signer) =>
         asked[h].signer \in demoted' \/ Staff!Eligible(user'[asked[h].signer])

LEMMA RowsKept ==
  ASSUME Staff!UsersKept
  PROVE  Keeps
BY DEF Staff!UsersKept, Keeps, Suitable, Certain

LEMMA Replaced ==
  ASSUME Staff!TypeOK, NEW u \in Users, NEW row \in Staff!UserRow, user' = [user EXCEPT ![u] = row],
         Staff!Demotes(u, row), user[u].exists => row.exists
  PROVE  Keeps
<1>1. demoted \subseteq demoted'
  BY DEF Staff!Demotes
<1>2. user'[u] = row /\ \A v \in Users \ {u} : user'[v] = user[v]
  BY DEF Staff!TypeOK
<1>3. ASSUME NEW v \in Users, Suitable(v) PROVE Suitable(v)'
  <2>1. CASE v = u /\ v \notin demoted'
    <3>1. Staff!IsEmployee(row) /\ row.exists
      BY <1>1, <1>3, <2>1 DEF Suitable, Staff!Demotes
    <3> QED
      BY <1>2, <2>1, <3>1 DEF Suitable, Staff!IsEmployee
  <2>2. CASE v # u
    BY <1>1, <1>2, <1>3, <2>2 DEF Suitable, Staff!IsEmployee
  <2> QED
    BY <2>1, <2>2 DEF Suitable
<1>4. ASSUME NEW h \in Handlers, Staff!Is(h, "create"), Certain(asked[h].signer)
      PROVE  asked[h].signer \in demoted' \/ Staff!Eligible(user'[asked[h].signer])
  <2>1. asked[h].signer \in Users
    BY <1>4, RequestKinds
  <2>2. CASE asked[h].signer = u /\ u \notin demoted'
    <3>1. Staff!IsEmployee(row) /\ row.active /\ row.exists
      BY <1>1, <1>4, <2>2 DEF Certain, Staff!Eligible, Staff!Demotes
    <3> QED
      BY <1>2, <2>2, <3>1 DEF Staff!Eligible
  <2>3. CASE asked[h].signer # u
    BY <1>1, <1>2, <1>4, <2>1, <2>3 DEF Certain
  <2> QED
    BY <2>2, <2>3
<1> QED
  BY <1>1, <1>3, <1>4 DEF Keeps

(* A step that keeps them, and that has a bank, a designation or a creation*)
(* name nobody else, leaves the signers fit.                               *)
LEMMA FitUnless ==
  ASSUME Staff!TypeOK, FitToSign, Keeps, unfit' \subseteq unfit \cup demoted,
         \A b \in Banks : bank'[b].signer \in Users =>
           bank'[b].signer = bank[b].signer \/ Suitable(bank'[b].signer),
         \A h \in Handlers : asked'[h] = asked[h] \/ asked'[h].op \notin {"designate", "create"}
  PROVE  FitToSign'
<1>1. unfit' \subseteq demoted'
  BY DEF FitToSign, Keeps
<1>2. ASSUME NEW b \in Banks, NEW u \in Users, bank'[b].signer = u PROVE Suitable(u)'
  <2>1. Suitable(u)
    BY <1>2 DEF FitToSign
  <2> QED
    BY <2>1 DEF Keeps
<1>3. ASSUME NEW h \in Handlers, asked'[h].op = "designate", NEW u, asked'[h].user = u
      PROVE  Suitable(u)'
  <2>1. asked[h] = asked'[h]
    BY <1>3
  <2>2. Suitable(u) /\ u \in Users
    BY <1>3, <2>1, RequestKinds DEF FitToSign, Staff!Is
  <2> QED
    BY <2>2 DEF Keeps
<1>4. ASSUME NEW h \in Handlers, asked'[h].op = "create", NEW u, asked'[h].signer = u
      PROVE  Certain(u)'
  <2>1. asked[h] = asked'[h]
    BY <1>4
  <2>2. Staff!Is(h, "create") /\ Certain(asked[h].signer) /\ asked[h].signer = u
    BY <1>4, <2>1 DEF FitToSign, Staff!Is
  <2> QED
    BY <2>2 DEF Keeps, Certain, Staff!Eligible, Staff!IsEmployee
<1> QED
  BY <1>1, <1>2, <1>3, <1>4 DEF FitToSign, Staff!Is, Suitable, Certain, Staff!IsEmployee, Staff!Eligible

LEMMA Pending ==
  ASSUME Staff!TypeOK, NEW h \in Handlers, NEW req,
         Staff!Asks(h, req) \/ (Staff!Done(h) /\ req = Staff!Idle)
  PROVE  /\ asked'[h] = req
         /\ \A g \in Handlers \ {h} : asked'[g] = asked[g]
BY DEF Staff!TypeOK, Staff!Asks, Staff!Done

LEMMA FitNext == Staff!TypeOK /\ FitToSign /\ [Staff!Next]_Staff!vars => FitToSign'
<1> SUFFICES ASSUME Staff!TypeOK, FitToSign, [Staff!Next]_Staff!vars PROVE FitToSign'
  OBVIOUS
<1>0. Staff!Idle.op \notin {"designate", "create"}
  BY DEF Staff!Idle
<1>1. CASE UNCHANGED Staff!vars
  BY <1>1, RowsKept, FitUnless DEF Staff!vars, Staff!UsersKept
<1>2. ASSUME NEW h \in Handlers, Staff!GivesUp(h) PROVE FitToSign'
  BY <1>0, <1>2, Pending, RowsKept, FitUnless DEF Staff!GivesUp
<1>3. ASSUME NEW h \in Handlers, Staff!CommitCreate(h) PROVE FitToSign'
  <2>1. Certain(asked[h].signer)
    BY <1>3 DEF Staff!CommitCreate, FitToSign
  <2>2. unfit' \subseteq unfit \cup demoted
    BY <1>3, <2>1 DEF Staff!CommitCreate, Certain
  <2> QED
    BY <1>0, <1>3, <2>2, Pending, RowsKept, FitUnless DEF Staff!CommitCreate
<1>4. ASSUME NEW h \in Handlers, Staff!CommitDesignate(h) PROVE FitToSign'
  <2>1. Suitable(asked[h].user)
    BY <1>4 DEF Staff!CommitDesignate, FitToSign
  <2>2. \A b \in Banks : bank'[b].signer = bank[b].signer \/ Suitable(bank'[b].signer)
    BY <1>4, <2>1 DEF Staff!CommitDesignate, Staff!TypeOK, Staff!BankRow
  <2> QED
    BY <1>0, <1>4, <2>2, Pending, RowsKept, FitUnless DEF Staff!CommitDesignate
<1>5. ASSUME NEW h \in Handlers, NEW u \in Users, NEW roles \in Grants, NEW b \in Banks \cup {NONE},
             Staff!BeginUpsert(h, u, roles, b)
      PROVE  FitToSign'
  <2>1. \A g \in Handlers : asked'[g] = asked[g] \/ asked'[g].op \notin {"designate", "create"}
    BY <1>5, Pending DEF Staff!BeginUpsert
  <2> QED
    BY <1>5, <2>1, RowsKept, FitUnless DEF Staff!BeginUpsert
<1>6. ASSUME NEW h \in Handlers, NEW u \in Users, Staff!BeginDeactivate(h, u) PROVE FitToSign'
  <2>1. \A g \in Handlers : asked'[g] = asked[g] \/ asked'[g].op \notin {"designate", "create"}
    BY <1>6, Pending DEF Staff!BeginDeactivate
  <2>2. Keeps
    BY <1>6 DEF Staff!BeginDeactivate, Keeps, Suitable, Certain
  <2> QED
    BY <1>6, <2>1, <2>2, FitUnless DEF Staff!BeginDeactivate
<1>7. ASSUME NEW h \in Handlers, NEW by \in Users, Staff!BeginCreate(h, by) PROVE FitToSign'
  <2>1. PICK b \in Banks, u \in Users :
          bank[b].signer = u /\ user[u].active /\ Staff!Asks(h, [op |-> "create", signer |-> u])
    BY <1>7 DEF Staff!BeginCreate, Staff!ResolveBank, Staff!ResolveEmployeeSigner
  <2>2. Certain(u)
    BY <2>1 DEF FitToSign, Suitable, Certain, Staff!Eligible
  <2>3. /\ asked'[h] = [op |-> "create", signer |-> u]
        /\ \A g \in Handlers \ {h} : asked'[g] = asked[g]
    BY <2>1, Pending
  <2> QED
    BY <1>7, <2>2, <2>3
       DEF Staff!BeginCreate, Staff!UsersKept, FitToSign, Staff!Is, Suitable, Certain
<1>8. ASSUME NEW h \in Handlers, NEW b \in Banks, NEW u \in Users, Staff!BeginDesignate(h, b, u)
      PROVE  FitToSign'
  <2>1. Suitable(u)
    BY <1>8 DEF Staff!BeginDesignate, Suitable, Staff!Eligible
  <2>2. /\ asked'[h] = [op |-> "designate", bank |-> b, user |-> u]
        /\ \A g \in Handlers \ {h} : asked'[g] = asked[g]
    BY <1>8, Pending DEF Staff!BeginDesignate
  <2> QED
    BY <1>8, <2>1, <2>2
       DEF Staff!BeginDesignate, Staff!UsersKept, FitToSign, Staff!Is, Suitable, Certain
<1>9. ASSUME NEW h \in Handlers, Staff!CommitUpsert(h) PROVE FitToSign'
  <2> DEFINE row == [exists |-> TRUE, active |-> TRUE, roles |-> asked[h].roles,
                     bank |-> asked[h].bank]
  <2>1. asked[h].user \in Users /\ row \in Staff!UserRow /\ row.exists
    BY <1>9, RequestKinds, GrantedRoles DEF Staff!CommitUpsert, Staff!UserRow
  <2>2. Staff!Overwrite(asked[h].user, row) /\ Staff!Done(h) /\ UNCHANGED <<bank, unfit>>
    BY <1>9 DEF Staff!CommitUpsert
  <2> HIDE DEF row
  <2>3. Keeps
    BY <2>1, <2>2, Replaced DEF Staff!Overwrite
  <2> QED
    BY <1>0, <2>2, <2>3, Pending, FitUnless
<1>10. ASSUME NEW h \in Handlers, Staff!CommitDeactivate(h) PROVE FitToSign'
  <2> DEFINE u == asked[h].user
             row == [user[u] EXCEPT !.active = FALSE]
  <2>1. u \in Users /\ user[u] \in Staff!UserRow
    BY <1>10, RequestKinds DEF Staff!CommitDeactivate, Staff!TypeOK
  <2>2. row \in Staff!UserRow /\ row.exists = user[u].exists
    BY <2>1 DEF Staff!UserRow
  <2>3. /\ user' = [user EXCEPT ![u] = row] /\ Staff!Demotes(u, row)
        /\ Staff!Done(h) /\ UNCHANGED <<bank, unfit>>
    BY <1>10 DEF Staff!CommitDeactivate
  <2> HIDE DEF row, u
  <2>4. Keeps
    BY <2>1, <2>2, <2>3, Replaced
  <2> QED
    BY <1>0, <2>3, <2>4, Pending, FitUnless
<1>11. ASSUME NEW u \in Users, Staff!Activate(u) PROVE FitToSign'
  <2>1. Keeps
    BY <1>11 DEF Staff!Activate, Keeps, Suitable, Certain, Staff!Eligible, Staff!IsEmployee,
                  Staff!TypeOK, Staff!UserRow
  <2> QED
    BY <1>11, <2>1, FitUnless DEF Staff!Activate
<1>12. ASSUME NEW u \in Users, NEW role \in UNION Grants, Staff!ScriptGrant(u, role) PROVE FitToSign'
  <2> DEFINE row == [user[u] EXCEPT !.exists = TRUE, !.active = TRUE, !.roles = @ \cup {role}]
  <2>1. row \in Staff!UserRow /\ row.exists
    BY GrantedRoles DEF Staff!TypeOK, Staff!UserRow
  <2>2. Staff!Overwrite(u, row) /\ UNCHANGED <<bank, asked, unfit>>
    BY <1>12 DEF Staff!ScriptGrant
  <2> HIDE DEF row
  <2>3. Keeps
    BY <2>1, <2>2, Replaced DEF Staff!Overwrite
  <2> QED
    BY <2>2, <2>3, FitUnless
<1>13. ASSUME NEW u \in Users, Staff!ScriptDeactivate(u) PROVE FitToSign'
  <2> DEFINE row == [user[u] EXCEPT !.active = FALSE]
  <2>1. row \in Staff!UserRow /\ row.exists = user[u].exists
    BY DEF Staff!TypeOK, Staff!UserRow
  <2>2. Staff!Overwrite(u, row) /\ UNCHANGED <<bank, asked, unfit>>
    BY <1>13 DEF Staff!ScriptDeactivate
  <2> HIDE DEF row
  <2>3. Keeps
    BY <2>1, <2>2, Replaced DEF Staff!Overwrite
  <2> QED
    BY <2>2, <2>3, FitUnless
<1>14. ASSUME NEW b \in Banks, Staff!CreateBank(b) \/ \E active \in BOOLEAN : Staff!SetBankActive(b, active)
       PROVE  FitToSign'
  <2>1. \A c \in Banks : bank'[c].signer = bank[c].signer
    BY <1>14 DEF Staff!CreateBank, Staff!SetBankActive, Staff!TypeOK, Staff!BankRow
  <2> QED
    BY <1>14, <2>1, RowsKept, FitUnless DEF Staff!CreateBank, Staff!SetBankActive
<1> QED
  BY <1>1, <1>2, <1>3, <1>4, <1>5, <1>6, <1>7, <1>8, <1>9, <1>10, <1>11, <1>12, <1>13, <1>14 DEF Staff!Next

(* The employee an agreement names to countersign is, when it is created,  *)
(* an active EMPLOYEE of no bank, unless an upsert, the script or a        *)
(* deactivation the creation was ahead of made him something else.         *)
THEOREM FitCountersigner == Staff!Spec => []CountersignerFit
<1>1. Staff!Init => FitToSign
  BY StaffAssumption DEF Staff!Staffed, Staff!Init, FitToSign, Staff!NoBank, Staff!Is, Staff!Idle
<1>2. FitToSign => CountersignerFit
  BY DEF FitToSign, CountersignerFit, Staff!CountersignerFit
<1> QED
  BY <1>1, <1>2, FitNext, StaffTypeCorrect, PTL DEF Staff!Spec


=============================================================================
