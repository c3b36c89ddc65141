------------------------------- MODULE Portal -------------------------------
(***************************************************************************)
(* The portal: what a browser shows of an agreement, the buttons it offers *)
(* and the requests they post (web/src/app, web/src/components), against   *)
(* what the API then accepts (agreements.controller.ts,                    *)
(* signing.controller.ts, auth.guard.ts).  A page is a snapshot; between   *)
(* its loading and a press, and between what a handler reads and what it   *)
(* commits, other people, the provider and the expiry sweep go on.         *)
(***************************************************************************)
EXTENDS StateMachine, FiniteSets, Sequences, Naturals

CONSTANTS
  Browsers,        \* the browsers, one session and one open page each
  People,          \* the holders of an account
  RolesOf,         \* user_roles of each
  Named,           \* the person each signing party of the agreement names
  Linked,          \* the parties an access link has been issued to
  NONE,            \* null
  MaxVersion,      \* bound on current_version
  MaxHandlers      \* bound on the outcomes being handled at a time

Parties == {"AGENT", "EMPLOYEE", "MD"}

ASSUME RolesAssumption == RolesOf \in [People -> SUBSET (Role \ System)]
ASSUME NamedAssumption == Named \in [Parties -> People] /\ Linked \subseteq Parties
ASSUME VersionsAssumption == MaxVersion \in Nat \ {0}

(* An agreement_versions row: the version it is of, and who has signed it. *)
Document == [text : Nat, sigs : Seq(Parties)]

ASSUME NoneAssumption == NONE \notin Document

VARIABLES
  status, version, due, entered,   \* the agreement's row: see AgreementLifecycle
  requiresStamp, \* its type's requires_stamp
  stamped,     \* a stamp paper is allocated to it
  document,    \* the latest agreement_versions row of the current version
  ceremonies,  \* the open esign_transactions
  completing,  \* completeSignature in flight: the ceremony, the current_version it read
  failing,     \* failSignature in flight: the ceremony, the status it read
  signatures,  \* history: what each signature was put on, and what was shown, since the correction
  crossed,     \* history: a completion that had read an earlier version moved this one on
  session,     \* the token in each browser's cookie
  page,        \* the agreement page each browser shows
  request      \* what each browser's request has read and not yet committed

agreement == <<status, version, due, entered>>
paper     == <<requiresStamp, stamped>>
signing   == <<completing, failing, signatures, crossed>>
browser   == <<session, page, request>>
vars == <<agreement, paper, document, ceremonies, signing, browser>>

A        == "agreement"
Workflow == INSTANCE AgreementLifecycle WITH Agreements <- {A}, Requestable <- ServiceActions

TypeOK ==
  /\ Workflow!TypeOK
  /\ requiresStamp \in BOOLEAN /\ stamped \in BOOLEAN /\ crossed \in BOOLEAN
  /\ \A b \in Browsers : session[b] = NONE => page[b] = NONE /\ request[b] = NONE

Init ==
  /\ Workflow!Init
  /\ requiresStamp \in BOOLEAN /\ stamped = FALSE /\ document = NONE
  /\ ceremonies = {} /\ completing = {} /\ failing = {}
  /\ signatures = {} /\ crossed = FALSE
  /\ session = [b \in Browsers |-> NONE]
  /\ page    = [b \in Browsers |-> NONE]
  /\ request = [b \in Browsers |-> NONE]

-----------------------------------------------------------------------------
(* Sessions.  The token fixes the roles; a redeemed link gives the party's *)
(* role and name, and no account unless the party names one: the employee  *)
(* party always does, the two parties the portal's form sends never do.    *)

AccountSession(person) == [who |-> person, roles |-> RolesOf[person], party |-> NONE]
LinkSession(party)     == [who |-> Named[party], roles |-> {party}, party |-> party]

ServerUnchanged == UNCHANGED <<agreement, paper, document, ceremonies, signing>>

Login(b, person) ==
  /\ session[b] = NONE
  /\ session' = [session EXCEPT ![b] = AccountSession(person)]
  /\ ServerUnchanged /\ UNCHANGED <<page, request>>

RedeemPartyLink(b, party) ==
  /\ session[b] = NONE
  /\ session' = [session EXCEPT ![b] = LinkSession(party)]
  /\ ServerUnchanged /\ UNCHANGED <<page, request>>

(* Signing out, or the token's expiry: the layout sends the browser to the *)
(* login page.                                                             *)
EndSession(b) ==
  /\ session[b] # NONE /\ request[b] = NONE
  /\ session' = [session EXCEPT ![b] = NONE]
  /\ page' = [page EXCEPT ![b] = NONE]
  /\ ServerUnchanged /\ UNCHANGED request

-----------------------------------------------------------------------------
(* What the API requires, layer by layer.                                  *)

RouteRoles(act) ==
  CASE act \in {"GENERATE", "CORRECT"} -> {"AGENT"} \cup Admins
    [] act = "CANCEL"                  -> Admins
    [] OTHER                           -> Role       \* signing and rejecting: no @Roles

CanActivate(s, act) == s.roles \cap RouteRoles(act) # {}

Initiates(party) ==
  CASE party = "AGENT"    -> "AGENT_SIGN_INITIATE"
    [] party = "EMPLOYEE" -> "EMPLOYEE_SIGN_INITIATE"
    [] OTHER              -> "MD_SIGN_INITIATE"

ActorIsParty(s, party) ==
  IF s.party = NONE THEN s.who = Named[party] ELSE s.party = party

(* actor_id is a uuid that references users: the "party:" identity of a    *)
(* link to a party without an account cannot be written.                   *)
CanBeRecorded(s) == s.party \in {NONE, "EMPLOYEE"}

EmployeeStates  == {"PENDING_EMPLOYEE_SIGNATURE", "EMPLOYEE_SIGNING"}
RejectionEdge(s) == IF s \in EmployeeStates THEN "EMPLOYEE_REJECT" ELSE "REJECT"

Commits(s, act) == AssertTransition(status[A], act, s.roles, TRUE) /\ CanBeRecorded(s)

(* Mutant: the document presented is not compared.                         *)
MayBeginSigning_AnyDocument(s, party, presented) ==
  document # NONE /\ ActorIsParty(s, party)

(* initiateSignature before its first commit: FR-027, then BR-001.         *)
MayBeginSigning(s, party, presented) ==
  /\ document # NONE /\ document = presented
  /\ ActorIsParty(s, party)

-----------------------------------------------------------------------------
(* The page: the agreement is read first; its document, read next, is      *)
(* best effort, and reading it writes an audit record of the reader.       *)

AgreementDetail == [status |-> status[A], version |-> version[A], stamped |-> stamped,
                    document |-> NONE, loaded |-> FALSE]

DocumentUrl(s) == IF CanBeRecorded(s) THEN document ELSE NONE

OpenPage(b) ==
  /\ session[b] # NONE /\ request[b] = NONE
  /\ page' = [page EXCEPT ![b] = AgreementDetail]
  /\ ServerUnchanged /\ UNCHANGED <<session, request>>

LoadDocument(b) ==
  /\ page[b] # NONE /\ ~page[b].loaded
  /\ page' = [page EXCEPT ![b].loaded = TRUE,
                          ![b].document = IF page[b].status # "DRAFT"
                                          THEN DocumentUrl(session[b]) ELSE NONE]
  /\ ServerUnchanged /\ UNCHANGED <<session, request>>

Shown(b) == page[b] # NONE /\ page[b].loaded /\ request[b] = NONE

Can(b, act) == act \in AvailableActions(page[b].status, session[b].roles)

OffersSigning(b, party) == Can(b, Initiates(party)) /\ page[b].document # NONE

(* Mutant: rejecting as written for two parties.                           *)
OffersReject_MdOnly(b) == Can(b, "REJECT")

OffersReject(b)  == Can(b, "REJECT") \/ Can(b, "EMPLOYEE_REJECT")
OffersCorrect(b) == Can(b, "CORRECT")
OffersCancel(b)  == Can(b, "CANCEL")

(* The progress rail: each milestone from the state it starts at to the    *)
(* state it is done by, in the order of the workflow.                      *)
PROGRESS_ORDER ==
  <<"DRAFT", "READY_FOR_AGENT_SIGNATURE", "AGENT_SIGNING", "AGENT_SIGNED",
    "PENDING_EMPLOYEE_SIGNATURE", "EMPLOYEE_SIGNING", "EMPLOYEE_SIGNED",
    "PENDING_MD_SIGNATURE", "MD_SIGNING", "COMPLETED">>

(* indexOf, and 0 for the -1 of a status that is not in the list.          *)
At(s) == IF \E i \in 1..10 : PROGRESS_ORDER[i] = s
         THEN CHOOSE i \in 1..10 : PROGRESS_ORDER[i] = s ELSE 0

MILESTONE_RANGE ==
  [AGENT    |-> [starts |-> "READY_FOR_AGENT_SIGNATURE",  doneBy |-> "AGENT_SIGNED"],
   EMPLOYEE |-> [starts |-> "PENDING_EMPLOYEE_SIGNATURE", doneBy |-> "EMPLOYEE_SIGNED"],
   MD       |-> [starts |-> "PENDING_MD_SIGNATURE",       doneBy |-> "COMPLETED"]]

(* Mutant: a milestone is done from the state it starts at.                *)
MilestoneState_FromStart(s, m) ==
  IF s \in {"REJECTED", "CANCELLED", "EXPIRED"} THEN "stopped"
  ELSE IF At(s) >= At(MILESTONE_RANGE[m].starts) THEN "done" ELSE "pending"

MilestoneState(s, m) ==
  IF s \in {"REJECTED", "CANCELLED", "EXPIRED"} THEN "stopped"
  ELSE IF At(s) >= At(MILESTONE_RANGE[m].doneBy) THEN "done"
  ELSE IF At(s) >= At(MILESTONE_RANGE[m].starts) THEN "active" ELSE "pending"

(* The stamp picker and the upload and compose forms go by the status and  *)
(* the stamp alone.                                                        *)
OffersAllocate(b) == page[b].status = "DRAFT" /\ ~page[b].stamped
OffersCompose(b)  == page[b].status = "DRAFT" /\ page[b].stamped

-----------------------------------------------------------------------------
(* Requests.  Signing and rejecting read before they commit; what is read  *)
(* is kept in request.  A post that is refused changes nothing.            *)

PostSigning(b, party) ==
  /\ Shown(b) /\ OffersSigning(b, party)
  /\ MayBeginSigning(session[b], party, page[b].document)
  /\ request' = [request EXCEPT ![b] = [act |-> Initiates(party), party |-> party,
                                        version |-> version[A], source |-> document,
                                        shown |-> page[b].document]]
  /\ ServerUnchanged /\ UNCHANGED <<session, page>>

(* Carried out: revalidatePath has the page rendered anew.                 *)
Answered(b) ==
  /\ request' = [request EXCEPT ![b] = NONE]
  /\ page' = [page EXCEPT ![b] = NONE]
  /\ UNCHANGED session

(* The state changes, then the ceremony is opened, unless the field is     *)
(* signed or the party has one open on that version.                       *)
CommitSigning(b) ==
  LET r == request[b] IN
  /\ r # NONE /\ r.act # "REJECT" /\ Commits(session[b], r.act)
  /\ Workflow!Transition(A, r.act)
  /\ ceremonies' = ceremonies \cup
       {c \in {[party |-> r.party, version |-> r.version, source |-> r.source, shown |-> r.shown,
                opened |-> version[A]]} :
          /\ \A i \in DOMAIN r.source.sigs : r.source.sigs[i] # r.party
          /\ \A d \in ceremonies : <<d.party, d.version>> # <<r.party, r.version>>}
  /\ Answered(b)
  /\ UNCHANGED <<paper, document, signing>>

PostReject(b) ==
  /\ Shown(b) /\ OffersReject(b)
  /\ request' = [request EXCEPT ![b] = [act |-> "REJECT", edge |-> RejectionEdge(status[A])]]
  /\ ServerUnchanged /\ UNCHANGED <<session, page>>

CommitReject(b) ==
  /\ request[b] # NONE /\ request[b].act = "REJECT" /\ Commits(session[b], request[b].edge)
  /\ Workflow!TransitionClearingDeadline(A, request[b].edge)
  /\ Answered(b)
  /\ UNCHANGED <<paper, document, ceremonies, signing>>

Refused(b) ==
  /\ request[b] # NONE
  /\ ~Commits(session[b], IF request[b].act = "REJECT" THEN request[b].edge ELSE request[b].act)
  /\ request' = [request EXCEPT ![b] = NONE]
  /\ ServerUnchanged /\ UNCHANGED <<session, page>>

PostCorrect(b) ==
  /\ Shown(b) /\ OffersCorrect(b)
  /\ CanActivate(session[b], "CORRECT") /\ Commits(session[b], "CORRECT")
  /\ Workflow!Correct(A)
  /\ document' = NONE /\ signatures' = {} /\ crossed' = FALSE
  /\ ceremonies' = {c \in ceremonies : c.version # version[A]}
  /\ Answered(b)
  /\ UNCHANGED <<paper, completing, failing>>

PostCancel(b) ==
  /\ Shown(b) /\ OffersCancel(b)
  /\ CanActivate(session[b], "CANCEL") /\ Commits(session[b], "CANCEL")
  /\ Workflow!Transition(A, "CANCEL")
  /\ Answered(b)
  /\ UNCHANGED <<paper, document, ceremonies, signing>>

(* Allocating and composing, each in one step: Drafting and Signing have   *)
(* the steps between.                                                      *)
PostAllocate(b) ==
  /\ Shown(b) /\ OffersAllocate(b)
  /\ CanActivate(session[b], "GENERATE") /\ CanBeRecorded(session[b])
  /\ status[A] = "DRAFT" /\ ~stamped
  /\ stamped' = TRUE
  /\ Answered(b)
  /\ UNCHANGED <<agreement, requiresStamp, document, ceremonies, signing>>

PostCompose(b) ==
  /\ Shown(b) /\ OffersCompose(b)
  /\ CanActivate(session[b], "GENERATE") /\ Commits(session[b], "GENERATE")
  /\ requiresStamp => stamped
  /\ document = NONE
  /\ Workflow!Transition(A, "GENERATE")
  /\ document' = [text |-> version[A], sigs |-> <<>>]
  /\ Answered(b)
  /\ UNCHANGED <<paper, ceremonies, signing>>

-----------------------------------------------------------------------------
(* The provider's outcome, and the sweep.  What completeSignature and       *)
(* failSignature read of the agreement, they read before they lock it, and *)
(* the transaction's status they do not look at again: a correction or     *)
(* another outcome may come between.  One that throws changes nothing, and *)
(* is here one that is not yet done.  Signing has the steps within.        *)

SigningState(party) == To(Initiates(party))
Turn(party) == CASE party = "AGENT" -> 0 [] party = "EMPLOYEE" -> 1 [] OTHER -> 2

FailureOf(s) ==
  CASE s = "AGENT_SIGNING"    -> "AGENT_SIGN_FAIL"
    [] s = "EMPLOYEE_SIGNING" -> "EMPLOYEE_SIGN_FAIL"
    [] OTHER                  -> "MD_SIGN_FAIL"

Handling == Cardinality(completing) + Cardinality(failing)

CompletionBegins(c) ==
  /\ Handling < MaxHandlers
  /\ completing' = completing \cup {[ceremony |-> c, version |-> version[A]]}
  /\ UNCHANGED <<agreement, paper, document, ceremonies, failing, signatures, crossed, browser>>

FailureBegins(c) ==
  /\ Handling < MaxHandlers
  /\ failing' = failing \cup {[ceremony |-> c, status |-> status[A]]}
  /\ UNCHANGED <<agreement, paper, document, ceremonies, completing, signatures, crossed, browser>>

Closed(c) == ceremonies' = ceremonies \ {c}

(* The signed document is a row of the version that was read.              *)
DocumentAfter(w) ==
  IF w.version = version[A]
  THEN [w.ceremony.source EXCEPT !.sigs = Append(@, w.ceremony.party)] ELSE document

CeremonySigned(w) ==
  LET c == w.ceremony IN
  /\ Len(c.source.sigs) = Turn(c.party)
  /\ CASE c.party = "AGENT"    -> Workflow!Chain(A, "AGENT_SIGN_SUCCEED", "ADVANCE_TO_EMPLOYEE")
       [] c.party = "EMPLOYEE" -> Workflow!Chain(A, "EMPLOYEE_SIGN_SUCCEED", "ADVANCE_TO_MD")
       [] OTHER                -> Workflow!TransitionClearingDeadline(A, "MD_SIGN_SUCCEED")
  /\ document' = DocumentAfter(w)
  /\ signatures' = signatures \cup {[party |-> c.party, on |-> c.source, shown |-> c.shown]}
  /\ crossed' = (crossed \/ w.version # version[A])
  /\ Closed(c) /\ completing' = completing \ {w}
  /\ UNCHANGED <<paper, failing, browser>>

(* SignatureIntegrityError: the attempt is failed, as any other is.        *)
IntegrityAlert(w) ==
  /\ Len(w.ceremony.source.sigs) # Turn(w.ceremony.party)
  /\ completing' = completing \ {w}
  /\ failing' = failing \cup {[ceremony |-> w.ceremony, status |-> status[A]]}
  /\ UNCHANGED <<agreement, paper, document, ceremonies, signatures, crossed, browser>>

(* A failed ceremony fails whichever signing state the agreement was in.   *)
CeremonyFailed(w) ==
  /\ \/ status[A] = w.status /\ Workflow!Transition(A, FailureOf(w.status))
     \/ w.status \notin {SigningState(party) : party \in Parties} /\ UNCHANGED agreement
  /\ Closed(w.ceremony) /\ failing' = failing \ {w}
  /\ UNCHANGED <<paper, document, completing, signatures, crossed, browser>>

SweepExpires ==
  /\ Workflow!Transition(A, "EXPIRE")
  /\ UNCHANGED <<paper, document, ceremonies, signing, browser>>

-----------------------------------------------------------------------------
Next ==
  \/ \E b \in Browsers :
       \/ \E person \in People : Login(b, person)
       \/ \E party \in Linked : RedeemPartyLink(b, party)
       \/ \E party \in Parties : PostSigning(b, party)
       \/ EndSession(b) \/ OpenPage(b) \/ LoadDocument(b)
       \/ CommitSigning(b) \/ PostReject(b) \/ CommitReject(b) \/ Refused(b)
       \/ PostCorrect(b) \/ PostCancel(b) \/ PostAllocate(b) \/ PostCompose(b)
  \/ \E c \in ceremonies : CompletionBegins(c) \/ FailureBegins(c)
  \/ \E w \in completing : CeremonySigned(w) \/ IntegrityAlert(w)
  \/ \E w \in failing : CeremonyFailed(w)
  \/ SweepExpires

Spec == Init /\ [][Next]_vars

-----------------------------------------------------------------------------
(* Properties.                                                             *)

(* FR-027: a signature is put on the very document the signer's page       *)
(* showed, whatever was rejected, corrected, composed or signed between    *)
(* the page's loading and the provider's outcome.                          *)
SignedAsShown ==
  \A s \in signatures : s.on = s.shown

(* The page shows what the agreement now is.                               *)
Fresh(b) ==
  /\ Shown(b)
  /\ <<page[b].status, page[b].version, page[b].stamped>> = <<status[A], version[A], stamped>>
  /\ page[b].document \in {document, NONE}

Posts == {Initiates(party) : party \in Parties} \cup
         {"REJECT", "CORRECT", "CANCEL", "ALLOCATE", "GENERATE"}

Offers(b, post) ==
  CASE post = "REJECT"   -> OffersReject(b)
    [] post = "CORRECT"  -> OffersCorrect(b)
    [] post = "CANCEL"   -> OffersCancel(b)
    [] post = "ALLOCATE" -> OffersAllocate(b)
    [] post = "GENERATE" -> OffersCompose(b)
    [] OTHER             -> \E party \in Parties : post = Initiates(party) /\ OffersSigning(b, party)

Accepts(s, post) ==
  CASE post = "REJECT"   -> Commits(s, RejectionEdge(status[A]))
    [] post = "ALLOCATE" -> /\ CanActivate(s, "GENERATE") /\ CanBeRecorded(s)
                            /\ status[A] = "DRAFT" /\ ~stamped
    [] post = "GENERATE" -> /\ CanActivate(s, post) /\ Commits(s, post)
                            /\ requiresStamp => stamped
    [] post \in {"CORRECT", "CANCEL"} -> CanActivate(s, post) /\ Commits(s, post)
    [] OTHER             -> /\ \E party \in Parties :
                                 post = Initiates(party) /\ MayBeginSigning(s, party, document)
                            /\ Commits(s, post)

(* The offers the API is known to refuse: signing, to a holder of the role *)
(* whom the agreement does not name; the drafting forms, to whoever may    *)
(* not draft; anything, to a link without an account.                      *)
OfferedInVain(s, post) ==
  \/ \E party \in Parties : post = Initiates(party) /\ ~ActorIsParty(s, party)
  \/ post \in {"ALLOCATE", "GENERATE"} /\ ~CanActivate(s, "GENERATE")
  \/ ~CanBeRecorded(s)

(* The offer the API is known to accept and the portal to withhold: both   *)
(* forms wait for a stamp, that the agreement's type may not require.      *)
Withheld(post) == post = "GENERATE" /\ ~requiresStamp /\ ~stamped

(* The portal never re-implements the rules: on a page that is up to date, *)
(* what the API would accept is offered, and what is offered is accepted,  *)
(* but for the offer withheld and the three kinds made in vain.            *)
OffersWhatTheApiAccepts ==
  \A b \in Browsers, post \in Posts :
    Fresh(b) =>
      /\ Accepts(session[b], post) => Offers(b, post) \/ Withheld(post)
      /\ Offers(b, post) => Accepts(session[b], post) \/ OfferedInVain(session[b], post)

(* The rail on the page tells the truth of the document: a signing         *)
(* milestone is shown done only when the party's signature is on the       *)
(* current version's document and, while the agreement is under way, not   *)
(* before and not after; unless a completion that had read an earlier      *)
(* version, its correction in between, moved the current one on.           *)
MilestonesTellTheTruth ==
  \A m \in Parties :
    LET signed == document # NONE /\ \E i \in DOMAIN document.sigs : document.sigs[i] = m
        shown  == MilestoneState(status[A], m)
    IN \/ crossed
       \/ /\ shown = "done" => signed
          /\ signed /\ status[A] # "SIGNATURE_FAILED" => shown \in {"done", "stopped"}

=============================================================================
