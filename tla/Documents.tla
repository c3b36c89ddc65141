----------------------------- MODULE Documents -----------------------------
(***************************************************************************)
(* One version of one agreement's document from its first bytes to the     *)
(* last signature: composition and preparation, the two phases of signing, *)
(* the write-once store on a network share that may not be mounted, and the*)
(* in-memory provider of development (documents.service.ts, documents/pdf, *)
(* storage.driver.ts, mock.provider.ts, mock-ceremony.controller.ts).      *)
(* Signing models who may sign when; here the bytes are the point.         *)
(***************************************************************************)
EXTENDS Pdf

CONSTANTS
  Handlers,     \* request handlers that may run at once
  Uploads,      \* kinds of agreement that are supplied: see Flat
  Markers,      \* disks that carry the marker file: by mistake, the local one too
  MaxEditions,  \* bound on the attempts to compose the document
  MaxFaults     \* bound on interrupted handlers and lost mounts

ASSUME DocumentsAssumption ==
  /\ Uploads \subseteq {"template", "plain", "signed"}
  /\ Markers \subseteq {"nas", "local"}
  /\ MaxEditions \in Nat /\ MaxFaults \in Nat

VARIABLES
  stage,    \* of the version: draft, waiting for the next party, its ceremony,
            \* executed, or ended by a failure or its deadline
  files,    \* what each disk holds: key to bytes
  mounted,  \* the share is mounted over the directory on local disk
  rows,     \* agreement_versions rows, oldest first; a hash is the bytes hashed
  tx,       \* esign_transactions rows, oldest first
  provider, \* the provider's Map, by transaction
  h,        \* what each handler still has to do
  edition,  \* documents composed so far; no two have the same bytes
  faults,
  stray     \* history: keys put when the share came or went after the check

store == <<files, mounted, stray>>
vars  == <<stage, store, rows, tx, provider, h, edition, faults>>

Disks     == {"nas", "local"}
Idle      == [pc |-> "idle"]
Before(party) == CASE party = "AGENT" -> 0 [] party = "EMPLOYEE" -> 1 [] party = "MD" -> 2
StateAfter(party) ==
  CASE party = "AGENT" -> "AGENT_SIGNED" [] party = "EMPLOYEE" -> "EMPLOYEE_SIGNED" [] party = "MD" -> "FINAL"

Init ==
  /\ stage = "draft"
  /\ files = [d \in Disks |-> <<>>] /\ mounted = TRUE /\ stray = {}
  /\ rows = <<>> /\ tx = <<>> /\ provider = <<>>
  /\ h = [p \in Handlers |-> Idle]
  /\ edition = 0 /\ faults = 0

Fault == faults < MaxFaults /\ faults' = faults + 1

-----------------------------------------------------------------------------
(* FilesystemStorageDriver.  Reading looks at whatever disk the root shows;*)
(* only put() asks for the store's health first, and writes in a later     *)
(* step, by a link() that fails when the name is taken.                    *)
Root          == IF mounted THEN "nas" ELSE "local"
Readable(key) == key \in DOMAIN files[Root]
Get(key)      == files[Root][key]

(* Mutant: the marker file alone vouches for the share.                    *)
Healthy_MarkerOnly == Root \in Markers

(* health(): the marker is there, and the root is on a device of its own.  *)
Healthy == Root \in Markers /\ mounted

Mount   == ~mounted /\ mounted' = TRUE
           /\ UNCHANGED <<stage, files, stray, rows, tx, provider, h, edition, faults>>
Unmount == mounted /\ mounted' = FALSE /\ Fault
           /\ UNCHANGED <<stage, files, stray, rows, tx, provider, h, edition>>

(* A handler has objects to put, then a transaction to commit.             *)
Object(key, pdf)   == [key |-> key, pdf |-> pdf]
Job(todo, commit)  == [pc |-> "put", todo |-> todo, checked |-> "no", commit |-> commit]
Busy(p)            == h[p] # Idle
Returns(p)         == h' = [h EXCEPT ![p] = Idle]

CheckHealth(p) ==
  /\ Busy(p) /\ h[p].todo # <<>> /\ h[p].checked = "no" /\ Healthy
  /\ h' = [h EXCEPT ![p].checked = Root]
  /\ UNCHANGED <<stage, store, rows, tx, provider, edition, faults>>

CanLink(p) == ~Readable(Head(h[p].todo).key)

Write(p) ==
  /\ Busy(p) /\ h[p].todo # <<>> /\ h[p].checked # "no" /\ CanLink(p)
  /\ LET o == Head(h[p].todo) IN
       /\ files' = [files EXCEPT ![Root] =
            [key \in DOMAIN @ \cup {o.key} |-> IF key = o.key THEN o.pdf ELSE @[key]]]
       /\ stray' = IF Root = h[p].checked THEN stray ELSE stray \cup {o.key}
  /\ h' = [h EXCEPT ![p].todo = Tail(@), ![p].checked = "no"]
  /\ UNCHANGED <<stage, mounted, rows, tx, provider, edition, faults>>

PutRefused(p) ==
  /\ Busy(p) /\ h[p].todo # <<>>
  /\ IF h[p].checked # "no" THEN ~CanLink(p) ELSE ~Healthy
  /\ Returns(p)
  /\ UNCHANGED <<stage, store, rows, tx, provider, edition, faults>>

(* The handler dies, or its disk, provider or database refuses: whatever   *)
(* it put in the store stays there, its database transaction does not.     *)
Interrupted(p) ==
  /\ Busy(p) /\ Fault /\ Returns(p)
  /\ UNCHANGED <<stage, store, rows, tx, provider, edition>>

-----------------------------------------------------------------------------
(* composeFromUpload and generate.  The composed file is new bytes on every*)
(* attempt, for it is dated.  A signature inside a supplied PDF is copied  *)
(* with its page; its ByteRange no longer means anything.                  *)
Flat(kind, e) ==
  << [num \in IF kind = "signed" THEN 1..2 ELSE 1..1 |->
        IF num = 1 THEN Page(e) ELSE SigObject(0, [signer |-> "other", digest |-> <<>>])] >>

Artifacts(kind) == IF kind = "template" THEN << <<"GENERATED_UNSIGNED">> >>
                   ELSE << <<"UPLOADED_SOURCE">>, <<"COMPOSED_UNSIGNED">> >>

Compose(p, kind) ==
  /\ h[p] = Idle /\ edition < MaxEditions /\ edition' = edition + 1
  /\ stage = "draft"
  /\ LET flat  == Flat(kind, edition')
         early == [i \in DOMAIN Artifacts(kind) |-> Object(Artifacts(kind)[i], flat)]
         last  == Object(<<"PREPARED_UNSIGNED">>, Prepare(flat))
     IN h' = [h EXCEPT ![p] = Job(Append(early, last), [what |-> "compose", pdf |-> last.pdf])]
  /\ UNCHANGED <<stage, store, rows, tx, provider, faults>>

AddRow(state, key, pdf) == rows' = Append(rows, [state |-> state, key |-> key, pdf |-> pdf])

CommitCompose(p) ==
  /\ Busy(p) /\ h[p].todo = <<>> /\ h[p].commit.what = "compose"
  /\ stage = "draft" /\ stage' = "waiting"
  /\ AddRow("UNSIGNED", <<"PREPARED_UNSIGNED">>, h[p].commit.pdf)
  /\ Returns(p)
  /\ UNCHANGED <<store, tx, provider, edition, faults>>

-----------------------------------------------------------------------------
(* beginSignature and createTransaction, for the party whose turn it is.   *)
(* The stage says so first; the slot is then parked under the digest's     *)
(* name, unless it already is.  The bytes read are not compared with the   *)
(* hash of the row.                                                        *)
OpenTx      == {t \in DOMAIN tx : tx[t].status = "PENDING_SIGNER"}
Turn(party) == Len(rows) = Before(party) + 1

(* Mutant: whoever is not the agent signs in the MD's widget.              *)
FieldOf_TwoParty(party) == IF party = "AGENT" THEN "GTIDS_Agent" ELSE "GTIDS_MD"

FieldOf(party) == SIGNATURE_FIELDS(party)

BeginSignature(p, party) ==
  /\ h[p] = Idle /\ Turn(party)
  /\ stage = "waiting" /\ stage' = "signing"
  /\ LET source == Last(rows).key IN
       IF Readable(source) /\ ~AlreadySigned(Get(source), FieldOf(party))
       THEN LET slot == PrepareSlot(Get(source), FieldOf(party))
                key  == <<"pending", party, slot.digest>>
                todo == IF Readable(key) THEN <<>> ELSE <<Object(key, slot.pdf)>>
            IN h' = [h EXCEPT ![p] = Job(todo, [what |-> "begin", party |-> party,
                                                 digest |-> slot.digest, key |-> key])]
       ELSE UNCHANGED h
  /\ UNCHANGED <<store, rows, tx, provider, edition, faults>>

(* initiateSigning registers the digest with the provider.                 *)
CommitBegin(p) ==
  /\ Busy(p) /\ h[p].todo = <<>> /\ h[p].commit.what = "begin"
  /\ tx' = Append(tx, [party |-> h[p].commit.party, digest |-> h[p].commit.digest,
                       key |-> h[p].commit.key, status |-> "PENDING_SIGNER"])
  /\ provider' = Append(provider, [status |-> "PENDING_SIGNER", der |-> Gap])
  /\ Returns(p)
  /\ UNCHANGED <<stage, store, rows, edition, faults>>

-----------------------------------------------------------------------------
(* The mock provider.  Its transactions live in the process.  A ceremony   *)
(* completes on the bytes parked; one that failed or timed out can still be*)
(* completed, while its page shows the buttons.                            *)
Known(t) == provider[t].status # "UNKNOWN_TRANSACTION"
Offered(t) == Known(t) /\ t \in OpenTx

CompleteCeremony(t) ==
  /\ Offered(t) /\ provider[t].status # "SIGNED"
  /\ Readable(tx[t].key) /\ CanReopen(Get(tx[t].key))
  /\ LET pdf == Get(tx[t].key)
     IN provider' = [provider EXCEPT ![t] = [status |-> "SIGNED",
          der |-> [signer |-> tx[t].party, digest |-> SignedContent(pdf, Slot(pdf))]]]
  /\ UNCHANGED <<stage, store, rows, tx, h, edition, faults>>

(* failCeremony, or getStatus past the ceremony's TTL.                     *)
FailCeremony(t) ==
  /\ Offered(t) /\ provider[t].status # "FAILED"
  /\ provider' = [provider EXCEPT ![t].status = "FAILED"]
  /\ UNCHANGED <<stage, store, rows, tx, h, edition, faults>>

Restart ==
  /\ \E t \in DOMAIN provider : Known(t)
  /\ provider' = [t \in DOMAIN provider |-> [status |-> "UNKNOWN_TRANSACTION", der |-> Gap]]
  /\ h' = [p \in Handlers |-> Idle]
  /\ UNCHANGED <<stage, store, rows, tx, edition, faults>>

-----------------------------------------------------------------------------
(* completeSignature, entered by the callback or the reconciliation job    *)
(* while the transaction is open: the parked bytes must be the ones whose  *)
(* digest was sent, and every signature must verify before the result is   *)
(* stored.                                                                 *)
SetTxStatus(t, s) == tx' = [tx EXCEPT ![t].status = s]

Reopens(t) == Readable(tx[t].key) /\ CanReopen(Get(tx[t].key))
DigestHolds(t) == LET pdf == Get(tx[t].key) IN SignedContent(pdf, Slot(pdf)) = tx[t].digest
Signed(t, der) == EmbedSignature(Get(tx[t].key), der)
Holds(t, der) ==
  DigestHolds(t) /\ IntegrityAfterSigning(Signed(t, der), Before(tx[t].party) + 1)

CompleteSignature(p, t) ==
  /\ h[p] = Idle /\ t \in OpenTx /\ provider[t].status = "SIGNED" /\ Reopens(t)
  /\ Holds(t, provider[t].der)
  /\ LET signed == Signed(t, provider[t].der) IN
       h' = [h EXCEPT ![p] = Job(<<Object(<<StateAfter(tx[t].party)>>, signed)>>,
                                 [what |-> "complete", tx |-> t, pdf |-> signed])]
  /\ UNCHANGED <<stage, store, rows, tx, provider, edition, faults>>

(* markSigned overwrites whatever the transaction has become; only the     *)
(* workflow refuses an agreement that is not in the party's ceremony.      *)
CanRecord(t) == stage = "signing" /\ Turn(tx[t].party)

CommitSignature(p) ==
  /\ Busy(p) /\ h[p].todo = <<>> /\ h[p].commit.what = "complete"
  /\ LET t == h[p].commit.tx  after == StateAfter(tx[h[p].commit.tx].party) IN
       /\ CanRecord(t) /\ SetTxStatus(t, "SIGNED")
       /\ stage' = IF after = "FINAL" THEN "executed" ELSE "waiting"
       /\ AddRow(after, <<after>>, h[p].commit.pdf)
  /\ Returns(p)
  /\ UNCHANGED <<store, provider, edition, faults>>

CommitRefused(p) ==
  /\ Busy(p) /\ h[p].todo = <<>>
  /\ \/ h[p].commit.what = "compose" /\ stage # "draft"
     \/ h[p].commit.what = "complete" /\ ~CanRecord(h[p].commit.tx)
  /\ Returns(p)
  /\ UNCHANGED <<stage, store, rows, tx, provider, edition, faults>>

(* failSignature: the provider says so, or the integrity check refused.    *)
(* No route retries a ceremony; a correction starts another version.       *)
FailSignature(t) ==
  /\ t \in OpenTx
  /\ \/ provider[t].status \in {"FAILED", "UNKNOWN_TRANSACTION"}
     \/ provider[t].status = "SIGNED" /\ Reopens(t) /\ ~Holds(t, provider[t].der)
  /\ SetTxStatus(t, "FAILED")
  /\ stage' = IF stage = "signing" THEN "ended" ELSE stage
  /\ UNCHANGED <<store, rows, provider, h, edition, faults>>

HandlerStep(p) ==
  \/ \E kind \in Uploads : Compose(p, kind)
  \/ \E party \in Parties : BeginSignature(p, party)
  \/ \E t \in DOMAIN tx : CompleteSignature(p, t)
  \/ CheckHealth(p) \/ Write(p) \/ PutRefused(p)
  \/ CommitCompose(p) \/ CommitBegin(p) \/ CommitSignature(p) \/ CommitRefused(p)
  \/ Interrupted(p)

Next ==
  \/ \E p \in Handlers : HandlerStep(p)
  \/ \E t \in DOMAIN tx : (CompleteCeremony(t) \/ FailCeremony(t) \/ FailSignature(t))
  \/ Mount \/ Unmount \/ Restart

Spec == Init /\ [][Next]_vars

-----------------------------------------------------------------------------
(* A document the database names can be read from the share, with the      *)
(* bytes that were hashed, unless the share went away between the health   *)
(* check and the link of that very object (storage.driver.ts put).         *)
RecordedDocumentsReadable == \A i \in DOMAIN rows :
  \/ rows[i].key \in stray
  \/ (rows[i].key \in DOMAIN files["nas"] /\ files["nas"][rows[i].key] = rows[i].pdf)

(* Who has signed, in which widget, over what: the newest revision of each *)
(* party's widget names that party's own signature and no other.           *)
SignedBy(pdf, party) ==
  LET v == ReadObject(pdf, FindFieldByName(pdf, SIGNATURE_FIELDS(party))).v
  IN v # 0 /\ ReadObject(pdf, v).contents.signer = party

(* A recorded document is the one recorded before it with one revision     *)
(* appended; all its signatures verify, and exactly the parties whose turn *)
(* has passed have signed, each in its own widget (documents.service.ts    *)
(* completeSignature, incremental-signer.ts).  Unless bytes written to the *)
(* local disk by a put that lost the share resurfaced under a read.        *)
SignaturesStand == stray = {} => \A i \in DOMAIN rows :
  /\ i > 1 => rows[i - 1].pdf = Front(rows[i].pdf)
  /\ \A s \in FindSignatures(rows[i].pdf) : i > 1 => Valid(rows[i].pdf, s)
  /\ \A party \in Parties : SignedBy(rows[i].pdf, party) <=> Before(party) < i - 1

(* A signer who completes an open ceremony is never turned away: the       *)
(* parked bytes are on the share, reopen, have the digest that was sent,   *)
(* and pass the integrity check once the signature is embedded.  Not so    *)
(* for a document supplied with a signature of its own.                    *)
OpenCeremonyCanComplete == stage = "signing" => \A t \in OpenTx :
  \/ stray # {} \/ Cardinality(FindSignatures(rows[1].pdf)) > 0
  \/ /\ tx[t].key \in DOMAIN files["nas"] /\ CanReopen(files["nas"][tx[t].key])
     /\ LET pdf == files["nas"][tx[t].key]
            content == SignedContent(pdf, Slot(pdf))
        IN /\ content = tx[t].digest
           /\ IntegrityAfterSigning(
                EmbedSignature(pdf, [signer |-> tx[t].party, digest |-> content]),
                Before(tx[t].party) + 1)
=============================================================================
