# GTIDS online agreement portal: formal models

The portal executes a three-party agreement electronically. An agent prepares a
document on stamp paper, then the agent, a GTIDS employee and the MD sign it, in
that order, each in a ceremony at an external e-sign provider. This directory
holds TLA+ models of the API and its worker (`src/api/src`,
`src/api/migrations`) and of the parts of the web client (`src/web/src`) that
decide what a person may press, the TLC configurations that check them, and
TLAPS proofs.

## Inventory

| Component | State it keeps | Operations | Correct when |
|---|---|---|---|
| State machine (`workflow/state-machine.ts`) | none | `assertTransition`, `availableActions`, `pendingSigner` | one path leads through the signers, in order |
| Workflow engine (`workflow/workflow.service.ts`) | `agreements.status`, `current_version`, `expires_at`; `workflow_transitions` | `transition`, `transitionChain`, `correct`, `findExpired` | transitions of one agreement are serial; every wait has a deadline; ended is final |
| Signing (`signing/signing.service.ts`) | none of its own | `initiateSignature`, `completeSignature`, `failSignature`, `reject` | state and document agree |
| e-Sign (`esign/esign.service.ts`) | `esign_transactions`, `esign_callback_events` | `createTransaction`, `ingestCallback`, `markSigned`, `markFailed`, `openTransactions` | one open ceremony per signer and version; an event is applied once; a signed row is final |
| Jobs (`jobs/scheduled-jobs.service.ts`) | none | reconcile, expire, dispatch, remind, verify chains, verify documents | what a request or callback leaves undone is finished |
| Documents and storage (`documents/`) | `agreement_versions`, `agreement_documents`, objects | `generate`, `composeFromUpload`, `beginSignature`, `completeSignature`, `put` | an object is written once and can be read; a document is its predecessor and one more signature |
| PDF pipeline (`documents/pdf/`) | none | `prepare`, `prepareSignatureSlot`, `reopenSignatureSlot`, `embedSignature`, `verify` | a later signature leaves the earlier ones valid |
| Agreements (`agreements/agreements.service.ts`) | `agreements.data`, parties | `create`, `updateDraft`, `allocateStamp`, generation, `cancel`, `correct` | a draft is editable, what was generated is not |
| Templates (`templates/templates.service.ts`, `documents/pdf/renderer.ts`) | `agreement_template_versions` | `createVersion`, `approveVersion`, `retireVersion`, `mergeTemplate` | an agreement is made from an approved text, with every blank filled |
| Stamps (`stamps/`) | `stamp_papers`, `stamp_identifiers`, `stamp_allocations` | reading a scan, `register`, `allocate`, `markUsed`, `release` | a paper is entered once and serves one agreement |
| Notifications (`notifications/notifications.service.ts`) | `notifications`, `notification_recipients` | `enqueue`, `dispatchPending`, `sendDueReminders` | a mail per committed completion, and only then |
| Audit (`audit/audit.service.ts`, migration 009) | `audit_logs`, hash-chained by a trigger | `record`, `verifyChain` | a broken chain is found, a whole one is not reported broken |
| Numbering (migrations 010, 017) | counter rows | `next_agreement_number`, `next_execution_reference` | no gap, no number twice |
| Banks (`banks/banks.service.ts`) | banks, countersigners, texts | creation, designation, `uploadDocument` | a countersigner is fit to countersign; the next text can be stored |
| Users, sessions, party access (`users/`, `auth/`, `scripts/create-user.ts`) | users, roles, single-use tokens | upsert, deactivation, login, redemption | an administrator remains; a link works once |
| Web client (`src/web/src`) | a session cookie, the page shown | the buttons and forms of an agreement, the stamp form, the progress rail | it offers what the API accepts and shows what is true |
| Verification and reports | none | reads | see Findings |

How they interact. A request handler runs in an API instance, the jobs in a
worker; they share PostgreSQL and the object store and nothing else. Signing
calls the workflow, the document store and the e-sign service, and joins their
writes in one database transaction, in which mails are queued and audit records
appended too. The provider calls back over HTTP; the callback is claimed in a
ledger, answered, and applied in the background. The jobs call the same signing
and workflow code. The web client is a server that renders pages from the API's
answers and posts what is pressed on them.

What is hard:

* *Stale reads.* Handlers read the agreement, its version and the document
  without a lock, talk to the provider or the store, and only then open the
  transaction that locks the row. Pages are read earlier still.
* *Partial failure.* The object store takes no part in the transaction. A throw
  or a crash after `put` leaves the object behind, and `put` refuses the same
  key again.
* *Two drivers.* Callback and reconciliation job may complete the same ceremony;
  dispatch passes may overlap.
* *Time.* The sweep may expire an agreement at any moment of a ceremony; a
  financial year or a month may turn between two steps.
* *Crashes* between the three commits of `initiateSignature`, between the claim
  of a callback and its application, between a mail and the record of it.
* *Locks.* `lockAgreement`, the foreign keys of every insert that refers to the
  agreement, the ceremony's row and the head of the audit chain: the handlers take
  these locks in different orders.

## Modules

| Module | Models |
|---|---|
| `StateMachine` | the transition table and its functions; pure |
| `AgreementLifecycle` | what the workflow promises: each committed transition one step. The abstract specification |
| `Signing` | the signing pipeline: what each handler reads, stores and commits, the provider, the callback, the two jobs, interruptions, time. Implements `AgreementLifecycle` |
| `Drafting` | stamp allocation, draft edits and generation, over `AgreementLifecycle` |
| `Pdf` | a signed PDF as revisions of numbered objects, and the digests taken over them; pure |
| `Documents` | one version's document from its first bytes to the third signature, on `Pdf`, with the store, the share and the development provider |
| `AuditChain` | the trigger's chain, the locks of the transactions that append, and the verification that reads while it grows |
| `Outbox` | mails queued with the state change, dispatch passes, reminders |
| `Administration` | users, roles, banks, countersigners and who an agreement names |
| `Registers` | numbers, references, the versions of a bank's text, single-use links |
| `Templates` | the versions of a template, and agreements made from them |
| `StampIntake` | a paper's way into the inventory: reading, confirming, registering |
| `Portal` | two browsers with an agreement's page, over `AgreementLifecycle` |
| `MC...` | the instances for TLC; `MCRegisters` has `Registers` and `Templates`, `MCPeople` has `Portal` and `Administration`, `MCDrafting` has `Drafting` and `StampIntake`, side by side |
| `LifecycleProofs`, `SigningProofs`, `DraftingProofs`, `RegistersProofs`, `AuditChainProofs`, `OutboxProofs`, `DocumentsProofs`, `PeopleProofs` | theorems and proofs |

`AgreementLifecycle` is the hub: `Signing`, `Drafting` and `Portal` keep its
variables, and whatever moves an agreement in them is one of its operators.
All three are proved to implement it.

### How state and actions correspond to the code

A database transaction is one action, since `SELECT ... FOR UPDATE` or a unique
index serialises it. What a handler reads before is kept in its record (`h[p]`,
`request[h]`, `pending[h]`, `job`, `pass[p]`) and used, stale or not, when it
commits. A guard that fails is a refusal: the transaction rolls back, and what
was stored outside it stays. `Interrupt`, `GivesUp`, `Abandon`, `Rollback` and
their like are a crash or a failure of a service at that step.

`AgreementLifecycle`. `status`, `version` and `due` are columns of `agreements`
(`due` keeps of `expires_at` whether it is null, ahead or behind the clock);
`entered` is the set of `to_state`s in the current version's
`workflow_transitions`. `Transition` is `WorkflowService.transition`, `Chain` is
`transitionChain`, `TransitionClearingDeadline` is a transition whose caller
patches `expires_at` to null, `Correct` is `correct`. The constant `Requestable`
is the set of actions some route or job asks for; in the code it is every action
but the three `RETRY` ones.

`Signing`. Each handler is a sequence of steps named by `pc`:

| Handler | Steps |
|---|---|
| generation | `prepare` (store the document as supplied, before anything is made of it), `generate` (compose, which may throw: `CannotCompose`; or rows and `GENERATE`) |
| `initiateSignature` | `initiate` (transition), `create` (provider and row), `park` (`pending_file_key`) |
| `completeSignature` | `embed` (store the signed object), `sign` (rows, transaction `SIGNED`, transitions) |
| `failSignature` | `fail` |

A step whose guard fails throws (`Refused`); in the job the rest of the pass is
lost. `Bytes` is a document reduced to the version whose text it is and the
signatures in it; `files` is the set of keys in storage, a key including the
month in which it was made, as `objectKey` does. `provider` is the provider's
record, external. Two variables are history: `crossed`, some handler wrote of the
agreement with a version that was no longer current, and `uncomposed`, the drafts
for which an attempt stored a document that could not be composed. Requests that consist of
one transaction (`cancel`, `correct`, `reject`) are one action; `reject` picks
its edge by an unlocked read, but the two edges start from disjoint states, so
no stale pick can commit.

`Drafting`. `papers` is the status of each `stamp_papers` row, `held` the rows of
`stamp_allocations` (none is ever released), `data` the fields of
`agreements.data` that have their value, `docs` the documents generated, each
with the data it was composed from and the scan it is printed on. Allocation,
edit and generation read without a lock (`Begin...`) and decide in a transaction
(`Commit...`), whose guard (`CanAllocate`, `CanEdit`, `CanGenerate`) is what the
row locks, unique indexes and triggers enforce. An edit is a field given its value:
`updateDraft` merges the patch into the data it read and writes the whole, so a
second one open at the same time may undo it. `acked` and `overlapped` are history:
the fields whose editor was told that they are saved, and the agreements an edit of
which was open while another edit or a generation committed. Whether a scan can be read is
the environment's choice (`LoadStampScan`). Everything else that happens to an
agreement is a step of `AgreementLifecycle` that leaves drafts and stamps alone
(`Elsewhere`) or consumes the stamp (`Complete`).

`Pdf` and `Documents`. A PDF is a sequence of revisions, each a function from
object numbers to bodies; the newest body of a number wins, as in
`parseDocument`. A digest is the revisions it was computed over, so two digests
are equal exactly when the bytes are. `files` has two disks: the share, and the
local directory that shows when the share is not mounted. `put` is two steps,
the health check and the `link`, because the share may go in between (`stray`
remembers when it did). The provider is the in-memory one of the code base,
which forgets on `Restart`.

`AuditChain`. `writer[w]` is an open transaction: its kind, the locks it has and
what it has inserted. The kinds are a record written alone and five ways a
transition comes about, by the order in which they lock (`FirstLock`, `NextLock`).
`transition` and `correct` lock the agreements row first, `correct` then the
ceremony; `reject` has inserted a signature event before that, and so shares the
row; `completeSignature` has inserted a document and then marked the ceremony;
`failSignature` marks the ceremony and then inserts. The row has two modes, FOR
UPDATE and the FOR KEY SHARE of a foreign key (`WaitsFor`); the head is locked by
the trigger (`HoldsHead`). Ids are drawn before that, as a column default is. A
digest stands for what it covers: the digest before it and the record's content,
but not `ip_address` and `user_agent`, which migration 009 leaves out
(`origin`). `verifyChain` is two steps, one per query, and compares the
head by its count alone, as the code does. `Edit` is what can be done to a row
behind the trigger: it is removed, its content altered, an uncovered column altered
(`annotated`), or its content altered and the stored hashes made to fit again from
there up to some later row (`rewritten`). Left out: an edit of `audit_chain_heads`
itself, with which the count can be made to fit as well; that the trigger joins the
fields it hashes with no separator, so that moving text from one to the next is an
uncovered edit too; locks on other tables; and that a stream of sharers may hold up
a FOR UPDATE, since only `MaxId` records are drawn.

`Outbox`. `mail` is `notification_recipients` with the event of its
notification; `pass[p]` has the rows `dispatchPending` read, a set it works
through from the oldest; `job` the candidates `sendDueReminders` read. Time is
counted in the job's six-hour slots. The agreement is reduced to the stages mails
are about; `closed` is `status_at_close` of the versions that a correction closed,
and the version of a row is history, for a notification names the agreement only.
`Followed` says which mails to whom have rows; the others are alike. Which of the
waiting agreements are due for a reminder is any choice, deadlines and reminder
days being left out.

`Administration`. Every rule is checked by queries outside the write it guards,
so a request is `Begin...` and `Commit...`. The command-line script checks
nothing and is one step. `demoted`, `bypassed` and `unfit` are history.

`Registers`. `numbers` and `counters` are the counter rows, locked to the end of
the transaction that takes from them; `text[b]` relates a bank's rows to the keys
stored; `ClaimLink` is the one statement that claims a link. `Lpad` cuts a long
number as PostgreSQL's does, to its first digits; `Base` and `Capacity` are 10 and
1000 in the code (three digits) and both 3 in the run, where one digit runs out
after two completions.

`Templates`. A placeholder is declared and looked up under its whole name, and
merged as a path; `Data` keeps both views of `agreements.data`. Approval and
creation are two steps each.

`StampIntake`. `Read` chooses what is read of each identifier, `Proposal` is the
form as the portal fills it in, `Compare` the operator's corrections, `Confirm`
and `Register` the two halves of `register`: its look for a clash, and the insert
under the unique index.

`Portal`. `page[b]` is a snapshot: the agreement is read first and its document
next. `Offers...` are the conditions of the buttons and forms, `MayBeginSigning`
and `Commits` those of the routes and the workflow. A session is a login or a
redeemed link. Whether the type requires a stamp (`requiresStamp`) is asked by the
API and not by the forms. `completing` and `failing` are the provider's outcomes
being handled: what `completeSignature` read of the version, and `failSignature` of
the status, is kept from their beginning to their commit, a correction in between
included. `crossed` is history: a completion that had read an earlier version moved
the current one on.

## Runs

| Run | Bounds | Shows |
|---|---|---|
| `Lifecycle` | 2 agreements, 2 versions | order of signatures, deadlines, finality |
| `Signing` | 1 agreement, 1 version, 2 request handlers and the job, 3 transactions | an open ceremony is visible; every step is one of the abstract workflow's; with the sweep running, no ceremony lasts for ever |
| `SigningCorrected` | 2 versions, 1 handler and the job, 2 transactions | across a correction: state and document agree unless a handler straddled it; documents carry the signatures their state claims; a new draft can be generated, unless an earlier attempt could not compose what it stored; signed rows are final |
| `SigningRecovered` | 2 agreements, 1 version, 1 handler and the job, 2 transactions, 2 months, 1 interruption | a crash at any step, retried in the same month or the next, never parts state, document and transaction; without the sweep, a lost callback or a crashed handler is made good whatever goes on in the other agreement, unless the crash left an object stored or a ceremony unparked, or a transaction that is always refused ends every pass (`Blocking`) |
| `Drafting` | 2 agreements, one of them stamped, 2 versions, 2 handlers, 2 papers, 2 fields | a paper serves one agreement; every version is on the agreement's own paper; no saved edit is lost and the document holds the data as saved, unless requests overlapped |
| `AuditChain` | 2 chains, 2 writers and the job, 3 records, 1 edit | the chain is linear; an edit is found, but for two kinds; a false alarm has one of two causes; only three kinds of pairs deadlock; nobody waits for ever |
| `Outbox` | 1 agreement, 2 versions, 2 passes, 2 rows, 2 attempts, 5 slots, 1 interruption | a mail about an outcome is true of the version it is about, and an outcome has its mail; a duplicate has one of two causes; one reminder a day; every mail is sent or given up |
| `Administration` | 2 users, 1 bank, 2 requests, 1 use of the script | an administrator remains, and a countersigner is fit, with the exceptions below |
| `Registers` | 2 requests, 3 agreements, 2 years, 1 agent code, base 3 and capacity 3, 2 texts of a bank, 1 link; 1 version of a template, 2 administrators, 1 plain, 1 dotted and 1 system placeholder, 1 agreement | the register has no gaps; references and keys are free when needed; a link gives one session; an agreement is executed as its text was approved |
| `Documents` | 2 handlers, 2 attempts to compose, 1 fault | recorded documents can be read; signatures stand; an open ceremony can be completed |
| `Portal` | 2 browsers, 3 people, 1 link, 2 versions, a type with or without a stamp, 1 outcome handled at a time | a signature is on the document its signer saw; buttons and routes agree, with the exceptions below; the rail is true unless a completion straddled a correction |
| `StampIntake` | 2 papers, 2 operators, 2 rows, identifiers of three kinds | a paper is entered twice only if no identifier was right both times; a form is refused only for a cause |

Bounds. One version needs three ceremonies; three transactions let one version
complete in `Signing`. Two versions are one correction, which is all that separates
"read before" from "written after"; two transactions let one of version 1 outlive it
beside one of version 2. Agreements share the job's pass and nothing else in
`Signing`, so the run about the job, `SigningRecovered`, has two of them: one ends or
is stranded while the other waits for its callback. It is kept small by `Recovering`:
its agreements end by cancellation only, at any moment, which stands for rejection and
expiry too, as `Blocking` looks at whether an agreement has ended; and the month turns
only once something is stranded, when a retry depends on it. The proofs of the run's
safety properties know no such restriction, and the run `SigningCorrected` has
rejections and expiries. Every race in the code has two contenders: two handlers,
browsers, operators, passes or writers, with the job as a third where there is one. In
`Drafting` the second agreement stays a draft that nobody edits (`OneSigned`): it is
there to compete for the papers. Three records make the shortest chain in which one is
overtaken and another stands between. In `Outbox` the limit of a pass is 1 row (50 in
the code) and a row is given up after 2 attempts (5), enough for two overlapping
passes to write each other's count down. Two rows, of which one may keep the other
waiting, two versions, and as followed mails those about a rejection and a completion
to the agent: a version is rejected and the next one rejected again or completed. Four
slots are one day, and the fifth is on the next. In `Portal` one outcome is handled at
a time (`MaxHandlers`): the handler begun before a correction may outlive it, be
overtaken by a new ceremony and then commit, which is what crosses. Only a draft is
asked whether its type requires a stamp, so an agreement of a type that does not is
followed until its document is there (`StampedBeyondDraft`); and of the second version
one browser has the page while the other may still show the first
(`OneCorrectedPage`), two pages of one version being had in the first. A reference of
one digit in base 3 runs out at the third, where the code's runs out at the
thousandth. One fault or interruption at any step is retried by what remains.
`MCRegisters` gives every behaviour to one of its two modules, and `MCPeople` and
`MCDrafting` every run (`Subject`), since the two share nothing; their `ASSUME`s check
what `Administration` and `StampIntake` require of the constants. `CHECK_DEADLOCK
FALSE`: the systems stop when every agreement has ended or a bound is reached.

Fairness. `SweepRuns` (run `Signing`): the deadline passes, and the hourly sweep
runs and visits each agreement it listed. `JobRuns` and `HandlersRun` (run
`SigningRecovered`): the job begins, once a minute, with every transaction that
has been open long enough, so a transaction that stays open is in pass after pass
(strong fairness, for a pass begins only when the one before is over), and it is
visited if nothing throws before its turn; a handler that is not interrupted takes
its next step. Each run assumes only what its property is about, so that
neither job helps the other. `AuditChain`: strong fairness of a transaction's
next step, since PostgreSQL grants a lock in turn and its detector finds every
cycle. `Outbox`: the cron starts passes, and a pass that is not interrupted goes
on; whether a mail is taken is up to the transport. Nobody is made to sign, to
correct or to call back.

## Findings

Where the code does not do what its documents, comments or tests say, a property
states what does hold and names the exception. `PROJECT.json` quotes the lines.

Signing and jobs:

* A handler that reads one version and commits on another parts state and
  document (`StateMatchesDocumentUnlessCrossed`). It needs a handler to outlive
  an expiry, a correction, a generation and a new ceremony. Even then no
  under-signed document is recorded: `EveryDocumentFullySigned` holds, because
  `completeSignature` counts the signatures.
* The job cannot resolve a transaction whose agreement was expired, rejected or
  cancelled during the ceremony. Each refusal ends its pass, minute after minute, so
  it may keep every other agreement from being reconciled (`LostCallbackRecovered`
  excepts passes with such a transaction, `Blocking`).
* The upload is stored under its write-once key before it is composed. A PDF that
  is damaged or encrypted, or a scan that cannot be embedded, makes composing throw,
  and the next upload for that draft meets the key until the month turns
  (`DraftCanBeGenerated` excepts `uncomposed` drafts).
* The stale-view check and the transition it protects are not atomic. The
  signature is then refused by the count and the agreement goes to
  `SIGNATURE_FAILED`, which nothing but cancelling or expiry leaves.
* A crash can strand a ceremony until its deadline, and `Stranded` says exactly
  when: before the bytes are parked, or between storing the signed object and
  recording it, when every retry of that month meets a key that already exists.
* A document supplied with a signature of its own can never be signed
  (`OpenCeremonyCanComplete` excepts it). The development provider does not
  re-derive the digest it says it re-derives.
* The comment above the table says each waiting state has one inbound edge; the
  `RETRY` edges are a second one. `SequencingHolds` needs them not to be
  requested.

Drafts, texts and stamps:

* `updateDraft` checks `DRAFT` and reads the data without a lock, so an edit that
  overlaps a generation leaves the agreement's data different from its document, and
  of two edits that overlap one is lost (`DocumentIsTheRecord` excepts `overlapped`
  agreements). The trigger of BR-005 freezes at completion whichever data it is. A
  draft without a template version cannot be edited at all.
* Nothing calls `release`, so the paper of a cancelled agreement stays
  allocated, where FR-015b and the cancel dialog return it to the inventory.
* A stamp scan that cannot be read is passed over, and the document is generated
  without its first page (`OnItsOwnStamp`). The portal asks for a stamp even
  where the type needs none (`Withheld`, an exception of `OffersWhatTheApiAccepts`).
* When no certificate number is read, the form proposes one value twice, and the
  index refuses it as registered by someone else (`RefusedOnlyForCause`). A scan
  with a text layer is announced as exact.
* An approval that overlaps a retirement brings the text back
  (`ExecutedAsApproved`). A placeholder whose name has a dot passes both checks
  and is printed bare.

Who may do what:

* A link to a party without an account gives an identity the database cannot
  record: such a signer can open the page and do nothing (`CanBeRecorded`).
* Delegation is looked up for display only, so a delegate can never sign.
* Signing buttons go by role, the route by the party named; the drafting forms go
  by neither (`OfferedInVain`). `reject` does not ask for the party named.
* The rail shows a failed signature as nothing done, and goes by the status, so it
  shows as done a signature that the current version lacks when a completion
  straddled a correction (`MilestonesTellTheTruth` excepts both).
* An upsert, and two deactivations at once, can leave no administrator
  (`AdministratorRemains`). A countersigner may be made an agent after he was
  designated (`CountersignerFit`). The script pairs agents and banks as it likes.

Registers, mails, audit:

* The thousandth reference of an agent in a year is cut to one that exists
  (`NextReferenceIsFree`). An upload that fails after its first object blocks the
  bank's texts for good (`NextTextCanBeStored`). `bank_document_id` is never
  written.
* A row that failed five times is never sent, overlapping passes send twice and
  may mark a sent row `FAILED` (`DuplicatesExplained`), and the employee's stage
  has no reminders. A mail about a rejection may go out after the agreement was
  reopened (`MailsTellTheTruth` claims it of the version).
* A true audit chain can be reported broken (`FalseAlarmExplained`). Two edits are
  found by no verification (`EditDetected` excepts them): of `ip_address` and
  `user_agent`, which no hash covers, and of records whose hashes were recomputed up
  to the newest, since `head_hash` is never compared.
* Transactions on one agreement can deadlock, and one of them is then rolled back
  (`DeadlocksExplained`): a record written on its own with a transition; two of
  rejection, completion and failure, which refer to the agreement before they lock
  it; a correction with a failing ceremony.
* Public verification shows the signatures of a closed version among those of the
  executed one.

## Proofs

`LifecycleProofs`, for any set of agreements and any bound on versions:
`TypeCorrect`, `SequencingHolds`, `DeadlineHolds`, `TerminalHolds`,
`NeverParkedHolds`, `TurnsHold`. The inductive part of each invariant is its own
conjunction with `TypeOK`, and for sequencing also the fact that `AGENT_SIGNED`
and `EMPLOYEE_SIGNED` are never resting states: the chain enters them and leaves
them in one step, so `entered` has them before the next stage is reached.
`SequencingHolds` and `TurnsHold` assume `NoRetry`
(`Requestable \cap RetryActions = {}`), which the routes and jobs satisfy.

`SigningProofs`, for any agreements, callers and bounds, and without hypotheses:

* `TypeCorrect`. Handlers keep references (`h[p].tx`, `h[p].agr`) to rows that
  exist; the later proofs use nothing else about a handler's own steps.
* `Implements`: `Spec => Workflow!Spec`. Each action either contains a workflow
  action of an existing agreement, or leaves the agreements rows alone.
* `PipelineSequencing`, `PipelineTerminal`, `PipelineDeadline`: the theorems of
  `LifecycleProofs` carried over through `Implements`. `NoRetry` is discharged
  here, because `ServiceActions` has no `RETRY` action.
* `DocumentsFullySigned`. `EveryDocumentFullySigned` is not inductive: the bytes
  that become a document are chosen when a ceremony opens, parked, and signed
  much later. `SignaturesInOrder` strengthens it with the same claim about bytes
  shown to a signer, parked, and about to be recorded. The step that matters is
  `Embed`: parked bytes whose signatures are in order and as many as the party's
  turn implies are exactly those of its predecessors (`NextSignature`).
* `SignedStays`. Nothing in `markFailed` asks whether a transaction is signed; what
  protects it is that everyone who has it in hand agrees on its outcome. `Outcomes`
  says so: bytes are parked once, by one handler, so whether the provider's answer
  can be embedded in them is decided once, and a handler about to fail a
  transaction holds one that no handler can sign.
* `CouplingUnlessCrossed`, `CouplingUncorrected`: state and document. `CouplingInv` is
  needed, for the property says nothing of other versions, of bytes not yet recorded,
  or of handlers. Its parts: no handler or transaction works on a version ahead of its
  agreement's (`NothingAhead`); every version but a fresh draft has its unsigned
  document and no later one has anything, so a stale generation is refused by the
  unique index (`Generated`); all bytes of a version are of its text (`Texts`); the
  latest row is the one the status implies (`LatestFits`); and crossing takes a
  correction (`CrossedLater`). Before the first correction the exception is therefore
  never needed, which `CouplingUncorrected` says: a first version is coupled without
  it, as `SigningRecovered` checks.
* `SignedWithDocument`: by `Outcomes`, the rows and the transaction being written by
  the same commit.
* `DraftGeneratable`: a key in storage is that of a version that is past its draft,
  or some handler stands between storing and committing, or something was
  interrupted, or could not be composed (`Keys`, `Lost`).
* `OpenVisible`: the transactions of the version in force belong to a signing state
  the agreement is in or has passed, one per party, and while a handler is about to
  create one there is none (`Ceremonies`).

`Kinds` sorts the actions of `Signing` by what they change, so that each of these
proofs has a step only for the actions that could disturb its invariant.

`Signing`, `Drafting` and `Portal` each see `AgreementLifecycle` twice, once as
`Workflow` and once, with its theorems, as `Lifecycle`; `SameNext` (and `SameType`)
identify the two.

`DraftingProofs`, for any agreements, papers, fields, handlers and number of
versions, and any choice of the agreements that need a stamp:

* `TypeCorrect`, and `RecordHolds`. The property speaks of what is written;
  `RecordInv` adds what handlers have in hand: what an open edit or generation read is
  the data as it is now, unless the agreement overlapped, and a draft has no document
  of its version, so that a late commit is either refused or of the data saved.
* `DraftingImplementsLifecycle`: `Spec => Workflow!Spec`. The generation a handler
  commits is of an agreement that exists, by `TypeCorrect`; no allocation and no edit
  moves one. `DraftingKeepsWorkflow` carries over the theorems of `LifecycleProofs`, as
  in `SigningProofs`.
* `PapersHold` and `OwnStampHolds`. What is read without a lock is used later, so
  neither is inductive alone. `StampInv` adds that an agreement past its draft
  holds a paper if it needs one, and that a handler about to commit a generation
  still holds the paper it read: allocations are never given back, and nothing
  but a generation leaves the draft for the states behind it (`Moves`).

It also has the theorems about `StampIntake`, as the instance `Intake`, for any papers,
operators and kinds of identifier:

* `AnyOneRightCatches`: no value is in two rows, whatever its kind and whoever
  inserts at the same moment (`IntakeInv`).
* `RefusalsHaveCause`: until the operator changes it, a field has what the paper has
  there, what that was taken for, or, in the certificate field only, what the portal
  filled it with (`FromPaper`). The theorem has a hypothesis, `ReadApart`: no
  identifier of a paper is taken for another of the same paper, and no two for the
  same value. It is a fact about the scans, which no code enforces; without it a form
  may carry one value twice by misreading alone and be refused for that. The readings
  of the run satisfy it.

`RegistersProofs`, for any agents, banks, links and requests, any bounds, and any
number of digits. `TypeOK` bounds the counters by the bounds of the run; the
proofs use `Typed`, which does not. `Effects` says which step touches which
register, so that each theorem is about its own steps only:

* `GapFreeHolds`: a year's counter is one more than the agreements numbered in
  it, and the one creation of that year under way has its value (`Numbering`).
* `ReferencesHold`: a completion under way has the value of its agent's counter,
  alone, and every reference given out is behind its counter (`Minting`). What
  `lpad` does beyond `Capacity` is not needed, and nothing is claimed of it.
* `TextsHold`: the keys of all versions there are are taken, and at most the next
  one; who has stored it is alone (`Storing`).
* `SessionsHold`: who redeems a link has claimed it, alone, before any session of
  it (`Claiming`).

`AuditChainProofs`, for any agreements and writers and any number of ids and edits.
`Typed` is again `TypeOK` without the bounds, and `Steps` puts the actions into the
six kinds the proofs split on:

* `DeadlocksHold`: what a transaction holds is given by its kind and the lock it
  waits for, and a lock that excludes is held by one (`Exclusive`). So who stands in
  whose way is known by kind (`InTheWay`), and of the pairs that wait for each other
  only those named remain (`Standoff`).
* `ChainHolds`: the records a transaction has pending for a chain follow the
  committed head one by one, because it holds the head's lock, so a commit extends
  the chain where it ends (`Growing`). A digest is one longer than the digest before
  it, which makes its length its place in the chain.
* `EditIsFound`: an edit leaves its trace in the rows, whatever is appended after:
  one too few, a record that does not match its hash, or a record past the last one
  rewritten whose link is to the old hash (`Traced`). A verification that has walked the
  rows without an alarm has counted too few, or saw no edit, or one of the two it cannot
  see (`Watched`).
* `FalseAlarmsHold`: ids are drawn once (`Drawn`), so the predecessor that
  `verifyChain` takes by id is the one the record was linked to, unless the ids
  overtook each other.

`PeopleProofs` is about `Portal` and about `Administration`, in the instance `Staff` of
`MCPeople`. For any users, banks, requests and bounds:

* `LastAdministrator`, because a deactivation that was checked alone leaves the
  administrator who counted (`OneRemains`).
* `FitCountersigner`, where a request that has read a designation holds one that was
  suitable or has been changed since (`FitToSign`).

and for any browsers, people, roles, links and number of versions:

* `ShownIsSigned`, `RailTellsTheTruth` and `PortalAgreesWithTheApi` rest on one
  invariant, `PortalInv`. The agreement rests in the states that the services lead to
  (`Present`), always; the status fixes whose signatures the document has unless a
  completion straddled a correction (`Coupled`), and that is what the rail needs, which
  sees the status alone. What is read stays good until it is used: an open ceremony, a
  completion of it and a request to sign are for the document that their page showed
  (`Bound`, `Asks`). A page is never of a later version than the database's, and if one
  of the version in force showed somebody being waited on then there is a document,
  which a page loaded for an account shows (`View`). So an up-to-date page and the API
  decide on the same data, and the theorem compares the buttons with the routes, one
  kind of post at a time.
* `PortalImplementsLifecycle`: `Spec => Workflow!Spec`. No page, request, ceremony or
  sweep moves the agreement but by a transition, a chain or a correction.
  `PortalKeepsWorkflow` carries the theorems on the order of signatures, deadlines and
  ended agreements over to the portal.

`OutboxProofs`, for any agreements, passes, rows, limits and attempts:

* `TypeCorrect`, together with `Lists`: a pass has rows that exist, each once. That
  it has an oldest row is the well-foundedness of the numbers (`LeastOfNumbers`).
* `MailsAreTrue`: every row about an end names the end its version reached, sent or
  not (`Truth`), because it is queued by the transition itself; a correction moves that
  end to `closed`, where nothing changes it, and out of a completion there is none. So
  there is no row about an end before it is reached, and the rows queued with it, one
  for each recipient (`QueuedRows`, from the injectivity of `SetToSeq`), are the only
  ones of their version (`EndsTold`).
* `OneReminder`: two reminders of an agreement are a window of `Already` apart, and
  its twenty hours reach over all slots of a day (`Reminders`).
* `Duplicates`: an unexcused row is with one pass at most, its mail went out at most
  once, and from then on that pass has it in hand, or has marked it `SENT`, or is
  about to (`Deliveries`).

`RegistersProofs` also has `Executed`, on the behaviours of `MCRegisters` that are of
`Templates`: an approval under way is of a version not retired unless it was
overtaken, and everything made or about to be made from a version has what the
version requires (`TextsSound`).

`DocumentsProofs`, for any handlers, attempts, faults, kinds of upload and disks with
a marker, and without an assumption on any of them:

* `RecordedReadable` rests on `StoreInv`: what was once put on the share is never
  overwritten, so whatever a handler is to commit is there (`Landed`) or among the
  objects it still has to put (`Owed`), which it does before it commits.
* `SignaturesAlwaysStand` and `OpenCeremonyAlwaysCompletable` rest on `SealInv`, which
  speaks of states in which no put has lost the share. It says what a document is,
  revision by revision (`Shape`): the flat file with three empty widgets, then one
  revision per party, in turn, that is its widget and its signature. A slot is drawn on
  the row before its party's own (`Drawn`), what is parked under a digest are the bytes
  that were digested (`Genuine`), and rows and transactions only grow, so a signature
  begun on one row cannot be recorded on another.
* The lemmas before them compute `Pdf`'s operators on such a document: which revision
  of an object is the newest (`WidgetOf`, `SignatureOf`), which signatures there are
  (`SignaturesAre`, `SlottedSignatures`), what a slot's digest and its reopening are
  (`DigestOfSlotted`, `SlotReopens`), and that a revision appended leaves every older
  signature as valid as it was (`OlderStillValid`). A signature copied with a supplied PDF
  is an object of the first revision that is always counted (`SuppliedCounted`), which
  is why `OpenCeremonyCanComplete` excepts such documents.

Both checked and proved: `SignedInOrder`, `WaitingHasDeadline`, `TerminalStays`,
`ImplementsLifecycle`, `EveryDocumentFullySigned`, `SignedIsFinal`,
`StateMatchesDocumentUnlessCrossed`, `SignedTxHasDocument`,
`DraftCanBeGenerated`, `OpenCeremonyIsVisible`, `PaperServesOneAgreement`,
`OnItsOwnStamp`, `DocumentIsTheRecord`, `RegisterGapFree`, `NextReferenceIsFree`,
`NextTextCanBeStored`, `OneSessionPerLink`, `ExecutedAsApproved`, `ChainLinear`,
`EditDetected`, `FalseAlarmExplained`, `DeadlocksExplained`,
`AdministratorRemains`, `CountersignerFit`, `MailsTellTheTruth`,
`DuplicatesExplained`, `OneReminderPerDay`, `RecordedDocumentsReadable`,
`SignaturesStand`, `OpenCeremonyCanComplete`, `SignedAsShown`,
`OffersWhatTheApiAccepts`, `MilestonesTellTheTruth`, `CaughtByAnyOneRight` and
`RefusedOnlyForCause` (with the hypothesis above). `NeverParked` (no agreement rests in
a state the chain passes through) and `ActsOnOwnTurn` (a party acts only in its own
stage) are proved for every instance, so no run repeats them.

Only model-checked: `StateMatchesDocument`, in a run without corrections, where it
says what `CouplingUncorrected` proves of every first version; and the liveness
properties `SigningEnds`, `LostCallbackRecovered`, `NobodyWaitsForEver` and
`EveryMailSettles`. They rest on fairness, and so on `ENABLED`, which is out of the
prover's reach.

## Plan

1. `StampIntake` composed with `Drafting`: a paper is allocated from the row that an
   operator has registered.
2. `Portal` over `Signing` instead of its own ceremonies.
3. Log-in: lock-out, resets and the lifetime of a token against a change of roles.

## Not modelled

Rendering, the conversion of Word files and byte-level encoding of PDFs;
cryptography, of the callback signature included; HTTP; password hashing,
lock-out and resets; delegation, which no action consults; the wording of mails,
audit rows and pages; lists, searches, reports and public verification, which
only read; download URLs; the pages that administer users, banks and templates,
whose rules are those of the API; the demonstration scripts.
