------------------------------ MODULE AuditChain ------------------------------
(***************************************************************************)
(* The audit trail: records are appended by concurrent transactions, each  *)
(* linked to its predecessor by a trigger (migration 009), and walked by a *)
(* daily job while they grow (audit.service.ts, scheduled-jobs.service.ts).*)
(*                                                                         *)
(* The locks of PostgreSQL are explicit here: the agreements row, FOR      *)
(* UPDATE by lockAgreement and FOR KEY SHARE by every insert that refers   *)
(* to it, the ceremony's row in esign_transactions, and the head of the    *)
(* chain.  The handlers take them in different orders.                     *)
(***************************************************************************)
EXTENDS Naturals, Sequences, FiniteSets, SequencesExt

CONSTANTS
  Agreements,   \* each with a chain of its own
  NIL,          \* the chain of the records that are about no agreement
  Writers,      \* transactions that may append at once
  Verifier,     \* the verification job, itself a writer of alarms
  MaxId,        \* bound on the ids drawn
  MaxEdits      \* bound on the rows altered or removed behind the trigger

ASSUME ChainsAssumption  == NIL \notin Agreements
ASSUME WritersAssumption == Verifier \notin Writers
ASSUME BoundsAssumption  == MaxId \in Nat /\ MaxEdits \in Nat

VARIABLES
  rows,      \* audit_logs, committed, by chain
  head,      \* audit_chain_heads, committed: head_hash and record_count
  nextId,    \* the id sequence: draws are never rolled back
  writer,    \* each transaction: where it is and what it has inserted
  verifier,  \* what the verification has read (and, as history, of an edited chain)
  todo,      \* chains this pass has still to verify
  verdict,   \* the last verdict on each chain
  edited     \* history: what was done to each chain behind the trigger

vars == <<rows, head, nextId, writer, verifier, todo, verdict, edited>>

Chains    == Agreements \cup {NIL}
Processes == Writers \cup {Verifier}

(* A digest stands for what it covers: its predecessor and the content.    *)
(* The content of a record is its id, since no two records are alike; 0 is *)
(* an altered one.  ip_address and user_agent, here the origin, are not    *)
(* covered.                                                                *)
Genesis         == <<>>
Hash(prev, doc) == Append(prev, doc)
Digest          == Seq(0..MaxId)
Record          == [id : 1..MaxId, data : 0..MaxId, origin : 0..MaxId, prev : Digest, hash : Digest]

Idle == [pc |-> "idle"]

(* Transactions that record, by the order in which they lock.  All but the *)
(* first are transitions.                                                  *)
Kinds == {"records", "moves", "rejects", "completes", "fails", "corrects"}

(* pc is the lock a transaction waits for, or "ready": "row" and "share"   *)
(* are the agreements row FOR UPDATE and FOR KEY SHARE, "mark" is the row  *)
(* of the ceremony, "head" the head of the chain.                          *)
Locks == {"row", "share", "mark"}
Work  == {Idle} \cup
  [pc : Locks \cup {"head", "ready"}, kind : Kinds, chain : Chains,
   holds : SUBSET Locks, id : 0..MaxId, added : Seq(Record)]

Unedited == [kind |-> "none", upto |-> 0]
Edits    == [kind : {"none", "removed", "altered", "annotated", "rewritten"}, upto : 0..MaxId]
Edited   == {c \in Chains : edited[c] # Unedited}

TypeOK ==
  /\ \A c \in Chains : \A r \in rows[c] : r \in Record
  /\ head \in [Chains -> [hash : Digest, count : Nat]]
  /\ nextId \in 1..MaxId + 1
  /\ writer \in [Processes -> Work]
  /\ verifier \in {Idle} \cup
       [pc : {"head"}, chain : Chains, seen : Nat, edit : Edits, toEnd : BOOLEAN]
  /\ todo \subseteq Chains /\ edited \in [Chains -> Edits]
  /\ verdict \in [Chains -> {"none", "intact", "broken"}]

Init ==
  /\ rows = [c \in Chains |-> {}]
  /\ head = [c \in Chains |-> [hash |-> Genesis, count |-> 0]]
  /\ nextId = 1
  /\ writer = [w \in Processes |-> Idle]
  /\ verifier = Idle /\ todo = {}
  /\ verdict = [c \in Chains |-> "none"]
  /\ edited = [c \in Chains |-> Unedited]

-----------------------------------------------------------------------------
(* Locks, held until the transaction ends.                                 *)
On(w, c) == writer[w].pc # "idle" /\ writer[w].chain = c

Holds(w, lock, c) == On(w, c) /\ lock \in writer[w].holds
HoldsHead(w, c)   == On(w, c) /\ writer[w].added # <<>>

(* The transactions w waits for.                                           *)
WaitsFor(w) ==
  {u \in Processes \ {w} :
     LET c == writer[w].chain IN
     \/ writer[w].pc = "row"   /\ (Holds(u, "row", c) \/ Holds(u, "share", c))
     \/ writer[w].pc = "share" /\ Holds(u, "row", c)
     \/ writer[w].pc = "mark"  /\ Holds(u, "mark", c)
     \/ writer[w].pc = "head"  /\ HoldsHead(u, c)}

MayGo(w, pc) == writer[w].pc = pc /\ WaitsFor(w) = {}

Goes(w, work) == writer' = [writer EXCEPT ![w] = work]

trail == <<rows, head>>
audit == <<verifier, todo, verdict, edited>>

-----------------------------------------------------------------------------
(* transition locks the agreement and then records, which may happen more  *)
(* than once.  Its callers have touched rows before that: reject inserts a *)
(* signature event, completeSignature a document and then marks the        *)
(* ceremony, failSignature marks it and then inserts; correct marks it     *)
(* under the lock.                                                         *)
FirstLock(kind) ==
  CASE kind = "records"                 -> "ready"
    [] kind \in {"moves", "corrects"}   -> "row"
    [] kind \in {"rejects", "completes"} -> "share"
    [] kind = "fails"                   -> "mark"

NextLock(kind, lock) ==
  CASE lock = "share" -> IF kind = "completes" THEN "mark" ELSE "row"
    [] lock = "mark"  -> IF kind = "fails" THEN "share"
                         ELSE IF kind = "completes" THEN "row" ELSE "ready"
    [] lock = "row"   -> IF kind = "corrects" THEN "mark" ELSE "ready"

(* An id is left for each transaction that has begun.                      *)
IdsLeft ==
  nextId + Cardinality({w \in Processes : writer[w] # Idle /\ writer[w].id = 0}) <= MaxId

Fresh(kind, c) ==
  [pc |-> FirstLock(kind), kind |-> kind, chain |-> c, holds |-> {}, id |-> 0, added |-> <<>>]

Begin(w, kind, c) ==
  /\ writer[w] = Idle /\ (kind # "records" => c # NIL) /\ IdsLeft
  /\ Goes(w, Fresh(kind, c))
  /\ UNCHANGED <<trail, nextId, audit>>

(* A record refers to its agreement once more, when it is in.              *)
Takes(w, lock) ==
  /\ Goes(w, [writer[w] EXCEPT !.holds = @ \cup {lock},
              !.pc = IF writer[w].added = <<>> THEN NextLock(writer[w].kind, lock) ELSE "ready"])
  /\ UNCHANGED <<trail, nextId, audit>>

(* Mutant: the row is read without FOR UPDATE.                             *)
LockAgreement_Unlocked(w) == writer[w].pc = "row" /\ Takes(w, "row")

LockAgreement(w)    == MayGo(w, "row") /\ Takes(w, "row")
ReferToAgreement(w) == MayGo(w, "share") /\ Takes(w, "share")
MarkCeremony(w)     == MayGo(w, "mark") /\ Takes(w, "mark")

(* record: the id is drawn by the default of its column, before the        *)
(* trigger runs.                                                           *)
DrawId(w) ==
  /\ writer[w].pc = "ready"
  /\ \/ writer[w].added = <<>> /\ nextId <= MaxId
     \/ writer[w].added # <<>> /\ writer[w].kind # "records" /\ IdsLeft
  /\ Goes(w, [writer[w] EXCEPT !.pc = "head", !.id = nextId])
  /\ nextId' = nextId + 1
  /\ UNCHANGED <<trail, audit>>

(* Mutant: the head is read without FOR UPDATE.                            *)
ChainHead_Unlocked(w) == writer[w].pc = "head"

ChainHead(w) == MayGo(w, "head")

(* The head this transaction sees: what it inserted itself counts.         *)
HeadHash(w) ==
  IF writer[w].added = <<>> THEN head[writer[w].chain].hash ELSE Last(writer[w].added).hash

LinkedRow(w) ==
  [id |-> writer[w].id, data |-> writer[w].id, origin |-> writer[w].id, prev |-> HeadHash(w),
   hash |-> Hash(HeadHash(w), writer[w].id)]

(* audit_logs_chain: lock the head, link the row to it, move the head.  The*)
(* foreign key is checked after the row is in.                             *)
AuditLogsChain(w) ==
  /\ ChainHead(w)
  /\ Goes(w, [writer[w] EXCEPT !.added = Append(@, LinkedRow(w)),
              !.pc = IF writer[w].chain = NIL THEN "ready" ELSE "share"])
  /\ UNCHANGED <<trail, nextId, audit>>

(* Mutant: a record written on its own is never committed.                 *)
Commit_Leaks(w) ==
  LET c == writer[w].chain  added == writer[w].added IN
  /\ writer[w].pc = "ready" /\ added # <<>> /\ writer[w].kind # "records"
  /\ rows' = [rows EXCEPT ![c] = @ \cup Range(added)]
  /\ head' = [head EXCEPT ![c] = [hash |-> Last(added).hash, count |-> @.count + Len(added)]]
  /\ Goes(w, Idle)
  /\ UNCHANGED <<nextId, audit>>

Commit(w) ==
  LET c == writer[w].chain  added == writer[w].added IN
  /\ writer[w].pc = "ready" /\ added # <<>>
  /\ rows' = [rows EXCEPT ![c] = @ \cup Range(added)]
  /\ head' = [head EXCEPT ![c] = [hash |-> Last(added).hash, count |-> @.count + Len(added)]]
  /\ Goes(w, Idle)
  /\ UNCHANGED <<nextId, audit>>

(* A failure of the transaction, or of the process.  In the job it ends    *)
(* the pass.                                                               *)
Rollback(w) ==
  /\ writer[w] # Idle /\ Goes(w, Idle)
  /\ todo' = IF w = Verifier THEN {} ELSE todo
  /\ UNCHANGED <<trail, nextId, verifier, verdict, edited>>

(* PostgreSQL rolls back one transaction of a cycle.                       *)
Deadlocked(w) == \E u \in WaitsFor(w) : w \in WaitsFor(u)
DeadlockVictim(w) == Deadlocked(w) /\ Rollback(w)

-----------------------------------------------------------------------------
(* verifyAuditChains, for the chains that have a head when it begins.      *)
BeginVerify ==
  /\ todo = {} /\ verifier = Idle /\ writer[Verifier] = Idle
  /\ todo' = {c \in Chains : head[c].count > 0} /\ todo' # {}
  /\ verdict' = [c \in Chains |-> "none"]
  /\ UNCHANGED <<trail, nextId, writer, verifier, edited>>

(* LAG(row_hash) OVER (ORDER BY id), with its COALESCE.                    *)
Before(c, r) == {q \in rows[c] : q.id < r.id}

(* Mutant: without the COALESCE the first record has no predecessor hash.  *)
PredecessorHash_Null(c, r) ==
  IF Before(c, r) = {} THEN <<0>>
  ELSE (CHOOSE q \in Before(c, r) : \A p \in Before(c, r) : p.id <= q.id).hash

PredecessorHash(c, r) ==
  IF Before(c, r) = {} THEN Genesis
  ELSE (CHOOSE q \in Before(c, r) : \A p \in Before(c, r) : p.id <= q.id).hash

BrokenRows(c) ==
  {r \in rows[c] : r.hash # Hash(r.prev, r.data) \/ r.prev # PredecessorHash(c, r)}

(* The alarm is a record of its own, on the chain of no agreement.         *)
RaiseAlarm(c) ==
  /\ IdsLeft
  /\ verdict' = [verdict EXCEPT ![c] = "broken"]
  /\ Goes(Verifier, Fresh("records", NIL))
  /\ verifier' = Idle

(* verifyChain: the rows are walked by one query, the head is read by the  *)
(* next.                                                                   *)
WalkRows(c) ==
  /\ c \in todo /\ verifier = Idle /\ writer[Verifier] = Idle
  /\ todo' = todo \ {c}
  /\ \/ BrokenRows(c) # {} /\ RaiseAlarm(c)
     \/ /\ BrokenRows(c) = {}
        /\ verifier' = [pc |-> "head", chain |-> c, seen |-> Cardinality(rows[c]),
                        edit |-> edited[c],
                        toEnd |-> \A r \in rows[c] : Len(r.hash) <= edited[c].upto]
        /\ UNCHANGED <<writer, verdict>>
  /\ UNCHANGED <<trail, nextId, edited>>

(* Mutant: the head is not compared.                                       *)
CompareHead_Trusting ==
  /\ verifier # Idle /\ verifier' = Idle
  /\ verdict' = [verdict EXCEPT ![verifier.chain] = "intact"]
  /\ UNCHANGED <<trail, nextId, writer, todo, edited>>

CompareHead ==
  /\ verifier # Idle
  /\ \/ head[verifier.chain].count # verifier.seen /\ RaiseAlarm(verifier.chain)
     \/ /\ head[verifier.chain].count = verifier.seen
        /\ verdict' = [verdict EXCEPT ![verifier.chain] = "intact"]
        /\ verifier' = Idle /\ UNCHANGED writer
  /\ UNCHANGED <<trail, nextId, todo, edited>>

(* What a person does to audit_logs with the triggers out of the way: a    *)
(* row is removed, its content altered, a column altered that no digest    *)
(* covers, or its content altered and the hashes made to fit again, from   *)
(* its place in the chain up to a later one.                               *)
Altered(digest, n) == [i \in DOMAIN digest |-> IF i = n THEN 0 ELSE digest[i]]

Rewritten(q, n) ==
  [q EXCEPT !.data = IF Len(q.hash) = n THEN 0 ELSE @,
            !.prev = Altered(@, n), !.hash = Altered(@, n)]

EditRow(c, r, kind, upto) ==
  CASE kind = "removed"   -> rows[c] \ {r}
    [] kind = "altered"   -> (rows[c] \ {r}) \cup {[r EXCEPT !.data = 0]}
    [] kind = "annotated" -> (rows[c] \ {r}) \cup {[r EXCEPT !.origin = 0]}
    [] kind = "rewritten" -> {IF Len(q.hash) \in Len(r.hash)..upto THEN Rewritten(q, Len(r.hash)) ELSE q : q \in rows[c]}

Edit(c) ==
  /\ Cardinality(Edited) < MaxEdits /\ c \notin Edited
  /\ \E r, last \in rows[c], kind \in {"removed", "altered", "annotated", "rewritten"} :
       /\ Len(r.hash) <= Len(last.hash) /\ (kind # "rewritten" => last = r)
       /\ rows' = [rows EXCEPT ![c] = EditRow(c, r, kind, Len(last.hash))]
       /\ edited' = [edited EXCEPT ![c] = [kind |-> kind, upto |-> Len(last.hash)]]
  /\ UNCHANGED <<head, nextId, writer, verifier, todo, verdict>>

-----------------------------------------------------------------------------
Progress(w) ==
  \/ LockAgreement(w) \/ ReferToAgreement(w) \/ MarkCeremony(w)
  \/ DrawId(w) \/ AuditLogsChain(w) \/ Commit(w) \/ DeadlockVictim(w)

Next ==
  \/ \E w \in Writers, kind \in Kinds, c \in Chains : Begin(w, kind, c)
  \/ \E w \in Processes : Progress(w) \/ Rollback(w)
  \/ BeginVerify \/ CompareHead
  \/ \E c \in Chains : WalkRows(c) \/ Edit(c)

Spec == Init /\ [][Next]_vars

(* PostgreSQL grants a lock in turn, so that nobody is overtaken for ever, *)
(* and its detector finds every cycle.                                     *)
FairSpec == Spec /\ \A w \in Processes : SF_vars(Progress(w))

-----------------------------------------------------------------------------
(* Properties.                                                             *)

(* "Concurrent inserts for the same agreement queue here, which is what    *)
(* keeps the chain linear" (migration 009): no two records of a chain have *)
(* the same predecessor, every link leads to a record, and the head is the *)
(* last of them and counts them all.                                       *)
Linear(c) ==
  /\ \A r \in rows[c] :
       /\ r.hash = Hash(r.prev, r.data)
       /\ r.prev = Genesis \/ \E q \in rows[c] : q.hash = r.prev
  /\ \A q, r \in rows[c] : q.prev = r.prev => q = r
  /\ head[c].count = Cardinality(rows[c])
  /\ head[c].hash = Genesis \/ \E r \in rows[c] : r.hash = head[c].hash

ChainLinear == \A c \in Chains \ Edited : Linear(c)

(* Some record was linked before another that had drawn a smaller id.      *)
Overtaken(c) == \E q, r \in rows[c] : q.id < r.id /\ Len(r.hash) < Len(q.hash)

(* An alarm on a chain nobody edited is false, and has one of two causes:  *)
(* records were linked out of the order of their ids, or the chain grew    *)
(* between the two queries.                                                *)
FalseAlarmExplained ==
  [][\A c \in Chains \ Edited :
       verdict[c] = "none" /\ verdict'[c] = "broken" =>
         \/ Overtaken(c)
         \/ verifier # Idle /\ Cardinality(rows[c]) # verifier.seen]_vars

(* AC-16: a chain found intact has not been edited, but for an edit made   *)
(* after its rows were walked and two that no walk can find: of a column   *)
(* that row_hash does not cover, and one whose hashes were rewritten up to *)
(* the newest record, since the head's own hash is never compared.         *)
EditDetected ==
  [][verifier # Idle /\ verdict'[verifier.chain] = "intact" =>
       \/ verifier.edit.kind \in {"none", "annotated"}
       \/ verifier.edit.kind = "rewritten" /\ verifier.toEnd]_vars

(* Who can deadlock with whom: a record written on its own with any        *)
(* transition; two transitions that had both referred to the agreement     *)
(* before they locked it; a correction with a failing ceremony.  Two       *)
(* transitions that lock first never do.                                   *)
DeadlocksExplained ==
  \A w \in Processes : \A u \in WaitsFor(w) : w \in WaitsFor(u) =>
    LET kinds == {writer[w].kind, writer[u].kind} IN
    \/ "records" \in kinds /\ kinds # {"records"}
    \/ kinds \subseteq {"rejects", "completes", "fails"}
    \/ kinds = {"corrects", "fails"}

(* Whoever waits is served, or rolled back.                                *)
NobodyWaitsForEver ==
  \A w \in Processes :
    writer[w].pc \in Locks \cup {"head"} ~> writer[w].pc \in {"idle", "ready"}

=============================================================================
