--------------------------- MODULE AuditChainProofs ---------------------------
(***************************************************************************)
(* Theorems about AuditChain, for any agreements, writers and number of    *)
(* ids and edits: the chain is linear, an edit is found, a false alarm has *)
(* one of two causes, and what can deadlock.                               *)
(***************************************************************************)
EXTENDS AuditChain, FiniteSetTheorems, SequenceTheorems, TLAPS

(* Records and transactions, without the bounds of TypeOK.                 *)
Entry == [id : Nat, data : Nat, origin : Nat, prev : Seq(Nat), hash : Seq(Nat)]

Active == [pc : Locks \cup {"head", "ready"}, kind : Kinds, chain : Chains,
           holds : SUBSET Locks, id : Nat, added : Seq(Entry)]

Done == [kind : {"none", "removed", "altered", "annotated", "rewritten"}, upto : Nat]
Walk == [pc : {"head"}, chain : Chains, seen : Nat, edit : Done, toEnd : BOOLEAN]

Typed ==
  /\ rows \in [Chains -> SUBSET Entry] /\ \A c \in Chains : IsFiniteSet(rows[c])
  /\ head \in [Chains -> [hash : Seq(Nat), count : Nat]]
  /\ nextId \in Nat \ {0}
  /\ writer \in [Processes -> {Idle} \cup Active]
  /\ verifier \in {Idle} \cup Walk
  /\ todo \subseteq Chains /\ edited \in [Chains -> Done]
  /\ verdict \in [Chains -> {"none", "intact", "broken"}]

-----------------------------------------------------------------------------
(* Sequences.                                                              *)
LEMMA Digests ==
  ASSUME NEW prev \in Seq(Nat), NEW doc \in Nat
  PROVE  Hash(prev, doc) \in Seq(Nat) /\ Len(Hash(prev, doc)) = Len(prev) + 1
BY AppendProperties DEF Hash

LEMMA GenesisIsEmpty ==
  /\ Genesis \in Seq(Nat) /\ Len(Genesis) = 0
  /\ \A d \in Seq(Nat) : Len(d) \in Nat /\ (Len(d) = 0 => d = Genesis)
BY EmptySeq, LenProperties DEF Genesis

LEMMA HashesDiffer ==
  ASSUME NEW prev \in Seq(Nat), NEW doc \in Nat, NEW other \in Nat, doc # other
  PROVE  Hash(prev, doc) # Hash(prev, other)
<1>1. Hash(prev, doc)[Len(prev) + 1] = doc /\ Hash(prev, other)[Len(prev) + 1] = other
  BY AppendProperties DEF Hash
<1> QED
  BY <1>1

LEMMA Entries ==
  ASSUME NEW s \in Seq(Entry)
  PROVE  /\ Len(s) \in Nat /\ DOMAIN s = 1..Len(s)
         /\ \A i \in DOMAIN s : s[i] \in Entry
         /\ s # <<>> => Len(s) \in DOMAIN s /\ Last(s) = s[Len(s)] /\ Last(s) \in Entry
         /\ s = <<>> => DOMAIN s = {}
<1>1. Len(s) \in Nat /\ DOMAIN s = 1..Len(s) /\ \A i \in DOMAIN s : s[i] \in Entry
  BY LenProperties, ElementOfSeq
<1>2. s # <<>> => Len(s) > 0
  BY <1>1, EmptySeq
<1> QED
  BY <1>1, <1>2 DEF Last

(* Records that differ are counted one by one.                             *)
LEMMA RangeCount ==
  ASSUME NEW s \in Seq(Entry)
  PROVE  /\ Range(s) \subseteq Entry /\ IsFiniteSet(Range(s))
         /\ Cardinality(Range(s)) \in Nat /\ Cardinality(Range(s)) <= Len(s)
         /\ (\A i, j \in DOMAIN s : s[i] = s[j] => i = j) => Cardinality(Range(s)) = Len(s)
<1>1. Len(s) \in Nat /\ DOMAIN s = 1..Len(s) /\ \A i \in DOMAIN s : s[i] \in Entry
  BY Entries
<1>2. IsFiniteSet(1..Len(s)) /\ Cardinality(1..Len(s)) = Len(s)
  BY <1>1, FS_Interval
<1>3. s \in [1..Len(s) -> Range(s)] /\ \A e \in Range(s) : \E i \in 1..Len(s) : s[i] = e
  BY <1>1, LenProperties DEF Range
<1>4. s \in Surjection(1..Len(s), Range(s))
  BY <1>3 DEF Surjection
<1>5. /\ IsFiniteSet(Range(s)) /\ Cardinality(Range(s)) <= Len(s)
      /\ Cardinality(Range(s)) = Len(s) <=> s \in Injection(1..Len(s), Range(s))
  BY <1>2, <1>4, FS_Surjection
<1>6. (\A i, j \in DOMAIN s : s[i] = s[j] => i = j) => s \in Injection(1..Len(s), Range(s))
  BY <1>1, <1>3 DEF Injection, IsInjective
<1> QED
  BY <1>1, <1>5, <1>6, FS_CardinalityType DEF Range

-----------------------------------------------------------------------------
(* Transactions.                                                           *)
LEMMA Working ==
  ASSUME Typed, NEW w \in Processes, writer[w].pc # "idle" \/ writer[w] # Idle
  PROVE  writer[w] \in Active /\ writer[w].pc # "idle" /\ writer[w] # Idle
BY DEF Typed, Active, Idle, Locks

(* A step of one transaction.                                              *)
LEMMA GoesOne ==
  ASSUME Typed, NEW w \in Processes, NEW work, Goes(w, work)
  PROVE  writer'[w] = work /\ \A u \in Processes \ {w} : writer'[u] = writer[u]
BY DEF Typed, Goes

LEMMA GoesTyped ==
  ASSUME Typed, NEW w \in Processes, NEW work \in {Idle} \cup Active, Goes(w, work)
  PROVE  writer' \in [Processes -> {Idle} \cup Active]
BY DEF Typed, Goes

LEMMA HeadTyped ==
  ASSUME Typed, NEW w \in Processes, writer[w].pc = "head"
  PROVE  /\ HeadHash(w) \in Seq(Nat) /\ LinkedRow(w) \in Entry
         /\ Append(writer[w].added, LinkedRow(w)) \in Seq(Entry)
<1>1. writer[w] \in Active
  BY Working
<1>2. HeadHash(w) \in Seq(Nat)
  <2>1. CASE writer[w].added = <<>>
    BY <1>1, <2>1 DEF HeadHash, Typed, Active
  <2>2. CASE writer[w].added # <<>>
    <3>1. writer[w].added \in Seq(Entry)
      BY <1>1 DEF Active
    <3>2. Last(writer[w].added) \in Entry
      BY <2>2, <3>1, Entries
    <3> QED
      BY <2>2, <3>2 DEF HeadHash, Entry
  <2> QED
    BY <2>1, <2>2
<1>3. LinkedRow(w) \in Entry
  BY <1>1, <1>2, Digests DEF LinkedRow, Entry, Active
<1> QED
  BY <1>1, <1>2, <1>3, AppendProperties DEF Active

-----------------------------------------------------------------------------
(* What the steps are, as far as the trail and its writers go.             *)

(* A transaction that holds nothing: ended, or begun and not yet underway. *)
FreshWork ==
  {Idle} \cup {work \in Active :
     /\ work.added = <<>> /\ work.holds = {} /\ work.pc # "head"
     /\ work.pc = FirstLock(work.kind)}

LEMMA FreshTyped == FreshWork \subseteq {Idle} \cup Active
BY DEF FreshWork

LEMMA FirstLocks ==
  ASSUME NEW kind \in Kinds
  PROVE  /\ FirstLock(kind) \in Locks \cup {"ready"}
         /\ kind = "records" <=> FirstLock(kind) = "ready"
BY DEF Kinds, Locks, FirstLock

LEMMA FreshIsFresh ==
  ASSUME NEW kind \in Kinds, NEW c \in Chains
  PROVE  Fresh(kind, c) \in FreshWork
<1>1. /\ Fresh(kind, c).pc = FirstLock(kind) /\ Fresh(kind, c).kind = kind
      /\ Fresh(kind, c).holds = {} /\ Fresh(kind, c).added = <<>>
  BY DEF Fresh
<1>2. Fresh(kind, c) \in Active
  BY FirstLocks, EmptySeq DEF Fresh, Active
<1>3. FirstLock(kind) # "head"
  BY FirstLocks DEF Locks
<1> QED
  BY <1>1, <1>2, <1>3 DEF FreshWork

Begins(w) == \E work \in FreshWork : Goes(w, work) /\ UNCHANGED <<trail, nextId, edited>>

Acquires(w) == \E lock \in Locks : MayGo(w, lock) /\ Takes(w, lock)

Aside == UNCHANGED <<trail, nextId, writer, edited>>

LEMMA AlarmIsFresh ==
  ASSUME NEW c, RaiseAlarm(c), UNCHANGED <<trail, nextId, edited>>
  PROVE  Begins(Verifier)
<1>1. NIL \in Chains /\ "records" \in Kinds
  BY DEF Chains, Kinds
<1> QED
  BY <1>1, FreshIsFresh DEF RaiseAlarm, Begins

LEMMA Steps ==
  ASSUME Typed, [Next]_vars
  PROVE  \/ Aside
         \/ \E c \in Chains : Edit(c)
         \/ \E w \in Processes :
              \/ Begins(w) \/ Acquires(w) \/ DrawId(w)
              \/ AuditLogsChain(w) \/ Commit(w)
<1>1. Verifier \in Processes /\ Writers \subseteq Processes
  BY DEF Processes
<1>2. CASE UNCHANGED vars \/ BeginVerify
  BY <1>2 DEF vars, trail, BeginVerify, Aside
<1>3. ASSUME NEW w \in Writers, NEW kind \in Kinds, NEW c \in Chains, Begin(w, kind, c)
      PROVE  Begins(w)
  BY <1>3, FreshIsFresh DEF Begin, Begins, audit
<1>7. ASSUME NEW w \in Processes, LockAgreement(w) \/ ReferToAgreement(w) \/ MarkCeremony(w)
      PROVE  Acquires(w)
  BY <1>7 DEF LockAgreement, ReferToAgreement, MarkCeremony, Acquires, Locks
<1>4. ASSUME NEW w \in Processes, Rollback(w)
      PROVE  Begins(w)
  BY <1>4 DEF Rollback, Begins, FreshWork
<1>5. CASE CompareHead
  <2>1. CASE verifier # Idle /\ RaiseAlarm(verifier.chain) /\ UNCHANGED <<trail, nextId, edited>>
    <3>1. verifier.chain \in Chains
      BY <2>1 DEF Typed, Walk
    <3> QED
      BY <1>1, <2>1, <3>1, AlarmIsFresh
  <2>2. CASE UNCHANGED <<trail, nextId, writer, edited>>
    BY <2>2 DEF Aside
  <2> QED
    BY <1>5, <2>1, <2>2 DEF CompareHead
<1>6. ASSUME NEW c \in Chains, WalkRows(c)
      PROVE  Aside \/ Begins(Verifier)
  BY <1>6, AlarmIsFresh DEF WalkRows, Aside
<1> QED
  BY <1>1, <1>2, <1>3, <1>4, <1>5, <1>6, <1>7 DEF Next, Progress, DeadlockVictim

LEMMA InitTyped == Init => Typed
<1> SUFFICES ASSUME Init PROVE Typed
  OBVIOUS
<1>1. \A c \in Chains : rows[c] = {} /\ IsFiniteSet(rows[c])
  BY FS_EmptySet DEF Init
<1>2. head \in [Chains -> [hash : Seq(Nat), count : Nat]]
  BY GenesisIsEmpty DEF Init
<1>3. rows \in [Chains -> SUBSET Entry]
  BY DEF Init
<1>4. edited \in [Chains -> Done]
  BY DEF Init, Unedited, Done
<1> QED
  BY <1>1, <1>2, <1>3, <1>4 DEF Init, Typed

(* What is committed, and what its chain becomes.                          *)
LEMMA Commits ==
  ASSUME Typed, NEW w \in Processes, Commit(w)
  PROVE  LET c == writer[w].chain  added == writer[w].added IN
         /\ writer[w] \in Active /\ c \in Chains /\ added \in Seq(Entry) /\ added # <<>>
         /\ rows'[c] = rows[c] \cup Range(added)
         /\ \A d \in Chains \ {c} : rows'[d] = rows[d] /\ head'[d] = head[d]
         /\ head'[c].hash = Last(added).hash
         /\ head'[c].count = head[c].count + Len(added)
         /\ writer'[w] = Idle /\ (\A u \in Processes \ {w} : writer'[u] = writer[u])
         /\ edited' = edited /\ nextId' = nextId
         /\ rows' \in [Chains -> SUBSET Entry] /\ IsFiniteSet(rows'[c])
         /\ head' \in [Chains -> [hash : Seq(Nat), count : Nat]]
<1> DEFINE c == writer[w].chain
           added == writer[w].added
<1>1. writer[w] \in Active
  BY Working DEF Commit
<1>2. c \in Chains /\ added \in Seq(Entry) /\ added # <<>>
  BY <1>1 DEF Active, Commit
<1>3. /\ rows' = [rows EXCEPT ![c] = rows[c] \cup Range(added)]
      /\ head' = [head EXCEPT ![c] = [hash |-> Last(added).hash, count |-> head[c].count + Len(added)]]
      /\ Goes(w, Idle) /\ UNCHANGED <<nextId, edited>>
  BY DEF Commit, audit
<1> HIDE DEF c, added
<1>4. Range(added) \subseteq Entry /\ IsFiniteSet(Range(added))
  BY <1>2, RangeCount
<1>5. Last(added).hash \in Seq(Nat) /\ Len(added) \in Nat
  BY <1>2, Entries DEF Entry
<1>6. /\ rows'[c] = rows[c] \cup Range(added) /\ rows' \in [Chains -> SUBSET Entry]
      /\ \A d \in Chains \ {c} : rows'[d] = rows[d]
  BY <1>2, <1>3, <1>4 DEF Typed
<1>7. IsFiniteSet(rows'[c])
  <2>1. IsFiniteSet(rows[c])
    BY <1>2 DEF Typed
  <2> QED
    BY <1>4, <1>6, <2>1, FS_Union
<1>8. /\ head' \in [Chains -> [hash : Seq(Nat), count : Nat]]
      /\ head'[c].hash = Last(added).hash /\ head'[c].count = head[c].count + Len(added)
      /\ \A d \in Chains \ {c} : head'[d] = head[d]
  BY <1>2, <1>3, <1>5 DEF Typed
<1>9. writer'[w] = Idle /\ \A u \in Processes \ {w} : writer'[u] = writer[u]
  BY <1>3, GoesOne
<1> QED
  BY <1>1, <1>2, <1>3, <1>6, <1>7, <1>8, <1>9 DEF c, added

(* A rewritten record is a record.                                         *)
LEMMA RewrittenTyped ==
  ASSUME NEW q \in Entry, NEW n \in Nat
  PROVE  /\ Rewritten(q, n) \in Entry
         /\ Rewritten(q, n).hash = Altered(q.hash, n) /\ Rewritten(q, n).prev = Altered(q.prev, n)
         /\ Len(Altered(q.hash, n)) = Len(q.hash) /\ Len(Altered(q.prev, n)) = Len(q.prev)
<1>1. ASSUME NEW d \in Seq(Nat)
      PROVE  Altered(d, n) \in Seq(Nat) /\ Len(Altered(d, n)) = Len(d)
  <2>1. Len(d) \in Nat /\ DOMAIN d = 1..Len(d) /\ \A i \in 1..Len(d) : d[i] \in Nat
    BY LenProperties, ElementOfSeq
  <2>2. Altered(d, n) \in [1..Len(d) -> Nat]
    BY <2>1 DEF Altered
  <2> QED
    BY <2>1, <2>2, SeqDef, LenProperties
<1>2. q.hash \in Seq(Nat) /\ q.prev \in Seq(Nat) /\ q.data \in Nat
  BY DEF Entry
<1>3. Altered(q.hash, n) \in Seq(Nat) /\ Altered(q.prev, n) \in Seq(Nat)
  BY <1>1, <1>2
<1> QED
  BY <1>1, <1>2, <1>3 DEF Rewritten, Entry

(* An edit is one of a chain nobody had edited, and leaves records.        *)
LEMMA RowsEdited ==
  ASSUME Typed, NEW c \in Chains, Edit(c)
  PROVE  /\ c \notin Edited /\ Edited' = Edited \cup {c}
         /\ edited' \in [Chains -> Done]
         /\ \A d \in Chains \ {c} : rows'[d] = rows[d] /\ edited'[d] = edited[d]
         /\ UNCHANGED <<head, nextId, writer, verifier, todo, verdict>>
         /\ rows' \in [Chains -> SUBSET Entry] /\ IsFiniteSet(rows'[c])
         /\ \E r, last \in rows[c], kind \in {"removed", "altered", "annotated", "rewritten"} :
              /\ Len(r.hash) <= Len(last.hash)
              /\ rows'[c] = EditRow(c, r, kind, Len(last.hash))
              /\ edited'[c] = [kind |-> kind, upto |-> Len(last.hash)]
<1>1. PICK r \in rows[c], last \in rows[c], kind \in {"removed", "altered", "annotated", "rewritten"} :
        /\ Len(r.hash) <= Len(last.hash)
        /\ rows' = [rows EXCEPT ![c] = EditRow(c, r, kind, Len(last.hash))]
        /\ edited' = [edited EXCEPT ![c] = [kind |-> kind, upto |-> Len(last.hash)]]
  BY DEF Edit
<1>2. /\ rows[c] \subseteq Entry /\ IsFiniteSet(rows[c]) /\ r \in Entry /\ last \in Entry
      /\ Len(r.hash) \in Nat /\ Len(last.hash) \in Nat
  BY LenProperties DEF Typed, Entry
<1> DEFINE upto == Len(last.hash)
           left == EditRow(c, r, kind, upto)
           mark == [kind |-> kind, upto |-> upto]
<1>3. left \subseteq Entry /\ IsFiniteSet(left)
  <2>1. CASE kind = "removed"
    <3>1. left = rows[c] \ {r}
      BY <2>1 DEF EditRow
    <3> QED
      BY <1>2, <3>1, FS_RemoveElement
  <2>2. CASE kind = "altered"
    <3>1. left = (rows[c] \ {r}) \cup {[r EXCEPT !.data = 0]}
      BY <2>2 DEF EditRow
    <3>2. [r EXCEPT !.data = 0] \in Entry
      BY <1>2 DEF Entry
    <3>3. IsFiniteSet(rows[c] \ {r})
      BY <1>2, FS_RemoveElement
    <3>4. IsFiniteSet((rows[c] \ {r}) \cup {[r EXCEPT !.data = 0]})
      BY <3>3, FS_AddElement
    <3> QED
      BY <1>2, <3>1, <3>2, <3>4
  <2>3. CASE kind = "annotated"
    <3>1. left = (rows[c] \ {r}) \cup {[r EXCEPT !.origin = 0]}
      BY <2>3 DEF EditRow
    <3>2. [r EXCEPT !.origin = 0] \in Entry
      BY <1>2 DEF Entry
    <3>3. IsFiniteSet(rows[c] \ {r})
      BY <1>2, FS_RemoveElement
    <3>4. IsFiniteSet((rows[c] \ {r}) \cup {[r EXCEPT !.origin = 0]})
      BY <3>3, FS_AddElement
    <3> QED
      BY <1>2, <3>1, <3>2, <3>4
  <2>4. CASE kind = "rewritten"
    <3> DEFINE new(q) == IF Len(q.hash) \in Len(r.hash)..upto THEN Rewritten(q, Len(r.hash)) ELSE q
    <3>1. left = {new(q) : q \in rows[c]}
      BY <2>4 DEF EditRow
    <3>2. \A q \in rows[c] : new(q) \in Entry
      BY <1>2, RewrittenTyped
    <3> HIDE DEF new
    <3>3. left \subseteq Entry
      BY <3>1, <3>2
    <3>4. IsFiniteSet({new(q) : q \in rows[c]})
      <4> DEFINE f == [q \in rows[c] |-> new(q)]
                 S  == {new(q) : q \in rows[c]}
      <4>1. f \in Surjection(rows[c], S)
        BY DEF Surjection
      <4> HIDE DEF f, S
      <4> QED
        BY <1>2, <4>1, FS_Surjection DEF S
    <3> QED
      BY <3>1, <3>3, <3>4
  <2> QED
    BY <2>1, <2>2, <2>3, <2>4
<1>4. mark \in Done /\ mark # Unedited
  BY <1>2 DEF Done, Unedited
<1>5. rows' = [rows EXCEPT ![c] = left] /\ edited' = [edited EXCEPT ![c] = mark]
  BY <1>1
<1> HIDE DEF left, mark
<1>6. /\ rows' \in [Chains -> SUBSET Entry] /\ rows'[c] = left
      /\ edited' \in [Chains -> Done] /\ edited'[c] = mark
      /\ \A d \in Chains \ {c} : rows'[d] = rows[d] /\ edited'[d] = edited[d]
  BY <1>3, <1>4, <1>5 DEF Typed
<1>7. Edited' = Edited \cup {c}
  BY <1>4, <1>6 DEF Edited
<1> QED
  BY <1>1, <1>3, <1>6, <1>7 DEF Edit, left, mark

(* What a transaction is after a step of its own.                          *)
LEMMA NextLocks ==
  ASSUME NEW kind \in Kinds, NEW lock \in Locks
  PROVE  NextLock(kind, lock) \in Locks \cup {"ready"}
BY DEF Kinds, Locks, NextLock

LEMMA Unlocks ==
  ASSUME Typed, NEW w \in Processes, Acquires(w)
  PROVE  /\ writer[w] \in Active /\ writer'[w] \in Active
         /\ \E lock \in Locks :
              /\ MayGo(w, lock) /\ writer[w].pc = lock
              /\ writer'[w].holds = writer[w].holds \cup {lock}
              /\ writer'[w].pc = IF writer[w].added = <<>> THEN NextLock(writer[w].kind, lock) ELSE "ready"
              /\ writer'[w].pc \in Locks \cup {"ready"}
         /\ writer'[w].chain = writer[w].chain /\ writer'[w].kind = writer[w].kind
         /\ writer'[w].added = writer[w].added /\ writer'[w].id = writer[w].id
         /\ \A u \in Processes \ {w} : writer'[u] = writer[u]
         /\ UNCHANGED <<trail, nextId, edited>>
<1>1. PICK lock \in Locks : MayGo(w, lock) /\ Takes(w, lock)
  BY DEF Acquires
<1>2. writer[w] \in Active /\ writer[w].pc = lock
  BY <1>1, Working DEF MayGo, Locks
<1> DEFINE pc == IF writer[w].added = <<>> THEN NextLock(writer[w].kind, lock) ELSE "ready"
           work == [writer[w] EXCEPT !.holds = writer[w].holds \cup {lock}, !.pc = pc]
<1>3. pc \in Locks \cup {"ready"}
  BY <1>2, NextLocks DEF Active
<1>4. Goes(w, work) /\ UNCHANGED <<trail, nextId, edited>>
  BY <1>1 DEF Takes, audit
<1> HIDE DEF pc
<1>5. /\ work \in Active /\ work.pc = pc /\ work.holds = writer[w].holds \cup {lock}
      /\ work.chain = writer[w].chain /\ work.kind = writer[w].kind
      /\ work.added = writer[w].added /\ work.id = writer[w].id
  BY <1>2, <1>3 DEF Active
<1> HIDE DEF work
<1>6. writer'[w] = work /\ \A u \in Processes \ {w} : writer'[u] = writer[u]
  BY <1>4, GoesOne
<1> QED
  BY <1>1, <1>2, <1>3, <1>4, <1>5, <1>6 DEF pc

LEMMA Draws ==
  ASSUME Typed, NEW w \in Processes, DrawId(w)
  PROVE  /\ writer[w] \in Active
         /\ writer'[w] = [writer[w] EXCEPT !.pc = "head", !.id = nextId] /\ writer'[w] \in Active
         /\ \A u \in Processes \ {w} : writer'[u] = writer[u]
         /\ UNCHANGED <<trail, edited>> /\ nextId' = nextId + 1
<1>1. writer[w] \in Active
  BY Working DEF DrawId
<1>2. /\ Goes(w, [writer[w] EXCEPT !.pc = "head", !.id = nextId])
      /\ UNCHANGED <<trail, edited>> /\ nextId' = nextId + 1
  BY DEF DrawId, audit
<1>3. [writer[w] EXCEPT !.pc = "head", !.id = nextId] \in Active
  BY <1>1 DEF Active, Typed
<1> QED
  BY <1>1, <1>2, <1>3, GoesOne

LEMMA Links ==
  ASSUME Typed, NEW w \in Processes, AuditLogsChain(w)
  PROVE  /\ writer[w] \in Active /\ writer'[w] \in Active
         /\ writer'[w].pc \in {"ready", "share"}
         /\ writer'[w].chain = writer[w].chain /\ writer'[w].kind = writer[w].kind
         /\ writer'[w].holds = writer[w].holds
         /\ writer'[w].added = Append(writer[w].added, LinkedRow(w))
         /\ \A u \in Processes \ {w} : writer'[u] = writer[u]
         /\ UNCHANGED <<trail, nextId, edited>>
<1> DEFINE next == IF writer[w].chain = NIL THEN "ready" ELSE "share"
           longer == Append(writer[w].added, LinkedRow(w))
           work == [writer[w] EXCEPT !.added = longer, !.pc = next]
<1>1. writer[w] \in Active /\ writer[w].pc = "head"
  BY Working DEF AuditLogsChain, ChainHead, MayGo
<1>2. longer \in Seq(Entry)
  BY <1>1, HeadTyped
<1>3. Goes(w, work) /\ UNCHANGED <<trail, nextId, edited>>
  BY DEF AuditLogsChain, audit
<1>4. next \in {"ready", "share"}
  OBVIOUS
<1> HIDE DEF next, longer
<1>5. /\ work \in Active /\ work.pc = next /\ work.added = longer
      /\ work.chain = writer[w].chain /\ work.kind = writer[w].kind
      /\ work.holds = writer[w].holds
  BY <1>1, <1>2, <1>4 DEF Active, Locks
<1> HIDE DEF work
<1> QED
  BY <1>1, <1>3, <1>4, <1>5, GoesOne DEF longer

LEMMA Starts ==
  ASSUME Typed, NEW w \in Processes, Begins(w)
  PROVE  /\ writer'[w] \in FreshWork
         /\ \A u \in Processes \ {w} : writer'[u] = writer[u]
         /\ UNCHANGED <<trail, nextId, edited>>
BY GoesOne DEF Begins

LEMMA TrailTyped ==
  ASSUME Typed, [Next]_vars
  PROVE  /\ rows' \in [Chains -> SUBSET Entry] /\ \A c \in Chains : IsFiniteSet(rows'[c])
         /\ head' \in [Chains -> [hash : Seq(Nat), count : Nat]]
         /\ nextId' \in Nat \ {0}
         /\ writer' \in [Processes -> {Idle} \cup Active]
         /\ edited' \in [Chains -> Done]
<1>1. CASE Aside
  BY <1>1 DEF Aside, trail, Typed
<1>2. ASSUME NEW c \in Chains, Edit(c)
      PROVE  /\ rows' \in [Chains -> SUBSET Entry] /\ \A d \in Chains : IsFiniteSet(rows'[d])
             /\ UNCHANGED <<head, nextId, writer>> /\ edited' \in [Chains -> Done]
  BY <1>2, RowsEdited DEF Typed
<1>3. ASSUME NEW w \in Processes, Commit(w)
      PROVE  /\ rows' \in [Chains -> SUBSET Entry] /\ \A d \in Chains : IsFiniteSet(rows'[d])
             /\ head' \in [Chains -> [hash : Seq(Nat), count : Nat]]
             /\ UNCHANGED <<nextId, edited>> /\ Goes(w, Idle)
  <2>1. \A d \in Chains : IsFiniteSet(rows'[d])
    BY <1>3, Commits DEF Typed
  <2> QED
    BY <1>3, <2>1, Commits DEF Commit
<1>4. ASSUME NEW w \in Processes,
             Begins(w) \/ Acquires(w) \/ DrawId(w) \/ AuditLogsChain(w)
      PROVE  /\ UNCHANGED <<rows, head, edited>> /\ nextId' \in Nat \ {0}
             /\ writer' \in [Processes -> {Idle} \cup Active]
  <2>1. PICK work : Goes(w, work)
    BY <1>4 DEF Begins, Acquires, Takes, DrawId, AuditLogsChain
  <2>2. work \in {Idle} \cup Active
    <3>1. writer'[w] = work
      BY <2>1, GoesOne
    <3>2. CASE Begins(w)
      BY <3>1, <3>2, Starts, FreshTyped
    <3>3. CASE Acquires(w)
      BY <3>1, <3>3, Unlocks
    <3>4. CASE DrawId(w)
      BY <3>1, <3>4, Draws
    <3>5. CASE AuditLogsChain(w)
      BY <3>1, <3>5, Links
    <3> QED
      BY <1>4, <3>2, <3>3, <3>4, <3>5
  <2>3. UNCHANGED <<rows, head, edited>> /\ nextId' \in {nextId, nextId + 1}
    BY <1>4, Starts, Unlocks, Draws, Links DEF trail
  <2> QED
    BY <2>1, <2>2, <2>3, GoesTyped DEF Typed
<1> QED
  BY <1>1, <1>2, <1>3, <1>4, Steps, GoesTyped DEF Typed

LEMMA NextTyped == Typed /\ [Next]_vars => Typed'
<1> SUFFICES ASSUME Typed, [Next]_vars PROVE Typed'
  OBVIOUS
<1> DEFINE AuditTyped == /\ verifier' \in {Idle} \cup Walk /\ todo' \subseteq Chains
                         /\ verdict' \in [Chains -> {"none", "intact", "broken"}]
<1>1. UNCHANGED <<verifier, todo, verdict>> => AuditTyped
  BY DEF Typed
<1>2. UNCHANGED vars => AuditTyped
  BY <1>1 DEF vars
<1>3. ASSUME NEW w \in Processes, Progress(w) \/ Rollback(w)
      PROVE  AuditTyped
  BY <1>1, <1>3 DEF Progress, Rollback, DeadlockVictim, LockAgreement, ReferToAgreement,
     MarkCeremony, Takes, DrawId, AuditLogsChain, Commit, audit, Typed
<1>4. BeginVerify \/ CompareHead => AuditTyped
  BY DEF BeginVerify, CompareHead, RaiseAlarm, Typed, Walk
<1>5. ASSUME NEW c \in Chains, WalkRows(c) \/ Edit(c)
      PROVE  AuditTyped
  <2>1. CASE Edit(c)
    BY <1>1, <2>1 DEF Edit
  <2>2. CASE BrokenRows(c) # {} /\ RaiseAlarm(c) /\ todo' = todo \ {c}
    BY <2>2 DEF RaiseAlarm, Typed
  <2>3. CASE /\ verifier' = [pc |-> "head", chain |-> c, seen |-> Cardinality(rows[c]),
                             edit |-> edited[c],
                             toEnd |-> \A r \in rows[c] : Len(r.hash) <= edited[c].upto]
             /\ verdict' = verdict /\ todo' = todo \ {c}
    <3>1. Cardinality(rows[c]) \in Nat
      BY FS_CardinalityType DEF Typed
    <3>2. edited[c] \in Done /\ (\A r \in rows[c] : Len(r.hash) <= edited[c].upto) \in BOOLEAN
      BY DEF Typed
    <3>3. verifier' \in Walk
      BY <2>3, <3>1, <3>2 DEF Walk
    <3> QED
      BY <2>3, <3>3 DEF Typed
  <2> QED
    BY <1>5, <2>1, <2>2, <2>3 DEF WalkRows
<1>6. ASSUME NEW w \in Writers, NEW kind \in Kinds, NEW c \in Chains, Begin(w, kind, c)
      PROVE  AuditTyped
  BY <1>1, <1>6 DEF Begin, audit
<1>7. AuditTyped
  BY <1>2, <1>3, <1>4, <1>5, <1>6 DEF Next
<1> QED
  BY <1>7, TrailTyped DEF Typed

-----------------------------------------------------------------------------
(* Locks exclude one another: the head of a chain, the row of an agreement *)
(* and the shares of it, the row of a ceremony.                            *)
Conflict == {<<"row", "row">>, <<"row", "share">>, <<"share", "row">>, <<"mark", "mark">>}

Apart ==
  /\ \A w, u \in Processes, c \in Chains : HoldsHead(w, c) /\ HoldsHead(u, c) => w = u
  /\ \A w, u \in Processes, c \in Chains, a, b \in Locks :
       <<a, b>> \in Conflict /\ Holds(w, a, c) /\ Holds(u, b, c) => w = u

(* What a transition holds when it waits for a lock before it records.     *)
Waits ==
  {<<"moves", "row", {}>>,            <<"corrects", "row", {}>>,
   <<"corrects", "mark", {"row"}>>,   <<"rejects", "share", {}>>,
   <<"rejects", "row", {"share"}>>,   <<"completes", "share", {}>>,
   <<"completes", "mark", {"share"}>>, <<"completes", "row", {"share", "mark"}>>,
   <<"fails", "mark", {}>>,           <<"fails", "share", {"mark"}>>,
   <<"fails", "row", {"share", "mark"}>>}

PlacedWork(work) ==
  /\ work.kind = "records" =>
       /\ work.pc \in {"ready", "head", "share"} /\ work.holds \subseteq {"share"}
       /\ work.pc # "ready" => work.holds = {}
       /\ work.added = <<>> => work.holds = {} /\ work.pc # "share"
       /\ work.pc = "head" => work.added = <<>>
  /\ work.kind # "records" =>
       /\ work.added # <<>> \/ work.pc \in {"ready", "head"} => "row" \in work.holds
       /\ work.added = <<>> /\ work.pc \in Locks => <<work.kind, work.pc, work.holds>> \in Waits
  /\ work.pc \in {"row", "mark"} => work.added = <<>>

Placed == \A w \in Processes : writer[w] # Idle => PlacedWork(writer[w])

Exclusive == Apart /\ Placed

LEMMA ExclusiveKept ==
  ASSUME Exclusive, NEW w \in Processes,
         \A u \in Processes \ {w} : writer'[u] = writer[u],
         \A c \in Chains : HoldsHead(w, c)' =>
           HoldsHead(w, c) \/ \A u \in Processes \ {w} : ~HoldsHead(u, c),
         \A c \in Chains, a \in Locks : Holds(w, a, c)' =>
           \/ Holds(w, a, c)
           \/ \A u \in Processes \ {w}, b \in Locks : <<a, b>> \in Conflict => ~Holds(u, b, c),
         writer'[w] # Idle => PlacedWork(writer'[w])
  PROVE  Exclusive'
<1>1. \A u \in Processes \ {w}, c \in Chains :
        (HoldsHead(u, c)' <=> HoldsHead(u, c)) /\ \A a \in Locks : Holds(u, a, c)' <=> Holds(u, a, c)
  BY DEF HoldsHead, Holds, On
<1>2. \A a, b \in Locks : <<a, b>> \in Conflict <=> <<b, a>> \in Conflict
  BY DEF Conflict, Locks
<1>3. \A v, u \in Processes, c \in Chains : (HoldsHead(v, c) /\ HoldsHead(u, c))' => v = u
  BY <1>1 DEF Exclusive, Apart
<1>4. ASSUME NEW v \in Processes, NEW u \in Processes, NEW c \in Chains, NEW a \in Locks, NEW b \in Locks,
             <<a, b>> \in Conflict, Holds(v, a, c)', Holds(u, b, c)', v # u
      PROVE  FALSE
  <2>1. CASE v = w
    <3>1. Holds(u, b, c) /\ ~Holds(w, a, c)
      BY <1>1, <1>4, <2>1 DEF Exclusive, Apart
    <3> QED
      BY <1>4, <2>1, <3>1
  <2>2. CASE u = w
    <3>1. Holds(v, a, c) /\ ~Holds(w, b, c)
      BY <1>1, <1>4, <2>2 DEF Exclusive, Apart
    <3> QED
      BY <1>2, <1>4, <2>2, <3>1
  <2>3. CASE v # w /\ u # w
    BY <1>1, <1>4, <2>3 DEF Exclusive, Apart
  <2> QED
    BY <2>1, <2>2, <2>3
<1>5. Apart'
  BY <1>3, <1>4 DEF Apart
<1>6. Placed'
  BY DEF Exclusive, Placed
<1> QED
  BY <1>5, <1>6 DEF Exclusive

(* Who is granted a lock is in nobody's way.                               *)
LEMMA Granted ==
  ASSUME NEW w \in Processes, NEW lock \in Locks, MayGo(w, lock), NEW u \in Processes \ {w},
         NEW b \in Locks, <<lock, b>> \in Conflict
  PROVE  ~Holds(u, b, writer[w].chain)
BY DEF MayGo, WaitsFor, Conflict, Locks

(* A place in the order of locks leads to the next.                        *)
LEMMA PlacesFollow ==
  ASSUME NEW old \in Active, NEW lock \in Locks, old.pc = lock, PlacedWork(old),
         NEW new \in Active, new.kind = old.kind, new.added = old.added,
         new.holds = old.holds \cup {lock},
         new.pc = IF old.added = <<>> THEN NextLock(old.kind, lock) ELSE "ready"
  PROVE  PlacedWork(new)
<1>1. CASE old.kind = "records"
  <2>1. lock = "share" /\ old.added # <<>> /\ old.holds = {}
    BY <1>1 DEF PlacedWork, Locks
  <2>2. new.pc = "ready" /\ new.holds = {"share"} /\ new.added # <<>>
    BY <2>1
  <2> QED
    BY <1>1, <2>2 DEF PlacedWork
<1>2. CASE old.kind # "records" /\ old.added # <<>>
  <2>1. "row" \in new.holds /\ new.pc = "ready" /\ new.added # <<>>
    BY <1>2 DEF PlacedWork
  <2> QED
    BY <1>2, <2>1 DEF PlacedWork
<1>3. CASE old.kind # "records" /\ old.added = <<>>
  <2>1. <<old.kind, lock, old.holds>> \in Waits
    BY <1>3 DEF PlacedWork
  <2>2. new.pc = NextLock(old.kind, lock)
    BY <1>3
  <2>3. /\ new.pc \in {"ready", "head"} => "row" \in new.holds
        /\ new.pc \in Locks => <<new.kind, new.pc, new.holds>> \in Waits
    <3>1. CASE lock = "share"
      <4>1. \/ old.kind = "rejects" /\ new.pc = "row" /\ new.holds = {"share"}
            \/ old.kind = "completes" /\ new.pc = "mark" /\ new.holds = {"share"}
            \/ old.kind = "fails" /\ new.pc = "row" /\ new.holds = {"share", "mark"}
        BY <2>1, <2>2, <3>1 DEF Waits, NextLock
      <4> QED
        BY <4>1 DEF Waits
    <3>2. CASE lock = "mark"
      <4>1. \/ old.kind = "corrects" /\ new.pc = "ready" /\ new.holds = {"row", "mark"}
            \/ old.kind = "completes" /\ new.pc = "row" /\ new.holds = {"share", "mark"}
            \/ old.kind = "fails" /\ new.pc = "share" /\ new.holds = {"mark"}
        BY <2>1, <2>2, <3>2 DEF Waits, NextLock
      <4> QED
        BY <4>1 DEF Waits, Locks
    <3>3. CASE lock = "row"
      <4>1. "row" \in new.holds
        BY <3>3
      <4>2. old.kind = "corrects" => new.holds = {"row"} /\ new.pc = "mark"
        BY <2>1, <2>2, <3>3 DEF Waits, NextLock
      <4>3. old.kind # "corrects" => new.pc = "ready"
        BY <2>2, <3>3 DEF NextLock
      <4> QED
        BY <4>1, <4>2, <4>3 DEF Waits, Locks
    <3> QED
      BY <3>1, <3>2, <3>3 DEF Locks
  <2> QED
    BY <1>3, <2>3 DEF PlacedWork
<1> QED
  BY <1>1, <1>2, <1>3

LEMMA FreshPlaced ==
  ASSUME NEW work \in FreshWork, work # Idle
  PROVE  PlacedWork(work) /\ work.added = <<>> /\ work.holds = {}
<1>1. /\ work \in Active /\ work.added = <<>> /\ work.holds = {} /\ work.pc = FirstLock(work.kind)
      /\ work.kind \in Kinds
  BY DEF FreshWork, Active
<1>2. /\ work.kind = "records" <=> work.pc = "ready"
      /\ work.pc # "head"
      /\ work.kind # "records" => <<work.kind, work.pc, {}>> \in Waits
  BY <1>1 DEF FirstLock, Kinds, Waits
<1> QED
  BY <1>1, <1>2 DEF PlacedWork

LEMMA ExclusiveNext == Typed /\ Exclusive /\ [Next]_vars => Exclusive'
<1> SUFFICES ASSUME Typed, Exclusive, [Next]_vars PROVE Exclusive'
  OBVIOUS
<1>1. CASE writer' = writer
  BY <1>1 DEF Exclusive, Apart, Placed, HoldsHead, Holds, On
<1>2. ASSUME NEW w \in Processes, Begins(w) \/ Commit(w) PROVE Exclusive'
  <2>1. writer'[w] \in FreshWork /\ \A u \in Processes \ {w} : writer'[u] = writer[u]
    BY <1>2, Starts, Commits DEF FreshWork
  <2>2. CASE writer'[w] = Idle
    BY <2>1, <2>2, ExclusiveKept DEF HoldsHead, Holds, On, Idle
  <2>3. CASE writer'[w] # Idle
    <3>1. PlacedWork(writer'[w]) /\ writer'[w].added = <<>> /\ writer'[w].holds = {}
      BY <2>1, <2>3, FreshPlaced
    <3>2. \A c \in Chains : ~HoldsHead(w, c)' /\ \A a \in Locks : ~Holds(w, a, c)'
      BY <3>1 DEF HoldsHead, Holds
    <3> QED
      BY <2>1, <3>1, <3>2, ExclusiveKept
  <2> QED
    BY <2>2, <2>3
<1>3. ASSUME NEW w \in Processes, Acquires(w) PROVE Exclusive'
  <2>1. PICK lock \in Locks :
          /\ MayGo(w, lock) /\ writer[w].pc = lock
          /\ writer'[w].holds = writer[w].holds \cup {lock}
          /\ writer'[w].pc = IF writer[w].added = <<>> THEN NextLock(writer[w].kind, lock) ELSE "ready"
    BY <1>3, Unlocks
  <2>2. /\ writer[w] \in Active /\ writer'[w] \in Active
        /\ writer'[w].chain = writer[w].chain /\ writer'[w].kind = writer[w].kind
        /\ writer'[w].added = writer[w].added
        /\ \A u \in Processes \ {w} : writer'[u] = writer[u]
    BY <1>3, Unlocks
  <2>3. writer[w].pc # "idle" /\ writer[w] # Idle
    BY <2>1, <2>2 DEF Locks, Idle
  <2>4. PlacedWork(writer'[w])
    BY <2>1, <2>2, <2>3, PlacesFollow DEF Exclusive, Placed
  <2>5. \A c \in Chains : HoldsHead(w, c)' => HoldsHead(w, c)
    BY <2>2, <2>3 DEF HoldsHead, On
  <2>6. \A c \in Chains, a \in Locks : Holds(w, a, c)' => Holds(w, a, c) \/ (a = lock /\ c = writer[w].chain)
    BY <2>1, <2>2, <2>3 DEF Holds, On
  <2>7. \A u \in Processes \ {w}, b \in Locks : <<lock, b>> \in Conflict => ~Holds(u, b, writer[w].chain)
    BY <2>1, Granted
  <2> QED
    BY <2>2, <2>4, <2>5, <2>6, <2>7, ExclusiveKept
<1>4. ASSUME NEW w \in Processes, DrawId(w) PROVE Exclusive'
  <2>1. /\ writer[w] \in Active /\ writer'[w] = [writer[w] EXCEPT !.pc = "head", !.id = nextId]
        /\ \A u \in Processes \ {w} : writer'[u] = writer[u]
    BY <1>4, Draws
  <2>2. /\ writer[w].pc = "ready" /\ writer[w] # Idle
        /\ writer'[w].pc = "head" /\ writer'[w].chain = writer[w].chain
        /\ writer'[w].kind = writer[w].kind /\ writer'[w].added = writer[w].added
        /\ writer'[w].holds = writer[w].holds
        /\ writer[w].added # <<>> => writer[w].kind # "records"
    BY <1>4, <2>1 DEF Active, DrawId, Idle
  <2>3. PlacedWork(writer[w])
    BY <2>2 DEF Exclusive, Placed
  <2>4. PlacedWork(writer'[w])
    BY <2>2, <2>3 DEF PlacedWork, Locks
  <2>5. \A c \in Chains : HoldsHead(w, c)' => HoldsHead(w, c)
    BY <2>2 DEF HoldsHead, On
  <2>6. \A c \in Chains, a \in Locks : Holds(w, a, c)' => Holds(w, a, c)
    BY <2>2 DEF Holds, On
  <2> QED
    BY <2>1, <2>4, <2>5, <2>6, ExclusiveKept
<1>5. ASSUME NEW w \in Processes, AuditLogsChain(w) PROVE Exclusive'
  <2>0. writer[w].pc = "head" /\ writer[w] # Idle
    BY <1>5 DEF AuditLogsChain, ChainHead, MayGo, Idle
  <2>1. /\ writer[w] \in Active
        /\ writer'[w].pc \in {"ready", "share"} /\ writer'[w].chain = writer[w].chain
        /\ writer'[w].kind = writer[w].kind /\ writer'[w].holds = writer[w].holds
        /\ writer'[w].added = Append(writer[w].added, LinkedRow(w))
        /\ \A u \in Processes \ {w} : writer'[u] = writer[u]
    BY <1>5, Links
  <2>2. \A u \in Processes \ {w} : ~HoldsHead(u, writer[w].chain)
    BY <1>5 DEF AuditLogsChain, ChainHead, MayGo, WaitsFor
  <2>3. \A c \in Chains : HoldsHead(w, c)' => c = writer[w].chain
    BY <2>1 DEF HoldsHead, On
  <2>4. \A c \in Chains, a \in Locks : Holds(w, a, c)' => Holds(w, a, c)
    BY <2>0, <2>1 DEF Holds, On
  <2>5. writer'[w].added # <<>>
    <3>1. writer[w].added \in Seq(Entry) /\ LinkedRow(w) \in Entry
      BY <2>0, <2>1, HeadTyped DEF Active
    <3>2. Len(Append(writer[w].added, LinkedRow(w))) = Len(writer[w].added) + 1 /\ Len(writer[w].added) \in Nat
      BY <3>1, AppendProperties, LenProperties
    <3> QED
      BY <2>1, <3>2, GenesisIsEmpty DEF Genesis
  <2>6. PlacedWork(writer[w])
    BY <2>0 DEF Exclusive, Placed
  <2>7. PlacedWork(writer'[w])
    BY <2>0, <2>1, <2>5, <2>6 DEF PlacedWork, Locks
  <2> QED
    BY <2>1, <2>2, <2>3, <2>4, <2>7, ExclusiveKept
<1>6. Aside => writer' = writer
  BY DEF Aside
<1>7. \A c \in Chains : Edit(c) => writer' = writer
  BY RowsEdited
<1> QED
  BY <1>1, <1>2, <1>3, <1>4, <1>5, <1>6, <1>7, Steps

LEMMA ExclusiveInit == Init => Exclusive
BY DEF Init, Exclusive, Apart, Placed, HoldsHead, Holds, On, Idle

(* What it takes for u to be in the way of w.                              *)
LEMMA InTheWay ==
  ASSUME Typed, NEW w \in Processes, NEW u \in WaitsFor(w)
  PROVE  /\ u \in Processes /\ u # w /\ writer[u].pc # "idle"
         /\ writer[u].chain = writer[w].chain /\ writer[w].chain \in Chains
         /\ writer[w].pc \in Locks \cup {"head"} /\ writer[w].kind \in Kinds
         /\ writer[w].pc = "row" => "row" \in writer[u].holds \/ "share" \in writer[u].holds
         /\ writer[w].pc = "share" => "row" \in writer[u].holds
         /\ writer[w].pc = "mark" => "mark" \in writer[u].holds
         /\ writer[w].pc = "head" => writer[u].added # <<>>
<1>1. /\ u \in Processes /\ u # w
      /\ writer[w].pc \in Locks \cup {"head"}
  BY DEF WaitsFor, Locks
<1>2. writer[w] \in Active
  BY <1>1, Working DEF Locks
<1> QED
  BY <1>1, <1>2 DEF WaitsFor, Holds, HoldsHead, On, Active

(* Two that wait for each other, by what each of them waits for.           *)
Facing(v, x) ==
  /\ PlacedWork(v) /\ PlacedWork(x)
  /\ v.pc \in {"row", "share", "mark", "head"} /\ x.pc \in {"row", "share", "mark", "head"}
  /\ v.pc = "row" => "row" \in x.holds \/ "share" \in x.holds
  /\ v.pc = "share" => "row" \in x.holds
  /\ v.pc = "mark" => "mark" \in x.holds
  /\ v.pc = "head" => x.added # <<>>
  /\ x.pc = "row" => "row" \in v.holds \/ "share" \in v.holds
  /\ x.pc = "share" => "row" \in v.holds
  /\ x.pc = "mark" => "mark" \in v.holds
  /\ x.pc = "head" => v.added # <<>>
  /\ ~(v.added # <<>> /\ x.added # <<>>)
  /\ ~("row" \in v.holds /\ ("row" \in x.holds \/ "share" \in x.holds))
  /\ ~("row" \in x.holds /\ "share" \in v.holds)
  /\ ~("mark" \in v.holds /\ "mark" \in x.holds)

May(a, b) ==
  \/ "records" \in {a, b} /\ {a, b} # {"records"}
  \/ {a, b} \subseteq {"rejects", "completes", "fails"}
  \/ {a, b} = {"corrects", "fails"}

LEMMA AtRow ==
  ASSUME NEW y, PlacedWork(y), y.pc = "row"
  PROVE  /\ "row" \notin y.holds /\ y.added = <<>>
         /\ "share" \in y.holds => y.kind \in {"rejects", "completes", "fails"}
         /\ "mark" \in y.holds => "share" \in y.holds
BY DEF PlacedWork, Waits, Locks

LEMMA AtMark ==
  ASSUME NEW y, PlacedWork(y), y.pc = "mark"
  PROVE  /\ "mark" \notin y.holds /\ y.added = <<>>
         /\ "share" \in y.holds => y.kind = "completes"
         /\ "row" \in y.holds => y.kind = "corrects"
BY DEF PlacedWork, Waits, Locks

LEMMA AtShare ==
  ASSUME NEW y, PlacedWork(y), y.pc = "share"
  PROVE  /\ y.added = <<>> => y.holds \subseteq {"mark"}
         /\ "mark" \in y.holds /\ "row" \notin y.holds => y.kind = "fails"
         /\ y.added # <<>> /\ "row" \notin y.holds => y.kind = "records"
BY DEF PlacedWork, Waits, Locks

LEMMA FacingRow ==
  ASSUME NEW v, NEW x, Facing(v, x), v.pc = "row"
  PROVE  May(v.kind, x.kind)
<1>1. /\ "row" \notin v.holds /\ v.added = <<>>
      /\ "share" \in v.holds => v.kind \in {"rejects", "completes", "fails"}
      /\ "mark" \in v.holds => "share" \in v.holds
  BY AtRow DEF Facing
<1>2. x.pc \in {"row", "mark"}
  BY <1>1 DEF Facing
<1>3. CASE x.pc = "row"
  <2>1. /\ "row" \notin x.holds
        /\ "share" \in x.holds => x.kind \in {"rejects", "completes", "fails"}
    BY <1>3, AtRow DEF Facing
  <2>2. "share" \in v.holds /\ "share" \in x.holds
    BY <1>1, <1>3, <2>1 DEF Facing
  <2> QED
    BY <1>1, <2>1, <2>2 DEF May
<1>4. CASE x.pc = "mark"
  <2>1. "mark" \in v.holds /\ "share" \in v.holds /\ "row" \notin x.holds
    BY <1>1, <1>4 DEF Facing
  <2>2. "share" \in x.holds
    BY <2>1 DEF Facing
  <2>3. x.kind = "completes"
    BY <1>4, <2>2, AtMark DEF Facing
  <2> QED
    BY <1>1, <2>1, <2>3 DEF May
<1> QED
  BY <1>2, <1>3, <1>4

LEMMA FacingMark ==
  ASSUME NEW v, NEW x, Facing(v, x), v.pc = "mark", x.pc # "row"
  PROVE  May(v.kind, x.kind)
<1>1. /\ "mark" \notin v.holds /\ v.added = <<>> /\ "mark" \in x.holds
      /\ "row" \in v.holds => v.kind = "corrects"
  BY AtMark DEF Facing
<1>2. x.pc = "share" /\ "row" \in v.holds
  BY <1>1 DEF Facing
<1>3. "row" \notin x.holds
  BY <1>2 DEF Facing
<1>4. x.kind = "fails"
  BY <1>1, <1>2, <1>3, AtShare DEF Facing
<1> QED
  BY <1>1, <1>2, <1>4 DEF May

LEMMA FacingOther ==
  ASSUME NEW v, NEW x, Facing(v, x), v.pc = "share", x.pc \in {"share", "head"}
  PROVE  May(v.kind, x.kind)
<1>1. "row" \in x.holds /\ "row" \notin v.holds
  BY DEF Facing
<1>2. x.pc = "head" /\ v.added # <<>>
  BY <1>1 DEF Facing
<1>3. v.kind = "records"
  BY <1>1, <1>2, AtShare DEF Facing
<1>4. x.kind # "records"
  BY <1>1 DEF Facing, PlacedWork
<1> QED
  BY <1>3, <1>4 DEF May

LEMMA Standoff ==
  ASSUME Typed, Exclusive, NEW w \in Processes, NEW u \in WaitsFor(w), w \in WaitsFor(u)
  PROVE  May(writer[w].kind, writer[u].kind)
<1> DEFINE v == writer[w]
           x == writer[u]
<1>1. /\ u \in Processes /\ u # w /\ v.chain = x.chain /\ v.chain \in Chains
      /\ v.pc \in {"row", "share", "mark", "head"} /\ x.pc \in {"row", "share", "mark", "head"}
      /\ v.pc = "row" => "row" \in x.holds \/ "share" \in x.holds
      /\ v.pc = "share" => "row" \in x.holds
      /\ v.pc = "mark" => "mark" \in x.holds
      /\ v.pc = "head" => x.added # <<>>
      /\ x.pc = "row" => "row" \in v.holds \/ "share" \in v.holds
      /\ x.pc = "share" => "row" \in v.holds
      /\ x.pc = "mark" => "mark" \in v.holds
      /\ x.pc = "head" => v.added # <<>>
  BY InTheWay DEF Locks
<1>2. PlacedWork(v) /\ PlacedWork(x) /\ v.pc # "idle" /\ x.pc # "idle"
  BY <1>1 DEF Exclusive, Placed, Idle
<1>3. /\ ~(v.added # <<>> /\ x.added # <<>>)
      /\ ~("row" \in v.holds /\ ("row" \in x.holds \/ "share" \in x.holds))
      /\ ~("row" \in x.holds /\ "share" \in v.holds)
      /\ ~("mark" \in v.holds /\ "mark" \in x.holds)
  BY <1>1, <1>2 DEF Exclusive, Apart, HoldsHead, Holds, On, Conflict, Locks
<1> HIDE DEF v, x
<1>4. Facing(v, x) /\ Facing(x, v)
  BY <1>1, <1>2, <1>3 DEF Facing
<1>5. May(v.kind, x.kind) \/ May(x.kind, v.kind)
  <2>1. CASE v.pc = "row" \/ x.pc = "row"
    BY <1>4, <2>1, FacingRow
  <2>2. CASE v.pc # "row" /\ x.pc # "row" /\ (v.pc = "mark" \/ x.pc = "mark")
    BY <1>4, <2>2, FacingMark
  <2>3. CASE v.pc = "share" /\ x.pc \in {"share", "head"}
    BY <1>4, <2>3, FacingOther
  <2>4. CASE x.pc = "share" /\ v.pc \in {"share", "head"}
    BY <1>4, <2>4, FacingOther
  <2>5. ~(v.pc = "head" /\ x.pc = "head")
    BY <1>4 DEF Facing
  <2> QED
    BY <1>1, <2>1, <2>2, <2>3, <2>4, <2>5
<1> QED
  BY <1>5 DEF May, v, x

(* Two transactions that deadlock are a record written on its own and a    *)
(* transition, two transitions that had referred to the agreement before   *)
(* they locked it, or a correction and a failing ceremony, however many    *)
(* there are.                                                              *)
THEOREM DeadlocksHold == Spec => []DeadlocksExplained
<1>1. Typed /\ Exclusive => DeadlocksExplained
  BY Standoff, InTheWay DEF DeadlocksExplained, May
<1> QED
  BY <1>1, InitTyped, NextTyped, ExclusiveInit, ExclusiveNext, PTL DEF Spec

-----------------------------------------------------------------------------
(* Linearity.  The digest of a record is one longer than the one before it,*)
(* so that its length is its place in the chain.                           *)

(* A digest that covers no altered content.                                *)
Clean(d) == d \in Seq(Nat \ {0})

LEMMA CleanHash ==
  ASSUME NEW prev, Clean(prev), NEW doc \in Nat \ {0}
  PROVE  Clean(Hash(prev, doc))
BY AppendProperties DEF Clean, Hash

(* The records of a transaction follow one another, the first the head.    *)
Follows(s, h) ==
  \A i \in DOMAIN s :
    /\ s[i].hash = Hash(s[i].prev, s[i].data) /\ s[i].data # 0
    /\ Clean(s[i].prev) /\ Clean(s[i].hash)
    /\ i = 1 => s[i].prev = h
    /\ i # 1 => i - 1 \in DOMAIN s /\ s[i].prev = s[i - 1].hash
    /\ Len(s[i].hash) = Len(h) + i

(* Records R make up a chain with head hd: Linear, and no two in one place.*)
Chained(R, hd) ==
  /\ hd.count = Cardinality(R)
  /\ hd.hash = Genesis \/ \E r \in R : r.hash = hd.hash
  /\ \A r \in R :
       /\ r.hash = Hash(r.prev, r.data) /\ r.data # 0
       /\ Clean(r.prev) /\ Clean(r.hash)
       /\ r.prev = Genesis \/ \E q \in R : q.hash = r.prev
       /\ Len(r.hash) <= Len(hd.hash)
  /\ \A q, r \in R : Len(q.hash) = Len(r.hash) => q = r

LEMMA FollowsAppend ==
  ASSUME NEW s \in Seq(Entry), NEW h \in Seq(Nat), Clean(h), Follows(s, h), NEW e \in Entry,
         e.prev = IF s = <<>> THEN h ELSE Last(s).hash,
         e.hash = Hash(e.prev, e.data), e.data # 0
  PROVE  Follows(Append(s, e), h)
<1>1. /\ Len(s) \in Nat /\ DOMAIN s = 1..Len(s)
      /\ s # <<>> => Len(s) \in DOMAIN s /\ Last(s) = s[Len(s)]
      /\ s = <<>> => Len(s) = 0
  BY Entries, EmptySeq
<1>2. PICK t : t = Append(s, e)
  OBVIOUS
<1>3. /\ t \in Seq(Entry) /\ Len(t) = Len(s) + 1
      /\ \A i \in 1..Len(s) : t[i] = s[i]
      /\ t[Len(s) + 1] = e
  BY <1>2, AppendProperties
<1>4. DOMAIN t = 1..(Len(s) + 1)
  BY <1>3, LenProperties
<1>5. /\ e.prev \in Seq(Nat) /\ e.data \in Nat /\ Len(h) \in Nat
      /\ Len(e.hash) = Len(e.prev) + 1
  BY Digests, LenProperties DEF Entry
<1>6. Len(e.prev) = Len(h) + Len(s)
  <2>1. CASE s = <<>>
    BY <1>1, <1>5, <2>1
  <2>2. CASE s # <<>>
    <3>1. Len(s) \in DOMAIN s /\ e.prev = s[Len(s)].hash
      BY <1>1, <2>2
    <3> QED
      BY <3>1 DEF Follows
  <2> QED
    BY <2>1, <2>2
<1>7. Len(e.hash) = Len(h) + (Len(s) + 1)
  BY <1>1, <1>5, <1>6
<1>8. Len(s) + 1 # 1 => Len(s) \in DOMAIN t /\ e.prev = t[Len(s)].hash
  BY <1>1, <1>3, <1>4
<1>9. Len(s) + 1 = 1 => e.prev = h
  BY <1>1
<1>c. Clean(e.prev) /\ Clean(e.hash)
  <2>1. s # <<>> => Clean(Last(s).hash)
    BY <1>1 DEF Follows
  <2>2. Clean(e.prev) /\ e.data \in Nat \ {0}
    BY <1>5, <2>1
  <2> QED
    BY <2>2, CleanHash
<1>10. \A i \in 1..Len(s) :
         /\ t[i].hash = Hash(t[i].prev, t[i].data) /\ t[i].data # 0
         /\ Clean(t[i].prev) /\ Clean(t[i].hash)
         /\ i = 1 => t[i].prev = h
         /\ i # 1 => i - 1 \in 1..Len(s) /\ t[i].prev = t[i - 1].hash
         /\ Len(t[i].hash) = Len(h) + i
  <2> SUFFICES ASSUME NEW i \in 1..Len(s)
               PROVE  /\ t[i].hash = Hash(t[i].prev, t[i].data) /\ t[i].data # 0
                      /\ Clean(t[i].prev) /\ Clean(t[i].hash)
                      /\ i = 1 => t[i].prev = h
                      /\ i # 1 => i - 1 \in 1..Len(s) /\ t[i].prev = t[i - 1].hash
                      /\ Len(t[i].hash) = Len(h) + i
    OBVIOUS
  <2>1. /\ s[i].hash = Hash(s[i].prev, s[i].data) /\ s[i].data # 0
        /\ Clean(s[i].prev) /\ Clean(s[i].hash)
        /\ i = 1 => s[i].prev = h
        /\ i # 1 => i - 1 \in 1..Len(s) /\ s[i].prev = s[i - 1].hash
        /\ Len(s[i].hash) = Len(h) + i
    BY <1>1 DEF Follows
  <2>2. t[i] = s[i] /\ (i # 1 => t[i - 1] = s[i - 1])
    BY <1>3, <2>1
  <2> QED
    BY <2>1, <2>2
<1>11. Follows(t, h)
  <2> SUFFICES ASSUME NEW i \in 1..(Len(s) + 1)
               PROVE  /\ t[i].hash = Hash(t[i].prev, t[i].data) /\ t[i].data # 0
                      /\ Clean(t[i].prev) /\ Clean(t[i].hash)
                      /\ i = 1 => t[i].prev = h
                      /\ i # 1 => i - 1 \in DOMAIN t /\ t[i].prev = t[i - 1].hash
                      /\ Len(t[i].hash) = Len(h) + i
    BY <1>4 DEF Follows
  <2>1. CASE i = Len(s) + 1
    <3>1. i - 1 = Len(s)
      BY <1>1, <2>1
    <3> QED
      BY <1>3, <1>7, <1>8, <1>9, <1>c, <2>1, <3>1
  <2>2. CASE i # Len(s) + 1
    <3>1. i \in 1..Len(s)
      BY <1>1, <2>2
    <3>2. 1..Len(s) \subseteq DOMAIN t
      BY <1>1, <1>4
    <3> QED
      BY <1>10, <3>1, <3>2
  <2> QED
    BY <2>1, <2>2
<1> QED
  BY <1>2, <1>11

LEMMA FollowsCount ==
  ASSUME NEW s \in Seq(Entry), NEW h \in Seq(Nat), Follows(s, h), s # <<>>
  PROVE  /\ Cardinality(Range(s)) = Len(s)
         /\ Len(Last(s).hash) = Len(h) + Len(s)
         /\ \A e \in Range(s) : Len(h) < Len(e.hash) /\ Len(e.hash) <= Len(h) + Len(s)
         /\ \A d, e \in Range(s) : Len(d.hash) = Len(e.hash) => d = e
<1>1. /\ Len(s) \in Nat /\ DOMAIN s = 1..Len(s) /\ Len(h) \in Nat
      /\ Len(s) \in DOMAIN s /\ Last(s) = s[Len(s)]
  BY Entries, LenProperties
<1>2. \A i \in DOMAIN s : i \in Nat /\ 1 <= i /\ i <= Len(s) /\ Len(s[i].hash) = Len(h) + i
  BY <1>1 DEF Follows
<1>3. \A i, j \in DOMAIN s : Len(s[i].hash) = Len(s[j].hash) => i = j
  BY <1>1, <1>2
<1>4. \A i, j \in DOMAIN s : s[i] = s[j] => i = j
  BY <1>3
<1>5. Cardinality(Range(s)) = Len(s)
  BY <1>4, RangeCount
<1>6. \A e \in Range(s) : \E i \in DOMAIN s : e = s[i]
  BY DEF Range
<1>7. \A d, e \in Range(s) : Len(d.hash) = Len(e.hash) => d = e
  BY <1>3, <1>6
<1>8. \A e \in Range(s) : Len(h) < Len(e.hash) /\ Len(e.hash) <= Len(h) + Len(s)
  <2> TAKE e \in Range(s)
  <2>1. PICK i \in DOMAIN s : e = s[i]
    BY <1>6
  <2> QED
    BY <1>1, <1>2, <2>1
<1> QED
  BY <1>1, <1>2, <1>5, <1>7, <1>8

LEMMA ChainGrows ==
  ASSUME NEW R \in SUBSET Entry, IsFiniteSet(R), NEW hd \in [hash : Seq(Nat), count : Nat],
         Chained(R, hd), NEW s \in Seq(Entry), s # <<>>, Follows(s, hd.hash),
         NEW new, new.hash = Last(s).hash, new.count = hd.count + Len(s)
  PROVE  Chained(R \cup Range(s), new)
<1> DEFINE h == hd.hash
           all == R \cup Range(s)
<1>1. /\ Len(s) \in Nat /\ DOMAIN s = 1..Len(s) /\ Len(s) \in DOMAIN s /\ Last(s) = s[Len(s)]
      /\ h \in Seq(Nat) /\ Len(h) \in Nat /\ hd.count \in Nat
  BY Entries, LenProperties
<1>2. /\ Cardinality(Range(s)) = Len(s) /\ Len(Last(s).hash) = Len(h) + Len(s)
      /\ \A e \in Range(s) : Len(h) < Len(e.hash) /\ Len(e.hash) <= Len(h) + Len(s)
      /\ \A d, e \in Range(s) : Len(d.hash) = Len(e.hash) => d = e
  BY <1>1, FollowsCount
<1>3. \A e \in R \cup Range(s) : Len(e.hash) \in Nat
  BY RangeCount, LenProperties DEF Entry
<1>4. R \cap Range(s) = {}
  BY <1>1, <1>2, <1>3 DEF Chained
<1>5. IsFiniteSet(Range(s)) /\ Cardinality(R) \in Nat
  BY RangeCount, FS_CardinalityType
<1>6. Cardinality(R \cup Range(s)) = Cardinality(R) + Cardinality(Range(s)) - 0
  BY <1>4, <1>5, FS_Union, FS_EmptySet
<1>7. new.count = Cardinality(all)
  BY <1>1, <1>2, <1>5, <1>6 DEF Chained
<1>8. \A i \in DOMAIN s : s[i] \in Range(s)
  BY DEF Range
<1>9. \E r \in all : r.hash = new.hash
  BY <1>1, <1>8
<1>10. ASSUME NEW r \in all
       PROVE  /\ r.hash = Hash(r.prev, r.data) /\ r.data # 0
              /\ Clean(r.prev) /\ Clean(r.hash)
              /\ r.prev = Genesis \/ \E q \in all : q.hash = r.prev
              /\ Len(r.hash) <= Len(new.hash)
  <2>1. CASE r \in R
    <3>1. Len(r.hash) <= Len(h)
      BY <2>1 DEF Chained
    <3>2. Len(r.hash) <= Len(new.hash)
      BY <1>1, <1>2, <1>3, <3>1
    <3> QED
      BY <2>1, <3>2 DEF Chained
  <2>2. CASE r \in Range(s)
    <3>1. PICK i \in DOMAIN s : r = s[i]
      BY <2>2 DEF Range
    <3>2. Len(r.hash) <= Len(new.hash)
      BY <1>2, <2>2
    <3>3. r.hash = Hash(r.prev, r.data) /\ r.data # 0 /\ Clean(r.prev) /\ Clean(r.hash)
      BY <3>1 DEF Follows
    <3>4. CASE i = 1
      BY <3>1, <3>2, <3>3, <3>4 DEF Follows, Chained
    <3>5. CASE i # 1
      BY <1>8, <3>1, <3>2, <3>3, <3>5 DEF Follows
    <3> QED
      BY <3>4, <3>5
  <2> QED
    BY <2>1, <2>2
<1>11. ASSUME NEW q \in all, NEW r \in all, Len(q.hash) = Len(r.hash)
       PROVE  q = r
  <2>1. \A e \in R : Len(e.hash) <= Len(h)
    BY DEF Chained
  <2>2. q \in R /\ r \in R => q = r
    BY <1>11 DEF Chained
  <2> QED
    BY <1>1, <1>2, <1>3, <1>11, <2>1, <2>2
<1> QED
  BY <1>7, <1>9, <1>10, <1>11 DEF Chained

(* What the writers are about to add follows the committed head, and the   *)
(* chains that nobody edited are whole.                                    *)
Pending(w) ==
  writer[w].pc # "idle" =>
    /\ Follows(writer[w].added, head[writer[w].chain].hash)
    /\ writer[w].pc = "head" => writer[w].id # 0

Growing == /\ \A w \in Processes : Pending(w)
           /\ \A c \in Chains : Clean(head[c].hash)
           /\ \A c \in Chains \ Edited : Chained(rows[c], head[c])

LEMMA FollowsNothing ==
  ASSUME NEW h
  PROVE  Follows(<<>>, h)
BY DEF Follows

(* Who commits holds the head: nobody else has a record for that chain.    *)
LEMMA OneAppends ==
  ASSUME Typed, Exclusive, NEW w \in Processes, Commit(w),
         NEW u \in Processes \ {w}, writer[u].pc # "idle", writer[u].chain = writer[w].chain
  PROVE  writer[u].added = <<>>
<1>1. writer[w] \in Active /\ writer[w].added # <<>> /\ writer[w].pc = "ready"
  BY Working DEF Commit
<1>2. HoldsHead(w, writer[w].chain) /\ writer[w].chain \in Chains
  BY <1>1 DEF HoldsHead, On, Active
<1>3. ~HoldsHead(u, writer[w].chain)
  BY <1>2 DEF Exclusive, Apart
<1> QED
  BY <1>3 DEF HoldsHead, On

LEMMA CommitGrows ==
  ASSUME Typed, Exclusive, Growing, NEW w \in Processes, Commit(w)
  PROVE  Growing'
<1>1. PICK c \in Chains, s \in Seq(Entry) : c = writer[w].chain /\ s = writer[w].added
  BY Commits
<1>2. /\ s # <<>> /\ rows'[c] = rows[c] \cup Range(s)
      /\ \A d \in Chains \ {c} : rows'[d] = rows[d] /\ head'[d] = head[d]
      /\ head'[c].hash = Last(s).hash /\ head'[c].count = head[c].count + Len(s)
      /\ writer'[w] = Idle /\ (\A u \in Processes \ {w} : writer'[u] = writer[u])
      /\ edited' = edited
  BY <1>1, Commits
<1>3. writer[w].pc = "ready" /\ Follows(s, head[c].hash)
  BY <1>1 DEF Commit, Growing, Pending
<1>7. Edited' = Edited
  BY <1>2 DEF Edited
<1>8. \A d \in Chains : Clean(head'[d].hash)
  <2>1. Clean(Last(s).hash)
    BY <1>2, <1>3, Entries DEF Follows
  <2> QED
    BY <1>2, <2>1 DEF Growing
<1>4. ASSUME c \notin Edited PROVE Chained(rows'[c], head'[c])
  <2>1. /\ rows[c] \in SUBSET Entry /\ IsFiniteSet(rows[c])
        /\ head[c] \in [hash : Seq(Nat), count : Nat] /\ Chained(rows[c], head[c])
    BY <1>4 DEF Typed, Growing
  <2> QED
    BY <1>2, <1>3, <2>1, ChainGrows
<1>5. \A d \in Chains \ Edited' : Chained(rows'[d], head'[d])
  BY <1>2, <1>4, <1>7 DEF Growing
<1>6. ASSUME NEW u \in Processes, writer'[u].pc # "idle"
      PROVE  /\ Follows(writer'[u].added, head'[writer'[u].chain].hash)
             /\ writer'[u].pc = "head" => writer'[u].id # 0
  <2>1. u # w /\ writer'[u] = writer[u]
    BY <1>2, <1>6 DEF Idle
  <2>2. writer[u] \in Active /\ writer[u].chain \in Chains
    BY <1>6, <2>1, Working DEF Active
  <2>3. CASE writer[u].chain = c
    <3>1. writer[u].added = <<>>
      BY <1>1, <1>6, <2>1, <2>3, OneAppends
    <3> QED
      BY <1>6, <2>1, <3>1, FollowsNothing DEF Growing, Pending
  <2>4. CASE writer[u].chain # c
    BY <1>2, <1>6, <2>1, <2>2, <2>4 DEF Growing, Pending
  <2> QED
    BY <2>3, <2>4
<1> QED
  BY <1>5, <1>6, <1>8 DEF Growing, Pending

LEMMA LinkGrows ==
  ASSUME Typed, Growing, NEW w \in Processes, AuditLogsChain(w)
  PROVE  Pending(w)'
<1>1. /\ writer[w] \in Active /\ writer[w].pc = "head"
      /\ writer'[w].pc # "head" /\ writer'[w].chain = writer[w].chain
      /\ writer'[w].added = Append(writer[w].added, LinkedRow(w)) /\ head' = head
  BY Links DEF AuditLogsChain, ChainHead, MayGo, trail
<1>2. PICK h \in Seq(Nat), s \in Seq(Entry), e \in Entry :
        h = head[writer[w].chain].hash /\ s = writer[w].added /\ e = LinkedRow(w)
  BY <1>1, HeadTyped DEF Typed, Active
<1>3. Follows(s, h) /\ writer[w].id # 0
  BY <1>1, <1>2 DEF Growing, Pending
<1>4. /\ e.prev = IF s = <<>> THEN h ELSE Last(s).hash
      /\ e.hash = Hash(e.prev, e.data) /\ e.data # 0
  BY <1>2, <1>3 DEF LinkedRow, HeadHash
<1>6. Clean(h)
  BY <1>1, <1>2 DEF Growing, Active
<1>5. Follows(Append(s, e), h)
  BY <1>3, <1>4, <1>6, FollowsAppend
<1> QED
  BY <1>1, <1>2, <1>5 DEF Pending

LEMMA GrowingNext == Typed /\ Exclusive /\ Growing /\ [Next]_vars => Growing'
<1> SUFFICES ASSUME Typed, Exclusive, Growing, [Next]_vars PROVE Growing'
  OBVIOUS
<1>1. CASE Aside
  BY <1>1 DEF Aside, trail, Growing, Pending, Edited
<1>2. ASSUME NEW c \in Chains, Edit(c) PROVE Growing'
  <2>1. /\ Edited' = Edited \cup {c} /\ head' = head /\ writer' = writer
        /\ \A d \in Chains \ {c} : rows'[d] = rows[d]
    BY <1>2, RowsEdited
  <2> QED
    BY <2>1 DEF Growing, Pending
<1>3. ASSUME NEW w \in Processes, \A u \in Processes \ {w} : writer'[u] = writer[u],
             UNCHANGED <<trail, edited>>, Pending(w)'
      PROVE  Growing'
  <2>1. \A u \in Processes \ {w} : Pending(u)'
    BY <1>3 DEF Growing, Pending, trail
  <2>2. /\ \A c \in Chains \ Edited' : Chained(rows'[c], head'[c])
        /\ \A c \in Chains : Clean(head'[c].hash)
    BY <1>3 DEF Growing, trail, Edited
  <2> QED
    BY <1>3, <2>1, <2>2 DEF Growing
<1>4. ASSUME NEW w \in Processes, Begins(w) PROVE Growing'
  <2>1. /\ writer'[w] \in FreshWork /\ UNCHANGED <<trail, edited>>
        /\ \A u \in Processes \ {w} : writer'[u] = writer[u]
    BY <1>4, Starts
  <2>2. writer'[w].pc # "idle" => writer'[w].added = <<>> /\ writer'[w].pc # "head"
    <3>1. CASE writer'[w] = Idle
      BY <3>1 DEF Idle
    <3>2. CASE writer'[w] # Idle
      BY <2>1, <3>2 DEF FreshWork
    <3> QED
      BY <3>1, <3>2
  <2> QED
    BY <1>3, <2>1, <2>2, FollowsNothing DEF Pending
<1>5. ASSUME NEW w \in Processes, Acquires(w) PROVE Growing'
  <2>1. /\ writer[w] \in Active /\ writer'[w].pc # "head"
        /\ writer'[w].chain = writer[w].chain /\ writer'[w].added = writer[w].added
        /\ \A u \in Processes \ {w} : writer'[u] = writer[u]
        /\ UNCHANGED <<trail, edited>> /\ head' = head
    BY <1>5, Unlocks DEF trail, Locks
  <2>2. writer[w].pc # "idle"
    BY <2>1 DEF Active, Locks
  <2> QED
    BY <1>3, <2>1, <2>2 DEF Growing, Pending
<1>6. ASSUME NEW w \in Processes, DrawId(w) PROVE Growing'
  <2>1. /\ writer[w] \in Active
        /\ writer'[w] = [writer[w] EXCEPT !.pc = "head", !.id = nextId]
        /\ \A u \in Processes \ {w} : writer'[u] = writer[u]
        /\ UNCHANGED <<trail, edited>> /\ head' = head
    BY <1>6, Draws DEF trail
  <2>2. /\ writer[w].pc # "idle" /\ writer'[w].id = nextId /\ nextId # 0
        /\ writer'[w].chain = writer[w].chain /\ writer'[w].added = writer[w].added
    BY <2>1 DEF Active, Typed, Locks
  <2> QED
    BY <1>3, <2>1, <2>2 DEF Growing, Pending
<1>7. ASSUME NEW w \in Processes, AuditLogsChain(w) PROVE Growing'
  BY <1>3, <1>7, Links, LinkGrows
<1> QED
  BY <1>1, <1>2, <1>4, <1>5, <1>6, <1>7, CommitGrows, Steps

LEMMA GrowingInit == Init => Growing
<1> SUFFICES ASSUME Init PROVE Growing
  OBVIOUS
<1>1. \A w \in Processes : Pending(w)
  BY DEF Init, Pending, Idle
<1>2. \A c \in Chains : rows[c] = {} /\ head[c] = [hash |-> Genesis, count |-> 0]
  BY DEF Init
<1>3. Chained({}, [hash |-> Genesis, count |-> 0])
  BY FS_EmptySet DEF Chained
<1>4. Clean(Genesis)
  BY EmptySeq DEF Clean, Genesis
<1> QED
  BY <1>1, <1>2, <1>3, <1>4 DEF Growing

(* A whole chain is linear.                                                *)
LEMMA ChainedIsLinear ==
  ASSUME Typed, NEW c \in Chains, Chained(rows[c], head[c])
  PROVE  Linear(c)
<1>1. \A r \in rows[c] : r \in Entry
  BY DEF Typed
<1>2. \A r \in rows[c] : Len(r.hash) = Len(r.prev) + 1
  <2> TAKE r \in rows[c]
  <2>1. r.hash = Hash(r.prev, r.data) /\ r.prev \in Seq(Nat) /\ r.data \in Nat
    BY <1>1 DEF Chained, Entry
  <2> QED
    BY <2>1, Digests
<1> QED
  BY <1>2 DEF Linear, Chained

(* Migration 009: concurrent inserts queue for the head, so that no chain  *)
(* forks and none has a gap, however transactions interleave, roll back or *)
(* deadlock, as long as nobody edits it.                                   *)
THEOREM ChainHolds == Spec => []ChainLinear
<1>1. Typed /\ Growing => ChainLinear
  BY ChainedIsLinear DEF Growing, ChainLinear
<1> QED
  BY <1>1, InitTyped, NextTyped, ExclusiveInit, ExclusiveNext, GrowingInit, GrowingNext, PTL DEF Spec

-----------------------------------------------------------------------------
(* Verification.                                                           *)
LEMMA AuditSteps ==
  ASSUME [Next]_vars
  PROVE  \/ UNCHANGED <<verifier, verdict>> /\ todo' \in {todo, {}}
         \/ BeginVerify \/ CompareHead \/ \E c \in Chains : WalkRows(c)
<1>1. UNCHANGED vars => UNCHANGED <<verifier, verdict, todo>>
  BY DEF vars
<1>2. \A w \in Processes : Progress(w) \/ Rollback(w) => UNCHANGED <<verifier, verdict>> /\ todo' \in {todo, {}}
  BY DEF Progress, Rollback, DeadlockVictim, LockAgreement, ReferToAgreement, MarkCeremony,
     Takes, DrawId, AuditLogsChain, Commit, audit
<1>3. \A c \in Chains : Edit(c) => UNCHANGED <<verifier, verdict, todo>>
  BY DEF Edit
<1>4. \A w \in Writers, kind \in Kinds, c \in Chains :
        Begin(w, kind, c) => UNCHANGED <<verifier, verdict, todo>>
  BY DEF Begin, audit
<1> QED
  BY <1>1, <1>2, <1>3, <1>4 DEF Next

(* A chain with a record removed or altered shows it: a record no longer   *)
(* has its digest, or one is missing from the count.                       *)
Shows(R, hd) ==
  (\E r \in R : r.hash # Hash(r.prev, r.data)) \/ Cardinality(R) < hd.count

(* A chain rewritten up to a link: the record there covers the alteration, *)
(* and no record after it does.                                            *)
Forged(R, hd, upto) ==
  /\ 1 <= upto /\ upto <= Len(hd.hash)
  /\ \A r \in R : Len(r.hash) = Len(r.prev) + 1
  /\ \E n \in Nat \ {0} : \A r \in R :
       /\ Len(r.hash) = upto => n \in DOMAIN r.hash /\ r.hash[n] = 0
       /\ Len(r.hash) > upto => Clean(r.prev)

Traced(R, hd, edit) ==
  /\ edit.kind \in {"removed", "altered"} => Shows(R, hd)
  /\ edit.kind = "rewritten" => Forged(R, hd, edit.upto)

Watched ==
  /\ \A c \in Edited : Traced(rows[c], head[c], edited[c])
  /\ \A c \in todo : verdict[c] = "none"
  /\ verifier # Idle =>
       /\ verifier.chain \notin todo /\ verdict[verifier.chain] = "none"
       /\ verifier.edit.kind \in {"removed", "altered"} => verifier.seen < head[verifier.chain].count
       /\ verifier.edit.kind = "rewritten" => verifier.toEnd

LEMMA EditTraced ==
  ASSUME Typed, Growing, NEW c \in Chains, Edit(c)
  PROVE  Traced(rows'[c], head'[c], edited'[c])
<1>1. c \notin Edited /\ head' = head
  BY RowsEdited
<1>2. /\ rows[c] \subseteq Entry /\ IsFiniteSet(rows[c]) /\ Chained(rows[c], head[c])
      /\ head[c].hash \in Seq(Nat) /\ Len(head[c].hash) \in Nat
  BY <1>1, LenProperties DEF Typed, Growing
<1>3. PICK r \in rows[c], last \in rows[c], kind \in {"removed", "altered", "annotated", "rewritten"} :
        /\ Len(r.hash) <= Len(last.hash)
        /\ rows'[c] = EditRow(c, r, kind, Len(last.hash))
        /\ edited'[c] = [kind |-> kind, upto |-> Len(last.hash)]
  BY RowsEdited
<1>4. r \in Entry /\ r.hash = Hash(r.prev, r.data) /\ r.data # 0
  BY <1>2, <1>3 DEF Chained
<1>5. CASE kind = "removed"
  <2>1. rows'[c] = rows[c] \ {r} /\ edited'[c].kind = "removed"
    BY <1>3, <1>5 DEF EditRow
  <2>2. Cardinality(rows'[c]) = Cardinality(rows[c]) - 1 /\ Cardinality(rows[c]) \in Nat
    <3>1. Cardinality(rows[c] \ {r}) = Cardinality(rows[c]) - 1
      BY <1>2, <1>3, FS_RemoveElement
    <3>2. Cardinality(rows[c]) \in Nat
      BY <1>2, FS_CardinalityType
    <3> QED
      BY <2>1, <3>1, <3>2
  <2> QED
    BY <1>1, <1>2, <2>1, <2>2 DEF Traced, Shows, Chained
<1>6. CASE kind = "altered"
  <2> DEFINE e == [r EXCEPT !.data = 0]
  <2>1. rows'[c] = (rows[c] \ {r}) \cup {e} /\ edited'[c].kind = "altered"
    BY <1>3, <1>6 DEF EditRow
  <2>2. e.hash = r.hash /\ e.prev = r.prev /\ e.data = 0
    BY <1>4 DEF Entry
  <2>3. r.prev \in Seq(Nat) /\ r.data \in Nat
    BY <1>4 DEF Entry
  <2>4. e.hash # Hash(e.prev, e.data)
    BY <1>4, <2>2, <2>3, HashesDiffer
  <2> QED
    BY <2>1, <2>4 DEF Traced, Shows
<1>7. CASE kind = "annotated"
  BY <1>3, <1>7 DEF Traced
<1>8. CASE kind = "rewritten"
  <2> DEFINE n == Len(r.hash)
             upto == Len(last.hash)
             new(q) == IF Len(q.hash) \in n..upto THEN Rewritten(q, n) ELSE q
  <2>1. /\ rows'[c] = {new(q) : q \in rows[c]}
        /\ edited'[c].kind = "rewritten" /\ edited'[c].upto = upto
    BY <1>3, <1>8 DEF EditRow
  <2>2. \A q \in rows[c] :
          /\ q \in Entry /\ Len(q.hash) \in Nat /\ Len(q.prev) \in Nat
          /\ DOMAIN q.hash = 1..Len(q.hash) /\ Len(q.hash) = Len(q.prev) + 1
          /\ Clean(q.prev) /\ Len(q.hash) <= Len(head[c].hash)
    <3> TAKE q \in rows[c]
    <3>1. q \in Entry /\ q.hash \in Seq(Nat) /\ q.prev \in Seq(Nat) /\ q.data \in Nat
      BY <1>2 DEF Entry
    <3>2. q.hash = Hash(q.prev, q.data) /\ Clean(q.prev) /\ Len(q.hash) <= Len(head[c].hash)
      BY <1>2 DEF Chained
    <3> QED
      BY <3>1, <3>2, Digests, LenProperties
  <2>3. n \in Nat \ {0} /\ upto \in Nat /\ n <= upto /\ upto <= Len(head[c].hash)
    BY <1>3, <2>2
  <2> HIDE DEF n, upto
  <2>4. ASSUME NEW q \in rows[c]
        PROVE  /\ Len(new(q).hash) = Len(new(q).prev) + 1
               /\ Len(new(q).hash) = upto => n \in DOMAIN new(q).hash /\ new(q).hash[n] = 0
               /\ Len(new(q).hash) > upto => Clean(new(q).prev)
    <3>1. CASE Len(q.hash) \in n..upto
      <4>1. new(q) = Rewritten(q, n)
        BY <3>1
      <4>2. /\ new(q).hash = Altered(q.hash, n) /\ new(q).prev = Altered(q.prev, n)
            /\ Len(new(q).hash) = Len(q.hash) /\ Len(new(q).prev) = Len(q.prev)
        BY <2>2, <2>3, <4>1, RewrittenTyped
      <4>3. n \in DOMAIN q.hash
        BY <2>2, <2>3, <3>1
      <4>4. n \in DOMAIN new(q).hash /\ new(q).hash[n] = 0
        BY <4>2, <4>3 DEF Altered
      <4> QED
        BY <2>2, <2>3, <3>1, <4>2, <4>4
    <3>2. CASE Len(q.hash) \notin n..upto
      <4>1. new(q) = q
        BY <3>2
      <4> QED
        BY <2>2, <2>3, <3>2, <4>1
    <3> QED
      BY <3>1, <3>2
  <2> HIDE DEF new
  <2>5. Forged(rows'[c], head[c], upto)
    BY <2>1, <2>3, <2>4 DEF Forged
  <2> QED
    BY <1>1, <2>1, <2>5 DEF Traced
<1> QED
  BY <1>3, <1>5, <1>6, <1>7, <1>8

(* More records do not hide it.                                            *)
LEMMA CommitShows ==
  ASSUME Typed, NEW w \in Processes, Commit(w), NEW c \in Chains, Shows(rows[c], head[c])
  PROVE  Shows(rows'[c], head'[c])
<1>1. CASE c # writer[w].chain
  BY <1>1, Commits
<1>2. CASE c = writer[w].chain
  <2>1. PICK s \in Seq(Entry) : s = writer[w].added
    BY Commits
  <2>2. rows'[c] = rows[c] \cup Range(s) /\ head'[c].count = head[c].count + Len(s)
    BY <1>2, <2>1, Commits
  <2>3. CASE Cardinality(rows[c]) < head[c].count
    <3>1. /\ IsFiniteSet(Range(s)) /\ Cardinality(Range(s)) \in Nat /\ Cardinality(Range(s)) <= Len(s)
          /\ Len(s) \in Nat
      BY RangeCount, Entries
    <3>2. IsFiniteSet(rows[c]) /\ Cardinality(rows[c]) \in Nat /\ head[c].count \in Nat
      BY FS_CardinalityType DEF Typed
    <3>3. Cardinality(rows[c] \cap Range(s)) \in Nat
      BY <3>2, FS_Subset, FS_CardinalityType
    <3>4. Cardinality(rows[c] \cup Range(s)) =
            Cardinality(rows[c]) + Cardinality(Range(s)) - Cardinality(rows[c] \cap Range(s))
      BY <3>1, <3>2, FS_Union
    <3>5. Cardinality(rows[c] \cup Range(s)) < head[c].count + Len(s)
      BY <2>3, <3>1, <3>2, <3>3, <3>4
    <3> QED
      BY <2>2, <3>5 DEF Shows
  <2>4. CASE \E r \in rows[c] : r.hash # Hash(r.prev, r.data)
    BY <2>2, <2>4 DEF Shows
  <2> QED
    BY <2>3, <2>4 DEF Shows
<1> QED
  BY <1>1, <1>2

LEMMA CommitForged ==
  ASSUME Typed, Growing, NEW w \in Processes, Commit(w), NEW c \in Chains, NEW upto \in Nat,
         Forged(rows[c], head[c], upto)
  PROVE  Forged(rows'[c], head'[c], upto)
<1>1. CASE c # writer[w].chain
  BY <1>1, Commits
<1>2. CASE c = writer[w].chain
  <2>1. PICK s \in Seq(Entry) : s = writer[w].added
    BY Commits
  <2>2. /\ rows'[c] = rows[c] \cup Range(s) /\ head'[c].hash = Last(s).hash /\ s # <<>>
        /\ writer[w].pc = "ready"
    BY <1>2, <2>1, Commits DEF Commit
  <2>3. Follows(s, head[c].hash) /\ head[c].hash \in Seq(Nat) /\ Len(head[c].hash) \in Nat
    BY <1>2, <2>1, <2>2, LenProperties DEF Growing, Pending, Typed
  <2>4. Len(Last(s).hash) = Len(head[c].hash) + Len(s) /\ Len(s) \in Nat
    BY <2>2, <2>3, FollowsCount, Entries
  <2>5. ASSUME NEW e \in Range(s)
        PROVE  Len(e.hash) = Len(e.prev) + 1 /\ Len(e.hash) > upto /\ Clean(e.prev)
    <3>1. PICK i \in DOMAIN s : e = s[i]
      BY DEF Range
    <3>2. e \in Entry /\ e.prev \in Seq(Nat) /\ e.data \in Nat
      BY RangeCount DEF Entry
    <3>3. e.hash = Hash(e.prev, e.data) /\ Clean(e.prev)
      BY <2>3, <3>1 DEF Follows
    <3>4. Len(head[c].hash) < Len(e.hash)
      BY <2>2, <2>3, FollowsCount
    <3>5. Len(e.hash) = Len(e.prev) + 1 /\ Len(e.prev) \in Nat
      BY <3>2, <3>3, Digests, LenProperties
    <3> QED
      BY <2>3, <3>3, <3>4, <3>5 DEF Forged
  <2>6. 1 <= upto /\ upto <= Len(head'[c].hash)
    BY <2>2, <2>3, <2>4 DEF Forged
  <2>7. \A e \in Range(s) : Len(e.hash) # upto
    <3> TAKE e \in Range(s)
    <3>1. Len(e.hash) \in Nat
      BY RangeCount, LenProperties DEF Entry
    <3> QED
      BY <2>5, <3>1
  <2> QED
    BY <2>2, <2>5, <2>6, <2>7 DEF Forged
<1> QED
  BY <1>1, <1>2

LEMMA CommitTraced ==
  ASSUME Typed, Growing, NEW w \in Processes, Commit(w), NEW c \in Chains,
         Traced(rows[c], head[c], edited[c])
  PROVE  Traced(rows'[c], head'[c], edited'[c])
<1>1. edited' = edited /\ edited[c].upto \in Nat
  BY Commits DEF Typed, Done
<1> QED
  BY <1>1, CommitShows, CommitForged DEF Traced

(* The record read before another is one of the chain.                     *)
LEMMA PredecessorIsThere ==
  ASSUME Typed, NEW c \in Chains, NEW r \in rows[c], PredecessorHash(c, r) # Genesis
  PROVE  \E p \in rows[c] : p.hash = PredecessorHash(c, r)
<1>1. /\ Before(c, r) # {} /\ Before(c, r) \subseteq rows[c]
      /\ PredecessorHash(c, r) = (CHOOSE q \in Before(c, r) : \A p \in Before(c, r) : p.id <= q.id).hash
  BY DEF PredecessorHash, Before
<1>2. r.id \in Nat /\ \A q \in Before(c, r) : q.id \in Nat /\ q.id < r.id
  BY DEF Typed, Entry, Before
<1> DEFINE Gaps == {r.id - q.id : q \in Before(c, r)}
<1>3. Gaps \subseteq Nat /\ Gaps # {}
  BY <1>1, <1>2
<1>4. PICK least \in Gaps : \A gap \in Gaps : ~(gap < least)
  <2> HIDE DEF Gaps
  <2>1. \E least \in Gaps : \A gap \in Gaps : ~(<<gap, least>> \in OpToRel(<, Nat))
    BY <1>3, WFMin, NatLessThanWellFounded, Zenon
  <2> QED
    BY <1>3, <2>1 DEF OpToRel
<1>5. PICK q \in Before(c, r) : least = r.id - q.id
  BY <1>4
<1>6. \A p \in Before(c, r) : p.id <= q.id
  <2> TAKE p \in Before(c, r)
  <2>1. ~(r.id - p.id < r.id - q.id)
    BY <1>4, <1>5
  <2> QED
    BY <1>2, <1>5, <2>1
<1>7. (CHOOSE o \in Before(c, r) : \A p \in Before(c, r) : p.id <= o.id) \in Before(c, r)
  BY <1>5, <1>6
<1> QED
  BY <1>1, <1>7

(* A rewritten chain that has grown does not verify: the first record after*)
(* the rewritten ones has another predecessor hash.                        *)
LEMMA GrowthTells ==
  ASSUME Typed, NEW c \in Chains, NEW upto \in Nat, Forged(rows[c], head[c], upto),
         NEW grown \in rows[c], ~(Len(grown.hash) <= upto)
  PROVE  BrokenRows(c) # {}
<1> SUFFICES ASSUME BrokenRows(c) = {} PROVE FALSE
  OBVIOUS
<1>1. \A r \in rows[c] : /\ Len(r.hash) \in Nat /\ Len(r.prev) \in Nat
                         /\ Len(r.hash) = Len(r.prev) + 1 /\ r.prev = PredecessorHash(c, r)
  BY LenProperties DEF Typed, Entry, Forged, BrokenRows
<1> DEFINE Places == {Len(r.hash) : r \in {q \in rows[c] : Len(q.hash) > upto}}
<1>2. Places \subseteq Nat /\ Len(grown.hash) \in Places
  BY <1>1
<1>3. PICK m \in Places : \A k \in Places : ~(k < m)
  <2> HIDE DEF Places
  <2>1. \E m \in Places : \A k \in Places : ~(<<k, m>> \in OpToRel(<, Nat))
    BY <1>2, WFMin, NatLessThanWellFounded, Zenon
  <2> QED
    BY <1>2, <2>1 DEF OpToRel
<1>4. PICK r \in rows[c] : Len(r.hash) = m /\ m > upto
  BY <1>3
<1>5. Clean(r.prev) /\ Len(r.prev) >= upto /\ upto >= 1
  BY <1>1, <1>4 DEF Forged
<1>6. r.prev # Genesis
  BY <1>5, GenesisIsEmpty
<1>7. PICK p \in rows[c] : p.hash = r.prev
  BY <1>1, <1>6, PredecessorIsThere
<1>8. Len(p.hash) = upto
  <2>1. Len(p.hash) < m /\ Len(p.hash) >= upto
    BY <1>1, <1>4, <1>5, <1>7
  <2>2. ~(Len(p.hash) > upto)
    BY <1>3, <2>1
  <2> QED
    BY <1>1, <2>1, <2>2
<1>9. PICK n \in DOMAIN p.hash : p.hash[n] = 0
  BY <1>8 DEF Forged
<1> QED
  BY <1>5, <1>7, <1>9, ElementOfSeq, LenProperties DEF Clean

LEMMA HeadCounts ==
  ASSUME Typed, [Next]_vars, NEW c \in Chains
  PROVE  head[c].count \in Nat /\ head'[c].count \in Nat /\ head[c].count <= head'[c].count
<1>1. head[c].count \in Nat
  BY DEF Typed
<1>2. CASE head' = head
  BY <1>1, <1>2
<1>3. ASSUME NEW w \in Processes, Commit(w)
      PROVE  head'[c] = head[c] \/ \E n \in Nat : head'[c].count = head[c].count + n
  BY <1>3, Commits, Entries
<1>4. head' = head \/ \E w \in Processes : Commit(w)
  BY Steps, RowsEdited, Starts, Unlocks, Draws, Links DEF Aside, trail
<1> QED
  BY <1>1, <1>2, <1>3, <1>4

LEMMA TracedKept ==
  ASSUME Typed, Growing, [Next]_vars, \A c \in Edited : Traced(rows[c], head[c], edited[c])
  PROVE  \A c \in Edited' : Traced(rows'[c], head'[c], edited'[c])
<1>1. CASE UNCHANGED <<trail, edited>>
  BY <1>1 DEF trail, Edited
<1>2. ASSUME NEW w \in Processes, Commit(w)
      PROVE  \A c \in Edited' : Traced(rows'[c], head'[c], edited'[c])
  <2>1. Edited' = Edited /\ Edited \subseteq Chains
    BY <1>2, Commits DEF Edited
  <2> QED
    BY <1>2, <2>1, CommitTraced
<1>3. ASSUME NEW d \in Chains, Edit(d)
      PROVE  \A c \in Edited' : Traced(rows'[c], head'[c], edited'[c])
  <2>1. /\ Edited' = Edited \cup {d} /\ head' = head
        /\ \A c \in Chains \ {d} : rows'[c] = rows[c] /\ edited'[c] = edited[c]
    BY <1>3, RowsEdited
  <2>2. Edited \subseteq Chains
    BY DEF Edited
  <2> QED
    BY <1>3, <2>1, <2>2, EditTraced
<1>4. \/ UNCHANGED <<trail, edited>> \/ (\E w \in Processes : Commit(w)) \/ \E c \in Chains : Edit(c)
  BY Steps, Starts, Unlocks, Draws, Links DEF Aside
<1> QED
  BY <1>1, <1>2, <1>3, <1>4

(* What the verifier read of a chain that shows an edit falls short of the *)
(* head; of a rewritten one it read nothing appended since.                *)
LEMMA WalkWatches ==
  ASSUME Typed, Watched, NEW c \in Chains, WalkRows(c)
  PROVE  /\ \A d \in todo' : verdict'[d] = "none"
         /\ verifier' # Idle =>
              /\ verifier'.chain = c /\ c \notin todo' /\ verdict'[c] = "none"
              /\ verifier'.edit.kind \in {"removed", "altered"} => verifier'.seen < head[c].count
              /\ verifier'.edit.kind = "rewritten" => verifier'.toEnd
<1>1. c \in todo /\ todo' = todo \ {c} /\ verifier = Idle
  BY DEF WalkRows
<1>2. CASE RaiseAlarm(c)
  BY <1>1, <1>2 DEF RaiseAlarm, Watched, Typed
<1>3. CASE /\ BrokenRows(c) = {}
           /\ verifier' = [pc |-> "head", chain |-> c, seen |-> Cardinality(rows[c]),
                           edit |-> edited[c],
                           toEnd |-> \A r \in rows[c] : Len(r.hash) <= edited[c].upto]
           /\ verdict' = verdict
  <2>1. ~\E r \in rows[c] : r.hash # Hash(r.prev, r.data)
    BY <1>3 DEF BrokenRows
  <2>2. edited[c].kind # "none" => c \in Edited
    BY DEF Edited, Unedited
  <2>3. edited[c].kind \in {"removed", "altered"} => Cardinality(rows[c]) < head[c].count
    BY <2>1, <2>2 DEF Watched, Traced, Shows
  <2>4. edited[c].kind = "rewritten" => \A r \in rows[c] : Len(r.hash) <= edited[c].upto
    <3> SUFFICES ASSUME edited[c].kind = "rewritten", NEW r \in rows[c],
                        ~(Len(r.hash) <= edited[c].upto)
                 PROVE  FALSE
      OBVIOUS
    <3>1. edited[c].upto \in Nat /\ Forged(rows[c], head[c], edited[c].upto)
      BY <2>2 DEF Watched, Traced, Typed, Done
    <3> QED
      BY <1>3, <3>1, GrowthTells
  <2>5. /\ verifier'.chain = c /\ verifier'.seen = Cardinality(rows[c]) /\ verifier'.edit = edited[c]
        /\ verifier'.toEnd = \A r \in rows[c] : Len(r.hash) <= edited[c].upto
    BY <1>3
  <2> QED
    BY <1>1, <1>3, <2>3, <2>4, <2>5 DEF Watched
<1> QED
  BY <1>2, <1>3 DEF WalkRows

LEMMA WatchedNext == Typed /\ Growing /\ Watched /\ [Next]_vars => Watched'
<1> SUFFICES ASSUME Typed, Growing, Watched, [Next]_vars PROVE Watched'
  OBVIOUS
<1>1. \A c \in Edited' : Traced(rows'[c], head'[c], edited'[c])
  BY TracedKept DEF Watched
<1>2. CASE UNCHANGED <<verifier, verdict>> /\ todo' \in {todo, {}}
  <2>1. verifier # Idle => verifier.chain \in Chains /\ verifier.seen \in Nat
    BY DEF Typed, Walk
  <2>2. verifier # Idle /\ verifier.edit.kind \in {"removed", "altered"} =>
          verifier.seen < head'[verifier.chain].count
    BY <2>1, HeadCounts DEF Watched
  <2> QED
    BY <1>1, <1>2, <2>2 DEF Watched
<1>3. CASE BeginVerify
  BY <1>1, <1>3 DEF BeginVerify, Watched
<1>4. CASE CompareHead
  <2>1. verifier' = Idle /\ verifier # Idle /\ todo' = todo
        /\ verifier.chain \notin todo /\ todo \subseteq Chains
    BY <1>4 DEF CompareHead, RaiseAlarm, Watched, Typed
  <2>2. \A c \in Chains \ {verifier.chain} : verdict'[c] = verdict[c]
    BY <1>4 DEF CompareHead, RaiseAlarm, Typed
  <2> QED
    BY <1>1, <2>1, <2>2 DEF Watched
<1>5. ASSUME NEW c \in Chains, WalkRows(c) PROVE Watched'
  <2>1. head' = head
    BY <1>5 DEF WalkRows, trail
  <2> QED
    BY <1>1, <1>5, <2>1, WalkWatches DEF Watched
<1> QED
  BY <1>2, <1>3, <1>4, <1>5, AuditSteps

(* AC-16 for any number of edits: a chain from which a record was removed  *)
(* or whose content was altered before its rows were walked is not found   *)
(* intact, whatever is appended meanwhile; nor is one whose hashes were    *)
(* made to fit again, once it has grown since.                             *)
THEOREM EditIsFound == Spec => EditDetected
<1>1. Init => Watched
  BY DEF Init, Watched, Edited
<1>2. Typed /\ Watched /\ [Next]_vars =>
        [verifier # Idle /\ verdict'[verifier.chain] = "intact" =>
           \/ verifier.edit.kind \in {"none", "annotated"}
           \/ verifier.edit.kind = "rewritten" /\ verifier.toEnd]_vars
  <2> SUFFICES ASSUME Typed, Watched, Next, verifier # Idle,
                      verifier.edit.kind \notin {"none", "annotated", "rewritten"}
               PROVE  verdict'[verifier.chain] # "intact"
    BY DEF Watched
  <2>1. /\ verifier.chain \in Chains /\ verifier.seen \in Nat /\ head[verifier.chain].count \in Nat
        /\ verifier.edit.kind \in {"removed", "altered"}
    BY DEF Typed, Walk, Done
  <2>2. verdict[verifier.chain] = "none" /\ verifier.seen < head[verifier.chain].count
    BY <2>1 DEF Watched
  <2>3. CASE CompareHead
    BY <2>1, <2>2, <2>3 DEF CompareHead, RaiseAlarm, Typed
  <2>4. ~BeginVerify /\ \A c \in Chains : ~WalkRows(c)
    BY DEF BeginVerify, WalkRows
  <2> QED
    BY <2>2, <2>3, <2>4, AuditSteps
<1> QED
  BY <1>1, <1>2, InitTyped, NextTyped, ExclusiveInit, ExclusiveNext, GrowingInit, GrowingNext,
     WatchedNext, PTL DEF Spec, EditDetected

-----------------------------------------------------------------------------
(* Ids are drawn once: by one transaction, for one record.                 *)
Uses(w, n) ==
  /\ writer[w].pc # "idle"
  /\ \/ writer[w].pc = "head" /\ writer[w].id = n
     \/ \E i \in DOMAIN writer[w].added : writer[w].added[i].id = n

OwnIds(w) ==
  writer[w].pc # "idle" =>
    /\ \A i, j \in DOMAIN writer[w].added : writer[w].added[i].id = writer[w].added[j].id => i = j
    /\ writer[w].pc = "head" =>
         \A i \in DOMAIN writer[w].added : writer[w].added[i].id # writer[w].id

Drawn ==
  /\ \A w \in Processes, n \in Nat : Uses(w, n) => n < nextId
  /\ \A w, u \in Processes, n \in Nat : Uses(w, n) /\ Uses(u, n) => w = u
  /\ \A w \in Processes : OwnIds(w)
  /\ \A c \in Chains \ Edited : \A r \in rows[c] :
       r.id < nextId /\ \A w \in Processes : ~Uses(w, r.id)
  /\ \A c \in Chains \ Edited : \A q, r \in rows[c] : q.id = r.id => q = r

LEMMA DrawnKept ==
  ASSUME Typed, Drawn, NEW w \in Processes, \A u \in Processes \ {w} : writer'[u] = writer[u],
         UNCHANGED <<rows, edited>>, nextId' \in Nat, nextId <= nextId',
         \A n \in Nat : Uses(w, n)' => Uses(w, n) \/ (n = nextId /\ n < nextId'),
         OwnIds(w)'
  PROVE  Drawn'
<1>1. \A u \in Processes \ {w} : (\A n \in Nat : Uses(u, n)' <=> Uses(u, n)) /\ (OwnIds(u)' <=> OwnIds(u))
  BY DEF Uses, OwnIds
<1>2. nextId \in Nat /\ \A c \in Chains : \A r \in rows[c] : r.id \in Nat
  BY DEF Typed, Entry
<1>e. Edited' = Edited
  BY DEF Edited
<1>3. \A u \in Processes, n \in Nat : Uses(u, n)' => n < nextId'
  BY <1>1, <1>2 DEF Drawn
<1>4. \A u \in Processes, n \in Nat : Uses(u, n) => n # nextId
  BY <1>2 DEF Drawn
<1>5. \A v, u \in Processes, n \in Nat : Uses(v, n)' /\ Uses(u, n)' => v = u
  BY <1>1, <1>4 DEF Drawn
<1>6. ASSUME NEW c \in Chains \ Edited', NEW r \in rows'[c]
      PROVE  r.id < nextId' /\ \A u \in Processes : ~Uses(u, r.id)'
  <2>1. r.id \in Nat /\ r.id < nextId /\ \A u \in Processes : ~Uses(u, r.id)
    BY <1>2, <1>6, <1>e DEF Drawn
  <2>2. r.id < nextId' /\ r.id # nextId
    BY <1>2, <2>1
  <2> QED
    BY <1>1, <2>1, <2>2
<1> QED
  BY <1>1, <1>3, <1>5, <1>6, <1>e DEF Drawn

(* The records committed have the ids their writer had drawn.              *)
LEMMA CommitDrawn ==
  ASSUME Typed, Drawn, NEW w \in Processes, Commit(w)
  PROVE  Drawn'
<1>1. PICK c \in Chains, s \in Seq(Entry) : c = writer[w].chain /\ s = writer[w].added
  BY Commits
<1>2. /\ rows'[c] = rows[c] \cup Range(s) /\ \A d \in Chains \ {c} : rows'[d] = rows[d]
      /\ writer'[w] = Idle /\ \A u \in Processes \ {w} : writer'[u] = writer[u]
      /\ Edited' = Edited /\ nextId' = nextId
  BY <1>1, Commits DEF Edited
<1>3. \A n : ~Uses(w, n)'
  BY <1>2 DEF Uses, Idle
<1>4. \A u \in Processes \ {w} : (\A n : Uses(u, n)' <=> Uses(u, n)) /\ (OwnIds(u)' <=> OwnIds(u))
  BY <1>2 DEF Uses, OwnIds
<1>5. OwnIds(w)'
  BY <1>2 DEF OwnIds, Idle
<1>6. writer[w].pc = "ready"
  BY DEF Commit
<1>7. \A r \in Range(s) : r.id \in Nat /\ Uses(w, r.id)
  <2> TAKE r \in Range(s)
  <2>1. PICK i \in DOMAIN s : r = s[i]
    BY DEF Range
  <2>2. r \in Entry
    BY RangeCount
  <2> QED
    BY <1>1, <1>6, <2>1, <2>2 DEF Uses, Entry
<1>8. \A q, r \in Range(s) : q.id = r.id => q = r
  <2> TAKE q, r \in Range(s)
  <2>1. PICK i \in DOMAIN s, j \in DOMAIN s : q = s[i] /\ r = s[j]
    BY DEF Range
  <2> QED
    BY <1>1, <1>6, <2>1 DEF Drawn, OwnIds
<1>9. ASSUME NEW d \in Chains \ Edited', NEW r \in rows'[d]
      PROVE  r.id < nextId' /\ \A u \in Processes : ~Uses(u, r.id)'
  <2>1. CASE r \in rows[d]
    BY <1>2, <1>3, <1>4, <1>9, <2>1 DEF Drawn
  <2>2. CASE r \notin rows[d]
    <3>1. r \in Range(s)
      BY <1>2, <1>9, <2>2
    <3> QED
      BY <1>2, <1>3, <1>4, <1>7, <3>1 DEF Drawn
  <2> QED
    BY <2>1, <2>2
<1>10. ASSUME NEW d \in Chains \ Edited', NEW q \in rows'[d], NEW r \in rows'[d], q.id = r.id
       PROVE  q = r
  <2>1. CASE d # c
    BY <1>2, <1>10, <2>1 DEF Drawn
  <2>2. CASE d = c
    <3>1. \A e \in rows[c] : ~Uses(w, e.id)
      BY <1>2, <1>10, <2>2 DEF Drawn
    <3>2. CASE q \in rows[c] /\ r \in rows[c]
      BY <1>2, <1>10, <2>2, <3>2 DEF Drawn
    <3>3. CASE q \in Range(s) /\ r \in Range(s)
      BY <1>8, <1>10, <3>3
    <3> QED
      BY <1>2, <1>7, <1>10, <2>2, <3>1, <3>2, <3>3
  <2> QED
    BY <2>1, <2>2
<1> QED
  BY <1>2, <1>3, <1>4, <1>5, <1>9, <1>10 DEF Drawn

LEMMA DrawnNext == Typed /\ Drawn /\ [Next]_vars => Drawn'
<1> SUFFICES ASSUME Typed, Drawn, [Next]_vars PROVE Drawn'
  OBVIOUS
<1>n. nextId \in Nat
  BY DEF Typed
<1>1. CASE Aside
  BY <1>1 DEF Aside, trail, Drawn, Uses, OwnIds, Edited
<1>2. ASSUME NEW c \in Chains, Edit(c) PROVE Drawn'
  <2>1. /\ Edited' = Edited \cup {c} /\ UNCHANGED <<nextId, writer>>
        /\ \A d \in Chains \ {c} : rows'[d] = rows[d]
    BY <1>2, RowsEdited
  <2> QED
    BY <2>1 DEF Drawn, Uses, OwnIds
<1>3. ASSUME NEW w \in Processes, Begins(w) PROVE Drawn'
  <2>1. /\ writer'[w] \in FreshWork /\ UNCHANGED <<rows, nextId, edited>>
        /\ \A u \in Processes \ {w} : writer'[u] = writer[u]
    BY <1>3, Starts DEF trail
  <2>2. writer'[w].pc # "idle" => writer'[w].added = <<>> /\ writer'[w].pc # "head"
    <3>1. CASE writer'[w] = Idle
      BY <3>1 DEF Idle
    <3>2. CASE writer'[w] # Idle
      BY <2>1, <3>2 DEF FreshWork
    <3> QED
      BY <3>1, <3>2
  <2>3. (\A n \in Nat : ~Uses(w, n)') /\ OwnIds(w)'
    BY <2>2 DEF Uses, OwnIds
  <2> QED
    BY <1>n, <2>1, <2>3, DrawnKept
<1>4. ASSUME NEW w \in Processes, Acquires(w) PROVE Drawn'
  <2>1. /\ \A u \in Processes \ {w} : writer'[u] = writer[u]
        /\ UNCHANGED <<rows, nextId, edited>>
    BY <1>4, Unlocks DEF trail
  <2>2. /\ writer[w].pc \in Locks /\ writer'[w].pc \in Locks \cup {"ready"}
        /\ writer'[w].added = writer[w].added
    BY <1>4, Unlocks
  <2>3. (\A n \in Nat : Uses(w, n)' => Uses(w, n)) /\ OwnIds(w)'
    BY <2>2 DEF Uses, OwnIds, Drawn, Locks
  <2> QED
    BY <1>n, <2>1, <2>3, DrawnKept
<1>5. ASSUME NEW w \in Processes, DrawId(w) PROVE Drawn'
  <2>1. /\ writer[w] \in Active
        /\ writer'[w] = [writer[w] EXCEPT !.pc = "head", !.id = nextId]
        /\ \A u \in Processes \ {w} : writer'[u] = writer[u]
        /\ UNCHANGED <<rows, edited>> /\ nextId' = nextId + 1
    BY <1>5, Draws DEF trail
  <2>2. /\ writer[w].pc # "idle" /\ writer'[w].pc = "head" /\ writer'[w].id = nextId
        /\ writer'[w].added = writer[w].added /\ writer[w].added \in Seq(Entry)
    BY <2>1 DEF Active, Locks
  <2>3. \A n \in Nat : Uses(w, n)' => Uses(w, n) \/ (n = nextId /\ n < nextId')
    BY <1>n, <2>1, <2>2 DEF Uses
  <2>4. ASSUME NEW i \in DOMAIN writer[w].added PROVE writer[w].added[i].id # nextId
    <3>1. writer[w].added[i].id \in Nat
      BY <2>2, Entries DEF Entry
    <3>2. Uses(w, writer[w].added[i].id)
      BY <2>2 DEF Uses
    <3> QED
      BY <1>n, <3>1, <3>2 DEF Drawn
  <2>5. OwnIds(w)'
    BY <2>2, <2>4 DEF OwnIds, Drawn
  <2>6. nextId' \in Nat /\ nextId <= nextId'
    BY <1>n, <2>1
  <2> QED
    BY <2>1, <2>3, <2>5, <2>6, DrawnKept
<1>6. ASSUME NEW w \in Processes, AuditLogsChain(w) PROVE Drawn'
  <2>1. /\ writer[w] \in Active /\ writer[w].pc = "head" /\ writer'[w].pc \in {"ready", "share"}
        /\ writer'[w].added = Append(writer[w].added, LinkedRow(w))
        /\ \A u \in Processes \ {w} : writer'[u] = writer[u]
        /\ UNCHANGED <<rows, nextId, edited>>
    BY <1>6, Links DEF trail, AuditLogsChain, ChainHead, MayGo
  <2>2. PICK s \in Seq(Entry), e \in Entry : s = writer[w].added /\ e = LinkedRow(w)
    BY <2>1, HeadTyped DEF Active
  <2>3. e.id = writer[w].id
    BY <2>2 DEF LinkedRow
  <2>4. PICK t : t = Append(s, e)
    OBVIOUS
  <2>5. /\ Len(s) \in Nat /\ DOMAIN s = 1..Len(s) /\ t \in Seq(Entry) /\ Len(t) = Len(s) + 1
        /\ (\A i \in 1..Len(s) : t[i] = s[i]) /\ t[Len(s) + 1] = e
    BY <2>4, AppendProperties, LenProperties
  <2>6. DOMAIN t = 1..(Len(s) + 1)
    BY <2>5, LenProperties
  <2>7. \A i \in DOMAIN t : (i \in DOMAIN s /\ t[i] = s[i]) \/ (i = Len(s) + 1 /\ t[i] = e)
    <3> TAKE i \in DOMAIN t
    <3>1. CASE i = Len(s) + 1
      BY <2>5, <3>1
    <3>2. CASE i # Len(s) + 1
      <4>1. i \in 1..Len(s)
        BY <2>5, <2>6, <3>2
      <4> QED
        BY <2>5, <4>1
    <3> QED
      BY <3>1, <3>2
  <2>8. \A n \in Nat : Uses(w, n)' => Uses(w, n)
    BY <2>1, <2>2, <2>3, <2>4, <2>7 DEF Uses
  <2>9. (\A i, j \in DOMAIN s : s[i].id = s[j].id => i = j) /\ \A i \in DOMAIN s : s[i].id # e.id
    BY <2>1, <2>2, <2>3 DEF Drawn, OwnIds
  <2>10. \A i, j \in DOMAIN t : t[i].id = t[j].id => i = j
    BY <2>7, <2>9
  <2>11. OwnIds(w)'
    BY <2>1, <2>2, <2>4, <2>10 DEF OwnIds
  <2> QED
    BY <1>n, <2>1, <2>8, <2>11, DrawnKept
<1> QED
  BY <1>1, <1>2, <1>3, <1>4, <1>5, <1>6, CommitDrawn, Steps

(* A chain linked in the order of its ids verifies.                        *)
LEMMA InOrderVerifies ==
  ASSUME Typed, Growing, Drawn, NEW c \in Chains \ Edited, ~Overtaken(c)
  PROVE  BrokenRows(c) = {}
<1> SUFFICES ASSUME NEW r \in rows[c]
             PROVE  r.hash = Hash(r.prev, r.data) /\ r.prev = PredecessorHash(c, r)
  BY DEF BrokenRows
<1>1. Chained(rows[c], head[c])
  BY DEF Growing
<1>2. \A q \in rows[c] : q.id \in Nat /\ q.hash \in Seq(Nat) /\ q.prev \in Seq(Nat) /\ q.data \in Nat
  BY DEF Typed, Entry
<1>3. \A q \in rows[c] : /\ Len(q.hash) \in Nat /\ Len(q.prev) \in Nat
                         /\ Len(q.hash) = Len(q.prev) + 1
  <2> TAKE q \in rows[c]
  <2>1. q.hash = Hash(q.prev, q.data)
    BY <1>1 DEF Chained
  <2> QED
    BY <1>2, <2>1, Digests, LenProperties
<1>4. \A p, q \in rows[c] : p.id < q.id => Len(p.hash) < Len(q.hash)
  <2> TAKE p, q \in rows[c]
  <2>1. p.id < q.id => p # q /\ ~(Len(q.hash) < Len(p.hash))
    BY <1>2 DEF Overtaken
  <2> QED
    BY <1>1, <1>3, <2>1 DEF Chained
<1>5. \A p, q \in rows[c] : Len(p.hash) < Len(q.hash) => p.id < q.id
  <2> TAKE p, q \in rows[c]
  <2>1. p.id = q.id => p = q
    BY DEF Drawn
  <2>2. q.id < p.id => Len(q.hash) < Len(p.hash)
    BY <1>4
  <2> QED
    BY <1>2, <1>3, <2>1, <2>2
<1>6. CASE r.prev = Genesis
  <2>1. \A p \in rows[c] : ~(p.id < r.id)
    BY <1>3, <1>4, <1>6, GenesisIsEmpty
  <2> QED
    BY <1>1, <1>6, <2>1 DEF PredecessorHash, Before, Chained
<1>7. CASE r.prev # Genesis
  <2>1. PICK q \in rows[c] : q.hash = r.prev
    BY <1>1, <1>7 DEF Chained
  <2>2. q \in Before(c, r)
    BY <1>3, <1>5, <2>1 DEF Before
  <2>3. ASSUME NEW p \in Before(c, r), p # q PROVE p.id < q.id
    <3>1. p \in rows[c] /\ Len(p.hash) < Len(r.hash)
      BY <1>4, <2>3 DEF Before
    <3>2. Len(p.hash) # Len(q.hash)
      BY <1>1, <2>3, <3>1 DEF Chained
    <3>3. Len(p.hash) < Len(q.hash)
      BY <1>3, <2>1, <3>1, <3>2
    <3> QED
      BY <1>5, <3>1, <3>3
  <2> DEFINE last == CHOOSE o \in Before(c, r) : \A p \in Before(c, r) : p.id <= o.id
  <2>4. \A p \in Before(c, r) : p \in rows[c] /\ p.id \in Nat
    BY <1>2 DEF Before
  <2>5. \A p \in Before(c, r) : p.id <= q.id
    <3> TAKE p \in Before(c, r)
    <3>1. p.id \in Nat /\ q.id \in Nat
      BY <2>2, <2>4
    <3>2. CASE p = q
      BY <3>1, <3>2
    <3>3. CASE p # q
      BY <2>3, <3>1, <3>3
    <3> QED
      BY <3>2, <3>3
  <2>6. last \in Before(c, r) /\ q.id <= last.id
    BY <2>2, <2>5
  <2> HIDE DEF last
  <2>7. last = q
    BY <2>2, <2>3, <2>4, <2>6
  <2>8. PredecessorHash(c, r) = last.hash
    BY <2>2 DEF PredecessorHash, last
  <2> QED
    BY <1>1, <2>1, <2>7, <2>8 DEF Chained
<1> QED
  BY <1>6, <1>7

(* An alarm on a chain nobody edited has one of two causes, however many   *)
(* write: records linked out of the order of their ids, or a chain that    *)
(* grew between the two queries of verifyChain.                            *)
THEOREM FalseAlarmsHold == Spec => FalseAlarmExplained
<1>1. Init => Drawn
  BY DEF Init, Drawn, Uses, OwnIds, Idle
<1>2. Typed /\ Growing /\ Drawn /\ [Next]_vars =>
        [\A c \in Chains \ Edited :
           verdict[c] = "none" /\ verdict'[c] = "broken" =>
             \/ Overtaken(c)
             \/ verifier # Idle /\ Cardinality(rows[c]) # verifier.seen]_vars
  <2> SUFFICES ASSUME Typed, Growing, Drawn, Next, NEW c \in Chains \ Edited,
                      verdict[c] = "none", verdict'[c] = "broken", ~Overtaken(c)
               PROVE  verifier # Idle /\ Cardinality(rows[c]) # verifier.seen
    OBVIOUS
  <2>1. CASE CompareHead
    <3>1. verifier # Idle /\ verifier.chain = c /\ head[c].count # verifier.seen
      BY <2>1 DEF CompareHead, RaiseAlarm, Typed
    <3> QED
      BY <3>1 DEF Growing, Chained
  <2>2. ASSUME NEW d \in Chains, WalkRows(d) PROVE FALSE
    <3>1. c = d /\ BrokenRows(c) # {}
      BY <2>2 DEF WalkRows, RaiseAlarm, Typed
    <3> QED
      BY <3>1, InOrderVerifies
  <2>3. ~BeginVerify
    BY DEF BeginVerify
  <2> QED
    BY <2>1, <2>2, <2>3, AuditSteps
<1> QED
  BY <1>1, <1>2, InitTyped, NextTyped, ExclusiveInit, ExclusiveNext, GrowingInit, GrowingNext,
     DrawnNext, PTL DEF Spec, FalseAlarmExplained

=============================================================================
