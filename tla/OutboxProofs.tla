----------------------------- MODULE OutboxProofs -----------------------------
(***************************************************************************)
(* What Outbox's runs check on two passes and a row, for any number of     *)
(* agreements, passes, rows and slots: its type invariant, that a mail is  *)
(* true, when it goes out twice, and that there is one reminder a day.     *)
(***************************************************************************)
EXTENDS Outbox, FiniteSetTheorems, SequenceTheorems, WellFoundedInduction, TLAPS

-----------------------------------------------------------------------------
(* The inductive invariants.                                               *)

(* Every mail about an end, sent or not, names the end that the version it *)
(* was queued for reached.                                                 *)
Truth ==
  \A r \in DOMAIN mail : mail[r].event \in Ended =>
    /\ mail[r].version <= Version(mail[r].agr)
    /\ StatusOf(mail[r].agr, mail[r].version) = mail[r].event

(* No reminder is from the future, and two are a day apart.                *)
Reminders ==
  \A a \in Agreements :
    /\ \A s \in reminders[a] : s <= slot
    /\ \A s, t \in reminders[a] : s = t \/ s + SlotsPerDay <= t \/ t + SlotsPerDay <= s

(* A pass has rows that exist, each once.                                  *)
Lists ==
  \A p \in Passes : pass[p] # Idle =>
    /\ Rows(pass[p].list) \subseteq DOMAIN mail
    /\ \A i, j \in pass[p].list : i.row = j.row => i = j

(* The row of an unexcused mail is with one pass at most, and once its     *)
(* mail went out it is marked SENT, or the pass that sent it is about to.  *)
Alone(r) == \A p, q \in Passes : r \in RowsOf(p) \cap RowsOf(q) => p = q
Sending(p, r)  == At(p, "sent") /\ Item(p).row = r
Recorded(p, r) == At(p, "recorded") /\ Item(p).row = r

Once(r) ==
  /\ Alone(r)
  /\ delivered[r] <= 1
  /\ delivered[r] > 0 => mail[r].status = "SENT" \/ \E p \in Passes : Sending(p, r)
  /\ \A p \in Passes : r \in RowsOf(p) /\ delivered[r] > 0 => Sending(p, r) \/ Recorded(p, r)
  /\ \A p \in Passes : Recorded(p, r) => mail[r].status = "SENT"

Deliveries == \A r \in DOMAIN mail \ excused : Once(r)

-----------------------------------------------------------------------------
(* Lemmas about the operators.                                             *)

(* A set of numbers has a least one.                                       *)
LEMMA LeastOfNumbers ==
  ASSUME NEW S \in SUBSET Nat, S # {}
  PROVE  \E m \in S : \A n \in S : m <= n
<1>1. PICK m \in S : \A n \in S : <<n, m>> \notin OpToRel(<, Nat)
  BY WFMin, NatLessThanWellFounded, Zenon
<1>2. ASSUME NEW n \in S PROVE ~(n < m)
  BY <1>1, Zenon DEF OpToRel
<1>. QED  BY <1>2

(* A pass that is under way has a row in hand, the oldest on its list.     *)
LEMMA ItemOnList ==
  ASSUME TypeOK, NEW p \in Passes, pass[p] # Idle
  PROVE  /\ Item(p) \in pass[p].list
         /\ \A other \in pass[p].list : Item(p).row <= other.row
         /\ Item(p).row \in 1..MaxRows /\ Item(p).attempts \in 0..MaxAttempts - 1
<1>. DEFINE list == pass[p].list
<1>1. list \subseteq [row : 1..MaxRows, attempts : 0..MaxAttempts - 1] /\ list # {}
  <2>1. pass[p] \in {Idle} \cup
         [pc : {"send", "sent", "recorded", "refused"},
          list : (SUBSET [row : 1..MaxRows, attempts : 0..MaxAttempts - 1]) \ {{}}]
    BY DEF TypeOK
  <2>. QED  BY <2>1
<1>2. Rows(list) \in SUBSET Nat /\ Rows(list) # {}
  BY <1>1 DEF Rows
<1>. HIDE DEF list
<1>3. PICK m \in Rows(list) : \A n \in Rows(list) : m <= n
  BY <1>2, LeastOfNumbers
<1>4. \E item \in list : \A other \in list : item.row <= other.row
  BY <1>3 DEF Rows
<1>5. Item(p) \in list /\ \A other \in list : Item(p).row <= other.row
  BY <1>4 DEF Item, Oldest, list
<1>. QED  BY <1>1, <1>5 DEF list

(* A set put into a sequence: each of it, once.                            *)
LEMMA SetToSeqRange ==
  ASSUME NEW S, IsFiniteSet(S)
  PROVE  /\ Cardinality(S) \in Nat
         /\ SetToSeq(S) \in [1..Cardinality(S) -> S]
         /\ \A i, j \in 1..Cardinality(S) : SetToSeq(S)[i] = SetToSeq(S)[j] => i = j
         /\ \A x \in S : \E i \in 1..Cardinality(S) : SetToSeq(S)[i] = x
<1>1. Cardinality(S) \in Nat /\ ExistsBijection(1..Cardinality(S), S)
  BY FS_CardinalityType
<1>2. PICK f \in Bijection(1..Cardinality(S), S) : TRUE
  BY <1>1 DEF ExistsBijection
<1>3. f \in [1..Cardinality(S) -> S] /\ IsInjective(f)
  BY <1>2 DEF Bijection, Injection, IsInjective
<1>. DEFINE seq == SetToSeq(S)
<1>4. seq \in [1..Cardinality(S) -> S] /\ IsInjective(seq)
  BY <1>3 DEF SetToSeq
<1>. HIDE DEF seq
<1>5. seq \in Injection(1..Cardinality(S), S)
  BY <1>4 DEF Injection, IsInjective
<1>6. Cardinality(1..Cardinality(S)) = Cardinality(S)
  BY <1>1, FS_Interval
<1>7. seq \in Surjection(1..Cardinality(S), S)
  BY <1>5, <1>6, FS_Injection
<1>8. \A i, j \in 1..Cardinality(S) : seq[i] = seq[j] => i = j
  BY <1>4 DEF IsInjective
<1>9. \A x \in S : \E i \in 1..Cardinality(S) : seq[i] = x
  BY <1>7 DEF Surjection
<1>. QED  BY <1>1, <1>4, <1>8, <1>9 DEF seq

(* Versions are counted from one.                                          *)
LEMMA Versions ==
  ASSUME TypeOK, NEW a \in Agreements
  PROVE  /\ closed[a] \in Seq(Correctable) /\ DOMAIN closed[a] = 1..Len(closed[a])
         /\ Len(closed[a]) \in Nat /\ Version(a) = Len(closed[a]) + 1 /\ Version(a) \in 1..MaxVersion
<1>1. closed[a] \in Seq(Correctable) /\ Version(a) <= MaxVersion
  BY DEF TypeOK
<1>. QED  BY <1>1, BoundsAssumption DEF Version

(* The rows of the sequence are new ones about the event.                  *)
AllAbout(q, a, v, event) ==
  \A i \in 1..Len(q) :
    q[i].agr = a /\ q[i].version = v /\ q[i].event = event /\ q[i].status = "QUEUED"

(* One row of the sequence is for each of the parties.                     *)
OneForEach(q, parties) ==
  \A party \in parties :
    \E i \in 1..Len(q) : \A j \in 1..Len(q) : q[j].party = party <=> j = i

(* The rows of a mail: one for each recipient that is followed.            *)
LEMMA QueuedRows ==
  ASSUME TypeOK, NEW a \in Agreements, NEW event \in NotificationEvent, NEW parties \in SUBSET Party
  PROVE  /\ Queued(a, event, parties) \in Seq(Row)
         /\ Len(Queued(a, event, parties)) <= Cardinality(Told(event, parties))
         /\ Cardinality(Told(event, parties)) \in Nat
         /\ AllAbout(Queued(a, event, parties), a, Version(a), event)
         /\ OneForEach(Queued(a, event, parties), Told(event, parties))
<1>. DEFINE RowOf(party) == [agr |-> a, version |-> Version(a), event |-> event, party |-> party,
                               status |-> "QUEUED", attempts |-> 0]
            Names == Told(event, parties)
            S == {RowOf(party) : party \in Names}
            f == [party \in Names |-> RowOf(party)]
<1>1. IsFiniteSet(Party)
  <2>1. IsFiniteSet({"AGENT"} \cup {})
    BY FS_EmptySet, FS_AddElement
  <2>2. IsFiniteSet(({"AGENT"} \cup {}) \cup {"EMPLOYEE"})
    BY <2>1, FS_AddElement
  <2>3. IsFiniteSet((({"AGENT"} \cup {}) \cup {"EMPLOYEE"}) \cup {"MD"})
    BY <2>2, FS_AddElement
  <2>4. IsFiniteSet(((({"AGENT"} \cup {}) \cup {"EMPLOYEE"}) \cup {"MD"}) \cup {"ACCOUNTS"})
    BY <2>3, FS_AddElement
  <2>5. Party = ((({"AGENT"} \cup {}) \cup {"EMPLOYEE"}) \cup {"MD"}) \cup {"ACCOUNTS"}
    BY DEF Party
  <2>. QED  BY <2>4, <2>5
<1>2. IsFiniteSet(Names)
  <2>1. Names \subseteq Party
    BY DEF Told
  <2>. QED  BY <1>1, <2>1, FS_Subset
<1>3. f \in Surjection(Names, S)
  BY DEF Surjection
<1>4. IsFiniteSet(S) /\ Cardinality(S) <= Cardinality(Names)
  BY <1>2, <1>3, FS_Surjection
<1>5. Cardinality(Names) \in Nat
  BY <1>2, FS_CardinalityType
<1>6. \A row \in S : /\ row \in Row /\ row.agr = a /\ row.version = Version(a)
                   /\ row.event = event /\ row.status = "QUEUED"
  <2>1. Names \subseteq Party /\ Version(a) \in 1..MaxVersion
    BY Versions DEF Told
  <2>. QED  BY <2>1, BoundsAssumption DEF Row
<1>7. Queued(a, event, parties) = SetToSeq(S)
  BY DEF Queued
<1>p. /\ \A party \in Names : \E row \in S : row.party = party
      /\ \A row, other \in S : row.party = other.party => row = other
  <2>1. \A party \in Names : RowOf(party) \in S /\ RowOf(party).party = party
    OBVIOUS
  <2>2. ASSUME NEW row \in S, NEW other \in S, row.party = other.party
        PROVE  row = other
    <3>1. PICK party \in Names : row = RowOf(party)
      OBVIOUS
    <3>2. PICK party2 \in Names : other = RowOf(party2)
      OBVIOUS
    <3>3. party = party2
      BY <2>2, <3>1, <3>2
    <3>. QED  BY <3>1, <3>2, <3>3
  <2>. QED  BY <2>1, <2>2
<1>. HIDE DEF S, Names
<1>8. Cardinality(S) \in Nat /\ Queued(a, event, parties) \in [1..Cardinality(S) -> S]
  BY <1>4, <1>7, SetToSeqRange
<1>9. Queued(a, event, parties) \in Seq(S) /\ Len(Queued(a, event, parties)) = Cardinality(S)
  BY <1>8
<1>10. ASSUME NEW party \in Names
       PROVE  \E i \in 1..Cardinality(S) : \A j \in 1..Cardinality(S) :
                SetToSeq(S)[j].party = party <=> j = i
  <2>1. PICK row \in S : row.party = party
    BY <1>p
  <2>2. PICK i \in 1..Cardinality(S) : SetToSeq(S)[i] = row
    BY <1>4, <2>1, SetToSeqRange
  <2>3. ASSUME NEW j \in 1..Cardinality(S), SetToSeq(S)[j].party = party
        PROVE  j = i
    <3>1. SetToSeq(S)[j] = row
      BY <1>4, <1>p, <2>1, <2>3, SetToSeqRange
    <3>. QED  BY <1>4, <2>2, <3>1, SetToSeqRange
  <2>4. \A j \in 1..Cardinality(S) : SetToSeq(S)[j].party = party <=> j = i
    BY <2>1, <2>2, <2>3
  <2>. QED  BY <2>4
<1>11. OneForEach(Queued(a, event, parties), Names)
  BY <1>7, <1>9, <1>10 DEF OneForEach
<1>12. AllAbout(Queued(a, event, parties), a, Version(a), event)
  BY <1>6, <1>8, <1>9 DEF AllAbout
<1>. QED  BY <1>4, <1>5, <1>6, <1>8, <1>9, <1>11, <1>12 DEF Names

(* What enqueue adds, and that it changes no row there is.                 *)
LEMMA EnqueueRows ==
  ASSUME TypeOK,
         NEW a \in Agreements, NEW event \in NotificationEvent, NEW parties \in SUBSET Party,
         Enqueue(a, event, parties)
  PROVE  /\ mail' \in Seq(Row) /\ Len(mail') <= MaxRows
         /\ delivered' \in Seq(Nat) /\ Len(delivered') = Len(mail')
         /\ DOMAIN mail \subseteq DOMAIN mail'
         /\ \A r \in DOMAIN mail : mail'[r] = mail[r] /\ delivered'[r] = delivered[r]
         /\ \A r \in DOMAIN mail' \ DOMAIN mail :
              /\ mail'[r].agr = a /\ mail'[r].version = Version(a)
              /\ mail'[r].event = event /\ mail'[r].status = "QUEUED" /\ delivered'[r] = 0
<1>. DEFINE q == Queued(a, event, parties)
            z == [i \in DOMAIN q |-> 0]
<1>0. /\ q \in Seq(Row) /\ Len(q) <= Cardinality(Told(event, parties))
      /\ Cardinality(Told(event, parties)) \in Nat /\ AllAbout(q, a, Version(a), event)
  BY QueuedRows
<1>1. /\ q \in Seq(Row) /\ Len(q) <= Cardinality(Told(event, parties))
      /\ Cardinality(Told(event, parties)) \in Nat
      /\ \A i \in 1..Len(q) :
           q[i].agr = a /\ q[i].version = Version(a) /\ q[i].event = event /\ q[i].status = "QUEUED"
  BY <1>0 DEF AllAbout
<1>2. /\ mail \in Seq(Row) /\ delivered \in Seq(Nat) /\ Len(delivered) = Len(mail)
      /\ MaxRows \in Nat
  BY BoundsAssumption DEF TypeOK
<1>3. /\ Len(mail) + Cardinality(Told(event, parties)) <= MaxRows
      /\ mail' = mail \o q /\ delivered' = delivered \o z
  BY DEF Enqueue
<1>. HIDE DEF q
<1>4. z \in Seq(Nat) /\ Len(z) = Len(q) /\ \A i \in 1..Len(q) : z[i] = 0
  BY <1>1
<1>. HIDE DEF z
<1>5. mail' \in Seq(Row) /\ Len(mail') = Len(mail) + Len(q) /\ DOMAIN mail' = 1..(Len(mail) + Len(q))
  BY <1>1, <1>2, <1>3
<1>6. delivered' \in Seq(Nat) /\ Len(delivered') = Len(mail) + Len(q)
  <2>1. delivered \o z \in Seq(Nat) /\ Len(delivered \o z) = Len(delivered) + Len(z)
    BY <1>2, <1>4, ConcatProperties
  <2>. QED  BY <2>1, <1>2, <1>3, <1>4
<1>7. ASSUME NEW r \in DOMAIN mail
      PROVE  mail'[r] = mail[r] /\ delivered'[r] = delivered[r]
  BY <1>1, <1>2, <1>3, <1>4
<1>8. ASSUME NEW r \in DOMAIN mail' \ DOMAIN mail
      PROVE  /\ mail'[r].agr = a /\ mail'[r].version = Version(a)
             /\ mail'[r].event = event /\ mail'[r].status = "QUEUED" /\ delivered'[r] = 0
  <2>1. r - Len(mail) \in 1..Len(q)
    BY <1>1, <1>2, <1>5
  <2>2. r \in 1..Len(mail) + Len(q) /\ ~(r <= Len(mail))
    BY <1>1, <1>2, <1>5
  <2>3. mail'[r] = q[r - Len(mail)]
    BY <2>2, <1>1, <1>2, <1>3, ConcatProperties
  <2>4. delivered'[r] = z[r - Len(mail)]
    BY <2>2, <1>2, <1>3, <1>4, ConcatProperties
  <2>. QED  BY <2>1, <2>3, <2>4, <1>1, <1>4
<1>9. mail' \in Seq(Row) /\ Len(mail') <= MaxRows /\ DOMAIN mail \subseteq DOMAIN mail'
  BY <1>1, <1>2, <1>3, <1>5
<1>. QED  BY <1>2, <1>5, <1>6, <1>7, <1>8, <1>9

(* What the rows of a pass are when it begins: due, and each once.         *)
LEMMA ToSendRows ==
  ASSUME TypeOK
  PROVE  /\ ToSend \subseteq [row : 1..MaxRows, attempts : 0..MaxAttempts - 1]
         /\ Rows(ToSend) \subseteq DOMAIN mail
         /\ \A i, j \in ToSend : i.row = j.row => i = j
         /\ \A r \in Rows(ToSend) : mail[r].status # "SENT"
<1>1. ASSUME NEW r \in Due
      PROVE  /\ r \in DOMAIN mail /\ r \in 1..MaxRows
             /\ mail[r].attempts \in 0..MaxAttempts - 1 /\ mail[r].status # "SENT"
  <2>1. r \in 1..Len(mail) /\ mail[r] \in Row
    BY DEF Due, TypeOK
  <2>2. mail[r].status # "SENT" /\ mail[r].attempts < MaxAttempts
    BY DEF Due, Pending
  <2>3. mail[r].attempts \in 0..MaxAttempts
    BY <2>1 DEF Row
  <2>4. Len(mail) <= MaxRows /\ Len(mail) \in Nat
    BY DEF TypeOK
  <2>5. r \in DOMAIN mail
    BY DEF Due
  <2>. QED  BY <2>1, <2>2, <2>3, <2>4, <2>5, BoundsAssumption
<1>2. ASSUME NEW i \in ToSend
      PROVE  \E r \in Due : i = [row |-> r, attempts |-> mail[r].attempts]
  BY DEF ToSend
<1>. QED  BY <1>1, <1>2 DEF Rows

(* Goto keeps the list, and NextRow takes the row in hand off it; neither  *)
(* touches another pass.                                                   *)
PassType ==
  {Idle} \cup [pc : {"send", "sent", "recorded", "refused"},
               list : (SUBSET [row : 1..MaxRows, attempts : 0..MaxAttempts - 1]) \ {{}}]

LEMMA AtWork ==
  ASSUME TypeOK, NEW p \in Passes
  PROVE  /\ pass[p] \in PassType
         /\ pass[p].pc \in {"send", "sent", "recorded", "refused"} <=> pass[p] # Idle
         /\ pass[p] # Idle => RowsOf(p) = Rows(pass[p].list) /\ Item(p).row \in RowsOf(p)
<1>1. pass[p] \in PassType
  BY DEF TypeOK, PassType
<1>2. pass[p].pc \in {"send", "sent", "recorded", "refused"} <=> pass[p] # Idle
  BY <1>1 DEF PassType, Idle
<1>3. pass[p] # Idle => RowsOf(p) = Rows(pass[p].list) /\ Item(p).row \in RowsOf(p)
  BY ItemOnList DEF RowsOf, Rows
<1>. QED  BY <1>1, <1>2, <1>3

LEMMA Gone ==
  ASSUME TypeOK, NEW p \in Passes, pass[p] # Idle,
         NEW pc \in {"send", "sent", "recorded", "refused"}, Goto(p, pc)
  PROVE  /\ pass' \in [Passes -> PassType]
         /\ pass'[p].pc = pc /\ pass'[p] # Idle /\ pass'[p].list = pass[p].list
         /\ \A q \in Passes \ {p} : pass'[q] = pass[q]
         /\ \A q \in Passes : RowsOf(q)' = RowsOf(q) /\ Item(q)' = Item(q)
<1>1. pass \in [Passes -> PassType]
  BY DEF TypeOK, PassType
<1>2. pass[p] \in PassType \ {Idle} /\ pass' = [pass EXCEPT ![p] = [pass[p] EXCEPT !.pc = pc]]
  BY <1>1 DEF Goto
<1>. DEFINE new == [pass[p] EXCEPT !.pc = pc]
<1>3. new \in PassType /\ new.pc = pc /\ new.list = pass[p].list /\ new # Idle
  BY <1>2 DEF PassType, Idle
<1>. HIDE DEF new
<1>4. pass' \in [Passes -> PassType] /\ pass'[p] = new /\ \A q \in Passes \ {p} : pass'[q] = pass[q]
  BY <1>1, <1>2, <1>3 DEF new
<1>5. ASSUME NEW q \in Passes
      PROVE  RowsOf(q)' = RowsOf(q) /\ Item(q)' = Item(q)
  <2>1. pass'[q].list = pass[q].list /\ (pass'[q] = Idle <=> pass[q] = Idle)
    BY <1>3, <1>4
  <2>. QED  BY <2>1 DEF RowsOf, Item
<1>. QED  BY <1>3, <1>4, <1>5

LEMMA NextTaken ==
  ASSUME TypeOK, Lists, NEW p \in Passes, pass[p] # Idle, NextRow(p)
  PROVE  /\ pass' \in [Passes -> PassType]
         /\ pass'[p].pc \in {"idle", "send"}
         /\ RowsOf(p)' = RowsOf(p) \ {Item(p).row}
         /\ pass'[p] # Idle => pass'[p].list \subseteq pass[p].list
         /\ \A q \in Passes \ {p} : pass'[q] = pass[q] /\ RowsOf(q)' = RowsOf(q) /\ Item(q)' = Item(q)
<1>. DEFINE list == pass[p].list
            item == Item(p)
<1>1. pass \in [Passes -> PassType] /\ pass[p] \in PassType \ {Idle}
  BY DEF TypeOK, PassType
<1>2. item \in list /\ \A i, j \in list : i.row = j.row => i = j
  BY ItemOnList DEF Lists
<1>3. pass' = [pass EXCEPT ![p] = IF list = {item} THEN Idle ELSE [pc |-> "send", list |-> list \ {item}]]
  BY DEF NextRow
<1>. HIDE DEF item
<1>4. pass'[p] = (IF list = {item} THEN Idle ELSE [pc |-> "send", list |-> list \ {item}])
  BY <1>1, <1>3
<1>5. (IF list = {item} THEN Idle ELSE [pc |-> "send", list |-> list \ {item}]) \in PassType
  BY <1>1, <1>2 DEF PassType
<1>6. pass' \in [Passes -> PassType] /\ \A q \in Passes \ {p} : pass'[q] = pass[q]
  BY <1>1, <1>3, <1>5
<1>7. pass'[p].pc \in {"idle", "send"} /\ (pass'[p] # Idle => pass'[p].list \subseteq list)
  BY <1>4 DEF Idle
<1>8. RowsOf(p)' = RowsOf(p) \ {item.row}
  <2>1. RowsOf(p) = Rows(list)
    BY DEF RowsOf
  <2>2. CASE list = {item}
    BY <2>1, <2>2, <1>4 DEF RowsOf, Rows
  <2>3. CASE list # {item}
    <3>1. RowsOf(p)' = Rows(list \ {item})
      BY <2>3, <1>4 DEF RowsOf, Idle
    <3>2. Rows(list \ {item}) = Rows(list) \ {item.row}
      BY <1>2 DEF Rows
    <3>. QED  BY <3>1, <3>2, <2>1
  <2>. QED  BY <2>2, <2>3
<1>9. \A q \in Passes \ {p} : RowsOf(q)' = RowsOf(q) /\ Item(q)' = Item(q)
  BY <1>6 DEF RowsOf, Item
<1>. QED  BY <1>6, <1>7, <1>8, <1>9 DEF item

(* Mark changes the state and the count of the row in hand, and no other's.*)
LEMMA Marked ==
  ASSUME TypeOK, Lists, NEW p \in Passes, pass[p] # Idle, NEW s \in {"SENT", "FAILED"}, Mark(p, s)
  PROVE  /\ mail' \in Seq(Row) /\ Len(mail') = Len(mail) /\ DOMAIN mail' = DOMAIN mail
         /\ Item(p).row \in DOMAIN mail /\ mail'[Item(p).row].status = s
         /\ \A r \in DOMAIN mail :
              /\ mail'[r].agr = mail[r].agr /\ mail'[r].version = mail[r].version
              /\ mail'[r].event = mail[r].event /\ mail'[r].party = mail[r].party
         /\ \A r \in DOMAIN mail \ {Item(p).row} : mail'[r] = mail[r]
<1>. DEFINE row == Item(p).row
            n   == Item(p).attempts + 1
            new == [mail[row] EXCEPT !.status = s, !.attempts = n]
<1>1. row \in DOMAIN mail /\ n \in 0..MaxAttempts
  BY AtWork, ItemOnList, BoundsAssumption DEF Lists
<1>2. mail \in Seq(Row) /\ DOMAIN mail = 1..Len(mail) /\ mail[row] \in Row
  BY <1>1 DEF TypeOK
<1>3. mail' = [mail EXCEPT ![row] = new]
  BY <1>1, <1>2 DEF Mark
<1>. HIDE DEF row, n
<1>4. new \in Row /\ new.status = s /\ new.agr = mail[row].agr /\ new.version = mail[row].version
      /\ new.event = mail[row].event /\ new.party = mail[row].party
  BY <1>1, <1>2 DEF Row
<1>. HIDE DEF new
<1>5. mail' \in Seq(Row) /\ Len(mail') = Len(mail) /\ DOMAIN mail' = DOMAIN mail
  BY <1>1, <1>2, <1>3, <1>4
<1>6. mail'[row] = new /\ \A r \in DOMAIN mail \ {row} : mail'[r] = mail[r]
  BY <1>1, <1>2, <1>3
<1>. QED  BY <1>1, <1>4, <1>5, <1>6 DEF row

-----------------------------------------------------------------------------
(* Types.                                                                  *)

(* The four transitions that queue mail are Moves, and a mail about an end *)
(* goes with the transition to it.                                         *)
Transition(a) == AgentSigned(a) \/ EmployeeSigned(a) \/ Reject(a) \/ Finalize(a)

LEMMA Transitions ==
  ASSUME NEW a \in Agreements, Transition(a)
  PROVE  \E from \in SUBSET Stage, to \in Stage \cup {"COMPLETED", "REJECTED"},
            event \in NotificationEvent, parties \in SUBSET Party :
           /\ Moves(a, from, to, event, parties) /\ (event \in Ended => event = to)
           /\ to = "COMPLETED" => event = to /\ parties = Party
           /\ to = "REJECTED"  => event = to /\ parties = {"AGENT"}
<1>1. CASE AgentSigned(a)
  BY <1>1 DEF AgentSigned, Stage, Ended, NotificationEvent, Party
<1>2. CASE EmployeeSigned(a)
  BY <1>2 DEF EmployeeSigned, Stage, Ended, NotificationEvent, Party
<1>3. CASE Reject(a)
  BY <1>3 DEF Reject, Stage, Ended, NotificationEvent, Party
<1>4. CASE Finalize(a)
  BY <1>4 DEF Finalize, Stage, Ended, NotificationEvent, Party
<1>. QED  BY <1>1, <1>2, <1>3, <1>4 DEF Transition

(* The others queue none: the agreement is sent out or ends, or a          *)
(* correction reopens it.                                                  *)
Quiet(a) == Generate(a) \/ Cancel(a) \/ Expire(a)

LEMMA Quiets ==
  ASSUME TypeOK, NEW a \in Agreements, Quiet(a)
  PROVE  /\ \E to \in Stage \cup {"CANCELLED", "EXPIRED"} :
              status[a] \in {"DRAFT"} \cup Stage /\ status' = [status EXCEPT ![a] = to]
         /\ UNCHANGED <<closed, mail, delivered>> /\ Elsewhere
BY DEF Quiet, Generate, Cancel, Expire, Quietly, MailUnchanged, Stage

(* A correction closes the version it finds, and no other.                 *)
LEMMA Closing ==
  ASSUME TypeOK, NEW a \in Agreements, Correct(a)
  PROVE  /\ status \in [Agreements -> AgreementState] /\ status' = [status EXCEPT ![a] = "DRAFT"]
         /\ status[a] \in Correctable
         /\ closed' \in [Agreements -> Seq(Correctable)]
         /\ \A b \in Agreements \ {a} : closed'[b] = closed[b] /\ Version(b)' = Version(b)
         /\ Version(a) \in Nat /\ Version(a)' = Version(a) + 1 /\ Version(a) < MaxVersion
         /\ \A b \in Agreements : \A v \in 1..Version(b) : StatusOf(b, v)' = StatusOf(b, v)
         /\ \A v \in Nat : v = Version(a) + 1 => StatusOf(a, v)' = "DRAFT"
<1>1. /\ status[a] \in Correctable /\ Version(a) < MaxVersion
      /\ closed' = [closed EXCEPT ![a] = Append(closed[a], status[a])]
      /\ status' = [status EXCEPT ![a] = "DRAFT"]
  BY DEF Correct
<1>2. closed \in [Agreements -> Seq(Correctable)] /\ status \in [Agreements -> AgreementState]
  BY DEF TypeOK
<1>3. /\ closed[a] \in Seq(Correctable) /\ Len(closed[a]) \in Nat
      /\ DOMAIN closed[a] = 1..Len(closed[a]) /\ Version(a) = Len(closed[a]) + 1
  BY Versions
<1>4. /\ closed'[a] = Append(closed[a], status[a]) /\ closed'[a] \in Seq(Correctable)
      /\ \A b \in Agreements \ {a} : closed'[b] = closed[b]
      /\ status'[a] = "DRAFT" /\ \A b \in Agreements \ {a} : status'[b] = status[b]
  BY <1>1, <1>2, <1>3
<1>5. /\ Len(closed'[a]) = Len(closed[a]) + 1 /\ DOMAIN closed'[a] = 1..(Len(closed[a]) + 1)
      /\ \A v \in 1..Len(closed[a]) : closed'[a][v] = closed[a][v]
      /\ closed'[a][Len(closed[a]) + 1] = status[a]
  BY <1>1, <1>3, <1>4
<1>6. closed' \in [Agreements -> Seq(Correctable)]
  BY <1>1, <1>2, <1>4
<1>7. Version(a)' = Version(a) + 1 /\ \A b \in Agreements \ {a} : Version(b)' = Version(b)
  BY <1>3, <1>4, <1>5 DEF Version
<1>8. \A v \in 1..Version(a) : StatusOf(a, v)' = StatusOf(a, v)
  BY <1>3, <1>5 DEF StatusOf
<1>9. \A b \in Agreements \ {a} : \A v \in 1..Version(b) : StatusOf(b, v)' = StatusOf(b, v)
  BY <1>4 DEF StatusOf
<1>10. \A v \in Nat : v = Version(a) + 1 => StatusOf(a, v)' = "DRAFT"
  BY <1>3, <1>4, <1>5, <1>7 DEF StatusOf
<1>. QED  BY <1>1, <1>2, <1>3, <1>4, <1>6, <1>7, <1>8, <1>9, <1>10

Typed == TypeOK /\ Lists

LEMMA TypedTransition ==
  ASSUME Typed, NEW a \in Agreements, Transition(a)
  PROVE  Typed'
<1>1. PICK from \in SUBSET Stage, to \in Stage \cup {"COMPLETED", "REJECTED"},
           event \in NotificationEvent, parties \in SUBSET Party :
             Moves(a, from, to, event, parties)
  BY Transitions
<1>2. Enqueue(a, event, parties) /\ Elsewhere /\ status' = [status EXCEPT ![a] = to] /\ closed' = closed
  BY <1>1 DEF Moves
<1>3. TypeOK
  BY DEF Typed
<1>4. /\ mail' \in Seq(Row) /\ Len(mail') <= MaxRows
      /\ delivered' \in Seq(Nat) /\ Len(delivered') = Len(mail')
      /\ DOMAIN mail \subseteq DOMAIN mail'
  BY <1>2, <1>3, EnqueueRows
<1>5. TypeOK'
  BY <1>2, <1>3, <1>4 DEF TypeOK, Elsewhere, Version, AgreementState, Ended
<1>6. Lists'
  BY <1>2, <1>4 DEF Lists, Elsewhere, Typed
<1>. QED  BY <1>5, <1>6 DEF Typed

LEMMA TypedQuiet ==
  ASSUME Typed, NEW a \in Agreements, Quiet(a)
  PROVE  Typed'
<1>1. PICK to \in Stage \cup {"CANCELLED", "EXPIRED"} : status' = [status EXCEPT ![a] = to]
  BY Quiets DEF Typed
<1>2. UNCHANGED <<closed, mail, delivered, reminders, pass, job, slot, interrupts, excused>>
  BY Quiets DEF Typed, Elsewhere
<1>3. TypeOK'
  BY <1>1, <1>2 DEF Typed, TypeOK, Version, AgreementState, Ended
<1>4. Lists'
  BY <1>2 DEF Typed, Lists
<1>. QED  BY <1>3, <1>4 DEF Typed

LEMMA TypedCorrect ==
  ASSUME Typed, NEW a \in Agreements, Correct(a)
  PROVE  Typed'
<1>1. UNCHANGED <<mail, delivered, reminders, pass, job, slot, interrupts, excused>>
  BY DEF Correct, MailUnchanged, Elsewhere
<1>2. TypeOK
  BY DEF Typed
<1>3. /\ closed' \in [Agreements -> Seq(Correctable)]
      /\ \A b \in Agreements : Version(b)' <= MaxVersion
      /\ status' \in [Agreements -> AgreementState]
  <2>1. ASSUME NEW b \in Agreements PROVE Version(b)' <= MaxVersion
    <3>1. /\ \A c \in Agreements \ {a} : Version(c)' = Version(c)
          /\ Version(a) \in Nat /\ Version(a)' = Version(a) + 1 /\ Version(a) < MaxVersion
      BY <1>2, Closing
    <3>2. Version(b) <= MaxVersion
      BY <1>2 DEF TypeOK
    <3>3. CASE b = a
      BY <3>1, <3>3, BoundsAssumption
    <3>4. CASE b # a
      BY <3>1, <3>2, <3>4
    <3>. QED  BY <3>3, <3>4
  <2>2. status' \in [Agreements -> AgreementState]
    BY <1>2, Closing DEF AgreementState
  <2>. QED  BY <1>2, <2>1, <2>2, Closing
<1>4. TypeOK'
  BY <1>1, <1>2, <1>3 DEF TypeOK
<1>5. Lists'
  BY <1>1 DEF Typed, Lists
<1>. QED  BY <1>4, <1>5 DEF Typed

(* The steps of a pass, by what they do to the mail, to the pass and to    *)
(* what is excused.                                                        *)
PassActs(p) == BeginPass(p) \/ PassStep(p) \/ Stumble(p) \/ Abandon(p)

LEMMA TypedPass ==
  ASSUME Typed, NEW p \in Passes, PassActs(p)
  PROVE  Typed'
<1>1. TypeOK /\ Lists
  BY DEF Typed
<1>2. /\ mail \in Seq(Row) /\ Len(mail) <= MaxRows
      /\ delivered \in Seq(Nat) /\ Len(delivered) = Len(mail)
      /\ pass \in [Passes -> PassType] /\ interrupts \in 0..MaxInterrupts
      /\ excused \subseteq DOMAIN mail
  BY <1>1 DEF TypeOK, PassType
<1>3. UNCHANGED <<status, closed, reminders, job, slot>>
  BY DEF PassActs, PassStep, BeginPass, Send, RecordSent, AuditSent, RecordFailed, Stumble, Abandon, MailUnchanged
<1>4. /\ mail' \in Seq(Row) /\ Len(mail') = Len(mail) /\ DOMAIN mail' = DOMAIN mail
  <2>1. CASE UNCHANGED mail
    BY <2>1, <1>2
  <2>2. CASE RecordSent(p)
    BY <2>2, <1>1, AtWork, Marked DEF RecordSent, At
  <2>3. CASE RecordFailed(p)
    BY <2>3, <1>1, AtWork, Marked DEF RecordFailed, At
  <2>. QED
    BY <2>1, <2>2, <2>3
    DEF PassActs, PassStep, BeginPass, Send, AuditSent, Stumble, Abandon, MailUnchanged
<1>5. delivered' \in Seq(Nat) /\ Len(delivered') = Len(delivered)
  <2>1. CASE UNCHANGED delivered
    BY <2>1, <1>2
  <2>2. CASE Send(p) /\ ~UNCHANGED delivered
    <3>1. delivered' = [delivered EXCEPT ![Item(p).row] = @ + 1]
      BY <2>2 DEF Send
    <3>2. Item(p).row \in DOMAIN delivered
      <4>1. pass[p] # Idle
        BY <2>2, <1>1, AtWork DEF Send, At
      <4>2. Item(p).row \in DOMAIN mail
        BY <4>1, <1>1, AtWork DEF Lists
      <4>. QED  BY <4>2, <1>2
    <3>. QED  BY <3>1, <3>2, <1>2
  <2>. QED
    BY <2>1, <2>2
    DEF PassActs, PassStep, BeginPass, RecordSent, AuditSent, RecordFailed, Stumble, Abandon, MailUnchanged
<1>6. pass' \in [Passes -> PassType]
      /\ \A q \in Passes : pass'[q] # Idle =>
           \/ pass[q] # Idle /\ pass'[q].list \subseteq pass[q].list
           \/ pass'[q].list = ToSend
  <2>1. CASE BeginPass(p)
    <3>1. pass' = [pass EXCEPT ![p] = [pc |-> "send", list |-> ToSend]] /\ ToSend # {}
      BY <2>1 DEF BeginPass
    <3>2. [pc |-> "send", list |-> ToSend] \in PassType
      BY <3>1, <1>1, ToSendRows DEF PassType
    <3>. QED  BY <3>1, <3>2, <1>2
  <2>2. CASE pass[p] # Idle /\ \E pc \in {"send", "sent", "recorded", "refused"} : Goto(p, pc)
    <3>1. PICK pc \in {"send", "sent", "recorded", "refused"} : Goto(p, pc)
      BY <2>2
    <3>2. /\ pass' \in [Passes -> PassType] /\ pass'[p].list = pass[p].list
          /\ \A q \in Passes \ {p} : pass'[q] = pass[q]
      BY <2>2, <3>1, <1>1, Gone
    <3>. QED  BY <3>2, <2>2
  <2>3. CASE pass[p] # Idle /\ NextRow(p)
    <3>1. /\ pass' \in [Passes -> PassType]
          /\ pass'[p] # Idle => pass'[p].list \subseteq pass[p].list
          /\ \A q \in Passes \ {p} : pass'[q] = pass[q]
      BY <2>3, <1>1, NextTaken
    <3>. QED  BY <3>1, <2>3
  <2>4. CASE pass' = [pass EXCEPT ![p] = Idle]
    BY <2>4, <1>2 DEF PassType
  <2>5. PassStep(p) \/ Stumble(p) => pass[p] # Idle
    BY <1>1, AtWork DEF PassStep, Send, RecordSent, AuditSent, RecordFailed, Stumble, At
  <2>. QED
    BY <2>1, <2>2, <2>3, <2>4, <2>5
    DEF PassActs, PassStep, Send, RecordSent, AuditSent, RecordFailed, Stumble, Abandon
<1>7. interrupts' \in 0..MaxInterrupts
  BY <1>2, BoundsAssumption
  DEF PassActs, PassStep, BeginPass, Send, RecordSent, AuditSent, RecordFailed, Stumble, Abandon, MailUnchanged
<1>8. excused' \subseteq DOMAIN mail
  <2>1. CASE BeginPass(p)
    <3>1. Rows(ToSend) \subseteq DOMAIN mail
      BY <1>1, ToSendRows
    <3>. QED  BY <2>1, <3>1, <1>2 DEF BeginPass
  <2>2. pass[p] # Idle => Item(p).row \in DOMAIN mail
    BY <1>1, AtWork DEF Lists
  <2>3. CASE Stumble(p)
    BY <2>2, <2>3, <1>1, <1>2, AtWork DEF Stumble
  <2>4. CASE Abandon(p)
    BY <2>2, <2>4, <1>2 DEF Abandon
  <2>. QED
    BY <2>1, <2>3, <2>4, <1>2 DEF PassActs, PassStep, Send, RecordSent, AuditSent, RecordFailed, MailUnchanged
<1>9. TypeOK'
  BY <1>1, <1>2, <1>3, <1>4, <1>5, <1>6, <1>7, <1>8 DEF TypeOK, PassType, Version
<1>10. Lists'
  <2>1. SUFFICES ASSUME NEW q \in Passes, pass'[q] # Idle
                 PROVE  /\ Rows(pass'[q].list) \subseteq DOMAIN mail
                        /\ \A i, j \in pass'[q].list : i.row = j.row => i = j
    BY <1>4 DEF Lists
  <2>2. CASE pass[q] # Idle /\ pass'[q].list \subseteq pass[q].list
    BY <2>2, <1>1 DEF Lists, Rows
  <2>3. CASE pass'[q].list = ToSend
    BY <2>3, <1>1, ToSendRows
  <2>. QED  BY <2>1, <2>2, <2>3, <1>6
<1>. QED  BY <1>9, <1>10 DEF Typed

JobActs ==
  \/ BeginReminders \/ AddRecipient \/ EndReminders \/ JobCrashes \/ Tick
  \/ \E a \in Agreements, stage \in Stage : Remind(a, stage)

LEMMA TypedJob ==
  ASSUME Typed, JobActs
  PROVE  Typed'
<1>1. TypeOK /\ Lists
  BY DEF Typed
<1>2. UNCHANGED <<status, closed, pass, excused>>
  BY DEF JobActs, BeginReminders, AddRecipient, EndReminders, JobCrashes, Tick, Remind
<1>. DEFINE Left == SUBSET (Agreements \X Stage)
<1>3. /\ slot \in 0..MaxSlot /\ interrupts \in 0..MaxInterrupts
      /\ reminders \in [Agreements -> SUBSET (0..MaxSlot)]
      /\ job \in {Idle} \cup [pc : {"next"}, left : Left]
           \cup [pc : {"recipients"}, left : Left, agr : Agreements, stage : Stage]
  BY <1>1 DEF TypeOK
<1>. HIDE DEF Left
<1>4. ASSUME AddRecipient
      PROVE  job.agr \in Agreements /\ job.left \in Left /\ Enqueue(job.agr, "REMINDER", {PendingRecipient(job.stage)})
  BY <1>4, <1>3 DEF AddRecipient, Idle
<1>5. job' \in {Idle} \cup [pc : {"next"}, left : Left]
           \cup [pc : {"recipients"}, left : Left, agr : Agreements, stage : Stage]
  <2>1. CASE BeginReminders
    <3>1. PICK due \in SUBSET {a \in Agreements : status[a] \in StagesWithSla} :
            job' = [pc |-> "next", left |-> {<<a, status[a]>> : a \in due}]
      BY <2>1 DEF BeginReminders
    <3>2. {<<a, status[a]>> : a \in due} \in Left
      BY DEF Left, StagesWithSla, Stage
    <3>. QED  BY <3>1, <3>2
  <2>2. CASE AddRecipient
    BY <2>2, <1>4 DEF AddRecipient
  <2>3. CASE EndReminders \/ JobCrashes \/ Tick
    BY <2>3, <1>3 DEF EndReminders, JobCrashes, Tick
  <2>4. ASSUME NEW a \in Agreements, NEW stage \in Stage, Remind(a, stage)
        PROVE  job' \in [pc : {"next"}, left : Left]
                 \cup [pc : {"recipients"}, left : Left, agr : Agreements, stage : Stage]
    <3>1. job \in [pc : {"next"}, left : Left]
      BY <2>4, <1>3 DEF Remind, Idle
    <3>2. job.left \ {<<a, stage>>} \in Left
      BY <3>1 DEF Left
    <3>3. [job EXCEPT !.left = @ \ {<<a, stage>>}] \in [pc : {"next"}, left : Left]
      BY <3>1, <3>2
    <3>. QED  BY <2>4, <3>2, <3>3 DEF Remind
  <2>. QED  BY <2>1, <2>2, <2>3, <2>4 DEF JobActs
<1>6. reminders' \in [Agreements -> SUBSET (0..MaxSlot)] /\ slot' \in 0..MaxSlot
  <2>1. CASE BeginReminders \/ AddRecipient \/ EndReminders \/ JobCrashes
    BY <2>1, <1>3 DEF BeginReminders, AddRecipient, EndReminders, JobCrashes
  <2>2. CASE Tick
    <3>1. reminders' = reminders /\ slot' = slot + 1 /\ slot < MaxSlot
      BY <2>2 DEF Tick
    <3>. QED  BY <3>1, <1>3, BoundsAssumption
  <2>3. ASSUME NEW a \in Agreements, NEW stage \in Stage, Remind(a, stage)
        PROVE  /\ slot' = slot
               /\ reminders' = reminders \/ reminders' = [reminders EXCEPT ![a] = @ \cup {slot}]
    BY <2>3 DEF Remind
  <2>. QED  BY <2>1, <2>2, <2>3, <1>3 DEF JobActs
<1>7. interrupts' \in 0..MaxInterrupts
  <2>1. interrupts' = interrupts \/ (interrupts < MaxInterrupts /\ interrupts' = interrupts + 1)
    BY DEF JobActs, BeginReminders, AddRecipient, EndReminders, JobCrashes, Tick, Remind
  <2>. QED  BY <2>1, <1>3, BoundsAssumption
<1>8. /\ mail' \in Seq(Row) /\ Len(mail') <= MaxRows
      /\ delivered' \in Seq(Nat) /\ Len(delivered') = Len(mail')
      /\ DOMAIN mail \subseteq DOMAIN mail'
  <2>1. CASE AddRecipient
    <3>1. "REMINDER" \in NotificationEvent /\ {PendingRecipient(job.stage)} \in SUBSET Party
      BY DEF NotificationEvent, PendingRecipient, Party
    <3>. QED  BY <2>1, <3>1, <1>1, <1>4, EnqueueRows
  <2>2. CASE UNCHANGED <<mail, delivered>>
    BY <2>2, <1>1 DEF TypeOK
  <2>. QED  BY <2>1, <2>2 DEF JobActs, BeginReminders, EndReminders, JobCrashes, Tick, Remind, MailUnchanged
<1>9. TypeOK'
  BY <1>1, <1>2, <1>5, <1>6, <1>7, <1>8 DEF TypeOK, Left, Version
<1>10. Lists'
  BY <1>1, <1>2, <1>8 DEF Lists
<1>. QED  BY <1>9, <1>10 DEF Typed

LEMMA Acts ==
  ASSUME Next
  PROVE  \/ \E a \in Agreements : Transition(a) \/ Quiet(a) \/ Correct(a)
         \/ \E p \in Passes : PassActs(p)
         \/ JobActs
BY DEF Next, Transition, Quiet, PassActs, JobActs

LEMMA TypedStutters ==
  ASSUME Typed, UNCHANGED vars
  PROVE  Typed'
BY DEF Typed, TypeOK, Version, Lists, Rows, vars

(* Every variable keeps its type, and what a pass has in hand exists.      *)
LEMMA TypedAlways == Spec => []Typed
<1>1. Init => Typed
  <2>. SUFFICES ASSUME Init PROVE Typed
    OBVIOUS
  <2>1. mail = <<>> /\ delivered = <<>> /\ excused = {} /\ slot = 0 /\ interrupts = 0 /\ job = Idle
        /\ status = [a \in Agreements |-> "DRAFT"] /\ closed = [a \in Agreements |-> <<>>]
        /\ reminders = [a \in Agreements |-> {}]
        /\ pass = [p \in Passes |-> Idle]
    BY DEF Init
  <2>2. <<>> \in Seq(Row) /\ <<>> \in Seq(Nat) /\ Len(<<>>) = 0
    BY EmptySeq
  <2>3. 0 <= MaxRows /\ 0 \in 0..MaxSlot /\ 0 \in 0..MaxInterrupts
    BY BoundsAssumption
  <2>4. closed \in [Agreements -> Seq(Correctable)] /\ \A a \in Agreements : Version(a) <= MaxVersion
    <3>1. <<>> \in Seq(Correctable) /\ Len(<<>>) = 0
      BY EmptySeq
    <3>. QED  BY <2>1, <3>1, BoundsAssumption DEF Version
  <2>5. status \in [Agreements -> AgreementState]
    BY <2>1 DEF AgreementState
  <2>6. TypeOK
    BY <2>1, <2>2, <2>3, <2>4, <2>5 DEF TypeOK
  <2>. QED  BY <2>1, <2>6 DEF Typed, Lists
<1>2. Typed /\ [Next]_vars => Typed'
  BY Acts, TypedTransition, TypedQuiet, TypedCorrect, TypedPass, TypedJob, TypedStutters
<1>. QED  BY <1>1, <1>2, PTL DEF Spec

(* Outbox's type invariant.                                                *)
THEOREM TypeCorrect == Spec => []TypeOK
<1>1. Typed => TypeOK
  BY DEF Typed
<1>. QED  BY <1>1, TypedAlways, PTL

-----------------------------------------------------------------------------
(* Mails tell the truth.                                                   *)

(* A mail is about an agreement there is, and a version.                   *)
LEMMA About ==
  ASSUME TypeOK
  PROVE  /\ status \in [Agreements -> AgreementState]
         /\ \A r \in DOMAIN mail :
              mail[r].agr \in Agreements /\ mail[r].version \in Nat /\ 1 <= mail[r].version
<1>1. ASSUME NEW r \in DOMAIN mail PROVE mail[r] \in Row
  BY DEF TypeOK
<1>2. status \in [Agreements -> AgreementState]
  BY DEF TypeOK
<1>. QED  BY <1>1, <1>2, BoundsAssumption DEF Row

(* What changes when an agreement's state does: how its current version    *)
(* stands, and nothing about another version or agreement.                 *)
LEMMA Reached ==
  ASSUME TypeOK, NEW a \in Agreements, NEW to, status' = [status EXCEPT ![a] = to], closed' = closed
  PROVE  /\ \A b \in Agreements : Version(b)' = Version(b)
         /\ \A b \in Agreements : \A v \in Nat :
              b # a \/ (1 <= v /\ v < Version(a)) => StatusOf(b, v)' = StatusOf(b, v)
         /\ StatusOf(a, Version(a)) = status[a] /\ StatusOf(a, Version(a))' = to
<1>1. status'[a] = to /\ \A b \in Agreements \ {a} : status'[b] = status[b]
  BY DEF TypeOK
<1>2. \A b \in Agreements : Version(b)' = Version(b)
  BY DEF Version
<1>3. DOMAIN closed[a] = 1..Len(closed[a]) /\ Len(closed[a]) \in Nat /\ Version(a) = Len(closed[a]) + 1
  BY Versions
<1>4. \A v \in Nat : 1 <= v /\ v < Version(a) => v \in DOMAIN closed[a]
  BY <1>3
<1>5. Version(a) \notin DOMAIN closed[a]
  BY <1>3
<1>6. StatusOf(a, Version(a)) = status[a]
  BY <1>5 DEF StatusOf
<1>7. StatusOf(a, Version(a))' = to
  BY <1>1, <1>2, <1>5 DEF StatusOf
<1>8. \A v \in Nat : 1 <= v /\ v < Version(a) => StatusOf(a, v)' = StatusOf(a, v)
  BY <1>4 DEF StatusOf
<1>9. \A b \in Agreements \ {a} : \A v \in Nat : StatusOf(b, v)' = StatusOf(b, v)
  BY <1>1 DEF StatusOf
<1>. QED  BY <1>2, <1>6, <1>7, <1>8, <1>9

(* A version has reached an end.                                           *)
Ends(b, v, end) == 1 <= v /\ v <= Version(b) /\ StatusOf(b, v) = end

(* What a version has reached it stays at: another one moves, or the       *)
(* correction of the last one begins another.                              *)
LEMMA EndsReached ==
  ASSUME TypeOK, NEW a \in Agreements, NEW to, status[a] \in {"DRAFT"} \cup Stage,
         status' = [status EXCEPT ![a] = to], closed' = closed,
         NEW b \in Agreements, NEW v \in Nat, NEW end \in Ended, Ends(b, v, end)
  PROVE  ~(b = a /\ v = Version(a)) /\ Ends(b, v, end)'
<1>1. 1 <= v /\ v <= Version(b) /\ StatusOf(b, v) = end
  BY DEF Ends
<1>2. StatusOf(a, Version(a)) = status[a] /\ status[a] \notin Ended
  BY Reached DEF Stage, Ended
<1>3. ~(b = a /\ v = Version(a))
  BY <1>1, <1>2
<1>4. Version(b) \in Nat /\ Version(b)' = Version(b)
  <2>1. Version(b) \in Nat
    BY Versions
  <2>2. Version(b)' = Version(b)
    BY Reached
  <2>. QED  BY <2>1, <2>2
<1>5. b # a \/ (1 <= v /\ v < Version(a))
  BY <1>1, <1>3, <1>4
<1>6. StatusOf(b, v)' = StatusOf(b, v)
  <2>1. \A c \in Agreements : \A u \in Nat :
          c # a \/ (1 <= u /\ u < Version(a)) => StatusOf(c, u)' = StatusOf(c, u)
    BY Reached
  <2>. QED  BY <1>5, <2>1
<1>. QED  BY <1>1, <1>3, <1>4, <1>6 DEF Ends

LEMMA EndsClosed ==
  ASSUME TypeOK, NEW a \in Agreements, Correct(a),
         NEW b \in Agreements, NEW v \in Nat, NEW end \in Ended, Ends(b, v, end)
  PROVE  Ends(b, v, end)'
<1>1. 1 <= v /\ v <= Version(b) /\ StatusOf(b, v) = end
  BY DEF Ends
<1>2. Version(b) \in Nat
  BY Versions
<1>3. v \in 1..Version(b)
  BY <1>1, <1>2
<1>4. StatusOf(b, v)' = StatusOf(b, v)
  BY <1>3, Closing
<1>5. Version(b)' = Version(b) \/ Version(b)' = Version(b) + 1
  BY Closing
<1>. QED  BY <1>1, <1>2, <1>4, <1>5 DEF Ends

(* Mails stay true when ends do, and a new one is about an end reached     *)
(* with it or about none.                                                  *)
LEMMA TruthKept ==
  ASSUME TypeOK, Truth,
         \A b \in Agreements : \A v \in Nat : \A end \in Ended : Ends(b, v, end) => Ends(b, v, end)',
         \A r \in DOMAIN mail' :
           \/ /\ r \in DOMAIN mail /\ mail'[r].agr = mail[r].agr
              /\ mail'[r].version = mail[r].version /\ mail'[r].event = mail[r].event
           \/ mail'[r].event \notin Ended
           \/ \E b \in Agreements : \E v \in Nat : \E end \in Ended :
                mail'[r].agr = b /\ mail'[r].version = v /\ mail'[r].event = end /\ Ends(b, v, end)'
  PROVE  Truth'
<1>1. ASSUME NEW r \in DOMAIN mail', mail'[r].event \in Ended
      PROVE  \E b \in Agreements : \E v \in Nat : \E end \in Ended :
               mail'[r].agr = b /\ mail'[r].version = v /\ mail'[r].event = end /\ Ends(b, v, end)'
  <2>1. CASE /\ r \in DOMAIN mail /\ mail'[r].agr = mail[r].agr
             /\ mail'[r].version = mail[r].version /\ mail'[r].event = mail[r].event
    <3>1. mail[r].agr \in Agreements /\ mail[r].version \in Nat /\ 1 <= mail[r].version
      BY <2>1, About
    <3>2. PICK b \in Agreements, v \in Nat, end \in Ended :
            mail[r].agr = b /\ mail[r].version = v /\ mail[r].event = end
      BY <1>1, <2>1, <3>1
    <3>3. Ends(b, v, end)
      BY <1>1, <2>1, <3>1, <3>2 DEF Truth, Ends
    <3>. QED  BY <2>1, <3>2, <3>3
  <2>. QED  BY <1>1, <2>1
<1>2. ASSUME NEW r \in DOMAIN mail', mail'[r].event \in Ended
      PROVE  /\ mail'[r].version <= Version(mail[r].agr)'
             /\ StatusOf(mail[r].agr, mail[r].version)' = mail'[r].event
  <2>1. PICK b \in Agreements, v \in Nat, end \in Ended :
          mail'[r].agr = b /\ mail'[r].version = v /\ mail'[r].event = end /\ Ends(b, v, end)'
    BY <1>1, <1>2
  <2>. QED  BY <2>1 DEF Ends, Version, StatusOf
<1>. QED  BY <1>2 DEF Truth

LEMMA TruthStep ==
  ASSUME Typed, Truth, [Next]_vars
  PROVE  Truth'
<1>1. TypeOK /\ Lists
  BY DEF Typed
<1>2. ASSUME NEW a \in Agreements, Transition(a)
      PROVE  Truth'
  <2>1. PICK from \in SUBSET Stage, to \in Stage \cup {"COMPLETED", "REJECTED"},
             event \in NotificationEvent, parties \in SUBSET Party :
               Moves(a, from, to, event, parties) /\ (event \in Ended => event = to)
    BY <1>2, Transitions
  <2>2. /\ Enqueue(a, event, parties) /\ status[a] \in Stage
        /\ status' = [status EXCEPT ![a] = to] /\ closed' = closed
    BY <2>1 DEF Moves
  <2>v. PICK v \in Nat : v = Version(a) /\ 1 <= v
    BY <1>1, Versions
  <2>3. /\ \A r \in DOMAIN mail : mail'[r] = mail[r]
        /\ \A r \in DOMAIN mail' \ DOMAIN mail :
             mail'[r].agr = a /\ mail'[r].version = v /\ mail'[r].event = event
    BY <2>v, <2>2, <1>1, EnqueueRows
  <2>4. Ends(a, v, to)'
    <3>1. Version(a)' = Version(a) /\ StatusOf(a, Version(a))' = to
      BY <2>2, <1>1, Reached
    <3>2. Version(a)' = v /\ StatusOf(a, v)' = to
      BY <3>1, <2>v
    <3>. QED  BY <3>2, <2>v DEF Ends
  <2>5. ASSUME NEW b \in Agreements, NEW w \in Nat, NEW end \in Ended, Ends(b, w, end)
        PROVE  Ends(b, w, end)'
    BY <1>1, <2>2, <2>5, EndsReached
  <2>6. ASSUME NEW r \in DOMAIN mail' \ DOMAIN mail, mail'[r].event \in Ended
        PROVE  \E b \in Agreements : \E w \in Nat : \E end \in Ended :
                 mail'[r].agr = b /\ mail'[r].version = w /\ mail'[r].event = end /\ Ends(b, w, end)'
    BY <2>1, <2>3, <2>4, <2>6
  <2>7. \A r \in DOMAIN mail' :
          \/ /\ r \in DOMAIN mail /\ mail'[r].agr = mail[r].agr
             /\ mail'[r].version = mail[r].version /\ mail'[r].event = mail[r].event
          \/ mail'[r].event \notin Ended
          \/ \E b \in Agreements : \E w \in Nat : \E end \in Ended :
               mail'[r].agr = b /\ mail'[r].version = w /\ mail'[r].event = end /\ Ends(b, w, end)'
    BY <2>3, <2>6
  <2>. QED  BY <1>1, <2>5, <2>7, TruthKept
<1>3. ASSUME NEW a \in Agreements, Quiet(a)
      PROVE  Truth'
  <2>1. PICK to \in Stage \cup {"CANCELLED", "EXPIRED"} :
          status[a] \in {"DRAFT"} \cup Stage /\ status' = [status EXCEPT ![a] = to]
    BY <1>1, <1>3, Quiets
  <2>2. closed' = closed /\ mail' = mail
    BY <1>1, <1>3, Quiets
  <2>3. ASSUME NEW b \in Agreements, NEW w \in Nat, NEW end \in Ended, Ends(b, w, end)
        PROVE  Ends(b, w, end)'
    BY <1>1, <2>1, <2>2, <2>3, EndsReached
  <2>. QED  BY <1>1, <2>2, <2>3, TruthKept
<1>4. ASSUME NEW a \in Agreements, Correct(a)
      PROVE  Truth'
  <2>1. mail' = mail
    BY <1>4 DEF Correct, MailUnchanged
  <2>2. ASSUME NEW b \in Agreements, NEW w \in Nat, NEW end \in Ended, Ends(b, w, end)
        PROVE  Ends(b, w, end)'
    BY <1>1, <1>4, <2>2, EndsClosed
  <2>. QED  BY <1>1, <2>1, <2>2, TruthKept
<1>5. ASSUME UNCHANGED <<status, closed>>
      PROVE  \A b \in Agreements : \A v \in Nat : \A end \in Ended : Ends(b, v, end) => Ends(b, v, end)'
  BY <1>5 DEF Ends, Version, StatusOf
<1>6. ASSUME NEW p \in Passes, PassActs(p)
      PROVE  Truth'
  <2>1. status' = status /\ closed' = closed
    BY <1>6 DEF PassActs, PassStep, BeginPass, Send, RecordSent, AuditSent, RecordFailed, Stumble, Abandon
  <2>2. /\ DOMAIN mail' = DOMAIN mail
        /\ \A r \in DOMAIN mail : /\ mail'[r].agr = mail[r].agr /\ mail'[r].version = mail[r].version
                                  /\ mail'[r].event = mail[r].event
    <3>1. CASE UNCHANGED mail
      BY <3>1
    <3>2. CASE RecordSent(p)
      BY <3>2, <1>1, AtWork, Marked DEF RecordSent, At
    <3>3. CASE RecordFailed(p)
      BY <3>3, <1>1, AtWork, Marked DEF RecordFailed, At
    <3>. QED
      BY <3>1, <3>2, <3>3, <1>6
      DEF PassActs, PassStep, BeginPass, Send, AuditSent, Stumble, Abandon, MailUnchanged
  <2>. QED  BY <1>1, <1>5, <2>1, <2>2, TruthKept
<1>7. CASE AddRecipient
  <2>1. "REMINDER" \in NotificationEvent /\ {PendingRecipient(job.stage)} \in SUBSET Party
    BY DEF NotificationEvent, PendingRecipient, Party
  <2>2. /\ job.agr \in Agreements /\ Enqueue(job.agr, "REMINDER", {PendingRecipient(job.stage)})
        /\ status' = status /\ closed' = closed
    BY <1>1, <1>7 DEF AddRecipient, TypeOK, Idle
  <2>3. /\ \A r \in DOMAIN mail : mail'[r] = mail[r]
        /\ \A r \in DOMAIN mail' \ DOMAIN mail : mail'[r].event \notin Ended
    BY <2>1, <2>2, <1>1, EnqueueRows DEF Ended
  <2>. QED  BY <1>1, <1>5, <2>2, <2>3, TruthKept
<1>8. CASE UNCHANGED <<status, closed, mail>>
  BY <1>1, <1>5, <1>8, TruthKept
<1>. QED
  BY <1>2, <1>3, <1>4, <1>6, <1>7, <1>8, Acts
  DEF JobActs, BeginReminders, EndReminders, JobCrashes, Tick, Remind, MailUnchanged, vars

(* An old row stays what it is about, so that one mail stays one as long   *)
(* as no row is added about the same event.                                *)
LEMMA OneMailStays ==
  ASSUME NEW a, NEW v, NEW event, NEW party, OneMail(a, v, event, party),
         DOMAIN mail \subseteq DOMAIN mail',
         \A r \in DOMAIN mail :
           /\ mail'[r].agr = mail[r].agr /\ mail'[r].version = mail[r].version
           /\ mail'[r].event = mail[r].event /\ mail'[r].party = mail[r].party,
         \A r \in DOMAIN mail' \ DOMAIN mail :
           ~(mail'[r].agr = a /\ mail'[r].version = v /\ mail'[r].event = event)
  PROVE  OneMail(a, v, event, party)'
BY DEF OneMail

(* The first rows about an event: one for each recipient.                  *)
LEMMA OneMailQueued ==
  ASSUME TypeOK,
         NEW a \in Agreements, NEW event \in NotificationEvent, NEW parties \in SUBSET Party,
         Enqueue(a, event, parties), NEW v, v = Version(a),
         \A r \in DOMAIN mail : ~(mail[r].agr = a /\ mail[r].version = v /\ mail[r].event = event),
         NEW party \in Told(event, parties)
  PROVE  OneMail(a, v, event, party)'
<1>. DEFINE q == Queued(a, event, parties)
<1>0. OneForEach(q, Told(event, parties))
  BY QueuedRows
<1>1. PICK i \in 1..Len(q) : \A j \in 1..Len(q) : q[j].party = party <=> j = i
  BY <1>0 DEF OneForEach
<1>q. q \in Seq(Row) /\ AllAbout(q, a, Version(a), event)
  BY QueuedRows
<1>2. /\ q \in Seq(Row)
      /\ \A j \in 1..Len(q) : q[j].agr = a /\ q[j].version = v /\ q[j].event = event
  BY <1>q DEF AllAbout
<1>3. mail \in Seq(Row) /\ mail' = mail \o q
  BY DEF TypeOK, Enqueue
<1>. HIDE DEF q
<1>4. /\ Len(mail) \in Nat /\ Len(q) \in Nat
      /\ DOMAIN mail = 1..Len(mail) /\ DOMAIN mail' = 1..(Len(mail) + Len(q))
      /\ \A r \in 1..(Len(mail) + Len(q)) :
           mail'[r] = IF r <= Len(mail) THEN mail[r] ELSE q[r - Len(mail)]
  BY <1>2, <1>3, ConcatProperties
<1>5. Len(mail) + i \in DOMAIN mail'
  BY <1>4
<1>6. ASSUME NEW s \in DOMAIN mail'
      PROVE  /\ mail'[s].agr = a /\ mail'[s].version = v /\ mail'[s].event = event /\ mail'[s].party = party
               <=> s = Len(mail) + i
  <2>1. CASE s <= Len(mail)
    <3>1. s \in DOMAIN mail /\ mail'[s] = mail[s]
      BY <1>4, <1>6, <2>1
    <3>. QED  BY <1>4, <2>1, <3>1
  <2>2. CASE ~(s <= Len(mail))
    <3>1. s - Len(mail) \in 1..Len(q) /\ mail'[s] = q[s - Len(mail)]
      BY <1>4, <1>6, <2>2
    <3>2. s - Len(mail) = i <=> s = Len(mail) + i
      <4>1. s \in Int /\ i \in Int /\ Len(mail) \in Int
        BY <1>4, <1>6
      <4>. HIDE <1>6
      <4>. QED  BY <4>1
    <3>. QED  BY <1>1, <1>2, <3>1, <3>2
  <2>. QED  BY <2>1, <2>2
<1>. QED  BY <1>5, <1>6 DEF OneMail

(* Versions that ended stay told of as long as no other comes to end, and  *)
(* only reminders are added.                                               *)
LEMMA ToldKept ==
  ASSUME EndsTold,
         \A b \in Agreements : \A v \in 1..Version(b)' :
           \/ v \in 1..Version(b) /\ StatusOf(b, v)' = StatusOf(b, v)
           \/ StatusOf(b, v)' \notin {"COMPLETED", "REJECTED"},
         DOMAIN mail \subseteq DOMAIN mail',
         \A r \in DOMAIN mail : /\ mail'[r].agr = mail[r].agr /\ mail'[r].version = mail[r].version
                                /\ mail'[r].event = mail[r].event /\ mail'[r].party = mail[r].party,
         \A r \in DOMAIN mail' \ DOMAIN mail : mail'[r].event = "REMINDER"
  PROVE  EndsTold'
<1>1. ASSUME NEW b \in Agreements, NEW v, NEW end \in {"COMPLETED", "REJECTED"}, NEW party,
             OneMail(b, v, end, party)
      PROVE  OneMail(b, v, end, party)'
  BY <1>1, OneMailStays
<1>2. SUFFICES ASSUME NEW b \in Agreements, NEW v \in 1..Version(b)'
               PROVE  /\ StatusOf(b, v)' = "COMPLETED" =>
                           \A party \in Told("COMPLETED", Party) : OneMail(b, v, "COMPLETED", party)'
                      /\ StatusOf(b, v)' = "REJECTED" =>
                           \A party \in Told("REJECTED", {"AGENT"}) : OneMail(b, v, "REJECTED", party)'
  BY DEF EndsTold, Told
<1>3. CASE v \in 1..Version(b) /\ StatusOf(b, v)' = StatusOf(b, v)
  BY <1>1, <1>3 DEF EndsTold
<1>4. CASE StatusOf(b, v)' \notin {"COMPLETED", "REJECTED"}
  BY <1>4
<1>. QED  BY <1>3, <1>4

(* That nobody is told of an end before it is reached (Truth) is why the   *)
(* rows queued with it are the only ones about it.                         *)
LEMMA ToldStep ==
  ASSUME Typed, Truth, EndsTold, [Next]_vars
  PROVE  EndsTold'
<1>1. TypeOK /\ Lists
  BY DEF Typed
<1>2. ASSUME NEW a \in Agreements, Transition(a)
      PROVE  EndsTold'
  <2>1. PICK from \in SUBSET Stage, to \in Stage \cup {"COMPLETED", "REJECTED"},
             event \in NotificationEvent, parties \in SUBSET Party :
               /\ Moves(a, from, to, event, parties)
               /\ to = "COMPLETED" => event = to /\ parties = Party
               /\ to = "REJECTED"  => event = to /\ parties = {"AGENT"}
    BY <1>2, Transitions
  <2>2. /\ Enqueue(a, event, parties) /\ status[a] \in Stage
        /\ status' = [status EXCEPT ![a] = to] /\ closed' = closed
    BY <2>1 DEF Moves
  <2>v. PICK v \in Nat : v = Version(a)
    BY <1>1, Versions
  <2>3. /\ DOMAIN mail \subseteq DOMAIN mail'
        /\ \A r \in DOMAIN mail : mail'[r] = mail[r]
        /\ \A r \in DOMAIN mail' \ DOMAIN mail : mail'[r].agr = a /\ mail'[r].version = v
    BY <2>v, <2>2, <1>1, EnqueueRows
  <2>4. ASSUME to \in {"COMPLETED", "REJECTED"}, NEW party \in Told(to, parties)
        PROVE  OneMail(a, v, to, party)'
    <3>1. event = to /\ event \in Ended
      BY <2>1, <2>4 DEF Ended
    <3>2. \A r \in DOMAIN mail : ~(mail[r].agr = a /\ mail[r].version = v /\ mail[r].event = event)
      <4>1. ASSUME NEW row \in DOMAIN mail, mail[row].agr = a, mail[row].version = v, mail[row].event = event
            PROVE  FALSE
        <5>1. Ends(a, v, event)
          BY <1>1, <3>1, <4>1, About DEF Truth, Ends
        <5>2. event \in Ended
          BY <3>1
        <5>3. ~(a = a /\ v = Version(a))
          BY <1>1, <2>2, <5>1, <5>2, EndsReached
        <5>. QED  BY <5>3, <2>v
      <4>. QED  BY <4>1
    <3>3. OneMail(a, v, event, party)'
      BY <1>1, <2>v, <2>2, <2>4, <3>1, <3>2, OneMailQueued
    <3>. QED  BY <3>1, <3>3
  <2>5. /\ Version(a)' = v
        /\ StatusOf(a, v)' = to
        /\ \A b \in Agreements : Version(b)' = Version(b)
        /\ \A b \in Agreements : \A w \in Nat :
             b # a \/ (1 <= w /\ w < v) => StatusOf(b, w)' = StatusOf(b, w)
    <3>2. StatusOf(a, v)' = to
      <4>1. StatusOf(a, Version(a))' = to /\ Version(a)' = Version(a)
        BY <1>1, <2>2, Reached
      <4>. QED  BY <4>1, <2>v
    <3>3. \A b \in Agreements : Version(b)' = Version(b)
      BY <1>1, <2>2, Reached
    <3>4. \A b \in Agreements : \A w \in Nat :
            b # a \/ (1 <= w /\ w < Version(a)) => StatusOf(b, w)' = StatusOf(b, w)
      BY <1>1, <2>2, Reached
    <3>. QED  BY <2>v, <3>2, <3>3, <3>4
  <2>6. ASSUME NEW b \in Agreements, NEW w, b # a \/ w # v, NEW end, NEW party, OneMail(b, w, end, party)
        PROVE  OneMail(b, w, end, party)'
    BY <2>3, <2>6, OneMailStays
  <2>7. ASSUME NEW b \in Agreements, NEW w \in 1..Version(b)'
        PROVE  /\ StatusOf(b, w)' = "COMPLETED" =>
                    \A party \in Told("COMPLETED", Party) : OneMail(b, w, "COMPLETED", party)'
               /\ StatusOf(b, w)' = "REJECTED" =>
                    \A party \in Told("REJECTED", {"AGENT"}) : OneMail(b, w, "REJECTED", party)'
    <3>0. Version(b) \in Nat /\ w \in 1..Version(b) /\ w \in Nat
      BY <1>1, <2>5, <2>7, Versions
    <3>1. CASE b = a /\ w = v
      <4>1. StatusOf(b, w)' = to
        BY <2>5, <3>1
      <4>. QED  BY <2>1, <2>4, <3>1, <4>1
    <3>2. CASE b # a \/ w # v
      <4>1. b # a \/ (1 <= w /\ w < v)
        BY <2>v, <3>0, <3>2
      <4>2. StatusOf(b, w)' = StatusOf(b, w)
        BY <2>5, <3>0, <4>1
      <4>3. /\ StatusOf(b, w) = "COMPLETED" =>
                 \A party \in Told("COMPLETED", Party) : OneMail(b, w, "COMPLETED", party)
            /\ StatusOf(b, w) = "REJECTED" =>
                 \A party \in Told("REJECTED", {"AGENT"}) : OneMail(b, w, "REJECTED", party)
        BY <3>0 DEF EndsTold
      <4>. QED  BY <2>6, <3>2, <4>2, <4>3
    <3>. QED  BY <3>1, <3>2
  <2>. QED  BY <2>7 DEF EndsTold, Told
<1>3. ASSUME NEW a \in Agreements, Quiet(a)
      PROVE  EndsTold'
  <2>1. PICK to \in Stage \cup {"CANCELLED", "EXPIRED"} : status' = [status EXCEPT ![a] = to]
    BY <1>1, <1>3, Quiets
  <2>2. closed' = closed /\ mail' = mail
    BY <1>1, <1>3, Quiets
  <2>v. PICK v \in Nat : v = Version(a)
    BY <1>1, Versions
  <2>3. ASSUME NEW b \in Agreements, NEW w \in 1..Version(b)'
        PROVE  \/ w \in 1..Version(b) /\ StatusOf(b, w)' = StatusOf(b, w)
               \/ StatusOf(b, w)' \notin {"COMPLETED", "REJECTED"}
    <3>0. Version(b)' = Version(b) /\ Version(b) \in Nat /\ w \in 1..Version(b) /\ w \in Nat
      <4>1. Version(b)' = Version(b)
        BY <1>1, <2>1, <2>2, Reached
      <4>2. Version(b) \in Nat
        BY <1>1, Versions
      <4>. QED  BY <2>3, <4>1, <4>2
    <3>1. CASE b = a /\ w = v
      <4>1. StatusOf(a, Version(a))' = to /\ Version(a)' = Version(a)
        BY <1>1, <2>1, <2>2, Reached
      <4>2. StatusOf(b, w)' = to
        BY <2>v, <3>1, <4>1
      <4>. QED  BY <4>2 DEF Stage
    <3>2. CASE b # a \/ w # v
      <4>1. b # a \/ (1 <= w /\ w < Version(a))
        BY <2>v, <3>0, <3>2
      <4>2. \A c \in Agreements : \A u \in Nat :
              c # a \/ (1 <= u /\ u < Version(a)) => StatusOf(c, u)' = StatusOf(c, u)
        BY <1>1, <2>1, <2>2, Reached
      <4>. QED  BY <3>0, <4>1, <4>2
    <3>. QED  BY <3>1, <3>2
  <2>. QED  BY <2>2, <2>3, ToldKept
<1>4. ASSUME NEW a \in Agreements, Correct(a)
      PROVE  EndsTold'
  <2>1. mail' = mail
    BY <1>4 DEF Correct, MailUnchanged
  <2>2. ASSUME NEW b \in Agreements, NEW w \in 1..Version(b)'
        PROVE  \/ w \in 1..Version(b) /\ StatusOf(b, w)' = StatusOf(b, w)
               \/ StatusOf(b, w)' \notin {"COMPLETED", "REJECTED"}
    <3>1. CASE w \in 1..Version(b)
      BY <1>1, <1>4, <3>1, Closing
    <3>2. CASE w \notin 1..Version(b)
      <4>1. b = a
        BY <1>1, <1>4, <2>2, <3>2, Closing
      <4>2. Version(a) \in Nat /\ Version(a)' = Version(a) + 1
        BY <1>1, <1>4, Closing
      <4>3. w \in Nat /\ w = Version(a) + 1
        BY <2>2, <3>2, <4>1, <4>2
      <4>. QED  BY <1>1, <1>4, <4>1, <4>3, Closing
    <3>. QED  BY <3>1, <3>2
  <2>. QED  BY <2>1, <2>2, ToldKept
<1>5. ASSUME UNCHANGED <<status, closed>>,
             DOMAIN mail \subseteq DOMAIN mail',
             \A r \in DOMAIN mail : /\ mail'[r].agr = mail[r].agr /\ mail'[r].version = mail[r].version
                                    /\ mail'[r].event = mail[r].event /\ mail'[r].party = mail[r].party,
             \A r \in DOMAIN mail' \ DOMAIN mail : mail'[r].event = "REMINDER"
      PROVE  EndsTold'
  <2>1. \A b \in Agreements : \A w \in 1..Version(b)' : w \in 1..Version(b) /\ StatusOf(b, w)' = StatusOf(b, w)
    BY <1>5 DEF Version, StatusOf
  <2>. QED  BY <1>5, <2>1, ToldKept
<1>6. ASSUME NEW p \in Passes, PassActs(p)
      PROVE  EndsTold'
  <2>1. status' = status /\ closed' = closed
    BY <1>6 DEF PassActs, PassStep, BeginPass, Send, RecordSent, AuditSent, RecordFailed, Stumble, Abandon
  <2>2. /\ DOMAIN mail' = DOMAIN mail
        /\ \A r \in DOMAIN mail : /\ mail'[r].agr = mail[r].agr /\ mail'[r].version = mail[r].version
                                  /\ mail'[r].event = mail[r].event /\ mail'[r].party = mail[r].party
    <3>1. CASE UNCHANGED mail
      BY <3>1
    <3>2. CASE RecordSent(p)
      BY <3>2, <1>1, AtWork, Marked DEF RecordSent, At
    <3>3. CASE RecordFailed(p)
      BY <3>3, <1>1, AtWork, Marked DEF RecordFailed, At
    <3>. QED
      BY <3>1, <3>2, <3>3, <1>6
      DEF PassActs, PassStep, BeginPass, Send, AuditSent, Stumble, Abandon, MailUnchanged
  <2>. QED  BY <1>5, <2>1, <2>2
<1>7. CASE AddRecipient
  <2>1. "REMINDER" \in NotificationEvent /\ {PendingRecipient(job.stage)} \in SUBSET Party
    BY DEF NotificationEvent, PendingRecipient, Party
  <2>2. /\ job.agr \in Agreements /\ Enqueue(job.agr, "REMINDER", {PendingRecipient(job.stage)})
        /\ status' = status /\ closed' = closed
    BY <1>1, <1>7 DEF AddRecipient, TypeOK, Idle
  <2>3. /\ DOMAIN mail \subseteq DOMAIN mail'
        /\ \A r \in DOMAIN mail : mail'[r] = mail[r]
        /\ \A r \in DOMAIN mail' \ DOMAIN mail : mail'[r].event = "REMINDER"
    BY <2>1, <2>2, <1>1, EnqueueRows
  <2>. QED  BY <1>5, <2>2, <2>3
<1>8. CASE UNCHANGED <<status, closed, mail>>
  BY <1>5, <1>8
<1>. QED
  BY <1>2, <1>3, <1>4, <1>6, <1>7, <1>8, Acts
  DEF JobActs, BeginReminders, EndReminders, JobCrashes, Tick, Remind, MailUnchanged, vars

(* For any agreements, passes, rows, versions and interruptions: a mail    *)
(* that says an agreement is complete is true, one that says it was        *)
(* rejected is true of the version it was queued for, and every version    *)
(* that ends so has one such mail queued to each recipient (finalize and   *)
(* reject enqueue in the transaction that moves the status).               *)
THEOREM MailsAreTrue == Spec => []MailsTellTheTruth
<1>1. Init => Truth /\ EndsTold
  <2>. SUFFICES ASSUME Init PROVE Truth /\ EndsTold
    OBVIOUS
  <2>1. mail = <<>> /\ \A a \in Agreements : status[a] = "DRAFT" /\ closed[a] = <<>>
    BY DEF Init
  <2>2. \A a \in Agreements : \A v \in 1..Version(a) : StatusOf(a, v) = "DRAFT"
    BY <2>1 DEF StatusOf
  <2>. QED  BY <2>1, <2>2 DEF Truth, EndsTold
<1>2. Typed /\ Truth /\ EndsTold /\ [Next]_vars => Truth' /\ EndsTold'
  BY TruthStep, ToldStep
<1>3. Typed /\ Truth /\ EndsTold => MailsTellTheTruth
  <2>. SUFFICES ASSUME Typed, Truth, EndsTold, NEW r \in DOMAIN mail
                PROVE  /\ mail[r].event = "COMPLETED" => status[mail[r].agr] = "COMPLETED"
                       /\ mail[r].event = "REJECTED" => StatusOf(mail[r].agr, mail[r].version) = "REJECTED"
    BY DEF MailsTellTheTruth
  <2>1. ASSUME mail[r].event \in {"COMPLETED", "REJECTED"}
        PROVE  StatusOf(mail[r].agr, mail[r].version) = mail[r].event
    BY <2>1 DEF Truth, Ended
  <2>2. \A a \in Agreements : \A v \in DOMAIN closed[a] : closed[a][v] # "COMPLETED"
    <3>. SUFFICES ASSUME NEW a \in Agreements, NEW v \in DOMAIN closed[a] PROVE closed[a][v] # "COMPLETED"
      OBVIOUS
    <3>1. closed[a] \in Seq(Correctable)
      BY Versions DEF Typed
    <3>2. closed[a][v] \in Correctable
      BY <3>1
    <3>. QED  BY <3>2 DEF Correctable
  <2>3. mail[r].agr \in Agreements
    BY About DEF Typed
  <2>. QED  BY <2>1, <2>2, <2>3 DEF StatusOf
<1>. QED  BY <1>1, <1>2, <1>3, TypedAlways, PTL DEF Spec

-----------------------------------------------------------------------------
(* One reminder a day.                                                     *)

LEMMA RemindersStep ==
  ASSUME TypeOK, Reminders, [Next]_vars
  PROVE  Reminders'
<1>1. slot \in Nat /\ reminders \in [Agreements -> SUBSET Nat]
  BY BoundsAssumption DEF TypeOK
<1>2. CASE UNCHANGED <<reminders, slot>>
  BY <1>2 DEF Reminders
<1>3. ASSUME NEW a \in Agreements, NEW stage \in Stage, Remind(a, stage)
      PROVE  Reminders'
  <2>1. slot' = slot
    BY <1>3 DEF Remind
  <2>2. CASE UNCHANGED reminders
    BY <2>1, <2>2 DEF Reminders
  <2>3. CASE ~Already(a) /\ reminders' = [reminders EXCEPT ![a] = @ \cup {slot}]
    <3>1. \A t \in reminders[a] : t + SlotsPerDay <= slot
      BY <1>1, <2>3 DEF Already, SlotsPerDay
    <3>2. reminders'[a] = reminders[a] \cup {slot} /\ \A b \in Agreements \ {a} : reminders'[b] = reminders[b]
      BY <1>1, <2>3
    <3>. QED  BY <1>1, <2>1, <3>1, <3>2 DEF Reminders, SlotsPerDay
  <2>. QED  BY <1>3, <2>2, <2>3 DEF Remind
<1>4. CASE Tick
  <2>1. slot' = slot + 1 /\ reminders' = reminders
    BY <1>4 DEF Tick
  <2>. QED  BY <1>1, <2>1 DEF Reminders
<1>5. CASE BeginReminders \/ AddRecipient \/ EndReminders \/ JobCrashes
  BY <1>5, <1>2 DEF BeginReminders, AddRecipient, EndReminders, JobCrashes
<1>6. ASSUME NEW a \in Agreements, Transition(a) \/ Quiet(a) \/ Correct(a)
      PROVE  UNCHANGED <<reminders, slot>>
  BY <1>6
  DEF Transition, AgentSigned, EmployeeSigned, Reject, Finalize, Moves,
      Quiet, Generate, Cancel, Expire, Quietly, Correct, Elsewhere
<1>7. ASSUME NEW p \in Passes, PassActs(p)
      PROVE  UNCHANGED <<reminders, slot>>
  BY <1>7 DEF PassActs, PassStep, BeginPass, Send, RecordSent, AuditSent, RecordFailed, Stumble, Abandon
<1>8. CASE UNCHANGED vars
  BY <1>8, <1>2 DEF vars
<1>. QED  BY <1>2, <1>3, <1>4, <1>5, <1>6, <1>7, <1>8, Acts DEF JobActs

(* sendDueReminders: one reminder per day per agreement, however often the *)
(* sweep runs and wherever it is cut off.                                  *)
THEOREM OneReminder == Spec => []OneReminderPerDay
<1>1. Init => Reminders
  BY DEF Init, Reminders
<1>2. TypeOK /\ Reminders /\ [Next]_vars => Reminders'
  BY RemindersStep
<1>3. TypeOK /\ Reminders => OneReminderPerDay
  <2>. SUFFICES ASSUME TypeOK, Reminders, NEW a \in Agreements, NEW s \in reminders[a], NEW t \in reminders[a],
                       Day(s) = Day(t)
                PROVE  s = t
    BY DEF OneReminderPerDay
  <2>1. s \in Nat /\ t \in Nat
    BY BoundsAssumption DEF TypeOK
  <2>2. s = t \/ s + SlotsPerDay <= t \/ t + SlotsPerDay <= s
    BY DEF Reminders
  <2>. QED  BY <2>1, <2>2 DEF Day, SlotsPerDay
<1>. QED  BY <1>1, <1>2, <1>3, TypeCorrect, PTL DEF Spec

-----------------------------------------------------------------------------
(* Mails that go out twice.                                                *)

(* What an agreement's own steps and the reminder job do to the outbox:    *)
(* nothing, or new rows, QUEUED and never sent.                            *)
Added ==
  /\ DOMAIN mail \subseteq DOMAIN mail'
  /\ \A r \in DOMAIN mail : mail'[r] = mail[r] /\ delivered'[r] = delivered[r]
  /\ \A r \in DOMAIN mail' \ DOMAIN mail : delivered'[r] = 0

LEMMA AddedOnly ==
  ASSUME Typed,
         \/ \E a \in Agreements : Transition(a) \/ Quiet(a) \/ Correct(a)
         \/ JobActs
  PROVE  Added /\ UNCHANGED <<pass, excused>>
<1>1. TypeOK
  BY DEF Typed
<1>2. ASSUME NEW a \in Agreements, Transition(a)
      PROVE  Added /\ UNCHANGED <<pass, excused>>
  <2>1. PICK from \in SUBSET Stage, to \in Stage \cup {"COMPLETED", "REJECTED"},
             event \in NotificationEvent, parties \in SUBSET Party :
               Moves(a, from, to, event, parties)
    BY <1>2, Transitions
  <2>2. Enqueue(a, event, parties) /\ Elsewhere
    BY <2>1 DEF Moves
  <2>3. Added
    BY <1>1, <2>2, EnqueueRows DEF Added
  <2>. QED  BY <2>2, <2>3 DEF Elsewhere
<1>3. CASE AddRecipient
  <2>1. "REMINDER" \in NotificationEvent /\ {PendingRecipient(job.stage)} \in SUBSET Party
    BY DEF NotificationEvent, PendingRecipient, Party
  <2>2. job.agr \in Agreements /\ Enqueue(job.agr, "REMINDER", {PendingRecipient(job.stage)})
    BY <1>1, <1>3 DEF AddRecipient, TypeOK, Idle
  <2>3. Added
    BY <2>1, <2>2, <1>1, EnqueueRows DEF Added
  <2>. QED  BY <1>3, <2>3 DEF AddRecipient
<1>4. CASE UNCHANGED <<mail, delivered, pass, excused>>
  BY <1>4 DEF Added
<1>. QED
  BY <1>2, <1>3, <1>4
  DEF Quiet, Generate, Cancel, Expire, Quietly, Correct, Elsewhere, JobActs, BeginReminders, EndReminders, JobCrashes, Tick, Remind, MailUnchanged

LEMMA OnceAdded ==
  ASSUME Typed, Deliveries, Added, UNCHANGED <<pass, excused>>
  PROVE  Deliveries'
<1>1. TypeOK /\ Lists
  BY DEF Typed
<1>2. \A q \in Passes : RowsOf(q)' = RowsOf(q) /\ Item(q)' = Item(q) /\ pass'[q] = pass[q]
  BY DEF RowsOf, Item
<1>3. ASSUME NEW r \in DOMAIN mail \ excused
      PROVE  Once(r)'
  <2>1. Once(r) /\ mail'[r] = mail[r] /\ delivered'[r] = delivered[r]
    BY DEF Deliveries, Added
  <2>. QED  BY <2>1, <1>2 DEF Once, Alone, Sending, Recorded, At
<1>4. ASSUME NEW r \in DOMAIN mail' \ DOMAIN mail
      PROVE  Once(r)'
  <2>1. delivered'[r] = 0
    BY DEF Added
  <2>2. ASSUME NEW q \in Passes PROVE r \notin RowsOf(q) /\ ~Recorded(q, r)
    <3>1. RowsOf(q) \subseteq DOMAIN mail
      BY <1>1 DEF Lists, RowsOf
    <3>2. Recorded(q, r) => r \in RowsOf(q)
      BY <1>1, AtWork DEF Recorded, At
    <3>. QED  BY <3>1, <3>2
  <2>. QED  BY <2>1, <2>2, <1>2 DEF Once, Alone, Recorded, At
<1>. QED  BY <1>3, <1>4 DEF Deliveries

(* A step of a pass: what holds of the row of an unexcused mail holds      *)
(* after it.                                                               *)
LEMMA OnceBegun ==
  ASSUME Typed, NEW p \in Passes, BeginPass(p), NEW r \in DOMAIN mail \ excused', Once(r)
  PROVE  Once(r)'
<1>1. TypeOK /\ Lists
  BY DEF Typed
<1>2. /\ pass[p] = Idle /\ ToSend # {}
      /\ pass' = [pass EXCEPT ![p] = [pc |-> "send", list |-> ToSend]]
      /\ excused' = excused \cup (Rows(ToSend) \cap UNION {RowsOf(q) : q \in Passes})
      /\ mail' = mail /\ delivered' = delivered
  BY DEF BeginPass, MailUnchanged
<1>3. pass \in [Passes -> PassType]
  BY <1>1 DEF TypeOK, PassType
<1>4. pass'[p] = [pc |-> "send", list |-> ToSend] /\ \A q \in Passes \ {p} : pass'[q] = pass[q]
  BY <1>2, <1>3
<1>5. /\ RowsOf(p)' = Rows(ToSend) /\ ~Recorded(p, r)'
      /\ RowsOf(p) = {} /\ ~Sending(p, r) /\ ~Recorded(p, r)
      /\ \A q \in Passes \ {p} :
           /\ RowsOf(q)' = RowsOf(q) /\ Item(q)' = Item(q)
           /\ Sending(q, r)' = Sending(q, r) /\ Recorded(q, r)' = Recorded(q, r)
  BY <1>2, <1>4 DEF RowsOf, Item, Sending, Recorded, At, Idle
<1>6. CASE r \in Rows(ToSend)
  <2>1. \A q \in Passes : r \notin RowsOf(q)
    BY <1>2, <1>6
  <2>2. mail[r].status # "SENT"
    BY <1>1, <1>6, ToSendRows
  <2>3. \A q \in Passes : ~Sending(q, r) /\ ~Recorded(q, r)
    BY <1>1, <2>1, AtWork DEF Sending, Recorded, At
  <2>4. delivered[r] \in Nat
    BY <1>1 DEF TypeOK
  <2>5. delivered[r] = 0
    BY <2>2, <2>3, <2>4 DEF Once
  <2>. QED  BY <1>2, <1>5, <2>1, <2>3, <2>5 DEF Once, Alone
<1>7. CASE r \notin Rows(ToSend)
  BY <1>2, <1>5, <1>7 DEF Once, Alone
<1>. QED  BY <1>6, <1>7

LEMMA OnceGone ==
  ASSUME Typed, NEW p \in Passes, pass[p] # Idle,
         Send(p) \/ RecordSent(p) \/ Stumble(p),
         NEW r \in DOMAIN mail \ excused', Once(r)
  PROVE  Once(r)'
<1>1. TypeOK /\ Lists
  BY DEF Typed
<1>2. PICK pc \in {"send", "sent", "recorded", "refused"} : Goto(p, pc)
  BY DEF Send, RecordSent, Stumble
<1>3. /\ pass'[p].pc = pc
      /\ \A q \in Passes \ {p} : pass'[q] = pass[q]
      /\ \A q \in Passes : RowsOf(q)' = RowsOf(q) /\ Item(q)' = Item(q)
  BY <1>1, <1>2, Gone
<1>4. Item(p).row \in RowsOf(p)
  BY <1>1, AtWork
<1>5. \A q \in Passes \ {p} : Sending(q, r)' = Sending(q, r) /\ Recorded(q, r)' = Recorded(q, r)
  BY <1>3 DEF Sending, Recorded, At
<1>6. \A q \in Passes : Sending(q, r) \/ Recorded(q, r) => r \in RowsOf(q)
  BY <1>1, AtWork DEF Sending, Recorded, At
<1>7. Alone(r)'
  BY <1>3 DEF Once, Alone
<1>8. CASE r # Item(p).row
  <2>1. ~Sending(p, r) /\ ~Recorded(p, r) /\ ~Sending(p, r)' /\ ~Recorded(p, r)'
    BY <1>3, <1>8 DEF Sending, Recorded
  <2>2. delivered'[r] = delivered[r]
    BY <1>1, <1>8 DEF Send, RecordSent, Stumble, MailUnchanged, TypeOK
  <2>3. mail'[r] = mail[r]
    <3>1. CASE RecordSent(p)
      BY <3>1, <1>1, <1>8, Marked DEF RecordSent
    <3>. QED  BY <3>1 DEF Send, Stumble, MailUnchanged
  <2>. QED  BY <2>1, <2>2, <2>3, <1>3, <1>5, <1>7 DEF Once
<1>9. CASE r = Item(p).row
  <2>1. \A q \in Passes \ {p} : r \notin RowsOf(q) /\ ~Sending(q, r) /\ ~Recorded(q, r)
    BY <1>4, <1>6, <1>9 DEF Once, Alone
  <2>2. r \in DOMAIN delivered /\ delivered[r] \in Nat /\ delivered \in Seq(Nat)
    BY <1>1 DEF TypeOK
  <2>3. CASE Send(p)
    <3>1. At(p, "send") /\ mail' = mail
      BY <2>3 DEF Send
    <3>2. ~Sending(p, r) /\ ~Recorded(p, r)
      BY <3>1 DEF Sending, Recorded, At
    <3>3. delivered[r] = 0
      BY <1>4, <1>9, <2>2, <3>2 DEF Once
    <3>4. CASE pass'[p].pc = "sent" /\ delivered'[r] = 1
      <4>1. Sending(p, r)' /\ ~Recorded(p, r)'
        BY <3>4, <1>3, <1>9 DEF Sending, Recorded, At
      <4>. QED  BY <3>1, <3>4, <4>1, <1>3, <1>5, <1>7, <2>1 DEF Once
    <3>5. CASE pass'[p].pc = "refused" /\ delivered'[r] = 0
      <4>1. ~Recorded(p, r)'
        BY <3>5 DEF Recorded, At
      <4>. QED  BY <3>5, <4>1, <1>5, <1>7, <2>1 DEF Once
    <3>6. Goto(p, "sent") /\ delivered' = [delivered EXCEPT ![r] = @ + 1] => pass'[p].pc = "sent" /\ delivered'[r] = 1
      BY <1>1, <2>2, <3>3, Gone
    <3>7. Goto(p, "refused") /\ UNCHANGED delivered => pass'[p].pc = "refused" /\ delivered'[r] = 0
      BY <1>1, <3>3, Gone
    <3>. QED  BY <2>3, <3>4, <3>5, <3>6, <3>7, <1>9 DEF Send
  <2>4. CASE RecordSent(p)
    <3>1. At(p, "sent") /\ Mark(p, "SENT") /\ Goto(p, "recorded") /\ delivered' = delivered
      BY <2>4 DEF RecordSent
    <3>2. pass'[p].pc = "recorded"
      BY <3>1, <1>1, Gone
    <3>3. mail'[r].status = "SENT"
      BY <3>1, <1>1, <1>9, Marked
    <3>4. Recorded(p, r)'
      BY <3>2, <1>3, <1>9 DEF Recorded, At
    <3>. QED  BY <3>1, <3>3, <3>4, <1>3, <1>5, <1>7, <2>1 DEF Once
  <2>5. CASE Stumble(p)
    BY <2>5, <1>9 DEF Stumble
  <2>. QED  BY <2>3, <2>4, <2>5
<1>. QED  BY <1>8, <1>9

LEMMA OnceTaken ==
  ASSUME Typed, NEW p \in Passes, pass[p] # Idle,
         AuditSent(p) \/ RecordFailed(p),
         NEW r \in DOMAIN mail \ excused', Once(r)
  PROVE  Once(r)'
<1>1. TypeOK /\ Lists
  BY DEF Typed
<1>2. NextRow(p) /\ delivered' = delivered
  BY DEF AuditSent, RecordFailed, MailUnchanged
<1>3. /\ pass'[p].pc \in {"idle", "send"}
      /\ RowsOf(p)' = RowsOf(p) \ {Item(p).row}
      /\ \A q \in Passes \ {p} : pass'[q] = pass[q] /\ RowsOf(q)' = RowsOf(q) /\ Item(q)' = Item(q)
  BY <1>1, <1>2, NextTaken
<1>4. Item(p).row \in RowsOf(p)
  BY <1>1, AtWork
<1>5. ~Sending(p, r)' /\ ~Recorded(p, r)' /\ ~Sending(p, r)
  BY <1>3 DEF Sending, Recorded, At, AuditSent, RecordFailed
<1>6. \A q \in Passes \ {p} : Sending(q, r)' = Sending(q, r) /\ Recorded(q, r)' = Recorded(q, r)
  BY <1>3 DEF Sending, Recorded, At
<1>7. \A q \in Passes : Sending(q, r) \/ Recorded(q, r) => r \in RowsOf(q)
  BY <1>1, AtWork DEF Sending, Recorded, At
<1>8. Alone(r)'
  BY <1>3 DEF Once, Alone
<1>9. CASE r # Item(p).row
  <2>1. mail'[r] = mail[r]
    <3>1. CASE RecordFailed(p)
      BY <3>1, <1>1, <1>9, Marked DEF RecordFailed
    <3>. QED  BY <3>1 DEF AuditSent, MailUnchanged
  <2>2. ~Recorded(p, r)
    BY <1>9 DEF Recorded
  <2>. QED  BY <2>1, <2>2, <1>2, <1>3, <1>5, <1>6, <1>8 DEF Once
<1>10. CASE r = Item(p).row
  <2>1. \A q \in Passes \ {p} : r \notin RowsOf(q) /\ ~Sending(q, r) /\ ~Recorded(q, r)
    BY <1>4, <1>7, <1>10 DEF Once, Alone
  <2>2. CASE AuditSent(p)
    <3>1. mail' = mail /\ Recorded(p, r)
      BY <2>2, <1>10 DEF AuditSent, MailUnchanged, Recorded
    <3>. QED  BY <3>1, <2>1, <1>2, <1>3, <1>5, <1>6, <1>8, <1>10 DEF Once
  <2>3. CASE RecordFailed(p)
    <3>1. ~Recorded(p, r)
      BY <2>3 DEF RecordFailed, Recorded, At
    <3>2. delivered[r] \in Nat
      BY <1>1 DEF TypeOK
    <3>3. delivered[r] = 0
      BY <3>1, <3>2, <1>4, <1>5, <1>10 DEF Once
    <3>. QED  BY <3>3, <2>1, <1>2, <1>3, <1>5, <1>6, <1>8, <1>10 DEF Once
  <2>. QED  BY <2>2, <2>3
<1>. QED  BY <1>9, <1>10

LEMMA OnceAbandoned ==
  ASSUME Typed, NEW p \in Passes, Abandon(p), NEW r \in DOMAIN mail \ excused', Once(r)
  PROVE  Once(r)'
<1>1. TypeOK /\ Lists
  BY DEF Typed
<1>2. /\ pass' = [pass EXCEPT ![p] = Idle] /\ mail' = mail /\ delivered' = delivered
      /\ At(p, "sent") => r # Item(p).row
  BY DEF Abandon, MailUnchanged
<1>3. pass \in [Passes -> PassType]
  BY <1>1 DEF TypeOK, PassType
<1>4. pass'[p] = Idle /\ \A q \in Passes \ {p} : pass'[q] = pass[q]
  BY <1>2, <1>3
<1>5. /\ RowsOf(p)' = {} /\ ~Sending(p, r)' /\ ~Recorded(p, r)'
      /\ \A q \in Passes \ {p} :
           /\ RowsOf(q)' = RowsOf(q)
           /\ Sending(q, r)' = Sending(q, r) /\ Recorded(q, r)' = Recorded(q, r)
  BY <1>4 DEF RowsOf, Item, Sending, Recorded, At, Idle
<1>6. ~Sending(p, r)
  BY <1>2 DEF Sending
<1>. QED  BY <1>2, <1>5, <1>6 DEF Once, Alone

LEMMA DeliveriesStep ==
  ASSUME Typed, Deliveries, [Next]_vars
  PROVE  Deliveries'
<1>1. CASE UNCHANGED vars
  BY <1>1, OnceAdded DEF vars, Added
<1>2. CASE (\E a \in Agreements : Transition(a) \/ Quiet(a) \/ Correct(a)) \/ JobActs
  BY <1>2, AddedOnly, OnceAdded
<1>3. ASSUME NEW p \in Passes, PassActs(p)
      PROVE  Deliveries'
  <2>1. excused \subseteq excused'
    BY <1>3 DEF PassActs, PassStep, BeginPass, Send, RecordSent, AuditSent, RecordFailed, Stumble, Abandon
  <2>2. DOMAIN mail' = DOMAIN mail
    <3>1. CASE UNCHANGED mail
      BY <3>1
    <3>2. CASE RecordSent(p)
      BY <3>2, AtWork, Marked DEF RecordSent, At, Typed
    <3>3. CASE RecordFailed(p)
      BY <3>3, AtWork, Marked DEF RecordFailed, At, Typed
    <3>. QED
      BY <3>1, <3>2, <3>3, <1>3
      DEF PassActs, PassStep, BeginPass, Send, AuditSent, Stumble, Abandon, MailUnchanged
  <2>3. ASSUME NEW r \in DOMAIN mail \ excused'
        PROVE  Once(r)'
    <3>1. Once(r)
      BY <2>1 DEF Deliveries
    <3>2. PassStep(p) \/ Stumble(p) => pass[p] # Idle
      BY AtWork DEF PassStep, Send, RecordSent, AuditSent, RecordFailed, Stumble, At, Typed
    <3>. QED
      BY <3>1, <3>2, <1>3, OnceBegun, OnceGone, OnceTaken, OnceAbandoned DEF PassActs, PassStep
  <2>. QED  BY <2>2, <2>3 DEF Deliveries
<1>. QED  BY <1>1, <1>2, <1>3, Acts

(* dispatchPending: a mail goes out once, unless two passes had its row or *)
(* it was taken and not recorded.                                          *)
THEOREM Duplicates == Spec => []DuplicatesExplained
<1>1. Init => Deliveries
  BY DEF Init, Deliveries
<1>2. Typed /\ Deliveries /\ [Next]_vars => Deliveries'
  BY DeliveriesStep
<1>3. Deliveries => DuplicatesExplained
  BY DEF Deliveries, DuplicatesExplained, Once, Sending
<1>. QED  BY <1>1, <1>2, <1>3, TypedAlways, PTL DEF Spec

=============================================================================
