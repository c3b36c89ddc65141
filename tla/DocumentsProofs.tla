-------------------------- MODULE DocumentsProofs --------------------------
(***************************************************************************)
(* Proofs about Documents, for every value of its constants.               *)
(*   RecordedReadable: what the database names is on the share, with the   *)
(* bytes that were hashed.  StoreInv says why: an object once put is never *)
(* overwritten, and what a handler will commit is put or still to be put.  *)
(*   SignaturesAlwaysStand and OpenCeremonyAlwaysCompletable: SealInv says *)
(* what every document looks like, revision by revision (Shape), that the  *)
(* slot of a transaction is drawn on the row before its party's own, and   *)
(* that the bytes parked under a digest are the bytes it was taken over.   *)
(* The lemmas before them say what the operators of Pdf compute on such a  *)
(* document: the newest revision of a widget, the signatures there are, the*)
(* slot reopened, and that a revision appended leaves every older signature*)
(* as valid as it was.                                                     *)
(***************************************************************************)
EXTENDS Documents, FiniteSetTheorems, SequenceTheorems, TLAPS

-----------------------------------------------------------------------------
(* Sequences, of whatever their elements are.                              *)
IsSeq(s) == \E S : s \in Seq(S)

LEMMA EmptyIsSeq == IsSeq(<<>>) /\ DOMAIN <<>> = {} /\ Len(<<>>) = 0
<1>1. <<>> \in Seq({})
  OBVIOUS
<1>. QED  BY <1>1 DEF IsSeq

LEMMA SingletonIsSeq ==
  ASSUME NEW x
  PROVE  IsSeq(<<x>>) /\ DOMAIN <<x>> = 1..1 /\ <<x>>[1] = x /\ Len(<<x>>) = 1
<1>1. <<x>> \in Seq({x})
  OBVIOUS
<1>2. DOMAIN <<x>> = 1..1 /\ <<x>>[1] = x /\ Len(<<x>>) = 1
  OBVIOUS
<1>. QED  BY <1>1, <1>2 DEF IsSeq

(* What Append leaves and what it adds.                                    *)
LEMMA Appended ==
  ASSUME NEW s, NEW x, IsSeq(s)
  PROVE  /\ IsSeq(Append(s, x)) /\ Len(s) \in Nat
         /\ Len(Append(s, x)) = Len(s) + 1 /\ DOMAIN Append(s, x) = 1..(Len(s) + 1)
         /\ DOMAIN s = 1..Len(s)
         /\ \A i \in 1..Len(s) : Append(s, x)[i] = s[i]
         /\ Append(s, x)[Len(s) + 1] = x
         /\ Front(Append(s, x)) = s /\ Last(Append(s, x)) = x
<1>1. PICK S : s \in Seq(S)
  BY DEF IsSeq
<1>. DEFINE T == S \cup {x}
<1>2. s \in Seq(T) /\ x \in T
  BY <1>1
<1>. HIDE DEF T
<1>3. Append(s, x) \in Seq(T)
  BY <1>2
<1>4. /\ Len(s) \in Nat
      /\ Len(Append(s, x)) = Len(s) + 1 /\ DOMAIN Append(s, x) = 1..(Len(s) + 1)
      /\ DOMAIN s = 1..Len(s)
      /\ \A i \in 1..Len(s) : Append(s, x)[i] = s[i]
      /\ Append(s, x)[Len(s) + 1] = x
  BY <1>2
<1>5. Front(Append(s, x)) = s
  BY <1>2, <1>3, <1>4 DEF Front
<1>6. Last(Append(s, x)) = x
  BY <1>4 DEF Last
<1>. QED  BY <1>3, <1>4, <1>5, <1>6 DEF IsSeq

(* What Tail leaves of a sequence that is not empty.                       *)
LEMMA Tailed ==
  ASSUME NEW s, IsSeq(s), s # <<>>
  PROVE  /\ IsSeq(Tail(s)) /\ Head(s) = s[1] /\ 1 \in DOMAIN s
         /\ \A i \in DOMAIN s : i = 1 \/ (i - 1 \in DOMAIN Tail(s) /\ Tail(s)[i - 1] = s[i])
         /\ \A i \in DOMAIN Tail(s) : i + 1 \in DOMAIN s /\ Tail(s)[i] = s[i + 1]
<1>1. PICK S : s \in Seq(S)
  BY DEF IsSeq
<1>2. Tail(s) \in Seq(S) /\ Len(s) \in Nat /\ Len(s) > 0 /\ Len(Tail(s)) = Len(s) - 1
  BY <1>1
<1>3. DOMAIN s = 1..Len(s) /\ DOMAIN Tail(s) = 1..(Len(s) - 1)
  BY <1>1, <1>2
<1>4. \A i \in 1..(Len(s) - 1) : Tail(s)[i] = s[i + 1]
  BY <1>1, <1>2
<1>5. \A i \in DOMAIN s : i = 1 \/ (i - 1 \in 1..(Len(s) - 1) /\ (i - 1) + 1 = i)
  BY <1>2, <1>3
<1>. QED  BY <1>1, <1>2, <1>3, <1>4, <1>5 DEF IsSeq

-----------------------------------------------------------------------------
(* A revision that is one signature: a party's widget, now naming the      *)
(* signature object, and that object, over everything up to here.          *)
SlotOf(party) == SIGNATURE_FIELDS(party)

Stamp(n, party, der) ==
  LET B == Before(party)
  IN SlotRevision(n + 3 + B, SigObject(B + 2, der), n + B, Widget(SlotOf(party), n + 3 + B))

Stamped(rev, n, party) == \E der : der.signer = party /\ rev = Stamp(n, party, der)

(* The first revision, with n - 1 objects before the three empty widgets.  *)
Blank(rev, n) ==
  /\ DOMAIN rev = 1..(n + 2)
  /\ \A x \in 1..(n - 1) : rev[x].kind # "field"
                           /\ (rev[x].kind = "sig" => n = 3 /\ rev[x].contents # Gap)
  /\ n = 3 => rev[2].kind = "sig"
  /\ \A party \in Parties : rev[n + Before(party)] = Widget(SlotOf(party), 0)

(* A document of k revisions: the parties have signed in turn.             *)
Shape(pdf, n, k) ==
  /\ IsSeq(pdf) /\ k \in 1..4 /\ n \in {2, 3} /\ Len(pdf) = k /\ DOMAIN pdf = 1..k
  /\ Blank(pdf[1], n)
  /\ \A party \in Parties : Before(party) + 2 <= k => Stamped(pdf[Before(party) + 2], n, party)

LEMMA Turns ==
  /\ \A party \in Parties : Before(party) \in 0..2
  /\ \A party, other \in Parties : Before(party) = Before(other) => party = other
  /\ \A party, other \in Parties : SlotOf(party) = SlotOf(other) => party = other
  /\ \A b \in 0..2 : \E party \in Parties : Before(party) = b
<1>1. /\ Parties = {"AGENT", "EMPLOYEE", "MD"}
      /\ Before("AGENT") = 0 /\ Before("EMPLOYEE") = 1 /\ Before("MD") = 2
  BY DEF Parties, Before
<1>2. /\ SlotOf("AGENT") = "GTIDS_Agent" /\ SlotOf("EMPLOYEE") = "GTIDS_Employee"
      /\ SlotOf("MD") = "GTIDS_MD"
  BY DEF SlotOf, SIGNATURE_FIELDS
<1>3. \A b \in 0..2 : \E party \in Parties : Before(party) = b
  BY <1>1
<1>. QED  BY <1>1, <1>2, <1>3

(* What the newest revision of an object is, and the largest number.       *)
LEMMA NewestIs ==
  ASSUME NEW pdf, NEW num, NEW k \in 1..Len(pdf), Len(pdf) \in Nat, DOMAIN pdf = 1..Len(pdf),
         num \in DOMAIN pdf[k], \A j \in (k + 1)..Len(pdf) : num \notin DOMAIN pdf[j]
  PROVE  Newest(pdf, num) = k
<1>1. ASSUME NEW i \in DOMAIN pdf, num \in DOMAIN pdf[i],
             \A j \in (i + 1)..Len(pdf) : num \notin DOMAIN pdf[j]
      PROVE  i = k
  <2>1. CASE i < k
    BY <1>1, <2>1
  <2>2. CASE k < i
    BY <1>1, <2>2
  <2>. QED  BY <2>1, <2>2
<1>. QED  BY <1>1 DEF Newest

LEMMA LargestIs ==
  ASSUME NEW m \in Nat, m > 0
  PROVE  Max(1..m) = m
BY DEF Max

(* A revision that is a signature.                                         *)
LEMMA StampIs ==
  ASSUME NEW n \in {2, 3}, NEW party \in Parties, NEW der
  PROVE  LET rev == Stamp(n, party, der)  B == Before(party)
         IN /\ DOMAIN rev = {n + 3 + B, n + B}
            /\ rev[n + 3 + B] = SigObject(B + 2, der)
            /\ rev[n + B] = Widget(SlotOf(party), n + 3 + B)
BY Turns DEF Stamp, SlotRevision

LEMMA Revisions ==
  ASSUME NEW pdf, NEW n, NEW k, Shape(pdf, n, k), NEW j \in 2..k
  PROVE  \E party \in Parties : \E der :
           /\ Before(party) = j - 2 /\ der.signer = party /\ der # Gap
           /\ DOMAIN pdf[j] = {n + 1 + j, n + j - 2}
           /\ pdf[j][n + 1 + j] = SigObject(j, der)
           /\ pdf[j][n + j - 2] = Widget(SlotOf(party), n + 1 + j)
<1>1. k \in 1..4 /\ n \in {2, 3} /\ j - 2 \in 0..2
  BY DEF Shape
<1>2. PICK party \in Parties : Before(party) = j - 2
  BY <1>1, Turns
<1>3. Stamped(pdf[j], n, party)
  BY <1>1, <1>2 DEF Shape
<1>4. PICK der : der.signer = party /\ pdf[j] = Stamp(n, party, der)
  BY <1>3 DEF Stamped
<1>5. der # Gap
  BY <1>4 DEF Gap, Parties
<1>6. /\ DOMAIN pdf[j] = {n + 3 + (j - 2), n + (j - 2)}
      /\ pdf[j][n + 3 + (j - 2)] = SigObject((j - 2) + 2, der)
      /\ pdf[j][n + (j - 2)] = Widget(SlotOf(party), n + 3 + (j - 2))
  <2>1. LET rev == Stamp(n, party, der)  B == Before(party)
        IN /\ DOMAIN rev = {n + 3 + B, n + B}
           /\ rev[n + 3 + B] = SigObject(B + 2, der)
           /\ rev[n + B] = Widget(SlotOf(party), n + 3 + B)
    BY <1>1, <1>2, StampIs
  <2>. QED  BY <1>2, <1>4, <2>1
<1>7. n + 3 + (j - 2) = n + 1 + j /\ n + (j - 2) = n + j - 2 /\ (j - 2) + 2 = j
  BY <1>1
<1>. QED  BY <1>2, <1>4, <1>5, <1>6, <1>7

LEMMA NumbersOf ==
  ASSUME NEW pdf, NEW n, NEW k, Shape(pdf, n, k)
  PROVE  Numbers(pdf) = 1..(n + 1 + k) /\ Size(pdf) = n + 2 + k
<1>1. k \in 1..4 /\ n \in {2, 3} /\ DOMAIN pdf = 1..k /\ DOMAIN pdf[1] = 1..(n + 2)
  BY DEF Shape, Blank
<1>2. \A j \in 2..k : DOMAIN pdf[j] = {n + 1 + j, n + j - 2}
  BY Revisions
<1>3. ASSUME NEW x \in Numbers(pdf) PROVE x \in 1..(n + 1 + k)
  <2>1. PICK j \in 1..k : x \in DOMAIN pdf[j]
    BY <1>1 DEF Numbers
  <2>2. CASE j = 1
    BY <1>1, <2>1, <2>2
  <2>3. CASE j \in 2..k
    BY <1>1, <1>2, <2>1, <2>3
  <2>. QED  BY <1>1, <2>2, <2>3
<1>4. ASSUME NEW x \in 1..(n + 1 + k) PROVE x \in Numbers(pdf)
  <2>1. CASE x <= n + 2
    BY <1>1, <2>1 DEF Numbers
  <2>2. CASE x > n + 2
    <3>. DEFINE j == x - n - 1
    <3>1. j \in 2..k /\ j \in DOMAIN pdf /\ x = n + 1 + j
      BY <1>1, <2>2
    <3>2. x \in DOMAIN pdf[j]
      BY <1>2, <3>1
    <3>. QED  BY <3>1, <3>2 DEF Numbers
  <2>. QED  BY <1>1, <2>1, <2>2
<1>5. Numbers(pdf) = 1..(n + 1 + k)
  BY <1>3, <1>4
<1>. QED  BY <1>1, <1>5, LargestIs DEF Size

(* A party's widget, read through the newest revision of it: it names the  *)
(* party's signature once that is there.                                   *)
LEMMA WidgetOf ==
  ASSUME NEW pdf, NEW n, NEW k, Shape(pdf, n, k), NEW party \in Parties
  PROVE  ReadObject(pdf, n + Before(party))
         = Widget(SlotOf(party), IF Before(party) + 2 <= k THEN n + 3 + Before(party) ELSE 0)
<1>. DEFINE x == n + Before(party)
<1>1. /\ k \in 1..4 /\ n \in {2, 3} /\ DOMAIN pdf = 1..k /\ Len(pdf) = k
      /\ DOMAIN pdf[1] = 1..(n + 2) /\ pdf[1][x] = Widget(SlotOf(party), 0)
      /\ Before(party) \in 0..2
  BY Turns DEF Shape, Blank
<1>2. \A j \in 2..k : DOMAIN pdf[j] = {n + 1 + j, n + j - 2}
  BY Revisions
<1>3. CASE Before(party) + 2 <= k
  <2>. DEFINE i == Before(party) + 2
  <2>1. i \in 2..k /\ i \in 1..Len(pdf) /\ x = n + i - 2 /\ n + 1 + i = n + 3 + Before(party)
    BY <1>1, <1>3
  <2>. HIDE DEF i
  <2>2. pdf[i][x] = Widget(SlotOf(party), n + 3 + Before(party)) /\ x \in DOMAIN pdf[i]
    <3>3. i - 2 = Before(party)
      BY <1>1 DEF i
    <3>1. PICK other \in Parties :
            /\ Before(other) = i - 2
            /\ DOMAIN pdf[i] = {n + 1 + i, n + i - 2}
            /\ pdf[i][n + i - 2] = Widget(SlotOf(other), n + 1 + i)
      BY <2>1, Revisions
    <3>2. other = party
      BY <3>1, <3>3, Turns
    <3>. QED  BY <2>1, <3>1, <3>2
  <2>. HIDE DEF x
  <2>3. \A j \in (i + 1)..Len(pdf) : x \notin DOMAIN pdf[j]
    BY <1>1, <1>2, <2>1
  <2>4. Newest(pdf, x) = i
    <3>1. Len(pdf) \in Nat /\ DOMAIN pdf = 1..Len(pdf)
      BY <1>1
    <3>2. i \in 1..Len(pdf) /\ x \in DOMAIN pdf[i]
      BY <2>1, <2>2
    <3>. QED  BY <2>3, <3>1, <3>2, NewestIs
  <2>. QED  BY <1>3, <2>2, <2>4 DEF ReadObject, x
<1>4. CASE ~(Before(party) + 2 <= k)
  <2>1. \A j \in 2..k : x \notin DOMAIN pdf[j]
    BY <1>1, <1>2, <1>4
  <2>2. 1 \in 1..Len(pdf) /\ x \in DOMAIN pdf[1] /\ 1 + 1 = 2
    BY <1>1
  <2>3. Newest(pdf, x) = 1
    BY <1>1, <2>1, <2>2, NewestIs
  <2>. QED  BY <1>1, <1>4, <2>3 DEF ReadObject
<1>. QED  BY <1>3, <1>4

(* The object numbered n + 1 + j is the signature of revision j.           *)
LEMMA SignatureOf ==
  ASSUME NEW pdf, NEW n, NEW k, Shape(pdf, n, k), NEW j \in 2..k
  PROVE  ReadObject(pdf, n + 1 + j) = pdf[j][n + 1 + j]
<1>1. k \in 1..4 /\ n \in {2, 3} /\ DOMAIN pdf = 1..k /\ Len(pdf) = k
  BY DEF Shape
<1>2. \A i \in 2..k : DOMAIN pdf[i] = {n + 1 + i, n + i - 2}
  BY Revisions
<1>. DEFINE x == n + 1 + j
<1>3. \A i \in (j + 1)..Len(pdf) : x \notin DOMAIN pdf[i]
  BY <1>1, <1>2
<1>4. j \in 1..Len(pdf) /\ x \in DOMAIN pdf[j]
  BY <1>1, <1>2
<1>. HIDE DEF x
<1>5. Newest(pdf, x) = j
  BY <1>1, <1>3, <1>4, NewestIs
<1>. QED  BY <1>5 DEF ReadObject, x

(* The objects in front of the widgets are never written again.            *)
LEMMA OlderObjects ==
  ASSUME NEW pdf, NEW n, NEW k, Shape(pdf, n, k), NEW x \in 1..(n - 1)
  PROVE  ReadObject(pdf, x).kind # "field"
<1>1. /\ k \in 1..4 /\ n \in {2, 3} /\ DOMAIN pdf = 1..k /\ Len(pdf) = k
      /\ DOMAIN pdf[1] = 1..(n + 2) /\ pdf[1][x].kind # "field"
  BY DEF Shape, Blank
<1>2. \A i \in 2..k : DOMAIN pdf[i] = {n + 1 + i, n + i - 2}
  BY Revisions
<1>3. \A i \in (1 + 1)..Len(pdf) : x \notin DOMAIN pdf[i]
  BY <1>1, <1>2
<1>4. Newest(pdf, x) = 1
  BY <1>1, <1>3, NewestIs
<1>. QED  BY <1>1, <1>4 DEF ReadObject

(* findFieldByName finds the party's own widget.                           *)
LEMMA FieldFound ==
  ASSUME NEW pdf, NEW n, NEW k, Shape(pdf, n, k), NEW party \in Parties
  PROVE  FindFieldByName(pdf, SlotOf(party)) = n + Before(party)
<1>1. k \in 1..4 /\ n \in {2, 3} /\ Before(party) \in 0..2
  BY Turns DEF Shape
<1>2. Numbers(pdf) = 1..(n + 1 + k)
  BY NumbersOf
<1>3. n + Before(party) \in FieldsNamed(pdf, SlotOf(party))
  <2>1. PICK v : ReadObject(pdf, n + Before(party)) = Widget(SlotOf(party), v)
    BY WidgetOf
  <2>2. n + Before(party) \in 1..(n + 1 + k)
    BY <1>1
  <2>. QED  BY <1>2, <2>1, <2>2 DEF FieldsNamed, Widget
<1>4. ASSUME NEW x \in FieldsNamed(pdf, SlotOf(party))
      PROVE  x = n + Before(party)
  <2>1. x \in 1..(n + 1 + k) /\ ReadObject(pdf, x).kind = "field"
        /\ ReadObject(pdf, x).t = SlotOf(party)
    BY <1>2 DEF FieldsNamed
  <2>2. ~(x \in 1..(n - 1))
    BY <2>1, OlderObjects
  <2>3. CASE x \in n..(n + 2)
    <3>1. x - n \in 0..2
      BY <1>1, <2>3
    <3>2. PICK other \in Parties : Before(other) = x - n
      BY <3>1, Turns
    <3>3. x = n + Before(other)
      BY <1>1, <2>3, <3>2
    <3>4. SlotOf(other) = SlotOf(party)
      <4>1. PICK v : ReadObject(pdf, n + Before(other)) = Widget(SlotOf(other), v)
        BY WidgetOf
      <4>. QED  BY <2>1, <3>3, <4>1 DEF Widget
    <3>. QED  BY <3>3, <3>4, Turns
  <2>4. CASE x \in (n + 3)..(n + 1 + k)
    <3>. DEFINE j == x - n - 1
    <3>1. j \in 2..k /\ x = n + 1 + j
      BY <1>1, <2>4
    <3>2. PICK der : pdf[j][n + 1 + j] = SigObject(j, der)
      BY <3>1, Revisions
    <3>3. ReadObject(pdf, x).kind = "sig"
      BY <3>1, <3>2, SignatureOf DEF SigObject
    <3>. QED  BY <2>1, <3>3
  <2>. QED  BY <1>1, <2>1, <2>2, <2>3, <2>4
<1>. QED  BY <1>3, <1>4 DEF FindFieldByName

(* Exactly those have signed whose revision is there.                      *)
LEMMA SignedByIs ==
  ASSUME NEW pdf, NEW n, NEW k, Shape(pdf, n, k), NEW party \in Parties
  PROVE  SignedBy(pdf, party) <=> Before(party) < k - 1
<1>1. k \in 1..4 /\ n \in {2, 3} /\ Before(party) \in 0..2
  BY Turns DEF Shape
<1>. DEFINE v == IF Before(party) + 2 <= k THEN n + 3 + Before(party) ELSE 0
<1>2. SignedBy(pdf, party) <=> (v # 0 /\ ReadObject(pdf, v).contents.signer = party)
  <2>1. FindFieldByName(pdf, SlotOf(party)) = n + Before(party)
    BY FieldFound
  <2>2. ReadObject(pdf, n + Before(party)) = Widget(SlotOf(party), v)
    BY WidgetOf
  <2>. HIDE DEF v
  <2>. QED  BY <2>1, <2>2 DEF SignedBy, SlotOf, Widget
<1>3. CASE Before(party) + 2 <= k
  <2>. DEFINE j == Before(party) + 2
  <2>1. j \in 2..k /\ v = n + 1 + j /\ v # 0 /\ Before(party) = j - 2
    BY <1>1, <1>3
  <2>. HIDE DEF j, v
  <2>2. PICK other, der :
          /\ other \in Parties
          /\ Before(other) = j - 2 /\ der.signer = other
          /\ pdf[j][n + 1 + j] = SigObject(j, der)
    BY <2>1, Revisions
  <2>3. other = party
    BY <2>1, <2>2, Turns
  <2>4. ReadObject(pdf, v) = SigObject(j, der)
    BY <2>1, <2>2, SignatureOf
  <2>5. ReadObject(pdf, v).contents.signer = party
    BY <2>2, <2>3, <2>4 DEF SigObject
  <2>. QED  BY <1>1, <1>2, <1>3, <2>1, <2>5
<1>4. CASE ~(Before(party) + 2 <= k)
  BY <1>1, <1>2, <1>4
<1>. QED  BY <1>3, <1>4

(* findSignatures: one in every revision but the first, and what the first *)
(* was composed with.                                                      *)
LEMMA SignaturesAre ==
  ASSUME NEW pdf, NEW n, NEW k, Shape(pdf, n, k)
  PROVE  /\ \A s \in FindSignatures(pdf) :
              /\ s = <<s[1], s[2]>> /\ s[1] \in 1..k
              /\ s[1] = 1 => n = 3 /\ pdf[1][s[2]].contents # Gap
              /\ s[1] # 1 => s[2] = n + 1 + s[1] /\ pdf[s[1]][s[2]].contents # Gap
         /\ \A j \in 2..k : <<j, n + 1 + j>> \in FindSignatures(pdf)
         /\ n = 3 => <<1, 2>> \in FindSignatures(pdf)
<1>1. k \in 1..4 /\ n \in {2, 3} /\ DOMAIN pdf = 1..k /\ Blank(pdf[1], n)
  BY DEF Shape
<1>2. Numbers(pdf) = 1..(n + 1 + k)
  BY NumbersOf
<1>3. \A s \in FindSignatures(pdf) :
        /\ s \in (1..k) \X (1..(n + 1 + k)) /\ s[2] \in DOMAIN pdf[s[1]]
        /\ pdf[s[1]][s[2]].kind = "sig"
  BY <1>1, <1>2 DEF FindSignatures
<1>4. ASSUME NEW s \in FindSignatures(pdf), s[1] = 1
      PROVE  n = 3 /\ pdf[1][s[2]].contents # Gap
  <2>1. s[2] \in 1..(n + 2) /\ pdf[1][s[2]].kind = "sig"
    BY <1>1, <1>3, <1>4 DEF Blank
  <2>2. CASE s[2] \in 1..(n - 1)
    BY <1>1, <2>1, <2>2 DEF Blank
  <2>3. CASE s[2] \in n..(n + 2)
    <3>1. s[2] - n \in 0..2 /\ n + (s[2] - n) = s[2]
      BY <1>1, <2>3
    <3>2. PICK party \in Parties : Before(party) = s[2] - n
      BY <3>1, Turns
    <3>3. pdf[1][s[2]] = Widget(SlotOf(party), 0)
      BY <1>1, <3>1, <3>2 DEF Blank
    <3>. QED  BY <2>1, <3>3 DEF Widget
  <2>. QED  BY <1>1, <2>1, <2>2, <2>3
<1>5. ASSUME NEW s \in FindSignatures(pdf), s[1] # 1
      PROVE  s[2] = n + 1 + s[1] /\ pdf[s[1]][s[2]].contents # Gap
  <2>. DEFINE j == s[1]
  <2>1. j \in 2..k /\ s[2] \in DOMAIN pdf[j] /\ pdf[j][s[2]].kind = "sig"
    BY <1>1, <1>3, <1>5
  <2>. HIDE DEF j
  <2>2. PICK party, der :
          /\ party \in Parties
          /\ der # Gap /\ DOMAIN pdf[j] = {n + 1 + j, n + j - 2}
          /\ pdf[j][n + 1 + j] = SigObject(j, der)
          /\ pdf[j][n + j - 2] = Widget(SlotOf(party), n + 1 + j)
    BY <2>1, Revisions
  <2>3. s[2] = n + 1 + j
    BY <2>1, <2>2 DEF Widget
  <2>. QED  BY <2>2, <2>3 DEF SigObject, j
<1>6. ASSUME NEW j \in 2..k PROVE <<j, n + 1 + j>> \in FindSignatures(pdf)
  <2>1. PICK der : /\ n + 1 + j \in DOMAIN pdf[j]
                   /\ pdf[j][n + 1 + j] = SigObject(j, der)
    BY Revisions
  <2>2. j \in DOMAIN pdf /\ n + 1 + j \in Numbers(pdf)
    BY <1>1, <1>2
  <2>. QED  BY <2>1, <2>2 DEF FindSignatures, SigObject
<1>7. n = 3 => <<1, 2>> \in FindSignatures(pdf)
  BY <1>1, <1>2 DEF FindSignatures, Blank
<1>. QED  BY <1>3, <1>4, <1>5, <1>6, <1>7

LEMMA NoEmptySlots ==
  ASSUME NEW pdf, NEW n, NEW k, Shape(pdf, n, k)
  PROVE  EmptySlots(pdf) = {}
BY SignaturesAre DEF EmptySlots

(* A slot for a party, empty or with its signature in it.                  *)
Slotted(base, party, der) ==
  LET num == Size(base)
  IN Append(base, SlotRevision(num, SigObject(Len(base) + 1, der),
                    FindFieldByName(base, SlotOf(party)), Widget(SlotOf(party), num)))

(* The document the party is to sign, when its turn has come.              *)
Ready(base, n, party) == Shape(base, n, Before(party) + 1)

LEMMA SlottedIs ==
  ASSUME NEW base, NEW n, NEW party \in Parties, Ready(base, n, party), NEW der
  PROVE  /\ Slotted(base, party, der) = Append(base, Stamp(n, party, der))
         /\ Size(base) = n + 3 + Before(party) /\ Len(base) = Before(party) + 1
<1>1. n \in {2, 3} /\ Before(party) \in 0..2 /\ Len(base) = Before(party) + 1
  BY Turns DEF Ready, Shape
<1>2. Size(base) = n + 2 + (Before(party) + 1)
  BY NumbersOf DEF Ready
<1>3. FindFieldByName(base, SlotOf(party)) = n + Before(party)
  BY FieldFound DEF Ready
<1>4. Size(base) = n + 3 + Before(party) /\ Len(base) + 1 = Before(party) + 2
  BY <1>1, <1>2
<1>. QED  BY <1>1, <1>3, <1>4 DEF Slotted, Stamp

(* The revisions of a slotted document.                                    *)
LEMMA SlottedRevisions ==
  ASSUME NEW base, NEW n, NEW party \in Parties, Ready(base, n, party), NEW der
  PROVE  LET pdf == Slotted(base, party, der)  k == Before(party) + 2
         IN /\ IsSeq(pdf) /\ Len(pdf) = k /\ DOMAIN pdf = 1..k /\ DOMAIN base = 1..(k - 1)
            /\ \A j \in 1..(k - 1) : pdf[j] = base[j]
            /\ pdf[k] = Stamp(n, party, der)
            /\ Front(pdf) = base
<1>1. /\ IsSeq(base) /\ Before(party) \in 0..2 /\ Len(base) = Before(party) + 1
  BY Turns DEF Ready, Shape
<1>2. Slotted(base, party, der) = Append(base, Stamp(n, party, der))
  BY SlottedIs
<1>3. Len(base) + 1 = Before(party) + 2 /\ (Before(party) + 2) - 1 = Len(base)
  BY <1>1
<1>. QED  BY <1>1, <1>2, <1>3, Appended

LEMMA SlottedShape ==
  ASSUME NEW base, NEW n, NEW party \in Parties, Ready(base, n, party),
         NEW der, der.signer = party
  PROVE  Shape(Slotted(base, party, der), n, Before(party) + 2)
<1>. DEFINE pdf == Slotted(base, party, der)  k == Before(party) + 2
<1>1. /\ IsSeq(pdf) /\ Len(pdf) = k /\ DOMAIN pdf = 1..k
      /\ \A j \in 1..(k - 1) : pdf[j] = base[j]
      /\ pdf[k] = Stamp(n, party, der)
  BY SlottedRevisions
<1>2. /\ n \in {2, 3} /\ Blank(base[1], n) /\ Before(party) \in 0..2
      /\ \A other \in Parties : Before(other) + 2 <= Before(party) + 1 =>
            Stamped(base[Before(other) + 2], n, other)
  BY Turns DEF Ready, Shape
<1>. HIDE DEF pdf
<1>3. k \in 1..4 /\ 1 \in 1..(k - 1)
  BY <1>2
<1>4. ASSUME NEW other \in Parties, Before(other) + 2 <= k
      PROVE  Stamped(pdf[Before(other) + 2], n, other)
  <2>1. Before(other) \in 0..2
    BY Turns
  <2>2. CASE Before(other) = Before(party)
    <3>1. other = party
      BY <2>2, Turns
    <3>. QED  BY <1>1, <3>1 DEF Stamped
  <2>3. CASE Before(other) # Before(party)
    <3>1. Before(other) + 2 <= Before(party) + 1 /\ Before(other) + 2 \in 1..(k - 1)
      BY <1>2, <1>4, <2>1, <2>3
    <3>. QED  BY <1>1, <1>2, <3>1
  <2>. QED  BY <2>2, <2>3
<1>5. Blank(pdf[1], n)
  BY <1>1, <1>2, <1>3
<1>6. Shape(pdf, n, k)
  BY <1>1, <1>2, <1>3, <1>4, <1>5 DEF Shape
<1>. QED  BY <1>6 DEF pdf

(* Its last revision, with the new signature.                              *)
LEMMA NewRevision ==
  ASSUME NEW base, NEW n, NEW party \in Parties, Ready(base, n, party), NEW der
  PROVE  LET pdf == Slotted(base, party, der)  k == Before(party) + 2
             num == n + 3 + Before(party)
         IN /\ DOMAIN pdf[k] = {num, n + Before(party)}
            /\ pdf[k][num] = SigObject(k, der)
            /\ pdf[k][n + Before(party)] = Widget(SlotOf(party), num)
<1>1. n \in {2, 3}
  BY DEF Ready, Shape
<1>2. Slotted(base, party, der)[Before(party) + 2] = Stamp(n, party, der)
  BY SlottedRevisions
<1>3. LET rev == Stamp(n, party, der)  B == Before(party)
      IN /\ DOMAIN rev = {n + 3 + B, n + B}
         /\ rev[n + 3 + B] = SigObject(B + 2, der)
         /\ rev[n + B] = Widget(SlotOf(party), n + 3 + B)
  BY <1>1, StampIs
<1>. QED  BY <1>2, <1>3

(* The signatures it had are in revisions that are still as they were.     *)
LEMMA OlderSignatures ==
  ASSUME NEW base, NEW n, NEW party \in Parties, Ready(base, n, party), NEW der,
         NEW s \in FindSignatures(base)
  PROVE  s[1] \in 1..(Before(party) + 1) /\ Slotted(base, party, der)[s[1]] = base[s[1]]
<1>1. LET pdf == Slotted(base, party, der)  k == Before(party) + 2
      IN /\ DOMAIN base = 1..(k - 1)
         /\ \A j \in 1..(k - 1) : pdf[j] = base[j]
  BY SlottedRevisions
<1>2. (Before(party) + 2) - 1 = Before(party) + 1
  BY Turns
<1>3. s[1] \in DOMAIN base
  BY DEF FindSignatures
<1>. QED  BY <1>1, <1>2, <1>3

(* Its signatures: those it had and the new one.                           *)
LEMMA SlottedSignatures ==
  ASSUME NEW base, NEW n, NEW party \in Parties, Ready(base, n, party), NEW der
  PROVE  FindSignatures(Slotted(base, party, der))
           = FindSignatures(base) \cup {<<Before(party) + 2, n + 3 + Before(party)>>}
<1>. DEFINE pdf == Slotted(base, party, der)  k == Before(party) + 2  num == n + 3 + Before(party)
<1>1. /\ DOMAIN pdf = 1..k /\ DOMAIN base = 1..(k - 1)
      /\ \A j \in 1..(k - 1) : pdf[j] = base[j]
      /\ pdf[k] = Stamp(n, party, der)
  BY SlottedRevisions
<1>2. n \in {2, 3} /\ Before(party) \in 0..2 /\ k \in 2..4
  BY Turns DEF Ready, Shape
<1>3. /\ DOMAIN pdf[k] = {num, n + Before(party)}
      /\ pdf[k][num] = SigObject(k, der)
      /\ pdf[k][n + Before(party)] = Widget(SlotOf(party), num)
  BY NewRevision
<1>. HIDE DEF pdf
<1>4. \A s : s \in FindSignatures(base) => s \in FindSignatures(pdf) /\ s[1] \in 1..(k - 1)
  BY <1>1, <1>2 DEF FindSignatures, Numbers
<1>5. ASSUME NEW s \in FindSignatures(pdf), s[1] # k PROVE s \in FindSignatures(base)
  <2>1. s \in (1..k) \X Numbers(pdf) /\ s[2] \in DOMAIN pdf[s[1]] /\ pdf[s[1]][s[2]].kind = "sig"
    BY <1>1 DEF FindSignatures
  <2>2. s[1] \in 1..(k - 1)
    BY <1>2, <1>5, <2>1
  <2>3. s[2] \in DOMAIN base[s[1]] /\ base[s[1]][s[2]].kind = "sig" /\ s[2] \in Numbers(base)
    BY <1>1, <2>1, <2>2 DEF Numbers
  <2>. QED  BY <1>1, <2>1, <2>2, <2>3 DEF FindSignatures
<1>6. ASSUME NEW s \in FindSignatures(pdf), s[1] = k PROVE s = <<k, num>>
  <2>1. s = <<s[1], s[2]>> /\ s[2] \in DOMAIN pdf[k] /\ pdf[k][s[2]].kind = "sig"
    BY <1>6 DEF FindSignatures
  <2>2. s[2] = num
    BY <1>3, <2>1 DEF Widget
  <2>. QED  BY <1>6, <2>1, <2>2
<1>7. <<k, num>> \in FindSignatures(pdf)
  BY <1>1, <1>2, <1>3 DEF FindSignatures, Numbers, SigObject
<1>9. FindSignatures(pdf) = FindSignatures(base) \cup {<<k, num>>}
  BY <1>4, <1>5, <1>6, <1>7
<1>. QED  BY <1>9 DEF pdf

(* The gap of a slot can be filled and emptied.                            *)
LEMMA SeqIsFunction ==
  ASSUME NEW s, IsSeq(s)
  PROVE  s = [j \in 1..Len(s) |-> s[j]]
<1>1. PICK S : s \in Seq(S)
  BY DEF IsSeq
<1>. QED  BY <1>1

LEMMA SigFilled ==
  ASSUME NEW covers, NEW der, NEW other
  PROVE  [SigObject(covers, der) EXCEPT !.contents = other] = SigObject(covers, other)
<1>. DEFINE sig == [SigObject(covers, der) EXCEPT !.contents = other]
<1>1. sig \in [kind : {"sig"}, covers : {covers}, contents : {other}]
  BY DEF SigObject
<1>. HIDE DEF sig
<1>2. sig = SigObject(covers, other)
  BY <1>1 DEF SigObject
<1>. QED  BY <1>2 DEF sig

LEMMA StampFilled ==
  ASSUME NEW n \in {2, 3}, NEW party \in Parties, NEW der, NEW other
  PROVE  [Stamp(n, party, der) EXCEPT ![n + 3 + Before(party)].contents = other]
         = Stamp(n, party, other)
<1>. DEFINE num == n + 3 + Before(party)  field == n + Before(party)  c == Before(party) + 2
            w == Widget(SlotOf(party), num)
<1>1. num # field
  BY Turns
<1>2. Stamp(n, party, der) = [o \in {num, field} |-> IF o = num THEN SigObject(c, der) ELSE w]
  BY DEF Stamp, SlotRevision
<1>3. Stamp(n, party, other) = [o \in {num, field} |-> IF o = num THEN SigObject(c, other) ELSE w]
  BY DEF Stamp, SlotRevision
<1>4. Stamp(n, party, der)[num] = SigObject(c, der)
  BY <1>2
<1>5. [SigObject(c, der) EXCEPT !.contents = other] = SigObject(c, other)
  BY SigFilled
<1>6. [Stamp(n, party, der) EXCEPT ![num].contents = other]
      = [Stamp(n, party, der) EXCEPT ![num] = [SigObject(c, der) EXCEPT !.contents = other]]
  BY <1>4
<1>. HIDE DEF num, field, c, w
<1>7. [Stamp(n, party, der) EXCEPT ![num] = SigObject(c, other)] = Stamp(n, party, other)
  BY <1>1, <1>2, <1>3
<1>. QED  BY <1>5, <1>6, <1>7 DEF num

(* A digest leaves out what is in the gap: it is the slot, empty.          *)
LEMMA DigestOfSlotted ==
  ASSUME NEW base, NEW n, NEW party \in Parties, Ready(base, n, party), NEW der
  PROVE  SignedContent(Slotted(base, party, der), <<Before(party) + 2, n + 3 + Before(party)>>)
         = Slotted(base, party, Gap)
<1>. DEFINE pdf == Slotted(base, party, der)  empty == Slotted(base, party, Gap)
            k == Before(party) + 2  num == n + 3 + Before(party)
<1>1. /\ n \in {2, 3} /\ k \in 2..4
  BY Turns DEF Ready, Shape
<1>2. /\ \A j \in 1..(k - 1) : pdf[j] = base[j]
      /\ pdf[k] = Stamp(n, party, der)
  BY SlottedRevisions
<1>3. /\ IsSeq(empty) /\ Len(empty) = k
      /\ \A j \in 1..(k - 1) : empty[j] = base[j]
      /\ empty[k] = Stamp(n, party, Gap)
  BY SlottedRevisions
<1>4. empty = [j \in 1..k |-> empty[j]]
  BY <1>3, SeqIsFunction
<1>5. [pdf[k] EXCEPT ![num].contents = Gap] = empty[k]
  BY <1>1, <1>2, <1>3, StampFilled
<1>. HIDE DEF pdf, empty, k, num
<1>6. SignedContent(pdf, <<k, num>>)
      = [j \in 1..k |-> IF j = k THEN [pdf[j] EXCEPT ![num].contents = Gap] ELSE pdf[j]]
  BY DEF SignedContent
<1>7. \A j \in 1..k : (IF j = k THEN [pdf[j] EXCEPT ![num].contents = Gap] ELSE pdf[j]) = empty[j]
  BY <1>1, <1>2, <1>3, <1>5
<1>. QED  BY <1>4, <1>6, <1>7 DEF pdf, empty, k, num

(* prepareSignatureSlot gives the slot, and as its digest the same bytes.  *)
LEMMA SlotPrepared ==
  ASSUME NEW base, NEW n, NEW party \in Parties, Ready(base, n, party)
  PROVE  /\ PrepareSlot(base, FieldOf(party)).pdf = Slotted(base, party, Gap)
         /\ PrepareSlot(base, FieldOf(party)).digest = Slotted(base, party, Gap)
<1>1. PrepareSlot(base, FieldOf(party)).pdf = Slotted(base, party, Gap)
  BY DEF PrepareSlot, Slotted, FieldOf, SlotOf, AppendRevision
<1>2. PrepareSlot(base, FieldOf(party)).digest
      = SignedContent(Slotted(base, party, Gap), <<Len(base) + 1, Size(base)>>)
  BY DEF PrepareSlot, Slotted, FieldOf, SlotOf, AppendRevision
<1>3. Len(base) + 1 = Before(party) + 2 /\ Size(base) = n + 3 + Before(party)
  <2>1. Before(party) \in 0..2
    BY Turns
  <2>. QED  BY <2>1, SlottedIs
<1>. QED  BY <1>1, <1>2, <1>3, DigestOfSlotted

(* reopenSignatureSlot finds the slot of parked bytes, and embedSignature  *)
(* fills it.                                                               *)
LEMMA SlotReopens ==
  ASSUME NEW base, NEW n, NEW party \in Parties, Ready(base, n, party)
  PROVE  LET pdf == Slotted(base, party, Gap)
         IN /\ Slot(pdf) = <<Before(party) + 2, n + 3 + Before(party)>>
            /\ CanReopen(pdf)
            /\ SignedContent(pdf, Slot(pdf)) = pdf
            /\ \A der : EmbedSignature(pdf, der) = Slotted(base, party, der)
<1>. DEFINE pdf == Slotted(base, party, Gap)
            k == Before(party) + 2  num == n + 3 + Before(party)
<1>1. /\ n \in {2, 3} /\ k \in 2..4
  BY Turns DEF Ready, Shape
<1>2. FindSignatures(pdf) = FindSignatures(base) \cup {<<k, num>>}
  BY SlottedSignatures
<1>10. pdf[k][num] = SigObject(k, Gap)
  BY NewRevision
<1>11. \A s \in FindSignatures(base) : pdf[s[1]] = base[s[1]]
  BY OlderSignatures
<1>3. EmptySlots(base) = {}
  BY NoEmptySlots DEF Ready
<1>4. SignedContent(pdf, <<k, num>>) = pdf
  BY DigestOfSlotted
<1>5. ASSUME NEW der PROVE [pdf EXCEPT ![k][num].contents = der] = Slotted(base, party, der)
  <2>. DEFINE full == Slotted(base, party, der)
  <2>1. /\ IsSeq(pdf) /\ Len(pdf) = k /\ DOMAIN pdf = 1..k
        /\ \A j \in 1..(k - 1) : pdf[j] = base[j]
        /\ pdf[k] = Stamp(n, party, Gap)
    BY SlottedRevisions
  <2>2. /\ IsSeq(full) /\ Len(full) = k
        /\ \A j \in 1..(k - 1) : full[j] = base[j]
        /\ full[k] = Stamp(n, party, der)
    BY SlottedRevisions
  <2>3. full = [j \in 1..k |-> full[j]] /\ pdf = [j \in 1..k |-> pdf[j]]
    BY <2>1, <2>2, SeqIsFunction
  <2>4. [pdf[k] EXCEPT ![num].contents = der] = full[k]
    BY <1>1, <2>1, <2>2, StampFilled
  <2>5. [pdf EXCEPT ![k][num].contents = der]
        = [pdf EXCEPT ![k] = [pdf[k] EXCEPT ![num].contents = der]]
    OBVIOUS
  <2>. HIDE DEF pdf, full, k, num
  <2>6. [pdf EXCEPT ![k] = full[k]] = full
    <3>1. [pdf EXCEPT ![k] = full[k]] = [j \in 1..k |-> IF j = k THEN full[k] ELSE pdf[j]]
      BY <1>1, <2>3
    <3>2. \A j \in 1..k : (IF j = k THEN full[k] ELSE pdf[j]) = full[j]
      BY <1>1, <2>1, <2>2
    <3>. QED  BY <2>3, <3>1, <3>2
  <2>. QED  BY <2>4, <2>5, <2>6 DEF full
<1>. HIDE DEF pdf, k, num
<1>6. EmptySlots(pdf) = {<<k, num>>}
  <2>1. ASSUME NEW s \in EmptySlots(pdf), s # <<k, num>> PROVE FALSE
    <3>1. s \in FindSignatures(base) /\ pdf[s[1]][s[2]].contents = Gap
      BY <1>2, <2>1 DEF EmptySlots
    <3>2. s \in EmptySlots(base)
      BY <1>11, <3>1 DEF EmptySlots
    <3>. QED  BY <1>3, <3>2
  <2>2. <<k, num>> \in EmptySlots(pdf)
    BY <1>2, <1>10 DEF EmptySlots, SigObject
  <2>. QED  BY <2>1, <2>2
<1>7. Slot(pdf) = <<k, num>>
  BY <1>6 DEF Slot
<1>8. CanReopen(pdf)
  <2>. DEFINE s == <<k, num>>
  <2>1. s \in FindSignatures(pdf) /\ s[1] = k /\ pdf[s[1]][s[2]].covers = k
    BY <1>2, <1>10 DEF SigObject
  <2>2. EmptySlots(pdf) = {s}
    BY <1>6
  <2>. HIDE DEF s
  <2>. QED  BY <2>1, <2>2 DEF CanReopen
<1>9. \A der : EmbedSignature(pdf, der) = Slotted(base, party, der)
  BY <1>5, <1>7 DEF EmbedSignature
<1>. QED  BY <1>4, <1>7, <1>8, <1>9 DEF pdf, k, num

(* A signature that verified still verifies once another revision is there.*)
LEMMA OlderStillValid ==
  ASSUME NEW base, NEW n, NEW party \in Parties, Ready(base, n, party), NEW der,
         NEW s \in FindSignatures(base)
  PROVE  Valid(Slotted(base, party, der), s) <=> Valid(base, s)
<1>. DEFINE pdf == Slotted(base, party, der)  k == Before(party) + 2
<1>1. /\ \A j \in 1..(k - 1) : pdf[j] = base[j]
  BY SlottedRevisions
<1>2. s[1] \in 1..(k - 1) /\ k \in 2..4
  <2>1. s[1] \in 1..(Before(party) + 1)
    BY OlderSignatures
  <2>2. Before(party) \in 0..2 /\ k \in 2..4
    BY Turns
  <2>. QED  BY <2>1, <2>2
<1>. HIDE DEF pdf, k
<1>3. SignedContent(pdf, s) = SignedContent(base, s)
  <2>1. \A j \in 1..s[1] : pdf[j] = base[j]
    BY <1>1, <1>2
  <2>. QED  BY <2>1 DEF SignedContent
<1>4. pdf[s[1]] = base[s[1]]
  BY <1>1, <1>2
<1>5. Valid(pdf, s) <=> Valid(base, s)
  BY <1>3, <1>4 DEF Valid
<1>. QED  BY <1>5 DEF pdf

(* The new one verifies if its digest is the slot's.                       *)
LEMMA NewValid ==
  ASSUME NEW base, NEW n, NEW party \in Parties, Ready(base, n, party), NEW der,
         der # Gap, der.digest = Slotted(base, party, Gap)
  PROVE  Valid(Slotted(base, party, der), <<Before(party) + 2, n + 3 + Before(party)>>)
<1>. DEFINE pdf == Slotted(base, party, der)
            k == Before(party) + 2  num == n + 3 + Before(party)
<1>1. pdf[k][num] = SigObject(k, der)
  BY NewRevision
<1>2. SignedContent(pdf, <<k, num>>) = der.digest
  BY DigestOfSlotted
<1>. HIDE DEF pdf, k, num
<1>3. Valid(pdf, <<k, num>>)
  BY <1>1, <1>2 DEF Valid, Commits, SigObject
<1>. QED  BY <1>3 DEF pdf, k, num

(* How many signatures there are, when the document was not supplied with  *)
(* one; and that there are some when it was.                               *)
LEMMA SignaturesCounted ==
  ASSUME NEW pdf, NEW k, Shape(pdf, 2, k)
  PROVE  Cardinality(FindSignatures(pdf)) = k - 1
<1>. DEFINE D(m) == {<<j, 3 + j>> : j \in 2..m}
<1>1. k \in 1..4
  BY DEF Shape
<1>2. FindSignatures(pdf) = D(k)
  <2>1. ASSUME NEW s \in FindSignatures(pdf) PROVE s \in D(k)
    <3>1. /\ s = <<s[1], s[2]>> /\ s[1] \in 1..k /\ s[1] # 1
          /\ s[2] = 2 + 1 + s[1]
      BY SignaturesAre
    <3>2. s[1] \in 2..k /\ s[2] = 3 + s[1]
      BY <1>1, <3>1
    <3>. QED  BY <3>1, <3>2
  <2>2. ASSUME NEW j \in 2..k PROVE <<j, 3 + j>> \in FindSignatures(pdf)
    <3>1. <<j, 2 + 1 + j>> \in FindSignatures(pdf)
      BY SignaturesAre
    <3>. QED  BY <3>1
  <2>. QED  BY <2>1, <2>2
<1>3. D(1) = {} /\ IsFiniteSet(D(1)) /\ Cardinality(D(1)) = 0
  BY FS_EmptySet
<1>4. ASSUME NEW m \in 1..3, IsFiniteSet(D(m)), Cardinality(D(m)) = m - 1
      PROVE  IsFiniteSet(D(m + 1)) /\ Cardinality(D(m + 1)) = (m + 1) - 1
  <2>1. D(m + 1) = D(m) \cup {<<m + 1, 3 + (m + 1)>>}
    OBVIOUS
  <2>2. <<m + 1, 3 + (m + 1)>> \notin D(m)
    OBVIOUS
  <2>. HIDE DEF D
  <2>. QED  BY <1>4, <2>1, <2>2, FS_AddElement
<1>. HIDE DEF D
<1>5. \A m \in 1..4 : IsFiniteSet(D(m)) /\ Cardinality(D(m)) = m - 1
  <2>1. IsFiniteSet(D(1)) /\ Cardinality(D(1)) = 1 - 1
    BY <1>3
  <2>2. IsFiniteSet(D(2)) /\ Cardinality(D(2)) = 2 - 1
    BY <1>4, <2>1
  <2>3. IsFiniteSet(D(3)) /\ Cardinality(D(3)) = 3 - 1
    BY <1>4, <2>2
  <2>4. IsFiniteSet(D(4)) /\ Cardinality(D(4)) = 4 - 1
    BY <1>4, <2>3
  <2>. QED  BY <2>1, <2>2, <2>3, <2>4
<1>. QED  BY <1>1, <1>2, <1>5

LEMMA SuppliedCounted ==
  ASSUME NEW pdf, NEW k, Shape(pdf, 3, k)
  PROVE  Cardinality(FindSignatures(pdf)) > 0
<1>1. <<1, 2>> \in FindSignatures(pdf)
  BY SignaturesAre
<1>2. DOMAIN pdf = 1..k /\ k \in 1..4 /\ Numbers(pdf) = 1..(3 + 1 + k)
  BY NumbersOf DEF Shape
<1>3. IsFiniteSet(DOMAIN pdf) /\ IsFiniteSet(Numbers(pdf))
  BY <1>2, FS_Interval
<1>4. IsFiniteSet((DOMAIN pdf) \X Numbers(pdf))
  BY <1>3, FS_Product
<1>5. IsFiniteSet(FindSignatures(pdf))
  BY <1>4, FS_Subset DEF FindSignatures
<1>. QED  BY <1>1, <1>5, FS_EmptySet, FS_CardinalityType

LEMMA OldOrNew ==
  ASSUME NEW base, NEW n, NEW party \in Parties, Ready(base, n, party), NEW der
  PROVE  \A s \in FindSignatures(Slotted(base, party, der)) :
           s \in FindSignatures(base) \/ s = <<Before(party) + 2, n + 3 + Before(party)>>
<1>. DEFINE pdf == Slotted(base, party, der)  k == Before(party) + 2  num == n + 3 + Before(party)
            found == FindSignatures(pdf)  old == FindSignatures(base)  slot == <<k, num>>
<1>1. found = old \cup {slot}
  BY SlottedSignatures
<1>. HIDE DEF found, old, slot
<1>2. \A s \in found : s \in old \/ s = slot
  BY <1>1
<1>. QED  BY <1>2 DEF found, old, slot

(* A document that verified verifies with the slot's signature in it.      *)
LEMMA AllValid ==
  ASSUME NEW base, NEW n, NEW party \in Parties, Ready(base, n, party),
         \A s \in FindSignatures(base) : Valid(base, s),
         NEW der, der # Gap, der.digest = Slotted(base, party, Gap)
  PROVE  \A s \in FindSignatures(Slotted(base, party, der)) : Valid(Slotted(base, party, der), s)
<1>. DEFINE pdf == Slotted(base, party, der)
            new == <<Before(party) + 2, n + 3 + Before(party)>>
<1>1. \A s \in FindSignatures(pdf) : s \in FindSignatures(base) \/ s = new
  BY OldOrNew
<1>2. \A s \in FindSignatures(base) : Valid(pdf, s)
  BY OlderStillValid
<1>3. Valid(pdf, new)
  BY NewValid
<1>. HIDE DEF pdf, new
<1>4. \A s \in FindSignatures(pdf) : Valid(pdf, s)
  BY <1>1, <1>2, <1>3
<1>. QED  BY <1>4 DEF pdf

LEMMA Intact ==
  ASSUME NEW base, NEW party \in Parties, Ready(base, 2, party),
         \A s \in FindSignatures(base) : Valid(base, s),
         NEW der, der.signer = party, der # Gap, der.digest = Slotted(base, party, Gap)
  PROVE  IntegrityAfterSigning(Slotted(base, party, der), Before(party) + 1)
<1>. DEFINE pdf == Slotted(base, party, der)
<1>1. Shape(pdf, 2, Before(party) + 2)
  BY SlottedShape
<1>2. Cardinality(FindSignatures(pdf)) = Before(party) + 1
  <2>1. (Before(party) + 2) - 1 = Before(party) + 1
    BY Turns
  <2>. QED  BY <1>1, <2>1, SignaturesCounted
<1>3. \A s \in FindSignatures(pdf) : Valid(pdf, s)
  BY AllValid
<1>. QED  BY <1>2, <1>3 DEF IntegrityAfterSigning

(* prepare: the composed file with its three widgets.                      *)
LEMMA PreparedShape ==
  ASSUME NEW kind, NEW e
  PROVE  \E n \in {2, 3} : Shape(Prepare(Flat(kind, e)), n, 1)
<1>. DEFINE flat == Flat(kind, e)
            n    == IF kind = "signed" THEN 3 ELSE 2
            rev  == Prepare(flat)[1]
<1>1. /\ DOMAIN flat = 1..1 /\ DOMAIN flat[1] = 1..(n - 1) /\ flat[1][1] = Page(e)
      /\ n = 3 => flat[1][2] = SigObject(0, [signer |-> "other", digest |-> <<>>])
  <2>. DEFINE other == SigObject(0, [signer |-> "other", digest |-> <<>>])
  <2>. HIDE DEF other
  <2>1. flat = << [num \in IF kind = "signed" THEN 1..2 ELSE 1..1 |->
                     IF num = 1 THEN Page(e) ELSE other] >>
    BY DEF Flat, other
  <2>2. CASE kind = "signed"
    BY <2>1, <2>2 DEF other
  <2>3. CASE kind # "signed"
    BY <2>1, <2>3
  <2>. QED  BY <2>2, <2>3
<1>. HIDE DEF flat
<1>2. Size(flat) = n
  <2>1. Numbers(flat) = 1..(n - 1)
    BY <1>1 DEF Numbers
  <2>2. Max(1..(n - 1)) = n - 1
    BY LargestIs
  <2>. QED  BY <2>1, <2>2 DEF Size
<1>3. n \in {2, 3}
  OBVIOUS
<1>. HIDE DEF n
<1>4. /\ IsSeq(Prepare(flat)) /\ Len(Prepare(flat)) = 1 /\ DOMAIN Prepare(flat) = 1..1
      /\ rev = [num \in DOMAIN flat[1] \cup n..(n + 2) |->
                  CASE num = n     -> Widget(SlotOf("AGENT"), 0)
                    [] num = n + 1 -> Widget(SlotOf("EMPLOYEE"), 0)
                    [] num = n + 2 -> Widget(SlotOf("MD"), 0)
                    [] OTHER       -> flat[1][num]]
  BY <1>2, SingletonIsSeq DEF Prepare, SlotOf
<1>. HIDE DEF rev
<1>5. DOMAIN rev = 1..(n + 2)
  BY <1>1, <1>3, <1>4
<1>6. /\ rev[n] = Widget(SlotOf("AGENT"), 0) /\ rev[n + 1] = Widget(SlotOf("EMPLOYEE"), 0)
      /\ rev[n + 2] = Widget(SlotOf("MD"), 0)
      /\ \A x \in 1..(n - 1) : rev[x] = flat[1][x]
  BY <1>1, <1>3, <1>4
<1>7. \A party \in Parties : rev[n + Before(party)] = Widget(SlotOf(party), 0)
  BY <1>3, <1>6 DEF Parties, Before
<1>8. /\ n = 3 => rev[2].kind = "sig"
      /\ \A x \in 1..(n - 1) :
           rev[x].kind # "field" /\ (rev[x].kind = "sig" => n = 3 /\ rev[x].contents # Gap)
  <2>1. rev[1] = Page(e) /\ (n = 3 => rev[2] = SigObject(0, [signer |-> "other", digest |-> <<>>]))
    BY <1>1, <1>3, <1>6
  <2>2. \A x \in 1..(n - 1) : x = 1 \/ (n = 3 /\ x = 2)
    BY <1>3
  <2>3. [signer |-> "other", digest |-> <<>>] # Gap
    BY DEF Gap
  <2>. QED  BY <2>1, <2>2, <2>3 DEF Page, SigObject
<1>9. Blank(rev, n)
  BY <1>5, <1>7, <1>8 DEF Blank
<1>10. \A party \in Parties : ~(Before(party) + 2 <= 1)
  BY Turns
<1>11. Shape(Prepare(flat), n, 1)
  BY <1>3, <1>4, <1>9, <1>10 DEF Shape, rev
<1>. QED  BY <1>3, <1>11 DEF flat

-----------------------------------------------------------------------------
(* The store is write-once: once a key has landed, on the share or on the  *)
(* disk beneath it, it stays there.                                        *)
Landed(key, pdf) ==
  key \in stray \/ (key \in DOMAIN files["nas"] /\ files["nas"][key] = pdf)

Owed(todo, key, pdf) == \E i \in DOMAIN todo : todo[i] = Object(key, pdf)

Stored(todo, key, pdf) == Landed(key, pdf) \/ Owed(todo, key, pdf)

(* What a handler is about to commit is in the store, or still to be put   *)
(* there; the transaction it completes exists.                             *)
Backed(todo, c) ==
  \/ \E pdf : c = [what |-> "compose", pdf |-> pdf]
              /\ Stored(todo, <<"PREPARED_UNSIGNED">>, pdf)
  \/ \E t \in DOMAIN tx : \E pdf :
       c = [what |-> "complete", tx |-> t, pdf |-> pdf]
       /\ Stored(todo, <<StateAfter(tx[t].party)>>, pdf)
  \/ \E party, digest, key :
       c = [what |-> "begin", party |-> party, digest |-> digest, key |-> key]

Task(todo, checked, c) == [pc |-> "put", todo |-> todo, checked |-> checked, commit |-> c]

Queued(j) ==
  \E todo, checked, c :
    /\ j = Task(todo, checked, c)
    /\ IsSeq(todo) /\ checked \in {"no", "nas"}
    /\ Backed(todo, c)

StoreInv ==
  /\ files = [d \in Disks |-> files[d]] /\ mounted \in BOOLEAN
  /\ DOMAIN files["local"] \subseteq stray
  /\ IsSeq(rows) /\ IsSeq(tx)
  /\ h = [p \in Handlers |-> h[p]]
  /\ \A p \in Handlers : h[p] = Idle \/ Queued(h[p])
  /\ \A i \in DOMAIN rows : Landed(rows[i].key, rows[i].pdf)

-----------------------------------------------------------------------------
(* What no step takes back.                                                *)
StoreGrows ==
  /\ stray \subseteq stray'
  /\ \A key \in DOMAIN files["nas"] :
       key \in DOMAIN files'["nas"] /\ files'["nas"][key] = files["nas"][key]

TxGrows == \A t \in DOMAIN tx : t \in DOMAIN tx' /\ tx'[t].party = tx[t].party

LEMMA LandedStays ==
  ASSUME StoreGrows
  PROVE  \A key, pdf : Landed(key, pdf) => Landed(key, pdf)'
BY DEF StoreGrows, Landed

LEMMA StoredStays ==
  ASSUME StoreGrows
  PROVE  \A todo, key, pdf : Stored(todo, key, pdf) => Stored(todo, key, pdf)'
BY LandedStays DEF Stored, Owed

LEMMA BackedStays ==
  ASSUME StoreGrows, TxGrows
  PROVE  \A todo, c : Backed(todo, c) => Backed(todo, c)'
<1>. SUFFICES ASSUME NEW todo, NEW c, Backed(todo, c)
              PROVE  Backed(todo, c)'
  OBVIOUS
<1>1. CASE \E pdf : c = [what |-> "compose", pdf |-> pdf]
                    /\ Stored(todo, <<"PREPARED_UNSIGNED">>, pdf)
  <2>1. PICK pdf : c = [what |-> "compose", pdf |-> pdf]
                   /\ Stored(todo, <<"PREPARED_UNSIGNED">>, pdf)
    BY <1>1
  <2>2. Stored(todo, <<"PREPARED_UNSIGNED">>, pdf)'
    BY <2>1, StoredStays, Zenon
  <2>. QED  BY <2>1, <2>2 DEF Backed
<1>2. CASE \E t \in DOMAIN tx : \E pdf :
             c = [what |-> "complete", tx |-> t, pdf |-> pdf]
             /\ Stored(todo, <<StateAfter(tx[t].party)>>, pdf)
  <2>1. PICK t, pdf :
          /\ t \in DOMAIN tx
          /\ c = [what |-> "complete", tx |-> t, pdf |-> pdf]
          /\ Stored(todo, <<StateAfter(tx[t].party)>>, pdf)
    BY <1>2
  <2>2. t \in DOMAIN tx' /\ tx'[t].party = tx[t].party
    BY <2>1 DEF TxGrows
  <2>3. Stored(todo, <<StateAfter(tx[t].party)>>, pdf)'
    BY <2>1, <2>2, StoredStays DEF StateAfter
  <2>. QED  BY <2>1, <2>2, <2>3 DEF Backed
<1>3. CASE \E party, digest, key :
             c = [what |-> "begin", party |-> party, digest |-> digest, key |-> key]
  BY <1>3 DEF Backed
<1>. QED  BY <1>1, <1>2, <1>3 DEF Backed

LEMMA QueuedStays ==
  ASSUME StoreGrows, TxGrows
  PROVE  \A j : Queued(j) => Queued(j)'
BY BackedStays, Zenon DEF Queued

(* The handlers of StoreInv, when a step moves some of them.               *)
HandlersInv == \A p \in Handlers : h[p] = Idle \/ Queued(h[p])

LEMMA HandlersStay ==
  ASSUME StoreInv, StoreGrows, TxGrows,
         \A q \in Handlers : h'[q] = h[q] \/ (h[q] = Idle \/ Queued(h[q]))'
  PROVE  HandlersInv'
<1>. SUFFICES ASSUME NEW q \in Handlers, h'[q] = h[q]
              PROVE  (h[q] = Idle \/ Queued(h[q]))'
  BY DEF HandlersInv
<1>1. h[q] = Idle \/ Queued(h[q])
  BY DEF StoreInv
<1>2. CASE h[q] = Idle
  BY <1>2 DEF Idle
<1>3. CASE Queued(h[q])
  BY <1>3, QueuedStays, Zenon
<1>. QED  BY <1>1, <1>2, <1>3

(* The rows of StoreInv, when a step leaves them or appends one.           *)
RowsInv == \A i \in DOMAIN rows : Landed(rows[i].key, rows[i].pdf)

LEMMA RowsStay ==
  ASSUME StoreInv, StoreGrows, rows' = rows
  PROVE  RowsInv' /\ IsSeq(rows)'
<1>1. \A i \in DOMAIN rows : Landed(rows[i].key, rows[i].pdf)'
  BY LandedStays DEF StoreInv
<1>. QED  BY <1>1 DEF RowsInv, Landed, StoreInv

LEMMA RowAppended ==
  ASSUME StoreInv, StoreGrows, NEW state, NEW key, NEW pdf,
         AddRow(state, key, pdf), Landed(key, pdf)
  PROVE  RowsInv' /\ IsSeq(rows)'
<1>. DEFINE r == [state |-> state, key |-> key, pdf |-> pdf]
<1>1. rows' = Append(rows, r) /\ IsSeq(rows)
  BY DEF AddRow, StoreInv
<1>2. /\ IsSeq(rows') /\ Len(rows) \in Nat
      /\ DOMAIN rows' = 1..(Len(rows) + 1) /\ DOMAIN rows = 1..Len(rows)
      /\ \A i \in 1..Len(rows) : rows'[i] = rows[i]
      /\ rows'[Len(rows) + 1] = r
  BY <1>1, Appended
<1>3. SUFFICES ASSUME NEW i \in DOMAIN rows' PROVE Landed(rows[i].key, rows[i].pdf)'
  BY <1>2 DEF RowsInv
<1>4. CASE i \in DOMAIN rows
  <2>1. Landed(rows[i].key, rows[i].pdf)
    BY <1>4 DEF StoreInv
  <2>. QED  BY <1>2, <1>4, <2>1, LandedStays DEF Landed
<1>5. CASE i = Len(rows) + 1
  <2>1. rows'[i].key = key /\ rows'[i].pdf = pdf
    BY <1>2, <1>5
  <2>. QED  BY <2>1, LandedStays DEF Landed
<1>. QED  BY <1>2, <1>4, <1>5

(* Every step but a put and a commit that adds a row.                      *)
LEMMA StoreKept ==
  ASSUME StoreInv, UNCHANGED <<files, stray, rows>>, mounted' \in BOOLEAN,
         TxGrows, IsSeq(tx'), h' = [q \in Handlers |-> h'[q]],
         \A q \in Handlers : h'[q] = h[q] \/ (h[q] = Idle \/ Queued(h[q]))'
  PROVE  StoreInv'
<1>1. StoreGrows
  BY DEF StoreGrows
<1>2. HandlersInv'
  BY <1>1, HandlersStay
<1>3. RowsInv' /\ IsSeq(rows)'
  BY <1>1, RowsStay
<1>4. /\ files' = [d \in Disks |-> files'[d]]
      /\ DOMAIN files'["local"] \subseteq stray'
  BY DEF StoreInv, Disks
<1>. QED  BY <1>2, <1>3, <1>4 DEF StoreInv, HandlersInv, RowsInv

LEMMA TxKept ==
  ASSUME StoreInv, tx' = tx
  PROVE  TxGrows /\ IsSeq(tx')
BY DEF TxGrows, StoreInv

LEMMA TxMarked ==
  ASSUME StoreInv, NEW t \in DOMAIN tx, NEW s, SetTxStatus(t, s)
  PROVE  TxGrows /\ IsSeq(tx')
<1>1. PICK S : tx \in Seq(S)
  BY DEF StoreInv, IsSeq
<1>. DEFINE r == [tx[t] EXCEPT !.status = s]  T == S \cup {r}
<1>2. tx' = [tx EXCEPT ![t] = r]
  BY DEF SetTxStatus
<1>3. r.party = tx[t].party
  OBVIOUS
<1>. HIDE DEF r
<1>4. tx \in Seq(T) /\ r \in T
  BY <1>1
<1>. HIDE DEF T
<1>5. tx' \in Seq(T) /\ DOMAIN tx' = DOMAIN tx
  BY <1>2, <1>4
<1>6. \A i \in DOMAIN tx : tx'[i] = IF i = t THEN r ELSE tx[i]
  BY <1>2, <1>4
<1>. QED  BY <1>3, <1>5, <1>6 DEF TxGrows, IsSeq

(* A job whose objects are still to be put.                                *)
LEMMA JobTaken ==
  ASSUME StoreInv, NEW p \in Handlers, NEW todo, NEW c, IsSeq(todo), Backed(todo, c),
         h' = [h EXCEPT ![p] = Job(todo, c)], UNCHANGED <<files, mounted, stray, rows, tx>>
  PROVE  StoreInv'
<1>1. StoreGrows /\ TxGrows
  BY DEF StoreGrows, TxGrows
<1>. DEFINE j == Job(todo, c)
<1>2. Queued(j)
  BY DEF Queued, Job, Task
<1>. HIDE DEF j
<1>3. ASSUME NEW q \in Handlers PROVE h'[q] = h[q] \/ Queued(h[q])'
  <2>1. \A i : Queued(i) => Queued(i)'
    BY <1>1, QueuedStays
  <2>2. h'[q] = h[q] \/ h'[q] = j
    BY DEF StoreInv, j
  <2>. QED  BY <1>2, <2>1, <2>2
<1>4. h' = [q \in Handlers |-> h'[q]]
  BY DEF StoreInv
<1>. QED  BY <1>3, <1>4, TxKept, StoreKept DEF StoreInv

LEMMA ComposeKeepsStore ==
  ASSUME StoreInv, NEW p \in Handlers, NEW kind \in Uploads, Compose(p, kind)
  PROVE  StoreInv'
<1>. DEFINE flat  == Flat(kind, edition')
            early == [i \in DOMAIN Artifacts(kind) |-> Object(Artifacts(kind)[i], flat)]
            last  == Object(<<"PREPARED_UNSIGNED">>, Prepare(flat))
            todo  == Append(early, last)
            c     == [what |-> "compose", pdf |-> last.pdf]
<1>1. h' = [h EXCEPT ![p] = Job(todo, c)] /\ UNCHANGED <<files, mounted, stray, rows, tx>>
  BY DEF Compose, store
<1>2. IsSeq(early)
  <2>1. DOMAIN Artifacts(kind) = 1..1 \/ DOMAIN Artifacts(kind) = 1..2
    BY DEF Artifacts
  <2>. DEFINE S == {Object(Artifacts(kind)[i], flat) : i \in DOMAIN Artifacts(kind)}
  <2>2. early \in [1..1 -> S] \/ early \in [1..2 -> S]
    BY <2>1
  <2>. HIDE DEF early, S
  <2>3. early \in Seq(S)
    BY <2>2, SeqDef
  <2>. QED  BY <2>3 DEF IsSeq
<1>. HIDE DEF early, flat
<1>3. last = Object(<<"PREPARED_UNSIGNED">>, last.pdf)
  BY DEF Object
<1>. HIDE DEF last
<1>4. IsSeq(todo) /\ Len(early) + 1 \in DOMAIN todo /\ todo[Len(early) + 1] = last
  BY <1>2, Appended
<1>. HIDE DEF todo
<1>5. Owed(todo, <<"PREPARED_UNSIGNED">>, last.pdf)
  BY <1>3, <1>4 DEF Owed
<1>6. Backed(todo, c)
  BY <1>5 DEF Backed, Stored
<1>. HIDE DEF c
<1>. QED  BY <1>1, <1>4, <1>6, JobTaken

LEMMA BeginKeepsStore ==
  ASSUME StoreInv, NEW p \in Handlers, NEW party \in Parties, BeginSignature(p, party)
  PROVE  StoreInv'
<1>1. UNCHANGED <<files, mounted, stray, rows, tx>>
  BY DEF BeginSignature, store
<1>2. CASE h' = h
  BY <1>1, <1>2, TxKept, StoreKept DEF StoreInv
<1>3. CASE h' # h
  <2>. DEFINE slot == PrepareSlot(Get(Last(rows).key), FieldOf(party))
              key  == <<"pending", party, slot.digest>>
              todo == IF Readable(key) THEN <<>> ELSE <<Object(key, slot.pdf)>>
              c    == [what |-> "begin", party |-> party, digest |-> slot.digest, key |-> key]
  <2>1. h' = [h EXCEPT ![p] = Job(todo, c)]
    BY <1>3 DEF BeginSignature
  <2>2. IsSeq(todo)
    BY EmptyIsSeq, SingletonIsSeq
  <2>. HIDE DEF slot, key, todo
  <2>3. Backed(todo, c)
    BY DEF Backed
  <2>. HIDE DEF c
  <2>. QED  BY <1>1, <2>1, <2>2, <2>3, JobTaken
<1>. QED  BY <1>2, <1>3

LEMMA CompleteKeepsStore ==
  ASSUME StoreInv, NEW p \in Handlers, NEW t \in DOMAIN tx, CompleteSignature(p, t)
  PROVE  StoreInv'
<1>. DEFINE signed == Signed(t, provider[t].der)
            todo   == <<Object(<<StateAfter(tx[t].party)>>, signed)>>
            c      == [what |-> "complete", tx |-> t, pdf |-> signed]
<1>1. h' = [h EXCEPT ![p] = Job(todo, c)] /\ UNCHANGED <<files, mounted, stray, rows, tx>>
  BY DEF CompleteSignature, store
<1>. HIDE DEF signed
<1>2. IsSeq(todo) /\ todo[1] = Object(<<StateAfter(tx[t].party)>>, signed) /\ DOMAIN todo = 1..1
  BY SingletonIsSeq
<1>. HIDE DEF todo
<1>3. Owed(todo, <<StateAfter(tx[t].party)>>, signed)
  BY <1>2 DEF Owed
<1>4. Backed(todo, c)
  BY <1>3 DEF Backed, Stored
<1>. HIDE DEF c
<1>. QED  BY <1>1, <1>2, <1>4, JobTaken

(* A handler's record, moved one object on or past the health check.       *)
Moved(r, rest) == [r EXCEPT !.todo = rest, !.checked = "no"]

LEMMA JobMoved ==
  ASSUME NEW r, NEW todo, NEW checked, NEW c, NEW rest, r = Task(todo, checked, c)
  PROVE  Moved(r, rest) = Task(rest, "no", c)
<1>1. r \in [pc : {"put"}, todo : {todo}, checked : {checked}, commit : {c}]
  BY DEF Task
<1>. DEFINE j == Moved(r, rest)
<1>2. j \in [pc : {"put"}, todo : {rest}, checked : {"no"}, commit : {c}]
  BY <1>1 DEF Moved
<1>. HIDE DEF j
<1>3. j = Task(rest, "no", c)
  BY <1>2 DEF Task
<1>. QED  BY <1>3 DEF j

LEMMA JobChecked ==
  ASSUME NEW r, NEW todo, NEW checked, NEW c, NEW disk,
         r = Task(todo, checked, c)
  PROVE  [r EXCEPT !.checked = disk]
         = Task(todo, disk, c)
<1>1. r \in [pc : {"put"}, todo : {todo}, checked : {checked}, commit : {c}]
  BY DEF Task
<1>. DEFINE j == [r EXCEPT !.checked = disk]
<1>2. j \in [pc : {"put"}, todo : {todo}, checked : {disk}, commit : {c}]
  BY <1>1
<1>. HIDE DEF j
<1>3. j = Task(todo, disk, c)
  BY <1>2 DEF Task
<1>. QED  BY <1>3 DEF j

(* A put: the object at the head of the queue lands, on the share or not.  *)
LEMMA WriteKeepsStore ==
  ASSUME StoreInv, NEW p \in Handlers, Write(p)
  PROVE  StoreInv'
<1>1. PICK todo, checked, c :
        /\ h[p] = Task(todo, checked, c)
        /\ IsSeq(todo) /\ checked \in {"no", "nas"} /\ Backed(todo, c)
  BY DEF StoreInv, Queued, Write, Busy
<1>. DEFINE o == Head(todo)
            f == [key \in DOMAIN files[Root] \cup {o.key} |->
                    IF key = o.key THEN o.pdf ELSE files[Root][key]]
            j == Task(Tail(todo), "no", c)
<1>2. /\ todo # <<>> /\ checked = "nas" /\ o.key \notin DOMAIN files[Root]
      /\ files' = [files EXCEPT ![Root] = f]
      /\ stray' = IF Root = checked THEN stray ELSE stray \cup {o.key}
      /\ UNCHANGED <<mounted, rows, tx>>
  BY <1>1 DEF Write, CanLink, Readable, Task
<1>3. h' = [h EXCEPT ![p] = j]
  <2>1. h' = [h EXCEPT ![p].todo = Tail(@), ![p].checked = "no"] /\ h = [q \in Handlers |-> h[q]]
    BY DEF Write, StoreInv
  <2>2. h' = [h EXCEPT ![p] = [h[p] EXCEPT !.todo = Tail(@), !.checked = "no"]]
    BY <2>1
  <2>3. h[p] = Task(todo, checked, c)
    BY <1>1
  <2>. DEFINE rest == Tail(h[p].todo)
  <2>4. rest = Tail(todo)
    BY <2>3 DEF Task
  <2>5. h' = [h EXCEPT ![p] = Moved(h[p], rest)]
    BY <2>2 DEF Moved
  <2>. HIDE DEF rest
  <2>6. Moved(h[p], rest) = Task(rest, "no", c)
    BY <2>3, JobMoved
  <2>. QED  BY <2>4, <2>5, <2>6
<1>4. /\ \A key \in DOMAIN files[Root] : key \in DOMAIN f /\ f[key] = files[Root][key]
      /\ o.key \in DOMAIN f /\ f[o.key] = o.pdf
      /\ DOMAIN f = DOMAIN files[Root] \cup {o.key}
  BY <1>2
<1>. HIDE DEF o, f, j
<1>5. /\ Root \in {"nas", "local"}
      /\ Root = "nas"   => files'["nas"] = f /\ files'["local"] = files["local"]
      /\ Root = "local" => files'["local"] = f /\ files'["nas"] = files["nas"]
      /\ files' = [d \in Disks |-> files'[d]]
  BY <1>2 DEF StoreInv, Root, Disks
<1>6. stray \subseteq stray' /\ (Root = "local" => stray' = stray \cup {o.key})
  BY <1>2
<1>7. StoreGrows
  BY <1>4, <1>5, <1>6 DEF StoreGrows
<1>8. TxGrows /\ IsSeq(tx')
  BY <1>2, TxKept
<1>9. DOMAIN files'["local"] \subseteq stray'
  BY <1>4, <1>5, <1>6 DEF StoreInv
<1>10. Landed(o.key, o.pdf)'
  BY <1>4, <1>5, <1>6 DEF Landed
<1>11. /\ IsSeq(Tail(todo)) /\ o = todo[1]
       /\ \A i \in DOMAIN todo :
            i = 1 \/ (i - 1 \in DOMAIN Tail(todo) /\ Tail(todo)[i - 1] = todo[i])
  BY <1>1, <1>2, Tailed DEF o
<1>12. ASSUME NEW key, NEW pdf, Stored(todo, key, pdf)
       PROVE  Stored(Tail(todo), key, pdf)'
  <2>1. CASE Landed(key, pdf)
    BY <2>1, <1>7, LandedStays DEF Stored
  <2>2. CASE Owed(todo, key, pdf)
    <3>1. PICK i \in DOMAIN todo : todo[i] = Object(key, pdf)
      BY <2>2 DEF Owed
    <3>2. CASE i = 1
      BY <3>1, <3>2, <1>10, <1>11 DEF Object, Stored, Landed
    <3>3. CASE i # 1
      BY <3>1, <3>3, <1>11 DEF Stored, Owed
    <3>. QED  BY <3>2, <3>3
  <2>. QED  BY <1>12, <2>1, <2>2 DEF Stored
<1>13. Backed(Tail(todo), c)'
  <2>1. CASE \E pdf : c = [what |-> "compose", pdf |-> pdf]
                      /\ Stored(todo, <<"PREPARED_UNSIGNED">>, pdf)
    BY <2>1, <1>12 DEF Backed
  <2>2. CASE \E t \in DOMAIN tx : \E pdf :
               c = [what |-> "complete", tx |-> t, pdf |-> pdf]
               /\ Stored(todo, <<StateAfter(tx[t].party)>>, pdf)
    BY <2>2, <1>2, <1>12 DEF Backed
  <2>3. CASE \E party, digest, key :
               c = [what |-> "begin", party |-> party, digest |-> digest, key |-> key]
    BY <2>3 DEF Backed
  <2>. QED  BY <1>1, <2>1, <2>2, <2>3 DEF Backed
<1>14. Queued(Task(Tail(todo), "no", c))'
  BY <1>11, <1>13 DEF Queued
<1>15. /\ h' = [q \in Handlers |-> h'[q]]
       /\ \A q \in Handlers : h'[q] = h[q] \/ Queued(h[q])'
  BY <1>3, <1>14 DEF StoreInv, j
<1>16. HandlersInv' /\ RowsInv' /\ IsSeq(rows)'
  BY <1>2, <1>7, <1>8, <1>15, HandlersStay, RowsStay
<1>. QED  BY <1>2, <1>5, <1>8, <1>9, <1>15, <1>16 DEF StoreInv, HandlersInv, RowsInv

LEMMA CheckKeepsStore ==
  ASSUME StoreInv, NEW p \in Handlers, CheckHealth(p)
  PROVE  StoreInv'
<1>1. PICK todo, checked, c :
        /\ h[p] = Task(todo, checked, c)
        /\ IsSeq(todo) /\ Backed(todo, c)
  BY DEF StoreInv, Queued, CheckHealth, Busy
<1>. DEFINE j == Task(todo, "nas", c)
<1>2. Root = "nas" /\ UNCHANGED <<files, mounted, stray, rows, tx>>
  BY DEF CheckHealth, Healthy, Root, store
<1>3. [h[p] EXCEPT !.checked = "nas"] = j
  <2>1. h[p] = Task(todo, checked, c)
    BY <1>1
  <2>. QED  BY <2>1, JobChecked
<1>4. h' = [h EXCEPT ![p] = j]
  BY <1>2, <1>3 DEF CheckHealth, StoreInv
<1>5. Queued(j)
  BY <1>1 DEF Queued
<1>. HIDE DEF j
<1>6. StoreGrows /\ TxGrows
  BY <1>2 DEF StoreGrows, TxGrows
<1>7. \A q \in Handlers : h'[q] = h[q] \/ Queued(h[q])'
  <2>1. \A i : Queued(i) => Queued(i)'
    BY <1>6, QueuedStays
  <2>2. \A q \in Handlers : h'[q] = h[q] \/ h'[q] = j
    BY <1>4 DEF StoreInv
  <2>. QED  BY <1>5, <2>1, <2>2
<1>8. h' = [q \in Handlers |-> h'[q]]
  BY <1>4 DEF StoreInv
<1>. QED  BY <1>2, <1>7, <1>8, TxKept, StoreKept DEF StoreInv

(* The handler returns and nothing in the store or the rows changes.       *)
LEMMA ReturnKeepsStore ==
  ASSUME StoreInv, NEW p \in Handlers, Returns(p), TxGrows, IsSeq(tx'),
         UNCHANGED <<files, mounted, stray, rows>>
  PROVE  StoreInv'
<1>1. /\ h' = [q \in Handlers |-> h'[q]]
      /\ \A q \in Handlers : h'[q] = h[q] \/ h'[q] = Idle
  BY DEF StoreInv, Returns
<1>2. \A q \in Handlers : h'[q] = h[q] \/ (h[q] = Idle \/ Queued(h[q]))'
  BY <1>1 DEF Idle
<1>. QED  BY <1>1, <1>2, StoreKept DEF StoreInv

(* A commit that adds a row: nothing is left to be put.                    *)
LEMMA CommitKeepsStore ==
  ASSUME StoreInv, NEW p \in Handlers, Returns(p), TxGrows, IsSeq(tx'),
         UNCHANGED <<files, mounted, stray>>,
         NEW state, NEW key, NEW pdf, AddRow(state, key, pdf), Stored(<<>>, key, pdf)
  PROVE  StoreInv'
<1>1. StoreGrows
  BY DEF StoreGrows
<1>2. Landed(key, pdf)
  BY EmptyIsSeq DEF Stored, Owed
<1>3. RowsInv' /\ IsSeq(rows)'
  BY <1>1, <1>2, RowAppended
<1>4. /\ h' = [q \in Handlers |-> h'[q]]
      /\ \A q \in Handlers : h'[q] = h[q] \/ h'[q] = Idle
  BY DEF StoreInv, Returns
<1>5. HandlersInv'
  <2>1. \A q \in Handlers : h'[q] = h[q] \/ (h[q] = Idle \/ Queued(h[q]))'
    BY <1>4 DEF Idle
  <2>. QED  BY <2>1, <1>1, HandlersStay
<1>. QED  BY <1>3, <1>4, <1>5 DEF StoreInv, HandlersInv, RowsInv, Disks

LEMMA CommitComposeKeepsStore ==
  ASSUME StoreInv, NEW p \in Handlers, CommitCompose(p)
  PROVE  StoreInv'
<1>1. PICK todo, checked, c :
        /\ h[p] = Task(todo, checked, c)
        /\ Backed(todo, c)
  BY DEF StoreInv, Queued, CommitCompose, Busy
<1>2. /\ todo = <<>> /\ c.what = "compose" /\ Returns(p)
      /\ AddRow("UNSIGNED", <<"PREPARED_UNSIGNED">>, c.pdf)
      /\ UNCHANGED <<files, mounted, stray, tx>>
  BY <1>1 DEF CommitCompose, store, Task
<1>3. Stored(<<>>, <<"PREPARED_UNSIGNED">>, c.pdf)
  <2>1. ~\E t \in DOMAIN tx : \E pdf : c = [what |-> "complete", tx |-> t, pdf |-> pdf]
    BY <1>2
  <2>2. ~\E party, digest, key :
             c = [what |-> "begin", party |-> party, digest |-> digest, key |-> key]
    BY <1>2
  <2>3. PICK pdf : c = [what |-> "compose", pdf |-> pdf]
                   /\ Stored(todo, <<"PREPARED_UNSIGNED">>, pdf)
    BY <1>1, <2>1, <2>2, Zenon DEF Backed
  <2>4. c.pdf = pdf
    BY <2>3
  <2>. QED  BY <1>2, <2>3, <2>4
<1>. QED  BY <1>2, <1>3, TxKept, CommitKeepsStore

LEMMA CommitSignatureKeepsStore ==
  ASSUME StoreInv, NEW p \in Handlers, CommitSignature(p)
  PROVE  StoreInv'
<1>1. PICK todo, checked, c :
        /\ h[p] = Task(todo, checked, c)
        /\ Backed(todo, c)
  BY DEF StoreInv, Queued, CommitSignature, Busy
<1>. DEFINE after == StateAfter(tx[c.tx].party)
<1>2. /\ todo = <<>> /\ c.what = "complete" /\ Returns(p)
      /\ AddRow(after, <<after>>, c.pdf) /\ SetTxStatus(c.tx, "SIGNED")
      /\ UNCHANGED <<files, mounted, stray>>
  BY <1>1 DEF CommitSignature, store, Task
<1>3. c.tx \in DOMAIN tx /\ Stored(<<>>, <<after>>, c.pdf)
  <2>1. PICK t, pdf :
          /\ t \in DOMAIN tx
          /\ c = [what |-> "complete", tx |-> t, pdf |-> pdf]
          /\ Stored(todo, <<StateAfter(tx[t].party)>>, pdf)
    <3>1. ~\E x : c = [what |-> "compose", pdf |-> x]
      BY <1>2
    <3>2. ~\E party, digest, key :
             c = [what |-> "begin", party |-> party, digest |-> digest, key |-> key]
      BY <1>2
    <3>. QED  BY <1>1, <3>1, <3>2, Zenon DEF Backed
  <2>2. c.tx = t /\ c.pdf = pdf
    BY <2>1
  <2>. QED  BY <1>2, <2>1, <2>2
<1>4. TxGrows /\ IsSeq(tx')
  BY <1>2, <1>3, TxMarked
<1>. HIDE DEF after
<1>. QED  BY <1>2, <1>3, <1>4, CommitKeepsStore

LEMMA BeginCommitKeepsStore ==
  ASSUME StoreInv, NEW p \in Handlers, CommitBegin(p)
  PROVE  StoreInv'
<1>1. PICK r : tx' = Append(tx, r)
  BY DEF CommitBegin
<1>2. IsSeq(tx) /\ Returns(p) /\ UNCHANGED <<files, mounted, stray, rows>>
  BY DEF CommitBegin, store, StoreInv
<1>3. TxGrows /\ IsSeq(tx')
  BY <1>1, <1>2, Appended DEF TxGrows
<1>. QED  BY <1>2, <1>3, ReturnKeepsStore

LEMMA HandlerKeepsStore ==
  ASSUME StoreInv, NEW p \in Handlers, HandlerStep(p)
  PROVE  StoreInv'
<1>1. ASSUME NEW kind \in Uploads, Compose(p, kind) PROVE StoreInv'
  BY <1>1, ComposeKeepsStore
<1>2. ASSUME NEW party \in Parties, BeginSignature(p, party) PROVE StoreInv'
  BY <1>2, BeginKeepsStore
<1>3. ASSUME NEW t \in DOMAIN tx, CompleteSignature(p, t) PROVE StoreInv'
  BY <1>3, CompleteKeepsStore
<1>4. CASE CheckHealth(p)
  BY <1>4, CheckKeepsStore
<1>5. CASE Write(p)
  BY <1>5, WriteKeepsStore
<1>6. CASE PutRefused(p)
  BY <1>6, TxKept, ReturnKeepsStore DEF PutRefused, store
<1>7. CASE CommitCompose(p)
  BY <1>7, CommitComposeKeepsStore
<1>8. CASE CommitBegin(p)
  BY <1>8, BeginCommitKeepsStore
<1>9. CASE CommitSignature(p)
  BY <1>9, CommitSignatureKeepsStore
<1>10. CASE CommitRefused(p)
  BY <1>10, TxKept, ReturnKeepsStore DEF CommitRefused, store
<1>11. CASE Interrupted(p)
  BY <1>11, TxKept, ReturnKeepsStore DEF Interrupted, store
<1>. QED  BY <1>1, <1>2, <1>3, <1>4, <1>5, <1>6, <1>7, <1>8, <1>9, <1>10, <1>11 DEF HandlerStep

(* A step that leaves the handlers alone, the rows and the store as well.  *)
LEMMA RestKeepsStore ==
  ASSUME StoreInv, UNCHANGED <<files, stray, rows, h>>, mounted' \in BOOLEAN,
         TxGrows, IsSeq(tx')
  PROVE  StoreInv'
BY StoreKept DEF StoreInv

LEMMA NextKeepsStore ==
  ASSUME StoreInv, [Next]_vars
  PROVE  StoreInv'
<1>1. ASSUME NEW p \in Handlers, HandlerStep(p) PROVE StoreInv'
  BY <1>1, HandlerKeepsStore
<1>2. ASSUME NEW t \in DOMAIN tx, CompleteCeremony(t) \/ FailCeremony(t) PROVE StoreInv'
  BY <1>2, TxKept, RestKeepsStore DEF CompleteCeremony, FailCeremony, store, StoreInv
<1>3. ASSUME NEW t \in DOMAIN tx, FailSignature(t) PROVE StoreInv'
  BY <1>3, TxMarked, RestKeepsStore DEF FailSignature, store, StoreInv
<1>4. CASE Mount \/ Unmount
  BY <1>4, TxKept, RestKeepsStore DEF Mount, Unmount, StoreInv
<1>5. CASE Restart
  <2>1. /\ h' = [p \in Handlers |-> Idle] /\ UNCHANGED <<files, mounted, stray, rows, tx>>
    BY <1>5 DEF Restart, store
  <2>2. \A q \in Handlers : (h[q] = Idle)'
    BY <2>1 DEF Idle
  <2>. QED  BY <2>1, <2>2, TxKept, StoreKept DEF StoreInv
<1>6. CASE UNCHANGED vars
  BY <1>6, TxKept, RestKeepsStore DEF vars, store, StoreInv
<1>. QED  BY <1>1, <1>2, <1>3, <1>4, <1>5, <1>6 DEF Next

LEMMA StoreInvariant == Spec => []StoreInv
<1>1. Init => StoreInv
  BY EmptyIsSeq DEF Init, StoreInv, Idle, Disks
<1>2. StoreInv /\ [Next]_vars => StoreInv'
  BY NextKeepsStore
<1>. QED  BY <1>1, <1>2, PTL DEF Spec

(* For any number of handlers, attempts and faults, and whichever disks    *)
(* carry the marker: a document the database names is on the share with    *)
(* the bytes that were hashed, unless the share went away between the      *)
(* health check and the link of that object (storage.driver.ts put).       *)
THEOREM RecordedReadable == Spec => []RecordedDocumentsReadable
<1>1. StoreInv => RecordedDocumentsReadable
  BY DEF StoreInv, RecordedDocumentsReadable, Landed
<1>. QED  BY <1>1, StoreInvariant, PTL

-----------------------------------------------------------------------------
(* What the two signature theorems need to know of a state in which no put *)
(* has lost the share.  The document a party signs is the row before its   *)
(* own; its slot is drawn on that row's bytes and parked under them.       *)
HasBase(party) == Before(party) + 1 \in DOMAIN rows
Base(party)    == rows[Before(party) + 1].pdf
Drawn(party, digest)   == HasBase(party) /\ digest = Slotted(Base(party), party, Gap)
ParkKey(party, digest) == <<"pending", party, digest>>
Genuine(key, pdf) == \A party, digest : key = ParkKey(party, digest) => pdf = digest

(* What a handler puts and commits.                                        *)
Vouched(todo, c) ==
  /\ \A i \in DOMAIN todo : Genuine(todo[i].key, todo[i].pdf)
  /\ \/ \E pdf : c = [what |-> "compose", pdf |-> pdf] /\ \E n \in {2, 3} : Shape(pdf, n, 1)
     \/ \E t \in DOMAIN tx : \E der :
          LET party == tx[t].party  pdf == Slotted(Base(party), party, der)
          IN /\ c = [what |-> "complete", tx |-> t, pdf |-> pdf]
             /\ der.signer = party /\ IntegrityAfterSigning(pdf, Before(party) + 1)
     \/ \E party \in Parties : \E digest :
          /\ c = [what |-> "begin", party |-> party, digest |-> digest,
                   key |-> ParkKey(party, digest)]
          /\ Drawn(party, digest) /\ Stored(todo, ParkKey(party, digest), digest)

Trusted(j) == \E todo, checked, c :
  j = Task(todo, checked, c) /\ IsSeq(todo) /\ Vouched(todo, c)

SealedHandlers == \A p \in Handlers : h[p] = Idle \/ Trusted(h[p])

SealedFiles == \A key \in DOMAIN files["nas"] : Genuine(key, files["nas"][key])

SealedTx == \A t \in DOMAIN tx : \E party \in Parties : \E digest :
  /\ tx[t].party = party /\ tx[t].digest = digest /\ tx[t].key = ParkKey(party, digest)
  /\ Drawn(party, digest) /\ Landed(ParkKey(party, digest), digest)
  /\ provider[t].status = "SIGNED" => provider[t].der.signer = party

(* Every row is a document of as many revisions as rows up to it, on the   *)
(* one before it, and its signatures verify.                               *)
Linked(i) ==
  i > 1 => /\ rows[i - 1].pdf = Front(rows[i].pdf)
           /\ \A s \in FindSignatures(rows[i].pdf) : Valid(rows[i].pdf, s)

SealedRows ==
  /\ \E n \in {2, 3} : \A i \in DOMAIN rows : Shape(rows[i].pdf, n, i)
  /\ \A i \in DOMAIN rows : Linked(i)

Sealed == SealedHandlers /\ SealedFiles /\ SealedTx /\ SealedRows

SealInv ==
  /\ stage = "draft" => rows = <<>>
  /\ IsSeq(provider) /\ Len(provider) = Len(tx) /\ DOMAIN provider = DOMAIN tx
  /\ stray = {} => Sealed

-----------------------------------------------------------------------------
(* What no step takes back of the rows and the transactions.               *)
RowsGrow == \A i \in DOMAIN rows : i \in DOMAIN rows' /\ rows'[i] = rows[i]

TxFixed == \A t \in DOMAIN tx :
  /\ t \in DOMAIN tx' /\ tx'[t].party = tx[t].party
  /\ tx'[t].digest = tx[t].digest /\ tx'[t].key = tx[t].key

LEMMA DrawnStays ==
  ASSUME RowsGrow
  PROVE  \A party, digest : Drawn(party, digest) => Drawn(party, digest)'
<1>. SUFFICES ASSUME NEW party, NEW digest, Drawn(party, digest)
              PROVE  Drawn(party, digest)'
  OBVIOUS
<1>1. HasBase(party)' /\ Base(party)' = Base(party)
  BY DEF Drawn, HasBase, Base, RowsGrow, Before
<1>. QED  BY <1>1 DEF Drawn

LEMMA BaseStays ==
  ASSUME RowsGrow, TxFixed, SealedTx, NEW t \in DOMAIN tx
  PROVE  HasBase(tx[t].party) /\ Base(tx[t].party)' = Base(tx[t].party)
<1>1. PICK party, digest : party \in Parties /\ tx[t].party = party /\ Drawn(party, digest)
  BY DEF SealedTx
<1>2. HasBase(party) /\ rows'[Before(party) + 1] = rows[Before(party) + 1]
  BY <1>1 DEF Drawn, HasBase, RowsGrow
<1>3. tx'[t].party = party
  BY <1>1 DEF TxFixed
<1>. QED  BY <1>1, <1>2, <1>3 DEF Base, Before

LEMMA VouchedStays ==
  ASSUME StoreGrows, RowsGrow, TxFixed, SealedTx
  PROVE  \A todo, c : Vouched(todo, c) => Vouched(todo, c)'
<1>. SUFFICES ASSUME NEW todo, NEW c, Vouched(todo, c)
              PROVE  Vouched(todo, c)'
  OBVIOUS
<1>1. (\A i \in DOMAIN todo : Genuine(todo[i].key, todo[i].pdf))'
  BY DEF Vouched, Genuine, ParkKey
<1>2. CASE \E pdf : c = [what |-> "compose", pdf |-> pdf] /\ \E n \in {2, 3} : Shape(pdf, n, 1)
  BY <1>1, <1>2 DEF Vouched
<1>3. CASE \E t \in DOMAIN tx : \E der :
             LET party == tx[t].party  pdf == Slotted(Base(party), party, der)
             IN /\ c = [what |-> "complete", tx |-> t, pdf |-> pdf]
                /\ der.signer = party /\ IntegrityAfterSigning(pdf, Before(party) + 1)
  <2>1. PICK t, der :
          LET party == tx[t].party  pdf == Slotted(Base(party), party, der)
          IN /\ t \in DOMAIN tx
             /\ c = [what |-> "complete", tx |-> t, pdf |-> pdf]
             /\ der.signer = party /\ IntegrityAfterSigning(pdf, Before(party) + 1)
    BY <1>3
  <2>2. t \in DOMAIN tx' /\ tx'[t].party = tx[t].party /\ Base(tx[t].party)' = Base(tx[t].party)
    BY <2>1, BaseStays DEF TxFixed
  <2>3. LET party == tx'[t].party  pdf == Slotted(Base(tx[t].party)', party, der)
        IN /\ c = [what |-> "complete", tx |-> t, pdf |-> pdf]
           /\ der.signer = party /\ IntegrityAfterSigning(pdf, Before(party) + 1)
    BY <2>1, <2>2
  <2>. QED  BY <1>1, <2>2, <2>3 DEF Vouched
<1>4. CASE \E party \in Parties : \E digest :
             /\ c = [what |-> "begin", party |-> party, digest |-> digest,
                      key |-> ParkKey(party, digest)]
             /\ Drawn(party, digest) /\ Stored(todo, ParkKey(party, digest), digest)
  <2>1. PICK party, digest :
          /\ party \in Parties
          /\ c = [what |-> "begin", party |-> party, digest |-> digest,
                   key |-> ParkKey(party, digest)]
          /\ Drawn(party, digest) /\ Stored(todo, ParkKey(party, digest), digest)
    BY <1>4
  <2>2. Drawn(party, digest)'
    BY <2>1, DrawnStays
  <2>3. Stored(todo, ParkKey(party, digest), digest)'
    BY <2>1, StoredStays DEF ParkKey
  <2>. QED  BY <1>1, <2>1, <2>2, <2>3 DEF Vouched, ParkKey
<1>. QED  BY <1>2, <1>3, <1>4 DEF Vouched

LEMMA TrustedStays ==
  ASSUME StoreGrows, RowsGrow, TxFixed, SealedTx
  PROVE  \A j : Trusted(j) => Trusted(j)'
BY VouchedStays, Zenon DEF Trusted

LEMMA HandlersStaySealed ==
  ASSUME Sealed, StoreGrows, RowsGrow, TxFixed,
         \A q \in Handlers : h'[q] = h[q] \/ (h[q] = Idle \/ Trusted(h[q]))'
  PROVE  SealedHandlers'
<1>. SUFFICES ASSUME NEW q \in Handlers, h'[q] = h[q]
              PROVE  (h[q] = Idle \/ Trusted(h[q]))'
  BY DEF SealedHandlers
<1>1. h[q] = Idle \/ Trusted(h[q])
  BY DEF Sealed, SealedHandlers
<1>2. CASE h[q] = Idle
  BY <1>2 DEF Idle
<1>3. CASE Trusted(h[q])
  <2>1. \A j : Trusted(j) => Trusted(j)'
    BY TrustedStays DEF Sealed
  <2>. QED  BY <1>3, <2>1, Zenon
<1>. QED  BY <1>1, <1>2, <1>3

LEMMA TxStaySealed ==
  ASSUME Sealed, StoreGrows, RowsGrow, TxFixed, DOMAIN tx' = DOMAIN tx,
         \A t \in DOMAIN tx :
           provider'[t].status = "SIGNED" => provider'[t].der.signer = tx[t].party
  PROVE  SealedTx'
<1>. SUFFICES ASSUME NEW t \in DOMAIN tx
              PROVE  (\E party \in Parties : \E digest :
                        /\ tx[t].party = party /\ tx[t].digest = digest
                        /\ tx[t].key = ParkKey(party, digest)
                        /\ Drawn(party, digest) /\ Landed(ParkKey(party, digest), digest)
                        /\ provider[t].status = "SIGNED" => provider[t].der.signer = party)'
  BY DEF SealedTx
<1>1. PICK party, digest :
        /\ party \in Parties
        /\ tx[t].party = party /\ tx[t].digest = digest /\ tx[t].key = ParkKey(party, digest)
        /\ Drawn(party, digest) /\ Landed(ParkKey(party, digest), digest)
  BY DEF Sealed, SealedTx
<1>2. Drawn(party, digest)' /\ Landed(ParkKey(party, digest), digest)'
  BY <1>1, DrawnStays, LandedStays DEF ParkKey, Landed
<1>3. tx'[t].party = party /\ tx'[t].digest = digest /\ tx'[t].key = ParkKey(party, digest)
  BY <1>1 DEF TxFixed
<1>. QED  BY <1>1, <1>2, <1>3 DEF ParkKey

LEMMA RowsStaySealed ==
  ASSUME SealedRows, rows' = rows
  PROVE  SealedRows'
BY DEF SealedRows, Linked

(* The share in an unstained state: whoever reads, reads from it.          *)
LEMMA ReadsTheShare ==
  ASSUME StoreInv, stray = {}, NEW key, Readable(key)
  PROVE  Root = "nas" /\ key \in DOMAIN files["nas"] /\ Get(key) = files["nas"][key]
BY DEF StoreInv, Readable, Get, Root

(* Every step but a put and the three commits.                             *)
LEMMA SealKept ==
  ASSUME StoreInv, SealInv, UNCHANGED <<files, stray, rows>>, stage' = "draft" => stage = "draft",
         TxFixed, Len(tx') = Len(tx), DOMAIN tx' = DOMAIN tx,
         IsSeq(provider'), Len(provider') = Len(provider), DOMAIN provider' = DOMAIN provider,
         Sealed => \A t \in DOMAIN tx :
           provider'[t].status = "SIGNED" => provider'[t].der.signer = tx[t].party,
         stray = {} => \A q \in Handlers : h'[q] = h[q] \/ (h[q] = Idle \/ Trusted(h[q]))'
  PROVE  SealInv'
<1>1. StoreGrows /\ RowsGrow
  BY DEF StoreGrows, RowsGrow
<1>2. ASSUME stray = {} PROVE Sealed'
  <2>1. Sealed
    BY <1>2 DEF SealInv
  <2>2. SealedHandlers'
    BY <1>1, <1>2, <2>1, HandlersStaySealed
  <2>3. SealedTx'
    BY <1>1, <2>1, TxStaySealed
  <2>4. SealedRows'
    BY <2>1, RowsStaySealed DEF Sealed
  <2>5. SealedFiles'
    BY <2>1 DEF Sealed, SealedFiles, Genuine, ParkKey
  <2>. QED  BY <2>2, <2>3, <2>4, <2>5 DEF Sealed
<1>. QED  BY <1>2 DEF SealInv

(* The same when the transactions and the provider are left alone.         *)
LEMMA SignersKept ==
  ASSUME SealInv, UNCHANGED <<tx, provider>>
  PROVE  /\ TxFixed /\ Len(tx') = Len(tx) /\ DOMAIN tx' = DOMAIN tx
         /\ IsSeq(provider') /\ Len(provider') = Len(provider)
         /\ DOMAIN provider' = DOMAIN provider
         /\ Sealed => \A t \in DOMAIN tx :
              provider'[t].status = "SIGNED" => provider'[t].der.signer = tx[t].party
<1>1. ASSUME Sealed, NEW t \in DOMAIN tx, provider[t].status = "SIGNED"
      PROVE  provider[t].der.signer = tx[t].party
  BY <1>1 DEF Sealed, SealedTx
<1>. QED  BY <1>1 DEF SealInv, TxFixed

LEMMA HandlerTaken ==
  ASSUME StoreInv, SealInv, UNCHANGED <<files, stray, rows, tx, provider>>,
         stage' = "draft" => stage = "draft",
         NEW p \in Handlers, NEW j, h' = [h EXCEPT ![p] = j],
         stray = {} => Trusted(j) \/ j = Idle
  PROVE  SealInv'
<1>1. stray = {} => \A q \in Handlers : h'[q] = h[q] \/ (h[q] = Idle \/ Trusted(h[q]))'
  <2>. SUFFICES ASSUME stray = {}, NEW q \in Handlers
                PROVE  h'[q] = h[q] \/ (h[q] = Idle \/ Trusted(h[q]))'
    OBVIOUS
  <2>1. StoreGrows /\ RowsGrow /\ TxFixed
    BY DEF StoreGrows, RowsGrow, TxFixed
  <2>2. \A i : Trusted(i) => Trusted(i)'
    BY <2>1, TrustedStays DEF SealInv, Sealed
  <2>3. h'[q] = h[q] \/ h'[q] = j
    BY DEF StoreInv
  <2>. QED  BY <2>2, <2>3 DEF Idle
<1>2. /\ TxFixed /\ Len(tx') = Len(tx) /\ DOMAIN tx' = DOMAIN tx
      /\ IsSeq(provider') /\ Len(provider') = Len(provider)
      /\ DOMAIN provider' = DOMAIN provider
      /\ Sealed => \A t \in DOMAIN tx :
           provider'[t].status = "SIGNED" => provider'[t].der.signer = tx[t].party
  BY SignersKept
<1>. QED  BY <1>1, <1>2, SealKept

LEMMA PlainKey ==
  ASSUME NEW name, NEW pdf
  PROVE  Genuine(<<name>>, pdf)
<1>1. ASSUME NEW a, NEW b, NEW c PROVE <<name>> # <<a, b, c>>
  <2>1. Len(<<name>>) = 1 /\ Len(<<a, b, c>>) = 3
    OBVIOUS
  <2>. QED  BY <2>1
<1>. QED  BY <1>1 DEF Genuine, ParkKey

LEMMA ComposeKeepsSeal ==
  ASSUME StoreInv, SealInv, NEW p \in Handlers, NEW kind \in Uploads, Compose(p, kind)
  PROVE  SealInv'
<1>. DEFINE flat  == Flat(kind, edition')
            early == [i \in DOMAIN Artifacts(kind) |-> Object(Artifacts(kind)[i], flat)]
            last  == Object(<<"PREPARED_UNSIGNED">>, Prepare(flat))
            todo  == Append(early, last)
            c     == [what |-> "compose", pdf |-> last.pdf]
<1>1. /\ h' = [h EXCEPT ![p] = Job(todo, c)] /\ stage' = stage
      /\ UNCHANGED <<files, stray, rows, tx, provider>>
  BY DEF Compose, store
<1>2. last.pdf = Prepare(flat) /\ last.key = <<"PREPARED_UNSIGNED">>
  BY DEF Object
<1>3. \E n \in {2, 3} : Shape(last.pdf, n, 1)
  BY <1>2, PreparedShape
<1>4. IsSeq(early) /\ \A i \in DOMAIN early : Genuine(early[i].key, early[i].pdf)
  <2>1. DOMAIN Artifacts(kind) = 1..1 \/ DOMAIN Artifacts(kind) = 1..2
    BY DEF Artifacts
  <2>2. \A i \in DOMAIN Artifacts(kind) : \E name : Artifacts(kind)[i] = <<name>>
    BY DEF Artifacts
  <2>. DEFINE S == {Object(Artifacts(kind)[i], flat) : i \in DOMAIN Artifacts(kind)}
  <2>. HIDE DEF flat
  <2>3. early \in [1..1 -> S] \/ early \in [1..2 -> S]
    BY <2>1
  <2>4. ASSUME NEW i \in DOMAIN early PROVE Genuine(early[i].key, early[i].pdf)
    <3>1. i \in DOMAIN Artifacts(kind) /\ early[i].key = Artifacts(kind)[i]
      BY DEF Object
    <3>2. PICK name : early[i].key = <<name>>
      BY <2>2, <3>1
    <3>. HIDE DEF early
    <3>. QED  BY <3>2, PlainKey
  <2>. HIDE DEF early, S
  <2>5. early \in Seq(S)
    BY <2>3, SeqDef
  <2>. QED  BY <2>4, <2>5 DEF IsSeq
<1>. HIDE DEF early, flat
<1>5. Genuine(last.key, last.pdf)
  BY <1>2, PlainKey
<1>. HIDE DEF last
<1>6. IsSeq(todo) /\ \A i \in DOMAIN todo : Genuine(todo[i].key, todo[i].pdf)
  <2>1. /\ IsSeq(todo) /\ Len(early) \in Nat /\ DOMAIN todo = 1..(Len(early) + 1)
        /\ DOMAIN early = 1..Len(early)
        /\ \A i \in 1..Len(early) : todo[i] = early[i]
        /\ todo[Len(early) + 1] = last
    BY <1>4, Appended
  <2>. HIDE DEF todo
  <2>2. ASSUME NEW i \in DOMAIN todo PROVE Genuine(todo[i].key, todo[i].pdf)
    <3>1. i \in 1..Len(early) \/ i = Len(early) + 1
      BY <2>1
    <3>. QED  BY <1>4, <1>5, <2>1, <3>1
  <2>. QED  BY <2>1, <2>2
<1>. HIDE DEF todo
<1>7. Vouched(todo, c)
  BY <1>3, <1>6 DEF Vouched
<1>. HIDE DEF c
<1>. DEFINE j == Job(todo, c)
<1>8. Trusted(j)
  BY <1>6, <1>7 DEF Trusted, Job, Task
<1>9. h' = [h EXCEPT ![p] = j]
  BY <1>1
<1>. HIDE DEF j
<1>. QED  BY <1>1, <1>8, <1>9, HandlerTaken

(* The bytes a party is asked to sign are those of the row before.         *)
LEMMA BeginKeepsSeal ==
  ASSUME StoreInv, SealInv, NEW p \in Handlers, NEW party \in Parties, BeginSignature(p, party)
  PROVE  SealInv'
<1>1. /\ UNCHANGED <<files, mounted, stray, rows, tx, provider>> /\ stage' # "draft"
      /\ Len(rows) = Before(party) + 1
  BY DEF BeginSignature, store, Turn
<1>2. CASE h' = h
  <2>1. \A q \in Handlers : h'[q] = h[q]
    BY <1>2
  <2>. QED  BY <1>1, <2>1, SignersKept, SealKept
<1>3. CASE h' # h
  <2>. DEFINE source == Last(rows).key
              slot == PrepareSlot(Get(source), FieldOf(party))
              key  == <<"pending", party, slot.digest>>
              todo == IF Readable(key) THEN <<>> ELSE <<Object(key, slot.pdf)>>
              c    == [what |-> "begin", party |-> party, digest |-> slot.digest, key |-> key]
              j    == Job(todo, c)
  <2>1. h' = [h EXCEPT ![p] = j] /\ Readable(source)
    BY <1>3 DEF BeginSignature
  <2>2. IsSeq(todo)
    BY EmptyIsSeq, SingletonIsSeq
  <2>3. ASSUME stray = {} PROVE Vouched(todo, c)
    <3>1. DOMAIN rows = 1..Len(rows) /\ Before(party) \in 0..2
      <4>1. PICK S : rows \in Seq(S)
        BY DEF StoreInv, IsSeq
      <4>. QED  BY <4>1, Turns
    <3>2. HasBase(party) /\ Last(rows) = rows[Before(party) + 1]
      BY <1>1, <3>1 DEF HasBase, Last
    <3>3. Get(source) = Base(party)
      <4>1. Landed(rows[Before(party) + 1].key, rows[Before(party) + 1].pdf)
        BY <3>2 DEF StoreInv, HasBase
      <4>2. Landed(source, Base(party))
        BY <3>2, <4>1 DEF Base
      <4>. HIDE DEF source
      <4>. QED  BY <2>1, <2>3, <4>2, ReadsTheShare DEF Landed
    <3>4. PICK n \in {2, 3} : Ready(Base(party), n, party)
      <4>1. Sealed
        BY <2>3 DEF SealInv
      <4>. QED  BY <4>1, <3>2 DEF Sealed, SealedRows, Ready, Base, HasBase
    <3>. DEFINE digest == Slotted(Base(party), party, Gap)
    <3>5. slot.pdf = digest /\ slot.digest = digest
      BY <3>3, <3>4, SlotPrepared
    <3>. HIDE DEF slot, source
    <3>6. Drawn(party, digest)
      BY <3>2 DEF Drawn
    <3>. HIDE DEF digest
    <3>7. key = ParkKey(party, digest)
      BY <3>5 DEF ParkKey
    <3>8. Genuine(key, digest)
      <4>1. ASSUME NEW q, NEW d, <<"pending", party, digest>> = <<"pending", q, d>> PROVE d = digest
        BY <4>1
      <4>. QED  BY <3>7, <4>1 DEF Genuine, ParkKey
    <3>9. c = [what |-> "begin", party |-> party, digest |-> digest, key |-> ParkKey(party, digest)]
      BY <3>5, <3>7
    <3>. HIDE DEF key
    <3>10. /\ \A i \in DOMAIN todo : Genuine(todo[i].key, todo[i].pdf)
           /\ Stored(todo, key, digest)
      <4>1. CASE Readable(key)
        <5>1. key \in DOMAIN files["nas"]
          BY <2>3, <4>1, ReadsTheShare
        <5>2. SealedFiles
          BY <2>3 DEF SealInv, Sealed
        <5>3. files["nas"][key] = digest
          BY <5>1, <5>2, <3>7 DEF SealedFiles, Genuine
        <5>4. todo = <<>>
          BY <4>1
        <5>. QED  BY <5>1, <5>3, <5>4, EmptyIsSeq DEF Stored, Landed
      <4>2. CASE ~Readable(key)
        <5>. DEFINE o == Object(key, digest)
        <5>1. todo = <<o>>
          BY <4>2, <3>5
        <5>2. o.key = key /\ o.pdf = digest
          BY DEF Object
        <5>. HIDE DEF todo
        <5>3. DOMAIN todo = 1..1 /\ todo[1] = o
          <6>. HIDE DEF o
          <6>. QED  BY <5>1, SingletonIsSeq
        <5>. QED  BY <5>2, <5>3, <3>8 DEF Stored, Owed
      <4>. QED  BY <4>1, <4>2
    <3>. HIDE DEF todo, c
    <3>. QED  BY <3>6, <3>7, <3>9, <3>10 DEF Vouched
  <2>. HIDE DEF todo, c
  <2>4. stray = {} => Trusted(j)
    BY <2>2, <2>3 DEF Trusted, Job, Task
  <2>. HIDE DEF j
  <2>. QED  BY <1>1, <2>1, <2>4, HandlerTaken
<1>. QED  BY <1>2, <1>3

(* A signature goes into the slot that was drawn, and nowhere else.        *)
LEMMA CompleteKeepsSeal ==
  ASSUME StoreInv, SealInv, NEW p \in Handlers, NEW t \in DOMAIN tx, CompleteSignature(p, t)
  PROVE  SealInv'
<1>. DEFINE der    == provider[t].der
            signed == Signed(t, der)
            name   == StateAfter(tx[t].party)
            todo   == <<Object(<<name>>, signed)>>
            c      == [what |-> "complete", tx |-> t, pdf |-> signed]
            j      == Job(todo, c)
<1>1. /\ h' = [h EXCEPT ![p] = j] /\ stage' = stage
      /\ UNCHANGED <<files, stray, rows, tx, provider>>
      /\ provider[t].status = "SIGNED" /\ Readable(tx[t].key)
      /\ IntegrityAfterSigning(signed, Before(tx[t].party) + 1)
  BY DEF CompleteSignature, store, Reopens, Holds
<1>2. IsSeq(todo) /\ \A i \in DOMAIN todo : Genuine(todo[i].key, todo[i].pdf)
  <2>. DEFINE o == Object(<<name>>, signed)
  <2>1. Genuine(o.key, o.pdf)
    <3>. HIDE DEF name, signed
    <3>1. o.key = <<name>>
      BY DEF Object
    <3>. QED  BY <3>1, PlainKey
  <2>2. todo = <<o>>
    OBVIOUS
  <2>. HIDE DEF o, todo
  <2>3. IsSeq(todo) /\ DOMAIN todo = 1..1 /\ todo[1] = o
    BY <2>2, SingletonIsSeq
  <2>. QED  BY <2>1, <2>3
<1>3. ASSUME stray = {} PROVE Vouched(todo, c)
  <2>1. Sealed
    BY <1>3 DEF SealInv
  <2>2. PICK party, digest :
          /\ party \in Parties
          /\ tx[t].party = party /\ tx[t].key = ParkKey(party, digest)
          /\ Drawn(party, digest) /\ Landed(ParkKey(party, digest), digest)
          /\ provider[t].status = "SIGNED" => provider[t].der.signer = party
    BY <2>1 DEF Sealed, SealedTx
  <2>3. Get(tx[t].key) = Slotted(Base(party), party, Gap)
    <3>1. Get(tx[t].key) = files["nas"][tx[t].key]
      BY <1>1, <1>3, ReadsTheShare
    <3>. QED  BY <1>3, <2>2, <3>1 DEF Landed, Drawn
  <2>4. PICK n \in {2, 3} : Ready(Base(party), n, party)
    BY <2>1, <2>2 DEF Sealed, SealedRows, Ready, Base, HasBase, Drawn
  <2>5. signed = Slotted(Base(party), party, der)
    BY <2>2, <2>3, <2>4, SlotReopens DEF Signed
  <2>6. der.signer = party
    BY <1>1, <2>2
  <2>. HIDE DEF todo, signed, der
  <2>7. LET q == tx[t].party  pdf == Slotted(Base(q), q, der)
        IN /\ c = [what |-> "complete", tx |-> t, pdf |-> pdf]
           /\ der.signer = q /\ IntegrityAfterSigning(pdf, Before(q) + 1)
    BY <1>1, <2>2, <2>5, <2>6
  <2>. HIDE DEF c
  <2>. QED  BY <1>2, <2>7 DEF Vouched
<1>. HIDE DEF todo, c
<1>4. stray = {} => Trusted(j)
  BY <1>2, <1>3 DEF Trusted, Job, Task
<1>. HIDE DEF j
<1>. QED  BY <1>1, <1>4, HandlerTaken

LEMMA CheckKeepsSeal ==
  ASSUME StoreInv, SealInv, NEW p \in Handlers, CheckHealth(p)
  PROVE  SealInv'
<1>1. h' = [h EXCEPT ![p].checked = Root] /\ h[p] # Idle
      /\ UNCHANGED <<stage, files, stray, rows, tx, provider>>
  BY DEF CheckHealth, store, Busy
<1>. DEFINE j == [h[p] EXCEPT !.checked = Root]
<1>2. h' = [h EXCEPT ![p] = j]
  BY <1>1 DEF StoreInv
<1>3. ASSUME stray = {} PROVE Trusted(j)
  <2>1. Trusted(h[p])
    BY <1>1, <1>3 DEF SealInv, Sealed, SealedHandlers
  <2>2. PICK todo, checked, c :
          h[p] = Task(todo, checked, c) /\ IsSeq(todo) /\ Vouched(todo, c)
    BY <2>1 DEF Trusted
  <2>3. j = Task(todo, Root, c)
    BY <2>2, JobChecked
  <2>. HIDE DEF j
  <2>. QED  BY <2>2, <2>3 DEF Trusted
<1>. HIDE DEF j
<1>. QED  BY <1>1, <1>2, <1>3, HandlerTaken

LEMMA ReturnKeepsSeal ==
  ASSUME StoreInv, SealInv, NEW p \in Handlers, Returns(p),
         UNCHANGED <<stage, files, stray, rows, tx, provider>>
  PROVE  SealInv'
BY HandlerTaken DEF Returns

LEMMA WriteKeepsSeal ==
  ASSUME StoreInv, SealInv, NEW p \in Handlers, Write(p)
  PROVE  SealInv'
<1>1. UNCHANGED <<stage, rows, tx, provider>> /\ stray \subseteq stray' /\ h[p] # Idle
  BY DEF Write, Busy
<1>2. RowsGrow /\ TxFixed
  BY <1>1 DEF RowsGrow, TxFixed
<1>3. ASSUME stray' = {} PROVE Sealed'
  <2>1. Sealed
    BY <1>1, <1>3 DEF SealInv
  <2>2. PICK todo, checked, c :
          h[p] = Task(todo, checked, c) /\ IsSeq(todo) /\ Vouched(todo, c)
    BY <1>1, <2>1 DEF Sealed, SealedHandlers, Trusted
  <2>. DEFINE o == Head(todo)
  <2>3. /\ todo # <<>> /\ checked # "no" /\ o.key \notin DOMAIN files[Root]
        /\ files' = [files EXCEPT ![Root] =
             [key \in DOMAIN files[Root] \cup {o.key} |->
                IF key = o.key THEN o.pdf ELSE files[Root][key]]]
        /\ stray' = IF Root = checked THEN stray ELSE stray \cup {o.key}
    BY <2>2 DEF Write, CanLink, Readable, Task
  <2>4. checked \in {"no", "nas"} /\ Root = "nas"
    <3>1. checked \in {"no", "nas"}
      <4>1. PICK other, by, d : h[p] = Task(other, by, d) /\ by \in {"no", "nas"}
        BY <1>1 DEF StoreInv, Queued
      <4>2. h[p].checked = by /\ h[p].checked = checked
        BY <2>2, <4>1 DEF Task
      <4>. QED  BY <4>1, <4>2
    <3>. QED  BY <1>3, <2>3, <3>1
  <2>5. /\ files'["nas"] = [key \in DOMAIN files["nas"] \cup {o.key} |->
                             IF key = o.key THEN o.pdf ELSE files["nas"][key]]
        /\ o.key \notin DOMAIN files["nas"]
    <3>. DEFINE f == [key \in DOMAIN files[Root] \cup {o.key} |->
                        IF key = o.key THEN o.pdf ELSE files[Root][key]]
    <3>1. files' = [files EXCEPT ![Root] = f] /\ files = [d \in Disks |-> files[d]]
      BY <2>3 DEF StoreInv
    <3>. HIDE DEF f
    <3>2. files'["nas"] = f
      BY <2>4, <3>1 DEF Disks
    <3>. QED  BY <2>3, <2>4, <3>2 DEF f
  <2>6. /\ IsSeq(Tail(todo)) /\ o = todo[1] /\ 1 \in DOMAIN todo
        /\ \A i \in DOMAIN todo :
             i = 1 \/ (i - 1 \in DOMAIN Tail(todo) /\ Tail(todo)[i - 1] = todo[i])
        /\ \A i \in DOMAIN Tail(todo) : i + 1 \in DOMAIN todo /\ Tail(todo)[i] = todo[i + 1]
    BY <2>2, <2>3, Tailed
  <2>. HIDE DEF o
  <2>7. StoreGrows
    BY <1>1, <2>5 DEF StoreGrows
  <2>8. Genuine(o.key, o.pdf) /\ \A i \in DOMAIN Tail(todo) : Genuine(Tail(todo)[i].key, Tail(todo)[i].pdf)
    BY <2>2, <2>6 DEF Vouched
  <2>9. SealedFiles'
    <3>1. \A key \in DOMAIN files'["nas"] : Genuine(key, files'["nas"][key])
      BY <2>1, <2>5, <2>8 DEF Sealed, SealedFiles
    <3>. QED  BY <3>1 DEF SealedFiles, Genuine, ParkKey
  <2>10. Vouched(Tail(todo), c)'
    <3>1. Vouched(todo, c)'
      BY <1>2, <2>1, <2>2, <2>7, VouchedStays DEF Sealed
    <3>2. (\A i \in DOMAIN Tail(todo) : Genuine(Tail(todo)[i].key, Tail(todo)[i].pdf))'
      BY <2>8 DEF Genuine, ParkKey
    <3>3. ASSUME NEW key, NEW pdf, Stored(todo, key, pdf)'
          PROVE  Stored(Tail(todo), key, pdf)'
      <4>1. Landed(o.key, o.pdf)'
        BY <2>5 DEF Landed
      <4>2. CASE Landed(key, pdf)'
        BY <4>2 DEF Stored
      <4>3. CASE Owed(todo, key, pdf)
        <5>1. PICK i \in DOMAIN todo : todo[i] = Object(key, pdf)
          BY <4>3 DEF Owed
        <5>2. CASE i = 1
          BY <5>1, <5>2, <4>1, <2>6 DEF Object, Stored, Landed
        <5>3. CASE i # 1
          BY <5>1, <5>3, <2>6 DEF Stored, Owed
        <5>. QED  BY <5>2, <5>3
      <4>. QED  BY <3>3, <4>2, <4>3 DEF Stored, Owed, Object
    <3>. QED  BY <3>1, <3>2, <3>3 DEF Vouched, ParkKey
  <2>11. h'[p] = Task(Tail(todo), "no", c) /\ \A q \in Handlers : q # p => h'[q] = h[q]
    <3>1. h' = [h EXCEPT ![p].todo = Tail(@), ![p].checked = "no"] /\ h = [q \in Handlers |-> h[q]]
      BY DEF Write, StoreInv
    <3>. DEFINE rest == Tail(h[p].todo)
    <3>2. rest = Tail(todo)
      BY <2>2 DEF Task
    <3>3. h' = [h EXCEPT ![p] = Moved(h[p], rest)]
      BY <3>1 DEF Moved
    <3>. HIDE DEF rest
    <3>4. Moved(h[p], rest) = Task(rest, "no", c)
      BY <2>2, JobMoved
    <3>. QED  BY <3>1, <3>2, <3>3, <3>4
  <2>12. SealedHandlers'
    <3>1. Trusted(h[p])'
      <4>1. Trusted(Task(Tail(todo), "no", c))'
        BY <2>6, <2>10 DEF Trusted, Task
      <4>. QED  BY <2>11, <4>1 DEF Trusted, Task
    <3>. QED  BY <1>2, <2>1, <2>7, <2>11, <3>1, HandlersStaySealed
  <2>13. SealedTx'
    <3>1. \A t \in DOMAIN tx : provider'[t].status = "SIGNED" => provider'[t].der.signer = tx[t].party
      BY <1>1, <2>1 DEF Sealed, SealedTx
    <3>. QED  BY <1>1, <1>2, <2>1, <2>7, <3>1, TxStaySealed
  <2>14. SealedRows'
    BY <1>1, <2>1, RowsStaySealed DEF Sealed
  <2>. QED  BY <2>9, <2>12, <2>13, <2>14 DEF Sealed
<1>. QED  BY <1>1, <1>3 DEF SealInv

(* The transaction that is recorded has its slot on the share.             *)
LEMMA BeginCommitKeepsSeal ==
  ASSUME StoreInv, SealInv, NEW p \in Handlers, CommitBegin(p)
  PROVE  SealInv'
<1>. DEFINE c == h[p].commit
            r == [party |-> c.party, digest |-> c.digest, key |-> c.key,
                  status |-> "PENDING_SIGNER"]
            s == [status |-> "PENDING_SIGNER", der |-> Gap]
<1>1. /\ tx' = Append(tx, r) /\ provider' = Append(provider, s)
      /\ h[p] # Idle /\ h[p].todo = <<>> /\ c.what = "begin" /\ Returns(p)
      /\ UNCHANGED <<stage, files, stray, rows>>
  BY DEF CommitBegin, store, Busy
<1>. HIDE DEF r, s
<1>2. /\ IsSeq(provider') /\ Len(provider') = Len(tx') /\ DOMAIN provider' = DOMAIN tx'
      /\ Len(tx) \in Nat /\ DOMAIN tx = 1..Len(tx) /\ DOMAIN tx' = 1..(Len(tx) + 1)
      /\ \A t \in 1..Len(tx) : tx'[t] = tx[t] /\ provider'[t] = provider[t]
      /\ tx'[Len(tx) + 1] = r /\ provider'[Len(tx) + 1] = s
  BY <1>1, Appended DEF StoreInv, SealInv
<1>3. StoreGrows /\ RowsGrow /\ TxFixed
  BY <1>1, <1>2 DEF StoreGrows, RowsGrow, TxFixed
<1>4. ASSUME stray = {} PROVE Sealed'
  <2>1. Sealed
    BY <1>4 DEF SealInv
  <2>2. PICK todo, checked, d :
          h[p] = Task(todo, checked, d) /\ Vouched(todo, d)
    BY <1>1, <2>1 DEF Sealed, SealedHandlers, Trusted
  <2>3. todo = <<>> /\ c = d
    BY <1>1, <2>2 DEF Task
  <2>4. PICK party, digest :
          /\ party \in Parties
          /\ d = [what |-> "begin", party |-> party, digest |-> digest,
                  key |-> ParkKey(party, digest)]
          /\ Drawn(party, digest) /\ Stored(<<>>, ParkKey(party, digest), digest)
    <3>1. d.what = "begin" /\ Vouched(<<>>, d)
      BY <1>1, <2>2, <2>3
    <3>2. ~\E pdf : d = [what |-> "compose", pdf |-> pdf]
      BY <3>1
    <3>3. ~\E t \in DOMAIN tx : \E pdf : d = [what |-> "complete", tx |-> t, pdf |-> pdf]
      BY <3>1
    <3>. QED  BY <3>1, <3>2, <3>3, Zenon DEF Vouched
  <2>5. Landed(ParkKey(party, digest), digest)
    BY <2>4, EmptyIsSeq DEF Stored, Owed
  <2>6. r.party = party /\ r.digest = digest /\ r.key = ParkKey(party, digest)
    BY <2>3, <2>4 DEF r
  <2>7. s.status # "SIGNED"
    BY DEF s
  <2>8. Drawn(party, digest)' /\ Landed(ParkKey(party, digest), digest)'
    BY <1>3, <2>4, <2>5, DrawnStays, LandedStays DEF Landed, ParkKey
  <2>9. SealedTx'
    <3>. SUFFICES ASSUME NEW t \in DOMAIN tx'
                  PROVE  (\E q \in Parties : \E e :
                            /\ tx[t].party = q /\ tx[t].digest = e /\ tx[t].key = ParkKey(q, e)
                            /\ Drawn(q, e) /\ Landed(ParkKey(q, e), e)
                            /\ provider[t].status = "SIGNED" => provider[t].der.signer = q)'
      BY DEF SealedTx
    <3>1. CASE t = Len(tx) + 1
      BY <1>2, <2>4, <2>6, <2>7, <2>8, <3>1 DEF ParkKey
    <3>2. CASE t # Len(tx) + 1
      <4>1. t \in DOMAIN tx /\ tx'[t] = tx[t] /\ provider'[t] = provider[t]
        BY <1>2, <3>2
      <4>2. PICK q, e :
              /\ q \in Parties
              /\ tx[t].party = q /\ tx[t].digest = e /\ tx[t].key = ParkKey(q, e)
              /\ Drawn(q, e) /\ Landed(ParkKey(q, e), e)
              /\ provider[t].status = "SIGNED" => provider[t].der.signer = q
        BY <2>1, <4>1 DEF Sealed, SealedTx
      <4>3. Drawn(q, e)' /\ Landed(ParkKey(q, e), e)'
        BY <1>3, <4>2, DrawnStays, LandedStays DEF Landed, ParkKey
      <4>. QED  BY <4>1, <4>2, <4>3 DEF ParkKey
    <3>. QED  BY <3>1, <3>2
  <2>10. \A q \in Handlers : h'[q] = h[q] \/ (h[q] = Idle)'
    BY <1>1 DEF Returns, StoreInv, Idle
  <2>11. SealedHandlers'
    BY <1>3, <2>1, <2>10, HandlersStaySealed
  <2>12. SealedRows' /\ SealedFiles'
    BY <1>1, <2>1, RowsStaySealed DEF Sealed, SealedFiles, Genuine, ParkKey
  <2>. QED  BY <2>9, <2>11, <2>12 DEF Sealed
<1>. QED  BY <1>1, <1>2, <1>4 DEF SealInv

(* A commit that adds a row.                                               *)
LEMMA RowKeepsSeal ==
  ASSUME StoreInv, SealInv, NEW p \in Handlers, Returns(p), UNCHANGED <<files, stray, provider>>,
         stage' # "draft", TxFixed, DOMAIN tx' = DOMAIN tx, Len(tx') = Len(tx),
         NEW state, NEW key, NEW pdf, AddRow(state, key, pdf),
         stray = {} => /\ \E n \in {2, 3} : /\ \A i \in DOMAIN rows : Shape(rows[i].pdf, n, i)
                                            /\ Shape(pdf, n, Len(rows) + 1)
                       /\ rows # <<>> => /\ rows[Len(rows)].pdf = Front(pdf)
                                         /\ \A s \in FindSignatures(pdf) : Valid(pdf, s)
  PROVE  SealInv'
<1>. DEFINE r == [state |-> state, key |-> key, pdf |-> pdf]
<1>1. rows' = Append(rows, r) /\ IsSeq(rows) /\ r.pdf = pdf
  BY DEF AddRow, StoreInv
<1>. HIDE DEF r
<1>2. /\ Len(rows) \in Nat /\ DOMAIN rows = 1..Len(rows) /\ DOMAIN rows' = 1..(Len(rows) + 1)
      /\ \A i \in 1..Len(rows) : rows'[i] = rows[i]
      /\ rows'[Len(rows) + 1] = r
  BY <1>1, Appended
<1>3. StoreGrows /\ RowsGrow
  BY <1>2 DEF StoreGrows, RowsGrow
<1>4. ASSUME stray = {} PROVE Sealed'
  <2>1. Sealed
    BY <1>4 DEF SealInv
  <2>2. \A q \in Handlers : h'[q] = h[q] \/ (h[q] = Idle)'
    BY DEF Returns, StoreInv, Idle
  <2>3. SealedHandlers'
    BY <1>3, <2>1, <2>2, HandlersStaySealed
  <2>4. SealedTx'
    <3>1. \A t \in DOMAIN tx : provider'[t].status = "SIGNED" => provider'[t].der.signer = tx[t].party
      BY <2>1 DEF Sealed, SealedTx
    <3>. QED  BY <1>3, <2>1, <3>1, TxStaySealed
  <2>5. SealedFiles'
    BY <2>1 DEF Sealed, SealedFiles, Genuine, ParkKey
  <2>6. PICK n \in {2, 3} : /\ \A i \in DOMAIN rows : Shape(rows[i].pdf, n, i)
                           /\ Shape(pdf, n, Len(rows) + 1)
    BY <1>4
  <2>7. \A i \in DOMAIN rows' : Shape(rows'[i].pdf, n, i)
    <3>. SUFFICES ASSUME NEW i \in DOMAIN rows' PROVE Shape(rows'[i].pdf, n, i)
      OBVIOUS
    <3>1. CASE i = Len(rows) + 1
      BY <1>1, <1>2, <2>6, <3>1
    <3>2. CASE i # Len(rows) + 1
      BY <1>2, <2>6, <3>2
    <3>. QED  BY <3>1, <3>2
  <2>8. \A i \in DOMAIN rows' : Linked(i)'
    <3>. SUFFICES ASSUME NEW i \in DOMAIN rows', i > 1
                  PROVE  /\ rows'[i - 1].pdf = Front(rows'[i].pdf)
                         /\ \A s \in FindSignatures(rows'[i].pdf) : Valid(rows'[i].pdf, s)
      BY <1>2 DEF Linked
    <3>1. CASE i = Len(rows) + 1
      <4>1. i - 1 = Len(rows) /\ Len(rows) \in 1..Len(rows) /\ rows # <<>>
        BY <1>2, <3>1, EmptyIsSeq
      <4>. QED  BY <1>1, <1>2, <1>4, <3>1, <4>1
    <3>2. CASE i # Len(rows) + 1
      <4>1. i \in 1..Len(rows) /\ i - 1 \in 1..Len(rows)
        BY <1>2, <3>2
      <4>2. Linked(i)
        BY <1>2, <2>1, <4>1 DEF Sealed, SealedRows
      <4>. QED  BY <1>2, <4>1, <4>2 DEF Linked
    <3>. QED  BY <3>1, <3>2
  <2>9. SealedRows'
    BY <2>7, <2>8 DEF SealedRows
  <2>. QED  BY <2>3, <2>4, <2>5, <2>9 DEF Sealed
<1>. QED  BY <1>4 DEF SealInv

LEMMA CommitComposeKeepsSeal ==
  ASSUME StoreInv, SealInv, NEW p \in Handlers, CommitCompose(p)
  PROVE  SealInv'
<1>. DEFINE c == h[p].commit
<1>1. /\ h[p] # Idle /\ h[p].todo = <<>> /\ c.what = "compose" /\ Returns(p)
      /\ AddRow("UNSIGNED", <<"PREPARED_UNSIGNED">>, c.pdf)
      /\ UNCHANGED <<files, stray, tx, provider>> /\ rows = <<>> /\ stage' # "draft"
  BY DEF CommitCompose, store, Busy, SealInv
<1>2. ASSUME stray = {} PROVE \E n \in {2, 3} : Shape(c.pdf, n, 1)
  <2>1. PICK todo, checked, d : h[p] = Task(todo, checked, d) /\ Vouched(todo, d)
    BY <1>1, <1>2 DEF SealInv, Sealed, SealedHandlers, Trusted
  <2>2. c = d
    BY <2>1 DEF Task
  <2>3. d.what = "compose"
    BY <1>1, <2>2
  <2>4. ~\E t \in DOMAIN tx : \E pdf : d = [what |-> "complete", tx |-> t, pdf |-> pdf]
    BY <2>3
  <2>5. ~\E party, digest, key :
             d = [what |-> "begin", party |-> party, digest |-> digest, key |-> key]
    BY <2>3
  <2>6. PICK pdf : d = [what |-> "compose", pdf |-> pdf] /\ \E n \in {2, 3} : Shape(pdf, n, 1)
    BY <2>1, <2>4, <2>5, Zenon DEF Vouched
  <2>7. c.pdf = pdf
    BY <2>2, <2>6
  <2>. QED  BY <2>6, <2>7
<1>3. Len(rows) + 1 = 1 /\ DOMAIN rows = {}
  BY <1>1, EmptyIsSeq
<1>4. TxFixed /\ Len(tx') = Len(tx) /\ DOMAIN tx' = DOMAIN tx
  BY <1>1 DEF TxFixed
<1>. HIDE DEF c
<1>. QED  BY <1>1, <1>2, <1>3, <1>4, RowKeepsSeal

LEMMA TxMarkedFixed ==
  ASSUME StoreInv, NEW t \in DOMAIN tx, NEW s, SetTxStatus(t, s)
  PROVE  TxFixed /\ DOMAIN tx' = DOMAIN tx /\ Len(tx') = Len(tx)
<1>1. PICK S : tx \in Seq(S)
  BY DEF StoreInv, IsSeq
<1>. DEFINE r == [tx[t] EXCEPT !.status = s]  T == S \cup {r}
<1>2. tx' = [tx EXCEPT ![t] = r]
  BY DEF SetTxStatus
<1>3. r.party = tx[t].party /\ r.digest = tx[t].digest /\ r.key = tx[t].key
  OBVIOUS
<1>. HIDE DEF r
<1>4. tx \in Seq(T) /\ r \in T
  BY <1>1
<1>. HIDE DEF T
<1>5. DOMAIN tx' = DOMAIN tx /\ Len(tx') = Len(tx)
  BY <1>2, <1>4
<1>6. \A i \in DOMAIN tx : tx'[i] = IF i = t THEN r ELSE tx[i]
  BY <1>2, <1>4
<1>. QED  BY <1>3, <1>5, <1>6 DEF TxFixed

(* The party's revision goes on top of the row whose turn it was.          *)
LEMMA CommitSignatureKeepsSeal ==
  ASSUME StoreInv, SealInv, NEW p \in Handlers, CommitSignature(p)
  PROVE  SealInv'
<1>. DEFINE c == h[p].commit  after == StateAfter(tx[c.tx].party)
<1>1. /\ h[p] # Idle /\ h[p].todo = <<>> /\ c.what = "complete" /\ Returns(p)
      /\ AddRow(after, <<after>>, c.pdf) /\ SetTxStatus(c.tx, "SIGNED")
      /\ Len(rows) = Before(tx[c.tx].party) + 1
      /\ UNCHANGED <<files, stray, provider>> /\ stage' # "draft"
  BY DEF CommitSignature, store, Busy, CanRecord, Turn
<1>2. c.tx \in DOMAIN tx
  <2>1. PICK todo, checked, d : h[p] = Task(todo, checked, d) /\ Backed(todo, d)
    BY <1>1 DEF StoreInv, Queued
  <2>2. c = d /\ d.what = "complete"
    BY <1>1, <2>1 DEF Task
  <2>3. ~\E pdf : d = [what |-> "compose", pdf |-> pdf]
    BY <2>2
  <2>4. ~\E party, digest, key :
             d = [what |-> "begin", party |-> party, digest |-> digest, key |-> key]
    BY <2>2
  <2>5. PICK t, pdf : t \in DOMAIN tx /\ d = [what |-> "complete", tx |-> t, pdf |-> pdf]
    BY <2>1, <2>3, <2>4, Zenon DEF Backed
  <2>. QED  BY <2>2, <2>5
<1>3. TxFixed /\ DOMAIN tx' = DOMAIN tx /\ Len(tx') = Len(tx)
  BY <1>1, <1>2, TxMarkedFixed
<1>4. ASSUME stray = {}
      PROVE  /\ \E n \in {2, 3} : /\ \A i \in DOMAIN rows : Shape(rows[i].pdf, n, i)
                                  /\ Shape(c.pdf, n, Len(rows) + 1)
             /\ rows # <<>> => /\ rows[Len(rows)].pdf = Front(c.pdf)
                               /\ \A s \in FindSignatures(c.pdf) : Valid(c.pdf, s)
  <2>1. Sealed
    BY <1>4 DEF SealInv
  <2>2. PICK todo, checked, d : h[p] = Task(todo, checked, d) /\ Vouched(todo, d)
    BY <1>1, <2>1 DEF Sealed, SealedHandlers, Trusted
  <2>3. c = d /\ d.what = "complete"
    BY <1>1, <2>2 DEF Task
  <2>4. ~\E pdf : d = [what |-> "compose", pdf |-> pdf]
    BY <2>3
  <2>5. ~\E party, digest, key :
             d = [what |-> "begin", party |-> party, digest |-> digest, key |-> key]
    BY <2>3
  <2>6. PICK t, der :
          LET party == tx[t].party  pdf == Slotted(Base(party), party, der)
          IN /\ t \in DOMAIN tx
             /\ d = [what |-> "complete", tx |-> t, pdf |-> pdf]
             /\ der.signer = party /\ IntegrityAfterSigning(pdf, Before(party) + 1)
    BY <2>2, <2>4, <2>5, Zenon DEF Vouched
  <2>7. PICK party \in Parties : tx[t].party = party /\ HasBase(party)
    BY <2>1, <2>6 DEF Sealed, SealedTx, Drawn
  <2>8. /\ c.tx = t /\ c.pdf = Slotted(Base(party), party, der) /\ der.signer = party
        /\ IntegrityAfterSigning(c.pdf, Before(party) + 1)
    BY <2>3, <2>6, <2>7
  <2>9. PICK n \in {2, 3} : \A i \in DOMAIN rows : Shape(rows[i].pdf, n, i)
    BY <2>1 DEF Sealed, SealedRows
  <2>10. Ready(Base(party), n, party)
    BY <2>7, <2>9 DEF Ready, Base, HasBase
  <2>11. Len(rows) = Before(party) + 1 /\ Len(rows) + 1 = Before(party) + 2
    <3>1. Before(party) \in 0..2
      BY Turns
    <3>. QED  BY <1>1, <2>7, <2>8, <3>1
  <2>12. Shape(c.pdf, n, Len(rows) + 1)
    BY <2>8, <2>10, <2>11, SlottedShape
  <2>13. rows[Len(rows)].pdf = Front(c.pdf)
    BY <2>8, <2>10, <2>11, SlottedRevisions DEF Base
  <2>14. \A s \in FindSignatures(c.pdf) : Valid(c.pdf, s)
    BY <2>8 DEF IntegrityAfterSigning
  <2>. QED  BY <2>9, <2>12, <2>13, <2>14
<1>. HIDE DEF c, after
<1>. QED  BY <1>1, <1>3, <1>4, RowKeepsSeal

(* One element of a sequence replaced.                                     *)
LEMMA Replaced ==
  ASSUME NEW s, IsSeq(s), NEW t \in DOMAIN s, NEW r
  PROVE  /\ IsSeq([s EXCEPT ![t] = r]) /\ DOMAIN [s EXCEPT ![t] = r] = DOMAIN s
         /\ Len([s EXCEPT ![t] = r]) = Len(s)
         /\ \A i \in DOMAIN s : [s EXCEPT ![t] = r][i] = IF i = t THEN r ELSE s[i]
<1>1. PICK S : s \in Seq(S)
  BY DEF IsSeq
<1>. DEFINE T == S \cup {r}
<1>2. s \in Seq(T) /\ r \in T
  BY <1>1
<1>. HIDE DEF T
<1>3. [s EXCEPT ![t] = r] \in Seq(T)
  BY <1>2
<1>. QED  BY <1>2, <1>3 DEF IsSeq

(* The provider learns something of one transaction: never that somebody   *)
(* else than its party has signed.                                         *)
LEMMA AnswerKeepsSeal ==
  ASSUME StoreInv, SealInv, UNCHANGED <<stage, files, stray, rows, tx, h>>,
         NEW t \in DOMAIN tx, NEW r, provider' = [provider EXCEPT ![t] = r],
         r.status = "SIGNED" => r.der.signer = tx[t].party
  PROVE  SealInv'
<1>1. IsSeq(provider) /\ t \in DOMAIN provider /\ DOMAIN provider = DOMAIN tx
  BY DEF SealInv
<1>2. /\ IsSeq(provider') /\ DOMAIN provider' = DOMAIN provider /\ Len(provider') = Len(provider)
      /\ \A i \in DOMAIN provider : provider'[i] = IF i = t THEN r ELSE provider[i]
  BY <1>1, Replaced
<1>3. ASSUME Sealed, NEW i \in DOMAIN tx, provider'[i].status = "SIGNED"
      PROVE  provider'[i].der.signer = tx[i].party
  BY <1>1, <1>2, <1>3 DEF Sealed, SealedTx
<1>4. TxFixed /\ Len(tx') = Len(tx) /\ DOMAIN tx' = DOMAIN tx
  BY DEF TxFixed
<1>5. \A q \in Handlers : h'[q] = h[q]
  OBVIOUS
<1>. QED  BY <1>2, <1>3, <1>4, <1>5, SealKept

LEMMA CeremonyKeepsSeal ==
  ASSUME StoreInv, SealInv, NEW t \in DOMAIN tx, CompleteCeremony(t) \/ FailCeremony(t)
  PROVE  SealInv'
<1>1. CASE CompleteCeremony(t)
  <2>. DEFINE r(content) == [status |-> "SIGNED",
                             der |-> [signer |-> tx[t].party, digest |-> content]]
  <2>1. PICK content : provider' = [provider EXCEPT ![t] = r(content)]
    BY <1>1 DEF CompleteCeremony
  <2>2. r(content).der.signer = tx[t].party
    OBVIOUS
  <2>. HIDE DEF r
  <2>. QED  BY <1>1, <2>1, <2>2, AnswerKeepsSeal DEF CompleteCeremony, store
<1>2. CASE FailCeremony(t)
  <2>. DEFINE r == [provider[t] EXCEPT !.status = "FAILED"]
  <2>1. provider' = [provider EXCEPT ![t] = r]
    BY <1>2 DEF FailCeremony
  <2>2. ASSUME r.status = "SIGNED" PROVE r.der.signer = tx[t].party
    <3>1. CASE "status" \in DOMAIN provider[t]
      BY <2>2, <3>1
    <3>2. CASE "status" \notin DOMAIN provider[t]
      BY <2>2, <3>2
    <3>. QED  BY <3>1, <3>2
  <2>. HIDE DEF r
  <2>. QED  BY <1>2, <2>1, <2>2, AnswerKeepsSeal DEF FailCeremony, store
<1>. QED  BY <1>1, <1>2

LEMMA FailKeepsSeal ==
  ASSUME StoreInv, SealInv, NEW t \in DOMAIN tx, FailSignature(t)
  PROVE  SealInv'
<1>1. /\ SetTxStatus(t, "FAILED") /\ (stage' = "draft" => stage = "draft")
      /\ UNCHANGED <<files, stray, rows, provider, h>>
  BY DEF FailSignature, store
<1>2. TxFixed /\ DOMAIN tx' = DOMAIN tx /\ Len(tx') = Len(tx)
  BY <1>1, TxMarkedFixed
<1>3. Sealed => \A i \in DOMAIN tx :
        provider'[i].status = "SIGNED" => provider'[i].der.signer = tx[i].party
  BY <1>1 DEF Sealed, SealedTx
<1>4. IsSeq(provider') /\ Len(provider') = Len(provider) /\ DOMAIN provider' = DOMAIN provider
  BY <1>1 DEF SealInv
<1>5. \A q \in Handlers : h'[q] = h[q]
  BY <1>1
<1>. QED  BY <1>1, <1>2, <1>3, <1>4, <1>5, SealKept

(* The share comes or goes, or nothing happens.                            *)
LEMMA QuietKeepsSeal ==
  ASSUME StoreInv, SealInv, UNCHANGED <<stage, files, stray, rows, tx, provider, h>>
  PROVE  SealInv'
<1>1. /\ TxFixed /\ Len(tx') = Len(tx) /\ DOMAIN tx' = DOMAIN tx
      /\ IsSeq(provider') /\ Len(provider') = Len(provider) /\ DOMAIN provider' = DOMAIN provider
      /\ Sealed => \A t \in DOMAIN tx :
           provider'[t].status = "SIGNED" => provider'[t].der.signer = tx[t].party
  BY SignersKept
<1>2. \A q \in Handlers : h'[q] = h[q]
  OBVIOUS
<1>. QED  BY <1>1, <1>2, SealKept

(* A restarted process forgets its transactions and its handlers.          *)
LEMMA RestartKeepsSeal ==
  ASSUME StoreInv, SealInv, Restart
  PROVE  SealInv'
<1>. DEFINE lost == [status |-> "UNKNOWN_TRANSACTION", der |-> Gap]
<1>1. /\ provider' = [t \in DOMAIN provider |-> lost] /\ lost.status # "SIGNED"
      /\ h' = [p \in Handlers |-> Idle] /\ UNCHANGED <<stage, files, stray, rows, tx>>
  BY DEF Restart, store
<1>. HIDE DEF lost
<1>2. IsSeq(provider) /\ DOMAIN provider = DOMAIN tx
  BY DEF SealInv
<1>3. IsSeq(provider') /\ Len(provider') = Len(provider) /\ DOMAIN provider' = DOMAIN provider
  <2>1. PICK S : provider \in Seq(S)
    BY <1>2 DEF IsSeq
  <2>2. DOMAIN provider = 1..Len(provider) /\ Len(provider) \in Nat
    BY <2>1
  <2>3. provider' \in Seq({lost})
    BY <1>1, <2>2
  <2>4. DOMAIN provider' = 1..Len(provider') /\ Len(provider') \in Nat
    BY <2>3
  <2>5. DOMAIN provider' = DOMAIN provider
    BY <1>1
  <2>6. IsSeq(provider')
    BY <2>3 DEF IsSeq
  <2>7. \A a, b \in Nat : 1..a = 1..b => a = b
    <3>1. ASSUME NEW a \in Nat, NEW b \in Nat, 1..a = 1..b, a < b PROVE FALSE
      <4>1. b \in 1..b /\ b \notin 1..a
        BY <3>1
      <4>. QED  BY <3>1, <4>1
    <3>. QED  BY <3>1
  <2>. QED  BY <2>2, <2>4, <2>5, <2>6, <2>7
<1>4. \A t \in DOMAIN tx : provider'[t].status # "SIGNED"
  BY <1>1, <1>2
<1>5. \A q \in Handlers : (h[q] = Idle)'
  BY <1>1 DEF Idle
<1>6. TxFixed /\ Len(tx') = Len(tx) /\ DOMAIN tx' = DOMAIN tx
  BY <1>1 DEF TxFixed
<1>. QED  BY <1>1, <1>3, <1>4, <1>5, <1>6, SealKept

LEMMA HandlerKeepsSeal ==
  ASSUME StoreInv, SealInv, NEW p \in Handlers, HandlerStep(p)
  PROVE  SealInv'
<1>1. ASSUME NEW kind \in Uploads, Compose(p, kind) PROVE SealInv'
  BY <1>1, ComposeKeepsSeal
<1>2. ASSUME NEW party \in Parties, BeginSignature(p, party) PROVE SealInv'
  BY <1>2, BeginKeepsSeal
<1>3. ASSUME NEW t \in DOMAIN tx, CompleteSignature(p, t) PROVE SealInv'
  BY <1>3, CompleteKeepsSeal
<1>4. CASE CheckHealth(p)
  BY <1>4, CheckKeepsSeal
<1>5. CASE Write(p)
  BY <1>5, WriteKeepsSeal
<1>6. CASE PutRefused(p)
  BY <1>6, ReturnKeepsSeal DEF PutRefused, store
<1>7. CASE CommitCompose(p)
  BY <1>7, CommitComposeKeepsSeal
<1>8. CASE CommitBegin(p)
  BY <1>8, BeginCommitKeepsSeal
<1>9. CASE CommitSignature(p)
  BY <1>9, CommitSignatureKeepsSeal
<1>10. CASE CommitRefused(p)
  BY <1>10, ReturnKeepsSeal DEF CommitRefused, store
<1>11. CASE Interrupted(p)
  BY <1>11, ReturnKeepsSeal DEF Interrupted, store
<1>. QED  BY <1>1, <1>2, <1>3, <1>4, <1>5, <1>6, <1>7, <1>8, <1>9, <1>10, <1>11 DEF HandlerStep

LEMMA NextKeepsSeal ==
  ASSUME StoreInv, SealInv, [Next]_vars
  PROVE  SealInv'
<1>1. ASSUME NEW p \in Handlers, HandlerStep(p) PROVE SealInv'
  BY <1>1, HandlerKeepsSeal
<1>2. ASSUME NEW t \in DOMAIN tx, CompleteCeremony(t) \/ FailCeremony(t) PROVE SealInv'
  BY <1>2, CeremonyKeepsSeal
<1>3. ASSUME NEW t \in DOMAIN tx, FailSignature(t) PROVE SealInv'
  BY <1>3, FailKeepsSeal
<1>4. CASE Mount \/ Unmount
  BY <1>4, QuietKeepsSeal DEF Mount, Unmount
<1>5. CASE Restart
  BY <1>5, RestartKeepsSeal
<1>6. CASE UNCHANGED vars
  BY <1>6, QuietKeepsSeal DEF vars, store
<1>. QED  BY <1>1, <1>2, <1>3, <1>4, <1>5, <1>6 DEF Next

LEMMA SealInvariant == Spec => [](StoreInv /\ SealInv)
<1>1. Init => SealInv
  <2>. SUFFICES ASSUME Init PROVE SealInv
    OBVIOUS
  <2>1. /\ rows = <<>> /\ tx = <<>> /\ provider = <<>> /\ DOMAIN files["nas"] = {}
        /\ h = [p \in Handlers |-> Idle]
    BY EmptyIsSeq DEF Init, Disks
  <2>2. SealedHandlers /\ SealedFiles /\ SealedTx /\ SealedRows
    BY <2>1, EmptyIsSeq DEF SealedHandlers, SealedFiles, SealedTx, SealedRows
  <2>. QED  BY <2>1, <2>2, EmptyIsSeq DEF SealInv, Sealed
<1>2. SealInv /\ StoreInv /\ [Next]_vars => SealInv'
  BY NextKeepsSeal
<1>. QED  BY <1>1, <1>2, StoreInvariant, PTL DEF Spec

(* For any number of handlers, attempts and faults: unless a put lost the  *)
(* share, each recorded document is the one before it with one revision    *)
(* appended, all its signatures verify, and exactly the parties whose turn *)
(* has passed have signed, each in its own widget (documents.service.ts    *)
(* completeSignature, incremental-signer.ts).                              *)
THEOREM SignaturesAlwaysStand == Spec => []SignaturesStand
<1>1. StoreInv /\ SealInv => SignaturesStand
  <2>. SUFFICES ASSUME SealInv, stray = {}, NEW i \in DOMAIN rows
                PROVE  /\ i > 1 => rows[i - 1].pdf = Front(rows[i].pdf)
                       /\ \A s \in FindSignatures(rows[i].pdf) : i > 1 => Valid(rows[i].pdf, s)
                       /\ \A party \in Parties :
                            SignedBy(rows[i].pdf, party) <=> Before(party) < i - 1
    BY DEF SignaturesStand
  <2>1. SealedRows
    BY DEF SealInv, Sealed
  <2>2. PICK n \in {2, 3} : Shape(rows[i].pdf, n, i)
    BY <2>1 DEF SealedRows
  <2>3. \A party \in Parties : SignedBy(rows[i].pdf, party) <=> Before(party) < i - 1
    BY <2>2, SignedByIs
  <2>. QED  BY <2>1, <2>3 DEF SealedRows, Linked
<1>. QED  BY <1>1, SealInvariant, PTL

(* For any number of handlers, attempts and faults: the slot of an open    *)
(* ceremony is on the share and reopens, and the signature of whoever      *)
(* completes it has the digest that was sent and passes the integrity      *)
(* check (documents.service.ts beginSignature, completeSignature); not so  *)
(* for a document supplied with a signature of its own.                    *)
THEOREM OpenCeremonyAlwaysCompletable == Spec => []OpenCeremonyCanComplete
<1>1. StoreInv /\ SealInv => OpenCeremonyCanComplete
  <2>. SUFFICES ASSUME StoreInv, SealInv, stray = {}, NEW t \in OpenTx,
                       ~(Cardinality(FindSignatures(rows[1].pdf)) > 0)
                PROVE  /\ tx[t].key \in DOMAIN files["nas"]
                       /\ CanReopen(files["nas"][tx[t].key])
                       /\ LET pdf == files["nas"][tx[t].key]
                              content == SignedContent(pdf, Slot(pdf))
                          IN /\ content = tx[t].digest
                             /\ IntegrityAfterSigning(
                                  EmbedSignature(pdf, [signer |-> tx[t].party, digest |-> content]),
                                  Before(tx[t].party) + 1)
    BY DEF OpenCeremonyCanComplete
  <2>1. SealedTx /\ SealedRows /\ t \in DOMAIN tx
    BY DEF SealInv, Sealed, OpenTx
  <2>2. PICK party, digest :
          /\ party \in Parties
          /\ tx[t].party = party /\ tx[t].digest = digest /\ tx[t].key = ParkKey(party, digest)
          /\ Drawn(party, digest) /\ Landed(ParkKey(party, digest), digest)
    BY <2>1 DEF SealedTx
  <2>3. HasBase(party) /\ digest = Slotted(Base(party), party, Gap)
    BY <2>2 DEF Drawn
  <2>4. tx[t].key \in DOMAIN files["nas"] /\ files["nas"][tx[t].key] = digest
    BY <2>2 DEF Landed, SealInv
  <2>5. PICK n \in {2, 3} : \A i \in DOMAIN rows : Shape(rows[i].pdf, n, i)
    BY <2>1 DEF SealedRows
  <2>6. Ready(Base(party), n, party)
    BY <2>3, <2>5 DEF Ready, HasBase, Base
  <2>7. n = 2
    <3>1. 1 \in DOMAIN rows
      <4>1. PICK S : rows \in Seq(S)
        BY DEF StoreInv, IsSeq
      <4>2. Before(party) \in 0..2
        BY <2>2, Turns
      <4>. QED  BY <2>3, <4>1, <4>2 DEF HasBase
    <3>. QED  BY <2>5, <3>1, SuppliedCounted
  <2>8. \A s \in FindSignatures(Base(party)) : Valid(Base(party), s)
    <3>. DEFINE k == Before(party) + 1
    <3>1. Linked(k) /\ Before(party) \in 0..2
      BY <2>1, <2>2, <2>3, Turns DEF SealedRows, HasBase
    <3>2. CASE Before(party) > 0
      BY <3>1, <3>2 DEF Linked, Base
    <3>3. CASE Before(party) = 0
      BY <2>6, <2>7, <3>3, SignaturesAre DEF Ready
    <3>. QED  BY <3>1, <3>2, <3>3
  <2>. DEFINE der == [signer |-> party, digest |-> digest]
  <2>9. der # Gap /\ der.signer = party /\ der.digest = digest
    BY DEF Gap
  <2>10. /\ CanReopen(digest) /\ SignedContent(digest, Slot(digest)) = digest
         /\ EmbedSignature(digest, der) = Slotted(Base(party), party, der)
    <3>. HIDE DEF der
    <3>. QED  BY <2>2, <2>3, <2>6, SlotReopens
  <2>11. IntegrityAfterSigning(EmbedSignature(digest, der), Before(party) + 1)
    <3>. HIDE DEF der
    <3>. QED  BY <2>2, <2>3, <2>6, <2>7, <2>8, <2>9, <2>10, Intact
  <2>. QED  BY <2>2, <2>4, <2>10, <2>11
<1>. QED  BY <1>1, SealInvariant, PTL
=============================================================================
