--------------------------- MODULE RegistersProofs ---------------------------
(***************************************************************************)
(* Theorems about Registers, for any agents, banks, links, handlers, bounds*)
(* and any number of digits; and about Templates, whose behaviours are     *)
(* those of MCRegisters that are not of Registers, for any staff, names    *)
(* and number of versions.                                                 *)
(***************************************************************************)
EXTENDS MCRegisters, FiniteSetTheorems, SequenceTheorems, TLAPS

(* What the rows and requests are, without the bounds of TypeOK.           *)
Reference == {<<agent, y, Lpad(n)>> : agent \in Agents, y \in Year, n \in Nat}

Row == [year : Year, number : Nat, agent : Agents \cup {NOBODY},
        completed : BOOLEAN, reference : {<<>>} \cup Reference]

CreateRequest   == [op : {"create"}, year : Year, agent : Agents \cup {NOBODY}, number : Nat]
CompleteRequest == [op : {"complete"}, agreement : Nat, year : Year, next : Nat]
UploadRequest   == [op : {"upload", "stored"}, bank : Banks, version : Nat]
RedeemRequest   == [op : {"redeem"}, link : Links]

Request == {Idle} \cup CreateRequest \cup CompleteRequest \cup UploadRequest \cup RedeemRequest

(* A completion is of an agreement that there is, and mints for its agent. *)
Completes(req) ==
  /\ req.agreement \in DOMAIN register
  /\ req.next > 0 => register[req.agreement].agent \in Agents

Typed ==
  /\ year \in Year
  /\ register \in Seq(Row)
  /\ numbers \in [Year -> Nat \ {0}]
  /\ counters \in [Agents \X Year -> Nat \ {0}]
  /\ text \in [Banks -> [versions : Nat, stored : SUBSET Nat]]
  /\ link \in [Links -> Link]
  /\ request \in [Handlers -> Request]
  /\ \A h \in Handlers : Is(h, "complete") => Completes(request[h])

-----------------------------------------------------------------------------
(* Requests are told apart by what they do.                                *)
LEMMA Kinds ==
  ASSUME NEW req \in Request
  PROVE  /\ req.op \in {"idle", "create", "complete", "upload", "stored", "redeem"}
         /\ req.op = "idle" => req = Idle
         /\ req.op = "create" => req \in CreateRequest
         /\ req.op = "complete" => req \in CompleteRequest
         /\ req.op \in {"upload", "stored"} => req \in UploadRequest
         /\ req.op = "redeem" => req \in RedeemRequest
BY DEF Request, Idle, CreateRequest, CompleteRequest, UploadRequest, RedeemRequest

LEMMA InitTyped ==
  ASSUME Init
  PROVE  Typed
<1>0. 1 \in Year
  BY BoundsAssumption DEF Year
<1>1. \A h \in Handlers : request[h] = Idle /\ Idle \in Request /\ Idle.op = "idle"
  BY DEF Init, Request, Idle
<1>2. register \in Seq(Row)
  BY DEF Init
<1>3. link \in [Links -> Link]
  BY DEF Init, Link
<1>4. counters \in [Agents \X Year -> Nat \ {0}] /\ numbers \in [Year -> Nat \ {0}]
  BY DEF Init
<1>5. text \in [Banks -> [versions : Nat, stored : SUBSET Nat]]
  BY DEF Init
<1>6. request \in [Handlers -> Request]
  BY <1>1 DEF Init
<1> QED
  BY <1>0, <1>1, <1>2, <1>3, <1>4, <1>5, <1>6 DEF Init, Typed, Is

(* What is in the register, and what becomes of it.                        *)
LEMMA Rows ==
  ASSUME Typed
  PROVE  /\ Len(register) \in Nat /\ DOMAIN register = 1..Len(register)
         /\ \A a \in DOMAIN register : register[a] \in Row
BY LenProperties, ElementOfSeq DEF Typed

LEMMA RowChanges ==
  ASSUME Typed, NEW a \in DOMAIN register, NEW row \in Row,
         register' = [register EXCEPT ![a] = row]
  PROVE  /\ register' \in Seq(Row) /\ DOMAIN register' = DOMAIN register
         /\ register'[a] = row
         /\ \A b \in DOMAIN register \ {a} : register'[b] = register[b]
<1>1. register \in Seq(Row) /\ a \in 1..Len(register)
  BY Rows DEF Typed
<1> QED
  BY <1>1, ExceptSeq, Rows

LEMMA RowIsAdded ==
  ASSUME Typed, NEW row \in Row, register' = Append(register, row)
  PROVE  /\ register' \in Seq(Row) /\ DOMAIN register' = DOMAIN register \cup {Len(register) + 1}
         /\ register'[Len(register) + 1] = row
         /\ \A b \in DOMAIN register : register'[b] = register[b]
<1>1. register \in Seq(Row)
  BY DEF Typed
<1>2. /\ register' \in Seq(Row) /\ Len(register') = Len(register) + 1
      /\ \A b \in 1..Len(register) : register'[b] = register[b]
      /\ register'[Len(register) + 1] = row
  BY <1>1, AppendProperties
<1>3. DOMAIN register' = 1..Len(register')
  BY <1>2, LenProperties
<1> QED
  BY <1>2, <1>3, Rows

(* No agreement leaves the register or changes its year, number or agent.  *)
Stays ==
  /\ DOMAIN register \subseteq DOMAIN register'
  /\ \A a \in DOMAIN register : /\ register'[a].agent = register[a].agent
                                /\ register'[a].year = register[a].year
                                /\ register'[a].number = register[a].number

(* A step of one handler leaves the requests of the others alone.          *)
LEMMA AsksTyped ==
  ASSUME Typed, NEW h \in Handlers, NEW req \in Request, Asks(h, req),
         register' = register, req.op = "complete" => Completes(req)
  PROVE  /\ request' \in [Handlers -> Request]
         /\ \A g \in Handlers : Is(g, "complete")' => Completes(request[g])'
BY DEF Typed, Asks, Is, Completes

LEMMA DoneTyped ==
  ASSUME Typed, NEW h \in Handlers, Done(h), Stays
  PROVE  /\ request' \in [Handlers -> Request]
         /\ \A g \in Handlers : Is(g, "complete")' => Completes(request[g])'
<1>1. Idle \in Request /\ Idle.op = "idle"
  BY DEF Request, Idle
<1>2. request' \in [Handlers -> Request]
  BY <1>1 DEF Typed, Done
<1>3. ASSUME NEW g \in Handlers, Is(g, "complete")'
      PROVE  Completes(request[g])'
  <2>1. Is(g, "complete") /\ request'[g] = request[g]
    BY <1>1, <1>3 DEF Typed, Done, Is
  <2> QED
    BY <2>1 DEF Typed, Stays, Completes
<1> QED
  BY <1>2, <1>3

(* Creation and completion, the two that write to the register.            *)
LEMMA Creation ==
  ASSUME Typed, NEW h \in Handlers, CommitCreate(h)
  PROVE  /\ request[h] \in CreateRequest /\ Stays /\ register' \in Seq(Row)
         /\ DOMAIN register' = DOMAIN register \cup {Len(register) + 1}
         /\ register'[Len(register) + 1] =
              [year |-> request[h].year, number |-> request[h].number,
               agent |-> request[h].agent, completed |-> FALSE, reference |-> <<>>]
         /\ \A b \in DOMAIN register : register'[b] = register[b]
<1>1. request[h] \in CreateRequest
  BY Kinds DEF CommitCreate, Is, Typed
<1> DEFINE row == [year |-> request[h].year, number |-> request[h].number,
                   agent |-> request[h].agent, completed |-> FALSE, reference |-> <<>>]
<1>2. row \in Row
  BY <1>1 DEF Row, CreateRequest
<1>3. register' = Append(register, row)
  BY DEF CommitCreate
<1> HIDE DEF row
<1>4. /\ register' \in Seq(Row) /\ DOMAIN register' = DOMAIN register \cup {Len(register) + 1}
      /\ register'[Len(register) + 1] = row
      /\ \A b \in DOMAIN register : register'[b] = register[b]
  BY <1>2, <1>3, RowIsAdded
<1> QED
  BY <1>1, <1>4 DEF row, Stays

(* Without a reference, or with one that is new; nothing else changes.     *)
LEMMA Completion ==
  ASSUME Typed, NEW h \in Handlers, CommitComplete(h)
  PROVE  /\ request[h] \in CompleteRequest /\ Stays
         /\ register' \in Seq(Row) /\ DOMAIN register' = DOMAIN register
         /\ \A b \in DOMAIN register : b # request[h].agreement => register'[b] = register[b]
         /\ LET r == request[h]  a == r.agreement IN
              \/ /\ register'[a].reference = register[a].reference
                 /\ counters' = counters
              \/ /\ r.next > 0 /\ register[a].agent \in Agents
                 /\ register'[a].reference = <<register[a].agent, r.year, Lpad(r.next)>>
                 /\ counters' = [counters EXCEPT ![<<register[a].agent, r.year>>] = r.next + 1]
<1>1. request[h] \in CompleteRequest
  BY Kinds DEF CommitComplete, Is, Typed
<1> DEFINE a == request[h].agreement
           y == request[h].year
           next == request[h].next
           ref == <<register[a].agent, y, Lpad(next)>>
<1>2. Completes(request[h])
  BY DEF CommitComplete, Typed
<1>3. a \in DOMAIN register /\ register[a] \in Row
  BY <1>2, Rows DEF Completes
<1>4. CASE next = 0 /\ register' = [register EXCEPT ![a].completed = TRUE] /\ UNCHANGED counters
  <2> DEFINE row == [register[a] EXCEPT !.completed = TRUE]
  <2>1. /\ row \in Row /\ row.reference = register[a].reference
        /\ row.agent = register[a].agent
        /\ row.year = register[a].year /\ row.number = register[a].number
    BY <1>3 DEF Row
  <2>2. register' = [register EXCEPT ![a] = row]
    BY <1>4
  <2> HIDE DEF row
  <2>3. /\ register' \in Seq(Row) /\ DOMAIN register' = DOMAIN register
        /\ register'[a] = row
        /\ \A b \in DOMAIN register \ {a} : register'[b] = register[b]
    BY <1>3, <2>1, <2>2, RowChanges
  <2> HIDE DEF a
  <2>4. Stays
    BY <2>1, <2>3 DEF Stays
  <2> QED
    BY <1>1, <1>4, <2>1, <2>3, <2>4 DEF a
<1>5. CASE /\ next > 0
           /\ register' = [register EXCEPT ![a].completed = TRUE, ![a].reference = ref]
           /\ counters' = [counters EXCEPT ![<<register[a].agent, y>>] = next + 1]
  <2> DEFINE row == [register[a] EXCEPT !.completed = TRUE, !.reference = ref]
  <2>1. register[a].agent \in Agents
    BY <1>2, <1>5 DEF Completes
  <2>2. ref \in Reference
    BY <1>1, <2>1 DEF Reference, CompleteRequest
  <2>3. /\ row \in Row /\ row.reference = ref
        /\ row.agent = register[a].agent
        /\ row.year = register[a].year /\ row.number = register[a].number
    BY <1>3, <2>2 DEF Row
  <2>4. register' = [register EXCEPT ![a] = row]
    BY <1>5
  <2> HIDE DEF row, ref
  <2>5. /\ register' \in Seq(Row) /\ DOMAIN register' = DOMAIN register
        /\ register'[a] = row
        /\ \A b \in DOMAIN register \ {a} : register'[b] = register[b]
    BY <1>3, <2>3, <2>4, RowChanges
  <2> HIDE DEF a
  <2>6. Stays
    BY <2>3, <2>5 DEF Stays
  <2> QED
    BY <1>1, <1>5, <2>1, <2>3, <2>5, <2>6 DEF a, ref
<1> QED
  BY <1>4, <1>5 DEF CommitComplete, ReferenceOf

LEMMA NextTyped == Typed /\ [Next]_vars => Typed'
<1> SUFFICES ASSUME Typed, [Next]_vars PROVE Typed'
  OBVIOUS
<1>q. \A h \in Handlers : request[h] \in Request
  BY DEF Typed
<1>1. CASE UNCHANGED vars
  BY <1>1 DEF vars, Typed, Is, Completes
<1>2. CASE TurnOfYear
  BY <1>2, BoundsAssumption DEF TurnOfYear, Typed, Is, Year, Completes
<1>3. ASSUME NEW l \in Links, IssueLink(l) \/ LinkExpires(l)
      PROVE  Typed'
  <2>a. link \in [Links -> Link]
    BY DEF Typed
  <2>b. \A state \in {"issued", "expired"} : [link[l] EXCEPT !.state = state] \in Link
    BY <2>a DEF Link
  <2>c. PICK state \in {"issued", "expired"} : link' = [link EXCEPT ![l].state = state]
    BY <1>3 DEF IssueLink, LinkExpires
  <2>1. link' \in [Links -> Link]
    BY <2>a, <2>b, <2>c
  <2> QED
    BY <1>3, <2>1 DEF IssueLink, LinkExpires, Typed, Is, Completes
<1>4. ASSUME NEW h \in Handlers, NEW agent \in Agents \cup {NOBODY}, TakeNumber(h, agent)
      PROVE  Typed'
  <2> DEFINE req == [op |-> "create", year |-> year, agent |-> agent, number |-> numbers[year]]
  <2>1. req \in Request /\ req.op = "create"
    BY DEF Request, CreateRequest, Typed
  <2>2. Asks(h, req) /\ UNCHANGED <<year, register, numbers, counters, text, link>>
    BY <1>4 DEF TakeNumber
  <2> HIDE DEF req
  <2>3. req.op # "complete"
    BY <2>1
  <2> QED
    BY <2>1, <2>2, <2>3, AsksTyped DEF Typed
<1>5. ASSUME NEW h \in Handlers, CommitCreate(h)
      PROVE  Typed'
  <2>1. request[h] \in CreateRequest /\ Stays /\ register' \in Seq(Row)
    BY <1>5, Creation
  <2>2. numbers' \in [Year -> Nat \ {0}]
    BY <1>5, <2>1 DEF CommitCreate, CreateRequest, Typed
  <2> QED
    BY <1>5, <2>1, <2>2, DoneTyped DEF CommitCreate, Typed
<1>6. ASSUME NEW h \in Handlers, NEW a \in 1..MaxAgreements, Mint(h, a)
      PROVE  Typed'
  <2>1. a \in DOMAIN register /\ a \in Nat /\ register[a] \in Row
    BY <1>6, Rows DEF Mint
  <2>2. /\ MintExecutionReference(a) \in Nat
        /\ MintExecutionReference(a) > 0 => register[a].agent \in Agents
    BY <2>1 DEF MintExecutionReference, Typed, Row
  <2> DEFINE req == [op |-> "complete", agreement |-> a, year |-> year,
                     next |-> MintExecutionReference(a)]
  <2>3. req \in Request /\ Completes(req)
    BY <2>1, <2>2 DEF Request, CompleteRequest, Completes, Typed
  <2>4. Asks(h, req) /\ UNCHANGED <<year, register, numbers, counters, text, link>>
    BY <1>6 DEF Mint
  <2> HIDE DEF req
  <2> QED
    BY <2>3, <2>4, AsksTyped DEF Typed
<1>7. ASSUME NEW h \in Handlers, CommitComplete(h)
      PROVE  Typed'
  <2>1. request[h] \in CompleteRequest /\ Stays /\ register' \in Seq(Row)
    BY <1>7, Completion
  <2>2. counters' \in [Agents \X Year -> Nat \ {0}]
    <3>1. CASE counters' = counters
      BY <3>1 DEF Typed
    <3>2. ASSUME NEW agent \in Agents,
                 counters' = [counters EXCEPT ![<<agent, request[h].year>>] = request[h].next + 1]
          PROVE  counters' \in [Agents \X Year -> Nat \ {0}]
      <4>1. request[h].next + 1 \in Nat \ {0} /\ <<agent, request[h].year>> \in Agents \X Year
        BY <2>1 DEF CompleteRequest
      <4> QED
        BY <3>2, <4>1 DEF Typed
    <3> QED
      BY <1>7, <3>1, <3>2, Completion
  <2> QED
    BY <1>7, <2>1, <2>2, DoneTyped DEF CommitComplete, Typed
<1>8. ASSUME NEW h \in Handlers, NEW b \in Banks, BeginUpload(h, b)
      PROVE  Typed'
  <2> DEFINE req == [op |-> "upload", bank |-> b, version |-> NextVersion(b)]
  <2>1. req \in Request /\ req.op # "complete"
    BY DEF Request, UploadRequest, Typed, NextVersion
  <2>2. Asks(h, req) /\ UNCHANGED <<year, register, numbers, counters, text, link>>
    BY <1>8 DEF BeginUpload
  <2> HIDE DEF req
  <2> QED
    BY <2>1, <2>2, AsksTyped DEF Typed
<1>9. ASSUME NEW h \in Handlers, StoreText(h)
      PROVE  Typed'
  <2>1. request[h] \in UploadRequest
    BY <1>9, <1>q, Kinds DEF StoreText, Is
  <2>2. text' \in [Banks -> [versions : Nat, stored : SUBSET Nat]]
    BY <1>9, <2>1 DEF StoreText, UploadRequest, Typed
  <2>3. [request[h] EXCEPT !.op = "stored"] \in UploadRequest
    BY <2>1 DEF UploadRequest
  <2>4. request' = [request EXCEPT ![h] = [request[h] EXCEPT !.op = "stored"]]
    BY <1>9 DEF StoreText
  <2>5. request' \in [Handlers -> Request]
    BY <2>3, <2>4 DEF Typed, Request
  <2>6. \A g \in Handlers : Is(g, "complete")' => Is(g, "complete") /\ request'[g] = request[g]
    BY <2>1, <2>3, <2>4, <2>5 DEF Is, Typed, UploadRequest
  <2> QED
    BY <1>9, <2>2, <2>5, <2>6 DEF StoreText, Typed, Completes
<1>10. ASSUME NEW h \in Handlers, CommitUpload(h)
       PROVE  Typed'
  <2>1. request[h] \in UploadRequest
    BY <1>10, <1>q, Kinds DEF CommitUpload, Is
  <2>2. text' \in [Banks -> [versions : Nat, stored : SUBSET Nat]]
    BY <1>10, <2>1 DEF CommitUpload, UploadRequest, Typed
  <2> QED
    BY <1>10, <2>2, DoneTyped DEF CommitUpload, Typed, Stays
<1>11. ASSUME NEW h \in Handlers, NEW l \in Links, ClaimLink(h, l)
       PROVE  Typed'
  <2> DEFINE req == [op |-> "redeem", link |-> l]
  <2>1. req \in Request /\ req.op # "complete"
    BY DEF Request, RedeemRequest
  <2>2. Asks(h, req) /\ UNCHANGED <<year, register, numbers, counters, text>>
    BY <1>11 DEF ClaimLink
  <2>3. link' \in [Links -> Link]
    BY <1>11 DEF ClaimLink, Typed, Link
  <2> HIDE DEF req
  <2> QED
    BY <2>1, <2>2, <2>3, AsksTyped DEF Typed
<1>12. ASSUME NEW h \in Handlers, GrantSession(h)
       PROVE  Typed'
  <2>1. request[h] \in RedeemRequest
    BY <1>12, <1>q, Kinds DEF GrantSession, Is
  <2>2. link' \in [Links -> Link]
    BY <1>12, <2>1 DEF GrantSession, RedeemRequest, Typed, Link
  <2> QED
    BY <1>12, <2>2, DoneTyped DEF GrantSession, Typed, Stays
<1>13. ASSUME NEW h \in Handlers, GivesUp(h)
       PROVE  Typed'
  BY <1>13, DoneTyped DEF GivesUp, Typed, Stays
<1> QED
  BY <1>1, <1>2, <1>3, <1>4, <1>5, <1>6, <1>7, <1>8, <1>9, <1>10, <1>11, <1>12, <1>13 DEF Next

(* Rows, counters, links and what every request holds are well typed: a    *)
(* completion is of an agreement that exists, and mints for its agent code.*)
THEOREM TypeCorrect == Spec => []Typed
<1>1. Init => Typed
  BY InitTyped
<1> QED
  BY <1>1, NextTyped, PTL DEF Spec

-----------------------------------------------------------------------------
(* Which step touches which register: the rest leave its rows and the      *)
(* requests about it as they are, or end them.                             *)
Kept(ops) ==
  \A h \in Handlers : request'[h].op \in ops => request'[h] = request[h]

StoredStay == \A h \in Handlers : Is(h, "stored") => request'[h] = request[h]

NumbersAside  == /\ numbers' = numbers /\ Stays /\ DOMAIN register' = DOMAIN register
                 /\ Kept({"create"})
CountersAside == register' = register /\ counters' = counters /\ Kept({"complete"})
TextsAside    == text' = text /\ aborted' = aborted /\ Kept({"upload", "stored"}) /\ StoredStay
LinksAside    == link' = link /\ Kept({"redeem"})

NumberStep(h) == CommitCreate(h) \/ \E agent \in Agents \cup {NOBODY} : TakeNumber(h, agent)
MintStep(h)   == CommitCreate(h) \/ CommitComplete(h) \/ \E a \in 1..MaxAgreements : Mint(h, a)
TextStep(h)   == \/ StoreText(h) \/ CommitUpload(h) \/ GivesUp(h)
                 \/ \E b \in Banks : BeginUpload(h, b)
LinkStep(h)   == GrantSession(h) \/ \E l \in Links : ClaimLink(h, l)

LEMMA AsksAside ==
  ASSUME Typed, NEW h \in Handlers, NEW req, Asks(h, req)
  PROVE  /\ request[h].op = "idle" /\ request'[h] = req
         /\ \A g \in Handlers \ {h} : request'[g] = request[g]
         /\ StoredStay
BY DEF Typed, Asks, Is, StoredStay

LEMMA DoneAside ==
  ASSUME Typed, NEW h \in Handlers, Done(h)
  PROVE  /\ request'[h] = Idle /\ request'[h].op = "idle"
         /\ \A g \in Handlers \ {h} : request'[g] = request[g]
         /\ \A ops : "idle" \notin ops => Kept(ops)
         /\ ~Is(h, "stored") => StoredStay
BY DEF Typed, Done, Idle, Kept, Is, StoredStay

LEMMA Effects ==
  ASSUME Typed, [Next]_vars
  PROVE  /\ NumbersAside \/ \E h \in Handlers : NumberStep(h)
         /\ CountersAside \/ \E h \in Handlers : MintStep(h)
         /\ TextsAside \/ \E h \in Handlers : TextStep(h)
         /\ \/ LinksAside \/ \E h \in Handlers : LinkStep(h)
            \/ \E l \in Links : IssueLink(l) \/ LinkExpires(l)
<1> USE DEF NumbersAside, CountersAside, TextsAside, LinksAside
<1>1. register' = register => Stays /\ DOMAIN register' = DOMAIN register
  BY DEF Stays
<1>2. CASE UNCHANGED vars \/ TurnOfYear
  BY <1>1, <1>2 DEF vars, TurnOfYear, Kept, StoredStay
<1>3. CASE \E l \in Links : IssueLink(l) \/ LinkExpires(l)
  BY <1>1, <1>3 DEF IssueLink, LinkExpires, Kept, StoredStay
<1>4. ASSUME NEW h \in Handlers, NEW agent \in Agents \cup {NOBODY}, TakeNumber(h, agent)
      PROVE  NumberStep(h) /\ CountersAside /\ TextsAside /\ LinksAside
  <2>1. /\ request'[h].op = "create" /\ \A g \in Handlers \ {h} : request'[g] = request[g]
        /\ UNCHANGED <<register, counters, text, link, aborted>> /\ StoredStay
    BY <1>4, AsksAside DEF TakeNumber
  <2> QED
    BY <1>4, <2>1 DEF NumberStep, Kept
<1>5. ASSUME NEW h \in Handlers, CommitCreate(h)
      PROVE  NumberStep(h) /\ MintStep(h) /\ TextsAside /\ LinksAside
  <2>1. Done(h) /\ ~Is(h, "stored") /\ UNCHANGED <<text, link, aborted>>
    BY <1>5 DEF CommitCreate, Is
  <2>2. Kept({"upload", "stored"}) /\ Kept({"redeem"}) /\ StoredStay
    BY <2>1, DoneAside
  <2> QED
    BY <1>5, <2>1, <2>2 DEF NumberStep, MintStep
<1>6. ASSUME NEW h \in Handlers, NEW a \in 1..MaxAgreements, Mint(h, a)
      PROVE  NumbersAside /\ MintStep(h) /\ TextsAside /\ LinksAside
  <2>1. /\ request'[h].op = "complete" /\ \A g \in Handlers \ {h} : request'[g] = request[g]
        /\ UNCHANGED <<register, numbers, text, link, aborted>> /\ StoredStay
    BY <1>6, AsksAside DEF Mint
  <2> QED
    BY <1>1, <1>6, <2>1 DEF MintStep, Kept
<1>7. ASSUME NEW h \in Handlers, CommitComplete(h)
      PROVE  NumbersAside /\ MintStep(h) /\ TextsAside /\ LinksAside
  <2>1. Stays /\ DOMAIN register' = DOMAIN register
    BY <1>7, Completion
  <2>2. Done(h) /\ ~Is(h, "stored") /\ UNCHANGED <<numbers, text, link, aborted>>
    BY <1>7 DEF CommitComplete, Is
  <2>3. Kept({"create"}) /\ Kept({"upload", "stored"}) /\ Kept({"redeem"}) /\ StoredStay
    BY <2>2, DoneAside
  <2> QED
    BY <1>7, <2>1, <2>2, <2>3 DEF MintStep
<1>8. ASSUME NEW h \in Handlers, NEW b \in Banks, BeginUpload(h, b)
      PROVE  NumbersAside /\ CountersAside /\ TextStep(h) /\ LinksAside
  BY <1>1, <1>8, AsksAside DEF TextStep, BeginUpload, Kept
<1>9. ASSUME NEW h \in Handlers, StoreText(h)
      PROVE  NumbersAside /\ CountersAside /\ TextStep(h) /\ LinksAside
  <2>1. request[h] \in UploadRequest
    BY <1>9, Kinds DEF StoreText, Is, Typed
  <2>2. request'[h].op = "stored" /\ \A g \in Handlers \ {h} : request'[g] = request[g]
    BY <1>9, <2>1 DEF StoreText, Typed, UploadRequest
  <2> QED
    BY <1>1, <1>9, <2>2 DEF StoreText, TextStep, Kept
<1>10. ASSUME NEW h \in Handlers, CommitUpload(h) \/ GivesUp(h)
       PROVE  NumbersAside /\ CountersAside /\ TextStep(h) /\ LinksAside
  <2>1. Done(h) /\ UNCHANGED <<register, numbers, counters, link>>
    BY <1>10 DEF CommitUpload, GivesUp
  <2>2. Kept({"create"}) /\ Kept({"complete"}) /\ Kept({"redeem"})
    BY <2>1, DoneAside
  <2> QED
    BY <1>1, <1>10, <2>1, <2>2 DEF TextStep
<1>11. ASSUME NEW h \in Handlers, NEW l \in Links, ClaimLink(h, l)
       PROVE  NumbersAside /\ CountersAside /\ TextsAside /\ LinkStep(h)
  <2>1. /\ request'[h].op = "redeem" /\ \A g \in Handlers \ {h} : request'[g] = request[g]
        /\ UNCHANGED <<register, numbers, counters, text, aborted>> /\ StoredStay
    BY <1>11, AsksAside DEF ClaimLink
  <2> QED
    BY <1>1, <1>11, <2>1 DEF LinkStep, Kept
<1>12. ASSUME NEW h \in Handlers, GrantSession(h)
       PROVE  NumbersAside /\ CountersAside /\ TextsAside /\ LinkStep(h)
  <2>1. Done(h) /\ ~Is(h, "stored") /\ UNCHANGED <<register, numbers, counters, text, aborted>>
    BY <1>12 DEF GrantSession, Is
  <2>2. Kept({"create"}) /\ Kept({"complete"}) /\ Kept({"upload", "stored"}) /\ StoredStay
    BY <2>1, DoneAside
  <2> QED
    BY <1>1, <1>12, <2>1, <2>2 DEF LinkStep
<1> HIDE DEF NumbersAside, CountersAside, TextsAside, LinksAside
<1> QED
  BY <1>2, <1>3, <1>4, <1>5, <1>6, <1>7, <1>8, <1>9, <1>10, <1>11, <1>12 DEF Next

-----------------------------------------------------------------------------
(* Numbering: the counter is one more than the agreements of its year, the *)
(* one creation of a year under way has its value.                         *)
Numbering ==
  /\ RegisterGapFree
  /\ \A y \in Year : numbers[y] = Cardinality(NumberedIn(y)) + 1
  /\ \A h \in Handlers : Is(h, "create") => request[h].number = numbers[request[h].year]
  /\ \A g, h \in Handlers :
       Is(g, "create") /\ Is(h, "create") /\ request[g].year = request[h].year => g = h

LEMMA NumberedFinite ==
  ASSUME Typed, NEW y
  PROVE  IsFiniteSet(NumberedIn(y)) /\ Cardinality(NumberedIn(y)) \in Nat
<1>1. IsFiniteSet(DOMAIN register)
  BY Rows, FS_Interval
<1>2. NumberedIn(y) \subseteq DOMAIN register
  BY DEF NumberedIn
<1> QED
  BY <1>1, <1>2, FS_Subset, FS_CardinalityType

LEMMA TakeNumberStep ==
  ASSUME Typed, Numbering, NEW h \in Handlers, NEW agent, TakeNumber(h, agent)
  PROVE  Numbering'
<1>1. /\ request'[h].op = "create" /\ request'[h].year = year
      /\ request'[h].number = numbers[year]
      /\ \A g \in Handlers \ {h} : request'[g] = request[g]
      /\ register' = register /\ numbers' = numbers
  BY AsksAside DEF TakeNumber
<1>2. \A g \in Handlers : ~(Is(g, "create") /\ request[g].year = year)
  BY DEF TakeNumber
<1>3. RegisterGapFree' /\ \A y \in Year : numbers'[y] = Cardinality(NumberedIn(y)') + 1
  BY <1>1 DEF Numbering, RegisterGapFree, NumberedIn
<1> QED
  BY <1>1, <1>2, <1>3 DEF Numbering, Is

LEMMA CreateStep ==
  ASSUME Typed, Numbering, NEW h \in Handlers, CommitCreate(h)
  PROVE  Numbering'
<1> DEFINE n == Len(register) + 1
<1>c. request[h] \in CreateRequest
  BY Creation
<1>p. PICK z \in Year : z = request[h].year
  BY <1>c DEF CreateRequest
<1>r. register'[n] = [year |-> request[h].year, number |-> request[h].number,
                      agent |-> request[h].agent, completed |-> FALSE, reference |-> <<>>]
  BY Creation
<1>1. /\ DOMAIN register' = DOMAIN register \cup {n}
      /\ register'[n].year = z /\ register'[n].number = request[h].number
      /\ \A b \in DOMAIN register : register'[b] = register[b]
  <2>1. register'[n].year = z /\ register'[n].number = request[h].number
    BY <1>p, <1>r
  <2>2. /\ DOMAIN register' = DOMAIN register \cup {n}
        /\ \A b \in DOMAIN register : register'[b] = register[b]
    BY Creation
  <2> QED
    BY <2>1, <2>2
<1>2. Is(h, "create")
  BY DEF CommitCreate
<1>3. numbers' = [numbers EXCEPT ![z] = request[h].number + 1] /\ Done(h)
  BY <1>p DEF CommitCreate
<1>4. n \notin DOMAIN register
  BY Rows
<1>5. request[h].number = numbers[z] /\ numbers[z] = Cardinality(NumberedIn(z)) + 1
  BY <1>2, <1>p DEF Numbering
<1> HIDE DEF n
<1>6. NumberedIn(z)' = NumberedIn(z) \cup {n} /\ n \notin NumberedIn(z)
  BY <1>1, <1>4 DEF NumberedIn
<1>7. Cardinality(NumberedIn(z)') = Cardinality(NumberedIn(z)) + 1
  BY <1>6, NumberedFinite, FS_AddElement
<1>8. ASSUME NEW y \in Year
      PROVE  /\ {register'[a].number : a \in NumberedIn(y)'} = 1..Cardinality(NumberedIn(y)')
             /\ numbers'[y] = Cardinality(NumberedIn(y)') + 1
  <2>1. CASE y = z
    <3> DEFINE c == Cardinality(NumberedIn(z))
    <3>1. {register'[a].number : a \in NumberedIn(z)'} =
            {register[a].number : a \in NumberedIn(z)} \cup {c + 1}
      <4>1. \A a \in NumberedIn(z) : register'[a].number = register[a].number
        BY <1>1 DEF NumberedIn
      <4>2. register'[n].number = c + 1
        BY <1>1, <1>5
      <4> QED
        BY <1>6, <4>1, <4>2
    <3>2. {register[a].number : a \in NumberedIn(z)} = 1..c
      BY <1>2 DEF Numbering, RegisterGapFree
    <3>3. c \in Nat
      BY NumberedFinite
    <3>4. numbers'[z] = c + 2
      BY <1>2, <1>3, <1>5, <3>3 DEF Typed
    <3>5. Cardinality(NumberedIn(z)') = c + 1
      BY <1>7
    <3> HIDE DEF c
    <3>6. (1..c) \cup {c + 1} = 1..(c + 1) /\ numbers'[z] = c + 1 + 1
      BY <3>3, <3>4
    <3> QED
      BY <2>1, <3>1, <3>2, <3>5, <3>6
  <2>2. CASE y # z
    <3>1. NumberedIn(y)' = NumberedIn(y)
      BY <1>1, <2>2 DEF NumberedIn
    <3>2. {register'[a].number : a \in NumberedIn(y)'} = {register[a].number : a \in NumberedIn(y)}
      BY <1>1, <3>1 DEF NumberedIn
    <3>3. numbers'[y] = numbers[y]
      BY <1>3, <2>2 DEF Typed
    <3> QED
      BY <3>1, <3>2, <3>3 DEF Numbering, RegisterGapFree
  <2> QED
    BY <2>1, <2>2
<1>9. ASSUME NEW g \in Handlers, Is(g, "create")'
      PROVE  /\ Is(g, "create") /\ request'[g] = request[g]
             /\ request[g].year \in Year /\ request[g].year # z
  <2>1. g # h /\ request'[g] = request[g] /\ Is(g, "create")
    BY <1>3, <1>9, DoneAside DEF Is
  <2>2. request[g] \in CreateRequest
    BY <2>1, Kinds DEF Is, Typed
  <2> QED
    BY <1>2, <1>p, <2>1, <2>2 DEF Numbering, CreateRequest
<1>10. \A g \in Handlers : Is(g, "create")' => request'[g].number = numbers'[request'[g].year]
  BY <1>3, <1>9 DEF Numbering, Typed
<1> QED
  BY <1>8, <1>9, <1>10 DEF Numbering, RegisterGapFree

LEMMA NumberingStep == Typed /\ Numbering /\ [Next]_vars => Numbering'
<1> SUFFICES ASSUME Typed, Numbering, [Next]_vars PROVE Numbering'
  OBVIOUS
<1>1. CASE NumbersAside
  <2>1. \A y : NumberedIn(y)' = NumberedIn(y)
    BY <1>1 DEF NumbersAside, Stays, NumberedIn
  <2>2. \A y : {register'[a].number : a \in NumberedIn(y)'} = {register[a].number : a \in NumberedIn(y)}
    BY <1>1, <2>1 DEF NumbersAside, Stays, NumberedIn
  <2>3. RegisterGapFree' /\ \A y \in Year : numbers'[y] = Cardinality(NumberedIn(y)') + 1
    BY <1>1, <2>1, <2>2 DEF NumbersAside, Numbering, RegisterGapFree
  <2>4. \A g \in Handlers : Is(g, "create")' => Is(g, "create") /\ request'[g] = request[g]
    BY <1>1 DEF NumbersAside, Kept, Is
  <2> QED
    BY <1>1, <2>3, <2>4 DEF NumbersAside, Numbering
<1> QED
  BY <1>1, Effects, TakeNumberStep, CreateStep DEF NumberStep

(* FR-026 for any number of creations, however many are rolled back.       *)
THEOREM GapFreeHolds == Spec => []RegisterGapFree
<1>1. Init => Numbering
  <2> SUFFICES ASSUME Init PROVE Numbering
    OBVIOUS
  <2>1. \A y : NumberedIn(y) = {}
    BY DEF Init, NumberedIn
  <2>2. \A h \in Handlers : ~Is(h, "create")
    BY DEF Init, Is, Idle
  <2>3. \A y : Cardinality(NumberedIn(y)) = 0 /\ {register[a].number : a \in NumberedIn(y)} = {}
    BY <2>1, FS_EmptySet
  <2>4. 1..0 = {} /\ \A y \in Year : numbers[y] = 0 + 1
    BY DEF Init
  <2> QED
    BY <2>2, <2>3, <2>4 DEF Numbering, RegisterGapFree
<1>2. Numbering => RegisterGapFree
  BY DEF Numbering
<1> QED
  BY <1>1, <1>2, InitTyped, NextTyped, NumberingStep, PTL DEF Spec

-----------------------------------------------------------------------------
(* Minting: whoever completes holds the counter of its agent and year, and *)
(* every reference given out is behind its counter.                        *)
Mints(h)  == Is(h, "complete") /\ request[h].next > 0
Pair(h)   == <<register[request[h].agreement].agent, request[h].year>>
Behind(a) ==
  \/ register[a].reference = <<>>
  \/ \E agent \in Agents, y \in Year, n \in Nat :
       /\ n < counters[<<agent, y>>]
       /\ register[a].reference = <<agent, y, Lpad(n)>>

Minting ==
  /\ \A h \in Handlers : Mints(h) => request[h].next = counters[Pair(h)]
  /\ \A g, h \in Handlers : Mints(g) /\ Mints(h) /\ Pair(g) = Pair(h) => g = h
  /\ \A a \in DOMAIN register : Behind(a)

(* What a request that mints holds.                                        *)
LEMMA PairType ==
  ASSUME Typed, NEW h \in Handlers, Mints(h)
  PROVE  /\ request[h] \in CompleteRequest /\ request[h].agreement \in DOMAIN register
         /\ Pair(h) \in Agents \X Year
<1>1. request[h] \in CompleteRequest
  BY Kinds DEF Mints, Is, Typed
<1>2. Completes(request[h])
  BY DEF Mints, Typed
<1> QED
  BY <1>1, <1>2 DEF Mints, Completes, Pair, CompleteRequest

(* A request about the register keeps its pair.                            *)
LEMMA PairStays ==
  ASSUME Typed, Stays, NEW h \in Handlers, request'[h] = request[h], Mints(h)'
  PROVE  Mints(h) /\ Pair(h)' = Pair(h)
<1>1. Mints(h)
  BY DEF Mints, Is
<1>2. request[h].agreement \in DOMAIN register
  BY <1>1, PairType
<1> QED
  BY <1>1, <1>2 DEF Stays, Pair

LEMMA MintRequestStep ==
  ASSUME Typed, Minting, NEW h \in Handlers, NEW a \in 1..MaxAgreements, Mint(h, a)
  PROVE  Minting'
<1>1. /\ request'[h].agreement = a /\ request'[h].year = year
      /\ request'[h].next = MintExecutionReference(a)
      /\ \A g \in Handlers \ {h} : request'[g] = request[g]
      /\ register' = register /\ counters' = counters
  BY AsksAside DEF Mint
<1>2. Stays
  BY <1>1 DEF Stays
<1>3. Pair(h)' = <<register[a].agent, year>>
  BY <1>1 DEF Pair
<1>4. Mints(h)' => request'[h].next = counters'[Pair(h)']
  BY <1>1, <1>3 DEF Mints, MintExecutionReference
<1>5. ASSUME NEW g \in Handlers \ {h}, Mints(g)'
      PROVE  Mints(g) /\ Pair(g)' = Pair(g) /\ request'[g] = request[g] /\ Pair(g)' # Pair(h)'
  <2>1. Mints(g) /\ Pair(g)' = Pair(g) /\ request'[g] = request[g]
    BY <1>1, <1>2, <1>5, PairStays
  <2>2. ~(request[g].year = year /\ register[request[g].agreement].agent = register[a].agent)
    BY <2>1 DEF Mint, Mints
  <2> QED
    BY <1>3, <2>1, <2>2 DEF Pair
<1>6. \A b \in DOMAIN register' : Behind(b)'
  BY <1>1 DEF Minting, Behind
<1> QED
  BY <1>1, <1>4, <1>5, <1>6 DEF Minting

LEMMA CreatedStep ==
  ASSUME Typed, Minting, NEW h \in Handlers, CommitCreate(h)
  PROVE  Minting'
<1>1. Stays /\ counters' = counters /\ Done(h)
  BY Creation DEF CommitCreate
<1>2. ASSUME NEW g \in Handlers, Mints(g)'
      PROVE  Mints(g) /\ Pair(g)' = Pair(g) /\ request'[g] = request[g]
  <2>1. request'[g] = request[g]
    BY <1>1, <1>2, DoneAside DEF Mints, Is
  <2> QED
    BY <1>1, <1>2, <2>1, PairStays
<1>3. register'[Len(register) + 1].reference = <<>>
  <2>1. register'[Len(register) + 1] =
          [year |-> request[h].year, number |-> request[h].number,
           agent |-> request[h].agent, completed |-> FALSE, reference |-> <<>>]
    BY Creation
  <2> QED
    BY <2>1
<1>4. ASSUME NEW b \in DOMAIN register' PROVE Behind(b)'
  <2>1. b \in DOMAIN register => register'[b] = register[b]
    BY Creation
  <2>2. b \in DOMAIN register \/ b = Len(register) + 1
    BY <1>4, Creation
  <2> QED
    BY <1>1, <1>3, <2>1, <2>2 DEF Minting, Behind
<1> QED
  BY <1>1, <1>2, <1>4 DEF Minting

LEMMA CompletedStep ==
  ASSUME Typed, Minting, NEW h \in Handlers, CommitComplete(h)
  PROVE  Minting'
<1> DEFINE r == request[h]
<1>c. PICK c \in DOMAIN register : c = r.agreement
  BY DEF CommitComplete, Typed, Completes
<1>1. Stays /\ Done(h) /\ DOMAIN register' = DOMAIN register
  BY Completion DEF CommitComplete
<1>2. ASSUME NEW g \in Handlers, Mints(g)'
      PROVE  /\ g # h /\ Mints(g) /\ Pair(g)' = Pair(g) /\ request'[g] = request[g]
             /\ Pair(g) \in Agents \X Year
  <2>1. g # h /\ request'[g] = request[g]
    BY <1>1, <1>2, DoneAside DEF Mints, Is
  <2>2. Mints(g) /\ Pair(g)' = Pair(g)
    BY <1>1, <1>2, <2>1, PairStays
  <2> QED
    BY <2>1, <2>2, PairType
<1>3. \A b \in DOMAIN register : b # c => register'[b] = register[b]
  BY <1>c, Completion
<1>4. CASE register'[c].reference = register[c].reference /\ counters' = counters
  <2>1. \A b \in DOMAIN register' : Behind(b)'
    BY <1>1, <1>3, <1>4 DEF Minting, Behind
  <2> QED
    BY <1>2, <1>4, <2>1 DEF Minting
<1>5. CASE /\ r.next > 0 /\ register[c].agent \in Agents
           /\ register'[c].reference = <<register[c].agent, r.year, Lpad(r.next)>>
           /\ counters' = [counters EXCEPT ![<<register[c].agent, r.year>>] = r.next + 1]
  <2>1. Mints(h) /\ r \in CompleteRequest /\ Pair(h) \in Agents \X Year
    BY <1>5, PairType DEF CommitComplete, Mints
  <2>t. counters' \in [Agents \X Year -> Nat \ {0}]
    BY NextTyped DEF Next, Typed
  <2>2. r.next = counters[Pair(h)]
    BY <2>1 DEF Minting
  <2>3. counters' = [counters EXCEPT ![Pair(h)] = r.next + 1]
    BY <1>5, <1>c DEF Pair
  <2>4. ASSUME NEW g \in Handlers, Mints(g)'
        PROVE  request'[g].next = counters'[Pair(g)']
    <3>1. Pair(g) # Pair(h)
      BY <1>2, <2>1, <2>4 DEF Minting
    <3> QED
      BY <1>2, <2>3, <2>4, <3>1 DEF Minting, Typed
  <2>5. \A p \in Agents \X Year : counters[p] <= counters'[p]
    BY <2>1, <2>2, <2>3 DEF Typed, CompleteRequest
  <2>6. Behind(c)'
    <3>1. register[c].agent \in Agents /\ r.year \in Year /\ r.next \in Nat
      BY <1>5, <2>1 DEF CompleteRequest
    <3>2. counters'[<<register[c].agent, r.year>>] = r.next + 1
      BY <1>5, <3>1 DEF Typed
    <3> QED
      BY <1>5, <3>1, <3>2 DEF Behind
  <2>7. ASSUME NEW b \in DOMAIN register, b # c PROVE Behind(b)'
    <3>1. register'[b].reference = register[b].reference /\ Behind(b)
      BY <1>3, <2>7 DEF Minting
    <3>2. \A agent \in Agents, y \in Year, n \in Nat :
            n < counters[<<agent, y>>] => n < counters'[<<agent, y>>]
      <4> TAKE agent \in Agents, y \in Year, n \in Nat
      <4>1. /\ counters[<<agent, y>>] \in Nat /\ counters'[<<agent, y>>] \in Nat
            /\ counters[<<agent, y>>] <= counters'[<<agent, y>>]
        BY <2>t, <2>5 DEF Typed
      <4> QED
        BY <4>1
    <3> QED
      BY <3>1, <3>2 DEF Behind
  <2>8. \A b \in DOMAIN register' : Behind(b)'
    BY <1>1, <2>6, <2>7
  <2> QED
    BY <1>2, <2>4, <2>8 DEF Minting
<1> QED
  BY <1>c, <1>4, <1>5, Completion

LEMMA MintingStep == Typed /\ Minting /\ [Next]_vars => Minting'
<1> SUFFICES ASSUME Typed, Minting, [Next]_vars PROVE Minting'
  OBVIOUS
<1>1. CASE CountersAside
  <2>1. Stays /\ register' = register /\ counters' = counters
    BY <1>1 DEF CountersAside, Stays
  <2>2. ASSUME NEW g \in Handlers, Mints(g)'
        PROVE  Mints(g) /\ Pair(g)' = Pair(g) /\ request'[g] = request[g]
    <3>1. request'[g] = request[g]
      BY <1>1, <2>2 DEF CountersAside, Kept, Mints, Is
    <3> QED
      BY <2>1, <2>2, <3>1, PairStays
  <2>3. \A b \in DOMAIN register' : Behind(b)'
    BY <2>1 DEF Minting, Behind
  <2> QED
    BY <2>1, <2>2, <2>3 DEF Minting
<1> QED
  BY <1>1, Effects, MintRequestStep, CreatedStep, CompletedStep DEF MintStep

(* DEC-036 for any number of digits: an agent's next reference is free for *)
(* as long as his counter can be said with them.                           *)
THEOREM ReferencesHold == Spec => []NextReferenceIsFree
<1>1. Init => Minting
  BY DEF Init, Minting, Mints, Is, Idle
<1>2. Typed /\ Minting => NextReferenceIsFree
  <2> SUFFICES ASSUME Typed, Minting, NEW a \in DOMAIN register, NEW y \in Year,
                      register[a].agent # NOBODY, counters[<<register[a].agent, y>>] < Capacity,
                      Taken(ReferenceOf(a, y, counters[<<register[a].agent, y>>]))
               PROVE  FALSE
    BY DEF NextReferenceIsFree
  <2> DEFINE next == counters[<<register[a].agent, y>>]
  <2>1. register[a].agent \in Agents
    BY Rows DEF Row
  <2>2. next \in Nat /\ Lpad(next) = next
    BY <2>1 DEF Typed, Lpad
  <2>3. PICK b \in DOMAIN register : register[b].reference = <<register[a].agent, y, next>>
    BY <2>2 DEF Taken, ReferenceOf
  <2>4. <<register[a].agent, y, next>> # <<>>
    OBVIOUS
  <2>5. PICK agent \in Agents, z \in Year, n \in Nat :
          /\ n < counters[<<agent, z>>]
          /\ register[b].reference = <<agent, z, Lpad(n)>>
    BY <2>3, <2>4 DEF Minting, Behind
  <2>6. agent = register[a].agent /\ z = y /\ Lpad(n) = next
    BY <2>3, <2>5
  <2>7. n < next /\ n < Capacity
    BY <2>2, <2>5, <2>6, DigitsAssumption
  <2> QED
    BY <2>6, <2>7 DEF Lpad
<1> QED
  BY <1>1, <1>2, InitTyped, NextTyped, MintingStep, PTL DEF Spec

-----------------------------------------------------------------------------
(* Uploads: all texts there are have been stored, and at most the next one;*)
(* who has stored it is the only one.                                      *)
Storing ==
  /\ \A b \in Banks : 1..text[b].versions \subseteq text[b].stored
                      /\ text[b].stored \subseteq 1..NextVersion(b)
  /\ \A h \in Handlers : Is(h, "upload") => request[h].version \in 1..NextVersion(request[h].bank)
  /\ \A h \in Handlers : Is(h, "stored") =>
       /\ request[h].version = NextVersion(request[h].bank)
       /\ NextVersion(request[h].bank) \in text[request[h].bank].stored
  /\ \A g, h \in Handlers :
       Is(g, "stored") /\ Is(h, "stored") /\ request[g].bank = request[h].bank => g = h
  /\ NextTextCanBeStored

LEMMA UploadType ==
  ASSUME Typed, NEW h \in Handlers, Is(h, "upload") \/ Is(h, "stored")
  PROVE  request[h].bank \in Banks /\ request[h].version \in Nat
BY Kinds DEF Typed, Is, UploadRequest

LEMMA BeginStep ==
  ASSUME Typed, Storing, NEW h \in Handlers, NEW b \in Banks, BeginUpload(h, b)
  PROVE  Storing'
<1>1. /\ request[h].op = "idle" /\ request'[h].op = "upload"
      /\ request'[h].bank = b /\ request'[h].version = NextVersion(b)
      /\ \A g \in Handlers \ {h} : request'[g] = request[g]
      /\ text' = text /\ aborted' = aborted
  BY AsksAside DEF BeginUpload
<1>2. NextVersion(b) \in 1..NextVersion(b)
  BY DEF NextVersion, Typed
<1>3. \A g \in Handlers : Is(g, "stored")' <=> Is(g, "stored")
  BY <1>1 DEF Is
<1>4. NextTextCanBeStored'
  BY <1>1, <1>3 DEF Storing, NextTextCanBeStored, NextVersion, Is
<1> QED
  BY <1>1, <1>2, <1>3, <1>4 DEF Storing, Is, NextVersion

LEMMA StoreStep ==
  ASSUME Typed, Storing, NEW h \in Handlers, StoreText(h)
  PROVE  Storing'
<1>1. /\ Is(h, "upload") /\ request[h].bank \in Banks /\ request[h].version \in Nat
      /\ request[h].version \notin text[request[h].bank].stored
  BY UploadType DEF StoreText
<1>2. PICK b \in Banks, v \in Nat : b = request[h].bank /\ v = request[h].version
  BY <1>1
<1>3. /\ request'[h].op = "stored" /\ request'[h].bank = b /\ request'[h].version = v
      /\ \A g \in Handlers \ {h} : request'[g] = request[g]
  <2>1. request[h] \in UploadRequest
    BY <1>1, Kinds DEF Is, Typed
  <2> QED
    BY <1>2, <2>1 DEF StoreText, Typed, UploadRequest
<1>4. /\ \A x \in Banks : text'[x].versions = text[x].versions
      /\ \A x \in Banks \ {b} : text'[x].stored = text[x].stored
      /\ text'[b].stored = text[b].stored \cup {v}
      /\ aborted' = aborted
  BY <1>2 DEF StoreText, Typed
<1>5. v = NextVersion(b) /\ v \notin text[b].stored
  <2>1. v \in 1..NextVersion(b) /\ v \notin 1..text[b].versions
    BY <1>1, <1>2 DEF Storing
  <2>2. text[b].versions \in Nat /\ NextVersion(b) = text[b].versions + 1
    BY DEF NextVersion, Typed
  <2> QED
    BY <1>1, <1>2, <2>1, <2>2
<1>6. \A x \in Banks : NextVersion(x)' = NextVersion(x)
  BY <1>4 DEF NextVersion
<1>7. \A x \in Banks : /\ 1..text'[x].versions \subseteq text'[x].stored
                       /\ text'[x].stored \subseteq 1..NextVersion(x)'
  <2>1. v \in 1..NextVersion(b)
    BY <1>5 DEF NextVersion, Typed
  <2> QED
    BY <1>4, <1>6, <2>1 DEF Storing
<1>8. ASSUME NEW g \in Handlers \ {h}, Is(g, "upload")' \/ Is(g, "stored")'
      PROVE  /\ request'[g] = request[g] /\ request[g].bank \in Banks
             /\ Is(g, "upload")' => Is(g, "upload")
             /\ Is(g, "stored")' => Is(g, "stored") /\ request[g].bank # b
  <2>1. request'[g] = request[g] /\ (Is(g, "upload") \/ Is(g, "stored"))
    BY <1>3, <1>8 DEF Is
  <2> QED
    BY <1>3, <1>5, <2>1, UploadType DEF Storing, Is
<1>9. NextTextCanBeStored'
  <2> SUFFICES ASSUME NEW x \in Banks \ aborted', NextVersion(x)' \in text'[x].stored
               PROVE  \E g \in Handlers : Is(g, "stored")' /\ request'[g].bank = x
    BY DEF NextTextCanBeStored
  <2>1. CASE x = b
    BY <1>3, <2>1 DEF Is
  <2>2. CASE x # b
    <3>1. PICK g \in Handlers : Is(g, "stored") /\ request[g].bank = x
      BY <1>4, <1>6, <2>2 DEF Storing, NextTextCanBeStored
    <3> QED
      BY <1>1, <1>3, <3>1 DEF Is
  <2> QED
    BY <2>1, <2>2
<1> QED
  BY <1>3, <1>4, <1>5, <1>6, <1>7, <1>8, <1>9 DEF Storing, Is

LEMMA UploadedStep ==
  ASSUME Typed, Storing, NEW h \in Handlers, CommitUpload(h)
  PROVE  Storing'
<1>1. Is(h, "stored") /\ request[h].bank \in Banks
  BY UploadType DEF CommitUpload
<1>2. PICK b \in Banks : b = request[h].bank
  BY <1>1
<1>3. /\ \A x \in Banks : text'[x].stored = text[x].stored
      /\ \A x \in Banks \ {b} : text'[x].versions = text[x].versions
      /\ text'[b].versions = NextVersion(b)
      /\ aborted' = aborted
  BY <1>1, <1>2 DEF CommitUpload, Typed, Storing
<1>4. text[b].versions \in Nat /\ NextVersion(b) = text[b].versions + 1
  BY DEF Typed, NextVersion
<1>5. NextVersion(b)' = NextVersion(b) + 1 /\ \A x \in Banks \ {b} : NextVersion(x)' = NextVersion(x)
  BY <1>3 DEF NextVersion
<1>6. NextVersion(b) \in text[b].stored
  BY <1>1, <1>2 DEF Storing
<1>7. ASSUME NEW x \in Banks
      PROVE  /\ 1..text'[x].versions \subseteq text'[x].stored
             /\ text'[x].stored \subseteq 1..NextVersion(x)'
  <2>1. CASE x = b
    <3>1. /\ 1..text[b].versions \subseteq text[b].stored
          /\ text[b].stored \subseteq 1..NextVersion(b)
      BY DEF Storing
    <3>2. 1..NextVersion(b) = (1..text[b].versions) \cup {NextVersion(b)}
      BY <1>4
    <3>3. 1..NextVersion(b) \subseteq 1..(NextVersion(b) + 1)
      BY <1>4
    <3> QED
      BY <1>3, <1>5, <1>6, <2>1, <3>1, <3>2, <3>3
  <2>2. CASE x # b
    BY <1>3, <1>5, <2>2 DEF Storing
  <2> QED
    BY <2>1, <2>2
<1>8. ASSUME NEW g \in Handlers, Is(g, "upload")' \/ Is(g, "stored")'
      PROVE  /\ g # h /\ request'[g] = request[g] /\ request[g].bank \in Banks
             /\ Is(g, "upload")' => Is(g, "upload")
             /\ Is(g, "stored")' => Is(g, "stored") /\ request[g].bank # b
  <2>1. Done(h)
    BY DEF CommitUpload
  <2>2. g # h /\ request'[g] = request[g] /\ (Is(g, "upload") \/ Is(g, "stored"))
    BY <1>8, <2>1, DoneAside DEF Is
  <2> QED
    BY <1>1, <1>2, <2>2, UploadType DEF Storing, Is
<1>9. \A x \in Banks : 1..NextVersion(x) \subseteq 1..NextVersion(x)'
  BY <1>4, <1>5
<1>10. NextTextCanBeStored'
  <2> SUFFICES ASSUME NEW x \in Banks \ aborted', NextVersion(x)' \in text'[x].stored
               PROVE  \E g \in Handlers : Is(g, "stored")' /\ request'[g].bank = x
    BY DEF NextTextCanBeStored
  <2>1. x # b
    <3>1. text[b].stored \subseteq 1..NextVersion(b)
      BY DEF Storing
    <3> QED
      BY <1>3, <1>4, <1>5, <3>1
  <2>2. PICK g \in Handlers : Is(g, "stored") /\ request[g].bank = x
    BY <1>3, <1>5, <2>1 DEF Storing, NextTextCanBeStored
  <2>3. g # h /\ Done(h)
    BY <1>2, <2>1, <2>2 DEF CommitUpload
  <2> QED
    BY <2>2, <2>3, DoneAside DEF Is
<1> QED
  BY <1>3, <1>5, <1>7, <1>8, <1>9, <1>10 DEF Storing, Is

LEMMA GivesUpStep ==
  ASSUME Typed, Storing, NEW h \in Handlers, GivesUp(h)
  PROVE  Storing'
<1>1. Done(h) /\ text' = text
  BY DEF GivesUp
<1>2. \A g \in Handlers : Is(g, "upload")' \/ Is(g, "stored")' =>
        request'[g] = request[g] /\ (Is(g, "upload")' => Is(g, "upload"))
        /\ (Is(g, "stored")' => Is(g, "stored"))
  BY <1>1, DoneAside DEF Is
<1>3. NextTextCanBeStored'
  <2> SUFFICES ASSUME NEW x \in Banks \ aborted', NextVersion(x)' \in text'[x].stored
               PROVE  \E g \in Handlers : Is(g, "stored")' /\ request'[g].bank = x
    BY DEF NextTextCanBeStored
  <2>1. x \notin aborted /\ (Is(h, "stored") => x # request[h].bank)
    BY DEF GivesUp
  <2>2. PICK g \in Handlers : Is(g, "stored") /\ request[g].bank = x
    BY <1>1, <2>1 DEF Storing, NextTextCanBeStored, NextVersion
  <2> QED
    BY <1>1, <2>1, <2>2, DoneAside DEF Is
<1> QED
  BY <1>1, <1>2, <1>3 DEF Storing, Is, NextVersion

LEMMA StoringStep == Typed /\ Storing /\ [Next]_vars => Storing'
<1> SUFFICES ASSUME Typed, Storing, [Next]_vars PROVE Storing'
  OBVIOUS
<1>1. CASE TextsAside
  <2>1. text' = text /\ aborted' = aborted
    BY <1>1 DEF TextsAside
  <2>2. \A g \in Handlers : request'[g].op \in {"upload", "stored"} => request'[g] = request[g]
    BY <1>1 DEF TextsAside, Kept
  <2>3. \A g \in Handlers : Is(g, "stored") => Is(g, "stored")' /\ request'[g] = request[g]
    BY <1>1 DEF TextsAside, StoredStay, Is
  <2>4. NextTextCanBeStored'
    BY <2>1, <2>3 DEF Storing, NextTextCanBeStored, NextVersion
  <2> QED
    BY <2>1, <2>2, <2>4 DEF Storing, Is, NextVersion
<1> QED
  BY <1>1, Effects, BeginStep, StoreStep, UploadedStep, GivesUpStep DEF TextStep

(* A bank's next text can always be stored, unless an upload for it ended  *)
(* half way: for any number of banks, versions and uploads at once.        *)
THEOREM TextsHold == Spec => []NextTextCanBeStored
<1>1. Init => Storing
  <2> SUFFICES ASSUME Init PROVE Storing
    OBVIOUS
  <2>1. \A b \in Banks : text[b].versions = 0 /\ text[b].stored = {}
    BY DEF Init
  <2>2. \A h \in Handlers : ~Is(h, "upload") /\ ~Is(h, "stored")
    BY DEF Init, Is, Idle
  <2> QED
    BY <2>1, <2>2 DEF Storing, NextTextCanBeStored
<1>2. Storing => NextTextCanBeStored
  BY DEF Storing
<1> QED
  BY <1>1, <1>2, InitTyped, NextTyped, StoringStep, PTL DEF Spec

-----------------------------------------------------------------------------
(* Links: who redeems one has claimed it, alone, before any session of it. *)
Claiming ==
  /\ OneSessionPerLink
  /\ \A l \in Links : link[l].sessions > 0 => link[l].state = "used"
  /\ \A h \in Handlers : Is(h, "redeem") =>
       link[request[h].link].state = "used" /\ link[request[h].link].sessions = 0
  /\ \A g, h \in Handlers :
       Is(g, "redeem") /\ Is(h, "redeem") /\ request[g].link = request[h].link => g = h

LEMMA RedeemType ==
  ASSUME Typed, NEW h \in Handlers, Is(h, "redeem")
  PROVE  request[h].link \in Links
BY Kinds DEF Typed, Is, RedeemRequest

LEMMA ClaimStep ==
  ASSUME Typed, Claiming, NEW h \in Handlers, NEW l \in Links, ClaimLink(h, l)
  PROVE  Claiming'
<1>1. /\ request'[h].op = "redeem" /\ request'[h].link = l
      /\ \A g \in Handlers \ {h} : request'[g] = request[g]
  BY AsksAside DEF ClaimLink
<1>2. /\ link[l].state = "issued" /\ link'[l].state = "used"
      /\ \A m \in Links : link'[m].sessions = link[m].sessions
      /\ \A m \in Links \ {l} : link'[m] = link[m]
  BY DEF ClaimLink, Typed, Link
<1>3. link[l].sessions = 0
  BY <1>2 DEF Claiming, Typed, Link
<1>4. ASSUME NEW g \in Handlers \ {h}, Is(g, "redeem")'
      PROVE  /\ Is(g, "redeem") /\ request'[g] = request[g]
             /\ request[g].link \in Links \ {l}
  <2>1. Is(g, "redeem") /\ request'[g] = request[g]
    BY <1>1, <1>4 DEF Is
  <2> QED
    BY <1>2, <2>1, RedeemType DEF Claiming
<1>5. OneSessionPerLink' /\ \A m \in Links : link'[m].sessions > 0 => link'[m].state = "used"
  BY <1>2 DEF Claiming, OneSessionPerLink
<1> QED
  BY <1>1, <1>2, <1>3, <1>4, <1>5 DEF Claiming, Is

LEMMA GrantStep ==
  ASSUME Typed, Claiming, NEW h \in Handlers, GrantSession(h)
  PROVE  Claiming'
<1>1. PICK l \in Links : l = request[h].link
  BY RedeemType DEF GrantSession
<1>2. /\ link'[l].state = "used" /\ link'[l].sessions = link[l].sessions + 1
      /\ \A m \in Links \ {l} : link'[m] = link[m]
  BY <1>1 DEF GrantSession, Typed
<1>3. link[l].sessions = 0
  BY <1>1 DEF GrantSession, Claiming
<1>4. ASSUME NEW g \in Handlers, Is(g, "redeem")'
      PROVE  /\ Is(g, "redeem") /\ request'[g] = request[g]
             /\ request[g].link \in Links \ {l}
  <2>1. Is(h, "redeem") /\ Done(h)
    BY DEF GrantSession
  <2>2. g # h /\ Is(g, "redeem") /\ request'[g] = request[g]
    BY <1>4, <2>1, DoneAside DEF Is
  <2> QED
    BY <1>1, <2>1, <2>2, RedeemType DEF Claiming
<1>5. OneSessionPerLink' /\ \A m \in Links : link'[m].sessions > 0 => link'[m].state = "used"
  BY <1>2, <1>3 DEF Claiming, OneSessionPerLink
<1> QED
  BY <1>2, <1>4, <1>5 DEF Claiming

LEMMA IssueStep ==
  ASSUME Typed, Claiming, NEW l \in Links, IssueLink(l) \/ LinkExpires(l)
  PROVE  Claiming'
<1>1. /\ link[l].state # "used" /\ request' = request
      /\ \A m \in Links : link'[m].sessions = link[m].sessions
      /\ \A m \in Links \ {l} : link'[m] = link[m]
  <2>1. link[l].state # "used" /\ request' = request /\ link \in [Links -> Link]
    BY DEF IssueLink, LinkExpires, Typed
  <2>2. PICK state \in {"issued", "expired"} : link' = [link EXCEPT ![l].state = state]
    BY DEF IssueLink, LinkExpires
  <2> QED
    BY <2>1, <2>2 DEF Link
<1>2. \A h \in Handlers : Is(h, "redeem") => request[h].link \in Links \ {l}
  BY <1>1, RedeemType DEF Claiming
<1>3. \A m \in Links : link[m].sessions > 0 => m # l
  BY <1>1 DEF Claiming
<1> QED
  BY <1>1, <1>2, <1>3 DEF Claiming, OneSessionPerLink, Is

LEMMA ClaimingStep == Typed /\ Claiming /\ [Next]_vars => Claiming'
<1> SUFFICES ASSUME Typed, Claiming, [Next]_vars PROVE Claiming'
  OBVIOUS
<1>1. CASE LinksAside
  <2>1. link' = link /\ \A g \in Handlers : Is(g, "redeem")' => Is(g, "redeem") /\ request'[g] = request[g]
    BY <1>1 DEF LinksAside, Kept, Is
  <2> QED
    BY <2>1 DEF Claiming, OneSessionPerLink
<1> QED
  BY <1>1, Effects, ClaimStep, GrantStep, IssueStep DEF LinkStep

(* AC-19 for any number of requests racing for a link.                     *)
THEOREM SessionsHold == Spec => []OneSessionPerLink
<1>1. Init => Claiming
  BY DEF Init, Claiming, OneSessionPerLink, Is, Idle
<1>2. Claiming => OneSessionPerLink
  BY DEF Claiming
<1> QED
  BY <1>1, <1>2, InitTyped, NextTyped, ClaimingStep, PTL DEF Spec

-----------------------------------------------------------------------------
(* The texts of agreements (Templates), on the behaviours of MCRegisters.  *)

TextApproval == [op : {"approve"}, version : Nat]
TextCreation == [op : {"create"}, version : Nat, data : Texts!Data, late : BOOLEAN]
DraftMade     == [status : {"DRAFT"}, version : Nat, data : Texts!Data, late : BOOLEAN]
GeneratedMade == [status : {"GENERATED"}, version : Nat, data : Texts!Data, late : BOOLEAN,
                  literal : SUBSET Texts!Names]

TextsTyped ==
  /\ versions \in Seq(Texts!Version)
  /\ made \in [Agreements -> {Texts!Unmade} \cup DraftMade \cup GeneratedMade]
  /\ pending \in [Handlers -> {Texts!Idle} \cup TextApproval \cup TextCreation]
  /\ retired \subseteq DOMAIN versions

(* Whatever was made, or is about to be, from a version: its data name all *)
(* the version requires, and if it is late the version was overtaken.      *)
Fits(m) ==
  /\ m.version \in DOMAIN versions
  /\ versions[m.version].required \subseteq m.data.keys
  /\ m.late => m.version \in overtaken

(* A placeholder is declared or given by the system; a version that was    *)
(* retired is so still, unless an approval had begun, and only then can an *)
(* approval be of one; and what is made fits its version, with no          *)
(* placeholder bare that a path of the data leads to.                      *)
TextsSound ==
  /\ \A v \in DOMAIN versions : versions[v].uses \subseteq versions[v].required \cup SystemProvided
  /\ \A v \in retired \ overtaken : versions[v].status = "RETIRED"
  /\ \A h \in Handlers : pending[h].op = "approve" =>
       pending[h].version \in DOMAIN versions \ (retired \ overtaken)
  /\ \A h \in Handlers : pending[h].op = "create" => Fits(pending[h])
  /\ \A a \in Agreements : made[a] # Texts!Unmade =>
       /\ Fits(made[a])
       /\ made[a].status = "GENERATED" =>
            made[a].literal = versions[made[a].version].uses \ (made[a].data.paths \cup SystemProvided)

TextsInv == TextsTyped /\ TextsSound

(* What every step leaves of the versions there are.                       *)
TextsKept ==
  /\ versions' \in Seq(Texts!Version) /\ DOMAIN versions \subseteq DOMAIN versions'
  /\ \A v \in DOMAIN versions :
       versions'[v].uses = versions[v].uses /\ versions'[v].required = versions[v].required
  /\ overtaken \subseteq overtaken'

(* A step that changes one request at most, and no agreement.              *)
LEMMA AskedOrDone ==
  ASSUME TextsInv, NEW h \in Handlers, UNCHANGED <<versions, made, retired, overtaken>>,
         \E req \in {Texts!Idle} \cup TextApproval \cup TextCreation :
           /\ pending' = [pending EXCEPT ![h] = req]
           /\ req.op = "approve" => req.version \in DOMAIN versions \ (retired \ overtaken)
           /\ req.op = "create" => Fits(req)
  PROVE  TextsInv'
<1>1. PICK req \in {Texts!Idle} \cup TextApproval \cup TextCreation :
        /\ pending' = [pending EXCEPT ![h] = req]
        /\ req.op = "approve" => req.version \in DOMAIN versions \ (retired \ overtaken)
        /\ req.op = "create" => Fits(req)
  OBVIOUS
<1>2. pending' \in [Handlers -> {Texts!Idle} \cup TextApproval \cup TextCreation]
      /\ pending'[h] = req /\ \A g \in Handlers \ {h} : pending'[g] = pending[g]
  BY <1>1 DEF TextsInv, TextsTyped
<1>3. TextsTyped'
  BY <1>2 DEF TextsInv, TextsTyped
<1>4. TextsSound'
  BY <1>1, <1>2 DEF TextsInv, TextsSound, Fits
<1>. QED  BY <1>3, <1>4 DEF TextsInv

(* A step that makes, edits, generates or corrects an agreement.           *)
LEMMA MadeAnew ==
  ASSUME TextsInv, NEW a \in Agreements, UNCHANGED <<versions, retired, overtaken>>,
         pending' \in [Handlers -> {Texts!Idle} \cup TextApproval \cup TextCreation],
         \A g \in Handlers : pending'[g] = pending[g] \/ pending'[g] = Texts!Idle,
         NEW m \in DraftMade \cup GeneratedMade, Fits(m),
         m.status = "GENERATED" =>
           m.literal = versions[m.version].uses \ (m.data.paths \cup SystemProvided),
         made' = [made EXCEPT ![a] = m]
  PROVE  TextsInv'
<1>1. made' \in [Agreements -> {Texts!Unmade} \cup DraftMade \cup GeneratedMade]
      /\ made'[a] = m /\ \A b \in Agreements \ {a} : made'[b] = made[b]
  BY DEF TextsInv, TextsTyped
<1>2. TextsTyped'
  BY <1>1 DEF TextsInv, TextsTyped
<1>3. \A g \in Handlers : pending'[g].op \in {"approve", "create"} => pending'[g] = pending[g]
  BY DEF Texts!Idle
<1>4. TextsSound'
  BY <1>1, <1>3 DEF TextsInv, TextsSound, Fits
<1>. QED  BY <1>2, <1>4 DEF TextsInv

LEMMA TextCreated ==
  ASSUME TextsInv, NEW s \in Staff, NEW uses \in SUBSET Texts!Names, NEW required \in SUBSET Texts!Given,
         Texts!CreateVersion(s, uses, required)
  PROVE  TextsInv'
<1>. DEFINE new == [author |-> s, uses |-> uses, required |-> required, status |-> "DRAFT"]
<1>1. /\ uses \subseteq required \cup SystemProvided
      /\ versions' = Append(versions, new)
      /\ UNCHANGED <<made, pending, retired, overtaken>>
  BY DEF Texts!CreateVersion, Texts!PlaceholdersDeclared
<1>2. versions \in Seq(Texts!Version) /\ new \in Texts!Version
  BY DEF TextsInv, TextsTyped, Texts!Version
<1>. HIDE DEF new
<1>3. /\ versions' \in Seq(Texts!Version) /\ DOMAIN versions' = DOMAIN versions \cup {Len(versions) + 1}
      /\ \A v \in DOMAIN versions : versions'[v] = versions[v]
      /\ versions'[Len(versions) + 1] = new
  BY <1>1, <1>2
<1>4. TextsKept
  BY <1>1, <1>3 DEF TextsKept
<1>5. TextsTyped'
  BY <1>1, <1>3 DEF TextsInv, TextsTyped
<1>6. \A v \in DOMAIN versions' : versions'[v].uses \subseteq versions'[v].required \cup SystemProvided
  BY <1>1, <1>3 DEF new, TextsInv, TextsSound
<1>7. \A v \in retired' \ overtaken' : versions'[v].status = "RETIRED"
  BY <1>1, <1>3 DEF TextsInv, TextsTyped, TextsSound
<1>8. \A h \in Handlers : pending'[h].op = "approve" =>
        pending'[h].version \in DOMAIN versions' \ (retired' \ overtaken')
  BY <1>1, <1>3 DEF TextsInv, TextsSound
<1>9. \A h \in Handlers : pending'[h].op = "create" => Fits(pending[h])'
  BY <1>1, <1>4 DEF TextsInv, TextsSound, Fits, TextsKept
<1>10. \A b \in Agreements : made'[b] # Texts!Unmade =>
       /\ Fits(made[b])'
       /\ made'[b].status = "GENERATED" =>
            made'[b].literal = versions'[made'[b].version].uses \ (made'[b].data.paths \cup SystemProvided)
  BY <1>1, <1>4 DEF TextsInv, TextsSound, Fits, TextsKept
<1>11. TextsSound'
  BY <1>6, <1>7, <1>8, <1>9, <1>10 DEF TextsSound
<1>. QED  BY <1>5, <1>11 DEF TextsInv

(* A version takes another status: approved, or retired.                   *)
LEMMA TextMarked ==
  ASSUME TextsInv, NEW v \in DOMAIN versions, NEW s \in {"APPROVED", "RETIRED"},
         versions' = [versions EXCEPT ![v].status = s]
  PROVE  /\ versions' \in Seq(Texts!Version) /\ DOMAIN versions' = DOMAIN versions
         /\ versions'[v].status = s
         /\ \A w \in DOMAIN versions :
              versions'[w].uses = versions[w].uses /\ versions'[w].required = versions[w].required
         /\ \A w \in DOMAIN versions \ {v} : versions'[w] = versions[w]
<1>. DEFINE new == [versions[v] EXCEPT !.status = s]
<1>1. versions \in Seq(Texts!Version) /\ versions[v] \in Texts!Version /\ DOMAIN versions = 1..Len(versions)
  BY DEF TextsInv, TextsTyped
<1>2. versions' = [versions EXCEPT ![v] = new]
  OBVIOUS
<1>3. new \in Texts!Version /\ new.uses = versions[v].uses /\ new.required = versions[v].required /\ new.status = s
  BY <1>1 DEF Texts!Version
<1>. HIDE DEF new
<1>4. /\ versions' \in Seq(Texts!Version) /\ DOMAIN versions' = DOMAIN versions
      /\ versions'[v] = new /\ \A w \in DOMAIN versions \ {v} : versions'[w] = versions[w]
  BY <1>1, <1>2, <1>3
<1>. QED  BY <1>3, <1>4

LEMMA TextRetired ==
  ASSUME TextsInv, NEW v \in DOMAIN versions, Texts!Retire(v)
  PROVE  TextsInv'
<1>1. /\ versions' = [versions EXCEPT ![v].status = "RETIRED"]
      /\ retired' = retired \cup {v} /\ overtaken \subseteq overtaken'
      /\ (\E h \in Handlers : pending[h].op = "approve" /\ pending[h].version = v) => v \in overtaken'
      /\ UNCHANGED <<made, pending>>
  BY DEF Texts!Retire, Texts!Is
<1>2. /\ TextsKept /\ versions' \in Seq(Texts!Version) /\ DOMAIN versions' = DOMAIN versions
      /\ versions'[v].status = "RETIRED" /\ \A w \in DOMAIN versions \ {v} : versions'[w] = versions[w]
  BY <1>1, TextMarked DEF TextsKept
<1>3. TextsTyped'
  BY <1>1, <1>2 DEF TextsInv, TextsTyped
<1>4. \A w \in DOMAIN versions' : versions'[w].uses \subseteq versions'[w].required \cup SystemProvided
  BY <1>2 DEF TextsInv, TextsSound, TextsKept
<1>5. \A w \in retired' \ overtaken' : versions'[w].status = "RETIRED"
  BY <1>1, <1>2 DEF TextsInv, TextsTyped, TextsSound
<1>6. \A h \in Handlers : pending'[h].op = "approve" =>
        pending'[h].version \in DOMAIN versions' \ (retired' \ overtaken')
  BY <1>1, <1>2 DEF TextsInv, TextsSound
<1>7. \A h \in Handlers : pending'[h].op = "create" => Fits(pending[h])'
  BY <1>1, <1>2 DEF TextsInv, TextsSound, Fits, TextsKept
<1>8. \A b \in Agreements : made'[b] # Texts!Unmade =>
       /\ Fits(made[b])'
       /\ made'[b].status = "GENERATED" =>
            made'[b].literal = versions'[made'[b].version].uses \ (made'[b].data.paths \cup SystemProvided)
  BY <1>1, <1>2 DEF TextsInv, TextsSound, Fits, TextsKept
<1>. QED  BY <1>3, <1>4, <1>5, <1>6, <1>7, <1>8 DEF TextsInv, TextsSound

LEMMA TextApproved ==
  ASSUME TextsInv, NEW h \in Handlers, Texts!CommitApprove(h)
  PROVE  TextsInv'
<1>. DEFINE v == pending[h].version
<1>1. /\ pending[h].op = "approve" /\ versions' = [versions EXCEPT ![v].status = "APPROVED"]
      /\ pending' = [pending EXCEPT ![h] = Texts!Idle]
      /\ UNCHANGED <<made, retired, overtaken>>
  BY DEF Texts!CommitApprove, Texts!Is, Texts!Done
<1>2. v \in DOMAIN versions \ (retired \ overtaken)
  BY <1>1 DEF TextsInv, TextsSound
<1>3. pending' \in [Handlers -> {Texts!Idle} \cup TextApproval \cup TextCreation]
      /\ pending'[h] = Texts!Idle /\ \A g \in Handlers \ {h} : pending'[g] = pending[g]
  BY <1>1 DEF TextsInv, TextsTyped
<1>. HIDE DEF v
<1>4. /\ TextsKept /\ versions' \in Seq(Texts!Version) /\ DOMAIN versions' = DOMAIN versions
      /\ \A w \in DOMAIN versions \ {v} : versions'[w] = versions[w]
  BY <1>1, <1>2, TextMarked DEF TextsKept
<1>5. TextsTyped'
  BY <1>1, <1>3, <1>4 DEF TextsInv, TextsTyped
<1>6. \A w \in DOMAIN versions' : versions'[w].uses \subseteq versions'[w].required \cup SystemProvided
  BY <1>4 DEF TextsInv, TextsSound, TextsKept
<1>7. \A w \in retired' \ overtaken' : versions'[w].status = "RETIRED"
  BY <1>1, <1>2, <1>4 DEF TextsInv, TextsTyped, TextsSound
<1>8. \A g \in Handlers : pending'[g].op = "approve" =>
        pending'[g].version \in DOMAIN versions' \ (retired' \ overtaken')
  BY <1>1, <1>3, <1>4 DEF TextsInv, TextsSound, Texts!Idle
<1>9. \A g \in Handlers : pending'[g].op = "create" => Fits(pending[g])'
  BY <1>1, <1>3, <1>4 DEF TextsInv, TextsSound, Fits, TextsKept, Texts!Idle
<1>10. \A b \in Agreements : made'[b] # Texts!Unmade =>
       /\ Fits(made[b])'
       /\ made'[b].status = "GENERATED" =>
            made'[b].literal = versions'[made'[b].version].uses \ (made'[b].data.paths \cup SystemProvided)
  BY <1>1, <1>4 DEF TextsInv, TextsSound, Fits, TextsKept
<1>. QED  BY <1>5, <1>6, <1>7, <1>8, <1>9, <1>10 DEF TextsInv, TextsSound

LEMMA TextAsked ==
  ASSUME TextsInv, NEW h \in Handlers,
         \/ \E s \in Staff, v \in DOMAIN versions : Texts!BeginApprove(h, s, v)
         \/ \E v \in DOMAIN versions, d \in Texts!Data : Texts!BeginCreate(h, v, d)
         \/ Texts!GivesUp(h)
  PROVE  TextsInv'
<1>1. DOMAIN versions \subseteq Nat
  BY DEF TextsInv, TextsTyped
<1>2. ASSUME NEW s \in Staff, NEW v \in DOMAIN versions, Texts!BeginApprove(h, s, v)
      PROVE  TextsInv'
  <2>. DEFINE req == [op |-> "approve", version |-> v]
  <2>1. /\ versions[v].status = "DRAFT" /\ pending' = [pending EXCEPT ![h] = req]
        /\ UNCHANGED <<versions, made, retired, overtaken>>
    BY <1>2 DEF Texts!BeginApprove, Texts!Asks
  <2>2. v \notin retired \ overtaken
    BY <2>1 DEF TextsInv, TextsSound
  <2>3. req \in TextApproval /\ req.op = "approve" /\ req.version = v
    BY <1>1 DEF TextApproval
  <2>. HIDE DEF req
  <2>. QED  BY <2>1, <2>2, <2>3, AskedOrDone
<1>3. ASSUME NEW v \in DOMAIN versions, NEW d \in Texts!Data, Texts!BeginCreate(h, v, d)
      PROVE  TextsInv'
  <2>. DEFINE req == [op |-> "create", version |-> v, data |-> d, late |-> v \in retired]
  <2>1. /\ versions[v].status = "APPROVED" /\ versions[v].required \subseteq d.keys
        /\ pending' = [pending EXCEPT ![h] = req]
        /\ UNCHANGED <<versions, made, retired, overtaken>>
    BY <1>3 DEF Texts!BeginCreate, Texts!Asks, Texts!TemplateVariables
  <2>2. v \in retired => v \in overtaken
    BY <2>1 DEF TextsInv, TextsSound
  <2>3. req \in TextCreation /\ req.op = "create" /\ Fits(req)
    <3>. DEFINE late == v \in retired
    <3>1. late \in BOOLEAN
      OBVIOUS
    <3>2. late => v \in overtaken
      BY <2>2
    <3>3. req = [op |-> "create", version |-> v, data |-> d, late |-> late]
      OBVIOUS
    <3>. HIDE DEF late, req
    <3>4. req \in TextCreation
      BY <1>1, <3>1, <3>3 DEF TextCreation
    <3>5. req.version = v /\ req.data = d /\ req.late = late /\ req.op = "create"
      BY <3>3
    <3>. QED  BY <2>1, <3>2, <3>4, <3>5 DEF Fits
  <2>. HIDE DEF req
  <2>. QED  BY <2>1, <2>3, AskedOrDone
<1>4. CASE Texts!GivesUp(h)
  <2>1. pending' = [pending EXCEPT ![h] = Texts!Idle] /\ UNCHANGED <<versions, made, retired, overtaken>>
    BY <1>4 DEF Texts!GivesUp, Texts!Done
  <2>2. Texts!Idle.op = "idle"
    BY DEF Texts!Idle
  <2>. QED  BY <2>1, <2>2, AskedOrDone
<1>. QED  BY <1>2, <1>3, <1>4

LEMMA TextMade ==
  ASSUME TextsInv, NEW a \in Agreements,
         \/ \E h \in Handlers : Texts!CommitCreate(h, a)
         \/ \E d \in Texts!Data : Texts!UpdateDraft(a, d)
         \/ Texts!Generate(a) \/ Texts!Correct(a)
  PROVE  TextsInv'
<1>. DEFINE Pendings == [Handlers -> {Texts!Idle} \cup TextApproval \cup TextCreation]
<1>1. pending \in Pendings /\ made[a] \in {Texts!Unmade} \cup DraftMade \cup GeneratedMade
  BY DEF TextsInv, TextsTyped
<1>2. ASSUME NEW h \in Handlers, Texts!CommitCreate(h, a)
      PROVE  TextsInv'
  <2>. DEFINE m == Texts!Draft(pending[h])
  <2>1. /\ pending[h].op = "create" /\ pending' = [pending EXCEPT ![h] = Texts!Idle]
        /\ made' = [made EXCEPT ![a] = m] /\ UNCHANGED <<versions, retired, overtaken>>
    BY <1>2 DEF Texts!CommitCreate, Texts!Is, Texts!Done
  <2>2. pending[h] \in TextCreation /\ Fits(pending[h])
    BY <1>1, <2>1 DEF TextsInv, TextsSound, Texts!Idle, TextApproval
  <2>3. m \in DraftMade /\ Fits(m) /\ m.status = "DRAFT"
    BY <2>2 DEF Texts!Draft, DraftMade, TextCreation, Fits
  <2>4. pending' \in Pendings /\ \A g \in Handlers : pending'[g] = pending[g] \/ pending'[g] = Texts!Idle
    BY <1>1, <2>1
  <2>. HIDE DEF m
  <2>. QED  BY <2>1, <2>3, <2>4, MadeAnew
<1>3. ASSUME NEW d \in Texts!Data, Texts!UpdateDraft(a, d)
      PROVE  TextsInv'
  <2>. DEFINE m == [made[a] EXCEPT !.data = d]
  <2>1. /\ made[a].status = "DRAFT" /\ made' = [made EXCEPT ![a] = m]
        /\ versions[made[a].version].required \subseteq d.keys
        /\ UNCHANGED <<versions, pending, retired, overtaken>>
    BY <1>3 DEF Texts!UpdateDraft, Texts!TemplateVariables
  <2>2. made[a] \in DraftMade /\ Fits(made[a])
    BY <1>1, <2>1 DEF TextsInv, TextsSound, Texts!Unmade, GeneratedMade
  <2>3. m \in DraftMade /\ Fits(m) /\ m.status = "DRAFT"
    BY <2>1, <2>2 DEF DraftMade, Fits
  <2>. HIDE DEF m
  <2>. QED  BY <2>1, <2>3, <1>1, MadeAnew
<1>4. CASE Texts!Generate(a)
  <2>. DEFINE old == made[a]
              m == [status |-> "GENERATED", version |-> old.version, data |-> old.data, late |-> old.late,
                    literal |-> versions[old.version].uses \ (old.data.paths \cup SystemProvided)]
  <2>1. /\ old.status = "DRAFT" /\ made' = [made EXCEPT ![a] = m]
        /\ UNCHANGED <<versions, pending, retired, overtaken>>
    BY <1>4 DEF Texts!Generate, Texts!MergeTemplate
  <2>2. old \in DraftMade /\ Fits(old)
    BY <1>1, <2>1 DEF TextsInv, TextsSound, Texts!Unmade, GeneratedMade
  <2>3. versions[old.version] \in Texts!Version
    BY <2>2 DEF TextsInv, TextsTyped, Fits
  <2>4. m \in GeneratedMade /\ Fits(m)
        /\ m.literal = versions[m.version].uses \ (m.data.paths \cup SystemProvided)
    BY <2>2, <2>3 DEF DraftMade, GeneratedMade, Fits, Texts!Version
  <2>. HIDE DEF m
  <2>. QED  BY <2>1, <2>4, <1>1, MadeAnew
<1>5. CASE Texts!Correct(a)
  <2>. DEFINE m == Texts!Draft(made[a])
  <2>1. /\ made[a].status = "GENERATED" /\ made' = [made EXCEPT ![a] = m]
        /\ UNCHANGED <<versions, pending, retired, overtaken>>
    BY <1>5, <1>1 DEF Texts!Correct
  <2>2. made[a] \in GeneratedMade /\ Fits(made[a])
    BY <1>1, <2>1 DEF TextsInv, TextsSound, Texts!Unmade, DraftMade
  <2>3. m \in DraftMade /\ Fits(m) /\ m.status = "DRAFT"
    BY <2>2 DEF Texts!Draft, DraftMade, GeneratedMade, Fits
  <2>. HIDE DEF m
  <2>. QED  BY <2>1, <2>3, <1>1, MadeAnew
<1>. QED  BY <1>2, <1>3, <1>4, <1>5

LEMMA TextsStep ==
  ASSUME TextsInv, [MCNext]_MCVars
  PROVE  TextsInv'
<1>1. CASE UNCHANGED textVars
  BY <1>1 DEF textVars, TextsInv, TextsTyped, TextsSound, Fits
<1>2. CASE Texts!Next
  BY <1>2, TextCreated, TextRetired, TextApproved, TextAsked, TextMade DEF Texts!Next
<1>. QED  BY <1>1, <1>2 DEF MCNext, MCVars

(* FR-003: an agreement begun after its text was retired is one whose text *)
(* an approval under way at the retirement brought back, and a generated   *)
(* document shows a bare placeholder only where its name has a dot.        *)
THEOREM Executed == MCSpec => []ExecutedAsApproved
<1>1. MCInit => TextsInv
  <2>. SUFFICES ASSUME MCInit PROVE TextsInv
    OBVIOUS
  <2>1. /\ versions = <<>> /\ retired = {} /\ made = [a \in Agreements |-> Texts!Unmade]
        /\ pending = [h \in Handlers |-> Texts!Idle]
    BY DEF MCInit, Texts!Init
  <2>2. <<>> \in Seq(Texts!Version) /\ DOMAIN versions = {}
    BY <2>1, EmptySeq
  <2>. QED  BY <2>1, <2>2 DEF TextsInv, TextsTyped, TextsSound, Texts!Idle
<1>2. TextsInv /\ [MCNext]_MCVars => TextsInv'
  BY TextsStep
<1>3. TextsInv => ExecutedAsApproved
  <2>. SUFFICES ASSUME TextsInv, NEW a \in Agreements, made[a] # Texts!Unmade
                PROVE  Texts!FromAnApprovedText(a) /\ Texts!PlaceholdersFilled(a)
    BY DEF ExecutedAsApproved, Texts!ExecutedAsApproved
  <2>1. Fits(made[a]) /\ made[a] \in DraftMade \cup GeneratedMade
    BY DEF TextsInv, TextsTyped, TextsSound
  <2>2. Texts!FromAnApprovedText(a)
    BY <2>1 DEF Texts!FromAnApprovedText, Fits
  <2>3. ASSUME made[a].status = "GENERATED"
        PROVE  made[a].literal \subseteq Dotted
    <3>. DEFINE ver == versions[made[a].version]
                d   == made[a].data
    <3>1. ver \in Texts!Version /\ ver.uses \subseteq ver.required \cup SystemProvided
      BY <2>1 DEF TextsInv, TextsTyped, TextsSound, Fits
    <3>2. made[a].literal = ver.uses \ (d.paths \cup SystemProvided) /\ ver.required \subseteq d.keys
      BY <2>1, <2>3 DEF TextsInv, TextsSound, Fits
    <3>3. d \in Texts!Data
      BY <2>1 DEF DraftMade, GeneratedMade
    <3>4. d.keys \subseteq Plain \cup Dotted /\ d.keys \cap Plain = d.paths \cap Plain
      BY <3>3 DEF Texts!Data, Texts!Given
    <3>. HIDE DEF ver, d
    <3>. QED  BY <3>1, <3>2, <3>4
  <2>. QED  BY <2>2, <2>3 DEF Texts!PlaceholdersFilled
<1>. QED  BY <1>1, <1>2, <1>3, PTL DEF MCSpec

=============================================================================
