------------------------------ MODULE Registers ------------------------------
(***************************************************************************)
(* What the database hands out: agreement numbers (migration 010) and      *)
(* execution references (017), taken from counters whose rows are locked   *)
(* to the end of the transaction, the versions of a bank's text, and the   *)
(* single-use links of external parties.                                   *)
(*                                                                         *)
(* Each is taken by one step of a request and made use of by a later one,  *)
(* or lost to a rollback or a crash between the two.                       *)
(***************************************************************************)
EXTENDS Naturals, Sequences, FiniteSets

CONSTANTS
  Agents,         \* users with an agent_code
  NOBODY,         \* the agent of an agreement whose party has no code
  Banks, Links,
  Handlers,       \* requests that may be under way at once
  Base,           \* of the numerals of a reference: 10 in the code
  Capacity,       \* what as many digits as it has can say: 1000 in the code
  MaxYear,        \* bound on the financial years
  MaxAgreements,  \* bound on the agreements created
  MaxVersion      \* bound on the versions of a bank's text

ASSUME NobodyAssumption == NOBODY \notin Agents
ASSUME DigitsAssumption == Base \in Nat /\ Base > 1 /\ Capacity \in Nat \ {0}
ASSUME BoundsAssumption == MaxYear \in Nat \ {0} /\ MaxAgreements \in Nat /\ MaxVersion \in Nat

VARIABLES
  year,       \* the financial year
  register,   \* agreements, in the order of creation
  numbers,    \* agreement_number_sequences: next_value per year
  counters,   \* agent_execution_sequences: next_value per agent and year
  text,       \* bank_agreement_documents, and their keys in the object store
  link,       \* party_access_tokens
  request,    \* each handler: what it has taken
  aborted     \* history: banks an upload for which ended half way

vars == <<year, register, numbers, counters, text, link, request, aborted>>

Year  == 1..MaxYear
Count == 1..MaxAgreements + 1
Idle  == [op |-> "idle"]

Agreement == [year : Year, number : Count, agent : Agents \cup {NOBODY},
              completed : BOOLEAN, reference : {<<>>} \cup (Agents \X Year \X Nat)]
Text == [versions : 0..MaxVersion, stored : SUBSET (1..MaxVersion)]
Link == [state : {"none", "issued", "used", "expired"}, sessions : Nat]

TypeOK ==
  /\ year \in Year
  /\ register \in Seq(Agreement) /\ Len(register) <= MaxAgreements
  /\ numbers \in [Year -> Count] /\ counters \in [Agents \X Year -> Count]
  /\ text \in [Banks -> Text] /\ link \in [Links -> Link] /\ aborted \subseteq Banks
  /\ request \in [Handlers -> {Idle}
       \cup [op : {"create"}, year : Year, agent : Agents \cup {NOBODY}, number : Count]
       \cup [op : {"complete"}, agreement : 1..MaxAgreements, year : Year, next : {0} \cup Count]
       \cup [op : {"upload", "stored"}, bank : Banks, version : 1..MaxVersion]
       \cup [op : {"redeem"}, link : Links]]

Init ==
  /\ year = 1 /\ register = <<>>
  /\ numbers = [y \in Year |-> 1] /\ counters = [p \in Agents \X Year |-> 1]
  /\ text = [b \in Banks |-> [versions |-> 0, stored |-> {}]]
  /\ link = [l \in Links |-> [state |-> "none", sessions |-> 0]]
  /\ request = [h \in Handlers |-> Idle] /\ aborted = {}

-----------------------------------------------------------------------------
Is(h, op)    == request[h].op = op
Asks(h, req) == Is(h, "idle") /\ request' = [request EXCEPT ![h] = req]
Done(h)      == request' = [request EXCEPT ![h] = Idle]

(* 1 April; a request keeps the year it computed.                          *)
TurnOfYear ==
  /\ year < MaxYear /\ year' = year + 1
  /\ UNCHANGED <<register, numbers, counters, text, link, request, aborted>>

-----------------------------------------------------------------------------
(* create.                                                                 *)

(* Mutant: a sequence, which a transaction rolled back does not give back. *)
TakeNumber_Sequence(h, agent) ==
  /\ Len(register) < MaxAgreements
  /\ Asks(h, [op |-> "create", year |-> year, agent |-> agent, number |-> numbers[year]])
  /\ numbers' = [numbers EXCEPT ![year] = @ + 1]
  /\ UNCHANGED <<year, register, counters, text, link, aborted>>

TakeNumber(h, agent) ==
  /\ \A g \in Handlers : ~(Is(g, "create") /\ request[g].year = year)
  /\ Len(register) < MaxAgreements
  /\ Asks(h, [op |-> "create", year |-> year, agent |-> agent, number |-> numbers[year]])
  /\ UNCHANGED <<year, register, numbers, counters, text, link, aborted>>

CommitCreate(h) ==
  /\ Is(h, "create") /\ Len(register) < MaxAgreements
  /\ LET r == request[h] IN
       /\ numbers' = [numbers EXCEPT ![r.year] = r.number + 1]
       /\ register' = Append(register, [year |-> r.year, number |-> r.number, agent |-> r.agent,
                                        completed |-> FALSE, reference |-> <<>>])
  /\ Done(h) /\ UNCHANGED <<year, counters, text, link, aborted>>

-----------------------------------------------------------------------------
(* Completion mints the execution reference.                               *)

(* lpad pads a short number and cuts a long one: its first digits remain.  *)
FirstDigits[n \in Nat] == IF n < Capacity THEN n ELSE FirstDigits[n \div Base]

Lpad(n) == IF n < Capacity THEN n ELSE FirstDigits[n]

(* Mutant: the counter is per year, the reference is not.                  *)
ReferenceOf_NoYear(a, y, n) == <<register[a].agent, 1, Lpad(n)>>

(* The code of the bank is left out: all are of one bank here.             *)
ReferenceOf(a, y, n) == <<register[a].agent, y, Lpad(n)>>

(* Without an agent code no reference is minted.                           *)
MintExecutionReference(a) ==
  IF register[a].agent = NOBODY THEN 0 ELSE counters[<<register[a].agent, year>>]

(* The counter of the agent and year is locked from here on.               *)
Mint(h, a) ==
  /\ a \in DOMAIN register /\ ~register[a].completed
  /\ \A g \in Handlers : Is(g, "complete") =>
       /\ request[g].agreement # a
       /\ ~(request[g].next > 0 /\ request[g].year = year
            /\ register[request[g].agreement].agent = register[a].agent)
  /\ Asks(h, [op |-> "complete", agreement |-> a, year |-> year,
              next |-> MintExecutionReference(a)])
  /\ UNCHANGED <<year, register, numbers, counters, text, link, aborted>>

Taken(reference) == \E a \in DOMAIN register : register[a].reference = reference

(* A reference that another agreement has is refused by its index, and the *)
(* completion and the count with it.                                       *)
CommitComplete(h) ==
  /\ Is(h, "complete")
  /\ LET r == request[h]  agent == register[r.agreement].agent IN
       \/ /\ r.next = 0
          /\ register' = [register EXCEPT ![r.agreement].completed = TRUE]
          /\ UNCHANGED counters
       \/ /\ r.next > 0 /\ ~Taken(ReferenceOf(r.agreement, r.year, r.next))
          /\ register' = [register EXCEPT ![r.agreement].completed = TRUE,
                            ![r.agreement].reference = ReferenceOf(r.agreement, r.year, r.next)]
          /\ counters' = [counters EXCEPT ![<<agent, r.year>>] = r.next + 1]
  /\ Done(h) /\ UNCHANGED <<year, numbers, text, link, aborted>>

-----------------------------------------------------------------------------
(* uploadDocument.                                                         *)

(* Mutant: the active versions are counted, of which there is one at most. *)
NextVersion_Active(b) == IF text[b].versions = 0 THEN 1 ELSE 2

NextVersion(b) == text[b].versions + 1

(* The version is read in the transaction, but the text is stored under it *)
(* outside: a key that is taken refuses the upload.                        *)
BeginUpload(h, b) ==
  /\ NextVersion(b) <= MaxVersion
  /\ Asks(h, [op |-> "upload", bank |-> b, version |-> NextVersion(b)])
  /\ UNCHANGED <<year, register, numbers, counters, text, link, aborted>>

StoreText(h) ==
  /\ Is(h, "upload") /\ request[h].version \notin text[request[h].bank].stored
  /\ text' = [text EXCEPT ![request[h].bank].stored = @ \cup {request[h].version}]
  /\ request' = [request EXCEPT ![h].op = "stored"]
  /\ UNCHANGED <<year, register, numbers, counters, link, aborted>>

(* The new row is the active one from here on.                             *)
CommitUpload(h) ==
  /\ Is(h, "stored")
  /\ text' = [text EXCEPT ![request[h].bank].versions = request[h].version]
  /\ Done(h) /\ UNCHANGED <<year, register, numbers, counters, link, aborted>>

-----------------------------------------------------------------------------
(* issuePartyAccess and redeemPartyAccess.                                 *)
IssueLink(l) ==
  /\ link[l].state = "none" /\ link' = [link EXCEPT ![l].state = "issued"]
  /\ UNCHANGED <<year, register, numbers, counters, text, request, aborted>>

LinkExpires(l) ==
  /\ link[l].state = "issued" /\ link' = [link EXCEPT ![l].state = "expired"]
  /\ UNCHANGED <<year, register, numbers, counters, text, request, aborted>>

(* Mutant: the link is read here and marked when the session is granted.   *)
ClaimLink_Read(h, l) ==
  /\ link[l].state = "issued" /\ Asks(h, [op |-> "redeem", link |-> l])
  /\ UNCHANGED <<year, register, numbers, counters, text, link, aborted>>

(* One statement claims the link, before the session is made.              *)
ClaimLink(h, l) ==
  /\ link[l].state = "issued" /\ link' = [link EXCEPT ![l].state = "used"]
  /\ Asks(h, [op |-> "redeem", link |-> l])
  /\ UNCHANGED <<year, register, numbers, counters, text, aborted>>

GrantSession(h) ==
  /\ Is(h, "redeem")
  /\ link' = [link EXCEPT ![request[h].link] = [state |-> "used", sessions |-> @.sessions + 1]]
  /\ Done(h) /\ UNCHANGED <<year, register, numbers, counters, text, aborted>>

(* A request is refused, rolled back or lost in a crash.                   *)
GivesUp(h) ==
  /\ ~Is(h, "idle")
  /\ aborted' = IF Is(h, "stored") THEN aborted \cup {request[h].bank} ELSE aborted
  /\ Done(h) /\ UNCHANGED <<year, register, numbers, counters, text, link>>

-----------------------------------------------------------------------------
Next ==
  \/ TurnOfYear
  \/ \E l \in Links : IssueLink(l) \/ LinkExpires(l)
  \/ \E h \in Handlers :
       \/ \E agent \in Agents \cup {NOBODY} : TakeNumber(h, agent)
       \/ \E a \in 1..MaxAgreements : Mint(h, a)
       \/ \E b \in Banks : BeginUpload(h, b)
       \/ \E l \in Links : ClaimLink(h, l)
       \/ CommitCreate(h) \/ CommitComplete(h) \/ StoreText(h) \/ CommitUpload(h)
       \/ GrantSession(h) \/ GivesUp(h)

Spec == Init /\ [][Next]_vars

-----------------------------------------------------------------------------
(* Properties.                                                             *)

(* FR-026: the agreements of a year are numbered without gaps or doubles,  *)
(* whatever is rolled back.                                                *)
NumberedIn(y) == {a \in DOMAIN register : register[a].year = y}

RegisterGapFree ==
  \A y \in Year :
    {register[a].number : a \in NumberedIn(y)} = 1..Cardinality(NumberedIn(y))

(* DEC-036: the next reference of an agent is free until the digits run    *)
(* out; from then on his agreements cannot be completed.                   *)
NextReferenceIsFree ==
  \A a \in DOMAIN register : \A y \in Year :
    LET agent == register[a].agent IN
      agent # NOBODY /\ counters[<<agent, y>>] < Capacity => ~Taken(ReferenceOf(a, y, counters[<<agent, y>>]))

(* The key of a bank's next text is free, unless an upload is under way or *)
(* one ended between the object store and the database: then no text can   *)
(* be uploaded for that bank any more.                                     *)
NextTextCanBeStored ==
  \A b \in Banks \ aborted :
    NextVersion(b) \in text[b].stored => \E h \in Handlers : Is(h, "stored") /\ request[h].bank = b

(* AC-19: "a link raced by two requests grants exactly one session", or    *)
(* none, when the one that claimed it is interrupted.                      *)
OneSessionPerLink == \A l \in Links : link[l].sessions <= 1

=============================================================================
