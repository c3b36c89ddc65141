------------------------------ MODULE Templates ------------------------------
(***************************************************************************)
(* The texts agreements of a TEMPLATE type are made from: versions of a    *)
(* template with their placeholders (templates.service.ts), the creation,  *)
(* edition and generation of agreements from them (agreements.service.ts), *)
(* and the merge (renderer.ts).                                            *)
(*                                                                         *)
(* Approving a version and creating an agreement are two steps each: what  *)
(* is read, and what is written.  A placeholder is declared under its whole*)
(* name and looked up in the data under it; the merge reads a name with    *)
(* dots as a path into the data.                                           *)
(***************************************************************************)
EXTENDS Naturals, Sequences

CONSTANTS
  Staff,           \* administrators, who write and approve
  Plain, Dotted,   \* names without and with a dot
  SystemProvided,  \* names the system gives a value
  Agreements,
  Handlers,        \* requests that may be under way at once
  MaxTexts         \* bound on the versions of the template

VARIABLES
  versions,    \* agreement_template_versions
  made,        \* agreements of the type
  pending,     \* each handler: what it has read
  retired,     \* history: versions that were retired
  overtaken    \* history: those of them that were retired during an approval

vars == <<versions, made, pending, retired, overtaken>>

Given   == Plain \cup Dotted
Names   == Given \cup SystemProvided
Idle    == [op |-> "idle"]
Version == [author : Staff, uses : SUBSET Names, required : SUBSET Given,
            status : {"DRAFT", "APPROVED", "RETIRED"}]

(* agreements.data: the names that are keys of it, and those that are paths*)
(* into it.  A plain name is either both or neither.                       *)
Data == {d \in [keys : SUBSET Given, paths : SUBSET Given] : d.keys \cap Plain = d.paths \cap Plain}

Unmade == [status |-> "none"]
Draft(d) == [status |-> "DRAFT", version |-> d.version, data |-> d.data, late |-> d.late]

Init ==
  /\ versions = <<>> /\ made = [a \in Agreements |-> Unmade]
  /\ pending = [h \in Handlers |-> Idle]
  /\ retired = {} /\ overtaken = {}

Is(h, op)    == pending[h].op = op
Asks(h, req) == Is(h, "idle") /\ pending' = [pending EXCEPT ![h] = req]
Done(h)      == pending' = [pending EXCEPT ![h] = Idle]

-----------------------------------------------------------------------------
(* The versions of the template.                                           *)
PlaceholdersDeclared(uses, required) == uses \subseteq required \cup SystemProvided

(* Of two that count the same number, the second is refused by the index.  *)
CreateVersion(s, uses, required) ==
  /\ Len(versions) < MaxTexts /\ PlaceholdersDeclared(uses, required)
  /\ versions' = Append(versions, [author |-> s, uses |-> uses, required |-> required, status |-> "DRAFT"])
  /\ UNCHANGED <<made, pending, retired, overtaken>>

(* Mutant: what has been retired can be approved.                          *)
BeginApprove_AnyStatus(h, s, v) ==
  /\ versions[v].author # s /\ Asks(h, [op |-> "approve", version |-> v])
  /\ UNCHANGED <<versions, made, retired, overtaken>>

(* By someone other than the author.                                       *)
BeginApprove(h, s, v) ==
  /\ versions[v].status = "DRAFT" /\ versions[v].author # s
  /\ Asks(h, [op |-> "approve", version |-> v])
  /\ UNCHANGED <<versions, made, retired, overtaken>>

(* Whatever the version has become.                                        *)
CommitApprove(h) ==
  /\ Is(h, "approve")
  /\ versions' = [versions EXCEPT ![pending[h].version].status = "APPROVED"]
  /\ Done(h) /\ UNCHANGED <<made, retired, overtaken>>

Retire(v) ==
  /\ versions' = [versions EXCEPT ![v].status = "RETIRED"]
  /\ retired' = retired \cup {v}
  /\ overtaken' = IF \E h \in Handlers : Is(h, "approve") /\ pending[h].version = v
                  THEN overtaken \cup {v} ELSE overtaken
  /\ UNCHANGED <<made, pending>>

-----------------------------------------------------------------------------
(* Agreements.                                                             *)
TemplateVariables(v, d) == versions[v].required \subseteq d.keys

BeginCreate(h, v, d) ==
  /\ versions[v].status = "APPROVED" /\ TemplateVariables(v, d)
  /\ Asks(h, [op |-> "create", version |-> v, data |-> d, late |-> v \in retired])
  /\ UNCHANGED <<versions, made, retired, overtaken>>

CommitCreate(h, a) ==
  /\ Is(h, "create") /\ made[a] = Unmade
  /\ made' = [made EXCEPT ![a] = Draft(pending[h])]
  /\ Done(h) /\ UNCHANGED <<versions, retired, overtaken>>

(* Mutant: an edit of the draft is not checked.                            *)
UpdateDraft_Unchecked(a, d) ==
  /\ made[a].status = "DRAFT" /\ made' = [made EXCEPT ![a].data = d]
  /\ UNCHANGED <<versions, pending, retired, overtaken>>

(* The patch may take away what is not required, and replace what a path   *)
(* leads through.  What two edits do to each other is in Drafting.         *)
UpdateDraft(a, d) ==
  /\ made[a].status = "DRAFT" /\ TemplateVariables(made[a].version, d)
  /\ made' = [made EXCEPT ![a].data = d]
  /\ UNCHANGED <<versions, pending, retired, overtaken>>

(* A placeholder without a value is left as it stands.                     *)
MergeTemplate(v, d) == versions[v].uses \ (d.paths \cup SystemProvided)

(* A retired version still serves the agreements made from it.             *)
Generate(a) ==
  /\ made[a].status = "DRAFT"
  /\ made' = [made EXCEPT ![a] = [status |-> "GENERATED", version |-> @.version, data |-> @.data,
                late |-> @.late, literal |-> MergeTemplate(@.version, @.data)]]
  /\ UNCHANGED <<versions, pending, retired, overtaken>>

(* A rejection or expiry, and the correction after it.                     *)
Correct(a) ==
  /\ made[a].status = "GENERATED" /\ made' = [made EXCEPT ![a] = Draft(@)]
  /\ UNCHANGED <<versions, pending, retired, overtaken>>

(* A request is refused, rolled back or lost in a crash.                   *)
GivesUp(h) ==
  /\ ~Is(h, "idle") /\ Done(h) /\ UNCHANGED <<versions, made, retired, overtaken>>

Next ==
  \/ \E s \in Staff, uses \in SUBSET Names, required \in SUBSET Given : CreateVersion(s, uses, required)
  \/ \E v \in DOMAIN versions :
       \/ Retire(v)
       \/ \E h \in Handlers : (\E s \in Staff : BeginApprove(h, s, v)) \/ (\E d \in Data : BeginCreate(h, v, d))
  \/ \E h \in Handlers : CommitApprove(h) \/ GivesUp(h) \/ (\E a \in Agreements : CommitCreate(h, a))
  \/ \E a \in Agreements : Generate(a) \/ Correct(a) \/ (\E d \in Data : UpdateDraft(a, d))

Spec == Init /\ [][Next]_vars

-----------------------------------------------------------------------------
(* Properties.                                                             *)
FromAnApprovedText(a) == made[a].late => made[a].version \in overtaken

PlaceholdersFilled(a) == made[a].status = "GENERATED" => made[a].literal \subseteq Dotted

(* FR-003: an agreement begun after its text was retired is one whose text *)
(* an approval under way at the retirement brought back; and a generated   *)
(* document shows a bare placeholder only where its name has a dot.        *)
ExecutedAsApproved ==
  \A a \in Agreements : made[a] # Unmade => FromAnApprovedText(a) /\ PlaceholdersFilled(a)

=============================================================================
