-------------------------------- MODULE Outbox --------------------------------
(***************************************************************************)
(* Mails.  They are queued in the transaction that moves an agreement      *)
(* (enqueue), sent by a pass of the worker every half minute, with no lock *)
(* and no guard against the pass before it (dispatchPending), and queued   *)
(* by the reminder job every six hours (sendDueReminders).                 *)
(*                                                                         *)
(* The columns no code reads (dispatched_at, outbox_events) are left out.  *)
(***************************************************************************)
EXTENDS Naturals, Sequences, FiniteSets, SequencesExt

CONSTANTS
  Agreements,
  Followed,       \* the mails that are followed, <<event, recipient>>; the others
                  \* are alike
  Passes,         \* dispatch passes that may overlap
  Limit,          \* rows a pass takes: 50 in the code
  MaxAttempts,    \* attempt_count at which a row is given up: 5 in the code
  MaxRows,        \* bound on the notification_recipients rows
  MaxVersion,     \* bound on the versions corrections open
  MaxSlot,        \* bound on the six-hour slots that pass
  MaxInterrupts   \* bound on crashes and database failures

ASSUME BoundsAssumption ==
  /\ Limit \in Nat \ {0} /\ MaxAttempts \in Nat /\ MaxRows \in Nat
  /\ MaxVersion \in Nat \ {0} /\ MaxSlot \in Nat /\ MaxInterrupts \in Nat

VARIABLES
  status,      \* agreements.status
  closed,      \* agreement_version_history: status_at_close of each version
               \* that a correction closed
  mail,        \* notification_recipients rows, oldest first
  delivered,   \* history: how often the transport took each row's mail
  reminders,   \* created_at of each agreement's REMINDER notifications
  pass,        \* each dispatch pass: the rows it read, and where it is
  job,         \* the reminder job: the candidates it read, and where it is
  slot,        \* the six-hour slot
  interrupts,  \* interruptions so far
  excused      \* history: rows two passes had at once, or whose mail was
               \* taken but not recorded or audited

vars == <<status, closed, mail, delivered, reminders, pass, job, slot, interrupts, excused>>

Stage == {"READY_FOR_AGENT_SIGNATURE", "PENDING_EMPLOYEE_SIGNATURE", "PENDING_MD_SIGNATURE"}
Ended == {"COMPLETED", "REJECTED", "CANCELLED", "EXPIRED"}
AgreementState == {"DRAFT"} \cup Stage \cup Ended
Correctable    == {"REJECTED", "EXPIRED"}
Party == {"AGENT", "EMPLOYEE", "MD", "ACCOUNTS"}
NotificationEvent == {"AGENT_SIGNED", "EMPLOYEE_SIGNED", "COMPLETED", "REJECTED", "REMINDER"}

(* A row's version is history: the one that was current when it was queued *)
(* (a notification names the agreement only).                              *)
Row  == [agr : Agreements, version : 1..MaxVersion, event : NotificationEvent, party : Party,
         status : {"QUEUED", "SENT", "FAILED"}, attempts : 0..MaxAttempts]
Idle == [pc |-> "idle"]

Version(a) == Len(closed[a]) + 1

TypeOK ==
  /\ status \in [Agreements -> AgreementState]
  /\ closed \in [Agreements -> Seq(Correctable)] /\ \A a \in Agreements : Version(a) <= MaxVersion
  /\ mail \in Seq(Row) /\ Len(mail) <= MaxRows
  /\ delivered \in Seq(Nat) /\ Len(delivered) = Len(mail)
  /\ reminders \in [Agreements -> SUBSET (0..MaxSlot)]
  /\ pass \in [Passes -> {Idle} \cup
       [pc : {"send", "sent", "recorded", "refused"},
        list : (SUBSET [row : 1..MaxRows, attempts : 0..MaxAttempts - 1]) \ {{}}]]
  /\ job \in {Idle} \cup [pc : {"next"}, left : SUBSET (Agreements \X Stage)]
       \cup [pc : {"recipients"}, left : SUBSET (Agreements \X Stage), agr : Agreements, stage : Stage]
  /\ slot \in 0..MaxSlot /\ interrupts \in 0..MaxInterrupts
  /\ excused \subseteq DOMAIN mail

Init ==
  /\ status = [a \in Agreements |-> "DRAFT"] /\ closed = [a \in Agreements |-> <<>>]
  /\ mail = <<>> /\ delivered = <<>>
  /\ reminders = [a \in Agreements |-> {}]
  /\ pass = [p \in Passes |-> Idle] /\ job = Idle
  /\ slot = 0 /\ interrupts = 0 /\ excused = {}

-----------------------------------------------------------------------------
(* enqueue, in the transaction of its caller: a row per recipient.         *)
Told(event, parties) == {party \in parties : <<event, party>> \in Followed}

Queued(a, event, parties) ==
  SetToSeq({[agr |-> a, version |-> Version(a), event |-> event, party |-> party,
             status |-> "QUEUED", attempts |-> 0] : party \in Told(event, parties)})

Enqueue(a, event, parties) ==
  /\ Len(mail) + Cardinality(Told(event, parties)) <= MaxRows
  /\ mail' = mail \o Queued(a, event, parties)
  /\ delivered' = delivered \o [i \in DOMAIN Queued(a, event, parties) |-> 0]

MailUnchanged == UNCHANGED <<mail, delivered>>
Elsewhere     == UNCHANGED <<reminders, pass, job, slot, interrupts, excused>>

(* The agreement moves from one stage to another and the mail is queued.   *)
(* A stage's name stands for the states of its signing and failing too.    *)
Moves(a, from, to, event, parties) ==
  /\ status[a] \in from
  /\ status' = [status EXCEPT ![a] = to] /\ UNCHANGED closed
  /\ Enqueue(a, event, parties)
  /\ Elsewhere

AgentSigned(a) ==
  Moves(a, {"READY_FOR_AGENT_SIGNATURE"}, "PENDING_EMPLOYEE_SIGNATURE", "AGENT_SIGNED", {"EMPLOYEE"})
EmployeeSigned(a) ==
  Moves(a, {"PENDING_EMPLOYEE_SIGNATURE"}, "PENDING_MD_SIGNATURE", "EMPLOYEE_SIGNED", {"MD"})
Reject(a) ==
  Moves(a, {"PENDING_EMPLOYEE_SIGNATURE", "PENDING_MD_SIGNATURE"}, "REJECTED", "REJECTED", {"AGENT"})

(* Mutant: the mail is queued outside the transaction, which may yet fail. *)
Finalize_Apart(a) ==
  /\ status[a] = "PENDING_MD_SIGNATURE"
  /\ \/ status' = [status EXCEPT ![a] = "COMPLETED"]
     \/ UNCHANGED status
  /\ Enqueue(a, "COMPLETED", Party)
  /\ UNCHANGED closed /\ Elsewhere

(* finalize: everyone who signed, and Accounts.                            *)
Finalize(a) == Moves(a, {"PENDING_MD_SIGNATURE"}, "COMPLETED", "COMPLETED", Party)

(* Nobody is told of an agreement sent out, cancelled or expired.          *)
Quietly(a, from, to) ==
  /\ status[a] \in from
  /\ status' = [status EXCEPT ![a] = to] /\ UNCHANGED closed
  /\ MailUnchanged /\ Elsewhere

Generate(a) == Quietly(a, {"DRAFT"}, "READY_FOR_AGENT_SIGNATURE")
Cancel(a)   == Quietly(a, {"DRAFT"} \cup Stage, "CANCELLED")
Expire(a)   == Quietly(a, Stage, "EXPIRED")

(* correct reopens the agreement under its next version; the mails queued  *)
(* about the version it closes stay queued.                                *)
Correct(a) ==
  /\ status[a] \in Correctable /\ Version(a) < MaxVersion
  /\ closed' = [closed EXCEPT ![a] = Append(@, status[a])]
  /\ status' = [status EXCEPT ![a] = "DRAFT"]
  /\ MailUnchanged /\ Elsewhere

-----------------------------------------------------------------------------
(* dispatchPending reads its rows once, the oldest first and no more than  *)
(* Limit of them, and works through them in that order.                    *)

(* Mutant: rows already sent are read again.                               *)
Pending_Sent(r) == mail[r].attempts < MaxAttempts

Pending(r) == mail[r].status \in {"QUEUED", "FAILED"} /\ mail[r].attempts < MaxAttempts

Due    == {r \in DOMAIN mail : Pending(r)}
ToSend == {[row |-> r, attempts |-> mail[r].attempts] :
             r \in {d \in Due : Cardinality({q \in Due : q < d}) < Limit}}

Rows(list) == {item.row : item \in list}
RowsOf(p)  == IF pass[p] = Idle THEN {} ELSE Rows(pass[p].list)

BeginPass(p) ==
  /\ pass[p] = Idle /\ ToSend # {}
  /\ pass' = [pass EXCEPT ![p] = [pc |-> "send", list |-> ToSend]]
  /\ excused' = excused \cup (Rows(ToSend) \cap UNION {RowsOf(q) : q \in Passes})
  /\ MailUnchanged /\ UNCHANGED <<status, closed, reminders, job, slot, interrupts>>

At(p, pc) == pass[p].pc = pc
Oldest(list) == CHOOSE item \in list : \A other \in list : item.row <= other.row
Item(p)      == Oldest(pass[p].list)
Goto(p, pc) == pass' = [pass EXCEPT ![p].pc = pc]

(* On to the next row, or done.                                            *)
NextRow(p) ==
  pass' = [pass EXCEPT ![p] = IF @.list = {Item(p)} THEN Idle
                              ELSE [pc |-> "send", list |-> @.list \ {Item(p)}]]

(* The transport takes the mail, or refuses it.                            *)
Send(p) ==
  /\ At(p, "send")
  /\ \/ Goto(p, "sent") /\ delivered' = [delivered EXCEPT ![Item(p).row] = @ + 1]
     \/ Goto(p, "refused") /\ UNCHANGED delivered
  /\ UNCHANGED <<status, closed, mail, reminders, job, slot, interrupts, excused>>

Mark(p, s) ==
  mail' = [mail EXCEPT ![Item(p).row].status = s, ![Item(p).row].attempts = Item(p).attempts + 1]

RecordSent(p) ==
  /\ At(p, "sent") /\ Mark(p, "SENT") /\ Goto(p, "recorded")
  /\ UNCHANGED <<status, closed, delivered, reminders, job, slot, interrupts, excused>>

(* The audit record of a mail sent is the last thing the try block does.   *)
AuditSent(p) ==
  /\ At(p, "recorded") /\ NextRow(p)
  /\ MailUnchanged /\ UNCHANGED <<status, closed, reminders, job, slot, interrupts, excused>>

(* Mutant: a refusal is not counted.                                       *)
RecordFailed_Uncounted(p) ==
  /\ At(p, "refused") /\ mail' = [mail EXCEPT ![Item(p).row].status = "FAILED"] /\ NextRow(p)
  /\ UNCHANGED <<status, closed, delivered, reminders, job, slot, interrupts, excused>>

RecordFailed(p) ==
  /\ At(p, "refused") /\ Mark(p, "FAILED") /\ NextRow(p)
  /\ UNCHANGED <<status, closed, delivered, reminders, job, slot, interrupts, excused>>

(* A database failure in the try block lands in its catch, where the row   *)
(* is marked FAILED whether or not the mail was taken.                     *)
Stumble(p) ==
  /\ pass[p].pc \in {"sent", "recorded"} /\ interrupts < MaxInterrupts
  /\ Goto(p, "refused") /\ interrupts' = interrupts + 1
  /\ excused' = excused \cup {Item(p).row}
  /\ MailUnchanged /\ UNCHANGED <<status, closed, reminders, job, slot>>

(* A crash of the worker, or a failure in the catch: the pass ends.        *)
Abandon(p) ==
  /\ pass[p] # Idle /\ interrupts < MaxInterrupts
  /\ pass' = [pass EXCEPT ![p] = Idle] /\ interrupts' = interrupts + 1
  /\ excused' = IF At(p, "sent") THEN excused \cup {Item(p).row} ELSE excused
  /\ MailUnchanged /\ UNCHANGED <<status, closed, reminders, job, slot>>

-----------------------------------------------------------------------------
(* sendDueReminders, four times a day.                                     *)
SlotsPerDay == 4
Day(s)      == s \div SlotsPerDay

(* The seed gives no deadline, and so no cadence, to the employee's stage. *)
StagesWithSla == {"READY_FOR_AGENT_SIGNATURE", "PENDING_MD_SIGNATURE"}

PendingRecipient(stage) ==
  CASE stage = "READY_FOR_AGENT_SIGNATURE"  -> "AGENT"
    [] stage = "PENDING_EMPLOYEE_SIGNATURE" -> "EMPLOYEE"
    [] OTHER                                -> "MD"

(* The candidates are read once; one pass runs per slot at most.  Those    *)
(* that are due are any of the agreements that wait in a stage: deadlines  *)
(* and the stages' reminder days are left out.                             *)
BeginReminders ==
  /\ job = Idle
  /\ \A a \in Agreements : slot \notin reminders[a]
  /\ \E due \in (SUBSET {a \in Agreements : status[a] \in StagesWithSla}) \ {{}} :
       job' = [pc |-> "next", left |-> {<<a, status[a]>> : a \in due}]
  /\ MailUnchanged /\ UNCHANGED <<status, closed, reminders, pass, slot, interrupts, excused>>

(* Mutant: the window is a slot shorter than the day.                      *)
Already_FiveHours(a) == slot \in reminders[a]

(* created_at > now - 20 hours: this slot or one of the three before it.   *)
Already(a) == \E s \in reminders[a] : s + SlotsPerDay > slot

(* The notification is one statement, its recipient the next: enqueue is   *)
(* called without a transaction here.                                      *)
Remind(a, stage) ==
  /\ job # Idle /\ job.pc = "next" /\ <<a, stage>> \in job.left
  /\ \/ /\ Already(a)
        /\ job' = [job EXCEPT !.left = @ \ {<<a, stage>>}]
        /\ UNCHANGED reminders
     \/ /\ ~Already(a)
        /\ job' = [pc |-> "recipients", left |-> job.left \ {<<a, stage>>}, agr |-> a, stage |-> stage]
        /\ reminders' = [reminders EXCEPT ![a] = @ \cup {slot}]
  /\ MailUnchanged /\ UNCHANGED <<status, closed, pass, slot, interrupts, excused>>

AddRecipient ==
  /\ job # Idle /\ job.pc = "recipients"
  /\ Enqueue(job.agr, "REMINDER", {PendingRecipient(job.stage)})
  /\ job' = [pc |-> "next", left |-> job.left]
  /\ UNCHANGED <<status, closed, reminders, pass, slot, interrupts, excused>>

EndReminders ==
  /\ job # Idle /\ job.pc = "next" /\ job.left = {} /\ job' = Idle
  /\ MailUnchanged /\ UNCHANGED <<status, closed, reminders, pass, slot, interrupts, excused>>

JobCrashes ==
  /\ job # Idle /\ interrupts < MaxInterrupts
  /\ job' = Idle /\ interrupts' = interrupts + 1
  /\ MailUnchanged /\ UNCHANGED <<status, closed, reminders, pass, slot, excused>>

(* A pass of the reminder job does not last six hours.                     *)
Tick ==
  /\ slot < MaxSlot /\ job = Idle /\ slot' = slot + 1
  /\ MailUnchanged /\ UNCHANGED <<status, closed, reminders, pass, job, interrupts, excused>>

-----------------------------------------------------------------------------
PassStep(p) == Send(p) \/ RecordSent(p) \/ AuditSent(p) \/ RecordFailed(p)

Next ==
  \/ \E a \in Agreements :
       \/ Generate(a) \/ AgentSigned(a) \/ EmployeeSigned(a) \/ Finalize(a)
       \/ Reject(a) \/ Cancel(a) \/ Expire(a) \/ Correct(a)
  \/ \E p \in Passes : BeginPass(p) \/ PassStep(p) \/ Stumble(p) \/ Abandon(p)
  \/ BeginReminders \/ AddRecipient \/ EndReminders \/ JobCrashes \/ Tick
  \/ \E a \in Agreements, stage \in Stage : Remind(a, stage)

Spec == Init /\ [][Next]_vars

(* The cron starts passes, and a pass that is not interrupted goes on.     *)
(* Whether a mail is taken is up to the transport.                         *)
FairSpec ==
  Spec /\ \A p \in Passes : WF_vars(BeginPass(p)) /\ WF_vars(PassStep(p))

-----------------------------------------------------------------------------
(* Properties.                                                             *)

(* A recipient has one row about the event, neither none nor two.          *)
OneMail(a, v, event, party) ==
  \E r \in DOMAIN mail : \A s \in DOMAIN mail :
    mail[s].agr = a /\ mail[s].version = v /\ mail[s].event = event /\ mail[s].party = party <=> s = r

(* How a version ended, or where it is.                                    *)
StatusOf(a, v) == IF v \in DOMAIN closed[a] THEN closed[a][v] ELSE status[a]

EndsTold ==
  \A a \in Agreements : \A v \in 1..Version(a) :
    /\ StatusOf(a, v) = "COMPLETED" =>
         \A party \in Told("COMPLETED", Party) : OneMail(a, v, "COMPLETED", party)
    /\ StatusOf(a, v) = "REJECTED" =>
         \A party \in Told("REJECTED", {"AGENT"}) : OneMail(a, v, "REJECTED", party)

(* BR-008, both ways: a mail that says an agreement is complete is about   *)
(* one that is; one that says it was rejected is about a version that was, *)
(* though a correction may have reopened the agreement before the mail     *)
(* goes out; and each version that ends so has its mail queued to each     *)
(* recipient, once, whatever was interrupted.  Mails of the other kinds    *)
(* may be late.                                                            *)
MailsTellTheTruth ==
  /\ \A r \in DOMAIN mail : delivered[r] > 0 =>
       /\ mail[r].event = "COMPLETED" => status[mail[r].agr] = "COMPLETED"
       /\ mail[r].event = "REJECTED" => StatusOf(mail[r].agr, mail[r].version) = "REJECTED"
  /\ EndsTold

(* A mail goes out once, unless two passes had its row, or it was taken    *)
(* and not recorded; and only then can a row whose mail went out be marked *)
(* FAILED, or given up.                                                    *)
DuplicatesExplained ==
  \A r \in DOMAIN mail \ excused :
    /\ delivered[r] <= 1
    /\ mail[r].status = "FAILED" /\ delivered[r] > 0 =>
         \E p \in Passes : At(p, "sent") /\ Item(p).row = r

(* "One reminder per day per agreement, whatever the sweep interval".      *)
OneReminderPerDay ==
  \A a \in Agreements : \A s, t \in reminders[a] : Day(s) = Day(t) => s = t

(* BR-008, to the inbox, as far as it goes: every queued mail is at last   *)
(* sent, or refused as often as a mail may be, and then stays so, although *)
(* passes that overlap write each other's counts down.                     *)
Settled(r) == r \in DOMAIN mail => ~Pending(r)
EveryMailSettles == \A r \in 1..MaxRows : <>[]Settled(r)

=============================================================================
