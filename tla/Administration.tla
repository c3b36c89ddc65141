---------------------------- MODULE Administration ----------------------------
(***************************************************************************)
(* Who may do what: users and their roles (users.service.ts, the script    *)
(* create-user.ts), banks with their countersigners (banks.service.ts),    *)
(* and the creation of an agreement, which takes its bank and countersigner*)
(* from them (agreements.service.ts).                                      *)
(*                                                                         *)
(* Every rule is checked by queries of its own, before and outside the     *)
(* write it guards, so a request is two steps: what it read, and what it   *)
(* commits.  The role gate of a route rests on a token that outlives a     *)
(* change of roles by half an hour: who asks is left out, except where the *)
(* service looks the caller up.  So are engagements without a bank.        *)
(***************************************************************************)
EXTENDS Naturals, Sequences, FiniteSets, FiniteSetsExt

CONSTANTS
  Users, Banks,
  NONE,            \* no bank, no countersigner
  Handlers,        \* requests that may be under way at once
  Grants,          \* the role sets an administrator grants
  MaxScripts       \* bound on uses of the command-line script

VARIABLES
  user,       \* users and user_roles
  bank,       \* banks
  request,    \* each handler: what it has read
  scripts,    \* uses of the script so far
  demoted,    \* history: users who lost what a countersigner needs to an upsert
              \* or the script, or to a deactivation an agreement was ahead of
  bypassed,   \* history: an administrator was removed past the rule
  unfit       \* history: the unfit countersigners named by agreements

vars == <<user, bank, request, scripts, demoted, bypassed, unfit>>

GrantableRole ==
  {"SUPER_ADMIN", "AGREEMENT_ADMIN", "AGENT", "EMPLOYEE", "MD", "MD_DELEGATE", "AUDITOR"}

(* What the constants must be.                                             *)
Staffed ==
  /\ NONE \notin Users \cup Banks
  /\ Grants \subseteq (SUBSET GrantableRole) \ {{}}
  /\ MaxScripts \in Nat

UserRow == [exists : BOOLEAN, active : BOOLEAN, roles : SUBSET GrantableRole, bank : Banks \cup {NONE}]
BankRow == [exists : BOOLEAN, active : BOOLEAN, signer : Users \cup {NONE}]
Idle    == [op |-> "idle"]
Request == {Idle}
  \cup [op : {"upsert"}, user : Users, roles : Grants, bank : Banks \cup {NONE}, existing : BOOLEAN]
  \cup [op : {"deactivate"}, user : Users]
  \cup [op : {"designate"}, bank : Banks, user : Users]
  \cup [op : {"create"}, signer : Users]

TypeOK ==
  /\ user \in [Users -> UserRow] /\ bank \in [Banks -> BankRow]
  /\ request \in [Handlers -> Request] /\ scripts \in 0..MaxScripts
  /\ demoted \subseteq Users /\ unfit \subseteq Users /\ bypassed \in BOOLEAN

NoUser == [exists |-> FALSE, active |-> FALSE, roles |-> {}, bank |-> NONE]
NoBank == [exists |-> FALSE, active |-> FALSE, signer |-> NONE]

(* A production server starts with the administrator the script made.      *)
Init ==
  /\ \E u \in Users :
       user = [v \in Users |-> IF v = u THEN [NoUser EXCEPT !.exists = TRUE, !.active = TRUE, !.roles = {"SUPER_ADMIN"}]
                               ELSE NoUser]
  /\ bank = [b \in Banks |-> NoBank]
  /\ request = [h \in Handlers |-> Idle]
  /\ scripts = 0 /\ demoted = {} /\ bypassed = FALSE /\ unfit = {}

-----------------------------------------------------------------------------
Admins == {"SUPER_ADMIN", "AGREEMENT_ADMIN"}

Administrators == {u \in Users : user[u].active /\ user[u].roles \cap Admins # {}}

IsEmployee(row) == row.bank = NONE /\ "EMPLOYEE" \in row.roles
Eligible(row)   == row.exists /\ row.active /\ IsEmployee(row)

Is(h, op)    == request[h].op = op
Asks(h, req) == Is(h, "idle") /\ request' = [request EXCEPT ![h] = req]
Done(h)      == request' = [request EXCEPT ![h] = Idle]

(* Row takes the place of that of user u, as a countersigner.              *)
Demotes(u, row) ==
  demoted' = IF \/ IsEmployee(user[u]) /\ ~IsEmployee(row)
                \/ ~row.active /\ (\E h \in Handlers : Is(h, "create") /\ request[h].signer = u)
             THEN demoted \cup {u} ELSE demoted

(* An upsert or the script puts row in the place of user u, whatever banks *)
(* and administrators depend on it.                                        *)
Overwrite(u, row) ==
  /\ user' = [user EXCEPT ![u] = row] /\ Demotes(u, row)
  /\ bypassed' = (bypassed \/ (u \in Administrators /\ ~(row.active /\ row.roles \cap Admins # {})))

UsersKept == UNCHANGED <<user, demoted, bypassed>>

-----------------------------------------------------------------------------
(* Users.                                                                  *)

(* An agent has a bank and no other role; nobody else has a bank.          *)
BankPairing(roles, b) ==
  IF "AGENT" \in roles THEN roles = {"AGENT"} /\ b # NONE /\ bank[b].exists /\ bank[b].active
                       ELSE b = NONE

BeginUpsert(h, u, roles, b) ==
  /\ BankPairing(roles, b)
  /\ Asks(h, [op |-> "upsert", user |-> u, roles |-> roles, bank |-> b, existing |-> user[u].exists])
  /\ UsersKept /\ UNCHANGED <<bank, scripts, unfit>>

(* One transaction on the row of the user, who becomes active whatever he  *)
(* was; a user two requests insert at once is refused the second time.     *)
CommitUpsert(h) ==
  /\ Is(h, "upsert")
  /\ request[h].existing = user[request[h].user].exists
  /\ Overwrite(request[h].user,
       [exists |-> TRUE, active |-> TRUE, roles |-> request[h].roles, bank |-> request[h].bank])
  /\ Done(h) /\ UNCHANGED <<bank, scripts, unfit>>

(* Mutant: administrators who are not active count.                        *)
NotLastAdministrator_Inactive(u) == \E v \in Users \ {u} : user[v].roles \cap Admins # {}

NotLastAdministrator(u) == Administrators \ {u} # {}

NotADesignatedSigner(u) == \A b \in Banks : ~(bank[b].signer = u /\ bank[b].active)

BeginDeactivate(h, u) ==
  /\ user[u].exists
  /\ NotLastAdministrator(u) /\ NotADesignatedSigner(u)
  /\ Asks(h, [op |-> "deactivate", user |-> u])
  /\ bypassed' = (bypassed \/ \E g \in Handlers : Is(g, "deactivate"))
  /\ UNCHANGED <<user, bank, scripts, demoted, unfit>>

CommitDeactivate(h) ==
  /\ Is(h, "deactivate")
  /\ user' = [user EXCEPT ![request[h].user].active = FALSE]
  /\ Demotes(request[h].user, [user[request[h].user] EXCEPT !.active = FALSE])
  /\ Done(h) /\ UNCHANGED <<bank, scripts, bypassed, unfit>>

Activate(u) ==
  /\ user[u].exists /\ user' = [user EXCEPT ![u].active = TRUE]
  /\ UNCHANGED <<bank, request, scripts, demoted, bypassed, unfit>>

(* The script grants one role at a time and looks at none of the rules.    *)
ScriptGrant(u, role) ==
  /\ scripts < MaxScripts /\ scripts' = scripts + 1
  /\ Overwrite(u, [user[u] EXCEPT !.exists = TRUE, !.active = TRUE, !.roles = @ \cup {role}])
  /\ UNCHANGED <<bank, request, unfit>>

ScriptDeactivate(u) ==
  /\ scripts < MaxScripts /\ scripts' = scripts + 1
  /\ user[u].exists /\ Overwrite(u, [user[u] EXCEPT !.active = FALSE])
  /\ UNCHANGED <<bank, request, unfit>>

-----------------------------------------------------------------------------
(* Banks.                                                                  *)
CreateBank(b) ==
  /\ ~bank[b].exists
  /\ bank' = [bank EXCEPT ![b].exists = TRUE, ![b].active = TRUE]
  /\ UsersKept /\ UNCHANGED <<request, scripts, unfit>>

SetBankActive(b, active) ==
  /\ bank[b].exists /\ bank' = [bank EXCEPT ![b].active = active]
  /\ UsersKept /\ UNCHANGED <<request, scripts, unfit>>

(* Mutant: the role of the countersigner is not looked at.                 *)
BeginDesignate_AnyStaff(h, b, u) ==
  /\ bank[b].exists /\ user[u].active /\ user[u].bank = NONE
  /\ Asks(h, [op |-> "designate", bank |-> b, user |-> u])
  /\ UsersKept /\ UNCHANGED <<bank, scripts, unfit>>

BeginDesignate(h, b, u) ==
  /\ bank[b].exists /\ Eligible(user[u])
  /\ Asks(h, [op |-> "designate", bank |-> b, user |-> u])
  /\ UsersKept /\ UNCHANGED <<bank, scripts, unfit>>

CommitDesignate(h) ==
  /\ Is(h, "designate")
  /\ bank' = [bank EXCEPT ![request[h].bank].signer = request[h].user]
  /\ Done(h) /\ UsersKept /\ UNCHANGED <<scripts, unfit>>

-----------------------------------------------------------------------------
(* The creation of an agreement, by an agent for his bank or by someone    *)
(* with no bank for any.                                                   *)
ResolveBank(by) ==
  {b \in Banks : bank[b].exists /\ bank[b].active /\ user[by].bank \in {b, NONE}}

ResolveEmployeeSigner(b) == {u \in Users : bank[b].signer = u /\ user[u].active}

BeginCreate(h, by) ==
  /\ user[by].exists
  /\ \E b \in ResolveBank(by) : \E u \in ResolveEmployeeSigner(b) :
       Asks(h, [op |-> "create", signer |-> u])
  /\ UsersKept /\ UNCHANGED <<bank, scripts, unfit>>

CommitCreate(h) ==
  /\ Is(h, "create")
  /\ unfit' = IF Eligible(user[request[h].signer]) THEN unfit ELSE unfit \cup {request[h].signer}
  /\ Done(h) /\ UsersKept /\ UNCHANGED <<bank, scripts>>

(* A request is refused, rolled back or lost in a crash.                   *)
GivesUp(h) ==
  /\ ~Is(h, "idle")
  /\ Done(h) /\ UsersKept /\ UNCHANGED <<bank, scripts, unfit>>

-----------------------------------------------------------------------------
Next ==
  \/ \E h \in Handlers :
       \/ \E u \in Users, roles \in Grants, b \in Banks \cup {NONE} : BeginUpsert(h, u, roles, b)
       \/ \E u \in Users : BeginDeactivate(h, u) \/ BeginCreate(h, u)
       \/ \E b \in Banks : \E u \in Users : BeginDesignate(h, b, u)
       \/ CommitUpsert(h) \/ CommitDeactivate(h) \/ CommitDesignate(h)
       \/ CommitCreate(h) \/ GivesUp(h)
  \/ \E u \in Users :
       Activate(u) \/ ScriptDeactivate(u) \/ (\E role \in UNION Grants : ScriptGrant(u, role))
  \/ \E b \in Banks : CreateBank(b) \/ (\E active \in BOOLEAN : SetBankActive(b, active))

Spec == Init /\ [][Next]_vars

-----------------------------------------------------------------------------
(* Properties.                                                             *)

(* "Nobody may remove the last account that can administer the system": as *)
(* long as administrators are removed one at a time, and by deactivation.  *)
AdministratorRemains == bypassed \/ Administrators # {}

(* The employee an agreement names to countersign is, when it is created,  *)
(* an active EMPLOYEE of no bank, unless an upsert or the script made him  *)
(* something else after he was designated.                                 *)
CountersignerFit == unfit \subseteq demoted

=============================================================================
