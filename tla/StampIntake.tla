---------------------------- MODULE StampIntake ----------------------------
(***************************************************************************)
(* How a physical stamp paper gets into the inventory: its scan is read    *)
(* (stamp-ocr.service.ts), an operator confirms or corrects the proposal   *)
(* (StampScanForm.tsx, actions.ts) and the paper is registered             *)
(* (stamps.service.ts), so that a paper already entered is recognised by   *)
(* any one of the identifiers printed on it (DEC-029).                     *)
(*                                                                         *)
(* A value stands for its normalised form; one too short to identify a     *)
(* stamp counts as not read.  Denomination, state and dates are left out.  *)
(***************************************************************************)
EXTENDS Naturals, Sequences, FiniteSets

CONSTANTS
  Papers,      \* the physical papers
  Operators,   \* people registering stamps at once
  Kinds,       \* the kinds of identifier a form has a field for, in this order
  Printed,     \* per paper, the value of each kind printed on it, or NONE
  Misread,     \* per value, what it may be taken for
  Account,     \* the vendor account printed on every paper it sells
  NONE,        \* not printed, not read, left empty
  MaxRows      \* bound on the stamp_papers rows

Kind   == {Kinds[i] : i \in DOMAIN Kinds}
Values == (UNION {{Printed[p][k] : k \in Kind} : p \in Papers}) \ {NONE}

(* What the kinds must be: a form has a field for a certificate number.    *)
Kinded == Kinds \in Seq(Kind) /\ "CERTIFICATE_NO" \in Kind

(* What is printed: each identifier is of one paper, and of one kind.      *)
Identifying ==
  /\ DOMAIN Printed = Papers /\ \A p \in Papers : DOMAIN Printed[p] = Kind
  /\ \A p, q \in Papers, k, l \in Kind :
       Printed[p][k] = Printed[q][l] /\ Printed[p][k] # NONE => p = q /\ k = l

VARIABLES
  rows,     \* stamp_papers with their stamp_identifiers, oldest first
  desk      \* what each operator has in hand

vars == <<rows, desk>>

Idle == [pc |-> "idle"]

Init == rows = <<>> /\ desk = [o \in Operators |-> Idle]

At(o, pc)  == desk[o].pc = pc
Hold(o, w) == desk' = [desk EXCEPT ![o] = w]

-----------------------------------------------------------------------------
(* read and extract: each identifier printed on the paper is read right,   *)
(* taken for another value or not found.  An issuer's PDF is read right    *)
(* throughout; a scan with a text layer of its own is reported as exact    *)
(* and is not.                                                             *)

Readings(p) ==
  {r \in [Kind -> Values \cup (UNION {Misread[v] : v \in Values}) \cup {NONE}] :
     \A k \in Kind :
       r[k] \in IF Printed[p][k] = NONE THEN {NONE}
                ELSE {Printed[p][k], NONE} \cup Misread[Printed[p][k]]}

(* The certificate number, or else whichever identifier was found first.   *)
StampNumber(r) ==
  LET found == {i \in DOMAIN Kinds : r[Kinds[i]] # NONE}
  IN IF r["CERTIFICATE_NO"] # NONE THEN r["CERTIFICATE_NO"]
     ELSE IF found = {} THEN NONE
     ELSE r[Kinds[CHOOSE i \in found : \A j \in found : i <= j]]

(* The form as it is shown: the certificate field falls back to the stamp  *)
(* number, the others to nothing.                                          *)
Proposal(r) == [r EXCEPT !["CERTIFICATE_NO"] = StampNumber(r)]

Read(o, p) ==
  /\ desk[o] = Idle
  /\ \E r \in Readings(p) :
       Hold(o, [pc |-> "proposed", paper |-> p, form |-> Proposal(r),
                labelled |-> r["CERTIFICATE_NO"] # NONE])
  /\ UNCHANGED rows

(* The operator corrects a field from the paper, or empties it.            *)
Compare(o, k) ==
  /\ At(o, "proposed")
  /\ \E v \in {Printed[desk[o].paper][k], NONE} \ {desk[o].form[k]} :
       Hold(o, [desk[o] EXCEPT !.form[k] = v])
  /\ UNCHANGED rows

-----------------------------------------------------------------------------
(* Mutant: the account reference is one of the identifiers.                *)
Identifiers_WithAccount(form) ==
  {<<k, form[k]>> : k \in {j \in Kind : form[j] # NONE}} \cup {<<"OTHER", Account>>}

(* What registerStamp sends, and register adds nothing to: the stamp       *)
(* number is always one of them.                                           *)
Identifiers(form) == {<<k, form[k]>> : k \in {j \in Kind : form[j] # NONE}}

ValuesOf(ids) == {i[2] : i \in ids}

Clash(ids) == \E n \in DOMAIN rows : ValuesOf(rows[n].ids) \cap ValuesOf(ids) # {}

(* register, to its check for a clash; without an identifier the portal    *)
(* refuses to post.                                                        *)
Confirm(o) ==
  LET ids == Identifiers(desk[o].form) IN
  /\ At(o, "proposed") /\ ids # {}
  /\ Hold(o, IF Clash(ids) THEN Idle
             ELSE [desk[o] EXCEPT !.pc = "checked"])
  /\ UNCHANGED rows

(* Mutant: values are unique for each kind.                                *)
UniqueIdentifiers_PerKind(ids) == \A n \in DOMAIN rows : rows[n].ids \cap ids = {}

(* uq_stamp_identifier_normalized: unique across every kind, and within    *)
(* the rows inserted at once.                                              *)
UniqueIdentifiers(ids) ==
  /\ ~Clash(ids)
  /\ Cardinality(ValuesOf(ids)) = Cardinality(ids)

(* The insert, or its failure on the index: "registered by someone else a  *)
(* moment ago".                                                            *)
Register(o) ==
  LET ids == Identifiers(desk[o].form) IN
  /\ At(o, "checked")
  /\ IF UniqueIdentifiers(ids)
     THEN Len(rows) < MaxRows /\ rows' = Append(rows, [paper |-> desk[o].paper, ids |-> ids])
     ELSE UNCHANGED rows
  /\ Hold(o, Idle)

(* The operator leaves the form, or the request is lost before its commit. *)
GivesUp(o) == desk[o] # Idle /\ Hold(o, Idle) /\ UNCHANGED rows

Next ==
  \E o \in Operators :
    \/ \E p \in Papers : Read(o, p)
    \/ \E k \in Kind : Compare(o, k)
    \/ Confirm(o) \/ Register(o) \/ GivesUp(o)

Spec == Init /\ [][Next]_vars

-----------------------------------------------------------------------------
(* Properties.                                                             *)

(* DEC-029: "getting any one right is enough to catch a duplicate".  A     *)
(* paper is in the inventory twice only if no identifier was entered right *)
(* both times, whichever field it was entered in and whoever was entering  *)
(* the paper at the same moment.                                           *)
CaughtByAnyOneRight ==
  \A m, n \in DOMAIN rows :
    m # n /\ rows[m].paper = rows[n].paper =>
      {v \in ValuesOf(rows[m].ids) \cap ValuesOf(rows[n].ids) :
         \E k \in Kind : v = Printed[rows[m].paper][k]} = {}

(* A form is refused as already registered only for a cause: a registered  *)
(* paper carries a value of the form, or the form carries one value twice, *)
(* as the portal itself proposes when the certificate number was not read. *)
RefusedOnlyForCause ==
  \A o \in Operators :
    desk[o].pc \in {"proposed", "checked"} =>
      LET form == desk[o].form
          ids  == Identifiers(form)
      IN Clash(ids) \/ ~UniqueIdentifiers(ids) =>
           \/ \E n \in DOMAIN rows, k, l \in Kind :
                <<l, form[k]>> \in rows[n].ids
           \/ /\ ~desk[o].labelled
              /\ \E k \in Kind \ {"CERTIFICATE_NO"} : form["CERTIFICATE_NO"] = form[k]

=============================================================================
