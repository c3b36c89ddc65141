------------------------------- MODULE Pdf -------------------------------
(***************************************************************************)
(* A signed PDF as the incremental writer and the verifier see it          *)
(* (documents/pdf): a sequence of revisions, each ending in its own xref   *)
(* section, each a function from the object numbers it defines to bodies.  *)
(* Bytes are never compared by content but as the revisions they are, so a *)
(* digest is the revisions it was computed over.                           *)
(***************************************************************************)
EXTENDS Naturals, SequencesExt

Parties == {"AGENT", "EMPLOYEE", "MD"}

SIGNATURE_FIELDS(party) ==
  CASE party = "AGENT"    -> "GTIDS_Agent"
    [] party = "EMPLOYEE" -> "GTIDS_Employee"
    [] party = "MD"       -> "GTIDS_MD"

-----------------------------------------------------------------------------
(* Object bodies.  covers is the revision the ByteRange reaches to: 0 for a*)
(* placeholder, or for a range that a rewrite of the file left pointing    *)
(* nowhere.  An unfilled /Contents gap is Gap.                             *)
Page(text)            == [kind |-> "page", text |-> text]
Widget(name, v)       == [kind |-> "field", t |-> name, v |-> v]
Gap                   == [signer |-> "none"]
SigObject(covers, der) == [kind |-> "sig", covers |-> covers, contents |-> der]

(* parseDocument: newest section first, an object number already seen is   *)
(* never overwritten, so the most recent revision of an object wins.       *)
Newest(pdf, num) == CHOOSE k \in DOMAIN pdf :
  num \in DOMAIN pdf[k] /\ \A j \in (k + 1)..Len(pdf) : num \notin DOMAIN pdf[j]

Numbers(pdf)         == UNION {DOMAIN pdf[k] : k \in DOMAIN pdf}
Size(pdf)            == Max(Numbers(pdf)) + 1
ReadObject(pdf, num) == pdf[Newest(pdf, num)][num]

(* findFieldByName: every indexed object is scanned, not /AcroForm.        *)
FieldsNamed(pdf, name) == {num \in Numbers(pdf) :
  LET body == ReadObject(pdf, num) IN body.kind = "field" /\ body.t = name}
FindFieldByName(pdf, name) == CHOOSE num \in FieldsNamed(pdf, name) : TRUE

(* findSignatures: every /ByteRange in the file, whichever revision it is  *)
(* in and whether or not its gap is filled.                                *)
FindSignatures(pdf) ==
  {s \in (DOMAIN pdf) \X Numbers(pdf) :
     s[2] \in DOMAIN pdf[s[1]] /\ pdf[s[1]][s[2]].kind = "sig"}
EmptySlots(pdf) == {s \in FindSignatures(pdf) : pdf[s[1]][s[2]].contents = Gap}

(* The bytes in front of the gap and after it, up to the revision k.       *)
SignedContent(pdf, s) ==
  [j \in 1..s[1] |-> IF j = s[1] THEN [pdf[j] EXCEPT ![s[2]].contents = Gap] ELSE pdf[j]]

-----------------------------------------------------------------------------
(* PdfPreparer.prepare rewrites the flat file as one revision with the     *)
(* three widgets on its last page, numbered after what the file held.      *)
Prepare(flat) ==
  LET n == Size(flat)
      widget(party) == Widget(SIGNATURE_FIELDS(party), 0)
  IN << [num \in DOMAIN flat[1] \cup n..(n + 2) |->
           CASE num = n     -> widget("AGENT")
             [] num = n + 1 -> widget("EMPLOYEE")
             [] num = n + 2 -> widget("MD")
             [] OTHER       -> flat[1][num]] >>

AppendRevision(pdf, objects) == Append(pdf, objects)

(* prepareSignatureSlot: one revision with the signature object, its gap   *)
(* empty, and the field again, now naming it in /V; then the ByteRange is  *)
(* patched in, and only then is the digest taken.                          *)
SlotRevision(num, sig, field, widget) ==
  [o \in {num, field} |-> IF o = num THEN sig ELSE widget]

AlreadySigned(pdf, name) == ReadObject(pdf, FindFieldByName(pdf, name)).v # 0

(* Mutant: the placeholder is still there when the digest is taken.        *)
PrepareSlot_DigestFirst(pdf, name) ==
  LET field == FindFieldByName(pdf, name)
      num   == Size(pdf)
      fresh(covers) ==
        AppendRevision(pdf, SlotRevision(num, SigObject(covers, Gap), field, Widget(name, num)))
  IN [pdf |-> fresh(Len(pdf) + 1), digest |-> SignedContent(fresh(0), <<Len(pdf) + 1, num>>)]

PrepareSlot(pdf, name) ==
  LET field == FindFieldByName(pdf, name)
      num   == Size(pdf)
      out   == AppendRevision(pdf,
                 SlotRevision(num, SigObject(Len(pdf) + 1, Gap), field, Widget(name, num)))
  IN [pdf |-> out, digest |-> SignedContent(out, <<Len(pdf) + 1, num>>)]

(* reopenSignatureSlot: the one signature whose gap is still empty.        *)
CanReopen(pdf) ==
  \E s \in FindSignatures(pdf) : EmptySlots(pdf) = {s} /\ pdf[s[1]][s[2]].covers = s[1]
Slot(pdf) == CHOOSE s \in EmptySlots(pdf) : TRUE

(* embedSignature, for a DER that fits the gap.                            *)
EmbedSignature(pdf, der) == [pdf EXCEPT ![Slot(pdf)[1]][Slot(pdf)[2]].contents = der]

(* extractDer and verifyDetached: the DER in the gap commits to content.   *)
Commits(der, content) == der # Gap /\ der.digest = content

(* PdfVerifier.verify: the gap lies between the signed ranges, nothing past*)
(* the end of the file is claimed, and the DER's digest is the content's.  *)
Valid(pdf, s) ==
  LET sig == pdf[s[1]][s[2]]
  IN sig.covers = s[1] /\ Commits(sig.contents, SignedContent(pdf, s))

(* assertIntegrityAfterSigning.                                            *)
IntegrityAfterSigning(pdf, expected) ==
  /\ Cardinality(FindSignatures(pdf)) = expected
  /\ \A s \in FindSignatures(pdf) : Valid(pdf, s)
=============================================================================
