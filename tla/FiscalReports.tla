----------------------------- MODULE FiscalReports -----------------------------
(***************************************************************************)
(* The fiscal figures of apps/reports/selectors.py over the documents of   *)
(* Billing: what a document counts for is decided by the relations it has  *)
(* now.  A document is known by its key and by whether it is the F3 that   *)
(* came with a rectification.  An F2, its F3 and their returns have the    *)
(* amounts of the same rows, so it is enough to know which of them count.  *)
(***************************************************************************)
EXTENDS Billing

IssuedRow(d) == IF d.companion THEN companion[d.key] ELSE doc[d.key]
IntentOf(d) == IssuedRow(d).intent

(* _issued_billing_documents *)
IssuedDocuments ==
    {d \in [key : Keys, companion : BOOLEAN] : IssuedRow(d) # NoDocument}

(* The rows of BillingDocumentRelation that say SUBSTITUTES: source, target. *)
SubstitutesRows ==
    {<<d, [key |-> IntentOf(d).target, companion |-> FALSE]>> :
        d \in {d \in IssuedDocuments : IntentOf(d).op \in {"substitute", "companion"}}}

(* A faulty variant that knows the F3 of a sale only. *)
EffectiveOfSales ==
    IssuedDocuments \ {row[2] : row \in {r \in SubstitutesRows : ~r[1].companion}}

(* _effective_billing_documents *)
EffectiveDocuments == IssuedDocuments \ {row[2] : row \in SubstitutesRows}

OfType(S, types) == {d \in S : IntentOf(d).type \in types}
Outputs == {"F1", "F2", "F3"}
RectificationTypes == {"R1", "R5"}

(* The documents that tax_summary and tax_by_rate add up on each side. *)
OutputDocuments == OfType(EffectiveDocuments, Outputs)
RectifiedDocuments == OfType(EffectiveDocuments, RectificationTypes)

(* billing_documents_summary *)
DocumentCounts ==
    LET issued == IssuedDocuments
        effective == EffectiveDocuments IN
    [issued |-> Cardinality(issued),
     effective |-> Cardinality(effective),
     substituted |-> Cardinality(issued \ effective),
     rectification |-> Cardinality(OfType(issued, RectificationTypes))]
-------------------------------------------------------------------------------
Charges(outputs, s) ==
    {d \in outputs : IntentOf(d).sale = s /\ IntentOf(d).ret = None}
Credits(documents, r) == {d \in documents : IntentOf(d).ret = r}

(* The net figures count a documented sale once and a rectified return once, in
   whatever order the simplified invoice was replaced and the returns rectified:
   its F3 counts for a replaced F2, and the F3 of a return for the R5 it came with.
   The counts of the page add up. *)
EffectiveOnce ==
    LET outputs == OutputDocuments
        rectified == RectifiedDocuments
        counts == DocumentCounts IN
    /\ \A s \in Sales :
          Cardinality(Charges(outputs, s)) = IF Initial(s) = {} THEN 0 ELSE 1
    /\ \A r \in Returns :
          Cardinality(Credits(outputs \cup rectified, r))
              = IF Rectifications(r) = {} THEN 0 ELSE 1
    /\ counts.effective = Cardinality(outputs) + Cardinality(rectified)
    /\ counts.substituted = Cardinality(SubstitutesRows)
===============================================================================
