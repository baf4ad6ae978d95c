------------------------------ MODULE ReplyRules -------------------------------
(***************************************************************************)
(* One email through triage's rules: the model's answer is coerced, the    *)
(* ledger is asked, and the category's template is filled                  *)
(* (worker/fw/inbox/pipeline.py, Pipeline.classify, verify, draft), with   *)
(* the rules of ClassifierAnswer, InvoiceLookup and Rendering.  The ledger *)
(* may change between and after the steps; a person may give the email     *)
(* another category, which renders it again from the lookup on record.     *)
(* InboxTriage has the same steps as transactions that interleave.         *)
(***************************************************************************)
EXTENDS ClassifierAnswer, Sequences

CONSTANTS
    Answers,      \* what the model may answer
    Invoices,     \* what may be in the ledger
    Allowed,      \* the enabled categories
    Template,     \* the slots of each category's template
    Lower, Like,
    MaxInvoices   \* bound: invoices in the ledger

ASSUME CategoriesAssumption ==
    OutOfScope \in Allowed /\ None \notin Allowed /\ DOMAIN Template = Allowed
ASSUME NaNAssumption == NaN \notin Int

\* External: an answer is a record of scored fields, and a number in it can be
\* asked for; Xero "answers to this number" with at least the invoices that have
\* it, in whatever case (xero.py, get_invoices_by_number).
ASSUME AnswersAssumption ==
    /\ None \notin Answers \cup Invoices
    /\ \A raw \in Answers :
        /\ {raw.confidence, raw.secondaryConfidence} \subseteq Int \cup {None, NaN}
        /\ raw.number.value # None => raw.number.value \in DOMAIN Like
ASSUME XeroAssumption ==
    \A number \in DOMAIN Like, inv \in Invoices :
        Lower[inv.number] = Lower[number] => inv.number \in Like[number]

Finder == INSTANCE InvoiceLookup
Render == INSTANCE Rendering

VARIABLES
    ledger,          \* Xero's invoices
    stage,           \* how far the email is
    addressed,       \* whether it has an address to reply to
    classification, found, draft,   \* the rows on record
    answer, seen     \* history: the model's answer, the ledger as it was asked

vars == <<ledger, stage, addressed, classification, found, draft, answer,
               seen>>

TypeOK ==
    /\ ledger \in Seq(Invoices) /\ seen \in Seq(Invoices)
    /\ stage \in {"received", "classified", "verified", "drafted"}
    /\ stage # "received" =>
        /\ classification.category \in Allowed
        /\ classification.confidence \in 0..10 \cup {NaN}
        /\ classification.multi => classification.secondary \in Allowed
    /\ stage \in {"verified", "drafted"} =>
        (found.outcome = "found" <=> found.invoice # None)

Init ==
    /\ ledger = <<>> /\ stage = "received" /\ addressed \in BOOLEAN
    /\ classification = None /\ found = None /\ draft = None
    /\ answer = None /\ seen = <<>>

AddInvoice(inv) ==
    /\ Len(ledger) < MaxInvoices
    /\ ledger' = Append(ledger, inv)
    /\ UNCHANGED <<stage, addressed, classification, found, draft, answer, seen>>

Classify(raw) ==
    /\ stage = "received" /\ stage' = "classified"
    /\ classification' = IF raw = None THEN Fallback ELSE Coerce(raw, Allowed)
    /\ answer' = raw
    /\ UNCHANGED <<ledger, addressed, found, draft, seen>>

Verify(failed, slow) ==
    /\ stage = "classified" /\ stage' = "verified"
    /\ found' = Finder!Lookup(ledger, classification, failed, slow)
    /\ seen' = ledger
    /\ UNCHANGED <<ledger, addressed, classification, draft, answer>>

\* Pipeline.draft of a category, with the text that stands in it still.
Rendered(category) ==
    LET values == Render!FieldMap(found.invoice, classification.name)
        standing == Render!Standing(Template[category], values)
    IN [category |-> category, values |-> values, standing |-> standing,
        missing |-> Render!Missing(Template[category], values),
        blockers |-> Render!Blockers(standing, addressed)]

Draft ==
    /\ stage = "verified" /\ stage' = "drafted"
    /\ draft' = Rendered(classification.category)
    /\ UNCHANGED <<ledger, addressed, classification, found, answer, seen>>

\* override_category: the previous classification, corrected, and the lookup
\* on record.
Override(category) ==
    /\ stage = "drafted"
    /\ classification' = [classification EXCEPT !.category = category,
                            !.confidence = 10, !.source = "human"]
    /\ draft' = Rendered(category)
    /\ UNCHANGED <<ledger, stage, addressed, found, answer, seen>>

Next ==
    \/ \E inv \in Invoices : AddInvoice(inv)
    \/ \E raw \in Answers \cup {None} : Classify(raw)
    \/ \E failed \in {"number", "sender", "no"}, slow \in BOOLEAN :
        Verify(failed, slow)
    \/ Draft
    \/ \E category \in Allowed : Override(category)

Spec == Init /\ [][Next]_vars

(***************************************************************************)
(* Properties                                                              *)
(***************************************************************************)

Ready == stage = "drafted" /\ draft.blockers = {}
Mentions == Template[draft.category] \cap Render!InvoiceSlots # {}

\* A draft that may go to Gmail and mentions an invoice mentions one that the
\* ledger held when it was asked, that alone had the number, in whatever case,
\* and a number the model read in the email and gave a score that is not below
\* the floor: never a guess, and never a figure of the customer's
\* (inbox/verify.py, lookup; render.py, field_map).
FactsComeFromXero ==
    Ready /\ Mentions =>
        LET same == {n \in DOMAIN seen :
                       Lower[seen[n].number] = Lower[answer.number.value]}
        IN /\ answer # None
           /\ answer.number.score # None /\ ~Below(answer.number.score, FieldFloor)
           /\ \E n \in same :
                /\ same = {n}
                /\ draft.values["invoice_number"].words = seen[n].number
                /\ draft.values["outstanding_balance"].words = seen[n].due

\* No placeholder reaches a customer in a draft as it was rendered: neither one
\* that nothing filled, nor one that came in a value (render.py, fill;
\* review.py, blockers).  Drafts that a person edited are InboxReply's.
NoSlotGoesOut ==
    Ready => draft.standing = {} /\ draft.missing = {} /\ addressed

\* A draft that may go out without a warning is one whose sender claims no amount
\* more than a penny off what the ledger says, whose model did not see a second
\* request in the email, and whose category has no score below the floor; where
\* there is no such category, which is for the error log and not for a warning,
\* it is the catch-all's (review.py, flags; classify.py, coerce; pipeline.py,
\* classify).
NoWarningNoDoubt ==
    LET warnings == Render!Warnings(classification, LowConfidence(classification),
                                    found)
    IN Ready /\ Mentions /\ warnings = {} =>
        /\ answer # None
        /\ Confident(answer.amount) # None =>
              \E owed \in {found.invoice.due, found.invoice.total} :
                 Confident(answer.amount) - owed \in -1..1
        /\ answer.secondary \in Allowed /\ answer.secondaryConfidence \notin {None, NaN}
              => \/ answer.secondaryConfidence < MultiIntentThreshold
                 \/ answer.secondary = answer.category
                 \/ answer.secondary = OutOfScope /\ answer.category \notin Allowed
        /\ classification.source = "ai" =>
              /\ answer.confidence = NaN \/ answer.confidence >= CategoryFloor
              /\ draft.category = IF answer.category \in Allowed
                                  THEN answer.category ELSE OutOfScope

(***************************************************************************)
(* What the documentation promises, and TLC refutes                        *)
(***************************************************************************)

\* The number that a draft rests on came with a score for it: "a missing score
\* is not permission to trust the value" (classify.py, _confident).  A score
\* that reads NaN passes for one.
TrustNeedsAScore == Ready /\ Mentions => answer.number.score # NaN
================================================================================
