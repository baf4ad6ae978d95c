------------------------------- MODULE Rendering -------------------------------
(***************************************************************************)
(* A template filled from what Xero holds, what stops the draft, and what  *)
(* a person is shown beside it (worker/fw/inbox/render.py, review.py,      *)
(* templates.py).                                                          *)
(*                                                                         *)
(* A template is the set of slots it mentions, in subject and body.  A     *)
(* text is a value with the slots that stand in it: a value from Xero may  *)
(* itself contain one, as any text may.  Two slots stand for the nine that *)
(* only an invoice can fill.  A found invoice fills both with plain words; *)
(* a value that Xero leaves out, or one with a slot in it, would block the *)
(* draft as the name can.  Of the warnings, unsupported_language and       *)
(* open_dispute are left out: they come on top of these.                   *)
(***************************************************************************)
EXTENDS FiniteSets

CONSTANT None

InvoiceSlots == {"invoice_number", "outstanding_balance"}
NonInvoiceSlots == {"customer_name", "sender"}
Slots == InvoiceSlots \cup NonInvoiceSlots

Text(words, standing) == [words |-> words, standing |-> standing]
Neutral == Text("there", {})    \* NEUTRAL_NAME

\* field_map: the invoice's values, if one was found; Xero's name for the
\* contact, else the one in the email, else a neutral one.
FieldMap(invoice, extractedName) ==
    [slot \in Slots |->
       CASE slot = "sender" -> Text("Accounts", {})
         [] slot = "customer_name" ->
              IF invoice # None /\ invoice.name # None THEN invoice.name
              ELSE IF extractedName # None THEN extractedName ELSE Neutral
         [] slot = "invoice_number" ->
              IF invoice = None THEN None ELSE Text(invoice.number, {})
         [] slot = "outstanding_balance" ->
              IF invoice = None THEN None ELSE Text(invoice.due, {})]

\* fill: a slot without a value is left standing.
Missing(template, values) == {slot \in template : values[slot] = None}
\* Mutant: a slot without a value is blanked.
StandingNot(template, values) ==
    UNION {values[slot].standing : slot \in template \ Missing(template, values)}
Standing(template, values) ==
    Missing(template, values)
        \cup UNION {values[slot].standing : slot \in template \ Missing(template, values)}

\* review.blockers.
Blockers(standing, addressed) ==
    (IF addressed THEN {} ELSE {"no_recipient"})
    \cup (IF standing = {} THEN {} ELSE {"unfilled_slots"})

\* Mutant: what the customer claims is not compared.
WarningsNoMismatch(classification, low, found) ==
    (IF classification.source = "fallback" THEN {"not_classified"}
     ELSE (IF low THEN {"low_confidence"} ELSE {})
          \cup (IF classification.multi THEN {"multi_intent"} ELSE {}))
    \cup (CASE found.outcome = "ambiguous" -> {"ambiguous_invoice"}
            [] found.outcome = "timed_out" -> {"lookup_timed_out"}
            [] found.outcome = "not_found" -> {"invoice_not_found"}
            [] found.outcome = "error" -> {"lookup_failed"}
            [] OTHER -> {})
\* review.flags, the warnings among them.
Warnings(classification, low, found) ==
    (IF classification.source = "fallback" THEN {"not_classified"}
     ELSE (IF low THEN {"low_confidence"} ELSE {})
          \cup (IF classification.multi THEN {"multi_intent"} ELSE {}))
    \cup (CASE found.outcome = "ambiguous" -> {"ambiguous_invoice"}
            [] found.outcome = "timed_out" -> {"lookup_timed_out"}
            [] found.outcome = "not_found" -> {"invoice_not_found"}
            [] found.outcome = "error" -> {"lookup_failed"}
            [] OTHER -> {})
    \cup (IF found.mismatch THEN {"amount_mismatch"} ELSE {})

================================================================================
