----------------------------- MODULE InvoiceLookup -----------------------------
(***************************************************************************)
(* The customer's claim against the ledger (worker/fw/inbox/verify.py;     *)
(* get_invoices_by_number in xero.py).                                     *)
(*                                                                         *)
(* An invoice has a number as Xero spells it, a total, a balance and a     *)
(* name for its contact; amounts are in pennies.  Lower gives a number in  *)
(* lower case, Like the numbers that Xero answers to one asked for.  The   *)
(* ledger is a sequence, in Xero's order.                                  *)
(*                                                                         *)
(* The invoices offered to pick from when none was found are left out;     *)
(* that asking for them may fail is not.                                   *)
(***************************************************************************)
EXTENDS Integers, Sequences

CONSTANTS
    None,
    Lower,           \* what lower() makes of a number
    Like             \* the numbers Xero gives for one

AmountTolerance == 1 \* AMOUNT_TOLERANCE

\* Mutant: what Xero gives is taken as it is.
AnswersToLoosely(inv, number) == inv.number \in Like[number]
\* get_invoices_by_number, and by_number's own, stricter look at it.
AnswersTo(inv, number) ==
    inv.number \in Like[number] /\ Lower[inv.number] = Lower[number]

\* by_number: where the matches are in the ledger.
ByNumber(ledger, number) == {n \in DOMAIN ledger : AnswersTo(ledger[n], number)}

\* compare: a claim more than a penny off both the total and what is still owed.
\* (The floats of the code may find a difference of exactly a penny a little
\* more than one; that only warns more.)  The number cannot differ: by_number
\* has seen to it.
AmountDiffers(inv, claimed) ==
    /\ claimed # None
    /\ \A value \in {inv.total, inv.due} :
        claimed - value \notin -AmountTolerance..AmountTolerance

\* lookup.  Failed is the first of its calls to raise, "number" or "sender",
\* or "no"; slow, whether it timed out.  The sender's open invoices are asked
\* for unless one invoice was found.
Lookup(ledger, said, failed, slow) ==
    LET places == IF said.number = None THEN {} ELSE ByNumber(ledger, said.number)
        base == [outcome |-> "skipped", invoice |-> None, mismatch |-> FALSE]
        raised == [base EXCEPT !.outcome = IF slow THEN "timed_out" ELSE "error"]
    IN IF said.number # None /\ failed = "number" THEN raised
       ELSE IF \E n \in places : places = {n}
       THEN LET only == ledger[CHOOSE n \in places : TRUE]
            IN [base EXCEPT !.outcome = "found", !.invoice = only,
                            !.mismatch = AmountDiffers(only, said.amount)]
       ELSE IF failed = "sender" THEN raised
       ELSE [base EXCEPT !.outcome = IF places # {} THEN "ambiguous"
                                     ELSE IF said.number = None THEN "skipped"
                                     ELSE "not_found"]
================================================================================
