-------------------------------- MODULE ChaseUp --------------------------------
(***************************************************************************)
(* The rows of the overdue chase-up: one for each customer who owes        *)
(* something overdue (worker/fw/workflows/overdue_chaseup.py, run).        *)
(*                                                                         *)
(* An invoice has the key its customer is grouped by (the ContactID, else  *)
(* the name, else "unknown"), whether its summary of the customer has an   *)
(* address, its currency, AmountDue, and the days it is past due, or       *)
(* NoDate.  Money is in whole units.  The wording's own text, the          *)
(* references and the greeting are left out.                               *)
(***************************************************************************)
EXTENDS Places, FiniteSetsExt

\* The customers whose address get_contacts gives are found: none, if it fails.
Known(cid, found, first) == first.addressed \/ cid \in found

\* Mutant: a credit, whose balance is negative, is taken for a debt.
IsOverdueOrCredit(inv, minDays) ==
    /\ inv.due # 0
    /\ inv.days # NoDate
    /\ inv.days >= minDays
\* What is chased: a balance, a date, and days enough.
IsOverdue(inv, minDays) ==
    /\ inv.due > 0
    /\ inv.days # NoDate
    /\ inv.days >= minDays

\* BUCKETS, and the tone that goes with each.
Tone(days) ==
    IF days >= 90 THEN "final" ELSE IF days >= 60 THEN "firm"
    ELSE IF days >= 30 THEN "reminder" ELSE "gentle"

\* by_contact's entry, made into a row: all of the customer's invoices that are
\* overdue, and the currency and the address of the first of them.
CustomerRow(invoices, own, first, found) ==
    LET oldest == Max({0} \cup {invoices[n].days : n \in own})
    IN [id |-> first.cid,
        amount |-> Sum([n \in own |-> invoices[n].due]),
        currency |-> first.currency,
        count |-> Cardinality(own),
        oldest |-> oldest,
        tone |-> Tone(oldest),
        contactable |-> Known(first.cid, found, first)]

\* The order of the rows: oldest first, then largest, and else as they were made.
Before(r, s) ==
    \/ r.oldest > s.oldest
    \/ r.oldest = s.oldest /\ r.amount > s.amount
WorkedFirst(rows) ==
    {p \in (DOMAIN rows) \X (DOMAIN rows) :
        \/ Before(rows[p[1]], rows[p[2]])
        \/ ~Before(rows[p[2]], rows[p[1]]) /\ p[1] < p[2]}

\* Grouped by customer, at the place of the first invoice; small sums are left.
ChaseRows(invoices, minDays, minAmount, found) ==
    LET overdue == {n \in DOMAIN invoices : IsOverdue(invoices[n], minDays)}
        own(n) == {m \in overdue : invoices[m].cid = invoices[n].cid}
        customers == [n \in Firsts([m \in overdue |-> invoices[m].cid]) |->
                        CustomerRow(invoices, own(n), invoices[n], found)]
        rows == [n \in {m \in DOMAIN customers : customers[m].amount >= minAmount}
                   |-> customers[n]]
    IN Arranged(rows, WorkedFirst(rows))
================================================================================
