-------------------------------- MODULE PayRun ---------------------------------
(***************************************************************************)
(* The payments of the weekly pay run and the bank file made of them       *)
(* (worker/fw/workflows/weekly_payrun.py; VendorStore in stores.py and     *)
(* TableBankDetails in banking.py for the bank details).                   *)
(*                                                                         *)
(* A bill has its type, currency, vendor, AmountDue, reference and the     *)
(* days it is past due, or NoDate.  The vendor is a name as written, and   *)
(* Norm gives what lower() makes of it.  Banking fields and columns are    *)
(* keys as norm_header leaves them.  A row is a function of its fields.    *)
(***************************************************************************)
EXTENDS Places, Functions

CONSTANT Norm   \* norm_vendor, as a function of the names

Blank == ""

\* A region's records by vendor, unless two are of one: the table's unique key
\* refuses the whole import.
Importable(records) == IsInjective([n \in DOMAIN records |-> Norm[records[n].vendor]])
Details(records) ==
    [v \in {Norm[records[n].vendor] : n \in DOMAIN records} |->
        records[CHOOSE n \in DOMAIN records : Norm[records[n].vendor] = v].fields]
Keys(details) == UNION {DOMAIN details[v] : v \in DOMAIN details}

\* VendorStore.lookup: every key there is, blank where the vendor has none.
LookUp(details, name) ==
    [k \in IF Norm[name] \in DOMAIN details THEN Keys(details) ELSE {} |->
        IF k \in DOMAIN details[Norm[name]] THEN details[Norm[name]][k] ELSE Blank]

\* The three filters.
IsSelected(bill, region, cutoff) ==
    /\ bill.type = "ACCPAY"
    /\ bill.currency = region.currency
    /\ cutoff # NoDate => bill.days # NoDate /\ bill.days > cutoff

\* _prepare_rows: the banking fields come last, and so win over the bill's.
PaymentRow(bill, details) ==
    LET found == LookUp(details, bill.vendor)
        own == [name |-> bill.vendor, reference |-> bill.reference,
                amount |-> bill.due,
                matched |-> \E k \in DOMAIN found : found[k] # Blank]
    IN [k \in DOMAIN own \cup DOMAIN found |->
          IF k \in DOMAIN found THEN found[k] ELSE own[k]]

\* Mutant: a vendor's later bills are dropped instead of added.
ConsolidatedFirst(rows) ==
    [n \in Firsts([m \in DOMAIN rows |-> Norm[rows[m].name]]) |-> rows[n]]
\* _consolidate_by_vendor: the first row of each vendor, with the vendor's
\* amounts summed and its references gathered.
Consolidated(rows) ==
    LET own(n) == {m \in DOMAIN rows : Norm[rows[m].name] = Norm[rows[n].name]}
    IN [n \in Firsts([m \in DOMAIN rows |-> Norm[rows[m].name]]) |->
          [rows[n] EXCEPT
             !.amount = Sum([m \in own(n) |-> rows[m].amount]),
             !.reference = UNION {rows[m].reference : m \in own(n)}]]

\* A row for each bill that passes the filters and can be paid, in their order.
PayRows(bills, details, asked) ==
    LET selected == {n \in DOMAIN bills :
                       IsSelected(bills[n], asked.region, asked.cutoff)}
        prepared == [n \in selected |-> PaymentRow(bills[n], details)]
        payable == [n \in {m \in selected : prepared[m].matched
                                            \/ asked.includeUnmatched} |-> prepared[n]]
        rows == IF asked.region.consolidate THEN Consolidated(payable) ELSE payable
    IN Arranged(rows, {p \in (DOMAIN rows) \X (DOMAIN rows) : p[1] < p[2]})

\* finalise: a column is one of the bill's fields, else a banking field, else
\* what the bank wants where nothing is known, else blank.
BillFields == [name |-> "name", amount |-> "amount",
               paymentreference |-> "reference"]
Defaults == [accounttype |-> "CHECKING"]
Cell(row, column) ==
    CASE column \in DOMAIN BillFields -> row[BillFields[column]]
      [] column \in DOMAIN row \ DOMAIN BillFields -> row[column]
      [] column \in DOMAIN Defaults \ DOMAIN row -> Defaults[column]
      [] OTHER -> Blank
BankFile(rows, columns) ==
    [n \in DOMAIN rows |-> [k \in columns |-> Cell(rows[n], k)]]
================================================================================
