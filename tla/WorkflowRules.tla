----------------------------- MODULE WorkflowRules -----------------------------
(***************************************************************************)
(* A run of one of the two workflows from the ledger to what its approver  *)
(* is shown: the invoices are read page by page (XeroPull) and made into   *)
(* the chase-up's customers (ChaseUp) or the pay run's payments, of which  *)
(* an approver's choice goes into the bank file (PayRun).  The region's    *)
(* bank details may be imported anew at any time.  The run's row, with who *)
(* may approve it, and the chase-up's drafts are WorkflowRuns'.            *)
(*                                                                         *)
(* "worker/fw/..." is the repository's src/worker/fw/....                  *)
(***************************************************************************)
EXTENDS XeroPull, ChaseUp, PayRun

CONSTANTS
    Receivables, Bills,  \* what can be in the ledger, for each workflow
    Parameters,          \* what a run may be asked for
    Imports,             \* the spreadsheets of bank details
    Columns,             \* the bank's layout
    MaxImports,          \* bound: imports
    NotYet               \* no rows, or no bank file, yet

ASSUME PossibleAssumption == Receivables \cup Bills \subseteq Invoices
ASSUME InvoiceAssumption ==
    \A inv \in Receivables \cup Bills : inv.due \in Int /\ inv.days \in Int \cup {NoDate}
ASSUME ParametersAssumption ==
    \A p \in Parameters :
        \/ p.workflow = "chase" /\ p.minDays \in Int /\ p.minAmount \in Int
        \/ p.workflow = "pay" /\ p.includeUnmatched \in BOOLEAN
                              /\ p.region.consolidate \in BOOLEAN
\* lower() takes any name.
ASSUME NormAssumption ==
    /\ \A bill \in Bills : bill.vendor \in DOMAIN Norm
    /\ \A records \in Imports :
          \A n \in DOMAIN records : records[n].vendor \in DOMAIN Norm
ASSUME ImportsAssumption == MaxImports \in Nat
\* The layouts that the properties read: the payee, the amount and the account.
ASSUME ColumnsAssumption == {"name", "amount", "accountnumber"} \subseteq Columns

VARIABLES
    asked,       \* the run's parameters
    details,     \* vendor_bank_details, of the run's region
    imported,    \* history: the last import that was accepted
    imports,     \* history: imports so far
    rows,        \* what the run came to
    shown,       \* history: the import that the rows were made of
    artifact     \* the bank file of the rows that were approved

ruleVars == <<asked, details, imported, imports, rows, shown, artifact>>
rulesVars == <<pullVars, ruleVars>>

RulesTypeOK ==
    /\ PullTypeOK
    /\ asked \in Parameters /\ imports \in 0..MaxImports
    /\ \A v \in DOMAIN details : v \in {Norm[name] : name \in DOMAIN Norm}
    /\ rows # NotYet => pull = "done"
    /\ artifact # NotYet => DOMAIN artifact \subseteq DOMAIN rows

RulesInit ==
    /\ PullInit /\ asked \in Parameters
    /\ imported = <<>> /\ details = Details(imported)
    /\ imports = 0 /\ rows = NotYet /\ shown = <<>> /\ artifact = NotYet

Possible == IF asked.workflow = "chase" THEN Receivables ELSE Bills

\* Mutant: an upsert, which leaves the vendors that the import no longer has.
ReplacedWithUpsert(records) ==
    LET new == Details(records)
    IN [v \in DOMAIN details \cup DOMAIN new |->
          IF v \in DOMAIN new THEN new[v] ELSE details[v]]
Replaced(records) == Details(records)

\* replace_region, one transaction.  A chase-up has no region.
Import(records) ==
    /\ asked.workflow = "pay" /\ imports < MaxImports
    /\ imports' = imports + 1
    /\ IF Importable(records)
       THEN details' = Replaced(records) /\ imported' = records
       ELSE UNCHANGED <<details, imported>>
    /\ UNCHANGED <<pullVars, asked, rows, shown, artifact>>

Read == [n \in DOMAIN got |-> got[n].of]

\* run, once its invoices are read; the bank details are loaded only now.
PrepareChase ==
    /\ asked.workflow = "chase" /\ pull = "done" /\ rows = NotYet
    /\ rows' = ChaseRows(Read, asked.minDays, asked.minAmount, asked.found)
    /\ UNCHANGED <<pullVars, asked, details, imported, imports, shown, artifact>>

PreparePay ==
    /\ asked.workflow = "pay" /\ pull = "done" /\ rows = NotYet
    /\ rows' = PayRows(Read, details, asked) /\ shown' = imported
    /\ UNCHANGED <<pullVars, asked, details, imported, imports, artifact>>

\* approve and finalise: the rows as they were stored, and not the details.
Finalise ==
    /\ asked.workflow = "pay" /\ rows # NotYet /\ artifact = NotYet
    /\ \E chosen \in (SUBSET DOMAIN rows) \ {{}} :
          artifact' = BankFile(Restrict(rows, chosen), Columns)
    /\ UNCHANGED <<pullVars, asked, details, imported, imports, rows, shown>>

RulesNext ==
    \/ PullNext(Possible) /\ UNCHANGED ruleVars
    \/ \E records \in Imports : Import(records)
    \/ PrepareChase
    \/ PreparePay
    \/ Finalise

RulesSpec == RulesInit /\ [][RulesNext]_rulesVars

(***************************************************************************)
(* Properties                                                              *)
(***************************************************************************)

\* The run was done with a ledger that nobody changed under it.
Quiet == rows # NotYet /\ late = 0 /\ left = 0
IsDebt(inv) == inv.due > 0 /\ inv.days # NoDate /\ inv.days >= asked.minDays
DebtsOf(cid) == {n \in DOMAIN ledger : ledger[n].of.cid = cid /\ IsDebt(ledger[n].of)}
Debt(cid) == Sum([n \in DebtsOf(cid) |-> ledger[n].of.due])

\* Each customer who owes enough for long enough has one row, of all that is
\* overdue, and nobody else has: a credit takes nothing off it, and an invoice
\* without a date is not chased.  They are written to in the tone that their
\* oldest debt calls for, whichever of their invoices comes first, and the list
\* is in the order it would be worked in (overdue_chaseup.py, bucket_for, run).
EveryDebtIsChased ==
    Quiet /\ asked.workflow = "chase" =>
        /\ \A cid \in {inv.cid : inv \in Receivables} :
            LET own == {n \in DOMAIN rows : rows[n].id = cid}
            IN /\ own # {} <=> DebtsOf(cid) # {} /\ Debt(cid) >= asked.minAmount
               /\ Cardinality(own) <= 1
               /\ \A n \in own :
                    /\ rows[n].amount = Debt(cid)
                    /\ rows[n].tone = "final" <=>
                         \E i \in DebtsOf(cid) : ledger[i].of.days >= 90
        /\ \A m, n \in DOMAIN rows : m < n =>
            /\ rows[m].oldest >= rows[n].oldest
            /\ rows[m].oldest = rows[n].oldest => rows[m].amount >= rows[n].amount

IsPayable(bill) ==
    /\ bill.type = "ACCPAY" /\ bill.currency = asked.region.currency
    /\ asked.cutoff = NoDate \/ (bill.days # NoDate /\ bill.days > asked.cutoff)
Payable(v) == {n \in DOMAIN ledger : /\ IsPayable(ledger[n].of)
                                    /\ Norm[ledger[n].of.vendor] = v}
\* The bank details as they were when the rows were made.
OnRecord == Details(shown)
HasDetails(v) ==
    v \in DOMAIN OnRecord /\ \E k \in DOMAIN OnRecord[v] : OnRecord[v][k] # Blank
\* No banking field is named like one of the bill's own, which it would replace.
OwnNames == {"name", "reference", "amount", "matched"} \cap Keys(OnRecord) = {}
\* The bank file if every row is approved.
File == BankFile(rows, Columns)
LinesOf(v) == {n \in DOMAIN File : Norm[File[n]["name"]] = v}

\* The bank file pays each vendor whose details are known what the ledger says
\* is owed, in one line or several, however the bills spell the name; and
\* nobody else, unless that was asked for (weekly_payrun.py, run, finalise).
PaidWhatIsOwed ==
    Quiet /\ asked.workflow = "pay" /\ OwnNames =>
        \A v \in {Norm[name] : name \in DOMAIN Norm} :
            Sum([n \in LinesOf(v) |-> File[n]["amount"]]) =
            IF HasDetails(v) \/ asked.includeUnmatched
            THEN Sum([n \in Payable(v) |-> ledger[n].of.due])
            ELSE 0

AccountOf(line, records) ==
    \E m \in DOMAIN records :
        /\ Norm[records[m].vendor] = Norm[line["name"]]
        /\ records[m].fields["accountnumber"] = line["accountnumber"]

\* Whatever was imported before, meanwhile and since, the bank file that goes out
\* pays no account but the one that the last import accepted before the rows were
\* made gives to the vendor of the line: an import replaces the region whole, and
\* a run is of one import, the one its approver was shown (stores.py,
\* replace_region, lookup; weekly_payrun.py, run, finalise).
NoStaleAccount ==
    artifact # NotYet /\ OwnNames =>
        \A n \in DOMAIN artifact :
            artifact[n]["accountnumber"] = Blank \/ AccountOf(artifact[n], shown)

(***************************************************************************)
(* What the documentation promises                                         *)
(***************************************************************************)

\* No account that was taken out by an import is paid afterwards: "a vendor
\* removed from the source must disappear here too, or a stale account number
\* outlives the change that was meant to remove it" (stores.py, replace_region).
\* The rows of a run that awaits approval keep it.
NoRemovedAccountIsPaid ==
    [][artifact' # artifact /\ OwnNames =>
         \A n \in DOMAIN artifact' :
            artifact'[n]["accountnumber"] = Blank
            \/ AccountOf(artifact'[n], imported)]_rulesVars
================================================================================
