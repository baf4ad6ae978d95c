---------------------------- MODULE MCWorkflowRules ----------------------------
(* The instance of WorkflowRules that TLC checks. *)
EXTENDS WorkflowRules, TLC

Owed(cid, addressed, due, days) ==
    [cid |-> cid, addressed |-> addressed, currency |-> "GBP", due |-> due,
     days |-> days]
MCReceivables ==
    {Owed("c1", FALSE, 3, 95), Owed("c1", TRUE, 1, 10), Owed("c1", TRUE, -2, 40),
     Owed("c2", FALSE, 3, 95), Owed("c2", FALSE, 2, NoDate)}

Bill(type, vendor, due, days) ==
    [type |-> type, currency |-> "USD", vendor |-> vendor, due |-> due,
     reference |-> {vendor}, days |-> days]
MCBills ==
    {Bill("ACCPAY", "Acme", 3, 5), Bill("ACCPAY", "acme", 1, 2),
     Bill("ACCPAY", "Beta", 2, 5), Bill("ACCREC", "Acme", 4, 5),
     Bill("ACCPAY", "Beta", 5, NoDate)}

MCInvoices == MCReceivables \cup MCBills

MCNorm == "Acme" :> "acme" @@ "acme" :> "acme" @@ "Beta" :> "beta"

MCParameters ==
    [workflow : {"chase"}, minDays : {7}, minAmount : {0, 2}, found : {{}, {"c1"}}]
    \cup {[workflow |-> "pay", cutoff |-> NoDate, includeUnmatched |-> FALSE,
           region |-> [currency |-> "USD", consolidate |-> TRUE]],
          [workflow |-> "pay", cutoff |-> 3, includeUnmatched |-> TRUE,
           region |-> [currency |-> "USD", consolidate |-> TRUE]],
          [workflow |-> "pay", cutoff |-> 3, includeUnmatched |-> FALSE,
           region |-> [currency |-> "USD", consolidate |-> FALSE]]}

BankDetails(vendor, account) ==
    [vendor |-> vendor, fields |-> [accountnumber |-> account, sortcode |-> "s"]]
MCImports ==
    {<<BankDetails("acme", "a1"), BankDetails("Beta", "b1")>>,
     <<BankDetails("Acme", "a2")>>,
     <<[vendor |-> "Beta", fields |-> [accountnumber |-> Blank]]>>,
     <<BankDetails("Acme", "a1"), BankDetails("acme", "a2")>>}
MCColumns == {"name", "amount", "paymentreference", "accountnumber", "accounttype"}
================================================================================
