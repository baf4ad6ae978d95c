----------------------------- MODULE MCReplyRules ------------------------------
(* The instance of ReplyRules that TLC checks. *)
EXTENDS ReplyRules, TLC

Xero(number, total, due, name) ==
    [number |-> number, total |-> total, due |-> due, name |-> name]
Of(words, standing) == [words |-> words, standing |-> standing]
MCInvoices ==
    {Xero("INV-1", 5, 3, Of("Acme", {})), Xero("inv-1", 5, 5, None),
     Xero("INV-1-A", 9, 9, Of("Acme", {})),
     Xero("INV-2", 4, 0, Of("{{sender}}", {"sender"}))}

Field(value, score) == [value |-> value, score |-> score]
MCAnswers ==
    [category : {"Query", "Nonsense"}, confidence : {None, NaN, 12},
     secondary : {None}, secondaryConfidence : {None},
     number : {Field("inv-1", None), Field("inv-1", NaN), Field("INV-1", 9)},
     amount : {Field(6, 9), Field(7, 9), Field(None, None)},
     name : {Field(Of("Bob", {}), 9)}]
    \cup
    [category : {"Query"}, confidence : {3, 6},
     secondary : {"Dispute"}, secondaryConfidence : {None, NaN, 3, 4},
     number : {Field("inv-2", 6), Field("INV-1", 6), Field("INV-1", 5),
               Field(None, None)},
     amount : {Field(4, 9)}, name : {Field(Of("{{amount}}", {"amount"}), 3)}]

MCAllowed == {"Query", "Dispute", "Other"}
MCTemplate ==
    "Query" :> {"customer_name", "invoice_number", "outstanding_balance"}
    @@ "Dispute" :> {"sender"} @@ "Other" :> {"invoice_number"}
MCLower == "INV-1" :> "inv-1" @@ "inv-1" :> "inv-1" @@ "INV-2" :> "inv-2"
           @@ "inv-2" :> "inv-2" @@ "INV-1-A" :> "inv-1-a"
MCLike == LET ones == {"INV-1", "inv-1", "INV-1-A"}
          IN "INV-1" :> ones @@ "inv-1" :> ones @@ "inv-2" :> {"INV-2"}
================================================================================
