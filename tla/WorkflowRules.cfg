SPECIFICATION RulesSpec
CONSTANTS
    Invoices <- MCInvoices
    PageSize = 2
    MaxRetries = 2
    MaxLedger = 3
    MaxEdits = 1
    Receivables <- MCReceivables
    Bills <- MCBills
    Parameters <- MCParameters
    Imports <- MCImports
    Columns <- MCColumns
    MaxImports = 2
    Norm <- MCNorm
    NoDate = NoDate
    NotYet = NotYet
INVARIANTS
    EachIsReadOnce
    EveryDebtIsChased
    PaidWhatIsOwed
    NoStaleAccount
CHECK_DEADLOCK FALSE
