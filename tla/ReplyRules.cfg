SPECIFICATION Spec
CONSTANTS
    None = None
    NaN = NaN
    OutOfScope = "Other"
    Answers <- MCAnswers
    Invoices <- MCInvoices
    Allowed <- MCAllowed
    Template <- MCTemplate
    Lower <- MCLower
    Like <- MCLike
    MaxInvoices = 2
INVARIANTS
    NoSlotGoesOut
    FactsComeFromXero
    NoWarningNoDoubt
CHECK_DEADLOCK FALSE
