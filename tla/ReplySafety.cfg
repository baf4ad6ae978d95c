SPECIFICATION Spec
CONSTANTS
    Emails = {e1}
    Mailboxes = {m1}
    MailboxOf <- OneMailbox
    Words = {w1}
    Blocked = {}
    NoWords = NoWords
    Requests = {r1, r2, r3}
    Nobody = Nobody
    Faults = TRUE
    MaxDrafts = 3
SYMMETRY CallSymmetry
INVARIANTS
    TypeOK
    OneAcknowledgedDraft
    OneHolder
    DraftedMeansCreated
    ReservedBeforeGmail
PROPERTIES
    GmailOnlyWhilePending
    CreatedStaysCreated
    LedgerSpec
CHECK_DEADLOCK FALSE
