SPECIFICATION FairSpec
CONSTANTS
    Emails = {e1}
    Mailboxes = {m1}
    MailboxOf <- OneMailbox
    Words = {w1, w2, w3}
    Blocked = {w3}
    NoWords = NoWords
    Requests = {r1, r2}
    Nobody = Nobody
    Faults = FALSE
    MaxDrafts = 2
INVARIANTS
    LedgerMatchesGmail
PROPERTIES
    PendingIsSettled
CHECK_DEADLOCK FALSE
