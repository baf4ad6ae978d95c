SPECIFICATION Spec
CONSTANTS
    Emails = {e1}
    Mailboxes = {m1}
    MailboxOf <- OneMailbox
    Words = {w1}
    Blocked = {}
    NoWords = NoWords
    Requests = {r1}
    Nobody = Nobody
    Faults = FALSE
    MaxDrafts = 2
INVARIANTS
    OneDraftPerEmail
CHECK_DEADLOCK FALSE
