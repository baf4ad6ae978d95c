SPECIFICATION Spec
CONSTANTS
    Emails = {1}
    Mailboxes = {m1}
    MailboxOf <- OneMailbox
    Noise = {}
    Bad = {}
    Unfetchable = {}
    Categories = {c1, c2}
    OutOfScope = c1
    Syncs = {s1, s2}
    People = {p1}
    ListLimit = 1
    ScanLimit = 1
    BatchLimit = 1
    Faults = TRUE
SYMMETRY SyncSymmetry
INVARIANTS
    TypeOK
    ReviewIsComplete
    DraftFollowsLabel
    ResetSparesDecided
CHECK_DEADLOCK FALSE
