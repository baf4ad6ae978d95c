SPECIFICATION FairSpec
CONSTANTS
    Emails = {1, 2, 3, 4}
    Mailboxes = {m1}
    MailboxOf <- OneMailbox
    Noise = {2}
    Bad = {1}
    Unfetchable = {4}
    Categories = {c1}
    OutOfScope = c1
    Syncs = {s1, s2}
    People = {}
    ListLimit = 2
    ScanLimit = 4
    BatchLimit = 2
    Faults = FALSE
PROPERTY
    EveryMessageIsTriaged
CHECK_DEADLOCK FALSE
