SPECIFICATION Spec
CONSTANTS
    Providers = {"xero", "google"}
    Apps = {1, 2}
    Default = 1
    Tenants = {t1, t2}
    Slug <- OneSlug
    Capacity = 2
    Calls = {c1, c2}
    MaxClients = 2
    MaxConsents = 2
    Deaths = TRUE
SYMMETRY Symmetry
INVARIANTS
    TypeOK
    IssuerIsKept
    OneRowPerTenant
    MailboxHasToken
PROPERTY
    NameKeepsTenant
CHECK_DEADLOCK FALSE
