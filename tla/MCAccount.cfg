CONSTANTS
    e1 = e1
    e2 = e2
    Emails = {e1, e2}
    RoleSeeded = TRUE
    MaxRequests = 5
    MaxActive = 3
SPECIFICATION Spec
SYMMETRY Symmetry
INVARIANTS TypeOK MailsMatchAccounts ResetConsumesRequest
CHECK_DEADLOCK FALSE
