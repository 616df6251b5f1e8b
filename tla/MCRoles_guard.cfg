CONSTANTS
    u1 = u1
    w1 = w1
    read = read
    write = write
    NoWorkspace = NoWorkspace
    Users = {u1}
    Workspaces = {w1}
    Privileges = {read}
    AdminPrivileges = {}
    UserPrivileges = {}
    Seeded = {"ADMIN", "USER"}
    MaxRequests = 3
    MaxActive = 2
SPECIFICATION Spec
INVARIANTS PassedIfOneWrite
PROPERTIES RolesAreStashed
CHECK_DEADLOCK FALSE
