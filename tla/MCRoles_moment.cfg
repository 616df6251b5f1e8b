CONSTANTS
    u1 = u1
    w1 = w1
    read = read
    write = write
    NoWorkspace = NoWorkspace
    Users = {u1}
    Workspaces = {w1}
    Privileges = {write}
    AdminPrivileges = {}
    UserPrivileges = {}
    Seeded = {"ADMIN"}
    MaxRequests = 3
    MaxActive = 3
SPECIFICATION Spec
INVARIANTS PassedHadPrivilege
CHECK_DEADLOCK FALSE
