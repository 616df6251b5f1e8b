CONSTANTS
    u1 = u1
    w1 = w1
    read = read
    write = write
    NoWorkspace = NoWorkspace
    Users = {u1}
    Workspaces = {w1}
    Privileges = {read, write}
    AdminPrivileges = {read}
    UserPrivileges = {}
    Seeded = {"SUPER_ADMIN"}
    MaxRequests = 3
    MaxActive = 2
SPECIFICATION Spec
INVARIANTS TypeOK CreatedWithPrivileges AssignmentsHold
PROPERTIES GlobalBySuperAdmin RoleDestroyedFromStash
CHECK_DEADLOCK FALSE
