-------------------------------- MODULE Roles --------------------------------
(***************************************************************************)
(* Roles, their privileges and their assignment to users (src/src/roles),  *)
(* and RoleGuard (src/src/auth/role.guard.ts), which reads the same tables *)
(* in up to four separate queries.                                         *)
(*                                                                         *)
(* A request in flight is at one of its awaited calls.  The privilege each *)
(* handler itself asks for is left out: a caller has it.  Titles are left  *)
(* out too, and with them role.update, which writes nothing else and fails *)
(* for a missing role just as the createMany after it does.  A workspace   *)
(* that is destroyed, or whose owner's membership goes to the stash or     *)
(* comes back (module Workspace), is one step here.                        *)
(***************************************************************************)
EXTENDS Integers, FiniteSets

CONSTANTS
    Users,              \* rows of the User table
    Workspaces,         \* workspaces there are at the start
    NoWorkspace,        \* workspaceId = null: the row is global
    Privileges,         \* rows of the Privilege table
    AdminPrivileges,    \* those the seed gives the ADMIN role
    UserPrivileges,     \* those the seed gives the USER role
    Seeded,             \* types of the seeded roles that are there
    MaxRequests,        \* bound: requests started
    MaxActive           \* bound: requests in flight at the same time

ASSUME RolesAssumption ==
    /\ Users # {} /\ Workspaces # {}
    /\ NoWorkspace \notin Workspaces
    /\ AdminPrivileges \cup UserPrivileges \subseteq Privileges
    /\ Seeded \subseteq {"SUPER_ADMIN", "ADMIN", "USER"}
    /\ MaxRequests \in Nat
    /\ MaxActive \in Nat

VARIABLES
    workspaces,         \* the workspaces that still exist
    owners,             \* the owners' rows of the WorkspaceMembership table
    roles,              \* rows of the Role table
    rolePrivileges,     \* <<role, privilege>> of each row of RolePrivilege
    userRoles,          \* rows of the UserRole table
    active,             \* requests in flight
    serial,             \* requests started so far
    \* Observed only by the properties:
    asked,              \* each role created, with the privileges asked for it
    removed,            \* <<role, privilege>> that an updateRole took away
    cut,                \* requests that died or whose createMany failed
    watched,            \* what happened during each RoleGuard under way
    passed              \* what had happened when one let a caller through

tables == <<workspaces, owners, roles, rolePrivileges, userRoles>>
vars == <<workspaces, owners, roles, rolePrivileges, userRoles, active, serial,
          asked, removed, cut, watched, passed>>

RoleTypes == {"SUPER_ADMIN", "ADMIN", "USER", "CUSTOM"}

\* A role is named after the request that created it; the seeded ones by these.
SeedId == [SUPER_ADMIN |-> -3, ADMIN |-> -2, USER |-> -1]

Owner == [user: Users, workspace: Workspaces, stashed: BOOLEAN]

Role == [id: Int, type: RoleTypes, workspace: Workspaces \cup {NoWorkspace},
         stashed: BOOLEAN]

\* The rows of signup have no workspace, those of assignRole have one.
UserRole ==
    [id: {0}, user: Users, role: Int, workspace: {NoWorkspace}]
    \cup [id: 1..serial, user: Users, role: Int, workspace: Workspaces]

\* "super" is whether the caller is a super admin; "row" the UserRole found;
\* "roleIds" what RoleGuard has gathered; "add" is also what it looks for.
Request == [id: Nat, super: BOOLEAN, user: Users, workspace: Workspaces, role: Int,
            add: SUBSET Privileges, remove: SUBSET Privileges, row: Nat,
            roleIds: SUBSET Int,
            op: {"createRole", "updateRole", "deleteRole", "assignRole",
                 "unAssignRole", "canActivate"},
            phase: {"create", "addPrivileges", "removePrivileges", "stash",
                    "destroy", "findAssignment", "assign", "unassign",
                    "findAdminRole", "findRoles", "findPrivileges"}]

\* Whether the caller held the privilege at some moment, and how many writes of
\* the tables there were: none, one or more.
Course == [entitled: BOOLEAN, writes: 0..2]

TypeOK ==
    /\ workspaces \subseteq Workspaces
    /\ owners \subseteq Owner
    /\ roles \subseteq Role
    /\ rolePrivileges \subseteq Int \X Privileges
    /\ userRoles \subseteq UserRole
    /\ active \subseteq Request
    /\ serial \in Nat
    /\ asked \subseteq [role: 1..serial, privileges: SUBSET Privileges]
    /\ removed \subseteq Int \X Privileges
    /\ cut \subseteq 1..serial
    /\ watched \in [{q.id : q \in {p \in active : p.op = "canActivate"}} -> Course]
    /\ passed \subseteq Course

SeedPrivileges(type) ==
    CASE type = "SUPER_ADMIN" -> Privileges
      [] type = "ADMIN" -> AdminPrivileges
      [] type = "USER" -> UserPrivileges

\* The seeds have run, and every user has been given the USER role at signup.
Init ==
    /\ workspaces = Workspaces
    /\ \E owner \in [Workspaces -> Users] :
         owners = {[user |-> owner[w], workspace |-> w, stashed |-> FALSE] :
                       w \in Workspaces}
    /\ roles = {[id |-> SeedId[t], type |-> t, workspace |-> NoWorkspace,
                 stashed |-> FALSE] : t \in Seeded}
    /\ rolePrivileges = UNION {{SeedId[t]} \X SeedPrivileges(t) : t \in Seeded}
    /\ userRoles = {[id |-> 0, user |-> u, role |-> SeedId[t], workspace |-> NoWorkspace] :
                       u \in Users, t \in Seeded \cap {"USER"}}
    /\ active = {}
    /\ serial = 0
    /\ asked = {} /\ removed = {} /\ cut = {}
    /\ watched = [id \in {} |-> {}]
    /\ passed = {}

-----------------------------------------------------------------------------
RoleIds(type) == {r.id : r \in {s \in roles : s.type = type}}
Exists(id) == \E r \in roles : r.id = id
IsOwner(user, workspace) ==
    [user |-> user, workspace |-> workspace, stashed |-> FALSE] \in owners

\* For the properties: the caller of a guard could be let through right now.
Entitled(q) ==
    \E id \in {ur.role : ur \in {x \in userRoles : x.user = q.user}} \cup
              (IF IsOwner(q.user, q.workspace) THEN RoleIds("ADMIN") ELSE {}) :
        \E p \in q.add : <<id, p>> \in rolePrivileges

\* What each step means to the guards under way, including one that starts.
Watch ==
    LET guards == {q \in active' : q.op = "canActivate"}
        writes(id) == IF id \in DOMAIN watched THEN watched[id].writes ELSE 0
        entitled(id) == id \in DOMAIN watched /\ watched[id].entitled
        now == {q.id : q \in {g \in guards : Entitled(g)'}}
    IN
    watched' = [id \in {q.id : q \in guards} |->
        [entitled |-> entitled(id) \/ id \in now,
         writes |-> IF tables' = tables \/ writes(id) = 2 THEN writes(id)
                    ELSE writes(id) + 1]]

Blank(op, phase) ==
    [id |-> serial + 1, super |-> FALSE, user |-> CHOOSE u \in Users : TRUE,
     workspace |-> CHOOSE w \in Workspaces : TRUE, role |-> 0, add |-> {},
     remove |-> {}, row |-> 0, roleIds |-> {}, op |-> op, phase |-> phase]

\* A request starts: it is past its guards and its first reads.
Start(q) ==
    /\ serial < MaxRequests
    /\ Cardinality(active) < MaxActive
    /\ serial' = serial + 1
    /\ active' = active \cup {q}
    /\ UNCHANGED <<tables, asked, removed, cut, passed>>
    /\ Watch

MoveTo(q, phase) == active' = (active \ {q}) \cup {[q EXCEPT !.phase = phase]}
Leave(q) == active' = active \ {q}

-----------------------------------------------------------------------------
(* createRole and updateRole                                               *)

BeginCreateRole(super, workspace, add) ==
    Start([Blank("createRole", "create") EXCEPT
              !.super = super, !.workspace = workspace, !.role = serial + 1, !.add = add])

\* role.create: a super admin's roles are ADMIN roles.
NewRole(q) ==
    [id |-> q.role, type |-> IF q.super THEN "ADMIN" ELSE "CUSTOM",
     workspace |-> q.workspace, stashed |-> FALSE]

CreateRole(q) ==
    /\ q.phase = "create"
    /\ IF q.workspace \in workspaces
       THEN /\ roles' = roles \cup {NewRole(q)}
            /\ asked' = asked \cup {[role |-> q.role, privileges |-> q.add]}
            /\ MoveTo(q, "addPrivileges")
       ELSE Leave(q) /\ UNCHANGED <<roles, asked>>
    /\ UNCHANGED <<workspaces, owners, rolePrivileges, userRoles, serial, removed,
                   cut, passed>>
    /\ Watch

\* Mutant: the type of the role is not looked at.
MayModifyAny(super, type) == TRUE

\* Who may update a role of which type.
MayModify(super, type) ==
    IF super THEN type # "SUPER_ADMIN" ELSE type = "CUSTOM"

\* role.findFirst finds stashed roles too.
BeginUpdateRole(super, role, add, remove) ==
    /\ MayModify(super, role.type)
    /\ Start([Blank("updateRole", "addPrivileges") EXCEPT
                 !.super = super, !.role = role.id, !.add = add, !.remove = remove])

\* createMany inserts all its rows or none: each role must be there, and
\* @@unique([privilegeId, roleId]).
Addable(q) ==
    \/ q.add = {}
    \/ /\ Exists(q.role)
       /\ ({q.role} \X q.add) \cap rolePrivileges = {}

\* Mutant: createRole adds nothing.
AddedToUpdated(q) == IF q.op = "updateRole" THEN {q.role} \X q.add ELSE {}

Added(q) == {q.role} \X q.add

\* rolePrivilege.createMany of createRole and updateRole.
AddPrivileges(q) ==
    /\ q.phase = "addPrivileges"
    /\ IF Addable(q)
       THEN /\ rolePrivileges' = rolePrivileges \cup Added(q)
            /\ IF q.op = "updateRole" THEN MoveTo(q, "removePrivileges") ELSE Leave(q)
            /\ UNCHANGED cut
       ELSE /\ Leave(q)
            /\ cut' = cut \cup {q.id}
            /\ UNCHANGED rolePrivileges
    /\ UNCHANGED <<workspaces, owners, roles, userRoles, serial, asked, removed, passed>>
    /\ Watch

\* rolePrivilege.deleteMany of updateRole.
RemovePrivileges(q) ==
    /\ q.phase = "removePrivileges"
    /\ rolePrivileges' = rolePrivileges \ ({q.role} \X q.remove)
    /\ removed' = removed \cup ({q.role} \X q.remove)
    /\ Leave(q)
    /\ UNCHANGED <<workspaces, owners, roles, userRoles, serial, asked, cut, passed>>
    /\ Watch

-----------------------------------------------------------------------------
(* deleteRole                                                              *)

MayDelete(super, type) == super \/ type = "CUSTOM"

\* Mutant: deletedAt is not looked at.
FoundInAny(role, fromStash) == TRUE

\* role.findUnique by id and deletedAt.
FoundIn(role, fromStash) == role.stashed = fromStash

BeginDeleteRole(super, role, fromStash) ==
    /\ FoundIn(role, fromStash)
    /\ MayDelete(super, role.type)
    /\ Start([Blank("deleteRole", IF fromStash THEN "destroy" ELSE "stash") EXCEPT
                 !.super = super, !.role = role.id])

\* Mutant: the row is written anew if it is gone.
StashedUpsert(q) ==
    {r \in roles : r.id # q.role} \cup
    {[id |-> q.role, type |-> "CUSTOM", workspace |-> NoWorkspace, stashed |-> TRUE]}

\* The Role table once the role, if it is there and active, is in the stash.
Stashed(q) ==
    {IF r.id = q.role THEN [r EXCEPT !.stashed = TRUE] ELSE r : r \in roles}

StashRole(q) ==
    /\ q.phase = "stash"
    /\ roles' = Stashed(q)
    /\ Leave(q)
    /\ UNCHANGED <<workspaces, owners, rolePrivileges, userRoles, serial, asked,
                   removed, cut, passed>>
    /\ Watch

\* onDelete: Cascade of RolePrivilege.role and UserRole.role.
DestroyRoles(ids) ==
    /\ roles' = {r \in roles : r.id \notin ids}
    /\ rolePrivileges' = {rp \in rolePrivileges : rp[1] \notin ids}
    /\ userRoles' = {ur \in userRoles : ur.role \notin ids}

\* role.delete, by id alone.
DestroyRole(q) ==
    /\ q.phase = "destroy"
    /\ DestroyRoles({q.role})
    /\ Leave(q)
    /\ UNCHANGED <<workspaces, owners, serial, asked, removed, cut, passed>>
    /\ Watch

-----------------------------------------------------------------------------
(* assignRole and unAssignRole                                             *)

\* role.findUnique
BeginAssignRole(user, workspace, role) ==
    /\ ~role.stashed
    /\ Start([Blank("assignRole", "findAssignment") EXCEPT
                 !.user = user, !.workspace = workspace, !.role = role.id])

Assigned(user, role) == \E ur \in userRoles : ur.user = user /\ ur.role = role

\* userRole.findFirst
FindAssignment(q) ==
    /\ q.phase = "findAssignment"
    /\ IF Assigned(q.user, q.role) THEN Leave(q) ELSE MoveTo(q, "assign")
    /\ UNCHANGED <<tables, serial, asked, removed, cut, passed>>
    /\ Watch

\* Mutant: no @@unique([userId, roleId]).
AssignableTwice(q) == Exists(q.role) /\ q.workspace \in workspaces

\* The role and the workspace must be there, and @@unique([userId, roleId]).
Assignable(q) ==
    /\ Exists(q.role)
    /\ q.workspace \in workspaces
    /\ ~Assigned(q.user, q.role)

\* Mutant: the workspace is left out.
AssignedRowAnywhere(q) ==
    [id |-> q.id, user |-> q.user, role |-> q.role, workspace |-> NoWorkspace]

AssignedRow(q) ==
    [id |-> q.id, user |-> q.user, role |-> q.role, workspace |-> q.workspace]

\* userRole.create
Assign(q) ==
    /\ q.phase = "assign"
    /\ userRoles' =
         IF Assignable(q) THEN userRoles \cup {AssignedRow(q)} ELSE userRoles
    /\ Leave(q)
    /\ UNCHANGED <<workspaces, owners, roles, rolePrivileges, serial, asked, removed,
                   cut, passed>>
    /\ Watch

\* userRole.findFirst by user, role and the current workspace.
BeginUnAssignRole(workspace, row) ==
    /\ row.workspace = workspace
    /\ Start([Blank("unAssignRole", "unassign") EXCEPT
                 !.user = row.user, !.workspace = workspace, !.role = row.role,
                 !.row = row.id])

\* userRole.delete by id
UnAssign(q) ==
    /\ q.phase = "unassign"
    /\ userRoles' = {ur \in userRoles : ur.id # q.row}
    /\ Leave(q)
    /\ UNCHANGED <<workspaces, owners, roles, rolePrivileges, serial, asked, removed,
                   cut, passed>>
    /\ Watch

-----------------------------------------------------------------------------
(* RoleGuard.canActivate                                                   *)

\* Mutant: the ADMIN role is given to everyone.
AfterMembershipAnyone(user, workspace) == "findAdminRole"

\* What follows workspaceMembership.findFirst.
AfterMembership(user, workspace) ==
    IF IsOwner(user, workspace) THEN "findAdminRole" ELSE "findRoles"

BeginCanActivate(user, workspace, privilege) ==
    Start([Blank("canActivate", AfterMembership(user, workspace)) EXCEPT
              !.user = user, !.workspace = workspace, !.add = {privilege}])

\* role.findFirst by type: any of them, in the stash or not, or none.
FindAdminRole(q) ==
    /\ q.phase = "findAdminRole"
    /\ \E ids \in IF RoleIds("ADMIN") = {} THEN {{}} ELSE {{id} : id \in RoleIds("ADMIN")} :
         active' = (active \ {q}) \cup {[q EXCEPT !.roleIds = ids, !.phase = "findRoles"]}
    /\ UNCHANGED <<tables, serial, asked, removed, cut, passed>>
    /\ Watch

\* userRole.findMany, whatever the workspace of the assignment.
FindRoles(q) ==
    LET ids == {ur.role : ur \in {x \in userRoles : x.user = q.user}} IN
    /\ q.phase = "findRoles"
    /\ active' = (active \ {q}) \cup
         {[q EXCEPT !.roleIds = q.roleIds \cup ids, !.phase = "findPrivileges"]}
    /\ UNCHANGED <<tables, serial, asked, removed, cut, passed>>
    /\ Watch

\* rolePrivilege.findMany, and the verdict.
FindPrivileges(q) ==
    /\ q.phase = "findPrivileges"
    /\ passed' = IF (q.roleIds \X q.add) \cap rolePrivileges = {} THEN passed
                 ELSE passed \cup {watched[q.id]}
    /\ Leave(q)
    /\ UNCHANGED <<tables, serial, asked, removed, cut>>
    /\ Watch

-----------------------------------------------------------------------------
(* Workspaces, and requests that die                                       *)

\* workspace.delete, with the cascades to memberships, roles and assignments.
DestroyWorkspace(w) ==
    LET ids == {r.id : r \in {x \in roles : x.workspace = w}} IN
    /\ workspaces' = workspaces \ {w}
    /\ owners' = {o \in owners : o.workspace # w}
    /\ roles' = {r \in roles : r.id \notin ids}
    /\ rolePrivileges' = {rp \in rolePrivileges : rp[1] \notin ids}
    /\ userRoles' = {ur \in userRoles : ur.role \notin ids /\ ur.workspace # w}
    /\ UNCHANGED <<active, serial, asked, removed, cut, passed>>
    /\ Watch

\* deleteMembership to the stash, or restoreMembership, of an owner.
ToggleOwner(o) ==
    /\ owners' = (owners \ {o}) \cup {[o EXCEPT !.stashed = ~o.stashed]}
    /\ UNCHANGED <<workspaces, roles, rolePrivileges, userRoles, active, serial,
                   asked, removed, cut, passed>>
    /\ Watch

Abort(q) ==
    /\ Leave(q)
    /\ cut' = cut \cup {q.id}
    /\ UNCHANGED <<tables, serial, asked, removed, passed>>
    /\ Watch

Begin ==
    \/ \E super \in BOOLEAN, w \in workspaces, add \in SUBSET Privileges :
         BeginCreateRole(super, w, add)
    \/ \E super \in BOOLEAN, r \in roles, add, remove \in SUBSET Privileges :
         BeginUpdateRole(super, r, add, remove)
    \/ \E super, fromStash \in BOOLEAN, r \in roles : BeginDeleteRole(super, r, fromStash)
    \/ \E u \in Users, w \in workspaces, r \in roles : BeginAssignRole(u, w, r)
    \/ \E w \in workspaces, row \in userRoles : BeginUnAssignRole(w, row)
    \/ \E u \in Users, w \in workspaces, p \in Privileges : BeginCanActivate(u, w, p)

Advance(q) ==
    \/ CreateRole(q)
    \/ AddPrivileges(q)
    \/ RemovePrivileges(q)
    \/ StashRole(q)
    \/ DestroyRole(q)
    \/ FindAssignment(q)
    \/ Assign(q)
    \/ UnAssign(q)
    \/ FindAdminRole(q)
    \/ FindRoles(q)
    \/ FindPrivileges(q)

Next ==
    \/ Begin
    \/ \E q \in active : Advance(q)
    \/ \E q \in active : Abort(q)
    \/ \E w \in workspaces : DestroyWorkspace(w)
    \/ \E o \in owners : ToggleOwner(o)

Spec == Init /\ [][Next]_vars

-----------------------------------------------------------------------------
(* Properties                                                              *)

\* createRole is two creates, and the role can be updated between them.  A role
\* that is there has each privilege it was created with, unless an update took
\* it away, its creation is still between the two, or was cut short there; the
\* second create also fails if an update was faster to add one of them.
CreatedWithPrivileges ==
    \A a \in asked :
        \/ {a.role} \X a.privileges \subseteq rolePrivileges \cup removed
        \/ ~Exists(a.role)
        \/ a.role \in cut \cup {q.id : q \in active}

\* Two assignments of one role to one user may both find none: still the user
\* has it once, so that one unAssignRole takes it away.
AssignedOnce ==
    \A x, y \in userRoles : x.user = y.user /\ x.role = y.role => x = y

\* No privilege and no assignment outlives its role, or comes into being after
\* it, even by a request that found the role before it was destroyed: RoleGuard
\* never looks whether a role exists.
GrantsHaveRole ==
    /\ \A rp \in rolePrivileges : Exists(rp[1])
    /\ \A ur \in userRoles : Exists(ur.role)

\* Both, whichever requests overlap: what RoleGuard and unAssignRole rely on.
AssignmentsHold == AssignedOnce /\ GrantsHaveRole

\* changelog.md: only the super admin can modify global roles.  The role or its
\* privileges change under a request of a super admin who named it, or go with
\* the workspace.
GlobalBySuperAdmin ==
    [][\A r \in roles :
         LET grants == {p \in Privileges : <<r.id, p>> \in rolePrivileges} IN
         r.type # "CUSTOM" /\ (r \notin roles' \/ grants # {p \in Privileges :
                                        <<r.id, p>> \in rolePrivileges'})
         => \/ \E q \in active : q.super /\ q.role = r.id
            \/ r.workspace \in workspaces \ workspaces']_vars

\* A role is destroyed from the stash, or with its workspace, although
\* role.delete does not look at deletedAt: nothing takes a role out of the stash.
RoleDestroyedFromStash ==
    [][\A r \in roles :
         ~Exists(r.id)' => r.stashed \/ r.workspace \in workspaces \ workspaces']_vars

\* RoleGuard gathers its answer from several moments.  If a table was written
\* at most once meanwhile, a caller it lets through held the privilege at one
\* of them.
PassedIfOneWrite == \A c \in passed : c.writes < 2 => c.entitled

\* role.guard.ts: "Check if user has the required privilege".  Whoever is let
\* through had it at some moment of the check.
PassedHadPrivilege == \A c \in passed : c.entitled

RoleState ==
    [i \in 1..MaxRequests |->
        IF \E r \in roles : r.id = i /\ ~r.stashed THEN "active"
        ELSE IF Exists(i) THEN "stashed"
        ELSE IF \E a \in asked : a.role = i THEN "gone" ELSE "absent"]

RoleRow == INSTANCE Stash WITH Rows <- 1..MaxRequests, row <- RoleState

\* The Role table keeps the promise of module Stash.
RolesAreStashed == RoleRow!Spec
=============================================================================
