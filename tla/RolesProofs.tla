----------------------------- MODULE RolesProofs -----------------------------
(* Proofs about module Roles, for any users, privileges, seeds and bounds. *)
EXTENDS Roles, TLAPS

\* What a request that starts leaves as it is.
LEMMA StartFrame ==
    ASSUME Begin
    PROVE  UNCHANGED <<workspaces, owners, roles, rolePrivileges, userRoles>>
  BY DEF Begin, BeginCreateRole, BeginUpdateRole, BeginDeleteRole, BeginAssignRole,
         BeginUnAssignRole, BeginCanActivate, Start, tables

-----------------------------------------------------------------------------
(* The foreign keys and constraints against the requests in flight         *)

TableInv == AssignedOnce /\ GrantsHaveRole

\* The seeds give each role its privileges, and signup assigns a seeded one.
LEMMA TableInit == Init => TableInv
  <1> SUFFICES ASSUME Init PROVE TableInv
    OBVIOUS
  <1>1. AssignedOnce
    <2> DEFINE row(u) == [id |-> 0, user |-> u, role |-> SeedId["USER"],
                          workspace |-> NoWorkspace]
    <2>1. ASSUME NEW x \in userRoles
          PROVE  x = row(x.user)
      <3>1. PICK u \in Users, t \in Seeded \cap {"USER"} :
              x = [id |-> 0, user |-> u, role |-> SeedId[t], workspace |-> NoWorkspace]
        BY <2>1 DEF Init
      <3> QED
        BY <3>1
    <2> HIDE DEF row
    <2> SUFFICES ASSUME NEW x \in userRoles, NEW y \in userRoles, x.user = y.user
                 PROVE  x = y
      BY DEF AssignedOnce
    <2> QED
      BY <2>1
  <1>2. ASSUME NEW t \in Seeded PROVE Exists(SeedId[t])
    <2> DEFINE row == [id |-> SeedId[t], type |-> t, workspace |-> NoWorkspace,
                       stashed |-> FALSE]
    <2>1. row \in roles
      BY DEF Init
    <2>2. row.id = SeedId[t]
      OBVIOUS
    <2> QED
      BY <2>1, <2>2 DEF Exists
  <1>3. ASSUME NEW rp \in rolePrivileges PROVE Exists(rp[1])
    <2>1. PICK t \in Seeded : rp \in {SeedId[t]} \X SeedPrivileges(t)
      BY <1>3 DEF Init
    <2>2. rp[1] = SeedId[t]
      BY <2>1
    <2> QED
      BY <1>2, <2>2
  <1>4. ASSUME NEW ur \in userRoles PROVE Exists(ur.role)
    <2>1. PICK t \in Seeded : ur.role = SeedId[t]
      BY <1>4 DEF Init
    <2> QED
      BY <1>2, <2>1
  <1> QED
    BY <1>1, <1>3, <1>4 DEF TableInv, GrantsHaveRole

\* A step that leaves the three tables alone.
LEMMA TableFrame ==
    ASSUME TableInv, UNCHANGED <<roles, rolePrivileges, userRoles>>
    PROVE  TableInv'
  BY DEF TableInv, AssignedOnce, GrantsHaveRole, Exists

\* Each write of a request keeps the constraints.
LEMMA TableAdvance ==
    ASSUME TableInv, NEW q \in active, Advance(q)
    PROVE  TableInv'
  <1>1. CASE CreateRole(q)
    BY <1>1 DEF CreateRole, TableInv, AssignedOnce, GrantsHaveRole, Exists
  <1>2. CASE AddPrivileges(q)
    <2>1. \A rp \in rolePrivileges' :
            rp \in rolePrivileges \/ (rp[1] = q.role /\ Exists(q.role))
      <3>1. CASE q.add = {} \/ ~Addable(q)
        BY <1>2, <3>1 DEF AddPrivileges, Added
      <3>2. CASE Exists(q.role)
        BY <1>2, <3>2 DEF AddPrivileges, Added
      <3> QED
        BY <3>1, <3>2 DEF Addable
    <2> QED
      BY <1>2, <2>1 DEF AddPrivileges, TableInv, AssignedOnce, GrantsHaveRole, Exists
  <1>3. CASE RemovePrivileges(q)
    BY <1>3 DEF RemovePrivileges, TableInv, AssignedOnce, GrantsHaveRole, Exists
  <1>4. CASE StashRole(q)
    <2>1. \A r \in roles : \E s \in roles' : s.id = r.id
      <3>1. ASSUME NEW r \in roles PROVE \E s \in roles' : s.id = r.id
        <4>1. CASE r.id # q.role
          BY <1>4, <4>1 DEF StashRole, Stashed
        <4>2. CASE r.id = q.role
          <5>1. [r EXCEPT !.stashed = TRUE] \in roles'
            BY <1>4, <4>2 DEF StashRole, Stashed
          <5>2. [r EXCEPT !.stashed = TRUE].id = r.id
            OBVIOUS
          <5> QED
            BY <5>1, <5>2
        <4> QED
          BY <4>1, <4>2
      <3> QED
        BY <3>1
    <2> QED
      BY <1>4, <2>1 DEF StashRole, TableInv, AssignedOnce, GrantsHaveRole, Exists
  <1>5. CASE DestroyRole(q)
    BY <1>5 DEF DestroyRole, DestroyRoles, TableInv, AssignedOnce, GrantsHaveRole, Exists
  <1>6. CASE Assign(q)
    <2>1. userRoles' = userRoles \/
            (Assignable(q) /\ userRoles' = userRoles \cup {AssignedRow(q)})
      BY <1>6 DEF Assign
    <2>2. AssignedRow(q).user = q.user /\ AssignedRow(q).role = q.role
      BY DEF AssignedRow
    <2> QED
      BY <1>6, <2>1, <2>2 DEF Assign, Assignable, Assigned, TableInv, AssignedOnce,
         GrantsHaveRole, Exists
  <1>7. CASE UnAssign(q)
    BY <1>7 DEF UnAssign, TableInv, AssignedOnce, GrantsHaveRole, Exists
  <1>8. CASE FindAssignment(q) \/ FindAdminRole(q) \/ FindRoles(q) \/ FindPrivileges(q)
    BY <1>8, TableFrame DEF FindAssignment, FindAdminRole, FindRoles, FindPrivileges, tables
  <1> QED
    BY <1>1, <1>2, <1>3, <1>4, <1>5, <1>6, <1>7, <1>8 DEF Advance

\* A workspace takes its roles and assignments with it, and they what is theirs.
LEMMA TableDestroyWorkspace ==
    ASSUME TableInv, NEW w \in workspaces, DestroyWorkspace(w)
    PROVE  TableInv'
  <1> DEFINE ids == {r.id : r \in {x \in roles : x.workspace = w}}
  <1>1. /\ roles' = {r \in roles : r.id \notin ids}
        /\ rolePrivileges' = {rp \in rolePrivileges : rp[1] \notin ids}
        /\ userRoles' = {ur \in userRoles : ur.role \notin ids /\ ur.workspace # w}
    BY DEF DestroyWorkspace
  <1> HIDE DEF ids
  <1> QED
    BY <1>1 DEF TableInv, AssignedOnce, GrantsHaveRole, Exists

\* Every step keeps the constraints.
LEMMA TableStep == TableInv /\ [Next]_vars => TableInv'
  <1> SUFFICES ASSUME TableInv, [Next]_vars PROVE TableInv'
    OBVIOUS
  <1>1. CASE Begin
    BY <1>1, StartFrame, TableFrame
  <1>2. ASSUME NEW q \in active, Abort(q) PROVE TableInv'
    BY <1>2, TableFrame DEF Abort, tables
  <1>3. ASSUME NEW o \in owners, ToggleOwner(o) PROVE TableInv'
    BY <1>3, TableFrame DEF ToggleOwner
  <1>4. CASE UNCHANGED vars
    BY <1>4, TableFrame DEF vars
  <1> QED
    BY <1>1, <1>2, <1>3, <1>4, TableAdvance, TableDestroyWorkspace DEF Next

\* However many assignments of a role to a user overlap, the user has it once.
THEOREM RolesAreAssignedOnce == Spec => []AssignedOnce
  <1>1. TableInv => AssignedOnce
    BY DEF TableInv
  <1> QED
    BY <1>1, TableInit, TableStep, PTL DEF Spec

\* RoleGuard never sees a privilege or an assignment of a role that is gone, in
\* spite of updates and assignments that found the role before.
THEOREM GrantsAlwaysHaveRole == Spec => []GrantsHaveRole
  <1>1. TableInv => GrantsHaveRole
    BY DEF TableInv
  <1> QED
    BY <1>1, TableInit, TableStep, PTL DEF Spec

\* Both: the assignments RoleGuard and unAssignRole work on.
THEOREM AssignmentsAlwaysHold == Spec => []AssignmentsHold
  <1>1. AssignedOnce /\ GrantsHaveRole => AssignmentsHold
    BY DEF AssignmentsHold
  <1> QED
    BY <1>1, RolesAreAssignedOnce, GrantsAlwaysHaveRole, PTL

-----------------------------------------------------------------------------
(* Types                                                                   *)

GuardPhases == {"findAdminRole", "findRoles", "findPrivileges"}

\* What the types of the tables rest on in the requests in flight.
Sound(q) ==
    /\ q.id \in 1..serial
    /\ q.phase = "create" => q.role \in 1..serial
    /\ q.phase \in GuardPhases => q.op = "canActivate"

TypeInv == TypeOK /\ \A q \in active : Sound(q)

Guards == {q.id : q \in {p \in active : p.op = "canActivate"}}

\* What Watch records has its type, and is recorded of every guard under way.
LEMMA WatchType ==
    ASSUME watched \in [Guards -> Course], Watch
    PROVE  watched' \in [Guards' -> Course]
  <1> DEFINE guards == {q \in active' : q.op = "canActivate"}
             writes(id) == IF id \in DOMAIN watched THEN watched[id].writes ELSE 0
             entitled(id) == id \in DOMAIN watched /\ watched[id].entitled
             now == {q.id : q \in {g \in guards : Entitled(g)'}}
             course(id) ==
               [entitled |-> entitled(id) \/ id \in now,
                writes |-> IF tables' = tables \/ writes(id) = 2 THEN writes(id)
                           ELSE writes(id) + 1]
  <1>1. watched' = [id \in {q.id : q \in guards} |-> course(id)]
    BY DEF Watch
  <1>2. \A id : writes(id) \in 0..2
    BY DEF Course
  <1>3. \A id : entitled(id) \in BOOLEAN
    BY DEF Course
  <1>4. \A id : course(id) \in Course
    <2> HIDE DEF writes, entitled, now
    <2> TAKE id
    <2>1. (entitled(id) \/ id \in now) \in BOOLEAN
      BY Zenon
    <2>2. (IF tables' = tables \/ writes(id) = 2 THEN writes(id)
           ELSE writes(id) + 1) \in 0..2
      BY <1>2
    <2> QED
      BY <2>1, <2>2 DEF Course
  <1>5. Guards' = {q.id : q \in guards}
    BY DEF Guards
  <1> HIDE DEF course, guards
  <1> QED
    BY <1>1, <1>4, <1>5

\* Every table and request has its type at the start.
LEMMA TypeInit == Init => TypeInv
  <1> SUFFICES ASSUME Init PROVE TypeInv
    OBVIOUS
  <1>1. \A t \in Seeded : SeedId[t] \in Int /\ t \in RoleTypes
    BY RolesAssumption DEF SeedId, RoleTypes
  <1>2. owners \subseteq Owner
    <2>1. PICK owner \in [Workspaces -> Users] :
            owners = {[user |-> owner[w], workspace |-> w, stashed |-> FALSE] :
                          w \in Workspaces}
      BY DEF Init
    <2>2. ASSUME NEW o \in owners PROVE o \in Owner
      <3>1. PICK w \in Workspaces :
              o = [user |-> owner[w], workspace |-> w, stashed |-> FALSE]
        BY <2>1, <2>2
      <3>2. owner[w] \in Users
        OBVIOUS
      <3> QED
        BY <3>1, <3>2 DEF Owner
    <2> QED
      BY <2>2
  <1>3. roles \subseteq Role
    <2>1. ASSUME NEW r \in roles PROVE r \in Role
      <3>1. PICK t \in Seeded :
              r = [id |-> SeedId[t], type |-> t, workspace |-> NoWorkspace,
                   stashed |-> FALSE]
        BY <2>1 DEF Init
      <3> QED
        BY <1>1, <3>1 DEF Role
    <2> QED
      BY <2>1
  <1>4. rolePrivileges \subseteq Int \X Privileges
    <2>1. \A t \in Seeded : SeedPrivileges(t) \subseteq Privileges
      BY RolesAssumption DEF SeedPrivileges
    <2>2. ASSUME NEW rp \in rolePrivileges PROVE rp \in Int \X Privileges
      <3>1. PICK t \in Seeded : rp \in {SeedId[t]} \X SeedPrivileges(t)
        BY <2>2 DEF Init
      <3> QED
        BY <1>1, <2>1, <3>1
    <2> QED
      BY <2>2
  <1>5. userRoles \subseteq UserRole
    <2>1. ASSUME NEW ur \in userRoles PROVE ur \in UserRole
      <3>1. PICK u \in Users, t \in Seeded \cap {"USER"} :
              ur = [id |-> 0, user |-> u, role |-> SeedId[t], workspace |-> NoWorkspace]
        BY <2>1 DEF Init
      <3>2. SeedId[t] \in Int
        BY <1>1
      <3> QED
        BY <3>1, <3>2 DEF UserRole
    <2> QED
      BY <2>1
  <1>6. watched \in [Guards -> Course]
    BY DEF Init, Guards
  <1>7. workspaces \subseteq Workspaces /\ active \subseteq Request /\ serial \in Nat
        /\ asked = {} /\ removed = {} /\ cut = {} /\ passed = {}
        /\ \A q \in active : Sound(q)
    BY DEF Init
  <1> QED
    BY <1>2, <1>3, <1>4, <1>5, <1>6, <1>7 DEF TypeInv, TypeOK, Guards

\* A request that starts is well typed and sound.
LEMMA TypeStart ==
    ASSUME TypeInv, NEW new \in Request, Start(new),
           new.id = serial + 1,
           new.phase = "create" => new.role = serial + 1,
           new.phase \in GuardPhases => new.op = "canActivate"
    PROVE  TypeInv'
  <1>1. serial \in Nat /\ serial' = serial + 1 /\ active' = active \cup {new}
        /\ UNCHANGED <<workspaces, owners, roles, rolePrivileges, userRoles, asked,
                       removed, cut, passed>>
    BY DEF Start, TypeInv, TypeOK, tables
  <1>2. 1..serial \subseteq 1..serial' /\ serial + 1 \in 1..serial'
    BY <1>1
  <1>3. \A q \in active' : Sound(q)'
    BY <1>1, <1>2 DEF TypeInv, Sound
  <1>4. watched' \in [Guards' -> Course]
    BY WatchType DEF Start, TypeInv, TypeOK, Guards
  <1>5. UserRole \subseteq UserRole'
    BY <1>2 DEF UserRole
  <1>6. asked' \subseteq [role: 1..serial', privileges: SUBSET Privileges]
    BY <1>1, <1>2 DEF TypeInv, TypeOK
  <1> QED
    BY <1>1, <1>2, <1>3, <1>4, <1>5, <1>6 DEF TypeInv, TypeOK, Guards, Owner, Role, Request,
       RoleTypes

\* Each request that starts is one of those.
LEMMA TypeBegin == TypeInv /\ Begin => TypeInv'
  <1> SUFFICES ASSUME TypeInv, Begin PROVE TypeInv'
    OBVIOUS
  <1> DEFINE Ops == {"createRole", "updateRole", "deleteRole", "assignRole",
                     "unAssignRole", "canActivate"}
             Phases == {"create", "addPrivileges", "stash", "destroy",
                        "findAssignment", "unassign", "findAdminRole", "findRoles"}
  <1>1. serial \in Nat /\ serial + 1 \in Nat /\ serial + 1 \in Int
    BY DEF TypeInv, TypeOK
  <1>2. \A op \in Ops, phase \in Phases :
          /\ Blank(op, phase) \in Request
          /\ Blank(op, phase).id = serial + 1
          /\ Blank(op, phase).op = op
          /\ Blank(op, phase).phase = phase
    <2>1. (CHOOSE u \in Users : TRUE) \in Users
          /\ (CHOOSE w \in Workspaces : TRUE) \in Workspaces
      BY RolesAssumption
    <2> QED
      BY <1>1, <2>1 DEF Blank, Request
  <1>3. /\ \A r \in roles : r.id \in Int
        /\ \A ur \in userRoles : ur.user \in Users /\ ur.role \in Int /\ ur.id \in Nat
        /\ workspaces \subseteq Workspaces
    BY <1>1 DEF TypeInv, TypeOK, Role, UserRole
  <1>4. ASSUME NEW super \in BOOLEAN, NEW w \in workspaces, NEW add \in SUBSET Privileges,
               BeginCreateRole(super, w, add)
        PROVE  TypeInv'
    <2> DEFINE b == Blank("createRole", "create")
               new == [b EXCEPT !.super = super, !.workspace = w,
                                !.role = serial + 1, !.add = add]
    <2>1. b \in Request /\ b.id = serial + 1 /\ b.op = "createRole"
          /\ b.phase = "create"
      BY <1>2
    <2> HIDE DEF b
    <2>2. new \in Request /\ new.id = serial + 1 /\ new.phase = b.phase
          /\ new.op = b.op /\ new.role = serial + 1
      BY <1>1, <1>3, <2>1 DEF Request
    <2>3. Start(new)
      BY <1>4 DEF BeginCreateRole, b
    <2> HIDE DEF new
    <2> QED
      BY <2>1, <2>2, <2>3, TypeStart DEF GuardPhases
  <1>5. ASSUME NEW super \in BOOLEAN, NEW r \in roles, NEW add \in SUBSET Privileges,
               NEW remove \in SUBSET Privileges, BeginUpdateRole(super, r, add, remove)
        PROVE  TypeInv'
    <2> DEFINE b == Blank("updateRole", "addPrivileges")
               new == [b EXCEPT !.super = super, !.role = r.id, !.add = add,
                                !.remove = remove]
    <2>1. b \in Request /\ b.id = serial + 1 /\ b.op = "updateRole"
          /\ b.phase = "addPrivileges"
      BY <1>2
    <2> HIDE DEF b
    <2>2. new \in Request /\ new.id = serial + 1 /\ new.phase = b.phase
          /\ new.op = b.op
      BY <1>1, <1>3, <2>1 DEF Request
    <2>3. Start(new)
      BY <1>5 DEF BeginUpdateRole, b
    <2> HIDE DEF new
    <2> QED
      BY <2>1, <2>2, <2>3, TypeStart DEF GuardPhases
  <1>6. ASSUME NEW super \in BOOLEAN, NEW fromStash \in BOOLEAN, NEW r \in roles,
               BeginDeleteRole(super, r, fromStash)
        PROVE  TypeInv'
    <2> DEFINE b == Blank("deleteRole", IF fromStash THEN "destroy" ELSE "stash")
               new == [b EXCEPT !.super = super, !.role = r.id]
    <2>1. b \in Request /\ b.id = serial + 1 /\ b.op = "deleteRole"
          /\ b.phase \in {"destroy", "stash"}
      BY <1>2
    <2> HIDE DEF b
    <2>2. new \in Request /\ new.id = serial + 1 /\ new.phase = b.phase
          /\ new.op = b.op
      BY <1>1, <1>3, <2>1 DEF Request
    <2>3. Start(new)
      BY <1>6 DEF BeginDeleteRole, b
    <2> HIDE DEF new
    <2> QED
      BY <2>1, <2>2, <2>3, TypeStart DEF GuardPhases
  <1>7. ASSUME NEW u \in Users, NEW w \in workspaces, NEW r \in roles,
               BeginAssignRole(u, w, r)
        PROVE  TypeInv'
    <2> DEFINE b == Blank("assignRole", "findAssignment")
               new == [b EXCEPT !.user = u, !.workspace = w, !.role = r.id]
    <2>1. b \in Request /\ b.id = serial + 1 /\ b.op = "assignRole"
          /\ b.phase = "findAssignment"
      BY <1>2
    <2> HIDE DEF b
    <2>2. new \in Request /\ new.id = serial + 1 /\ new.phase = b.phase
          /\ new.op = b.op
      BY <1>1, <1>3, <2>1 DEF Request
    <2>3. Start(new)
      BY <1>7 DEF BeginAssignRole, b
    <2> HIDE DEF new
    <2> QED
      BY <2>1, <2>2, <2>3, TypeStart DEF GuardPhases
  <1>8. ASSUME NEW w \in workspaces, NEW row \in userRoles, BeginUnAssignRole(w, row)
        PROVE  TypeInv'
    <2> DEFINE b == Blank("unAssignRole", "unassign")
               new == [b EXCEPT !.user = row.user, !.workspace = w, !.role = row.role,
                                !.row = row.id]
    <2>1. b \in Request /\ b.id = serial + 1 /\ b.op = "unAssignRole"
          /\ b.phase = "unassign"
      BY <1>2
    <2> HIDE DEF b
    <2>2. new \in Request /\ new.id = serial + 1 /\ new.phase = b.phase
          /\ new.op = b.op
      BY <1>1, <1>3, <2>1 DEF Request
    <2>3. Start(new)
      BY <1>8 DEF BeginUnAssignRole, b
    <2> HIDE DEF new
    <2> QED
      BY <2>1, <2>2, <2>3, TypeStart DEF GuardPhases
  <1>9. ASSUME NEW u \in Users, NEW w \in workspaces, NEW p \in Privileges,
               BeginCanActivate(u, w, p)
        PROVE  TypeInv'
    <2> DEFINE b == Blank("canActivate", AfterMembership(u, w))
               new == [b EXCEPT !.user = u, !.workspace = w, !.add = {p}]
    <2>1. b \in Request /\ b.id = serial + 1 /\ b.op = "canActivate"
          /\ b.phase \in {"findAdminRole", "findRoles"}
      BY <1>2 DEF AfterMembership
    <2> HIDE DEF b
    <2>2. new \in Request /\ new.id = serial + 1 /\ new.phase = b.phase
          /\ new.op = b.op
      BY <1>1, <1>3, <2>1 DEF Request
    <2>3. Start(new)
      BY <1>9 DEF BeginCanActivate, b
    <2> HIDE DEF new
    <2> QED
      BY <2>1, <2>2, <2>3, TypeStart DEF GuardPhases
  <1> QED
    BY <1>4, <1>5, <1>6, <1>7, <1>8, <1>9 DEF Begin

\* A request that goes on, or leaves, keeps the requests typed and sound.
LEMMA TypeActive ==
    ASSUME TypeInv, NEW q \in active, serial' = serial, Watch,
           \/ Leave(q)
           \/ \E m \in Request :
                /\ active' = (active \ {q}) \cup {m}
                /\ m.id = q.id
                /\ m.phase # "create"
                /\ m.phase \in GuardPhases => m.op = "canActivate"
    PROVE  /\ active' \subseteq Request
           /\ \A p \in active' : Sound(p)'
           /\ watched' \in [Guards' -> Course]
  <1>1. active \subseteq Request /\ \A p \in active : Sound(p)
        /\ watched \in [Guards -> Course]
    BY DEF TypeInv, TypeOK, Guards
  <1>2. watched' \in [Guards' -> Course]
    BY <1>1, WatchType
  <1>3. CASE Leave(q)
    BY <1>1, <1>2, <1>3 DEF Leave, Sound
  <1>4. ASSUME NEW m \in Request,
               active' = (active \ {q}) \cup {m},
               m.id = q.id,
               m.phase # "create",
               m.phase \in GuardPhases => m.op = "canActivate"
        PROVE  active' \subseteq Request /\ \A p \in active' : Sound(p)'
    BY <1>1, <1>4 DEF Sound
  <1> QED
    BY <1>2, <1>3, <1>4

\* The same for a request that moves on to a phase of its own operation.
LEMMA TypeMoveTo ==
    ASSUME TypeInv, NEW q \in active, serial' = serial, Watch,
           NEW phase \in {"addPrivileges", "removePrivileges", "assign"},
           MoveTo(q, phase) \/ Leave(q)
    PROVE  /\ active' \subseteq Request
           /\ \A p \in active' : Sound(p)'
           /\ watched' \in [Guards' -> Course]
  <1>1. q \in Request
    BY DEF TypeInv, TypeOK
  <1> DEFINE m == [q EXCEPT !.phase = phase]
  <1>2. m \in Request /\ m.id = q.id /\ m.phase = phase
    BY <1>1 DEF Request
  <1>3. MoveTo(q, phase) => active' = (active \ {q}) \cup {m}
    BY DEF MoveTo
  <1> HIDE DEF m
  <1> QED
    BY <1>2, <1>3, TypeActive DEF GuardPhases

\* The same for a RoleGuard that goes on to its next query.
LEMMA TypeMoveGuard ==
    ASSUME TypeInv, NEW q \in active, serial' = serial, Watch,
           q.phase \in GuardPhases,
           NEW phase \in {"findRoles", "findPrivileges"},
           NEW ids \in SUBSET Int,
           active' = (active \ {q}) \cup {[q EXCEPT !.roleIds = ids, !.phase = phase]}
    PROVE  /\ active' \subseteq Request
           /\ \A p \in active' : Sound(p)'
           /\ watched' \in [Guards' -> Course]
  <1>1. q \in Request /\ q.op = "canActivate"
    BY DEF TypeInv, TypeOK, Sound
  <1> DEFINE m == [q EXCEPT !.roleIds = ids, !.phase = phase]
  <1>2. m \in Request /\ m.id = q.id /\ m.phase = phase /\ m.op = q.op
    BY <1>1 DEF Request
  <1>3. active' = (active \ {q}) \cup {m} /\ m.phase # "create"
    BY <1>2
  <1> HIDE DEF m
  <1> QED
    BY <1>1, <1>2, <1>3, TypeActive

\* The steps of a request keep the types.
LEMMA TypeAdvance ==
    ASSUME TypeInv, NEW q \in active, Advance(q)
    PROVE  TypeInv'
  <1> DEFINE Active == /\ active' \subseteq Request
                       /\ \A p \in active' : Sound(p)'
                       /\ watched' \in [Guards' -> Course]
  <1>0. /\ serial \in Nat /\ q \in Request /\ Sound(q)
        /\ workspaces \subseteq Workspaces /\ owners \subseteq Owner
        /\ roles \subseteq Role /\ rolePrivileges \subseteq Int \X Privileges
        /\ userRoles \subseteq UserRole
        /\ asked \subseteq [role: 1..serial, privileges: SUBSET Privileges]
        /\ removed \subseteq Int \X Privileges
        /\ cut \subseteq 1..serial /\ passed \subseteq Course
        /\ watched \in [Guards -> Course]
    BY DEF TypeInv, TypeOK, Guards
  <1>1. {q.role} \X q.add \subseteq Int \X Privileges
        /\ {q.role} \X q.remove \subseteq Int \X Privileges
    BY <1>0 DEF Request
  <1> SUFFICES /\ Active /\ serial' = serial
               /\ workspaces' \subseteq Workspaces /\ owners' \subseteq Owner
               /\ roles' \subseteq Role /\ rolePrivileges' \subseteq Int \X Privileges
               /\ userRoles' \subseteq UserRole
               /\ asked' \subseteq [role: 1..serial, privileges: SUBSET Privileges]
               /\ removed' \subseteq Int \X Privileges
               /\ cut' \subseteq 1..serial /\ passed' \subseteq Course
    BY <1>0 DEF TypeInv, TypeOK, Guards, UserRole
  <1>2. CASE CreateRole(q)
    <2>1. Active
      BY <1>2, TypeMoveTo DEF CreateRole
    <2>2. NewRole(q) \in Role
      BY <1>0 DEF NewRole, Role, Request, RoleTypes
    <2>3. [role |-> q.role, privileges |-> q.add] \in
            [role: 1..serial, privileges: SUBSET Privileges]
      BY <1>0, <1>2 DEF CreateRole, Sound, Request
    <2> HIDE DEF Active
    <2> QED
      BY <1>0, <1>2, <2>1, <2>2, <2>3 DEF CreateRole
  <1>3. CASE AddPrivileges(q)
    <2>1. Active
      BY <1>3, TypeMoveTo DEF AddPrivileges
    <2>2. q.id \in 1..serial
      BY <1>0 DEF Sound
    <2> HIDE DEF Active
    <2> QED
      BY <1>0, <1>1, <1>3, <2>1, <2>2 DEF AddPrivileges, Added
  <1>4. CASE RemovePrivileges(q)
    <2>1. Active
      BY <1>4, TypeActive DEF RemovePrivileges
    <2> HIDE DEF Active
    <2> QED
      BY <1>0, <1>1, <1>4, <2>1 DEF RemovePrivileges
  <1>5. CASE StashRole(q)
    <2>1. Active
      BY <1>5, TypeActive DEF StashRole
    <2>2. \A r \in roles : [r EXCEPT !.stashed = TRUE] \in Role
      BY <1>0 DEF Role
    <2>3. Stashed(q) \subseteq Role
      BY <1>0, <2>2 DEF Stashed
    <2> HIDE DEF Active
    <2> QED
      BY <1>0, <1>5, <2>1, <2>3 DEF StashRole
  <1>6. CASE DestroyRole(q)
    <2>1. Active
      BY <1>6, TypeActive DEF DestroyRole
    <2> HIDE DEF Active
    <2> QED
      BY <1>0, <1>6, <2>1 DEF DestroyRole, DestroyRoles
  <1>7. CASE FindAssignment(q)
    <2>1. Active
      BY <1>7, TypeMoveTo DEF FindAssignment
    <2> HIDE DEF Active
    <2> QED
      BY <1>0, <1>7, <2>1 DEF FindAssignment, tables
  <1>8. CASE Assign(q)
    <2>1. Active
      BY <1>8, TypeActive DEF Assign
    <2>2. AssignedRow(q) \in UserRole
      BY <1>0 DEF AssignedRow, UserRole, Request, Sound
    <2> HIDE DEF Active
    <2> QED
      BY <1>0, <1>8, <2>1, <2>2 DEF Assign
  <1>9. CASE UnAssign(q)
    <2>1. Active
      BY <1>9, TypeActive DEF UnAssign
    <2> HIDE DEF Active
    <2> QED
      BY <1>0, <1>9, <2>1 DEF UnAssign
  <1>10. CASE FindAdminRole(q)
    <2>1. PICK ids \in IF RoleIds("ADMIN") = {} THEN {{}}
                       ELSE {{id} : id \in RoleIds("ADMIN")} :
            active' = (active \ {q}) \cup
              {[q EXCEPT !.roleIds = ids, !.phase = "findRoles"]}
      BY <1>10 DEF FindAdminRole
    <2>2. RoleIds("ADMIN") \subseteq Int
      BY <1>0 DEF RoleIds, Role
    <2>3. ids \in SUBSET Int
      BY <2>2
    <2>4. serial' = serial /\ Watch /\ q.phase \in GuardPhases
      BY <1>10 DEF FindAdminRole, GuardPhases
    <2>5. Active
      BY <2>1, <2>3, <2>4, TypeMoveGuard
    <2> HIDE DEF Active
    <2> QED
      BY <1>0, <1>10, <2>5 DEF FindAdminRole, tables
  <1>11. CASE FindRoles(q)
    <2> DEFINE ids == {ur.role : ur \in {x \in userRoles : x.user = q.user}}
               all == q.roleIds \cup ids
    <2>1. all \in SUBSET Int
      BY <1>0 DEF UserRole, Request
    <2>2. active' = (active \ {q}) \cup
            {[q EXCEPT !.roleIds = all, !.phase = "findPrivileges"]}
      BY <1>11 DEF FindRoles
    <2>3. serial' = serial /\ Watch /\ q.phase \in GuardPhases
      BY <1>11 DEF FindRoles, GuardPhases
    <2> HIDE DEF all
    <2>4. Active
      BY <2>1, <2>2, <2>3, TypeMoveGuard
    <2> HIDE DEF Active
    <2> QED
      BY <1>0, <1>11, <2>4 DEF FindRoles, tables
  <1>12. CASE FindPrivileges(q)
    <2>1. Active
      BY <1>12, TypeActive DEF FindPrivileges
    <2>2. q.id \in Guards
      BY <1>0, <1>12 DEF FindPrivileges, Sound, Guards, GuardPhases
    <2>3. watched[q.id] \in Course
      BY <1>0, <2>2
    <2> HIDE DEF Active
    <2> QED
      BY <1>0, <1>12, <2>1, <2>3 DEF FindPrivileges, tables
  <1> QED
    BY <1>2, <1>3, <1>4, <1>5, <1>6, <1>7, <1>8, <1>9, <1>10, <1>11, <1>12 DEF Advance

\* So do the steps of the surroundings.
LEMMA TypeSurroundings ==
    ASSUME TypeInv,
           \/ \E q \in active : Abort(q)
           \/ \E w \in workspaces : DestroyWorkspace(w)
           \/ \E o \in owners : ToggleOwner(o)
    PROVE  TypeInv'
  <1>0. watched' \in [Guards' -> Course]
    BY WatchType DEF Abort, DestroyWorkspace, ToggleOwner, TypeInv, TypeOK, Guards
  <1>1. serial' = serial /\ UserRole' = UserRole /\ \A q : Sound(q)' <=> Sound(q)
    BY DEF Abort, DestroyWorkspace, ToggleOwner, Sound, UserRole
  <1>2. ASSUME NEW q \in active, Abort(q) PROVE TypeInv'
    <2>1. q.id \in 1..serial
      BY DEF TypeInv, Sound
    <2> QED
      BY <1>0, <1>1, <1>2, <2>1 DEF Abort, Leave, tables, TypeInv, TypeOK, Guards
  <1>3. ASSUME NEW w \in workspaces, DestroyWorkspace(w) PROVE TypeInv'
    BY <1>0, <1>1, <1>3 DEF DestroyWorkspace, TypeInv, TypeOK, Guards
  <1>4. ASSUME NEW o \in owners, ToggleOwner(o) PROVE TypeInv'
    <2>1. [o EXCEPT !.stashed = ~o.stashed] \in Owner
      BY DEF TypeInv, TypeOK, Owner
    <2> QED
      BY <1>0, <1>1, <1>4, <2>1 DEF ToggleOwner, TypeInv, TypeOK, Guards
  <1> QED
    BY <1>2, <1>3, <1>4

\* Every step keeps the types.
LEMMA TypeStep == TypeInv /\ [Next]_vars => TypeInv'
  <1> SUFFICES ASSUME TypeInv, [Next]_vars PROVE TypeInv'
    OBVIOUS
  <1>1. CASE UNCHANGED vars
    BY <1>1 DEF vars, TypeInv, TypeOK, Sound, UserRole
  <1> QED
    BY <1>1, TypeBegin, TypeAdvance, TypeSurroundings DEF Next

\* Every row, request and observation has its type, for any constants: each
\* assignment made by assignRole has its workspace and names its request, and
\* every RoleGuard under way is watched.
THEOREM TypeCorrect == Spec => []TypeOK
  <1>1. TypeInv => TypeOK
    BY DEF TypeInv
  <1> QED
    BY <1>1, TypeInit, TypeStep, PTL DEF Spec

-----------------------------------------------------------------------------
(* Roles and the requests that name them                                   *)

\* A role has the name of one request, and is there only after that request's
\* create.  Whoever is about to destroy a role found it in the stash.
NameInv ==
    /\ \A r \in roles : r.id <= serial
    /\ \A r, s \in roles : r.id = s.id => r = s
    /\ \A p, q \in active : p.id = q.id => p = q
    /\ \A q \in active : q.phase = "create" => q.role = q.id /\ ~Exists(q.role)
    /\ \A p \in active : p.phase = "destroy" =>
         /\ p.role <= serial
         /\ \A r \in roles : r.id = p.role => r.stashed
         /\ \A q \in active : q.phase = "create" => q.role # p.role

\* The seeded roles have names of their own.
LEMMA NameInit == Init => NameInv
  <1> SUFFICES ASSUME Init PROVE NameInv
    OBVIOUS
  <1>1. ASSUME NEW r \in roles
        PROVE  \E t \in Seeded : r = [id |-> SeedId[t], type |-> t,
                                      workspace |-> NoWorkspace, stashed |-> FALSE]
    BY <1>1 DEF Init
  <1>2. \A t \in Seeded : SeedId[t] <= 0
    BY RolesAssumption DEF SeedId
  <1>3. \A t, v \in Seeded : SeedId[t] = SeedId[v] => t = v
    BY RolesAssumption DEF SeedId
  <1>4. ASSUME NEW r \in roles, NEW s \in roles, r.id = s.id PROVE r = s
    <2>1. PICK t \in Seeded : r = [id |-> SeedId[t], type |-> t,
                                   workspace |-> NoWorkspace, stashed |-> FALSE]
      BY <1>1
    <2>2. PICK v \in Seeded : s = [id |-> SeedId[v], type |-> v,
                                   workspace |-> NoWorkspace, stashed |-> FALSE]
      BY <1>1
    <2>3. t = v
      BY <1>3, <1>4, <2>1, <2>2
    <2> QED
      BY <2>1, <2>2, <2>3
  <1>5. serial = 0 /\ active = {}
    BY DEF Init
  <1>6. \A r \in roles : r.id <= serial
    BY <1>1, <1>2, <1>5
  <1> QED
    BY <1>4, <1>5, <1>6 DEF NameInv

\* A request that starts has a new name, and finds the role that it is about to
\* destroy in the stash.
LEMMA NameStart ==
    ASSUME TypeInv, NameInv, NEW new, Start(new),
           new.id = serial + 1,
           new.phase = "create" => new.role = serial + 1,
           new.phase = "destroy" =>
             \E r \in roles : new.role = r.id /\ r.stashed
    PROVE  NameInv'
  <1>1. serial \in Nat /\ serial' = serial + 1 /\ active' = active \cup {new}
        /\ roles' = roles
    BY DEF Start, TypeInv, TypeOK, tables
  <1>2. /\ \A q \in active : q.id \in 1..serial /\ q.role \in Int
        /\ \A r \in roles : r.id \in Int
    BY DEF TypeInv, TypeOK, Sound, Request, Role
  <1>3. \A r \in roles : r.id <= serial /\ r.id <= serial' /\ r.id # serial + 1
    BY <1>1, <1>2 DEF NameInv
  <1>4. \A p, q \in active' : p.id = q.id => p = q
    BY <1>1, <1>2 DEF NameInv
  <1>5. \A q \in active' : q.phase = "create" => q.role = q.id /\ ~Exists(q.role)'
    BY <1>1, <1>3 DEF NameInv, Exists
  <1>6. ASSUME NEW p \in active', p.phase = "destroy"
        PROVE  /\ p.role <= serial /\ p.role \in Int
               /\ \A r \in roles : r.id = p.role => r.stashed
               /\ \A q \in active : q.phase = "create" => q.role # p.role
    <2>1. CASE p \in active
      BY <1>2, <1>6, <2>1 DEF NameInv
    <2>2. CASE p = new
      <3>1. PICK r \in roles : p.role = r.id /\ r.stashed
        BY <1>6, <2>2
      <3> QED
        BY <1>2, <1>3, <3>1 DEF NameInv, Exists
    <2> QED
      BY <1>1, <2>1, <2>2
  <1>7. ASSUME NEW p \in active', p.phase = "destroy"
        PROVE  /\ p.role <= serial'
               /\ \A q \in active' : q.phase = "create" => q.role # p.role
    BY <1>1, <1>6, <1>7
  <1>8. \A r, s \in roles' : r.id = s.id => r = s
    BY <1>1 DEF NameInv
  <1> QED
    BY <1>1, <1>3, <1>4, <1>5, <1>6, <1>7, <1>8 DEF NameInv

\* Each request that starts is one of those.
LEMMA NameBegin ==
    ASSUME TypeInv, NameInv, Begin
    PROVE  NameInv'
  <1>1. ASSUME NEW super \in BOOLEAN, NEW w \in workspaces, NEW add \in SUBSET Privileges,
               BeginCreateRole(super, w, add)
        PROVE  NameInv'
    BY <1>1, NameStart DEF BeginCreateRole, Blank
  <1>2. ASSUME NEW super \in BOOLEAN, NEW r \in roles, NEW add \in SUBSET Privileges,
               NEW remove \in SUBSET Privileges, BeginUpdateRole(super, r, add, remove)
        PROVE  NameInv'
    BY <1>2, NameStart DEF BeginUpdateRole, Blank
  <1>3. ASSUME NEW super \in BOOLEAN, NEW fromStash \in BOOLEAN, NEW r \in roles,
               BeginDeleteRole(super, r, fromStash)
        PROVE  NameInv'
    <2> DEFINE new == [Blank("deleteRole", IF fromStash THEN "destroy" ELSE "stash")
                         EXCEPT !.super = super, !.role = r.id]
    <2>1. new.id = serial + 1 /\ new.role = r.id /\ new.phase # "create"
          /\ (new.phase = "destroy" => fromStash)
      BY DEF Blank
    <2>2. Start(new) /\ r.stashed = fromStash
      BY <1>3 DEF BeginDeleteRole, FoundIn
    <2> HIDE DEF new
    <2> QED
      BY <2>1, <2>2, NameStart
  <1>4. ASSUME NEW u \in Users, NEW w \in workspaces, NEW r \in roles,
               BeginAssignRole(u, w, r)
        PROVE  NameInv'
    BY <1>4, NameStart DEF BeginAssignRole, Blank
  <1>5. ASSUME NEW w \in workspaces, NEW row \in userRoles, BeginUnAssignRole(w, row)
        PROVE  NameInv'
    BY <1>5, NameStart DEF BeginUnAssignRole, Blank
  <1>6. ASSUME NEW u \in Users, NEW w \in workspaces, NEW p \in Privileges,
               BeginCanActivate(u, w, p)
        PROVE  NameInv'
    BY <1>6, NameStart DEF BeginCanActivate, Blank, AfterMembership
  <1> QED
    BY <1>1, <1>2, <1>3, <1>4, <1>5, <1>6 DEF Begin

\* A request that goes on is at neither write, or has left.
Going(q) ==
    \/ Leave(q)
    \/ \E m : /\ active' = (active \ {q}) \cup {m}
              /\ m.id = q.id
              /\ m.phase \notin {"create", "destroy"}

\* The requests at one of the two writes after such a step were there before.
LEMMA NameGoing ==
    ASSUME NameInv, NEW q \in active, Going(q)
    PROVE  /\ \A p, x \in active' : p.id = x.id => p = x
           /\ \A p \in active' : p.phase \in {"create", "destroy"} => p \in active \ {q}
  <1>1. CASE Leave(q)
    BY <1>1 DEF Leave, NameInv
  <1>2. ASSUME NEW m, active' = (active \ {q}) \cup {m}, m.id = q.id,
               m.phase \notin {"create", "destroy"}
        PROVE  /\ \A p, x \in active' : p.id = x.id => p = x
               /\ \A p \in active' :
                    p.phase \in {"create", "destroy"} => p \in active \ {q}
    BY <1>2 DEF NameInv
  <1> QED
    BY <1>1, <1>2 DEF Going

\* Such a step keeps the names if each role after it is one from before, stashed
\* if it was; roles may go.
LEMMA NameKept ==
    ASSUME NameInv, NEW q \in active, Going(q), serial' = serial,
           \A s \in roles' : \E r \in roles : r.id = s.id /\ (r.stashed => s.stashed),
           \A r, s \in roles' : r.id = s.id => r = s
    PROVE  NameInv'
  <1>1. /\ \A p, x \in active' : p.id = x.id => p = x
        /\ \A p \in active' : p.phase \in {"create", "destroy"} => p \in active
    BY NameGoing
  <1>2. \A s \in roles' : s.id <= serial'
    BY DEF NameInv
  <1>3. ASSUME NEW p \in active', p.phase = "create"
        PROVE  p.role = p.id /\ ~Exists(p.role)'
    BY <1>1, <1>3 DEF NameInv, Exists
  <1>4. ASSUME NEW p \in active', p.phase = "destroy"
        PROVE  /\ p.role <= serial'
               /\ \A s \in roles' : s.id = p.role => s.stashed
               /\ \A x \in active' : x.phase = "create" => x.role # p.role
    BY <1>1, <1>4 DEF NameInv
  <1> QED
    BY <1>1, <1>2, <1>3, <1>4 DEF NameInv

\* createRole's role is new to every request that would create or destroy one.
LEMMA NameCreate ==
    ASSUME TypeInv, NameInv, NEW q \in active, CreateRole(q)
    PROVE  NameInv'
  <1>1. Going(q) /\ serial' = serial /\ q.phase = "create"
        /\ (roles' = roles \/ roles' = roles \cup {NewRole(q)})
    <2>1. MoveTo(q, "addPrivileges") =>
            active' = (active \ {q}) \cup {[q EXCEPT !.phase = "addPrivileges"]}
      BY DEF MoveTo
    <2>2. [q EXCEPT !.phase = "addPrivileges"].id = q.id
          /\ [q EXCEPT !.phase = "addPrivileges"].phase \notin {"create", "destroy"}
      BY DEF TypeInv, TypeOK, Request
    <2> QED
      BY <2>1, <2>2 DEF CreateRole, Going
  <1>2. CASE roles' = roles
    BY <1>1, <1>2, NameKept DEF NameInv
  <1>3. CASE roles' = roles \cup {NewRole(q)}
    <2>1. NewRole(q).id = q.id /\ q.role = q.id /\ ~Exists(q.role) /\ q.id <= serial'
      BY <1>1 DEF NewRole, NameInv, TypeInv, Sound
    <2>2. /\ \A p, x \in active' : p.id = x.id => p = x
          /\ \A p \in active' :
               p.phase \in {"create", "destroy"} => p \in active \ {q}
      BY <1>1, NameGoing
    <2>3. \A r, s \in roles' : r.id = s.id => r = s
      BY <1>3, <2>1 DEF NameInv, Exists
    <2>4. \A r \in roles' : r.id <= serial'
      BY <1>1, <1>3, <2>1 DEF NameInv
    <2>5. ASSUME NEW p \in active', p.phase = "create"
          PROVE  p.role = p.id /\ ~Exists(p.role)'
      BY <1>3, <2>1, <2>2, <2>5 DEF NameInv, Exists
    <2>6. ASSUME NEW p \in active', p.phase = "destroy"
          PROVE  /\ p.role <= serial'
                 /\ \A s \in roles' : s.id = p.role => s.stashed
                 /\ \A x \in active' : x.phase = "create" => x.role # p.role
      BY <1>1, <1>3, <2>1, <2>2, <2>6 DEF NameInv
    <2> QED
      BY <2>2, <2>3, <2>4, <2>5, <2>6 DEF NameInv
  <1> QED
    BY <1>1, <1>2, <1>3

\* Putting a role into the stash changes no name.
LEMMA NameStash ==
    ASSUME TypeInv, NameInv, NEW q \in active, StashRole(q)
    PROVE  NameInv'
  <1>1. ASSUME NEW s \in roles'
        PROVE  \E r \in roles : /\ r.id = s.id
                                /\ r.stashed => s.stashed
                                /\ s = IF r.id = q.role THEN [r EXCEPT !.stashed = TRUE]
                                       ELSE r
    <2>1. PICK r \in roles : s = IF r.id = q.role THEN [r EXCEPT !.stashed = TRUE] ELSE r
      BY <1>1 DEF StashRole, Stashed
    <2>2. s.id = r.id /\ (r.stashed => s.stashed)
      BY <2>1 DEF TypeInv, TypeOK, Role
    <2> QED
      BY <2>1, <2>2
  <1>2. \A r, s \in roles' : r.id = s.id => r = s
    <2> SUFFICES ASSUME NEW r \in roles', NEW s \in roles', r.id = s.id PROVE r = s
      OBVIOUS
    <2>1. PICK a \in roles : a.id = r.id /\ r = IF a.id = q.role
                                                THEN [a EXCEPT !.stashed = TRUE] ELSE a
      BY <1>1
    <2>2. PICK b \in roles : b.id = s.id /\ s = IF b.id = q.role
                                                THEN [b EXCEPT !.stashed = TRUE] ELSE b
      BY <1>1
    <2>3. a = b
      BY <2>1, <2>2 DEF NameInv
    <2> QED
      BY <2>1, <2>2, <2>3
  <1>3. Going(q) /\ serial' = serial
    BY DEF StashRole, Going
  <1> QED
    BY <1>1, <1>2, <1>3, NameKept

\* The other steps of a request add no role.
LEMMA NameAdvance ==
    ASSUME TypeInv, NameInv, NEW q \in active, Advance(q)
    PROVE  NameInv'
  <1>1. CASE CreateRole(q) \/ StashRole(q)
    BY <1>1, NameCreate, NameStash
  <1>2. ASSUME roles' \subseteq roles, Going(q), serial' = serial PROVE NameInv'
    BY <1>2, NameKept DEF NameInv
  <1>3. q \in Request
    BY DEF TypeInv, TypeOK
  <1>4. ASSUME NEW phase, phase \notin {"create", "destroy"}, MoveTo(q, phase) PROVE Going(q)
    <2> DEFINE m == [q EXCEPT !.phase = phase]
    <2>1. active' = (active \ {q}) \cup {m}
      BY <1>4 DEF MoveTo
    <2>2. m.id = q.id /\ m.phase = phase
      BY <1>3 DEF Request
    <2> QED
      BY <1>4, <2>1, <2>2 DEF Going
  <1>5. ASSUME NEW ids, NEW phase, phase \notin {"create", "destroy"},
               active' = (active \ {q}) \cup {[q EXCEPT !.roleIds = ids, !.phase = phase]}
        PROVE  Going(q)
    <2> DEFINE m == [q EXCEPT !.roleIds = ids, !.phase = phase]
    <2>1. m.id = q.id /\ m.phase = phase
      BY <1>3 DEF Request
    <2> QED
      BY <1>5, <2>1 DEF Going
  <1>6. CASE AddPrivileges(q)
    BY <1>2, <1>4, <1>6 DEF AddPrivileges, Going
  <1>7. CASE RemovePrivileges(q)
    BY <1>2, <1>7 DEF RemovePrivileges, Going
  <1>8. CASE DestroyRole(q)
    BY <1>2, <1>8 DEF DestroyRole, DestroyRoles, Going
  <1>9. CASE FindAssignment(q)
    BY <1>2, <1>4, <1>9 DEF FindAssignment, Going, tables
  <1>10. CASE Assign(q) \/ UnAssign(q)
    BY <1>2, <1>10 DEF Assign, UnAssign, Going
  <1>11. CASE FindAdminRole(q)
    <2>1. PICK ids : active' = (active \ {q}) \cup
                       {[q EXCEPT !.roleIds = ids, !.phase = "findRoles"]}
      BY <1>11 DEF FindAdminRole
    <2>2. Going(q)
      BY <1>5, <2>1
    <2>3. roles' = roles /\ serial' = serial
      BY <1>11 DEF FindAdminRole, tables
    <2> QED
      BY <1>2, <2>2, <2>3
  <1>12. CASE FindRoles(q)
    <2>1. PICK ids : active' = (active \ {q}) \cup
                       {[q EXCEPT !.roleIds = ids, !.phase = "findPrivileges"]}
      BY <1>12 DEF FindRoles
    <2>2. Going(q)
      BY <1>5, <2>1
    <2>3. roles' = roles /\ serial' = serial
      BY <1>12 DEF FindRoles, tables
    <2> QED
      BY <1>2, <2>2, <2>3
  <1>13. CASE FindPrivileges(q)
    BY <1>2, <1>13 DEF FindPrivileges, Going, tables
  <1> QED
    BY <1>1, <1>6, <1>7, <1>8, <1>9, <1>10, <1>11, <1>12, <1>13 DEF Advance

\* Every step keeps the names.
LEMMA NameStep == TypeInv /\ NameInv /\ [Next]_vars => NameInv'
  <1> SUFFICES ASSUME TypeInv, NameInv, [Next]_vars PROVE NameInv'
    OBVIOUS
  <1>1. ASSUME NEW q \in active, Abort(q) PROVE NameInv'
    BY <1>1, NameKept DEF Abort, Going, tables, NameInv
  <1>2. ASSUME NEW w \in workspaces, DestroyWorkspace(w) PROVE NameInv'
    BY <1>2 DEF DestroyWorkspace, NameInv, Exists
  <1>3. ASSUME NEW o \in owners, ToggleOwner(o) PROVE NameInv'
    BY <1>3 DEF ToggleOwner, NameInv, Exists
  <1>4. CASE UNCHANGED vars
    BY <1>4 DEF vars, NameInv, Exists
  <1> QED
    BY <1>1, <1>2, <1>3, <1>4, NameBegin, NameAdvance DEF Next

\* The names make a step keep the promise: only role.delete and the end of a
\* workspace take a role away.
LEMMA DestroyedFromStash ==
    ASSUME TypeInv, NameInv, [Next]_vars, NEW r \in roles, ~Exists(r.id)'
    PROVE  r.stashed \/ r.workspace \in workspaces \ workspaces'
  <1>1. r \notin roles'
    BY DEF Exists
  <1>2. roles' # roles
    BY <1>1
  <1>3. CASE Begin
    BY <1>2, <1>3, StartFrame
  <1>4. ASSUME NEW q \in active, Advance(q) PROVE r.stashed
    <2>1. CASE StashRole(q)
      <3> DEFINE s == IF r.id = q.role THEN [r EXCEPT !.stashed = TRUE] ELSE r
      <3>1. s \in roles'
        BY <2>1 DEF StashRole, Stashed
      <3>2. s.id = r.id
        BY DEF TypeInv, TypeOK, Role
      <3> QED
        BY <3>1, <3>2 DEF Exists
    <2>2. CASE DestroyRole(q)
      BY <1>1, <2>2 DEF DestroyRole, DestroyRoles, NameInv
    <2> QED
      BY <1>1, <1>4, <2>1, <2>2
      DEF Advance, CreateRole, AddPrivileges, RemovePrivileges, FindAssignment, Assign,
          UnAssign, FindAdminRole, FindRoles, FindPrivileges, tables
  <1>5. ASSUME NEW w \in workspaces, DestroyWorkspace(w)
        PROVE  r.workspace \in workspaces \ workspaces'
    <2>1. PICK x \in roles : x.workspace = w /\ x.id = r.id
      BY <1>1, <1>5 DEF DestroyWorkspace
    <2>2. x = r
      BY <2>1 DEF NameInv
    <2> QED
      BY <1>5, <2>1, <2>2 DEF DestroyWorkspace
  <1>6. ASSUME NEW q \in active, Abort(q) PROVE FALSE
    BY <1>2, <1>6 DEF Abort, tables
  <1>7. ASSUME NEW o \in owners, ToggleOwner(o) PROVE FALSE
    BY <1>2, <1>7 DEF ToggleOwner
  <1>8. CASE UNCHANGED vars
    BY <1>2, <1>8 DEF vars
  <1> QED
    BY <1>3, <1>4, <1>5, <1>6, <1>7, <1>8 DEF Next

\* Whatever overlaps, a role goes only from the stash or with its workspace: no
\* deleteRole destroys a role that is not stashed at that moment, although
\* role.delete looks at the id alone.
THEOREM RolesAreDestroyedFromStash == Spec => RoleDestroyedFromStash
  <1>1. TypeInv /\ NameInv /\ [Next]_vars =>
          [\A r \in roles :
             ~Exists(r.id)' => r.stashed \/ r.workspace \in workspaces \ workspaces']_vars
    BY DestroyedFromStash
  <1> QED
    BY <1>1, TypeInit, TypeStep, NameInit, NameStep, PTL DEF Spec, RoleDestroyedFromStash

-----------------------------------------------------------------------------
(* Requests in flight, from their start to their end                       *)

\* What a request that starts is about, and has found.
Starts(new) ==
    /\ new.id = serial + 1
    /\ \/ new.op = "createRole" /\ new.phase = "create" /\ new.role = serial + 1
       \/ /\ \/ new.op = "updateRole" /\ new.phase = "addPrivileges"
             \/ new.op = "deleteRole" /\ new.phase \in {"stash", "destroy"}
          /\ \E r \in roles : new.role = r.id /\ (r.type # "CUSTOM" => new.super)
       \/ new.op = "assignRole" /\ new.phase = "findAssignment"
       \/ new.op = "unAssignRole" /\ new.phase = "unassign"
       \/ /\ new.op = "canActivate"
          /\ new.phase = AfterMembership(new.user, new.workspace)
          /\ new.roleIds = {}

\* Every request that starts is one of those.
LEMMA Starting == Begin => \E new : Start(new) /\ Starts(new)
  <1> SUFFICES ASSUME Begin PROVE \E new : Start(new) /\ Starts(new)
    OBVIOUS
  <1>1. ASSUME NEW super \in BOOLEAN, NEW w \in workspaces, NEW add \in SUBSET Privileges,
               BeginCreateRole(super, w, add)
        PROVE  \E new : Start(new) /\ Starts(new)
    <2> DEFINE new == [Blank("createRole", "create") EXCEPT
                          !.super = super, !.workspace = w, !.role = serial + 1, !.add = add]
    <2>1. Start(new)
      BY <1>1 DEF BeginCreateRole
    <2>2. Starts(new)
      BY DEF Starts, Blank
    <2> QED
      BY <2>1, <2>2
  <1>2. ASSUME NEW super \in BOOLEAN, NEW r \in roles, NEW add \in SUBSET Privileges,
               NEW remove \in SUBSET Privileges, BeginUpdateRole(super, r, add, remove)
        PROVE  \E new : Start(new) /\ Starts(new)
    <2> DEFINE new == [Blank("updateRole", "addPrivileges") EXCEPT
                          !.super = super, !.role = r.id, !.add = add, !.remove = remove]
    <2>1. Start(new) /\ (r.type # "CUSTOM" => super)
      BY <1>2 DEF BeginUpdateRole, MayModify
    <2>2. /\ new.id = serial + 1 /\ new.op = "updateRole" /\ new.phase = "addPrivileges"
          /\ new.role = r.id /\ new.super = super
      BY DEF Blank
    <2> HIDE DEF new
    <2> QED
      BY <2>1, <2>2 DEF Starts
  <1>3. ASSUME NEW super \in BOOLEAN, NEW fromStash \in BOOLEAN, NEW r \in roles,
               BeginDeleteRole(super, r, fromStash)
        PROVE  \E new : Start(new) /\ Starts(new)
    <2> DEFINE new == [Blank("deleteRole", IF fromStash THEN "destroy" ELSE "stash") EXCEPT
                          !.super = super, !.role = r.id]
    <2>1. Start(new) /\ (r.type # "CUSTOM" => super)
      BY <1>3 DEF BeginDeleteRole, MayDelete
    <2>2. /\ new.id = serial + 1 /\ new.op = "deleteRole" /\ new.phase \in {"stash", "destroy"}
          /\ new.role = r.id /\ new.super = super
      BY DEF Blank
    <2> HIDE DEF new
    <2> QED
      BY <2>1, <2>2 DEF Starts
  <1>4. ASSUME NEW u \in Users, NEW w \in workspaces, NEW r \in roles, BeginAssignRole(u, w, r)
        PROVE  \E new : Start(new) /\ Starts(new)
    <2> DEFINE new == [Blank("assignRole", "findAssignment") EXCEPT
                          !.user = u, !.workspace = w, !.role = r.id]
    <2>1. Start(new)
      BY <1>4 DEF BeginAssignRole
    <2>2. new.id = serial + 1 /\ new.op = "assignRole" /\ new.phase = "findAssignment"
      BY DEF Blank
    <2> HIDE DEF new
    <2> QED
      BY <2>1, <2>2 DEF Starts
  <1>5. ASSUME NEW w \in workspaces, NEW row \in userRoles, BeginUnAssignRole(w, row)
        PROVE  \E new : Start(new) /\ Starts(new)
    <2> DEFINE new == [Blank("unAssignRole", "unassign") EXCEPT
                          !.user = row.user, !.workspace = w, !.role = row.role,
                          !.row = row.id]
    <2>1. Start(new)
      BY <1>5 DEF BeginUnAssignRole
    <2>2. new.id = serial + 1 /\ new.op = "unAssignRole" /\ new.phase = "unassign"
      BY DEF Blank
    <2> HIDE DEF new
    <2> QED
      BY <2>1, <2>2 DEF Starts
  <1>6. ASSUME NEW u \in Users, NEW w \in workspaces, NEW p \in Privileges,
               BeginCanActivate(u, w, p)
        PROVE  \E new : Start(new) /\ Starts(new)
    <2> DEFINE new == [Blank("canActivate", AfterMembership(u, w)) EXCEPT
                          !.user = u, !.workspace = w, !.add = {p}]
    <2>1. Start(new)
      BY <1>6 DEF BeginCanActivate
    <2>2. /\ new.id = serial + 1 /\ new.op = "canActivate" /\ new.roleIds = {}
          /\ new.phase = AfterMembership(u, w) /\ new.user = u /\ new.workspace = w
      BY DEF Blank
    <2> HIDE DEF new
    <2> QED
      BY <2>1, <2>2 DEF Starts
  <1> QED
    BY <1>1, <1>2, <1>3, <1>4, <1>5, <1>6 DEF Begin

\* p is q at its next awaited call.
Onward(q, p) ==
    /\ p.id = q.id /\ p.op = q.op /\ p.role = q.role /\ p.add = q.add
    /\ p.super = q.super /\ p.user = q.user /\ p.workspace = q.workspace
    /\ \/ q.phase = "create" /\ p.phase = "addPrivileges"
       \/ q.phase = "addPrivileges" /\ p.phase = "removePrivileges" /\ q.op = "updateRole"
       \/ q.phase = "findAssignment" /\ p.phase = "assign"
       \/ q.phase = "findAdminRole" /\ p.phase = "findRoles" /\ UNCHANGED tables
          /\ p.roleIds \subseteq RoleIds("ADMIN")
       \/ q.phase = "findRoles" /\ p.phase = "findPrivileges" /\ UNCHANGED tables
          /\ p.roleIds = q.roleIds \cup {ur.role : ur \in {x \in userRoles : x.user = q.user}}

\* The requests after a step of one are the others, and perhaps that one at its
\* next call.
LEMMA GoesOnward ==
    ASSUME TypeInv, NEW q \in active, Advance(q)
    PROVE  /\ active \ {q} \subseteq active'
           /\ \A p \in active' : (p \in active /\ p # q) \/ Onward(q, p)
  <1>1. q \in Request
    BY DEF TypeInv, TypeOK
  <1>2. ASSUME Leave(q)
        PROVE  /\ active \ {q} \subseteq active'
               /\ \A p \in active' : (p \in active /\ p # q) \/ Onward(q, p)
    BY <1>2 DEF Leave
  <1>3. ASSUME NEW m, active' = (active \ {q}) \cup {m}, Onward(q, m)
        PROVE  /\ active \ {q} \subseteq active'
               /\ \A p \in active' : (p \in active /\ p # q) \/ Onward(q, p)
    BY <1>3
  <1>4. ASSUME NEW phase, MoveTo(q, phase),
               \/ q.phase = "create" /\ phase = "addPrivileges"
               \/ q.phase = "addPrivileges" /\ phase = "removePrivileges" /\ q.op = "updateRole"
               \/ q.phase = "findAssignment" /\ phase = "assign"
        PROVE  /\ active \ {q} \subseteq active'
               /\ \A p \in active' : (p \in active /\ p # q) \/ Onward(q, p)
    <2> DEFINE m == [q EXCEPT !.phase = phase]
    <2>1. active' = (active \ {q}) \cup {m}
      BY <1>4 DEF MoveTo
    <2>2. /\ m.id = q.id /\ m.op = q.op /\ m.role = q.role /\ m.add = q.add
          /\ m.super = q.super /\ m.user = q.user /\ m.workspace = q.workspace
          /\ m.phase = phase
      BY <1>1 DEF Request
    <2> HIDE DEF m
    <2>3. Onward(q, m)
      BY <1>4, <2>2 DEF Onward
    <2> QED
      BY <1>3, <2>1, <2>3
  <1>5. CASE FindAdminRole(q)
    <2>1. PICK ids \in IF RoleIds("ADMIN") = {} THEN {{}}
                       ELSE {{id} : id \in RoleIds("ADMIN")} :
            active' = (active \ {q}) \cup
              {[q EXCEPT !.roleIds = ids, !.phase = "findRoles"]}
      BY <1>5 DEF FindAdminRole
    <2> DEFINE m == [q EXCEPT !.roleIds = ids, !.phase = "findRoles"]
    <2>2. /\ m.id = q.id /\ m.op = q.op /\ m.role = q.role /\ m.add = q.add
          /\ m.super = q.super /\ m.user = q.user /\ m.workspace = q.workspace
          /\ m.phase = "findRoles" /\ m.roleIds = ids
      BY <1>1 DEF Request
    <2>3. active' = (active \ {q}) \cup {m}
      BY <2>1
    <2>4. ids \subseteq RoleIds("ADMIN")
      OBVIOUS
    <2>5. q.phase = "findAdminRole" /\ UNCHANGED tables
      BY <1>5 DEF FindAdminRole
    <2> HIDE DEF m
    <2>6. Onward(q, m)
      BY <2>2, <2>4, <2>5 DEF Onward
    <2> QED
      BY <1>3, <2>3, <2>6
  <1>6. CASE FindRoles(q)
    <2> DEFINE ids == q.roleIds \cup {ur.role : ur \in {x \in userRoles : x.user = q.user}}
               m == [q EXCEPT !.roleIds = ids, !.phase = "findPrivileges"]
    <2>1. /\ q.phase = "findRoles" /\ UNCHANGED tables
          /\ active' = (active \ {q}) \cup {m}
      BY <1>6 DEF FindRoles
    <2> HIDE DEF ids
    <2>2. /\ m.id = q.id /\ m.op = q.op /\ m.role = q.role /\ m.add = q.add
          /\ m.super = q.super /\ m.user = q.user /\ m.workspace = q.workspace
          /\ m.phase = "findPrivileges" /\ m.roleIds = ids
      BY <1>1 DEF Request
    <2> HIDE DEF m
    <2>3. Onward(q, m)
      BY <2>1, <2>2 DEF Onward, ids
    <2> QED
      BY <1>3, <2>1, <2>3
  <1>7. CASE CreateRole(q)
    BY <1>2, <1>4, <1>7 DEF CreateRole
  <1>8. CASE AddPrivileges(q)
    BY <1>2, <1>4, <1>8 DEF AddPrivileges
  <1>9. CASE FindAssignment(q)
    BY <1>2, <1>4, <1>9 DEF FindAssignment
  <1>10. CASE RemovePrivileges(q) \/ StashRole(q) \/ DestroyRole(q) \/ Assign(q) \/ UnAssign(q)
              \/ FindPrivileges(q)
    BY <1>2, <1>10 DEF RemovePrivileges, StashRole, DestroyRole, Assign, UnAssign, FindPrivileges
  <1> QED
    BY <1>5, <1>6, <1>7, <1>8, <1>9, <1>10 DEF Advance

-----------------------------------------------------------------------------
(* Roles and the privileges they were created with                         *)

\* A creation under way is for the role it is named after, and nobody has asked
\* for that role otherwise.
CreationInv ==
    /\ serial <= MaxRequests
    /\ \A q \in active : q.phase = "create" => q.op = "createRole"
    /\ \A q \in active : q.op = "createRole" =>
         /\ q.phase \in {"create", "addPrivileges"}
         /\ q.role = q.id
         /\ \A a \in asked : a.role = q.id => q.phase # "create" /\ a.privileges = q.add

\* A role that was created has its privileges, or lost them to an update, or is
\* gone, or its creation has still to add them or was cut short.
Provided(a) ==
    \/ {a.role} \X a.privileges \subseteq rolePrivileges \cup removed
    \/ ~Exists(a.role)
    \/ a.role \in cut
    \/ \E q \in active : q.op = "createRole" /\ q.id = a.role

AskedInv ==
    /\ \A r \in roles : r.id > 0 => \E a \in asked : a.role = r.id
    /\ \A a \in asked : Provided(a)

\* Nothing has been created at the start.
LEMMA CreationInit == Init => CreationInv /\ AskedInv
  <1> SUFFICES ASSUME Init PROVE CreationInv /\ AskedInv
    OBVIOUS
  <1>1. ASSUME NEW r \in roles PROVE ~(r.id > 0)
    <2>1. PICK t \in Seeded : r.id = SeedId[t]
      BY <1>1 DEF Init
    <2> QED
      BY <2>1, RolesAssumption DEF SeedId
  <1> QED
    BY <1>1, RolesAssumption DEF Init, CreationInv, AskedInv

\* A request that starts asks for nothing yet.
LEMMA CreationStart ==
    ASSUME TypeInv, CreationInv, AskedInv, NEW new, Start(new), Starts(new)
    PROVE  CreationInv' /\ AskedInv'
  <1>1. /\ serial \in Nat /\ serial' = serial + 1 /\ serial < MaxRequests
        /\ active' = active \cup {new}
        /\ UNCHANGED <<roles, rolePrivileges, asked, removed, cut>>
    BY DEF Start, TypeInv, TypeOK, tables
  <1>2. \A a \in asked : a.role # serial + 1
    BY <1>1 DEF TypeInv, TypeOK
  <1>3. /\ new.id = serial + 1
        /\ new.phase = "create" => new.op = "createRole"
        /\ new.op = "createRole" => new.phase = "create" /\ new.role = new.id
    BY DEF Starts, AfterMembership
  <1>4. CreationInv'
    BY <1>1, <1>2, <1>3, RolesAssumption DEF CreationInv
  <1>5. \A a \in asked : Provided(a)'
    BY <1>1 DEF AskedInv, Provided, Exists
  <1> QED
    BY <1>1, <1>4, <1>5 DEF AskedInv

\* A request that goes on stays true to its creation; one that leaves without
\* adding the privileges, and no step of the others, takes anything from a role.
LEMMA CreationAdvance ==
    ASSUME TypeInv, NameInv, CreationInv, NEW q \in active, Advance(q)
    PROVE  CreationInv'
  <1>1. serial' = serial
    BY DEF Advance, CreateRole, AddPrivileges, RemovePrivileges, StashRole, DestroyRole,
       FindAssignment, Assign, UnAssign, FindAdminRole, FindRoles, FindPrivileges
  <1>2. \A a \in asked' : \/ a \in asked
                          \/ /\ q.phase = "create" /\ a.role = q.role
                             /\ a.privileges = q.add
    <2>1. CASE CreateRole(q)
      BY <2>1 DEF CreateRole
    <2>2. CASE asked' = asked
      BY <2>2
    <2> QED
      BY <2>1, <2>2 DEF Advance, AddPrivileges, RemovePrivileges, StashRole, DestroyRole,
         FindAssignment, Assign, UnAssign, FindAdminRole, FindRoles, FindPrivileges
  <1>3. \A p \in active' : (p \in active /\ p # q) \/ Onward(q, p)
    BY GoesOnward
  <1>4. ASSUME NEW p \in active' PROVE p.phase = "create" => p.op = "createRole"
    BY <1>3 DEF CreationInv, Onward
  <1>5. ASSUME NEW p \in active', p.op = "createRole"
        PROVE  /\ p.phase \in {"create", "addPrivileges"}
               /\ p.role = p.id
               /\ \A a \in asked' : a.role = p.id => p.phase # "create" /\ a.privileges = p.add
    <2>1. CASE p \in active /\ p # q
      <3>1. p.id # q.id
        BY <2>1 DEF NameInv
      <3> QED
        BY <1>2, <1>5, <2>1, <3>1 DEF CreationInv
    <2>2. CASE Onward(q, p)
      BY <1>2, <1>5, <2>2 DEF CreationInv, Onward
    <2> QED
      BY <1>3, <2>1, <2>2
  <1> QED
    BY <1>1, <1>4, <1>5 DEF CreationInv

\* The step of a request keeps the roles provided.
LEMMA AskedAdvance ==
    ASSUME TypeInv, NameInv, CreationInv, AskedInv, NEW q \in active, Advance(q)
    PROVE  AskedInv'
  <1>1. \A p \in active : p # q => p \in active'
    BY GoesOnward
  <1>2. \A p \in active : p.id = q.id => p = q
    BY DEF NameInv
  <1>3. CASE CreateRole(q)
    <2>1. /\ q.phase = "create"
          /\ UNCHANGED <<rolePrivileges, removed, cut>>
      BY <1>3 DEF CreateRole
    <2>2. q.op = "createRole" /\ q.role = q.id /\ (\A a \in asked : a.role # q.id)
      BY <2>1 DEF CreationInv
    <2>3. CASE Leave(q) /\ UNCHANGED <<roles, asked>>
      <3>1. \A a \in asked : Provided(a)'
        BY <1>1, <2>1, <2>2, <2>3 DEF AskedInv, Provided, Exists
      <3> QED
        BY <2>3, <3>1 DEF AskedInv
    <2>4. CASE /\ roles' = roles \cup {NewRole(q)}
               /\ asked' = asked \cup {[role |-> q.role, privileges |-> q.add]}
               /\ MoveTo(q, "addPrivileges")
      <3> DEFINE m == [q EXCEPT !.phase = "addPrivileges"]
      <3>1. m \in active' /\ m.op = "createRole" /\ m.id = q.id
        BY <2>2, <2>4 DEF MoveTo, TypeInv, TypeOK, Request
      <3> HIDE DEF m
      <3>2. NewRole(q).id = q.role
        BY DEF NewRole
      <3>3. \A a \in asked : Provided(a)'
        BY <1>1, <2>1, <2>2, <2>4, <3>2 DEF AskedInv, Provided, Exists
      <3>4. ASSUME NEW a \in asked', a \notin asked PROVE Provided(a)'
        BY <2>2, <2>4, <3>1, <3>4 DEF Provided
      <3>5. ASSUME NEW r \in roles', r.id > 0 PROVE \E a \in asked' : a.role = r.id
        BY <2>4, <3>2, <3>5 DEF AskedInv
      <3> QED
        BY <3>3, <3>4, <3>5 DEF AskedInv
    <2> QED
      BY <1>3, <2>3, <2>4 DEF CreateRole
  <1>4. CASE AddPrivileges(q)
    <2>1. /\ UNCHANGED <<roles, asked, removed>>
          /\ rolePrivileges \subseteq rolePrivileges' /\ cut \subseteq cut'
      BY <1>4 DEF AddPrivileges
    <2>2. \/ q.id \in cut'
          \/ {q.role} \X q.add \subseteq rolePrivileges'
      BY <1>4 DEF AddPrivileges, Added
    <2>3. ASSUME NEW a \in asked PROVE Provided(a)'
      <3>1. CASE q.op = "createRole" /\ q.id = a.role
        <4>1. q.role = a.role /\ q.add = a.privileges
          BY <3>1 DEF CreationInv
        <4> QED
          BY <2>2, <3>1, <4>1 DEF Provided
      <3>2. CASE ~(q.op = "createRole" /\ q.id = a.role)
        BY <1>1, <2>1, <3>2 DEF AskedInv, Provided, Exists
      <3> QED
        BY <3>1, <3>2
    <2> QED
      BY <2>1, <2>3 DEF AskedInv
  <1>5. ASSUME UNCHANGED <<asked, cut>>, q.phase \notin {"create", "addPrivileges"},
               \A r \in roles' : \E s \in roles : s.id = r.id,
               \A rp \in rolePrivileges : rp[1] \in Int =>
                  rp \in rolePrivileges' \cup removed' \/ ~Exists(rp[1])',
               removed \subseteq removed'
        PROVE  AskedInv'
    <2>1. q.op # "createRole"
      BY <1>5 DEF CreationInv
    <2>2. ASSUME NEW a \in asked PROVE Provided(a)'
      <3>1. CASE {a.role} \X a.privileges \subseteq rolePrivileges \cup removed
        <4>1. a.role \in Int
          BY DEF TypeInv, TypeOK
        <4>2. ASSUME NEW p \in a.privileges, Exists(a.role)'
              PROVE  <<a.role, p>> \in rolePrivileges' \cup removed'
          BY <1>5, <3>1, <4>1, <4>2
        <4> QED
          BY <4>2 DEF Provided
      <3>2. CASE ~Exists(a.role)
        BY <1>5, <3>2 DEF Provided, Exists
      <3>3. CASE a.role \in cut \/ \E p \in active : p.op = "createRole" /\ p.id = a.role
        BY <1>1, <1>5, <2>1, <3>3 DEF Provided
      <3> QED
        BY <3>1, <3>2, <3>3 DEF AskedInv, Provided
    <2>3. \A r \in roles' : r.id > 0 => \E a \in asked : a.role = r.id
      BY <1>5 DEF AskedInv
    <2> QED
      BY <1>5, <2>2, <2>3 DEF AskedInv
  <1>6. CASE RemovePrivileges(q)
    BY <1>5, <1>6 DEF RemovePrivileges
  <1>7. CASE StashRole(q)
    <2>1. \A r \in roles' : \E s \in roles : s.id = r.id
      BY <1>7 DEF StashRole, Stashed, TypeInv, TypeOK, Role
    <2> QED
      BY <1>5, <1>7, <2>1 DEF StashRole
  <1>8. CASE DestroyRole(q)
    <2>1. \A rp \in rolePrivileges : rp \in rolePrivileges' \/ ~Exists(rp[1])'
      BY <1>8 DEF DestroyRole, DestroyRoles, Exists
    <2> QED
      BY <1>5, <1>8, <2>1 DEF DestroyRole, DestroyRoles
  <1>9. CASE FindAssignment(q) \/ FindAdminRole(q) \/ FindRoles(q) \/ FindPrivileges(q)
    BY <1>5, <1>9 DEF FindAssignment, FindAdminRole, FindRoles, FindPrivileges, tables
  <1>10. CASE Assign(q) \/ UnAssign(q)
    BY <1>5, <1>10 DEF Assign, UnAssign
  <1> QED
    BY <1>3, <1>4, <1>6, <1>7, <1>8, <1>9, <1>10 DEF Advance

\* So do the steps of the surroundings.
LEMMA CreationSurroundings ==
    ASSUME TypeInv, CreationInv, AskedInv,
           \/ \E q \in active : Abort(q)
           \/ \E w \in workspaces : DestroyWorkspace(w)
           \/ \E o \in owners : ToggleOwner(o)
    PROVE  CreationInv' /\ AskedInv'
  <1>1. ASSUME NEW q \in active, Abort(q) PROVE CreationInv' /\ AskedInv'
    <2>1. /\ active' = active \ {q} /\ cut' = cut \cup {q.id}
          /\ UNCHANGED <<roles, rolePrivileges, serial, asked, removed>>
      BY <1>1 DEF Abort, Leave, tables
    <2>2. \A a \in asked : Provided(a)'
      BY <2>1 DEF AskedInv, Provided, Exists
    <2> QED
      BY <2>1, <2>2 DEF CreationInv, AskedInv
  <1>2. ASSUME NEW w \in workspaces, DestroyWorkspace(w) PROVE CreationInv' /\ AskedInv'
    <2> DEFINE ids == {r.id : r \in {x \in roles : x.workspace = w}}
    <2>1. /\ roles' = {r \in roles : r.id \notin ids}
          /\ rolePrivileges' = {rp \in rolePrivileges : rp[1] \notin ids}
          /\ UNCHANGED <<active, serial, asked, removed, cut>>
      BY <1>2 DEF DestroyWorkspace
    <2> HIDE DEF ids
    <2>2. ASSUME NEW a \in asked PROVE Provided(a)'
      <3>1. CASE a.role \in ids
        BY <2>1, <3>1 DEF Provided, Exists
      <3>2. CASE a.role \notin ids
        BY <2>1, <3>2 DEF AskedInv, Provided, Exists
      <3> QED
        BY <3>1, <3>2
    <2> QED
      BY <2>1, <2>2 DEF CreationInv, AskedInv
  <1>3. ASSUME NEW o \in owners, ToggleOwner(o) PROVE CreationInv' /\ AskedInv'
    BY <1>3 DEF ToggleOwner, CreationInv, AskedInv, Provided, Exists
  <1> QED
    BY <1>1, <1>2, <1>3

\* Every step keeps the creations and what they promise.
LEMMA CreationStep ==
    TypeInv /\ NameInv /\ CreationInv /\ AskedInv /\ [Next]_vars => CreationInv' /\ AskedInv'
  <1> SUFFICES ASSUME TypeInv, NameInv, CreationInv, AskedInv, [Next]_vars
               PROVE  CreationInv' /\ AskedInv'
    OBVIOUS
  <1>1. CASE UNCHANGED vars
    BY <1>1 DEF vars, CreationInv, AskedInv, Provided, Exists
  <1>2. CASE Begin
    BY <1>2, Starting, CreationStart
  <1> QED
    BY <1>1, <1>2, CreationAdvance, AskedAdvance, CreationSurroundings DEF Next

\* What a step of the roles may rely on.
RolesInv == TypeInv /\ NameInv /\ CreationInv /\ AskedInv

LEMMA RolesInvariant == Spec => []RolesInv
  BY TypeInit, TypeStep, NameInit, NameStep, CreationInit, CreationStep, PTL
  DEF Spec, RolesInv

\* createRole makes the role and its privileges in two writes.  Whatever comes
\* between them, a role that is there has the privileges asked for it, but for
\* those an update took away, unless its creation is under way or was cut short.
THEOREM RolesAreCreatedWhole == Spec => []CreatedWithPrivileges
  <1>1. RolesInv => CreatedWithPrivileges
    BY DEF RolesInv, AskedInv, Provided, CreatedWithPrivileges
  <1> QED
    BY <1>1, RolesInvariant, PTL

-----------------------------------------------------------------------------
(* Who may touch a global role                                             *)

Writing == {"addPrivileges", "removePrivileges", "stash", "destroy"}

\* Whoever is about to write to a global role is a super admin.  The role was
\* there when the request found it, so no creation is still to bring it.
SuperInv ==
    \A p \in active : p.phase \in Writing =>
        /\ p.role <= serial
        /\ \A q \in active : q.phase = "create" => q.role # p.role
        /\ \A r \in roles : r.id = p.role /\ r.type # "CUSTOM" => p.super

\* MayModify and MayDelete look at the type the role will always have.
LEMMA SuperStart ==
    ASSUME TypeInv, NameInv, SuperInv, NEW new, Start(new), Starts(new)
    PROVE  SuperInv'
  <1>1. /\ serial \in Nat /\ serial' = serial + 1
        /\ active' = active \cup {new} /\ roles' = roles
    BY DEF Start, TypeInv, TypeOK, tables
  <1>2. /\ new.phase = "create" => new.role = serial + 1
        /\ new.phase \in Writing =>
             \E r \in roles : new.role = r.id /\ (r.type # "CUSTOM" => new.super)
    BY DEF Starts, Writing, AfterMembership
  <1>3. \A p \in active : p.role \in Int
    BY DEF TypeInv, TypeOK, Request
  <1>4. ASSUME NEW p \in active', p.phase \in Writing
        PROVE  /\ p.role <= serial /\ p.role \in Int
               /\ \A q \in active : q.phase = "create" => q.role # p.role
               /\ \A r \in roles : r.id = p.role /\ r.type # "CUSTOM" => p.super
    <2>1. CASE p \in active
      BY <1>3, <1>4, <2>1 DEF SuperInv
    <2>2. CASE p = new
      <3>1. PICK r \in roles : p.role = r.id /\ (r.type # "CUSTOM" => p.super)
        BY <1>2, <1>4, <2>2
      <3>2. p.role <= serial /\ p.role \in Int
        BY <3>1 DEF NameInv, TypeInv, TypeOK, Role
      <3>3. \A q \in active : q.phase = "create" => q.role # p.role
        BY <3>1 DEF NameInv, Exists
      <3>4. \A s \in roles : s.id = p.role => s = r
        BY <3>1 DEF NameInv
      <3> QED
        BY <3>1, <3>2, <3>3, <3>4
    <2> QED
      BY <1>1, <2>1, <2>2
  <1>5. ASSUME NEW p \in active', p.phase \in Writing
        PROVE  /\ p.role <= serial'
               /\ \A q \in active' : q.phase = "create" => q.role # p.role
    BY <1>1, <1>2, <1>4, <1>5
  <1> QED
    BY <1>1, <1>4, <1>5 DEF SuperInv

\* What a request makes of a role keeps its id, type and workspace.
LEMMA RolesKeep ==
    ASSUME TypeInv, NEW q \in active, Advance(q)
    PROVE  \A s \in roles' :
             \/ \E r \in roles : r.id = s.id /\ r.type = s.type /\ r.workspace = s.workspace
             \/ CreateRole(q) /\ s = NewRole(q)
  <1> SUFFICES ASSUME NEW s \in roles', s \notin roles
               PROVE  \/ \E r \in roles :
                           r.id = s.id /\ r.type = s.type /\ r.workspace = s.workspace
                      \/ CreateRole(q) /\ s = NewRole(q)
    OBVIOUS
  <1>1. CASE CreateRole(q)
    BY <1>1 DEF CreateRole
  <1>2. CASE StashRole(q)
    <2>1. PICK r \in roles : s = IF r.id = q.role THEN [r EXCEPT !.stashed = TRUE] ELSE r
      BY <1>2 DEF StashRole, Stashed
    <2>2. r.id = s.id /\ r.type = s.type /\ r.workspace = s.workspace
      BY <2>1 DEF TypeInv, TypeOK, Role
    <2> QED
      BY <2>2
  <1>3. CASE DestroyRole(q)
    BY <1>3 DEF DestroyRole, DestroyRoles
  <1> QED
    BY <1>1, <1>2, <1>3 DEF Advance, AddPrivileges, RemovePrivileges, FindAssignment,
       Assign, UnAssign, FindAdminRole, FindRoles, FindPrivileges, tables

\* A request that goes on is after the same role, which may have been created by
\* it.
LEMMA SuperAdvance ==
    ASSUME RolesInv, SuperInv, NEW q \in active, Advance(q)
    PROVE  SuperInv'
  <1>1. serial' = serial
    BY DEF Advance, CreateRole, AddPrivileges, RemovePrivileges, StashRole, DestroyRole,
       FindAssignment, Assign, UnAssign, FindAdminRole, FindRoles, FindPrivileges
  <1>2. \A p \in active' : (p \in active /\ p # q) \/ Onward(q, p)
    BY GoesOnward DEF RolesInv
  <1>3. ASSUME NEW s \in roles'
        PROVE  \/ \E r \in roles : r.id = s.id /\ r.type = s.type
               \/ /\ q.phase = "create" /\ s.id = q.role
                  /\ s.type # "CUSTOM" => q.super
    <2>1. ASSUME CreateRole(q), s = NewRole(q)
          PROVE  /\ q.phase = "create" /\ s.id = q.role
                 /\ s.type # "CUSTOM" => q.super
      BY <2>1 DEF CreateRole, NewRole
    <2> QED
      BY <2>1, RolesKeep DEF RolesInv
  <1>4. ASSUME NEW p \in active', p.phase \in Writing
        PROVE  /\ p.role <= serial
               /\ \A x \in active' : x.phase = "create" => x.role # p.role
               /\ \A s \in roles' : s.id = p.role /\ s.type # "CUSTOM" => p.super
    <2>1. \A x \in active' : x.phase = "create" => x \in active /\ x # q
      BY <1>2 DEF Onward
    <2>2. CASE p \in active /\ p # q
      BY <1>3, <1>4, <2>1, <2>2 DEF SuperInv
    <2>3. CASE Onward(q, p) /\ q.phase = "create"
      <3>1. q.role = q.id /\ q.role <= serial /\ ~Exists(q.role)
            /\ \A x \in active : x.phase = "create" => x.role = x.id
        BY <2>3 DEF RolesInv, NameInv, TypeInv, Sound
      <3>2. \A x \in active : x # q => x.id # q.id
        BY DEF RolesInv, NameInv
      <3>3. p.role = q.role /\ p.super = q.super
        BY <2>3 DEF Onward
      <3> QED
        BY <1>3, <2>1, <3>1, <3>2, <3>3 DEF Exists
    <2>4. CASE Onward(q, p) /\ q.phase # "create"
      <3>1. q.phase \in Writing /\ p.role = q.role /\ p.super = q.super
        BY <1>4, <2>4 DEF Onward, Writing
      <3> QED
        BY <1>3, <2>1, <2>4, <3>1 DEF SuperInv
    <2> QED
      BY <1>2, <2>2, <2>3, <2>4
  <1> QED
    BY <1>1, <1>4 DEF SuperInv

\* Every step keeps it.
LEMMA SuperStep == RolesInv /\ SuperInv /\ [Next]_vars => SuperInv'
  <1> SUFFICES ASSUME RolesInv, SuperInv, [Next]_vars PROVE SuperInv'
    OBVIOUS
  <1>1. CASE Begin
    BY <1>1, Starting, SuperStart DEF RolesInv
  <1>2. ASSUME NEW q \in active, Abort(q) PROVE SuperInv'
    BY <1>2 DEF Abort, Leave, tables, SuperInv
  <1>3. ASSUME NEW w \in workspaces, DestroyWorkspace(w) PROVE SuperInv'
    BY <1>3 DEF DestroyWorkspace, SuperInv
  <1>4. ASSUME NEW o \in owners, ToggleOwner(o) PROVE SuperInv'
    BY <1>4 DEF ToggleOwner, SuperInv
  <1>5. CASE UNCHANGED vars
    BY <1>5 DEF vars, SuperInv
  <1> QED
    BY <1>1, <1>2, <1>3, <1>4, <1>5, SuperAdvance DEF Next

\* A step that changes a role or its privileges is a write of a request that
\* named it, or the end of its workspace.
LEMMA GlobalStep ==
    ASSUME RolesInv, SuperInv, [Next]_vars, NEW r \in roles, r.type # "CUSTOM",
           \/ r \notin roles'
           \/ {p \in Privileges : <<r.id, p>> \in rolePrivileges} #
              {p \in Privileges : <<r.id, p>> \in rolePrivileges'}
    PROVE  \/ \E q \in active : q.super /\ q.role = r.id
           \/ r.workspace \in workspaces \ workspaces'
  <1>1. ~ (UNCHANGED <<roles, rolePrivileges>>)
    OBVIOUS
  <1>2. CASE Begin
    BY <1>1, <1>2, StartFrame
  <1>3. ASSUME NEW q \in active, Advance(q) PROVE q.super /\ q.role = r.id
    <2>1. CASE CreateRole(q)
      BY <2>1 DEF CreateRole
    <2>2. CASE AddPrivileges(q)
      <3>1. q.role = r.id
        BY <2>2 DEF AddPrivileges, Added
      <3> QED
        BY <2>2, <3>1 DEF AddPrivileges, SuperInv, Writing
    <2>3. CASE RemovePrivileges(q)
      <3>1. q.role = r.id
        BY <2>3 DEF RemovePrivileges
      <3> QED
        BY <2>3, <3>1 DEF RemovePrivileges, SuperInv, Writing
    <2>4. CASE StashRole(q)
      <3>1. q.role = r.id
        BY <2>4 DEF StashRole, Stashed
      <3> QED
        BY <2>4, <3>1 DEF StashRole, SuperInv, Writing
    <2>5. CASE DestroyRole(q)
      <3>1. q.role = r.id
        BY <2>5 DEF DestroyRole, DestroyRoles
      <3> QED
        BY <2>5, <3>1 DEF DestroyRole, SuperInv, Writing
    <2> QED
      BY <1>1, <1>3, <2>1, <2>2, <2>3, <2>4, <2>5
      DEF Advance, FindAssignment, Assign, UnAssign, FindAdminRole, FindRoles,
          FindPrivileges, tables
  <1>4. ASSUME NEW w \in workspaces, DestroyWorkspace(w)
        PROVE  r.workspace \in workspaces \ workspaces'
    <2> DEFINE ids == {x.id : x \in {y \in roles : y.workspace = w}}
    <2>1. /\ roles' = {x \in roles : x.id \notin ids}
          /\ rolePrivileges' = {rp \in rolePrivileges : rp[1] \notin ids}
          /\ workspaces' = workspaces \ {w}
      BY <1>4 DEF DestroyWorkspace
    <2>2. \A i \in ids : \E x \in roles : x.workspace = w /\ x.id = i
      OBVIOUS
    <2> HIDE DEF ids
    <2>3. r.id \in ids
      BY <2>1
    <2>4. PICK x \in roles : x.workspace = w /\ x.id = r.id
      BY <2>2, <2>3
    <2>5. x = r
      BY <2>4 DEF RolesInv, NameInv
    <2> QED
      BY <2>1, <2>4, <2>5
  <1>5. ASSUME NEW q \in active, Abort(q) PROVE FALSE
    BY <1>1, <1>5 DEF Abort, tables
  <1>6. ASSUME NEW o \in owners, ToggleOwner(o) PROVE FALSE
    BY <1>1, <1>6 DEF ToggleOwner
  <1>7. CASE UNCHANGED vars
    BY <1>1, <1>7 DEF vars
  <1> QED
    BY <1>2, <1>3, <1>4, <1>5, <1>6, <1>7 DEF Next

\* A global role and its privileges change under a request of a super admin who
\* named it, however long ago the request looked at the role's type, or go with
\* the workspace.
THEOREM GlobalRolesNeedSuperAdmin == Spec => GlobalBySuperAdmin
  <1>1. Init => SuperInv
    BY DEF Init, SuperInv
  <1>2. RolesInv /\ SuperInv /\ [Next]_vars =>
          [\A r \in roles :
             LET grants == {p \in Privileges : <<r.id, p>> \in rolePrivileges} IN
             r.type # "CUSTOM" /\ (r \notin roles' \/ grants # {p \in Privileges :
                                            <<r.id, p>> \in rolePrivileges'})
             => \/ \E q \in active : q.super /\ q.role = r.id
                \/ r.workspace \in workspaces \ workspaces']_vars
    BY GlobalStep
  <1> QED
    BY <1>1, <1>2, SuperStep, RolesInvariant, PTL DEF Spec, GlobalBySuperAdmin

-----------------------------------------------------------------------------
(* The Role table implements module Stash                                  *)

\* RoleState at one row.
RoleAt(i) ==
    IF \E r \in roles : r.id = i /\ ~r.stashed THEN "active"
    ELSE IF Exists(i) THEN "stashed"
    ELSE IF \E a \in asked : a.role = i THEN "gone" ELSE "absent"

\* How a step changes the mapped state, row by row.
Turns(R, state) ==
    \A i \in 1..MaxRequests : RoleAt(i)' = IF i \in R THEN state ELSE RoleAt(i)

LEMMA RoleStates ==
    /\ RoleState = [i \in 1..MaxRequests |-> RoleAt(i)]
    /\ RoleState' = [i \in 1..MaxRequests |-> RoleAt(i)']
  BY DEF RoleState, RoleAt, Exists

LEMMA RolesTurn ==
    ASSUME NEW R, NEW state, R \subseteq 1..MaxRequests, Turns(R, state)
    PROVE  /\ R = {} => UNCHANGED RoleState
           /\ RoleRow!Change(R, state)
  <1>1. RoleState' = [i \in 1..MaxRequests |-> IF i \in R THEN state ELSE RoleState[i]]
    BY RoleStates DEF Turns
  <1>2. R = {} => RoleState' = RoleState
    BY RoleStates, <1>1
  <1> QED
    BY <1>1, <1>2 DEF RoleRow!Change

\* Roles that are destroyed, one or those of a workspace, go together.
LEMMA RolesDestroyed ==
    ASSUME RolesInv, NEW ids, roles' = {r \in roles : r.id \notin ids}, asked' = asked
    PROVE  RoleRow!Next \/ UNCHANGED RoleState
  <1> DEFINE R == {i \in 1..MaxRequests : i \in ids /\ Exists(i)}
  <1>1. ASSUME NEW i \in 1..MaxRequests
        PROVE  RoleAt(i)' = IF i \in R THEN "gone" ELSE RoleAt(i)
    <2>1. CASE i \in ids /\ Exists(i)
      <3>1. \E a \in asked : a.role = i
        BY <2>1 DEF RolesInv, AskedInv, Exists
      <3>2. ~Exists(i)' /\ ~ \E r \in roles' : r.id = i
        BY <2>1 DEF Exists
      <3> QED
        BY <2>1, <3>1, <3>2 DEF RoleAt
    <2>2. CASE i \in ids /\ ~Exists(i)
      BY <2>2 DEF RoleAt, Exists
    <2>3. CASE i \notin ids
      BY <2>3 DEF RoleAt, Exists
    <2> QED
      BY <2>1, <2>2, <2>3
  <1>2. R \in SUBSET RoleRow!Live
    BY RoleStates DEF RoleRow!Live, RoleAt
  <1>3. Turns(R, "gone")
    BY <1>1 DEF Turns
  <1> HIDE DEF R
  <1>4. R \subseteq 1..MaxRequests
    BY <1>2 DEF RoleRow!Live
  <1>5. RoleRow!Change(R, "gone") /\ (R = {} => UNCHANGED RoleState)
    BY <1>3, <1>4, RolesTurn
  <1> QED
    BY <1>2, <1>5 DEF RoleRow!Next, RoleRow!Destroy

\* role.create is the only creation of its row.
LEMMA RoleCreated ==
    ASSUME RolesInv, NEW q \in active, CreateRole(q)
    PROVE  RoleRow!Next \/ UNCHANGED RoleState
  <1>1. CASE q.workspace \notin workspaces
    BY <1>1 DEF CreateRole, RoleState, Exists
  <1>2. CASE q.workspace \in workspaces
    <2>1. /\ roles' = roles \cup {NewRole(q)}
          /\ asked' = asked \cup {[role |-> q.role, privileges |-> q.add]}
          /\ NewRole(q).id = q.role /\ ~NewRole(q).stashed
      BY <1>2 DEF CreateRole, NewRole
    <2>2. q.role = q.id /\ ~Exists(q.role) /\ \A a \in asked : a.role # q.role
      BY DEF CreateRole, RolesInv, NameInv, CreationInv
    <2>3. q.role \in 1..MaxRequests
      <3>1. q.id \in 1..serial /\ serial \in Nat /\ serial <= MaxRequests
        BY DEF RolesInv, TypeInv, TypeOK, Sound, CreationInv
      <3> QED
        BY <2>2, <3>1, RolesAssumption
    <2>4. ASSUME NEW i \in 1..MaxRequests
          PROVE  RoleAt(i)' = IF i = q.role THEN "active" ELSE RoleAt(i)
      <3>1. CASE i = q.role
        BY <2>1, <3>1 DEF RoleAt
      <3>2. CASE i # q.role
        <4>1. \A r \in roles' : r.id = i => r \in roles
          BY <2>1, <3>2
        <4>2. \A a \in asked' : a.role = i => a \in asked
          BY <2>1, <3>2
        <4>3. Exists(i)' <=> Exists(i)
          BY <2>1, <4>1 DEF Exists
        <4> QED
          BY <2>1, <3>2, <4>1, <4>2, <4>3 DEF RoleAt
      <3> QED
        BY <3>1, <3>2
    <2>5. Turns({q.role}, "active")
      BY <2>4 DEF Turns
    <2>6. RoleRow!Change({q.role}, "active")
      BY <2>3, <2>5, RolesTurn
    <2>7. RoleState[q.role] = "absent"
      BY <2>2, <2>3, RoleStates DEF RoleAt, Exists
    <2> QED
      BY <2>3, <2>6, <2>7 DEF RoleRow!Next, RoleRow!Create
  <1> QED
    BY <1>1, <1>2

\* A role is put away once; the second request to do it, or one that comes when
\* it has been destroyed, changes nothing.
LEMMA RolePutAway ==
    ASSUME RolesInv, NEW q \in active, StashRole(q)
    PROVE  RoleRow!Next \/ UNCHANGED RoleState
  <1>1. roles' = Stashed(q) /\ asked' = asked
    BY DEF StashRole
  <1>2. \A r \in roles : r \in Role
    BY DEF RolesInv, TypeInv, TypeOK
  <1>3. \A s \in roles' :
          \/ s \in roles /\ s.id # q.role
          \/ s.id = q.role /\ s.stashed /\ Exists(q.role)
    <2> SUFFICES ASSUME NEW s \in roles'
                 PROVE  \/ s \in roles /\ s.id # q.role
                        \/ s.id = q.role /\ s.stashed /\ Exists(q.role)
      OBVIOUS
    <2>1. PICK r \in roles : s = IF r.id = q.role THEN [r EXCEPT !.stashed = TRUE] ELSE r
      BY <1>1 DEF Stashed
    <2>2. CASE r.id = q.role
      BY <1>2, <2>1, <2>2 DEF Role, Exists
    <2> QED
      BY <2>1, <2>2
  <1>4. \A r \in roles : r.id # q.role => r \in roles'
    BY <1>1 DEF Stashed
  <1>5. Exists(q.role) => Exists(q.role)'
    <2> SUFFICES ASSUME NEW r \in roles, r.id = q.role PROVE Exists(q.role)'
      BY DEF Exists
    <2>1. [r EXCEPT !.stashed = TRUE] \in roles'
      BY <1>1 DEF Stashed
    <2>2. [r EXCEPT !.stashed = TRUE].id = q.role
      BY <1>2 DEF Role
    <2> QED
      BY <2>1, <2>2 DEF Exists
  <1>6. ASSUME NEW i \in 1..MaxRequests
        PROVE  RoleAt(i)' = IF i = q.role /\ Exists(i) THEN "stashed" ELSE RoleAt(i)
    <2>1. CASE i # q.role
      <3>1. Exists(i)' <=> Exists(i)
        BY <1>3, <1>4, <2>1 DEF Exists
      <3>2. (\E r \in roles' : r.id = i /\ ~r.stashed) <=>
            (\E r \in roles : r.id = i /\ ~r.stashed)
        BY <1>3, <1>4, <2>1
      <3> QED
        BY <1>1, <2>1, <3>1, <3>2 DEF RoleAt
    <2>2. CASE i = q.role /\ Exists(i)
      BY <1>3, <1>5, <2>2 DEF RoleAt
    <2>3. CASE i = q.role /\ ~Exists(i)
      <3>1. ~Exists(i)'
        BY <1>3, <2>3 DEF Exists
      <3> QED
        BY <1>1, <2>3, <3>1 DEF RoleAt, Exists
    <2> QED
      BY <2>1, <2>2, <2>3
  <1>7. CASE /\ q.role \in 1..MaxRequests
             /\ \E r \in roles : r.id = q.role /\ ~r.stashed
    <2>1. Exists(q.role) /\ RoleAt(q.role) = "active"
      BY <1>7 DEF Exists, RoleAt
    <2>2. Turns({q.role}, "stashed")
      BY <1>6, <2>1 DEF Turns
    <2>3. RoleRow!Change({q.role}, "stashed")
      BY <1>7, <2>2, RolesTurn
    <2>4. RoleState[q.role] = "active"
      BY <1>7, <2>1, RoleStates
    <2> QED
      BY <1>7, <2>3, <2>4 DEF RoleRow!Next, RoleRow!PutAway
  <1>8. CASE ~ /\ q.role \in 1..MaxRequests
               /\ \E r \in roles : r.id = q.role /\ ~r.stashed
    <2>1. \A i \in 1..MaxRequests : RoleAt(i)' = RoleAt(i)
      BY <1>6, <1>8 DEF RoleAt
    <2> QED
      BY <2>1, RoleStates
  <1> QED
    BY <1>7, <1>8

\* A step of the handlers is one of Stash, or cannot be seen there.
LEMMA RoleSteps ==
    ASSUME RolesInv, [Next]_vars
    PROVE  RoleRow!Next \/ UNCHANGED RoleState
  <1>1. ASSUME UNCHANGED <<roles, asked>> PROVE UNCHANGED RoleState
    BY <1>1 DEF RoleState, Exists
  <1>2. CASE Begin
    <2>1. UNCHANGED asked
      BY <1>2 DEF Begin, BeginCreateRole, BeginUpdateRole, BeginDeleteRole,
         BeginAssignRole, BeginUnAssignRole, BeginCanActivate, Start
    <2> QED
      BY <1>1, <1>2, <2>1, StartFrame
  <1>3. ASSUME NEW q \in active, Advance(q)
        PROVE  RoleRow!Next \/ UNCHANGED RoleState
    <2>1. CASE DestroyRole(q)
      BY <2>1, RolesDestroyed DEF DestroyRole, DestroyRoles
    <2>2. CASE AddPrivileges(q) \/ RemovePrivileges(q) \/ FindAssignment(q) \/ Assign(q)
               \/ UnAssign(q) \/ FindAdminRole(q) \/ FindRoles(q) \/ FindPrivileges(q)
      <3>1. UNCHANGED <<roles, asked>>
        BY <2>2 DEF AddPrivileges, RemovePrivileges, FindAssignment, Assign, UnAssign,
           FindAdminRole, FindRoles, FindPrivileges, tables
      <3> QED
        BY <1>1, <3>1
    <2> QED
      BY <1>3, <2>1, <2>2, RoleCreated, RolePutAway DEF Advance
  <1>4. ASSUME NEW w \in workspaces, DestroyWorkspace(w)
        PROVE  RoleRow!Next \/ UNCHANGED RoleState
    <2> DEFINE ids == {r.id : r \in {x \in roles : x.workspace = w}}
    <2>1. roles' = {r \in roles : r.id \notin ids} /\ asked' = asked
      BY <1>4 DEF DestroyWorkspace
    <2> HIDE DEF ids
    <2> QED
      BY <2>1, RolesDestroyed
  <1>5. CASE \/ \E q \in active : Abort(q)
             \/ \E o \in owners : ToggleOwner(o)
             \/ UNCHANGED vars
    BY <1>1, <1>5 DEF Abort, ToggleOwner, tables, vars
  <1> QED
    BY <1>2, <1>3, <1>4, <1>5 DEF Next

\* The Role table keeps the promise of module Stash, whatever requests and ends
\* of workspaces race on a row: a role is created once, and once destroyed it is
\* never there again.
THEOREM RolesFollowStash == Spec => RolesAreStashed
  <1>1. Init => RoleRow!Init
    <2> SUFFICES ASSUME Init PROVE RoleRow!Init
      OBVIOUS
    <2>1. \A r \in roles : r.id \in {-3, -2, -1}
      BY RolesAssumption DEF Init, SeedId
    <2>2. ASSUME NEW i \in 1..MaxRequests PROVE RoleAt(i) = "absent"
      BY <2>1, RolesAssumption DEF RoleAt, Exists, Init
    <2> QED
      BY <2>2, RoleStates DEF RoleRow!Init
  <1>2. RolesInv /\ [Next]_vars => [RoleRow!Next]_RoleState
    BY RoleSteps
  <1> QED
    BY <1>1, <1>2, RolesInvariant, PTL DEF Spec, RolesAreStashed, RoleRow!Spec

-----------------------------------------------------------------------------
(* RoleGuard, whose reads are spread over several moments                  *)

\* The roles assigned to the caller, and those that count now: an owner has the
\* ADMIN roles too.
Holds(q) == {ur.role : ur \in {x \in userRoles : x.user = q.user}}

Candidates(q) ==
    Holds(q) \cup (IF IsOwner(q.user, q.workspace) THEN RoleIds("ADMIN") ELSE {})

\* The roles a guard will look at, if nothing is written from now on.
Reach(q) ==
    CASE q.phase = "findAdminRole" -> RoleIds("ADMIN") \cup Holds(q)
      [] q.phase = "findRoles" -> q.roleIds \cup Holds(q)
      [] q.phase = "findPrivileges" -> q.roleIds

\* None of the roles has what the guard looks for.
NoneGrants(q, ids) == \A id \in ids : \A p \in q.add : <<id, p>> \notin rolePrivileges

\* What has been recorded of a guard says of what it will find.  Without a write
\* it will look at roles that count; after one it still finds nothing unless the
\* caller was entitled at some moment.
Honest(q) ==
    LET course == watched[q.id] IN
    /\ q.phase \in GuardPhases
    /\ Entitled(q) => course.entitled
    /\ course.writes = 0 => Reach(q) \subseteq Candidates(q)
    /\ course.writes < 2 /\ ~course.entitled => NoneGrants(q, Reach(q))

GuardInv ==
    /\ \A q \in active : q.op = "canActivate" => Honest(q)
    /\ PassedIfOneWrite

LEMMA EntitledByCandidate ==
    ASSUME NEW q
    PROVE  ~Entitled(q) <=> NoneGrants(q, Candidates(q))
  BY DEF Entitled, NoneGrants, Candidates, Holds

\* A role that comes up is one that counts, one just created, or one that was
\* within reach.
LEMMA Reached ==
    ASSUME NEW q, q.phase \in GuardPhases, NEW id \in Reach(q)'
    PROVE  \/ id \in Reach(q)
           \/ id \in RoleIds("ADMIN")' \ RoleIds("ADMIN")
           \/ id \in Candidates(q)'
  BY DEF Reach, GuardPhases, Candidates, Holds

\* Watch records a moment at which the caller is entitled, and forgets none; it
\* counts the writes.
LEMMA Recorded ==
    ASSUME TypeInv, Watch, NEW q \in active, NEW g \in active',
           q.op = "canActivate", g.op = "canActivate", g.id = q.id
    PROVE  /\ Entitled(g)' => watched'[g.id].entitled
           /\ watched[q.id].entitled => watched'[g.id].entitled
           /\ tables' = tables => watched'[g.id].writes = watched[q.id].writes
           /\ tables' # tables =>
                /\ watched'[g.id].writes # 0
                /\ watched'[g.id].writes < 2 => watched[q.id].writes = 0
  <1> DEFINE guards == {x \in active' : x.op = "canActivate"}
             writes(id) == IF id \in DOMAIN watched THEN watched[id].writes ELSE 0
             entitled(id) == id \in DOMAIN watched /\ watched[id].entitled
             now == {x.id : x \in {y \in guards : Entitled(y)'}}
  <1>1. watched' = [id \in {x.id : x \in guards} |->
            [entitled |-> entitled(id) \/ id \in now,
             writes |-> IF tables' = tables \/ writes(id) = 2 THEN writes(id)
                        ELSE writes(id) + 1]]
    BY DEF Watch
  <1>2. watched \in [Guards -> Course] /\ q.id \in Guards
    BY DEF TypeInv, TypeOK, Guards
  <1>3. /\ watched[q.id].writes \in 0..2
        /\ writes(q.id) = watched[q.id].writes
        /\ watched[q.id].entitled => entitled(q.id)
    BY <1>2 DEF Course
  <1>4. g.id \in {x.id : x \in guards} /\ (Entitled(g)' => g.id \in now)
    OBVIOUS
  <1> HIDE DEF guards, writes, entitled, now
  <1>5. /\ entitled(q.id) \/ q.id \in now => watched'[g.id].entitled
        /\ watched'[g.id].writes =
             IF tables' = tables \/ writes(q.id) = 2 THEN writes(q.id)
             ELSE writes(q.id) + 1
    <2>1. watched'[g.id] =
            [entitled |-> entitled(g.id) \/ g.id \in now,
             writes |-> IF tables' = tables \/ writes(g.id) = 2 THEN writes(g.id)
                        ELSE writes(g.id) + 1]
      BY <1>1, <1>4
    <2> DEFINE e == entitled(g.id) \/ g.id \in now
               n == IF tables' = tables \/ writes(g.id) = 2 THEN writes(g.id)
                    ELSE writes(g.id) + 1
    <2> HIDE DEF e, n
    <2>2. watched'[g.id] = [entitled |-> e, writes |-> n]
      BY <2>1 DEF e, n
    <2>3. watched'[g.id].entitled = e /\ watched'[g.id].writes = n
      BY <2>2
    <2>4. g.id = q.id
      OBVIOUS
    <2> QED
      BY <2>3, <2>4, Zenon DEF e, n
  <1> QED
    BY <1>3, <1>4, <1>5

\* A guard that starts has seen nothing yet.
LEMMA RecordedAtStart ==
    ASSUME TypeInv, NEW g, Start(g), g.id = serial + 1, g.op = "canActivate"
    PROVE  /\ Entitled(g)' => watched'[g.id].entitled
           /\ watched'[g.id].writes = 0
  <1> DEFINE guards == {x \in active' : x.op = "canActivate"}
             writes(id) == IF id \in DOMAIN watched THEN watched[id].writes ELSE 0
             entitled(id) == id \in DOMAIN watched /\ watched[id].entitled
             now == {x.id : x \in {y \in guards : Entitled(y)'}}
  <1>1. watched' = [id \in {x.id : x \in guards} |->
            [entitled |-> entitled(id) \/ id \in now,
             writes |-> IF tables' = tables \/ writes(id) = 2 THEN writes(id)
                        ELSE writes(id) + 1]]
    BY DEF Start, Watch
  <1>2. g \in active' /\ tables' = tables
    BY DEF Start
  <1>3. DOMAIN watched = Guards /\ g.id \notin Guards
    BY DEF TypeInv, TypeOK, Sound, Guards
  <1>4. writes(g.id) = 0 /\ g.id \in {x.id : x \in guards} /\ (Entitled(g)' => g.id \in now)
    BY <1>2, <1>3
  <1> HIDE DEF guards, writes, entitled, now
  <1> QED
    BY <1>1, <1>2, <1>4

\* What a write does to the tables: only rolePrivilege.createMany adds a
\* privilege, and a role that is created has none.
LEMMA Written ==
    ASSUME RolesInv, TableInv, [Next]_vars
    PROVE  \/ UNCHANGED <<owners, roles, userRoles>>
           \/ /\ rolePrivileges' \subseteq rolePrivileges
              /\ \A id \in RoleIds("ADMIN")' \ RoleIds("ADMIN") :
                   \A rp \in rolePrivileges : rp[1] # id
  <1>1. CASE Begin
    BY <1>1, StartFrame
  <1>2. ASSUME NEW q \in active, Advance(q)
        PROVE  \/ UNCHANGED <<owners, roles, userRoles>>
               \/ /\ rolePrivileges' \subseteq rolePrivileges
                  /\ \A id \in RoleIds("ADMIN")' \ RoleIds("ADMIN") :
                       \A rp \in rolePrivileges : rp[1] # id
    <2>1. CASE AddPrivileges(q)
      BY <2>1 DEF AddPrivileges
    <2>2. CASE ~AddPrivileges(q)
      <3>1. rolePrivileges' \subseteq rolePrivileges
        BY <1>2, <2>2 DEF Advance, CreateRole, RemovePrivileges, StashRole, DestroyRole,
           DestroyRoles, FindAssignment, Assign, UnAssign, FindAdminRole, FindRoles,
           FindPrivileges, tables
      <3>2. ASSUME NEW id \in RoleIds("ADMIN")' \ RoleIds("ADMIN")
            PROVE  \A rp \in rolePrivileges : rp[1] # id
        <4>1. PICK s \in roles' : s.id = id /\ s.type = "ADMIN"
          BY <3>2 DEF RoleIds
        <4>2. CreateRole(q) /\ s = NewRole(q)
          BY <1>2, <3>2, <4>1, RolesKeep DEF RolesInv, RoleIds
        <4>3. id = q.role /\ ~Exists(id)
          BY <4>1, <4>2 DEF CreateRole, NewRole, RolesInv, NameInv
        <4> QED
          BY <4>3 DEF TableInv, GrantsHaveRole
      <3> QED
        BY <3>1, <3>2
    <2> QED
      BY <2>1, <2>2
  <1>3. ASSUME NEW w \in workspaces, DestroyWorkspace(w)
        PROVE  /\ rolePrivileges' \subseteq rolePrivileges
               /\ RoleIds("ADMIN")' \subseteq RoleIds("ADMIN")
    BY <1>3 DEF DestroyWorkspace, RoleIds
  <1>4. ASSUME NEW o \in owners, ToggleOwner(o)
        PROVE  UNCHANGED <<roles, rolePrivileges>>
    BY <1>4 DEF ToggleOwner
  <1>5. CASE UNCHANGED vars \/ \E q \in active : Abort(q)
    BY <1>5 DEF Abort, tables, vars
  <1> QED
    BY <1>1, <1>2, <1>3, <1>4, <1>5 DEF Next, RoleIds

\* One write makes a guard find nothing that the caller did not have before it
\* or has after it.
LEMMA OneWrite ==
    ASSUME RolesInv, TableInv, [Next]_vars, NEW q, q.phase \in GuardPhases,
           Reach(q) \subseteq Candidates(q), ~Entitled(q), ~Entitled(q)'
    PROVE  NoneGrants(q, Reach(q))'
  <1>1. NoneGrants(q, Reach(q))
    BY EntitledByCandidate DEF NoneGrants
  <1>2. NoneGrants(q, Candidates(q))'
    BY DEF Entitled, NoneGrants, Candidates, Holds
  <1>3. CASE UNCHANGED <<owners, roles, userRoles>>
    <2>1. Candidates(q)' = Candidates(q) /\ Reach(q)' = Reach(q)
      BY <1>3 DEF Candidates, Holds, IsOwner, RoleIds, Reach, GuardPhases
    <2> QED
      BY <1>2, <2>1 DEF NoneGrants
  <1>4. CASE /\ rolePrivileges' \subseteq rolePrivileges
             /\ \A id \in RoleIds("ADMIN")' \ RoleIds("ADMIN") :
                  \A rp \in rolePrivileges : rp[1] # id
    <2> SUFFICES ASSUME NEW id \in Reach(q)', NEW p \in q.add
                 PROVE  <<id, p>> \notin rolePrivileges'
      BY DEF NoneGrants
    <2>1. CASE id \in Reach(q)
      BY <1>1, <1>4, <2>1 DEF NoneGrants
    <2>2. CASE id \in RoleIds("ADMIN")' \ RoleIds("ADMIN")
      <3>1. <<id, p>>[1] = id
        OBVIOUS
      <3> QED
        BY <1>4, <2>2, <3>1
    <2>3. CASE id \in Candidates(q)'
      BY <1>2, <2>3 DEF NoneGrants
    <2> QED
      BY <2>1, <2>2, <2>3, Reached
  <1> QED
    BY <1>3, <1>4, Written

\* A guard that waits for its next read, or has come to it, stays honest.
LEMMA GuardStays ==
    ASSUME RolesInv, TableInv, GuardInv, [Next]_vars, Watch,
           NEW q \in active, NEW g \in active',
           q.op = "canActivate", g = q \/ Onward(q, g)
    PROVE  Honest(g)'
  <1>1. Honest(q) /\ q.phase \in GuardPhases
    BY DEF GuardInv, Honest
  <1>2. /\ g.op = "canActivate" /\ g.id = q.id /\ g.add = q.add
        /\ g.user = q.user /\ g.workspace = q.workspace
    BY DEF Onward
  <1>3. /\ Entitled(g)' => watched'[g.id].entitled
        /\ watched[q.id].entitled => watched'[g.id].entitled
        /\ tables' = tables => watched'[g.id].writes = watched[q.id].writes
        /\ tables' # tables =>
             /\ watched'[g.id].writes # 0
             /\ watched'[g.id].writes < 2 => watched[q.id].writes = 0
    BY <1>2, Recorded DEF RolesInv
  <1>4. g.phase \in GuardPhases
    BY <1>1 DEF Onward, GuardPhases
  <1>5. CASE tables' = tables
    <2>1. UNCHANGED <<owners, roles, rolePrivileges, userRoles>>
      BY <1>5 DEF tables
    <2>2. Reach(g)' \subseteq Reach(q)
      <3>1. CASE g = q
        BY <1>1, <2>1, <3>1 DEF Reach, Holds, RoleIds, GuardPhases
      <3>2. CASE Onward(q, g) /\ q.phase = "findAdminRole"
        BY <1>2, <2>1, <3>2 DEF Onward, Reach, Holds, RoleIds
      <3>3. CASE Onward(q, g) /\ q.phase = "findRoles"
        BY <1>2, <2>1, <3>3 DEF Onward, Reach, Holds, RoleIds
      <3> QED
        BY <1>1, <3>1, <3>2, <3>3 DEF Onward, GuardPhases
    <2>3. Candidates(g)' = Candidates(q)
      BY <1>2, <2>1 DEF Candidates, Holds, IsOwner, RoleIds
    <2>4. NoneGrants(q, Reach(q)) => NoneGrants(g, Reach(g))'
      BY <1>2, <2>1, <2>2 DEF NoneGrants
    <2> QED
      BY <1>1, <1>3, <1>4, <1>5, <2>2, <2>3, <2>4 DEF Honest
  <1>6. CASE tables' # tables
    <2>1. g = q
      BY <1>1, <1>6 DEF Onward, GuardPhases
    <2>2. ASSUME watched'[g.id].writes < 2, ~watched'[g.id].entitled
          PROVE  NoneGrants(g, Reach(g))'
      <3>1. Reach(q) \subseteq Candidates(q) /\ ~Entitled(q) /\ ~Entitled(q)'
        BY <1>1, <1>3, <1>6, <2>1, <2>2 DEF Honest
      <3> QED
        BY <1>1, <2>1, <3>1, OneWrite
    <2> QED
      BY <1>3, <1>4, <1>6, <2>2 DEF Honest
  <1> QED
    BY <1>5, <1>6

\* A guard that starts has just read whether the caller owns the workspace.
LEMMA GuardStarts ==
    ASSUME TypeInv, NEW g, Start(g), Starts(g), g.op = "canActivate"
    PROVE  Honest(g)'
  <1>1. /\ Entitled(g)' => watched'[g.id].entitled
        /\ watched'[g.id].writes = 0
    BY RecordedAtStart DEF Starts
  <1>2. UNCHANGED tables
    BY DEF Start
  <1>3. g.phase = AfterMembership(g.user, g.workspace) /\ g.roleIds = {}
    BY DEF Starts
  <1>4. Reach(g)' \subseteq Candidates(g)'
    BY <1>2, <1>3 DEF AfterMembership, Reach, Candidates, Holds, RoleIds, IsOwner, tables
  <1>5. g.phase \in GuardPhases
    BY <1>3 DEF AfterMembership, GuardPhases
  <1>6. ~Entitled(g)' => NoneGrants(g, Reach(g))'
    BY <1>4 DEF Entitled, NoneGrants, Candidates, Holds
  <1> QED
    BY <1>1, <1>4, <1>5, <1>6 DEF Honest

\* Only the last read lets a caller through.
LEMMA PassedAdvance ==
    ASSUME RolesInv, GuardInv, NEW q \in active, Advance(q)
    PROVE  PassedIfOneWrite'
  <1>1. CASE FindPrivileges(q)
    <2>1. q.op = "canActivate" /\ Honest(q)
      BY <1>1 DEF FindPrivileges, RolesInv, TypeInv, Sound, GuardPhases, GuardInv
    <2>2. Reach(q) = q.roleIds
      BY <1>1 DEF FindPrivileges, Reach
    <2>3. NoneGrants(q, q.roleIds) => (q.roleIds \X q.add) \cap rolePrivileges = {}
      BY DEF NoneGrants
    <2>4. /\ passed' \subseteq passed \cup {watched[q.id]}
          /\ NoneGrants(q, q.roleIds) => passed' = passed
      BY <1>1, <2>3 DEF FindPrivileges
    <2> QED
      BY <2>1, <2>2, <2>4 DEF Honest, GuardInv, PassedIfOneWrite
  <1>2. CASE passed' = passed
    BY <1>2 DEF GuardInv, PassedIfOneWrite
  <1> QED
    BY <1>1, <1>2 DEF Advance, CreateRole, AddPrivileges, RemovePrivileges, StashRole,
       DestroyRole, FindAssignment, Assign, UnAssign, FindAdminRole, FindRoles

\* Every step keeps every guard honest.
LEMMA GuardStep ==
    RolesInv /\ TableInv /\ GuardInv /\ [Next]_vars => GuardInv'
  <1> SUFFICES ASSUME RolesInv, TableInv, GuardInv, [Next]_vars PROVE GuardInv'
    OBVIOUS
  <1>1. ASSUME Watch, passed' = passed \/ PassedIfOneWrite',
               \A g \in active' : \/ \E q \in active : g = q \/ Onward(q, g)
                                  \/ g.op = "canActivate" => Honest(g)'
        PROVE  GuardInv'
    <2>1. ASSUME NEW g \in active', g.op = "canActivate" PROVE Honest(g)'
      BY <1>1, <2>1, GuardStays DEF Onward
    <2>2. PassedIfOneWrite'
      BY <1>1 DEF GuardInv, PassedIfOneWrite
    <2> QED
      BY <2>1, <2>2 DEF GuardInv
  <1>2. CASE Begin
    <2>1. PICK new : Start(new) /\ Starts(new)
      BY <1>2, Starting
    <2>2. Watch /\ passed' = passed /\ active' = active \cup {new}
      BY <2>1 DEF Start
    <2>3. new.op = "canActivate" => Honest(new)'
      BY <2>1, GuardStarts DEF RolesInv
    <2> QED
      BY <1>1, <2>2, <2>3
  <1>3. ASSUME NEW q \in active, Advance(q) PROVE GuardInv'
    <2>1. Watch
      BY <1>3 DEF Advance, CreateRole, AddPrivileges, RemovePrivileges, StashRole,
         DestroyRole, FindAssignment, Assign, UnAssign, FindAdminRole, FindRoles,
         FindPrivileges
    <2>2. \A p \in active' : (p \in active /\ p # q) \/ Onward(q, p)
      BY <1>3, GoesOnward DEF RolesInv
    <2> QED
      BY <1>1, <1>3, <2>1, <2>2, PassedAdvance
  <1>4. CASE \/ \E q \in active : Abort(q)
             \/ \E w \in workspaces : DestroyWorkspace(w)
             \/ \E o \in owners : ToggleOwner(o)
    <2>1. Watch /\ passed' = passed /\ active' \subseteq active
      BY <1>4 DEF Abort, Leave, DestroyWorkspace, ToggleOwner
    <2> QED
      BY <1>1, <2>1
  <1>5. CASE UNCHANGED vars
    BY <1>5 DEF vars, GuardInv, Honest, PassedIfOneWrite, Entitled, Reach, Candidates,
       Holds, NoneGrants, IsOwner, RoleIds
  <1> QED
    BY <1>2, <1>3, <1>4, <1>5 DEF Next

\* However its reads are spread, a guard that at most one write ran into lets
\* through only callers that held the privilege at some moment of it.
THEOREM OneWriteIsHarmless == Spec => []PassedIfOneWrite
  <1>1. Init => GuardInv
    BY DEF Init, GuardInv, PassedIfOneWrite
  <1>2. GuardInv => PassedIfOneWrite
    BY DEF GuardInv
  <1> QED
    BY <1>1, <1>2, GuardStep, RolesInvariant, TableInit, TableStep, PTL DEF Spec
=============================================================================
