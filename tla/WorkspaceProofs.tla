---------------------------- MODULE WorkspaceProofs ----------------------------
(* Proofs about module Workspace, for any users and bounds. *)
EXTENDS Workspace, TLAPS

-----------------------------------------------------------------------------
(* Requests                                                                *)

\* The handlers that write a membership know whose it is, and those of the
\* stash what to do with the row they find.
Sound(q) ==
    /\ q.phase \in {"createWorkspace", "createOwner", "findMember", "createMember"}
          => q.user \in Users
    /\ q.phase \in {"createWorkspace", "createOwner"} => q.row = q.id
    /\ q.phase = "find" => q.write \in {"stash", "destroy", "restore"}

TypeInv == TypeOK /\ \A q \in active : Sound(q)

\* r is what MoveTo makes of q.
Same(q, r) ==
    /\ r.id = q.id
    /\ r.user = q.user
    /\ r.table = q.table
    /\ r.row = q.row
    /\ r.stashed = q.stashed
    /\ r.write = q.write

LEMMA MovedRequest ==
    ASSUME NEW q \in Request, NEW phase \in Phases, NEW r, r = [q EXCEPT !.phase = phase]
    PROVE  r \in Request /\ r.phase = phase /\ Same(q, r)
  BY DEF Request, Same

\* The phases a handler goes through.
Follows(q, r) ==
    \/ q.phase = "createWorkspace" /\ r.phase = "createOwner"
    \/ q.phase = "findMember" /\ r.phase = "createMember"
    \/ q.phase = "createMember" /\ r.phase = "mailInvitation"
    \/ q.phase = "find" /\ r.phase = q.write

\* What a request may become.
Moves(q, r) ==
    /\ r \in Request
    /\ Same(q, r)
    /\ Follows(q, r)
    /\ active' = (active \ {q}) \cup {r}

\* A request that is served moves on or ends.
LEMMA RequestMoves ==
    ASSUME TypeInv, NEW q \in active, Advance(q) \/ Abort(q)
    PROVE  serial' = serial /\ (Leave(q) \/ \E r \in Request : Moves(q, r))
<1>1. q \in Request /\ Sound(q)
  BY DEF TypeInv, TypeOK
<1>2. ASSUME NEW phase \in Phases, MoveTo(q, phase),
             Follows(q, [q EXCEPT !.phase = phase])
      PROVE  \E r \in Request : Moves(q, r)
  <2> DEFINE r == [q EXCEPT !.phase = phase]
  <2>1. r \in Request /\ Same(q, r)
    BY <1>1, MovedRequest
  <2>2. active' = (active \ {q}) \cup {r} /\ Follows(q, r)
    BY <1>2 DEF MoveTo
  <2> HIDE DEF r
  <2> QED
    BY <2>1, <2>2 DEF Moves
<1>3. ASSUME NEW phase \in Phases
      PROVE  [q EXCEPT !.phase = phase].phase = phase
  BY <1>1, MovedRequest
<1>4. CASE CreateWorkspace(q)
  BY <1>2, <1>3, <1>4 DEF CreateWorkspace, Follows, Phases
<1>5. CASE FindMember(q)
  BY <1>2, <1>3, <1>5 DEF FindMember, Follows, Phases
<1>6. CASE CreateMember(q)
  BY <1>2, <1>3, <1>6 DEF CreateMember, AfterInsert, Follows, Phases
<1>7. CASE Find(q)
  <2>1. q.phase = "find" /\ serial' = serial /\ (Leave(q) \/ MoveTo(q, q.write))
    BY <1>7 DEF Find
  <2>2. q.write \in Phases
    BY <1>1, <2>1 DEF Sound, Phases
  <2> QED
    BY <1>2, <1>3, <2>1, <2>2 DEF Follows
<1>8. CASE \/ CreateOwner(q) \/ MailInvitation(q) \/ Accept(q) \/ Deny(q) \/ Rename(q)
           \/ StashRow(q) \/ RestoreRow(q) \/ DestroyRow(q) \/ Abort(q)
  BY <1>8 DEF CreateOwner, MailInvitation, Accept, Deny, Rename, StashRow, RestoreRow,
              DestroyRow, Abort
<1> QED
  BY <1>4, <1>5, <1>6, <1>7, <1>8 DEF Advance

\* A request that starts.
Begin ==
    \/ \E u \in Users : BeginCreate(u)
    \/ \E inviter \in members, invitee \in Users : BeginInvite(inviter, invitee)
    \/ \E m \in members, answer \in {"accept", "deny"} : BeginAnswer(m, answer)
    \/ \E row \in Ids("workspace") : BeginRename(row)
    \/ \E table \in Tables, fromStash \in BOOLEAN :
         \E row \in Ids(table) : BeginDelete(table, row, fromStash)
    \/ \E table \in Tables : \E row \in Ids(table) : BeginRestore(table, row)

\* What has started is new, and is about a row that is there, unless it is to
\* create one.
Starts(r) ==
    /\ r \in Request
    /\ Sound(r)
    /\ r.id = serial + 1
    /\ r.phase \in Phases \ {"createOwner", "createMember", "mailInvitation", "stash",
                             "destroy", "restore"}
    /\ r.phase \in {"accept", "deny", "rename", "find"} => r.row \in Ids(r.table)
    /\ r.phase = "accept" => \E m \in members : m.id = r.row /\ m.invitationToken \in mails
    /\ r.phase = "findMember" => \E m \in members : m.workspace = r.row
    /\ r.phase = "rename" => r.table = "workspace"
    /\ r.phase \in {"accept", "deny"} => r.table = "member"
    /\ r.phase = "find" => (r.write = "destroy" => r.stashed = TRUE)

LEMMA RequestStarts ==
    ASSUME TypeInv, Begin
    PROVE  /\ serial' = serial + 1
           /\ UNCHANGED <<workspaces, members, mails, born, cut, crossed>>
           /\ \E r \in Request : Starts(r) /\ active' = active \cup {r}
<1>1. serial \in Nat /\ (\A w \in workspaces : w.id \in Nat)
      /\ \A m \in members : m.id \in Nat /\ m.workspace \in Nat /\ m.user \in Users
  BY DEF TypeInv, TypeOK, Workspaces, Members
<1>2. Ids("workspace") \subseteq Nat /\ Ids("member") \subseteq Nat
  BY <1>1 DEF Ids
<1>3. ASSUME NEW u \in Users, BeginCreate(u)
      PROVE  /\ serial' = serial + 1
             /\ \E r \in Request : Starts(r) /\ active' = active \cup {r}
  <2> DEFINE r == [id |-> serial + 1, user |-> u, table |-> "workspace", row |-> serial + 1,
                   phase |-> "createWorkspace", stashed |-> FALSE, write |-> "none"]
  <2>1. r \in Request
    BY <1>1, <1>2 DEF Request, Tables, Phases
  <2>2. active' = active \cup {r} /\ serial' = serial + 1
    BY <1>3 DEF BeginCreate, Start
  <2>3. Starts(r)
    BY <1>1, <1>2, <2>1 DEF Starts, Sound, Phases
  <2> QED
    BY <2>1, <2>2, <2>3
<1>4. ASSUME NEW i \in members, NEW u \in Users, BeginInvite(i, u)
      PROVE  /\ serial' = serial + 1
             /\ \E r \in Request : Starts(r) /\ active' = active \cup {r}
  <2> DEFINE r == [id |-> serial + 1, user |-> u, table |-> "member", row |-> i.workspace,
                   phase |-> "findMember", stashed |-> FALSE, write |-> "none"]
  <2>1. r \in Request
    BY <1>1, <1>2 DEF Request, Tables, Phases
  <2>2. active' = active \cup {r} /\ serial' = serial + 1
    BY <1>4 DEF BeginInvite, Start
  <2>3. Starts(r)
    BY <1>1, <1>2, <2>1 DEF Starts, Sound, Phases
  <2> QED
    BY <2>1, <2>2, <2>3
<1>5. ASSUME NEW m \in members, NEW answer \in {"accept", "deny"}, BeginAnswer(m, answer)
      PROVE  /\ serial' = serial + 1
             /\ \E r \in Request : Starts(r) /\ active' = active \cup {r}
  <2> DEFINE r == [id |-> serial + 1, user |-> m.user, table |-> "member", row |-> m.id,
                   phase |-> answer, stashed |-> FALSE, write |-> "none"]
  <2>0. m.invitationToken \in mails /\ m.id \in Ids("member")
    BY <1>5 DEF BeginAnswer, Ids
  <2>1. r \in Request
    BY <1>1, <1>2 DEF Request, Tables, Phases
  <2>2. active' = active \cup {r} /\ serial' = serial + 1
    BY <1>5 DEF BeginAnswer, Start
  <2>3. Starts(r)
    BY <1>1, <1>2, <2>1, <2>0 DEF Starts, Sound, Phases
  <2> QED
    BY <2>1, <2>2, <2>3
<1>6. ASSUME NEW row \in Ids("workspace"), BeginRename(row)
      PROVE  /\ serial' = serial + 1
             /\ \E r \in Request : Starts(r) /\ active' = active \cup {r}
  <2> DEFINE r == [id |-> serial + 1, user |-> None, table |-> "workspace", row |-> row,
                   phase |-> "rename", stashed |-> FALSE, write |-> "none"]
  <2>1. r \in Request
    BY <1>1, <1>2 DEF Request, Tables, Phases
  <2>2. active' = active \cup {r} /\ serial' = serial + 1
    BY <1>6 DEF BeginRename, Start
  <2>3. Starts(r)
    BY <1>1, <1>2, <2>1 DEF Starts, Sound, Phases
  <2> QED
    BY <2>1, <2>2, <2>3
<1>7. ASSUME NEW table \in Tables, NEW row \in Ids(table), NEW fromStash \in BOOLEAN,
             BeginDelete(table, row, fromStash)
      PROVE  /\ serial' = serial + 1
             /\ \E r \in Request : Starts(r) /\ active' = active \cup {r}
  <2> DEFINE r == [id |-> serial + 1, user |-> None, table |-> table, row |-> row,
                   phase |-> "find", stashed |-> fromStash, write |-> IF fromStash THEN "destroy" ELSE "stash"]
  <2>0. row \in Nat
    BY <1>2 DEF Tables
  <2>1. r \in Request
    BY <1>1, <1>2, <2>0 DEF Request, Tables, Phases
  <2>2. active' = active \cup {r} /\ serial' = serial + 1
    BY <1>7 DEF BeginDelete, Start
  <2>3. Starts(r)
    BY <1>1, <1>2, <2>1, <2>0 DEF Starts, Sound, Phases
  <2> QED
    BY <2>1, <2>2, <2>3
<1>8. ASSUME NEW table \in Tables, NEW row \in Ids(table), BeginRestore(table, row)
      PROVE  /\ serial' = serial + 1
             /\ \E r \in Request : Starts(r) /\ active' = active \cup {r}
  <2> DEFINE r == [id |-> serial + 1, user |-> None, table |-> table, row |-> row,
                   phase |-> "find", stashed |-> TRUE, write |-> "restore"]
  <2>0. row \in Nat
    BY <1>2 DEF Tables
  <2>1. r \in Request
    BY <1>1, <1>2, <2>0 DEF Request, Tables, Phases
  <2>2. active' = active \cup {r} /\ serial' = serial + 1
    BY <1>8 DEF BeginRestore, Start
  <2>3. Starts(r)
    BY <1>1, <1>2, <2>1, <2>0 DEF Starts, Sound, Phases
  <2> QED
    BY <2>1, <2>2, <2>3
<1>9. UNCHANGED <<workspaces, members, mails, born, cut, crossed>>
  BY DEF Begin, BeginCreate, BeginInvite, BeginAnswer, BeginRename, BeginDelete,
         BeginRestore, tables, ghostVars
<1> QED
  BY <1>3, <1>4, <1>5, <1>6, <1>7, <1>8, <1>9 DEF Begin

-----------------------------------------------------------------------------
(* What a request does to the tables                                       *)

\* The rows the writes leave.
LEMMA AcceptedFields ==
    ASSUME NEW m \in Members, NEW x,
           x = [m EXCEPT !.isAccepted = TRUE, !.invitationToken = None]
    PROVE  /\ x \in Members
           /\ x.id = m.id /\ x.workspace = m.workspace /\ x.user = m.user
           /\ x.isOwner = m.isOwner /\ x.invitationToken = None
           /\ x.stashed = m.stashed
  BY DEF Members, None

LEMMA MarkedMember ==
    ASSUME NEW m \in Members, NEW stashed \in BOOLEAN, NEW x,
           x = [m EXCEPT !.stashed = stashed]
    PROVE  /\ x \in Members
           /\ x.id = m.id /\ x.workspace = m.workspace /\ x.user = m.user
           /\ x.isOwner = m.isOwner /\ x.isAccepted = m.isAccepted
           /\ x.invitationToken = m.invitationToken /\ x.stashed = stashed
  BY DEF Members

LEMMA MarkedWorkspace ==
    ASSUME NEW w \in Workspaces, NEW stashed \in BOOLEAN, NEW x,
           x = [w EXCEPT !.stashed = stashed]
    PROVE  x \in Workspaces /\ x.id = w.id /\ x.stashed = stashed
  BY DEF Workspaces

LEMMA RenamedWorkspace ==
    ASSUME NEW w \in Workspaces, NEW name \in Nat, NEW x, x = [w EXCEPT !.name = name]
    PROVE  x \in Workspaces /\ x.id = w.id /\ x.stashed = w.stashed
  BY DEF Workspaces

LEMMA NewMembers ==
    ASSUME NEW q \in Request, q.user \in Users
    PROVE  /\ OwnerRow(q) \in Members /\ OwnerRow(q).id = q.id
           /\ OwnerRow(q).workspace = q.row /\ OwnerRow(q).isOwner
           /\ OwnerRow(q).user = q.user /\ InvitedRow(q).user = q.user
           /\ OwnerRow(q).invitationToken = None /\ ~OwnerRow(q).stashed
           /\ InvitedRow(q) \in Members /\ InvitedRow(q).id = q.id
           /\ InvitedRow(q).workspace = q.row /\ ~InvitedRow(q).isOwner
           /\ ~InvitedRow(q).isAccepted /\ InvitedRow(q).invitationToken = q.id
           /\ ~InvitedRow(q).stashed
  BY DEF OwnerRow, InvitedRow, Members, Request, None

\* x is what a step of q makes of the membership m.
From(q, m, x) ==
    /\ x.id = m.id
    /\ x.workspace = m.workspace
    /\ x.user = m.user
    /\ x.isOwner = m.isOwner
    /\ x.isAccepted => m.isAccepted \/ (q.phase = "accept" /\ m.id = q.row)
    /\ x.invitationToken = m.invitationToken \/ x.invitationToken = None

\* x is the membership q creates.
Inserted(q, x) ==
    /\ x.id = q.id
    /\ x.workspace = q.row
    /\ x.user = q.user
    /\ Exists(q.row)
    /\ born' = born \cup {<<"member", q.id>>}
    /\ x.isAccepted => x.isOwner
    /\ \/ /\ q.phase = "createOwner"
          /\ x.isOwner /\ x.invitationToken = None
       \/ /\ q.phase = "createMember"
          /\ ~x.isOwner /\ x.invitationToken = q.id
          /\ ~Duplicate(q)
          /\ MoveTo(q, "mailInvitation")

\* The memberships after a step, by where they come from.
MemberSources(q) ==
    \A x \in members' :
        x \in Members /\ ((\E m \in members : From(q, m, x)) \/ Inserted(q, x))

\* The memberships before a step, by what became of them.
MemberFates(q) ==
    \A m \in members :
        \/ \E x \in members' : From(q, m, x)
        \/ \A x \in members' : x.id # m.id
        \/ \A w \in workspaces' : w.id # m.workspace

LEMMA MembersChange ==
    ASSUME TypeInv, NEW q \in active, Advance(q) \/ Abort(q)
    PROVE  MemberSources(q) /\ MemberFates(q)
<1>1. q \in Request /\ Sound(q) /\ members \subseteq Members
  BY DEF TypeInv, TypeOK
<1>2. \A m \in members : From(q, m, m)
  BY DEF From
<1>3. ASSUME UNCHANGED members PROVE MemberSources(q) /\ MemberFates(q)
  BY <1>1, <1>2, <1>3 DEF MemberSources, MemberFates
<1>4. CASE CreateOwner(q)
  <2>1. q.user \in Users
    BY <1>1, <1>4 DEF CreateOwner, Sound
  <2>2. CASE ~Exists(q.row)
    BY <1>3, <1>4, <2>2 DEF CreateOwner
  <2>3. CASE Exists(q.row)
    <3>1. members' = members \cup {OwnerRow(q)} /\ Inserted(q, OwnerRow(q))
      BY <1>1, <1>4, <2>1, <2>3, NewMembers DEF CreateOwner, Inserted
    <3>2. OwnerRow(q) \in Members
      BY <1>1, <2>1, NewMembers
    <3> QED
      BY <1>1, <1>2, <3>1, <3>2 DEF MemberSources, MemberFates
  <2> QED
    BY <2>2, <2>3
<1>5. CASE CreateMember(q)
  <2>1. q.user \in Users
    BY <1>1, <1>5 DEF CreateMember, Sound
  <2>2. CASE ~Insertable(q)
    BY <1>3, <1>5, <2>2 DEF CreateMember
  <2>3. CASE Insertable(q)
    <3>1. members' = members \cup {InvitedRow(q)} /\ Inserted(q, InvitedRow(q))
      BY <1>1, <1>5, <2>1, <2>3, NewMembers DEF CreateMember, Insertable, AfterInsert, Inserted
    <3>2. InvitedRow(q) \in Members
      BY <1>1, <2>1, NewMembers
    <3> QED
      BY <1>1, <1>2, <3>1, <3>2 DEF MemberSources, MemberFates
  <2> QED
    BY <2>2, <2>3
<1>6. CASE Accept(q)
  <2> DEFINE f(m) == [m EXCEPT !.isAccepted = TRUE, !.invitationToken = None]
  <2>1. \A m \in members : f(m) \in Members
    BY <1>1, AcceptedFields
  <2>2. \A m \in members : m.id = q.row => From(q, m, f(m))
    <3> SUFFICES ASSUME NEW m \in members, m.id = q.row PROVE From(q, m, f(m))
      OBVIOUS
    <3>1. /\ f(m).id = m.id /\ f(m).workspace = m.workspace /\ f(m).user = m.user
          /\ f(m).isOwner = m.isOwner /\ f(m).invitationToken = None
      BY <1>1, AcceptedFields
    <3> HIDE DEF f
    <3> QED
      BY <3>1, <1>6 DEF Accept, From
  <2>3. /\ \A x \in members' : x \in members \/ \E m \in members : m.id = q.row /\ x = f(m)
        /\ \A m \in members : IF m.id = q.row THEN f(m) \in members' ELSE m \in members'
    BY <1>6 DEF Accept, Accepted
  <2> HIDE DEF f
  <2> QED
    BY <1>1, <1>2, <2>1, <2>2, <2>3 DEF MemberSources, MemberFates
<1>7. CASE Deny(q)
  BY <1>1, <1>2, <1>7 DEF Deny, MemberSources, MemberFates
<1>8. ASSUME NEW stashed \in BOOLEAN, members' = Mark(members, q.row, stashed)
      PROVE  MemberSources(q) /\ MemberFates(q)
  <2> DEFINE f(m) == [m EXCEPT !.stashed = stashed]
  <2>1. \A m \in members : f(m) \in Members
    BY <1>1, MarkedMember
  <2>2. \A m \in members : From(q, m, f(m))
    <3> SUFFICES ASSUME NEW m \in members PROVE From(q, m, f(m))
      OBVIOUS
    <3>1. /\ f(m).id = m.id /\ f(m).workspace = m.workspace /\ f(m).user = m.user
          /\ f(m).isOwner = m.isOwner /\ f(m).invitationToken = m.invitationToken
          /\ f(m).isAccepted = m.isAccepted
      BY <1>1, MarkedMember
    <3> HIDE DEF f
    <3> QED
      BY <3>1 DEF From
  <2>3. /\ \A x \in members' : x \in members \/ \E m \in members : x = f(m)
        /\ \A m \in members : m \in members' \/ f(m) \in members'
    BY <1>8 DEF Mark
  <2> HIDE DEF f
  <2> QED
    BY <1>1, <1>2, <2>1, <2>2, <2>3 DEF MemberSources, MemberFates
<1>9. CASE StashRow(q)
  BY <1>3, <1>8, <1>9 DEF StashRow, SetStashed, tables
<1>10. CASE RestoreRow(q)
  BY <1>3, <1>8, <1>10 DEF RestoreRow, SetStashed
<1>11. CASE DestroyRow(q)
  <2>1. CASE q.table = "workspace"
    <3>1. /\ workspaces' = {w \in workspaces : w.id # q.row}
          /\ members' = {m \in members : m.workspace # q.row}
      BY <1>11, <2>1 DEF DestroyRow, Cascade
    <3> QED
      BY <1>1, <1>2, <3>1 DEF MemberSources, MemberFates
  <2>2. CASE q.table # "workspace"
    BY <1>1, <1>2, <1>11, <2>2 DEF DestroyRow, MemberSources, MemberFates
  <2> QED
    BY <2>1, <2>2
<1>12. CASE CreateWorkspace(q) \/ FindMember(q) \/ MailInvitation(q) \/ Rename(q)
            \/ Find(q) \/ Abort(q)
  BY <1>3, <1>12 DEF CreateWorkspace, FindMember, MailInvitation, Rename, Find, Abort, tables
<1> QED
  BY <1>4, <1>5, <1>6, <1>7, <1>9, <1>10, <1>11, <1>12 DEF Advance

\* The same for workspaces.
WorkspaceSources(q) ==
    \A x \in workspaces' :
        /\ x \in Workspaces
        /\ \/ \E w \in workspaces : x.id = w.id
           \/ /\ q.phase = "createWorkspace" /\ x.id = q.row
              /\ born' = born \cup {<<"workspace", q.row>>}
              /\ MoveTo(q, "createOwner")

WorkspaceFates(q) ==
    \A w \in workspaces :
        \/ \E x \in workspaces' : x.id = w.id
        \/ /\ q.phase = "destroy" /\ q.table = "workspace" /\ w.id = q.row
           /\ \A m \in members' : m.workspace # w.id

LEMMA WorkspacesChange ==
    ASSUME TypeInv, NEW q \in active, Advance(q) \/ Abort(q)
    PROVE  WorkspaceSources(q) /\ WorkspaceFates(q)
<1>1. q \in Request /\ Sound(q) /\ workspaces \subseteq Workspaces
  BY DEF TypeInv, TypeOK
<1>2. ASSUME UNCHANGED workspaces PROVE WorkspaceSources(q) /\ WorkspaceFates(q)
  BY <1>1, <1>2 DEF WorkspaceSources, WorkspaceFates
<1>3. CASE CreateWorkspace(q)
  <2> DEFINE r == [id |-> q.row, name |-> q.id, stashed |-> FALSE]
  <2>1. r \in Workspaces /\ r.id = q.row
    BY <1>1 DEF Workspaces, Request
  <2>2. workspaces' = workspaces \cup {r} /\ born' = born \cup {<<"workspace", q.row>>}
    BY <1>3 DEF CreateWorkspace
  <2> HIDE DEF r
  <2> QED
    BY <1>1, <1>3, <2>1, <2>2 DEF CreateWorkspace, WorkspaceSources, WorkspaceFates
<1>4. CASE Rename(q)
  <2> DEFINE f(w) == [w EXCEPT !.name = q.id]
  <2>1. \A w \in workspaces : f(w) \in Workspaces /\ f(w).id = w.id
    BY <1>1, RenamedWorkspace DEF Request
  <2>2. /\ \A x \in workspaces' : x \in workspaces \/ \E w \in workspaces : x = f(w)
        /\ \A w \in workspaces : w \in workspaces' \/ f(w) \in workspaces'
    BY <1>4 DEF Rename, Renamed
  <2> HIDE DEF f
  <2> QED
    BY <1>1, <2>1, <2>2 DEF WorkspaceSources, WorkspaceFates
<1>5. ASSUME NEW stashed \in BOOLEAN, workspaces' = Mark(workspaces, q.row, stashed)
      PROVE  WorkspaceSources(q) /\ WorkspaceFates(q)
  <2> DEFINE f(w) == [w EXCEPT !.stashed = stashed]
  <2>1. \A w \in workspaces : f(w) \in Workspaces /\ f(w).id = w.id
    BY <1>1, MarkedWorkspace
  <2>2. /\ \A x \in workspaces' : x \in workspaces \/ \E w \in workspaces : x = f(w)
        /\ \A w \in workspaces : w \in workspaces' \/ f(w) \in workspaces'
    BY <1>5 DEF Mark
  <2> HIDE DEF f
  <2> QED
    BY <1>1, <2>1, <2>2 DEF WorkspaceSources, WorkspaceFates
<1>6. CASE StashRow(q)
  BY <1>2, <1>5, <1>6 DEF StashRow, SetStashed, tables
<1>7. CASE RestoreRow(q)
  BY <1>2, <1>5, <1>7 DEF RestoreRow, SetStashed
<1>8. CASE DestroyRow(q)
  <2>1. CASE q.table = "workspace"
    <3>1. /\ workspaces' = {w \in workspaces : w.id # q.row}
          /\ members' = {m \in members : m.workspace # q.row}
          /\ q.phase = "destroy"
      BY <1>8, <2>1 DEF DestroyRow, Cascade
    <3> QED
      BY <1>1, <2>1, <3>1 DEF WorkspaceSources, WorkspaceFates
  <2>2. CASE q.table # "workspace"
    BY <1>2, <1>8, <2>2 DEF DestroyRow
  <2> QED
    BY <2>1, <2>2
<1>9. CASE CreateOwner(q) \/ FindMember(q) \/ CreateMember(q) \/ MailInvitation(q)
           \/ Accept(q) \/ Deny(q) \/ Find(q) \/ Abort(q)
  BY <1>2, <1>9 DEF CreateOwner, FindMember, CreateMember, MailInvitation, Accept, Deny,
                    Find, Abort, tables
<1> QED
  BY <1>3, <1>4, <1>6, <1>7, <1>8, <1>9 DEF Advance

\* What is only observed.
GhostsChange(q) ==
    /\ \/ born' = born
       \/ q.phase = "createWorkspace" /\ born' = born \cup {<<"workspace", q.row>>}
       \/ q.phase \in {"createOwner", "createMember"} /\ born' = born \cup {<<"member", q.id>>}
    /\ mails' = mails \/ (q.phase = "mailInvitation" /\ mails' = mails \cup {q.id})
    /\ cut \subseteq cut' /\ cut' \subseteq cut \cup {q.id}
    /\ q.phase = "mailInvitation" => q.id \in mails' \cup cut'
    /\ crossed \subseteq crossed' /\ crossed' \subseteq crossed \cup {p.id : p \in active}

LEMMA GhostsChanged ==
    ASSUME NEW q \in active, Advance(q) \/ Abort(q)
    PROVE  GhostsChange(q)
<1>1. CASE CreateWorkspace(q)
  BY <1>1 DEF CreateWorkspace, GhostsChange
<1>2. CASE CreateOwner(q)
  BY <1>2 DEF CreateOwner, GhostsChange
<1>3. CASE CreateMember(q)
  BY <1>3 DEF CreateMember, GhostsChange
<1>4. CASE MailInvitation(q)
  BY <1>4 DEF MailInvitation, GhostsChange
<1>5. CASE RestoreRow(q)
  BY <1>5 DEF RestoreRow, GhostsChange
<1>6. CASE Abort(q)
  BY <1>6 DEF Abort, GhostsChange
<1>7. CASE FindMember(q) \/ Accept(q) \/ Deny(q) \/ Rename(q) \/ Find(q) \/ StashRow(q)
           \/ DestroyRow(q)
  BY <1>7 DEF FindMember, Accept, Deny, Rename, Find, StashRow, DestroyRow, ghostVars,
              GhostsChange
<1> QED
  BY <1>1, <1>2, <1>3, <1>4, <1>5, <1>6, <1>7 DEF Advance

-----------------------------------------------------------------------------
(* Types                                                                   *)

LEMMA TypeInit == Init => TypeInv
  BY DEF Init, TypeInv, TypeOK

LEMMA TypeStep ==
    ASSUME TypeInv, [Next]_vars
    PROVE  TypeInv'
<1>1. CASE UNCHANGED vars
  BY <1>1 DEF vars, TypeInv, TypeOK, Sound
<1>2. CASE Begin
  <2>1. PICK r \in Request : Starts(r) /\ active' = active \cup {r}
    BY <1>2, RequestStarts
  <2>2. \A q \in active' : q \in Request /\ Sound(q)
    BY <2>1 DEF Starts, TypeInv, TypeOK
  <2>3. serial' \in Nat
    BY <1>2, RequestStarts DEF TypeInv, TypeOK
  <2>4. UNCHANGED <<workspaces, members, mails, born, cut, crossed>>
    BY <1>2, RequestStarts
  <2> QED
    BY <2>2, <2>3, <2>4 DEF TypeInv, TypeOK, Sound
<1>3. ASSUME NEW q \in active, Advance(q) \/ Abort(q) PROVE TypeInv'
  <2>1. q \in Request /\ Sound(q) /\ q.id \in Nat /\ q.row \in Nat
    BY DEF TypeInv, TypeOK, Request
  <2>2. \A p \in active' : p \in Request /\ Sound(p)
    <3>1. ASSUME NEW r \in Request, Moves(q, r) PROVE Sound(r)
      BY <2>1, <3>1 DEF Moves, Same, Follows, Sound
    <3>2. CASE Leave(q)
      BY <3>2 DEF Leave, TypeInv, TypeOK
    <3>3. ASSUME NEW r \in Request, Moves(q, r)
          PROVE  \A p \in active' : p \in Request /\ Sound(p)
      <4>1. Sound(r) /\ active' = (active \ {q}) \cup {r}
        BY <3>1, <3>3 DEF Moves
      <4>2. \A p \in active : p \in Request /\ Sound(p)
        BY DEF TypeInv, TypeOK
      <4> HIDE DEF Request
      <4> QED
        BY <4>1, <4>2
    <3> QED
      BY <1>3, <3>2, <3>3, RequestMoves
  <2>3. serial' \in Nat
    BY <1>3, RequestMoves DEF TypeInv, TypeOK
  <2>4. members' \subseteq Members /\ workspaces' \subseteq Workspaces
    BY <1>3, MembersChange, WorkspacesChange DEF MemberSources, WorkspaceSources
  <2>5. /\ mails' \subseteq Nat /\ born' \subseteq Tables \X Nat
        /\ cut' \subseteq Nat /\ crossed' \subseteq Nat
    <3>1. \A p \in active : p.id \in Nat
      BY DEF TypeInv, TypeOK, Request
    <3>2. GhostsChange(q)
      BY <1>3, GhostsChanged
    <3>3. mails' \subseteq Nat /\ cut' \subseteq Nat
      BY <2>1, <3>2 DEF GhostsChange, TypeInv, TypeOK
    <3>4. crossed' \subseteq Nat
      BY <3>1, <3>2 DEF GhostsChange, TypeInv, TypeOK
    <3>5. born' \subseteq Tables \X Nat
      BY <2>1, <3>2 DEF GhostsChange, TypeInv, TypeOK, Tables
    <3> QED
      BY <3>3, <3>4, <3>5
  <2> QED
    BY <2>2, <2>3, <2>4, <2>5 DEF TypeInv, TypeOK, Sound
<1> QED
  BY <1>1, <1>2, <1>3 DEF Next, Begin

\* Every variable keeps its type, for any users and bounds.
THEOREM TypeCorrect == Spec => []TypeOK
<1>1. TypeInv => TypeOK
  BY DEF TypeInv
<1> QED
  BY TypeInit, TypeStep, <1>1, PTL DEF Spec

LEMMA Typed == Spec => []TypeInv
  BY TypeInit, TypeStep, PTL DEF Spec

-----------------------------------------------------------------------------
(* Numbers                                                                 *)

\* Every request has its number, and what was created has the number of a
\* request: of one that has ended, or has done that write.
MintInv ==
    /\ \A q \in active : q.id \in 1..serial
    /\ \A p, q \in active : p.id = q.id => p = q
    /\ \A b \in born : b[2] \in 1..serial
    /\ \A w \in workspaces : <<"workspace", w.id>> \in born
    /\ \A m \in members : <<"member", m.id>> \in born
    /\ \A q \in active : <<"workspace", q.id>> \in born => q.phase = "createOwner"
    /\ \A q \in active : <<"member", q.id>> \in born => q.phase = "mailInvitation"
    /\ \A q \in active : q.phase \in {"accept", "deny", "rename", "find", "stash",
                                      "destroy", "restore"}
          => <<q.table, q.row>> \in born

LEMMA MintInit == Init => MintInv
  BY DEF Init, MintInv

LEMMA MintStep ==
    ASSUME TypeInv, MintInv, [Next]_vars
    PROVE  MintInv'
<1>0. serial \in Nat /\ active \subseteq Request /\ born \subseteq Tables \X Nat
  BY DEF TypeInv, TypeOK
<1>1. CASE UNCHANGED vars
  BY <1>1 DEF vars, MintInv
<1>2. CASE Begin
  <2>1. PICK r \in Request : Starts(r) /\ active' = active \cup {r}
    BY <1>2, RequestStarts
  <2>2. serial' = serial + 1 /\ UNCHANGED <<workspaces, members, mails, born, cut, crossed>>
    BY <1>2, RequestStarts
  <2>3. r.id = serial + 1
    BY <2>1 DEF Starts
  <2>4. \A t : <<t, serial + 1>> \notin born
    BY <1>0 DEF MintInv
  <2>5. r.phase \in {"accept", "deny", "rename", "find", "stash", "destroy", "restore"}
           => <<r.table, r.row>> \in born
    <3>1. \A t \in Tables : \A i \in Ids(t) : <<t, i>> \in born
      BY DEF Tables, Ids, MintInv
    <3> QED
      BY <2>1, <3>1 DEF Starts, Request
  <2>6. \A q \in active' : q.id \in 1..serial'
    BY <1>0, <2>1, <2>2, <2>3 DEF MintInv
  <2>7. \A p, q \in active' : p.id = q.id => p = q
    BY <1>0, <2>1, <2>3 DEF MintInv
  <2>8. \A b \in born' : b[2] \in 1..serial'
    BY <1>0, <2>2 DEF MintInv
  <2> QED
    BY <2>1, <2>2, <2>3, <2>4, <2>5, <2>6, <2>7, <2>8 DEF MintInv
<1>3. ASSUME NEW q \in active, Advance(q) \/ Abort(q) PROVE MintInv'
  <2>1. q \in Request /\ Sound(q) /\ q.id \in 1..serial
    BY DEF TypeInv, TypeOK, MintInv
  <2>2. serial' = serial /\ (Leave(q) \/ \E r \in Request : Moves(q, r))
    BY <1>3, RequestMoves
  <2>3. \A p \in active' : \/ p \in active /\ p.id # q.id
                           \/ Same(q, p) /\ Follows(q, p)
    BY <2>2 DEF Leave, Moves, MintInv
  <2>4. \A p, r \in active' : p.id = r.id => p = r
    <3>1. CASE Leave(q)
      BY <3>1 DEF Leave, MintInv
    <3>2. ASSUME NEW r \in Request, Moves(q, r)
          PROVE  \A p, s \in active' : p.id = s.id => p = s
      BY <3>2 DEF Moves, Same, MintInv
    <3> QED
      BY <2>2, <3>1, <3>2
  <2>5. GhostsChange(q) /\ MemberSources(q) /\ WorkspaceSources(q)
    BY <1>3, GhostsChanged, MembersChange, WorkspacesChange
  <2>6. /\ born \subseteq born'
        /\ \A b \in born' : \/ b \in born
                            \/ b = <<"workspace", q.id>> /\ q.phase = "createWorkspace"
                            \/ b = <<"member", q.id>>
                                 /\ q.phase \in {"createOwner", "createMember"}
    BY <2>1, <2>5 DEF GhostsChange, Sound
  <2>7. \A p \in active' : p.id \in 1..serial'
    BY <2>1, <2>2, <2>3 DEF MintInv, Same
  <2>8. \A b \in born' : b[2] \in 1..serial'
    BY <2>1, <2>2, <2>6 DEF MintInv
  <2>9. \A w \in workspaces' : <<"workspace", w.id>> \in born'
    BY <2>5, <2>6 DEF WorkspaceSources, MintInv
  <2>10. \A m \in members' : <<"member", m.id>> \in born'
    <3>1. ASSUME NEW x \in members' PROVE <<"member", x.id>> \in born'
      <4>1. CASE \E m \in members : From(q, m, x)
        BY <2>6, <4>1 DEF From, MintInv
      <4>2. CASE Inserted(q, x)
        BY <4>2 DEF Inserted
      <4> QED
        BY <2>5, <4>1, <4>2 DEF MemberSources
    <3> QED
      BY <3>1
  <2>11. \A p \in active' : <<"workspace", p.id>> \in born' => p.phase = "createOwner"
    BY <2>3, <2>6 DEF Same, Follows, MintInv
  <2>12. \A p \in active' : <<"member", p.id>> \in born' => p.phase = "mailInvitation"
    BY <2>3, <2>6 DEF Same, Follows, MintInv
  <2>13. \A p \in active' : p.phase \in {"accept", "deny", "rename", "find", "stash",
                                         "destroy", "restore"}
            => <<p.table, p.row>> \in born'
    BY <2>3, <2>6 DEF Same, Follows, MintInv
  <2> QED
    BY <2>4, <2>7, <2>8, <2>9, <2>10, <2>11, <2>12, <2>13 DEF MintInv
<1> QED
  BY <1>1, <1>2, <1>3 DEF Next, Begin

LEMMA Minted == Spec => []MintInv
  BY Typed, MintInit, MintStep, PTL DEF Spec

-----------------------------------------------------------------------------
(* Primary keys                                                            *)

Unique(rows) == \A x, y \in rows : x.id = y.id => x = y

UniqueInv == Unique(workspaces) /\ Unique(members)

LEMMA MarkUnique ==
    ASSUME NEW rows, Unique(rows), NEW i, NEW b \in BOOLEAN,
           \A r \in rows : [r EXCEPT !.stashed = b].id = r.id
    PROVE  Unique(Mark(rows, i, b))
<1> DEFINE f(r) == IF r.id = i THEN [r EXCEPT !.stashed = b] ELSE r
<1>1. \A r \in rows : f(r).id = r.id
  OBVIOUS
<1>2. \A x \in Mark(rows, i, b) : \E r \in rows : x = f(r)
  BY DEF Mark
<1> HIDE DEF f
<1> QED
  BY <1>1, <1>2 DEF Unique

LEMMA AddUnique ==
    ASSUME NEW rows, Unique(rows), NEW x, \A r \in rows : r.id # x.id
    PROVE  Unique(rows \cup {x})
  BY DEF Unique

LEMMA SubUnique ==
    ASSUME NEW rows, Unique(rows), NEW rows2, rows2 \subseteq rows
    PROVE  Unique(rows2)
  BY DEF Unique

LEMMA UniqueStep ==
    ASSUME TypeInv, MintInv, UniqueInv, [Next]_vars
    PROVE  UniqueInv'
<1>1. CASE UNCHANGED vars
  BY <1>1 DEF vars, UniqueInv, Unique
<1>2. CASE Begin
  BY <1>2, RequestStarts DEF UniqueInv, Unique
<1>3. ASSUME NEW q \in active, Advance(q) \/ Abort(q) PROVE UniqueInv'
  <2>0. q \in Request /\ Sound(q) /\ members \subseteq Members /\ workspaces \subseteq Workspaces
    BY DEF TypeInv, TypeOK
  <2>1. ASSUME NEW b \in BOOLEAN
        PROVE  Unique(Mark(members, q.row, b)) /\ Unique(Mark(workspaces, q.row, b))
    <3>1. \A m \in members : [m EXCEPT !.stashed = b].id = m.id
      BY <2>0, MarkedMember
    <3>2. \A w \in workspaces : [w EXCEPT !.stashed = b].id = w.id
      BY <2>0, MarkedWorkspace
    <3> QED
      BY <3>1, <3>2, MarkUnique DEF UniqueInv
  <2>2. ASSUME Unique(workspaces'), Unique(members') PROVE UniqueInv'
    BY <2>2 DEF UniqueInv, Unique
  <2>3. CASE CreateWorkspace(q)
    <3> DEFINE x == [id |-> q.row, name |-> q.id, stashed |-> FALSE]
    <3>1. q.row = q.id /\ \A w \in workspaces : w.id # q.id
      BY <2>0, <2>3 DEF CreateWorkspace, Sound, MintInv
    <3>2. workspaces' = workspaces \cup {x} /\ UNCHANGED members
      BY <2>3 DEF CreateWorkspace
    <3>3. x.id = q.row
      OBVIOUS
    <3> HIDE DEF x
    <3> QED
      BY <2>2, <3>1, <3>2, <3>3, AddUnique DEF UniqueInv
  <2>4. CASE CreateOwner(q)
    <3>1. OwnerRow(q).id = q.id /\ \A m \in members : m.id # q.id
      BY <2>0, <2>4, NewMembers DEF CreateOwner, Sound, MintInv
    <3>2. UNCHANGED workspaces
            /\ (UNCHANGED members \/ members' = members \cup {OwnerRow(q)})
      BY <2>4 DEF CreateOwner
    <3> QED
      BY <2>2, <3>1, <3>2, AddUnique DEF UniqueInv
  <2>5. CASE CreateMember(q)
    <3>1. InvitedRow(q).id = q.id /\ \A m \in members : m.id # q.id
      BY <2>0, <2>5, NewMembers DEF CreateMember, Sound, MintInv
    <3>2. UNCHANGED workspaces
            /\ (UNCHANGED members \/ members' = members \cup {InvitedRow(q)})
      BY <2>5 DEF CreateMember
    <3> QED
      BY <2>2, <3>1, <3>2, AddUnique DEF UniqueInv
  <2>6. CASE Accept(q)
    <3> DEFINE f(m) == [m EXCEPT !.isAccepted = TRUE, !.invitationToken = None]
    <3>1. \A m \in members : f(m).id = m.id
      BY <2>0, AcceptedFields
    <3>2. /\ \A x \in members' : \/ x \in members /\ x.id # q.row
                                 \/ \E m \in members : m.id = q.row /\ x = f(m)
          /\ UNCHANGED workspaces
      BY <2>6 DEF Accept, Accepted
    <3> HIDE DEF f
    <3>3. Unique(members')
      BY <3>1, <3>2 DEF UniqueInv, Unique
    <3> QED
      BY <2>2, <3>2, <3>3 DEF UniqueInv
  <2>7. CASE Rename(q)
    <3> DEFINE f(w) == [w EXCEPT !.name = q.id]
    <3>1. \A w \in workspaces : f(w).id = w.id
      BY <2>0, RenamedWorkspace DEF Request
    <3>2. /\ \A x \in workspaces' : \/ x \in workspaces /\ x.id # q.row
                                    \/ \E w \in workspaces : w.id = q.row /\ x = f(w)
          /\ UNCHANGED members
      BY <2>7 DEF Rename, Renamed
    <3> HIDE DEF f
    <3>3. Unique(workspaces')
      BY <3>1, <3>2 DEF UniqueInv, Unique
    <3> QED
      BY <2>2, <3>2, <3>3 DEF UniqueInv
  <2>8. CASE Deny(q)
    BY <2>2, <2>8, SubUnique DEF Deny, UniqueInv
  <2>9. CASE StashRow(q)
    BY <2>1, <2>2, <2>9 DEF StashRow, SetStashed, tables, UniqueInv
  <2>10. CASE RestoreRow(q)
    BY <2>1, <2>2, <2>10 DEF RestoreRow, SetStashed, UniqueInv
  <2>11. CASE DestroyRow(q)
    BY <2>2, <2>11, SubUnique DEF DestroyRow, Cascade, UniqueInv
  <2>12. CASE FindMember(q) \/ MailInvitation(q) \/ Find(q) \/ Abort(q)
    BY <2>2, <2>12 DEF FindMember, MailInvitation, Find, Abort, tables, UniqueInv
  <2> QED
    BY <1>3, <2>3, <2>4, <2>5, <2>6, <2>7, <2>8, <2>9, <2>10, <2>11, <2>12 DEF Advance
<1> QED
  BY <1>1, <1>2, <1>3 DEF Next, Begin

LEMMA Keyed == Spec => []UniqueInv
<1>1. Init => UniqueInv
  BY DEF Init, UniqueInv, Unique
<1> QED
  BY Typed, Minted, <1>1, UniqueStep, PTL DEF Spec

-----------------------------------------------------------------------------
(* Members and invitations                                                 *)

\* An invitation is answered by its own mail: what the accept under way will
\* write was mailed.
BelongInv ==
    /\ \A m \in members : m.invitationToken \in {None, m.id}
    /\ None \notin mails
    /\ \A q \in active : q.phase = "accept" => q.row \in mails
    /\ AcceptedWasInvited
    /\ MembersHaveWorkspace

LEMMA BelongInit == Init => BelongInv
  BY DEF Init, BelongInv, AcceptedWasInvited, MembersHaveWorkspace

LEMMA BelongStep ==
    ASSUME TypeInv, MintInv, BelongInv, [Next]_vars
    PROVE  BelongInv'
<1>1. CASE UNCHANGED vars
  BY <1>1 DEF vars, BelongInv, AcceptedWasInvited, MembersHaveWorkspace, Exists
<1>2. CASE Begin
  <2>1. PICK r \in Request : Starts(r) /\ active' = active \cup {r}
    BY <1>2, RequestStarts
  <2>2. UNCHANGED <<workspaces, members, mails, born, cut, crossed>>
    BY <1>2, RequestStarts
  <2>3. r.phase = "accept" => r.row \in mails
    BY <2>1 DEF Starts, BelongInv
  <2> QED
    BY <2>1, <2>2, <2>3 DEF BelongInv, AcceptedWasInvited, MembersHaveWorkspace, Exists
<1>3. ASSUME NEW q \in active, Advance(q) \/ Abort(q) PROVE BelongInv'
  <2>1. /\ GhostsChange(q) /\ MemberSources(q) /\ WorkspaceFates(q)
        /\ q.id # None /\ q.row \in Nat
    BY <1>3, GhostsChanged, MembersChange, WorkspacesChange
       DEF MintInv, None, TypeInv, TypeOK, Request
  <2>2. mails \subseteq mails' /\ None \notin mails'
    BY <2>1 DEF GhostsChange, BelongInv
  <2>3. \A p \in active' : p.phase = "accept" => p.row \in mails'
    <3>1. \A p \in active' : p.phase = "accept" => p \in active
      BY <1>3, RequestMoves DEF Leave, Moves, Follows, Sound, TypeInv
    <3> QED
      BY <2>2, <3>1 DEF BelongInv
  <2>4. ASSUME NEW x \in members'
        PROVE  /\ x.invitationToken \in {None, x.id}
               /\ x.isAccepted => x.isOwner \/ x.id \in mails'
               /\ Exists(x.workspace)'
    <3>1. CASE \E m \in members : From(q, m, x)
      <4>1. PICK m \in members : From(q, m, x)
        BY <3>1
      <4>2. x.id = m.id /\ x.workspace = m.workspace /\ x.isOwner = m.isOwner
        BY <4>1 DEF From
      <4>3. x.invitationToken \in {None, x.id}
        BY <4>1, <4>2 DEF From, BelongInv
      <4>4. x.isAccepted => m.isAccepted \/ x.id \in mails
        BY <4>1 DEF From, BelongInv
      <4>5. m.isAccepted => m.isOwner \/ m.id \in mails
        BY DEF BelongInv, AcceptedWasInvited
      <4>6. PICK w \in workspaces : w.id = m.workspace
        BY DEF BelongInv, MembersHaveWorkspace, Exists
      <4>7. \E y \in workspaces' : y.id = w.id
        BY <2>1, <4>2, <4>6 DEF WorkspaceFates
      <4> QED
        BY <2>2, <4>2, <4>3, <4>4, <4>5, <4>6, <4>7 DEF Exists
    <3>2. CASE Inserted(q, x)
      <4>1. /\ x.id = q.id /\ x.workspace = q.row /\ Exists(q.row)
            /\ x.isAccepted => x.isOwner
            /\ x.invitationToken \in {None, x.id}
        BY <3>2 DEF Inserted
      <4>2. PICK w \in workspaces : w.id = q.row
        BY <4>1 DEF Exists
      <4>3. \E y \in workspaces' : y.id = w.id
        BY <2>1, <4>1, <4>2 DEF WorkspaceFates
      <4> QED
        BY <4>1, <4>2, <4>3 DEF Exists
    <3> QED
      BY <2>1, <3>1, <3>2 DEF MemberSources
  <2> QED
    BY <2>2, <2>3, <2>4 DEF BelongInv, AcceptedWasInvited, MembersHaveWorkspace
<1> QED
  BY <1>1, <1>2, <1>3 DEF Next, Begin

Inviting(q) == q.phase \in {"findMember", "createMember"}

\* Until the owner's row is there nobody can have been invited.
OnceInv ==
    /\ \A m, n \in members : m.workspace = n.workspace /\ m.user = n.user => m.id = n.id
    /\ \A q \in active : Inviting(q) => <<"workspace", q.row>> \in born
    /\ \A q \in active : q.phase = "createOwner" =>
          /\ \A m \in members : m.workspace # q.row
          /\ \A r \in active : Inviting(r) => r.row # q.row

LEMMA OnceStep ==
    ASSUME TypeInv, MintInv, BelongInv, OnceInv, [Next]_vars
    PROVE  OnceInv'
<1>0. \A m \in members : <<"workspace", m.workspace>> \in born
  BY DEF BelongInv, MembersHaveWorkspace, Exists, MintInv
<1>1. CASE UNCHANGED vars
  BY <1>1 DEF vars, OnceInv
<1>2. CASE Begin
  <2>1. PICK r \in Request : Starts(r) /\ active' = active \cup {r}
    BY <1>2, RequestStarts
  <2>2. UNCHANGED <<workspaces, members, mails, born, cut, crossed>>
    BY <1>2, RequestStarts
  <2>3. r.phase # "createOwner" /\ (Inviting(r) => \E m \in members : m.workspace = r.row)
    BY <2>1 DEF Starts, Inviting
  <2>4. \A q \in active' : Inviting(q) => <<"workspace", q.row>> \in born
    BY <1>0, <2>1, <2>3 DEF OnceInv
  <2>5. ASSUME NEW q \in active', q.phase = "createOwner"
        PROVE  /\ \A m \in members : m.workspace # q.row
               /\ \A p \in active' : Inviting(p) => p.row # q.row
    BY <2>1, <2>3, <2>5 DEF OnceInv
  <2> QED
    BY <2>2, <2>4, <2>5 DEF OnceInv, Inviting
<1>3. ASSUME NEW q \in active, Advance(q) \/ Abort(q) PROVE OnceInv'
  <2>1. GhostsChange(q) /\ MemberSources(q)
    BY <1>3, GhostsChanged, MembersChange
  <2>2. born \subseteq born'
    BY <2>1 DEF GhostsChange
  <2>3. \A p \in active' : (p \in active /\ p # q) \/ (Same(q, p) /\ Follows(q, p))
    BY <1>3, RequestMoves DEF Leave, Moves
  <2>4. \A x \in members' : (\E m \in members : From(q, m, x)) \/ Inserted(q, x)
    BY <2>1 DEF MemberSources
  <2>5. ASSUME NEW x \in members', Inserted(q, x), NEW m \in members
        PROVE  ~(x.workspace = m.workspace /\ x.user = m.user)
    BY <2>5 DEF Inserted, Duplicate, OnceInv
  <2>6. ASSUME NEW x \in members', NEW y \in members',
               x.workspace = y.workspace, x.user = y.user
        PROVE  x.id = y.id
    <3>1. CASE Inserted(q, x) /\ Inserted(q, y)
      BY <3>1 DEF Inserted
    <3>2. ASSUME NEW m \in members, From(q, m, x), Inserted(q, y) PROVE FALSE
      <4>1. m.workspace = x.workspace /\ m.user = x.user
        BY <3>2 DEF From
      <4> QED
        BY <2>5, <2>6, <3>2, <4>1
    <3>3. ASSUME NEW m \in members, From(q, m, y), Inserted(q, x) PROVE FALSE
      <4>1. m.workspace = y.workspace /\ m.user = y.user
        BY <3>3 DEF From
      <4> QED
        BY <2>5, <2>6, <3>3, <4>1
    <3>4. ASSUME NEW m \in members, NEW n \in members, From(q, m, x), From(q, n, y)
          PROVE  x.id = y.id
      <4>1. /\ x.id = m.id /\ x.workspace = m.workspace /\ x.user = m.user
            /\ y.id = n.id /\ y.workspace = n.workspace /\ y.user = n.user
        BY <3>4 DEF From
      <4>2. m.workspace = n.workspace /\ m.user = n.user => m.id = n.id
        BY DEF OnceInv
      <4> QED
        BY <2>6, <4>1, <4>2
    <3> QED
      BY <2>4, <3>1, <3>2, <3>3, <3>4
  <2>7. \A p \in active' : Inviting(p) => \E r \in active : Inviting(r) /\ p.row = r.row
    BY <2>3 DEF Same, Follows, Inviting, Sound, TypeInv
  <2>8. \A p \in active' : Inviting(p) => <<"workspace", p.row>> \in born'
    BY <2>2, <2>7 DEF OnceInv
  <2>9. ASSUME NEW p \in active', p.phase = "createOwner"
        PROVE  /\ \A x \in members' : x.workspace # p.row
               /\ \A r \in active' : Inviting(r) => r.row # p.row
    <3>1. CASE p \in active /\ p # q
      <4>1. /\ \A m \in members : m.workspace # p.row
            /\ \A r \in active : Inviting(r) => r.row # p.row
        BY <2>9, <3>1 DEF OnceInv
      <4>2. ASSUME NEW x \in members', Inserted(q, x) PROVE x.workspace # p.row
        <5>1. CASE q.phase = "createMember"
          BY <4>1, <4>2, <5>1 DEF Inserted, Inviting
        <5>2. CASE q.phase = "createOwner"
          <6>1. q.row = q.id /\ p.row = p.id /\ p.id # q.id
            BY <2>9, <3>1, <5>2 DEF TypeInv, Sound, MintInv
          <6> QED
            BY <4>2, <6>1 DEF Inserted
        <5> QED
          BY <4>2, <5>1, <5>2 DEF Inserted
      <4>3. \A x \in members' : x.workspace # p.row
        BY <2>4, <4>1, <4>2 DEF From
      <4> QED
        BY <2>7, <4>1, <4>3
    <3>2. CASE Same(q, p) /\ Follows(q, p)
      <4>1. q.phase = "createWorkspace" /\ p.row = q.row /\ q.row = q.id
        BY <2>9, <3>2 DEF Same, Follows, Sound, TypeInv
      <4>2. <<"workspace", p.row>> \notin born
        BY <4>1 DEF MintInv
      <4>3. \A x \in members' : ~Inserted(q, x)
        BY <4>1 DEF Inserted
      <4>4. \A x \in members' : x.workspace # p.row
        BY <1>0, <2>4, <4>2, <4>3 DEF From
      <4> QED
        BY <2>7, <4>2, <4>4 DEF OnceInv
    <3> QED
      BY <2>3, <3>1, <3>2
  <2> QED
    BY <2>6, <2>8, <2>9 DEF OnceInv, Inviting
<1> QED
  BY <1>1, <1>2, <1>3 DEF Next, Begin

\* Nobody becomes a member unasked, or twice, or of a workspace that is gone,
\* whatever invitations were under way.
THEOREM MembersAlwaysBelong == Spec => []MembersBelong
<1>1. UniqueInv /\ BelongInv /\ OnceInv => MembersBelong
  BY DEF UniqueInv, Unique, BelongInv, OnceInv, OneMembershipEach, MembersBelong
<1>2. Init => OnceInv
  BY DEF Init, OnceInv
<1> QED
  BY Typed, Minted, Keyed, BelongInit, BelongStep, <1>2, OnceStep, <1>1, PTL DEF Spec

\* The membership of an invitation in flight has its number.
PendingInv ==
    /\ \A m \in members : m.invitationToken \in {None, m.id}
    /\ PendingHasMail

LEMMA PendingStep ==
    ASSUME TypeInv, MintInv, PendingInv, [Next]_vars
    PROVE  PendingInv'
<1>1. CASE UNCHANGED vars
  BY <1>1 DEF vars, PendingInv, PendingHasMail
<1>2. CASE Begin
  <2>1. \E r \in Request : active' = active \cup {r}
    BY <1>2, RequestStarts
  <2>2. UNCHANGED <<workspaces, members, mails, born, cut, crossed>>
    BY <1>2, RequestStarts
  <2> QED
    BY <2>1, <2>2 DEF PendingInv, PendingHasMail
<1>3. ASSUME NEW q \in active, Advance(q) \/ Abort(q) PROVE PendingInv'
  <2>1. GhostsChange(q) /\ MemberSources(q)
    BY <1>3, GhostsChanged, MembersChange
  <2>2. \A p \in active : p # q => p \in active'
    BY <1>3, RequestMoves DEF Leave, Moves
  <2>3. ASSUME NEW x \in members'
        PROVE  /\ x.invitationToken \in {None, x.id}
               /\ x.invitationToken # None =>
                     x.id \in mails' \cup cut' \cup {p.id : p \in active'}
    <3>1. CASE \E m \in members : From(q, m, x)
      <4>1. PICK m \in members : From(q, m, x)
        BY <3>1
      <4>2. /\ x.id = m.id
            /\ x.invitationToken = m.invitationToken \/ x.invitationToken = None
        BY <4>1 DEF From
      <4>3. m.invitationToken \in {None, m.id}
        BY DEF PendingInv
      <4>4. ASSUME m.invitationToken # None
            PROVE  m.id \in mails' \cup cut' \cup {p.id : p \in active'}
        <5>1. CASE m.id \in mails \cup cut
          BY <2>1, <5>1 DEF GhostsChange
        <5>2. CASE m.id = q.id
          <6>1. q.phase = "mailInvitation"
            BY <5>2 DEF MintInv
          <6> QED
            BY <2>1, <5>2, <6>1 DEF GhostsChange
        <5>3. ASSUME NEW p \in active, p.id = m.id, p # q
              PROVE  m.id \in {r.id : r \in active'}
          BY <2>2, <5>3
        <5> QED
          BY <4>4, <5>1, <5>2, <5>3 DEF PendingInv, PendingHasMail
      <4> QED
        BY <4>2, <4>3, <4>4
    <3>2. CASE Inserted(q, x)
      <4>1. x.id = q.id /\ x.invitationToken \in {None, x.id}
        BY <3>2 DEF Inserted
      <4>2. CASE MoveTo(q, "mailInvitation")
        <5> DEFINE r == [q EXCEPT !.phase = "mailInvitation"]
        <5>1. r \in active' /\ r.id = q.id
          BY <4>2, MovedRequest DEF MoveTo, TypeInv, TypeOK, Phases, Same
        <5> QED
          BY <4>1, <5>1
      <4>3. CASE x.invitationToken = None
        BY <4>1, <4>3
      <4> QED
        BY <3>2, <4>2, <4>3 DEF Inserted
    <3> QED
      BY <2>1, <3>1, <3>2 DEF MemberSources
  <2> QED
    BY <2>3 DEF PendingInv, PendingHasMail
<1> QED
  BY <1>1, <1>2, <1>3 DEF Next, Begin

\* sendInvitation: whoever has an invitation can answer it, unless the request
\* died before its mail was sent.
THEOREM PendingAlwaysHasMail == Spec => []PendingHasMail
<1>1. Init => PendingInv
  BY DEF Init, PendingInv, PendingHasMail
<1>2. PendingInv => PendingHasMail
  BY DEF PendingInv
<1> QED
  BY Typed, Minted, <1>1, PendingStep, <1>2, PTL DEF Spec

-----------------------------------------------------------------------------
(* Owners                                                                  *)

OwnedInv ==
    /\ \A m \in members : m.isOwner => m.id = m.workspace
    /\ OwnedUnlessCut

\* The second create of createWorkspace happens, or the request dies, or the
\* workspace is gone already.
LEMMA OwnerCreated ==
    ASSUME TypeInv, NEW q \in active, Advance(q) \/ Abort(q), q.phase = "createOwner",
           Exists(q.row)
    PROVE  q.id \in cut' \/ \E x \in members' : x.isOwner /\ x.workspace = q.row
<1>1. q \in Request /\ q.user \in Users
  BY DEF TypeInv, TypeOK, Sound
<1>2. CASE Abort(q)
  BY <1>2 DEF Abort
<1>3. CASE CreateOwner(q)
  <2>1. OwnerRow(q) \in members'
    BY <1>3 DEF CreateOwner
  <2> QED
    BY <1>1, <2>1, NewMembers
<1> QED
  BY <1>2, <1>3 DEF Advance, CreateWorkspace, FindMember, CreateMember, MailInvitation,
     Accept, Deny, Rename, Find, StashRow, RestoreRow, DestroyRow

LEMMA OwnedStep ==
    ASSUME TypeInv, MintInv, OwnedInv, [Next]_vars
    PROVE  OwnedInv'
<1>1. CASE UNCHANGED vars
  BY <1>1 DEF vars, OwnedInv, OwnedUnlessCut
<1>2. CASE Begin
  <2>1. \E r \in Request : active' = active \cup {r}
    BY <1>2, RequestStarts
  <2>2. UNCHANGED <<workspaces, members, mails, born, cut, crossed>>
    BY <1>2, RequestStarts
  <2> QED
    BY <2>1, <2>2 DEF OwnedInv, OwnedUnlessCut
<1>3. ASSUME NEW q \in active, Advance(q) \/ Abort(q) PROVE OwnedInv'
  <2>1. /\ GhostsChange(q) /\ MemberSources(q) /\ MemberFates(q) /\ WorkspaceSources(q)
        /\ Sound(q) /\ q \in Request
    BY <1>3, GhostsChanged, MembersChange, WorkspacesChange DEF TypeInv, TypeOK
  <2>2. \A p \in active : p # q => p \in active'
    BY <1>3, RequestMoves DEF Leave, Moves
  <2>3. cut \subseteq cut' /\ born \subseteq born'
    BY <2>1 DEF GhostsChange
  <2>4. \A x \in members' : x.isOwner => x.id = x.workspace
    BY <2>1 DEF MemberSources, From, Inserted, Sound, OwnedInv
  <2>5. \A x \in members' : (\E m \in members : m.id = x.id)
                              \/ (x.id = q.id /\ q.phase \in {"createOwner", "createMember"})
    BY <2>1 DEF MemberSources, From, Inserted
  <2>6. ASSUME NEW x \in workspaces'
        PROVE  \/ \E m \in members' : m.workspace = x.id /\ m.isOwner
               \/ x.id \in cut' \cup {p.id : p \in active'}
               \/ <<"member", x.id>> \in born' /\ \A m \in members' : m.id # x.id
    <3>1. CASE x.id = q.row /\ MoveTo(q, "createOwner") /\ q.phase = "createWorkspace"
      <4> DEFINE r == [q EXCEPT !.phase = "createOwner"]
      <4>1. r \in active' /\ r.id = q.id
        BY <2>1, <3>1, MovedRequest DEF MoveTo, Phases, Same
      <4>2. q.row = q.id
        BY <2>1, <3>1 DEF Sound
      <4> QED
        BY <3>1, <4>1, <4>2
    <3>2. ASSUME NEW w \in workspaces, w.id = x.id
          PROVE  \/ \E m \in members' : m.workspace = x.id /\ m.isOwner
                 \/ x.id \in cut' \cup {p.id : p \in active'}
                 \/ <<"member", x.id>> \in born' /\ \A m \in members' : m.id # x.id
      <4>1. ASSUME NEW m \in members, m.workspace = w.id, m.isOwner
            PROVE  \/ \E y \in members' : y.workspace = x.id /\ y.isOwner
                   \/ <<"member", x.id>> \in born' /\ \A y \in members' : y.id # x.id
        <5>1. m.id = x.id /\ <<"member", x.id>> \in born'
          BY <2>3, <3>2, <4>1 DEF OwnedInv, MintInv
        <5>2. CASE \E y \in members' : From(q, m, y)
          BY <3>2, <4>1, <5>2 DEF From
        <5>3. CASE \A y \in members' : y.id # m.id
          BY <5>1, <5>3
        <5> QED
          BY <2>1, <3>2, <4>1, <5>1, <5>2, <5>3 DEF MemberFates
      <4>2. ASSUME NEW p \in active, p.id = w.id
            PROVE  \/ \E m \in members' : m.workspace = x.id /\ m.isOwner
                   \/ x.id \in cut' \cup {r.id : r \in active'}
        <5>1. CASE p # q
          BY <2>2, <3>2, <4>2, <5>1
        <5>2. CASE p = q
          <6>1. q.phase = "createOwner" /\ q.row = q.id
            BY <2>1, <4>2, <5>2 DEF MintInv, Sound
          <6>2. Exists(q.row)
            BY <4>2, <5>2, <6>1 DEF Exists
          <6> QED
            BY <1>3, <3>2, <4>2, <5>2, <6>1, <6>2, OwnerCreated
        <5> QED
          BY <5>1, <5>2
      <4>3. CASE <<"member", w.id>> \in born /\ \A m \in members : m.id # w.id
        <5>1. ASSUME NEW y \in members', y.id = w.id PROVE FALSE
          <6>1. y.id = q.id /\ q.phase \in {"createOwner", "createMember"}
            BY <2>5, <4>3, <5>1
          <6> QED
            BY <4>3, <5>1, <6>1 DEF MintInv
        <5> QED
          BY <2>3, <3>2, <4>3, <5>1
      <4> QED
        BY <2>3, <3>2, <4>1, <4>2, <4>3 DEF OwnedInv, OwnedUnlessCut
    <3> QED
      BY <2>1, <3>1, <3>2 DEF WorkspaceSources
  <2> QED
    BY <2>4, <2>6 DEF OwnedInv, OwnedUnlessCut
<1> QED
  BY <1>1, <1>2, <1>3 DEF Next, Begin

\* createWorkspace: a workspace is without an owner only where its creation was
\* cut short, or its owner's membership destroyed.
THEOREM WorkspacesAreOwned == Spec => []OwnedUnlessCut
<1>1. Init => OwnedInv
  BY DEF Init, OwnedInv, OwnedUnlessCut
<1>2. OwnedInv => OwnedUnlessCut
  BY DEF OwnedInv
<1> QED
  BY Typed, Minted, <1>1, OwnedStep, <1>2, PTL DEF Spec

-----------------------------------------------------------------------------
(* Destroying from the stash                                               *)

\* A request that is about to destroy a workspace found it stashed, and stashed
\* it still is unless a restore has crossed the request.
DestroyInv ==
    /\ \A q \in active : q.phase = "find" /\ q.write = "destroy" => q.stashed = TRUE
    /\ \A q \in active :
         q.phase = "destroy" /\ q.table = "workspace" /\ q.id \notin crossed
            => \A w \in workspaces : w.id = q.row => w.stashed

LEMMA StaysStashed ==
    ASSUME TypeInv, MintInv, NEW q \in active, Advance(q) \/ Abort(q),
           NEW p \in active, p.phase = "destroy", p.table = "workspace", p.id \notin crossed',
           \A w \in workspaces : w.id = p.row => w.stashed
    PROVE  \A x \in workspaces' : x.id = p.row => x.stashed
<1>1. q \in Request /\ Sound(q) /\ workspaces \subseteq Workspaces
  BY DEF TypeInv, TypeOK
<1>2. CASE workspaces' \subseteq workspaces
  BY <1>2
<1>3. CASE CreateWorkspace(q)
  <2> DEFINE x == [id |-> q.row, name |-> q.id, stashed |-> FALSE]
  <2>1. x.id # p.row
    BY <1>1, <1>3 DEF CreateWorkspace, Sound, MintInv
  <2>2. workspaces' = workspaces \cup {x}
    BY <1>3 DEF CreateWorkspace
  <2> HIDE DEF x
  <2> QED
    BY <2>1, <2>2
<1>4. CASE Rename(q)
  <2> DEFINE f(w) == [w EXCEPT !.name = q.id]
  <2>1. \A w \in workspaces : f(w).id = w.id /\ f(w).stashed = w.stashed
    BY <1>1, RenamedWorkspace DEF Request
  <2>2. \A x \in workspaces' : x \in workspaces \/ \E w \in workspaces : x = f(w)
    BY <1>4 DEF Rename, Renamed
  <2> HIDE DEF f
  <2> QED
    BY <2>1, <2>2
<1>5. CASE StashRow(q) /\ workspaces' = Mark(workspaces, q.row, TRUE)
  <2> DEFINE f(w) == [w EXCEPT !.stashed = TRUE]
  <2>1. \A w \in workspaces : f(w).stashed
    BY <1>1, MarkedWorkspace
  <2>2. \A x \in workspaces' : x \in workspaces \/ \E w \in workspaces : x = f(w)
    BY <1>5 DEF Mark
  <2> HIDE DEF f
  <2> QED
    BY <2>1, <2>2
<1>6. CASE RestoreRow(q) /\ workspaces' = Mark(workspaces, q.row, FALSE)
  <2> DEFINE f(w) == [w EXCEPT !.stashed = FALSE]
  <2>1. \A w \in workspaces : f(w).id = w.id
    BY <1>1, MarkedWorkspace
  <2>2. q.row # p.row \/ q.table # "workspace"
    BY <1>6 DEF RestoreRow
  <2>3. CASE q.table # "workspace"
    BY <1>2, <1>6, <2>3 DEF RestoreRow, SetStashed
  <2>4. CASE q.row # p.row
    <3>1. \A x \in workspaces' : \/ x \in workspaces
                                 \/ \E w \in workspaces : w.id = q.row /\ x = f(w)
      BY <1>6 DEF Mark
    <3> HIDE DEF f
    <3> QED
      BY <2>1, <2>4, <3>1
  <2> QED
    BY <2>2, <2>3, <2>4
<1>7. CASE StashRow(q) \/ RestoreRow(q)
  BY <1>2, <1>5, <1>6, <1>7 DEF StashRow, RestoreRow, SetStashed, tables
<1>8. CASE DestroyRow(q)
  BY <1>2, <1>8 DEF DestroyRow
<1>9. CASE CreateOwner(q) \/ FindMember(q) \/ CreateMember(q) \/ MailInvitation(q)
           \/ Accept(q) \/ Deny(q) \/ Find(q) \/ Abort(q)
  BY <1>2, <1>9 DEF CreateOwner, FindMember, CreateMember, MailInvitation, Accept, Deny,
                    Find, Abort, tables
<1> QED
  BY <1>3, <1>4, <1>7, <1>8, <1>9 DEF Advance

LEMMA DestroyStep ==
    ASSUME TypeInv, MintInv, UniqueInv, DestroyInv, [Next]_vars
    PROVE  DestroyInv'
<1>1. CASE UNCHANGED vars
  BY <1>1 DEF vars, DestroyInv
<1>2. CASE Begin
  <2>1. PICK r \in Request : Starts(r) /\ active' = active \cup {r}
    BY <1>2, RequestStarts
  <2>2. UNCHANGED <<workspaces, crossed>>
    BY <1>2, RequestStarts
  <2> QED
    BY <2>1, <2>2 DEF DestroyInv, Starts
<1>3. ASSUME NEW q \in active, Advance(q) \/ Abort(q) PROVE DestroyInv'
  <2>1. q \in Request /\ Sound(q)
    BY DEF TypeInv, TypeOK
  <2>2. \A p \in active' : \/ p \in active
                           \/ Same(q, p) /\ Follows(q, p)
    BY <1>3, RequestMoves DEF Leave, Moves
  <2>3. crossed \subseteq crossed'
    BY <1>3, GhostsChanged DEF GhostsChange
  <2>4. \A p \in active' : p.phase = "find" /\ p.write = "destroy" => p.stashed = TRUE
    BY <2>1, <2>2 DEF Same, Follows, Sound, DestroyInv
  <2>5. ASSUME NEW p \in active', p.phase = "destroy", p.table = "workspace",
               p.id \notin crossed'
        PROVE  \A w \in workspaces' : w.id = p.row => w.stashed
    <3>1. CASE p \in active
      BY <1>3, <2>3, <2>5, <3>1, StaysStashed DEF DestroyInv
    <3>2. CASE p \notin active
      <4>1. Same(q, p) /\ q.phase = "find" /\ q.write = "destroy"
        BY <2>1, <2>2, <2>5, <3>2 DEF Follows
      <4>2. q.stashed = TRUE /\ q.table = "workspace" /\ q.row = p.row
        BY <2>5, <4>1 DEF DestroyInv, Same
      <4>3. Find(q)
        BY <1>3, <2>2, <2>5, <3>2, <4>1
           DEF Advance, CreateWorkspace, CreateOwner, FindMember, CreateMember,
               MailInvitation, Accept, Deny, Rename, StashRow, RestoreRow, DestroyRow,
               Abort, Leave
      <4>4. Matching(q, TRUE) # {} /\ UNCHANGED workspaces
        BY <3>2, <4>2, <4>3 DEF Find, Leave, tables
      <4>5. PICK w \in workspaces : w.id = p.row /\ w.stashed = TRUE
        BY <4>2, <4>4 DEF Matching
      <4> QED
        BY <4>4, <4>5 DEF UniqueInv, Unique
    <3> QED
      BY <3>1, <3>2
  <2> QED
    BY <2>4, <2>5 DEF DestroyInv
<1> QED
  BY <1>1, <1>2, <1>3 DEF Next, Begin

\* Only what is in the stash is destroyed from it, except when a restore comes
\* between a deletion's check and its delete.
THEOREM DestroyedAreStashed == Spec => DestroyedFromStash
<1>1. Init => DestroyInv
  BY DEF Init, DestroyInv
<1> DEFINE Step == \A w \in workspaces :
                     (~w.stashed /\ \A x \in workspaces' : x.id # w.id) =>
                       \E q \in active : q.row = w.id /\ q.phase = "destroy" /\ q.id \in crossed
<1>2. TypeInv /\ DestroyInv /\ [Next]_vars => Step
  <2> SUFFICES ASSUME TypeInv, DestroyInv, [Next]_vars, NEW w \in workspaces, ~w.stashed,
                      \A x \in workspaces' : x.id # w.id
               PROVE  \E q \in active : q.row = w.id /\ q.phase = "destroy" /\ q.id \in crossed
    OBVIOUS
  <2>1. workspaces \subseteq Workspaces
    BY DEF TypeInv, TypeOK
  <2>2. workspaces' # workspaces
    OBVIOUS
  <2>3. ~UNCHANGED vars /\ ~Begin
    BY <2>2, RequestStarts DEF vars
  <2>4. PICK q \in active : Advance(q) \/ Abort(q)
    BY <2>3 DEF Next, Begin
  <2>5. q.phase = "destroy" /\ q.table = "workspace" /\ w.id = q.row
    BY <2>4, WorkspacesChange DEF WorkspaceFates
  <2> QED
    BY <2>5 DEF DestroyInv
<1> QED
  BY Typed, Minted, Keyed, DestroyStep, <1>1, <1>2, PTL DEF Spec, DestroyedFromStash

-----------------------------------------------------------------------------
(* The implementation of Stash                                             *)

Act(rows, i) == \E r \in rows : r.id = i /\ ~r.stashed
Has(rows, i) == \E r \in rows : r.id = i

\* The rows with any other id are as they were.
Others(t, rows, rows2, i) ==
    \A j \in Nat \ {i} : /\ Act(rows2, j) <=> Act(rows, j)
                         /\ Has(rows2, j) <=> Has(rows, j)
                         /\ (<<t, j>> \in born') <=> (<<t, j>> \in born)

\* A step of the table t, whose rows become rows2.
RowCreated(t, rows, rows2, i) ==
    /\ <<t, i>> \notin born /\ ~Has(rows, i)
    /\ Act(rows2, i) /\ Others(t, rows, rows2, i)

RowPutAway(t, rows, rows2, i) ==
    /\ Act(rows, i)
    /\ Has(rows2, i) /\ ~Act(rows2, i) /\ Others(t, rows, rows2, i)

RowRestored(t, rows, rows2, i) ==
    /\ Has(rows, i) /\ ~Act(rows, i)
    /\ Act(rows2, i) /\ Others(t, rows, rows2, i)

RowsDestroyed(t, rows, rows2) ==
    \A j \in Nat :
        /\ (<<t, j>> \in born') <=> (<<t, j>> \in born)
        /\ \/ (Act(rows2, j) <=> Act(rows, j)) /\ (Has(rows2, j) <=> Has(rows, j))
           \/ <<t, j>> \in born /\ Has(rows, j) /\ ~Has(rows2, j)

TableStep(t, rows, rows2) ==
    \/ \E i \in Nat : \/ RowCreated(t, rows, rows2, i)
                      \/ RowPutAway(t, rows, rows2, i)
                      \/ RowRestored(t, rows, rows2, i)
    \/ RowsDestroyed(t, rows, rows2)

\* The states module Stash gives the rows of a table, and one of its steps.
State(t, rows, b, i) ==
    IF Act(rows, i) THEN "active"
    ELSE IF Has(rows, i) THEN "stashed"
    ELSE IF <<t, i>> \in b THEN "gone" ELSE "absent"

Changed(s, s2, R, state) ==
    s2 = [i \in 1..MaxRequests |-> IF i \in R THEN state ELSE s[i]]

LiveIn(s) == {i \in 1..MaxRequests : s[i] \in {"active", "stashed"}}

StashStep(s, s2) ==
    \/ \E i \in 1..MaxRequests :
          \/ s[i] = "absent" /\ Changed(s, s2, {i}, "active")
          \/ s[i] = "active" /\ Changed(s, s2, {i}, "stashed")
          \/ s[i] = "stashed" /\ Changed(s, s2, {i}, "active")
    \/ \E R \in SUBSET LiveIn(s) : R # {} /\ Changed(s, s2, R, "gone")

\* Each step of a table is a step of Stash, or none that can be seen there.
LEMMA TableSimulates ==
    ASSUME NEW t, NEW rows, NEW rows2, TableStep(t, rows, rows2),
           NEW s, s = [i \in 1..MaxRequests |-> State(t, rows, born, i)],
           NEW s2, s2 = [i \in 1..MaxRequests |-> State(t, rows2, born', i)]
    PROVE  StashStep(s, s2) \/ s2 = s
<1>0. \A j \in 1..MaxRequests : j \in Nat
  BY WorkspaceAssumption
<1>1. \A rs, i : Act(rs, i) => Has(rs, i)
  BY DEF Act, Has
<1>2. ASSUME NEW i \in Nat, Others(t, rows, rows2, i)
      PROVE  \A j \in 1..MaxRequests : j # i => s2[j] = s[j]
  BY <1>0, <1>2 DEF Others, State
<1>3. ASSUME NEW i \in Nat, Others(t, rows, rows2, i), NEW state,
             State(t, rows2, born', i) = state
      PROVE  IF i \in 1..MaxRequests THEN Changed(s, s2, {i}, state) ELSE s2 = s
  <2>1. CASE i \notin 1..MaxRequests
    BY <1>2, <1>3, <2>1
  <2>2. CASE i \in 1..MaxRequests
    BY <1>2, <1>3, <2>2 DEF Changed
  <2> QED
    BY <2>1, <2>2
<1>4. ASSUME NEW i \in Nat, RowCreated(t, rows, rows2, i)
      PROVE  StashStep(s, s2) \/ s2 = s
  <2>1. /\ State(t, rows, born, i) = "absent" /\ State(t, rows2, born', i) = "active"
        /\ Others(t, rows, rows2, i)
    BY <1>1, <1>4 DEF RowCreated, State
  <2> QED
    BY <1>3, <2>1 DEF StashStep
<1>5. ASSUME NEW i \in Nat, RowPutAway(t, rows, rows2, i)
      PROVE  StashStep(s, s2) \/ s2 = s
  <2>1. /\ State(t, rows, born, i) = "active" /\ State(t, rows2, born', i) = "stashed"
        /\ Others(t, rows, rows2, i)
    BY <1>5 DEF RowPutAway, State
  <2> QED
    BY <1>3, <2>1 DEF StashStep
<1>6. ASSUME NEW i \in Nat, RowRestored(t, rows, rows2, i)
      PROVE  StashStep(s, s2) \/ s2 = s
  <2>1. /\ State(t, rows, born, i) = "stashed" /\ State(t, rows2, born', i) = "active"
        /\ Others(t, rows, rows2, i)
    BY <1>6 DEF RowRestored, State
  <2> QED
    BY <1>3, <2>1 DEF StashStep
<1>7. CASE RowsDestroyed(t, rows, rows2)
  <2> DEFINE R == {i \in 1..MaxRequests : Has(rows, i) /\ ~Has(rows2, i)}
  <2>1. R \in SUBSET LiveIn(s)
    BY DEF LiveIn, State
  <2>2. \A i \in 1..MaxRequests : s2[i] = IF i \in R THEN "gone" ELSE s[i]
    <3> SUFFICES ASSUME NEW i \in 1..MaxRequests
                 PROVE  s2[i] = IF i \in R THEN "gone" ELSE s[i]
      OBVIOUS
    <3>1. s2[i] = State(t, rows2, born', i) /\ s[i] = State(t, rows, born, i)
      OBVIOUS
    <3>2. /\ (<<t, i>> \in born') <=> (<<t, i>> \in born)
          /\ \/ (Act(rows2, i) <=> Act(rows, i)) /\ (Has(rows2, i) <=> Has(rows, i))
             \/ <<t, i>> \in born /\ Has(rows, i) /\ ~Has(rows2, i)
      BY <1>0, <1>7 DEF RowsDestroyed
    <3> QED
      BY <1>1, <3>1, <3>2 DEF State
  <2>3. CASE R = {}
    BY <2>2, <2>3
  <2>4. CASE R # {}
    <3>1. Changed(s, s2, R, "gone")
      BY <2>2 DEF Changed
    <3> QED
      BY <2>1, <2>4, <3>1 DEF StashStep
  <2> QED
    BY <2>3, <2>4
<1> QED
  BY <1>4, <1>5, <1>6, <1>7 DEF TableStep

\* update, of deletedAt and of other columns, and delete.
LEMMA MarkStates ==
    ASSUME NEW rows, NEW i, NEW b \in BOOLEAN,
           \A r \in rows : [r EXCEPT !.stashed = b].id = r.id
                            /\ [r EXCEPT !.stashed = b].stashed = b
    PROVE  \A j : /\ Has(Mark(rows, i, b), j) <=> Has(rows, j)
                  /\ j # i => (Act(Mark(rows, i, b), j) <=> Act(rows, j))
                  /\ Act(Mark(rows, i, b), i) <=> (Has(rows, i) /\ ~b)
<1> DEFINE f(r) == [r EXCEPT !.stashed = b]
           M == Mark(rows, i, b)
<1>1. \A r \in rows : f(r).id = r.id /\ f(r).stashed = b
  OBVIOUS
<1>2. /\ \A x \in M : \E r \in rows : x = IF r.id = i THEN f(r) ELSE r
      /\ \A r \in rows : (IF r.id = i THEN f(r) ELSE r) \in M
  BY DEF Mark
<1> HIDE DEF f, M
<1>3. \A j : Has(M, j) <=> Has(rows, j)
  BY <1>1, <1>2 DEF Has
<1>4. \A j : j # i => (Act(M, j) <=> Act(rows, j))
  BY <1>1, <1>2 DEF Act
<1>5. Act(M, i) <=> (Has(rows, i) /\ ~b)
  BY <1>1, <1>2 DEF Act, Has
<1> QED
  BY <1>3, <1>4, <1>5 DEF M

LEMMA SameStates ==
    ASSUME NEW t, NEW rows, NEW rows2,
           \A j : (<<t, j>> \in born') <=> (<<t, j>> \in born),
           \A x \in rows2 : \E r \in rows : x.id = r.id /\ (x.stashed <=> r.stashed),
           \A r \in rows : \E x \in rows2 : x.id = r.id /\ (x.stashed <=> r.stashed)
    PROVE  TableStep(t, rows, rows2)
  BY DEF TableStep, RowsDestroyed, Act, Has

LEMMA RemovedStates ==
    ASSUME NEW t, NEW rows, NEW rows2, rows2 \subseteq rows,
           \A j : (<<t, j>> \in born') <=> (<<t, j>> \in born),
           \A r \in rows : <<t, r.id>> \in born,
           \A r \in rows \ rows2 : \A x \in rows2 : x.id # r.id
    PROVE  TableStep(t, rows, rows2)
<1>1. ASSUME NEW j \in Nat
      PROVE  \/ (Act(rows2, j) <=> Act(rows, j)) /\ (Has(rows2, j) <=> Has(rows, j))
             \/ <<t, j>> \in born /\ Has(rows, j) /\ ~Has(rows2, j)
  <2>1. CASE \E r \in rows \ rows2 : r.id = j
    BY <2>1 DEF Has
  <2>2. CASE ~ \E r \in rows \ rows2 : r.id = j
    BY <2>2 DEF Act, Has
  <2> QED
    BY <2>1, <2>2
<1> QED
  BY <1>1 DEF TableStep, RowsDestroyed

LEMMA CreatedState ==
    ASSUME NEW t, NEW rows, NEW x, x.id \in Nat, ~x.stashed,
           born' = born \cup {<<t, x.id>>}, <<t, x.id>> \notin born,
           \A r \in rows : <<t, r.id>> \in born
    PROVE  TableStep(t, rows, rows \cup {x})
<1>1. ~Has(rows, x.id) /\ Act(rows \cup {x}, x.id)
  BY DEF Has, Act
<1>2. ASSUME NEW j \in Nat \ {x.id}
      PROVE  /\ Act(rows \cup {x}, j) <=> Act(rows, j)
             /\ Has(rows \cup {x}, j) <=> Has(rows, j)
             /\ (<<t, j>> \in born') <=> (<<t, j>> \in born)
  BY DEF Has, Act
<1>3. RowCreated(t, rows, rows \cup {x}, x.id)
  BY <1>1, <1>2 DEF RowCreated, Others
<1> QED
  BY <1>3 DEF TableStep

LEMMA MarkedStates ==
    ASSUME NEW t, NEW rows, NEW i \in Nat, NEW b \in BOOLEAN,
           \A r \in rows : [r EXCEPT !.stashed = b].id = r.id
                            /\ [r EXCEPT !.stashed = b].stashed = b,
           b => Act(rows, i), born' = born
    PROVE  TableStep(t, rows, Mark(rows, i, b))
<1> DEFINE M == Mark(rows, i, b)
<1>1. \A j : /\ Has(M, j) <=> Has(rows, j)
             /\ j # i => (Act(M, j) <=> Act(rows, j))
             /\ Act(M, i) <=> (Has(rows, i) /\ ~b)
  BY MarkStates
<1> SUFFICES TableStep(t, rows, M)
  OBVIOUS
<1> HIDE DEF M
<1>0. Act(rows, i) => Has(rows, i)
  BY DEF Act, Has
<1>2. Others(t, rows, M, i)
  BY <1>1 DEF Others
<1>3. CASE b
  <2>1. Act(rows, i) /\ Has(M, i) /\ ~Act(M, i)
    BY <1>0, <1>1, <1>3
  <2>2. RowPutAway(t, rows, M, i)
    BY <1>2, <2>1 DEF RowPutAway
  <2> QED
    BY <2>2 DEF TableStep
<1>4. CASE ~b /\ Has(rows, i) /\ ~Act(rows, i)
  <2>1. Act(M, i)
    BY <1>1, <1>4
  <2>2. RowRestored(t, rows, M, i)
    BY <1>2, <1>4, <2>1 DEF RowRestored
  <2> QED
    BY <2>2 DEF TableStep
<1>5. CASE ~b /\ (Act(rows, i) \/ ~Has(rows, i))
  <2>0. Act(M, i) <=> Act(rows, i)
    BY <1>0, <1>1, <1>5
  <2>1. \A j \in Nat : (Act(M, j) <=> Act(rows, j)) /\ (Has(M, j) <=> Has(rows, j))
    BY <1>1, <2>0
  <2> QED
    BY <2>1 DEF TableStep, RowsDestroyed
<1> QED
  BY <1>3, <1>4, <1>5

\* What the handlers do to each of the two tables.
LEMMA MemberStep ==
    ASSUME TypeInv, MintInv, UniqueInv, NEW q \in active, Advance(q) \/ Abort(q)
    PROVE  TableStep("member", members, members')
<1>1. q \in Request /\ Sound(q) /\ members \subseteq Members /\ q.id \in Nat /\ q.row \in Nat
  BY DEF TypeInv, TypeOK, Request
<1>2. \A m \in members : <<"member", m.id>> \in born
  BY DEF MintInv
<1>3. \A b \in BOOLEAN : \A m \in members : [m EXCEPT !.stashed = b].id = m.id
                                             /\ [m EXCEPT !.stashed = b].stashed = b
  BY <1>1, MarkedMember
<1>4. ASSUME UNCHANGED members, \A j : (<<"member", j>> \in born') <=> (<<"member", j>> \in born)
      PROVE  TableStep("member", members, members')
  BY <1>4, SameStates
<1>5. CASE CreateOwner(q)
  <2>1. CASE ~Exists(q.row)
    BY <1>4, <1>5, <2>1 DEF CreateOwner
  <2>2. CASE Exists(q.row)
    <3>1. members' = members \cup {OwnerRow(q)} /\ born' = born \cup {<<"member", q.id>>}
      BY <1>5, <2>2 DEF CreateOwner
    <3>2. OwnerRow(q).id = q.id /\ ~OwnerRow(q).stashed
      BY <1>1, <1>5, NewMembers DEF CreateOwner, Sound
    <3>3. <<"member", q.id>> \notin born
      BY <1>5 DEF CreateOwner, MintInv
    <3> QED
      BY <1>1, <1>2, <3>1, <3>2, <3>3, CreatedState
  <2> QED
    BY <2>1, <2>2
<1>6. CASE CreateMember(q)
  <2>1. CASE ~Insertable(q)
    BY <1>4, <1>6, <2>1 DEF CreateMember
  <2>2. CASE Insertable(q)
    <3>1. members' = members \cup {InvitedRow(q)} /\ born' = born \cup {<<"member", q.id>>}
      BY <1>6, <2>2 DEF CreateMember
    <3>2. InvitedRow(q).id = q.id /\ ~InvitedRow(q).stashed
      BY <1>1, <1>6, NewMembers DEF CreateMember, Sound
    <3>3. <<"member", q.id>> \notin born
      BY <1>6 DEF CreateMember, MintInv
    <3> QED
      BY <1>1, <1>2, <3>1, <3>2, <3>3, CreatedState
  <2> QED
    BY <2>1, <2>2
<1>7. CASE Accept(q)
  <2> DEFINE f(m) == [m EXCEPT !.isAccepted = TRUE, !.invitationToken = None]
  <2>1. \A m \in members : f(m).id = m.id /\ f(m).stashed = m.stashed
    BY <1>1, AcceptedFields
  <2>2. /\ \A x \in members' : x \in members \/ \E m \in members : x = f(m)
        /\ \A m \in members : f(m) \in members' \/ m \in members'
        /\ born' = born
    BY <1>7 DEF Accept, Accepted, ghostVars
  <2> HIDE DEF f
  <2>3. \A x \in members' : \E m \in members : x.id = m.id /\ (x.stashed <=> m.stashed)
    BY <2>1, <2>2
  <2>4. \A m \in members : \E x \in members' : x.id = m.id /\ (x.stashed <=> m.stashed)
    BY <2>1, <2>2
  <2> QED
    BY <2>2, <2>3, <2>4, SameStates
<1>8. ASSUME NEW i \in Nat, members' = {m \in members : m.id # i}, born' = born
      PROVE  TableStep("member", members, members')
  BY <1>2, <1>8, RemovedStates
<1>9. CASE Deny(q)
  BY <1>1, <1>8, <1>9 DEF Deny, ghostVars
<1>10. CASE StashRow(q)
  <2>1. born' = born
    BY <1>10 DEF StashRow, ghostVars
  <2>2. CASE members' = Mark(members, q.row, TRUE) /\ q.table # "workspace"
               /\ Matching(q, FALSE) # {}
    <3>1. Act(members, q.row)
      BY <2>2 DEF Matching, Act
    <3> QED
      BY <1>1, <1>3, <2>1, <2>2, <3>1, MarkedStates
  <2>3. CASE UNCHANGED members
    BY <1>4, <2>1, <2>3
  <2> QED
    BY <1>10, <2>2, <2>3 DEF StashRow, SetStashed, tables
<1>11. CASE RestoreRow(q)
  <2>1. born' = born
    BY <1>11 DEF RestoreRow
  <2>2. CASE members' = Mark(members, q.row, FALSE)
    BY <1>1, <1>3, <2>1, <2>2, MarkedStates
  <2>3. CASE UNCHANGED members
    BY <1>4, <2>1, <2>3
  <2> QED
    BY <1>11, <2>2, <2>3 DEF RestoreRow, SetStashed
<1>12. CASE DestroyRow(q)
  <2>1. born' = born
    BY <1>12 DEF DestroyRow, ghostVars
  <2>2. CASE q.table # "workspace"
    BY <1>1, <1>8, <1>12, <2>1, <2>2 DEF DestroyRow
  <2>3. CASE q.table = "workspace"
    <3>1. members' = {m \in members : m.workspace # q.row}
      BY <1>12, <2>3 DEF DestroyRow, Cascade
    <3>2. \A x, y \in members : x.id = y.id => x = y
      BY DEF UniqueInv, Unique
    <3> QED
      BY <1>2, <2>1, <3>1, <3>2, RemovedStates
  <2> QED
    BY <2>2, <2>3
<1>13. CASE CreateWorkspace(q)
  BY <1>4, <1>13 DEF CreateWorkspace
<1>14. CASE FindMember(q) \/ MailInvitation(q) \/ Rename(q) \/ Find(q) \/ Abort(q)
  BY <1>4, <1>14 DEF FindMember, MailInvitation, Rename, Find, Abort, tables, ghostVars
<1> QED
  BY <1>5, <1>6, <1>7, <1>9, <1>10, <1>11, <1>12, <1>13, <1>14 DEF Advance

LEMMA WorkspaceStep ==
    ASSUME TypeInv, MintInv, UniqueInv, NEW q \in active, Advance(q) \/ Abort(q)
    PROVE  TableStep("workspace", workspaces, workspaces')
<1>1. q \in Request /\ Sound(q) /\ workspaces \subseteq Workspaces
      /\ q.id \in Nat /\ q.row \in Nat
  BY DEF TypeInv, TypeOK, Request
<1>2. \A w \in workspaces : <<"workspace", w.id>> \in born
  BY DEF MintInv
<1>3. \A b \in BOOLEAN : \A w \in workspaces : [w EXCEPT !.stashed = b].id = w.id
                                                /\ [w EXCEPT !.stashed = b].stashed = b
  BY <1>1, MarkedWorkspace
<1>4. ASSUME UNCHANGED workspaces,
             \A j : (<<"workspace", j>> \in born') <=> (<<"workspace", j>> \in born)
      PROVE  TableStep("workspace", workspaces, workspaces')
  BY <1>4, SameStates
<1>5. CASE CreateWorkspace(q)
  <2> DEFINE x == [id |-> q.row, name |-> q.id, stashed |-> FALSE]
  <2>1. q.row = q.id /\ <<"workspace", q.id>> \notin born
    BY <1>1, <1>5 DEF CreateWorkspace, Sound, MintInv
  <2>2. workspaces' = workspaces \cup {x} /\ born' = born \cup {<<"workspace", q.row>>}
    BY <1>5 DEF CreateWorkspace
  <2>3. x.id = q.row /\ ~x.stashed
    OBVIOUS
  <2> HIDE DEF x
  <2> QED
    BY <1>1, <1>2, <2>1, <2>2, <2>3, CreatedState
<1>6. CASE Rename(q)
  <2> DEFINE f(w) == [w EXCEPT !.name = q.id]
  <2>1. \A w \in workspaces : f(w).id = w.id /\ f(w).stashed = w.stashed
    BY <1>1, RenamedWorkspace DEF Request
  <2>2. /\ \A x \in workspaces' : x \in workspaces \/ \E w \in workspaces : x = f(w)
        /\ \A w \in workspaces : f(w) \in workspaces' \/ w \in workspaces'
        /\ born' = born
    BY <1>6 DEF Rename, Renamed, ghostVars
  <2> HIDE DEF f
  <2>3. \A x \in workspaces' : \E w \in workspaces : x.id = w.id /\ (x.stashed <=> w.stashed)
    BY <2>1, <2>2
  <2>4. \A w \in workspaces : \E x \in workspaces' : x.id = w.id /\ (x.stashed <=> w.stashed)
    BY <2>1, <2>2
  <2> QED
    BY <2>2, <2>3, <2>4, SameStates
<1>7. CASE StashRow(q)
  <2>1. born' = born
    BY <1>7 DEF StashRow, ghostVars
  <2>2. CASE workspaces' = Mark(workspaces, q.row, TRUE) /\ q.table = "workspace"
               /\ Matching(q, FALSE) # {}
    <3>1. Act(workspaces, q.row)
      BY <2>2 DEF Matching, Act
    <3> QED
      BY <1>1, <1>3, <2>1, <2>2, <3>1, MarkedStates
  <2>3. CASE UNCHANGED workspaces
    BY <1>4, <2>1, <2>3
  <2> QED
    BY <1>7, <2>2, <2>3 DEF StashRow, SetStashed, tables
<1>8. CASE RestoreRow(q)
  <2>1. born' = born
    BY <1>8 DEF RestoreRow
  <2>2. CASE workspaces' = Mark(workspaces, q.row, FALSE)
    BY <1>1, <1>3, <2>1, <2>2, MarkedStates
  <2>3. CASE UNCHANGED workspaces
    BY <1>4, <2>1, <2>3
  <2> QED
    BY <1>8, <2>2, <2>3 DEF RestoreRow, SetStashed
<1>9. CASE DestroyRow(q)
  <2>1. born' = born
    BY <1>9 DEF DestroyRow, ghostVars
  <2>2. CASE q.table = "workspace"
    <3>1. workspaces' = {w \in workspaces : w.id # q.row}
      BY <1>9, <2>2 DEF DestroyRow
    <3> QED
      BY <1>2, <2>1, <3>1, RemovedStates
  <2>3. CASE q.table # "workspace"
    BY <1>4, <1>9, <2>1, <2>3 DEF DestroyRow
  <2> QED
    BY <2>2, <2>3
<1>10. CASE CreateOwner(q) \/ CreateMember(q)
  <2>1. UNCHANGED workspaces /\ (born' = born \/ born' = born \cup {<<"member", q.id>>})
    BY <1>10 DEF CreateOwner, CreateMember
  <2> QED
    BY <1>4, <2>1
<1>11. CASE FindMember(q) \/ MailInvitation(q) \/ Accept(q) \/ Deny(q) \/ Find(q) \/ Abort(q)
  BY <1>4, <1>11 DEF FindMember, MailInvitation, Accept, Deny, Find, Abort, tables, ghostVars
<1> QED
  BY <1>5, <1>6, <1>7, <1>8, <1>9, <1>10, <1>11 DEF Advance

\* The refinement mapping, as a function.
LEMMA RowStates ==
    ASSUME NEW t, NEW rows
    PROVE  RowState(t, rows) = [i \in 1..MaxRequests |-> State(t, rows, born, i)]
  BY DEF RowState, State, Act, Has

\* A step of the handlers is one of Stash, for both tables, or cannot be seen.
LEMMA StashSteps ==
    ASSUME TypeInv, MintInv, UniqueInv, [Next]_vars
    PROVE  /\ \/ StashStep(RowState("workspace", workspaces), RowState("workspace", workspaces)')
              \/ UNCHANGED RowState("workspace", workspaces)
           /\ \/ StashStep(RowState("member", members), RowState("member", members)')
              \/ UNCHANGED RowState("member", members)
<1>1. /\ RowState("workspace", workspaces)' =
            [i \in 1..MaxRequests |-> State("workspace", workspaces', born', i)]
      /\ RowState("member", members)' =
            [i \in 1..MaxRequests |-> State("member", members', born', i)]
  BY DEF RowState, State, Act, Has
<1>2. ASSUME UNCHANGED <<workspaces, members, born>>
      PROVE  UNCHANGED <<RowState("workspace", workspaces), RowState("member", members)>>
  BY <1>2 DEF RowState
<1>3. CASE UNCHANGED vars
  BY <1>2, <1>3 DEF vars
<1>4. CASE Begin
  BY <1>2, <1>4, RequestStarts
<1>5. ASSUME NEW q \in active, Advance(q) \/ Abort(q)
      PROVE  /\ TableStep("workspace", workspaces, workspaces')
             /\ TableStep("member", members, members')
  BY <1>5, WorkspaceStep, MemberStep
<1>6. CASE \E q \in active : Advance(q) \/ Abort(q)
  <2>1. /\ TableStep("workspace", workspaces, workspaces')
        /\ TableStep("member", members, members')
    BY <1>5, <1>6
  <2>2. \/ StashStep(RowState("workspace", workspaces), RowState("workspace", workspaces)')
        \/ UNCHANGED RowState("workspace", workspaces)
    BY <1>1, <2>1, RowStates, TableSimulates
  <2>3. \/ StashStep(RowState("member", members), RowState("member", members)')
        \/ UNCHANGED RowState("member", members)
    BY <1>1, <2>1, RowStates, TableSimulates
  <2> QED
    BY <2>2, <2>3
<1> QED
  BY <1>3, <1>4, <1>6 DEF Next, Begin

\* Both tables keep the promise of module Stash, whatever requests race on a
\* row: what was destroyed stays destroyed.
THEOREM RowsFollowStash == Spec => RowsAreStashed
<1>1. Init => WorkspaceRow!Init /\ MemberRow!Init
  BY DEF Init, WorkspaceRow!Init, MemberRow!Init, RowState
<1>2. TypeInv /\ MintInv /\ UniqueInv /\ [Next]_vars =>
         /\ [WorkspaceRow!Next]_(RowState("workspace", workspaces))
         /\ [MemberRow!Next]_(RowState("member", members))
  <2> SUFFICES ASSUME TypeInv, MintInv, UniqueInv, [Next]_vars
               PROVE  /\ [WorkspaceRow!Next]_(RowState("workspace", workspaces))
                      /\ [MemberRow!Next]_(RowState("member", members))
    OBVIOUS
  <2>1. StashStep(RowState("workspace", workspaces), RowState("workspace", workspaces)')
          => WorkspaceRow!Next
    BY DEF StashStep, Changed, LiveIn, WorkspaceRow!Next, WorkspaceRow!Create,
           WorkspaceRow!PutAway, WorkspaceRow!Restore, WorkspaceRow!Destroy,
           WorkspaceRow!Change, WorkspaceRow!Live
  <2>2. StashStep(RowState("member", members), RowState("member", members)')
          => MemberRow!Next
    BY DEF StashStep, Changed, LiveIn, MemberRow!Next, MemberRow!Create,
           MemberRow!PutAway, MemberRow!Restore, MemberRow!Destroy,
           MemberRow!Change, MemberRow!Live
  <2> QED
    BY <2>1, <2>2, StashSteps
<1> QED
  BY Typed, Minted, Keyed, <1>1, <1>2, PTL
     DEF Spec, RowsAreStashed, WorkspaceRow!Spec, MemberRow!Spec
=============================================================================
