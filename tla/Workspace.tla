------------------------------ MODULE Workspace ------------------------------
(***************************************************************************)
(* Workspaces and their memberships:                                       *)
(*   - create, rename, delete (to the stash or from it) and restore a       *)
(*     workspace                                                           *)
(*   - invite a user, accept or deny the invitation                        *)
(*   - delete and restore a membership                                     *)
(* in src/src/workspace.  Each action is the code from one awaited call to *)
(* the next; there are no transactions, so whatever a handler has checked  *)
(* may have changed by the time it writes.                                 *)
(*                                                                         *)
(* RoleGuard (who holds which privilege) is left to the role tables: here  *)
(* every caller has the privilege, and what is modelled is the membership  *)
(* checks.  Requests are numbered; the number names the rows a request     *)
(* makes, the invitation token it mints and the name it gives a workspace. *)
(***************************************************************************)
EXTENDS Integers, FiniteSets

CONSTANTS
    Users,          \* rows of the User table
    MaxRequests,    \* bound: requests started
    MaxActive       \* bound: requests in flight at the same time

ASSUME WorkspaceAssumption == MaxRequests \in Nat /\ MaxActive \in Nat

None == 0           \* null; requests are numbered from 1

VARIABLES
    workspaces,     \* rows of the Workspace table
    members,        \* rows of the WorkspaceMembership table
    active,         \* requests in flight
    serial,         \* requests started so far
    \* Observed only by the properties:
    mails,          \* membership ids whose invitation mail was sent
    born,           \* <<table, id>>: rows created so far
    cut,            \* requests that died
    crossed         \* requests to destroy a row that was restored meanwhile

tables == <<workspaces, members>>
ghostVars == <<mails, born, cut, crossed>>
vars == <<workspaces, members, active, serial, mails, born, cut, crossed>>

Tables == {"workspace", "member"}

Workspaces == [id: Nat, name: Nat, stashed: BOOLEAN]

Members == [id: Nat, workspace: Nat, user: Users, isOwner: BOOLEAN,
            isAccepted: BOOLEAN, invitationToken: Nat, stashed: BOOLEAN]

Phases == {"createWorkspace", "createOwner", "findMember", "createMember",
           "mailInvitation", "accept", "deny", "rename", "find", "stash", "destroy",
           "restore"}

\* "table" and "row" are what the request is about; for the phases of an
\* invitation "row" is the workspace.  "user" is whose membership a request
\* creates or answers for.  "stashed" is the deletedAt the request looks for
\* and "write" what it does to the row it finds.
Request == [id: Nat, user: Users \cup {None}, table: Tables, row: Nat, phase: Phases,
            stashed: BOOLEAN, write: {"none", "stash", "destroy", "restore"}]

TypeOK ==
    /\ workspaces \subseteq Workspaces
    /\ members \subseteq Members
    /\ active \subseteq Request
    /\ serial \in Nat
    /\ mails \subseteq Nat
    /\ born \subseteq Tables \X Nat
    /\ cut \subseteq Nat
    /\ crossed \subseteq Nat

Init ==
    /\ workspaces = {}
    /\ members = {}
    /\ active = {}
    /\ serial = 0
    /\ mails = {}
    /\ born = {}
    /\ cut = {}
    /\ crossed = {}

-----------------------------------------------------------------------------
Start(user, table, row, phase, stashed, write) ==
    /\ serial < MaxRequests
    /\ Cardinality(active) < MaxActive
    /\ serial' = serial + 1
    /\ active' = active \cup
         {[id |-> serial + 1, user |-> user, table |-> table, row |-> row,
           phase |-> phase, stashed |-> stashed, write |-> write]}

MoveTo(q, phase) == active' = (active \ {q}) \cup {[q EXCEPT !.phase = phase]}
Leave(q) == active' = active \ {q}

Exists(w) == \E x \in workspaces : x.id = w

-----------------------------------------------------------------------------
(* createWorkspace                                                         *)

BeginCreate(user) ==
    /\ Start(user, "workspace", serial + 1, "createWorkspace", FALSE, "none")
    /\ UNCHANGED <<tables, ghostVars>>

CreateWorkspace(q) ==
    /\ q.phase = "createWorkspace"
    /\ workspaces' = workspaces \cup
         {[id |-> q.row, name |-> q.id, stashed |-> FALSE]}
    /\ born' = born \cup {<<"workspace", q.row>>}
    /\ MoveTo(q, "createOwner")
    /\ UNCHANGED <<members, serial, mails, cut, crossed>>

\* Mutants: isOwner keeps its default; the row belongs to nobody.
OwnerRowPlain(q) ==
    [id |-> q.id, workspace |-> q.row, user |-> q.user, isOwner |-> FALSE,
     isAccepted |-> TRUE, invitationToken |-> None, stashed |-> FALSE]

OwnerRowNobody(q) ==
    [id |-> q.id, workspace |-> q.row, user |-> None, isOwner |-> TRUE,
     isAccepted |-> TRUE, invitationToken |-> None, stashed |-> FALSE]

\* The membership the creator gets.
OwnerRow(q) ==
    [id |-> q.id, workspace |-> q.row, user |-> q.user, isOwner |-> TRUE,
     isAccepted |-> TRUE, invitationToken |-> None, stashed |-> FALSE]

\* The second, separate create of createWorkspace.
CreateOwner(q) ==
    /\ q.phase = "createOwner"
    /\ IF Exists(q.row)
       THEN /\ members' = members \cup {OwnerRow(q)}
            /\ born' = born \cup {<<"member", q.id>>}
       ELSE UNCHANGED <<members, born>>
    /\ Leave(q)
    /\ UNCHANGED <<workspaces, serial, mails, cut, crossed>>

-----------------------------------------------------------------------------
(* sendInvitation and acceptInvitation                                     *)

\* The inviter is an accepted member; deletedAt is not looked at.
BeginInvite(inviter, invitee) ==
    /\ inviter.isAccepted
    /\ Start(invitee, "member", inviter.workspace, "findMember", FALSE, "none")
    /\ UNCHANGED <<tables, ghostVars>>

Duplicate(q) == \E m \in members : m.workspace = q.row /\ m.user = q.user

\* findFirst of a membership of the invitee, stashed or not.
FindMember(q) ==
    /\ q.phase = "findMember"
    /\ IF Duplicate(q) THEN Leave(q) ELSE MoveTo(q, "createMember")
    /\ UNCHANGED <<tables, serial, ghostVars>>

InvitedRow(q) ==
    [id |-> q.id, workspace |-> q.row, user |-> q.user, isOwner |-> FALSE,
     isAccepted |-> FALSE, invitationToken |-> q.id, stashed |-> FALSE]

\* Mutant: nothing tells two invitations of one user apart.
InsertableAgain(q) == Exists(q.row)

\* What the database requires of a new membership: the workspace is still
\* there, and the pair of workspace and user is new.
Insertable(q) == Exists(q.row) /\ ~Duplicate(q)

\* Mutant: no mail is sent.
AfterInsertNothing(q) == Leave(q)

\* What the handler goes on to once the row is there.
AfterInsert(q) == MoveTo(q, "mailInvitation")

CreateMember(q) ==
    /\ q.phase = "createMember"
    /\ IF Insertable(q)
       THEN /\ members' = members \cup {InvitedRow(q)}
            /\ born' = born \cup {<<"member", q.id>>}
            /\ AfterInsert(q)
       ELSE Leave(q) /\ UNCHANGED <<members, born>>
    /\ UNCHANGED <<workspaces, serial, mails, cut, crossed>>

\* sendMail, awaited.  If it fails the row stays: see Abort.
MailInvitation(q) ==
    /\ q.phase = "mailInvitation"
    /\ mails' = mails \cup {q.id}
    /\ Leave(q)
    /\ UNCHANGED <<tables, serial, born, cut, crossed>>

\* acceptInvitation, up to its write: findFirst by the token of a mail.
BeginAnswer(m, answer) ==
    /\ answer \in {"accept", "deny"}
    /\ m.invitationToken \in mails
    /\ Start(m.user, "member", m.id, answer, FALSE, "none")
    /\ UNCHANGED <<tables, ghostVars>>

\* Mutant: a row denied meanwhile is written anew.
AcceptedUpsert(q) ==
    {[id |-> q.row, workspace |-> 1, user |-> q.user, isOwner |-> FALSE,
      isAccepted |-> TRUE, invitationToken |-> None, stashed |-> FALSE]}

\* The row update leaves for the id; none, and an error, if it is gone.
Accepted(q) ==
    {[m EXCEPT !.isAccepted = TRUE, !.invitationToken = None] :
        m \in {x \in members : x.id = q.row}}

Accept(q) ==
    /\ q.phase = "accept"
    /\ members' = {m \in members : m.id # q.row} \cup Accepted(q)
    /\ Leave(q)
    /\ UNCHANGED <<workspaces, serial, ghostVars>>

\* delete by id: whatever the row has become since it was found.
Deny(q) ==
    /\ q.phase = "deny"
    /\ members' = {m \in members : m.id # q.row}
    /\ Leave(q)
    /\ UNCHANGED <<workspaces, serial, ghostVars>>

-----------------------------------------------------------------------------
(* The stash: deleteWorkSpace, restoreWorkSpace, deleteMembership and      *)
(* restoreMembership find the row by id and deletedAt, then write it.      *)

\* Whether the membership checks let some caller at the row.  For a workspace
\* any membership of the caller in it will do; for a membership,
\* WorkspaceMemberShipGuard asks for an accepted one in the workspace named by
\* the header, which need not be the workspace of the row.
MayTouch(table, row) ==
    IF table = "workspace"
    THEN \E m \in members : m.workspace = row
    ELSE \E m \in members : m.isAccepted /\ ~m.stashed

\* updateWorkspace, up to its write: the caller's memberships are looked up.
BeginRename(row) ==
    /\ MayTouch("workspace", row)
    /\ Start(None, "workspace", row, "rename", FALSE, "none")
    /\ UNCHANGED <<tables, ghostVars>>

\* The row update leaves for the id, stashed or not; none, and an error, if it
\* is gone.
Renamed(q) == {[w EXCEPT !.name = q.id] : w \in {x \in workspaces : x.id = q.row}}

Rename(q) ==
    /\ q.phase = "rename"
    /\ workspaces' = {w \in workspaces : w.id # q.row} \cup Renamed(q)
    /\ Leave(q)
    /\ UNCHANGED <<members, serial, ghostVars>>

Ids(table) == IF table = "workspace" THEN {w.id : w \in workspaces}
                                     ELSE {m.id : m \in members}

BeginDelete(table, row, fromStash) ==
    /\ MayTouch(table, row)
    /\ Start(None, table, row, "find", fromStash,
             IF fromStash THEN "destroy" ELSE "stash")
    /\ UNCHANGED <<tables, ghostVars>>

BeginRestore(table, row) ==
    /\ MayTouch(table, row)
    /\ Start(None, table, row, "find", TRUE, "restore")
    /\ UNCHANGED <<tables, ghostVars>>

\* Mutant: deletedAt is not looked at.
MatchingAny(q, stashed) ==
    {r \in IF q.table = "workspace" THEN workspaces ELSE members : r.id = q.row}

\* The rows of the request's table with its id and the given deletedAt.
Matching(q, stashed) ==
    {r \in IF q.table = "workspace" THEN workspaces ELSE members :
        r.id = q.row /\ r.stashed = stashed}

\* findUnique by id and deletedAt.
Find(q) ==
    /\ q.phase = "find"
    /\ IF Matching(q, q.stashed) = {} THEN Leave(q) ELSE MoveTo(q, q.write)
    /\ UNCHANGED <<tables, serial, ghostVars>>

Mark(rows, row, stashed) ==
    {IF r.id = row THEN [r EXCEPT !.stashed = stashed] ELSE r : r \in rows}

SetStashed(q, stashed) ==
    IF q.table = "workspace"
    THEN workspaces' = Mark(workspaces, q.row, stashed) /\ UNCHANGED members
    ELSE members' = Mark(members, q.row, stashed) /\ UNCHANGED workspaces

\* update where id and deletedAt null, or an error.
StashRow(q) ==
    /\ q.phase = "stash"
    /\ IF Matching(q, FALSE) = {} THEN UNCHANGED tables ELSE SetStashed(q, TRUE)
    /\ Leave(q)
    /\ UNCHANGED <<serial, ghostVars>>

\* update where id, or an error.
RestoreRow(q) ==
    /\ q.phase = "restore"
    /\ SetStashed(q, FALSE)
    /\ crossed' = crossed \cup
         {p.id : p \in {p \in active : /\ p.phase = "destroy"
                                       /\ p.table = q.table
                                       /\ p.row = q.row}}
    /\ Leave(q)
    /\ UNCHANGED <<serial, mails, born, cut>>

\* Mutant: the memberships of a deleted workspace stay.
CascadeNothing(w) == members

\* onDelete: Cascade from Workspace to WorkspaceMembership.
Cascade(w) == {m \in members : m.workspace # w}

\* delete where id, deletedAt or not, or an error.
DestroyRow(q) ==
    /\ q.phase = "destroy"
    /\ IF q.table = "workspace"
       THEN /\ workspaces' = {w \in workspaces : w.id # q.row}
            /\ members' = Cascade(q.row)
       ELSE /\ members' = {m \in members : m.id # q.row}
            /\ UNCHANGED workspaces
    /\ Leave(q)
    /\ UNCHANGED <<serial, ghostVars>>

-----------------------------------------------------------------------------
\* A handler dies between two awaits; for an invitation, also sendMail throws.
Abort(q) ==
    /\ Leave(q)
    /\ cut' = cut \cup {q.id}
    /\ UNCHANGED <<tables, serial, mails, born, crossed>>

Advance(q) ==
    \/ CreateWorkspace(q)
    \/ CreateOwner(q)
    \/ FindMember(q)
    \/ CreateMember(q)
    \/ MailInvitation(q)
    \/ Accept(q)
    \/ Deny(q)
    \/ Rename(q)
    \/ Find(q)
    \/ StashRow(q)
    \/ RestoreRow(q)
    \/ DestroyRow(q)

Next ==
    \/ \E u \in Users : BeginCreate(u)
    \/ \E inviter \in members, invitee \in Users : BeginInvite(inviter, invitee)
    \/ \E m \in members, answer \in {"accept", "deny"} : BeginAnswer(m, answer)
    \/ \E row \in Ids("workspace") : BeginRename(row)
    \/ \E table \in Tables, fromStash \in BOOLEAN :
         \E row \in Ids(table) : BeginDelete(table, row, fromStash)
    \/ \E table \in Tables : \E row \in Ids(table) : BeginRestore(table, row)
    \/ \E q \in active : Advance(q)
    \/ \E q \in active : Abort(q)

Spec == Init /\ [][Next]_vars

-----------------------------------------------------------------------------
(* Properties                                                              *)

\* Nobody becomes a member without having been asked: an accepted membership
\* is its creator's, or one whose invitation was mailed.
AcceptedWasInvited ==
    \A m \in members : m.isAccepted => m.isOwner \/ m.id \in mails

\* An invitation that waits for an answer can be answered: its mail was sent,
\* or is about to be, or the request died after creating the row.  (In that
\* last case the user cannot be invited again: the row is in the way.)
PendingHasMail ==
    \A m \in members : m.invitationToken # None =>
        m.id \in mails \cup cut \cup {q.id : q \in active}

\* A workspace without an owner's row is one whose creation was cut short
\* between its two creates, or is still between them, or one whose owner's
\* membership was deleted from the stash.
OwnedUnlessCut ==
    \A w \in workspaces :
        \/ \E m \in members : m.workspace = w.id /\ m.isOwner
        \/ w.id \in cut \cup {q.id : q \in active}
        \/ <<"member", w.id>> \in born /\ \A m \in members : m.id # w.id

\* No membership outlives its workspace, even one created by an invitation
\* that was under way when the workspace was destroyed.
MembersHaveWorkspace == \A m \in members : Exists(m.workspace)

\* Nobody has two memberships of one workspace, although two invitations may
\* both find none; and the owner's row, which nothing looks for, comes before
\* anyone can be invited.
OneMembershipEach ==
    \A m, n \in members : m.workspace = n.workspace /\ m.user = n.user => m = n

\* Who is a member was asked, is one once, and of a workspace that is there.
MembersBelong == AcceptedWasInvited /\ OneMembershipEach /\ MembersHaveWorkspace

\* Deleting from the stash destroys only what is in the stash: a workspace
\* that is active when it goes was restored while the deletion was between
\* its check and its delete.
DestroyedFromStash ==
    [][\A w \in workspaces :
         (~w.stashed /\ \A x \in workspaces' : x.id # w.id) =>
            \E q \in active : q.row = w.id /\ q.phase = "destroy" /\ q.id \in crossed]_vars

RowState(table, rows) ==
    [i \in 1..MaxRequests |->
        IF \E r \in rows : r.id = i /\ ~r.stashed THEN "active"
        ELSE IF \E r \in rows : r.id = i THEN "stashed"
        ELSE IF <<table, i>> \in born THEN "gone" ELSE "absent"]

WorkspaceRow == INSTANCE Stash
    WITH Rows <- 1..MaxRequests, row <- RowState("workspace", workspaces)
MemberRow == INSTANCE Stash
    WITH Rows <- 1..MaxRequests, row <- RowState("member", members)

\* The handlers keep the promise of module Stash for both tables: in
\* particular neither a restore, nor an accepted invitation, nor a deletion
\* that was under way brings a destroyed row back.
RowsAreStashed == WorkspaceRow!Spec /\ MemberRow!Spec
=============================================================================
