------------------------------ MODULE Requests ------------------------------
(***************************************************************************)
(* What the handlers of posts, folders and files have in common: the       *)
(* workspaces and memberships they read, and the requests in flight.       *)
(*                                                                         *)
(* A request is a record whose "phase" is the awaited call it is at.  The  *)
(* modules that extend this one have phases of their own, so that the      *)
(* phase says which handler a request runs, and which fields it has.       *)
(* Requests are numbered; the number names the row, the stored object and  *)
(* the signed URL a request makes.                                         *)
(***************************************************************************)
EXTENDS Integers, FiniteSets

CONSTANTS
    Users,          \* rows of the User table
    Workspaces,     \* rows the Workspace table may have
    MaxRequests,    \* bound: requests started
    MaxActive       \* bound: requests in flight at the same time

None == 0           \* null; requests are numbered from 1

\* What a nullable workspaceId may hold.
WorkspaceOrNull == Workspaces \cup {None}

VARIABLES
    workspaces,     \* rows of the Workspace table
    members,        \* <<user, workspace>>: accepted memberships, not stashed
    active,         \* requests in flight
    serial,         \* requests started so far
    \* Observed only by the properties:
    everMember,     \* what has been in members
    born,           \* rows of posts, folders and files created so far
    crossed         \* requests to destroy a row that was restored meanwhile

sharedVars == <<workspaces, members, everMember>>
observed == <<born, crossed>>

RequestsTypeOK ==
    /\ workspaces \subseteq Workspaces
    /\ members \subseteq Users \X Workspaces
    /\ everMember \subseteq Users \X Workspaces
    /\ serial \in Nat
    /\ born \subseteq Nat
    /\ crossed \subseteq Nat

RequestsInit ==
    /\ workspaces = Workspaces
    /\ members \in SUBSET (Users \X Workspaces)
    /\ everMember = members
    /\ active = {}
    /\ serial = 0
    /\ born = {}
    /\ crossed = {}

\* A request that is one awaited call.
Count == serial < MaxRequests /\ serial' = serial + 1

Start(request) ==
    /\ Count
    /\ Cardinality(active) < MaxActive
    /\ active' = active \cup {request}

Resume(q, r) == active' = (active \ {q}) \cup {r}
MoveTo(q, phase) == Resume(q, [q EXCEPT !.phase = phase])
Leave(q) == active' = active \ {q}

\* What module Workspace does to a membership: an invitation is accepted, the
\* membership is stashed, restored or destroyed.
ToggleMember(u, w) ==
    /\ w \in workspaces
    /\ Count
    /\ members' = IF <<u, w>> \in members THEN members \ {<<u, w>>}
                                          ELSE members \cup {<<u, w>>}
    /\ everMember' = everMember \cup {<<u, w>>}
    /\ UNCHANGED <<workspaces, active, observed>>

\* The memberships go with their workspace.
DropWorkspace(w) ==
    /\ w \in workspaces
    /\ Count
    /\ workspaces' = workspaces \ {w}
    /\ members' = {m \in members : m[2] # w}
    /\ UNCHANGED <<active, everMember, observed>>
=============================================================================
