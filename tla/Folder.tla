------------------------------- MODULE Folder -------------------------------
(***************************************************************************)
(* Folders: createFolder, updateFolder and deleteFolder                    *)
(* (src/src/media/folder).  createFolder and updateFolder are one write    *)
(* each, with whatever parentId the input names: nothing but the foreign   *)
(* keys is checked, and without the header of a workspace a folder has     *)
(* none.  deleteFolder looks for the folder and then writes by id.  Names  *)
(* are left out.                                                           *)
(***************************************************************************)
EXTENDS Requests

VARIABLES
    folders,        \* rows of the Folder table
    looped          \* observed: a folder was moved below itself

Folders == [id: Nat, parent: Nat, workspace: WorkspaceOrNull, stashed: BOOLEAN]

FolderPhases == {"matchFolder", "stashFolder", "destroyFolder"}

FolderRequest == [id: Nat, phase: FolderPhases, row: Nat, fromStash: BOOLEAN]

FolderTypeOK == folders \subseteq Folders /\ looped \in BOOLEAN

FolderIds == {f.id : f \in folders}

-----------------------------------------------------------------------------
\* A set of folders with the parent of each.
Upward(S) == \A f \in folders : f.id \in S /\ f.parent # None => f.parent \in S

\* a is the folder b, or above it.
Above(a, b) == \A S \in SUBSET FolderIds : b \in S /\ Upward(S) => a \in S

\* The foreign key of workspaceId: the header may be missing, and nothing looks
\* at the workspace it names.
CreateFolder(w, parent) ==
    /\ w \in workspaces \cup {None}
    /\ Count
    /\ folders' = folders \cup
         {[id |-> serial + 1, parent |-> parent, workspace |-> w, stashed |-> FALSE]}
    /\ born' = born \cup {serial + 1}
    /\ UNCHANGED <<sharedVars, active, crossed, looped>>

\* updateFolder with a parentId, which may be a folder of any workspace, the
\* folder itself or one below it.
MoveFolder(row, parent) ==
    /\ Count
    /\ folders' = {IF f.id = row THEN [f EXCEPT !.parent = parent] ELSE f : f \in folders}
    /\ looped' = (looped \/ (parent # None /\ Above(row, parent)))
    /\ UNCHANGED <<sharedVars, active, observed>>

BeginDeleteFolder(row, fromStash) ==
    /\ Start([id |-> serial + 1, phase |-> "matchFolder", row |-> row,
              fromStash |-> fromStash])
    /\ UNCHANGED <<sharedVars, observed, folders, looped>>

\* findUnique by id and deletedAt.
MatchFolder(q) ==
    /\ q.phase = "matchFolder"
    /\ IF \E f \in folders : f.id = q.row /\ f.stashed = q.fromStash
       THEN MoveTo(q, IF q.fromStash THEN "destroyFolder" ELSE "stashFolder")
       ELSE Leave(q)
    /\ UNCHANGED <<sharedVars, serial, observed, folders, looped>>

\* Mutant: a folder destroyed meanwhile is written anew.
PutAwayUpsert(q) ==
    {f \in folders : f.id # q.row} \cup
    {[id |-> q.row, parent |-> None, workspace |-> None, stashed |-> TRUE]}

PutAway(q) ==
    {IF f.id = q.row THEN [f EXCEPT !.stashed = TRUE] ELSE f : f \in folders}

\* update where id and deletedAt null.
StashFolder(q) ==
    /\ q.phase = "stashFolder"
    /\ folders' = PutAway(q)
    /\ Leave(q)
    /\ UNCHANGED <<sharedVars, serial, observed, looped>>

\* Mutant: subfolders keep the id of the folder that went.
WithoutFoldersDangling(R) == {f \in folders : f.id \notin R}

\* Rows that go leave their subfolders without a parent: parentId is
\* optional, and its onDelete is SetNull.
WithoutFolders(R) ==
    {IF f.parent \in R THEN [f EXCEPT !.parent = None] ELSE f :
        f \in {f \in folders : f.id \notin R}}

\* delete where id.
DestroyFolder(q) ==
    /\ q.phase = "destroyFolder"
    /\ folders' = WithoutFolders({q.row})
    /\ Leave(q)
    /\ UNCHANGED <<sharedVars, serial, observed, looped>>

\* onDelete: Cascade from Workspace to Folder.
DropFolders(w) ==
    /\ folders' = WithoutFolders({f.id : f \in {f \in folders : f.workspace = w}})
    /\ UNCHANGED looped

AdvanceFolder(q) ==
    \/ MatchFolder(q)
    \/ StashFolder(q)
    \/ DestroyFolder(q)

FolderNext ==
    \/ \E w \in WorkspaceOrNull, parent \in FolderIds \cup {None} : CreateFolder(w, parent)
    \/ \E row \in FolderIds, parent \in FolderIds \cup {None} : MoveFolder(row, parent)
    \/ \E row \in FolderIds, fromStash \in BOOLEAN : BeginDeleteFolder(row, fromStash)
    \/ \E q \in active : AdvanceFolder(q)

-----------------------------------------------------------------------------
(* Properties                                                              *)

\* Every folder is below a root, where listFolder starts, unless updateFolder
\* once moved a folder below itself: no folders without a root are left behind
\* by deletions, cascades and moves whose rows changed meanwhile.
RootedUnlessLooped ==
    looped \/ \A S \in SUBSET FolderIds :
                 S # {} => \E f \in folders : f.id \in S /\ f.parent \notin S
                                                         /\ f.parent \in FolderIds \cup {None}
=============================================================================
