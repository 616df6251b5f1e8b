------------------------------- MODULE Content -------------------------------
(***************************************************************************)
(* Posts, folders and files together: what the requests of modules Post,   *)
(* Folder and Media do to the tables they share with module Workspace, and *)
(* what the deletion of a workspace does to theirs.                        *)
(***************************************************************************)
EXTENDS Post, Folder, Media

vars == <<workspaces, members, active, serial, everMember, born, crossed,
          posts, folders, looped, fileVars>>

ASSUME ContentAssumption == MaxRequests \in Nat /\ MaxActive \in Nat

TypeOK ==
    /\ RequestsTypeOK
    /\ active \subseteq PostRequest \cup FolderRequest \cup FileRequest
    /\ PostTypeOK
    /\ FolderTypeOK
    /\ MediaTypeOK

Init ==
    /\ RequestsInit
    /\ posts = {}
    /\ folders = {} /\ looped = FALSE
    /\ MediaInit

\* DestroyRow of module Workspace, where a workspace is meant: all of its rows
\* go, or none.
DestroyWorkspace(w) ==
    /\ DropWorkspace(w)
    /\ DropPosts(w)
    /\ DropFolders(w)
    /\ DropFiles(w)

\* A handler of posts or folders fails, or the process ends, at the next await.
Abort(q) ==
    /\ q.phase \notin FilePhases
    /\ Leave(q)
    /\ UNCHANGED <<sharedVars, serial, observed>>

Next ==
    \/ PostNext /\ UNCHANGED <<folders, looped, fileVars>>
    \/ FolderNext /\ UNCHANGED <<posts, fileVars>>
    \/ MediaNext /\ UNCHANGED <<posts, folders, looped>>
    \/ \E u \in Users, w \in Workspaces :
          ToggleMember(u, w) /\ UNCHANGED <<posts, folders, looped, fileVars>>
    \/ \E w \in Workspaces : DestroyWorkspace(w)
    \/ \E q \in active : Abort(q) /\ UNCHANGED <<posts, folders, looped, fileVars>>

Spec == Init /\ [][Next]_vars

-----------------------------------------------------------------------------
(* Properties                                                              *)

\* No post, folder or file outlives its workspace, even one whose creation was
\* under way when the workspace was destroyed.  Folders and files may have none.
RowsHaveWorkspace ==
    /\ \A p \in posts : p.workspace \in workspaces
    /\ \A r \in folders \cup files : r.workspace \in workspaces \cup {None}

\* What a row refers to is there, though requests found it there long before
\* they wrote the row.
ReferencesHold == RowsHaveWorkspace /\ SessionsHaveFile

\* The life of the row a request makes, as module Stash has it.
RowStates ==
    [i \in 1..MaxRequests |->
        IF \E r \in posts \cup folders \cup files : r.id = i
        THEN IF \E r \in posts \cup folders \cup files : r.id = i /\ r.stashed
             THEN "stashed" ELSE "active"
        ELSE IF i \in born THEN "gone" ELSE "absent"]

Row == INSTANCE Stash WITH Rows <- 1..MaxRequests, row <- RowStates

\* The handlers of the three tables keep the promise of module Stash: in
\* particular no update, restore, deletion to the stash or renewal of a URL
\* that was under way brings a destroyed row back.
RowsAreStashed == Row!Spec
=============================================================================
