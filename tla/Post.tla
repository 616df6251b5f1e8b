-------------------------------- MODULE Post --------------------------------
(***************************************************************************)
(* Posts: createPost, updatePost, deletePost and restore (src/src/post),   *)
(* with WorkspaceMemberShipGuard and PostMemberShipValidation.  The guard  *)
(* reads the caller's memberships before the handler runs; the handler     *)
(* checks again, or looks for the post, in queries of their own, and then  *)
(* writes by id.  RoleGuard is left out: every caller has the privilege.   *)
(* Titles and contents are left out.                                       *)
(***************************************************************************)
EXTENDS Requests

VARIABLES posts     \* rows of the Post table

NotGiven == -1      \* a field the input of a mutation leaves out

\* authorId is optional, and so is every authorId of an input.
Posts == [id: Nat, workspace: Workspaces, author: Users \cup {None}, stashed: BOOLEAN]

AuthorInputs == Users \cup {None, NotGiven}

PostPhases == {"checkAuthor", "createPost", "findPost", "checkCaller", "updatePost",
               "matchPost", "stashPost", "destroyPost", "restorePost"}

StashWrites == {"stashPost", "destroyPost", "restorePost"}

\* "workspace" is the one of the header, later the post's; "author" is the
\* authorId of the input.
PostRequest == [id: Nat, phase: PostPhases, user: Users, workspace: Workspaces,
                row: Nat, author: AuthorInputs, write: StashWrites \cup {"createPost", "updatePost"}]

PostTypeOK == posts \subseteq Posts

-----------------------------------------------------------------------------
\* WorkspaceMemberShipGuard: an accepted membership in the workspace of the
\* header.  What it reads is the caller's currentUserMemberships.
MembershipValid(u, w) == <<u, w>> \in members

\* Mutant: the caller may name any author.
AuthorAllowedAny(u, author) == TRUE

\* createPost validates a given author before the create; null is as good as
\* no author here.
FirstPhase(author) == IF author \in {None, NotGiven} THEN "createPost" ELSE "checkAuthor"

BeginCreatePost(u, w, author) ==
    /\ MembershipValid(u, w)
    /\ Start([id |-> serial + 1, phase |-> FirstPhase(author), user |-> u, workspace |-> w,
              row |-> serial + 1, author |-> author, write |-> "createPost"])
    /\ UNCHANGED <<sharedVars, observed, posts>>

\* validateMembership of the author.
CheckAuthor(q) ==
    /\ q.phase = "checkAuthor"
    /\ IF MembershipValid(q.author, q.workspace) THEN MoveTo(q, "createPost") ELSE Leave(q)
    /\ UNCHANGED <<sharedVars, serial, observed, posts>>

\* The foreign key of Post.workspaceId.
WorkspaceThere(q) == q.workspace \in workspaces

\* Mutant: the author of the input, if it has one or not.
AuthorOfInput(q) == q.author

AuthorOf(q) == IF q.author \in {None, NotGiven} THEN q.user ELSE q.author

CreatePost(q) ==
    /\ q.phase = "createPost"
    /\ IF WorkspaceThere(q)
       THEN /\ posts' = posts \cup
                 {[id |-> q.row, workspace |-> q.workspace, stashed |-> FALSE,
                   author |-> AuthorOf(q)]}
            /\ born' = born \cup {q.row}
       ELSE UNCHANGED <<posts, born>>
    /\ Leave(q)
    /\ UNCHANGED <<sharedVars, serial, crossed>>

-----------------------------------------------------------------------------
\* validateAuthorMembership looks for the author in the memberships of the
\* caller, so it lets only the caller pass; for null it is given the caller.
AuthorAllowed(u, author) == author \in {NotGiven, None, u}

BeginUpdatePost(u, w, row, author) ==
    /\ MembershipValid(u, w)
    /\ AuthorAllowed(u, author)
    /\ Start([id |-> serial + 1, phase |-> "findPost", user |-> u, workspace |-> w,
              row |-> row, author |-> author, write |-> "updatePost"])
    /\ UNCHANGED <<sharedVars, observed, posts>>

\* The handler goes on with the workspace of the post it found.
AfterFindPost(q, p) == [q EXCEPT !.phase = "checkCaller", !.workspace = p.workspace]

\* findUnique by id alone.
FindPost(q) ==
    /\ q.phase = "findPost"
    /\ \/ /\ \A p \in posts : p.id # q.row
          /\ Leave(q)
       \/ \E p \in posts : p.id = q.row /\ Resume(q, AfterFindPost(q, p))
    /\ UNCHANGED <<sharedVars, serial, observed, posts>>

\* validateMembership of the caller in the workspace of the post.
CheckCaller(q) ==
    /\ q.phase = "checkCaller"
    /\ IF MembershipValid(q.user, q.workspace) THEN MoveTo(q, "updatePost") ELSE Leave(q)
    /\ UNCHANGED <<sharedVars, serial, observed, posts>>

\* update by id, with the input as it is: an error if the post is gone; an
\* authorId of null is written, one left out is not.
UpdatePost(q) ==
    /\ q.phase = "updatePost"
    /\ posts' = {IF p.id = q.row /\ q.author # NotGiven THEN [p EXCEPT !.author = q.author]
                                                        ELSE p : p \in posts}
    /\ Leave(q)
    /\ UNCHANGED <<sharedVars, serial, observed>>

-----------------------------------------------------------------------------
\* deletePost and restore.  The guard asks for a membership in the workspace
\* of the header, which need not be the post's.
BeginStashPost(u, w, row, write) ==
    /\ MembershipValid(u, w)
    /\ Start([id |-> serial + 1, phase |-> "matchPost", user |-> u, workspace |-> w,
              row |-> row, author |-> NotGiven, write |-> write])
    /\ UNCHANGED <<sharedVars, observed, posts>>

\* Mutant: deletedAt is not looked at.
MatchesAny(q, p) == p.id = q.row

\* The post findUnique looks for: by id, and in the stash unless it is to be
\* put there.
Matches(q, p) == p.id = q.row /\ p.stashed = (q.write # "stashPost")

MatchPost(q) ==
    /\ q.phase = "matchPost"
    /\ IF \E p \in posts : Matches(q, p) THEN MoveTo(q, q.write) ELSE Leave(q)
    /\ UNCHANGED <<sharedVars, serial, observed, posts>>

\* update where id and deletedAt null.
StashPost(q) ==
    /\ q.phase = "stashPost"
    /\ posts' = {IF p.id = q.row THEN [p EXCEPT !.stashed = TRUE] ELSE p : p \in posts}
    /\ Leave(q)
    /\ UNCHANGED <<sharedVars, serial, observed>>

\* delete where id.
DestroyPost(q) ==
    /\ q.phase = "destroyPost"
    /\ posts' = {p \in posts : p.id # q.row}
    /\ Leave(q)
    /\ UNCHANGED <<sharedVars, serial, observed>>

\* update where id: an error if the post is gone.
Restored(q) ==
    {IF p.id = q.row THEN [p EXCEPT !.stashed = FALSE] ELSE p : p \in posts}

RestorePost(q) ==
    /\ q.phase = "restorePost"
    /\ posts' = Restored(q)
    /\ crossed' = crossed \cup
         {p.id : p \in {p \in active : p.phase = "destroyPost" /\ p.row = q.row}}
    /\ Leave(q)
    /\ UNCHANGED <<sharedVars, serial, born>>

\* onDelete: Cascade from Workspace to Post.
DropPosts(w) == posts' = {p \in posts : p.workspace # w}

AdvancePost(q) ==
    \/ CheckAuthor(q)
    \/ CreatePost(q)
    \/ FindPost(q)
    \/ CheckCaller(q)
    \/ UpdatePost(q)
    \/ MatchPost(q)
    \/ StashPost(q)
    \/ DestroyPost(q)
    \/ RestorePost(q)

PostNext ==
    \/ \E u \in Users, w \in Workspaces, author \in AuthorInputs :
          BeginCreatePost(u, w, author)
    \/ \E u \in Users, w \in Workspaces, p \in posts, author \in AuthorInputs :
          BeginUpdatePost(u, w, p.id, author)
    \/ \E u \in Users, w \in Workspaces, p \in posts, write \in StashWrites :
          BeginStashPost(u, w, p.id, write)
    \/ \E q \in active : AdvancePost(q)

-----------------------------------------------------------------------------
(* Properties                                                              *)

\* The author of a post is, or was, an accepted member of its workspace: the
\* caller of createPost by the guard, a named author by validateMembership,
\* and whoever takes the post over by updatePost, from whatever workspace.
\* Only a post whose authorId an updatePost made null has none.
AuthorsWereMembers ==
    \A p \in posts : p.author # None => <<p.author, p.workspace>> \in everMember

\* deletePost from the stash destroys only what is in the stash: a post that
\* is active when it goes was restored between the check and the delete, or
\* went with its workspace.
PostDestroyedFromStash ==
    [][\A p \in posts :
         (~p.stashed /\ p.workspace \in workspaces' /\ \A x \in posts' : x.id # p.id) =>
            \E q \in active : q.phase = "destroyPost" /\ q.row = p.id /\ q.id \in crossed]_posts
=============================================================================
