----------------------------- MODULE ContentSteps -----------------------------
(* What the steps of module Content do, as far as the proofs of module     *)
(* ContentProofs ask, and that its variables keep their types.             *)
EXTENDS Content, TLAPS

AnyRequest == PostRequest \cup FolderRequest \cup FileRequest

-----------------------------------------------------------------------------
(* What a request becomes                                                  *)

\* r is what q becomes when it moves on, for a post:
PostMoves(q, r) ==
    /\ q \in PostRequest /\ r \in PostRequest
    /\ r.id = q.id /\ r.user = q.user /\ r.row = q.row
    /\ r.author = q.author /\ r.write = q.write
    /\ \/ /\ q.phase = "checkAuthor" /\ r.phase = "createPost"
          /\ r.workspace = q.workspace /\ MembershipValid(q.author, q.workspace)
       \/ /\ q.phase = "findPost" /\ r.phase = "checkCaller"
          /\ \E p \in posts : p.id = q.row /\ r.workspace = p.workspace
       \/ /\ q.phase = "checkCaller" /\ r.phase = "updatePost"
          /\ r.workspace = q.workspace /\ MembershipValid(q.user, q.workspace)
       \/ /\ q.phase = "matchPost" /\ r.phase = q.write /\ q.write \in StashWrites
          /\ r.workspace = q.workspace /\ \E p \in posts : Matches(q, p)

\* for a folder:
FolderMoves(q, r) ==
    /\ q \in FolderRequest /\ r \in FolderRequest
    /\ r.id = q.id /\ r.row = q.row
    /\ q.phase = "matchFolder" /\ r.phase \in {"stashFolder", "destroyFolder"}

\* and for a file.  Only the removal of a file and its copies becomes several
\* requests.
Removing == {"removeSessions", "removeFile", "removeObject"}

FileMoves(q, r) ==
    /\ q \in FileRequest /\ r \in FileRequest
    /\ r.id = q.id
    /\ \/ /\ q.phase = "fetch" /\ r.phase = "putObject"
          /\ r.file.id = q.file.id /\ r.file.key = q.id
       \/ /\ q.phase = "matchFile" /\ r.phase \in {"stashFile", "findCopies"}
          /\ r.file \in files /\ r.file.id = q.file.id
       \/ /\ q.phase = "findCopies" /\ r.phase = "removeSessions"
          /\ r.file = q.file \/ r.file \in files
       \/ /\ q.phase = "findAccess" /\ r.phase = "writeAccess"
          /\ r.file = q.file
          /\ r.session # None => \E s \in sessions : s.id = r.session /\ s.file = q.file.id
       \/ /\ <<q.phase, r.phase>> \in
                {<<"putObject", "createFile">>, <<"createFile", "createAccess">>,
                 <<"checkUrl", "findAccess">>, <<"writeAccess", "updateUrl">>,
                 <<"removeSessions", "removeFile">>, <<"removeFile", "removeObject">>}
          /\ r.file = q.file
          /\ r.phase = "createFile" => q.file.key \in stored'
          /\ r.phase = "createAccess" => q.file.id \in born'
          /\ r.phase = "removeObject" => \A f \in files' : f.id # q.file.id

Moves(q, r) == PostMoves(q, r) \/ FolderMoves(q, r) \/ FileMoves(q, r)

\* q moves on, ends, or becomes the removals of several files.
Served(q) ==
    /\ serial' = serial
    /\ \E R \in SUBSET AnyRequest :
         /\ active' = (active \ {q}) \cup R
         /\ \A r \in R : Moves(q, r)
         /\ q.phase # "findCopies" => \A r, s \in R : r = s

\* What a post goes to once it is found is written.
TypeInv == TypeOK /\ \A q \in active : q.phase = "matchPost" => q.write \in StashWrites

LEMMA Kinds ==
    ASSUME TypeOK, NEW q \in active
    PROVE  /\ q \in AnyRequest
           /\ q.phase \in PostPhases => q \in PostRequest
           /\ q.phase \in FolderPhases => q \in FolderRequest
           /\ q.phase \in FilePhases => q \in FileRequest
           /\ q.id \in Nat
<1>1. q \in AnyRequest
  BY DEF TypeOK, AnyRequest
<1>2. q \in PostRequest => q.phase \in PostPhases /\ q.id \in Nat
  BY DEF PostRequest
<1>3. q \in FolderRequest => q.phase \in FolderPhases /\ q.id \in Nat
  BY DEF FolderRequest
<1>4. q \in FileRequest => q.phase \in FilePhases /\ q.id \in Nat
  BY DEF FileRequest
<1>5. /\ \A p \in PostPhases : p \notin FolderPhases /\ p \notin FilePhases
      /\ \A p \in FolderPhases : p \notin FilePhases
  BY DEF PostPhases, FolderPhases, FilePhases
<1> HIDE DEF AnyRequest
<1> QED
  BY <1>1, <1>2, <1>3, <1>4, <1>5 DEF AnyRequest

LEMMA ServedAlone ==
    ASSUME NEW q, NEW r \in AnyRequest, Moves(q, r), active' = (active \ {q}) \cup {r},
           serial' = serial
    PROVE  Served(q)
<1> DEFINE R == {r}
<1>1. /\ R \in SUBSET AnyRequest /\ active' = (active \ {q}) \cup R
      /\ (\A x \in R : Moves(q, x)) /\ \A x, y \in R : x = y
  OBVIOUS
<1> HIDE DEF R
<1> QED
  BY <1>1 DEF Served

LEMMA ServedLeaves ==
    ASSUME NEW q, Leave(q), serial' = serial
    PROVE  Served(q)
<1> DEFINE R == {}
<1>1. /\ R \in SUBSET AnyRequest /\ active' = (active \ {q}) \cup R
      /\ (\A x \in R : Moves(q, x)) /\ \A x, y \in R : x = y
  BY DEF Leave
<1> HIDE DEF R
<1> QED
  BY <1>1 DEF Served

LEMMA PostServed ==
    ASSUME TypeInv, NEW q \in active, AdvancePost(q)
    PROVE  Served(q)
<1>1. q.phase \in PostPhases
  BY DEF AdvancePost, CheckAuthor, CreatePost, FindPost, CheckCaller, UpdatePost, MatchPost,
         StashPost, DestroyPost, RestorePost, PostPhases
<1>2. q \in PostRequest
  BY <1>1, Kinds DEF TypeInv
<1>3. ASSUME NEW phase \in PostPhases, MoveTo(q, phase), serial' = serial,
             \/ /\ q.phase = "checkAuthor" /\ phase = "createPost"
                /\ MembershipValid(q.author, q.workspace)
             \/ /\ q.phase = "checkCaller" /\ phase = "updatePost"
                /\ MembershipValid(q.user, q.workspace)
             \/ /\ q.phase = "matchPost" /\ phase = q.write /\ q.write \in StashWrites
                /\ \E p \in posts : Matches(q, p)
      PROVE  Served(q)
  <2> DEFINE r == [q EXCEPT !.phase = phase]
  <2>1. /\ r \in PostRequest /\ r.phase = phase
        /\ r.id = q.id /\ r.user = q.user /\ r.row = q.row
        /\ r.author = q.author /\ r.write = q.write /\ r.workspace = q.workspace
    BY <1>2 DEF PostRequest
  <2>2. active' = (active \ {q}) \cup {r}
    BY <1>3 DEF MoveTo, Resume
  <2> HIDE DEF r
  <2>3. Moves(q, r)
    BY <1>2, <1>3, <2>1 DEF Moves, PostMoves
  <2> QED
    BY <1>3, <2>1, <2>2, <2>3, ServedAlone DEF AnyRequest
<1>4. CASE CheckAuthor(q)
  BY <1>3, <1>4, ServedLeaves DEF CheckAuthor, PostPhases
<1>5. CASE CheckCaller(q)
  BY <1>3, <1>5, ServedLeaves DEF CheckCaller, PostPhases
<1>6. CASE MatchPost(q)
  <2>1. Leave(q) \/ (MoveTo(q, q.write) /\ \E p \in posts : Matches(q, p))
    BY <1>6 DEF MatchPost
  <2>2. q.write \in StashWrites
    BY <1>6 DEF MatchPost, TypeInv
  <2> QED
    BY <1>3, <1>6, <2>1, <2>2, ServedLeaves DEF MatchPost, PostPhases, StashWrites
<1>7. CASE FindPost(q)
  <2>1. ASSUME NEW p \in posts, p.id = q.row, Resume(q, AfterFindPost(q, p))
        PROVE  Served(q)
    <3> DEFINE r == AfterFindPost(q, p)
    <3>1. p.workspace \in Workspaces
      BY DEF TypeInv, TypeOK, PostTypeOK, Posts
    <3>2. /\ r \in PostRequest /\ r.phase = "checkCaller" /\ r.workspace = p.workspace
          /\ r.id = q.id /\ r.user = q.user /\ r.row = q.row
          /\ r.author = q.author /\ r.write = q.write
      BY <1>2, <3>1 DEF PostRequest, AfterFindPost, PostPhases
    <3>3. active' = (active \ {q}) \cup {r}
      BY <2>1 DEF Resume
    <3> HIDE DEF r
    <3>4. Moves(q, r)
      BY <1>2, <1>7, <2>1, <3>2 DEF Moves, PostMoves, FindPost
    <3> QED
      BY <1>7, <3>2, <3>3, <3>4, ServedAlone DEF FindPost, AnyRequest
  <2> QED
    BY <1>7, <2>1, ServedLeaves DEF FindPost
<1>8. CASE \/ CreatePost(q) \/ UpdatePost(q) \/ StashPost(q) \/ DestroyPost(q)
           \/ RestorePost(q)
  BY <1>8, ServedLeaves DEF CreatePost, UpdatePost, StashPost, DestroyPost, RestorePost
<1> QED
  BY <1>4, <1>5, <1>6, <1>7, <1>8 DEF AdvancePost

LEMMA FolderServed ==
    ASSUME TypeInv, NEW q \in active, AdvanceFolder(q)
    PROVE  Served(q)
<1>1. CASE MatchFolder(q)
  <2>1. q \in FolderRequest /\ q.phase = "matchFolder"
    BY <1>1, Kinds DEF MatchFolder, FolderPhases, TypeInv
  <2>2. ASSUME NEW phase \in {"stashFolder", "destroyFolder"}, MoveTo(q, phase), serial' = serial
        PROVE  Served(q)
    <3> DEFINE r == [q EXCEPT !.phase = phase]
    <3>1. r \in FolderRequest /\ r.phase = phase /\ r.id = q.id /\ r.row = q.row
      BY <2>1 DEF FolderRequest, FolderPhases
    <3>2. active' = (active \ {q}) \cup {r}
      BY <2>2 DEF MoveTo, Resume
    <3> HIDE DEF r
    <3>3. Moves(q, r)
      BY <2>1, <2>2, <3>1 DEF Moves, FolderMoves
    <3> QED
      BY <2>2, <3>1, <3>2, <3>3, ServedAlone DEF AnyRequest
  <2> QED
    BY <1>1, <2>2, ServedLeaves DEF MatchFolder
<1>2. CASE StashFolder(q) \/ DestroyFolder(q)
  BY <1>2, ServedLeaves DEF StashFolder, DestroyFolder
<1> QED
  BY <1>1, <1>2 DEF AdvanceFolder

\* x is the file f after a step: renewed, stashed or without its original.
FileFrom(f, x) ==
    /\ x.id = f.id /\ x.key = f.key
    /\ x.workspace = f.workspace

LEMMA FileRowsRemoved ==
    ASSUME files \subseteq Files, NEW R, files' = WithoutFiles(R)
    PROVE  /\ \A x \in files' : /\ x \in Files /\ x.id \notin R
                                /\ \E f \in files : FileFrom(f, x)
           /\ \A f \in files : f.id \in R \/ \E x \in files' : FileFrom(f, x)
<1> DEFINE g(f) == [f EXCEPT !.original = None]
<1>1. \A f \in files : g(f) \in Files /\ FileFrom(f, g(f)) /\ FileFrom(f, f)
  BY DEF Files, FileFrom, None
<1>2. \A x \in files' : \E f \in files : f.id \notin R /\ x \in {f, g(f)}
  BY DEF WithoutFiles
<1>3. \A f \in files : f.id \in R \/ f \in files' \/ g(f) \in files'
  BY DEF WithoutFiles
<1> HIDE DEF g
<1> QED
  BY <1>1, <1>2, <1>3 DEF FileFrom

LEMMA FileServed ==
    ASSUME TypeInv, NEW q \in active, AdvanceFile(q)
    PROVE  Served(q)
<1>1. q.phase \in FilePhases
  BY DEF AdvanceFile, Fetch, PutObject, CreateFile, CreateAccess, CheckUrl, FindAccess,
         WriteAccess, UpdateUrl, MatchFile, StashFile, FindCopies, RemoveSessions,
         RemoveFile, RemoveObject, AbortFile, FilePhases
<1>2. q \in FileRequest /\ q.file \in Files /\ q.id \in Nat
  BY <1>1, Kinds DEF TypeInv, FileRequest
<1>3. ASSUME NEW phase \in FilePhases, MoveTo(q, phase), serial' = serial,
             <<q.phase, phase>> \in
                {<<"putObject", "createFile">>, <<"createFile", "createAccess">>,
                 <<"checkUrl", "findAccess">>, <<"writeAccess", "updateUrl">>,
                 <<"removeSessions", "removeFile">>, <<"removeFile", "removeObject">>},
             phase = "createFile" => q.file.key \in stored',
             phase = "createAccess" => q.file.id \in born',
             phase = "removeObject" => \A f \in files' : f.id # q.file.id
      PROVE  Served(q)
  <2> DEFINE r == [q EXCEPT !.phase = phase]
  <2>1. r \in FileRequest /\ r.phase = phase /\ r.id = q.id /\ r.file = q.file
    BY <1>2 DEF FileRequest
  <2>2. active' = (active \ {q}) \cup {r}
    BY <1>3 DEF MoveTo, Resume
  <2> HIDE DEF r
  <2>3. Moves(q, r)
    BY <1>2, <1>3, <2>1 DEF Moves, FileMoves
  <2> QED
    BY <1>3, <2>1, <2>2, <2>3, ServedAlone DEF AnyRequest
<1>4. CASE Fetch(q)
  <2> DEFINE r == [q EXCEPT !.phase = "putObject", !.file.key = q.id]
  <2>1. /\ r \in FileRequest /\ r.phase = "putObject" /\ r.id = q.id
        /\ r.file.id = q.file.id /\ r.file.key = q.id
    BY <1>2 DEF FileRequest, Files, FilePhases
  <2>2. Leave(q) \/ active' = (active \ {q}) \cup {r}
    BY <1>4 DEF Fetch, Resume
  <2> HIDE DEF r
  <2>3. Moves(q, r)
    BY <1>2, <1>4, <2>1 DEF Moves, FileMoves, Fetch
  <2> QED
    BY <1>4, <2>1, <2>2, <2>3, ServedAlone, ServedLeaves DEF AnyRequest, Fetch
<1>5. CASE PutObject(q)
  BY <1>3, <1>5 DEF PutObject, FilePhases
<1>6. CASE CreateFile(q)
  BY <1>3, <1>6, ServedLeaves DEF CreateFile, FilePhases
<1>7. CASE CheckUrl(q)
  <2>1. ASSUME NEW url \in SignedNow(q),
               Resume(q, [q EXCEPT !.phase = "findAccess", !.url = url])
        PROVE  Served(q)
    <3> DEFINE r == [q EXCEPT !.phase = "findAccess", !.url = url]
    <3>1. url \in Nat
      <4>1. \A x \in AtFile(q.file.id) : x.url \in Nat
        <5> SUFFICES ASSUME NEW x \in AtFile(q.file.id) PROVE x.url \in Nat
          OBVIOUS
        <5>1. x \in FileRequest
          BY Kinds DEF TypeInv, AtFile, FileRequests
        <5> QED
          BY <5>1 DEF FileRequest
      <4> QED
        BY <1>2, <4>1 DEF SignedNow
    <3>2. r \in FileRequest /\ r.phase = "findAccess" /\ r.id = q.id /\ r.file = q.file
      BY <1>2, <3>1 DEF FileRequest, FilePhases
    <3>3. active' = (active \ {q}) \cup {r}
      BY <2>1 DEF Resume
    <3> HIDE DEF r
    <3>4. Moves(q, r)
      BY <1>2, <1>7, <3>2 DEF Moves, FileMoves, CheckUrl
    <3> QED
      BY <1>7, <3>2, <3>3, <3>4, ServedAlone DEF CheckUrl, AnyRequest
  <2> QED
    BY <1>7, <2>1, ServedLeaves DEF CheckUrl
<1>8. CASE FindAccess(q)
  <2>1. PICK session \in IF FoundAccess(q) = {} THEN {None} ELSE FoundAccess(q) :
          Resume(q, [q EXCEPT !.phase = "writeAccess", !.session = session])
    BY <1>8 DEF FindAccess
  <2> DEFINE r == [q EXCEPT !.phase = "writeAccess", !.session = session]
  <2>2. /\ session # None => \E s \in sessions : s.id = session /\ s.file = q.file.id
        /\ session \in Nat
    BY <2>1 DEF FoundAccess, SessionOf, TypeInv, TypeOK, MediaTypeOK, Sessions, None
  <2>3. /\ r \in FileRequest /\ r.phase = "writeAccess" /\ r.id = q.id
        /\ r.file = q.file /\ r.session = session
    BY <1>2, <2>2 DEF FileRequest, FilePhases
  <2>4. active' = (active \ {q}) \cup {r}
    BY <2>1 DEF Resume
  <2> HIDE DEF r
  <2>5. Moves(q, r)
    BY <1>2, <1>8, <2>2, <2>3 DEF Moves, FileMoves, FindAccess
  <2> QED
    BY <1>8, <2>3, <2>4, <2>5, ServedAlone DEF FindAccess, AnyRequest
<1>9. CASE WriteAccess(q)
  BY <1>3, <1>9, ServedLeaves DEF WriteAccess, FilePhases
<1>10. CASE MatchFile(q)
  <2>1. ASSUME NEW f \in files, f.id = q.file.id, NEW phase \in {"stashFile", "findCopies"},
               Resume(q, [q EXCEPT !.file = f, !.phase = phase])
        PROVE  Served(q)
    <3> DEFINE r == [q EXCEPT !.file = f, !.phase = phase]
    <3>1. f \in Files
      BY DEF TypeInv, TypeOK, MediaTypeOK
    <3>2. r \in FileRequest /\ r.phase = phase /\ r.id = q.id /\ r.file = f
      BY <1>2, <3>1 DEF FileRequest, FilePhases
    <3>3. active' = (active \ {q}) \cup {r}
      BY <2>1 DEF Resume
    <3> HIDE DEF r
    <3>4. Moves(q, r)
      BY <1>2, <1>10, <2>1, <3>2 DEF Moves, FileMoves, MatchFile
    <3> QED
      BY <1>10, <3>2, <3>3, <3>4, ServedAlone DEF MatchFile, AnyRequest
  <2> QED
    BY <1>10, <2>1, ServedLeaves DEF MatchFile
<1>11. CASE FindCopies(q)
  <2> DEFINE f(x) == [q EXCEPT !.phase = "removeSessions", !.file = x]
             R == {f(x) : x \in ToRemove(q)}
  <2>1. \A x \in ToRemove(q) : x \in Files /\ (x = q.file \/ x \in files)
    BY <1>2 DEF ToRemove, TypeInv, TypeOK, MediaTypeOK
  <2>2. \A x \in Files : /\ f(x) \in FileRequest /\ f(x).phase = "removeSessions"
                         /\ f(x).id = q.id /\ f(x).file = x
    BY <1>2 DEF FileRequest, FilePhases
  <2>3. active' = (active \ {q}) \cup R
    BY <1>11 DEF FindCopies
  <2>4. \A r \in R : \E x \in ToRemove(q) : r = f(x)
    OBVIOUS
  <2> HIDE DEF f, R
  <2>5. \A r \in R : r \in FileRequest /\ Moves(q, r)
    <3> SUFFICES ASSUME NEW r \in R PROVE r \in FileRequest /\ Moves(q, r)
      OBVIOUS
    <3>1. PICK x \in ToRemove(q) : r = f(x)
      BY <2>4
    <3>2. x \in Files /\ (x = q.file \/ x \in files)
      BY <2>1
    <3>3. r \in FileRequest /\ r.phase = "removeSessions" /\ r.id = q.id /\ r.file = x
      BY <2>2, <3>1, <3>2
    <3> QED
      BY <1>2, <1>11, <3>2, <3>3 DEF Moves, FileMoves, FindCopies
  <2>6. R \in SUBSET AnyRequest /\ q.phase = "findCopies" /\ serial' = serial
    BY <1>11, <2>5 DEF AnyRequest, FindCopies
  <2>7. /\ active' = (active \ {q}) \cup R
        /\ \A r \in R : Moves(q, r)
        /\ q.phase # "findCopies" => \A r, s \in R : r = s
    BY <2>3, <2>5, <2>6
  <2> QED
    BY <2>6, <2>7 DEF Served
<1>12. CASE RemoveSessions(q)
  BY <1>3, <1>12 DEF RemoveSessions, FilePhases
<1>13. CASE RemoveFile(q)
  <2>1. CASE Leave(q)
    BY <1>13, <2>1, ServedLeaves DEF RemoveFile
  <2>2. CASE MoveTo(q, "removeObject") /\ files' = WithoutFiles({q.file.id})
    <3>1. \A f \in files' : f.id # q.file.id
      BY <2>2, FileRowsRemoved DEF TypeInv, TypeOK, MediaTypeOK
    <3> QED
      BY <1>3, <1>13, <2>2, <3>1 DEF RemoveFile, FilePhases
  <2> QED
    BY <1>13, <2>1, <2>2 DEF RemoveFile, AfterRemoved
<1>14. CASE CreateAccess(q) \/ UpdateUrl(q) \/ StashFile(q) \/ RemoveObject(q) \/ AbortFile(q)
  BY <1>14, ServedLeaves DEF CreateAccess, UpdateUrl, StashFile, RemoveObject, AbortFile
<1> QED
  BY <1>4, <1>5, <1>6, <1>7, <1>8, <1>9, <1>10, <1>11, <1>12, <1>13, <1>14 DEF AdvanceFile

-----------------------------------------------------------------------------
(* Requests that start                                                     *)

\* What holds of a request when it starts: it is new, and what it is about is
\* there, unless it is to create it.
Starts(r) ==
    /\ r \in AnyRequest
    /\ r.id = serial + 1
    /\ \/ /\ r \in PostRequest /\ r.phase \in {"checkAuthor", "createPost"}
          /\ r.row = r.id /\ <<r.user, r.workspace>> \in members
          /\ r.phase = "createPost" => r.author \in {None, NotGiven}
       \/ /\ r \in PostRequest /\ r.phase \in {"findPost", "matchPost"}
          /\ \E p \in posts : p.id = r.row
          /\ IF r.phase = "findPost" THEN r.author \in {NotGiven, None, r.user}
                                     ELSE r.write \in StashWrites
       \/ r \in FolderRequest /\ r.phase = "matchFolder"
       \/ /\ r \in FileRequest /\ r.phase = "putObject"
          /\ r.file.id = r.id /\ r.file.key = r.id
       \/ r \in FileRequest /\ r.phase = "fetch" /\ r.file.id = r.id
       \/ /\ r \in FileRequest /\ r.phase \in {"checkUrl", "matchFile"}
          /\ \E f \in files : f.id = r.file.id /\ f.key = r.file.key

Begins ==
    /\ serial' = serial + 1
    /\ \E r \in AnyRequest : Starts(r) /\ active' = active \cup {r}
    /\ UNCHANGED <<workspaces, members, everMember, born, crossed, posts, folders, looped,
                   files, sessions, stored, copies, leaked>>
    /\ raced' \subseteq raced \cup FileIds

BeginPost ==
    \/ \E u \in Users, w \in Workspaces, author \in AuthorInputs :
          BeginCreatePost(u, w, author)
    \/ \E u \in Users, w \in Workspaces, p \in posts, author \in AuthorInputs :
          BeginUpdatePost(u, w, p.id, author)
    \/ \E u \in Users, w \in Workspaces, p \in posts, write \in StashWrites :
          BeginStashPost(u, w, p.id, write)

BeginFolder == \E row \in FolderIds, fromStash \in BOOLEAN : BeginDeleteFolder(row, fromStash)

BeginFile ==
    \/ \E w \in WorkspaceOrNull, signed \in BOOLEAN : BeginUpload(w, signed)
    \/ \E f \in files : BeginResize(f)
    \/ \E f \in files : BeginReadUrl(f)
    \/ \E f \in files, fromStash \in BOOLEAN : BeginDeleteFile(f, fromStash)

LEMMA PostBegins ==
    ASSUME TypeInv, BeginPost, UNCHANGED <<folders, looped, fileVars>>
    PROVE  Begins /\ raced' = raced
<1>1. serial \in Nat /\ \A p \in posts : p.id \in Nat
  BY DEF TypeInv, TypeOK, RequestsTypeOK, PostTypeOK, Posts
<1>2. ASSUME NEW phase \in {"checkAuthor", "createPost", "findPost", "matchPost"},
             NEW u \in Users, NEW w \in Workspaces, NEW row \in Nat,
             NEW author \in AuthorInputs,
             NEW write \in StashWrites \cup {"createPost", "updatePost"}
      PROVE  LET r == [id |-> serial + 1, phase |-> phase, user |-> u, workspace |-> w,
                       row |-> row, author |-> author, write |-> write]
             IN  /\ r \in PostRequest /\ r.id = serial + 1 /\ r.phase = phase
                 /\ r.user = u /\ r.workspace = w /\ r.row = row
                 /\ r.author = author /\ r.write = write
  BY <1>1 DEF PostRequest, PostPhases
<1>3. ASSUME NEW r \in PostRequest, Start(r), Starts(r), UNCHANGED <<sharedVars, observed, posts>>
      PROVE  Begins /\ raced' = raced
  BY <1>3 DEF Start, Count, Begins, AnyRequest, sharedVars, observed, fileVars
<1>4. ASSUME NEW u \in Users, NEW w \in Workspaces, NEW author \in AuthorInputs,
             BeginCreatePost(u, w, author)
      PROVE  Begins /\ raced' = raced
  <2> DEFINE r == [id |-> serial + 1, phase |-> FirstPhase(author), user |-> u, workspace |-> w,
                   row |-> serial + 1, author |-> author, write |-> "createPost"]
  <2>1. /\ Start(r) /\ UNCHANGED <<sharedVars, observed, posts>> /\ <<u, w>> \in members
        /\ FirstPhase(author) \in {"checkAuthor", "createPost"}
        /\ FirstPhase(author) = "createPost" => author \in {None, NotGiven}
    BY <1>4 DEF BeginCreatePost, MembershipValid, FirstPhase
  <2>2. /\ r \in PostRequest /\ r.id = serial + 1 /\ r.phase = FirstPhase(author)
        /\ r.user = u /\ r.workspace = w /\ r.row = serial + 1 /\ r.author = author
    BY <1>1, <1>2, <2>1
  <2> HIDE DEF r
  <2> QED
    BY <1>3, <2>1, <2>2 DEF Starts, AnyRequest
<1>5. ASSUME NEW u \in Users, NEW w \in Workspaces, NEW p \in posts,
             NEW author \in AuthorInputs, BeginUpdatePost(u, w, p.id, author)
      PROVE  Begins /\ raced' = raced
  <2> DEFINE r == [id |-> serial + 1, phase |-> "findPost", user |-> u, workspace |-> w,
                   row |-> p.id, author |-> author, write |-> "updatePost"]
  <2>1. /\ Start(r) /\ UNCHANGED <<sharedVars, observed, posts>> /\ author \in {NotGiven, None, u}
    BY <1>5 DEF BeginUpdatePost, AuthorAllowed
  <2>2. /\ r \in PostRequest /\ r.id = serial + 1 /\ r.phase = "findPost"
        /\ r.user = u /\ r.row = p.id /\ r.author = author
    BY <1>1, <1>2
  <2> HIDE DEF r
  <2> QED
    BY <1>3, <2>1, <2>2 DEF Starts, AnyRequest
<1>6. ASSUME NEW u \in Users, NEW w \in Workspaces, NEW p \in posts, NEW write \in StashWrites,
             BeginStashPost(u, w, p.id, write)
      PROVE  Begins /\ raced' = raced
  <2> DEFINE r == [id |-> serial + 1, phase |-> "matchPost", user |-> u, workspace |-> w,
                   row |-> p.id, author |-> NotGiven, write |-> write]
  <2>1. Start(r) /\ UNCHANGED <<sharedVars, observed, posts>>
    BY <1>6 DEF BeginStashPost
  <2>2. /\ r \in PostRequest /\ r.id = serial + 1 /\ r.phase = "matchPost"
        /\ r.row = p.id /\ r.write = write
    BY <1>1, <1>2 DEF AuthorInputs
  <2> HIDE DEF r
  <2> QED
    BY <1>3, <2>1, <2>2 DEF Starts, AnyRequest
<1> QED
  BY <1>4, <1>5, <1>6 DEF BeginPost

LEMMA FolderBegins ==
    ASSUME TypeInv, BeginFolder, UNCHANGED <<posts, fileVars>>
    PROVE  Begins /\ raced' = raced
<1>1. serial \in Nat /\ \A f \in folders : f.id \in Nat
  BY DEF TypeInv, TypeOK, RequestsTypeOK, FolderTypeOK, Folders
<1>2. PICK row \in FolderIds, fromStash \in BOOLEAN : BeginDeleteFolder(row, fromStash)
  BY DEF BeginFolder
<1> DEFINE r == [id |-> serial + 1, phase |-> "matchFolder", row |-> row, fromStash |-> fromStash]
<1>3. row \in Nat
  BY <1>1 DEF FolderIds
<1>4. Start(r) /\ UNCHANGED <<sharedVars, observed, folders, looped>>
  BY <1>2 DEF BeginDeleteFolder
<1>5. r \in FolderRequest /\ r.id = serial + 1 /\ r.phase = "matchFolder"
  BY <1>1, <1>3 DEF FolderRequest, FolderPhases
<1> HIDE DEF r
<1> QED
  BY <1>4, <1>5
     DEF Starts, Start, Count, Begins, AnyRequest, sharedVars, observed, fileVars

LEMMA CopiedFile ==
    ASSUME NEW x \in Files, NEW i \in Nat, NEW original \in Nat
    PROVE  LET f == [x EXCEPT !.id = i, !.url = i, !.stashed = FALSE, !.original = original]
           IN  f \in Files /\ f.id = i
  BY DEF Files

LEMMA FileBegins ==
    ASSUME TypeInv, BeginFile, UNCHANGED <<posts, folders, looped>>
    PROVE  Begins
<1>1. /\ serial \in Nat /\ files \subseteq Files
      /\ \A f \in files : f.id \in Nat /\ f.url \in Nat
  BY DEF TypeInv, TypeOK, RequestsTypeOK, MediaTypeOK, Files
<1>2. ASSUME NEW phase \in {"putObject", "fetch", "checkUrl", "matchFile"}, NEW f \in Files,
             StartAt(phase, f),
             \/ phase = "putObject" /\ f.id = serial + 1 /\ f.key = serial + 1
             \/ phase = "fetch" /\ f.id = serial + 1
             \/ /\ phase \in {"checkUrl", "matchFile"}
                /\ \E x \in files : x.id = f.id /\ x.key = f.key,
             UNCHANGED <<sharedVars, observed, files, sessions, stored, copies, leaked>>,
             raced' \subseteq raced \cup FileIds
      PROVE  Begins
  <2> DEFINE r == [id |-> serial + 1, phase |-> phase, file |-> f, url |-> f.url,
                   session |-> None]
  <2>1. Start(r)
    BY <1>2 DEF StartAt
  <2>2. f.url \in Nat
    BY DEF Files
  <2>3. r \in FileRequest /\ r.id = serial + 1 /\ r.phase = phase /\ r.file = f
    BY <1>1, <2>2 DEF FileRequest, FilePhases, None
  <2> HIDE DEF r
  <2> QED
    BY <1>2, <2>1, <2>3 DEF Starts, Start, Count, Begins, AnyRequest, sharedVars, observed
<1>3. ASSUME NEW w \in WorkspaceOrNull, NEW signed \in BOOLEAN, BeginUpload(w, signed)
      PROVE  Begins
  <2> DEFINE f == [id |-> serial + 1, key |-> serial + 1, original |-> None, workspace |-> w,
                   signed |-> signed, url |-> serial + 1, stashed |-> FALSE]
  <2>1. f \in Files /\ f.id = serial + 1 /\ f.key = serial + 1
    BY <1>1 DEF Files, None
  <2>2. StartAt("putObject", f) /\ UNCHANGED <<sharedVars, observed, fileVars>>
    BY <1>3 DEF BeginUpload
  <2> HIDE DEF f
  <2> QED
    BY <1>2, <2>1, <2>2 DEF fileVars
<1>4. ASSUME NEW x \in files, BeginResize(x)
      PROVE  Begins
  <2> DEFINE original == IF x.original = None THEN x.id ELSE x.original
             f == [x EXCEPT !.id = serial + 1, !.url = serial + 1, !.stashed = FALSE,
                            !.original = original]
  <2>1. f \in Files /\ f.id = serial + 1
    <3>1. original \in Nat
      BY <1>1 DEF Files
    <3>2. serial + 1 \in Nat /\ x \in Files
      BY <1>1
    <3> HIDE DEF original
    <3> QED
      BY <3>1, <3>2, CopiedFile, Zenon
  <2>2. StartAt("fetch", f) /\ UNCHANGED <<sharedVars, observed, fileVars>>
    BY <1>4 DEF BeginResize
  <2> HIDE DEF f
  <2> QED
    BY <1>2, <2>1, <2>2 DEF fileVars
<1>5. ASSUME NEW x \in files, BeginReadUrl(x)
      PROVE  Begins
  BY <1>1, <1>2, <1>5 DEF BeginReadUrl, Meet, FileIds
<1>6. ASSUME NEW x \in files, NEW fromStash \in BOOLEAN, BeginDeleteFile(x, fromStash)
      PROVE  Begins
  <2> DEFINE f == [x EXCEPT !.stashed = fromStash]
  <2>1. f \in Files /\ f.id = x.id /\ f.key = x.key
    BY <1>1 DEF Files
  <2>2. StartAt("matchFile", f)
        /\ UNCHANGED <<sharedVars, observed, files, sessions, stored, copies, leaked>>
        /\ raced' \subseteq raced \cup FileIds
    BY <1>6 DEF BeginDeleteFile, Meet, FileIds
  <2> HIDE DEF f
  <2> QED
    BY <1>2, <2>1, <2>2
<1> QED
  BY <1>3, <1>4, <1>5, <1>6 DEF BeginFile

\* A step starts a request, serves one, or is a request of one call.
LEMMA NextCases ==
    ASSUME TypeInv, [Next]_vars
    PROVE  \/ UNCHANGED vars
           \/ Begins
           \/ \E q \in active :
                \/ AdvancePost(q) /\ UNCHANGED <<folders, looped, fileVars>>
                \/ AdvanceFolder(q) /\ UNCHANGED <<posts, fileVars>>
                \/ AdvanceFile(q) /\ UNCHANGED <<posts, folders, looped>>
                \/ Abort(q) /\ UNCHANGED <<posts, folders, looped, fileVars>>
           \/ \E w \in WorkspaceOrNull, parent \in FolderIds \cup {None} :
                CreateFolder(w, parent) /\ UNCHANGED <<posts, fileVars>>
           \/ \E row \in FolderIds, parent \in FolderIds \cup {None} :
                MoveFolder(row, parent) /\ UNCHANGED <<posts, fileVars>>
           \/ \E u \in Users, w \in Workspaces :
                ToggleMember(u, w) /\ UNCHANGED <<posts, folders, looped, fileVars>>
           \/ \E w \in Workspaces : DestroyWorkspace(w)
<1>1. CASE PostNext /\ UNCHANGED <<folders, looped, fileVars>>
  <2>1. BeginPost \/ \E q \in active : AdvancePost(q)
    BY <1>1 DEF PostNext, BeginPost
  <2> QED
    BY <1>1, <2>1, PostBegins
<1>2. CASE FolderNext /\ UNCHANGED <<posts, fileVars>>
  <2>1. CASE BeginFolder
    BY <1>2, <2>1, FolderBegins
  <2>2. CASE ~BeginFolder
    BY <1>2, <2>2 DEF FolderNext, BeginFolder
  <2> QED
    BY <2>1, <2>2
<1>3. CASE MediaNext /\ UNCHANGED <<posts, folders, looped>>
  <2>1. BeginFile \/ \E q \in active : AdvanceFile(q)
    BY <1>3 DEF MediaNext, BeginFile
  <2> QED
    BY <1>3, <2>1, FileBegins
<1>4. CASE \/ UNCHANGED vars
           \/ \E u \in Users, w \in Workspaces :
                ToggleMember(u, w) /\ UNCHANGED <<posts, folders, looped, fileVars>>
           \/ \E w \in Workspaces : DestroyWorkspace(w)
           \/ \E q \in active : Abort(q) /\ UNCHANGED <<posts, folders, looped, fileVars>>
  BY <1>4
<1> QED
  BY <1>1, <1>2, <1>3, <1>4 DEF Next

-----------------------------------------------------------------------------
(* What a request does to the tables                                       *)

\* x is what a step of q makes of the post p.
PostFrom(q, p, x) ==
    /\ x.id = p.id /\ x.workspace = p.workspace
    /\ \/ x.author = p.author
       \/ q.phase = "updatePost" /\ p.id = q.row /\ q.author # NotGiven /\ x.author = q.author
    /\ p.stashed => x.stashed \/ (q.phase = "restorePost" /\ p.id = q.row)

\* x is the post q creates.
PostCreated(q, x) ==
    /\ q.phase = "createPost" /\ x.id = q.row
    /\ x.workspace = q.workspace /\ q.workspace \in workspaces
    /\ x.author = AuthorOf(q)
    /\ born' = born \cup {q.row}

PostChange(q) ==
    /\ \A x \in posts' : x \in Posts /\ ((\E p \in posts : PostFrom(q, p, x)) \/ PostCreated(q, x))
    /\ \A p \in posts : \/ \E x \in posts' : PostFrom(q, p, x)
                        \/ q.phase = "destroyPost" /\ p.id = q.row
    /\ \/ born' = born
       \/ q.phase = "createPost" /\ born' = born \cup {q.row}
    /\ crossed \subseteq crossed' /\ crossed' \subseteq crossed \cup {p.id : p \in active}
    /\ q.phase = "restorePost" /\ posts' # posts =>
         \A p \in active : p.phase = "destroyPost" /\ p.row = q.row => p.id \in crossed'
    /\ UNCHANGED <<workspaces, members, everMember>>

LEMMA PostsChange ==
    ASSUME TypeInv, NEW q \in active, AdvancePost(q)
    PROVE  PostChange(q)
<1>1. q.phase \in PostPhases
  BY DEF AdvancePost, CheckAuthor, CreatePost, FindPost, CheckCaller, UpdatePost, MatchPost,
         StashPost, DestroyPost, RestorePost, PostPhases
<1>2. q \in PostRequest /\ posts \subseteq Posts
  BY <1>1, Kinds DEF TypeInv, TypeOK, PostTypeOK
<1>3. \A p \in posts : PostFrom(q, p, p)
  BY DEF PostFrom
<1>4. CASE CreatePost(q)
  <2> DEFINE x == [id |-> q.row, workspace |-> q.workspace, stashed |-> FALSE,
                   author |-> AuthorOf(q)]
  <2>1. /\ x \in Posts /\ x.id = q.row /\ x.workspace = q.workspace
        /\ x.author = AuthorOf(q)
    BY <1>2 DEF Posts, PostRequest, AuthorInputs, AuthorOf
  <2>2. /\ q.phase = "createPost" /\ UNCHANGED <<workspaces, members, everMember, crossed>>
        /\ IF WorkspaceThere(q) THEN posts' = posts \cup {x} /\ born' = born \cup {q.row}
                               ELSE posts' = posts /\ born' = born
    BY <1>4 DEF CreatePost, sharedVars
  <2> HIDE DEF x
  <2>3. CASE WorkspaceThere(q)
    <3>1. PostCreated(q, x)
      BY <2>1, <2>2, <2>3 DEF PostCreated, WorkspaceThere
    <3> QED
      BY <1>2, <1>3, <2>1, <2>2, <2>3, <3>1 DEF PostChange
  <2>4. CASE ~WorkspaceThere(q)
    BY <1>2, <1>3, <2>2, <2>4 DEF PostChange
  <2> QED
    BY <2>3, <2>4
<1>5. CASE UpdatePost(q)
  <2> DEFINE f(p) == [p EXCEPT !.author = q.author]
  <2>1. q.author # NotGiven => \A p \in posts : f(p) \in Posts /\ (p.id = q.row => PostFrom(q, p, f(p)))
    <3> SUFFICES ASSUME q.author # NotGiven, NEW p \in posts
                 PROVE  f(p) \in Posts /\ (p.id = q.row => PostFrom(q, p, f(p)))
      OBVIOUS
    <3>1. q.author \in Users \cup {None}
      BY <1>2 DEF PostRequest, AuthorInputs
    <3>2. /\ f(p) \in Posts /\ f(p).id = p.id /\ f(p).workspace = p.workspace
          /\ f(p).author = q.author /\ f(p).stashed = p.stashed
      BY <1>2, <3>1 DEF Posts
    <3> HIDE DEF f
    <3> QED
      BY <1>5, <3>2 DEF PostFrom, UpdatePost
  <2>2. posts' = {IF p.id = q.row /\ q.author # NotGiven THEN f(p) ELSE p : p \in posts}
        /\ UNCHANGED <<workspaces, members, everMember, born, crossed>>
        /\ q.phase = "updatePost"
    BY <1>5 DEF UpdatePost, sharedVars, observed
  <2> HIDE DEF f
  <2>3. /\ \A x \in posts' : \/ x \in posts
                             \/ q.author # NotGiven /\ \E p \in posts : p.id = q.row /\ x = f(p)
        /\ \A p \in posts : \/ p \in posts'
                            \/ q.author # NotGiven /\ p.id = q.row /\ f(p) \in posts'
    BY <2>2
  <2>4. \A x \in posts' : x \in Posts /\ \E p \in posts : PostFrom(q, p, x)
    BY <1>2, <1>3, <2>1, <2>3
  <2>5. \A p \in posts : \E x \in posts' : PostFrom(q, p, x)
    BY <1>3, <2>1, <2>3
  <2> QED
    BY <2>2, <2>4, <2>5 DEF PostChange
<1>6. ASSUME NEW stashed \in BOOLEAN, stashed \/ q.phase = "restorePost",
             posts' = {IF p.id = q.row THEN [p EXCEPT !.stashed = stashed] ELSE p : p \in posts}
      PROVE  /\ \A x \in posts' : x \in Posts /\ \E p \in posts : PostFrom(q, p, x)
             /\ \A p \in posts : \E x \in posts' : PostFrom(q, p, x)
  <2> DEFINE f(p) == [p EXCEPT !.stashed = stashed]
  <2>1. \A p \in posts : f(p) \in Posts /\ (p.id = q.row => PostFrom(q, p, f(p)))
    <3> SUFFICES ASSUME NEW p \in posts
                 PROVE  f(p) \in Posts /\ (p.id = q.row => PostFrom(q, p, f(p)))
      OBVIOUS
    <3>1. /\ f(p) \in Posts /\ f(p).id = p.id /\ f(p).workspace = p.workspace
          /\ f(p).author = p.author /\ f(p).stashed = stashed
      BY <1>2 DEF Posts
    <3> HIDE DEF f
    <3> QED
      BY <1>6, <3>1 DEF PostFrom
  <2>2. posts' = {IF p.id = q.row THEN f(p) ELSE p : p \in posts}
    BY <1>6
  <2> HIDE DEF f
  <2>3. /\ \A x \in posts' : x \in posts \/ \E p \in posts : p.id = q.row /\ x = f(p)
        /\ \A p \in posts : p \in posts' \/ (p.id = q.row /\ f(p) \in posts')
    BY <2>2
  <2> QED
    BY <1>2, <1>3, <2>1, <2>3
<1>7. CASE StashPost(q)
  BY <1>6, <1>7 DEF StashPost, PostChange, sharedVars, observed
<1>8. CASE RestorePost(q)
  <2>1. /\ q.phase = "restorePost" /\ UNCHANGED <<workspaces, members, everMember, born>>
        /\ posts' = {IF p.id = q.row THEN [p EXCEPT !.stashed = FALSE] ELSE p : p \in posts}
        /\ crossed' = crossed \cup
             {p.id : p \in {p \in active : p.phase = "destroyPost" /\ p.row = q.row}}
    BY <1>8 DEF RestorePost, Restored, sharedVars
  <2> QED
    BY <1>6, <2>1 DEF PostChange
<1>9. CASE DestroyPost(q)
  BY <1>2, <1>3, <1>9 DEF DestroyPost, PostChange, sharedVars, observed
<1>10. CASE CheckAuthor(q) \/ FindPost(q) \/ CheckCaller(q) \/ MatchPost(q)
  BY <1>2, <1>3, <1>10 DEF CheckAuthor, FindPost, CheckCaller, MatchPost, PostChange,
                           sharedVars, observed
<1> QED
  BY <1>4, <1>5, <1>7, <1>8, <1>9, <1>10 DEF AdvancePost

\* Posts have ids of their own, if the one of a new post is new.
Distinct(rows) == \A p, x \in rows : p.id = x.id => p = x

KeepsDistinct(q) ==
    Distinct(posts) /\ (q.phase = "createPost" => \A p \in posts : p.id # q.row) =>
        Distinct(posts')

LEMMA PostsDistinct ==
    ASSUME TypeInv, NEW q \in active, AdvancePost(q)
    PROVE  KeepsDistinct(q)
<1> SUFFICES ASSUME Distinct(posts), q.phase = "createPost" => \A p \in posts : p.id # q.row
             PROVE  Distinct(posts')
  BY DEF KeepsDistinct
<1>1. posts \subseteq Posts
  BY DEF TypeInv, TypeOK, PostTypeOK
<1>2. CASE CreatePost(q)
  <2> DEFINE x == [id |-> q.row, workspace |-> q.workspace, stashed |-> FALSE,
                   author |-> AuthorOf(q)]
  <2>1. x.id = q.row /\ q.phase = "createPost" /\ posts' \subseteq posts \cup {x}
    BY <1>2 DEF CreatePost
  <2> HIDE DEF x
  <2> QED
    BY <2>1 DEF Distinct
<1>3. CASE UpdatePost(q)
  <2> DEFINE f(p) == IF p.id = q.row /\ q.author # NotGiven THEN [p EXCEPT !.author = q.author] ELSE p
  <2>1. posts' = {f(p) : p \in posts}
    BY <1>3 DEF UpdatePost
  <2>2. \A p \in posts : f(p).id = p.id
    BY <1>1 DEF Posts
  <2> HIDE DEF f
  <2> QED
    BY <2>1, <2>2 DEF Distinct
<1>4. ASSUME NEW stashed,
             posts' = {IF p.id = q.row THEN [p EXCEPT !.stashed = stashed] ELSE p : p \in posts}
      PROVE  Distinct(posts')
  <2> DEFINE f(p) == IF p.id = q.row THEN [p EXCEPT !.stashed = stashed] ELSE p
  <2>1. posts' = {f(p) : p \in posts}
    BY <1>4
  <2>2. \A p \in posts : f(p).id = p.id
    BY <1>1 DEF Posts
  <2> HIDE DEF f
  <2> QED
    BY <2>1, <2>2 DEF Distinct
<1>5. CASE StashPost(q)
  BY <1>4, <1>5 DEF StashPost
<1>6. CASE RestorePost(q)
  BY <1>4, <1>6 DEF RestorePost, Restored
<1>7. CASE DestroyPost(q)
  BY <1>7 DEF DestroyPost, Distinct
<1>8. CASE CheckAuthor(q) \/ FindPost(q) \/ CheckCaller(q) \/ MatchPost(q)
  BY <1>8 DEF CheckAuthor, FindPost, CheckCaller, MatchPost
<1> QED
  BY <1>2, <1>3, <1>5, <1>6, <1>7, <1>8 DEF AdvancePost

\* x is the folder f after a step, and folders keep their id and workspace.
FolderFrom(f, x) == x.id = f.id /\ x.workspace = f.workspace

FolderChange ==
    /\ \A x \in folders' : x \in Folders /\ \E f \in folders : FolderFrom(f, x)
    /\ UNCHANGED <<workspaces, members, everMember, born, crossed, looped>>

LEMMA RowsRemoved ==
    ASSUME folders \subseteq Folders, NEW R, folders' = WithoutFolders(R)
    PROVE  \A x \in folders' : /\ x \in Folders /\ x.id \notin R
                              /\ \E f \in folders : FolderFrom(f, x)
<1> DEFINE g(f) == [f EXCEPT !.parent = None]
<1>1. \A f \in folders : g(f) \in Folders /\ FolderFrom(f, g(f)) /\ FolderFrom(f, f)
  BY DEF Folders, FolderFrom, None
<1>2. \A x \in folders' : \E f \in folders : f.id \notin R /\ x \in {f, g(f)}
  BY DEF WithoutFolders
<1> HIDE DEF g
<1> QED
  BY <1>1, <1>2 DEF FolderFrom

LEMMA FoldersChange ==
    ASSUME TypeInv, NEW q \in active, AdvanceFolder(q)
    PROVE  FolderChange
<1>1. folders \subseteq Folders /\ \A f \in folders : FolderFrom(f, f)
  BY DEF TypeInv, TypeOK, FolderTypeOK, FolderFrom
<1>2. CASE MatchFolder(q)
  BY <1>1, <1>2 DEF MatchFolder, FolderChange, sharedVars, observed
<1>3. CASE StashFolder(q)
  <2> DEFINE g(f) == [f EXCEPT !.stashed = TRUE]
  <2>1. \A f \in folders : g(f) \in Folders /\ FolderFrom(f, g(f))
    BY <1>1 DEF Folders, FolderFrom
  <2>2. /\ UNCHANGED <<workspaces, members, everMember, born, crossed, looped>>
        /\ \A x \in folders' : \E f \in folders : x \in {f, g(f)}
    BY <1>3 DEF StashFolder, PutAway, sharedVars, observed
  <2> HIDE DEF g
  <2> QED
    BY <1>1, <2>1, <2>2 DEF FolderChange
<1>4. CASE DestroyFolder(q)
  BY <1>1, <1>4, RowsRemoved DEF DestroyFolder, FolderChange, sharedVars, observed
<1> QED
  BY <1>2, <1>3, <1>4 DEF AdvanceFolder

\* The row of q is created.
FileCreated(q) ==
    /\ q.phase = "createFile"
    /\ q.file.workspace \in workspaces \cup {None}
    /\ born' = born \cup {q.file.id}
    /\ q.file \in files'

\* The row of q is deleted, and its object is next.
FileDeleted(q) ==
    /\ q.phase = "removeFile"
    /\ \A s \in sessions : s.file # q.file.id
    /\ sessions' = sessions
    /\ \E r \in active' : r.phase = "removeObject" /\ r.file = q.file

RowChange(q) ==
    /\ \A x \in files' :
         x \in Files /\ ((\E f \in files : FileFrom(f, x)) \/ (FileCreated(q) /\ x = q.file))
    /\ \A f \in files : \/ \E x \in files' : FileFrom(f, x)
                        \/ FileDeleted(q) /\ f.id = q.file.id
                             /\ \A x \in files' : x.id # q.file.id
    /\ born' = born \/ FileCreated(q)
    /\ UNCHANGED <<workspaces, members, everMember, crossed>>

LEMMA RowsChange ==
    ASSUME TypeInv, NEW q \in active, AdvanceFile(q)
    PROVE  RowChange(q)
<1>1. q.phase \in FilePhases
  BY DEF AdvanceFile, Fetch, PutObject, CreateFile, CreateAccess, CheckUrl, FindAccess,
         WriteAccess, UpdateUrl, MatchFile, StashFile, FindCopies, RemoveSessions,
         RemoveFile, RemoveObject, AbortFile, FilePhases
<1>2. q \in FileRequest /\ q.file \in Files /\ q.url \in Nat
  BY <1>1, Kinds DEF TypeInv, FileRequest
<1>3. files \subseteq Files /\ \A f \in files : FileFrom(f, f)
  BY DEF TypeInv, TypeOK, MediaTypeOK, FileFrom
<1>4. CASE CreateFile(q)
  <2>1. /\ q.phase = "createFile" /\ UNCHANGED <<workspaces, members, everMember, crossed>>
        /\ IF FileInsertable(q.file) THEN files' = files \cup {q.file} /\ born' = born \cup {q.file.id}
                                     ELSE files' = files /\ born' = born
    BY <1>4 DEF CreateFile, sharedVars
  <2> QED
    BY <1>2, <1>3, <2>1 DEF FileInsertable, RowChange, FileCreated
<1>5. CASE RemoveFile(q)
  <2>1. UNCHANGED <<workspaces, members, everMember, crossed, born, sessions>>
    BY <1>5 DEF RemoveFile, sharedVars, observed
  <2>2. CASE UNCHANGED files
    BY <1>3, <2>1, <2>2 DEF RowChange
  <2>3. CASE files' = WithoutFiles({q.file.id}) /\ AfterRemoved(q)
             /\ \A s \in sessions : s.file # q.file.id
    <3> DEFINE r == [q EXCEPT !.phase = "removeObject"]
    <3>1. r.phase = "removeObject" /\ r.file = q.file
      BY <1>2 DEF FileRequest
    <3>2. r \in active'
      BY <2>3 DEF AfterRemoved, MoveTo, Resume
    <3> HIDE DEF r
    <3>3. FileDeleted(q)
      BY <1>5, <2>1, <2>3, <3>1, <3>2 DEF FileDeleted, RemoveFile
    <3> QED
      BY <1>3, <2>1, <2>3, <3>3, FileRowsRemoved DEF RowChange
  <2> QED
    BY <1>5, <2>2, <2>3 DEF RemoveFile
<1>6. CASE UpdateUrl(q)
  <2> DEFINE g(f) == [f EXCEPT !.url = q.url]
  <2>1. \A f \in files : g(f) \in Files /\ FileFrom(f, g(f))
    BY <1>2, <1>3 DEF Files, FileFrom
  <2>2. /\ files' = {IF f.id = q.file.id THEN g(f) ELSE f : f \in files}
        /\ UNCHANGED <<workspaces, members, everMember, crossed, born>>
    BY <1>6 DEF UpdateUrl, Renewed, sharedVars, observed
  <2> HIDE DEF g
  <2>3. /\ \A x \in files' : \E f \in files : x \in {f, g(f)}
        /\ \A f \in files : f \in files' \/ g(f) \in files'
    BY <2>2
  <2> QED
    BY <1>3, <2>1, <2>2, <2>3 DEF RowChange
<1>7. CASE StashFile(q)
  <2> DEFINE g(f) == [f EXCEPT !.stashed = TRUE]
  <2>1. \A f \in files : g(f) \in Files /\ FileFrom(f, g(f))
    BY <1>2, <1>3 DEF Files, FileFrom
  <2>2. /\ files' = {IF f.id = q.file.id THEN g(f) ELSE f : f \in files}
        /\ UNCHANGED <<workspaces, members, everMember, crossed, born>>
    BY <1>7 DEF StashFile, sharedVars, observed
  <2> HIDE DEF g
  <2>3. /\ \A x \in files' : \E f \in files : x \in {f, g(f)}
        /\ \A f \in files : f \in files' \/ g(f) \in files'
    BY <2>2
  <2> QED
    BY <1>3, <2>1, <2>2, <2>3 DEF RowChange
<1>8. CASE \/ Fetch(q) \/ PutObject(q) \/ CreateAccess(q) \/ CheckUrl(q) \/ FindAccess(q)
           \/ WriteAccess(q) \/ MatchFile(q) \/ FindCopies(q) \/ RemoveSessions(q)
           \/ RemoveObject(q) \/ AbortFile(q)
  <2>1. UNCHANGED <<files, workspaces, members, everMember, crossed, born>>
    BY <1>8 DEF Fetch, PutObject, CreateAccess, CheckUrl, FindAccess, WriteAccess, MatchFile,
                FindCopies, RemoveSessions, RemoveObject, AbortFile, sharedVars, observed,
                fileVars
  <2> QED
    BY <1>3, <2>1 DEF RowChange
<1> QED
  BY <1>4, <1>5, <1>6, <1>7, <1>8 DEF AdvanceFile

\* What a request does to the sessions.
SessionChange(q) ==
    /\ sessions' \subseteq Sessions
    /\ \A s \in sessions' :
         \/ s \in sessions
         \/ /\ q.phase \in {"createAccess", "writeAccess"}
            /\ s.file = q.file.id /\ files' = files
            /\ \/ s.id = q.id /\ s.file \in FileIds
               \/ /\ q.phase = "writeAccess" /\ s.id = q.session /\ q.session # None
                  /\ \E t \in sessions : t.id = q.session

LEMMA SessionsChange ==
    ASSUME TypeInv, NEW q \in active, AdvanceFile(q)
    PROVE  SessionChange(q)
<1>1. q.phase \in FilePhases
  BY DEF AdvanceFile, Fetch, PutObject, CreateFile, CreateAccess, CheckUrl, FindAccess,
         WriteAccess, UpdateUrl, MatchFile, StashFile, FindCopies, RemoveSessions,
         RemoveFile, RemoveObject, AbortFile, FilePhases
<1>2. /\ q \in FileRequest /\ q.file.id \in Nat /\ q.url \in Nat /\ q.id \in Nat
      /\ q.session \in Nat
  BY <1>1, Kinds DEF TypeInv, FileRequest, Files
<1>3. sessions \subseteq Sessions
  BY DEF TypeInv, TypeOK, MediaTypeOK
<1>4. CASE CreateAccess(q)
  <2> DEFINE s == [id |-> q.id, file |-> q.file.id, url |-> q.url]
  <2>1. s \in Sessions /\ s.id = q.id /\ s.file = q.file.id
    BY <1>2 DEF Sessions
  <2>2. /\ q.phase = "createAccess" /\ files' = files
        /\ sessions' = IF SessionInsertable(q.file.id, q.url) THEN sessions \cup {s} ELSE sessions
    BY <1>4 DEF CreateAccess
  <2> HIDE DEF s
  <2> QED
    BY <1>3, <2>1, <2>2 DEF SessionInsertable, SessionChange
<1>5. CASE WriteAccess(q)
  <2> DEFINE s == [id |-> IF q.session = None THEN q.id ELSE q.session,
                   file |-> q.file.id, url |-> q.url]
  <2>1. s \in Sessions /\ s.file = q.file.id /\ s.id = IF q.session = None THEN q.id ELSE q.session
    BY <1>2 DEF Sessions
  <2>2. /\ q.phase = "writeAccess" /\ files' = files
        /\ \/ sessions' = sessions
           \/ /\ q.session = None => SessionInsertable(q.file.id, q.url)
              /\ q.session # None => \E t \in sessions : t.id = q.session
              /\ sessions' = {t \in sessions : t.id # q.session} \cup {s}
    BY <1>5 DEF WriteAccess
  <2> HIDE DEF s
  <2> QED
    BY <1>3, <2>1, <2>2 DEF SessionInsertable, SessionChange
<1>6. CASE RemoveSessions(q)
  BY <1>3, <1>6 DEF RemoveSessions, FirstRemoved, SessionChange
<1>7. CASE \/ Fetch(q) \/ PutObject(q) \/ CreateFile(q) \/ CheckUrl(q) \/ FindAccess(q)
           \/ UpdateUrl(q) \/ MatchFile(q) \/ StashFile(q) \/ FindCopies(q) \/ RemoveFile(q)
           \/ RemoveObject(q) \/ AbortFile(q)
  <2>1. sessions' = sessions
    BY <1>7 DEF Fetch, PutObject, CreateFile, CheckUrl, FindAccess, UpdateUrl, MatchFile,
                StashFile, FindCopies, RemoveFile, RemoveObject, AbortFile, fileVars
  <2> QED
    BY <1>3, <2>1 DEF SessionChange
<1> QED
  BY <1>4, <1>5, <1>6, <1>7 DEF AdvanceFile

\* What a request does to the stored objects.
ObjectChange(q) ==
    /\ \/ stored' = stored
       \/ /\ q.phase = "putObject" /\ stored' = stored \cup {q.file.key}
          /\ \E r \in active' : r.phase = "createFile" /\ r.file = q.file
       \/ q.phase = "removeObject" /\ stored' = stored \ {q.file.key}
    /\ leaked \subseteq leaked' /\ leaked' \subseteq leaked \cup {q.file.key}
    /\ q.phase = "putObject" => q.file.key \in stored' \/ Leave(q)
    /\ q.phase = "createFile" => q.file \in files' \/ q.file.key \in leaked'
    /\ q.phase = "removeObject" => q.file.key \notin stored' \/ q.file.key \in leaked'
    /\ copies' \subseteq copies \cup {q.file.id}

LEMMA ObjectsChange ==
    ASSUME TypeInv, NEW q \in active, AdvanceFile(q)
    PROVE  ObjectChange(q)
<1>1. CASE PutObject(q)
  <2> DEFINE r == [q EXCEPT !.phase = "createFile"]
  <2>1. q \in FileRequest
    BY <1>1, Kinds DEF PutObject, FilePhases, TypeInv
  <2>2. r.phase = "createFile" /\ r.file = q.file
    BY <2>1 DEF FileRequest
  <2>3. r \in active'
    BY <1>1 DEF PutObject, MoveTo, Resume
  <2> HIDE DEF r
  <2> QED
    BY <1>1, <2>2, <2>3 DEF PutObject, ObjectChange, fileGhosts
<1>2. CASE CreateFile(q)
  BY <1>2 DEF CreateFile, ObjectChange
<1>3. CASE RemoveObject(q)
  BY <1>3 DEF RemoveObject, ObjectChange, fileGhosts
<1>4. CASE AbortFile(q)
  <2>1. /\ leaked' = leaked \cup {k \in {q.file.key} : q.phase \in {"createFile", "removeObject"}}
        /\ Leave(q) /\ stored' = stored /\ copies' = copies
    BY <1>4 DEF AbortFile
  <2> QED
    BY <2>1 DEF ObjectChange
<1>5. CASE \/ Fetch(q) \/ CreateAccess(q) \/ CheckUrl(q) \/ FindAccess(q) \/ WriteAccess(q)
           \/ UpdateUrl(q) \/ MatchFile(q) \/ StashFile(q) \/ FindCopies(q)
           \/ RemoveSessions(q) \/ RemoveFile(q)
  <2>1. stored' = stored /\ leaked' = leaked /\ copies' = copies
    BY <1>5 DEF Fetch, CreateAccess, CheckUrl, FindAccess, WriteAccess, UpdateUrl, MatchFile,
                StashFile, FindCopies, RemoveSessions, FirstRemoved, RemoveFile, fileVars,
                fileGhosts
  <2>2. q.phase \notin {"putObject", "createFile", "removeObject"}
    BY <1>5 DEF Fetch, CreateAccess, CheckUrl, FindAccess, WriteAccess, UpdateUrl, MatchFile,
                StashFile, FindCopies, RemoveSessions, RemoveFile
  <2> QED
    BY <2>1, <2>2 DEF ObjectChange
<1> QED
  BY <1>1, <1>2, <1>3, <1>4, <1>5 DEF AdvanceFile

LEMMA RacedChange ==
    ASSUME TypeInv, NEW q \in active, AdvanceFile(q)
    PROVE  raced' \subseteq Nat
<1>1. raced \subseteq Nat /\ \A f \in files : f.id \in Nat
  BY DEF TypeInv, TypeOK, MediaTypeOK, Files
<1>2. q.phase \in FilePhases => q.file.id \in Nat
  BY Kinds DEF TypeInv, FileRequest, Files
<1>3. CASE CreateFile(q)
  BY <1>1, <1>2, <1>3 DEF CreateFile, FilePhases
<1>4. CASE FindCopies(q)
  BY <1>1, <1>2, <1>4 DEF FindCopies, ToRemove, FilePhases
<1>5. CASE AbortFile(q)
  BY <1>1, <1>2, <1>5 DEF AbortFile
<1>6. CASE \/ Fetch(q) \/ PutObject(q) \/ CreateAccess(q) \/ CheckUrl(q) \/ FindAccess(q)
           \/ WriteAccess(q) \/ UpdateUrl(q) \/ MatchFile(q) \/ StashFile(q)
           \/ RemoveSessions(q) \/ RemoveFile(q) \/ RemoveObject(q)
  BY <1>1, <1>6 DEF Fetch, PutObject, CreateAccess, CheckUrl, FindAccess, WriteAccess, UpdateUrl,
                    MatchFile, StashFile, RemoveSessions, RemoveFile, RemoveObject,
                    fileVars, fileGhosts
<1> QED
  BY <1>3, <1>4, <1>5, <1>6 DEF AdvanceFile

-----------------------------------------------------------------------------
(* Types                                                                   *)

\* The kind of step, with what it does to the tables.
Step(q) ==
    /\ Served(q)
    /\ \/ /\ q.phase \notin FilePhases
          /\ PostChange(q) /\ KeepsDistinct(q) /\ UNCHANGED <<folders, looped, fileVars>>
       \/ q.phase \notin FilePhases /\ FolderChange /\ UNCHANGED <<posts, fileVars>>
       \/ /\ q.phase \in FilePhases /\ q \in FileRequest
          /\ RowChange(q) /\ SessionChange(q) /\ ObjectChange(q) /\ raced' \subseteq Nat
          /\ UNCHANGED <<posts, folders, looped>>

LEMMA RequestSteps ==
    ASSUME TypeInv, NEW q \in active,
           \/ AdvancePost(q) /\ UNCHANGED <<folders, looped, fileVars>>
           \/ AdvanceFolder(q) /\ UNCHANGED <<posts, fileVars>>
           \/ AdvanceFile(q) /\ UNCHANGED <<posts, folders, looped>>
           \/ Abort(q) /\ UNCHANGED <<posts, folders, looped, fileVars>>
    PROVE  Step(q)
<1>1. CASE AdvancePost(q) /\ UNCHANGED <<folders, looped, fileVars>>
  <2>1. q.phase \notin FilePhases
    BY <1>1 DEF AdvancePost, CheckAuthor, CreatePost, FindPost, CheckCaller, UpdatePost,
                MatchPost, StashPost, DestroyPost, RestorePost, FilePhases
  <2> QED
    BY <1>1, <2>1, PostServed, PostsChange, PostsDistinct DEF Step
<1>2. CASE AdvanceFolder(q) /\ UNCHANGED <<posts, fileVars>>
  <2>1. q.phase \notin FilePhases
    BY <1>2 DEF AdvanceFolder, MatchFolder, StashFolder, DestroyFolder, FilePhases
  <2> QED
    BY <1>2, <2>1, FolderServed, FoldersChange DEF Step
<1>3. CASE AdvanceFile(q) /\ UNCHANGED <<posts, folders, looped>>
  <2>1. q.phase \in FilePhases
    BY <1>3 DEF AdvanceFile, Fetch, PutObject, CreateFile, CreateAccess, CheckUrl, FindAccess,
                WriteAccess, UpdateUrl, MatchFile, StashFile, FindCopies, RemoveSessions,
                RemoveFile, RemoveObject, AbortFile, FilePhases
  <2>2. q \in FileRequest
    BY <2>1, Kinds DEF TypeInv
  <2> QED
    BY <1>3, <2>1, <2>2, FileServed, RowsChange, SessionsChange, ObjectsChange, RacedChange
       DEF Step
<1>4. CASE Abort(q) /\ UNCHANGED <<posts, folders, looped, fileVars>>
  <2>1. Leave(q) /\ serial' = serial
        /\ UNCHANGED <<workspaces, members, everMember, born, crossed>>
    BY <1>4 DEF Abort, sharedVars, observed
  <2>2. folders \subseteq Folders /\ \A f \in folders : FolderFrom(f, f)
    BY DEF TypeInv, TypeOK, FolderTypeOK, FolderFrom
  <2>3. FolderChange
    BY <1>4, <2>1, <2>2 DEF FolderChange
  <2> QED
    BY <1>4, <2>1, <2>3, ServedLeaves DEF Step, Abort
<1> QED
  BY <1>1, <1>2, <1>3, <1>4

LEMMA TypeInit == Init => TypeInv
<1> SUFFICES ASSUME Init PROVE TypeInv
  OBVIOUS
<1>1. RequestsTypeOK
  BY DEF Init, RequestsInit, RequestsTypeOK
<1>2. PostTypeOK /\ FolderTypeOK /\ MediaTypeOK
  BY DEF Init, MediaInit, PostTypeOK, FolderTypeOK, MediaTypeOK
<1>3. active = {}
  BY DEF Init, RequestsInit
<1> QED
  BY <1>1, <1>2, <1>3 DEF TypeInv, TypeOK

\* The tables as they are after a workspace is destroyed.
LEMMA WorkspaceDestroyed ==
    ASSUME TypeInv, NEW w \in Workspaces, DestroyWorkspace(w)
    PROVE  /\ serial' = serial + 1 /\ workspaces' = workspaces \ {w}
           /\ members' \subseteq members
           /\ UNCHANGED <<active, everMember, born, crossed, looped, sessions, stored, copies, raced>>
           /\ posts' = {p \in posts : p.workspace # w}
           /\ \A x \in folders' : x \in Folders /\ x.workspace # w
                                  /\ \E f \in folders : FolderFrom(f, x)
           /\ \A x \in files' : x \in Files /\ x.workspace # w
                                /\ \E f \in files : FileFrom(f, x)
           /\ \A f \in files : \/ \E x \in files' : FileFrom(f, x)
                               \/ /\ \E g \in files : g.id = f.id /\ g.key \in leaked'
                                  /\ \A s \in sessions : s.file # f.id
           /\ leaked \subseteq leaked' /\ leaked' \subseteq Nat
<1>1. /\ folders \subseteq Folders /\ files \subseteq Files /\ leaked \subseteq Nat
      /\ \A f \in files : f.key \in Nat
  BY DEF TypeInv, TypeOK, FolderTypeOK, MediaTypeOK, Files
<1> DEFINE G == {f.id : f \in {f \in files : f.workspace = w}}
           D == {f.id : f \in {f \in folders : f.workspace = w}}
<1>2. /\ serial' = serial + 1 /\ workspaces' = workspaces \ {w}
      /\ members' \subseteq members
      /\ UNCHANGED <<active, everMember, born, crossed, looped, sessions, stored, copies, raced>>
      /\ posts' = {p \in posts : p.workspace # w}
      /\ folders' = WithoutFolders(D) /\ files' = WithoutFiles(G)
      /\ leaked' = leaked \cup {f.key : f \in {f \in files : f.workspace = w}}
      /\ \A s \in sessions, f \in files : f.workspace = w => s.file # f.id
  BY DEF DestroyWorkspace, DropWorkspace, DropPosts, DropFolders, DropFiles, Count, observed
<1>3. \A f \in folders : f.workspace = w => f.id \in D
  OBVIOUS
<1>4. /\ \A f \in files : f.workspace = w => f.id \in G
      /\ \A i \in G : \E f \in files : f.id = i /\ f.workspace = w
  OBVIOUS
<1> HIDE DEF G, D
<1>5. \A x \in folders' : x \in Folders /\ x.workspace # w
                          /\ \E f \in folders : FolderFrom(f, x)
  BY <1>1, <1>2, <1>3, RowsRemoved DEF FolderFrom
<1>6. /\ \A x \in files' : /\ x \in Files /\ x.id \notin G
                           /\ \E f \in files : FileFrom(f, x)
      /\ \A f \in files : f.id \in G \/ \E x \in files' : FileFrom(f, x)
  BY <1>1, <1>2, FileRowsRemoved
<1>7. \A x \in files' : x.workspace # w
  BY <1>4, <1>6 DEF FileFrom
<1>8. \A x \in files' : x \in Files /\ x.workspace # w
                        /\ \E f \in files : FileFrom(f, x)
  BY <1>6, <1>7
<1>9. leaked \subseteq leaked' /\ leaked' \subseteq Nat
  BY <1>1, <1>2
<1>10. ASSUME NEW f \in files, f.id \in G
       PROVE  /\ \E g \in files : g.id = f.id /\ g.key \in leaked'
              /\ \A s \in sessions : s.file # f.id
  <2>1. PICK g \in files : g.id = f.id /\ g.workspace = w
    BY <1>4, <1>10
  <2>2. g.key \in leaked'
    BY <1>2, <2>1
  <2>3. \A s \in sessions : s.file # f.id
    BY <1>2, <2>1
  <2> QED
    BY <2>1, <2>2, <2>3
<1>11. \A f \in files :
          \/ \E x \in files' : FileFrom(f, x)
          \/ /\ \E g \in files : g.id = f.id /\ g.key \in leaked'
             /\ \A s \in sessions : s.file # f.id
  <2> TAKE f \in files
  <2>1. CASE f.id \in G
    BY <1>10, <2>1
  <2>2. CASE f.id \notin G
    BY <1>6, <2>2
  <2> QED
    BY <2>1, <2>2
<1> QED
  BY <1>2, <1>5, <1>8, <1>9, <1>11

\* The requests of one call.
LEMMA FolderCreated ==
    ASSUME TypeInv, NEW w \in WorkspaceOrNull, NEW parent \in FolderIds \cup {None},
           CreateFolder(w, parent)
    PROVE  /\ serial' = serial + 1 /\ born' = born \cup {serial + 1}
           /\ UNCHANGED <<workspaces, members, everMember, active, crossed, looped>>
           /\ \E x \in Folders :
                /\ x.id = serial + 1 /\ x.workspace = w /\ x.parent = parent
                /\ folders' = folders \cup {x} /\ w \in workspaces \cup {None}
<1> DEFINE x == [id |-> serial + 1, parent |-> parent, workspace |-> w, stashed |-> FALSE]
<1>1. serial \in Nat /\ parent \in Nat
  BY DEF TypeInv, TypeOK, RequestsTypeOK, FolderTypeOK, FolderIds, Folders, None
<1>2. x \in Folders /\ x.id = serial + 1 /\ x.workspace = w /\ x.parent = parent
  BY <1>1 DEF Folders
<1>3. /\ serial' = serial + 1 /\ born' = born \cup {serial + 1}
      /\ UNCHANGED <<workspaces, members, everMember, active, crossed, looped>>
      /\ folders' = folders \cup {x} /\ w \in workspaces \cup {None}
  BY DEF CreateFolder, Count, sharedVars
<1> HIDE DEF x
<1> QED
  BY <1>2, <1>3

LEMMA FolderMoved ==
    ASSUME TypeInv, NEW row \in FolderIds, NEW parent \in FolderIds \cup {None},
           MoveFolder(row, parent)
    PROVE  /\ serial' = serial + 1
           /\ UNCHANGED <<workspaces, members, everMember, active, born, crossed>>
           /\ \A x \in folders' : x \in Folders /\ \E f \in folders : FolderFrom(f, x)
           /\ looped' \in BOOLEAN
<1> DEFINE g(f) == [f EXCEPT !.parent = parent]
<1>1. folders \subseteq Folders /\ parent \in Nat /\ looped \in BOOLEAN
  BY DEF TypeInv, TypeOK, FolderTypeOK, FolderIds, Folders, None
<1>2. \A f \in folders : g(f) \in Folders /\ FolderFrom(f, g(f)) /\ FolderFrom(f, f)
  BY <1>1 DEF Folders, FolderFrom
<1>3. /\ serial' = serial + 1
      /\ UNCHANGED <<workspaces, members, everMember, active, born, crossed>>
      /\ folders' = {IF f.id = row THEN g(f) ELSE f : f \in folders}
      /\ looped' \in BOOLEAN
  BY <1>1 DEF MoveFolder, Count, sharedVars, observed
<1> HIDE DEF g
<1>4. \A x \in folders' : \E f \in folders : x \in {f, g(f)}
  BY <1>3
<1> QED
  BY <1>1, <1>2, <1>3, <1>4

LEMMA MemberToggled ==
    ASSUME TypeInv, NEW u \in Users, NEW w \in Workspaces, ToggleMember(u, w)
    PROVE  /\ serial' = serial + 1 /\ UNCHANGED <<workspaces, active, born, crossed>>
           /\ members' \subseteq members \cup {<<u, w>>}
           /\ everMember' = everMember \cup {<<u, w>>}
  BY DEF ToggleMember, Count, observed

LEMMA TypeStep ==
    ASSUME TypeInv, [Next]_vars
    PROVE  TypeInv'
<1>0. /\ RequestsTypeOK /\ active \subseteq AnyRequest
      /\ PostTypeOK /\ FolderTypeOK /\ MediaTypeOK
      /\ \A q \in active : q.phase = "matchPost" => q.write \in StashWrites
  BY DEF TypeInv, TypeOK, AnyRequest
<1>1. CASE UNCHANGED vars
  BY <1>1 DEF vars, fileVars, TypeInv, TypeOK, RequestsTypeOK, PostTypeOK, FolderTypeOK,
              MediaTypeOK
<1>2. ASSUME RequestsTypeOK', PostTypeOK', FolderTypeOK', MediaTypeOK',
             active' \subseteq AnyRequest,
             \A q \in active' : q.phase = "matchPost" => q.write \in StashWrites
      PROVE  TypeInv'
  BY <1>2 DEF TypeInv, TypeOK, AnyRequest
<1>9. ASSUME RequestsTypeOK', PostTypeOK', FolderTypeOK', MediaTypeOK', active' = active
      PROVE  TypeInv'
  <2>1. /\ active' \subseteq AnyRequest
        /\ \A q \in active' : q.phase = "matchPost" => q.write \in StashWrites
    BY <1>0, <1>9
  <2> QED
    BY <1>2, <1>9, <2>1
<1>3. CASE Begins
  <2>1. PICK r \in AnyRequest : Starts(r) /\ active' = active \cup {r}
    BY <1>3 DEF Begins
  <2>2. r.phase = "matchPost" => r.write \in StashWrites
    BY <2>1 DEF Starts
  <2>3. raced' \subseteq Nat
    BY <1>0, <1>3 DEF Begins, MediaTypeOK, FileIds, Files
  <2>4. RequestsTypeOK'
    BY <1>0, <1>3 DEF Begins, RequestsTypeOK
  <2>5. PostTypeOK' /\ FolderTypeOK' /\ MediaTypeOK'
    BY <1>0, <1>3, <2>3 DEF Begins, PostTypeOK, FolderTypeOK, MediaTypeOK
  <2> QED
    BY <1>0, <1>2, <2>1, <2>2, <2>4, <2>5
<1>4. ASSUME NEW q \in active, Step(q) PROVE TypeInv'
  <2>1. PICK R \in SUBSET AnyRequest :
          active' = (active \ {q}) \cup R /\ \A r \in R : Moves(q, r)
    BY <1>4 DEF Step, Served
  <2>2. \A r \in R : r.phase # "matchPost"
    BY <2>1 DEF Moves, PostMoves, FolderMoves, FileMoves, StashWrites
  <2>3. /\ active' \subseteq AnyRequest
        /\ \A p \in active' : p.phase = "matchPost" => p.write \in StashWrites
    BY <1>0, <2>1, <2>2
  <2>4. serial' = serial
    BY <1>4 DEF Step, Served
  <2>5. CASE PostChange(q) /\ UNCHANGED <<folders, looped, fileVars>>
    <3>1. q.phase = "createPost" => q.row \in Nat
      BY Kinds DEF PostPhases, PostRequest, TypeInv
    <3>2. \A p \in active : p.id \in Nat
      BY Kinds DEF TypeInv
    <3>3. RequestsTypeOK'
      BY <1>0, <2>4, <2>5, <3>1, <3>2 DEF PostChange, RequestsTypeOK
    <3>4. PostTypeOK' /\ FolderTypeOK' /\ MediaTypeOK'
      BY <1>0, <2>5 DEF PostChange, PostTypeOK, FolderTypeOK, MediaTypeOK, fileVars
    <3> QED
      BY <1>2, <2>3, <3>3, <3>4
  <2>6. CASE FolderChange /\ UNCHANGED <<posts, fileVars>>
    <3>1. RequestsTypeOK'
      BY <1>0, <2>4, <2>6 DEF FolderChange, RequestsTypeOK
    <3>2. PostTypeOK' /\ FolderTypeOK' /\ MediaTypeOK'
      BY <1>0, <2>6 DEF FolderChange, PostTypeOK, FolderTypeOK, MediaTypeOK, fileVars
    <3> QED
      BY <1>2, <2>3, <3>1, <3>2
  <2>7. CASE /\ q \in FileRequest
             /\ RowChange(q) /\ SessionChange(q) /\ ObjectChange(q) /\ raced' \subseteq Nat
             /\ UNCHANGED <<posts, folders, looped>>
    <3>1. q.file.id \in Nat /\ q.file.key \in Nat
      BY <2>7 DEF FileRequest, Files
    <3>2. RequestsTypeOK'
      BY <1>0, <2>4, <2>7, <3>1 DEF RowChange, FileCreated, RequestsTypeOK
    <3>3. PostTypeOK' /\ FolderTypeOK'
      BY <1>0, <2>7 DEF PostTypeOK, FolderTypeOK
    <3>4. MediaTypeOK'
      BY <1>0, <2>7, <3>1 DEF RowChange, SessionChange, ObjectChange, MediaTypeOK
    <3> QED
      BY <1>2, <2>3, <3>2, <3>3, <3>4
  <2> QED
    BY <1>4, <2>5, <2>6, <2>7 DEF Step
<1>5. ASSUME NEW w \in WorkspaceOrNull, NEW parent \in FolderIds \cup {None},
             CreateFolder(w, parent), UNCHANGED <<posts, fileVars>>
      PROVE  TypeInv'
  <2>0. serial \in Nat
    BY <1>0 DEF RequestsTypeOK
  <2>1. RequestsTypeOK' /\ active' = active
    <3>1. /\ serial' = serial + 1 /\ active' = active
          /\ workspaces' \subseteq workspaces /\ crossed' = crossed
          /\ members' \subseteq members \cup (Users \X Workspaces)
          /\ everMember' \subseteq everMember \cup (Users \X Workspaces)
          /\ born' \subseteq born \cup Nat
      BY <1>5, FolderCreated, <2>0
    <3> QED
      BY <1>0, <3>1 DEF RequestsTypeOK
  <2>2. FolderTypeOK'
    BY <1>0, <1>5, FolderCreated DEF FolderTypeOK
  <2>3. PostTypeOK' /\ MediaTypeOK'
    BY <1>0, <1>5 DEF PostTypeOK, MediaTypeOK, fileVars
  <2> QED
    BY <1>9, <2>1, <2>2, <2>3
<1>6. ASSUME NEW row \in FolderIds, NEW parent \in FolderIds \cup {None},
             MoveFolder(row, parent), UNCHANGED <<posts, fileVars>>
      PROVE  TypeInv'
  <2>0. serial \in Nat
    BY <1>0 DEF RequestsTypeOK
  <2>1. RequestsTypeOK' /\ active' = active
    <3>1. /\ serial' = serial + 1 /\ active' = active
          /\ workspaces' \subseteq workspaces /\ crossed' = crossed
          /\ members' \subseteq members \cup (Users \X Workspaces)
          /\ everMember' \subseteq everMember \cup (Users \X Workspaces)
          /\ born' \subseteq born \cup Nat
      BY <1>6, FolderMoved, <2>0
    <3> QED
      BY <1>0, <3>1 DEF RequestsTypeOK
  <2>2. FolderTypeOK'
    BY <1>0, <1>6, FolderMoved DEF FolderTypeOK
  <2>3. PostTypeOK' /\ MediaTypeOK'
    BY <1>0, <1>6 DEF PostTypeOK, MediaTypeOK, fileVars
  <2> QED
    BY <1>9, <2>1, <2>2, <2>3
<1>7. ASSUME NEW u \in Users, NEW w \in Workspaces,
             ToggleMember(u, w), UNCHANGED <<posts, folders, looped, fileVars>>
      PROVE  TypeInv'
  <2>0. serial \in Nat
    BY <1>0 DEF RequestsTypeOK
  <2>1. RequestsTypeOK' /\ active' = active
    <3>1. /\ serial' = serial + 1 /\ active' = active
          /\ workspaces' \subseteq workspaces /\ crossed' = crossed
          /\ members' \subseteq members \cup (Users \X Workspaces)
          /\ everMember' \subseteq everMember \cup (Users \X Workspaces)
          /\ born' \subseteq born \cup Nat
      BY <1>7, MemberToggled, <2>0
    <3> QED
      BY <1>0, <3>1 DEF RequestsTypeOK
  <2>2. PostTypeOK' /\ FolderTypeOK' /\ MediaTypeOK'
    BY <1>0, <1>7 DEF PostTypeOK, FolderTypeOK, MediaTypeOK, fileVars
  <2> QED
    BY <1>9, <2>1, <2>2
<1>8. ASSUME NEW w \in Workspaces, DestroyWorkspace(w)
      PROVE  TypeInv'
  <2>0. serial \in Nat
    BY <1>0 DEF RequestsTypeOK
  <2>1. RequestsTypeOK' /\ active' = active
    <3>1. /\ serial' = serial + 1 /\ active' = active
          /\ workspaces' \subseteq workspaces /\ crossed' = crossed
          /\ members' \subseteq members \cup (Users \X Workspaces)
          /\ everMember' \subseteq everMember \cup (Users \X Workspaces)
          /\ born' \subseteq born \cup Nat
      BY <1>8, WorkspaceDestroyed, <2>0
    <3> QED
      BY <1>0, <3>1 DEF RequestsTypeOK
  <2>2. PostTypeOK' /\ FolderTypeOK' /\ MediaTypeOK'
    BY <1>0, <1>8, WorkspaceDestroyed DEF PostTypeOK, FolderTypeOK, MediaTypeOK
  <2> QED
    BY <1>9, <2>1, <2>2
<1> QED
  BY <1>1, <1>3, <1>4, <1>5, <1>6, <1>7, <1>8, NextCases, RequestSteps

\* Every variable keeps its type, for any users, workspaces and bounds.
THEOREM TypeCorrect == Spec => []TypeOK
<1>1. TypeInv => TypeOK
  BY DEF TypeInv
<1> QED
  BY TypeInit, TypeStep, <1>1, PTL DEF Spec
=============================================================================
