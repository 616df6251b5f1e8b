-------------------------------- MODULE Media --------------------------------
(***************************************************************************)
(* Files and their stored objects: upload, resize, the renewal of signed   *)
(* URLs by getFile and listFile, and deleteFile (src/src/media/file).      *)
(* A file has a row, an object in S3 or on disk and, if it is RESTRICTED   *)
(* and in S3, the sessions of its signed URLs; each is written by an       *)
(* awaited call of its own.  A PUBLIC file and one on disk are the same    *)
(* here: neither has signed URLs.                                          *)
(*                                                                         *)
(* Whether a signed URL has expired is left open: a session found may be   *)
(* an old one.  A read of several files is a request for each.  Contents,  *)
(* names and image formats are left out.                                   *)
(***************************************************************************)
EXTENDS Requests

VARIABLES
    files,          \* rows of the File table
    sessions,       \* rows of the S3AccessSession table
    stored,         \* keys of the objects in S3 or on disk
    \* Observed only by the properties:
    copies,         \* files made by resizeFile
    raced,          \* files two requests were at, or a request died at
    leaked          \* objects no row will name

fileVars == <<files, sessions, stored, copies, raced, leaked>>
fileGhosts == <<copies, raced, leaked>>

\* "original" is resizeImageId.
Files == [id: Nat, key: Nat, original: Nat, workspace: WorkspaceOrNull, signed: BOOLEAN,
          url: Nat, stashed: BOOLEAN]

Sessions == [id: Nat, file: Nat, url: Nat]

FilePhases == {"putObject", "createFile", "createAccess", "fetch", "checkUrl",
               "findAccess", "writeAccess", "updateUrl", "matchFile", "stashFile",
               "findCopies", "removeSessions", "removeFile", "removeObject"}

\* "file" is the row the handler holds: to be created, or as it was read;
\* "url" is the URL it signed and "session" the session it found.
FileRequest == [id: Nat, phase: FilePhases, file: Files, url: Nat, session: Nat]

MediaTypeOK ==
    /\ files \subseteq Files
    /\ sessions \subseteq Sessions
    /\ stored \subseteq Nat
    /\ copies \subseteq Nat
    /\ raced \subseteq Nat
    /\ leaked \subseteq Nat

MediaInit ==
    /\ files = {}
    /\ sessions = {}
    /\ stored = {}
    /\ copies = {}
    /\ raced = {}
    /\ leaked = {}

FileRequests == {q \in active : q.phase \in FilePhases}
FileIds == {f.id : f \in files}
AtFile(id) == {q \in FileRequests : q.file.id = id}

-----------------------------------------------------------------------------
(* Upload and resize                                                       *)

StartAt(phase, file) ==
    Start([id |-> serial + 1, phase |-> phase, file |-> file, url |-> file.url,
           session |-> None])

\* A second request comes to the file.
Meet(id) == raced' = raced \cup {i \in {id} : AtFile(id) # {}}

\* uploadMedia and saveFile, up to the write of the object.  Only the upload of
\* a profile image works without a workspace, and it is PUBLIC.
BeginUpload(w, signed) ==
    /\ w = None => ~signed
    /\ StartAt("putObject",
          [id |-> serial + 1, key |-> serial + 1, original |-> None, workspace |-> w,
           signed |-> signed, url |-> serial + 1, stashed |-> FALSE])
    /\ UNCHANGED <<sharedVars, observed, fileVars>>

\* resizeFile finds the file by id, stashed or not; a copy of a copy is a copy
\* of the original.
BeginResize(f) ==
    /\ StartAt("fetch",
          [f EXCEPT !.id = serial + 1, !.url = serial + 1, !.stashed = FALSE,
                    !.original = IF f.original = None THEN f.id ELSE f.original])
    /\ UNCHANGED <<sharedVars, observed, fileVars>>

\* getOldFile reads the object of the file.
Fetch(q) ==
    /\ q.phase = "fetch"
    /\ IF q.file.key \in stored
       THEN Resume(q, [q EXCEPT !.phase = "putObject", !.file.key = q.id])
       ELSE Leave(q)
    /\ UNCHANGED <<sharedVars, serial, observed, fileVars>>

PutObject(q) ==
    /\ q.phase = "putObject"
    /\ stored' = stored \cup {q.file.key}
    /\ MoveTo(q, "createFile")
    /\ UNCHANGED <<sharedVars, serial, observed, files, sessions, fileGhosts>>

\* The foreign keys of a new row.
FileInsertable(f) ==
    /\ f.workspace \in workspaces \cup {None}
    /\ f.original \in FileIds \cup {None}

\* The deleteMany of resizeFile before its create finds nothing: no copy has
\* the URL of an object just stored under a new key.
CreateFile(q) ==
    /\ q.phase = "createFile"
    /\ IF FileInsertable(q.file)
       THEN /\ files' = files \cup {q.file}
            /\ born' = born \cup {q.file.id}
            /\ copies' = IF q.file.original = None THEN copies
                                                   ELSE copies \cup {q.file.id}
            /\ raced' = raced \cup {i \in {q.file.id} : AtFile(q.file.original) # {}}
            /\ IF q.file.signed THEN MoveTo(q, "createAccess") ELSE Leave(q)
            /\ UNCHANGED leaked
       ELSE /\ leaked' = leaked \cup {q.file.key}
            /\ Leave(q)
            /\ UNCHANGED <<files, born, copies, raced>>
    /\ UNCHANGED <<sharedVars, serial, crossed, sessions, stored>>

\* Mutant: the foreign key is not checked.
SessionInsertableUnchecked(file, url) == \A s \in sessions : s.file = file => s.url # url

\* The foreign key and the unique key of a session.
SessionInsertable(file, url) ==
    file \in FileIds /\ \A s \in sessions : s.file = file => s.url # url

CreateAccess(q) ==
    /\ q.phase = "createAccess"
    /\ sessions' = IF SessionInsertable(q.file.id, q.url)
                   THEN sessions \cup {[id |-> q.id, file |-> q.file.id, url |-> q.url]}
                   ELSE sessions
    /\ Leave(q)
    /\ UNCHANGED <<sharedVars, serial, observed, files, stored, fileGhosts>>

-----------------------------------------------------------------------------
(* updateFileUrl, of getFile and listFile                                  *)

BeginReadUrl(f) ==
    /\ f.signed
    /\ StartAt("checkUrl", f)
    /\ Meet(f.id)
    /\ UNCHANGED <<sharedVars, observed, files, sessions, stored, copies, leaked>>

\* The session of the URL the row had when it was read.
SessionOf(q) == {s \in sessions : s.file = q.file.id /\ s.url = q.file.url}

\* getSignedUrl.  A URL is signed for the second it is made in, so that
\* another request of that second has the same one.
SignedNow(q) == {q.id} \cup {r.url : r \in AtFile(q.file.id)}

\* isUrlExpired, and the new URL if it is.
CheckUrl(q) ==
    /\ q.phase = "checkUrl"
    /\ \/ SessionOf(q) # {} /\ Leave(q)
       \/ \E url \in SignedNow(q) : Resume(q, [q EXCEPT !.phase = "findAccess", !.url = url])
    /\ UNCHANGED <<sharedVars, serial, observed, fileVars>>

\* Mutant: the session is looked for by the new URL.
FoundAccessNew(q) == {s.id : s \in {s \in sessions : s.file = q.file.id /\ s.url = q.url}}

\* The upsert reads and writes in two steps.
FoundAccess(q) == {s.id : s \in SessionOf(q)}

FindAccess(q) ==
    /\ q.phase = "findAccess"
    /\ \E session \in IF FoundAccess(q) = {} THEN {None} ELSE FoundAccess(q) :
          Resume(q, [q EXCEPT !.phase = "writeAccess", !.session = session])
    /\ UNCHANGED <<sharedVars, serial, observed, fileVars>>

\* Update of the session found, if it is there still, or create: an error if
\* the file is gone or has a session for that URL.
WriteAccess(q) ==
    /\ q.phase = "writeAccess"
    /\ IF /\ q.session = None => SessionInsertable(q.file.id, q.url)
          /\ q.session # None => \E s \in sessions : s.id = q.session
          /\ \A s \in sessions : s.file = q.file.id /\ s.url = q.url => s.id = q.session
       THEN /\ sessions' = {s \in sessions : s.id # q.session} \cup
                 {[id |-> IF q.session = None THEN q.id ELSE q.session,
                   file |-> q.file.id, url |-> q.url]}
            /\ MoveTo(q, "updateUrl")
       ELSE UNCHANGED sessions /\ Leave(q)
    /\ UNCHANGED <<sharedVars, serial, observed, files, stored, fileGhosts>>

\* update by id: an error if the file is gone.
Renewed(q) == {IF f.id = q.file.id THEN [f EXCEPT !.url = q.url] ELSE f : f \in files}

UpdateUrl(q) ==
    /\ q.phase = "updateUrl"
    /\ files' = Renewed(q)
    /\ Leave(q)
    /\ UNCHANGED <<sharedVars, serial, observed, sessions, stored, fileGhosts>>

-----------------------------------------------------------------------------
(* deleteFile                                                              *)

BeginDeleteFile(f, fromStash) ==
    /\ StartAt("matchFile", [f EXCEPT !.stashed = fromStash])
    /\ Meet(f.id)
    /\ UNCHANGED <<sharedVars, observed, files, sessions, stored, copies, leaked>>

\* findUnique by id and deletedAt.
MatchFile(q) ==
    /\ q.phase = "matchFile"
    /\ \/ \E f \in files :
             /\ f.id = q.file.id /\ f.stashed = q.file.stashed
             /\ Resume(q, [q EXCEPT !.file = f,
                             !.phase = IF f.stashed THEN "findCopies" ELSE "stashFile"])
       \/ /\ ~ \E f \in files : f.id = q.file.id /\ f.stashed = q.file.stashed
          /\ Leave(q)
    /\ UNCHANGED <<sharedVars, serial, observed, fileVars>>

\* update where id and deletedAt null.
StashFile(q) ==
    /\ q.phase = "stashFile"
    /\ files' = {IF f.id = q.file.id THEN [f EXCEPT !.stashed = TRUE] ELSE f : f \in files}
    /\ Leave(q)
    /\ UNCHANGED <<sharedVars, serial, observed, sessions, stored, fileGhosts>>

\* Mutant: the copies are not looked for.
ToRemoveOriginal(q) == {q.file}

\* The file and the copies made of it: nothing else asks for their removal.
ToRemove(q) == {q.file} \cup {f \in files : f.original = q.file.id}

\* The removals of the copies are started and not awaited; the file's goes on
\* beside them.
FindCopies(q) ==
    /\ q.phase = "findCopies"
    /\ active' = (active \ {q}) \cup
         {[q EXCEPT !.phase = "removeSessions", !.file = f] : f \in ToRemove(q)}
    /\ raced' = raced \cup
         {f.id : f \in {f \in ToRemove(q) : AtFile(f.id) \ {q} # {}}}
    /\ UNCHANGED <<sharedVars, serial, observed, files, sessions, stored, copies, leaked>>

\* Mutant: the object goes before the row.
FirstRemovedObject(q) ==
    /\ stored' = stored \ {q.file.key}
    /\ sessions' = {s \in sessions : s.file # q.file.id}

\* What removeFileFromStorage begins with.
FirstRemoved(q) ==
    /\ sessions' = {s \in sessions : s.file # q.file.id}
    /\ UNCHANGED stored

RemoveSessions(q) ==
    /\ q.phase = "removeSessions"
    /\ FirstRemoved(q)
    /\ MoveTo(q, "removeFile")
    /\ UNCHANGED <<sharedVars, serial, observed, files, fileGhosts>>

\* Rows that go leave their copies without an original: SetNull.
WithoutFiles(R) ==
    {IF f.original \in R THEN [f EXCEPT !.original = None] ELSE f :
        f \in {f \in files : f.id \notin R}}

\* What the removal goes on to once the row is gone.
AfterRemoved(q) == MoveTo(q, "removeObject")

\* delete by id: an error if the row is gone, or has a session again.
RemoveFile(q) ==
    /\ q.phase = "removeFile"
    /\ IF q.file.id \in FileIds /\ \A s \in sessions : s.file # q.file.id
       THEN files' = WithoutFiles({q.file.id}) /\ AfterRemoved(q)
       ELSE UNCHANGED files /\ Leave(q)
    /\ UNCHANGED <<sharedVars, serial, observed, sessions, stored, fileGhosts>>

RemoveObject(q) ==
    /\ q.phase = "removeObject"
    /\ stored' = stored \ {q.file.key}
    /\ Leave(q)
    /\ UNCHANGED <<sharedVars, serial, observed, files, sessions, fileGhosts>>

\* onDelete: Cascade from Workspace to File; a session stands in its way, and
\* with it the whole deletion.  Nothing removes the objects.
DropFiles(w) ==
    LET gone == {f \in files : f.workspace = w} IN
    /\ \A s \in sessions, f \in gone : s.file # f.id
    /\ files' = WithoutFiles({f.id : f \in gone})
    /\ leaked' = leaked \cup {f.key : f \in gone}
    /\ UNCHANGED <<sessions, stored, copies, raced>>

\* A call fails, or the process ends, at the next await.
AbortFile(q) ==
    /\ q.phase \in FilePhases
    /\ raced' = raced \cup {q.file.id}
    /\ leaked' = leaked \cup
         {k \in {q.file.key} : q.phase \in {"createFile", "removeObject"}}
    /\ Leave(q)
    /\ UNCHANGED <<sharedVars, serial, observed, files, sessions, stored, copies>>

AdvanceFile(q) ==
    \/ Fetch(q)
    \/ PutObject(q)
    \/ CreateFile(q)
    \/ CreateAccess(q)
    \/ CheckUrl(q)
    \/ FindAccess(q)
    \/ WriteAccess(q)
    \/ UpdateUrl(q)
    \/ MatchFile(q)
    \/ StashFile(q)
    \/ FindCopies(q)
    \/ RemoveSessions(q)
    \/ RemoveFile(q)
    \/ RemoveObject(q)
    \/ AbortFile(q)

MediaNext ==
    \/ \E w \in WorkspaceOrNull, signed \in BOOLEAN : BeginUpload(w, signed)
    \/ \E f \in files : BeginResize(f)
    \/ \E f \in files : BeginReadUrl(f)
    \/ \E f \in files, fromStash \in BOOLEAN : BeginDeleteFile(f, fromStash)
    \/ \E q \in active : AdvanceFile(q)

-----------------------------------------------------------------------------
(* Properties                                                              *)

\* No file is offered whose object is gone, or is not there yet: uploads store
\* before they create the row, removals delete the row before the object,
\* whatever overlaps.
FilesHaveObject == \A f \in files : f.key \in stored

\* An object that no row names is being written or removed, or was left by a
\* request that failed between the object and the row, or by the deletion of a
\* workspace: nothing else leaves objects behind.
OrphansAccounted ==
    \A k \in stored :
        \/ \E f \in files : f.key = k
        \/ k \in leaked
        \/ \E q \in FileRequests :
              q.file.key = k /\ q.phase \in {"createFile", "removeObject"}

\* The rows and the storage agree, in both directions.
ObjectsAgree == FilesHaveObject /\ OrphansAccounted

\* A file that requests came to one at a time has one session, of the URL in
\* its row: renewals replace the session of the old URL and do not add to them.
OneSessionInTurn ==
    \A f \in files :
        f.signed /\ f.id \notin raced /\ AtFile(f.id) = {} =>
            {s.url : s \in {s \in sessions : s.file = f.id}} = {f.url}
            /\ Cardinality({s \in sessions : s.file = f.id}) = 1

\* No session outlives its file: whatever renewals overlap a removal, the
\* delete of the row waits for the sessions, and they for the row.
SessionsHaveFile == \A s \in sessions : s.file \in FileIds

\* A copy that lost its original is being removed with it, unless another
\* request was at the copy, or at the original, while that happened: deleteFile
\* leaves no copy behind.
CopiesGoWithOriginal ==
    \A f \in files :
        f.id \in copies /\ f.original = None =>
            \/ f.id \in raced
            \/ \E q \in AtFile(f.id) : q.phase \in {"removeSessions", "removeFile"}
=============================================================================
