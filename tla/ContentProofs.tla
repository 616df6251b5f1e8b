---------------------------- MODULE ContentProofs ----------------------------
(* Proofs about module Content, for any users, workspaces and bounds, from *)
(* what module ContentSteps has about its steps.                           *)
EXTENDS ContentSteps, FiniteSetTheorems

-----------------------------------------------------------------------------
(* The steps that are not a request's                                      *)

FolderWritten ==
    /\ serial' = serial + 1
    /\ UNCHANGED <<workspaces, members, everMember, active, crossed, posts, fileVars>>
    /\ \/ born' = born
       \/ born' = born \cup {serial + 1}
    /\ \A x \in folders' :
         \/ \E f \in folders : FolderFrom(f, x)
         \/ x.id = serial + 1 /\ x.id \in born' /\ x.workspace \in workspaces \cup {None}

MemberWritten ==
    /\ serial' = serial + 1
    /\ UNCHANGED <<workspaces, active, born, crossed, posts, folders, looped, fileVars>>
    /\ \E m : members' \subseteq members \cup {m} /\ everMember' = everMember \cup {m}

WorkspaceGone ==
    /\ serial' = serial + 1
    /\ UNCHANGED <<active, everMember, born, crossed, looped, sessions, stored, copies, raced>>
    /\ members' \subseteq members
    /\ leaked \subseteq leaked'
    /\ \E w \in Workspaces :
         /\ workspaces' = workspaces \ {w}
         /\ posts' = {p \in posts : p.workspace # w}
         /\ \A x \in folders' : x.workspace # w /\ \E f \in folders : FolderFrom(f, x)
         /\ \A x \in files' : x.workspace # w /\ \E f \in files : FileFrom(f, x)
         /\ \A f \in files : \/ \E x \in files' : FileFrom(f, x)
                             \/ /\ \E g \in files : g.id = f.id /\ g.key \in leaked'
                                /\ \A s \in sessions : s.file # f.id

LEMMA StepCases ==
    ASSUME TypeInv, [Next]_vars
    PROVE  \/ UNCHANGED vars
           \/ Begins
           \/ \E q \in active : Step(q)
           \/ FolderWritten
           \/ MemberWritten
           \/ WorkspaceGone
<1>1. ASSUME NEW w \in WorkspaceOrNull, NEW parent \in FolderIds \cup {None},
             CreateFolder(w, parent), UNCHANGED <<posts, fileVars>>
      PROVE  FolderWritten
  <2>1. \A f \in folders : FolderFrom(f, f)
    BY DEF FolderFrom
  <2> QED
    BY <1>1, <2>1, FolderCreated DEF FolderWritten
<1>2. ASSUME NEW row \in FolderIds, NEW parent \in FolderIds \cup {None},
             MoveFolder(row, parent), UNCHANGED <<posts, fileVars>>
      PROVE  FolderWritten
  BY <1>2, FolderMoved DEF FolderWritten
<1>3. ASSUME NEW u \in Users, NEW w \in Workspaces, ToggleMember(u, w),
             UNCHANGED <<posts, folders, looped, fileVars>>
      PROVE  MemberWritten
  BY <1>3, MemberToggled DEF MemberWritten
<1>4. ASSUME NEW w \in Workspaces, DestroyWorkspace(w)
      PROVE  WorkspaceGone
  BY <1>4, WorkspaceDestroyed DEF WorkspaceGone
<1> QED
  BY <1>1, <1>2, <1>3, <1>4, NextCases, RequestSteps

-----------------------------------------------------------------------------
(* The numbers of requests                                                 *)

\* Requests have numbers of their own, but for the removals of a file and its
\* copies.
RequestIds ==
    /\ \A q \in active : q.id \in 1..serial
    /\ \A p, q \in active : p.id = q.id => p = q \/ {p.phase, q.phase} \subseteq Removing

LEMMA MovesKeepId ==
    ASSUME NEW q, NEW r, Moves(q, r)
    PROVE  /\ r.id = q.id
           /\ q.phase \in Removing \cup {"findCopies"} => r.phase \in Removing
  BY DEF Moves, PostMoves, FolderMoves, FileMoves, Removing, StashWrites

LEMMA RequestIdsStep ==
    ASSUME TypeInv, RequestIds, [Next]_vars
    PROVE  RequestIds'
<1>1. serial \in Nat
  BY DEF TypeInv, TypeOK, RequestsTypeOK
<1>2. CASE active' = active /\ serial' \in {serial, serial + 1}
  BY <1>1, <1>2 DEF RequestIds
<1>3. CASE Begins
  <2>1. PICK r \in AnyRequest : r.id = serial + 1 /\ active' = active \cup {r}
    BY <1>3 DEF Begins, Starts
  <2>2. serial' = serial + 1
    BY <1>3 DEF Begins
  <2> QED
    BY <1>1, <2>1, <2>2 DEF RequestIds
<1>4. ASSUME NEW q \in active, Step(q) PROVE RequestIds'
  <2>1. PICK R \in SUBSET AnyRequest :
          /\ active' = (active \ {q}) \cup R /\ \A r \in R : Moves(q, r)
          /\ q.phase # "findCopies" => \A r, s \in R : r = s
    BY <1>4 DEF Step, Served
  <2>2. serial' = serial
    BY <1>4 DEF Step, Served
  <2>3. \A r \in R : /\ r.id = q.id
                     /\ q.phase \in Removing \cup {"findCopies"} => r.phase \in Removing
    BY <2>1, MovesKeepId
  <2>4. \A p \in active' : p.id \in 1..serial'
    BY <2>1, <2>2, <2>3 DEF RequestIds
  <2>5. ASSUME NEW p \in active \ {q}, NEW r \in R, p.id = r.id
        PROVE  {p.phase, r.phase} \subseteq Removing
    BY <2>3, <2>5 DEF RequestIds
  <2>6. ASSUME NEW p \in R, NEW r \in R
        PROVE  p = r \/ {p.phase, r.phase} \subseteq Removing
    BY <2>1, <2>3
  <2>7. \A p, r \in active' : p.id = r.id => p = r \/ {p.phase, r.phase} \subseteq Removing
    BY <2>1, <2>5, <2>6 DEF RequestIds
  <2> QED
    BY <2>4, <2>7 DEF RequestIds
<1>5. CASE UNCHANGED vars \/ FolderWritten \/ MemberWritten \/ WorkspaceGone
  BY <1>2, <1>5 DEF vars, FolderWritten, MemberWritten, WorkspaceGone
<1> QED
  BY <1>3, <1>4, <1>5, StepCases

-----------------------------------------------------------------------------
(* The numbers of rows                                                     *)

NewPost == {"checkAuthor", "createPost"}
NewFile == {"fetch", "putObject", "createFile"}

\* A request that creates a row has the number of the row, which no row has;
\* any other is about a row that was created.
RowNumber(q) ==
    /\ q.phase \in NewPost => q.row = q.id /\ q.id \notin born
    /\ q.phase \in PostPhases \ NewPost => q.row \in born
    /\ q.phase \in NewFile => q.file.id = q.id /\ q.id \notin born
    /\ q.phase \in FilePhases \ NewFile => q.file.id \in born
    /\ q.phase \in FilePhases \ {"fetch"} => q.file.key = q.file.id

RowIds ==
    /\ born \subseteq 1..serial
    /\ \A p \in posts : p.id \in born
    /\ Distinct(posts)
    /\ \A f \in folders : f.id \in born
    /\ \A f \in files : f.id \in born /\ f.key = f.id
    /\ \A q \in active : RowNumber(q)

NumberInv == TypeInv /\ RequestIds /\ RowIds

LEMMA BornStep ==
    ASSUME NumberInv, NEW q \in active, Step(q)
    PROVE  \/ born' = born
           \/ q.phase \in {"createPost", "createFile"} /\ born' = born \cup {q.id}
<1>1. RowNumber(q)
  BY DEF NumberInv, RowIds
<1> QED
  BY <1>1 DEF Step, PostChange, FolderChange, RowChange, FileCreated, RowNumber, NewPost, NewFile

LEMMA RowNumberMoves ==
    ASSUME NumberInv, NEW q \in active, Step(q), NEW r, Moves(q, r)
    PROVE  RowNumber(r)'
<1>1. RowNumber(q) /\ (born' = born \/ q.phase \in {"createPost", "createFile"}) /\ born \subseteq born'
  BY BornStep DEF NumberInv, RowIds
<1>2. \A f \in files : f.id \in born /\ f.key = f.id
  BY DEF NumberInv, RowIds
<1>3. CASE PostMoves(q, r)
  BY <1>1, <1>3 DEF PostMoves, RowNumber, NewPost, NewFile, PostPhases, FilePhases, StashWrites
<1>4. CASE FolderMoves(q, r)
  BY <1>4 DEF FolderMoves, RowNumber, NewPost, NewFile, PostPhases, FilePhases
<1>5. CASE FileMoves(q, r)
  BY <1>1, <1>2, <1>5 DEF FileMoves, RowNumber, NewPost, NewFile, PostPhases, FilePhases
<1> QED
  BY <1>3, <1>4, <1>5 DEF Moves

LEMMA RowIdsStep ==
    ASSUME NumberInv, [Next]_vars
    PROVE  RowIds'
<1>1. /\ serial \in Nat /\ born \subseteq 1..serial
      /\ \A q \in active : q.id \in 1..serial /\ RowNumber(q)
  BY DEF NumberInv, RequestIds, RowIds, TypeInv, TypeOK, RequestsTypeOK
<1>2. ASSUME NEW n, born' \subseteq born \cup {n}, born \subseteq born',
             NEW q \in active, \/ q.phase \notin NewPost \cup NewFile
                               \/ q.id # n
      PROVE  RowNumber(q)'
  BY <1>1, <1>2 DEF RowNumber
<1>3. CASE /\ serial' \in {serial, serial + 1}
           /\ active' = active
           /\ posts' = posts \/ posts' \subseteq posts
           /\ \A x \in files' : \E f \in files : FileFrom(f, x)
           /\ born' = born \/ (serial' = serial + 1 /\ born' = born \cup {serial + 1})
           /\ \A x \in folders' : x.id \in born'
  <2>1. \A q \in active' : RowNumber(q)'
    <3>1. \A q \in active : q.id # serial + 1
      BY <1>1
    <3> QED
      BY <1>2, <1>3, <3>1
  <2>2. /\ \A x \in files' : x.id \in born' /\ x.key = x.id
        /\ \A p \in posts' : p.id \in born'
        /\ Distinct(posts')
    BY <1>3 DEF NumberInv, RowIds, Distinct, FileFrom
  <2>3. born' \subseteq 1..serial'
    <3>1. 1..serial \subseteq 1..serial' /\ (serial' = serial + 1 => serial + 1 \in 1..serial')
      BY <1>1, <1>3
    <3>2. born' = born \/ (serial' = serial + 1 /\ born' = born \cup {serial + 1})
      BY <1>3
    <3> QED
      BY <1>1, <3>1, <3>2
  <2> QED
    BY <1>3, <2>1, <2>2, <2>3 DEF RowIds
<1>4. CASE UNCHANGED vars \/ FolderWritten \/ MemberWritten \/ WorkspaceGone
  <2>1. \A f \in files : FileFrom(f, f)
    BY DEF FileFrom
  <2>2. \A x \in folders' : x.id \in born'
    BY <1>4 DEF NumberInv, RowIds, FolderFrom, vars, FolderWritten, MemberWritten, WorkspaceGone
  <2> QED
    BY <1>3, <1>4, <2>1, <2>2 DEF vars, fileVars, FolderWritten, MemberWritten, WorkspaceGone
<1>5. CASE Begins
  <2>1. PICK r \in AnyRequest : Starts(r) /\ active' = active \cup {r}
    BY <1>5 DEF Begins
  <2>2. /\ serial' = serial + 1
        /\ UNCHANGED <<born, posts, folders, files>>
    BY <1>5 DEF Begins
  <2>3. RowNumber(r)
    <3>1. r.id \notin born
      BY <1>1, <2>1 DEF Starts
    <3>2. /\ \A p \in posts : p.id \in born
          /\ \A f \in files : f.id \in born /\ f.key = f.id
      BY DEF NumberInv, RowIds
    <3> QED
      BY <2>1, <3>1, <3>2 DEF Starts, RowNumber, NewPost, NewFile, PostPhases, FilePhases
  <2>4. \A q \in active' : RowNumber(q)'
    BY <1>1, <2>1, <2>2, <2>3 DEF RowNumber
  <2> QED
    BY <1>1, <2>2, <2>4 DEF NumberInv, RowIds, Distinct
<1>6. ASSUME NEW q \in active, Step(q) PROVE RowIds'
  <2>1. PICK R \in SUBSET AnyRequest :
          active' = (active \ {q}) \cup R /\ \A r \in R : Moves(q, r)
    BY <1>6 DEF Step, Served
  <2>2. serial' = serial
    BY <1>6 DEF Step, Served
  <2>3. /\ born' \subseteq born \cup {q.id} /\ born \subseteq born'
        /\ born' = born \/ (q.phase \in {"createPost", "createFile"} /\ born' = born \cup {q.id})
    BY <1>6, BornStep
  <2>4. \A p \in active \ {q} : RowNumber(p)'
    <3> SUFFICES ASSUME NEW p \in active \ {q} PROVE RowNumber(p)'
      OBVIOUS
    <3>1. p.id # q.id \/ p.phase \notin NewPost \cup NewFile
      BY DEF NumberInv, RequestIds, Removing, NewPost, NewFile
    <3> QED
      BY <1>2, <2>3, <3>1
  <2>5. \A p \in active' : RowNumber(p)'
    BY <1>6, <2>1, <2>4, RowNumberMoves
  <2>6. born' \subseteq 1..serial'
    BY <1>1, <2>2, <2>3
  <2>7. /\ \A p \in posts' : p.id \in born'
        /\ \A f \in folders' : f.id \in born'
        /\ \A f \in files' : f.id \in born' /\ f.key = f.id
        /\ Distinct(posts')
    <3>1. RowNumber(q) /\ \A p \in posts : q.phase = "createPost" => p.id # q.row
      BY <1>1 DEF RowNumber, NewPost, NumberInv, RowIds
    <3>2. CASE PostChange(q) /\ KeepsDistinct(q) /\ UNCHANGED <<folders, looped, fileVars>>
      BY <2>3, <3>1, <3>2 DEF PostChange, KeepsDistinct, PostFrom, PostCreated, NumberInv,
                              RowIds, fileVars
    <3>3. CASE FolderChange /\ UNCHANGED <<posts, fileVars>>
      BY <2>3, <3>3 DEF FolderChange, FolderFrom, NumberInv, RowIds, fileVars, Distinct
    <3>4. CASE /\ q.phase \in FilePhases /\ q \in FileRequest
               /\ RowChange(q) /\ UNCHANGED <<posts, folders, looped>>
      BY <2>3, <3>1, <3>4 DEF RowChange, FileFrom, FileCreated, RowNumber, NewFile, NumberInv,
                              RowIds, Distinct, FilePhases
    <3> QED
      BY <1>6, <3>2, <3>3, <3>4 DEF Step
  <2> QED
    BY <2>5, <2>6, <2>7 DEF RowIds
<1> QED
  BY <1>4, <1>5, <1>6, StepCases DEF NumberInv

LEMMA Numbered == Spec => []NumberInv
<1>1. Init => NumberInv
  <2> SUFFICES ASSUME Init PROVE NumberInv
    OBVIOUS
  <2>1. active = {} /\ posts = {} /\ folders = {} /\ files = {} /\ born = {}
    BY DEF Init, RequestsInit, MediaInit
  <2> QED
    BY <2>1, TypeInit DEF NumberInv, RequestIds, RowIds, Distinct
<1>2. NumberInv /\ [Next]_vars => NumberInv'
  BY TypeStep, RequestIdsStep, RowIdsStep DEF NumberInv
<1> QED
  BY <1>1, <1>2, PTL DEF Spec

-----------------------------------------------------------------------------
(* What the rows refer to                                                  *)

LEMMA WorkspacesStep ==
    ASSUME TypeInv, RowsHaveWorkspace, [Next]_vars
    PROVE  RowsHaveWorkspace'
<1>1. CASE UNCHANGED vars \/ Begins \/ MemberWritten
  BY <1>1 DEF RowsHaveWorkspace, vars, fileVars, Begins, MemberWritten
<1>2. CASE FolderWritten
  BY <1>2 DEF RowsHaveWorkspace, FolderWritten, FolderFrom, fileVars
<1>3. CASE WorkspaceGone
  BY <1>3 DEF RowsHaveWorkspace, WorkspaceGone, FolderFrom, FileFrom
<1>4. ASSUME NEW q \in active, Step(q) PROVE RowsHaveWorkspace'
  <2>1. CASE PostChange(q) /\ UNCHANGED <<folders, looped, fileVars>>
    BY <2>1 DEF RowsHaveWorkspace, PostChange, PostFrom, PostCreated, fileVars
  <2>2. CASE FolderChange /\ UNCHANGED <<posts, fileVars>>
    BY <2>2 DEF RowsHaveWorkspace, FolderChange, FolderFrom, fileVars
  <2>3. CASE RowChange(q) /\ UNCHANGED <<posts, folders, looped>>
    BY <2>3 DEF RowsHaveWorkspace, RowChange, FileFrom, FileCreated
  <2> QED
    BY <1>4, <2>1, <2>2, <2>3 DEF Step
<1> QED
  BY <1>1, <1>2, <1>3, <1>4, StepCases

\* The phases of a request that may yet make a session, which has its number.
Making == {"fetch", "putObject", "createFile", "createAccess", "checkUrl", "findAccess",
           "writeAccess"}

\* A session keeps its number and its file, also while a request that found it
\* is about to write it anew.
SessionInv ==
    /\ \A s \in sessions : /\ s.id \in 1..serial
                           /\ \A q \in active : q.phase \in Making => q.id # s.id
    /\ \A s, t \in sessions : s.id = t.id => s.file = t.file
    /\ \A q \in active : q.phase = "writeAccess" /\ q.session # None =>
         /\ q.session \in 1..serial
         /\ \A p \in active : p.phase \in Making => p.id # q.session
         /\ \A s \in sessions : s.id = q.session => s.file = q.file.id

LEMMA MakingMoves ==
    ASSUME NEW q, NEW r, Moves(q, r)
    PROVE  /\ r.phase \in Making => q.phase \in Making
           /\ r.phase \in Making => q.phase # "createAccess"
           /\ r.phase \in Making => q.phase # "writeAccess"
           /\ r.phase = "writeAccess" =>
                /\ r.file = q.file /\ q.phase = "findAccess"
                /\ r.session # None =>
                      \E s \in sessions : s.id = r.session /\ s.file = q.file.id
  BY DEF Moves, PostMoves, FolderMoves, FileMoves, StashWrites, Making

\* What becomes of the sessions with any request.
LEMMA SessionStep ==
    ASSUME NEW q, Step(q)
    PROVE  \A s \in sessions' :
             \/ s \in sessions
             \/ /\ q.phase \in {"createAccess", "writeAccess"}
                /\ s.file = q.file.id /\ files' = files
                /\ \/ s.id = q.id /\ s.file \in FileIds
                   \/ /\ q.phase = "writeAccess" /\ s.id = q.session /\ q.session # None
                      /\ \E t \in sessions : t.id = q.session
  BY DEF Step, SessionChange, fileVars

LEMMA SessionInvStep ==
    ASSUME NumberInv, SessionInv, [Next]_vars
    PROVE  SessionInv'
<1>1. serial \in Nat /\ \A q \in active : q.id \in 1..serial
  BY DEF NumberInv, RequestIds, TypeInv, TypeOK, RequestsTypeOK
<1>2. CASE UNCHANGED <<sessions, active>> /\ serial' \in {serial, serial + 1}
  BY <1>1, <1>2 DEF SessionInv
<1>3. CASE Begins
  <2>1. PICK r \in AnyRequest : Starts(r) /\ active' = active \cup {r}
    BY <1>3 DEF Begins
  <2>2. serial' = serial + 1 /\ sessions' = sessions
    BY <1>3 DEF Begins
  <2>3. r.id = serial + 1 /\ r.phase # "writeAccess"
    BY <2>1 DEF Starts
  <2> QED
    BY <1>1, <2>1, <2>2, <2>3 DEF SessionInv
<1>4. ASSUME NEW q \in active, Step(q) PROVE SessionInv'
  <2>1. PICK R \in SUBSET AnyRequest :
          active' = (active \ {q}) \cup R /\ \A r \in R : Moves(q, r)
    BY <1>4 DEF Step, Served
  <2>2. serial' = serial
    BY <1>4 DEF Step, Served
  <2>3. \A r \in R : r.id = q.id
    BY <2>1, MovesKeepId
  \* Who may make a session after the step might have done so before.
  <2>4. \A p \in active' : p.phase \in Making =>
           \/ p \in active \ {q}
           \/ /\ p.id = q.id /\ q.phase \in Making
              /\ q.phase # "createAccess" /\ q.phase # "writeAccess"
    BY <2>1, <2>3, MakingMoves
  <2>5. \A p \in active' : p.phase \in Making =>
           \E x \in active : x.phase \in Making /\ x.id = p.id
    BY <2>4
  <2>6. \A p \in active \ {q} : p.phase \in Making => p.id # q.id
    BY DEF NumberInv, RequestIds, Making, Removing
  <2>7. ASSUME NEW s \in sessions', s \notin sessions
        PROVE  /\ s.id \in 1..serial' /\ s.file = q.file.id
               /\ \A p \in active' : p.phase \in Making => p.id # s.id
               /\ \A t \in sessions : t.id = s.id => t.file = s.file
    <3>1. CASE /\ q.phase \in {"createAccess", "writeAccess"} /\ s.id = q.id
               /\ s.file = q.file.id
      BY <1>1, <2>2, <2>4, <2>6, <3>1 DEF SessionInv, Making
    <3>2. CASE /\ q.phase = "writeAccess" /\ s.id = q.session /\ q.session # None
               /\ s.file = q.file.id
      BY <2>2, <2>5, <3>2 DEF SessionInv
    <3> QED
      BY <1>4, <2>7, <3>1, <3>2, SessionStep
  <2>8. \A s \in sessions' :
          /\ s.id \in 1..serial'
          /\ \A p \in active' : p.phase \in Making => p.id # s.id
    BY <2>2, <2>5, <2>7 DEF SessionInv
  <2>9. \A s, t \in sessions' : s.id = t.id => s.file = t.file
    BY <2>7 DEF SessionInv
  <2>10. ASSUME NEW p \in active', p.phase = "writeAccess", p.session # None
         PROVE  /\ p.session \in 1..serial'
                /\ \A x \in active' : x.phase \in Making => x.id # p.session
                /\ \A s \in sessions' : s.id = p.session => s.file = p.file.id
    <3>1. CASE p \in R
      <4>1. PICK s \in sessions : s.id = p.session /\ s.file = q.file.id
        BY <2>1, <2>10, <3>1, MakingMoves
      <4>2. p.file = q.file /\ q.phase = "findAccess"
        BY <2>1, <2>10, <3>1, MakingMoves
      <4>3. sessions' \subseteq sessions
        BY <1>4, <4>2, SessionStep
      <4> QED
        BY <2>2, <2>5, <4>1, <4>2, <4>3 DEF SessionInv
    <3>2. CASE p \in active \ {q}
      <4>1. /\ p.session \in 1..serial'
            /\ \A x \in active' : x.phase \in Making => x.id # p.session
        BY <2>2, <2>5, <2>10, <3>2 DEF SessionInv
      <4>2. ASSUME NEW s \in sessions', s \notin sessions, s.id = p.session
            PROVE  s.file = p.file.id
        <5>1. CASE q.phase \in {"createAccess", "writeAccess"} /\ s.id = q.id
          BY <2>10, <3>2, <4>2, <5>1 DEF SessionInv, Making
        <5>2. CASE /\ q.phase = "writeAccess" /\ s.id = q.session /\ q.session # None
                   /\ s.file = q.file.id /\ \E t \in sessions : t.id = q.session
          <6>1. PICK t \in sessions : t.id = p.session /\ t.id = q.session
            BY <4>2, <5>2
          <6>2. t.file = p.file.id
            <7>1. p \in active /\ p.phase = "writeAccess" /\ p.session # None
              BY <2>10, <3>2
            <7> QED
              BY <6>1, <7>1 DEF SessionInv
          <6>3. t.file = q.file.id
            BY <5>2, <6>1 DEF SessionInv
          <6> QED
            BY <5>2, <6>2, <6>3
        <5> QED
          BY <1>4, <4>2, <5>1, <5>2, SessionStep
      <4> QED
        BY <2>10, <3>2, <4>1, <4>2 DEF SessionInv
    <3> QED
      BY <2>1, <3>1, <3>2
  <2> QED
    BY <2>8, <2>9, <2>10 DEF SessionInv
<1>5. CASE UNCHANGED vars \/ FolderWritten \/ MemberWritten \/ WorkspaceGone
  BY <1>2, <1>5 DEF vars, fileVars, FolderWritten, MemberWritten, WorkspaceGone
<1> QED
  BY <1>3, <1>4, <1>5, StepCases DEF NumberInv

\* FileIds after a step of a request, or the deletion of a workspace, lacks no
\* file that has a session.
LEMMA FilesStay ==
    ASSUME NEW f \in files,
           \/ \E q \in active : Step(q)
           \/ WorkspaceGone
    PROVE  \/ f.id \in FileIds'
           \/ sessions' = sessions /\ \A s \in sessions : s.file # f.id
<1>1. \A x \in files' : FileFrom(f, x) => f.id \in FileIds'
  BY DEF FileFrom, FileIds
<1>2. f \in files' => f.id \in FileIds'
  BY DEF FileIds
<1>3. CASE WorkspaceGone
  BY <1>1, <1>3 DEF WorkspaceGone
<1>4. ASSUME NEW q \in active, Step(q)
      PROVE  \/ f.id \in FileIds'
             \/ sessions' = sessions /\ \A s \in sessions : s.file # f.id
  BY <1>1, <1>2, <1>4 DEF Step, RowChange, FileDeleted, fileVars
<1> QED
  BY <1>3, <1>4

LEMMA SessionsHaveFileStep ==
    ASSUME NumberInv, SessionInv, SessionsHaveFile, [Next]_vars
    PROVE  SessionsHaveFile'
<1>1. CASE UNCHANGED <<files, sessions>>
  BY <1>1 DEF SessionsHaveFile, FileIds
<1>2. CASE UNCHANGED vars \/ Begins \/ FolderWritten \/ MemberWritten
  BY <1>1, <1>2 DEF vars, fileVars, Begins, FolderWritten, MemberWritten
<1>3. CASE WorkspaceGone
  <2>1. sessions' = sessions
    BY <1>3 DEF WorkspaceGone
  <2> QED
    BY <1>3, <2>1, FilesStay DEF SessionsHaveFile, FileIds
<1>4. ASSUME NEW q \in active, Step(q) PROVE SessionsHaveFile'
  <2> SUFFICES ASSUME NEW s \in sessions' PROVE s.file \in FileIds'
    BY DEF SessionsHaveFile
  <2>1. CASE s \in sessions
    <3>1. PICK f \in files : f.id = s.file
      BY <2>1 DEF SessionsHaveFile, FileIds
    <3> QED
      BY <1>4, <2>1, <3>1, FilesStay
  <2>2. CASE s \notin sessions
    <3>1. files' = files /\ FileIds' = FileIds
      BY <1>4, <2>2, SessionStep DEF FileIds
    <3>2. s.file \in FileIds
      BY <1>4, <2>2, SessionStep DEF SessionInv, SessionsHaveFile
    <3> QED
      BY <3>1, <3>2
  <2> QED
    BY <2>1, <2>2
<1> QED
  BY <1>2, <1>3, <1>4, StepCases DEF NumberInv

\* No row outlives its workspace and no session its file.  A request that is
\* about to rewrite the session it found can bring back no other session: the
\* numbers of sessions are used once.
THEOREM ReferencesAlwaysHold == Spec => []ReferencesHold
<1> DEFINE I == SessionInv /\ SessionsHaveFile /\ RowsHaveWorkspace
<1>1. Init => I
  <2> SUFFICES ASSUME Init PROVE I
    OBVIOUS
  <2>1. active = {} /\ posts = {} /\ folders = {} /\ files = {} /\ sessions = {}
    BY DEF Init, RequestsInit, MediaInit
  <2> QED
    BY <2>1 DEF SessionInv, SessionsHaveFile, RowsHaveWorkspace
<1>2. NumberInv /\ I /\ [Next]_vars => I'
  BY SessionInvStep, SessionsHaveFileStep, WorkspacesStep DEF NumberInv
<1>3. I => ReferencesHold
  BY DEF ReferencesHold
<1> HIDE DEF I
<1> QED
  BY <1>1, <1>2, <1>3, Numbered, PTL DEF Spec

-----------------------------------------------------------------------------
(* The objects                                                             *)

\* An object is stored before its row is created, and no row names it once it
\* is to be removed.
ObjectInv ==
    \A q \in active :
       /\ q.phase = "createFile" => q.file.key \in stored
       /\ q.phase = "removeObject" => \A f \in files : f.id # q.file.id

LEMMA ObjectMoves ==
    ASSUME NEW q, NEW r, Moves(q, r)
    PROVE  /\ r.phase = "createFile" => r.file = q.file /\ q.file.key \in stored'
           /\ r.phase = "removeObject" => r.file = q.file /\ \A f \in files' : f.id # q.file.id
  BY DEF Moves, PostMoves, FolderMoves, FileMoves, StashWrites

\* What becomes of the files and objects with any request.
LEMMA ObjectStep ==
    ASSUME NEW q, Step(q)
    PROVE  /\ \A x \in files' : \/ \E f \in files : FileFrom(f, x)
                                \/ q.phase = "createFile" /\ x = q.file
           /\ \A f \in files : \/ \E x \in files' : FileFrom(f, x)
                               \/ \E r \in active' : /\ r.phase = "removeObject"
                                                     /\ r.file = q.file /\ f.id = q.file.id
           /\ \/ stored' = stored
              \/ /\ q.phase = "putObject" /\ stored' = stored \cup {q.file.key}
                 /\ \E r \in active' : r.phase = "createFile" /\ r.file = q.file
              \/ q.phase = "removeObject" /\ stored' = stored \ {q.file.key}
           /\ leaked \subseteq leaked'
           /\ q.phase \in FilePhases =>
                /\ q.phase = "createFile" => q.file \in files' \/ q.file.key \in leaked'
                /\ q.phase = "removeObject" => q.file.key \notin stored' \/ q.file.key \in leaked'
<1>1. \A f \in files : FileFrom(f, f)
  BY DEF FileFrom
<1>2. CASE UNCHANGED fileVars /\ q.phase \notin FilePhases
  BY <1>1, <1>2 DEF fileVars
<1>3. CASE RowChange(q) /\ ObjectChange(q)
  <2>1. \A x \in files' : \/ \E f \in files : FileFrom(f, x)
                          \/ q.phase = "createFile" /\ x = q.file
    BY <1>3 DEF RowChange, FileCreated
  <2>2. \A f \in files : \/ \E x \in files' : FileFrom(f, x)
                         \/ \E r \in active' : /\ r.phase = "removeObject"
                                               /\ r.file = q.file /\ f.id = q.file.id
    BY <1>3 DEF RowChange, FileDeleted
  <2> QED
    BY <1>3, <2>1, <2>2 DEF ObjectChange
<1> QED
  BY <1>2, <1>3 DEF Step

LEMMA ObjectInvStep ==
    ASSUME NumberInv, ObjectInv, [Next]_vars
    PROVE  ObjectInv'
<1>1. \A q \in active : RowNumber(q)
  BY DEF NumberInv, RowIds
<1>2. CASE /\ UNCHANGED <<active, stored>>
           /\ \A x \in files' : \E f \in files : FileFrom(f, x)
  BY <1>2 DEF ObjectInv, FileFrom
<1>3. CASE UNCHANGED vars \/ FolderWritten \/ MemberWritten \/ WorkspaceGone
  <2>1. \A f \in files : FileFrom(f, f)
    BY DEF FileFrom
  <2> QED
    BY <1>2, <1>3, <2>1 DEF vars, fileVars, FolderWritten, MemberWritten, WorkspaceGone
<1>4. CASE Begins
  <2>1. PICK r \in AnyRequest : Starts(r) /\ active' = active \cup {r}
    BY <1>4 DEF Begins
  <2>2. r.phase \notin {"createFile", "removeObject"}
    BY <2>1 DEF Starts
  <2>3. UNCHANGED <<stored, files>>
    BY <1>4 DEF Begins
  <2> QED
    BY <2>1, <2>2, <2>3 DEF ObjectInv
<1>5. ASSUME NEW q \in active, Step(q) PROVE ObjectInv'
  <2>1. PICK R \in SUBSET AnyRequest :
          active' = (active \ {q}) \cup R /\ \A r \in R : Moves(q, r)
    BY <1>5 DEF Step, Served
  <2>2. \A r \in R : /\ r.phase = "createFile" => r.file.key \in stored'
                     /\ r.phase = "removeObject" => \A f \in files' : f.id # r.file.id
    BY <2>1, ObjectMoves
  <2>3. ASSUME NEW p \in active \ {q}, p.phase = "createFile"
        PROVE  p.file.key \in stored'
    <3>1. p.file.key \in stored /\ p.file.key = p.id /\ p.id \notin born
      BY <1>1, <2>3 DEF ObjectInv, RowNumber, NewFile, FilePhases
    <3>2. q.phase = "removeObject" => q.file.key \in born
      BY <1>1 DEF RowNumber, NewFile, FilePhases
    <3> QED
      BY <1>5, <3>1, <3>2, ObjectStep
  <2>4. ASSUME NEW p \in active \ {q}, p.phase = "removeObject", NEW x \in files'
        PROVE  x.id # p.file.id
    <3>1. p.file.id \in born
      BY <1>1, <2>4 DEF RowNumber, NewFile, FilePhases
    <3>2. CASE \E f \in files : FileFrom(f, x)
      BY <2>4, <3>2 DEF ObjectInv, FileFrom
    <3>3. CASE q.phase = "createFile" /\ x = q.file
      BY <1>1, <3>1, <3>3 DEF RowNumber, NewFile
    <3> QED
      BY <1>5, <3>2, <3>3, ObjectStep
  <2> QED
    BY <2>1, <2>2, <2>3, <2>4 DEF ObjectInv
<1> QED
  BY <1>3, <1>4, <1>5, StepCases DEF NumberInv

LEMMA FilesHaveObjectStep ==
    ASSUME NumberInv, ObjectInv, FilesHaveObject, [Next]_vars
    PROVE  FilesHaveObject'
<1>1. CASE stored' = stored /\ \A x \in files' : \E f \in files : FileFrom(f, x)
  BY <1>1 DEF FilesHaveObject, FileFrom
<1>2. CASE UNCHANGED vars \/ Begins \/ FolderWritten \/ MemberWritten \/ WorkspaceGone
  <2>1. \A f \in files : FileFrom(f, f)
    BY DEF FileFrom
  <2> QED
    BY <1>1, <1>2, <2>1 DEF vars, fileVars, Begins, FolderWritten, MemberWritten, WorkspaceGone
<1>3. ASSUME NEW q \in active, Step(q), NEW x \in files'
      PROVE  x.key \in stored'
  <2>1. \A f \in files : f.key = f.id /\ f.key \in stored
    BY DEF NumberInv, RowIds, FilesHaveObject
  <2>2. RowNumber(q)
    BY DEF NumberInv, RowIds
  <2>3. q.phase = "removeObject" => \A f \in files : f.key # q.file.key
    BY <2>1, <2>2 DEF ObjectInv, RowNumber, NewFile, FilePhases
  <2>4. CASE \E f \in files : FileFrom(f, x)
    BY <1>3, <2>1, <2>3, <2>4, ObjectStep DEF FileFrom
  <2>5. CASE q.phase = "createFile" /\ x = q.file
    BY <1>3, <2>5, ObjectStep DEF ObjectInv
  <2> QED
    BY <1>3, <2>4, <2>5, ObjectStep
<1> QED
  BY <1>2, <1>3, StepCases DEF NumberInv, FilesHaveObject

LEMMA OrphansStep ==
    ASSUME NumberInv, ObjectInv, OrphansAccounted, [Next]_vars
    PROVE  OrphansAccounted'
<1> DEFINE Named(k) == \E f \in files : f.key = k
           Held(k) == \E q \in active : q.phase \in {"createFile", "removeObject"} /\ q.file.key = k
<1>1. \A f \in files : f.key = f.id
  BY DEF NumberInv, RowIds
<1>2. /\ OrphansAccounted <=> \A k \in stored : Named(k) \/ k \in leaked \/ Held(k)
      /\ OrphansAccounted' <=> \A k \in stored' : Named(k)' \/ k \in leaked' \/ Held(k)'
  BY DEF OrphansAccounted, FileRequests, FilePhases
<1>3. CASE /\ stored' = stored /\ active \subseteq active' /\ leaked \subseteq leaked'
           /\ \A f \in files : (\E x \in files' : FileFrom(f, x)) \/ f.key \in leaked'
  BY <1>2, <1>3 DEF FileFrom
<1>4. CASE UNCHANGED vars \/ Begins \/ FolderWritten \/ MemberWritten \/ WorkspaceGone
  <2>1. \A f \in files : FileFrom(f, f)
    BY DEF FileFrom
  <2>2. CASE WorkspaceGone
    BY <1>1, <1>3, <2>2 DEF WorkspaceGone
  <2> QED
    BY <1>3, <1>4, <2>1, <2>2 DEF vars, fileVars, Begins, FolderWritten, MemberWritten
<1>5. ASSUME NEW q \in active, Step(q), NEW k \in stored'
      PROVE  Named(k)' \/ k \in leaked' \/ Held(k)'
  <2>1. RowNumber(q)
    BY DEF NumberInv, RowIds
  <2>2. active \ {q} \subseteq active' /\ leaked \subseteq leaked'
    BY <1>5, ObjectStep DEF Step, Served
  <2>3. CASE k \notin stored
    BY <1>5, <2>3, ObjectStep
  <2>4. CASE Named(k)
    <3>1. PICK f \in files : f.key = k
      BY <2>4
    <3>2. CASE \E x \in files' : FileFrom(f, x)
      BY <3>1, <3>2 DEF FileFrom
    <3>3. CASE \E r \in active' : /\ r.phase = "removeObject"
                                 /\ r.file = q.file /\ f.id = q.file.id
      <4>1. PICK r \in active' : /\ r.phase = "removeObject"
                                /\ r.file = q.file /\ f.id = q.file.id
        BY <3>3
      <4>2. RowNumber(r)'
        BY <4>1, RowIdsStep DEF RowIds
      <4>3. r.file.key = r.file.id
        BY <4>1, <4>2 DEF RowNumber, FilePhases
      <4> QED
        BY <1>1, <3>1, <4>1, <4>3
    <3> QED
      BY <1>5, <3>2, <3>3, ObjectStep
  <2>5. CASE Held(k)
    <3>1. PICK p \in active : p.phase \in {"createFile", "removeObject"} /\ p.file.key = k
      BY <2>5
    <3>2. CASE p # q
      BY <2>2, <3>1, <3>2
    <3>3. CASE p = q
      <4>1. q.phase \in FilePhases
        BY <3>1, <3>3 DEF FilePhases
      <4> QED
        BY <1>5, <3>1, <3>3, <4>1, ObjectStep
    <3> QED
      BY <3>2, <3>3
  <2> QED
    BY <1>2, <1>5, <2>2, <2>3, <2>4, <2>5
<1> QED
  BY <1>2, <1>4, <1>5, StepCases DEF NumberInv

\* Files and stored objects agree in both directions, whatever uploads and
\* removals overlap: an object is there before its row is and after it is gone,
\* and no number of an object is used twice.
THEOREM ObjectsAlwaysAgree == Spec => []ObjectsAgree
<1> DEFINE I == ObjectInv /\ FilesHaveObject /\ OrphansAccounted
<1>1. Init => I
  <2> SUFFICES ASSUME Init PROVE I
    OBVIOUS
  <2>1. active = {} /\ files = {} /\ stored = {}
    BY DEF Init, RequestsInit, MediaInit
  <2> QED
    BY <2>1 DEF ObjectInv, FilesHaveObject, OrphansAccounted
<1>2. NumberInv /\ I /\ [Next]_vars => I'
  BY ObjectInvStep, FilesHaveObjectStep, OrphansStep
<1>3. I => ObjectsAgree
  BY DEF ObjectsAgree
<1> HIDE DEF I
<1> QED
  BY <1>1, <1>2, <1>3, Numbered, PTL DEF Spec

-----------------------------------------------------------------------------
(* The authors of posts                                                    *)

\* What a request knows of the memberships it will not look at again.
AuthorChecked(q) ==
    /\ q.phase \in {"checkAuthor", "createPost", "updatePost"} =>
         <<q.user, q.workspace>> \in everMember
    /\ q.phase = "createPost" =>
         q.author \in {None, NotGiven} \/ <<q.author, q.workspace>> \in everMember
    /\ q.phase \in {"findPost", "checkCaller", "updatePost"} => q.author \in {NotGiven, None, q.user}
    /\ q.phase \in {"checkCaller", "updatePost"} =>
         \A p \in posts : p.id = q.row => p.workspace = q.workspace

AuthorInv ==
    /\ members \subseteq everMember
    /\ \A q \in active : AuthorChecked(q)

LEMMA AuthorMoves ==
    ASSUME NumberInv, AuthorInv, NEW q \in active, NEW r, Moves(q, r)
    PROVE  AuthorChecked(r)
<1>1. AuthorChecked(q) /\ members \subseteq everMember
  BY DEF AuthorInv
<1>2. Distinct(posts)
  BY DEF NumberInv, RowIds
<1>3. CASE PostMoves(q, r)
  BY <1>1, <1>2, <1>3 DEF PostMoves, AuthorChecked, MembershipValid, StashWrites, Distinct
<1>4. CASE FolderMoves(q, r)
  BY <1>4 DEF FolderMoves, AuthorChecked
<1>5. CASE FileMoves(q, r)
  BY <1>5 DEF FileMoves, AuthorChecked
<1> QED
  BY <1>3, <1>4, <1>5 DEF Moves

\* What becomes of the posts with any request.
LEMMA PostStep ==
    ASSUME NEW q, Step(q)
    PROVE  /\ UNCHANGED <<workspaces, members, everMember>>
           /\ \A x \in posts' : (\E p \in posts : PostFrom(q, p, x)) \/ PostCreated(q, x)
           /\ \A p \in posts : \/ \E x \in posts' : PostFrom(q, p, x)
                               \/ q.phase = "destroyPost" /\ p.id = q.row
           /\ crossed \subseteq crossed'
           /\ q.phase = "restorePost" /\ posts' # posts =>
                \A p \in active : p.phase = "destroyPost" /\ p.row = q.row => p.id \in crossed'
<1>1. \A p \in posts : PostFrom(q, p, p)
  BY DEF PostFrom
<1>2. CASE PostChange(q)
  BY <1>2 DEF PostChange
<1>3. CASE FolderChange /\ UNCHANGED posts
  BY <1>1, <1>3 DEF FolderChange
<1>4. CASE RowChange(q) /\ UNCHANGED posts
  BY <1>1, <1>4 DEF RowChange
<1> QED
  BY <1>2, <1>3, <1>4 DEF Step

LEMMA AuthorStep ==
    ASSUME NumberInv, AuthorInv, AuthorsWereMembers, [Next]_vars
    PROVE  AuthorInv' /\ AuthorsWereMembers'
<1>1. ASSUME active' = active, posts' \subseteq posts, everMember \subseteq everMember',
             members' \subseteq everMember'
      PROVE  AuthorInv' /\ AuthorsWereMembers'
  <2>1. \A q \in active : AuthorChecked(q)'
    BY <1>1 DEF AuthorInv, AuthorChecked
  <2> QED
    BY <1>1, <2>1 DEF AuthorInv, AuthorsWereMembers
<1>2. CASE UNCHANGED vars \/ FolderWritten \/ MemberWritten \/ WorkspaceGone
  BY <1>1, <1>2 DEF vars, FolderWritten, MemberWritten, WorkspaceGone, AuthorInv
<1>3. CASE Begins
  <2>1. PICK r \in AnyRequest : Starts(r) /\ active' = active \cup {r}
    BY <1>3 DEF Begins
  <2>2. UNCHANGED <<members, everMember, posts>>
    BY <1>3 DEF Begins
  <2>3. AuthorChecked(r)
    BY <2>1 DEF Starts, AuthorChecked, AuthorInv
  <2>4. \A q \in active' : AuthorChecked(q)'
    BY <2>1, <2>2, <2>3 DEF AuthorInv, AuthorChecked
  <2> QED
    BY <2>2, <2>4 DEF AuthorInv, AuthorsWereMembers
<1>4. ASSUME NEW q \in active, Step(q) PROVE AuthorInv' /\ AuthorsWereMembers'
  <2>1. PICK R \in SUBSET AnyRequest :
          active' = (active \ {q}) \cup R /\ \A r \in R : Moves(q, r)
    BY <1>4 DEF Step, Served
  <2>2. UNCHANGED <<members, everMember>>
    BY <1>4, PostStep
  <2>3. RowNumber(q) /\ AuthorChecked(q)
    BY DEF NumberInv, RowIds, AuthorInv
  \* A post found keeps its workspace, and a new one has another number.
  <2>4. ASSUME NEW p, AuthorChecked(p), p.row \in born
        PROVE  AuthorChecked(p)'
    <3>1. \A x \in posts' : x.id = p.row => \E y \in posts : PostFrom(q, y, x)
      BY <1>4, <2>3, <2>4, PostStep DEF PostCreated, RowNumber, NewPost
    <3> QED
      BY <2>2, <2>4, <3>1 DEF AuthorChecked, PostFrom
  <2>5. ASSUME NEW p, AuthorChecked(p), p.phase \notin {"checkCaller", "updatePost"}
        PROVE  AuthorChecked(p)'
    BY <2>2, <2>5 DEF AuthorChecked
  <2>6. \A p \in active : p.phase \in {"findPost", "checkCaller", "updatePost"} => p.row \in born
    BY DEF NumberInv, RowIds, RowNumber, PostPhases, NewPost
  <2>7. \A r \in R : r.phase \in {"checkCaller", "updatePost"} => r.row \in born
    <3>1. \A r \in R : r.phase \in {"checkCaller", "updatePost"} =>
                           r.row = q.row /\ q.phase \in {"findPost", "checkCaller"}
      BY <2>1 DEF Moves, PostMoves, FolderMoves, FileMoves, StashWrites
    <3> QED
      BY <2>6, <3>1
  <2>8. \A p \in active' : AuthorChecked(p)'
    BY <2>1, <2>4, <2>5, <2>6, <2>7, AuthorMoves DEF AuthorInv
  <2>9. ASSUME NEW x \in posts' PROVE x.author # None => <<x.author, x.workspace>> \in everMember
    <3>1. CASE PostCreated(q, x)
      BY <2>3, <3>1 DEF PostCreated, AuthorOf, AuthorChecked
    <3>2. ASSUME NEW p \in posts, PostFrom(q, p, x)
          PROVE  x.author # None => <<x.author, x.workspace>> \in everMember
      BY <2>3, <3>2 DEF PostFrom, AuthorChecked, AuthorsWereMembers
    <3> QED
      BY <1>4, <3>1, <3>2, PostStep
  <2> QED
    BY <2>2, <2>8, <2>9 DEF AuthorInv, AuthorsWereMembers
<1> QED
  BY <1>2, <1>3, <1>4, StepCases DEF NumberInv

\* The author a post has is, or was, a member of its workspace, though the
\* memberships are read long before the post is written, and in createPost
\* and updatePost of workspaces that may differ.
THEOREM AuthorsAlwaysWereMembers == Spec => []AuthorsWereMembers
<1>1. Init => AuthorInv /\ AuthorsWereMembers
  <2> SUFFICES ASSUME Init PROVE AuthorInv /\ AuthorsWereMembers
    OBVIOUS
  <2>1. active = {} /\ posts = {} /\ everMember = members
    BY DEF Init, RequestsInit
  <2> QED
    BY <2>1 DEF AuthorInv, AuthorsWereMembers
<1>2. NumberInv /\ AuthorInv /\ AuthorsWereMembers /\ [Next]_vars
        => AuthorInv' /\ AuthorsWereMembers'
  BY AuthorStep
<1> QED
  BY <1>1, <1>2, Numbered, PTL DEF Spec

-----------------------------------------------------------------------------
(* The stash of posts                                                      *)

\* A post that is to be destroyed is in the stash, unless it was restored.
DestroyInv ==
    \A q \in active : q.phase = "destroyPost" /\ q.id \notin crossed =>
        \A p \in posts : p.id = q.row => p.stashed

LEMMA DestroyStep ==
    ASSUME NumberInv, DestroyInv, [Next]_vars
    PROVE  DestroyInv'
<1>1. CASE active' = active /\ posts' \subseteq posts /\ crossed' = crossed
  BY <1>1 DEF DestroyInv
<1>2. CASE UNCHANGED vars \/ FolderWritten \/ MemberWritten \/ WorkspaceGone
  BY <1>1, <1>2 DEF vars, FolderWritten, MemberWritten, WorkspaceGone
<1>3. CASE Begins
  <2>1. PICK r \in AnyRequest : Starts(r) /\ active' = active \cup {r}
    BY <1>3 DEF Begins
  <2>2. r.phase # "destroyPost"
    BY <2>1 DEF Starts
  <2> QED
    BY <1>3, <2>1, <2>2 DEF DestroyInv, Begins
<1>4. ASSUME NEW q \in active, Step(q) PROVE DestroyInv'
  <2>1. PICK R \in SUBSET AnyRequest :
          active' = (active \ {q}) \cup R /\ \A r \in R : Moves(q, r)
    BY <1>4 DEF Step, Served
  <2>2. RowNumber(q) /\ crossed \subseteq crossed'
    BY <1>4, PostStep DEF NumberInv, RowIds
  <2>3. ASSUME NEW p \in active', p.phase = "destroyPost", p.id \notin crossed',
               NEW x \in posts', x.id = p.row
        PROVE  x.stashed
    <3>1. CASE p \in R
      <4>1. /\ p.row = q.row /\ q.phase = "matchPost" /\ q.write = "destroyPost"
            /\ \E y \in posts : Matches(q, y)
        BY <2>1, <2>3, <3>1 DEF Moves, PostMoves, FolderMoves, FileMoves
      <4>2. PICK y \in posts : PostFrom(q, y, x)
        BY <1>4, <4>1, PostStep DEF PostCreated
      <4>3. y.stashed
        BY <2>3, <4>1, <4>2 DEF Matches, PostFrom, NumberInv, RowIds, Distinct
      <4> QED
        BY <4>1, <4>2, <4>3 DEF PostFrom
    <3>2. CASE p \in active \ {q}
      <4>1. p.row \in born
        BY <2>3, <3>2 DEF NumberInv, RowIds, RowNumber, PostPhases, NewPost
      <4>2. PICK y \in posts : PostFrom(q, y, x)
        BY <1>4, <2>2, <2>3, <4>1, PostStep DEF PostCreated, RowNumber, NewPost
      <4>3. y.stashed
        BY <2>2, <2>3, <3>2, <4>2 DEF DestroyInv, PostFrom
      <4>4. CASE q.phase = "restorePost" /\ q.row = p.row /\ posts' # posts
        BY <1>4, <2>3, <3>2, <4>4, PostStep
      <4>5. CASE posts' = posts
        BY <2>2, <2>3, <3>2, <4>5 DEF DestroyInv
      <4> QED
        BY <2>3, <4>2, <4>3, <4>4, <4>5 DEF PostFrom
    <3> QED
      BY <2>1, <3>1, <3>2
  <2> QED
    BY <2>3 DEF DestroyInv
<1> QED
  BY <1>2, <1>3, <1>4, StepCases DEF NumberInv

\* deletePost destroys only posts in the stash, or restored since it looked.
THEOREM PostsAreStashed == Spec => PostDestroyedFromStash
<1> DEFINE Kept ==
      \A p \in posts :
         (~p.stashed /\ p.workspace \in workspaces' /\ \A x \in posts' : x.id # p.id) =>
            \E q \in active : q.phase = "destroyPost" /\ q.row = p.id /\ q.id \in crossed
<1>1. Init => DestroyInv
  BY DEF Init, RequestsInit, DestroyInv
<1>2. NumberInv /\ DestroyInv /\ [Next]_vars => DestroyInv'
  BY DestroyStep
<1>3. NumberInv /\ DestroyInv /\ [Next]_vars => Kept
  <2> SUFFICES ASSUME NumberInv, DestroyInv, [Next]_vars,
                      NEW p \in posts, ~p.stashed, p.workspace \in workspaces',
                      \A x \in posts' : x.id # p.id
               PROVE  \E q \in active : q.phase = "destroyPost" /\ q.row = p.id /\ q.id \in crossed
    OBVIOUS
  <2>1. CASE UNCHANGED vars \/ Begins \/ FolderWritten \/ MemberWritten
    BY <2>1 DEF vars, Begins, FolderWritten, MemberWritten
  <2>2. CASE WorkspaceGone
    BY <2>2 DEF WorkspaceGone
  <2>3. ASSUME NEW q \in active, Step(q)
        PROVE  q.phase = "destroyPost" /\ q.row = p.id /\ q.id \in crossed
    <3>1. q.phase = "destroyPost" /\ p.id = q.row
      BY <2>3, PostStep DEF PostFrom
    <3> QED
      BY <3>1 DEF DestroyInv
  <2> QED
    BY <2>1, <2>2, <2>3, StepCases DEF NumberInv
<1>4. Kept => [Kept]_posts
  OBVIOUS
<1> HIDE DEF Kept
<1>5. Spec => [][Kept]_posts
  BY <1>1, <1>2, <1>3, Numbered, PTL DEF Spec
<1> QED
  BY <1>5 DEF PostDestroyedFromStash, Kept

-----------------------------------------------------------------------------
(* The tree of folders                                                     *)

\* S has a folder whose parent is outside of it.
Rooted(S) == \E f \in folders : /\ f.id \in S /\ f.parent \notin S
                               /\ f.parent \in FolderIds \cup {None}

LEMMA FolderNumbers ==
    ASSUME NumberInv
    PROVE  None \notin FolderIds /\ serial + 1 \notin FolderIds \cup {None}
<1>1. serial \in Nat /\ \A i \in FolderIds : i \in 1..serial
  BY DEF NumberInv, RowIds, FolderIds, TypeInv, TypeOK, RequestsTypeOK
<1> QED
  BY <1>1 DEF None

\* Folders go, and what was below them is a root; or nothing but other columns
\* is written, with no R.
LEMMA RootedWithout ==
    ASSUME NumberInv, RootedUnlessLooped, looped' = looped, NEW R,
           FolderIds' = FolderIds \ R,
           \A f \in folders : f.id \notin R =>
              \E x \in folders' : /\ x.id = f.id
                                 /\ x.parent = IF f.parent \in R THEN None ELSE f.parent
    PROVE  RootedUnlessLooped'
<1> SUFFICES ASSUME ~looped, NEW S \in SUBSET FolderIds', S # {} PROVE Rooted(S)'
  BY DEF RootedUnlessLooped, Rooted
<1>1. None \notin FolderIds
  BY FolderNumbers
<1>2. PICK f \in folders : /\ f.id \in S /\ f.parent \notin S
                          /\ f.parent \in FolderIds \cup {None}
  BY DEF RootedUnlessLooped
<1>3. PICK x \in folders' : /\ x.id = f.id
                           /\ x.parent = IF f.parent \in R THEN None ELSE f.parent
  BY <1>2
<1> QED
  BY <1>1, <1>2, <1>3 DEF Rooted

LEMMA FoldersGo ==
    ASSUME NumberInv, NEW R, folders' = WithoutFolders(R)
    PROVE  /\ FolderIds' = FolderIds \ R
           /\ \A f \in folders : f.id \notin R =>
                \E x \in folders' : /\ x.id = f.id
                                   /\ x.parent = IF f.parent \in R THEN None ELSE f.parent
<1> DEFINE g(f) == IF f.parent \in R THEN [f EXCEPT !.parent = None] ELSE f
<1>1. folders \subseteq Folders
  BY DEF NumberInv, TypeInv, TypeOK, FolderTypeOK
<1>2. \A f \in folders : /\ g(f).id = f.id
                         /\ g(f).parent = IF f.parent \in R THEN None ELSE f.parent
  BY <1>1 DEF Folders
<1>3. folders' = {g(f) : f \in {f \in folders : f.id \notin R}}
  BY DEF WithoutFolders
<1> HIDE DEF g
<1>4. \A f \in folders : f.id \notin R => g(f) \in folders'
  BY <1>3
<1>5. \A x \in folders' : \E f \in folders : f.id \notin R /\ x = g(f)
  BY <1>3
<1>6. FolderIds' = FolderIds \ R
  BY <1>2, <1>4, <1>5 DEF FolderIds
<1> QED
  BY <1>2, <1>4, <1>6

LEMMA RootedCreated ==
    ASSUME NumberInv, RootedUnlessLooped, looped' = looped,
           NEW x, x.id = serial + 1, x.parent \in FolderIds \cup {None},
           folders' = folders \cup {x}
    PROVE  RootedUnlessLooped'
<1> SUFFICES ASSUME ~looped, NEW S \in SUBSET FolderIds', S # {} PROVE Rooted(S)'
  BY DEF RootedUnlessLooped, Rooted
<1>1. serial + 1 \notin FolderIds \cup {None}
  BY FolderNumbers
<1>2. FolderIds' = FolderIds \cup {serial + 1}
  BY DEF FolderIds
<1>3. CASE S = {serial + 1}
  BY <1>1, <1>2, <1>3 DEF Rooted
<1>4. CASE S # {serial + 1}
  <2> DEFINE T == S \ {serial + 1}
  <2>1. T \in SUBSET FolderIds /\ T # {}
    BY <1>2, <1>4
  <2>2. PICK f \in folders : /\ f.id \in T /\ f.parent \notin T
                            /\ f.parent \in FolderIds \cup {None}
    BY <2>1 DEF RootedUnlessLooped
  <2> QED
    BY <1>1, <1>2, <2>2 DEF Rooted
<1> QED
  BY <1>3, <1>4

\* A folder moved to one it is not above: the folders above the new parent are
\* a set that the move does not touch.
LEMMA RootedMoved ==
    ASSUME NumberInv, RootedUnlessLooped,
           NEW row \in FolderIds, NEW parent \in FolderIds \cup {None},
           MoveFolder(row, parent)
    PROVE  RootedUnlessLooped'
<1> SUFFICES ASSUME ~looped', NEW S \in SUBSET FolderIds', S # {} PROVE Rooted(S)'
  BY DEF RootedUnlessLooped, Rooted
<1> DEFINE g(f) == IF f.id = row THEN [f EXCEPT !.parent = parent] ELSE f
<1>1. folders \subseteq Folders
  BY DEF NumberInv, TypeInv, TypeOK, FolderTypeOK
<1>2. \A f \in folders : /\ g(f).id = f.id
                         /\ g(f).parent = IF f.id = row THEN parent ELSE f.parent
  BY <1>1 DEF Folders
<1>3. /\ folders' = {g(f) : f \in folders}
      /\ ~looped /\ (parent = None \/ ~Above(row, parent))
  BY DEF MoveFolder
<1> HIDE DEF g
<1>4. FolderIds' = FolderIds
  BY <1>2, <1>3 DEF FolderIds
<1>5. ASSUME NEW f \in folders, f.id \in S,
             IF f.id = row THEN parent \notin S
                           ELSE f.parent \notin S /\ f.parent \in FolderIds \cup {None}
      PROVE  Rooted(S)'
  BY <1>2, <1>3, <1>4, <1>5 DEF Rooted
<1>6. None \notin S
  BY <1>4, FolderNumbers
<1>7. CASE row \notin S
  <2>1. PICK f \in folders : /\ f.id \in S /\ f.parent \notin S
                            /\ f.parent \in FolderIds \cup {None}
    BY <1>3, <1>4 DEF RootedUnlessLooped
  <2> QED
    BY <1>5, <1>7, <2>1
<1>8. CASE row \in S /\ parent \notin S
  <2>1. PICK f \in folders : f.id = row
    BY DEF FolderIds
  <2> QED
    BY <1>5, <1>8, <2>1
<1>9. CASE row \in S /\ parent \in S
  <2>1. PICK T \in SUBSET FolderIds : parent \in T /\ Upward(T) /\ row \notin T
    BY <1>3, <1>6, <1>9 DEF Above
  <2>2. PICK f \in folders : /\ f.id \in S \cap T /\ f.parent \notin S \cap T
                            /\ f.parent \in FolderIds \cup {None}
    BY <1>3, <1>4, <1>9, <2>1 DEF RootedUnlessLooped
  <2>3. f.parent \notin S /\ f.id # row
    BY <1>6, <2>1, <2>2 DEF Upward
  <2> QED
    BY <1>5, <2>2, <2>3
<1> QED
  BY <1>7, <1>8, <1>9

LEMMA RootedStep ==
    ASSUME NumberInv, RootedUnlessLooped, [Next]_vars
    PROVE  RootedUnlessLooped'
<1>1. CASE UNCHANGED <<folders, looped>>
  BY <1>1 DEF RootedUnlessLooped, FolderIds
<1>2. ASSUME NEW q \in active, AdvanceFolder(q) PROVE RootedUnlessLooped'
  <2>1. looped' = looped
    BY <1>2 DEF AdvanceFolder, MatchFolder, StashFolder, DestroyFolder
  <2>2. CASE MatchFolder(q)
    BY <1>1, <2>2 DEF MatchFolder
  <2>3. CASE StashFolder(q)
    <3> DEFINE g(f) == IF f.id = q.row THEN [f EXCEPT !.stashed = TRUE] ELSE f
               R == {}
    <3>1. folders \subseteq Folders
      BY DEF NumberInv, TypeInv, TypeOK, FolderTypeOK
    <3>2. \A f \in folders : g(f).id = f.id /\ g(f).parent = f.parent
      BY <3>1 DEF Folders
    <3>3. folders' = {g(f) : f \in folders}
      BY <2>3 DEF StashFolder, PutAway
    <3> HIDE DEF g
    <3>4. FolderIds' = FolderIds \ R
      BY <3>2, <3>3 DEF FolderIds
    <3>5. \A f \in folders : f.id \notin R =>
             \E x \in folders' : /\ x.id = f.id
                                /\ x.parent = IF f.parent \in R THEN None ELSE f.parent
      BY <3>2, <3>3
    <3> HIDE DEF R
    <3> QED
      BY <2>1, <3>4, <3>5, RootedWithout
  <2>4. CASE DestroyFolder(q)
    <3> DEFINE R == {q.row}
    <3>1. folders' = WithoutFolders(R)
      BY <2>4 DEF DestroyFolder
    <3> HIDE DEF R
    <3> QED
      BY <2>1, <3>1, FoldersGo, RootedWithout
  <2> QED
    BY <1>2, <2>2, <2>3, <2>4 DEF AdvanceFolder
<1>3. ASSUME NEW w \in WorkspaceOrNull, NEW parent \in FolderIds \cup {None}, CreateFolder(w, parent)
      PROVE  RootedUnlessLooped'
  BY <1>3, FolderCreated, RootedCreated DEF NumberInv
<1>4. ASSUME NEW w \in Workspaces, DestroyWorkspace(w)
      PROVE  RootedUnlessLooped'
  <2> DEFINE R == {f.id : f \in {f \in folders : f.workspace = w}}
  <2>1. folders' = WithoutFolders(R) /\ looped' = looped
    BY <1>4 DEF DestroyWorkspace, DropFolders
  <2> HIDE DEF R
  <2> QED
    BY <2>1, FoldersGo, RootedWithout
<1>5. CASE UNCHANGED vars \/ Begins
  BY <1>1, <1>5 DEF vars, Begins
<1> QED
  BY <1>1, <1>2, <1>3, <1>4, <1>5, RootedMoved, NextCases DEF NumberInv

\* Every folder stays below a root, whatever folders go and however rows change
\* between a request's look and its write, unless updateFolder moves a folder
\* below itself.
THEOREM FoldersAreRooted == Spec => []RootedUnlessLooped
<1>1. Init => RootedUnlessLooped
  BY DEF Init, RootedUnlessLooped, FolderIds
<1>2. NumberInv /\ RootedUnlessLooped /\ [Next]_vars => RootedUnlessLooped'
  BY RootedStep
<1> QED
  BY <1>1, <1>2, Numbered, PTL DEF Spec

-----------------------------------------------------------------------------
(* What a step means to files                                              *)

\* A request for a file starts.  It is to make a file of its own or is about
\* one that is there, where it may meet others.
FileOpens(r) ==
    /\ r \in FileRequest /\ r.id = serial + 1 /\ r.file.id \in Nat
    /\ serial' = serial + 1 /\ active' = active \cup {r}
    /\ UNCHANGED <<files, sessions, stored, copies, leaked, born>>
    /\ \/ /\ r.phase \in {"putObject", "fetch"} /\ raced' = raced
          /\ r.file.id = serial + 1 /\ r.url = r.file.url /\ ~r.file.stashed
          /\ \/ r.file.original = None
             \/ \E f \in files :
                  /\ r.file.original = IF f.original = None THEN f.id ELSE f.original
                  /\ r.file.workspace = f.workspace
       \/ /\ r.phase \in {"checkUrl", "matchFile"}
          /\ raced' = raced \cup {i \in {r.file.id} : AtFile(r.file.id) # {}}
          /\ \E f \in files : f.id = r.file.id /\ (r.phase = "checkUrl" => r.file = f)

\* Files do not see the steps of posts, folders and memberships.
FilesUnseen ==
    /\ UNCHANGED <<files, sessions, stored, copies, raced, leaked, FileRequests>>
    /\ born \subseteq born'

\* What a request for a file becomes.
GoesOn(q, r) ==
    /\ r.id = q.id
    /\ \/ /\ q.phase = "fetch" /\ r.phase = "putObject" /\ r.url = q.url
          /\ r.file = [q.file EXCEPT !.key = q.id]
       \/ q.phase = "checkUrl" /\ r.phase = "findAccess" /\ r.file = q.file
       \/ /\ q.phase = "findAccess" /\ r.phase = "writeAccess"
          /\ r.file = q.file /\ r.url = q.url
          /\ FoundAccess(q) # {} => r.session \in FoundAccess(q)
       \/ /\ q.phase = "matchFile" /\ r.phase \in {"stashFile", "findCopies"}
          /\ r.file \in files /\ r.file.id = q.file.id
       \/ q.phase = "findCopies" /\ r.phase = "removeSessions" /\ r.file \in ToRemove(q)
       \/ /\ <<q.phase, r.phase>> \in
                {<<"putObject", "createFile">>, <<"createFile", "createAccess">>,
                 <<"writeAccess", "updateUrl">>, <<"removeSessions", "removeFile">>,
                 <<"removeFile", "removeObject">>}
          /\ r.file = q.file /\ r.url = q.url /\ r.session = q.session

LEMMA FilePhase ==
    ASSUME TypeInv, NEW q \in active, AdvanceFile(q)
    PROVE  /\ q.phase \in FilePhases /\ q \in FileRequest /\ q \in FileRequests
           /\ q.file \in Files /\ q.id \in Nat
<1>1. q.phase \in FilePhases
  BY DEF AdvanceFile, Fetch, PutObject, CreateFile, CreateAccess, CheckUrl, FindAccess,
         WriteAccess, UpdateUrl, MatchFile, StashFile, FindCopies, RemoveSessions,
         RemoveFile, RemoveObject, AbortFile, FilePhases
<1> QED
  BY <1>1, Kinds DEF TypeInv, FileRequest, FileRequests

\* It becomes one such request, or none, or the removals of several files.
Evolves(q) ==
    \E R : /\ active' = (active \ {q}) \cup R
           /\ \A r \in R : r \in FileRequest /\ GoesOn(q, r)
           /\ q.phase # "findCopies" => \A r, s \in R : r = s

LEMMA FileGoesOn ==
    ASSUME TypeInv, NEW q \in active, AdvanceFile(q)
    PROVE  Evolves(q)
<1>1. q \in FileRequest /\ q.file \in Files /\ q.id \in Nat
  BY FilePhase
<1>2. ASSUME NEW r \in FileRequest, GoesOn(q, r), active' = (active \ {q}) \cup {r}
      PROVE  Evolves(q)
  <2> DEFINE R == {r}
  <2>1. /\ active' = (active \ {q}) \cup R
        /\ \A x \in R : x \in FileRequest /\ GoesOn(q, x)
        /\ \A x, y \in R : x = y
    BY <1>2
  <2> HIDE DEF R
  <2> QED
    BY <2>1 DEF Evolves
<1>3. ASSUME Leave(q) PROVE Evolves(q)
  <2> DEFINE R == {}
  <2>1. /\ active' = (active \ {q}) \cup R
        /\ \A x \in R : x \in FileRequest /\ GoesOn(q, x)
        /\ \A x, y \in R : x = y
    BY <1>3 DEF Leave
  <2> HIDE DEF R
  <2> QED
    BY <2>1 DEF Evolves
<1>4. ASSUME NEW phase \in FilePhases, MoveTo(q, phase),
             <<q.phase, phase>> \in
                {<<"putObject", "createFile">>, <<"createFile", "createAccess">>,
                 <<"writeAccess", "updateUrl">>, <<"removeSessions", "removeFile">>,
                 <<"removeFile", "removeObject">>}
      PROVE  Evolves(q)
  <2> DEFINE r == [q EXCEPT !.phase = phase]
  <2>1. /\ r \in FileRequest /\ r.phase = phase /\ r.id = q.id /\ r.file = q.file
        /\ r.url = q.url /\ r.session = q.session
    BY <1>1 DEF FileRequest
  <2>2. active' = (active \ {q}) \cup {r}
    BY <1>4 DEF MoveTo, Resume
  <2> HIDE DEF r
  <2>3. GoesOn(q, r)
    BY <1>4, <2>1 DEF GoesOn
  <2> QED
    BY <1>2, <2>1, <2>2, <2>3
<1>5. CASE Fetch(q)
  <2> DEFINE r == [q EXCEPT !.phase = "putObject", !.file.key = q.id]
  <2>1. /\ r \in FileRequest /\ r.phase = "putObject" /\ r.id = q.id /\ r.url = q.url
        /\ r.file = [q.file EXCEPT !.key = q.id]
    BY <1>1 DEF FileRequest, Files, FilePhases
  <2>2. q.phase = "fetch" /\ (Leave(q) \/ active' = (active \ {q}) \cup {r})
    BY <1>5 DEF Fetch, Resume
  <2> HIDE DEF r
  <2>3. GoesOn(q, r)
    BY <2>1, <2>2 DEF GoesOn
  <2> QED
    BY <1>2, <1>3, <2>1, <2>2, <2>3
<1>6. CASE PutObject(q) \/ CreateFile(q) \/ WriteAccess(q) \/ RemoveSessions(q) \/ RemoveFile(q)
  <2> QED
    BY <1>3, <1>4, <1>6 DEF PutObject, CreateFile, WriteAccess, RemoveSessions, RemoveFile,
       AfterRemoved, FilePhases
<1>7. ASSUME NEW url \in SignedNow(q), q.phase = "checkUrl",
             Resume(q, [q EXCEPT !.phase = "findAccess", !.url = url])
      PROVE  Evolves(q)
  <2> DEFINE r == [q EXCEPT !.phase = "findAccess", !.url = url]
  <2>1. url \in Nat
    <3>1. \A x \in AtFile(q.file.id) : x.url \in Nat
      <4> SUFFICES ASSUME NEW x \in AtFile(q.file.id) PROVE x.url \in Nat
        OBVIOUS
      <4>1. x \in FileRequest
        BY Kinds DEF TypeInv, AtFile, FileRequests
      <4> QED
        BY <4>1 DEF FileRequest
    <3> QED
      BY <1>1, <3>1 DEF SignedNow
  <2>2. r \in FileRequest /\ r.phase = "findAccess" /\ r.id = q.id /\ r.file = q.file
    BY <1>1, <2>1 DEF FileRequest, FilePhases
  <2>3. active' = (active \ {q}) \cup {r}
    BY <1>7 DEF Resume
  <2> HIDE DEF r
  <2>4. GoesOn(q, r)
    BY <1>7, <2>2 DEF GoesOn
  <2> QED
    BY <1>2, <2>2, <2>3, <2>4
<1>8. CASE FindAccess(q)
  <2>1. PICK session \in IF FoundAccess(q) = {} THEN {None} ELSE FoundAccess(q) :
          Resume(q, [q EXCEPT !.phase = "writeAccess", !.session = session])
    BY <1>8 DEF FindAccess
  <2> DEFINE r == [q EXCEPT !.phase = "writeAccess", !.session = session]
  <2>2. session \in Nat /\ (FoundAccess(q) # {} => session \in FoundAccess(q))
    BY <2>1 DEF FoundAccess, SessionOf, TypeInv, TypeOK, MediaTypeOK, Sessions, None
  <2>3. /\ r \in FileRequest /\ r.phase = "writeAccess" /\ r.id = q.id
        /\ r.file = q.file /\ r.url = q.url /\ r.session = session
    BY <1>1, <2>2 DEF FileRequest, FilePhases
  <2>4. active' = (active \ {q}) \cup {r} /\ q.phase = "findAccess"
    BY <1>8, <2>1 DEF Resume, FindAccess
  <2> HIDE DEF r
  <2>5. GoesOn(q, r)
    BY <2>2, <2>3, <2>4 DEF GoesOn
  <2> QED
    BY <1>2, <2>3, <2>4, <2>5
<1>9. ASSUME NEW f \in files, f.id = q.file.id, NEW phase \in {"stashFile", "findCopies"},
             q.phase = "matchFile", Resume(q, [q EXCEPT !.file = f, !.phase = phase])
      PROVE  Evolves(q)
  <2> DEFINE r == [q EXCEPT !.file = f, !.phase = phase]
  <2>1. f \in Files
    BY DEF TypeInv, TypeOK, MediaTypeOK
  <2>2. r \in FileRequest /\ r.phase = phase /\ r.id = q.id /\ r.file = f
    BY <1>1, <2>1 DEF FileRequest, FilePhases
  <2>3. active' = (active \ {q}) \cup {r}
    BY <1>9 DEF Resume
  <2> HIDE DEF r
  <2>4. GoesOn(q, r)
    BY <1>9, <2>2 DEF GoesOn
  <2> QED
    BY <1>2, <2>2, <2>3, <2>4
<1>10. CASE FindCopies(q)
  <2> DEFINE f(x) == [q EXCEPT !.phase = "removeSessions", !.file = x]
             R == {f(x) : x \in ToRemove(q)}
  <2>1. \A x \in ToRemove(q) : x \in Files
    BY <1>1 DEF ToRemove, TypeInv, TypeOK, MediaTypeOK
  <2>2. \A x \in Files : /\ f(x) \in FileRequest /\ f(x).phase = "removeSessions"
                         /\ f(x).id = q.id /\ f(x).file = x
    BY <1>1 DEF FileRequest, FilePhases
  <2>3. active' = (active \ {q}) \cup R /\ q.phase = "findCopies"
    BY <1>10 DEF FindCopies
  <2>4. \A r \in R : \E x \in ToRemove(q) : r = f(x)
    OBVIOUS
  <2> HIDE DEF f, R
  <2>5. \A r \in R : r \in FileRequest /\ GoesOn(q, r)
    <3> SUFFICES ASSUME NEW r \in R PROVE r \in FileRequest /\ GoesOn(q, r)
      OBVIOUS
    <3>1. PICK x \in ToRemove(q) : r = f(x)
      BY <2>4
    <3>2. r \in FileRequest /\ r.phase = "removeSessions" /\ r.id = q.id /\ r.file = x
      BY <2>1, <2>2, <3>1
    <3> QED
      BY <2>3, <3>1, <3>2 DEF GoesOn
  <2> QED
    BY <2>3, <2>5 DEF Evolves
<1>11. CASE CreateAccess(q) \/ UpdateUrl(q) \/ StashFile(q) \/ RemoveObject(q) \/ AbortFile(q)
  <2> QED
    BY <1>3, <1>11 DEF CreateAccess, UpdateUrl, StashFile, RemoveObject, AbortFile
<1>12. CASE CheckUrl(q)
  BY <1>3, <1>7, <1>12 DEF CheckUrl
<1>13. CASE MatchFile(q)
  BY <1>3, <1>9, <1>13 DEF MatchFile
<1> QED
  BY <1>5, <1>6, <1>8, <1>10, <1>11, <1>12, <1>13 DEF AdvanceFile

LEMMA PostUnseen ==
    ASSUME TypeInv, BeginPost \/ BeginFolder, UNCHANGED fileVars
    PROVE  FilesUnseen
<1>1. ASSUME NEW r, r.phase \notin FilePhases, Start(r), born' = born
      PROVE  FilesUnseen
  BY <1>1 DEF Start, FilesUnseen, FileRequests, fileVars
<1>2. ASSUME NEW u \in Users, NEW w \in Workspaces, NEW author \in AuthorInputs,
             BeginCreatePost(u, w, author)
      PROVE  FilesUnseen
  <2> DEFINE r == [id |-> serial + 1, phase |-> FirstPhase(author), user |-> u, workspace |-> w,
                   row |-> serial + 1, author |-> author, write |-> "createPost"]
  <2>1. Start(r) /\ born' = born
    BY <1>2 DEF BeginCreatePost, observed
  <2>2. r.phase \notin FilePhases
    BY DEF FirstPhase, FilePhases
  <2> HIDE DEF r
  <2> QED
    BY <1>1, <2>1, <2>2
<1>3. ASSUME NEW u \in Users, NEW w \in Workspaces, NEW p \in posts,
             NEW author \in AuthorInputs, BeginUpdatePost(u, w, p.id, author)
      PROVE  FilesUnseen
  <2> DEFINE r == [id |-> serial + 1, phase |-> "findPost", user |-> u, workspace |-> w,
                   row |-> p.id, author |-> author, write |-> "updatePost"]
  <2>1. Start(r) /\ born' = born
    BY <1>3 DEF BeginUpdatePost, observed
  <2>2. r.phase \notin FilePhases
    BY DEF FilePhases
  <2> HIDE DEF r
  <2> QED
    BY <1>1, <2>1, <2>2
<1>4. ASSUME NEW u \in Users, NEW w \in Workspaces, NEW p \in posts, NEW write \in StashWrites,
             BeginStashPost(u, w, p.id, write)
      PROVE  FilesUnseen
  <2> DEFINE r == [id |-> serial + 1, phase |-> "matchPost", user |-> u, workspace |-> w,
                   row |-> p.id, author |-> NotGiven, write |-> write]
  <2>1. Start(r) /\ born' = born
    BY <1>4 DEF BeginStashPost, observed
  <2>2. r.phase \notin FilePhases
    BY DEF FilePhases
  <2> HIDE DEF r
  <2> QED
    BY <1>1, <2>1, <2>2
<1>5. ASSUME NEW row \in FolderIds, NEW fromStash \in BOOLEAN, BeginDeleteFolder(row, fromStash)
      PROVE  FilesUnseen
  <2> DEFINE r == [id |-> serial + 1, phase |-> "matchFolder", row |-> row,
                   fromStash |-> fromStash]
  <2>1. Start(r) /\ born' = born
    BY <1>5 DEF BeginDeleteFolder, observed
  <2>2. r.phase \notin FilePhases
    BY DEF FilePhases
  <2> HIDE DEF r
  <2> QED
    BY <1>1, <2>1, <2>2
<1> QED
  BY <1>2, <1>3, <1>4, <1>5 DEF BeginPost, BeginFolder

LEMMA ServedUnseen ==
    ASSUME TypeInv, NEW q \in active, q.phase \notin FilePhases, Served(q),
           UNCHANGED fileVars, born \subseteq born'
    PROVE  FilesUnseen
<1>1. PICK R \in SUBSET AnyRequest : active' = (active \ {q}) \cup R /\ \A r \in R : Moves(q, r)
  BY DEF Served
<1>2. \A r \in R : r.phase \notin FilePhases
  <2> SUFFICES ASSUME NEW r \in R PROVE r.phase \notin FilePhases
    OBVIOUS
  <2>1. ~FileMoves(q, r)
    BY DEF FileMoves, FileRequest
  <2>2. r \in PostRequest => r.phase \in PostPhases
    BY DEF PostRequest
  <2>3. r \in FolderRequest => r.phase \in FolderPhases
    BY DEF FolderRequest
  <2>4. r \in PostRequest \/ r \in FolderRequest
    BY <1>1, <2>1 DEF Moves, PostMoves, FolderMoves
  <2> QED
    BY <2>2, <2>3, <2>4 DEF PostPhases, FolderPhases, FilePhases
<1> QED
  BY <1>1, <1>2 DEF FilesUnseen, FileRequests, fileVars

\* A request for a file starts as its handler makes it.
LEMMA FileStarts ==
    ASSUME TypeInv, BeginFile
    PROVE  \E r : FileOpens(r)
<1>1. /\ serial \in Nat /\ files \subseteq Files
      /\ \A f \in files : f.id \in Nat /\ f.url \in Nat /\ f.original \in Nat
  BY DEF TypeInv, TypeOK, RequestsTypeOK, MediaTypeOK, Files
<1>2. ASSUME NEW phase \in FilePhases, NEW f \in Files
      PROVE  LET r == [id |-> serial + 1, phase |-> phase, file |-> f, url |-> f.url,
                       session |-> None]
             IN  /\ r \in FileRequest /\ r.id = serial + 1 /\ r.phase = phase
                 /\ r.file = f /\ r.url = f.url
  BY <1>1 DEF FileRequest, Files, None
<1>3. ASSUME NEW w \in WorkspaceOrNull, NEW signed \in BOOLEAN, BeginUpload(w, signed)
      PROVE  \E r : FileOpens(r)
  <2> DEFINE f == [id |-> serial + 1, key |-> serial + 1, original |-> None, workspace |-> w,
                   signed |-> signed, url |-> serial + 1, stashed |-> FALSE]
             r == [id |-> serial + 1, phase |-> "putObject", file |-> f, url |-> f.url,
                   session |-> None]
  <2>1. f \in Files /\ f.id = serial + 1 /\ f.original = None /\ ~f.stashed
    BY <1>1 DEF Files, None
  <2>2. Start(r) /\ UNCHANGED <<files, sessions, stored, copies, leaked, born, raced>>
    BY <1>3 DEF BeginUpload, StartAt, observed, fileVars
  <2> HIDE DEF f
  <2>3. /\ r \in FileRequest /\ r.id = serial + 1 /\ r.phase = "putObject"
        /\ r.file = f /\ r.url = f.url
    BY <1>2, <2>1 DEF FilePhases
  <2> HIDE DEF r
  <2>4. FileOpens(r)
    BY <1>1, <2>1, <2>2, <2>3 DEF FileOpens, Start, Count
  <2> QED
    BY <2>4
<1>4. ASSUME NEW x \in files, BeginResize(x)
      PROVE  \E r : FileOpens(r)
  <2> DEFINE original == IF x.original = None THEN x.id ELSE x.original
             f == [x EXCEPT !.id = serial + 1, !.url = serial + 1, !.stashed = FALSE,
                            !.original = original]
             r == [id |-> serial + 1, phase |-> "fetch", file |-> f, url |-> f.url,
                   session |-> None]
  <2>1. original \in Nat
    BY <1>1
  <2>2. /\ f \in Files /\ f.id = serial + 1 /\ f.original = original /\ ~f.stashed
        /\ f.workspace = x.workspace
    <3> HIDE DEF original
    <3>1. x \in Files /\ serial + 1 \in Nat
      BY <1>1
    <3>2. /\ f \in Files /\ f.id = serial + 1
      BY <2>1, <3>1, CopiedFile, Zenon
    <3>3. f.original = original /\ ~f.stashed /\ f.workspace = x.workspace
      BY <3>1 DEF Files
    <3> QED
      BY <3>2, <3>3
  <2>3. Start(r) /\ UNCHANGED <<files, sessions, stored, copies, leaked, born, raced>>
    BY <1>4 DEF BeginResize, StartAt, observed, fileVars
  <2> HIDE DEF f
  <2>4. /\ r \in FileRequest /\ r.id = serial + 1 /\ r.phase = "fetch"
        /\ r.file = f /\ r.url = f.url
    BY <1>2, <2>2 DEF FilePhases
  <2> HIDE DEF r
  <2>5. FileOpens(r)
    BY <1>1, <2>2, <2>3, <2>4 DEF FileOpens, Start, Count
  <2> QED
    BY <2>5
<1>5. ASSUME NEW x \in files, BeginReadUrl(x)
      PROVE  \E r : FileOpens(r)
  <2> DEFINE r == [id |-> serial + 1, phase |-> "checkUrl", file |-> x, url |-> x.url,
                   session |-> None]
  <2>1. /\ Start(r) /\ UNCHANGED <<files, sessions, stored, copies, leaked, born>>
        /\ raced' = raced \cup {i \in {x.id} : AtFile(x.id) # {}}
    BY <1>5 DEF BeginReadUrl, StartAt, observed, Meet
  <2>2. /\ r \in FileRequest /\ r.id = serial + 1 /\ r.phase = "checkUrl"
        /\ r.file = x /\ r.url = x.url
    BY <1>1, <1>2 DEF FilePhases
  <2> HIDE DEF r
  <2>3. FileOpens(r)
    BY <1>1, <2>1, <2>2 DEF FileOpens, Start, Count
  <2> QED
    BY <2>3
<1>6. ASSUME NEW x \in files, NEW fromStash \in BOOLEAN, BeginDeleteFile(x, fromStash)
      PROVE  \E r : FileOpens(r)
  <2> DEFINE f == [x EXCEPT !.stashed = fromStash]
             r == [id |-> serial + 1, phase |-> "matchFile", file |-> f, url |-> f.url,
                   session |-> None]
  <2>1. f \in Files /\ f.id = x.id
    BY <1>1 DEF Files
  <2>2. /\ Start(r) /\ UNCHANGED <<files, sessions, stored, copies, leaked, born>>
        /\ raced' = raced \cup {i \in {x.id} : AtFile(x.id) # {}}
    BY <1>6 DEF BeginDeleteFile, StartAt, observed, Meet
  <2> HIDE DEF f
  <2>3. /\ r \in FileRequest /\ r.id = serial + 1 /\ r.phase = "matchFile"
        /\ r.file = f /\ r.url = f.url
    BY <1>2, <2>1 DEF FilePhases
  <2> HIDE DEF r
  <2>4. FileOpens(r)
    BY <1>1, <2>1, <2>2, <2>3 DEF FileOpens, Start, Count
  <2> QED
    BY <2>4
<1> QED
  BY <1>3, <1>4, <1>5, <1>6 DEF BeginFile

\* The steps there are, as files see them.
LEMMA FileCases ==
    ASSUME TypeInv, [Next]_vars
    PROVE  \/ FilesUnseen
           \/ \E r : FileOpens(r)
           \/ \E q \in active : AdvanceFile(q)
           \/ \E w \in Workspaces : DestroyWorkspace(w)
<1>1. ASSUME UNCHANGED <<active, fileVars>>, born \subseteq born'
      PROVE  FilesUnseen
  BY <1>1 DEF FilesUnseen, FileRequests, fileVars
<1>2. ASSUME NEW q \in active, AdvancePost(q), UNCHANGED <<folders, looped, fileVars>>
      PROVE  FilesUnseen
  <2>1. q.phase \notin FilePhases
    BY <1>2 DEF AdvancePost, CheckAuthor, CreatePost, FindPost, CheckCaller, UpdatePost,
       MatchPost, StashPost, DestroyPost, RestorePost, FilePhases
  <2>2. born \subseteq born'
    BY <1>2, PostsChange DEF PostChange
  <2> QED
    BY <1>2, <2>1, <2>2, PostServed, ServedUnseen
<1>3. ASSUME NEW q \in active, AdvanceFolder(q), UNCHANGED <<posts, fileVars>>
      PROVE  FilesUnseen
  <2>1. q.phase \notin FilePhases
    BY <1>3 DEF AdvanceFolder, MatchFolder, StashFolder, DestroyFolder, FilePhases
  <2>2. born \subseteq born'
    BY <1>3, FoldersChange DEF FolderChange
  <2> QED
    BY <1>3, <2>1, <2>2, FolderServed, ServedUnseen
<1>4. ASSUME NEW q \in active, Abort(q), UNCHANGED <<posts, folders, looped, fileVars>>
      PROVE  FilesUnseen
  <2>1. q.phase \notin FilePhases /\ born' = born /\ Leave(q) /\ serial' = serial
    BY <1>4 DEF Abort, observed
  <2> QED
    BY <1>4, <2>1, ServedLeaves, ServedUnseen
<1>5. CASE PostNext /\ UNCHANGED <<folders, looped, fileVars>>
  BY <1>2, <1>5, PostUnseen DEF PostNext, BeginPost
<1>6. CASE FolderNext /\ UNCHANGED <<posts, fileVars>>
  <2>1. ASSUME NEW w \in WorkspaceOrNull, NEW parent \in FolderIds \cup {None},
               CreateFolder(w, parent)
        PROVE  UNCHANGED active /\ born \subseteq born'
    BY <2>1 DEF CreateFolder
  <2>2. ASSUME NEW row \in FolderIds, NEW parent \in FolderIds \cup {None},
               MoveFolder(row, parent)
        PROVE  UNCHANGED active /\ born \subseteq born'
    BY <2>2 DEF MoveFolder, observed
  <2> QED
    BY <1>1, <1>3, <1>6, <2>1, <2>2, PostUnseen DEF FolderNext, BeginFolder
<1>7. CASE MediaNext
  BY <1>7, FileStarts DEF MediaNext, BeginFile
<1>8. CASE \E u \in Users, w \in Workspaces :
              ToggleMember(u, w) /\ UNCHANGED <<posts, folders, looped, fileVars>>
  BY <1>1, <1>8 DEF ToggleMember, observed
<1>9. CASE UNCHANGED vars
  BY <1>1, <1>9 DEF vars
<1> QED
  BY <1>4, <1>5, <1>6, <1>7, <1>8, <1>9 DEF Next

\* What becomes of the rows when those in R go.
OutOf(f, x, R) ==
    /\ x.id = f.id /\ x.workspace = f.workspace /\ x.signed = f.signed
    /\ x.url = f.url /\ x.stashed = f.stashed
    /\ x.original = IF f.original \in R THEN None ELSE f.original

LEMMA FilesWithout ==
    ASSUME files \subseteq Files, NEW R, files' = WithoutFiles(R)
    PROVE  /\ \A x \in files' : x.id \notin R /\ \E f \in files : OutOf(f, x, R)
           /\ \A f \in files : f.id \in R \/ \E x \in files' : OutOf(f, x, R)
           /\ Distinct(files) => Distinct(files')
<1> DEFINE g(f) == [f EXCEPT !.original = None]
           h(f) == IF f.original \in R THEN g(f) ELSE f
<1>1. \A f \in files : OutOf(f, h(f), R)
  BY DEF Files, OutOf
<1>2. files' = {h(f) : f \in {f \in files : f.id \notin R}}
  BY DEF WithoutFiles
<1> HIDE DEF h
<1>3. \A x \in files' : \E f \in files : f.id \notin R /\ x = h(f)
  BY <1>2
<1>4. \A f \in files : f.id \notin R => h(f) \in files'
  BY <1>2
<1> QED
  BY <1>1, <1>3, <1>4 DEF OutOf, Distinct

\* What becomes of the row f with a step of q.
FileAfter(q, f, x) ==
    /\ x.id = f.id /\ x.workspace = f.workspace /\ x.signed = f.signed
    /\ x.url = IF UpdateUrl(q) /\ f.id = q.file.id THEN q.url ELSE f.url
    /\ x.stashed <=> f.stashed \/ (StashFile(q) /\ f.id = q.file.id)
    /\ \/ x.original = f.original
       \/ x.original = None /\ q.phase = "removeFile" /\ f.original = q.file.id

RowCreated(q) ==
    /\ q.phase = "createFile" /\ FileInsertable(q.file)
    /\ files' = files \cup {q.file}
    /\ born' = born \cup {q.file.id}
    /\ copies' = IF q.file.original = None THEN copies ELSE copies \cup {q.file.id}
    /\ raced' = raced \cup {i \in {q.file.id} : AtFile(q.file.original) # {}}

RowDeleted(q) ==
    /\ q.phase = "removeFile" /\ born' = born
    /\ \A x \in files' : x.id # q.file.id /\ x.original # q.file.id

FilesMove(q) ==
    /\ \/ RowCreated(q)
       \/ /\ \A x \in files' : \E f \in files : FileAfter(q, f, x)
          /\ \A f \in files : \/ \E x \in files' : FileAfter(q, f, x)
                              \/ RowDeleted(q) /\ f.id = q.file.id
          /\ born' = born /\ copies' = copies
          /\ Distinct(files) => Distinct(files')
    /\ raced \subseteq raced'

LEMMA FilesMoved ==
    ASSUME TypeInv, NEW q \in active, AdvanceFile(q), q.file.id # None
    PROVE  FilesMove(q)
<1>1. files \subseteq Files /\ q.url \in Nat
  BY FilePhase DEF TypeInv, TypeOK, MediaTypeOK, FileRequest
<1>2. ASSUME UNCHANGED <<files, born, copies>>, raced \subseteq raced',
             ~UpdateUrl(q), ~StashFile(q)
      PROVE  FilesMove(q)
  <2>1. \A f \in files : FileAfter(q, f, f)
    BY <1>2 DEF FileAfter
  <2> QED
    BY <1>2, <2>1 DEF FilesMove
<1>3. CASE CreateFile(q)
  BY <1>2, <1>3 DEF CreateFile, FilesMove, RowCreated, UpdateUrl, StashFile
<1>4. CASE UpdateUrl(q)
  <2> DEFINE g(f) == [f EXCEPT !.url = q.url]
             h(f) == IF f.id = q.file.id THEN g(f) ELSE f
  <2>0. ~StashFile(q)
    BY <1>4 DEF UpdateUrl, StashFile
  <2>1. q.phase = "updateUrl" /\ UNCHANGED <<born, copies, raced>>
    BY <1>4 DEF UpdateUrl, observed, fileGhosts
  <2>2. \A f \in files : FileAfter(q, f, h(f))
    BY <1>1, <1>4, <2>1, <2>0 DEF Files, FileAfter
  <2>3. files' = {h(f) : f \in files}
    BY <1>4 DEF UpdateUrl, Renewed
  <2> HIDE DEF h
  <2>4. /\ \A x \in files' : \E f \in files : x = h(f)
        /\ \A f \in files : h(f) \in files'
    BY <2>3
  <2>5. Distinct(files) => Distinct(files')
    BY <2>2, <2>4 DEF Distinct, FileAfter
  <2> QED
    BY <2>1, <2>2, <2>4, <2>5 DEF FilesMove
<1>5. CASE StashFile(q)
  <2> DEFINE g(f) == [f EXCEPT !.stashed = TRUE]
             h(f) == IF f.id = q.file.id THEN g(f) ELSE f
  <2>0. ~UpdateUrl(q)
    BY <1>5 DEF UpdateUrl, StashFile
  <2>1. q.phase = "stashFile" /\ UNCHANGED <<born, copies, raced>>
    BY <1>5 DEF StashFile, observed, fileGhosts
  <2>2. \A f \in files : FileAfter(q, f, h(f))
    BY <1>1, <1>5, <2>1, <2>0 DEF Files, FileAfter
  <2>3. files' = {h(f) : f \in files}
    BY <1>5 DEF StashFile
  <2> HIDE DEF h
  <2>4. /\ \A x \in files' : \E f \in files : x = h(f)
        /\ \A f \in files : h(f) \in files'
    BY <2>3
  <2>5. Distinct(files) => Distinct(files')
    BY <2>2, <2>4 DEF Distinct, FileAfter
  <2> QED
    BY <2>1, <2>2, <2>4, <2>5 DEF FilesMove
<1>6. CASE RemoveFile(q)
  <2>1. q.phase = "removeFile" /\ UNCHANGED <<born, copies, raced>>
    BY <1>6 DEF RemoveFile, observed, fileGhosts
  <2>2. ~UpdateUrl(q) /\ ~StashFile(q)
    BY <2>1 DEF UpdateUrl, StashFile
  <2>3. CASE files' = files
    BY <1>2, <2>1, <2>2, <2>3
  <2>4. CASE files' = WithoutFiles({q.file.id})
    <3> DEFINE R == {q.file.id}
    <3>1. /\ \A x \in files' : x.id \notin R /\ \E f \in files : OutOf(f, x, R)
          /\ \A f \in files : f.id \in R \/ \E x \in files' : OutOf(f, x, R)
          /\ Distinct(files) => Distinct(files')
      BY <1>1, <2>4, FilesWithout
    <3>2. \A f \in files : \A x : OutOf(f, x, R) => FileAfter(q, f, x) /\ x.original # q.file.id
      BY <2>1, <2>2 DEF OutOf, FileAfter
    <3>3. RowDeleted(q)
      BY <2>1, <3>1, <3>2 DEF RowDeleted
    <3> QED
      BY <2>1, <3>1, <3>2, <3>3 DEF FilesMove
  <2> QED
    BY <1>6, <2>3, <2>4 DEF RemoveFile
<1>7. CASE FindCopies(q)
  BY <1>2, <1>7 DEF FindCopies, observed, UpdateUrl, StashFile
<1>8. CASE AbortFile(q) /\ ~UpdateUrl(q) /\ ~StashFile(q)
  BY <1>2, <1>8 DEF AbortFile, observed
<1>9. CASE \/ Fetch(q) \/ PutObject(q) \/ CreateAccess(q) \/ CheckUrl(q) \/ FindAccess(q)
           \/ WriteAccess(q) \/ MatchFile(q) \/ RemoveSessions(q) \/ RemoveObject(q)
  <2>1. UNCHANGED <<files, born, copies, raced>>
    BY <1>9 DEF Fetch, PutObject, CreateAccess, CheckUrl, FindAccess, WriteAccess, MatchFile,
       RemoveSessions, RemoveObject, observed, fileVars, fileGhosts
  <2>2. ~UpdateUrl(q) /\ ~StashFile(q)
    BY <1>9 DEF Fetch, PutObject, CreateAccess, CheckUrl, FindAccess, WriteAccess, MatchFile,
       RemoveSessions, RemoveObject, UpdateUrl, StashFile
  <2> QED
    BY <1>2, <2>1, <2>2
<1> QED
  BY <1>3, <1>4, <1>5, <1>6, <1>7, <1>8, <1>9 DEF AdvanceFile

\* Requests are about files with a number.
LEMMA FileNumbers ==
    ASSUME NumberInv
    PROVE  /\ serial \in Nat /\ born \subseteq 1..serial /\ files \subseteq Files
           /\ \A f \in files : f.id \in born /\ f.id # None
           /\ \A q \in FileRequests :
                /\ q.file.id # None
                /\ q.phase \in NewFile => q.file.id = q.id /\ q.file.id \notin born
                /\ q.phase \notin NewFile => q.file.id \in born
                /\ q.id \in 1..serial /\ q.file.id \in 1..serial
<1>1. /\ serial \in Nat /\ born \subseteq 1..serial /\ files \subseteq Files
      /\ \A f \in files : f.id \in born
  BY DEF NumberInv, RowIds, TypeInv, TypeOK, RequestsTypeOK, MediaTypeOK
<1>2. ASSUME NEW q \in FileRequests
      PROVE  /\ q.phase \in NewFile => q.file.id = q.id /\ q.file.id \notin born
             /\ q.phase \notin NewFile => q.file.id \in born
             /\ q.id \in 1..serial
  BY DEF FileRequests, NumberInv, RequestIds, RowIds, RowNumber
<1>3. \A f \in files : f.id # None
  BY <1>1 DEF None
<1>4. ASSUME NEW q \in FileRequests
      PROVE  q.file.id \in 1..serial /\ q.file.id # None
  <2>1. q.id \in 1..serial /\ (q.file.id = q.id \/ q.file.id \in born)
    BY <1>2, <1>4
  <2>2. q.file.id \in 1..serial
    BY <1>1, <2>1
  <2> QED
    BY <1>1, <2>2 DEF None
<1> QED
  BY <1>1, <1>2, <1>3, <1>4

-----------------------------------------------------------------------------
(* Originals and copies                                                    *)

\* The original of a copy is in the workspace of the copy, and is no copy.
IsOriginalOf(o, f) == o.workspace = f.workspace /\ o.original = None

\* The original a row names is there, and a new row's is if its number is still
\* there: resizeFile names the original of what it copies.
OriginInv ==
    /\ Distinct(files) /\ copies \subseteq born
    /\ \A f \in files : f.original # None =>
         /\ f.original # f.id /\ (\E o \in files : o.id = f.original)
         /\ \A o \in files : o.id = f.original => IsOriginalOf(o, f)
    /\ \A q \in FileRequests : q.phase \in NewFile =>
         /\ ~q.file.stashed /\ q.url = q.file.url
         /\ q.file.original \in born \cup {None}
         /\ \A o \in files : o.id = q.file.original => IsOriginalOf(o, q.file)

\* Requests at the same file have met there.
MetAtFile == \A p, q \in FileRequests : p.file.id = q.file.id => p = q \/ p.file.id \in raced

BeingRemoved == {"removeSessions", "removeFile"}
Leaving(id) == \E q \in AtFile(id) : q.phase \in BeingRemoved

\* The copies of a file that is being removed are too, and one whose sessions
\* were removed has none, unless others came to the file.
RemovalInv ==
    /\ \A q \in FileRequests, f \in files :
          q.phase \in BeingRemoved /\ f.id \in copies /\ f.original = q.file.id =>
             f.id \in raced \/ Leaving(f.id)
    /\ \A q \in FileRequests : q.phase = "removeFile" =>
         q.file.id \in raced \/ \A s \in sessions : s.file # q.file.id

SoleSession(id, url) ==
    \E s \in sessions : /\ s.file = id /\ s.url = url
                        /\ \A t \in sessions : t.file = id => t = s

\* What holds of a signed file while one request is at it: the renewal replaces
\* the session before the URL of the row.
AloneAt(f, q) ==
    /\ q.phase = "createAccess" => q.url = f.url /\ \A s \in sessions : s.file # f.id
    /\ q.phase \in {"checkUrl", "findAccess", "writeAccess"} =>
         q.file.url = f.url /\ SoleSession(f.id, f.url)
    /\ q.phase = "writeAccess" =>
         q.session # None /\ \E s \in sessions : s.file = f.id /\ s.id = q.session
    /\ q.phase = "updateUrl" => SoleSession(f.id, q.url)
    /\ q.phase \in {"matchFile", "stashFile", "findCopies"} => SoleSession(f.id, f.url)

TurnInv ==
    \A f \in files : f.signed /\ f.id \notin raced =>
        /\ AtFile(f.id) = {} => SoleSession(f.id, f.url)
        /\ \A q \in AtFile(f.id) : AloneAt(f, q)

\* The requests for files there are once q went on.
LEMMA FileRequestsNext ==
    ASSUME NEW q, NEW R, active' = (active \ {q}) \cup R,
           \A r \in R : r \in FileRequest
    PROVE  /\ \A r \in FileRequests' : (r \in FileRequests /\ r # q) \/ r \in R
           /\ \A r \in FileRequests : r # q => r \in FileRequests'
           /\ \A r \in R : r \in FileRequests'
  BY DEF FileRequests, FileRequest

LEMMA OriginStep ==
    ASSUME NumberInv, OriginInv, [Next]_vars
    PROVE  OriginInv'
<1>1. /\ TypeInv
      /\ \A f \in files : f.id \in born /\ f.id # None
      /\ \A q \in FileRequests : /\ q.file.id # None
                                 /\ q.phase \in NewFile => q.file.id \notin born
  BY FileNumbers DEF NumberInv
<1>2. CASE FilesUnseen
  BY <1>2 DEF OriginInv, FilesUnseen, Distinct
<1>3. ASSUME NEW r, FileOpens(r) PROVE OriginInv'
  <2>1. /\ files' = files /\ born' = born /\ active' = active \cup {r}
    BY <1>3 DEF FileOpens
  <2>0. copies' = copies
    BY <1>3 DEF FileOpens
  <2>2. r.phase \in NewFile =>
          /\ ~r.file.stashed /\ r.url = r.file.url
          /\ r.file.original \in born \cup {None}
          /\ \A o \in files : o.id = r.file.original => IsOriginalOf(o, r.file)
    <3>1. SUFFICES ASSUME r.phase \in NewFile
                   PROVE  /\ ~r.file.stashed /\ r.url = r.file.url
                          /\ r.file.original \in born \cup {None}
                          /\ \A o \in files : o.id = r.file.original => IsOriginalOf(o, r.file)
      OBVIOUS
    <3>2. /\ r.url = r.file.url /\ ~r.file.stashed
          /\ \/ r.file.original = None
             \/ \E f \in files :
                  /\ r.file.original = IF f.original = None THEN f.id ELSE f.original
                  /\ r.file.workspace = f.workspace
      BY <1>3, <3>1 DEF FileOpens, NewFile
    <3>3. CASE r.file.original = None
      BY <1>1, <3>2, <3>3
    <3>4. ASSUME NEW f \in files, r.file.workspace = f.workspace,
                 r.file.original = IF f.original = None THEN f.id ELSE f.original
          PROVE  /\ r.file.original \in born
                 /\ \A o \in files : o.id = r.file.original => IsOriginalOf(o, r.file)
      <4>1. CASE f.original = None
        <5>1. \A o \in files : o.id = f.id => o = f
          BY DEF OriginInv, Distinct
        <5> QED
          BY <1>1, <3>4, <4>1, <5>1 DEF IsOriginalOf
      <4>2. CASE f.original # None
        <5>1. /\ \E o \in files : o.id = f.original
              /\ \A o \in files : o.id = f.original => IsOriginalOf(o, f)
          BY <4>2 DEF OriginInv
        <5> QED
          BY <1>1, <3>4, <4>2, <5>1 DEF IsOriginalOf
      <4> QED
        BY <4>1, <4>2
    <3> QED
      BY <3>2, <3>3, <3>4
  <2>3. \A q \in FileRequests' : q \in FileRequests \/ q = r
    BY <2>1 DEF FileRequests
  <2> QED
    BY <2>0, <2>1, <2>2, <2>3 DEF OriginInv, Distinct
<1>4. ASSUME NEW q \in active, AdvanceFile(q) PROVE OriginInv'
  <2>1. q \in FileRequests /\ q.file.id # None
    BY <1>1, <1>4, FilePhase
  <2>2. FilesMove(q)
    BY <1>1, <1>4, <2>1, FilesMoved
  <2>3. PICK R : /\ active' = (active \ {q}) \cup R
                 /\ \A r \in R : r \in FileRequest /\ GoesOn(q, r)
    BY <1>1, <1>4, FileGoesOn DEF Evolves
  <2>4. \A r \in FileRequests' : (r \in FileRequests /\ r # q) \/ r \in R
    BY <2>3, FileRequestsNext
  <2>5. ASSUME NEW r \in R, r.phase \in NewFile
        PROVE  /\ q.phase \in NewFile /\ r.url = q.url
               /\ r.file.original = q.file.original /\ r.file.workspace = q.file.workspace
               /\ r.file.stashed = q.file.stashed /\ r.file.url = q.file.url
    <3>1. /\ q.phase \in NewFile /\ r.url = q.url
          /\ r.file = q.file \/ r.file = [q.file EXCEPT !.key = q.id]
      BY <2>3, <2>5 DEF GoesOn, NewFile
    <3>2. q.file \in Files
      BY <1>1, <1>4, FilePhase
    <3> QED
      BY <3>1, <3>2 DEF Files
  <2>6. ASSUME NEW r \in FileRequests', r.phase \in NewFile
        PROVE  /\ ~r.file.stashed /\ r.url = r.file.url
               /\ r.file.original \in born \cup {None}
               /\ \A o \in files : o.id = r.file.original => IsOriginalOf(o, r.file)
    BY <2>1, <2>4, <2>5, <2>6 DEF OriginInv, IsOriginalOf
  <2>7. CASE RowCreated(q)
    <3>1. /\ q.phase = "createFile" /\ files' = files \cup {q.file} /\ born \subseteq born'
          /\ q.file.original = None \/ \E o \in files : o.id = q.file.original
      BY <2>7 DEF RowCreated, FileInsertable, FileIds
    <3>2. /\ q.file.id \notin born /\ q.file.original \in born \cup {None}
          /\ \A o \in files : o.id = q.file.original => IsOriginalOf(o, q.file)
      BY <1>1, <2>1, <3>1 DEF NewFile, OriginInv
    <3>3. Distinct(files') /\ copies' \subseteq born'
      <4>1. Distinct(files')
        BY <1>1, <3>1, <3>2 DEF OriginInv, Distinct
      <4>2. copies' \subseteq born'
        BY <2>7 DEF OriginInv, RowCreated
      <4> QED
        BY <4>1, <4>2
    <3>4. ASSUME NEW f \in files', f.original # None
          PROVE  /\ f.original # f.id /\ (\E o \in files' : o.id = f.original)
                 /\ \A o \in files' : o.id = f.original => IsOriginalOf(o, f)
      <4>1. CASE f = q.file
        BY <3>1, <3>2, <3>4, <4>1
      <4>2. CASE f \in files
        <5>1. /\ f.original # f.id /\ (\E o \in files : o.id = f.original)
              /\ \A o \in files : o.id = f.original => IsOriginalOf(o, f)
          BY <3>4, <4>2 DEF OriginInv
        <5>2. f.original # q.file.id
          BY <1>1, <3>2, <5>1
        <5> QED
          BY <3>1, <5>1, <5>2
      <4> QED
        BY <3>1, <4>1, <4>2
    <3>5. ASSUME NEW r \in FileRequests', r.phase \in NewFile
          PROVE  /\ r.file.original \in born' \cup {None}
                 /\ \A o \in files' : o.id = r.file.original => IsOriginalOf(o, r.file)
      <4>1. q.file.id # r.file.original
        BY <2>1, <2>6, <3>2, <3>5
      <4> QED
        BY <2>6, <3>1, <3>5, <4>1
    <3> QED
      BY <2>6, <3>3, <3>4, <3>5 DEF OriginInv
  <2>8. CASE ~RowCreated(q)
    <3>1. /\ \A x \in files' : \E f \in files : FileAfter(q, f, x)
          /\ \A f \in files : \/ \E x \in files' : FileAfter(q, f, x)
                              \/ RowDeleted(q) /\ f.id = q.file.id
          /\ born' = born /\ Distinct(files') /\ copies' \subseteq born'
      BY <2>2, <2>8 DEF FilesMove, OriginInv
    <3>2. ASSUME NEW x \in files', x.original # None
          PROVE  /\ x.original # x.id /\ (\E o \in files' : o.id = x.original)
                 /\ \A o \in files' : o.id = x.original => IsOriginalOf(o, x)
      <4>1. PICK f \in files : FileAfter(q, f, x)
        BY <3>1
      <4>2. x.original = f.original /\ x.id = f.id /\ x.workspace = f.workspace
        BY <3>2, <4>1 DEF FileAfter
      <4>3. /\ f.original # f.id /\ (\E o \in files : o.id = f.original)
            /\ \A o \in files : o.id = f.original => IsOriginalOf(o, f)
        BY <3>2, <4>2 DEF OriginInv
      <4>4. \E o \in files' : o.id = x.original
        <5>1. PICK o \in files : o.id = f.original
          BY <4>3
        <5>2. ~(RowDeleted(q) /\ o.id = q.file.id)
          BY <4>2, <5>1 DEF RowDeleted
        <5> QED
          BY <3>1, <4>2, <5>1, <5>2 DEF FileAfter
      <4>5. ASSUME NEW o \in files', o.id = x.original
            PROVE  IsOriginalOf(o, x)
        BY <3>1, <4>2, <4>3, <4>5 DEF FileAfter, IsOriginalOf
      <4> QED
        BY <4>2, <4>3, <4>4, <4>5
    <3>3. ASSUME NEW r \in FileRequests', r.phase \in NewFile, NEW o \in files',
                 o.id = r.file.original
          PROVE  IsOriginalOf(o, r.file)
      BY <2>6, <3>1, <3>3 DEF FileAfter, IsOriginalOf
    <3> QED
      BY <2>6, <3>1, <3>2, <3>3 DEF OriginInv
  <2> QED
    BY <2>7, <2>8
<1>5. ASSUME NEW w \in Workspaces, DestroyWorkspace(w) PROVE OriginInv'
  <2> DEFINE R == {f.id : f \in {f \in files : f.workspace = w}}
  <2>1. /\ files' = WithoutFiles(R) /\ born' = born /\ active' = active
        /\ copies' = copies /\ files \subseteq Files
    BY <1>1, <1>5 DEF DestroyWorkspace, DropWorkspace, DropFiles, observed, TypeInv, TypeOK,
       MediaTypeOK
  <2> HIDE DEF R
  <2>2. /\ \A x \in files' : x.id \notin R /\ \E f \in files : OutOf(f, x, R)
        /\ \A f \in files : f.id \in R \/ \E x \in files' : OutOf(f, x, R)
        /\ Distinct(files')
    BY <2>1, FilesWithout DEF OriginInv
  <2>3. ASSUME NEW x \in files', x.original # None
        PROVE  /\ x.original # x.id /\ (\E o \in files' : o.id = x.original)
               /\ \A o \in files' : o.id = x.original => IsOriginalOf(o, x)
    <3>1. PICK f \in files : OutOf(f, x, R)
      BY <2>2
    <3>2. /\ x.original = f.original /\ x.id = f.id /\ x.workspace = f.workspace
          /\ f.original \notin R
      BY <2>3, <3>1 DEF OutOf
    <3>3. /\ f.original # f.id /\ (\E o \in files : o.id = f.original)
          /\ \A o \in files : o.id = f.original => IsOriginalOf(o, f)
      BY <2>3, <3>2 DEF OriginInv
    <3>4. \E o \in files' : o.id = x.original
      BY <2>2, <3>2, <3>3 DEF OutOf
    <3>5. ASSUME NEW o \in files', o.id = x.original
          PROVE  IsOriginalOf(o, x)
      <4>1. PICK g \in files : OutOf(g, o, R)
        BY <2>2
      <4>2. IsOriginalOf(g, f)
        BY <3>2, <3>3, <3>5, <4>1 DEF OutOf
      <4> QED
        BY <3>2, <4>1, <4>2 DEF OutOf, IsOriginalOf
    <3> QED
      BY <3>2, <3>3, <3>4, <3>5
  <2>4. ASSUME NEW r \in FileRequests', r.phase \in NewFile
        PROVE  /\ ~r.file.stashed /\ r.url = r.file.url
               /\ r.file.original \in born' \cup {None}
               /\ \A o \in files' : o.id = r.file.original => IsOriginalOf(o, r.file)
    <3>1. /\ ~r.file.stashed /\ r.url = r.file.url
          /\ r.file.original \in born \cup {None}
          /\ \A o \in files : o.id = r.file.original => IsOriginalOf(o, r.file)
      BY <2>1, <2>4 DEF OriginInv, FileRequests
    <3>2. ASSUME NEW o \in files', o.id = r.file.original
          PROVE  IsOriginalOf(o, r.file)
      <4>1. PICK g \in files : OutOf(g, o, R)
        BY <2>2
      <4> QED
        BY <3>1, <3>2, <4>1 DEF OutOf, IsOriginalOf
    <3> QED
      BY <2>1, <3>1, <3>2
  <2> QED
    BY <2>1, <2>2, <2>3, <2>4 DEF OriginInv
<1> QED
  BY <1>1, <1>2, <1>3, <1>4, <1>5, FileCases

\* A request stays at its file, but for deleteFile, which goes on to the copies.
LEMMA FileKept ==
    ASSUME NEW q, NEW r, GoesOn(q, r), q.phase # "findCopies", q.file \in Files
    PROVE  r.file.id = q.file.id
  BY DEF GoesOn, Files

\* A request that fails takes nothing with it.
LEMMA FileAborts ==
    ASSUME NEW q, AbortFile(q)
    PROVE  /\ UNCHANGED <<files, sessions, copies, born>> /\ raced' = raced \cup {q.file.id}
           /\ \A r \in FileRequests' : r \in FileRequests /\ r # q
           /\ \A r \in FileRequests : r # q => r \in FileRequests'
  BY DEF AbortFile, Leave, FileRequests, observed

RemovalOf(q, f) == [q EXCEPT !.phase = "removeSessions", !.file = f]

\* deleteFile of a file in the stash goes on to the file and its copies.
LEMMA CopiesFound ==
    ASSUME TypeInv, NEW q \in active, FindCopies(q)
    PROVE  /\ UNCHANGED <<files, sessions, copies, born>>
           /\ raced' = raced \cup {f.id : f \in {f \in ToRemove(q) : AtFile(f.id) \ {q} # {}}}
           /\ \A r \in FileRequests' :
                \/ r \in FileRequests /\ r # q
                \/ \E f \in ToRemove(q) :
                     /\ r = RemovalOf(q, f)
                     /\ r.file = f /\ r.phase = "removeSessions"
           /\ \A r \in FileRequests : r # q => r \in FileRequests'
           /\ \A f \in ToRemove(q) :
                \E r \in FileRequests' : r.file = f /\ r.phase = "removeSessions"
<1> DEFINE R == {RemovalOf(q, f) : f \in ToRemove(q)}
<1>1. q \in FileRequest /\ q.phase = "findCopies"
  BY FilePhase DEF AdvanceFile, FindCopies
<1>2. \A f \in ToRemove(q) : f \in Files
  BY <1>1 DEF ToRemove, TypeInv, TypeOK, MediaTypeOK, FileRequest
<1>3. \A f \in Files : /\ RemovalOf(q, f) \in FileRequest /\ RemovalOf(q, f).file = f
                     /\ RemovalOf(q, f).phase = "removeSessions"
  BY <1>1 DEF FileRequest, FilePhases, RemovalOf
<1>4. active' = (active \ {q}) \cup R
  BY DEF FindCopies, RemovalOf
<1>5. \A r \in R : \E f \in ToRemove(q) : r = RemovalOf(q, f)
  OBVIOUS
<1>6. \A f \in ToRemove(q) : RemovalOf(q, f) \in R
  OBVIOUS
<1>7. /\ UNCHANGED <<files, sessions, copies, born>>
      /\ raced' = raced \cup {f.id : f \in {f \in ToRemove(q) : AtFile(f.id) \ {q} # {}}}
  BY DEF FindCopies, observed
<1> HIDE DEF R
<1>8. /\ \A r \in FileRequests' : (r \in FileRequests /\ r # q) \/ r \in R
      /\ \A r \in FileRequests : r # q => r \in FileRequests'
      /\ \A r \in R : r \in FileRequests'
  <2>1. \A r \in R : r \in FileRequest
    BY <1>2, <1>3, <1>5
  <2> QED
    BY <1>4, <2>1, FileRequestsNext
<1>9. \A r \in FileRequests' :
        \/ r \in FileRequests /\ r # q
        \/ \E f \in ToRemove(q) : r = RemovalOf(q, f) /\ r.file = f /\ r.phase = "removeSessions"
  BY <1>2, <1>3, <1>5, <1>8
<1>10. \A f \in ToRemove(q) : \E r \in FileRequests' : r.file = f /\ r.phase = "removeSessions"
  BY <1>2, <1>3, <1>6, <1>8
<1> QED
  BY <1>7, <1>8, <1>9, <1>10

\* Two requests for the removal of files are for two files.
LEMMA RemovedOnce ==
    ASSUME OriginInv, NEW q, q.file.id # None, NEW f \in ToRemove(q), NEW g \in ToRemove(q),
           f.id = g.id
    PROVE  f = g
<1>1. \A x \in files : x.original = q.file.id => x.id # q.file.id
  BY DEF OriginInv
<1> QED
  BY <1>1 DEF ToRemove, OriginInv, Distinct

LEMMA MetStep ==
    ASSUME NumberInv, OriginInv, MetAtFile, [Next]_vars
    PROVE  MetAtFile'
<1>1. /\ TypeInv /\ serial \in Nat
      /\ \A q \in FileRequests : q.file.id # None /\ q.file.id \in 1..serial
  BY FileNumbers DEF NumberInv
<1>2. CASE FilesUnseen
  BY <1>2 DEF MetAtFile, FilesUnseen
<1>3. ASSUME NEW r, FileOpens(r) PROVE MetAtFile'
  <2>1. \A q \in FileRequests' : q \in FileRequests \/ q = r
    BY <1>3 DEF FileOpens, FileRequests
  <2>2. raced \subseteq raced'
    BY <1>3 DEF FileOpens
  <2>3. ASSUME NEW q \in FileRequests, q.file.id = r.file.id
        PROVE  r.file.id \in raced'
    <3>1. AtFile(r.file.id) # {}
      BY <2>3 DEF AtFile
    <3>2. r.file.id # serial + 1
      BY <1>1, <2>3
    <3> QED
      BY <1>3, <3>1, <3>2 DEF FileOpens
  <2> QED
    BY <2>1, <2>2, <2>3 DEF MetAtFile
<1>4. ASSUME NEW q \in active, AdvanceFile(q) PROVE MetAtFile'
  <2>1. q \in FileRequests /\ q.file \in Files /\ q.file.id # None
    BY <1>1, <1>4, FilePhase
  <2>2. CASE AbortFile(q)
    BY <2>2, FileAborts DEF MetAtFile
  <2>3. CASE FindCopies(q)
    <3>1. /\ raced' = raced \cup {f.id : f \in {f \in ToRemove(q) : AtFile(f.id) \ {q} # {}}}
          /\ \A r \in FileRequests' :
                \/ r \in FileRequests /\ r # q
                \/ \E f \in ToRemove(q) :
                     /\ r = RemovalOf(q, f)
                     /\ r.file = f /\ r.phase = "removeSessions"
      BY <1>1, <2>3, CopiesFound
    <3>2. ASSUME NEW p \in FileRequests, p # q, NEW f \in ToRemove(q), p.file.id = f.id
          PROVE  f.id \in raced'
      <4>1. p \in AtFile(f.id) \ {q}
        BY <3>2 DEF AtFile
      <4> QED
        BY <3>1, <4>1
    <3>3. ASSUME NEW p \in FileRequests', NEW r \in FileRequests', p.file.id = r.file.id,
                 p # r
          PROVE  p.file.id \in raced'
      <4>1. CASE p \in FileRequests /\ r \in FileRequests
        BY <3>1, <3>3, <4>1 DEF MetAtFile
      <4>2. CASE /\ p \in FileRequests /\ p # q
                 /\ \E f \in ToRemove(q) : r.file = f
        BY <3>2, <3>3, <4>2
      <4>3. CASE /\ r \in FileRequests /\ r # q
                 /\ \E f \in ToRemove(q) : p.file = f
        BY <3>2, <3>3, <4>3
      <4>4. CASE /\ \E f \in ToRemove(q) :
                      p = RemovalOf(q, f) /\ p.file = f
                 /\ \E f \in ToRemove(q) :
                      r = RemovalOf(q, f) /\ r.file = f
        BY <2>1, <3>3, <4>4, RemovedOnce
      <4> QED
        BY <3>1, <4>1, <4>2, <4>3, <4>4
    <3> QED
      BY <3>3 DEF MetAtFile
  <2>4. CASE ~AbortFile(q) /\ ~FindCopies(q)
    <3>1. q.phase # "findCopies"
      BY <1>4, <2>4 DEF AdvanceFile, Fetch, PutObject, CreateFile, CreateAccess, CheckUrl,
         FindAccess, WriteAccess, UpdateUrl, MatchFile, StashFile, RemoveSessions,
         RemoveFile, RemoveObject
    <3>2. PICK R : /\ active' = (active \ {q}) \cup R
                   /\ \A r \in R : r \in FileRequest /\ GoesOn(q, r)
                   /\ \A r, s \in R : r = s
      BY <1>1, <1>4, <3>1, FileGoesOn DEF Evolves
    <3>3. \A r \in FileRequests' : (r \in FileRequests /\ r # q) \/ r \in R
      BY <3>2, FileRequestsNext
    <3>4. \A r \in R : r.file.id = q.file.id
      BY <2>1, <3>1, <3>2, FileKept
    <3>5. raced \subseteq raced'
      BY <1>1, <1>4, <2>1, FilesMoved DEF FilesMove
    <3> QED
      BY <2>1, <3>2, <3>3, <3>4, <3>5 DEF MetAtFile
  <2> QED
    BY <2>2, <2>3, <2>4
<1>5. ASSUME NEW w \in Workspaces, DestroyWorkspace(w) PROVE MetAtFile'
  <2>1. active' = active /\ raced' = raced
    BY <1>5 DEF DestroyWorkspace, DropWorkspace, DropFiles
  <2> QED
    BY <2>1 DEF MetAtFile, FileRequests
<1> QED
  BY <1>1, <1>2, <1>3, <1>4, <1>5, FileCases

\* Other requests see no more of a step than its requests and sessions.
LEMMA FileSteps ==
    ASSUME NumberInv, OriginInv, NEW q \in active, AdvanceFile(q)
    PROVE  /\ q \in FileRequests /\ q.file.id # None /\ q.file \in Files
           /\ FilesMove(q) /\ raced \subseteq raced'
           /\ \A r \in FileRequests : r # q => r \in FileRequests'
           /\ \A s \in sessions' : s \in sessions \/ s.file = q.file.id
           /\ \A r \in FileRequests' :
                \/ r \in FileRequests /\ r # q
                \/ /\ r.phase # "removeFile" => r.phase \notin BeingRemoved
                   /\ r.phase = "removeFile" => r.file = q.file /\ RemoveSessions(q)
                \/ FindCopies(q)
<1>1. TypeInv /\ q \in FileRequests /\ q.file.id # None /\ q.file \in Files
  BY FilePhase, FileNumbers DEF NumberInv
<1>2. FilesMove(q) /\ raced \subseteq raced'
  BY <1>1, FilesMoved DEF FilesMove
<1>3. \A s \in sessions' : s \in sessions \/ s.file = q.file.id
  BY <1>1, SessionsChange DEF SessionChange
<1>4. CASE AbortFile(q)
  BY <1>1, <1>2, <1>3, <1>4, FileAborts
<1>5. CASE FindCopies(q)
  BY <1>1, <1>2, <1>3, <1>5, CopiesFound
<1>6. CASE ~AbortFile(q) /\ ~FindCopies(q)
  <2>1. PICK R : /\ active' = (active \ {q}) \cup R
                 /\ \A r \in R : r \in FileRequest /\ GoesOn(q, r)
    BY <1>1, FileGoesOn DEF Evolves
  <2>2. /\ \A r \in FileRequests' : (r \in FileRequests /\ r # q) \/ r \in R
        /\ \A r \in FileRequests : r # q => r \in FileRequests'
    BY <2>1, FileRequestsNext
  <2>3. \/ RemoveSessions(q)
        \/ q.phase \notin {"findCopies", "removeSessions"}
    BY <1>6 DEF AdvanceFile, Fetch, PutObject, CreateFile, CreateAccess, CheckUrl,
       FindAccess, WriteAccess, UpdateUrl, MatchFile, StashFile, RemoveFile, RemoveObject
  <2>4. \A r \in R : /\ r.phase # "removeFile" => r.phase \notin BeingRemoved
                     /\ r.phase = "removeFile" => r.file = q.file /\ RemoveSessions(q)
    BY <2>1, <2>3 DEF GoesOn, BeingRemoved, RemoveSessions
  <2> QED
    BY <1>1, <1>2, <1>3, <2>2, <2>4
<1> QED
  BY <1>4, <1>5, <1>6

\* A removal goes on until the row is gone, or others came to the file.
LEMMA StillLeaving ==
    ASSUME NumberInv, OriginInv, RemovalInv, NEW q \in active, AdvanceFile(q),
           NEW id, \E f \in files : f.id = id, \E x \in files' : x.id = id,
           id \in raced \/ Leaving(id)
    PROVE  id \in raced' \/ \E r \in FileRequests' : r.file.id = id /\ r.phase \in BeingRemoved
<1>1. /\ q \in FileRequests /\ q.file.id # None /\ q.file \in Files /\ raced \subseteq raced'
      /\ \A r \in FileRequests : r # q => r \in FileRequests'
  BY FileSteps
<1>2. SUFFICES ASSUME id = q.file.id, q.phase \in BeingRemoved
               PROVE  id \in raced' \/ \E r \in FileRequests' : r.file.id = id /\ r.phase \in BeingRemoved
  BY <1>1 DEF Leaving, AtFile
<1>3. CASE AbortFile(q)
  BY <1>2, <1>3, FileAborts
<1>4. CASE RemoveSessions(q)
  <2> DEFINE r == [q EXCEPT !.phase = "removeFile"]
  <2>1. q \in FileRequest
    BY FilePhase DEF NumberInv
  <2>2. r \in FileRequest /\ r.file.id = id /\ r.phase = "removeFile"
    BY <1>2, <2>1 DEF FileRequest, FilePhases
  <2>3. r \in active'
    BY <1>4 DEF RemoveSessions, MoveTo, Resume
  <2> HIDE DEF r
  <2> QED
    BY <2>2, <2>3 DEF FileRequests, BeingRemoved, FilePhases
<1>5. CASE RemoveFile(q)
  <2>1. q.phase = "removeFile" /\ raced' = raced
    BY <1>5 DEF RemoveFile, fileGhosts
  <2>2. CASE files' = WithoutFiles({q.file.id})
    <3> DEFINE R == {q.file.id}
    <3>1. files \subseteq Files
      BY DEF NumberInv, TypeInv, TypeOK, MediaTypeOK
    <3>2. \A x \in files' : x.id \notin R
      BY <2>2, <3>1, FilesWithout
    <3> QED
      BY <1>2, <3>2
  <2>3. CASE ~(q.file.id \in FileIds /\ \A s \in sessions : s.file # q.file.id)
    <3>1. \E s \in sessions : s.file = q.file.id
      BY <1>2, <2>3 DEF FileIds
    <3> QED
      BY <1>1, <1>2, <2>1, <3>1 DEF RemovalInv
  <2> QED
    BY <1>5, <2>2, <2>3 DEF RemoveFile
<1> QED
  BY <1>2, <1>3, <1>4, <1>5 DEF AdvanceFile, Fetch, PutObject, CreateFile, CreateAccess,
     CheckUrl, FindAccess, WriteAccess, UpdateUrl, MatchFile, StashFile, FindCopies,
     RemoveObject, BeingRemoved

LEMMA RemovalStep ==
    ASSUME NumberInv, OriginInv, MetAtFile, RemovalInv, [Next]_vars
    PROVE  RemovalInv'
<1>1. /\ TypeInv /\ files \subseteq Files
      /\ \A f \in files : f.id \in born /\ f.id # None
      /\ \A q \in FileRequests : /\ q.file.id # None
                                 /\ q.phase \in NewFile => q.file.id \notin born
  BY FileNumbers DEF NumberInv
<1>2. CASE FilesUnseen
  BY <1>2 DEF RemovalInv, FilesUnseen, Leaving, AtFile
<1>3. ASSUME NEW r, FileOpens(r) PROVE RemovalInv'
  <2>1. /\ UNCHANGED <<files, sessions, copies>> /\ raced \subseteq raced'
        /\ r.phase \notin BeingRemoved
    BY <1>3 DEF FileOpens, BeingRemoved
  <2>2. /\ \A q \in FileRequests' : q \in FileRequests \/ q = r
        /\ \A q \in FileRequests : q \in FileRequests'
    BY <1>3 DEF FileOpens, FileRequests
  <2> QED
    BY <2>1, <2>2 DEF RemovalInv, Leaving, AtFile, BeingRemoved
<1>4. ASSUME NEW q \in active, AdvanceFile(q) PROVE RemovalInv'
  <2>1. /\ q \in FileRequests /\ q.file.id # None /\ q.file \in Files
        /\ FilesMove(q) /\ raced \subseteq raced'
        /\ \A r \in FileRequests : r # q => r \in FileRequests'
        /\ \A s \in sessions' : s \in sessions \/ s.file = q.file.id
        /\ \A r \in FileRequests' :
             \/ r \in FileRequests /\ r # q
             \/ /\ r.phase # "removeFile" => r.phase \notin BeingRemoved
                /\ r.phase = "removeFile" => r.file = q.file /\ RemoveSessions(q)
             \/ FindCopies(q)
    BY <1>4, FileSteps
  <2>2. FindCopies(q) =>
          /\ files' = files
          /\ \A r \in FileRequests' :
                (r \in FileRequests /\ r # q) \/ (r.file \in ToRemove(q) /\ r.phase = "removeSessions")
          /\ \A f \in ToRemove(q) :
                \E r \in FileRequests' : r.file = f /\ r.phase = "removeSessions"
    BY <1>1, CopiesFound
  <2>3. ASSUME NEW p \in FileRequests', p.phase = "removeFile"
        PROVE  p.file.id \in raced' \/ \A s \in sessions' : s.file # p.file.id
    <3>1. CASE p \in FileRequests /\ p # q
      BY <2>1, <2>3, <3>1 DEF MetAtFile, RemovalInv
    <3>2. CASE p.file = q.file /\ RemoveSessions(q)
      BY <3>2 DEF RemoveSessions, FirstRemoved
    <3> QED
      BY <2>1, <2>2, <2>3, <3>1, <3>2
  <2>4. ASSUME NEW p \in FileRequests', NEW x \in files', p.phase \in BeingRemoved,
               x.id \in copies', x.original = p.file.id
        PROVE  \/ x.id \in raced'
               \/ \E r \in FileRequests' : r.file.id = x.id /\ r.phase \in BeingRemoved
    <3>1. CASE RowCreated(q) /\ x \notin files
      <4>1. /\ q.phase = "createFile" /\ x = q.file
            /\ raced' = raced \cup {i \in {q.file.id} : AtFile(q.file.original) # {}}
        BY <3>1 DEF RowCreated
      <4>2. p \in FileRequests
        BY <2>1, <2>4, <4>1 DEF BeingRemoved, RemoveSessions, FindCopies
      <4>3. p \in AtFile(q.file.original)
        BY <2>4, <4>1, <4>2 DEF AtFile
      <4> QED
        BY <4>1, <4>3
    <3>2. ASSUME NEW f \in files, f.id = x.id, f.original = x.original, f.id \in copies
          PROVE  \/ x.id \in raced'
                 \/ \E r \in FileRequests' : r.file.id = x.id /\ r.phase \in BeingRemoved
      <4>1. ASSUME f.id \in raced \/ Leaving(f.id)
            PROVE  \/ x.id \in raced'
                   \/ \E r \in FileRequests' : r.file.id = x.id /\ r.phase \in BeingRemoved
        BY <1>4, <3>2, <4>1, StillLeaving
      <4>2. CASE p \in FileRequests
        BY <2>4, <3>2, <4>1, <4>2 DEF RemovalInv
      <4>3. CASE p.file = q.file /\ RemoveSessions(q)
        <5>1. q.phase \in BeingRemoved
          BY <4>3 DEF RemoveSessions, BeingRemoved
        <5>2. f.original = q.file.id
          BY <2>4, <3>2, <4>3
        <5> QED
          BY <2>1, <3>2, <4>1, <5>1, <5>2 DEF RemovalInv
      <4>4. CASE FindCopies(q) /\ p.file \in ToRemove(q)
        <5>1. p.file = q.file \/ (p.file \in files /\ p.file.original = q.file.id)
          BY <4>4 DEF ToRemove
        <5>2. CASE p.file = q.file
          <6>1. f \in ToRemove(q)
            BY <2>4, <3>2, <5>2 DEF ToRemove
          <6> QED
            BY <2>2, <3>2, <4>4, <6>1 DEF BeingRemoved
        <5>3. CASE p.file \in files /\ p.file.original = q.file.id
          <6>1. f.original = p.file.id /\ f.original # None
            BY <1>1, <2>4, <3>2, <5>3
          <6>2. p.file.original = None
            BY <5>3, <6>1 DEF OriginInv, IsOriginalOf
          <6> QED
            BY <2>1, <5>3, <6>2
        <5> QED
          BY <5>1, <5>2, <5>3
      <4> QED
        BY <2>1, <2>2, <2>4, <4>2, <4>3, <4>4 DEF BeingRemoved
    <3>3. CASE RowCreated(q) /\ x \in files
      <4>1. x.id # q.file.id
        BY <1>1, <2>1, <3>3 DEF RowCreated, NewFile
      <4>2. x.id \in copies
        BY <2>4, <3>3, <4>1 DEF RowCreated
      <4> QED
        BY <3>2, <3>3, <4>2
    <3>4. CASE ~RowCreated(q)
      <4>1. PICK f \in files : FileAfter(q, f, x)
        BY <2>1, <3>4 DEF FilesMove
      <4>2. x.original # None
        <5>1. CASE p \in FileRequests
          BY <1>1, <2>4, <5>1
        <5>2. CASE p.file = q.file
          BY <2>1, <2>4, <5>2
        <5>3. CASE FindCopies(q) /\ p.file \in ToRemove(q)
          BY <1>1, <2>1, <2>4, <5>3 DEF ToRemove
        <5> QED
          BY <2>1, <2>2, <2>4, <5>1, <5>2, <5>3 DEF BeingRemoved
      <4>3. f.id = x.id /\ f.original = x.original
        BY <4>1, <4>2 DEF FileAfter
      <4>4. f.id \in copies
        BY <2>1, <2>4, <3>4, <4>3 DEF FilesMove
      <4> QED
        BY <3>2, <4>3, <4>4
    <3> QED
      BY <3>1, <3>3, <3>4
  <2> QED
    BY <2>3, <2>4 DEF RemovalInv, Leaving, AtFile
<1>5. ASSUME NEW w \in Workspaces, DestroyWorkspace(w) PROVE RemovalInv'
  <2> DEFINE R == {f.id : f \in {f \in files : f.workspace = w}}
  <2>1. files' = WithoutFiles(R) /\ UNCHANGED <<active, sessions, copies, raced>>
    BY <1>5 DEF DestroyWorkspace, DropWorkspace, DropFiles
  <2> HIDE DEF R
  <2>2. \A x \in files' : \E f \in files : OutOf(f, x, R)
    BY <1>1, <2>1, FilesWithout
  <2>3. FileRequests' = FileRequests
    BY <2>1 DEF FileRequests
  <2>4. ASSUME NEW p \in FileRequests, NEW x \in files', p.phase \in BeingRemoved,
               x.id \in copies, x.original = p.file.id
        PROVE  x.id \in raced \/ Leaving(x.id)
    <3>1. PICK f \in files : OutOf(f, x, R)
      BY <2>2
    <3>2. x.id = f.id /\ x.original = f.original
      BY <1>1, <2>4, <3>1 DEF OutOf
    <3> QED
      BY <2>4, <3>2 DEF RemovalInv
  <2> QED
    BY <2>1, <2>3, <2>4 DEF RemovalInv, Leaving, AtFile
<1> QED
  BY <1>1, <1>2, <1>3, <1>4, <1>5, FileCases

LEMMA CopiesStep ==
    ASSUME NumberInv, OriginInv, RemovalInv, CopiesGoWithOriginal, [Next]_vars
    PROVE  CopiesGoWithOriginal'
<1>1. /\ TypeInv /\ files \subseteq Files
      /\ \A f \in files : f.id \in born /\ f.id # None
      /\ \A q \in FileRequests : /\ q.file.id # None
                                 /\ q.phase \in NewFile => q.file.id \notin born
  BY FileNumbers DEF NumberInv
<1>2. \A f \in files : f.id \in copies /\ f.original = None => f.id \in raced \/ Leaving(f.id)
  BY DEF CopiesGoWithOriginal, Leaving, BeingRemoved
<1>3. SUFFICES ASSUME NEW x \in files', x.id \in copies', x.original = None
               PROVE  \/ x.id \in raced'
                      \/ \E r \in FileRequests' : r.file.id = x.id /\ r.phase \in BeingRemoved
  BY DEF CopiesGoWithOriginal, AtFile, BeingRemoved
<1>4. CASE FilesUnseen
  BY <1>2, <1>3, <1>4 DEF FilesUnseen, Leaving, AtFile
<1>5. ASSUME NEW r, FileOpens(r)
      PROVE  \/ x.id \in raced'
             \/ \E q \in FileRequests' : q.file.id = x.id /\ q.phase \in BeingRemoved
  <2>1. UNCHANGED <<files, copies>> /\ raced \subseteq raced'
    BY <1>5 DEF FileOpens
  <2>2. \A q \in FileRequests : q \in FileRequests'
    BY <1>5 DEF FileOpens, FileRequests
  <2> QED
    BY <1>2, <1>3, <2>1, <2>2 DEF Leaving, AtFile
<1>6. ASSUME NEW q \in active, AdvanceFile(q)
      PROVE  \/ x.id \in raced'
             \/ \E r \in FileRequests' : r.file.id = x.id /\ r.phase \in BeingRemoved
  <2>1. q \in FileRequests /\ q.file.id # None /\ FilesMove(q)
    BY <1>6, FileSteps
  <2>2. ASSUME NEW f \in files, f.id = x.id, f.id \in raced \/ Leaving(f.id)
        PROVE  \/ x.id \in raced'
               \/ \E r \in FileRequests' : r.file.id = x.id /\ r.phase \in BeingRemoved
    BY <1>3, <1>6, <2>2, StillLeaving
  <2>3. CASE RowCreated(q)
    <3>1. q.file.id \notin born /\ copies \subseteq born
      BY <1>1, <2>1, <2>3 DEF RowCreated, NewFile, OriginInv
    <3>2. x \in files /\ x.id \in copies
      BY <1>1, <1>3, <2>3, <3>1 DEF RowCreated
    <3> QED
      BY <1>2, <1>3, <2>2, <3>2
  <2>4. CASE ~RowCreated(q)
    <3>1. PICK f \in files : FileAfter(q, f, x)
      BY <2>1, <2>4 DEF FilesMove
    <3>2. f.id = x.id /\ f.id \in copies
      BY <1>3, <2>1, <2>4, <3>1 DEF FilesMove, FileAfter
    <3>3. \/ f.original = None
          \/ q.phase = "removeFile" /\ f.original = q.file.id
      BY <1>3, <3>1 DEF FileAfter
    <3>4. CASE f.original = None
      BY <1>2, <2>2, <3>2, <3>4
    <3>5. CASE q.phase = "removeFile" /\ f.original = q.file.id
      BY <2>1, <2>2, <3>2, <3>5 DEF RemovalInv, BeingRemoved
    <3> QED
      BY <3>3, <3>4, <3>5
  <2> QED
    BY <2>3, <2>4
<1>7. ASSUME NEW w \in Workspaces, DestroyWorkspace(w)
      PROVE  \/ x.id \in raced'
             \/ \E r \in FileRequests' : r.file.id = x.id /\ r.phase \in BeingRemoved
  <2> DEFINE R == {f.id : f \in {f \in files : f.workspace = w}}
  <2>1. files' = WithoutFiles(R) /\ UNCHANGED <<active, copies, raced>>
    BY <1>7 DEF DestroyWorkspace, DropWorkspace, DropFiles
  <2>2. /\ \A f \in files : f.workspace = w => f.id \in R
        /\ \A i \in R : \E f \in files : f.id = i /\ f.workspace = w
    OBVIOUS
  <2> HIDE DEF R
  <2>3. PICK f \in files : OutOf(f, x, R) /\ x.id \notin R
    BY <1>1, <2>1, FilesWithout
  <2>4. x.id = f.id /\ f.workspace # w
    BY <2>2, <2>3 DEF OutOf
  <2>5. f.original \notin R
    <3>1. SUFFICES ASSUME NEW o \in files, o.id = f.original, o.workspace = w
                   PROVE  FALSE
      BY <2>2
    <3>2. IsOriginalOf(o, f)
      BY <1>1, <3>1 DEF OriginInv
    <3> QED
      BY <2>4, <3>1, <3>2 DEF IsOriginalOf
  <2>6. f.original = None
    BY <1>3, <2>3, <2>5 DEF OutOf
  <2>7. FileRequests' = FileRequests
    BY <2>1 DEF FileRequests
  <2> QED
    BY <1>2, <1>3, <2>1, <2>4, <2>6, <2>7 DEF Leaving, AtFile
<1> QED
  BY <1>1, <1>4, <1>5, <1>6, <1>7, FileCases

FileInv == OriginInv /\ MetAtFile /\ RemovalInv

LEMMA FileInvAlways == Spec => []FileInv
<1>1. Init => FileInv
  <2> SUFFICES ASSUME Init PROVE FileInv
    OBVIOUS
  <2>1. files = {} /\ copies = {} /\ FileRequests = {}
    BY DEF Init, RequestsInit, MediaInit, FileRequests
  <2> QED
    BY <2>1 DEF FileInv, OriginInv, MetAtFile, RemovalInv, Distinct
<1>2. NumberInv /\ FileInv /\ [Next]_vars => FileInv'
  BY OriginStep, MetStep, RemovalStep DEF FileInv
<1> QED
  BY <1>1, <1>2, Numbered, PTL DEF Spec

\* deleteFile leaves no copy behind, however its removals overlap resizes and
\* renewals: a copy loses its original while it is being removed with it, unless
\* another request came to one of the two.
THEOREM CopiesAlwaysGoWithOriginal == Spec => []CopiesGoWithOriginal
<1>1. Init => CopiesGoWithOriginal
  BY DEF Init, MediaInit, CopiesGoWithOriginal
<1>2. NumberInv /\ FileInv /\ CopiesGoWithOriginal /\ [Next]_vars => CopiesGoWithOriginal'
  BY CopiesStep DEF FileInv
<1> QED
  BY <1>1, <1>2, Numbered, FileInvAlways, PTL DEF Spec

-----------------------------------------------------------------------------
(* The sessions of a file                                                  *)

\* A request leaves the sessions of other files alone.
LEMMA OtherSessions ==
    ASSUME SessionInv, NEW q \in active, AdvanceFile(q), NEW s, s.file # q.file.id
    PROVE  s \in sessions' <=> s \in sessions
<1>1. CASE CreateAccess(q)
  <2> DEFINE n == [id |-> q.id, file |-> q.file.id, url |-> q.url]
  <2>1. n.file = q.file.id /\ (sessions' = sessions \/ sessions' = sessions \cup {n})
    BY <1>1 DEF CreateAccess
  <2> HIDE DEF n
  <2> QED
    BY <2>1
<1>2. CASE WriteAccess(q)
  <2> DEFINE n == [id |-> IF q.session = None THEN q.id ELSE q.session,
                   file |-> q.file.id, url |-> q.url]
  <2>1. /\ n.file = q.file.id /\ q.phase = "writeAccess"
        /\ \/ sessions' = sessions
           \/ sessions' = {t \in sessions : t.id # q.session} \cup {n}
    BY <1>2 DEF WriteAccess
  <2> HIDE DEF n
  <2>2. s \in sessions => s.id # q.session
    <3>1. CASE q.session = None
      BY <3>1 DEF SessionInv, None
    <3>2. CASE q.session # None
      BY <2>1, <3>2 DEF SessionInv
    <3> QED
      BY <3>1, <3>2
  <2> QED
    BY <2>1, <2>2
<1>3. CASE RemoveSessions(q)
  BY <1>3 DEF RemoveSessions, FirstRemoved
<1>4. CASE \/ Fetch(q) \/ PutObject(q) \/ CreateFile(q) \/ CheckUrl(q) \/ FindAccess(q)
           \/ UpdateUrl(q) \/ MatchFile(q) \/ StashFile(q) \/ FindCopies(q) \/ RemoveFile(q)
           \/ RemoveObject(q) \/ AbortFile(q)
  <2>1. sessions' = sessions
    BY <1>4 DEF Fetch, PutObject, CreateFile, CheckUrl, FindAccess, UpdateUrl, MatchFile,
                StashFile, FindCopies, RemoveFile, RemoveObject, AbortFile, fileVars
  <2> QED
    BY <2>1
<1> QED
  BY <1>1, <1>2, <1>3, <1>4 DEF AdvanceFile

InTurn(f) ==
    f.signed /\ f.id \notin raced =>
        /\ AtFile(f.id) = {} => SoleSession(f.id, f.url)
        /\ \A q \in AtFile(f.id) : AloneAt(f, q)

\* A file sees no more of a step than its row, its sessions and its requests.
LEMMA TurnKept ==
    ASSUME NEW f, NEW x, x.id = f.id, x.url = f.url, x.signed = f.signed, InTurn(f),
           raced \subseteq raced',
           \A s : s.file = f.id => (s \in sessions' <=> s \in sessions),
           \A r \in FileRequests : r.file.id = f.id => r \in FileRequests',
           \A r \in FileRequests' : r.file.id = f.id => r \in FileRequests \/ r.phase = "removeSessions"
    PROVE  InTurn(x)'
<1>1. SUFFICES ASSUME x.signed, x.id \notin raced'
               PROVE  /\ AtFile(x.id)' = {} => SoleSession(x.id, x.url)'
                      /\ \A q \in AtFile(x.id)' : AloneAt(x, q)'
  BY DEF InTurn
<1>2. /\ AtFile(f.id) = {} => SoleSession(f.id, f.url)
      /\ \A q \in AtFile(f.id) : AloneAt(f, q)
  BY <1>1 DEF InTurn
<1>3. \A url : SoleSession(f.id, url) => SoleSession(x.id, url)'
  BY DEF SoleSession
<1>4. AtFile(x.id)' = {} => AtFile(f.id) = {}
  BY DEF AtFile
<1>5. ASSUME NEW q \in AtFile(x.id)' PROVE AloneAt(x, q)'
  <2>1. CASE q.phase = "removeSessions"
    BY <2>1 DEF AloneAt
  <2>2. CASE q \in FileRequests
    <3>1. AloneAt(f, q)
      BY <1>2, <1>5, <2>2 DEF AtFile
    <3> QED
      BY <1>3, <3>1 DEF AloneAt
  <2> QED
    BY <1>5, <2>1, <2>2 DEF AtFile
<1> QED
  BY <1>2, <1>3, <1>4, <1>5

\* The file a request is at, if no other came to it: the request found one
\* session there and goes on to leave one, of the URL in the row.
LEMMA TurnOwn ==
    ASSUME NumberInv, SessionInv, SessionsHaveFile, ObjectInv, OriginInv, MetAtFile, RemovalInv,
           TurnInv, NEW q \in active, AdvanceFile(q),
           NEW x \in files', x.id = q.file.id, x.signed, x.id \notin raced'
    PROVE  InTurn(x)'
<1>1. /\ q \in FileRequests /\ q.file \in Files /\ q.file.id # None
      /\ FilesMove(q) /\ raced \subseteq raced'
      /\ q \in FileRequest
  BY FileSteps, FilePhase DEF NumberInv
<1>2. /\ ~AbortFile(q)
      /\ \A r \in FileRequests : r.file.id = x.id => r = q
  BY <1>1, FileAborts DEF MetAtFile
<1>3. /\ \A f \in files : f.id \in born /\ f.id # None
      /\ q.phase \in NewFile => q.file.id \notin born
  BY <1>1, FileNumbers
<1>4. ASSUME Leave(q), SoleSession(x.id, x.url)' PROVE InTurn(x)'
  <2>1. AtFile(x.id)' = {}
    BY <1>2, <1>4 DEF Leave, AtFile, FileRequests
  <2> QED
    BY <1>4, <2>1 DEF InTurn
<1>5. ASSUME NEW r, Resume(q, r), r \in FileRequest, r.file.id = x.id, AloneAt(x, r)'
      PROVE  InTurn(x)'
  <2>1. r \in FileRequests'
    BY <1>5 DEF Resume, FileRequests, FileRequest
  <2>2. \A p \in AtFile(x.id)' : p = r
    BY <1>2, <1>5 DEF Resume, AtFile, FileRequests
  <2>3. r \in AtFile(x.id)'
    BY <1>5, <2>1 DEF AtFile
  <2> QED
    BY <1>5, <2>2, <2>3 DEF InTurn
<1>6. ASSUME NEW phase \in FilePhases, MoveTo(q, phase),
             \A r : r.phase = phase /\ r.file = q.file /\ r.url = q.url /\ r.session = q.session
                      => AloneAt(x, r)'
      PROVE  InTurn(x)'
  <2> DEFINE r == [q EXCEPT !.phase = phase]
  <2>1. /\ r \in FileRequest /\ r.phase = phase /\ r.file = q.file /\ r.url = q.url
        /\ r.session = q.session
    BY <1>1 DEF FileRequest
  <2>2. Resume(q, r)
    BY <1>6 DEF MoveTo
  <2> HIDE DEF r
  <2>3. AloneAt(x, r)'
    BY <1>6, <2>1
  <2> QED
    BY <1>5, <2>1, <2>2, <2>3
<1>7. CASE q.phase \in NewFile
  <2>1. CreateFile(q) \/ files' = files
    BY <1>7 DEF NewFile, AdvanceFile, Fetch, PutObject, CreateAccess, CheckUrl, FindAccess,
       WriteAccess, UpdateUrl, MatchFile, StashFile, FindCopies, RemoveSessions, RemoveFile,
       RemoveObject, AbortFile, fileVars
  <2>2. x \notin files
    BY <1>3, <1>7
  <2>3. x = q.file /\ MoveTo(q, "createAccess") /\ sessions' = sessions
    BY <2>1, <2>2 DEF CreateFile
  <2>4. q.url = x.url
    BY <1>1, <1>7, <2>3 DEF OriginInv
  <2>5. \A s \in sessions' : s.file # x.id
    BY <1>3, <1>7, <2>3 DEF SessionsHaveFile, FileIds
  <2>6. ASSUME NEW r, r.phase = "createAccess", r.url = q.url
        PROVE  AloneAt(x, r)'
    BY <2>4, <2>5, <2>6 DEF AloneAt
  <2> QED
    BY <1>6, <2>3, <2>6 DEF FilePhases
<1>8. CASE q.phase \notin NewFile
  <2>1. PICK f \in files : FileAfter(q, f, x)
    BY <1>1, <1>8 DEF FilesMove, RowCreated, NewFile
  <2>2. /\ f.id = x.id /\ f.signed
        /\ x.url = IF UpdateUrl(q) THEN q.url ELSE f.url
    BY <2>1 DEF FileAfter
  <2>3. AloneAt(f, q)
    BY <1>1, <2>2 DEF TurnInv, AtFile
  <2>4. \A url : sessions' = sessions /\ SoleSession(f.id, url) => SoleSession(x.id, url)'
    BY <2>2 DEF SoleSession
  <2>5. CASE CreateAccess(q)
    <3> DEFINE n == [id |-> q.id, file |-> q.file.id, url |-> q.url]
    <3>1. q.url = f.url /\ \A s \in sessions : s.file # f.id
      BY <2>3, <2>5 DEF AloneAt, CreateAccess
    <3>2. SessionInsertable(q.file.id, q.url)
      BY <2>2, <3>1 DEF SessionInsertable, FileIds
    <3>3. n.file = x.id /\ n.url = q.url /\ sessions' = sessions \cup {n} /\ Leave(q)
      BY <2>5, <3>2 DEF CreateAccess
    <3> HIDE DEF n
    <3>4. x.url = q.url
      BY <2>2, <2>5, <3>1 DEF CreateAccess, UpdateUrl
    <3>5. SoleSession(x.id, x.url)'
      BY <2>2, <3>1, <3>3, <3>4 DEF SoleSession
    <3> QED
      BY <1>4, <3>3, <3>5
  <2>6. CASE CheckUrl(q)
    <3>1. q.file.url = f.url /\ SoleSession(f.id, f.url)
      BY <2>3, <2>6 DEF AloneAt, CheckUrl
    <3>2. sessions' = sessions /\ x.url = f.url
      BY <2>2, <2>6 DEF CheckUrl, UpdateUrl, fileVars
    <3>3. ASSUME NEW url, Resume(q, [q EXCEPT !.phase = "findAccess", !.url = url]), url \in Nat
          PROVE  InTurn(x)'
      <4> DEFINE r == [q EXCEPT !.phase = "findAccess", !.url = url]
      <4>1. r \in FileRequest /\ r.phase = "findAccess" /\ r.file = q.file
        BY <1>1, <3>3 DEF FileRequest, FilePhases
      <4>2. Resume(q, r)
        BY <3>3
      <4> HIDE DEF r
      <4>3. AloneAt(x, r)'
        BY <2>4, <3>1, <3>2, <4>1 DEF AloneAt
      <4> QED
        BY <1>5, <4>1, <4>2, <4>3
    <3>4. \A url \in SignedNow(q) : url \in Nat
      <4>1. \A p \in AtFile(q.file.id) : p = q
        BY <1>2 DEF AtFile
      <4> QED
        BY <1>1, <4>1 DEF SignedNow, FileRequest
    <3> QED
      BY <1>4, <2>4, <2>6, <3>1, <3>2, <3>3, <3>4 DEF CheckUrl
  <2>7. CASE FindAccess(q)
    <3>1. q.file.url = f.url /\ SoleSession(f.id, f.url)
      BY <2>3, <2>7 DEF AloneAt, FindAccess
    <3>2. sessions' = sessions /\ x.url = f.url
      BY <2>2, <2>7 DEF FindAccess, UpdateUrl, fileVars
    <3>3. FoundAccess(q) # {}
      BY <2>2, <3>1 DEF SoleSession, FoundAccess, SessionOf
    <3>4. PICK session \in FoundAccess(q) :
            Resume(q, [q EXCEPT !.phase = "writeAccess", !.session = session])
      BY <2>7, <3>3 DEF FindAccess
    <3>5. PICK s \in sessions : s.file = q.file.id /\ s.id = session
      BY DEF FoundAccess, SessionOf
    <3>6. session \in Nat /\ session # None
      BY <3>5 DEF SessionInv, None, NumberInv, TypeInv, TypeOK, RequestsTypeOK
    <3> DEFINE r == [q EXCEPT !.phase = "writeAccess", !.session = session]
    <3>7. r \in FileRequest /\ r.phase = "writeAccess" /\ r.file = q.file /\ r.session = session
      BY <1>1, <3>6 DEF FileRequest, FilePhases
    <3>8. Resume(q, r)
      BY <3>4
    <3> HIDE DEF r
    <3>9. AloneAt(x, r)'
      BY <2>4, <3>1, <3>2, <3>5, <3>6, <3>7 DEF AloneAt
    <3> QED
      BY <1>5, <3>7, <3>8, <3>9
  <2>8. CASE WriteAccess(q)
    <3> DEFINE n == [id |-> IF q.session = None THEN q.id ELSE q.session,
                     file |-> q.file.id, url |-> q.url]
    <3>1. /\ SoleSession(f.id, f.url) /\ q.session # None
          /\ \E s \in sessions : s.file = f.id /\ s.id = q.session
      BY <2>3, <2>8 DEF AloneAt, WriteAccess
    <3>2. \A s \in sessions : s.file = f.id => s.id = q.session
      BY <3>1 DEF SoleSession
    <3>3. /\ sessions' = {s \in sessions : s.id # q.session} \cup {n}
          /\ MoveTo(q, "updateUrl")
      BY <2>2, <2>8, <3>1, <3>2 DEF WriteAccess
    <3>4. n.file = f.id /\ n.url = q.url
      BY <2>2
    <3> HIDE DEF n
    <3>5. SoleSession(x.id, q.url)'
      BY <2>2, <3>2, <3>3, <3>4 DEF SoleSession
    <3>6. ASSUME NEW r, r.phase = "updateUrl", r.url = q.url
          PROVE  AloneAt(x, r)'
      BY <3>5, <3>6 DEF AloneAt
    <3> QED
      BY <1>6, <3>3, <3>6 DEF FilePhases
  <2>9. CASE UpdateUrl(q)
    <3>1. SoleSession(f.id, q.url)
      BY <2>3, <2>9 DEF AloneAt, UpdateUrl
    <3>2. sessions' = sessions /\ x.url = q.url /\ Leave(q)
      BY <2>2, <2>9 DEF UpdateUrl
    <3> QED
      BY <1>4, <2>4, <3>1, <3>2
  <2>10. CASE MatchFile(q)
    <3>1. SoleSession(f.id, f.url)
      BY <2>3, <2>10 DEF AloneAt, MatchFile
    <3>2. sessions' = sessions /\ x.url = f.url
      BY <2>2, <2>10 DEF MatchFile, UpdateUrl, fileVars
    <3>3. SoleSession(x.id, x.url)'
      BY <2>4, <3>1, <3>2
    <3>4. ASSUME NEW g \in files, g.id = q.file.id, NEW phase \in {"stashFile", "findCopies"},
                 Resume(q, [q EXCEPT !.file = g, !.phase = phase])
          PROVE  InTurn(x)'
      <4> DEFINE r == [q EXCEPT !.file = g, !.phase = phase]
      <4>1. g \in Files
        BY DEF NumberInv, TypeInv, TypeOK, MediaTypeOK
      <4>2. r \in FileRequest /\ r.phase = phase /\ r.file = g
        BY <1>1, <4>1 DEF FileRequest, FilePhases
      <4>3. Resume(q, r)
        BY <3>4
      <4> HIDE DEF r
      <4>4. AloneAt(x, r)'
        BY <3>3, <4>2 DEF AloneAt
      <4> QED
        BY <1>5, <3>4, <4>2, <4>3, <4>4
    <3> QED
      BY <1>4, <2>10, <3>3, <3>4 DEF MatchFile
  <2>11. CASE StashFile(q)
    <3>1. SoleSession(f.id, f.url)
      BY <2>3, <2>11 DEF AloneAt, StashFile
    <3>2. sessions' = sessions /\ x.url = f.url /\ Leave(q)
      BY <2>2, <2>11 DEF StashFile, UpdateUrl
    <3> QED
      BY <1>4, <2>4, <3>1, <3>2
  <2>12. CASE FindCopies(q)
    <3>1. /\ \A r \in FileRequests' : (r \in FileRequests /\ r # q) \/ r.phase = "removeSessions"
          /\ \A g \in ToRemove(q) : \E r \in FileRequests' : r.file = g
      BY <2>12, CopiesFound DEF NumberInv
    <3>2. AtFile(x.id)' # {}
      BY <3>1 DEF ToRemove, AtFile
    <3>3. \A r \in AtFile(x.id)' : r.phase = "removeSessions"
      BY <1>2, <3>1 DEF AtFile
    <3> QED
      BY <3>2, <3>3 DEF InTurn, AloneAt
  <2>13. CASE RemoveSessions(q)
    <3>1. \A r : r.phase = "removeFile" => AloneAt(x, r)'
      BY DEF AloneAt
    <3> QED
      BY <1>6, <2>13, <3>1 DEF RemoveSessions, FilePhases
  <2>14. CASE RemoveFile(q)
    <3>1. q.phase = "removeFile"
      BY <2>14 DEF RemoveFile
    <3>2. \A s \in sessions : s.file # q.file.id
      BY <1>1, <3>1 DEF RemovalInv
    <3>3. files' = WithoutFiles({q.file.id})
      BY <2>2, <2>14, <3>2 DEF RemoveFile, FileIds
    <3> DEFINE R == {q.file.id}
    <3>4. \A g \in files' : g.id \notin R
      <4>1. files \subseteq Files
        BY DEF NumberInv, TypeInv, TypeOK, MediaTypeOK
      <4> QED
        BY <3>3, <4>1, FilesWithout
    <3> QED
      BY <3>4
  <2>15. CASE RemoveObject(q)
    BY <2>2, <2>15 DEF RemoveObject, ObjectInv
  <2> QED
    BY <1>2, <1>8, <2>5, <2>6, <2>7, <2>8, <2>9, <2>10, <2>11, <2>12, <2>13, <2>14, <2>15
       DEF AdvanceFile, Fetch, PutObject, CreateFile, NewFile
<1> QED
  BY <1>7, <1>8

LEMMA TurnStep ==
    ASSUME NumberInv, SessionInv, SessionsHaveFile, ObjectInv, OriginInv, MetAtFile, RemovalInv,
           TurnInv, [Next]_vars
    PROVE  TurnInv'
<1>1. /\ TypeInv /\ files \subseteq Files /\ serial \in Nat /\ born \subseteq 1..serial
      /\ \A f \in files : f.id \in born
  BY FileNumbers DEF NumberInv
<1>2. \A f \in files : InTurn(f)
  BY DEF TurnInv, InTurn
<1>3. SUFFICES ASSUME NEW x \in files' PROVE InTurn(x)'
  BY DEF TurnInv, InTurn
<1>4. CASE FilesUnseen
  <2>1. x \in files /\ raced' = raced /\ sessions' = sessions /\ FileRequests' = FileRequests
    BY <1>4 DEF FilesUnseen
  <2> QED
    BY <1>2, <2>1, TurnKept
<1>5. ASSUME NEW r, FileOpens(r) PROVE InTurn(x)'
  <2>1. /\ x \in files /\ raced \subseteq raced' /\ sessions' = sessions /\ files' = files
        /\ r \in FileRequest
    BY <1>5 DEF FileOpens
  <2>2. /\ \A q \in FileRequests' : q \in FileRequests \/ q = r
        /\ \A q \in FileRequests : q \in FileRequests'
        /\ r \in FileRequests'
    BY <1>5, <2>1 DEF FileOpens, FileRequests, FileRequest
  <2>3. CASE r.file.id # x.id
    BY <1>2, <2>1, <2>2, <2>3, TurnKept
  <2>4. CASE r.file.id = x.id
    <3>1. SUFFICES ASSUME x.signed, x.id \notin raced'
                   PROVE  InTurn(x)'
      BY DEF InTurn
    <3>2. r.file.id # serial + 1
      BY <1>1, <2>1, <2>4
    <3>3. /\ r.phase \in {"checkUrl", "matchFile"}
          /\ raced' = raced \cup {i \in {r.file.id} : AtFile(r.file.id) # {}}
          /\ r.phase = "checkUrl" => r.file \in files
      BY <1>5, <3>2 DEF FileOpens
    <3>4. AtFile(x.id) = {}
      BY <2>4, <3>1, <3>3
    <3>5. SoleSession(x.id, x.url)
      BY <1>2, <2>1, <3>1, <3>4 DEF InTurn
    <3>6. SoleSession(x.id, x.url)'
      BY <2>1, <3>5 DEF SoleSession
    <3>7. r.phase = "checkUrl" => r.file = x
      BY <2>1, <2>4, <3>3 DEF OriginInv, Distinct
    <3>8. AloneAt(x, r)'
      BY <3>3, <3>6, <3>7 DEF AloneAt
    <3>9. \A q \in AtFile(x.id)' : q = r
      BY <2>2, <3>4 DEF AtFile
    <3>10. r \in AtFile(x.id)'
      BY <2>2, <2>4 DEF AtFile
    <3> QED
      BY <3>8, <3>9, <3>10 DEF InTurn
  <2> QED
    BY <2>3, <2>4
<1>6. ASSUME NEW q \in active, AdvanceFile(q) PROVE InTurn(x)'
  <2>1. /\ q \in FileRequests /\ q.file \in Files /\ FilesMove(q) /\ raced \subseteq raced'
        /\ \A r \in FileRequests : r # q => r \in FileRequests'
    BY <1>6, FileSteps
  <2>2. CASE x.id = q.file.id
    <3>1. CASE x.signed /\ x.id \notin raced'
      BY <1>6, <2>2, <3>1, TurnOwn
    <3> QED
      BY <3>1 DEF InTurn
  <2>3. CASE x.id # q.file.id
    <3>1. PICK f \in files : f.id = x.id /\ f.url = x.url /\ f.signed = x.signed
      <4>1. CASE RowCreated(q)
        <5>1. x \in files
          BY <2>3, <4>1 DEF RowCreated
        <5> QED
          BY <5>1
      <4>2. CASE ~RowCreated(q)
        <5>1. PICK f \in files : FileAfter(q, f, x)
          BY <2>1, <4>2 DEF FilesMove
        <5> QED
          BY <2>3, <5>1 DEF FileAfter
      <4> QED
        BY <4>1, <4>2
    <3>2. \A s : s.file = f.id => (s \in sessions' <=> s \in sessions)
      BY <1>6, <2>3, <3>1, OtherSessions
    <3>3. \A r \in FileRequests : r.file.id = f.id => r \in FileRequests'
      BY <2>1, <2>3, <3>1
    <3>4. \A r \in FileRequests' : r.file.id = f.id => r \in FileRequests \/ r.phase = "removeSessions"
      <4>1. CASE AbortFile(q)
        BY <4>1, FileAborts
      <4>2. CASE FindCopies(q)
        BY <1>1, <4>2, CopiesFound
      <4>3. CASE q.phase # "findCopies"
        <5>1. PICK R : /\ active' = (active \ {q}) \cup R
                       /\ \A r \in R : r \in FileRequest /\ GoesOn(q, r)
          BY <1>1, <1>6, FileGoesOn DEF Evolves
        <5>2. \A r \in FileRequests' : (r \in FileRequests /\ r # q) \/ r \in R
          BY <5>1, FileRequestsNext
        <5>3. \A r \in R : r.file.id = q.file.id
          BY <2>1, <4>3, <5>1, FileKept
        <5> QED
          BY <2>3, <3>1, <5>2, <5>3
      <4>4. AbortFile(q) \/ FindCopies(q) \/ q.phase # "findCopies"
        BY <1>6 DEF AdvanceFile, Fetch, PutObject, CreateFile, CreateAccess, CheckUrl,
           FindAccess, WriteAccess, UpdateUrl, MatchFile, StashFile, RemoveSessions,
           RemoveFile, RemoveObject
      <4> QED
        BY <4>1, <4>2, <4>3, <4>4
    <3> QED
      BY <1>2, <2>1, <3>1, <3>2, <3>3, <3>4, TurnKept
  <2> QED
    BY <2>2, <2>3
<1>7. ASSUME NEW w \in Workspaces, DestroyWorkspace(w) PROVE InTurn(x)'
  <2> DEFINE R == {f.id : f \in {f \in files : f.workspace = w}}
  <2>1. files' = WithoutFiles(R) /\ UNCHANGED <<active, sessions, raced>>
    BY <1>7 DEF DestroyWorkspace, DropWorkspace, DropFiles
  <2> HIDE DEF R
  <2>2. PICK f \in files : OutOf(f, x, R)
    BY <1>1, <2>1, FilesWithout
  <2>3. f.id = x.id /\ f.url = x.url /\ f.signed = x.signed /\ FileRequests' = FileRequests
    BY <2>1, <2>2 DEF OutOf, FileRequests
  <2> QED
    BY <1>2, <2>1, <2>3, TurnKept
<1> QED
  BY <1>1, <1>4, <1>5, <1>6, <1>7, FileCases

\* A file has one session for as long as requests come to it one at a time: the
\* renewal of a URL writes the session it found and then the row, and the upload
\* makes the first.
THEOREM SessionsInTurnAreOne == Spec => []OneSessionInTurn
<1> DEFINE I == SessionInv /\ SessionsHaveFile /\ ObjectInv /\ TurnInv
<1>1. Init => I
  <2> SUFFICES ASSUME Init PROVE I
    OBVIOUS
  <2>1. active = {} /\ files = {} /\ sessions = {}
    BY DEF Init, RequestsInit, MediaInit
  <2> QED
    BY <2>1 DEF SessionInv, SessionsHaveFile, ObjectInv, TurnInv
<1>2. NumberInv /\ FileInv /\ I /\ [Next]_vars => I'
  BY SessionInvStep, SessionsHaveFileStep, ObjectInvStep, TurnStep DEF FileInv, NumberInv
<1>3. I => OneSessionInTurn
  <2> SUFFICES ASSUME I, NEW f \in files, f.signed, f.id \notin raced, AtFile(f.id) = {}
               PROVE  /\ {s.url : s \in {s \in sessions : s.file = f.id}} = {f.url}
                      /\ Cardinality({s \in sessions : s.file = f.id}) = 1
    BY DEF OneSessionInTurn
  <2>1. PICK s \in sessions : /\ s.file = f.id /\ s.url = f.url
                              /\ \A t \in sessions : t.file = f.id => t = s
    BY DEF TurnInv, SoleSession
  <2>2. {t \in sessions : t.file = f.id} = {s}
    BY <2>1
  <2>3. Cardinality({s}) = 1
    BY FS_Singleton
  <2> QED
    BY <2>1, <2>2, <2>3
<1> HIDE DEF I
<1> QED
  BY <1>1, <1>2, <1>3, Numbered, FileInvAlways, PTL DEF Spec

-----------------------------------------------------------------------------
(* The three tables implement module Stash                                 *)

LEMMA SerialStep ==
    ASSUME TypeInv, serial <= MaxRequests, [Next]_vars
    PROVE  serial' <= MaxRequests
<1>1. ASSUME Count PROVE serial' <= MaxRequests
  BY <1>1, ContentAssumption DEF Count, TypeInv, TypeOK, RequestsTypeOK
<1>2. ASSUME NEW q \in active,
             \/ AdvancePost(q) /\ UNCHANGED <<folders, looped, fileVars>>
             \/ AdvanceFolder(q) /\ UNCHANGED <<posts, fileVars>>
             \/ AdvanceFile(q) /\ UNCHANGED <<posts, folders, looped>>
             \/ Abort(q) /\ UNCHANGED <<posts, folders, looped, fileVars>>
      PROVE  serial' = serial
  BY <1>2, RequestSteps DEF Step, Served
<1>3. CASE BeginPost
  BY <1>1, <1>3 DEF BeginPost, BeginCreatePost, BeginUpdatePost, BeginStashPost, Start
<1>4. CASE BeginFolder
  BY <1>1, <1>4 DEF BeginFolder, BeginDeleteFolder, Start
<1>5. CASE BeginFile
  BY <1>1, <1>5 DEF BeginFile, BeginUpload, BeginResize, BeginReadUrl, BeginDeleteFile,
     StartAt, Start
<1>6. CASE \/ \E w \in WorkspaceOrNull, parent \in FolderIds \cup {None} : CreateFolder(w, parent)
           \/ \E row \in FolderIds, parent \in FolderIds \cup {None} : MoveFolder(row, parent)
           \/ \E u \in Users, w \in Workspaces : ToggleMember(u, w)
           \/ \E w \in Workspaces : DestroyWorkspace(w)
  BY <1>1, <1>6 DEF CreateFolder, MoveFolder, ToggleMember, DestroyWorkspace, DropWorkspace
<1>7. CASE UNCHANGED vars
  BY <1>7 DEF vars
<1>8. CASE PostNext /\ UNCHANGED <<folders, looped, fileVars>>
  BY <1>2, <1>3, <1>8 DEF PostNext, BeginPost
<1>9. CASE FolderNext /\ UNCHANGED <<posts, fileVars>>
  BY <1>2, <1>4, <1>6, <1>9 DEF FolderNext, BeginFolder
<1>10. CASE MediaNext /\ UNCHANGED <<posts, folders, looped>>
  BY <1>2, <1>5, <1>10 DEF MediaNext, BeginFile
<1> QED
  BY <1>2, <1>6, <1>7, <1>8, <1>9, <1>10 DEF Next

\* RowStates at one row.
HasRow(i) == \E r \in posts \cup folders \cup files : r.id = i
HasStashed(i) == \E r \in posts \cup folders \cup files : r.id = i /\ r.stashed

RowAt(i) ==
    IF HasRow(i) THEN IF HasStashed(i) THEN "stashed" ELSE "active"
                 ELSE IF i \in born THEN "gone" ELSE "absent"

\* What becomes of the rows of the tables taken together.
RowMade(n) ==
    /\ n \in 1..MaxRequests /\ n \notin born /\ born' = born \cup {n}
    /\ \A i : (HasRow(i)' <=> HasRow(i) \/ i = n) /\ (HasStashed(i)' <=> HasStashed(i))

RowPutAway(n) ==
    /\ HasRow(n) /\ born' = born
    /\ \A i : (HasRow(i)' <=> HasRow(i)) /\ (HasStashed(i)' <=> HasStashed(i) \/ i = n)

RowRestored(n) ==
    /\ HasRow(n) /\ born' = born
    /\ \A i : (HasRow(i)' <=> HasRow(i)) /\ (HasStashed(i)' <=> HasStashed(i) /\ i # n)

RowsGone(R) ==
    /\ born' = born
    /\ \A i : /\ HasRow(i)' <=> HasRow(i) /\ i \notin R
              /\ HasStashed(i)' <=> HasStashed(i) /\ i \notin R

RowEvent ==
    \/ \E n : RowMade(n) \/ RowPutAway(n) \/ RowRestored(n)
    \/ \E R : RowsGone(R)

\* How the mapped state changes, row by row.
Turned(R, state) ==
    \A i \in 1..MaxRequests : RowAt(i)' = IF i \in R THEN state ELSE RowAt(i)

LEMMA RowStatesAt ==
    /\ RowStates = [i \in 1..MaxRequests |-> RowAt(i)]
    /\ RowStates' = [i \in 1..MaxRequests |-> RowAt(i)']
  BY DEF RowStates, RowAt, HasRow, HasStashed

LEMMA RowsTurn ==
    ASSUME NEW R, NEW state, R \subseteq 1..MaxRequests, Turned(R, state)
    PROVE  /\ R = {} => UNCHANGED RowStates
           /\ Row!Change(R, state)
<1>1. RowStates' = [i \in 1..MaxRequests |-> IF i \in R THEN state ELSE RowStates[i]]
  BY RowStatesAt DEF Turned
<1>2. R = {} => RowStates' = RowStates
  BY RowStatesAt, <1>1
<1> QED
  BY <1>1, <1>2 DEF Row!Change

LEMMA RowEvents ==
    ASSUME NumberInv, serial <= MaxRequests, RowEvent
    PROVE  Row!Next \/ UNCHANGED RowStates
<1>1. /\ \A i : HasRow(i) => i \in born /\ i \in 1..MaxRequests
      /\ \A i : HasStashed(i) => HasRow(i)
  <2>1. serial \in Nat /\ born \subseteq 1..serial /\ MaxRequests \in Nat
    BY ContentAssumption DEF NumberInv, RowIds, TypeInv, TypeOK, RequestsTypeOK
  <2>2. \A i : HasRow(i) => i \in born
    BY DEF NumberInv, RowIds, HasRow
  <2>3. \A i \in 1..serial : i \in 1..MaxRequests
    BY <2>1
  <2> QED
    BY <2>1, <2>2, <2>3 DEF HasRow, HasStashed
<1>2. ASSUME NEW n, RowMade(n) PROVE Row!Next
  <2>1. n \in 1..MaxRequests /\ RowAt(n) = "absent"
    BY <1>1, <1>2 DEF RowMade, RowAt
  <2>2. Turned({n}, "active")
    BY <1>1, <1>2 DEF Turned, RowMade, RowAt
  <2>3. Row!Change({n}, "active")
    BY <2>1, <2>2, RowsTurn
  <2>4. Row!Create(n)
    BY <2>1, <2>3, RowStatesAt DEF Row!Create
  <2> QED
    BY <2>1, <2>4 DEF Row!Next
<1>3. ASSUME NEW n, RowPutAway(n) PROVE Row!Next \/ UNCHANGED RowStates
  <2>1. n \in 1..MaxRequests /\ HasRow(n)
    BY <1>1, <1>3 DEF RowPutAway
  <2>2. CASE HasStashed(n)
    <3>1. Turned({}, "stashed")
      BY <1>3, <2>2 DEF Turned, RowPutAway, RowAt
    <3> QED
      BY <3>1, RowsTurn
  <2>3. CASE ~HasStashed(n)
    <3>1. RowAt(n) = "active" /\ Turned({n}, "stashed")
      BY <1>3, <2>1, <2>3 DEF Turned, RowPutAway, RowAt
    <3>2. Row!PutAway(n)
      BY <2>1, <3>1, RowsTurn, RowStatesAt DEF Row!PutAway
    <3> QED
      BY <2>1, <3>2 DEF Row!Next
  <2> QED
    BY <2>2, <2>3
<1>4. ASSUME NEW n, RowRestored(n) PROVE Row!Next \/ UNCHANGED RowStates
  <2>1. n \in 1..MaxRequests /\ HasRow(n)
    BY <1>1, <1>4 DEF RowRestored
  <2>2. CASE ~HasStashed(n)
    <3>1. Turned({}, "active")
      BY <1>4, <2>2 DEF Turned, RowRestored, RowAt
    <3> QED
      BY <3>1, RowsTurn
  <2>3. CASE HasStashed(n)
    <3>1. RowAt(n) = "stashed" /\ Turned({n}, "active")
      BY <1>4, <2>1, <2>3 DEF Turned, RowRestored, RowAt
    <3>2. Row!Restore(n)
      BY <2>1, <3>1, RowsTurn, RowStatesAt DEF Row!Restore
    <3> QED
      BY <2>1, <3>2 DEF Row!Next
  <2> QED
    BY <2>2, <2>3
<1>5. ASSUME NEW R, RowsGone(R) PROVE Row!Next \/ UNCHANGED RowStates
  <2> DEFINE S == {i \in 1..MaxRequests : i \in R /\ HasRow(i)}
  <2>1. S \in SUBSET Row!Live
    BY RowStatesAt DEF Row!Live, RowAt
  <2>2. Turned(S, "gone")
    BY <1>1, <1>5 DEF Turned, RowsGone, RowAt
  <2>3. S \subseteq 1..MaxRequests
    OBVIOUS
  <2> HIDE DEF S
  <2>4. Row!Change(S, "gone") /\ (S = {} => UNCHANGED RowStates)
    BY <2>2, <2>3, RowsTurn
  <2> QED
    BY <2>1, <2>4 DEF Row!Next, Row!Destroy
<1> QED
  BY <1>2, <1>3, <1>4, <1>5 DEF RowEvent

\* The rows of one table.
In(t, i) == \E r \in t : r.id = i
PutIn(t, i) == \E r \in t : r.id = i /\ r.stashed

\* The rows in R went.
Less(t, u, R) ==
    \A i : /\ In(u, i) <=> In(t, i) /\ i \notin R
           /\ PutIn(u, i) <=> PutIn(t, i) /\ i \notin R

\* What becomes of one table: a row is made, put away, or restored, or rows go.
TableStep(t, u) ==
    \/ \E n : /\ n \in 1..MaxRequests /\ n \notin born /\ born' = born \cup {n}
              /\ \A i : (In(u, i) <=> In(t, i) \/ i = n) /\ (PutIn(u, i) <=> PutIn(t, i))
    \/ /\ born' = born
       /\ \/ \E n : /\ In(t, n)
                    /\ \A i : (In(u, i) <=> In(t, i)) /\ (PutIn(u, i) <=> PutIn(t, i) \/ i = n)
          \/ \E n : /\ In(t, n)
                    /\ \A i : (In(u, i) <=> In(t, i)) /\ (PutIn(u, i) <=> PutIn(t, i) /\ i # n)
          \/ \E R : Less(t, u, R)

\* No two rows of the tables have one id.
Apart ==
    \A i : /\ ~(In(posts, i) /\ In(folders, i))
           /\ ~(In(posts, i) /\ In(files, i))
           /\ ~(In(folders, i) /\ In(files, i))

LEMMA OneTable ==
    ASSUME NEW t, NEW u, NEW a, NEW b, TableStep(t, u),
           \A i : /\ HasRow(i) <=> In(t, i) \/ In(a, i) \/ In(b, i)
                  /\ HasStashed(i) <=> PutIn(t, i) \/ PutIn(a, i) \/ PutIn(b, i)
                  /\ HasRow(i)' <=> In(u, i) \/ In(a, i) \/ In(b, i)
                  /\ HasStashed(i)' <=> PutIn(u, i) \/ PutIn(a, i) \/ PutIn(b, i),
           \A i : In(t, i) => ~In(a, i) /\ ~In(b, i)
    PROVE  RowEvent
<1>1. \A i : PutIn(a, i) \/ PutIn(b, i) => ~In(t, i)
  BY DEF PutIn, In
<1>2. \A i : PutIn(t, i) => In(t, i)
  BY DEF PutIn, In
<1>3. ASSUME NEW n, n \in 1..MaxRequests, n \notin born, born' = born \cup {n},
             \A i : (In(u, i) <=> In(t, i) \/ i = n) /\ (PutIn(u, i) <=> PutIn(t, i))
      PROVE  RowMade(n)
  BY <1>3 DEF RowMade
<1>4. ASSUME NEW n, born' = born, In(t, n),
             \A i : (In(u, i) <=> In(t, i)) /\ (PutIn(u, i) <=> PutIn(t, i) \/ i = n)
      PROVE  RowPutAway(n)
  BY <1>4 DEF RowPutAway
<1>5. ASSUME NEW n, born' = born, In(t, n),
             \A i : (In(u, i) <=> In(t, i)) /\ (PutIn(u, i) <=> PutIn(t, i) /\ i # n)
      PROVE  RowRestored(n)
  BY <1>1, <1>5 DEF RowRestored
<1>6. ASSUME NEW R, born' = born, Less(t, u, R)
      PROVE  \E S : RowsGone(S)
  <2> DEFINE S == {r.id : r \in {r \in t : r.id \in R}}
  <2>1. \A i : i \in S <=> In(t, i) /\ i \in R
    BY DEF In
  <2> HIDE DEF S
  <2>2. RowsGone(S)
    BY <1>1, <1>2, <1>6, <2>1 DEF RowsGone, Less
  <2> QED
    BY <2>2
<1> QED
  BY <1>3, <1>4, <1>5, <1>6 DEF TableStep, RowEvent

\* x is the row r, as it was, put away, or restored.
Same(r, x) == x.id = r.id /\ (x.stashed <=> r.stashed)
Away(r, x, n) == x.id = r.id /\ (x.stashed <=> r.stashed \/ r.id = n)
Back(r, x, n) == x.id = r.id /\ (x.stashed <=> r.stashed /\ r.id # n)

LEMMA TableKept ==
    ASSUME NEW t, NEW u, born' = born,
           \A x \in u : \E r \in t : Same(r, x),
           \A r \in t : \E x \in u : Same(r, x)
    PROVE  TableStep(t, u)
<1> DEFINE R == {}
<1>1. Less(t, u, R)
  BY DEF In, PutIn, Same, Less
<1> HIDE DEF R
<1> QED
  BY <1>1 DEF TableStep

LEMMA TablePutAway ==
    ASSUME NEW t, NEW u, NEW n, born' = born,
           \A x \in u : \E r \in t : Away(r, x, n),
           \A r \in t : \E x \in u : Away(r, x, n)
    PROVE  TableStep(t, u)
<1>1. CASE In(t, n)
  <2>1. \A i : (In(u, i) <=> In(t, i)) /\ (PutIn(u, i) <=> PutIn(t, i) \/ i = n)
    BY <1>1 DEF In, PutIn, Away, Back
  <2> QED
    BY <1>1, <2>1 DEF TableStep
<1>2. CASE ~In(t, n)
  BY <1>2, TableKept DEF In, Same, Away, Back
<1> QED
  BY <1>1, <1>2

LEMMA TableRestored ==
    ASSUME NEW t, NEW u, NEW n, born' = born,
           \A x \in u : \E r \in t : Back(r, x, n),
           \A r \in t : \E x \in u : Back(r, x, n)
    PROVE  TableStep(t, u)
<1>1. CASE In(t, n)
  <2>1. \A i : (In(u, i) <=> In(t, i)) /\ (PutIn(u, i) <=> PutIn(t, i) /\ i # n)
    BY <1>1 DEF In, PutIn, Away, Back
  <2> QED
    BY <1>1, <2>1 DEF TableStep
<1>2. CASE ~In(t, n)
  BY <1>2, TableKept DEF In, Same, Away, Back
<1> QED
  BY <1>1, <1>2

LEMMA TableWithout ==
    ASSUME NEW t, NEW u, NEW R,
           \A x \in u : x.id \notin R /\ \E r \in t : Same(r, x),
           \A r \in t : r.id \in R \/ \E x \in u : Same(r, x)
    PROVE  Less(t, u, R)
  BY DEF In, PutIn, Same, Less

LEMMA TableMade ==
    ASSUME NEW t, NEW x, NEW n, n \in 1..MaxRequests, n \notin born, born' = born \cup {n},
           \A r \in t : r.id \in born, x.id = n, ~x.stashed
    PROVE  TableStep(t, t \cup {x})
<1> DEFINE u == t \cup {x}
<1>1. \A r : r \in u <=> r \in t \/ r = x
  OBVIOUS
<1> HIDE DEF u
<1>2. \A i : (In(u, i) <=> In(t, i) \/ i = n) /\ (PutIn(u, i) <=> PutIn(t, i))
  BY <1>1 DEF In, PutIn
<1>3. TableStep(t, u)
  BY <1>2 DEF TableStep
<1> QED
  BY <1>3 DEF u

LEMMA PostsTable ==
    ASSUME NumberInv, serial <= MaxRequests, NEW q \in active, AdvancePost(q)
    PROVE  TableStep(posts, posts')
<1>1. posts \subseteq Posts /\ \A p \in posts : p.id \in born
  BY DEF NumberInv, RowIds, TypeInv, TypeOK, PostTypeOK
<1>2. CASE CreatePost(q)
  <2>1. q.row \in 1..MaxRequests /\ q.row \notin born
    <3>1. q.phase = "createPost" /\ serial \in Nat /\ MaxRequests \in Nat
      BY <1>2, ContentAssumption DEF CreatePost, NumberInv, TypeInv, TypeOK, RequestsTypeOK
    <3>2. q.row = q.id /\ q.id \notin born /\ q.id \in 1..serial
      BY <3>1 DEF NumberInv, RequestIds, RowIds, RowNumber, NewPost
    <3> QED
      BY <3>1, <3>2
  <2> DEFINE x == [id |-> q.row, workspace |-> q.workspace, stashed |-> FALSE,
                   author |-> AuthorOf(q)]
  <2>2. x.id = q.row /\ ~x.stashed
    OBVIOUS
  <2>3. \/ posts' = posts \cup {x} /\ born' = born \cup {q.row}
        \/ posts' = posts /\ born' = born
    BY <1>2 DEF CreatePost
  <2> HIDE DEF x
  <2> QED
    BY <1>1, <2>1, <2>2, <2>3, TableMade, TableKept DEF Same
<1>3. CASE UpdatePost(q)
  <2> DEFINE h(p) == IF p.id = q.row /\ q.author # NotGiven THEN [p EXCEPT !.author = q.author] ELSE p
  <2>1. \A p \in posts : Same(p, h(p))
    BY <1>1 DEF Posts, Same, Away, Back
  <2>2. posts' = {h(p) : p \in posts} /\ born' = born
    BY <1>3 DEF UpdatePost, observed
  <2> HIDE DEF h
  <2>3. /\ \A x \in posts' : \E p \in posts : Same(p, x)
        /\ \A p \in posts : \E x \in posts' : Same(p, x)
    BY <2>1, <2>2
  <2> QED
    BY <2>2, <2>3, TableKept
<1>4. CASE StashPost(q)
  <2> DEFINE h(p) == IF p.id = q.row THEN [p EXCEPT !.stashed = TRUE] ELSE p
  <2>1. \A p \in posts : Away(p, h(p), q.row)
    BY <1>1 DEF Posts, Same, Away, Back
  <2>2. posts' = {h(p) : p \in posts} /\ born' = born
    BY <1>4 DEF StashPost, observed
  <2> HIDE DEF h
  <2>3. /\ \A x \in posts' : \E p \in posts : Away(p, x, q.row)
        /\ \A p \in posts : \E x \in posts' : Away(p, x, q.row)
    BY <2>1, <2>2
  <2> QED
    BY <2>2, <2>3, TablePutAway
<1>5. CASE RestorePost(q)
  <2> DEFINE h(p) == IF p.id = q.row THEN [p EXCEPT !.stashed = FALSE] ELSE p
  <2>1. \A p \in posts : Back(p, h(p), q.row)
    BY <1>1 DEF Posts, Same, Away, Back
  <2>2. posts' = {h(p) : p \in posts} /\ born' = born
    BY <1>5 DEF RestorePost, Restored
  <2> HIDE DEF h
  <2>3. /\ \A x \in posts' : \E p \in posts : Back(p, x, q.row)
        /\ \A p \in posts : \E x \in posts' : Back(p, x, q.row)
    BY <2>1, <2>2
  <2> QED
    BY <2>2, <2>3, TableRestored
<1>6. CASE DestroyPost(q)
  <2> DEFINE R == {q.row}
  <2>1. born' = born /\ posts' = {p \in posts : p.id \notin R}
    BY <1>6 DEF DestroyPost, observed
  <2> HIDE DEF R
  <2>2. Less(posts, posts', R)
    BY <2>1, TableWithout DEF Same
  <2> QED
    BY <2>1, <2>2 DEF TableStep
<1>7. CASE CheckAuthor(q) \/ FindPost(q) \/ CheckCaller(q) \/ MatchPost(q)
  <2>1. posts' = posts /\ born' = born
    BY <1>7 DEF CheckAuthor, FindPost, CheckCaller, MatchPost, observed
  <2> QED
    BY <2>1, TableKept DEF Same
<1> QED
  BY <1>2, <1>3, <1>4, <1>5, <1>6, <1>7 DEF AdvancePost

LEMMA FoldersWithout ==
    ASSUME folders \subseteq Folders, NEW R, folders' = WithoutFolders(R)
    PROVE  Less(folders, folders', R)
<1> DEFINE h(f) == IF f.parent \in R THEN [f EXCEPT !.parent = None] ELSE f
<1>1. \A f \in folders : Same(f, h(f))
  BY DEF Folders, Same
<1>2. folders' = {h(f) : f \in {f \in folders : f.id \notin R}}
  BY DEF WithoutFolders
<1> HIDE DEF h
<1>3. /\ \A x \in folders' : x.id \notin R /\ \E f \in folders : Same(f, x)
      /\ \A f \in folders : f.id \in R \/ \E x \in folders' : Same(f, x)
  BY <1>1, <1>2 DEF Same
<1> QED
  BY <1>3, TableWithout

LEMMA FoldersTable ==
    ASSUME NumberInv, serial <= MaxRequests,
           \/ \E w \in WorkspaceOrNull, parent \in FolderIds \cup {None} : CreateFolder(w, parent)
           \/ \E row \in FolderIds, parent \in FolderIds \cup {None} : MoveFolder(row, parent)
           \/ \E q \in active : AdvanceFolder(q)
    PROVE  TableStep(folders, folders')
<1>1. /\ folders \subseteq Folders /\ \A f \in folders : f.id \in born
      /\ serial \in Nat /\ MaxRequests \in Nat /\ born \subseteq 1..serial
  BY ContentAssumption DEF NumberInv, RowIds, TypeInv, TypeOK, FolderTypeOK, RequestsTypeOK
<1>2. ASSUME NEW w \in WorkspaceOrNull, NEW parent \in FolderIds \cup {None}, CreateFolder(w, parent)
      PROVE  TableStep(folders, folders')
  <2> DEFINE x == [id |-> serial + 1, parent |-> parent, workspace |-> w, stashed |-> FALSE]
             n == serial + 1
  <2>1. x.id = n /\ ~x.stashed /\ folders' = folders \cup {x} /\ born' = born \cup {n}
    BY <1>2 DEF CreateFolder
  <2>2. n \in 1..MaxRequests /\ n \notin born
    BY <1>1, <1>2 DEF CreateFolder, Count
  <2> HIDE DEF x, n
  <2> QED
    BY <1>1, <2>1, <2>2, TableMade
<1>3. ASSUME NEW row \in FolderIds, NEW parent \in FolderIds \cup {None}, MoveFolder(row, parent)
      PROVE  TableStep(folders, folders')
  <2> DEFINE h(f) == IF f.id = row THEN [f EXCEPT !.parent = parent] ELSE f
  <2>1. \A f \in folders : Same(f, h(f))
    BY <1>1 DEF Folders, Same
  <2>2. folders' = {h(f) : f \in folders} /\ born' = born
    BY <1>3 DEF MoveFolder, observed
  <2> HIDE DEF h
  <2>3. /\ \A x \in folders' : \E f \in folders : Same(f, x)
        /\ \A f \in folders : \E x \in folders' : Same(f, x)
    BY <2>1, <2>2
  <2> QED
    BY <2>2, <2>3, TableKept
<1>4. ASSUME NEW q \in active, StashFolder(q) PROVE TableStep(folders, folders')
  <2> DEFINE h(f) == IF f.id = q.row THEN [f EXCEPT !.stashed = TRUE] ELSE f
  <2>1. \A f \in folders : Away(f, h(f), q.row)
    BY <1>1 DEF Folders, Away
  <2>2. folders' = {h(f) : f \in folders} /\ born' = born
    BY <1>4 DEF StashFolder, PutAway, observed
  <2> HIDE DEF h
  <2>3. /\ \A x \in folders' : \E f \in folders : Away(f, x, q.row)
        /\ \A f \in folders : \E x \in folders' : Away(f, x, q.row)
    BY <2>1, <2>2
  <2> QED
    BY <2>2, <2>3, TablePutAway
<1>5. ASSUME NEW q \in active, DestroyFolder(q) PROVE TableStep(folders, folders')
  <2>1. born' = born /\ folders' = WithoutFolders({q.row})
    BY <1>5 DEF DestroyFolder, observed
  <2>2. Less(folders, folders', {q.row})
    BY <1>1, <2>1, FoldersWithout
  <2> QED
    BY <2>1, <2>2 DEF TableStep
<1>6. ASSUME NEW q \in active, MatchFolder(q) PROVE TableStep(folders, folders')
  <2>1. folders' = folders /\ born' = born
    BY <1>6 DEF MatchFolder, observed
  <2> QED
    BY <2>1, TableKept DEF Same
<1> QED
  BY <1>2, <1>3, <1>4, <1>5, <1>6 DEF AdvanceFolder

LEMMA FilesLess ==
    ASSUME files \subseteq Files, NEW R, files' = WithoutFiles(R)
    PROVE  Less(files, files', R)
<1>1. /\ \A x \in files' : x.id \notin R /\ \E f \in files : OutOf(f, x, R)
      /\ \A f \in files : f.id \in R \/ \E x \in files' : OutOf(f, x, R)
  BY FilesWithout
<1>2. \A f, x : OutOf(f, x, R) => Same(f, x)
  BY DEF OutOf, Same
<1> QED
  BY <1>1, <1>2, TableWithout

LEMMA FilesTable ==
    ASSUME NumberInv, OriginInv, serial <= MaxRequests, NEW q \in active, AdvanceFile(q)
    PROVE  TableStep(files, files')
<1>1. /\ FilesMove(q) /\ q \in FileRequests /\ serial \in Nat /\ MaxRequests \in Nat
      /\ files \subseteq Files
      /\ \A f \in files : f.id \in born
  BY FileSteps, FileNumbers, ContentAssumption DEF NumberInv
<1>2. CASE RowCreated(q)
  <2>1. /\ q.file.id \in 1..serial /\ q.file.id \notin born /\ ~q.file.stashed
    BY <1>1, <1>2, FileNumbers DEF RowCreated, NewFile, OriginInv
  <2>2. q.file.id \in 1..MaxRequests
    BY <1>1, <2>1
  <2>3. files' = files \cup {q.file} /\ born' = born \cup {q.file.id}
    BY <1>2 DEF RowCreated
  <2> QED
    BY <1>1, <2>1, <2>2, <2>3, TableMade
<1>3. CASE StashFile(q)
  <2> DEFINE n == q.file.id
  <2>1. q.phase = "stashFile" /\ ~UpdateUrl(q)
    BY <1>3 DEF StashFile, UpdateUrl
  <2>2. /\ born' = born
        /\ \A x \in files' : \E f \in files : FileAfter(q, f, x)
        /\ \A f \in files : \E x \in files' : FileAfter(q, f, x)
    BY <1>1, <2>1 DEF FilesMove, RowCreated, RowDeleted
  <2>3. \A f, x : FileAfter(q, f, x) => Away(f, x, n)
    BY <1>3 DEF FileAfter, Away
  <2> HIDE DEF n
  <2> QED
    BY <2>2, <2>3, TablePutAway
<1>4. CASE RemoveFile(q)
  <2>1. born' = born
    BY <1>4 DEF RemoveFile, observed
  <2>2. CASE files' = files
    BY <2>1, <2>2, TableKept DEF Same
  <2>3. CASE files' = WithoutFiles({q.file.id})
    <3>1. Less(files, files', {q.file.id})
      BY <1>1, <2>3, FilesLess
    <3> QED
      BY <2>1, <3>1 DEF TableStep
  <2> QED
    BY <1>4, <2>2, <2>3 DEF RemoveFile
<1>5. CASE ~RowCreated(q) /\ ~StashFile(q) /\ ~RemoveFile(q)
  <2>1. /\ born' = born
        /\ \A x \in files' : \E f \in files : FileAfter(q, f, x)
        /\ \A f \in files : \/ \E x \in files' : FileAfter(q, f, x)
                            \/ RowDeleted(q) /\ f.id = q.file.id
    BY <1>1, <1>5 DEF FilesMove
  <2>2. \A f, x : FileAfter(q, f, x) => Same(f, x)
    BY <1>5 DEF FileAfter, Same
  <2>3. CASE q.phase = "removeFile"
    <3>1. files' = files
      BY <1>5, <2>3 DEF AdvanceFile, Fetch, PutObject, CreateFile, CreateAccess, CheckUrl,
         FindAccess, WriteAccess, UpdateUrl, MatchFile, FindCopies, RemoveSessions,
         RemoveObject, AbortFile
    <3> QED
      BY <2>1, <3>1, TableKept DEF Same
  <2>4. CASE q.phase # "removeFile"
    BY <2>1, <2>2, <2>4, TableKept DEF RowDeleted
  <2> QED
    BY <2>3, <2>4
<1> QED
  BY <1>2, <1>3, <1>4, <1>5

\* The steps there are, as the tables see them.
TableSteps ==
    \/ TableStep(posts, posts') /\ UNCHANGED <<folders, files>>
    \/ TableStep(folders, folders') /\ UNCHANGED <<posts, files>>
    \/ TableStep(files, files') /\ UNCHANGED <<posts, folders>>

LEMMA TableCases ==
    ASSUME NumberInv, OriginInv, serial <= MaxRequests, [Next]_vars
    PROVE  TableSteps \/ \E w \in Workspaces : DestroyWorkspace(w)
<1>1. TypeInv
  BY DEF NumberInv
<1>2. ASSUME UNCHANGED <<posts, folders, files, born>>
      PROVE  TableSteps
  <2>1. TableStep(posts, posts')
    BY <1>2, TableKept DEF Same
  <2> QED
    BY <1>2, <2>1 DEF TableSteps
<1>3. CASE UNCHANGED vars \/ Begins
  BY <1>2, <1>3 DEF vars, fileVars, Begins
<1>4. ASSUME NEW q \in active, AdvancePost(q), UNCHANGED <<folders, looped, fileVars>>
      PROVE  TableSteps
  BY <1>4, PostsTable DEF TableSteps, fileVars
<1>5. ASSUME NEW q \in active, AdvanceFolder(q), UNCHANGED <<posts, fileVars>>
      PROVE  TableSteps
  BY <1>5, FoldersTable DEF TableSteps, fileVars
<1>6. ASSUME NEW q \in active, AdvanceFile(q), UNCHANGED <<posts, folders, looped>>
      PROVE  TableSteps
  BY <1>6, FilesTable DEF TableSteps
<1>7. ASSUME NEW q \in active, Abort(q), UNCHANGED <<posts, folders, looped, fileVars>>
      PROVE  TableSteps
  BY <1>2, <1>7 DEF Abort, observed, fileVars
<1>8. ASSUME NEW w \in WorkspaceOrNull, NEW parent \in FolderIds \cup {None},
             CreateFolder(w, parent), UNCHANGED <<posts, fileVars>>
      PROVE  TableSteps
  BY <1>8, FoldersTable DEF TableSteps, fileVars
<1>9. ASSUME NEW row \in FolderIds, NEW parent \in FolderIds \cup {None},
             MoveFolder(row, parent), UNCHANGED <<posts, fileVars>>
      PROVE  TableSteps
  BY <1>9, FoldersTable DEF TableSteps, fileVars
<1>10. ASSUME NEW u \in Users, NEW w \in Workspaces, ToggleMember(u, w),
              UNCHANGED <<posts, folders, looped, fileVars>>
       PROVE  TableSteps
  BY <1>2, <1>10 DEF ToggleMember, observed, fileVars
<1> QED
  BY <1>1, <1>3, <1>4, <1>5, <1>6, <1>7, <1>8, <1>9, <1>10, NextCases

\* All rows of a workspace, with the workspace.
LEMMA TablesLess ==
    ASSUME NumberInv, NEW w \in Workspaces, DestroyWorkspace(w)
    PROVE  /\ born' = born
           /\ \E R : Less(posts, posts', R) /\ \A i \in R : In(posts, i)
           /\ \E R : Less(folders, folders', R) /\ \A i \in R : In(folders, i)
           /\ \E R : Less(files, files', R) /\ \A i \in R : In(files, i)
<1>1. born' = born /\ Distinct(posts) /\ folders \subseteq Folders /\ files \subseteq Files
  BY DEF DestroyWorkspace, DropWorkspace, observed, NumberInv, RowIds, TypeInv, TypeOK,
     FolderTypeOK, MediaTypeOK
<1>2. \E R : Less(posts, posts', R) /\ \A i \in R : In(posts, i)
  <2> DEFINE R == {p.id : p \in {p \in posts : p.workspace = w}}
  <2>1. posts' = {p \in posts : p.workspace # w}
    BY DEF DestroyWorkspace, DropPosts
  <2>2. \A i : i \in R <=> \E p \in posts : p.id = i /\ p.workspace = w
    OBVIOUS
  <2> HIDE DEF R
  <2>3. /\ \A x \in posts' : x.id \notin R /\ \E p \in posts : Same(p, x)
        /\ \A p \in posts : p.id \in R \/ \E x \in posts' : Same(p, x)
    BY <1>1, <2>1, <2>2 DEF Distinct, Same
  <2>4. Less(posts, posts', R)
    BY <2>3, TableWithout
  <2> QED
    BY <2>2, <2>4 DEF In
<1>3. \E R : Less(folders, folders', R) /\ \A i \in R : In(folders, i)
  <2> DEFINE R == {f.id : f \in {f \in folders : f.workspace = w}}
  <2>1. folders' = WithoutFolders(R)
    BY DEF DestroyWorkspace, DropFolders
  <2>2. \A i \in R : In(folders, i)
    BY DEF In
  <2> HIDE DEF R
  <2>3. Less(folders, folders', R)
    BY <1>1, <2>1, FoldersWithout
  <2> QED
    BY <2>2, <2>3
<1>4. \E R : Less(files, files', R) /\ \A i \in R : In(files, i)
  <2> DEFINE R == {f.id : f \in {f \in files : f.workspace = w}}
  <2>1. files' = WithoutFiles(R)
    BY DEF DestroyWorkspace, DropFiles
  <2>2. \A i \in R : In(files, i)
    BY DEF In
  <2> HIDE DEF R
  <2>3. Less(files, files', R)
    BY <1>1, <2>1, FilesLess
  <2> QED
    BY <2>2, <2>3
<1> QED
  BY <1>1, <1>2, <1>3, <1>4

LEMMA TableIn ==
    ASSUME NEW t, NEW u, TableStep(t, u), NEW i, In(u, i)
    PROVE  In(t, i) \/ i \notin born
  BY DEF TableStep, Less

LEMMA ApartStep ==
    ASSUME NumberInv, OriginInv, serial <= MaxRequests, Apart, [Next]_vars
    PROVE  Apart'
<1>1. \A i : In(posts, i) \/ In(folders, i) \/ In(files, i) => i \in born
  BY DEF NumberInv, RowIds, In
<1>2. ASSUME NEW i, In(posts', i) => In(posts, i), In(folders', i) => In(folders, i),
             In(files', i) => In(files, i)
      PROVE  /\ ~(In(posts', i) /\ In(folders', i))
             /\ ~(In(posts', i) /\ In(files', i))
             /\ ~(In(folders', i) /\ In(files', i))
  BY <1>2 DEF Apart
<1>3. SUFFICES ASSUME NEW i
               PROVE  /\ ~(In(posts', i) /\ In(folders', i))
                      /\ ~(In(posts', i) /\ In(files', i))
                      /\ ~(In(folders', i) /\ In(files', i))
  BY DEF Apart, In
<1>4. CASE \E w \in Workspaces : DestroyWorkspace(w)
  <2>1. /\ In(posts', i) => In(posts, i)
        /\ In(folders', i) => In(folders, i)
        /\ In(files', i) => In(files, i)
    BY <1>4, TablesLess DEF Less
  <2> QED
    BY <1>2, <2>1
<1>5. CASE TableStep(posts, posts') /\ UNCHANGED <<folders, files>>
  BY <1>1, <1>2, <1>5, TableIn
<1>6. CASE TableStep(folders, folders') /\ UNCHANGED <<posts, files>>
  BY <1>1, <1>2, <1>6, TableIn
<1>7. CASE TableStep(files, files') /\ UNCHANGED <<posts, folders>>
  BY <1>1, <1>2, <1>7, TableIn
<1> QED
  BY <1>4, <1>5, <1>6, <1>7, TableCases DEF TableSteps

LEMMA RowsStep ==
    ASSUME NumberInv, OriginInv, serial <= MaxRequests, Apart, [Next]_vars
    PROVE  Row!Next \/ UNCHANGED RowStates
<1>1. /\ \A i : HasRow(i) <=> In(posts, i) \/ In(folders, i) \/ In(files, i)
      /\ \A i : HasStashed(i) <=> PutIn(posts, i) \/ PutIn(folders, i) \/ PutIn(files, i)
      /\ \A i : HasRow(i)' <=> In(posts', i) \/ In(folders', i) \/ In(files', i)
      /\ \A i : HasStashed(i)' <=> PutIn(posts', i) \/ PutIn(folders', i) \/ PutIn(files', i)
  BY DEF HasRow, HasStashed, In, PutIn
<1>2. /\ \A i : PutIn(posts, i) => In(posts, i)
      /\ \A i : PutIn(folders, i) => In(folders, i)
      /\ \A i : PutIn(files, i) => In(files, i)
  BY DEF In, PutIn
<1>3. CASE TableStep(posts, posts') /\ UNCHANGED <<folders, files>>
  <2>1. \A i : In(posts, i) => ~In(folders, i) /\ ~In(files, i)
    BY DEF Apart
  <2> QED
    BY <1>1, <1>3, <2>1, OneTable, RowEvents
<1>4. CASE TableStep(folders, folders') /\ UNCHANGED <<posts, files>>
  <2>1. \A i : In(folders, i) => ~In(posts, i) /\ ~In(files, i)
    BY DEF Apart
  <2> QED
    BY <1>1, <1>4, <2>1, OneTable, RowEvents
<1>5. CASE TableStep(files, files') /\ UNCHANGED <<posts, folders>>
  <2>1. \A i : In(files, i) => ~In(posts, i) /\ ~In(folders, i)
    BY DEF Apart
  <2> QED
    BY <1>1, <1>5, <2>1, OneTable, RowEvents
<1>6. ASSUME NEW w \in Workspaces, DestroyWorkspace(w)
      PROVE  RowEvent
  <2>1. PICK P : Less(posts, posts', P) /\ \A i \in P : In(posts, i)
    BY <1>6, TablesLess
  <2>2. PICK F : Less(folders, folders', F) /\ \A i \in F : In(folders, i)
    BY <1>6, TablesLess
  <2>3. PICK M : Less(files, files', M) /\ \A i \in M : In(files, i)
    BY <1>6, TablesLess
  <2>4. born' = born
    BY <1>6, TablesLess
  <2> DEFINE R == P \cup F \cup M
  <2>5. ASSUME NEW i
        PROVE  /\ HasRow(i)' <=> HasRow(i) /\ i \notin R
               /\ HasStashed(i)' <=> HasStashed(i) /\ i \notin R
    <3>1. /\ In(posts, i) => i \notin F /\ i \notin M
          /\ In(folders, i) => i \notin P /\ i \notin M
          /\ In(files, i) => i \notin P /\ i \notin F
      BY <2>1, <2>2, <2>3 DEF Apart
    <3>2. /\ In(posts', i) <=> In(posts, i) /\ i \notin P
          /\ In(folders', i) <=> In(folders, i) /\ i \notin F
          /\ In(files', i) <=> In(files, i) /\ i \notin M
      BY <2>1, <2>2, <2>3 DEF Less
    <3>3. /\ PutIn(posts', i) <=> PutIn(posts, i) /\ i \notin P
          /\ PutIn(folders', i) <=> PutIn(folders, i) /\ i \notin F
          /\ PutIn(files', i) <=> PutIn(files, i) /\ i \notin M
      BY <2>1, <2>2, <2>3 DEF Less
    <3> QED
      BY <1>1, <1>2, <3>1, <3>2, <3>3
  <2> HIDE DEF R
  <2>6. RowsGone(R)
    BY <2>4, <2>5 DEF RowsGone
  <2> QED
    BY <2>6 DEF RowEvent
<1> QED
  BY <1>3, <1>4, <1>5, <1>6, TableCases, RowEvents DEF TableSteps

\* Posts, folders and files keep the promise of module Stash, whatever requests,
\* cascades and failures race on a row: it is created once, and once destroyed
\* it is never there again.
THEOREM ContentFollowsStash == Spec => RowsAreStashed
<1> DEFINE I == serial <= MaxRequests /\ Apart
<1>1. Init => I
  BY ContentAssumption DEF Init, RequestsInit, MediaInit, Apart, In
<1>2. NumberInv /\ FileInv /\ I /\ [Next]_vars => I'
  BY SerialStep, ApartStep DEF NumberInv, FileInv
<1>3. Init => Row!Init
  <2> SUFFICES ASSUME Init PROVE Row!Init
    OBVIOUS
  <2>1. posts = {} /\ folders = {} /\ files = {} /\ born = {}
    BY DEF Init, RequestsInit, MediaInit
  <2>2. \A i \in 1..MaxRequests : RowAt(i) = "absent"
    BY <2>1 DEF RowAt, HasRow
  <2> QED
    BY <2>2, RowStatesAt DEF Row!Init
<1>4. NumberInv /\ FileInv /\ I /\ [Next]_vars => [Row!Next]_RowStates
  BY RowsStep DEF FileInv
<1> HIDE DEF I
<1> QED
  BY <1>1, <1>2, <1>3, <1>4, Numbered, FileInvAlways, PTL DEF Spec, RowsAreStashed, Row!Spec
=============================================================================
