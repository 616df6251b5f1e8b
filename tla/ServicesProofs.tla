---------------------------- MODULE ServicesProofs ----------------------------
(***************************************************************************)
(* Proofs about the gateway, the queue, the plans, the pages of the lists  *)
(* and the seeds, for any users, sockets, jobs, plans, runs and bounds.    *)
(***************************************************************************)
EXTENDS Services, FiniteSetTheorems, SequenceTheorems, TLAPS

-----------------------------------------------------------------------------
(* Pages                                                                   *)

\* Division with remainder.
LEMMA Division ==
    ASSUME NEW i \in Nat, NEW p \in Nat \ {0}
    PROVE  /\ i \div p \in Nat
           /\ (i \div p) * p <= i
           /\ i < (i \div p) * p + p
  OBVIOUS

\* A multiple grows with its factor.
LEMMA Multiples ==
    ASSUME NEW a \in Nat, NEW b \in Nat, NEW p \in Nat \ {0}, a < b
    PROVE  a * p + p <= b * p
  OBVIOUS

\* Every row of a list is on one of the pages that totalPage promises
\* (base-list-input-transform.ts), for every number of rows and page size.
THEOREM EveryRowHasPage ==
    ASSUME NEW rows \in Nat, NEW p \in Nat \ {0}, NEW i \in 0..(rows - 1)
    PROVE  \E q \in 1..TotalPage(rows, p) : OnPage(i, q, p)
<1> DEFINE n == i \div p
           t == TotalPage(rows, p)
<1>1. i \in Nat /\ rows + p - 1 \in Nat /\ n \in Nat
  BY Division
<1>2. n * p <= i /\ i < n * p + p
  BY <1>1, Division
<1>3. t \in Nat /\ rows + p - 1 < t * p + p
  BY <1>1, Division DEF TotalPage
<1>4. n + 1 <= t
  <2> SUFFICES ASSUME t <= n PROVE FALSE
    BY <1>1, <1>3
  <2>1. t * p <= n * p
    BY <1>1, <1>3, Multiples, SMT
  <2> HIDE DEF n, t
  <2> QED
    BY <2>1, <1>1, <1>2, <1>3
<1>5. OnPage(i, n + 1, p)
  BY <1>1, <1>2 DEF OnPage, Skip
<1> QED
  BY <1>1, <1>3, <1>4, <1>5

\* No row is on two pages: walking the pages of a list at rest shows it once.
THEOREM NoRowOnTwoPages ==
    ASSUME NEW i \in Nat, NEW p \in Nat \ {0},
           NEW a \in Nat \ {0}, NEW b \in Nat \ {0},
           OnPage(i, a, p), OnPage(i, b, p)
    PROVE  a = b
<1>1. \A x, y \in Nat \ {0} : OnPage(i, x, p) /\ OnPage(i, y, p) => ~(x < y)
  <2> SUFFICES ASSUME NEW x \in Nat \ {0}, NEW y \in Nat \ {0},
                      OnPage(i, x, p), OnPage(i, y, p), x < y
               PROVE  FALSE
    OBVIOUS
  <2>1. (x - 1) * p + p <= (y - 1) * p
    BY Multiples
  <2>2. i < (x - 1) * p + p /\ (y - 1) * p <= i
    BY DEF OnPage, Skip
  <2> QED
    BY <2>1, <2>2
<1> QED
  BY <1>1

-----------------------------------------------------------------------------
(* The gateway                                                             *)

\* A row cannot say more than the sockets whose callbacks write it: who has a
\* row under way is up, or will be updated, or could not be; an update comes
\* only for a socket that is gone, and a socket id is used once.
PresenceInv ==
    /\ up \subseteq used
    /\ adding \subseteq used
    /\ updating \subseteq used
    /\ updating \cap up = {}
    /\ adding \subseteq up \cup updating \cup early \cup lost
    /\ \A c \in connections : c.socket \in used
    /\ OnlineIsUp
    /\ OfflineIsDown

LEMMA PresenceInvInit == PresenceInit => PresenceInv
  BY DEF PresenceInit, PresenceInv, OnlineIsUp, OfflineIsDown

\* Each callback of the gateway keeps it.
LEMMA PresenceInvStep ==
    ASSUME PresenceTypeOK, PresenceInv, PresenceNext \/ UNCHANGED presenceVars
    PROVE  PresenceInv'
<1> USE DEF PresenceInv, OnlineIsUp, OfflineIsDown
<1>1. ASSUME NEW s \in Sockets, Connect(s) PROVE PresenceInv'
  BY <1>1 DEF Connect
<1>2. ASSUME NEW s \in Sockets, AddConnection(s) PROVE PresenceInv'
  BY <1>2 DEF AddConnection
<1>3. ASSUME NEW s \in Sockets, FailConnection(s) PROVE PresenceInv'
  BY <1>3 DEF FailConnection
<1>4. ASSUME NEW s \in Sockets, Disconnect(s) PROVE PresenceInv'
  BY <1>4 DEF Disconnect
<1>5. ASSUME NEW s \in Sockets, UpdateConnection(s) PROVE PresenceInv'
  <2>1. \A c \in connections' :
           \/ c \in connections /\ c.socket # s
           \/ c.socket = s /\ ~c.online
    <3>1. \A c \in RowsOf(s) : [c EXCEPT !.online = FALSE].socket = s
                                /\ ~[c EXCEPT !.online = FALSE].online
      BY DEF RowsOf, PresenceTypeOK, Connections
    <3> QED
      BY <1>5, <3>1 DEF UpdateConnection, RowsOf
  <2> QED
    BY <1>5, <2>1 DEF UpdateConnection
<1>6. ASSUME NEW s \in Sockets, FailUpdate(s) PROVE PresenceInv'
  BY <1>6 DEF FailUpdate
<1>7. ASSUME NEW s \in Sockets, NEW u \in Users, Join(s, u) \/ Send(s, u)
      PROVE  PresenceInv'
  BY <1>7 DEF Join, Send
<1>8. ASSUME NEW q \in sending, CreateMessage(q) \/ FailMessage(q) \/ Emit(q)
      PROVE  PresenceInv'
  BY <1>8 DEF CreateMessage, FailMessage, Emit
<1>9. CASE Crash
  BY <1>9 DEF Crash, PresenceTypeOK
<1>10. CASE UNCHANGED presenceVars
  BY <1>10 DEF presenceVars
<1> QED
  BY <1>1, <1>2, <1>3, <1>4, <1>5, <1>6, <1>7, <1>8, <1>9, <1>10 DEF PresenceNext

\* What is emitted, or about to be, is stored.
StoredInv ==
    /\ \A q \in sending : q.phase = "emit" => q.message \in history
    /\ ReceivedIsInHistory

LEMMA StoredInvStep ==
    ASSUME PresenceTypeOK, StoredInv, PresenceNext \/ UNCHANGED presenceVars
    PROVE  StoredInv'
<1> USE DEF StoredInv, ReceivedIsInHistory
<1>1. ASSUME NEW s \in Sockets,
             \/ Connect(s) \/ AddConnection(s) \/ FailConnection(s)
             \/ Disconnect(s) \/ UpdateConnection(s) \/ FailUpdate(s)
      PROVE  StoredInv'
  BY <1>1 DEF Connect, AddConnection, FailConnection, Disconnect, UpdateConnection,
              FailUpdate, messageVars
<1>2. ASSUME NEW s \in Sockets, NEW u \in Users, Join(s, u) \/ Send(s, u)
      PROVE  StoredInv'
  BY <1>2 DEF Join, Send, messageVars
<1>3. ASSUME NEW q \in sending, CreateMessage(q) PROVE StoredInv'
  BY <1>3 DEF CreateMessage, PresenceTypeOK
<1>4. ASSUME NEW q \in sending, FailMessage(q) PROVE StoredInv'
  BY <1>4 DEF FailMessage, AfterFailure
<1>5. ASSUME NEW q \in sending, Emit(q) PROVE StoredInv'
  <2>1. q.message \in history
    BY <1>5 DEF Emit
  <2>2. ASSUME NEW r \in received' PROVE r \in received \/ r[2] = q.message
    <3> DEFINE m == q.message
               S == {s \in up : <<s, m.receiver>> \in rooms}
    <3>1. received' = received \cup {<<s, m>> : s \in S}
      BY <1>5 DEF Emit
    <3> HIDE DEF m, S
    <3>2. r \in received \/ \E s \in S : r = <<s, m>>
      BY <3>1
    <3>3. r \in received \/ r[2] = m
      BY <3>2
    <3> QED
      BY <3>3 DEF m
  <2>3. history' = history /\ sending' \subseteq sending
    BY <1>5 DEF Emit
  <2> QED
    BY <2>1, <2>2, <2>3
<1>6. CASE Crash
  BY <1>6 DEF Crash
<1>7. CASE UNCHANGED presenceVars
  BY <1>7 DEF presenceVars
<1> QED
  BY <1>1, <1>2, <1>3, <1>4, <1>5, <1>6, <1>7 DEF PresenceNext

\* The types of the gateway.
LEMMA PresenceTypeStep ==
    ASSUME PresenceTypeOK, PresenceNext \/ UNCHANGED presenceVars
    PROVE  PresenceTypeOK'
<1> USE DEF PresenceTypeOK
<1>1. ASSUME NEW s \in Sockets, Connect(s) \/ FailConnection(s) \/ Disconnect(s)
      PROVE  PresenceTypeOK'
  BY <1>1 DEF Connect, FailConnection, Disconnect, messageVars
<1>2. ASSUME NEW s \in Sockets, AddConnection(s) PROVE PresenceTypeOK'
  <2>1. [socket |-> s, user |-> owner[s], online |-> TRUE] \in Connections
    BY DEF Connections
  <2> QED
    BY <1>2, <2>1 DEF AddConnection, messageVars
<1>3. ASSUME NEW s \in Sockets, UpdateConnection(s) PROVE PresenceTypeOK'
  <2>1. \A c \in RowsOf(s) : [c EXCEPT !.online = FALSE] \in Connections
    BY DEF RowsOf, Connections
  <2> QED
    BY <1>3, <2>1 DEF UpdateConnection, messageVars
<1>4. ASSUME NEW s \in Sockets, FailUpdate(s) PROVE PresenceTypeOK'
  BY <1>4 DEF FailUpdate, messageVars
<1>5. ASSUME NEW s \in Sockets, NEW u \in Users, Join(s, u) PROVE PresenceTypeOK'
  BY <1>5 DEF Join, messageVars
<1>6. ASSUME NEW s \in Sockets, NEW u \in Users, Send(s, u) PROVE PresenceTypeOK'
  BY <1>6 DEF Send, Messages
<1>7. ASSUME NEW q \in sending, CreateMessage(q) \/ FailMessage(q) \/ Emit(q)
      PROVE  PresenceTypeOK'
  <2>1. q.message \in Messages /\ [q EXCEPT !.phase = "emit"] \in
           [message: Messages, phase: {"create", "emit"}]
    OBVIOUS
  <2>2. CASE CreateMessage(q)
    BY <2>1, <2>2 DEF CreateMessage
  <2>3. CASE FailMessage(q)
    BY <2>3 DEF FailMessage, AfterFailure
  <2>4. CASE Emit(q)
    <3> DEFINE m == q.message
               S == {s \in up : <<s, m.receiver>> \in rooms}
    <3>0. received' = received \cup {<<s, m>> : s \in S} /\ S \subseteq Sockets
      BY <2>4 DEF Emit
    <3>1. received' \subseteq Sockets \X Messages
      <4> HIDE DEF m, S, Messages
      <4>1. m \in Messages
        BY <2>1 DEF m
      <4> QED
        BY <3>0, <4>1
    <3> QED
      BY <3>1, <2>4 DEF Emit
  <2> QED
    BY <1>7, <2>2, <2>3, <2>4
<1>8. CASE Crash
  BY <1>8 DEF Crash
<1>9. CASE UNCHANGED presenceVars
  BY <1>9 DEF presenceVars
<1> QED
  BY <1>1, <1>2, <1>3, <1>4, <1>5, <1>6, <1>7, <1>8, <1>9 DEF PresenceNext

LEMMA PresenceTyped == Spec => []PresenceTypeOK
<1>1. Init => PresenceTypeOK
  BY DEF Init, PresenceInit, PresenceTypeOK
<1>2. PresenceTypeOK /\ [Next]_vars => PresenceTypeOK'
  BY PresenceTypeStep DEF Next, vars
<1> QED
  BY <1>1, <1>2, PTL DEF Spec

\* message-gateway.ts: a user is shown ONLINE only for a socket that is there,
\* or whose update is to come, came too early or never can; and OFFLINE only
\* for a socket that is gone.
THEOREM StatusAgreesWithSockets == Spec => []StatusAgrees
<1>1. Init => PresenceInv
  BY PresenceInvInit DEF Init
<1>2. PresenceTypeOK /\ PresenceInv /\ [Next]_vars => PresenceInv'
  BY PresenceInvStep DEF Next, vars
<1>3. PresenceInv => StatusAgrees
  BY DEF PresenceInv, StatusAgrees
<1> QED
  BY <1>1, <1>2, <1>3, PresenceTyped, PTL DEF Spec

\* Nobody receives a message that is not in the history, whenever the create
\* fails or the server dies.
THEOREM ReceivedStaysInHistory == Spec => []ReceivedIsInHistory
<1>1. Init => StoredInv
  BY DEF Init, PresenceInit, StoredInv, ReceivedIsInHistory
<1>2. PresenceTypeOK /\ StoredInv /\ [Next]_vars => StoredInv'
  BY StoredInvStep DEF Next, vars
<1>3. StoredInv => ReceivedIsInHistory
  BY DEF StoredInv
<1> QED
  BY <1>1, <1>2, <1>3, PresenceTyped, PTL DEF Spec

-----------------------------------------------------------------------------
(* The queue                                                               *)

\* A job that was never lost by a worker has reported no more than the steps
\* before its turn, and one at its end has reported them all.
JobSound(j) ==
    /\ j.stalls = 0 /\ j.state \in {"delayed", "waiting"} => j.progress = 0
    /\ j.state = "active" => j.turn \in 1..(TotalSteps + 1)
    /\ j.stalls = 0 /\ j.state = "active" => j.progress <= 20 * (j.turn - 1)
    /\ j.state = "active" /\ ~MoreSteps(j) => j.progress = 100
    /\ j.state = "completed" => j.progress = 100

QueueInv ==
    /\ QueueTypeOK
    /\ \A j \in jobs : JobSound(j) /\ j.id <= added
    /\ \A j, k \in jobs : j.id = k.id => j = k

LEMMA QueueInvInit == QueueInit => QueueInv
  BY DEF QueueInit, QueueInv, QueueTypeOK

\* What a step of the queue makes of a job j.
Moved(j, k) ==
    /\ k \in Jobs
    /\ k.id = j.id
    /\ JobSound(k)
    /\ k.progress < j.progress => k.stalls > 0

LEMMA PutMoves ==
    ASSUME QueueInv, NEW j \in jobs, NEW k, Moved(j, k), Put(j, k)
    PROVE  QueueInv'
  BY DEF QueueInv, QueueTypeOK, Put, Moved, JobSound, MoreSteps

\* The progress after each of the five steps.
LEMMA Percents == \A n \in 1..TotalSteps : Percent(n) = 20 * n
<1>1. \A n \in 1..TotalSteps : n \in {1, 2, 3, 4, 5}
  BY DEF TotalSteps
<1>2. /\ 100 \div 5 = 20 /\ 200 \div 5 = 40 /\ 300 \div 5 = 60
      /\ 400 \div 5 = 80 /\ 500 \div 5 = 100
  OBVIOUS
<1> QED
  BY <1>1, <1>2 DEF Percent, TotalSteps

\* What the steps make of the record of a job.
LEMMA TakenJob ==
    ASSUME NEW j \in Jobs, NEW k, k = [j EXCEPT !.state = "active", !.turn = 1]
    PROVE  /\ k \in Jobs /\ k.id = j.id /\ k.state = "active" /\ k.turn = 1
           /\ k.progress = j.progress /\ k.stalls = j.stalls
  BY DEF Jobs, States

LEMMA RunJob ==
    ASSUME NEW j \in Jobs, NEW n \in 0..100, NEW m \in Nat, NEW k,
           k = [j EXCEPT !.progress = n, !.turn = m]
    PROVE  /\ k \in Jobs /\ k.id = j.id /\ k.state = j.state /\ k.turn = m
           /\ k.progress = n /\ k.stalls = j.stalls
  BY DEF Jobs, States

LEMMA RecoveredJob ==
    ASSUME NEW j \in Jobs, NEW k, k = [j EXCEPT !.state = "waiting", !.stalls = 1]
    PROVE  /\ k \in Jobs /\ k.id = j.id /\ k.state = "waiting"
           /\ k.progress = j.progress /\ k.stalls = 1
  BY DEF Jobs, States

\* Every step of the queue adds a job or moves one.
LEMMA QueueMoves ==
    ASSUME QueueInv, QueueNext
    PROVE  \/ \E name \in {"process", "compress"} : AddJob(name)
           \/ \E j \in jobs : \E k \in Jobs : Moved(j, k) /\ Put(j, k)
<1> USE DEF QueueInv, QueueTypeOK, Jobs, States, JobSound, MoreSteps, TotalSteps, Moved
<1>1. ASSUME NEW j \in jobs, Promote(j)
      PROVE  \E k \in Jobs : Moved(j, k) /\ Put(j, k)
  <2> DEFINE k == [j EXCEPT !.state = "waiting"]
  <2>1. k \in Jobs /\ Moved(j, k)
    BY <1>1 DEF Promote
  <2> QED
    BY <2>1, <1>1 DEF Promote
<1>2. ASSUME NEW j \in jobs, Take(j)
      PROVE  \E k \in Jobs : Moved(j, k) /\ Put(j, k)
  <2> DEFINE k == [j EXCEPT !.state = "active", !.turn = 1]
  <2>0. k \in Jobs /\ k.id = j.id /\ k.state = "active" /\ k.turn = 1
        /\ k.progress = j.progress /\ k.stalls = j.stalls
    <3>1. j \in Jobs
      OBVIOUS
    <3> QED
      BY ONLY <3>1, TakenJob DEF k
  <2>1. k \in Jobs /\ Moved(j, k)
    <3>1. j.state = "waiting" /\ (j.stalls = 0 => j.progress = 0)
      BY <1>2 DEF Take
    <3> HIDE DEF k, QueueInv
    <3> QED
      BY <2>0, <3>1
  <2>2. Put(j, k)
    BY <1>2 DEF Take
  <2> HIDE DEF k, Jobs, Moved
  <2> QED
    BY <2>1, <2>2
<1>3. ASSUME NEW j \in jobs, RunTask(j)
      PROVE  \E k \in Jobs : Moved(j, k) /\ Put(j, k)
  <2> DEFINE k == [j EXCEPT !.progress = Percent(j.turn), !.turn = @ + 1]
  <2>1. j.turn \in 1..5 /\ Percent(j.turn) = 20 * j.turn
    BY <1>3, Percents DEF RunTask
  <2>0. k \in Jobs /\ k.id = j.id /\ k.state = "active" /\ k.turn = j.turn + 1
        /\ k.progress = 20 * j.turn /\ k.stalls = j.stalls
    <3>1. j \in Jobs /\ Percent(j.turn) \in 0..100 /\ j.turn + 1 \in Nat
          /\ j.state = "active"
      BY <1>3, <2>1 DEF RunTask
    <3> QED
      BY <2>1, <3>1, RunJob
  <2>2. k \in Jobs /\ Moved(j, k)
    <3>1. j.stalls \in Nat /\ j.progress \in 0..100
          /\ (j.stalls = 0 => j.progress <= 20 * (j.turn - 1))
      BY <1>3 DEF RunTask
    <3> HIDE DEF k, QueueInv
    <3> QED
      BY <2>0, <2>1, <3>1
  <2>3. Put(j, k)
    BY <1>3 DEF RunTask
  <2> HIDE DEF k, Jobs, Moved
  <2> QED
    BY <2>2, <2>3
<1>4. ASSUME NEW j \in jobs, Complete(j)
      PROVE  \E k \in Jobs : Moved(j, k) /\ Put(j, k)
  <2> DEFINE k == [j EXCEPT !.state = "completed"]
  <2>1. k \in Jobs /\ Moved(j, k)
    BY <1>4 DEF Complete
  <2> QED
    BY <2>1, <1>4 DEF Complete
<1>5. ASSUME NEW j \in jobs, Recover(j)
      PROVE  \E k \in Jobs : Moved(j, k) /\ Put(j, k)
  <2> DEFINE k == [j EXCEPT !.state = "waiting", !.stalls = 1]
             l == [j EXCEPT !.state = "failed"]
  <2>0. /\ k \in Jobs /\ k.id = j.id /\ k.state = "waiting"
        /\ k.progress = j.progress /\ k.stalls = 1
        /\ l \in Jobs /\ l.id = j.id /\ l.state = "failed"
        /\ l.progress = j.progress
    <3>1. j \in Jobs /\ 0 \in 0..100
      OBVIOUS
    <3> QED
      BY ONLY <3>1, TakenJob DEF k
  <2>1. k \in Jobs /\ Moved(j, k) /\ l \in Jobs /\ Moved(j, l)
    <3>1. j.progress \in 0..100
      OBVIOUS
    <3> HIDE DEF k, l, QueueInv
    <3> QED
      BY <2>0, <3>1
  <2>2. Put(j, k) \/ Put(j, l)
    BY <1>5 DEF Recover
  <2> HIDE DEF k, l, Jobs, Moved
  <2> QED
    BY <2>1, <2>2
<1>6. ASSUME NEW j \in jobs, Fail(j) \/ Stall(j)
      PROVE  \E k \in Jobs : Moved(j, k) /\ Put(j, k)
  <2> DEFINE k == [j EXCEPT !.state = "failed"]
             l == [j EXCEPT !.state = "stalled"]
  <2>1. k \in Jobs /\ Moved(j, k) /\ l \in Jobs /\ Moved(j, l)
    OBVIOUS
  <2> QED
    BY <2>1, <1>6 DEF Fail, Stall
<1> QED
  BY <1>1, <1>2, <1>3, <1>4, <1>5, <1>6 DEF QueueNext, Work

LEMMA QueueInvStep ==
    ASSUME QueueInv, QueueNext \/ UNCHANGED queueVars
    PROVE  QueueInv'
<1>1. ASSUME NEW name \in {"process", "compress"}, AddJob(name) PROVE QueueInv'
  <2> DEFINE j == [id |-> added + 1, name |-> name, state |-> FirstState(name),
                   turn |-> 0, progress |-> 0, stalls |-> 0]
  <2>1. added \in Nat /\ FirstState(name) \in {"delayed", "waiting"}
    BY DEF QueueInv, QueueTypeOK, FirstState
  <2>2. j \in Jobs /\ JobSound(j) /\ j.id = added + 1
    BY <2>1 DEF Jobs, States, JobSound
  <2>3. jobs' = jobs \cup {j} /\ added' = added + 1
    BY <1>1 DEF AddJob
  <2>4. \A k \in jobs : k.id \in Nat /\ k.id <= added
    BY DEF QueueInv, QueueTypeOK, Jobs
  <2> HIDE DEF j
  <2>5. QueueTypeOK'
    BY <2>1, <2>2, <2>3 DEF QueueInv, QueueTypeOK
  <2>6. \A k \in jobs' : JobSound(k) /\ k.id <= added'
    BY <2>1, <2>2, <2>3, <2>4 DEF QueueInv
  <2>7. \A k, l \in jobs' : k.id = l.id => k = l
    BY <2>1, <2>2, <2>3, <2>4 DEF QueueInv
  <2> QED
    BY <2>5, <2>6, <2>7 DEF QueueInv, JobSound, MoreSteps
<1>2. CASE UNCHANGED queueVars
  BY <1>2 DEF queueVars, QueueInv, QueueTypeOK, JobSound, MoreSteps
<1> QED
  BY <1>1, <1>2, QueueMoves, PutMoves

LEMMA QueueSound == Spec => []QueueInv
<1>1. Init => QueueInv
  BY QueueInvInit DEF Init
<1>2. QueueInv /\ [Next]_vars => QueueInv'
  BY QueueInvStep DEF Next, vars
<1> QED
  BY <1>1, <1>2, PTL DEF Spec

\* que.worker.ts: a completed job has reported all of its progress, however
\* many workers died on the way.
THEOREM CompletedJobsAreWhole == Spec => []CompletedIsWhole
<1>1. QueueInv => CompletedIsWhole
  BY DEF QueueInv, JobSound, CompletedIsWhole
<1> QED
  BY <1>1, QueueSound, PTL

\* The progress of a job goes back only when it is run again.
THEOREM ProgressGoesForward == Spec => ProgressForward
<1>1. QueueInv /\ [Next]_vars =>
         [\A j \in jobs, k \in jobs' :
             k.id = j.id /\ k.progress < j.progress => k.stalls > 0]_jobs
  <2> SUFFICES ASSUME QueueInv, [Next]_vars, jobs' # jobs,
                      NEW j \in jobs, NEW k \in jobs', k.id = j.id,
                      k.progress < j.progress
               PROVE  k.stalls > 0
    OBVIOUS
  <2>1. QueueNext
    BY DEF Next, vars, queueVars
  <2>2. ASSUME NEW name \in {"process", "compress"}, AddJob(name) PROVE FALSE
    <3>1. k \in jobs \/ k.id = added + 1
      BY <2>2 DEF AddJob
    <3>2. k = j
      BY <3>1 DEF QueueInv, QueueTypeOK, Jobs
    <3> QED
      BY <3>2 DEF QueueInv, QueueTypeOK, Jobs
  <2>3. ASSUME NEW i \in jobs, NEW l \in Jobs, Moved(i, l), Put(i, l)
        PROVE  k.stalls > 0
    <3>1. k = l \/ k \in jobs \ {i}
      BY <2>3 DEF Put
    <3>2. CASE k = l
      BY <2>3, <3>2 DEF Moved, QueueInv
    <3>3. CASE k \in jobs \ {i}
      BY <3>3 DEF QueueInv, QueueTypeOK, Jobs
    <3> QED
      BY <3>1, <3>2, <3>3
  <2> QED
    BY <2>1, <2>2, <2>3, QueueMoves
<1> QED
  BY <1>1, QueueSound, PTL DEF Spec, ProgressForward

-----------------------------------------------------------------------------
(* The plans                                                               *)

LEMMA PlansSound == Spec => [](InfosHavePlan /\ PlanTypeOK)
<1>1. Init => InfosHavePlan /\ PlanTypeOK
  BY DEF Init, PlanInit, InfosHavePlan, PlanTypeOK
<1>2. ASSUME InfosHavePlan, PlanTypeOK, PlanNext PROVE InfosHavePlan' /\ PlanTypeOK'
  <2> USE DEF InfosHavePlan, PlanThere, PlanTypeOK, Write
  <2>0. /\ plans \subseteq Plans /\ infos \subseteq Infos /\ writes \in Nat
        /\ \A i \in infos : \E p \in plans : p.id = i.plan
    BY <1>2
  <2>1. ASSUME NEW id \in PlanIds, NEW name \in Names, NEW price \in Prices,
               NEW now \in Times, CreatePlan(id, name, price, now)
        PROVE  InfosHavePlan' /\ PlanTypeOK'
    <3> DEFINE q == [id |-> id, name |-> name, price |-> price, createdAt |-> now,
                     stashed |-> FALSE]
    <3>1. q \in Plans
      BY DEF Plans
    <3>2. plans' = plans \cup {q} /\ infos' = infos /\ writes' = writes + 1
      BY <2>1 DEF CreatePlan
    <3> HIDE DEF q
    <3> QED
      BY <2>0, <3>1, <3>2
  <2>2. ASSUME NEW p \in plans, NEW name \in Names, NEW price \in Prices,
               UpdatePlan(p.id, name, price)
        PROVE  InfosHavePlan' /\ PlanTypeOK'
    <3> DEFINE f(q) == IF q.id = p.id THEN [q EXCEPT !.name = name, !.price = price] ELSE q
    <3>1. \A q \in plans : f(q) \in Plans /\ f(q).id = q.id
      BY <2>0 DEF Plans
    <3>2. plans' = {f(q) : q \in plans}
      BY <2>2, Zenon DEF UpdatePlan
    <3>3. infos' = infos /\ writes' = writes + 1
      BY <2>2, Zenon DEF UpdatePlan
    <3> HIDE DEF f
    <3> QED
      BY <2>0, <3>1, <3>2, <3>3
  <2>3. ASSUME NEW p \in plans, StashPlan(p.id) PROVE InfosHavePlan' /\ PlanTypeOK'
    <3> DEFINE f(q) == IF q.id = p.id THEN [q EXCEPT !.stashed = TRUE] ELSE q
    <3>1. \A q \in plans : f(q) \in Plans /\ f(q).id = q.id
      BY <2>0 DEF Plans
    <3>2. plans' = {f(q) : q \in plans} /\ infos' = infos /\ writes' = writes + 1
      BY <2>3 DEF StashPlan, Stashed
    <3> HIDE DEF f
    <3> QED
      BY <2>0, <3>1, <3>2
  <2>4. ASSUME NEW p \in plans, DestroyPlan(p.id) PROVE InfosHavePlan' /\ PlanTypeOK'
    BY <2>0, <2>4 DEF DestroyPlan, InfosWithout
  <2>5. ASSUME NEW id \in PlanIds, NEW plan \in PlanIds, CreateInfo(id, plan)
        PROVE  InfosHavePlan' /\ PlanTypeOK'
    <3> DEFINE i == [id |-> id, plan |-> plan, stashed |-> FALSE]
    <3>1. i \in Infos /\ i.plan = plan
      BY DEF Infos
    <3>2. infos' = infos \cup {i} /\ plans' = plans /\ writes' = writes + 1
      BY <2>5 DEF CreateInfo
    <3>3. \E p \in plans : p.id = plan
      BY <2>5 DEF CreateInfo
    <3> HIDE DEF i
    <3> QED
      BY <2>0, <3>1, <3>2, <3>3
  <2>6. ASSUME NEW i \in infos, NEW plan \in PlanIds, UpdateInfo(i.id, plan)
        PROVE  InfosHavePlan' /\ PlanTypeOK'
    <3> DEFINE f(j) == IF j.id = i.id THEN [j EXCEPT !.plan = plan] ELSE j
    <3>1. \A j \in infos : f(j) \in Infos /\ (f(j).plan = plan \/ f(j).plan = j.plan)
      BY <2>0 DEF Infos
    <3>2. infos' = {f(j) : j \in infos} /\ plans' = plans /\ writes' = writes + 1
      BY <2>6 DEF UpdateInfo
    <3>3. \E p \in plans : p.id = plan
      BY <2>6 DEF UpdateInfo
    <3> HIDE DEF f
    <3> QED
      BY <2>0, <3>1, <3>2, <3>3
  <2>7. ASSUME NEW i \in infos, StashInfo(i.id) PROVE InfosHavePlan' /\ PlanTypeOK'
    <3> DEFINE f(j) == IF j.id = i.id THEN [j EXCEPT !.stashed = TRUE] ELSE j
    <3>1. \A j \in infos : f(j) \in Infos /\ f(j).plan = j.plan
      BY <2>0 DEF Infos
    <3>2. infos' = {f(j) : j \in infos} /\ plans' = plans /\ writes' = writes + 1
      BY <2>7 DEF StashInfo, Stashed
    <3> HIDE DEF f
    <3> QED
      BY <2>0, <3>1, <3>2
  <2>8. ASSUME NEW i \in infos, DestroyInfo(i.id) PROVE InfosHavePlan' /\ PlanTypeOK'
    BY <2>0, <2>8 DEF DestroyInfo
  <2> HIDE DEF InfosHavePlan, PlanThere, PlanTypeOK, Write
  <2> QED
    BY <1>2, <2>1, <2>2, <2>3, <2>4, <2>5, <2>6, <2>7, <2>8 DEF PlanNext
<1>3. ASSUME InfosHavePlan, PlanTypeOK, UNCHANGED planVars
      PROVE  InfosHavePlan' /\ PlanTypeOK'
  BY <1>3 DEF InfosHavePlan, PlanThere, PlanTypeOK, planVars
<1>4. InfosHavePlan /\ PlanTypeOK /\ [Next]_vars => InfosHavePlan' /\ PlanTypeOK'
  BY <1>2, <1>3 DEF Next, vars, ListNext, BeginWalk, CountRows, ReadPage
<1> QED
  BY <1>1, <1>4, PTL DEF Spec

\* schema/subscription.prisma: whatever is created, moved or destroyed, an
\* info is one of a plan that is there.
THEOREM InfosAlwaysHavePlan == Spec => []InfosHavePlan
  BY PlansSound, PTL

-----------------------------------------------------------------------------
(* The walk over the pages of a list                                       *)

\* Where a row is in the order, the last of those with its value in the column.
Rank(x) == Cardinality(Ahead(plans, x))

Shown == {seen[i] : i \in DOMAIN seen}

\* The rows before the page the client asks for.
Before == Skip(page, PerPage(size))

\* Each of the first rows of the list has been shown in its place.
ShownInPlace(m) ==
    /\ Len(seen) = m
    /\ \A i \in 1..m : seen[i] \in Listed(plans) /\ Rank(seen[i]) = i

\* While the walk goes on: a steady row is only ever pushed back, so that who is
\* not shown yet is still to come.  What was counted is no less than what there
\* is, unless a row came since.
WalkInv ==
    /\ IsFiniteSet(Listed(plans))
    /\ step = "idle" => seen = <<>>
    /\ step \in {"count", "read"} =>
          /\ steady \subseteq Listed(plans)
          /\ \A x \in steady : Rank(x) <= Before => x \in Shown
          /\ quiet => Before <= Cardinality(Listed(plans)) /\ ShownInPlace(Before)
    /\ step = "read" => /\ grew \/ Cardinality(Listed(plans)) <= count
                        /\ quiet => Cardinality(Listed(plans)) = count
    /\ WalkShowsAll

\* Every row has a place.
LEMMA PlaceType ==
    ASSUME PlanTypeOK, ListTypeOK, NEW x \in Listed(plans)
    PROVE  Place(plans, x) \in Int
<1> DEFINE q == CHOOSE p \in plans : p.id = x
<1>1. \E p \in plans : p.id = x
  BY DEF Listed
<1>2. q \in plans
  BY <1>1
<1> HIDE DEF q
<1>3. /\ q \in Plans /\ PlanIds \subseteq Nat
      /\ Names \subseteq Nat /\ Prices \subseteq Nat /\ Times \subseteq Nat
  BY <1>2, ServicesAssumption DEF PlanTypeOK
<1>4. q.id \in Nat /\ q.name \in Nat /\ q.price \in Nat /\ q.createdAt \in Nat
  BY <1>3 DEF Plans
<1>5. order.field \in {"createdAt", "name", "price", "id"}
  BY DEF ListTypeOK, Orders
<1>6. q[order.field] \in Nat
  BY <1>4, <1>5
<1>7. Place(plans, x) = IF order.descending THEN -q[order.field] ELSE q[order.field]
  BY DEF Place, q
<1> QED
  BY <1>6, <1>7

\* The places order the rows, up to ties.
LEMMA AheadOrders ==
    ASSUME PlanTypeOK, ListTypeOK, NEW x \in Listed(plans), NEW y \in Listed(plans)
    PROVE  /\ x \in Ahead(plans, x) /\ Ahead(plans, x) \subseteq Listed(plans)
           /\ x \in Ahead(plans, y) \/ y \in Ahead(plans, x)
           /\ x \in Ahead(plans, y) => Ahead(plans, x) \subseteq Ahead(plans, y)
<1>1. \A z \in Listed(plans) : Place(plans, z) \in Int
  BY PlaceType
<1> QED
  BY <1>1 DEF Ahead

\* The ranks of the rows are places in the list.
LEMMA RankType ==
    ASSUME PlanTypeOK, ListTypeOK, IsFiniteSet(Listed(plans)), NEW x \in Listed(plans)
    PROVE  /\ Rank(x) \in 1..Cardinality(Listed(plans))
           /\ IsFiniteSet(Ahead(plans, x))
<1> DEFINE S == Listed(plans)
           T == Ahead(plans, x)
<1>1. T \in SUBSET S /\ x \in T
  BY AheadOrders
<1> HIDE DEF S, T
<1>2. IsFiniteSet(T) /\ Cardinality(T) <= Cardinality(S)
  BY <1>1, FS_Subset DEF S
<1>3. Cardinality(T) \in Nat /\ Cardinality(S) \in Nat /\ Cardinality(T) # 0
  BY <1>1, <1>2, FS_CardinalityType, FS_EmptySet DEF S
<1> QED
  BY <1>2, <1>3 DEF Rank, S, T

\* A row with more ahead of it is further back.
LEMMA RankGrows ==
    ASSUME NEW T, IsFiniteSet(T), NEW S \in SUBSET T
    PROVE  /\ Cardinality(S) \in Nat /\ Cardinality(T) \in Nat
           /\ Cardinality(S) <= Cardinality(T)
<1>1. IsFiniteSet(S) /\ Cardinality(S) <= Cardinality(T)
  BY FS_Subset
<1> QED
  BY <1>1, FS_CardinalityType

\* What an answer of the database is.
LEMMA OrderingIs ==
    ASSUME IsFiniteSet(Listed(plans)), NEW s \in Orderings
    PROVE  /\ Cardinality(Listed(plans)) \in Nat
           /\ s \in [1..Cardinality(Listed(plans)) -> Listed(plans)]
           /\ s \in Seq(Listed(plans))
           /\ Len(s) = Cardinality(Listed(plans))
           /\ \A i, j \in 1..Cardinality(Listed(plans)) :
                 /\ i # j => s[i] # s[j]
                 /\ i < j => s[i] \in Ahead(plans, s[j])
           /\ \A x \in Listed(plans) : \E i \in 1..Cardinality(Listed(plans)) : s[i] = x
<1> DEFINE S == Listed(plans)
           n == Cardinality(S)
<1>1. n \in Nat /\ IsFiniteSet(1..n) /\ Cardinality(1..n) = n
  BY FS_CardinalityType, FS_Interval
<1>2. s \in SetToSeqs(S) /\ \A i, j \in DOMAIN s : i < j => s[i] \in Ahead(plans, s[j])
  BY DEF Orderings
<1>3. s \in [1..n -> S] /\ \A i, j \in 1..n : i # j => s[i] # s[j]
  BY <1>2 DEF SetToSeqs
<1>4. s \in Injection(1..n, S)
  BY <1>3 DEF Injection, IsInjective
<1> HIDE DEF S, n
<1>5. s \in Surjection(1..n, S)
  BY <1>1, <1>4, FS_Injection DEF n, S
<1>6. s \in Seq(S) /\ Len(s) = n
  BY <1>1, <1>3
<1> QED
  BY <1>1, <1>2, <1>3, <1>5, <1>6 DEF Surjection, S, n

\* A row that nothing ties with is in every answer at its rank.
LEMMA RankIsPlace ==
    ASSUME PlanTypeOK, ListTypeOK, IsFiniteSet(Listed(plans)), NEW s \in Orderings,
           NEW i \in 1..Cardinality(Listed(plans)), ~Tied(s[i])
    PROVE  Rank(s[i]) = i
<1> DEFINE S == Listed(plans)
           n == Cardinality(S)
           x == s[i]
           T == Ahead(plans, x)
           f == [j \in 1..i |-> s[j]]
<1>1. /\ n \in Nat /\ s \in [1..n -> S]
      /\ \A j, k \in 1..n : /\ j # k => s[j] # s[k]
                            /\ j < k => s[j] \in Ahead(plans, s[k])
      /\ \A y \in S : \E j \in 1..n : s[j] = y
  BY OrderingIs
<1>2. x \in S
  BY <1>1
<1>3. x \in T /\ T \subseteq S
  BY <1>2, AheadOrders
<1>4. \A y \in S \ {x} : ~(y \in T /\ x \in Ahead(plans, y))
  BY DEF Tied
<1> HIDE DEF S, n, T
<1>5. i \in 1..n /\ i \in Nat /\ 1..i \subseteq 1..n
  BY <1>1 DEF n, S
<1>6. f \in [1..i -> T]
  <2> SUFFICES ASSUME NEW j \in 1..i PROVE s[j] \in T
    OBVIOUS
  <2>1. j \in 1..n /\ (j < i \/ j = i)
    BY <1>5
  <2> QED
    BY <2>1, <1>1, <1>3, <1>5 DEF T
<1>7. \A j, k \in 1..i : f[j] = f[k] => j = k
  BY <1>1, <1>5
<1>8. \A y \in T : \E j \in 1..i : f[j] = y
  <2> SUFFICES ASSUME NEW y \in T PROVE \E j \in 1..i : s[j] = y
    OBVIOUS
  <2>1. PICK j \in 1..n : s[j] = y
    BY <1>1, <1>3
  <2>2. ~(i < j)
    <3> SUFFICES ASSUME i < j PROVE FALSE
      OBVIOUS
    <3>1. x \in Ahead(plans, y) /\ y # x
      BY <1>1, <1>5, <2>1
    <3> HIDE DEF x
    <3> QED
      BY <3>1, <1>3, <1>4
  <2> QED
    BY <2>1, <2>2, <1>1, <1>5
<1> HIDE DEF f
<1>9. f \in Bijection(1..i, T)
  BY <1>6, <1>7, <1>8 DEF Bijection, Injection, Surjection, IsInjective
<1>10. Cardinality(T) = i
  BY <1>5, <1>9, FS_CountingElements DEF ExistsBijection
<1> QED
  BY <1>10 DEF Rank, T

\* Rows that are each at their rank are in order.
LEMMA PlacesAreOrdering ==
    ASSUME PlanTypeOK, ListTypeOK, IsFiniteSet(Listed(plans)), NEW t \in Seq(PlanIds),
           Len(t) = Cardinality(Listed(plans)),
           \A i \in 1..Len(t) : t[i] \in Listed(plans) /\ Rank(t[i]) = i
    PROVE  t \in Orderings
<1> DEFINE S == Listed(plans)
           n == Cardinality(S)
<1>1. n \in Nat /\ DOMAIN t = 1..n
  BY FS_CardinalityType, LenProperties
<1>2. t \in [1..n -> S]
  <2>1. t \in [1..Len(t) -> PlanIds]
    BY LenProperties
  <2> QED
    BY <1>1, <2>1
<1>3. \A i, j \in 1..n : i # j => t[i] # t[j]
  OBVIOUS
<1>4. ASSUME NEW i \in 1..n, NEW j \in 1..n, i < j
      PROVE  t[i] \in Ahead(plans, t[j])
  <2>1. t[i] \in S /\ t[j] \in S /\ Rank(t[i]) = i /\ Rank(t[j]) = j
    OBVIOUS
  <2> SUFFICES ASSUME t[i] \notin Ahead(plans, t[j]) PROVE FALSE
    OBVIOUS
  <2>2. Ahead(plans, t[j]) \subseteq Ahead(plans, t[i])
    BY <2>1, AheadOrders
  <2>3. IsFiniteSet(Ahead(plans, t[i]))
    BY <2>1, RankType
  <2>4. Cardinality(Ahead(plans, t[j])) <= Cardinality(Ahead(plans, t[i]))
    BY <2>2, <2>3, RankGrows
  <2>5. j <= i
    BY <2>1, <2>4 DEF Rank
  <2> QED
    BY <1>1, <1>4, <2>5
<1>5. t \in SetToSeqs(S)
  BY <1>2, <1>3 DEF SetToSeqs
<1> QED
  BY <1>1, <1>4, <1>5 DEF Orderings

-----------------------------------------------------------------------------
\* What a write to the plans does to the list: at most one row comes.
LEMMA OneRowComes ==
    ASSUME PlanTypeOK, PlanNext
    PROVE  \E id : Listed(plans') \subseteq Listed(plans) \cup {id}
<1> USE DEF Listed, PlanTypeOK
<1>1. ASSUME NEW id \in PlanIds, NEW name \in Names, NEW price \in Prices,
             NEW now \in Times, CreatePlan(id, name, price, now)
      PROVE  Listed(plans') \subseteq Listed(plans) \cup {id}
  BY <1>1 DEF CreatePlan
<1>2. ASSUME NEW p \in plans, NEW name \in Names, NEW price \in Prices,
             UpdatePlan(p.id, name, price)
      PROVE  Listed(plans') \subseteq Listed(plans)
  <2> DEFINE f(q) == IF q.id = p.id THEN [q EXCEPT !.name = name, !.price = price] ELSE q
  <2>1. \A q \in plans : f(q).id = q.id /\ f(q).stashed = q.stashed
    BY DEF Plans
  <2>2. plans' = {f(q) : q \in plans}
    BY <1>2, Zenon DEF UpdatePlan
  <2> HIDE DEF f
  <2> QED
    BY <2>1, <2>2
<1>3. ASSUME NEW p \in plans, StashPlan(p.id)
      PROVE  Listed(plans') \subseteq Listed(plans)
  <2> DEFINE f(q) == IF q.id = p.id THEN [q EXCEPT !.stashed = TRUE] ELSE q
  <2>1. \A q \in plans : f(q).id = q.id /\ (q.stashed => f(q).stashed)
    BY DEF Plans
  <2>2. plans' = {f(q) : q \in plans}
    BY <1>3 DEF StashPlan, Stashed
  <2> HIDE DEF f
  <2> QED
    BY <2>1, <2>2
<1>4. ASSUME NEW p \in plans, DestroyPlan(p.id)
      PROVE  Listed(plans') \subseteq Listed(plans)
  BY <1>4 DEF DestroyPlan
<1>5. plans' = plans => Listed(plans') \subseteq Listed(plans)
  OBVIOUS
<1>6. ASSUME NEW id, NEW plan, CreateInfo(id, plan) \/ UpdateInfo(id, plan)
                               \/ StashInfo(id) \/ DestroyInfo(id)
      PROVE  plans' = plans
  BY <1>6 DEF CreateInfo, UpdateInfo, StashInfo, DestroyInfo
<1> HIDE DEF Listed, PlanTypeOK
<1> QED
  BY <1>1, <1>2, <1>3, <1>4, <1>5, <1>6 DEF PlanNext

LEMMA ListStaysFinite ==
    ASSUME PlanTypeOK, PlanNext, IsFiniteSet(Listed(plans))
    PROVE  IsFiniteSet(Listed(plans'))
<1>1. PICK id : Listed(plans') \subseteq Listed(plans) \cup {id}
  BY OneRowComes
<1>2. IsFiniteSet(Listed(plans) \cup {id})
  BY FS_AddElement
<1> QED
  BY <1>1, <1>2, FS_Subset

\* The ids of a list are numbers.
LEMMA ListedIds ==
    ASSUME PlanTypeOK
    PROVE  Listed(plans) \subseteq PlanIds /\ Listed(plans) \in SUBSET Nat
  BY ServicesAssumption DEF PlanTypeOK, Listed, Plans

\* The pages: one starts where the one before it ends.
LEMMA NextPage ==
    ASSUME page \in Nat, size \in Nat
    PROVE  /\ PerPage(size) \in Nat \ {0}
           /\ Before \in Nat
           /\ CurrentPage(page) \in Nat \ {0}
           /\ Before + PerPage(size) = CurrentPage(page) * PerPage(size)
           /\ Skip(CurrentPage(page) + 1, PerPage(size)) = Before + PerPage(size)
<1> DEFINE p == PerPage(size)
<1>1. p \in Nat \ {0}
  BY PagingAssumption DEF PerPage
<1> HIDE DEF p
<1>2. CASE page = 0
  BY <1>1, <1>2 DEF Before, Skip, CurrentPage, p
<1>3. CASE page # 0
  <2>1. page - 1 \in Nat /\ (page - 1) * p \in Nat
    BY <1>1, <1>3
  <2>2. (page - 1) * p + p = page * p
    BY <1>1, <1>3
  <2>3. (page + 1) - 1 = page
    OBVIOUS
  <2> QED
    BY <1>1, <1>3, <2>1, <2>2, <2>3 DEF Before, Skip, CurrentPage, p
<1> QED
  BY <1>2, <1>3

\* The last page that totalPage promises ends no earlier than the rows.
LEMMA PagesReach ==
    ASSUME NEW rows \in Nat, NEW p \in Nat \ {0}, NEW c \in Nat
    PROVE  /\ TotalPage(rows, p) <= c => rows <= c * p
           /\ c < TotalPage(rows, p) => c * p < rows
<1> DEFINE t == TotalPage(rows, p)
<1>1. t \in Nat /\ t * p <= rows + p - 1 /\ rows + p - 1 < t * p + p
  BY Division DEF TotalPage
<1> HIDE DEF t
<1>2. t = c \/ t < c => rows <= c * p
  <2>1. t < c => t * p + p <= c * p
    BY <1>1, Multiples
  <2>2. rows <= t * p
    BY <1>1
  <2>3. t * p \in Nat /\ c * p \in Nat
    BY <1>1
  <2> QED
    BY <1>1, <2>1, <2>2, <2>3
<1>3. c < t => c * p < rows
  <2>1. c < t => c * p + p <= t * p
    BY <1>1, Multiples
  <2>2. t * p \in Nat /\ c * p \in Nat
    BY <1>1
  <2> QED
    BY <1>1, <2>1, <2>2
<1> QED
  BY <1>1, <1>2, <1>3 DEF t

\* What was shown, s, has become t by the page of p rows after the first b of L,
\* which ends at e.
PageRead(s, t, L, b, p, e) ==
    /\ \A i \in DOMAIN s : \E k \in DOMAIN t : t[k] = s[i]
    /\ \A i \in 1..Len(L) : b < i /\ i <= b + p => \E k \in DOMAIN t : t[k] = L[i]
    /\ b <= Len(L) /\ Len(s) = b =>
          /\ Len(t) = e
          /\ \A i \in 1..e : t[i] = IF i <= b THEN s[i] ELSE L[i]

LEMMA PageShows ==
    ASSUME NEW S, NEW s \in Seq(S), NEW L \in Seq(S), NEW b \in Nat, NEW p \in Nat \ {0},
           NEW e, e = IF b + p < Len(L) THEN b + p ELSE Len(L),
           NEW t, t = s \o SubSeq(L, b + 1, e)
    PROVE  t \in Seq(S) /\ PageRead(s, t, L, b, p, e)
<1> DEFINE w == SubSeq(L, b + 1, e)
           m == Len(s)
<1>1. Len(L) \in Nat /\ e \in Nat /\ m \in Nat /\ e <= Len(L) /\ e <= b + p
  BY LenProperties
<1>2. \A i \in (b + 1)..e : L[i] \in S
  BY <1>1, ElementOfSeq
<1>3. /\ w \in Seq(S)
      /\ Len(w) = IF b + 1 <= e THEN e - (b + 1) + 1 ELSE 0
      /\ \A i \in 1..e - (b + 1) + 1 : w[i] = L[(b + 1) + i - 1]
  <2> DEFINE k == b + 1
  <2>1. k \in Int /\ e \in Int /\ \A i \in k..e : L[i] \in S
    BY <1>1, <1>2
  <2> HIDE DEF k
  <2>2. /\ SubSeq(L, k, e) \in Seq(S)
        /\ Len(SubSeq(L, k, e)) = IF k <= e THEN e - k + 1 ELSE 0
        /\ \A i \in 1..e - k + 1 : SubSeq(L, k, e)[i] = L[k + i - 1]
    BY ONLY <2>1, SubSeqProperties
  <2> QED
    BY ONLY <2>2 DEF k, w
<1> HIDE DEF w
<1>4. /\ t \in Seq(S)
      /\ Len(t) = m + Len(w)
      /\ \A i \in 1..m + Len(w) : t[i] = IF i <= m THEN s[i] ELSE w[i - m]
  BY <1>3, ConcatProperties DEF w
<1>5. DOMAIN t = 1..m + Len(w) /\ DOMAIN s = 1..m /\ Len(w) \in Nat
  BY <1>1, <1>3, <1>4, LenProperties
<1> HIDE DEF m
<1>6. ASSUME NEW i \in DOMAIN s PROVE i \in DOMAIN t /\ t[i] = s[i]
  BY <1>1, <1>4, <1>5
<1>7. ASSUME NEW i \in 1..Len(L), b < i, i <= b + p
      PROVE  (m + i - b) \in DOMAIN t /\ t[m + i - b] = L[i]
  <2>0. i <= e /\ b + 1 <= e
    <3>1. i \in Nat /\ i <= Len(L) /\ b + 1 <= i
      BY <1>1, <1>7
    <3> QED
      BY <3>1, <1>1, <1>7
  <2>1. i <= e /\ b + 1 <= e /\ Len(w) = e - b
    <3>1. Len(w) = e - (b + 1) + 1
      BY <2>0, <1>3
    <3> QED
      BY <3>1, <2>0, <1>1
  <2>2. i - b \in 1..e - (b + 1) + 1 /\ w[i - b] = L[i]
    <3>1. i - b \in 1..e - (b + 1) + 1 /\ (b + 1) + (i - b) - 1 = i
      BY <1>1, <1>7, <2>1
    <3> QED
      BY <3>1, <1>3
  <2>3. m + i - b \in 1..m + Len(w) /\ ~(m + i - b <= m) /\ (m + i - b) - m = i - b
    BY <1>1, <1>7, <2>1
  <2> QED
    BY <1>4, <1>5, <2>2, <2>3
<1>8. ASSUME b <= Len(L), m = b
      PROVE  /\ Len(t) = e
             /\ \A i \in 1..e : t[i] = IF i <= b THEN s[i] ELSE L[i]
  <2>1. e >= b /\ Len(w) = e - b
    BY <1>1, <1>3, <1>8
  <2>2. Len(t) = e
    BY <1>1, <1>4, <1>8, <2>1
  <2>3. ASSUME NEW i \in 1..e, ~(i <= b) PROVE t[i] = L[i]
    <3>1. i \in 1..Len(L) /\ b < i /\ i <= b + p /\ m + i - b = i
      BY <1>1, <1>8, <2>3
    <3> QED
      BY <3>1, <1>7
  <2>4. ASSUME NEW i \in 1..e, i <= b PROVE t[i] = s[i]
    BY <1>1, <1>5, <1>6, <1>8, <2>4
  <2> QED
    BY <2>2, <2>3, <2>4
<1> QED
  BY <1>4, <1>6, <1>7, <1>8 DEF PageRead, m

\* The types of a walk.
LEMMA ListTypeStep ==
    ASSUME PlanTypeOK, ListTypeOK, IsFiniteSet(Listed(plans)),
           ListNext \/ UNCHANGED <<planVars, listVars>>
    PROVE  ListTypeOK'
<1> USE DEF ListTypeOK
<1>1. ASSUME NEW first \in {0, 1}, BeginWalk(first) PROVE ListTypeOK'
  BY <1>1, ListedIds DEF BeginWalk
<1>2. CASE CountRows
  BY <1>2, FS_CardinalityType DEF CountRows
<1>3. CASE ReadPage
  <2> DEFINE p == PerPage(size)
  <2>1. page \in Nat /\ size \in Nat /\ seen \in Seq(PlanIds)
    BY ServicesAssumption
  <2>2. p \in Nat \ {0} /\ Before \in Nat /\ CurrentPage(page) \in Nat
    BY <2>1, NextPage
  <2>3. PICK L \in Orderings :
           seen' = seen \o SubSeq(L, Before + 1,
                                  IF Before + p < Len(L) THEN Before + p ELSE Len(L))
    BY <1>3 DEF ReadPage, Before
  <2> DEFINE e == IF Before + p < Len(L) THEN Before + p ELSE Len(L)
  <2>4. L \in Seq(PlanIds)
    <3>1. L \in Seq(Listed(plans))
      BY OrderingIs
    <3> QED
      BY <3>1, ListedIds, SeqMonotonic
  <2>5. seen' = seen \o SubSeq(L, Before + 1, e)
    BY <2>3
  <2> HIDE DEF p, e
  <2>6. seen' \in Seq(PlanIds)
    BY <2>1, <2>2, <2>4, <2>5, PageShows DEF e
  <2>7. page' \in Nat /\ step' \in {"idle", "count", "read", "done"}
    BY <1>3, <2>2 DEF ReadPage
  <2>8. steady' \subseteq PlanIds /\ quiet' \in BOOLEAN /\ grew' = grew
        /\ size' = size /\ order' = order /\ count' = count
    BY <1>3 DEF ReadPage
  <2> QED
    BY <2>6, <2>7, <2>8
<1>4. CASE PlanNext /\ Observe /\ UNCHANGED <<page, size, order, count, step, seen>>
  <2>1. steady' \subseteq steady /\ grew' \in BOOLEAN /\ quiet' \in BOOLEAN
    BY <1>4 DEF Observe
  <2> QED
    BY <1>4, <2>1
<1>5. CASE UNCHANGED <<planVars, listVars>>
  BY <1>5 DEF listVars
<1> QED
  BY <1>1, <1>2, <1>3, <1>4, <1>5 DEF ListNext

\* What the write of another makes of the walk.
LEMMA WalkObserves ==
    ASSUME PlanTypeOK, ListTypeOK, WalkInv,
           PlanNext /\ Observe /\ UNCHANGED <<page, size, order, count, step, seen>>
    PROVE  WalkInv'
<1> DEFINE old == Listed(plans)
           new == Listed(plans')
           n == Cardinality(old)
<1>1. IsFiniteSet(old) /\ IsFiniteSet(new) /\ n \in Nat /\ Cardinality(new) \in Nat
  BY ListStaysFinite, FS_CardinalityType DEF WalkInv
<1>2. Before' = Before /\ Shown' = Shown /\ Before \in Nat
  BY NextPage, ServicesAssumption DEF Before, Shown, ListTypeOK
<1>3. \A x : Rank(x)' = Cardinality(Ahead(plans', x))
  BY DEF Rank, Ahead, Place
<1>4. Orderings' = {s \in SetToSeqs(new) :
                      \A i, j \in DOMAIN s : i < j => s[i] \in Ahead(plans', s[j])}
  BY DEF Orderings, Ahead, Place, new
<1>5. \A x : Ahead(plans', x) \subseteq new
  BY DEF Ahead, new
<1> HIDE DEF old, new, n
<1>6. CASE step = "idle"
  <2>1. UNCHANGED <<step, seen>> /\ step # "done"
    BY <1>6
  <2>2. WalkShowsAll'
    BY <2>1 DEF WalkShowsAll, WalkComplete, QuietWalkExact
  <2> QED
    BY <1>1, <1>6, <2>1, <2>2 DEF WalkInv, new
<1>7. CASE step # "idle"
  <2>1. /\ steady' = {i \in steady \cap new : Ahead(plans, i) \subseteq Ahead(plans', i)}
        /\ grew' = (grew \/ ~ new \subseteq old)
        /\ quiet' = (quiet /\ old = new
                           /\ \A i \in old : Ahead(plans, i) = Ahead(plans', i))
    BY <1>7 DEF Observe, old, new
  <2>2. steady' \subseteq steady /\ steady' \subseteq new /\ (grew => grew')
        /\ (quiet' => quiet /\ old = new)
    BY <2>1
  <2>3. ASSUME step \in {"count", "read"}, NEW x \in steady', Rank(x)' <= Before
        PROVE  x \in Shown
    <3>1. x \in steady /\ x \in new /\ Ahead(plans, x) \subseteq Ahead(plans', x)
      BY <2>1
    <3>2. IsFiniteSet(Ahead(plans', x))
      BY <1>1, <1>5, FS_Subset
    <3>3. Cardinality(Ahead(plans, x)) <= Cardinality(Ahead(plans', x))
          /\ Cardinality(Ahead(plans, x)) \in Nat /\ Cardinality(Ahead(plans', x)) \in Nat
      BY <3>1, <3>2, RankGrows
    <3>4. Rank(x)' = Cardinality(Ahead(plans', x))
      BY <1>3
    <3>5. Rank(x) <= Before
      BY <1>2, <2>3, <3>3, <3>4 DEF Rank
    <3> QED
      BY <2>3, <3>1, <3>5 DEF WalkInv
  <2>4. ASSUME step \in {"count", "read"}, quiet'
        PROVE  Before <= Cardinality(new) /\ ShownInPlace(Before)'
    <3>1. Before <= n /\ ShownInPlace(Before)
      BY <2>2, <2>4 DEF WalkInv, n, old
    <3>2. ASSUME NEW i \in 1..Before PROVE seen[i] \in new /\ Rank(seen[i])' = i
      <4>1. seen[i] \in old /\ Rank(seen[i]) = i
        BY <3>1 DEF ShownInPlace, old
      <4>2. Ahead(plans, seen[i]) = Ahead(plans', seen[i]) /\ seen' = seen
        BY <2>1, <2>4, <4>1
      <4>3. Rank(seen[i])' = Cardinality(Ahead(plans', seen[i]))
        BY <4>2, <1>3 DEF Rank, Ahead, Place
      <4> QED
        BY <2>2, <2>4, <4>1, <4>2, <4>3 DEF Rank
    <3>3. Len(seen') = Before'
      BY <1>2, <3>1 DEF ShownInPlace
    <3> QED
      BY <1>2, <2>2, <2>4, <3>1, <3>2, <3>3 DEF ShownInPlace, n, new
  <2>5. ASSUME step = "read", ~grew' PROVE Cardinality(new) <= count
    <3>1. ~grew /\ new \subseteq old
      BY <2>1, <2>5
    <3>2. n <= count
      BY <2>5, <3>1 DEF WalkInv, old, n
    <3>3. Cardinality(new) <= n
      BY <1>1, <3>1, FS_Subset DEF n
    <3>4. count \in Nat
      BY DEF ListTypeOK
    <3> QED
      BY <1>1, <3>2, <3>3, <3>4
  <2>6. ASSUME step = "read", quiet' PROVE Cardinality(new) = count
    BY <2>2, <2>6 DEF WalkInv, old
  <2>7. WalkComplete'
    <3>1. step = "done" /\ ~grew' => steady' \subseteq {seen[i] : i \in DOMAIN seen}
      BY <2>2 DEF WalkInv, WalkShowsAll, WalkComplete
    <3> QED
      BY <3>1 DEF WalkComplete
  <2>8. QuietWalkExact'
    <3> SUFFICES ASSUME step = "done", quiet' PROVE seen \in Orderings'
      BY DEF QuietWalkExact
    <3>1. seen \in Orderings /\ old = new
      BY <2>2 DEF WalkInv, WalkShowsAll, QuietWalkExact
    <3>2. seen \in SetToSeqs(new)
          /\ \A i, j \in DOMAIN seen : i < j => seen[i] \in Ahead(plans, seen[j])
      BY <3>1 DEF Orderings, old
    <3>3. \A j \in DOMAIN seen : seen[j] \in old
      BY <3>1, <3>2 DEF SetToSeqs
    <3> QED
      BY <1>4, <2>1, <3>2, <3>3
  <2>9. step' = step /\ seen' = seen /\ count' = count /\ new = Listed(plans)'
    BY DEF new
  <2> HIDE DEF WalkComplete, QuietWalkExact, ShownInPlace
  <2> QED
    BY <1>1, <1>2, <1>7, <2>2, <2>3, <2>4, <2>5, <2>6, <2>7, <2>8, <2>9
       DEF WalkInv, WalkShowsAll
<1> QED
  BY <1>6, <1>7

\* The page that is read shows the rows whose ranks are on it, if nothing ties
\* with them, and the last one all that are left.
LEMMA WalkReads ==
    ASSUME PlanTypeOK, ListTypeOK, WalkInv, ReadPage
    PROVE  WalkInv'
<1> DEFINE p == PerPage(size)
           S == Listed(plans)
           n == Cardinality(S)
           c == CurrentPage(page)
<1>1. page \in Nat /\ size \in Nat /\ seen \in Seq(PlanIds) /\ count \in Nat
  BY ServicesAssumption DEF ListTypeOK
<1>2. /\ p \in Nat \ {0} /\ Before \in Nat /\ c \in Nat \ {0}
      /\ Before + p = c * p /\ Skip(c + 1, p) = Before + p
  BY <1>1, NextPage
<1>3. S \in SUBSET Nat /\ S \subseteq PlanIds /\ IsFiniteSet(S) /\ n \in Nat
  BY ListedIds, FS_CardinalityType DEF WalkInv
<1>4. PICK L \in Orderings :
         seen' = seen \o SubSeq(L, Before + 1,
                                IF Before + p < Len(L) THEN Before + p ELSE Len(L))
  BY DEF ReadPage, Before
<1> DEFINE e == IF Before + p < Len(L) THEN Before + p ELSE Len(L)
<1>5. /\ L \in Seq(S) /\ Len(L) = n
      /\ \A i \in 1..n : L[i] \in S /\ (~Tied(L[i]) => Rank(L[i]) = i)
      /\ \A x \in S : \E i \in 1..n : L[i] = x
  BY <1>3, OrderingIs, RankIsPlace
<1>6. /\ step = "read" /\ plans' = plans
      /\ seen' = seen \o SubSeq(L, Before + 1, e)
      /\ UNCHANGED <<size, order, count, grew>>
      /\ IF c < TotalPage(count, p) THEN page' = c + 1 /\ step' = "count"
                                    ELSE UNCHANGED page /\ step' = "done"
      /\ steady' = {i \in steady : ~Tied(i)}
      /\ quiet' = (quiet /\ \A i \in S : ~Tied(i))
  BY <1>4 DEF ReadPage, planVars
<1>7. /\ steady \subseteq S
      /\ \A x \in steady : Rank(x) <= Before => x \in Shown
      /\ quiet => Before <= n /\ ShownInPlace(Before) /\ n = count
      /\ grew \/ n <= count
  BY <1>6 DEF WalkInv
<1>8. S' = S /\ Orderings' = Orderings /\ \A x : Rank(x)' = Rank(x)
  BY <1>6 DEF Orderings, Rank, Ahead, Place
<1> HIDE DEF p, S, n, c, e
<1>9. L \in Seq(PlanIds)
  BY <1>3, <1>5, SeqMonotonic
<1>10. seen' \in Seq(PlanIds) /\ PageRead(seen, seen', L, Before, p, e)
  BY <1>1, <1>2, <1>6, <1>9, PageShows DEF e
<1>11. Shown \subseteq Shown'
  BY <1>10 DEF Shown, PageRead
<1>12. ASSUME NEW x \in steady', Rank(x) <= Before + p PROVE x \in Shown'
  <2>1. x \in steady /\ x \in S /\ ~Tied(x)
    BY <1>6, <1>7
  <2>2. PICK r \in 1..n : L[r] = x
    BY <1>5, <2>1
  <2>3. Rank(x) = r /\ r \in Nat
    BY <1>3, <1>5, <2>1, <2>2
  <2>4. CASE r <= Before
    BY <1>7, <1>11, <2>1, <2>3, <2>4
  <2>5. CASE Before < r
    <3>1. \E k \in DOMAIN seen' : seen'[k] = x
      BY <1>5, <1>10, <1>12, <2>2, <2>3, <2>5 DEF PageRead
    <3> QED
      BY <3>1 DEF Shown
  <2> QED
    BY <1>2, <2>3, <2>4, <2>5
<1>13. ASSUME quiet'
       PROVE  /\ Before <= n /\ n = count /\ e \in Nat /\ e <= n
              /\ Len(seen') = e
              /\ \A i \in 1..e : seen'[i] \in S /\ Rank(seen'[i]) = i
  <2>1. Before <= n /\ Len(seen) = Before /\ n = count
        /\ \A i \in 1..Before : seen[i] \in S /\ Rank(seen[i]) = i
    BY <1>6, <1>7, <1>13 DEF ShownInPlace, S
  <2>2. e \in Nat /\ e <= n
    BY <1>2, <1>3, <1>5 DEF e
  <2>3. Len(seen') = e /\ \A i \in 1..e : seen'[i] = IF i <= Before THEN seen[i] ELSE L[i]
    BY <1>5, <1>10, <2>1 DEF PageRead
  <2>4. ASSUME NEW i \in 1..e PROVE seen'[i] \in S /\ Rank(seen'[i]) = i
    <3>1. CASE i <= Before
      <4>1. i \in 1..Before /\ seen'[i] = seen[i]
        BY <1>2, <2>2, <2>3, <3>1
      <4> QED
        BY <2>1, <4>1
    <3>2. CASE ~(i <= Before)
      <4>1. i \in 1..n /\ seen'[i] = L[i]
        BY <1>3, <2>2, <2>3, <3>2
      <4>2. L[i] \in S /\ ~Tied(L[i])
        BY <1>5, <1>6, <1>13, <4>1
      <4> QED
        BY <1>5, <4>1, <4>2
    <3> QED
      BY <3>1, <3>2
  <2> QED
    BY <2>1, <2>2, <2>3, <2>4
<1>14. ASSUME quiet', NEW i \in 1..e PROVE Rank(seen[i])' = i
  <2>1. order' = order
    BY <1>6
  <2>2. Rank(seen[i])' = Cardinality(Ahead(plans', seen'[i]))
    BY ONLY <2>1 DEF Rank, Ahead, Place
  <2> QED
    BY <1>6, <1>13, <1>14, <2>2 DEF Rank
<1>15. CASE c < TotalPage(count, p)
  <2>1. page' = c + 1 /\ step' = "count"
    BY <1>6, <1>15
  <2>2. Before' = Before + p
    BY <1>2, <1>6, <2>1 DEF Before, p
  <2>3. ASSUME quiet' PROVE Before' <= n /\ ShownInPlace(Before)'
    <3>1. c * p < count
      BY <1>1, <1>2, <1>15, PagesReach
    <3>2. Before + p < n
      BY <1>2, <1>13, <2>3, <3>1
    <3>3. e = Before'
      BY <1>5, <2>2, <3>2 DEF e
    <3> QED
      BY <1>8, <1>13, <1>14, <2>2, <2>3, <3>2, <3>3, <1>2, <1>3 DEF ShownInPlace, S
  <2>4. WalkShowsAll'
    BY <2>1 DEF WalkShowsAll, WalkComplete, QuietWalkExact
  <2>5. IsFiniteSet(S') /\ steady' \subseteq S'
    BY <1>3, <1>6, <1>7, <1>8
  <2>6. \A x \in steady' : Rank(x)' <= Before' => x \in Shown'
    BY <1>8, <1>12, <2>2
  <2>7. n = Cardinality(S')
    BY <1>8 DEF n
  <2> QED
    BY <2>1, <2>3, <2>4, <2>5, <2>6, <2>7 DEF WalkInv, S
<1>16. CASE ~(c < TotalPage(count, p))
  <2>1. UNCHANGED page /\ step' = "done"
    BY <1>6, <1>16
  <2>2. count <= Before + p
    <3>1. TotalPage(count, p) \in Nat
      BY <1>1, <1>2, Division DEF TotalPage
    <3>2. TotalPage(count, p) <= c
      BY <1>2, <1>16, <3>1
    <3> QED
      BY <1>1, <1>2, <3>2, PagesReach
  <2>3. ASSUME ~grew, NEW x \in steady' PROVE x \in Shown'
    <3>1. x \in S
      BY <1>6, <1>7
    <3>2. Rank(x) \in 1..n
      BY <1>3, <3>1, RankType DEF n, S
    <3>3. Rank(x) <= Before + p
      BY <1>1, <1>2, <1>3, <1>7, <2>2, <2>3, <3>2
    <3> QED
      BY <1>12, <3>3
  <2>4. ASSUME quiet' PROVE seen' \in Orderings'
    <3>1. e = n
      BY <1>2, <1>5, <1>13, <2>2, <2>4 DEF e
    <3>2. Len(seen') = n /\ \A i \in 1..Len(seen') : seen'[i] \in S /\ Rank(seen'[i]) = i
      BY <1>13, <2>4, <3>1
    <3>3. seen' \in Orderings
      BY <1>3, <1>10, <3>2, PlacesAreOrdering DEF n, S
    <3> QED
      BY <1>8, <3>3
  <2>5. WalkShowsAll'
    BY <1>6, <2>3, <2>4 DEF WalkShowsAll, WalkComplete, QuietWalkExact, Shown
  <2>6. IsFiniteSet(S')
    BY <1>3, <1>8
  <2> QED
    BY <2>1, <2>5, <2>6 DEF WalkInv, S
<1> QED
  BY <1>15, <1>16

LEMMA WalkInvStep ==
    ASSUME PlanTypeOK, ListTypeOK, WalkInv,
           ListNext \/ UNCHANGED <<planVars, listVars>>
    PROVE  WalkInv'
<1>1. ASSUME NEW first \in {0, 1}, BeginWalk(first) PROVE WalkInv'
  <2> DEFINE S == Listed(plans)
  <2>1. page' \in {0, 1} /\ UNCHANGED <<size, order, plans, seen>>
        /\ step' = "count" /\ steady' = S /\ seen' = <<>> /\ S' = S
    BY <1>1 DEF BeginWalk, planVars, WalkInv
  <2>2. Before' = 0
    <3>1. 0 * PerPage(size) = 0
      BY NextPage, ServicesAssumption DEF ListTypeOK
    <3>2. Before' = Skip(page', PerPage(size))
      BY <2>1 DEF Before
    <3> QED
      BY <2>1, <3>1, <3>2 DEF Skip
  <2>3. IsFiniteSet(S) /\ Cardinality(S) \in Nat
    BY FS_CardinalityType DEF WalkInv
  <2>4. \A x \in S : ~(Rank(x)' <= 0)
    <3>1. \A x \in S : Rank(x) \in 1..Cardinality(S)
      BY <2>3, RankType
    <3>2. \A x : Rank(x)' = Rank(x)
      BY <2>1 DEF Rank, Ahead, Place
    <3> HIDE DEF S
    <3> QED
      BY <2>3, <3>1, <3>2
  <2>5. WalkShowsAll'
    BY <2>1 DEF WalkShowsAll, WalkComplete, QuietWalkExact
  <2>6. ShownInPlace(Before)'
    BY <2>1, <2>2, EmptySeq DEF ShownInPlace
  <2> HIDE DEF S
  <2> QED
    BY <2>1, <2>2, <2>3, <2>4, <2>5, <2>6 DEF WalkInv, S
<1>2. CASE CountRows
  <2>1. /\ step = "count" /\ step' = "read" /\ plans' = plans
        /\ count' = Cardinality(Listed(plans))
        /\ UNCHANGED <<page, size, order, seen, steady, quiet>>
    BY <1>2 DEF CountRows, planVars
  <2>2. Before' = Before /\ Shown' = Shown /\ Listed(plans)' = Listed(plans)
        /\ ShownInPlace(Before)' = ShownInPlace(Before)
    BY <2>1 DEF Before, Shown, ShownInPlace, Rank, Ahead, Place
  <2>3. \A x : Rank(x)' = Rank(x)
    BY <2>1 DEF Rank, Ahead, Place
  <2>4. Cardinality(Listed(plans)) \in Nat
    BY FS_CardinalityType DEF WalkInv
  <2>5. WalkShowsAll'
    BY <2>1 DEF WalkShowsAll, WalkComplete, QuietWalkExact
  <2> QED
    BY <2>1, <2>2, <2>3, <2>4, <2>5 DEF WalkInv
<1>3. CASE UNCHANGED <<planVars, listVars>>
  <2>1. UNCHANGED <<plans, page, size, order, count, step, seen, steady, grew, quiet>>
    BY <1>3 DEF planVars, listVars
  <2>2. /\ Before' = Before /\ Shown' = Shown /\ Listed(plans)' = Listed(plans)
        /\ ShownInPlace(Before)' = ShownInPlace(Before)
        /\ \A x : Rank(x)' = Rank(x)
    BY <2>1 DEF Before, Shown, ShownInPlace, Rank, Ahead, Place
  <2>3. Orderings' = Orderings
    BY <2>1 DEF Orderings, Ahead, Place
  <2>4. WalkShowsAll' = WalkShowsAll
    BY <2>1, <2>3 DEF WalkShowsAll, WalkComplete, QuietWalkExact
  <2> QED
    BY <2>1, <2>2, <2>4 DEF WalkInv
<1> QED
  BY <1>1, <1>2, <1>3, WalkReads, WalkObserves DEF ListNext

LEMMA WalkSound == Spec => [](ListTypeOK /\ WalkInv)
<1>1. Init => ListTypeOK /\ WalkInv
  <2> SUFFICES ASSUME Init PROVE ListTypeOK /\ WalkInv
    OBVIOUS
  <2>1. plans = {} /\ Listed(plans) = {} /\ step = "idle" /\ seen = <<>>
        /\ steady = {} /\ grew = FALSE /\ quiet = TRUE
    BY DEF Init, PlanInit, ListInit, Listed
  <2>2. ListTypeOK
    <3>1. seen \in Seq(PlanIds)
      BY <2>1, EmptySeq
    <3>2. page = 0 /\ size \in Sizes /\ order \in Orders /\ count = 0
      BY DEF Init, ListInit
    <3> QED
      BY <2>1, <3>1, <3>2 DEF ListTypeOK
  <2>3. IsFiniteSet(Listed(plans))
    BY <2>1, FS_EmptySet
  <2>4. WalkInv
    BY <2>1, <2>3 DEF WalkInv, WalkShowsAll, WalkComplete, QuietWalkExact
  <2> QED
    BY <2>2, <2>4
<1>2. PlanTypeOK /\ ListTypeOK /\ WalkInv /\ [Next]_vars => ListTypeOK' /\ WalkInv'
  <2> SUFFICES ASSUME PlanTypeOK, ListTypeOK, WalkInv, [Next]_vars
               PROVE  ListTypeOK' /\ WalkInv'
    OBVIOUS
  <2>1. ListNext \/ UNCHANGED <<planVars, listVars>>
    BY DEF Next, vars
  <2> QED
    BY <2>1, ListTypeStep, WalkInvStep DEF WalkInv
<1> QED
  BY <1>1, <1>2, PlansSound, PTL DEF Spec

\* base-list-input-transform.ts and list-subscription-plan.service.ts: for any
\* rows, page sizes, orders and writes of others, a client that walks to the
\* last page has seen every row that stayed, unless a row went from ahead of it,
\* moved behind it or tied with it, or one came after the count; and a list at
\* rest, with no ties, is shown row by row in its order, each row once.
THEOREM WalksShowAllRows == Spec => []WalkShowsAll
<1>1. WalkInv => WalkShowsAll
  BY DEF WalkInv
<1> QED
  BY <1>1, WalkSound, PTL

-----------------------------------------------------------------------------
(* The program of the seeds                                                *)

LEMMA SequenceOf ==
    ASSUME NEW S, NEW n \in Nat, NEW s \in [1..n -> S]
    PROVE  s \in Seq(S) /\ Len(s) = n
  OBVIOUS

RoleNumbers == 1..7
UserNumbers == 8..14
WorkspaceNumbers == 15..18
PostNumbers == 19..20
SubscriptionNumbers == 21..35

\* The seed that a step is of.
SeedsByNumber ==
    /\ \A i \in RoleNumbers : Program[i].seed = "role"
    /\ \A i \in UserNumbers : Program[i].seed = "user"
    /\ \A i \in WorkspaceNumbers : Program[i].seed = "workspace"
    /\ \A i \in PostNumbers : Program[i].seed = "post"
    /\ \A i \in SubscriptionNumbers : Program[i].seed = "subscription"

\* The number of a step, by its name.
RoleStepNumbers ==
    \A i \in DOMAIN Program :
        /\ Program[i].step = "deletePrivileges" => i = 1
        /\ Program[i].step = "deleteRoles" => i = 2
        /\ Program[i].step = "createPrivileges" => i = 3
        /\ Program[i].step = "createRoles" => i = 4
        /\ Program[i].step = "SUPER_ADMIN" => i = 5
        /\ Program[i].step = "ADMIN" => i = 6
        /\ Program[i].step = "USER" => i = 7

UserStepNumbers ==
    \A i \in DOMAIN Program :
        /\ Program[i].step = "deleteUsers" => i = 8
        /\ Program[i].step = "deleteUserRoles" => i = 9
        /\ Program[i].step = "createAdmin" => i = 10
        /\ Program[i].step = "assignAdmin" => i = 11
        /\ Program[i].step = "user0" => i = 12
        /\ Program[i].step = "user1" => i = 13
        /\ Program[i].step = "assignUsers" => i = 14

WorkspaceStepNumbers ==
    \A i \in DOMAIN Program :
        /\ Program[i].step = "deleteWorkspaces" => i = 15
        /\ Program[i].step = "deleteMemberships" => i = 16
        /\ Program[i].step = "createWorkspaces" => i = 17
        /\ Program[i].step = "createMemberships" => i = 18
        /\ Program[i].step = "deletePosts" => i = 19
        /\ Program[i].step = "createPost" => i = 20

PlanStepNumbers ==
    \A i \in DOMAIN Program :
        /\ Program[i].step = "deletePlans" => i = 21
        /\ Program[i].step = "Trial" => i = 22
        /\ Program[i].step = "Basic" => i = 23
        /\ Program[i].step = "Premium" => i = 24
        /\ Program[i].step = "Ultimate" => i = 25
        /\ Program[i].step = "deleteInfos" => i = 26
        /\ Program[i].step = "premiumRole" => i = 27
        /\ Program[i].step = "ultimateRole" => i = 28
        /\ Program[i].step = "ultimateMedia" => i = 29

SubscriptionStepNumbers ==
    \A i \in DOMAIN Program :
        /\ Program[i].step = "deleteCoupons" => i = 30
        /\ Program[i].step = "createCoupons" => i = 31
        /\ Program[i].step = "deleteSubscriptions" => i = 32
        /\ Program[i].step = "createSubscriptions" => i = 33
        /\ Program[i].step = "deletePayments" => i = 34
        /\ Program[i].step = "createPayments" => i = 35

LEMMA ProgramIs ==
    /\ Len(Program) = 35 /\ DOMAIN Program = 1..35
    /\ SeedsByNumber
    /\ RoleStepNumbers /\ UserStepNumbers /\ WorkspaceStepNumbers /\ PlanStepNumbers
    /\ SubscriptionStepNumbers
<1> DEFINE a == <<"deletePrivileges", "deleteRoles", "createPrivileges", "createRoles",
                  "SUPER_ADMIN", "ADMIN", "USER">>
           b == <<"deleteUsers", "deleteUserRoles", "createAdmin", "assignAdmin",
                  "user0", "user1", "assignUsers">>
           c == <<"deleteWorkspaces", "deleteMemberships", "createWorkspaces",
                  "createMemberships">>
           d == <<"deletePosts", "createPost">>
           e == <<"deletePlans", "Trial", "Basic", "Premium", "Ultimate",
                  "deleteInfos", "premiumRole", "ultimateRole",
                  "ultimateMedia", "deleteCoupons", "createCoupons",
                  "deleteSubscriptions", "createSubscriptions",
                  "deletePayments", "createPayments">>
           A == Part("role", a)
           B == Part("user", b)
           C == Part("workspace", c)
           D == Part("post", d)
           E == Part("subscription", e)
           Rows(seed, steps, n) == {[seed |-> seed, step |-> steps[i]] : i \in 1..n}
           S == Rows("role", a, 7) \cup Rows("user", b, 7) \cup Rows("workspace", c, 4)
                  \cup Rows("post", d, 2) \cup Rows("subscription", e, 15)
<1>1. /\ DOMAIN a = 1..7 /\ DOMAIN b = 1..7 /\ DOMAIN c = 1..4 /\ DOMAIN d = 1..2
      /\ DOMAIN e = 1..15
  OBVIOUS
<1>2. /\ a[1] = "deletePrivileges" /\ a[2] = "deleteRoles" /\ a[3] = "createPrivileges"
      /\ a[4] = "createRoles" /\ a[5] = "SUPER_ADMIN" /\ a[6] = "ADMIN" /\ a[7] = "USER"
      /\ b[1] = "deleteUsers" /\ b[2] = "deleteUserRoles" /\ b[3] = "createAdmin"
      /\ b[4] = "assignAdmin" /\ b[5] = "user0" /\ b[6] = "user1" /\ b[7] = "assignUsers"
      /\ c[1] = "deleteWorkspaces" /\ c[2] = "deleteMemberships"
      /\ c[3] = "createWorkspaces" /\ c[4] = "createMemberships"
      /\ d[1] = "deletePosts" /\ d[2] = "createPost"
      /\ e[1] = "deletePlans" /\ e[2] = "Trial" /\ e[3] = "Basic" /\ e[4] = "Premium"
      /\ e[5] = "Ultimate" /\ e[6] = "deleteInfos" /\ e[7] = "premiumRole"
      /\ e[8] = "ultimateRole" /\ e[9] = "ultimateMedia" /\ e[10] = "deleteCoupons"
      /\ e[11] = "createCoupons" /\ e[12] = "deleteSubscriptions"
      /\ e[13] = "createSubscriptions" /\ e[14] = "deletePayments"
      /\ e[15] = "createPayments"
  OBVIOUS
<1>3. Program = A \o B \o C \o D \o E
  BY DEF Program
<1> HIDE DEF a, b, c, d, e
<1>4. /\ \A i \in 1..7 : [seed |-> "role", step |-> a[i]] \in S
      /\ \A i \in 1..7 : [seed |-> "user", step |-> b[i]] \in S
      /\ \A i \in 1..4 : [seed |-> "workspace", step |-> c[i]] \in S
      /\ \A i \in 1..2 : [seed |-> "post", step |-> d[i]] \in S
      /\ \A i \in 1..15 : [seed |-> "subscription", step |-> e[i]] \in S
  OBVIOUS
<1> HIDE DEF S, Rows
<1>5. /\ A \in Seq(S) /\ Len(A) = 7
      /\ \A i \in 1..7 : A[i].seed = "role" /\ A[i].step = a[i]
  <2>1. A = [i \in 1..7 |-> [seed |-> "role", step |-> a[i]]]
    BY <1>1 DEF Part
  <2> HIDE DEF A
  <2>2. A \in [1..7 -> S]
    BY <1>4, <2>1
  <2> QED
    BY <2>1, <2>2, SequenceOf
<1>6. /\ B \in Seq(S) /\ Len(B) = 7
      /\ \A i \in 1..7 : B[i].seed = "user" /\ B[i].step = b[i]
  <2>1. B = [i \in 1..7 |-> [seed |-> "user", step |-> b[i]]]
    BY <1>1 DEF Part
  <2> HIDE DEF B
  <2>2. B \in [1..7 -> S]
    BY <1>4, <2>1
  <2> QED
    BY <2>1, <2>2, SequenceOf
<1>7. /\ C \in Seq(S) /\ Len(C) = 4
      /\ \A i \in 1..4 : C[i].seed = "workspace" /\ C[i].step = c[i]
  <2>1. C = [i \in 1..4 |-> [seed |-> "workspace", step |-> c[i]]]
    BY <1>1 DEF Part
  <2> HIDE DEF C
  <2>2. C \in [1..4 -> S]
    BY <1>4, <2>1
  <2> QED
    BY <2>1, <2>2, SequenceOf
<1>8. /\ D \in Seq(S) /\ Len(D) = 2
      /\ \A i \in 1..2 : D[i].seed = "post" /\ D[i].step = d[i]
  <2>1. D = [i \in 1..2 |-> [seed |-> "post", step |-> d[i]]]
    BY <1>1 DEF Part
  <2> HIDE DEF D
  <2>2. D \in [1..2 -> S]
    BY <1>4, <2>1
  <2> QED
    BY <2>1, <2>2, SequenceOf
<1>9. /\ E \in Seq(S) /\ Len(E) = 15
      /\ \A i \in 1..15 : E[i].seed = "subscription" /\ E[i].step = e[i]
  <2>1. E = [i \in 1..15 |-> [seed |-> "subscription", step |-> e[i]]]
    BY <1>1 DEF Part
  <2> HIDE DEF E
  <2>2. E \in [1..15 -> S]
    BY <1>4, <2>1
  <2> QED
    BY <2>1, <2>2, SequenceOf
<1> HIDE DEF A, B, C, D, E
<1> DEFINE AB == A \o B
           ABC == AB \o C
           ABCD == ABC \o D
           ABCDE == ABCD \o E
<1> HIDE DEF AB, ABC, ABCD, ABCDE
<1>10. /\ AB \in Seq(S) /\ Len(AB) = 14
       /\ \A i \in 1..7 : AB[i] = A[i]
       /\ \A i \in 8..14 : AB[i] = B[i - 7]
  <2>1. A \in Seq(S) /\ B \in Seq(S) /\ Len(A) = 7 /\ Len(B) = 7
    BY <1>5, <1>6
  <2>2. /\ AB \in Seq(S)
        /\ Len(AB) = Len(A) + Len(B)
        /\ \A i \in 1..Len(A) + Len(B) :
             AB[i] = IF i <= Len(A) THEN A[i] ELSE B[i - Len(A)]
    BY ONLY <2>1, ConcatProperties DEF AB
  <2> QED
    BY ONLY <2>1, <2>2
<1>11. /\ ABC \in Seq(S) /\ Len(ABC) = 18
       /\ \A i \in 1..14 : ABC[i] = AB[i]
       /\ \A i \in 15..18 : ABC[i] = C[i - 14]
  <2>1. AB \in Seq(S) /\ C \in Seq(S) /\ Len(AB) = 14 /\ Len(C) = 4
    BY <1>10, <1>7
  <2>2. /\ ABC \in Seq(S)
        /\ Len(ABC) = Len(AB) + Len(C)
        /\ \A i \in 1..Len(AB) + Len(C) :
             ABC[i] = IF i <= Len(AB) THEN AB[i] ELSE C[i - Len(AB)]
    BY ONLY <2>1, ConcatProperties DEF ABC
  <2> QED
    BY ONLY <2>1, <2>2
<1>12. /\ ABCD \in Seq(S) /\ Len(ABCD) = 20
       /\ \A i \in 1..18 : ABCD[i] = ABC[i]
       /\ \A i \in 19..20 : ABCD[i] = D[i - 18]
  <2>1. ABC \in Seq(S) /\ D \in Seq(S) /\ Len(ABC) = 18 /\ Len(D) = 2
    BY <1>11, <1>8
  <2>2. /\ ABCD \in Seq(S)
        /\ Len(ABCD) = Len(ABC) + Len(D)
        /\ \A i \in 1..Len(ABC) + Len(D) :
             ABCD[i] = IF i <= Len(ABC) THEN ABC[i] ELSE D[i - Len(ABC)]
    BY ONLY <2>1, ConcatProperties DEF ABCD
  <2> QED
    BY ONLY <2>1, <2>2
<1>13. /\ ABCDE \in Seq(S) /\ Len(ABCDE) = 35
       /\ \A i \in 1..20 : ABCDE[i] = ABCD[i]
       /\ \A i \in 21..35 : ABCDE[i] = E[i - 20]
  <2>1. ABCD \in Seq(S) /\ E \in Seq(S) /\ Len(ABCD) = 20 /\ Len(E) = 15
    BY <1>12, <1>9
  <2>2. /\ ABCDE \in Seq(S)
        /\ Len(ABCDE) = Len(ABCD) + Len(E)
        /\ \A i \in 1..Len(ABCD) + Len(E) :
             ABCDE[i] = IF i <= Len(ABCD) THEN ABCD[i] ELSE E[i - Len(ABCD)]
    BY ONLY <2>1, ConcatProperties DEF ABCDE
  <2> QED
    BY ONLY <2>1, <2>2
<1>14. Program = ABCDE
  BY <1>3 DEF AB, ABC, ABCD, ABCDE
<1> HIDE DEF Program
<1>15. Len(Program) = 35 /\ DOMAIN Program = 1..35
  <2>1. Len(ABCDE) = 35 /\ DOMAIN ABCDE = 1..Len(ABCDE)
    BY <1>13, LenProperties
  <2> QED
    BY <1>14, <2>1
<1>16. /\ \A i \in 1..20 : Program[i] = ABCD[i]
       /\ \A i \in 21..35 : Program[i] = E[i - 20]
  BY ONLY <1>13, <1>14
<1>17. /\ \A i \in 1..18 : Program[i] = ABC[i]
       /\ \A i \in 19..20 : Program[i] = D[i - 18]
  <2>1. \A i \in 1..18 : ABCD[i] = ABC[i]
    BY ONLY <1>12
  <2>2. \A i \in 19..20 : ABCD[i] = D[i - 18]
    BY ONLY <1>12
  <2> QED
    BY ONLY <1>16, <2>1, <2>2
<1>18. /\ \A i \in 1..14 : Program[i] = AB[i]
       /\ \A i \in 15..18 : Program[i] = C[i - 14]
  <2>1. \A i \in 1..14 : ABC[i] = AB[i]
    BY ONLY <1>11
  <2>2. \A i \in 15..18 : ABC[i] = C[i - 14]
    BY ONLY <1>11
  <2> QED
    BY ONLY <1>17, <2>1, <2>2
<1>19. /\ \A i \in 1..7 : Program[i] = A[i]
       /\ \A i \in 8..14 : Program[i] = B[i - 7]
  <2>1. \A i \in 1..7 : AB[i] = A[i]
    BY ONLY <1>10
  <2>2. \A i \in 8..14 : AB[i] = B[i - 7]
    BY ONLY <1>10
  <2> QED
    BY ONLY <1>18, <2>1, <2>2
<1>20. \A i \in 1..7 : Program[i].seed = "role" /\ Program[i].step = a[i]
  <2>1. \A i \in 1..7 : Program[i] = A[i] /\ i \in 1..7
    BY ONLY <1>19
  <2> QED
    BY ONLY <1>5, <2>1
<1>21. \A i \in 8..14 : Program[i].seed = "user" /\ Program[i].step = b[i - 7]
  <2>1. \A i \in 8..14 : Program[i] = B[i - 7] /\ i - 7 \in 1..7
    BY ONLY <1>19
  <2> QED
    BY ONLY <1>6, <2>1
<1>22. \A i \in 15..18 : Program[i].seed = "workspace" /\ Program[i].step = c[i - 14]
  <2>1. \A i \in 15..18 : Program[i] = C[i - 14] /\ i - 14 \in 1..4
    BY ONLY <1>18
  <2> QED
    BY ONLY <1>7, <2>1
<1>23. \A i \in 19..20 : Program[i].seed = "post" /\ Program[i].step = d[i - 18]
  <2>1. \A i \in 19..20 : Program[i] = D[i - 18] /\ i - 18 \in 1..2
    BY ONLY <1>17
  <2> QED
    BY ONLY <1>8, <2>1
<1>24. \A i \in 21..35 : Program[i].seed = "subscription" /\ Program[i].step = e[i - 20]
  <2>1. \A i \in 21..35 : Program[i] = E[i - 20] /\ i - 20 \in 1..15
    BY ONLY <1>16
  <2>2. \A j \in 1..15 : E[j].seed = "subscription" /\ E[j].step = e[j]
    BY ONLY <1>9
  <2>3. ASSUME NEW i \in 21..35
        PROVE  Program[i].seed = "subscription" /\ Program[i].step = e[i - 20]
    <3> DEFINE j == i - 20
    <3>1. Program[i] = E[j] /\ j \in 1..15
      BY ONLY <2>1, i \in 21..35 DEF j
    <3> HIDE DEF j
    <3>2. E[j].seed = "subscription" /\ E[j].step = e[j]
      BY ONLY <2>2, <3>1
    <3> QED
      BY ONLY <3>1, <3>2 DEF j
  <2> QED
    BY ONLY <2>3
<1>25. SeedsByNumber
  BY ONLY <1>20, <1>21, <1>22, <1>23, <1>24
     DEF SeedsByNumber, RoleNumbers, UserNumbers, WorkspaceNumbers, PostNumbers,
         SubscriptionNumbers
<1> DEFINE Named(i, x) == Program[i].step = x
<1>26. /\ Named(1, "deletePrivileges") /\ Named(2, "deleteRoles")
       /\ Named(3, "createPrivileges") /\ Named(4, "createRoles")
       /\ Named(5, "SUPER_ADMIN") /\ Named(6, "ADMIN") /\ Named(7, "USER")
  BY ONLY <1>2, <1>20 DEF Named
<1>27. /\ Named(8, "deleteUsers") /\ Named(9, "deleteUserRoles")
       /\ Named(10, "createAdmin") /\ Named(11, "assignAdmin")
       /\ Named(12, "user0") /\ Named(13, "user1") /\ Named(14, "assignUsers")
  BY ONLY <1>2, <1>21 DEF Named
<1>28. /\ Named(15, "deleteWorkspaces") /\ Named(16, "deleteMemberships")
       /\ Named(17, "createWorkspaces") /\ Named(18, "createMemberships")
       /\ Named(19, "deletePosts") /\ Named(20, "createPost")
  BY ONLY <1>2, <1>22, <1>23 DEF Named
<1>29. /\ Named(21, "deletePlans") /\ Named(22, "Trial") /\ Named(23, "Basic")
       /\ Named(24, "Premium") /\ Named(25, "Ultimate") /\ Named(26, "deleteInfos")
       /\ Named(27, "premiumRole") /\ Named(28, "ultimateRole")
       /\ Named(29, "ultimateMedia")
  BY ONLY <1>2, <1>24 DEF Named
<1>30. /\ Named(30, "deleteCoupons") /\ Named(31, "createCoupons")
       /\ Named(32, "deleteSubscriptions") /\ Named(33, "createSubscriptions")
       /\ Named(34, "deletePayments") /\ Named(35, "createPayments")
  BY ONLY <1>2, <1>24 DEF Named
<1>31. RoleStepNumbers
  BY ONLY <1>15, <1>26, <1>27, <1>28, <1>29, <1>30 DEF Named, RoleStepNumbers
<1>32. UserStepNumbers
  BY ONLY <1>15, <1>26, <1>27, <1>28, <1>29, <1>30 DEF Named, UserStepNumbers
<1>33. WorkspaceStepNumbers
  BY ONLY <1>15, <1>26, <1>27, <1>28, <1>29, <1>30 DEF Named, WorkspaceStepNumbers
<1>34. PlanStepNumbers
  BY ONLY <1>15, <1>26, <1>27, <1>28, <1>29, <1>30 DEF Named, PlanStepNumbers
<1>35. SubscriptionStepNumbers
  BY ONLY <1>15, <1>26, <1>27, <1>28, <1>29, <1>30 DEF Named, SubscriptionStepNumbers
<1> QED
  BY <1>15, <1>25, <1>31, <1>32, <1>33, <1>34, <1>35

-----------------------------------------------------------------------------
(* The seeds                                                               *)

\* The steps that have been done in the latest run, in the parts it got to the
\* end of or has not left, if nobody used the service since.
Done == {i \in DOMAIN Program : /\ Program[i].seed \notin missed
                                /\ IF at = 0 THEN fresh ELSE i < at}

RoleOf(type) == <<type, run>>
AdminRole == <<"admin", RoleOf("SUPER_ADMIN")>>
RegularRoles == Regular \X {RoleOf("USER")}

\* What the steps of each part leave in the tables.
RolesLeft ==
    /\ 1 \in Done => tables.privileges \subseteq {run}
    /\ 2 \in Done => tables.roles \subseteq RoleNames \X {run}
    /\ 3 \in Done => tables.privileges = {run}
    /\ 4 \in Done => tables.roles = RoleNames \X {run}
    /\ 5 \in Done => RoleOf("SUPER_ADMIN") \in tables.granted
    /\ 6 \in Done => RoleOf("ADMIN") \in tables.granted
    /\ 7 \in Done => RoleOf("USER") \in tables.granted

UsersLeft ==
    /\ 8 \in Done => tables.users \subseteq {"admin"} \cup Regular
    /\ 10 \in Done => "admin" \in tables.users
    /\ 12 \in Done => "user0" \in tables.users
    /\ 13 \in Done => "user1" \in tables.users

\* The roles given out, if those of this run are there: a create that nobody
\* waits for has been done or is still to come.
RolesGiven ==
    /\ 8 \in Done => tables.userRoles \cup assigning \subseteq {AdminRole} \cup RegularRoles
    /\ 11 \in Done => AdminRole \in tables.userRoles
    /\ 14 \in Done => RegularRoles \subseteq tables.userRoles \cup assigning

OneOwned(u) == \E w \in Runs : {o \in tables.owners : o[1] = u} = {<<u, w>>}
EachOwnsOne == \A u \in tables.users : OneOwned(u)

WorkspacesLeft ==
    /\ at \in 17..18 => tables.owners = {}
    /\ 18 \in Done => EachOwnsOne
    /\ at = 20 => tables.posts = {}
    /\ 20 \in Done => tables.posts = {run}

PlansLeft ==
    /\ 21 \in Done => tables.plans \subseteq PlanNames \X {run}
    /\ 22 \in Done => <<"Trial", run>> \in tables.plans
    /\ 23 \in Done => <<"Basic", run>> \in tables.plans
    /\ 24 \in Done => <<"Premium", run>> \in tables.plans
    /\ 25 \in Done => <<"Ultimate", run>> \in tables.plans
    /\ 26 \in Done => tables.infos \subseteq InfoNames \X {run}
    /\ 27 \in Done => <<"premiumRole", run>> \in tables.infos
    /\ 28 \in Done => <<"ultimateRole", run>> \in tables.infos
    /\ 29 \in Done => <<"ultimateMedia", run>> \in tables.infos

Subscribed == {s[1] : s \in tables.subscriptions}

PaymentsLeft ==
    /\ at = 33 => tables.subscriptions = {}
    /\ 33 \in Done => Subscribed \in Few(tables.users \ {"admin"})
    /\ at = 35 => tables.payments = {}
    /\ 35 \in Done => tables.payments = Subscribed

OneRoleEach == \A q, r \in tables.roles : q[1] = r[1] => q = r

\* Where the program is: a part is missed only when it has been left, creates
\* that nobody waits for are under way only after the user part, and the roles
\* are always those of one run.
SeedRuns ==
    /\ at # 0 => run \in Runs
    /\ fresh => at = 0
    /\ at <= 14 => assigning = {}
    /\ at # 0 => \A i \in DOMAIN Program : i >= at => Program[i].seed \notin missed
    /\ at \in 3..4 => tables.roles = {}
    /\ OneRoleEach

SeedInv ==
    /\ SeedTypeOK
    /\ SeedRuns
    /\ RolesLeft
    /\ UsersLeft
    /\ 7 \in Done => RolesGiven
    /\ WorkspacesLeft
    /\ PlansLeft
    /\ PaymentsLeft

Forward == at \in 1..35 /\ at' = at + 1 /\ UNCHANGED <<run, missed, fresh>>

LEMMA NowForward ==
    ASSUME NEW name, Now(name)
    PROVE  Forward /\ Program[at].step = name
  BY ProgramIs DEF Now, Forward

\* Of the part that the program is in, it has done what comes before, and a
\* step that is done adds itself.
LEMMA DoneForward ==
    ASSUME SeedTypeOK, SeedRuns, Forward
    PROVE  /\ run \in Runs /\ run' = run /\ at' \in 2..36
           /\ Done' = Done \cup {at}
           /\ \A i \in Done : i \in 1..35 /\ i < at
           /\ \A i \in 1..35 : i < at /\ Program[i].seed = Program[at].seed => i \in Done
<1>1. at # 0 /\ at' # 0 /\ at \in DOMAIN Program /\ DOMAIN Program = 1..35
  BY ProgramIs DEF Forward
<1>2. Program[at].seed \notin missed
  BY <1>1 DEF SeedRuns, Forward
<1>3. \A i \in 1..35 : i \in Done <=> Program[i].seed \notin missed /\ i < at
  BY <1>1 DEF Done
<1>4. \A i \in 1..35 : i \in Done' <=> Program[i].seed \notin missed /\ i < at + 1
  BY <1>1 DEF Done, Forward
<1>5. Done \subseteq 1..35 /\ Done' \subseteq 1..35
  BY <1>1 DEF Done
<1>6. \A i \in 1..35 : i < at + 1 <=> i < at \/ i = at
  BY DEF Forward
<1>7. Done' = Done \cup {at}
  BY <1>1, <1>2, <1>3, <1>4, <1>5, <1>6
<1> QED
  BY <1>1, <1>2, <1>3, <1>5, <1>7 DEF SeedRuns, Forward

LEMMA SeedTypeForward ==
    ASSUME SeedTypeOK, Forward, tables' \in Tables,
           assigning' \subseteq People \X (RoleNames \X Runs)
    PROVE  SeedTypeOK'
  BY ProgramIs DEF SeedTypeOK, Forward

LEMMA SeedRunsForward ==
    ASSUME SeedTypeOK, SeedRuns, Forward, OneRoleEach',
           at' \in 3..4 => tables'.roles = {},
           assigning' = assigning \/ at = 14
    PROVE  SeedRuns'
<1>1. at # 0 /\ at' # 0 /\ at \in Nat /\ DOMAIN Program = 1..35 /\ ~fresh
  BY ProgramIs DEF SeedRuns, Forward
<1>2. at' <= 14 => assigning' = {}
  BY <1>1 DEF SeedRuns, Forward
<1>3. \A i \in DOMAIN Program : i >= at' => Program[i].seed \notin missed'
  BY <1>1 DEF SeedRuns, Forward
<1> QED
  BY <1>1, <1>2, <1>3 DEF SeedRuns, Forward

\* The rows that the steps of a part are about, and what is kept of what was
\* left when they are.
RoleRows == <<tables.privileges, tables.roles, tables.granted>>
UserRows == <<tables.users, tables.userRoles, assigning>>
WorkspaceRows == <<tables.owners, tables.posts>>
PlanRows == <<tables.plans, tables.infos>>
PaymentRows == <<tables.subscriptions, tables.payments>>

LEMMA RolesKept ==
    ASSUME RolesLeft, RoleRows' = RoleRows, run' = run, Done' \cap 1..7 \subseteq Done
    PROVE  RolesLeft'
<1>1. tables'.privileges = tables.privileges /\ tables'.roles = tables.roles
      /\ tables'.granted = tables.granted
  BY DEF RoleRows
<1>2. \A i \in 1..7 : i \in Done' => i \in Done
  OBVIOUS
<1> QED
  BY <1>1, <1>2 DEF RolesLeft, RoleOf

LEMMA UsersKept ==
    ASSUME UsersLeft, 7 \in Done => RolesGiven, UserRows' = UserRows, run' = run,
           Done' \cap 1..14 \subseteq Done
    PROVE  UsersLeft' /\ (7 \in Done' => RolesGiven')
<1>1. tables'.users = tables.users /\ tables'.userRoles = tables.userRoles
      /\ assigning' = assigning
  BY DEF UserRows
<1>2. \A i \in 1..14 : i \in Done' => i \in Done
  OBVIOUS
<1>3. RoleOf("SUPER_ADMIN")' = RoleOf("SUPER_ADMIN") /\ AdminRole' = AdminRole
      /\ RegularRoles' = RegularRoles
  BY DEF RoleOf, AdminRole, RegularRoles
<1>4. UsersLeft'
  BY <1>1, <1>2 DEF UsersLeft
<1>5. 7 \in Done' => RolesGiven'
  BY <1>1, <1>2, <1>3 DEF RolesGiven
<1> QED
  BY <1>4, <1>5

LEMMA WorkspacesKept ==
    ASSUME WorkspacesLeft, WorkspaceRows' = WorkspaceRows, tables'.users = tables.users,
           run' = run, Done' \cap 15..20 \subseteq Done, at' \notin {17, 18, 20}
    PROVE  WorkspacesLeft'
<1>1. tables'.owners = tables.owners /\ tables'.posts = tables.posts
  BY DEF WorkspaceRows
<1>2. \A i \in 15..20 : i \in Done' => i \in Done
  OBVIOUS
<1>3. at' \notin 17..18
  OBVIOUS
<1> QED
  BY <1>1, <1>2, <1>3 DEF WorkspacesLeft, EachOwnsOne, OneOwned

LEMMA PlansKept ==
    ASSUME PlansLeft, PlanRows' = PlanRows, run' = run, Done' \cap 21..29 \subseteq Done
    PROVE  PlansLeft'
<1>1. tables'.plans = tables.plans /\ tables'.infos = tables.infos
  BY DEF PlanRows
<1>2. \A i \in 21..29 : i \in Done' => i \in Done
  OBVIOUS
<1> QED
  BY <1>1, <1>2 DEF PlansLeft

LEMMA PaymentsKept ==
    ASSUME PaymentsLeft, PaymentRows' = PaymentRows, tables'.users = tables.users,
           Done' \cap 30..35 \subseteq Done, at' \notin {33, 35}
    PROVE  PaymentsLeft'
<1>1. tables'.subscriptions = tables.subscriptions /\ tables'.payments = tables.payments
  BY DEF PaymentRows
<1>2. \A i \in 30..35 : i \in Done' => i \in Done
  OBVIOUS
<1> QED
  BY <1>1, <1>2 DEF PaymentsLeft, Subscribed

\* Of the parts that are still to come nothing is left to say.
LEMMA RolesToCome ==
    ASSUME \A i \in 1..7 : i \notin Done'
    PROVE  RolesLeft'
  BY DEF RolesLeft

LEMMA UsersToCome ==
    ASSUME \A i \in 8..14 : i \notin Done'
    PROVE  UsersLeft' /\ RolesGiven'
  BY DEF UsersLeft, RolesGiven

LEMMA WorkspacesToCome ==
    ASSUME \A i \in 15..20 : i \notin Done', at' \notin {17, 18, 20}
    PROVE  WorkspacesLeft'
<1>1. at' \notin 17..18
  OBVIOUS
<1> QED
  BY <1>1 DEF WorkspacesLeft

LEMMA PlansToCome ==
    ASSUME \A i \in 21..29 : i \notin Done'
    PROVE  PlansLeft'
  BY DEF PlansLeft

LEMMA PaymentsToCome ==
    ASSUME \A i \in 30..35 : i \notin Done', at' \notin {33, 35}
    PROVE  PaymentsLeft'
  BY DEF PaymentsLeft

-----------------------------------------------------------------------------
\* The steps of the first part.
RoleStep ==
    \/ DeletePrivileges \/ DeleteRoles \/ CreatePrivileges \/ CreateRoles
    \/ \E type \in RoleNames : GrantPrivileges(type)

\* Which step each of them is, and what it makes of its rows.
LEMMA RoleStepIs ==
    ASSUME SeedTypeOK, SeedRuns, RoleStep
    PROVE  /\ Forward
           /\ \/ DeletePrivileges /\ at = 1
              \/ DeleteRoles /\ at = 2
              \/ CreatePrivileges /\ at = 3
              \/ CreateRoles /\ at = 4
              \/ GrantPrivileges("SUPER_ADMIN") /\ at = 5
              \/ GrantPrivileges("ADMIN") /\ at = 6
              \/ GrantPrivileges("USER") /\ at = 7
<1>1. DOMAIN Program = 1..35 /\ RoleStepNumbers
  BY ProgramIs
<1>2. ASSUME DeletePrivileges PROVE Forward /\ at = 1
  BY <1>1, <1>2, NowForward DEF DeletePrivileges, Forward, RoleStepNumbers
<1>3. ASSUME DeleteRoles PROVE Forward /\ at = 2
  BY <1>1, <1>3, NowForward DEF DeleteRoles, Forward, RoleStepNumbers
<1>4. ASSUME CreatePrivileges PROVE Forward /\ at = 3
  BY <1>1, <1>4, NowForward DEF CreatePrivileges, Forward, RoleStepNumbers
<1>5. ASSUME CreateRoles PROVE Forward /\ at = 4
  BY <1>1, <1>5, NowForward DEF CreateRoles, Forward, RoleStepNumbers
<1>6. ASSUME GrantPrivileges("SUPER_ADMIN") PROVE Forward /\ at = 5
  BY <1>1, <1>6, NowForward DEF GrantPrivileges, Forward, RoleStepNumbers
<1>7. ASSUME GrantPrivileges("ADMIN") PROVE Forward /\ at = 6
  BY <1>1, <1>7, NowForward DEF GrantPrivileges, Forward, RoleStepNumbers
<1>8. ASSUME GrantPrivileges("USER") PROVE Forward /\ at = 7
  BY <1>1, <1>8, NowForward DEF GrantPrivileges, Forward, RoleStepNumbers
<1> QED
  BY <1>2, <1>3, <1>4, <1>5, <1>6, <1>7, <1>8 DEF RoleStep, RoleNames

LEMMA RoleStepKeeps ==
    ASSUME SeedInv, RoleStep
    PROVE  SeedInv'
<1>1. SeedTypeOK /\ SeedRuns /\ RolesLeft
  BY DEF SeedInv
<1>2. Forward /\ at \in 1..7
  BY <1>1, RoleStepIs
<1>3. /\ run \in Runs /\ run' = run /\ at' = at + 1
      /\ Done' = Done \cup {at}
      /\ \A i \in Done : i \in 1..35 /\ i < at
      /\ \A i \in 1..35 : i < at /\ Program[i].seed = Program[at].seed => i \in Done
  BY <1>1, <1>2, DoneForward DEF Forward
<1>4. \A i \in 1..7 : Program[i].seed = Program[at].seed
  BY <1>2, ProgramIs DEF SeedsByNumber, RoleNumbers
<1>5. /\ \A i \in 1..7 : i \in Done <=> i < at
      /\ \A i \in 1..7 : i \in Done' <=> i <= at
      /\ \A i \in 8..35 : i \notin Done'
      /\ at' \in 2..8
  BY <1>2, <1>3, <1>4
<1>6. UsersLeft' /\ RolesGiven' /\ WorkspacesLeft' /\ PlansLeft' /\ PaymentsLeft'
  BY <1>5, UsersToCome, WorkspacesToCome, PlansToCome, PaymentsToCome
<1>7. assigning' = assigning
  BY DEF RoleStep, DeletePrivileges, DeleteRoles, CreatePrivileges, CreateRoles,
         GrantPrivileges
<1>8. tables \in Tables /\ RolesLeft /\ OneRoleEach /\ (at \in 3..4 => tables.roles = {})
  BY <1>1 DEF SeedTypeOK, SeedRuns
<1> DEFINE Kept == tables' \in Tables /\ RolesLeft' /\ OneRoleEach'
                     /\ (at' \in 3..4 => tables'.roles = {})
<1>9. ASSUME DeletePrivileges /\ at = 1 PROVE Kept
  <2>1. tables' = [tables EXCEPT !.privileges = {}, !.granted = {}]
    BY <1>9 DEF DeletePrivileges
  <2>2. tables' \in Tables /\ tables'.roles = tables.roles /\ tables'.privileges = {}
    BY <1>8, <2>1 DEF Tables
  <2> QED
    BY <1>3, <1>5, <1>8, <1>9, <2>2 DEF RolesLeft, OneRoleEach
<1>10. ASSUME DeleteRoles /\ at = 2 PROVE Kept
  <2>1. tables' = [tables EXCEPT !.roles = {}, !.granted = {}, !.userRoles = {}]
    BY <1>10 DEF DeleteRoles, WithoutRoles
  <2>2. tables' \in Tables /\ tables'.roles = {} /\ tables'.privileges = tables.privileges
    BY <1>8, <2>1 DEF Tables
  <2> QED
    BY <1>3, <1>5, <1>8, <1>10, <2>2 DEF RolesLeft, OneRoleEach
<1>11. ASSUME CreatePrivileges /\ at = 3 PROVE Kept
  <2>1. tables' = [tables EXCEPT !.privileges = @ \cup {run}]
    BY <1>11 DEF CreatePrivileges
  <2>2. /\ tables' \in Tables /\ tables'.roles = tables.roles
        /\ tables'.privileges = tables.privileges \cup {run}
    BY <1>3, <1>8, <2>1 DEF Tables
  <2> QED
    BY <1>3, <1>5, <1>8, <1>11, <2>2 DEF RolesLeft, OneRoleEach
<1>12. ASSUME CreateRoles /\ at = 4 PROVE Kept
  <2>1. tables' = [tables EXCEPT !.roles = @ \cup (RoleNames \X {run})]
    BY <1>12 DEF CreateRoles
  <2>2. RoleNames \X {run} \subseteq RoleNames \X Runs
    BY <1>3
  <2>3. tables.roles = {}
    BY <1>8, <1>12
  <2>4. /\ tables' \in Tables /\ tables'.privileges = tables.privileges
        /\ tables'.roles = RoleNames \X {run}
    BY <1>8, <2>1, <2>2, <2>3 DEF Tables
  <2>5. OneRoleEach'
    BY <2>4 DEF OneRoleEach
  <2> QED
    BY <1>3, <1>5, <1>8, <1>12, <2>4, <2>5 DEF RolesLeft
<1>13. ASSUME NEW type \in RoleNames, GrantPrivileges(type), at \in 5..7
       PROVE  /\ tables' \in Tables /\ tables'.privileges = tables.privileges
              /\ tables'.roles = tables.roles
              /\ tables'.granted = tables.granted \cup {RoleOf(type)}
  <2>1. PICK r \in OfType(type) : tables' = [tables EXCEPT !.granted = @ \cup {r}]
    BY <1>13 DEF GrantPrivileges
  <2>2. tables.roles = RoleNames \X {run}
    BY <1>5, <1>8, <1>13 DEF RolesLeft
  <2>3. r = RoleOf(type) /\ r \in RoleNames \X Runs
    BY <1>3, <2>2 DEF OfType, RoleOf
  <2> QED
    BY <1>8, <2>1, <2>3 DEF Tables
<1>14. ASSUME GrantPrivileges("SUPER_ADMIN") /\ at = 5 PROVE Kept
  <2>1. "SUPER_ADMIN" \in RoleNames
    BY DEF RoleNames
  <2> QED
    BY <1>3, <1>5, <1>8, <1>13, <1>14, <2>1 DEF RolesLeft, OneRoleEach, RoleOf
<1>15. ASSUME GrantPrivileges("ADMIN") /\ at = 6 PROVE Kept
  <2>1. "ADMIN" \in RoleNames
    BY DEF RoleNames
  <2> QED
    BY <1>3, <1>5, <1>8, <1>13, <1>15, <2>1 DEF RolesLeft, OneRoleEach, RoleOf
<1>16. ASSUME GrantPrivileges("USER") /\ at = 7 PROVE Kept
  <2>1. "USER" \in RoleNames
    BY DEF RoleNames
  <2> QED
    BY <1>3, <1>5, <1>8, <1>13, <1>16, <2>1 DEF RolesLeft, OneRoleEach, RoleOf
<1>17. Kept
  BY <1>1, <1>9, <1>10, <1>11, <1>12, <1>14, <1>15, <1>16, RoleStepIs
<1>18. SeedTypeOK'
  BY <1>1, <1>2, <1>7, <1>17, SeedTypeForward DEF SeedTypeOK
<1>19. SeedRuns'
  BY <1>1, <1>2, <1>7, <1>17, SeedRunsForward
<1> QED
  BY <1>6, <1>17, <1>18, <1>19 DEF SeedInv

-----------------------------------------------------------------------------
\* What comes before a step in its part was done when the step was.
LEMMA DoneBefore ==
    ASSUME SeedTypeOK, NEW i \in Done, NEW j \in 1..35, j <= i,
           Program[j].seed = Program[i].seed
    PROVE  j \in Done
<1>1. DOMAIN Program = 1..35 /\ at \in Nat
  BY ProgramIs DEF SeedTypeOK
<1> QED
  BY <1>1 DEF Done

\* When the first part was done, the only role of a type is that of the run.
LEMMA RolesOfRun ==
    ASSUME SeedTypeOK, RolesLeft, 7 \in Done
    PROVE  /\ tables.privileges = {run}
           /\ tables.roles = RoleNames \X {run}
           /\ \A type \in RoleNames : OfType(type) = {RoleOf(type)}
                                      /\ RoleOf(type) \in tables.granted
<1>1. \A i \in 1..7 : i \in Done
  <2>1. \A i \in 1..7 : Program[i].seed = Program[7].seed
    BY ProgramIs DEF SeedsByNumber, RoleNumbers
  <2> QED
    BY <2>1, DoneBefore
<1>2. tables.privileges = {run} /\ tables.roles = RoleNames \X {run}
  BY <1>1 DEF RolesLeft
<1>3. \A type \in RoleNames : OfType(type) = {RoleOf(type)}
  BY <1>2 DEF OfType, RoleOf
<1>4. \A type \in RoleNames : RoleOf(type) \in tables.granted
  BY <1>1 DEF RolesLeft, RoleNames
<1> QED
  BY <1>2, <1>3, <1>4

\* The steps of the second part.
UserStep ==
    \/ DeleteUsers \/ DeleteUserRoles \/ CreateAdmin \/ AssignAdmin
    \/ \E u \in Regular : CreateRegular(u)
    \/ AssignUsers

LEMMA UserStepIs ==
    ASSUME SeedTypeOK, SeedRuns, UserStep
    PROVE  /\ Forward
           /\ \/ DeleteUsers /\ at = 8
              \/ DeleteUserRoles /\ at = 9
              \/ CreateAdmin /\ at = 10
              \/ AssignAdmin /\ at = 11
              \/ CreateRegular("user0") /\ at = 12
              \/ CreateRegular("user1") /\ at = 13
              \/ AssignUsers /\ at = 14
<1>1. DOMAIN Program = 1..35 /\ UserStepNumbers
  BY ProgramIs
<1>2. ASSUME DeleteUsers PROVE Forward /\ at = 8
  BY <1>1, <1>2, NowForward DEF DeleteUsers, Forward, UserStepNumbers
<1>3. ASSUME DeleteUserRoles PROVE Forward /\ at = 9
  BY <1>1, <1>3, NowForward DEF DeleteUserRoles, Forward, UserStepNumbers
<1>4. ASSUME CreateAdmin PROVE Forward /\ at = 10
  BY <1>1, <1>4, NowForward DEF CreateAdmin, Forward, UserStepNumbers
<1>5. ASSUME AssignAdmin PROVE Forward /\ at = 11
  BY <1>1, <1>5, NowForward DEF AssignAdmin, Forward, UserStepNumbers
<1>6. ASSUME CreateRegular("user0") PROVE Forward /\ at = 12
  BY <1>1, <1>6, NowForward DEF CreateRegular, Forward, UserStepNumbers
<1>7. ASSUME CreateRegular("user1") PROVE Forward /\ at = 13
  BY <1>1, <1>7, NowForward DEF CreateRegular, Forward, UserStepNumbers
<1>8. ASSUME AssignUsers PROVE Forward /\ at = 14
  BY <1>1, <1>8, NowForward DEF AssignUsers, Forward, UserStepNumbers
<1> QED
  BY <1>2, <1>3, <1>4, <1>5, <1>6, <1>7, <1>8 DEF UserStep, Regular

LEMMA UserStepKeeps ==
    ASSUME SeedInv, UserStep
    PROVE  SeedInv'
<1>1. SeedTypeOK /\ SeedRuns /\ RolesLeft /\ UsersLeft /\ (7 \in Done => RolesGiven)
  BY DEF SeedInv
<1>2. Forward /\ at \in 8..14
  BY <1>1, UserStepIs
<1>3. /\ run \in Runs /\ run' = run /\ at' = at + 1
      /\ Done' = Done \cup {at}
      /\ \A i \in Done : i \in 1..35 /\ i < at
      /\ \A i \in 1..35 : i < at /\ Program[i].seed = Program[at].seed => i \in Done
  BY <1>1, <1>2, DoneForward DEF Forward
<1>4. \A i \in 8..14 : Program[i].seed = Program[at].seed
  BY <1>2, ProgramIs DEF SeedsByNumber, UserNumbers
<1>5. /\ \A i \in 8..14 : i \in Done <=> i < at
      /\ \A i \in 8..14 : i \in Done' <=> i <= at
      /\ \A i \in 15..35 : i \notin Done'
      /\ Done' \cap 1..7 \subseteq Done
      /\ at' \in 9..15
  BY <1>2, <1>3, <1>4
<1>6. WorkspacesLeft' /\ PlansLeft' /\ PaymentsLeft'
  BY <1>5, WorkspacesToCome, PlansToCome, PaymentsToCome
<1>7. /\ tables \in Tables /\ OneRoleEach /\ assigning = {}
      /\ tables.users \subseteq People /\ tables.roles \subseteq RoleNames \X Runs
  BY <1>1, <1>2 DEF SeedTypeOK, SeedRuns, Tables
<1>8. /\ RoleOf("SUPER_ADMIN")' = RoleOf("SUPER_ADMIN") /\ AdminRole' = AdminRole
      /\ RegularRoles' = RegularRoles
  BY <1>3 DEF RoleOf, AdminRole, RegularRoles
<1>9. 7 \in Done => /\ RolesGiven
                    /\ OfType("SUPER_ADMIN") = {RoleOf("SUPER_ADMIN")}
                    /\ OfType("USER") = {RoleOf("USER")}
  BY <1>1, RolesOfRun DEF RoleNames
<1> DEFINE Kept == /\ tables' \in Tables /\ RoleRows' = RoleRows
                   /\ assigning' \subseteq People \X (RoleNames \X Runs)
                   /\ UsersLeft' /\ (7 \in Done => RolesGiven')
<1>10. ASSUME DeleteUsers /\ at = 8 PROVE Kept
  <2>1. tables' = [tables EXCEPT !.users = {}, !.userRoles = {}, !.owners = {},
                                 !.subscriptions = {}, !.payments = {}]
        /\ assigning' = assigning
    BY <1>10 DEF DeleteUsers
  <2>2. tables' \in Tables /\ RoleRows' = RoleRows /\ tables'.users = {}
        /\ tables'.userRoles = {}
    BY <1>7, <2>1 DEF Tables, RoleRows
  <2> QED
    BY <1>5, <1>7, <1>10, <2>1, <2>2 DEF UsersLeft, RolesGiven
<1>11. ASSUME DeleteUserRoles /\ at = 9 PROVE Kept
  <2>1. tables' = [tables EXCEPT !.userRoles = {}] /\ assigning' = assigning
    BY <1>11 DEF DeleteUserRoles
  <2>2. tables' \in Tables /\ RoleRows' = RoleRows /\ tables'.users = tables.users
        /\ tables'.userRoles = {}
    BY <1>7, <2>1 DEF Tables, RoleRows
  <2> QED
    BY <1>1, <1>5, <1>7, <1>11, <2>1, <2>2 DEF UsersLeft, RolesGiven
<1>12. ASSUME CreateAdmin /\ at = 10 PROVE Kept
  <2>1. tables' = [tables EXCEPT !.users = @ \cup {"admin"}] /\ assigning' = assigning
    BY <1>12 DEF CreateAdmin
  <2>2. tables' \in Tables /\ RoleRows' = RoleRows
        /\ tables'.users = tables.users \cup {"admin"}
        /\ tables'.userRoles = tables.userRoles
    BY <1>7, <2>1 DEF Tables, RoleRows, People
  <2> QED
    BY <1>1, <1>5, <1>7, <1>8, <1>9, <1>12, <2>1, <2>2 DEF UsersLeft, RolesGiven
<1>13. ASSUME AssignAdmin /\ at = 11 PROVE Kept
  <2>1. assigning' = assigning
        /\ \/ OfType("SUPER_ADMIN") = {} /\ tables' = tables
           \/ \E r \in OfType("SUPER_ADMIN") :
                tables' = [tables EXCEPT !.userRoles = @ \cup {<<"admin", r>>}]
    BY <1>13 DEF AssignAdmin
  <2>2. CASE OfType("SUPER_ADMIN") = {} /\ tables' = tables
    BY <1>1, <1>5, <1>7, <1>8, <1>9, <1>13, <2>1, <2>2 DEF UsersLeft, RolesGiven, RoleRows
  <2>3. ASSUME NEW r \in OfType("SUPER_ADMIN"),
               tables' = [tables EXCEPT !.userRoles = @ \cup {<<"admin", r>>}]
        PROVE  Kept
    <3>1. <<"admin", r>> \in People \X (RoleNames \X Runs)
      BY <1>7 DEF OfType, People
    <3>2. tables' \in Tables /\ RoleRows' = RoleRows /\ tables'.users = tables.users
          /\ tables'.userRoles = tables.userRoles \cup {<<"admin", r>>}
      BY <1>7, <2>3, <3>1 DEF Tables, RoleRows
    <3>3. UsersLeft'
      BY <1>1, <1>5, <1>13, <3>2 DEF UsersLeft
    <3>4. 7 \in Done => <<"admin", r>> = AdminRole
      BY <1>9 DEF AdminRole
    <3>5. 7 \in Done => RolesGiven'
      BY <1>5, <1>7, <1>8, <1>9, <1>13, <2>1, <3>2, <3>4 DEF RolesGiven
    <3> QED
      BY <1>7, <2>1, <3>2, <3>3, <3>5
  <2> QED
    BY <2>1, <2>2, <2>3
<1>14. ASSUME NEW u \in Regular, CreateRegular(u)
       PROVE  /\ tables' \in Tables /\ RoleRows' = RoleRows
              /\ tables'.users = tables.users \cup {u}
              /\ tables'.userRoles = tables.userRoles /\ assigning' = assigning
  <2>1. tables' = [tables EXCEPT !.users = @ \cup {u}] /\ assigning' = assigning
    BY <1>14 DEF CreateRegular
  <2> QED
    BY <1>7, <2>1 DEF Tables, RoleRows, People
<1>15. ASSUME CreateRegular("user0") /\ at = 12 PROVE Kept
  <2>1. "user0" \in Regular
    BY DEF Regular
  <2>2. UsersLeft'
    BY <1>1, <1>5, <1>14, <1>15, <2>1 DEF UsersLeft
  <2>3. 7 \in Done => RolesGiven'
    BY <1>5, <1>8, <1>9, <1>14, <1>15, <2>1 DEF RolesGiven
  <2> QED
    BY <1>7, <1>14, <1>15, <2>1, <2>2, <2>3
<1>16. ASSUME CreateRegular("user1") /\ at = 13 PROVE Kept
  <2>1. "user1" \in Regular
    BY DEF Regular
  <2>2. UsersLeft'
    BY <1>1, <1>5, <1>14, <1>16, <2>1 DEF UsersLeft
  <2>3. 7 \in Done => RolesGiven'
    BY <1>5, <1>8, <1>9, <1>14, <1>16, <2>1 DEF RolesGiven
  <2> QED
    BY <1>7, <1>14, <1>16, <2>1, <2>2, <2>3
<1>17. ASSUME AssignUsers /\ at = 14 PROVE Kept
  <2>1. tables' = tables
        /\ \/ OfType("USER") = {} /\ assigning' = assigning
           \/ \E r \in OfType("USER") : assigning' = {<<u, r>> : u \in tables.users \ {"admin"}}
    BY <1>17 DEF AssignUsers
  <2>2. UsersLeft' /\ RoleRows' = RoleRows
    BY <1>1, <1>5, <1>17, <2>1 DEF UsersLeft, RoleRows
  <2>3. CASE OfType("USER") = {} /\ assigning' = assigning
    BY <1>7, <1>9, <2>1, <2>2, <2>3
  <2>4. ASSUME NEW r \in OfType("USER"),
               assigning' = {<<u, r>> : u \in tables.users \ {"admin"}}
        PROVE  Kept
    <3>1. r \in RoleNames \X Runs
      BY <1>7 DEF OfType
    <3>2. assigning' \subseteq People \X (RoleNames \X Runs)
      BY <1>7, <2>4, <3>1
    <3>3. tables.users \ {"admin"} = Regular
      <4>1. 8 \in Done /\ 10 \in Done /\ 12 \in Done /\ 13 \in Done
        BY <1>5, <1>17
      <4> QED
        BY <1>1, <4>1 DEF UsersLeft, Regular
    <3>4. 7 \in Done => assigning' = RegularRoles
      BY <1>9, <2>4, <3>3 DEF RegularRoles
    <3>5. 8 \in Done /\ 11 \in Done
      BY <1>5, <1>17
    <3>6. 7 \in Done => RolesGiven'
      BY <1>8, <1>9, <2>1, <3>4, <3>5 DEF RolesGiven
    <3> QED
      BY <1>7, <2>1, <2>2, <3>2, <3>6
  <2> QED
    BY <2>1, <2>3, <2>4
<1>18. Kept
  BY <1>1, <1>10, <1>11, <1>12, <1>13, <1>15, <1>16, <1>17, UserStepIs
<1> HIDE DEF Kept
<1>19. RolesLeft'
  BY <1>1, <1>3, <1>5, <1>18, RolesKept DEF Kept
<1>20. SeedTypeOK'
  BY <1>1, <1>2, <1>18, SeedTypeForward DEF Kept
<1>21. SeedRuns'
  <2>1. OneRoleEach' /\ at' \notin 3..4
    BY <1>5, <1>7, <1>18 DEF Kept, OneRoleEach, RoleRows
  <2>2. assigning' = assigning \/ at = 14
    BY <1>1, UserStepIs DEF DeleteUsers, DeleteUserRoles, CreateAdmin, AssignAdmin,
                            CreateRegular
  <2> QED
    BY <1>1, <1>2, <2>1, <2>2, SeedRunsForward
<1>22. 7 \in Done' => 7 \in Done
  BY <1>5
<1> QED
  BY <1>6, <1>18, <1>19, <1>20, <1>21, <1>22 DEF SeedInv, Kept

-----------------------------------------------------------------------------
\* The steps of the third and the fourth part.
WorkspaceStep ==
    \/ DeleteWorkspaces \/ DeleteMemberships \/ CreateWorkspaces \/ CreateMemberships
    \/ DeletePosts \/ CreateSeedPost

LEMMA WorkspaceStepIs ==
    ASSUME SeedTypeOK, SeedRuns, WorkspaceStep
    PROVE  /\ Forward
           /\ \/ DeleteWorkspaces /\ at = 15
              \/ DeleteMemberships /\ at = 16
              \/ CreateWorkspaces /\ at = 17
              \/ CreateMemberships /\ at = 18
              \/ DeletePosts /\ at = 19
              \/ CreateSeedPost /\ at = 20
<1>1. DOMAIN Program = 1..35 /\ WorkspaceStepNumbers
  BY ProgramIs
<1>2. ASSUME DeleteWorkspaces PROVE Forward /\ at = 15
  BY <1>1, <1>2, NowForward DEF DeleteWorkspaces, Forward, WorkspaceStepNumbers
<1>3. ASSUME DeleteMemberships PROVE Forward /\ at = 16
  BY <1>1, <1>3, NowForward DEF DeleteMemberships, Forward, WorkspaceStepNumbers
<1>4. ASSUME CreateWorkspaces PROVE Forward /\ at = 17
  BY <1>1, <1>4, NowForward DEF CreateWorkspaces, Forward, WorkspaceStepNumbers
<1>5. ASSUME CreateMemberships PROVE Forward /\ at = 18
  BY <1>1, <1>5, NowForward DEF CreateMemberships, Forward, WorkspaceStepNumbers
<1>6. ASSUME DeletePosts PROVE Forward /\ at = 19
  BY <1>1, <1>6, NowForward DEF DeletePosts, Forward, WorkspaceStepNumbers
<1>7. ASSUME CreateSeedPost PROVE Forward /\ at = 20
  BY <1>1, <1>7, NowForward DEF CreateSeedPost, Forward, WorkspaceStepNumbers
<1> QED
  BY <1>2, <1>3, <1>4, <1>5, <1>6, <1>7 DEF WorkspaceStep

\* Who is given a workspace each owns one.
LEMMA OneEach ==
    ASSUME tables.owners = {}, tables'.users = tables.users,
           tables.workspaces \subseteq Runs,
           NEW w \in [tables.users -> tables.workspaces],
           tables'.owners = tables.owners \cup {<<u, w[u]>> : u \in tables.users}
    PROVE  EachOwnsOne'
<1> SUFFICES ASSUME NEW u \in tables.users PROVE OneOwned(u)'
  BY DEF EachOwnsOne
<1>1. w[u] \in Runs
  OBVIOUS
<1>2. tables'.owners = {<<v, w[v]>> : v \in tables.users}
  OBVIOUS
<1>3. {o \in tables'.owners : o[1] = u} = {<<u, w[u]>>}
  BY <1>2
<1> QED
  BY <1>1, <1>3 DEF OneOwned

LEMMA WorkspaceStepKeeps ==
    ASSUME SeedInv, WorkspaceStep
    PROVE  SeedInv'
<1>1. /\ SeedTypeOK /\ SeedRuns /\ RolesLeft /\ UsersLeft /\ (7 \in Done => RolesGiven)
      /\ WorkspacesLeft
  BY DEF SeedInv
<1>2. Forward /\ at \in 15..20
  BY <1>1, WorkspaceStepIs
<1>3. /\ run \in Runs /\ run' = run /\ at' = at + 1
      /\ Done' = Done \cup {at}
      /\ \A i \in Done : i \in 1..35 /\ i < at
  BY <1>1, <1>2, DoneForward DEF Forward
<1>4. /\ \A i \in 21..35 : i \notin Done'
      /\ Done' \cap 1..14 \subseteq Done
      /\ Done' \cap 1..7 \subseteq Done
      /\ at' \in 16..21
  BY <1>2, <1>3
<1>5. PlansLeft' /\ PaymentsLeft'
  BY <1>4, PlansToCome, PaymentsToCome
<1>6. tables \in Tables /\ OneRoleEach /\ tables.workspaces \subseteq Runs
      /\ assigning \subseteq People \X (RoleNames \X Runs)
  BY <1>1 DEF SeedTypeOK, SeedRuns, Tables
<1> DEFINE Kept == tables' \in Tables /\ RoleRows' = RoleRows /\ UserRows' = UserRows
                   /\ WorkspacesLeft'
<1>7. assigning' = assigning
  BY DEF WorkspaceStep, DeleteWorkspaces, DeleteMemberships, CreateWorkspaces,
         CreateMemberships, DeletePosts, CreateSeedPost
<1>8. ASSUME DeleteWorkspaces /\ at = 15 PROVE Kept
  <2>1. tables' = [tables EXCEPT !.workspaces = {}, !.owners = {}, !.posts = {}]
    BY <1>8 DEF DeleteWorkspaces
  <2>2. tables' \in Tables /\ RoleRows' = RoleRows /\ UserRows' = UserRows
    BY <1>6, <1>7, <2>1 DEF Tables, RoleRows, UserRows
  <2> QED
    BY <1>3, <1>8, <2>2 DEF WorkspacesLeft
<1>9. ASSUME DeleteMemberships /\ at = 16 PROVE Kept
  <2>1. tables' = [tables EXCEPT !.owners = {}]
    BY <1>9 DEF DeleteMemberships
  <2>2. tables' \in Tables /\ RoleRows' = RoleRows /\ UserRows' = UserRows
        /\ tables'.owners = {}
    BY <1>6, <1>7, <2>1 DEF Tables, RoleRows, UserRows
  <2> QED
    BY <1>3, <1>9, <2>2 DEF WorkspacesLeft
<1>10. ASSUME CreateWorkspaces /\ at = 17 PROVE Kept
  <2>1. tables' = [tables EXCEPT !.workspaces = @ \cup {run}]
    BY <1>10 DEF CreateWorkspaces
  <2>2. tables' \in Tables /\ RoleRows' = RoleRows /\ UserRows' = UserRows
        /\ tables'.owners = tables.owners
    BY <1>3, <1>6, <1>7, <2>1 DEF Tables, RoleRows, UserRows
  <2> QED
    BY <1>1, <1>3, <1>10, <2>2 DEF WorkspacesLeft
<1>11. ASSUME CreateMemberships /\ at = 18 PROVE Kept
  <2>1. PICK w \in [tables.users -> tables.workspaces] :
           tables' = [tables EXCEPT !.owners = @ \cup {<<u, w[u]>> : u \in tables.users}]
    BY <1>11 DEF CreateMemberships, OwnersToBe
  <2> DEFINE new == {<<u, w[u]>> : u \in tables.users}
  <2>2. new \subseteq People \X Runs
    BY <1>6 DEF Tables
  <2>3. tables' = [tables EXCEPT !.owners = @ \cup new]
    BY <2>1
  <2> HIDE DEF new
  <2>4. tables' \in Tables /\ RoleRows' = RoleRows /\ UserRows' = UserRows
        /\ tables'.owners = tables.owners \cup new /\ tables'.users = tables.users
    BY <1>6, <1>7, <2>2, <2>3 DEF Tables, RoleRows, UserRows
  <2>5. tables.owners = {}
    BY <1>1, <1>11 DEF WorkspacesLeft
  <2>6. EachOwnsOne'
    BY <1>6, <2>4, <2>5, OneEach DEF new
  <2> QED
    BY <1>3, <1>11, <2>4, <2>6 DEF WorkspacesLeft
<1>12. ASSUME DeletePosts /\ at = 19 PROVE Kept
  <2>1. tables' = [tables EXCEPT !.posts = {}]
    BY <1>12 DEF DeletePosts
  <2>2. tables' \in Tables /\ RoleRows' = RoleRows /\ UserRows' = UserRows
        /\ tables'.owners = tables.owners /\ tables'.users = tables.users
        /\ tables'.posts = {}
    BY <1>6, <1>7, <2>1 DEF Tables, RoleRows, UserRows
  <2>3. EachOwnsOne => EachOwnsOne'
    BY <2>2 DEF EachOwnsOne, OneOwned
  <2> QED
    BY <1>1, <1>3, <1>12, <2>2, <2>3 DEF WorkspacesLeft
<1>13. ASSUME CreateSeedPost /\ at = 20 PROVE Kept
  <2>1. tables' = [tables EXCEPT !.posts = @ \cup {run}]
    BY <1>13 DEF CreateSeedPost
  <2>2. tables' \in Tables /\ RoleRows' = RoleRows /\ UserRows' = UserRows
        /\ tables'.owners = tables.owners /\ tables'.users = tables.users
        /\ tables'.posts = tables.posts \cup {run}
    BY <1>3, <1>6, <1>7, <2>1 DEF Tables, RoleRows, UserRows
  <2>3. EachOwnsOne => EachOwnsOne'
    BY <2>2 DEF EachOwnsOne, OneOwned
  <2> QED
    BY <1>1, <1>3, <1>13, <2>2, <2>3 DEF WorkspacesLeft
<1>14. Kept
  BY <1>1, <1>8, <1>9, <1>10, <1>11, <1>12, <1>13, WorkspaceStepIs
<1> HIDE DEF Kept
<1>15. RolesLeft' /\ UsersLeft' /\ (7 \in Done' => RolesGiven')
  BY <1>1, <1>3, <1>4, <1>14, RolesKept, UsersKept DEF Kept
<1>16. SeedTypeOK'
  BY <1>1, <1>2, <1>6, <1>7, <1>14, SeedTypeForward DEF Kept
<1>17. SeedRuns'
  <2>1. OneRoleEach' /\ at' \notin 3..4
    BY <1>4, <1>6, <1>14 DEF Kept, OneRoleEach, RoleRows
  <2> QED
    BY <1>1, <1>2, <1>7, <2>1, SeedRunsForward
<1> QED
  BY <1>5, <1>14, <1>15, <1>16, <1>17 DEF SeedInv, Kept

-----------------------------------------------------------------------------
\* The steps of the fifth part that make the plans.
PlanStep ==
    \/ DeletePlans \/ \E name \in PlanNames : CreateSeedPlan(name)
    \/ DeleteInfos \/ \E name \in InfoNames : CreateSeedInfo(name)

LEMMA PlanStepIs ==
    ASSUME SeedTypeOK, SeedRuns, PlanStep
    PROVE  /\ Forward
           /\ \/ DeletePlans /\ at = 21
              \/ CreateSeedPlan("Trial") /\ at = 22
              \/ CreateSeedPlan("Basic") /\ at = 23
              \/ CreateSeedPlan("Premium") /\ at = 24
              \/ CreateSeedPlan("Ultimate") /\ at = 25
              \/ DeleteInfos /\ at = 26
              \/ CreateSeedInfo("premiumRole") /\ at = 27
              \/ CreateSeedInfo("ultimateRole") /\ at = 28
              \/ CreateSeedInfo("ultimateMedia") /\ at = 29
<1>1. DOMAIN Program = 1..35 /\ PlanStepNumbers
  BY ProgramIs
<1>2. ASSUME DeletePlans PROVE Forward /\ at = 21
  BY <1>1, <1>2, NowForward DEF DeletePlans, Forward, PlanStepNumbers
<1>3. ASSUME NEW name \in PlanNames, CreateSeedPlan(name)
      PROVE  /\ Forward
             /\ \/ name = "Trial" /\ at = 22
                \/ name = "Basic" /\ at = 23
                \/ name = "Premium" /\ at = 24
                \/ name = "Ultimate" /\ at = 25
  <2>1. Forward /\ Program[at].step = name
    BY <1>3, NowForward DEF CreateSeedPlan
  <2> QED
    BY <1>1, <2>1 DEF Forward, PlanStepNumbers, PlanNames
<1>4. ASSUME DeleteInfos PROVE Forward /\ at = 26
  BY <1>1, <1>4, NowForward DEF DeleteInfos, Forward, PlanStepNumbers
<1>5. ASSUME NEW name \in InfoNames, CreateSeedInfo(name)
      PROVE  /\ Forward
             /\ \/ name = "premiumRole" /\ at = 27
                \/ name = "ultimateRole" /\ at = 28
                \/ name = "ultimateMedia" /\ at = 29
  <2>1. Forward /\ Program[at].step = name
    BY <1>5, NowForward DEF CreateSeedInfo
  <2> QED
    BY <1>1, <2>1 DEF Forward, PlanStepNumbers, InfoNames
<1> QED
  BY <1>2, <1>3, <1>4, <1>5 DEF PlanStep

LEMMA PlanStepKeeps ==
    ASSUME SeedInv, PlanStep
    PROVE  SeedInv'
<1>1. /\ SeedTypeOK /\ SeedRuns /\ RolesLeft /\ UsersLeft /\ (7 \in Done => RolesGiven)
      /\ WorkspacesLeft /\ PlansLeft
  BY DEF SeedInv
<1>2. Forward /\ at \in 21..29
  BY <1>1, PlanStepIs
<1>3. /\ run \in Runs /\ run' = run /\ at' = at + 1
      /\ Done' = Done \cup {at}
      /\ \A i \in Done : i \in 1..35 /\ i < at
      /\ \A i \in 1..35 : i < at /\ Program[i].seed = Program[at].seed => i \in Done
  BY <1>1, <1>2, DoneForward DEF Forward
<1>4. \A i \in 21..35 : Program[i].seed = Program[at].seed
  BY <1>2, ProgramIs DEF SeedsByNumber, SubscriptionNumbers
<1>5. /\ \A i \in 30..35 : i \notin Done'
      /\ \A i \in 21..29 : i \in Done <=> i < at
      /\ \A i \in 21..29 : i \in Done' <=> i <= at
      /\ Done' \cap 1..14 \subseteq Done
      /\ Done' \cap 1..7 \subseteq Done
      /\ Done' \cap 15..20 \subseteq Done
      /\ at' \in 22..30
  BY <1>2, <1>3, <1>4
<1>6. PaymentsLeft'
  BY <1>5, PaymentsToCome
<1>7. tables \in Tables /\ OneRoleEach
      /\ assigning \subseteq People \X (RoleNames \X Runs)
  BY <1>1 DEF SeedTypeOK, SeedRuns
<1> DEFINE Others == tables' \in Tables /\ RoleRows' = RoleRows /\ UserRows' = UserRows
                     /\ WorkspaceRows' = WorkspaceRows
           Kept == Others /\ PlansLeft'
<1>8. assigning' = assigning
  BY DEF PlanStep, DeletePlans, CreateSeedPlan, DeleteInfos, CreateSeedInfo
<1>9. ASSUME DeletePlans /\ at = 21 PROVE Kept
  <2>1. tables' = [tables EXCEPT !.plans = {}, !.infos = {}, !.subscriptions = {},
                                 !.payments = {}]
    BY <1>9 DEF DeletePlans
  <2>2. Others /\ tables'.plans = {}
    BY <1>7, <1>8, <2>1 DEF Tables, RoleRows, UserRows, WorkspaceRows
  <2> QED
    BY <1>5, <1>9, <2>2 DEF PlansLeft
<1>10. ASSUME NEW name \in PlanNames, CreateSeedPlan(name)
       PROVE  Others /\ tables'.plans = tables.plans \cup {<<name, run>>}
              /\ tables'.infos = tables.infos
  <2>1. tables' = [tables EXCEPT !.plans = @ \cup {<<name, run>>}]
    BY <1>10 DEF CreateSeedPlan
  <2> QED
    BY <1>3, <1>7, <1>8, <2>1 DEF Tables, RoleRows, UserRows, WorkspaceRows
<1>11. ASSUME DeleteInfos /\ at = 26 PROVE Kept
  <2>1. tables' = [tables EXCEPT !.infos = {}]
    BY <1>11 DEF DeleteInfos
  <2>2. Others /\ tables'.infos = {} /\ tables'.plans = tables.plans
    BY <1>7, <1>8, <2>1 DEF Tables, RoleRows, UserRows, WorkspaceRows
  <2> QED
    BY <1>1, <1>3, <1>5, <1>11, <2>2 DEF PlansLeft
<1>12. ASSUME NEW name \in InfoNames, CreateSeedInfo(name)
       PROVE  Others /\ tables'.infos = tables.infos \cup {<<name, run>>}
              /\ tables'.plans = tables.plans
  <2>1. tables' = [tables EXCEPT !.infos = @ \cup {<<name, run>>}]
    BY <1>12 DEF CreateSeedInfo
  <2> QED
    BY <1>3, <1>7, <1>8, <2>1 DEF Tables, RoleRows, UserRows, WorkspaceRows
<1>13. {"Trial", "Basic", "Premium", "Ultimate"} \subseteq PlanNames
       /\ {"premiumRole", "ultimateRole", "ultimateMedia"} \subseteq InfoNames
  BY DEF PlanNames, InfoNames
<1> HIDE DEF Others
<1>14. ASSUME NEW name \in PlanNames, CreateSeedPlan(name),
              \/ name = "Trial" /\ at = 22
              \/ name = "Basic" /\ at = 23
              \/ name = "Premium" /\ at = 24
              \/ name = "Ultimate" /\ at = 25
       PROVE  Kept
  <2>1. Others /\ tables'.plans = tables.plans \cup {<<name, run>>}
    BY <1>10, <1>14
  <2>2. at \in 22..25 /\ 21 \in Done
    BY <1>5, <1>14
  <2>3. tables'.plans \subseteq PlanNames \X {run}
    BY <1>1, <2>1, <2>2 DEF PlansLeft
  <2> QED
    BY <1>1, <1>3, <1>5, <1>14, <2>1, <2>2, <2>3 DEF PlansLeft
<1>15. ASSUME NEW name \in InfoNames, CreateSeedInfo(name),
              \/ name = "premiumRole" /\ at = 27
              \/ name = "ultimateRole" /\ at = 28
              \/ name = "ultimateMedia" /\ at = 29
       PROVE  Kept
  <2>1. Others /\ tables'.infos = tables.infos \cup {<<name, run>>}
        /\ tables'.plans = tables.plans
    BY <1>12, <1>15
  <2>2. at \in 27..29 /\ 26 \in Done
    BY <1>5, <1>15
  <2>3. tables'.infos \subseteq InfoNames \X {run}
    BY <1>1, <2>1, <2>2 DEF PlansLeft
  <2> QED
    BY <1>1, <1>3, <1>5, <1>15, <2>1, <2>2, <2>3 DEF PlansLeft
<1>16. Kept
  BY <1>1, <1>9, <1>11, <1>13, <1>14, <1>15, PlanStepIs
<1> HIDE DEF Kept
<1>17. tables' \in Tables /\ RoleRows' = RoleRows /\ UserRows' = UserRows
       /\ WorkspaceRows' = WorkspaceRows /\ PlansLeft'
  BY <1>16 DEF Kept, Others
<1>18. RolesLeft' /\ UsersLeft' /\ (7 \in Done' => RolesGiven')
  BY <1>1, <1>3, <1>5, <1>17, RolesKept, UsersKept
<1>19. WorkspacesLeft'
  <2>1. tables'.users = tables.users /\ at' \notin {17, 18, 20}
    BY <1>5, <1>17 DEF UserRows
  <2> QED
    BY <1>1, <1>3, <1>5, <1>17, <2>1, WorkspacesKept
<1>20. SeedTypeOK'
  BY <1>1, <1>2, <1>7, <1>8, <1>17, SeedTypeForward
<1>21. SeedRuns'
  <2>1. OneRoleEach' /\ at' \notin 3..4
    BY <1>5, <1>7, <1>17 DEF OneRoleEach, RoleRows
  <2> QED
    BY <1>1, <1>2, <1>8, <2>1, SeedRunsForward
<1> QED
  BY <1>6, <1>17, <1>18, <1>19, <1>20, <1>21 DEF SeedInv


-----------------------------------------------------------------------------
\* Where a part that is given up leaves the program: at the first step of a
\* later part, or at the end.
LEMMA NextPartIs ==
    ASSUME at \in 1..35
    PROVE  /\ NextPart \in {8, 15, 19, 21, 36} /\ at < NextPart
           /\ \A i \in 1..35 : at <= i /\ i < NextPart => Program[i].seed = Program[at].seed
<1> DEFINE Ends(i) == /\ i = 36 \/ Program[i].seed # Program[at].seed
                      /\ \A j \in at..i - 1 : Program[j].seed = Program[at].seed
<1>1. Len(Program) = 35 /\ SeedsByNumber
  BY ProgramIs
<1>2. NextPart = CHOOSE i \in at..36 : Ends(i)
  BY <1>1 DEF NextPart
<1>3. \E i \in {8, 15, 19, 21, 36} : i \in at..36 /\ Ends(i)
  <2>1. CASE at \in 1..7
    <3>1. 8 \in at..36 /\ Ends(8)
      BY <1>1, <2>1 DEF SeedsByNumber, RoleNumbers, UserNumbers
    <3> QED
      BY <3>1
  <2>2. CASE at \in 8..14
    <3>1. 15 \in at..36 /\ Ends(15)
      BY <1>1, <2>2 DEF SeedsByNumber, UserNumbers, WorkspaceNumbers
    <3> QED
      BY <3>1
  <2>3. CASE at \in 15..18
    <3>1. 19 \in at..36 /\ Ends(19)
      BY <1>1, <2>3 DEF SeedsByNumber, WorkspaceNumbers, PostNumbers
    <3> QED
      BY <3>1
  <2>4. CASE at \in 19..20
    <3>1. 21 \in at..36 /\ Ends(21)
      BY <1>1, <2>4 DEF SeedsByNumber, PostNumbers, SubscriptionNumbers
    <3> QED
      BY <3>1
  <2>5. CASE at \in 21..35
    <3>1. 36 \in at..36 /\ Ends(36)
      BY <1>1, <2>5 DEF SeedsByNumber, SubscriptionNumbers
    <3> QED
      BY <3>1
  <2> QED
    BY <2>1, <2>2, <2>3, <2>4, <2>5
<1>4. PICK n \in {8, 15, 19, 21, 36} : n \in at..36 /\ Ends(n)
  BY <1>3
<1>5. NextPart \in at..36 /\ Ends(NextPart)
  <2> HIDE DEF Ends
  <2> QED
    BY <1>2, <1>4
<1>6. NextPart # at
  BY <1>5
<1>7. NextPart = n
  <2>1. ASSUME NextPart < n PROVE FALSE
    BY <1>4, <1>5, <1>6, <2>1
  <2>2. ASSUME n < NextPart PROVE FALSE
    BY <1>4, <1>5, <1>6, <2>2
  <2> QED
    BY <1>4, <1>5, <2>1, <2>2
<1> QED
  BY <1>4, <1>5, <1>6, <1>7

\* A call that fails, in any part: what the other parts left is kept.
LEMMA GiveUpKeeps ==
    ASSUME SeedInv, GiveUp, tables' \in Tables, RoleRows' = RoleRows,
           UserRows' = UserRows, WorkspaceRows' = WorkspaceRows, PlanRows' = PlanRows,
           PaymentRows' = PaymentRows \/ at \in 30..35
    PROVE  SeedInv'
<1>1. /\ SeedTypeOK /\ SeedRuns /\ RolesLeft /\ UsersLeft /\ (7 \in Done => RolesGiven)
      /\ WorkspacesLeft /\ PlansLeft /\ PaymentsLeft
  BY DEF SeedInv
<1>2. DOMAIN Program = 1..35 /\ Len(Program) = 35 /\ SeedsByNumber
  BY ProgramIs
<1>3. /\ at \in 1..35 /\ at' = NextPart /\ missed' = missed \cup {Program[at].seed}
      /\ run' = run /\ fresh' = fresh
  BY <1>2 DEF GiveUp
<1>4. /\ at' \in {8, 15, 19, 21, 36} /\ at < at'
      /\ \A i \in 1..35 : at <= i /\ i < at' => Program[i].seed = Program[at].seed
  BY <1>3, NextPartIs
<1>5. \A i \in Done' : i \in Done /\ Program[i].seed # Program[at].seed
  <2>1. at' # 0 /\ at # 0
    BY <1>3, <1>4
  <2>2. ASSUME NEW i \in Done' PROVE i \in Done /\ Program[i].seed # Program[at].seed
    <3>1. i \in 1..35 /\ Program[i].seed \notin missed' /\ i < at'
      BY <1>2, <2>1, <2>2 DEF Done
    <3>2. Program[i].seed \notin missed /\ Program[i].seed # Program[at].seed
      BY <1>3, <3>1
    <3>3. i < at
      BY <1>3, <1>4, <3>1, <3>2
    <3> QED
      BY <1>2, <2>1, <3>1, <3>2, <3>3 DEF Done
  <2> QED
    BY <2>2
<1>6. Done' \subseteq Done /\ at' \notin {3, 4, 17, 18, 20, 33, 35}
  BY <1>4, <1>5
<1>7. tables'.users = tables.users /\ assigning' = assigning
      /\ tables'.roles = tables.roles
  BY DEF UserRows, RoleRows
<1>8. RolesLeft' /\ UsersLeft' /\ (7 \in Done' => RolesGiven')
  <2>1. Done' \cap 1..7 \subseteq Done /\ Done' \cap 1..14 \subseteq Done
    BY <1>6
  <2> QED
    BY <1>1, <1>3, <2>1, RolesKept, UsersKept
<1>9. WorkspacesLeft' /\ PlansLeft'
  <2>1. Done' \cap 15..20 \subseteq Done /\ Done' \cap 21..29 \subseteq Done
        /\ at' \notin {17, 18, 20}
    BY <1>6
  <2> QED
    BY <1>1, <1>3, <1>7, <2>1, WorkspacesKept, PlansKept
<1>10. PaymentsLeft'
  <2>1. at' \notin {33, 35} /\ Done' \cap 30..35 \subseteq Done
    BY <1>6
  <2>2. CASE PaymentRows' = PaymentRows
    BY <1>1, <1>7, <2>1, <2>2, PaymentsKept
  <2>3. CASE at \in 30..35
    <3>1. \A i \in 30..35 : Program[i].seed = Program[at].seed
      BY <1>2, <2>3 DEF SeedsByNumber, SubscriptionNumbers
    <3>2. \A i \in 30..35 : i \notin Done'
      BY <1>5, <3>1
    <3> QED
      BY <2>1, <3>2, PaymentsToCome
  <2> QED
    BY <2>2, <2>3
<1>11. SeedTypeOK'
  <2>1. Program[at].seed \in Parts
    BY <1>2, <1>3 DEF Parts
  <2> QED
    BY <1>1, <1>2, <1>3, <1>4, <1>7, <2>1 DEF SeedTypeOK
<1>12. SeedRuns'
  <2>1. run' \in Runs /\ ~fresh' /\ at' # 0 /\ at' \notin 3..4
    BY <1>1, <1>3, <1>4 DEF SeedRuns
  <2>2. at' <= 14 => assigning' = {}
    BY <1>1, <1>3, <1>4, <1>7 DEF SeedRuns
  <2>3. OneRoleEach'
    BY <1>1, <1>7 DEF SeedRuns, OneRoleEach
  <2>4. \A i \in DOMAIN Program : i >= at' => Program[i].seed \notin missed'
    <3>1. \A i \in 1..35 : i >= at' => Program[i].seed # Program[at].seed
      BY <1>2, <1>3, <1>4 DEF SeedsByNumber, RoleNumbers, UserNumbers, WorkspaceNumbers,
                              PostNumbers, SubscriptionNumbers
    <3>2. \A i \in 1..35 : i >= at' => Program[i].seed \notin missed
      BY <1>1, <1>2, <1>3, <1>4 DEF SeedRuns
    <3> QED
      BY <1>2, <1>3, <3>1, <3>2
  <2> QED
    BY <1>3, <2>1, <2>2, <2>3, <2>4 DEF SeedRuns
<1> QED
  BY <1>8, <1>9, <1>10, <1>11, <1>12 DEF SeedInv

-----------------------------------------------------------------------------
\* The steps of the fifth part that make the coupons, subscriptions and payments.
PaymentStep ==
    \/ DeleteCoupons \/ CreateCoupons \/ DeleteSubscriptions \/ CreateSubscriptions
    \/ DeletePayments \/ CreatePayments

\* The others' rows are not touched.
OtherRows == <<RoleRows, UserRows, WorkspaceRows, PlanRows>>

LEMMA PaymentStepTables ==
    ASSUME SeedTypeOK, SeedRuns, PaymentStep
    PROVE  tables' \in Tables /\ OtherRows' = OtherRows
<1> USE DEF OtherRows, RoleRows, UserRows, WorkspaceRows, PlanRows
<1>1. tables \in Tables /\ DOMAIN Program = 1..35
  BY ProgramIs DEF SeedTypeOK
<1>2. at \in DOMAIN Program => run \in Runs
  BY <1>1 DEF SeedRuns
<1>3. CASE DeleteCoupons
  BY <1>1, <1>3 DEF DeleteCoupons, Tables
<1>4. CASE CreateCoupons
  <2>1. run \in Runs /\ assigning' = assigning
        /\ tables' = [tables EXCEPT !.coupons = @ \cup {run}]
    BY <1>2, <1>4 DEF CreateCoupons, Now
  <2> QED
    BY <1>1, <2>1 DEF Tables
<1>5. CASE DeleteSubscriptions
  BY <1>1, <1>5 DEF DeleteSubscriptions, Tables
<1>6. CASE CreateSubscriptions
  <2>1. PICK all \in Few(tables.users \ {"admin"}) : \E done \in SUBSET all :
           /\ ForAll("createSubscriptions", all, done)
           /\ tables' = [tables EXCEPT !.subscriptions = @ \cup (done \X {run})]
    BY <1>6 DEF CreateSubscriptions
  <2>2. PICK done \in SUBSET all :
           /\ ForAll("createSubscriptions", all, done)
           /\ tables' = [tables EXCEPT !.subscriptions = @ \cup (done \X {run})]
    BY <2>1
  <2>3. run \in Runs /\ assigning' = assigning
    BY <1>2, <2>2 DEF ForAll
  <2>4. all \subseteq People
    BY <1>1 DEF Few, Tables
  <2>5. done \X {run} \subseteq People \X Runs
    BY <2>3, <2>4
  <2> QED
    BY <1>1, <2>2, <2>3, <2>5 DEF Tables
<1>7. CASE DeletePayments
  BY <1>1, <1>7 DEF DeletePayments, Tables
<1>8. CASE CreatePayments
  <2>1. PICK done \in SUBSET Subscribed :
           /\ ForAll("createPayments", Subscribed, done)
           /\ tables' = [tables EXCEPT !.payments = @ \cup done]
    BY <1>8 DEF CreatePayments, Subscribed
  <2>2. assigning' = assigning
    BY <2>1 DEF ForAll
  <2>3. done \subseteq People
    BY <1>1 DEF Subscribed, Tables
  <2> QED
    BY <1>1, <2>1, <2>2, <2>3 DEF Tables
<1> QED
  BY <1>3, <1>4, <1>5, <1>6, <1>7, <1>8 DEF PaymentStep

\* A step that is done, and a step that gives the part up.
LEMMA PaymentStepIs ==
    ASSUME SeedTypeOK, SeedRuns, PaymentStep
    PROVE  \/ GiveUp /\ at \in 30..35
           \/ /\ Forward
              /\ \/ DeleteCoupons /\ at = 30
                 \/ CreateCoupons /\ at = 31
                 \/ DeleteSubscriptions /\ at = 32
                 \/ at = 33 /\ \E all \in Few(tables.users \ {"admin"}) :
                      tables' = [tables EXCEPT !.subscriptions = @ \cup (all \X {run})]
                 \/ DeletePayments /\ at = 34
                 \/ at = 35 /\ tables' = [tables EXCEPT !.payments = @ \cup Subscribed]
<1>1. DOMAIN Program = 1..35 /\ SubscriptionStepNumbers
  BY ProgramIs
<1>2. ASSUME DeleteCoupons PROVE Forward /\ at = 30
  BY <1>1, <1>2, NowForward DEF DeleteCoupons, Forward, SubscriptionStepNumbers
<1>3. ASSUME CreateCoupons PROVE Forward /\ at = 31
  BY <1>1, <1>3, NowForward DEF CreateCoupons, Forward, SubscriptionStepNumbers
<1>4. ASSUME DeleteSubscriptions PROVE Forward /\ at = 32
  BY <1>1, <1>4, NowForward DEF DeleteSubscriptions, Forward, SubscriptionStepNumbers
<1>5. ASSUME DeletePayments PROVE Forward /\ at = 34
  BY <1>1, <1>5, NowForward DEF DeletePayments, Forward, SubscriptionStepNumbers
<1>6. ASSUME CreateSubscriptions
      PROVE  \/ GiveUp /\ at \in 30..35
             \/ /\ Forward /\ at = 33
                /\ \E all \in Few(tables.users \ {"admin"}) :
                     tables' = [tables EXCEPT !.subscriptions = @ \cup (all \X {run})]
  <2>1. PICK all \in Few(tables.users \ {"admin"}) : \E done \in SUBSET all :
           /\ ForAll("createSubscriptions", all, done)
           /\ tables' = [tables EXCEPT !.subscriptions = @ \cup (done \X {run})]
    BY <1>6 DEF CreateSubscriptions
  <2>2. PICK done \in SUBSET all :
           /\ ForAll("createSubscriptions", all, done)
           /\ tables' = [tables EXCEPT !.subscriptions = @ \cup (done \X {run})]
    BY <2>1
  <2>3. at = 33 /\ IF done = all THEN Now("createSubscriptions") ELSE GiveUp
    BY <1>1, <2>2 DEF ForAll, SubscriptionStepNumbers
  <2>4. CASE done = all
    <3>1. Now("createSubscriptions")
      BY <2>3, <2>4
    <3>2. Forward
      BY <3>1, NowForward
    <3> QED
      BY <2>2, <2>3, <2>4, <3>2
  <2>5. CASE done # all
    <3>1. GiveUp
      BY <2>3, <2>5
    <3>2. at \in 30..35
      BY <2>3
    <3> QED
      BY <3>1, <3>2
  <2> QED
    BY <2>4, <2>5
<1>7. ASSUME CreatePayments
      PROVE  \/ GiveUp /\ at \in 30..35
             \/ /\ Forward /\ at = 35
                /\ tables' = [tables EXCEPT !.payments = @ \cup Subscribed]
  <2>1. PICK done \in SUBSET Subscribed :
           /\ ForAll("createPayments", Subscribed, done)
           /\ tables' = [tables EXCEPT !.payments = @ \cup done]
    BY <1>7 DEF CreatePayments, Subscribed
  <2>2. at = 35 /\ IF done = Subscribed THEN Now("createPayments") ELSE GiveUp
    BY <1>1, <2>1 DEF ForAll, SubscriptionStepNumbers
  <2>3. CASE done = Subscribed
    <3>1. Now("createPayments")
      BY <2>2, <2>3
    <3>2. Forward
      BY <3>1, NowForward
    <3> QED
      BY <2>1, <2>2, <2>3, <3>2
  <2>4. CASE done # Subscribed
    <3>1. GiveUp
      BY <2>2, <2>4
    <3>2. at \in 30..35
      BY <2>2
    <3> QED
      BY <3>1, <3>2
  <2> QED
    BY <2>3, <2>4
<1> QED
  BY <1>2, <1>3, <1>4, <1>5, <1>6, <1>7 DEF PaymentStep

LEMMA PaymentStepKeeps ==
    ASSUME SeedInv, PaymentStep
    PROVE  SeedInv'
<1>1. /\ SeedTypeOK /\ SeedRuns /\ RolesLeft /\ UsersLeft /\ (7 \in Done => RolesGiven)
      /\ WorkspacesLeft /\ PlansLeft /\ PaymentsLeft
  BY DEF SeedInv
<1>2. tables' \in Tables /\ RoleRows' = RoleRows /\ UserRows' = UserRows
      /\ WorkspaceRows' = WorkspaceRows /\ PlanRows' = PlanRows
  BY <1>1, PaymentStepTables DEF OtherRows
<1>3. /\ tables'.users = tables.users /\ assigning' = assigning
      /\ tables'.roles = tables.roles
      /\ assigning \subseteq People \X (RoleNames \X Runs)
  BY <1>1, <1>2 DEF UserRows, RoleRows, SeedTypeOK
<1>4. CASE GiveUp /\ at \in 30..35
  BY <1>2, <1>4, GiveUpKeeps
<1>5. ASSUME Forward, at \in 30..35, PaymentsLeft' PROVE SeedInv'
  <2>1. /\ run' = run /\ at' \in 31..36
        /\ Done' = Done \cup {at}
    BY <1>1, <1>5, DoneForward DEF Forward
  <2>2. /\ Done' \cap 1..7 \subseteq Done
        /\ Done' \cap 1..14 \subseteq Done
        /\ Done' \cap 15..20 \subseteq Done
        /\ Done' \cap 21..29 \subseteq Done
        /\ at' \notin {17, 18, 20} /\ at' \notin 3..4
    BY <1>5, <2>1
  <2>3. RolesLeft' /\ UsersLeft' /\ (7 \in Done' => RolesGiven')
    BY <1>1, <1>2, <2>1, <2>2, RolesKept, UsersKept
  <2>4. WorkspacesLeft' /\ PlansLeft'
    BY <1>1, <1>2, <1>3, <2>1, <2>2, WorkspacesKept, PlansKept
  <2>5. SeedTypeOK'
    BY <1>1, <1>2, <1>3, <1>5, SeedTypeForward
  <2>6. SeedRuns'
    <3>1. OneRoleEach'
      BY <1>1, <1>3 DEF SeedRuns, OneRoleEach
    <3> QED
      BY <1>1, <1>3, <1>5, <2>2, <3>1, SeedRunsForward
  <2> QED
    BY <1>5, <2>3, <2>4, <2>5, <2>6 DEF SeedInv
<1>6. ASSUME Forward, at \in 30..35
      PROVE  /\ run \in Runs /\ run' = run /\ at' = at + 1
             /\ \A i \in 30..35 : i \in Done' <=> i \in Done \/ i = at
             /\ \A i \in 30..35 : i < at => i \in Done
             /\ \A i \in 30..35 : i \in Done => i < at
  <2>1. \A i \in 30..35 : Program[i].seed = Program[at].seed
    BY <1>6, ProgramIs DEF SeedsByNumber, SubscriptionNumbers
  <2> QED
    BY <1>1, <1>6, <2>1, DoneForward DEF Forward
<1>7. CASE Forward /\ DeleteCoupons /\ at = 30
  <2>1. PaymentsLeft'
    BY <1>6, <1>7 DEF PaymentsLeft
  <2> QED
    BY <1>5, <1>7, <2>1
<1>8. CASE Forward /\ CreateCoupons /\ at = 31
  <2>1. PaymentsLeft'
    BY <1>6, <1>8 DEF PaymentsLeft
  <2> QED
    BY <1>5, <1>8, <2>1
<1>9. CASE Forward /\ DeleteSubscriptions /\ at = 32
  <2>1. tables' = [tables EXCEPT !.subscriptions = {}, !.payments = {}]
    BY <1>9 DEF DeleteSubscriptions
  <2>2. tables'.subscriptions = {}
    BY <1>1, <2>1 DEF SeedTypeOK, Tables
  <2>3. PaymentsLeft'
    BY <1>6, <1>9, <2>2 DEF PaymentsLeft
  <2> QED
    BY <1>5, <1>9, <2>3
<1>10. ASSUME Forward, at = 33, NEW all \in Few(tables.users \ {"admin"}),
              tables' = [tables EXCEPT !.subscriptions = @ \cup (all \X {run})]
       PROVE  SeedInv'
  <2>1. tables.subscriptions = {}
    BY <1>1, <1>10 DEF PaymentsLeft
  <2>2. tables'.subscriptions = all \X {run}
    BY <1>1, <1>10, <2>1 DEF SeedTypeOK, Tables
  <2>3. Subscribed' = all
    <3>1. \A u \in all : <<u, run>> \in tables'.subscriptions /\ <<u, run>>[1] = u
      BY <2>2
    <3>2. \A s \in tables'.subscriptions : s[1] \in all
      BY <2>2
    <3> QED
      BY <3>1, <3>2 DEF Subscribed
  <2>4. PaymentsLeft'
    BY <1>3, <1>6, <1>10, <2>3 DEF PaymentsLeft
  <2> QED
    BY <1>5, <1>10, <2>4
<1>11. CASE Forward /\ DeletePayments /\ at = 34
  <2>1. tables' = [tables EXCEPT !.payments = {}]
    BY <1>11 DEF DeletePayments
  <2>2. tables'.subscriptions = tables.subscriptions /\ tables'.payments = {}
    BY <1>1, <2>1 DEF SeedTypeOK, Tables
  <2>3. Subscribed' = Subscribed
    BY <2>2 DEF Subscribed
  <2>4. PaymentsLeft'
    BY <1>1, <1>3, <1>6, <1>11, <2>2, <2>3 DEF PaymentsLeft
  <2> QED
    BY <1>5, <1>11, <2>4
<1>12. CASE Forward /\ at = 35 /\ tables' = [tables EXCEPT !.payments = @ \cup Subscribed]
  <2>1. tables'.subscriptions = tables.subscriptions
        /\ tables'.payments = tables.payments \cup Subscribed
    BY <1>1, <1>12 DEF SeedTypeOK, Tables
  <2>2. Subscribed' = Subscribed
    BY <2>1 DEF Subscribed
  <2>3. tables.payments = {}
    BY <1>1, <1>12 DEF PaymentsLeft
  <2>4. PaymentsLeft'
    BY <1>1, <1>3, <1>6, <1>12, <2>1, <2>2, <2>3 DEF PaymentsLeft
  <2> QED
    BY <1>5, <1>12, <2>4
<1> QED
  BY <1>1, <1>4, <1>7, <1>8, <1>9, <1>10, <1>11, <1>12, PaymentStepIs

-----------------------------------------------------------------------------
\* The steps that are not of a part.

LEMMA BeginRunKeeps ==
    ASSUME SeedInv, BeginRun, MaxRuns \in Nat
    PROVE  SeedInv'
<1>1. SeedTypeOK /\ SeedRuns
  BY DEF SeedInv
<1>2. /\ at = 0 /\ at' = 1 /\ run' = run + 1 /\ run < MaxRuns /\ missed' = {}
      /\ fresh' = FALSE /\ tables' = tables /\ assigning' = assigning
  BY DEF BeginRun
<1>3. DOMAIN Program = 1..35 /\ Len(Program) = 35
  BY ProgramIs
<1>4. \A i \in 1..35 : i \notin Done'
  BY <1>2, <1>3 DEF Done
<1>5. SeedTypeOK'
  <2>1. run' \in 0..MaxRuns /\ at' \in 0..36
    BY <1>1, <1>2 DEF SeedTypeOK
  <2>2. tables' \in Tables /\ assigning' \subseteq People \X (RoleNames \X Runs)
    BY <1>1, <1>2 DEF SeedTypeOK
  <2>3. missed' \subseteq Parts /\ fresh' \in BOOLEAN
    BY <1>2
  <2> QED
    BY <1>3, <2>1, <2>2, <2>3 DEF SeedTypeOK
<1>6. SeedRuns'
  <2>1. run' \in Runs /\ assigning' = {}
    BY <1>1, <1>2 DEF SeedTypeOK, SeedRuns, Runs
  <2>2. OneRoleEach'
    BY <1>1, <1>2 DEF SeedRuns, OneRoleEach
  <2> QED
    BY <1>2, <2>1, <2>2 DEF SeedRuns
<1>7. RolesLeft' /\ UsersLeft' /\ RolesGiven' /\ PlansLeft'
  BY <1>4, RolesToCome, UsersToCome, PlansToCome
<1>8. WorkspacesLeft' /\ PaymentsLeft'
  BY <1>2, <1>4, WorkspacesToCome, PaymentsToCome
<1> QED
  BY <1>5, <1>6, <1>7, <1>8 DEF SeedInv

\* The program ends, or is killed: only what was left is said of the tables.
LEMMA StopKeeps ==
    ASSUME SeedInv, tables' = tables, run' = run, at' = 0, fresh' = TRUE,
           missed' \subseteq Parts, assigning' = {}, Done' \subseteq Done,
           assigning # {} => "user" \in missed'
    PROVE  SeedInv'
<1>1. /\ SeedTypeOK /\ SeedRuns /\ RolesLeft /\ UsersLeft /\ (7 \in Done => RolesGiven)
      /\ WorkspacesLeft /\ PlansLeft /\ PaymentsLeft
  BY DEF SeedInv
<1>2. DOMAIN Program = 1..35 /\ Len(Program) = 35 /\ SeedsByNumber
  BY ProgramIs
<1>3. SeedTypeOK'
  BY <1>1, <1>2 DEF SeedTypeOK
<1>4. SeedRuns'
  <2>1. OneRoleEach'
    BY <1>1 DEF SeedRuns, OneRoleEach
  <2> QED
    BY <2>1 DEF SeedRuns
<1>5. RoleRows' = RoleRows /\ WorkspaceRows' = WorkspaceRows /\ PlanRows' = PlanRows
      /\ PaymentRows' = PaymentRows
  BY DEF RoleRows, WorkspaceRows, PlanRows, PaymentRows
<1>6. RolesLeft' /\ PlansLeft' /\ WorkspacesLeft' /\ PaymentsLeft'
  BY <1>1, <1>5, RolesKept, PlansKept, WorkspacesKept, PaymentsKept
<1>7. UsersLeft' /\ (7 \in Done' => RolesGiven')
  <2>1. CASE assigning = {}
    <3>1. UserRows' = UserRows
      BY <2>1 DEF UserRows
    <3> QED
      BY <1>1, <3>1, UsersKept
  <2>2. CASE assigning # {}
    <3>1. \A i \in 8..14 : i \notin Done'
      BY <1>2, <2>2 DEF Done, SeedsByNumber, UserNumbers
    <3> QED
      BY <3>1, UsersToCome
  <2> QED
    BY <2>1, <2>2
<1> QED
  BY <1>3, <1>4, <1>6, <1>7 DEF SeedInv

LEMMA EndRunKeeps ==
    ASSUME SeedInv, EndRun
    PROVE  SeedInv'
<1>1. SeedTypeOK /\ DOMAIN Program = 1..35 /\ Len(Program) = 35
  BY ProgramIs DEF SeedInv
<1>2. /\ at = 36 /\ at' = 0 /\ assigning = {} /\ assigning' = {} /\ fresh' = TRUE
      /\ tables' = tables /\ run' = run /\ missed' = missed
  BY <1>1 DEF EndRun
<1>3. Done' \subseteq Done
  BY <1>1, <1>2 DEF Done
<1>4. missed' \subseteq Parts
  BY <1>1, <1>2 DEF SeedTypeOK
<1> QED
  BY <1>2, <1>3, <1>4, StopKeeps

LEMMA KillKeeps ==
    ASSUME SeedInv, Kill
    PROVE  SeedInv'
<1>1. SeedTypeOK /\ DOMAIN Program = 1..35 /\ Len(Program) = 35 /\ SeedsByNumber
  BY ProgramIs DEF SeedInv
<1>2. /\ at # 0 /\ at' = 0 /\ assigning' = {} /\ fresh' = TRUE
      /\ tables' = tables /\ run' = run
      /\ missed' = missed \cup {Program[i].seed : i \in at..35}
                          \cup {p \in {"user"} : assigning # {}}
  BY <1>1 DEF Kill
<1>3. at \in 1..36
  BY <1>1, <1>2 DEF SeedTypeOK
<1>4. Done' \subseteq Done
  <2>1. ASSUME NEW i \in Done' PROVE i \in Done
    <3>1. i \in 1..35 /\ Program[i].seed \notin missed'
      BY <1>1, <2>1 DEF Done
    <3>2. Program[i].seed \notin missed /\ i \notin at..35
      BY <1>2, <3>1
    <3>3. i < at
      BY <1>3, <3>1, <3>2
    <3> QED
      BY <1>1, <1>2, <3>1, <3>2, <3>3 DEF Done
  <2> QED
    BY <2>1
<1>5. missed' \subseteq Parts
  <2>1. \A i \in at..35 : Program[i].seed \in Parts
    BY <1>1, <1>3 DEF Parts
  <2>2. "user" \in Parts
    <3>1. Program[8].seed = "user" /\ 8 \in DOMAIN Program
      BY <1>1 DEF SeedsByNumber, UserNumbers
    <3> QED
      BY <3>1 DEF Parts
  <2> QED
    BY <1>1, <1>2, <2>1, <2>2 DEF SeedTypeOK
<1>6. assigning # {} => "user" \in missed'
  BY <1>2
<1> QED
  BY <1>2, <1>4, <1>5, <1>6, StopKeeps

\* When somebody has used the service nothing is said of what the seeds left
\* but that there is one role of a type.
LEMMA UseKeeps ==
    ASSUME SeedInv, SignUp \/ \E w \in tables.workspaces : ToggleSigned(w)
    PROVE  SeedInv'
<1>1. SeedTypeOK /\ SeedRuns
  BY DEF SeedInv
<1>2. DOMAIN Program = 1..35
  BY ProgramIs
<1>3. at = 0 /\ at' = 0 /\ fresh' = FALSE /\ assigning' = assigning /\ run' = run
      /\ missed' = missed
  BY DEF SignUp, ToggleSigned
<1>4. tables' \in Tables /\ tables'.roles = tables.roles
  <2>1. tables \in Tables
    BY <1>1 DEF SeedTypeOK
  <2>2. CASE SignUp
    <3>1. {"other"} \X OfType("USER") \subseteq People \X (RoleNames \X Runs)
      BY <2>1 DEF OfType, People, Tables
    <3>2. "other" \in People
      BY DEF People
    <3> QED
      BY <2>1, <2>2, <3>1, <3>2 DEF SignUp, Tables
  <2>3. CASE \E w \in tables.workspaces : ToggleSigned(w)
    <3>1. PICK w \in tables.workspaces : ToggleSigned(w)
      BY <2>3
    <3>2. w \in Runs
      BY <2>1 DEF Tables
    <3>3. \/ tables' = [tables EXCEPT !.signed = @ \ {w}]
          \/ tables' = [tables EXCEPT !.signed = @ \cup {w}]
      BY <2>1, <3>1 DEF ToggleSigned, Tables
    <3> QED
      BY <2>1, <3>2, <3>3 DEF Tables
  <2> QED
    BY <2>2, <2>3
<1>5. \A i \in 1..35 : i \notin Done'
  BY <1>2, <1>3 DEF Done
<1>6. SeedTypeOK'
  BY <1>1, <1>3, <1>4 DEF SeedTypeOK
<1>7. SeedRuns'
  <2>1. OneRoleEach' /\ assigning' = {}
    BY <1>1, <1>3, <1>4 DEF SeedRuns, OneRoleEach
  <2> QED
    BY <1>3, <2>1 DEF SeedRuns
<1>8. RolesLeft' /\ UsersLeft' /\ RolesGiven' /\ PlansLeft'
  BY <1>5, RolesToCome, UsersToCome, PlansToCome
<1>9. WorkspacesLeft' /\ PaymentsLeft'
  BY <1>3, <1>5, WorkspacesToCome, PaymentsToCome
<1> QED
  BY <1>6, <1>7, <1>8, <1>9 DEF SeedInv

\* A create that nobody waited for is done.
LEMMA AssignedKeeps ==
    ASSUME SeedInv, NEW a \in assigning, Assigned(a)
    PROVE  SeedInv'
<1>1. /\ SeedTypeOK /\ SeedRuns /\ RolesLeft /\ UsersLeft /\ (7 \in Done => RolesGiven)
      /\ WorkspacesLeft /\ PlansLeft /\ PaymentsLeft
  BY DEF SeedInv
<1>2. /\ assigning' = assigning \ {a} /\ at' = at /\ run' = run /\ missed' = missed
      /\ fresh' = fresh /\ tables' = [tables EXCEPT !.userRoles = @ \cup {a}]
  BY DEF Assigned
<1>3. tables \in Tables /\ a \in People \X (RoleNames \X Runs) /\ at \in Nat
  BY <1>1, ProgramIs DEF SeedTypeOK
<1>4. /\ tables' \in Tables
      /\ RoleRows' = RoleRows /\ WorkspaceRows' = WorkspaceRows /\ PlanRows' = PlanRows
      /\ PaymentRows' = PaymentRows
      /\ tables'.users = tables.users /\ tables'.userRoles = tables.userRoles \cup {a}
  BY <1>2, <1>3 DEF Tables, RoleRows, WorkspaceRows, PlanRows, PaymentRows
<1>5. Done' = Done
  BY <1>2 DEF Done
<1>6. SeedTypeOK'
  BY <1>1, <1>2, <1>4 DEF SeedTypeOK
<1>7. SeedRuns'
  <2>1. tables'.roles = tables.roles
    BY <1>4 DEF RoleRows
  <2>2. OneRoleEach'
    BY <1>1, <2>1 DEF SeedRuns, OneRoleEach
  <2> QED
    BY <1>1, <1>2, <2>1, <2>2 DEF SeedRuns
<1>8. RolesLeft' /\ PlansLeft'
  BY <1>1, <1>2, <1>4, <1>5, RolesKept, PlansKept
<1>9. UsersLeft'
  BY <1>1, <1>4, <1>5 DEF UsersLeft
<1>10. 7 \in Done' => RolesGiven'
  <2>1. /\ tables'.userRoles \cup assigning' = tables.userRoles \cup assigning
        /\ tables.userRoles \subseteq tables'.userRoles
    BY <1>2, <1>4
  <2>2. AdminRole' = AdminRole /\ RegularRoles' = RegularRoles
    BY <1>2 DEF RoleOf, AdminRole, RegularRoles
  <2> QED
    BY <1>1, <1>5, <2>1, <2>2 DEF RolesGiven
<1>11. WorkspacesLeft'
  <2>1. tables'.owners = tables.owners /\ tables'.posts = tables.posts
    BY <1>4 DEF WorkspaceRows
  <2> QED
    BY <1>1, <1>2, <1>4, <1>5, <2>1 DEF WorkspacesLeft, EachOwnsOne, OneOwned
<1>12. PaymentsLeft'
  <2>1. tables'.subscriptions = tables.subscriptions /\ tables'.payments = tables.payments
    BY <1>4 DEF PaymentRows
  <2> QED
    BY <1>1, <1>2, <1>4, <1>5, <2>1 DEF PaymentsLeft, Subscribed
<1> QED
  BY <1>6, <1>7, <1>8, <1>9, <1>10, <1>11, <1>12 DEF SeedInv

LEMMA SeedInvInit == MaxRuns \in Nat /\ SeedInit => SeedInv
<1> SUFFICES ASSUME MaxRuns \in Nat, SeedInit PROVE SeedInv
  OBVIOUS
<1>1. DOMAIN Program = 1..35 /\ Len(Program) = 35
  BY ProgramIs
<1>2. at = 0 /\ assigning = {} /\ run = 0 /\ missed = {} /\ fresh = FALSE
      /\ tables.roles = {}
  BY DEF SeedInit
<1>3. Done = {}
  BY <1>1, <1>2 DEF Done
<1>4. SeedTypeOK
  <2>1. tables \in Tables
    BY DEF SeedInit, Tables
  <2>2. run \in 0..MaxRuns /\ at \in 0..36
    BY <1>2
  <2>3. fresh \in BOOLEAN /\ missed \subseteq Parts
        /\ assigning \subseteq People \X (RoleNames \X Runs)
    BY <1>2
  <2> QED
    BY <1>1, <2>1, <2>2, <2>3 DEF SeedTypeOK
<1>5. SeedRuns
  BY <1>2 DEF SeedRuns, OneRoleEach
<1> QED
  BY <1>2, <1>3, <1>4, <1>5
     DEF SeedInv, RolesLeft, UsersLeft, RolesGiven, WorkspacesLeft, PlansLeft, PaymentsLeft

LEMMA SeedInvStep ==
    ASSUME SeedInv, SeedNext \/ UNCHANGED seedVars, MaxRuns \in Nat
    PROVE  SeedInv'
<1>1. CASE CallFails
  <2>1. tables' = tables /\ assigning' = assigning /\ GiveUp
    BY <1>1 DEF CallFails
  <2>2. tables' \in Tables /\ RoleRows' = RoleRows /\ UserRows' = UserRows
        /\ WorkspaceRows' = WorkspaceRows /\ PlanRows' = PlanRows
        /\ PaymentRows' = PaymentRows
    BY <2>1 DEF SeedInv, SeedTypeOK, RoleRows, UserRows, WorkspaceRows, PlanRows, PaymentRows
  <2> QED
    BY <2>1, <2>2, GiveUpKeeps
<1>2. CASE UNCHANGED seedVars
  <2>1. /\ tables' = tables /\ at' = at /\ assigning' = assigning /\ run' = run
        /\ missed' = missed /\ fresh' = fresh
    BY <1>2 DEF seedVars
  <2>2. Done' = Done
    BY <2>1 DEF Done
  <2>3. SeedTypeOK' /\ SeedRuns'
    BY <2>1 DEF SeedInv, SeedTypeOK, SeedRuns, OneRoleEach
  <2>4. RoleRows' = RoleRows /\ UserRows' = UserRows /\ PlanRows' = PlanRows
    BY <2>1 DEF RoleRows, UserRows, PlanRows
  <2>5. RolesLeft' /\ UsersLeft' /\ (7 \in Done' => RolesGiven') /\ PlansLeft'
    BY <2>1, <2>2, <2>4, RolesKept, UsersKept, PlansKept DEF SeedInv
  <2>6. WorkspacesLeft'
    BY <2>1, <2>2 DEF SeedInv, WorkspacesLeft, EachOwnsOne, OneOwned
  <2>7. PaymentsLeft'
    BY <2>1, <2>2 DEF SeedInv, PaymentsLeft, Subscribed
  <2> QED
    BY <2>3, <2>5, <2>6, <2>7 DEF SeedInv
<1>3. CASE RoleStep \/ UserStep \/ WorkspaceStep \/ PlanStep \/ PaymentStep
  BY <1>3, RoleStepKeeps, UserStepKeeps, WorkspaceStepKeeps, PlanStepKeeps, PaymentStepKeeps
<1>4. CASE BeginRun \/ EndRun \/ Kill \/ SignUp \/ \E w \in tables.workspaces : ToggleSigned(w)
  BY <1>4, BeginRunKeeps, EndRunKeeps, KillKeeps, UseKeeps
<1>5. CASE \E a \in assigning : Assigned(a)
  BY <1>5, AssignedKeeps
<1> QED
  BY <1>1, <1>2, <1>3, <1>4, <1>5
     DEF SeedNext, RoleStep, UserStep, WorkspaceStep, PlanStep, PaymentStep

LEMMA SeedSound == Spec => []SeedInv
<1>1. MaxRuns \in Nat
  BY ServicesAssumption
<1>2. Init => SeedInv
  BY <1>1, SeedInvInit DEF Init
<1>3. SeedInv /\ [Next]_vars => SeedInv'
  <2>1. [Next]_vars => SeedNext \/ UNCHANGED seedVars
    BY DEF Next, vars
  <2> QED
    BY <1>1, <2>1, SeedInvStep
<1> QED
  BY <1>2, <1>3, PTL DEF Spec

\* What was left is what the properties ask for: a part is not missed exactly
\* when its last step was done.
LEMMA DoneUnlessMissed ==
    ASSUME SeedTypeOK, SeedRuns, fresh, NEW i \in 1..35, Program[i].seed \notin missed
    PROVE  i \in Done
<1>1. at = 0 /\ DOMAIN Program = 1..35
  BY ProgramIs DEF SeedRuns
<1> QED
  BY <1>1 DEF Done

LEMMA SeedInvRepairs == SeedInv => SeedsRepair
<1> SUFFICES ASSUME SeedInv PROVE SeedsRepair
  OBVIOUS
<1>1. /\ SeedTypeOK /\ SeedRuns /\ RolesLeft /\ UsersLeft /\ (7 \in Done => RolesGiven)
      /\ WorkspacesLeft /\ PlansLeft /\ PaymentsLeft
  BY DEF SeedInv
<1>2. OneRoleOfType
  <2> SUFFICES ASSUME NEW type \in RoleNames PROVE Cardinality(OfType(type)) <= 1
    BY DEF OneRoleOfType
  <2>1. CASE OfType(type) = {}
    BY <2>1, FS_EmptySet
  <2>2. ASSUME NEW r \in OfType(type) PROVE Cardinality(OfType(type)) <= 1
    <3>1. OfType(type) = {r}
      BY <1>1 DEF SeedRuns, OneRoleEach, OfType
    <3>2. Cardinality({r}) = 1
      BY FS_Singleton
    <3> QED
      BY <3>1, <3>2
  <2> QED
    BY <2>1, <2>2
<1>3. ASSUME fresh
      PROVE  /\ "role" \notin missed => 7 \in Done
             /\ "user" \notin missed => \A i \in 8..14 : i \in Done
             /\ "workspace" \notin missed => 18 \in Done
             /\ "post" \notin missed => 20 \in Done
             /\ "subscription" \notin missed => \A i \in 21..35 : i \in Done
  BY <1>1, <1>3, ProgramIs, DoneUnlessMissed
     DEF SeedsByNumber, RoleNumbers, UserNumbers, WorkspaceNumbers, PostNumbers,
         SubscriptionNumbers
<1>4. ASSUME fresh, "role" \notin missed
      PROVE  Cardinality(tables.privileges) = 1 /\ RolesSeeded
  <2>1. 7 \in Done
    BY <1>3, <1>4
  <2>2. tables.privileges = {run}
        /\ \A type \in RoleNames : OfType(type) = {RoleOf(type)}
                                   /\ RoleOf(type) \in tables.granted
    BY <1>1, <2>1, RolesOfRun
  <2>3. Cardinality(tables.privileges) = 1
    BY <2>2, FS_Singleton
  <2>4. RolesSeeded
    BY <2>2 DEF RolesSeeded
  <2> QED
    BY <2>3, <2>4
<1>5. ASSUME fresh, "role" \notin missed, "user" \notin missed
      PROVE  /\ tables.users = {"admin"} \cup Regular
             /\ RolesOf("admin") = OfType("SUPER_ADMIN")
             /\ \A u \in Regular : RolesOf(u) = OfType("USER")
  <2>1. 7 \in Done /\ 8 \in Done /\ 10 \in Done /\ 11 \in Done /\ 12 \in Done
        /\ 13 \in Done /\ 14 \in Done
    BY <1>3, <1>5
  <2>2. tables.users = {"admin"} \cup Regular
    BY <1>1, <2>1 DEF UsersLeft, Regular
  <2>3. assigning = {}
    BY <1>1, <1>5 DEF SeedRuns
  <2>4. tables.userRoles = {AdminRole} \cup RegularRoles
    BY <1>1, <2>1, <2>3 DEF RolesGiven
  <2>5. tables.roles = RoleNames \X {run}
        /\ OfType("SUPER_ADMIN") = {RoleOf("SUPER_ADMIN")} /\ OfType("USER") = {RoleOf("USER")}
    BY <1>1, <2>1, RolesOfRun DEF RoleNames
  <2>6. RoleOf("SUPER_ADMIN") \in tables.roles /\ RoleOf("USER") \in tables.roles
    BY <2>5 DEF OfType
  <2>7. \A r : <<"admin", r>> \in tables.userRoles <=> r = RoleOf("SUPER_ADMIN")
    BY <2>4 DEF AdminRole, RegularRoles, Regular
  <2>8. \A u \in Regular : \A r : <<u, r>> \in tables.userRoles <=> r = RoleOf("USER")
    BY <2>4 DEF AdminRole, RegularRoles, Regular
  <2>9. RolesOf("admin") = OfType("SUPER_ADMIN")
    BY <2>5, <2>6, <2>7 DEF RolesOf
  <2>10. \A u \in Regular : RolesOf(u) = OfType("USER")
    BY <2>5, <2>6, <2>8 DEF RolesOf
  <2> QED
    BY <2>2, <2>9, <2>10
<1>6. ASSUME fresh, "workspace" \notin missed, NEW u \in tables.users
      PROVE  Cardinality({o \in tables.owners : o[1] = u}) = 1
  <2>1. OneOwned(u)
    BY <1>1, <1>3, <1>6 DEF WorkspacesLeft, EachOwnsOne
  <2> QED
    BY <2>1, FS_Singleton DEF OneOwned
<1>7. ASSUME fresh, "post" \notin missed
      PROVE  Cardinality(tables.posts) = 1
  <2>1. tables.posts = {run}
    BY <1>1, <1>3, <1>7 DEF WorkspacesLeft
  <2> QED
    BY <2>1, FS_Singleton
<1>8. ASSUME fresh, "subscription" \notin missed
      PROVE  /\ \A name \in PlanNames : Cardinality({p \in tables.plans : p[1] = name}) = 1
             /\ \A name \in InfoNames : Cardinality({i \in tables.infos : i[1] = name}) = 1
             /\ {s[1] : s \in tables.subscriptions} = tables.payments
             /\ tables.payments \in Few(tables.users \ {"admin"})
  <2>1. \A i \in 21..35 : i \in Done
    BY <1>3, <1>8
  <2>2. tables.plans \subseteq PlanNames \X {run} /\ tables.infos \subseteq InfoNames \X {run}
    BY <1>1, <2>1 DEF PlansLeft
  <2>3. ASSUME NEW name \in PlanNames
        PROVE  Cardinality({p \in tables.plans : p[1] = name}) = 1
    <3>1. <<name, run>> \in tables.plans
      BY <1>1, <2>1 DEF PlansLeft, PlanNames
    <3>2. {p \in tables.plans : p[1] = name} = {<<name, run>>}
      BY <2>2, <3>1
    <3> QED
      BY <3>2, FS_Singleton
  <2>4. ASSUME NEW name \in InfoNames
        PROVE  Cardinality({i \in tables.infos : i[1] = name}) = 1
    <3>1. <<name, run>> \in tables.infos
      BY <1>1, <2>1 DEF PlansLeft, InfoNames
    <3>2. {i \in tables.infos : i[1] = name} = {<<name, run>>}
      BY <2>2, <3>1
    <3> QED
      BY <3>2, FS_Singleton
  <2>5. tables.payments = Subscribed /\ Subscribed \in Few(tables.users \ {"admin"})
    BY <1>1, <2>1 DEF PaymentsLeft
  <2> QED
    BY <2>3, <2>4, <2>5 DEF Subscribed
<1>9. SeededUnlessMissed
  BY <1>4, <1>5, <1>6, <1>7, <1>8 DEF SeededUnlessMissed
<1> QED
  BY <1>2, <1>9 DEF SeedsRepair

\* src/seed: however often the seeds are run, wherever they fail or are killed
\* and whatever is done between the runs, there is at most one global role of a
\* type, and each part that the last run got to the end of left what it is to
\* leave.
THEOREM SeedsAlwaysRepair == Spec => []SeedsRepair
  BY SeedSound, SeedInvRepairs, PTL

-----------------------------------------------------------------------------
(* Types                                                                   *)

LEMMA FocusKept == Spec => [](focus \in {"messages", "videos", "plans", "seeds"})
<1>1. Init => focus \in {"messages", "videos", "plans", "seeds"}
  BY DEF Init
<1>2. focus \in {"messages", "videos", "plans", "seeds"} /\ [Next]_vars
        => (focus \in {"messages", "videos", "plans", "seeds"})'
  BY DEF Next, vars
<1> QED
  BY <1>1, <1>2, PTL DEF Spec

\* What each of the services keeps has its type, for any users, sockets, jobs,
\* plans, page sizes and runs.
THEOREM ServicesTyped == Spec => []TypeOK
<1>1. SeedInv => SeedTypeOK
  BY DEF SeedInv
<1>2. QueueInv => QueueTypeOK
  BY DEF QueueInv
<1>3. /\ focus \in {"messages", "videos", "plans", "seeds"} /\ PresenceTypeOK
      /\ QueueTypeOK /\ PlanTypeOK /\ ListTypeOK /\ SeedTypeOK
      => TypeOK
  BY DEF TypeOK
<1> QED
  BY <1>1, <1>2, <1>3, FocusKept, PresenceTyped, QueueSound, PlansSound, WalkSound,
     SeedSound, PTL
=============================================================================
