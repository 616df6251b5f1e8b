-------------------------------- MODULE Queue --------------------------------
(***************************************************************************)
(* The video queue (src/src/que): the controller that adds jobs and the    *)
(* worker that runs them.  The queue itself is BullMQ's: it hands a job to *)
(* the worker, one at a time (concurrency 1), fails a job whose process    *)
(* throws, as attempts is 0, and gives a job whose worker died to a worker *)
(* once more (its maxStalledCount is 1).  Which of the waiting jobs comes  *)
(* next is left open, and so is the wait of a delayed one.                 *)
(***************************************************************************)
EXTENDS Integers, FiniteSets

CONSTANT MaxJobs    \* bound: jobs added

VARIABLES
    jobs,           \* what Redis has of each job
    added           \* jobs added so far

queueVars == <<jobs, added>>

States == {"delayed", "waiting", "active", "stalled", "completed", "failed"}

\* "turn" is the loop variable of the worker that has the job.
Jobs == [id: Nat, name: {"process", "compress"}, state: States, turn: Nat,
         progress: 0..100, stalls: Nat]

QueueTypeOK == jobs \subseteq Jobs /\ added \in Nat

QueueInit == jobs = {} /\ added = 0

Put(j, k) == jobs' = (jobs \ {j}) \cup {k} /\ UNCHANGED added

\* processVideo asks for a delay, compressVideo does not.
FirstState(name) == IF name = "process" THEN "delayed" ELSE "waiting"

AddJob(name) ==
    /\ added < MaxJobs
    /\ added' = added + 1
    /\ jobs' = jobs \cup {[id |-> added + 1, name |-> name, state |-> FirstState(name),
                           turn |-> 0, progress |-> 0, stalls |-> 0]}

\* BullMQ: the delay is over.
Promote(j) == j.state = "delayed" /\ Put(j, [j EXCEPT !.state = "waiting"])

\* BullMQ hands the job to process, which starts at its first step.
Take(j) ==
    /\ j.state = "waiting"
    /\ \A k \in jobs : k.state # "active"
    /\ Put(j, [j EXCEPT !.state = "active", !.turn = 1])

TotalSteps == 5

MoreSteps(j) == j.turn <= TotalSteps

\* Mutant: a step counts as the whole.
PercentWhole(turn) == turn * 100

Percent(turn) == (turn * 100) \div TotalSteps

\* One turn of the loop of runTaskWithProgress.
RunTask(j) ==
    /\ j.state = "active"
    /\ MoreSteps(j)
    /\ Put(j, [j EXCEPT !.progress = Percent(j.turn), !.turn = @ + 1])

Complete(j) ==
    /\ j.state = "active"
    /\ ~MoreSteps(j)
    /\ Put(j, [j EXCEPT !.state = "completed"])

\* updateProgress throws, and process with it.
Fail(j) == j.state = "active" /\ Put(j, [j EXCEPT !.state = "failed"])

\* The worker dies.
Stall(j) == j.state = "active" /\ Put(j, [j EXCEPT !.state = "stalled"])

\* Mutant: a job can stall without end.
MayRunAgainAlways(j) == TRUE

MayRunAgain(j) == j.stalls = 0

\* BullMQ notices.
Recover(j) ==
    /\ j.state = "stalled"
    /\ Put(j, IF MayRunAgain(j)
              THEN [j EXCEPT !.state = "waiting", !.stalls = 1]
              ELSE [j EXCEPT !.state = "failed"])

\* What happens of itself: the worker and BullMQ go on.
Work == \E j \in jobs : \/ Promote(j)
                        \/ Take(j)
                        \/ RunTask(j)
                        \/ Complete(j)
                        \/ Recover(j)

QueueNext ==
    \/ \E name \in {"process", "compress"} : AddJob(name)
    \/ Work
    \/ \E j \in jobs : Fail(j) \/ Stall(j)

-----------------------------------------------------------------------------
(* Properties                                                              *)

\* A completed job has reported all of its progress, also when a worker died
\* on it and another began again at the first step.
CompletedIsWhole == \A j \in jobs : j.state = "completed" => j.progress = 100

\* The progress of a job goes back only when it is run again.
ProgressForward ==
    [][\A j \in jobs, k \in jobs' :
         k.id = j.id /\ k.progress < j.progress => k.stalls > 0]_jobs

\* Failed, or completed with all of the steps reported.
Ended(j) == j.state = "failed" \/ (j.state = "completed" /\ j.progress = 100)

\* Every job ends so: none waits for ever, and a job that kills its worker does
\* not come back for ever.
JobsEnd ==
    \A i \in 1..MaxJobs :
        (\E j \in jobs : j.id = i) ~> (\E j \in jobs : j.id = i /\ Ended(j))
=============================================================================
