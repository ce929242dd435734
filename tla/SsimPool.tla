------------------------------ MODULE SsimPool ------------------------------
(***************************************************************************)
(* The pool of threads that measures SSIM for the jobs of one image worker *)
(* (apps/worker-image/src/pipeline/ssim-pool.ts): a queue, the threads, and*)
(* the share of each job (forJob).  A handler of the event loop, with the  *)
(* promises it settles, is one action.                                     *)
(***************************************************************************)
EXTENDS Naturals, FiniteSets, Sequences, SequencesExt

CONSTANTS
    Jobs, Tasks, JobOf,   \* the jobs in progress, their calls, and whose each is
    Threads,              \* worker_threads that can be started: the bound of deaths
    PoolSize, Share,      \* size, and the limit of forJob
    NoTask

ASSUME SsimPoolAssumption ==
    /\ JobOf \in [Tasks -> Jobs] /\ NoTask \notin Tasks
    /\ IsFiniteSet(Tasks) /\ IsFiniteSet(Threads)
    /\ {PoolSize, Share} \subseteq Nat \ {0} /\ PoolSize <= Cardinality(Threads)

VARIABLES
    task,    \* per call: not made, made, or settled
    waiting, \* per job, `waiting` of forJob
    queue,   \* the queue of the pool
    idle,    \* its idle threads, the last to become so at the end
    busy,    \* per thread, its task
    thread,  \* per thread: not started, up, past its 'error', or gone
    closed

poolVars == <<task, waiting, queue, idle, busy, thread, closed>>

InService == Range(idle) \cup {w \in Threads : busy[w] # NoTask}
Submitted == Range(queue) \cup {busy[w] : w \in InService \ Range(idle)}

\* `active` of forJob.
ActiveOf(j) == Cardinality({t \in Submitted : JobOf[t] = j})

SsimPoolTypeOK ==
    /\ task \in [Tasks -> {"new", "called", "done", "failed"}]
    /\ \A j \in Jobs : waiting[j] \in Seq(Tasks)
    /\ queue \in Seq(Tasks) /\ idle \in Seq(Threads)
    /\ busy \in [Threads -> Tasks \cup {NoTask}]
    /\ \A w \in Range(idle) : busy[w] = NoTask
    /\ thread \in [Threads -> {"unborn", "up", "errored", "gone"}]
    /\ closed \in BOOLEAN

SsimPoolInit ==
    /\ task = [t \in Tasks |-> "new"]
    /\ waiting = [j \in Jobs |-> <<>>]
    /\ queue = <<>>
    /\ idle = SubSeq(SetToSeq(Threads), 1, PoolSize)
    /\ busy = [w \in Threads |-> NoTask]
    /\ thread = [w \in Threads |-> IF w \in Range(idle) THEN "up" ELSE "unborn"]
    /\ closed = FALSE

\* drain: the last idle thread takes the first task, while there are both.
Drain(q, free, taken) ==
    LET n == IF Len(q) < Len(free) THEN Len(q) ELSE Len(free)
        taker == [k \in 1 .. n |-> free[Len(free) + 1 - k]]
    IN  /\ queue' = SubSeq(q, n + 1, Len(q))
        /\ idle' = SubSeq(free, 1, Len(free) - n)
        /\ busy' = [w \in Threads |->
              IF w \in Range(taker) THEN q[CHOOSE k \in 1 .. n : taker[k] = w] ELSE taken[w]]

\* Mutant: the calls that wait for the share of the job are not woken.
SettleOnly(t, how, free, taken) ==
    /\ task' = [task EXCEPT ![t] = how]
    /\ Drain(queue, free, taken)
    /\ UNCHANGED waiting

\* The promise of t settles: the next call of its job goes on (the `finally`
\* of forJob), which a closed pool refuses, and so on.
SettleTask(t, how, free, taken) ==
    LET mine == waiting[JobOf[t]]
        woken == IF closed \/ mine = <<>> THEN mine ELSE <<Head(mine)>>
    IN  /\ waiting' = [waiting EXCEPT ![JobOf[t]] = SubSeq(mine, Len(woken) + 1, Len(mine))]
        /\ task' = [u \in Tasks |-> IF u = t THEN how
                                    ELSE IF closed /\ u \in Range(woken) THEN "failed" ELSE task[u]]
        /\ Drain(IF closed THEN queue ELSE queue \o woken, free, taken)
-----------------------------------------------------------------------------
\* prepare or measure, through the share of its job.
CallSsim(t) ==
    /\ task[t] = "new"
    /\ IF ActiveOf(JobOf[t]) >= Share
       THEN /\ task' = [task EXCEPT ![t] = "called"]
            /\ waiting' = [waiting EXCEPT ![JobOf[t]] = Append(@, t)]
            /\ UNCHANGED <<queue, idle, busy>>
       ELSE /\ task' = [task EXCEPT ![t] = IF closed THEN "failed" ELSE "called"]
            /\ Drain(IF closed THEN queue ELSE Append(queue, t), idle, busy)
            /\ UNCHANGED waiting
    /\ UNCHANGED <<thread, closed>>

\* 'message': the measurement, or the error the thread caught.
Reply(w) ==
    /\ thread[w] = "up" /\ busy[w] # NoTask
    /\ \E how \in {"done", "failed"} :
         SettleTask(busy[w], how, Append(idle, w), [busy EXCEPT ![w] = NoTask])
    /\ UNCHANGED <<thread, closed>>

\* removeIdle: the idle threads without w.
IdleWithout(w) ==
    IF w \in Range(idle) THEN RemoveAt(idle, CHOOSE k \in DOMAIN idle : idle[k] = w) ELSE idle

\* replace: the task of the thread fails, and another thread comes in, once.
Replace(w) ==
    LET known == w \in InService
        new == CHOOSE x \in Threads : thread[x] = "unborn"
        free == IF known /\ ~closed THEN Append(IdleWithout(w), new) ELSE IdleWithout(w)
    IN  /\ known /\ ~closed => \E x \in Threads : thread[x] = "unborn"
        /\ thread' = [x \in Threads |->
              IF x = w THEN IF thread[w] = "up" THEN "errored" ELSE "gone"
              ELSE IF known /\ ~closed /\ x = new THEN "up" ELSE thread[x]]
        /\ IF busy[w] # NoTask
           THEN SettleTask(busy[w], "failed", free, [busy EXCEPT ![w] = NoTask])
           ELSE Drain(queue, free, busy) /\ UNCHANGED <<task, waiting>>
        /\ UNCHANGED closed

\* 'error', always followed by 'exit'.
ThreadErrs(w) == thread[w] = "up" /\ Replace(w)
ThreadExits(w) == thread[w] = "errored" /\ Replace(w)

\* close, after the last job in production: what is queued fails, and with it
\* the calls that it wakes; the threads are terminated, and the 'exit' of a
\* busy one fails its task.
ClosePool ==
    LET queued == {JobOf[u] : u \in Range(queue)}
        refused == Range(queue) \cup UNION {Range(waiting[j]) : j \in queued}
    IN  /\ ~closed /\ closed' = TRUE
        /\ queue' = <<>> /\ idle' = <<>>
        /\ task' = [t \in Tasks |-> IF t \in refused THEN "failed" ELSE task[t]]
        /\ waiting' = [j \in Jobs |-> IF j \in queued THEN <<>> ELSE waiting[j]]
        /\ UNCHANGED <<busy, thread>>

SsimPoolNext ==
    \/ \E t \in Tasks : CallSsim(t)
    \/ \E w \in Threads : Reply(w) \/ ThreadErrs(w) \/ ThreadExits(w)
    \/ ClosePool

SsimPoolSpec == SsimPoolInit /\ [][SsimPoolNext]_poolVars
-----------------------------------------------------------------------------
(* Properties. *)

\* No call waits for nothing, whatever threads die and whatever calls fail: a
\* task is queued only while every thread in service has another, and there
\* are `size` of them; a call waits for its share only while its job uses all
\* of it; a closed pool has no queue, and the thread of each task still to be
\* settled has yet to exit.
NobodyWaitsInVain ==
    /\ queue # <<>> => idle = <<>>
    /\ ~closed => Cardinality(InService) = PoolSize
    /\ \A j \in Jobs : ActiveOf(j) <= Share /\ (waiting[j] # <<>> => ActiveOf(j) = Share)
    /\ closed => queue = <<>>
    /\ \A w \in Threads : busy[w] # NoTask => thread[w] = "up"
    /\ \A t \in Tasks : task[t] = "called" => t \in Submitted \cup Range(waiting[JobOf[t]])
=============================================================================
