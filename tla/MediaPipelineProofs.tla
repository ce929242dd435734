------------------------- MODULE MediaPipelineProofs -------------------------
(***************************************************************************)
(* What MediaPipeline guarantees for every number of assets, events,       *)
(* workers, relays and attempts, and for every set of faults.              *)
(*                                                                         *)
(* Structure is inductive by itself, one lemma per conjunct.  The results  *)
(* and the refinement follow from it.  NoSilentLoss needs two more facts:  *)
(* every run holds its job, and every asset in progress has a job that     *)
(* will take it on (Carried).                                              *)
(***************************************************************************)
EXTENDS MediaPipeline, TLAPS

USE DEF Events, Rows, assetVars, resultVars, outboxVars, relayVars, workVars,
        noticeVars

\* The shapes of the records, all that a type argument needs to unfold.
LEMMA RecordTypes ==
  /\ NoJob \in Job /\ NewJob \in Job /\ LostJob \in Job
  /\ NoRow \in Row /\ NoRun \in Run /\ NoTx \in RelayTx
  BY NullsAssumption, BoundsAssumption
     DEF NoJob, NewJob, LostJob, NoRow, NoRun, NoTx, Job, Row, Run, RelayTx,
         JobStates, RowStates, OpenRowStates, RunSteps

\* The initial state has the declared types.
LEMMA TypeOfInit == Init => TypeOK
  BY RecordTypes DEF Init, TypeOK, MediaStates

\* A job record that MoveJob writes is a job record.
LEMMA JobMoves ==
  ASSUME TypeOK, NEW e \in Events, NEW st \in JobStates,
         NEW owner \in Workers \cup {NoWorker},
         NEW made \in 0..MaxAttempts, NEW stalls \in 0..MaxStalls,
         MoveJob(e, st, owner, made, stalls)
  PROVE  job' \in [Events -> Job]
  BY DEF MoveJob, TypeOK, Job

\* So is one that SetJob writes, which keeps the counters.
LEMMA JobIsSet ==
  ASSUME TypeOK, NEW e \in Events, NEW st \in JobStates,
         NEW owner \in Workers \cup {NoWorker}, SetJob(e, st, owner)
  PROVE  job' \in [Events -> Job]
  BY DEF SetJob, MoveJob, TypeOK, Job

\* A run record that Goto writes is a run record.
LEMMA RunGoes ==
  ASSUME TypeOK, NEW w \in Workers, NEW step \in RunSteps, Goto(w, step)
  PROVE  run' \in [Workers -> Run]
  BY DEF Goto, GotoWith, TypeOK, Run

\* A job that can be taken has an attempt left, so its counter stays in range.
LEMMA AttemptLeft ==
  ASSUME Structure, NEW e \in Events, job[e].st \in {"waiting", "active"}
  PROVE  job[e].made + 1 \in 0..MaxAttempts
  <1>1. job[e].made \in 0..MaxAttempts
    BY DEF Structure, TypeOK, Job
  <1>2. job[e].made < MaxAttempts
    BY DEF Structure, RunsAreSound, JobIsSound
  <1> QED
    BY <1>1, <1>2, BoundsAssumption

\* Types: moveToActive.
LEMMA TypeOfTake ==
  ASSUME Structure, NEW w \in Workers, NEW e \in Events, Take(w, e)
  PROVE  TypeOK'
  <1>1. job[e].made + 1 \in 0..MaxAttempts
    BY AttemptLeft DEF Take
  <1>2. job' \in [Events -> Job]
    BY JobIsSet DEF Take, Structure, JobStates
  <1>3. run' \in [Workers -> Run]
    BY <1>1, BoundsAssumption
       DEF Take, Resumed, Structure, TypeOK, Run, RunSteps, Job
  <1> QED
    BY <1>2, <1>3 DEF Structure, TypeOK, Take

\* Facts about the state before a step that several actions need.
LEMMA RunFacts ==
  ASSUME Structure, NEW w \in Workers
  PROVE  /\ run[w] \in Run
         /\ run[w].pc # "idle" => run[w].job \in Events
         /\ run[w].pc \in {"work", "persist", "fail", "retry"} =>
               run[w].row \in Rows
  BY DEF Structure, TypeOK, EventsAreBacked, RunsAreSound, RunIsSound

\* Types: the API transactions.
LEMMA TypeOfApiStep ==
  ASSUME Structure, NEW m \in Media, ApiStep(m)
  PROVE  TypeOK'
  <1>1. CASE Complete(m)
    BY <1>1 DEF Structure, TypeOK, Complete, TransitionWithEvent, MediaStates
  <1>2. CASE Retry(m)
    BY <1>2 DEF Structure, TypeOK, Retry, TransitionWithEvent, MediaStates
  <1>3. CASE Remove(m)
    BY <1>3 DEF Structure, TypeOK, Remove
  <1> QED
    BY <1>1, <1>2, <1>3 DEF ApiStep

\* Types: the steps of a relay transaction.
LEMMA TypeOfRelayStep ==
  ASSUME Structure, NEW r \in Relays, RelayStep(r) \/ RelayFault(r)
  PROVE  TypeOK'
  <1>1. CASE RelayClaim(r)
    <2>1. NextBatch \in SUBSET Events
      BY DEF NextBatch, Claimable
    <2>2. relay' \in [Relays -> RelayTx]
      BY <1>1, <2>1 DEF RelayClaim, Structure, TypeOK, RelayTx
    <2> QED
      BY <1>1, <2>2 DEF RelayClaim, Structure, TypeOK
  <1>2. CASE RelayAdd(r)
    <2>1. relay' \in [Relays -> RelayTx]
      BY <1>2 DEF RelayAdd, Structure, TypeOK, RelayTx
    <2>2. job' \in [Events -> Job]
      BY <1>2, RecordTypes DEF RelayAdd, AddJobs, Structure, TypeOK
    <2> QED
      BY <1>2, <2>1, <2>2 DEF RelayAdd, Structure, TypeOK
  <1>3. CASE RelayCommit(r)
    <2>1. published' \in [Events -> BOOLEAN]
      BY <1>3 DEF RelayCommit
    <2> QED
      BY <1>3, <2>1, RecordTypes DEF RelayCommit, Structure, TypeOK
  <1>4. CASE RelayCrash(r)
    BY <1>4, RecordTypes DEF RelayCrash, Structure, TypeOK
  <1>5. CASE RelayTimeout(r)
    <2>1. relay[r].batch \in SUBSET Events
      BY DEF Structure, TypeOK, RelayTx
    <2> QED
      BY <1>5, <2>1, RecordTypes DEF RelayTimeout, Structure, TypeOK
  <1> QED
    BY <1>1, <1>2, <1>3, <1>4, <1>5 DEF RelayStep, RelayFault


\* Types: the awaits of processImage, and what ends a run.
LEMMA TypeOfWorkerStep ==
  ASSUME Structure, NEW w \in Workers, WorkerStep(w) \/ WorkerFault(w)
  PROVE  TypeOK'
  <1> USE RunFacts DEF Structure, TypeOK
  <1>1. CASE StartProcessing(w)
    BY <1>1 DEF StartProcessing, Goto, GotoWith, Run, RunSteps, MediaStates
  <1>2. CASE SkipJob(w)
    BY <1>2 DEF SkipJob, Goto, GotoWith, Run, RunSteps
  <1>3. CASE RecordAttempt(w)
    <2>1. PICK i \in Rows, next \in {"work", "throw"} :
             /\ rows' = [rows EXCEPT ![i] = [media |-> MediaOf(w),
                                             st |-> "running"]]
             /\ GotoWith(w, next, i, FALSE)
      BY <1>3 DEF RecordAttempt
    <2>2. run' \in [Workers -> Run]
      BY <2>1 DEF GotoWith, Run, RunSteps
    <2>3. rows' \in [Rows -> Row]
      BY <1>3, <2>1 DEF RecordAttempt, MediaOf, Row, RowStates, OpenRowStates
    <2> QED
      BY <1>3, <2>2, <2>3 DEF RecordAttempt, Publish, MediaStates
  <1>4. CASE ProduceDerivatives(w)
    BY <1>4 DEF ProduceDerivatives, Goto, GotoWith, Run, RunSteps
  <1>5. CASE ProcessingFails(w)
    BY <1>5 DEF ProcessingFails, Caught, GotoWith, Run, RunSteps
  <1>6. CASE FinishProcessing(w)
    <2>1. Goto(w, "announceReady") \/ Goto(w, "complete")
      BY <1>6 DEF FinishProcessing
    <2>11. run' \in [Workers -> Run]
      BY <2>1, RunGoes DEF RunSteps
    <2>2. rows' \in [Rows -> Row]
      BY <1>6 DEF FinishProcessing, SetRow, Row, RowStates, OpenRowStates
    <2> QED
      BY <1>6, <2>11, <2>2 DEF FinishProcessing, MediaStates
  <1>7. CASE PersistFails(w)
    BY <1>7 DEF PersistFails, Caught, GotoWith, Run, RunSteps
  <1>8. CASE AnnounceReady(w)
    BY <1>8 DEF AnnounceReady, Publish, Goto, GotoWith, Run, RunSteps,
                MediaStates
  <1>9. CASE FailProcessing(w)
    <2>1. run' \in [Workers -> Run]
      BY <1>9 DEF FailProcessing, Goto, GotoWith, Run, RunSteps
    <2>2. rows' \in [Rows -> Row]
      BY <1>9 DEF FailProcessing, SetRow, Row, RowStates, OpenRowStates
    <2> QED
      BY <1>9, <2>1, <2>2 DEF FailProcessing, MediaStates
  <1>10. CASE AnnounceFailed(w)
    BY <1>10 DEF AnnounceFailed, Publish, Goto, GotoWith, Run, RunSteps,
                 MediaStates
  <1>11. CASE RecordRetry(w)
    <2>1. run' \in [Workers -> Run]
      BY <1>11 DEF RecordRetry, Goto, GotoWith, Run, RunSteps
    <2>2. rows' \in [Rows -> Row]
      BY <1>11 DEF RecordRetry, SetRow, Row, RowStates, OpenRowStates
    <2> QED
      BY <1>11, <2>1, <2>2 DEF RecordRetry
  <1>12. CASE StatementFails(w)
    BY <1>12 DEF StatementFails, GotoWith, Run, RunSteps
  <1>13. CASE JobCompletes(w)
    <2>1. run[w].job \in Events
      BY <1>13 DEF JobCompletes
    <2>2. job' \in [Events -> Job]
      BY <1>13, <2>1, JobIsSet DEF JobCompletes, JobStates
    <2> QED
      BY <1>13, <2>2, RecordTypes DEF JobCompletes, EndRun
  <1>14. CASE JobThrows(w)
    <2>1. run[w].job \in Events
      BY <1>14 DEF JobThrows
    <2>2. Holds(w) => job[run[w].job].made + 1 \in 0..MaxAttempts
      BY <2>1, AttemptLeft DEF Holds
    <2>3. job[run[w].job].stalls \in 0..MaxStalls
      BY <2>1 DEF Job
    <2>4. job' \in [Events -> Job]
      BY <1>14, <2>1, <2>2, <2>3, JobMoves DEF JobThrows, JobStates
    <2> QED
      BY <1>14, <2>4, RecordTypes DEF JobThrows, EndRun
  <1>15. CASE WorkerCrash(w)
    <2>1. job' \in [Events -> Job]
      BY <1>15, JobIsSet DEF WorkerCrash, JobStates
    <2> QED
      BY <1>15, <2>1, RecordTypes DEF WorkerCrash, EndRun
  <1>16. CASE LoseLock(w)
    BY <1>16 DEF LoseLock, Holds, SetJob, MoveJob, Job, JobStates
  <1> QED
    BY <1>1, <1>2, <1>3, <1>4, <1>5, <1>6, <1>7, <1>8, <1>9, <1>10, <1>11,
       <1>12, <1>13, <1>14, <1>15, <1>16 DEF WorkerStep, WorkerFault

\* Types: what BullMQ and the listeners do on their own.
LEMMA TypeOfQueueStep ==
  ASSUME Structure, NEW e \in Events, QueueStep(e)
  PROVE  TypeOK'
  <1> USE DEF Structure, TypeOK
  <1>1. CASE PublishQueued(e)
    BY <1>1 DEF PublishQueued, Publish, MediaStates
  <1>2. CASE LateAdd(e)
    BY <1>2, RecordTypes DEF LateAdd, AddJobs
  <1>3. CASE BackoffElapses(e)
    BY <1>3 DEF BackoffElapses, SetJob, MoveJob, Job, JobStates
  <1>4. CASE EvictCompleted(e)
    BY <1>4, RecordTypes DEF EvictCompleted
  <1>5. CASE RequeueStalled(e)
    <2>1. job[e].stalls + 1 \in 0..MaxStalls
      BY <1>5, BoundsAssumption DEF RequeueStalled, Job
    <2> QED
      BY <1>5, <2>1 DEF RequeueStalled, MoveJob, Job, JobStates
  <1>6. CASE FailStalled(e)
    BY <1>6 DEF FailStalled, SetJob, MoveJob, Job, JobStates
  <1>7. CASE FailAbandoned(e)
    <2>1. evMedia[e] \in Media \cup {NoMedia}
      OBVIOUS
    <2>2. rows' \in [Rows -> Row]
      BY <1>7, <2>1 DEF FailAbandoned, Row, RowStates, OpenRowStates
    <2>3. /\ mstate' \in [Media -> MediaStates]
          /\ announced' \in [Media -> MediaStates \cup {"none"}]
      BY <1>7, <2>1 DEF FailAbandoned, Publish, MediaStates
    <2> QED
      BY <1>7, <2>2, <2>3 DEF FailAbandoned
  <1>8. CASE AbandonLost(e)
    BY <1>8 DEF AbandonLost
  <1> QED
    BY <1>1, <1>2, <1>3, <1>4, <1>5, <1>6, <1>7, <1>8 DEF QueueStep

\* No step takes a variable out of its type.
LEMMA TypeIsKept == Structure /\ [Next]_vars => TypeOK'
  <1> SUFFICES ASSUME Structure, [Next]_vars PROVE TypeOK'
    OBVIOUS
  <1>1. CASE Next
    BY <1>1, TypeOfApiStep, TypeOfRelayStep, TypeOfTake, TypeOfWorkerStep,
       TypeOfQueueStep DEF Next
  <1>2. CASE UNCHANGED vars
    BY <1>2 DEF vars, Structure, TypeOK
  <1> QED
    BY <1>1, <1>2


(***************************************************************************)
(* How a step moves the jobs and the events: forward only.                 *)
(***************************************************************************)
\* addBulk: new ids become waiting jobs, every other job is left alone.
LEMMA JobsAdded ==
  ASSUME Structure, NEW ids \in SUBSET Events, AddJobs(ids)
  PROVE  \A e \in Events :
            /\ \/ job'[e] = job[e]
               \/ /\ e \in ids
                  /\ job[e].st \in {"none", "gone"}
                  /\ job'[e] = NewJob
            /\ e \in ids \/ Queued(e) => job'[e].st # "none"
            /\ job[e].st = "failed" => job'[e] = job[e]
  <1> SUFFICES ASSUME NEW e \in Events
               PROVE  /\ \/ job'[e] = job[e]
                         \/ /\ e \in ids
                            /\ job[e].st \in {"none", "gone"}
                            /\ job'[e] = NewJob
                      /\ e \in ids \/ Queued(e) => job'[e].st # "none"
                      /\ job[e].st = "failed" => job'[e] = job[e]
    OBVIOUS
  <1>1. job'[e] = IF e \in ids /\ job[e].st \in {"none", "gone"}
                  THEN NewJob ELSE job[e]
    BY DEF AddJobs
  <1>2. CASE e \in ids /\ job[e].st \in {"none", "gone"}
    <2>1. job'[e] = NewJob /\ NewJob.st = "waiting"
      BY <1>1, <1>2 DEF NewJob
    <2>2. job'[e].st = "waiting"
      BY <2>1
    <2> QED
      BY <1>2, <2>1, <2>2 DEF Queued
  <1>3. CASE ~(e \in ids /\ job[e].st \in {"none", "gone"})
    <2>1. job'[e] = job[e]
      BY <1>1, <1>3
    <2>2. job'[e].st = job[e].st
      BY <2>1
    <2> QED
      BY <1>3, <2>1, <2>2 DEF Queued
  <1> QED
    BY <1>2, <1>3

\* MoveJob touches one job.
LEMMA JobMoved ==
  ASSUME Structure, NEW e \in Events, NEW st, NEW owner, NEW made, NEW stalls,
         MoveJob(e, st, owner, made, stalls)
  PROVE  /\ \A f \in Events \ {e} : job'[f] = job[f]
         /\ job'[e].st = st /\ job'[e].owner = owner
         /\ job'[e].made = made /\ job'[e].stalls = stalls
         /\ job'[e].begun = (job[e].begun \/ st = "active")
  BY DEF MoveJob, Structure, TypeOK

\* An event stays appended, a job stays known to BullMQ, a failed job stays
\* failed, and only a relay, or a late command of one, adds a job.
JobsGoForward(e) ==
  /\ Appended(e) => evMedia'[e] = evMedia[e]
  /\ Queued(e) => job'[e].st # "none"
  /\ job[e].st = "failed" => job'[e].st = "failed"
  /\ job'[e].st # "none" => Queued(e) \/ Appended(e)

\* Every step moves every event and job forward in this sense.
LEMMA JobsAdvance ==
  ASSUME Structure, [Next]_vars, NEW f \in Events
  PROVE  JobsGoForward(f)
  <1> USE DEF JobsGoForward, Queued, Appended
  <1>1. ASSUME NEW m \in Media, Complete(m) \/ Retry(m) PROVE JobsGoForward(f)
    BY <1>1 DEF Complete, Retry, TransitionWithEvent, NextEvent, Structure,
                TypeOK
  <1>2. ASSUME NEW r \in Relays, RelayAdd(r) PROVE JobsGoForward(f)
    <2>1. /\ relay[r].batch \in SUBSET Events
          /\ \A e \in relay[r].batch : Appended(e)
      BY DEF Structure, TypeOK, RelayTx, RelaysAreSound
    <2>2. AddJobs(relay[r].batch) /\ UNCHANGED evMedia
      BY <1>2 DEF RelayAdd
    <2> QED
      BY <2>1, <2>2, JobsAdded
  <1>3. ASSUME NEW e \in Events, LateAdd(e) PROVE JobsGoForward(f)
    <2>1. Appended(e)
      BY <1>3 DEF LateAdd, Structure, EventsAreBacked
    <2>2. AddJobs({e}) /\ UNCHANGED evMedia
      BY <1>3 DEF LateAdd
    <2> QED
      BY <2>1, <2>2, JobsAdded
  <1>4. ASSUME NEW e \in Events, NEW st \in JobStates \ {"none"}, NEW owner,
               NEW made, NEW stalls, MoveJob(e, st, owner, made, stalls),
               Queued(e), job[e].st # "failed", UNCHANGED evMedia
        PROVE  JobsGoForward(f)
    <2>1. f # e => job'[f] = job[f]
      BY <1>4, JobMoved
    <2>2. job'[e].st = st
      BY <1>4, JobMoved
    <2>3. Appended(e)
      BY <1>4 DEF Structure, EventsAreBacked
    <2> QED
      BY <1>4, <2>1, <2>2, <2>3
  <1>5. ASSUME NEW w \in Workers, NEW e \in Events, Take(w, e)
        PROVE  JobsGoForward(f)
    BY <1>4, <1>5 DEF Take, SetJob, JobStates
  <1>6. ASSUME NEW w \in Workers, JobCompletes(w) PROVE JobsGoForward(f)
    BY <1>4, <1>6, RunFacts DEF JobCompletes, Holds, SetJob, JobStates
  <1>7. ASSUME NEW w \in Workers, JobThrows(w) PROVE JobsGoForward(f)
    BY <1>4, <1>7, RunFacts DEF JobThrows, Holds, JobStates
  <1>8. ASSUME NEW w \in Workers, WorkerFault(w) PROVE JobsGoForward(f)
    BY <1>4, <1>8, RunFacts
       DEF WorkerFault, WorkerCrash, LoseLock, Holds, SetJob, JobStates
  <1>9. ASSUME NEW e \in Events,
               BackoffElapses(e) \/ RequeueStalled(e) \/ FailStalled(e)
        PROVE  JobsGoForward(f)
    BY <1>4, <1>9 DEF BackoffElapses, RequeueStalled, FailStalled, Stalled,
                      SetJob, JobStates
  <1>10. ASSUME NEW e \in Events, EvictCompleted(e) PROVE JobsGoForward(f)
    BY <1>10 DEF EvictCompleted, LostJob, Structure, TypeOK
  <1>11. CASE UNCHANGED <<evMedia, job>>
    BY <1>11
  <1> QED
    BY <1>1, <1>2, <1>3, <1>5, <1>6, <1>7, <1>8, <1>9, <1>10, <1>11
       DEF Next, ApiStep, RelayStep, RelayFault, WorkerStep, QueueStep, vars,
           Remove, RelayClaim, RelayCommit, RelayCrash, RelayTimeout,
           StartProcessing, SkipJob, RecordAttempt, ProduceDerivatives,
           ProcessingFails, FinishProcessing, PersistFails, AnnounceReady,
           FailProcessing, AnnounceFailed, RecordRetry, StatementFails,
           PublishQueued, FailAbandoned, AbandonLost


(***************************************************************************)
(* How a step moves the runs: only Take starts one, and a run keeps the    *)
(* job it was started with until it ends.                                  *)
(***************************************************************************)
RunGoesForward(v) ==
  \/ run'[v].pc = "idle"
  \/ \E e \in Events : Take(v, e)
  \/ /\ run[v].pc # "idle"
     /\ run'[v].job = run[v].job
     /\ run'[v].resumed = run[v].resumed

\* GotoWith touches one run, and only its step, row and verdict.
LEMMA RunMoved ==
  ASSUME Structure, NEW w \in Workers, NEW step, NEW i, NEW fatal,
         GotoWith(w, step, i, fatal)
  PROVE  /\ \A v \in Workers \ {w} : run'[v] = run[v]
         /\ run'[w].pc = step /\ run'[w].row = i /\ run'[w].fatal = fatal
         /\ run'[w].job = run[w].job
         /\ run'[w].resumed = run[w].resumed
         /\ run'[w].attempt = run[w].attempt
  BY DEF GotoWith, Structure, TypeOK

\* EndRun touches one run.
LEMMA RunEnded ==
  ASSUME Structure, NEW w \in Workers, EndRun(w)
  PROVE  /\ \A v \in Workers \ {w} : run'[v] = run[v]
         /\ run'[w].pc = "idle"
  BY DEF EndRun, NoRun, Structure, TypeOK

\* Take touches one run, which starts on the job taken.
LEMMA RunStarted ==
  ASSUME Structure, NEW w \in Workers, NEW e \in Events, Take(w, e)
  PROVE  /\ \A v \in Workers \ {w} : run'[v] = run[v]
         /\ run'[w].pc = "start" /\ run'[w].job = e
         /\ run'[w].resumed = job[e].begun
  BY DEF Take, Resumed, Structure, TypeOK

\* Every step moves every run forward in this sense.
LEMMA RunsAdvance ==
  ASSUME Structure, [Next]_vars, NEW v \in Workers
  PROVE  RunGoesForward(v)
  <1> USE DEF RunGoesForward
  <1>1. ASSUME NEW w \in Workers, NEW step, NEW i, NEW fatal,
               GotoWith(w, step, i, fatal), run[w].pc # "idle"
        PROVE  RunGoesForward(v)
    BY <1>1, RunMoved
  <1>2. ASSUME NEW w \in Workers, EndRun(w) PROVE RunGoesForward(v)
    BY <1>2, RunEnded
  <1>3. ASSUME NEW w \in Workers, NEW e \in Events, Take(w, e)
        PROVE  RunGoesForward(v)
    BY <1>3, RunStarted
  <1>4. ASSUME NEW w \in Workers, WorkerStep(w) PROVE RunGoesForward(v)
    BY <1>1, <1>2, <1>4
       DEF WorkerStep, StartProcessing, SkipJob, RecordAttempt,
           ProduceDerivatives, ProcessingFails, Caught, FinishProcessing,
           PersistFails, AnnounceReady, FailProcessing, AnnounceFailed,
           RecordRetry, StatementFails, JobCompletes, JobThrows, Goto
  <1>5. ASSUME NEW w \in Workers, WorkerCrash(w) PROVE RunGoesForward(v)
    BY <1>2, <1>5 DEF WorkerCrash
  <1>6. CASE UNCHANGED run
    BY <1>6
  <1> QED
    BY <1>3, <1>4, <1>5, <1>6
       DEF Next, ApiStep, RelayStep, RelayFault, WorkerFault, QueueStep, vars,
           Complete, Retry, TransitionWithEvent, Remove, RelayClaim, RelayAdd,
           RelayCommit, RelayCrash, RelayTimeout, LoseLock, PublishQueued,
           LateAdd, BackoffElapses, EvictCompleted, RequeueStalled,
           FailStalled, FailAbandoned, AbandonLost

\* EventsAreBacked is inductive.
LEMMA EventsStayBacked ==
  ASSUME Structure, [Next]_vars
  PROVE  EventsAreBacked'
  <1> USE DEF Queued, Appended, JobsGoForward
  <1>1. \A e \in Events : JobsGoForward(e)
    BY JobsAdvance
  <1>2. ASSUME NEW e \in Events, Queued(e)' PROVE Appended(e)'
    BY <1>1, <1>2 DEF Structure, EventsAreBacked
  <1>3. ASSUME NEW e \in (inflight \cup unannounced)' PROVE Appended(e)'
    <2>1. inflight \cup unannounced \in SUBSET Events
      BY DEF Structure, TypeOK
    <2>2. CASE e \in inflight \cup unannounced
      BY <1>1, <2>1, <2>2 DEF Structure, EventsAreBacked
    <2>3. ASSUME NEW m \in Media, Complete(m) \/ Retry(m) PROVE Appended(e)'
      <3>1. PICK f \in Events :
               /\ evMedia' = [evMedia EXCEPT ![f] = m]
               /\ unannounced' = unannounced \cup
                                    (IF m \in Watched THEN {f} ELSE {})
        BY <2>3 DEF Complete, Retry, TransitionWithEvent
      <3>2. inflight' = inflight
        BY <2>3 DEF Complete, Retry, TransitionWithEvent
      <3>3. e = f \/ e \in inflight \cup unannounced
        BY <1>3, <3>1, <3>2
      <3>4. evMedia'[f] = m
        BY <3>1 DEF Structure, TypeOK
      <3> QED
        BY <2>2, <3>3, <3>4, NullsAssumption
    <2>4. ASSUME NEW r \in Relays, RelayTimeout(r) PROVE Appended(e)'
      BY <1>3, <2>2, <2>4
         DEF RelayTimeout, Structure, TypeOK, RelaysAreSound
    <2>5. CASE inflight' \cup unannounced' \subseteq inflight \cup unannounced
      BY <1>3, <2>2, <2>5
    <2> QED
      BY <2>3, <2>4, <2>5
         DEF Next, ApiStep, RelayStep, RelayFault, WorkerStep, WorkerFault,
             QueueStep, vars, Remove, RelayClaim, RelayAdd, RelayCommit,
             RelayCrash, Take, StartProcessing, SkipJob, RecordAttempt,
             ProduceDerivatives, ProcessingFails, FinishProcessing,
             PersistFails, AnnounceReady, FailProcessing, AnnounceFailed,
             RecordRetry, StatementFails, JobCompletes, JobThrows,
             WorkerCrash, LoseLock, PublishQueued, LateAdd, BackoffElapses,
             EvictCompleted, RequeueStalled, FailStalled, FailAbandoned,
             AbandonLost
  <1>4. ASSUME NEW e \in abandoned' PROVE job'[e].st = "failed"
    <2>1. abandoned \in SUBSET Events
      BY DEF Structure, TypeOK
    <2>2. CASE e \in abandoned
      BY <1>1, <2>1, <2>2 DEF Structure, EventsAreBacked
    <2>3. ASSUME NEW f \in Events, FailStalled(f) PROVE job'[e].st = "failed"
      BY <1>4, <2>2, <2>3, JobMoved DEF FailStalled, SetJob
    <2>4. CASE abandoned' \subseteq abandoned
      BY <1>4, <2>2, <2>4
    <2> QED
      BY <2>3, <2>4
         DEF Next, ApiStep, RelayStep, RelayFault, WorkerStep, WorkerFault,
             QueueStep, vars, Complete, Retry, TransitionWithEvent, Remove,
             RelayClaim, RelayAdd, RelayCommit, RelayCrash, RelayTimeout,
             Take, StartProcessing, SkipJob, RecordAttempt,
             ProduceDerivatives, ProcessingFails, FinishProcessing,
             PersistFails, AnnounceReady, FailProcessing, AnnounceFailed,
             RecordRetry, StatementFails, JobCompletes, JobThrows,
             WorkerCrash, LoseLock, PublishQueued, LateAdd, BackoffElapses,
             EvictCompleted, RequeueStalled, FailAbandoned, AbandonLost
  <1>5. ASSUME NEW w \in Workers, run'[w].pc # "idle"
        PROVE  run'[w].job \in Events /\ job'[run'[w].job].st # "none"
    <2>1. CASE run[w].pc # "idle" /\ run'[w].job = run[w].job
      BY <1>1, <2>1 DEF Structure, EventsAreBacked
    <2>2. ASSUME NEW e \in Events, Take(w, e)
          PROVE  run'[w].job \in Events /\ job'[run'[w].job].st # "none"
      BY <1>1, <2>2, RunStarted DEF Take
    <2> QED
      BY <1>5, <2>1, <2>2, RunsAdvance DEF RunGoesForward
  <1> QED
    BY <1>2, <1>3, <1>4, <1>5 DEF EventsAreBacked


\* RelaysAreSound is inductive: one case per step of the relay.
LEMMA RelaysStaySound ==
  ASSUME Structure, [Next]_vars
  PROVE  RelaysAreSound'
  <1> USE DEF RelaysAreSound, BatchesAreExclusive, PublishedWasQueued, Queued,
              Appended
  <1>1. \A e \in Events :
            (Appended(e) => Appended(e)') /\ (Queued(e) => Queued(e)')
    BY JobsAdvance DEF JobsGoForward
  <1>2. /\ relay \in [Relays -> RelayTx] /\ published \in [Events -> BOOLEAN]
        /\ \A r \in Relays : relay[r].batch \in SUBSET Events
    BY DEF Structure, TypeOK, RelayTx
  <1>3. ASSUME NEW r \in Relays, RelayClaim(r) PROVE RelaysAreSound'
    <2>1. /\ \A e \in NextBatch : e \in Events /\ Appended(e) /\ ~published[e]
          /\ \A e \in NextBatch, s \in Relays : e \notin relay[s].batch
      BY DEF NextBatch, Claimable, Locked
    <2>2. /\ relay'[r].pc = "claimed" /\ relay'[r].batch = NextBatch
          /\ \A s \in Relays \ {r} : relay'[s] = relay[s]
          /\ UNCHANGED <<published, job, evMedia>>
      BY <1>2, <1>3 DEF RelayClaim
    <2> QED
      BY <1>1, <1>2, <2>1, <2>2 DEF Structure
  <1>4. ASSUME NEW r \in Relays, RelayAdd(r) PROVE RelaysAreSound'
    <2>1. /\ relay'[r].pc = "added" /\ relay'[r].batch = relay[r].batch
          /\ \A s \in Relays \ {r} : relay'[s] = relay[s]
          /\ UNCHANGED <<published, evMedia>>
      BY <1>2, <1>4 DEF RelayAdd
    <2>2. \A e \in relay[r].batch : job'[e].st # "none"
      BY <1>2, <1>4, JobsAdded DEF RelayAdd
    <2> QED
      BY <1>1, <1>2, <2>1, <2>2 DEF Structure
  <1>5. ASSUME NEW r \in Relays, RelayCommit(r) PROVE RelaysAreSound'
    <2>1. /\ relay'[r].pc = "idle" /\ relay'[r].batch = {}
          /\ \A s \in Relays \ {r} : relay'[s] = relay[s]
          /\ \A e \in Events :
                published'[e] = (published[e] \/ e \in relay[r].batch)
          /\ UNCHANGED <<evMedia, job>>
      BY <1>2, <1>5 DEF RelayCommit, NoTx
    <2> QED
      BY <1>2, <1>5, <2>1 DEF Structure, RelayCommit, BatchAdded
  <1>6. ASSUME NEW r \in Relays, RelayFault(r) PROVE RelaysAreSound'
    <2>1. /\ relay'[r].pc = "idle" /\ relay'[r].batch = {}
          /\ \A s \in Relays \ {r} : relay'[s] = relay[s]
          /\ UNCHANGED <<published, evMedia, job>>
      BY <1>2, <1>6 DEF RelayFault, RelayCrash, RelayTimeout, NoTx
    <2> QED
      BY <1>2, <2>1 DEF Structure
  <1>7. CASE UNCHANGED <<relay, published>>
    BY <1>1, <1>2, <1>7 DEF Structure
  <1> QED
    BY <1>3, <1>4, <1>5, <1>6, <1>7
       DEF Next, ApiStep, RelayStep, WorkerStep, WorkerFault, QueueStep, vars,
           Complete, Retry, TransitionWithEvent, Remove, Take,
           StartProcessing, SkipJob, RecordAttempt, ProduceDerivatives,
           ProcessingFails, FinishProcessing, PersistFails, AnnounceReady,
           FailProcessing, AnnounceFailed, RecordRetry, StatementFails,
           JobCompletes, JobThrows, WorkerCrash, LoseLock, PublishQueued,
           LateAdd, BackoffElapses, EvictCompleted, RequeueStalled,
           FailStalled, FailAbandoned, AbandonLost


\* The row of a run past recordAttempt.
LEMMA RowsStayHeld ==
  ASSUME Structure, [Next]_vars, NEW v \in Workers
  PROVE  RunIsSound(v)'
  <1> USE DEF RunIsSound
  <1>1. RunIsSound(v)
    BY DEF Structure, RunsAreSound
  <1>2. ASSUME NEW w \in Workers, NEW step, NEW i, NEW fatal,
               GotoWith(w, step, i, fatal),
               step \in {"work", "persist", "fail", "retry"} => i \in Rows
        PROVE  RunIsSound(v)'
    BY <1>1, <1>2, RunMoved
  <1>3. ASSUME NEW w \in Workers, EndRun(w) PROVE RunIsSound(v)'
    BY <1>1, <1>3, RunEnded
  <1>4. ASSUME NEW w \in Workers, NEW e \in Events, Take(w, e)
        PROVE  RunIsSound(v)'
    BY <1>1, <1>4, RunStarted
  <1>5. ASSUME NEW w \in Workers, WorkerStep(w) PROVE RunIsSound(v)'
    BY <1>2, <1>3, <1>5, RunFacts
       DEF WorkerStep, StartProcessing, SkipJob, RecordAttempt,
           ProduceDerivatives, ProcessingFails, Caught, FinishProcessing,
           PersistFails, AnnounceReady, FailProcessing, AnnounceFailed,
           RecordRetry, StatementFails, JobCompletes, JobThrows, Goto
  <1>6. ASSUME NEW w \in Workers, WorkerCrash(w) PROVE RunIsSound(v)'
    BY <1>3, <1>6 DEF WorkerCrash
  <1>7. CASE UNCHANGED run
    BY <1>1, <1>7
  <1> QED
    BY <1>4, <1>5, <1>6, <1>7
       DEF Next, ApiStep, RelayStep, RelayFault, WorkerFault, QueueStep, vars,
           Complete, Retry, TransitionWithEvent, Remove, RelayClaim, RelayAdd,
           RelayCommit, RelayCrash, RelayTimeout, LoseLock, PublishQueued,
           LateAdd, BackoffElapses, EvictCompleted, RequeueStalled,
           FailStalled, FailAbandoned, AbandonLost

\* The attempts and the lock of a job.
LEMMA JobsStaySound ==
  ASSUME Structure, [Next]_vars, NEW f \in Events
  PROVE  JobIsSound(f)'
  <1> USE NullsAssumption, BoundsAssumption DEF JobIsSound
  <1>1. /\ \A e \in Events : JobIsSound(e)
        /\ \A e \in Events : job[e].owner \in Workers \cup {NoWorker}
        /\ \A e \in Events : job[e].made \in 0..MaxAttempts
    BY DEF Structure, TypeOK, RunsAreSound, Job
  <1>2. ASSUME NEW ids \in SUBSET Events, AddJobs(ids), UNCHANGED run
        PROVE  JobIsSound(f)'
    <2>1. NewJob.st = "waiting" /\ NewJob.made = 0
      BY DEF NewJob
    <2> QED
      BY <1>1, <1>2, <2>1, JobsAdded
  <1>3. ASSUME NEW r \in Relays, RelayAdd(r) PROVE JobIsSound(f)'
    BY <1>2, <1>3 DEF RelayAdd, Structure, TypeOK, RelayTx
  <1>4. ASSUME NEW e \in Events, LateAdd(e) PROVE JobIsSound(f)'
    BY <1>2, <1>4 DEF LateAdd
  <1>5. ASSUME NEW w \in Workers, NEW e \in Events, Take(w, e)
        PROVE  JobIsSound(f)'
    <2>1. SetJob(e, "active", w) /\ run[w].pc = "idle" /\ job[e].st = "waiting"
      BY <1>5 DEF Take
    <2>2. CASE f = e
      <3>1. /\ job'[e].st = "active" /\ job'[e].owner = w
            /\ job'[e].made = job[e].made
            /\ job'[e].begun = (job[e].begun \/ "active" = "active")
        BY <2>1, JobMoved DEF SetJob
      <3>2. run'[w].pc = "start" /\ run'[w].job = e
        BY <1>5, RunStarted
      <3> QED
        BY <1>1, <2>1, <2>2, <3>1, <3>2
    <2>3. CASE f # e
      BY <1>1, <1>5, <2>1, <2>3, JobMoved, RunStarted DEF SetJob
    <2> QED
      BY <2>2, <2>3
  <1>6. ASSUME NEW w \in Workers, NEW step, NEW i, NEW fatal,
               GotoWith(w, step, i, fatal), step # "idle", UNCHANGED job
        PROVE  JobIsSound(f)'
    BY <1>1, <1>6, RunMoved
  <1>7. ASSUME NEW w \in Workers, run[w].pc # "idle", EndRun(w),
               \/ ~Holds(w) /\ UNCHANGED job
               \/ /\ Holds(w)
                  /\ \E st \in {"completed", "failed", "delayed", "active"} :
                     \E made \in {job[run[w].job].made,
                                 job[run[w].job].made + 1} :
                        /\ st \in {"delayed", "active"} => made < MaxAttempts
                        /\ MoveJob(run[w].job, st, NoWorker, made,
                                   job[run[w].job].stalls)
        PROVE  JobIsSound(f)'
    <2>1. run[w].job \in Events
      BY <1>7, RunFacts
    <2>2. CASE f = run[w].job /\ Holds(w)
      <3>1. PICK st \in {"completed", "failed", "delayed", "active"},
                 made \in {job[f].made, job[f].made + 1} :
               /\ st \in {"delayed", "active"} => made < MaxAttempts
               /\ MoveJob(f, st, NoWorker, made, job[f].stalls)
        BY <1>7, <2>2
      <3>2. /\ job'[f].st = st /\ job'[f].owner = NoWorker
            /\ job'[f].made = made
            /\ job'[f].begun = (job[f].begun \/ st = "active")
        BY <3>1, JobMoved
      <3> QED
        BY <3>1, <3>2
    <2>3. CASE ~(f = run[w].job /\ Holds(w))
      <3>1. job'[f] = job[f]
        BY <1>7, <2>1, <2>3, JobMoved
      <3>2. job[f].st = "active" => job[f].owner # w
        BY <1>1, <1>7, <2>3 DEF Holds
      <3> QED
        BY <1>1, <1>7, <3>1, <3>2, RunEnded
    <2> QED
      BY <2>2, <2>3
  <1>8. ASSUME NEW w \in Workers, JobCompletes(w) PROVE JobIsSound(f)'
    BY <1>7, <1>8 DEF JobCompletes, SetJob
  <1>9. ASSUME NEW w \in Workers, JobThrows(w) PROVE JobIsSound(f)'
    <2>1. run[w].job \in Events
      BY <1>9, RunFacts DEF JobThrows
    <2>2. ~(job[run[w].job].made + 1 >= MaxAttempts) =>
             job[run[w].job].made + 1 < MaxAttempts
      BY <1>1, <2>1
    <2> QED
      BY <1>7, <1>9, <2>2 DEF JobThrows, NoRetryLeft
  <1>10. ASSUME NEW w \in Workers, WorkerCrash(w) PROVE JobIsSound(f)'
    <2>1. Holds(w) => job[run[w].job].made < MaxAttempts
      BY <1>1, <1>10, RunFacts DEF WorkerCrash, Holds
    <2> QED
      BY <1>7, <1>10, <2>1 DEF WorkerCrash, SetJob
  <1>11. ASSUME NEW e \in Events, NEW st \in {"waiting", "active", "failed"},
                NEW stalls, job[e].st \in {"waiting", "delayed", "active"},
                MoveJob(e, st, NoWorker, job[e].made, stalls), UNCHANGED run
         PROVE  JobIsSound(f)'
    <2>1. /\ job'[e].st = st /\ job'[e].owner = NoWorker
          /\ job'[e].made = job[e].made
          /\ job'[e].begun = (job[e].begun \/ st = "active")
          /\ \A g \in Events \ {e} : job'[g] = job[g]
      BY <1>11, JobMoved
    <2>2. job[e].made < MaxAttempts
      BY <1>1, <1>11
    <2>3. CASE f = e
      BY <1>11, <2>1, <2>2, <2>3
    <2>4. CASE f # e
      BY <1>1, <1>11, <2>1, <2>4
    <2> QED
      BY <2>3, <2>4
  <1>12. ASSUME NEW w \in Workers, LoseLock(w) PROVE JobIsSound(f)'
    BY <1>11, <1>12, RunFacts DEF LoseLock, Holds, SetJob
  <1>13. ASSUME NEW e \in Events,
                BackoffElapses(e) \/ RequeueStalled(e) \/ FailStalled(e)
         PROVE  JobIsSound(f)'
    BY <1>11, <1>13
       DEF BackoffElapses, RequeueStalled, FailStalled, Stalled, SetJob
  <1>14. ASSUME NEW e \in Events, EvictCompleted(e) PROVE JobIsSound(f)'
    <2>1. job'[e] = LostJob /\ \A g \in Events \ {e} : job'[g] = job[g]
      BY <1>14 DEF EvictCompleted, Structure, TypeOK
    <2>2. LostJob.st = "gone"
      BY DEF LostJob
    <2> QED
      BY <1>1, <1>14, <2>1, <2>2 DEF EvictCompleted
  <1>15. ASSUME NEW w \in Workers, WorkerStep(w) PROVE JobIsSound(f)'
    BY <1>6, <1>8, <1>9, <1>15
       DEF WorkerStep, StartProcessing, SkipJob, RecordAttempt,
           ProduceDerivatives, ProcessingFails, Caught, FinishProcessing,
           PersistFails, AnnounceReady, FailProcessing, AnnounceFailed,
           RecordRetry, StatementFails, Goto
  <1>16. CASE UNCHANGED <<job, run>>
    BY <1>1, <1>16
  <1> QED
    BY <1>3, <1>4, <1>5, <1>10, <1>12, <1>13, <1>14, <1>15, <1>16
       DEF Next, ApiStep, RelayStep, RelayFault, WorkerFault, QueueStep, vars,
           Complete, Retry, TransitionWithEvent, Remove, RelayClaim,
           RelayCommit, RelayCrash, RelayTimeout, PublishQueued, FailAbandoned,
           AbandonLost

(***************************************************************************)
(* The structure of the pipeline holds in every behaviour.                 *)
(***************************************************************************)
\* The structure holds initially.
LEMMA StructureOfInit == Init => Structure
  <1> SUFFICES ASSUME Init PROVE Structure
    OBVIOUS
  <1>1. TypeOK
    BY TypeOfInit
  <1>2. /\ \A e \in Events : job[e].st = "none" /\ evMedia[e] = NoMedia
        /\ \A r \in Relays : relay[r].pc = "idle" /\ relay[r].batch = {}
        /\ \A w \in Workers : run[w].pc = "idle"
    BY DEF Init, NoJob, NoTx, NoRun
  <1>3. EventsAreBacked
    BY <1>2 DEF EventsAreBacked, Queued, Init
  <1>4. RelaysAreSound
    BY <1>2 DEF RelaysAreSound, BatchesAreExclusive, PublishedWasQueued, Init
  <1>5. RunsAreSound
    BY <1>2 DEF RunsAreSound, JobIsSound, RunIsSound
  <1> QED
    BY <1>1, <1>3, <1>4, <1>5 DEF Structure

\* Every reachable state is well formed: each variable has its type, every
\* event named by a job, a run, a relay or a pending notice is committed, no
\* two relay transactions share an event, and the holder of a job's lock is
\* running that job.
THEOREM StructureHolds == Spec => []Structure
  <1>1. Structure /\ [Next]_vars => Structure'
    BY TypeIsKept, EventsStayBacked, RelaysStaySound, RowsStayHeld,
       JobsStaySound DEF Structure, RunsAreSound
  <1> QED
    BY StructureOfInit, <1>1, PTL DEF Spec


\* The relay never skips an event: whatever is marked published has had its
\* job in the queue, through crashes, timeouts and competing relays.
THEOREM PublishedEventsWereQueued == Spec => []PublishedWasQueued
  <1>1. Structure => PublishedWasQueued
    BY DEF Structure, RelaysAreSound
  <1> QED
    BY <1>1, StructureHolds, PTL

\* SKIP LOCKED keeps the relays apart: no event is in two open transactions,
\* nor in one after it was marked published.
THEOREM BatchesStayExclusive == Spec => []BatchesAreExclusive
  <1>1. Structure => BatchesAreExclusive
    BY DEF Structure, RelaysAreSound
  <1> QED
    BY <1>1, StructureHolds, PTL

(***************************************************************************)
(* The pipeline implements the life cycle: every step of the API and of    *)
(* the workers is a declared transition, a removal, or changes nothing of  *)
(* media_assets.state and deleted_at.                                      *)
(***************************************************************************)
\* A run works on an asset.
LEMMA MediaOfRun ==
  ASSUME Structure, NEW w \in Workers, run[w].pc # "idle"
  PROVE  MediaOf(w) \in Media
  BY DEF MediaOf, Structure, TypeOK, EventsAreBacked, Queued, Appended

\* Each step is one of the abstract actions or leaves both variables alone.
LEMMA StepsFollowLifecycle ==
  ASSUME Structure, [Next]_vars
  PROVE  [Lifecycle!LifecycleNext]_(Lifecycle!lifecycle)
  <1> USE DEF Lifecycle!LifecycleNext, Lifecycle!lifecycle, Lifecycle!Move,
              Lifecycle!Discard, Lifecycle!MediaTransitions,
              Lifecycle!TransitionNames, Lifecycle!OpeningTransitions
  <1>1. mstate \in [Media -> MediaStates]
    BY DEF Structure, TypeOK
  <1>2. ASSUME NEW m \in Media, Complete(m) PROVE Lifecycle!LifecycleNext
    <2>1. Lifecycle!Move(m, "complete")
      BY <1>2 DEF Complete, TransitionWithEvent
    <2> QED
      BY <2>1
  <1>3. ASSUME NEW m \in Media, Retry(m) PROVE Lifecycle!LifecycleNext
    <2>1. Lifecycle!Move(m, "retry")
      BY <1>3 DEF Retry, TransitionWithEvent
    <2> QED
      BY <2>1
  <1>4. ASSUME NEW m \in Media, Remove(m) PROVE Lifecycle!LifecycleNext
    BY <1>4 DEF Remove
  <1>5. ASSUME NEW w \in Workers, StartProcessing(w)
        PROVE  Lifecycle!LifecycleNext \/ UNCHANGED <<mstate, deleted>>
    <2>1. MediaOf(w) \in Media
      BY <1>5, MediaOfRun DEF StartProcessing
    <2>2. CASE mstate[MediaOf(w)] = "uploaded"
      <3>1. Lifecycle!Move(MediaOf(w), "startProcessing")
        BY <1>5, <2>2 DEF StartProcessing, Startable
      <3> QED
        BY <2>1, <3>1
    <2>3. CASE mstate[MediaOf(w)] = "processing"
      BY <1>1, <1>5, <2>1, <2>3 DEF StartProcessing
    <2> QED
      BY <1>5, <2>2, <2>3 DEF StartProcessing, Startable, StartFrom
  <1>6. ASSUME NEW w \in Workers, FinishProcessing(w)
        PROVE  Lifecycle!LifecycleNext \/ UNCHANGED <<mstate, deleted>>
    <2>1. MediaOf(w) \in Media
      BY <1>6, MediaOfRun DEF FinishProcessing
    <2>2. CASE mstate[MediaOf(w)] = "processing"
      <3>1. Lifecycle!Move(MediaOf(w), "finish")
        BY <1>6, <2>2 DEF FinishProcessing, StillProcessing
      <3> QED
        BY <2>1, <3>1
    <2> QED
      BY <1>6, <2>2 DEF FinishProcessing, StillProcessing
  <1>7. ASSUME NEW w \in Workers, FailProcessing(w)
        PROVE  Lifecycle!LifecycleNext \/ UNCHANGED <<mstate, deleted>>
    <2>1. MediaOf(w) \in Media
      BY <1>7, MediaOfRun DEF FailProcessing
    <2>2. CASE mstate[MediaOf(w)] = "processing"
      <3>1. Lifecycle!Move(MediaOf(w), "fail")
        BY <1>7, <2>2 DEF FailProcessing, StillProcessing
      <3> QED
        BY <2>1, <3>1
    <2> QED
      BY <1>7, <2>2 DEF FailProcessing, StillProcessing
  <1>8. ASSUME NEW e \in Events, FailAbandoned(e)
        PROVE  Lifecycle!LifecycleNext \/ UNCHANGED <<mstate, deleted>>
    <2>1. evMedia[e] \in Media
      BY <1>8 DEF FailAbandoned, Structure, TypeOK, EventsAreBacked, Queued,
                  Appended
    <2>2. CASE mstate[evMedia[e]] = "processing"
      <3>1. Lifecycle!Move(evMedia[e], "fail")
        BY <1>8, <2>2 DEF FailAbandoned
      <3> QED
        BY <2>1, <3>1
    <2> QED
      BY <1>8, <2>2 DEF FailAbandoned
  <1>9. CASE UNCHANGED <<mstate, deleted>>
    BY <1>9
  <1> QED
    BY <1>2, <1>3, <1>4, <1>5, <1>6, <1>7, <1>8, <1>9
       DEF Next, ApiStep, RelayStep, RelayFault, WorkerStep, WorkerFault,
           QueueStep, vars, RelayClaim, RelayAdd, RelayCommit, RelayCrash,
           RelayTimeout, Take, SkipJob, RecordAttempt, ProduceDerivatives,
           ProcessingFails, PersistFails, AnnounceReady, AnnounceFailed,
           RecordRetry, StatementFails, JobCompletes, JobThrows, WorkerCrash,
           LoseLock, PublishQueued, LateAdd, BackoffElapses, EvictCompleted,
           RequeueStalled, FailStalled, AbandonLost

\* MediaPipeline implements MediaLifecycle for every number of workers, jobs
\* and retries, and whatever fails: no state is ever written except along
\* MEDIA_TRANSITIONS, and a removed asset never starts new work.
THEOREM PipelineFollowsLifecycle == Spec => FollowsLifecycle
  <1>1. Init => Lifecycle!LifecycleInit
    BY DEF Init, Lifecycle!LifecycleInit
  <1>2. Structure /\ [Next]_vars
           => [Lifecycle!LifecycleNext]_(Lifecycle!lifecycle)
    BY StepsFollowLifecycle
  <1> QED
    BY <1>1, <1>2, StructureHolds, PTL
       DEF Spec, FollowsLifecycle, Lifecycle!LifecycleSpec


(***************************************************************************)
(* Results: what is ready, announced or persisted is really there.         *)
(***************************************************************************)
\* A run changes only by a step of its own worker slot.
LEMMA OnlyItsStepsMoveARun ==
  ASSUME [Next]_vars, Structure, NEW v \in Workers, run'[v] # run[v]
  PROVE  WorkerStep(v) \/ WorkerCrash(v) \/ \E e \in Events : Take(v, e)
  <1>1. ASSUME NEW w \in Workers, NEW step, NEW i, NEW fatal,
               GotoWith(w, step, i, fatal)
        PROVE  w = v
    BY <1>1, RunMoved
  <1>2. ASSUME NEW w \in Workers, EndRun(w) PROVE w = v
    BY <1>2, RunEnded
  <1>3. ASSUME NEW w \in Workers, NEW e \in Events, Take(w, e) PROVE w = v
    BY <1>3, RunStarted
  <1>4. ASSUME NEW w \in Workers, WorkerStep(w) PROVE w = v
    BY <1>1, <1>2, <1>4
       DEF WorkerStep, StartProcessing, SkipJob, RecordAttempt,
           ProduceDerivatives, ProcessingFails, Caught, FinishProcessing,
           PersistFails, AnnounceReady, FailProcessing, AnnounceFailed,
           RecordRetry, StatementFails, JobCompletes, JobThrows, Goto
  <1>5. ASSUME NEW w \in Workers, WorkerCrash(w) PROVE w = v
    BY <1>2, <1>5 DEF WorkerCrash
  <1> QED
    BY <1>3, <1>4, <1>5
       DEF Next, ApiStep, RelayStep, RelayFault, WorkerFault, QueueStep, vars,
           Complete, Retry, TransitionWithEvent, Remove, RelayClaim, RelayAdd,
           RelayCommit, RelayCrash, RelayTimeout, LoseLock, PublishQueued,
           LateAdd, BackoffElapses, EvictCompleted, RequeueStalled,
           FailStalled, FailAbandoned, AbandonLost

\* No step leaves ready.
LEMMA ReadyIsFinal ==
  ASSUME Structure, [Next]_vars, NEW m \in Media, mstate[m] = "ready"
  PROVE  mstate'[m] = "ready"
  <1>1. mstate \in [Media -> MediaStates]
    BY DEF Structure, TypeOK
  <1> QED
    BY <1>1, StepsFollowLifecycle
       DEF Lifecycle!LifecycleNext, Lifecycle!lifecycle, Lifecycle!Move,
           Lifecycle!Discard, Lifecycle!MediaTransitions,
           Lifecycle!TransitionNames

\* Who writes the results, and in which order.
LEMMA ResultsAdvance ==
  ASSUME Structure, [Next]_vars, NEW m \in Media
  PROVE  /\ objects[m] => objects'[m]
         /\ derivatives[m] => derivatives'[m]
         /\ derivatives'[m] => \/ derivatives[m]
                               \/ \E w \in Workers : FinishProcessing(w)
                                                     /\ MediaOf(w) = m
         /\ mstate'[m] = "ready" => mstate[m] = "ready" \/ derivatives'[m]
         /\ announced'[m] = "ready" => \/ announced[m] = "ready"
                                       \/ \E w \in Workers : AnnounceReady(w)
                                                             /\ MediaOf(w) = m
  <1> DEFINE Goal ==
         /\ objects[m] => objects'[m]
         /\ derivatives[m] => derivatives'[m]
         /\ derivatives'[m] => \/ derivatives[m]
                               \/ \E w \in Workers : FinishProcessing(w)
                                                     /\ MediaOf(w) = m
         /\ mstate'[m] = "ready" => mstate[m] = "ready" \/ derivatives'[m]
         /\ announced'[m] = "ready" => \/ announced[m] = "ready"
                                       \/ \E w \in Workers : AnnounceReady(w)
                                                             /\ MediaOf(w) = m
  <1>1. /\ mstate \in [Media -> MediaStates]
        /\ objects \in [Media -> BOOLEAN]
        /\ derivatives \in [Media -> BOOLEAN]
        /\ announced \in [Media -> MediaStates \cup {"none"}]
    BY DEF Structure, TypeOK
  <1>2. ASSUME NEW w \in Workers, FinishProcessing(w) PROVE Goal
    BY <1>1, <1>2 DEF FinishProcessing
  <1>3. ASSUME NEW w \in Workers, AnnounceReady(w) PROVE Goal
    BY <1>1, <1>3 DEF AnnounceReady, Publish
  <1>4. ASSUME NEW w \in Workers, ProduceDerivatives(w) PROVE Goal
    BY <1>1, <1>4 DEF ProduceDerivatives
  <1>5. ASSUME UNCHANGED resultVars,
               mstate'[m] = "ready" => mstate[m] = "ready",
               announced'[m] = "ready" => announced[m] = "ready"
        PROVE  Goal
    BY <1>5
  <1>6. ASSUME NEW n \in Media, ApiStep(n) PROVE Goal
    BY <1>1, <1>5, <1>6
       DEF ApiStep, Complete, Retry, TransitionWithEvent, Remove
  <1>7. ASSUME NEW w \in Workers, StartProcessing(w) PROVE Goal
    BY <1>1, <1>5, <1>7 DEF StartProcessing
  <1>8. ASSUME NEW w \in Workers, RecordAttempt(w) PROVE Goal
    BY <1>1, <1>5, <1>8 DEF RecordAttempt, Publish
  <1>9. ASSUME NEW w \in Workers, FailProcessing(w) PROVE Goal
    BY <1>1, <1>5, <1>9 DEF FailProcessing
  <1>10. ASSUME NEW w \in Workers, AnnounceFailed(w) PROVE Goal
    BY <1>1, <1>5, <1>10 DEF AnnounceFailed, Publish
  <1>11. ASSUME NEW e \in Events, PublishQueued(e) PROVE Goal
    BY <1>1, <1>5, <1>11 DEF PublishQueued, Publish
  <1>12. ASSUME NEW e \in Events, FailAbandoned(e) PROVE Goal
    BY <1>1, <1>5, <1>12 DEF FailAbandoned, Publish
  <1>13. CASE UNCHANGED <<mstate, resultVars, announced>>
    BY <1>5, <1>13
  <1> QED
    BY <1>2, <1>3, <1>4, <1>6, <1>7, <1>8, <1>9, <1>10, <1>11, <1>12, <1>13
       DEF Next, RelayStep, RelayFault, WorkerStep, WorkerFault, QueueStep,
           vars, RelayClaim, RelayAdd, RelayCommit, RelayCrash, RelayTimeout,
           Take, SkipJob, ProcessingFails, PersistFails, RecordRetry,
           StatementFails, JobCompletes, JobThrows, WorkerCrash, LoseLock,
           LateAdd, BackoffElapses, EvictCompleted, RequeueStalled,
           FailStalled, AbandonLost

\* The asset a run works on does not change while it runs.
LEMMA MediaOfRunStays ==
  ASSUME Structure, [Next]_vars, NEW w \in Workers, run[w].pc # "idle",
         run'[w].job = run[w].job
  PROVE  MediaOf(w)' = MediaOf(w)
  <1>1. run[w].job \in Events /\ Appended(run[w].job)
    BY DEF Structure, EventsAreBacked
  <1> QED
    BY <1>1, JobsAdvance DEF JobsGoForward, MediaOf

\* What a run has produced is still there at its next step.
LEMMA RunResultsStay ==
  ASSUME Structure, ResultsAreSound, [Next]_vars, NEW w \in Workers
  PROVE  /\ run'[w].pc = "persist" => objects'[MediaOf(w)']
         /\ run'[w].pc = "announceReady" => mstate'[MediaOf(w)'] = "ready"
  <1> SUFFICES ASSUME run'[w].pc \in {"persist", "announceReady"}
               PROVE  /\ run'[w].pc = "persist" => objects'[MediaOf(w)']
                      /\ run'[w].pc = "announceReady" =>
                            mstate'[MediaOf(w)'] = "ready"
    OBVIOUS
  <1>1. ASSUME NEW e \in Events, Take(w, e) PROVE FALSE
    BY <1>1, RunStarted
  <1>2. run[w].pc # "idle" /\ run'[w].job = run[w].job
    BY <1>1, RunsAdvance DEF RunGoesForward
  <1>3. MediaOf(w)' = MediaOf(w) /\ MediaOf(w) \in Media
    BY <1>2, MediaOfRun, MediaOfRunStays
  <1>4. CASE run'[w] = run[w]
    BY <1>3, <1>4, ResultsAdvance, ReadyIsFinal DEF ResultsAreSound
  <1>5. CASE ProduceDerivatives(w)
    <2>1. run'[w].pc = "persist"
      BY <1>5, RunMoved DEF ProduceDerivatives, Goto
    <2>2. objects'[MediaOf(w)] = TRUE
      BY <1>3, <1>5 DEF ProduceDerivatives, Structure, TypeOK
    <2> QED
      BY <1>3, <2>1, <2>2
  <1>6. CASE FinishProcessing(w)
    <2>1. CASE mstate[MediaOf(w)] = "processing"
      <3>1. run'[w].pc = "announceReady"
        BY <1>6, <2>1, RunMoved DEF FinishProcessing, Goto
      <3>2. mstate'[MediaOf(w)] = "ready"
        BY <1>3, <1>6, <2>1
           DEF FinishProcessing, StillProcessing, Structure, TypeOK
      <3> QED
        BY <1>3, <3>1, <3>2
    <2>2. CASE mstate[MediaOf(w)] # "processing"
      BY <1>6, <2>2, RunMoved DEF FinishProcessing, StillProcessing, Goto
    <2> QED
      BY <2>1, <2>2
  <1>7. ASSUME NEW step, NEW i, NEW fatal, GotoWith(w, step, i, fatal),
               step \notin {"persist", "announceReady"}
        PROVE  FALSE
    BY <1>7, RunMoved
  <1>8. ASSUME EndRun(w) PROVE FALSE
    BY <1>8, RunEnded
  <1>9. ASSUME WorkerStep(w), ~ProduceDerivatives(w), ~FinishProcessing(w)
        PROVE  FALSE
    <2>1. ASSUME NEW fatal, Caught(w, fatal) PROVE FALSE
      BY <2>1, <1>7 DEF Caught
    <2>2. ASSUME NEW step \in RunSteps \ {"persist", "announceReady"},
                 Goto(w, step)
          PROVE  FALSE
      BY <1>7, <2>2 DEF Goto
    <2>3. CASE RecordAttempt(w)
      BY <1>7, <2>3 DEF RecordAttempt
    <2>4. CASE StatementFails(w)
      BY <1>7, <2>4 DEF StatementFails
    <2> QED
      BY <1>8, <1>9, <2>1, <2>2, <2>3, <2>4
         DEF WorkerStep, StartProcessing, SkipJob, ProcessingFails,
             PersistFails, AnnounceReady, FailProcessing, AnnounceFailed,
             RecordRetry, JobCompletes, JobThrows, RunSteps
  <1> QED
    BY <1>1, <1>4, <1>5, <1>6, <1>8, <1>9, OnlyItsStepsMoveARun
       DEF WorkerCrash

\* ResultsAreSound is inductive.
LEMMA ResultsStaySound ==
  ASSUME Structure, ResultsAreSound, [Next]_vars
  PROVE  ResultsAreSound'
  <1>1. ASSUME NEW m \in Media
        PROVE  /\ mstate'[m] = "ready" => derivatives'[m]
               /\ derivatives'[m] => objects'[m]
    <2>1. ASSUME NEW w \in Workers, FinishProcessing(w), MediaOf(w) = m
          PROVE  objects[m]
      BY <2>1 DEF FinishProcessing, ResultsAreSound
    <2> QED
      BY <2>1, ResultsAdvance DEF ResultsAreSound, ReadyIsServable
  <1>2. ASSUME NEW m \in Media, announced'[m] = "ready"
        PROVE  mstate'[m] = "ready"
    <2>1. ASSUME NEW w \in Workers, AnnounceReady(w), MediaOf(w) = m
          PROVE  mstate[m] = "ready"
      BY <2>1 DEF AnnounceReady, ResultsAreSound
    <2> QED
      BY <1>2, <2>1, ResultsAdvance, ReadyIsFinal
         DEF ResultsAreSound, AnnouncedReadyIsReady
  <1> QED
    BY <1>1, <1>2, RunResultsStay
       DEF ResultsAreSound, ReadyIsServable, AnnouncedReadyIsReady

\* The results are sound in every reachable state, whatever fails.
THEOREM ResultsHold == Spec => []ResultsAreSound
  <1>1. Init => ResultsAreSound
    BY DEF Init, NoRun, ResultsAreSound, ReadyIsServable,
           AnnouncedReadyIsReady
  <1>2. Structure /\ ResultsAreSound /\ [Next]_vars => ResultsAreSound'
    BY ResultsStaySound
  <1> QED
    BY <1>1, <1>2, StructureHolds, PTL DEF Spec

\* Every ready asset has derivative rows, and every derivative row has its
\* object, however many workers race on the asset and wherever they die.
THEOREM ReadyAssetsAreServable == Spec => []ReadyIsServable
  <1>1. ResultsAreSound => ReadyIsServable
    BY DEF ResultsAreSound
  <1> QED
    BY <1>1, ResultsHold, PTL

\* A page that is told "ready" finds a ready asset.
THEOREM AnnouncedReadyStaysReady == Spec => []AnnouncedReadyIsReady
  <1>1. ResultsAreSound => AnnouncedReadyIsReady
    BY DEF ResultsAreSound
  <1> QED
    BY <1>1, ResultsHold, PTL


(***************************************************************************)
(* No asset is forgotten, as long as no running worker loses its lock.     *)
(***************************************************************************)
\* Without lock loss, a job leaves its owner only when the run ends.
LEMMA LocksAreKept ==
  ASSUME Structure, [Next]_vars, "lock" \notin Faults,
         NEW e \in Events, NEW v \in Workers,
         job[e].st = "active", job[e].owner = v, run'[v].pc # "idle"
  PROVE  job'[e].st = "active" /\ job'[e].owner = v
  <1> DEFINE Kept == job'[e].st = "active" /\ job'[e].owner = v
  <1> USE NullsAssumption
  <1>1. ASSUME NEW ids \in SUBSET Events, AddJobs(ids) PROVE Kept
    BY <1>1, JobsAdded
  <1>2. ASSUME NEW f \in Events, f # e, NEW st, NEW owner, NEW made, NEW stalls,
               MoveJob(f, st, owner, made, stalls)
        PROVE  Kept
    BY <1>2, JobMoved
  <1>3. ASSUME NEW r \in Relays, RelayAdd(r) PROVE Kept
    BY <1>1, <1>3 DEF RelayAdd, Structure, TypeOK, RelayTx
  <1>4. ASSUME NEW f \in Events, LateAdd(f) PROVE Kept
    BY <1>1, <1>4 DEF LateAdd
  <1>5. ASSUME NEW w \in Workers, NEW f \in Events, Take(w, f) PROVE Kept
    BY <1>2, <1>5 DEF Take, SetJob
  <1>6. ASSUME NEW f \in Events,
               BackoffElapses(f) \/ RequeueStalled(f) \/ FailStalled(f)
        PROVE  Kept
    BY <1>2, <1>6 DEF BackoffElapses, RequeueStalled, FailStalled, Stalled,
                      SetJob
  <1>7. ASSUME NEW f \in Events, EvictCompleted(f) PROVE Kept
    BY <1>7 DEF EvictCompleted, Structure, TypeOK
  <1>8. ASSUME NEW w \in Workers, run[w].pc # "idle", EndRun(w), NEW st,
               NEW made, NEW stalls,
               \/ ~Holds(w) /\ UNCHANGED job
               \/ Holds(w) /\ MoveJob(run[w].job, st, NoWorker, made, stalls)
        PROVE  Kept
    <2>1. run[w].job \in Events /\ w # v
      BY <1>8, RunFacts, RunEnded
    <2> QED
      BY <1>2, <1>8, <2>1 DEF Holds
  <1>9. ASSUME NEW w \in Workers, JobCompletes(w) PROVE Kept
    BY <1>8, <1>9 DEF JobCompletes, SetJob
  <1>10. ASSUME NEW w \in Workers, JobThrows(w) PROVE Kept
    BY <1>8, <1>10 DEF JobThrows
  <1>11. ASSUME NEW w \in Workers, WorkerCrash(w) PROVE Kept
    BY <1>8, <1>11 DEF WorkerCrash, SetJob
  <1>12. CASE UNCHANGED job
    BY <1>12
  <1> QED
    BY <1>3, <1>4, <1>5, <1>6, <1>7, <1>9, <1>10, <1>11, <1>12
       DEF Next, ApiStep, RelayStep, RelayFault, WorkerStep, WorkerFault,
           QueueStep, vars, Complete, Retry, TransitionWithEvent, Remove,
           RelayClaim, RelayCommit, RelayCrash, RelayTimeout, LoseLock,
           StartProcessing, SkipJob, RecordAttempt, ProduceDerivatives,
           ProcessingFails, FinishProcessing, PersistFails, AnnounceReady,
           FailProcessing, AnnounceFailed, RecordRetry, StatementFails,
           PublishQueued, FailAbandoned, AbandonLost

\* RunsHoldTheirJobs is inductive when no lock is lost.
LEMMA RunsKeepHolding ==
  ASSUME Structure, RunsHoldTheirJobs, [Next]_vars, "lock" \notin Faults
  PROVE  RunsHoldTheirJobs'
  <1> SUFFICES ASSUME NEW w \in Workers, run'[w].pc # "idle"
               PROVE  /\ job'[run'[w].job].st = "active"
                      /\ job'[run'[w].job].owner = w
    BY DEF RunsHoldTheirJobs, Holds
  <1>1. ASSUME NEW e \in Events, Take(w, e)
        PROVE  job'[run'[w].job].st = "active" /\ job'[run'[w].job].owner = w
    BY <1>1, RunStarted, JobMoved DEF Take, SetJob
  <1>2. CASE run[w].pc # "idle" /\ run'[w].job = run[w].job
    BY <1>2, RunFacts, LocksAreKept DEF RunsHoldTheirJobs, Holds
  <1> QED
    BY <1>1, <1>2, RunsAdvance DEF RunGoesForward

\* A job that is not over and whose run, if any, is not about to complete it
\* is not over after the step either; who owns it then, took it or owned it.
LEMMA OutstandingStays ==
  ASSUME Structure, [Next]_vars, NEW e \in Events, Outstanding(e),
         At(e, RunSteps \ {"complete"})
  PROVE  /\ Outstanding(e)'
         /\ Queued(e) /\ job[e].begun => job'[e].begun
         /\ \A v \in Workers : job'[e].st = "active" /\ job'[e].owner = v =>
               \/ Take(v, e)
               \/ job[e].st = "active" /\ job[e].owner = v
  <1> DEFINE Stays ==
         /\ Outstanding(e)'
         /\ Queued(e) /\ job[e].begun => job'[e].begun
         /\ \A v \in Workers : job'[e].st = "active" /\ job'[e].owner = v =>
               \/ Take(v, e)
               \/ job[e].st = "active" /\ job[e].owner = v
  <1> USE NullsAssumption DEF Outstanding, Queued
  <1>1. ASSUME NEW ids \in SUBSET Events, AddJobs(ids) PROVE Stays
    <2>1. NewJob.st = "waiting"
      BY DEF NewJob
    <2> QED
      BY <1>1, <2>1, JobsAdded
  <1>2. ASSUME NEW f \in Events, f # e, NEW st, NEW owner, NEW made, NEW stalls,
               MoveJob(f, st, owner, made, stalls)
        PROVE  Stays
    BY <1>2, JobMoved
  <1>3. ASSUME NEW st \in {"waiting", "delayed", "active", "failed"}, NEW made,
               NEW stalls, MoveJob(e, st, NoWorker, made, stalls)
        PROVE  Stays
    <2>1. job'[e].st = st /\ job'[e].owner = NoWorker
      BY <1>3, JobMoved
    <2>2. job[e].begun => job'[e].begun
      BY <1>3, JobMoved
    <2> QED
      BY <2>1, <2>2
  <1>4. ASSUME NEW r \in Relays, RelayAdd(r) PROVE Stays
    BY <1>1, <1>4 DEF RelayAdd, Structure, TypeOK, RelayTx
  <1>5. ASSUME NEW f \in Events, LateAdd(f) PROVE Stays
    BY <1>1, <1>5 DEF LateAdd
  <1>6. ASSUME NEW w \in Workers, NEW f \in Events, Take(w, f) PROVE Stays
    <2>1. CASE f = e
      <3>1. job'[e].st = "active" /\ job'[e].owner = w
        BY <1>6, <2>1, JobMoved DEF Take, SetJob
      <3>2. job[e].begun => job'[e].begun
        BY <1>6, <2>1, JobMoved DEF Take, SetJob
      <3> QED
        BY <1>6, <2>1, <3>1, <3>2
    <2>2. CASE f # e
      BY <1>2, <1>6, <2>2 DEF Take, SetJob
    <2> QED
      BY <2>1, <2>2
  <1>7. ASSUME NEW f \in Events,
               BackoffElapses(f) \/ RequeueStalled(f) \/ FailStalled(f)
        PROVE  Stays
    <2>1. CASE f = e
      BY <1>3, <1>7, <2>1
         DEF BackoffElapses, RequeueStalled, FailStalled, SetJob
    <2>2. CASE f # e
      BY <1>2, <1>7, <2>2
         DEF BackoffElapses, RequeueStalled, FailStalled, SetJob
    <2> QED
      BY <2>1, <2>2
  <1>8. ASSUME NEW f \in Events, EvictCompleted(f) PROVE Stays
    BY <1>8 DEF EvictCompleted, Structure, TypeOK
  <1>9. ASSUME NEW w \in Workers, run[w].pc # "idle",
               NEW st \in {"delayed", "active", "failed"}, NEW made, NEW stalls,
               MoveJob(run[w].job, st, NoWorker, made, stalls)
        PROVE  Stays
    <2>1. run[w].job \in Events
      BY <1>9, RunFacts
    <2>2. CASE run[w].job = e
      BY <1>3, <1>9, <2>2
    <2>3. CASE run[w].job # e
      BY <1>2, <1>9, <2>1, <2>3
    <2> QED
      BY <2>2, <2>3
  <1>10. CASE UNCHANGED job
    BY <1>10
  <1>11. ASSUME NEW w \in Workers, JobCompletes(w) PROVE Stays
    <2>1. CASE ~Holds(w)
      BY <1>10, <1>11, <2>1 DEF JobCompletes
    <2>2. CASE Holds(w)
      <3>1. run[w].job \in Events /\ run[w].job # e
        BY <1>11, <2>2, RunFacts DEF JobCompletes, Holds, At
      <3> QED
        BY <1>2, <1>11, <2>2, <3>1 DEF JobCompletes, SetJob
    <2> QED
      BY <2>1, <2>2
  <1>12. ASSUME NEW w \in Workers, JobThrows(w) PROVE Stays
    BY <1>9, <1>10, <1>12 DEF JobThrows
  <1>13. ASSUME NEW w \in Workers, WorkerFault(w) PROVE Stays
    BY <1>9, <1>10, <1>13 DEF WorkerFault, WorkerCrash, LoseLock, SetJob
  <1> QED
    BY <1>4, <1>5, <1>6, <1>7, <1>8, <1>10, <1>11, <1>12, <1>13
       DEF Next, ApiStep, RelayStep, RelayFault, WorkerStep, QueueStep, vars,
           Complete, Retry, TransitionWithEvent, Remove, RelayClaim,
           RelayCommit, RelayCrash, RelayTimeout, StartProcessing, SkipJob,
           RecordAttempt, ProduceDerivatives, ProcessingFails,
           FinishProcessing, PersistFails, AnnounceReady, FailProcessing,
           AnnounceFailed, RecordRetry, StatementFails, PublishQueued,
           FailAbandoned, AbandonLost


\* Where the owner of a witness goes next, while its asset m is uploaded.
LEMMA StarterMovesOn ==
  ASSUME Structure, Structure', [Next]_vars, NEW v \in Workers,
         run[v].pc \in {"start", "throw"}, run'[v].pc # "idle",
         ~deleted[MediaOf(v)],
         mstate[MediaOf(v)] = "uploaded", mstate'[MediaOf(v)] = "uploaded"
  PROVE  run'[v].pc \in {"start", "throw"}
  <1>1. CASE run'[v] = run[v]
    BY <1>1
  <1>2. ASSUME NEW e \in Events, Take(v, e) PROVE FALSE
    BY <1>2 DEF Take
  <1>3. CASE WorkerCrash(v)
    BY <1>3, RunEnded DEF WorkerCrash
  <1>4. CASE StatementFails(v)
    BY <1>4, RunMoved DEF StatementFails
  <1>5. CASE JobThrows(v)
    BY <1>5, RunEnded DEF JobThrows
  <1>6. CASE StartProcessing(v)
    <2>1. MediaOf(v) \in Media
      BY MediaOfRun
    <2>2. mstate'[MediaOf(v)] = "processing"
      BY <1>6, <2>1 DEF StartProcessing, Structure, TypeOK
    <2> QED
      BY <2>2
  <1>7. CASE SkipJob(v)
    BY <1>7 DEF SkipJob, Startable, StartFrom
  <1> QED
    BY <1>1, <1>2, <1>3, <1>4, <1>5, <1>6, <1>7, OnlyItsStepsMoveARun
       DEF WorkerStep, RecordAttempt, ProduceDerivatives, ProcessingFails,
           FinishProcessing, PersistFails, AnnounceReady, FailProcessing,
           AnnounceFailed, RecordRetry, JobCompletes

FinishingSteps ==
  {"start", "record", "work", "persist", "fail", "retry", "throw"}

\* The same, while m is processing: the run keeps at it until it writes an end
\* state or throws.
LEMMA FinisherMovesOn ==
  ASSUME Structure, [Next]_vars, NEW v \in Workers,
         run[v].pc \in FinishingSteps, run[v].pc = "start" => run[v].resumed,
         run'[v].pc # "idle", ~deleted[MediaOf(v)],
         mstate[MediaOf(v)] = "processing", mstate'[MediaOf(v)] = "processing"
  PROVE  /\ run'[v].pc \in FinishingSteps
         /\ run'[v].pc = "start" => run'[v].resumed
  <1> DEFINE Goal == /\ run'[v].pc \in FinishingSteps
                     /\ run'[v].pc = "start" => run'[v].resumed
  <1> USE DEF FinishingSteps
  <1>1. CASE run'[v] = run[v]
    BY <1>1
  <1>2. ASSUME NEW e \in Events, Take(v, e) PROVE FALSE
    BY <1>2 DEF Take
  <1>3. ASSUME EndRun(v) PROVE FALSE
    BY <1>3, RunEnded
  <1>4. ASSUME NEW step \in {"record", "work", "persist", "fail", "retry",
                             "throw"},
               NEW i, NEW fatal, GotoWith(v, step, i, fatal)
        PROVE  Goal
    BY <1>4, RunMoved
  <1>5. CASE StartProcessing(v)
    BY <1>4, <1>5 DEF StartProcessing, Goto
  <1>6. CASE SkipJob(v)
    BY <1>6 DEF SkipJob, Startable, StartFrom
  <1>7. CASE RecordAttempt(v)
    BY <1>4, <1>7 DEF RecordAttempt
  <1>8. CASE ProduceDerivatives(v)
    BY <1>4, <1>8 DEF ProduceDerivatives, Goto
  <1>9. CASE ProcessingFails(v) \/ PersistFails(v)
    BY <1>4, <1>9 DEF ProcessingFails, PersistFails, Caught
  <1>10. MediaOf(v) \in Media
    BY MediaOfRun
  <1>11. CASE FinishProcessing(v)
    BY <1>10, <1>11 DEF FinishProcessing, StillProcessing, Structure, TypeOK
  <1>12. CASE FailProcessing(v)
    BY <1>10, <1>12 DEF FailProcessing, StillProcessing, Structure, TypeOK
  <1>13. CASE RecordRetry(v)
    BY <1>4, <1>13 DEF RecordRetry, Goto
  <1>14. CASE StatementFails(v)
    BY <1>4, <1>14 DEF StatementFails
  <1>15. CASE JobThrows(v) \/ WorkerCrash(v)
    BY <1>3, <1>15 DEF JobThrows, WorkerCrash
  <1> QED
    BY <1>1, <1>2, <1>5, <1>6, <1>7, <1>8, <1>9, <1>11, <1>12, <1>13, <1>14,
       <1>15, OnlyItsStepsMoveARun
       DEF WorkerStep, AnnounceReady, AnnounceFailed, JobCompletes

\* A step that opens no round for m and starts no run on it leaves its state,
\* or ends it, and spends none of its events.
LEMMA StateOfTheOthers ==
  ASSUME Structure, [Next]_vars, NEW m \in Media,
         ~Complete(m), ~Retry(m),
         \A w \in Workers : ~(StartProcessing(w) /\ MediaOf(w) = m)
  PROVE  /\ mstate'[m] = mstate[m] \/ mstate'[m] \in {"ready", "failed"}
         /\ deleted[m] => deleted'[m]
         /\ \A e \in Events :
               evMedia[e] = m /\ e \notin spent => e \notin spent'
  <1> DEFINE Goal ==
         /\ mstate'[m] = mstate[m] \/ mstate'[m] \in {"ready", "failed"}
         /\ deleted[m] => deleted'[m]
         /\ \A e \in Events :
               evMedia[e] = m /\ e \notin spent => e \notin spent'
  <1>1. /\ mstate \in [Media -> MediaStates]
        /\ deleted \in [Media -> BOOLEAN]
    BY DEF Structure, TypeOK
  <1>2. ASSUME NEW n \in Media, Complete(n) \/ Retry(n) PROVE Goal
    BY <1>1, <1>2 DEF Complete, Retry, TransitionWithEvent
  <1>3. ASSUME NEW n \in Media, Remove(n) PROVE Goal
    BY <1>1, <1>3 DEF Remove
  <1>4. ASSUME NEW w \in Workers, StartProcessing(w) PROVE Goal
    BY <1>1, <1>4 DEF StartProcessing
  <1>5. ASSUME NEW w \in Workers, FinishProcessing(w) PROVE Goal
    BY <1>1, <1>5 DEF FinishProcessing
  <1>6. ASSUME NEW w \in Workers, FailProcessing(w) PROVE Goal
    BY <1>1, <1>6 DEF FailProcessing
  <1>7. ASSUME NEW e \in Events, FailAbandoned(e) PROVE Goal
    BY <1>1, <1>7 DEF FailAbandoned
  <1>8. CASE UNCHANGED <<mstate, deleted, spent>>
    BY <1>8
  <1> QED
    BY <1>2, <1>3, <1>4, <1>5, <1>6, <1>7, <1>8
       DEF Next, ApiStep, RelayStep, RelayFault, WorkerStep, WorkerFault,
           QueueStep, vars, RelayClaim, RelayAdd, RelayCommit, RelayCrash,
           RelayTimeout, Take, SkipJob, RecordAttempt, ProduceDerivatives,
           ProcessingFails, PersistFails, AnnounceReady, AnnounceFailed,
           RecordRetry, StatementFails, JobCompletes, JobThrows, WorkerCrash,
           LoseLock, PublishQueued, LateAdd, BackoffElapses, EvictCompleted,
           RequeueStalled, FailStalled, AbandonLost

SpentHaveFailed == \A e \in spent : job[e].st = "failed"

\* A job that had failed when a retry began has failed for good.
LEMMA SpentStayFailed ==
  ASSUME Structure, SpentHaveFailed, [Next]_vars
  PROVE  SpentHaveFailed'
  <1>1. spent' \subseteq spent \cup {e \in Events : job[e].st = "failed"}
    BY DEF Next, ApiStep, RelayStep, RelayFault, WorkerStep, WorkerFault,
           QueueStep, vars, Complete, Retry, TransitionWithEvent, Remove,
           RelayClaim, RelayAdd, RelayCommit, RelayCrash, RelayTimeout, Take,
           StartProcessing, SkipJob, RecordAttempt, ProduceDerivatives,
           ProcessingFails, FinishProcessing, PersistFails, AnnounceReady,
           FailProcessing, AnnounceFailed, RecordRetry, StatementFails,
           JobCompletes, JobThrows, WorkerCrash, LoseLock, PublishQueued,
           LateAdd, BackoffElapses, EvictCompleted, RequeueStalled,
           FailStalled, FailAbandoned, AbandonLost
  <1>2. spent \in SUBSET Events
    BY DEF Structure, TypeOK
  <1> QED
    BY <1>1, <1>2, JobsAdvance DEF SpentHaveFailed, JobsGoForward

\* The event a transaction appends has no job yet, and is not spent.
LEMMA NewRoundCanStart ==
  ASSUME Structure, SpentHaveFailed, NEW m \in Media, Complete(m) \/ Retry(m)
  PROVE  mstate'[m] = "uploaded" /\ \E e \in Events : WillStart(m, e)'
  <1>1. mstate'[m] = "uploaded"
    BY DEF Complete, Retry, TransitionWithEvent, Structure, TypeOK
  <1>2. PICK e \in Events : NextEvent(e) /\ evMedia' = [evMedia EXCEPT ![e] = m]
    BY DEF Complete, Retry, TransitionWithEvent
  <1>3. job[e].st = "none"
    BY <1>2 DEF NextEvent, Structure, EventsAreBacked, Queued
  <1>4. /\ spent' = spent \cup
                      {f \in Events : evMedia[f] = m /\ job[f].st = "failed"}
        /\ job' = job
    BY DEF Complete, Retry, TransitionWithEvent
  <1>5. e \notin spent'
    BY <1>3, <1>4 DEF SpentHaveFailed
  <1>6. evMedia'[e] = m
    BY <1>2 DEF Structure, TypeOK
  <1>7. WillStart(m, e)'
    BY <1>3, <1>4, <1>5, <1>6 DEF WillStart, Outstanding, At
  <1> QED
    BY <1>1, <1>7

\* The run that takes an asset to processing is the one that will finish it.
LEMMA StartedRunWillFinish ==
  ASSUME Structure, RunsHoldTheirJobs, SpentHaveFailed, [Next]_vars,
         NEW w \in Workers, StartProcessing(w), NEW m \in Media, MediaOf(w) = m
  PROVE  \E e \in Events : WillFinish(m, e)'
  <1>0. PICK e \in Events : e = run[w].job
    BY RunFacts DEF StartProcessing
  <1>1. run[w].pc = "start" /\ evMedia[e] = m
    BY <1>0 DEF StartProcessing, MediaOf
  <1>2. job[e].st = "active" /\ job[e].owner = w /\ job[e].begun
    BY <1>0, <1>1
       DEF RunsHoldTheirJobs, Holds, Structure, RunsAreSound, JobIsSound
  <1>3. e \notin spent
    BY <1>2 DEF SpentHaveFailed
  <1>4. run'[w].pc = "record"
    BY RunMoved DEF StartProcessing, Goto
  <1>5. UNCHANGED <<job, evMedia, spent>>
    BY DEF StartProcessing
  <1>6. WillFinish(m, e)'
    BY <1>1, <1>2, <1>3, <1>4, <1>5
       DEF WillFinish, Queued, Outstanding, At
  <1> QED
    BY <1>6


RoundIsCarried(m) ==
  ~deleted[m] =>
     /\ mstate[m] = "uploaded" => \E e \in Events : WillStart(m, e)
     /\ mstate[m] = "processing" => \E e \in Events : WillFinish(m, e)

\* The round of every asset stays carried: by a new event, by the run that
\* starts, or by the witness it had.
LEMMA RoundsStayCarried ==
  ASSUME Structure, Structure', RunsHoldTheirJobs, SpentHaveFailed,
         [Next]_vars, NEW m \in Media, RoundIsCarried(m)
  PROVE  RoundIsCarried(m)'
  <1>1. CASE Complete(m) \/ Retry(m)
    BY <1>1, NewRoundCanStart DEF RoundIsCarried
  <1>2. ASSUME NEW w \in Workers, StartProcessing(w), MediaOf(w) = m
        PROVE  RoundIsCarried(m)'
    <2>1. mstate'[m] = "processing"
      BY <1>2 DEF StartProcessing, Structure, TypeOK
    <2> QED
      BY <1>2, <2>1, StartedRunWillFinish DEF RoundIsCarried
  <1>3. ASSUME ~Complete(m), ~Retry(m), ~deleted[m],
               \A w \in Workers : ~(StartProcessing(w) /\ MediaOf(w) = m),
               mstate[m] = "uploaded", mstate'[m] = "uploaded"
        PROVE  \E e \in Events : WillStart(m, e)'
    <2>1. PICK e \in Events : WillStart(m, e)
      BY <1>3 DEF RoundIsCarried
    <2>2. /\ evMedia[e] = m /\ e \notin spent /\ Outstanding(e)
          /\ At(e, {"start", "throw"})
      BY <2>1 DEF WillStart
    <2>3. evMedia'[e] = m /\ e \notin spent'
      BY <1>3, <2>2, StateOfTheOthers, JobsAdvance, NullsAssumption
         DEF JobsGoForward, Appended
    <2>4. /\ Outstanding(e)'
          /\ \A v \in Workers : job'[e].st = "active" /\ job'[e].owner = v =>
                Take(v, e) \/ (job[e].st = "active" /\ job[e].owner = v)
      BY <2>2, OutstandingStays, NullsAssumption DEF At, RunSteps
    <2>5. ASSUME NEW v \in Workers, job'[e].st = "active", job'[e].owner = v
          PROVE  run'[v].pc \in {"start", "throw"}
      <3>1. CASE Take(v, e)
        BY <3>1, RunStarted
      <3>2. CASE job[e].st = "active" /\ job[e].owner = v
        <4>1. run[v].pc \in {"start", "throw"} /\ MediaOf(v) = m
          BY <2>2, <3>2, NullsAssumption
             DEF At, MediaOf, Structure, RunsAreSound, JobIsSound
        <4>2. run'[v].pc # "idle"
          BY <2>5, NullsAssumption DEF Structure, RunsAreSound, JobIsSound
        <4> QED
          BY <1>3, <4>1, <4>2, StarterMovesOn
      <3> QED
        BY <2>4, <2>5, <3>1, <3>2
    <2>6. job'[e].owner \in Workers \cup {NoWorker}
      BY DEF Structure, TypeOK, Job
    <2>7. WillStart(m, e)'
      BY <2>3, <2>4, <2>5, <2>6 DEF WillStart, At
    <2> QED
      BY <2>7
  <1>4. ASSUME ~Complete(m), ~Retry(m), ~deleted[m],
               \A w \in Workers : ~(StartProcessing(w) /\ MediaOf(w) = m),
               mstate[m] = "processing", mstate'[m] = "processing"
        PROVE  \E e \in Events : WillFinish(m, e)'
    <2>1. PICK e \in Events : WillFinish(m, e)
      BY <1>4 DEF RoundIsCarried
    <2>2. /\ evMedia[e] = m /\ e \notin spent /\ Outstanding(e) /\ Queued(e)
          /\ job[e].begun
          /\ At(e, FinishingSteps)
          /\ job[e].st = "active" /\ job[e].owner # NoWorker =>
                (run[job[e].owner].pc = "start" => run[job[e].owner].resumed)
      BY <2>1 DEF WillFinish, FinishingSteps
    <2>3. evMedia'[e] = m /\ e \notin spent' /\ Queued(e)'
      BY <1>4, <2>2, StateOfTheOthers, JobsAdvance, NullsAssumption
         DEF JobsGoForward, Appended, Queued
    <2>4. /\ Outstanding(e)' /\ job'[e].begun
          /\ \A v \in Workers : job'[e].st = "active" /\ job'[e].owner = v =>
                Take(v, e) \/ (job[e].st = "active" /\ job[e].owner = v)
      BY <2>2, OutstandingStays, NullsAssumption
         DEF At, RunSteps, FinishingSteps
    <2>5. ASSUME NEW v \in Workers, job'[e].st = "active", job'[e].owner = v
          PROVE  /\ run'[v].pc \in FinishingSteps
                 /\ run'[v].pc = "start" => run'[v].resumed
      <3>1. CASE Take(v, e)
        BY <2>2, <3>1, RunStarted DEF FinishingSteps
      <3>2. CASE job[e].st = "active" /\ job[e].owner = v
        <4>1. /\ run[v].pc \in FinishingSteps /\ MediaOf(v) = m
              /\ run[v].pc = "start" => run[v].resumed
          BY <2>2, <3>2, NullsAssumption
             DEF At, MediaOf, Structure, RunsAreSound, JobIsSound
        <4>2. run'[v].pc # "idle"
          BY <2>5, NullsAssumption DEF Structure, RunsAreSound, JobIsSound
        <4> QED
          BY <1>4, <4>1, <4>2, FinisherMovesOn
      <3> QED
        BY <2>4, <2>5, <3>1, <3>2
    <2>6. job'[e].owner \in Workers \cup {NoWorker}
      BY DEF Structure, TypeOK, Job
    <2>7. WillFinish(m, e)'
      BY <2>3, <2>4, <2>5, <2>6 DEF WillFinish, At, FinishingSteps
    <2> QED
      BY <2>7
  <1> QED
    BY <1>1, <1>2, <1>3, <1>4, StateOfTheOthers DEF RoundIsCarried

\* RoundsAreCarried, asset by asset.
LEMMA RoundsAreCarriedByEach ==
  RoundsAreCarried <=> SpentHaveFailed /\ \A m \in Media : RoundIsCarried(m)
  BY DEF RoundsAreCarried, SpentHaveFailed, RoundIsCarried

\* Both witnesses are jobs that are not over.
LEMMA CarriedIsNotLost == RoundsAreCarried => NoSilentLoss
  BY DEF RoundsAreCarried, NoSilentLoss, InProgress, WillStart, WillFinish

\* RNF-6: whatever crashes and whichever statements fail, however often the
\* relay delivers an event twice and however many workers there are, an asset
\* in progress always has a job of its current round left: no job is lost.
\* The hypothesis is needed: with a worker that outlives its lock the
\* property is false: two runs of one job can steal each other's transitions.
THEOREM NothingIsLost == "lock" \notin Faults => (Spec => []NoSilentLoss)
  <1> SUFFICES ASSUME "lock" \notin Faults PROVE Spec => []NoSilentLoss
    OBVIOUS
  <1> USE DEF Carried
  <1>1. Init => Carried
    BY DEF Init, NoRun, RunsHoldTheirJobs, RoundsAreCarried
  <1>2. Structure /\ Structure' /\ Carried /\ [Next]_vars => Carried'
    <2> SUFFICES ASSUME Structure, Structure', Carried, [Next]_vars
                 PROVE  Carried'
      OBVIOUS
    <2>1. RunsHoldTheirJobs'
      BY RunsKeepHolding
    <2>2. SpentHaveFailed /\ \A m \in Media : RoundIsCarried(m)
      BY RoundsAreCarriedByEach
    <2>3. SpentHaveFailed'
      BY <2>2, SpentStayFailed
    <2>4. \A m \in Media : RoundIsCarried(m)'
      BY <2>2, RoundsStayCarried
    <2>5. RoundsAreCarried'
      BY <2>3, <2>4 DEF RoundsAreCarried, SpentHaveFailed, RoundIsCarried
    <2> QED
      BY <2>1, <2>5
  <1>3. Carried => NoSilentLoss
    BY CarriedIsNotLost
  <1> QED
    BY <1>1, <1>2, <1>3, StructureHolds, PTL DEF Spec

=============================================================================
