---------------------------- MODULE MediaPipeline ----------------------------
(***************************************************************************)
(* From a completed upload to a processed image: the API transactions that *)
(* change media_assets and append to outbox_events, the relay that moves   *)
(* events into the BullMQ queue, and the image workers that run the job.   *)
(*                                                                         *)
(* One action is one transaction, one Redis command or one stretch of code *)
(* between two awaits.  What is computed from the pixels is abstracted to  *)
(* its outcome: it succeeds, fails for good, or fails this time.           *)
(*                                                                         *)
(* BullMQ (external) is a record per job id: its state, the attempts it    *)
(* has used, how often it stalled, whether it ever started, and the worker *)
(* slot that holds its lock.  A slot can lose the lock and keep running.   *)
(***************************************************************************)
EXTENDS Naturals, FiniteSets

CONSTANTS
    Media,              \* asset ids
    NoMedia,            \* the asset of an event id not drawn yet
    Workers,            \* processing slots of the image workers
    NoWorker,           \* the owner of a job nobody holds
    Relays,             \* relay instances
    MaxEvents,          \* bound: outbox events (each retry appends one)
    MaxRows,            \* bound: media_jobs rows
    BatchSize,          \* events per relay transaction
    MaxAttempts,        \* PROCESS_JOB_OPTIONS.attempts
    MaxStalls,          \* BullMQ maxStalledCount
    Watched,            \* assets whose owner has the library open (SSE)
    Faults              \* the kinds of fault this instance admits

FaultKinds ==
    {"crash",           \* a process dies between two steps
     "lock",            \* a running worker loses the lock of its job
     "db",              \* a statement of the worker fails
     "redis"}           \* a relay batch is cut short, or lands late

Events == 1..MaxEvents
Rows == 1..MaxRows

ASSUME NullsAssumption == NoMedia \notin Media /\ NoWorker \notin Workers

ASSUME BoundsAssumption ==
    /\ MaxEvents \in Nat
    /\ MaxRows \in Nat
    /\ BatchSize \in Nat \ {0}
    /\ MaxAttempts \in Nat \ {0}
    /\ MaxStalls \in Nat
    /\ Watched \subseteq Media
    /\ Faults \subseteq FaultKinds

VARIABLES
    mstate,             \* media_assets.state
    deleted,            \* media_assets.deleted_at IS NOT NULL
    objects,            \* the derivative objects are in the media bucket
    derivatives,        \* the media_derivatives rows are written
    evMedia,            \* outbox_events: the asset of each event, by event id
    published,          \* outbox_events.published_at IS NOT NULL
    relay,              \* per relay: where its transaction is, and its rows
    inflight,           \* addBulk given up on that Redis may still execute
    job,                \* BullMQ, by event id (jobId = outbox-<id>)
    rows,               \* media_jobs, in insertion order
    run,                \* per worker slot: the processImage call it executes
    abandoned,          \* stalled-out jobs whose 'failed' listener is to run
    unannounced,        \* events whose 'queued' PUBLISH the API still owes
    announced,          \* state in the last event a watcher got, per asset
    spent               \* history: jobs already failed when a retry began

vars == <<mstate, deleted, objects, derivatives, evMedia, published, relay,
          inflight, job, rows, run, abandoned, unannounced, announced,
          spent>>

assetVars == <<mstate, deleted>>
resultVars == <<objects, derivatives>>
outboxVars == <<evMedia, published>>
relayVars == <<relay, inflight>>
workVars == <<rows, run>>
noticeVars == <<unannounced, announced, spent>>

(***************************************************************************)
(* Records                                                                 *)
(***************************************************************************)
MediaStates == {"pending", "uploaded", "processing", "ready", "failed"}
JobStates == {"none", "waiting", "delayed", "active", "completed", "failed",
              "gone"}
OpenRowStates == {"queued", "running"}
RowStates == OpenRowStates \cup {"none", "succeeded", "failed"}
RunSteps == {"idle", "start", "record", "work", "persist", "announceReady",
             "complete", "fail", "announceFailed", "retry", "throw"}

Job == [st : JobStates, made : 0..MaxAttempts, stalls : 0..MaxStalls,
        begun : BOOLEAN, owner : Workers \cup {NoWorker}]
Row == [media : Media \cup {NoMedia}, st : RowStates]
Run == [pc : RunSteps, job : Events \cup {0}, attempt : 0..MaxAttempts,
        resumed : BOOLEAN, row : Rows \cup {0}, fatal : BOOLEAN]
RelayTx == [pc : {"idle", "claimed", "added"}, batch : SUBSET Events]

NoJob == [st |-> "none", made |-> 0, stalls |-> 0, begun |-> FALSE,
          owner |-> NoWorker]
NewJob == [st |-> "waiting", made |-> 0, stalls |-> 0, begun |-> FALSE,
           owner |-> NoWorker]
LostJob == [st |-> "gone", made |-> 0, stalls |-> 0, begun |-> FALSE,
            owner |-> NoWorker]
NoRow == [media |-> NoMedia, st |-> "none"]
NoRun == [pc |-> "idle", job |-> 0, attempt |-> 0, resumed |-> FALSE,
          row |-> 0, fatal |-> FALSE]
NoTx == [pc |-> "idle", batch |-> {}]

TypeOK ==
    /\ mstate \in [Media -> MediaStates]
    /\ deleted \in [Media -> BOOLEAN]
    /\ objects \in [Media -> BOOLEAN]
    /\ derivatives \in [Media -> BOOLEAN]
    /\ evMedia \in [Events -> Media \cup {NoMedia}]
    /\ published \in [Events -> BOOLEAN]
    /\ relay \in [Relays -> RelayTx]
    /\ inflight \in SUBSET Events
    /\ job \in [Events -> Job]
    /\ rows \in [Rows -> Row]
    /\ run \in [Workers -> Run]
    /\ abandoned \in SUBSET Events
    /\ unannounced \in SUBSET Events
    /\ announced \in [Media -> MediaStates \cup {"none"}]
    /\ spent \in SUBSET Events

Init ==
    /\ mstate = [m \in Media |-> "pending"]
    /\ deleted = [m \in Media |-> FALSE]
    /\ objects = [m \in Media |-> FALSE]
    /\ derivatives = [m \in Media |-> FALSE]
    /\ evMedia = [e \in Events |-> NoMedia]
    /\ published = [e \in Events |-> FALSE]
    /\ relay = [r \in Relays |-> NoTx]
    /\ inflight = {}
    /\ job = [e \in Events |-> NoJob]
    /\ rows = [i \in Rows |-> NoRow]
    /\ run = [w \in Workers |-> NoRun]
    /\ abandoned = {}
    /\ unannounced = {}
    /\ announced = [m \in Media |-> "none"]
    /\ spent = {}

\* PUBLISH on the owner's channel: it reaches a watcher, or is lost (the send
\* failed and was logged, or nobody listens).
Publish(m, state) ==
    announced' \in {announced} \cup
        (IF m \in Watched THEN {[announced EXCEPT ![m] = state]} ELSE {})

(***************************************************************************)
(* API: one transaction each.  The event is written by the transaction     *)
(* that changes the state, so neither exists without the other.            *)
(***************************************************************************)
Appended(e) == evMedia[e] # NoMedia

\* The next value of the bigserial id.
NextEvent(e) == ~Appended(e) /\ \A f \in Events : f < e => Appended(f)

\* transitionMedia and appendOutboxEvent, in one transaction.
TransitionWithEvent(m, from, to) ==
    /\ ~deleted[m]
    /\ mstate[m] = from
    /\ mstate' = [mstate EXCEPT ![m] = to]
    /\ \E e \in Events :
          /\ NextEvent(e)
          /\ evMedia' = [evMedia EXCEPT ![e] = m]
          /\ unannounced' = unannounced \cup
                               (IF m \in Watched THEN {e} ELSE {})
    /\ spent' = spent \cup
                  {e \in Events : evMedia[e] = m /\ job[e].st = "failed"}
    /\ UNCHANGED <<deleted, resultVars, published, relayVars, job, workVars,
                   abandoned, announced>>

Complete(m) == TransitionWithEvent(m, "pending", "uploaded")

Retry(m) == TransitionWithEvent(m, "failed", "uploaded")

Remove(m) ==
    /\ ~deleted[m]
    /\ deleted' = [deleted EXCEPT ![m] = TRUE]
    /\ UNCHANGED <<mstate, resultVars, outboxVars, relayVars, job, workVars,
                   abandoned, noticeVars>>

\* publishQueued, some time after the commit, if the request lives that long.
PublishQueued(e) ==
    /\ e \in unannounced
    /\ unannounced' = unannounced \ {e}
    /\ Publish(evMedia[e], "uploaded")
    /\ UNCHANGED <<assetVars, resultVars, outboxVars, relayVars, job, workVars,
                   abandoned, spent>>

(***************************************************************************)
(* Relay: publishBatch is one transaction around one Redis command.        *)
(***************************************************************************)
HeldOrInFlight(e) == (\E r \in Relays : e \in relay[r].batch) \/ e \in inflight
NeverLocked(e) == FALSE

Locked(e) == \E r \in Relays : e \in relay[r].batch
Claimable == {e \in Events : Appended(e) /\ ~published[e] /\ ~Locked(e)}
NextBatch ==
    {e \in Claimable : Cardinality({f \in Claimable : f < e}) < BatchSize}

\* SELECT ... WHERE published_at IS NULL ORDER BY id LIMIT n
\* FOR UPDATE SKIP LOCKED
RelayClaim(r) ==
    /\ relay[r].pc = "idle"
    /\ NextBatch # {}
    /\ relay' = [relay EXCEPT ![r] = [pc |-> "claimed", batch |-> NextBatch]]
    /\ UNCHANGED <<assetVars, resultVars, outboxVars, inflight, job, workVars,
                   abandoned, noticeVars>>

\* BullMQ ignores the id of a job it still keeps, in any state.
AddJobs(ids) ==
    job' = [e \in Events |->
              IF e \in ids /\ job[e].st \in {"none", "gone"} THEN NewJob
                                                             ELSE job[e]]

RelayAdd(r) ==
    /\ relay[r].pc = "claimed"
    /\ AddJobs(relay[r].batch)
    /\ relay' = [relay EXCEPT ![r] = [pc |-> "added",
                                       batch |-> relay[r].batch]]
    /\ UNCHANGED <<assetVars, resultVars, outboxVars, inflight, workVars,
                   abandoned, noticeVars>>

BatchClaimed(r) == relay[r].pc # "idle"

\* The UPDATE comes after the await of addBulk.
BatchAdded(r) == relay[r].pc = "added"

RelayCommit(r) ==
    /\ BatchAdded(r)
    /\ published' = [e \in Events |-> published[e] \/ e \in relay[r].batch]
    /\ relay' = [relay EXCEPT ![r] = NoTx]
    /\ UNCHANGED <<assetVars, resultVars, evMedia, inflight, job, workVars,
                   abandoned, noticeVars>>

\* The process dies, or the connection to Postgres does: rollback.
RelayCrash(r) ==
    /\ "crash" \in Faults
    /\ relay[r].pc # "idle"
    /\ relay' = [relay EXCEPT ![r] = NoTx]
    /\ UNCHANGED <<assetVars, resultVars, outboxVars, inflight, job, workVars,
                   abandoned, noticeVars>>

\* withTimeout rejects: the transaction rolls back, but the command is still
\* with the Redis client.
RelayTimeout(r) ==
    /\ "redis" \in Faults
    /\ relay[r].pc = "claimed"
    /\ inflight' = inflight \cup relay[r].batch
    /\ relay' = [relay EXCEPT ![r] = NoTx]
    /\ UNCHANGED <<assetVars, resultVars, outboxVars, job, workVars, abandoned,
                   noticeVars>>

LateAdd(e) ==
    /\ e \in inflight
    /\ AddJobs({e})
    /\ inflight' = inflight \ {e}
    /\ UNCHANGED <<assetVars, resultVars, outboxVars, relay, workVars,
                   abandoned, noticeVars>>

(***************************************************************************)
(* Worker: the awaits of processImage, and what BullMQ does around them.   *)
(***************************************************************************)
MediaOf(w) == evMedia[run[w].job]

\* The run of w goes to a step, with a media_jobs row and a verdict.
GotoWith(w, step, i, fatal) ==
    run' = [run EXCEPT
              ![w] = [pc |-> step, job |-> run[w].job,
                      attempt |-> run[w].attempt, resumed |-> run[w].resumed,
                      row |-> i, fatal |-> fatal]]

Goto(w, step) == GotoWith(w, step, run[w].row, run[w].fatal)

EndRun(w) == run' = [run EXCEPT ![w] = NoRun]

\* Job e moves to a state and an owner, its counters as given.
MoveJob(e, st, owner, made, stalls) ==
    job' = [job EXCEPT
              ![e] = [st |-> st, made |-> made, stalls |-> stalls,
                      begun |-> job[e].begun \/ st = "active",
                      owner |-> owner]]

SetJob(e, st, owner) == MoveJob(e, st, owner, job[e].made, job[e].stalls)

\* Only the slot that still holds the lock moves the job on.
Holds(w) == job[run[w].job].st = "active" /\ job[run[w].job].owner = w

\* attemptsStarted counts the times the worker died, attemptsMade does not.
Resumed(e) == job[e].begun

\* moveToActive, and the JobAttempt the processor derives from the job.
Take(w, e) ==
    /\ run[w].pc = "idle"
    /\ job[e].st = "waiting"
    /\ SetJob(e, "active", w)
    /\ run' = [run EXCEPT
                 ![w] = [pc |-> "start", job |-> e, attempt |-> job[e].made + 1,
                         resumed |-> Resumed(e), row |-> 0, fatal |-> FALSE]]
    /\ UNCHANGED <<assetVars, resultVars, outboxVars, relayVars, rows,
                   abandoned, noticeVars>>

StartFromUploaded(w) == {"uploaded"}

\* The states startProcessing accepts.
StartFrom(w) ==
    IF run[w].resumed THEN {"uploaded", "processing"} ELSE {"uploaded"}

Startable(w) == ~deleted[MediaOf(w)] /\ mstate[MediaOf(w)] \in StartFrom(w)

StartProcessing(w) ==
    /\ run[w].pc = "start"
    /\ Startable(w)
    /\ mstate' = [mstate EXCEPT ![MediaOf(w)] = "processing"]
    /\ Goto(w, "record")
    /\ UNCHANGED <<deleted, resultVars, outboxVars, relayVars, job, rows,
                   abandoned, noticeVars>>

SkipJob(w) ==
    /\ run[w].pc = "start"
    /\ ~Startable(w)
    /\ Goto(w, "complete")
    /\ UNCHANGED <<assetVars, resultVars, outboxVars, relayVars, job, rows,
                   abandoned, noticeVars>>

OpenRows(m) == {i \in Rows : rows[i].media = m /\ rows[i].st \in OpenRowStates}

\* The row this run continues: the newest open one, only if it resumes.
Continued(w, i) ==
    /\ run[w].resumed
    /\ i \in OpenRows(MediaOf(w))
    /\ \A k \in OpenRows(MediaOf(w)) : k <= i

\* The row a run inserts when there is none to continue.
Inserted(w, i) ==
    /\ run[w].resumed => OpenRows(MediaOf(w)) = {}
    /\ rows[i].st = "none"
    /\ \A k \in Rows : k < i => rows[k].st # "none"

\* recordAttempt, the first progress event and mkdtemp: all before the try,
\* so a mkdtemp that fails goes straight back to BullMQ.
RecordAttempt(w) ==
    /\ run[w].pc = "record"
    /\ \E i \in Rows, next \in {"work"} \cup (IF "db" \in Faults THEN {"throw"}
                                                                 ELSE {}) :
          /\ Continued(w, i) \/ Inserted(w, i)
          /\ rows' = [rows EXCEPT ![i] = [media |-> MediaOf(w),
                                          st |-> "running"]]
          /\ GotoWith(w, next, i, FALSE)
    /\ Publish(MediaOf(w), "processing")
    /\ UNCHANGED <<assetVars, resultVars, outboxVars, relayVars, job,
                   abandoned, unannounced, spent>>

\* Download, sniff, encode, palette and uploadAll, all of it successful.
ProduceDerivatives(w) ==
    /\ run[w].pc = "work"
    /\ objects' = [objects EXCEPT ![MediaOf(w)] = TRUE]
    /\ Goto(w, "persist")
    /\ UNCHANGED <<assetVars, derivatives, outboxVars, relayVars, job, rows,
                   abandoned, noticeVars>>

\* The catch block decides from the kind of error and the attempt number.
Caught(w, fatal) ==
    GotoWith(w, IF fatal \/ run[w].attempt >= MaxAttempts THEN "fail"
                                                          ELSE "retry",
             run[w].row, fatal)

FailureIsSwallowed(w) ==
    /\ run[w].pc = "work"
    /\ Goto(w, "persist")
    /\ UNCHANGED <<assetVars, resultVars, outboxVars, relayVars, job, rows,
                   abandoned, noticeVars>>

ProcessingFails(w) ==
    /\ run[w].pc = "work"
    /\ \E fatal \in BOOLEAN : Caught(w, fatal)
    /\ UNCHANGED <<assetVars, resultVars, outboxVars, relayVars, job, rows,
                   abandoned, noticeVars>>

SetRow(i, st) ==
    rows' = [rows EXCEPT ![i] = [media |-> rows[i].media, st |-> st]]

NotReady(w) == mstate[MediaOf(w)] # "ready"

\* The WHERE of the two statements that end an asset.
StillProcessing(w) == mstate[MediaOf(w)] = "processing"

FinishAndAnnounce(w) ==
    /\ run[w].pc = "persist"
    /\ derivatives' = [derivatives EXCEPT ![MediaOf(w)] = TRUE]
    /\ mstate' = IF StillProcessing(w)
                 THEN [mstate EXCEPT ![MediaOf(w)] = "ready"] ELSE mstate
    /\ Goto(w, "announceReady")
    /\ SetRow(run[w].row, "succeeded")
    /\ UNCHANGED <<deleted, objects, outboxVars, relayVars, job, abandoned,
                   noticeVars>>

\* finishProcessing: rows, state and media_jobs in one transaction; the
\* derivatives and the job are written even when the state has moved on.
FinishProcessing(w) ==
    /\ run[w].pc = "persist"
    /\ derivatives' = [derivatives EXCEPT ![MediaOf(w)] = TRUE]
    /\ IF StillProcessing(w)
       THEN /\ mstate' = [mstate EXCEPT ![MediaOf(w)] = "ready"]
            /\ Goto(w, "announceReady")
       ELSE /\ Goto(w, "complete")
            /\ UNCHANGED mstate
    /\ SetRow(run[w].row, "succeeded")
    /\ UNCHANGED <<deleted, objects, outboxVars, relayVars, job, abandoned,
                   noticeVars>>

PersistFails(w) ==
    /\ "db" \in Faults
    /\ run[w].pc = "persist"
    /\ Caught(w, FALSE)
    /\ UNCHANGED <<assetVars, resultVars, outboxVars, relayVars, job, rows,
                   abandoned, noticeVars>>

\* events.final, after the commit.
AnnounceReady(w) ==
    /\ run[w].pc = "announceReady"
    /\ Publish(MediaOf(w), "ready")
    /\ Goto(w, "complete")
    /\ UNCHANGED <<assetVars, resultVars, outboxVars, relayVars, job, rows,
                   abandoned, unannounced, spent>>

\* failProcessing with the job row in hand.
FailProcessing(w) ==
    /\ run[w].pc = "fail"
    /\ IF StillProcessing(w)
       THEN mstate' = [mstate EXCEPT ![MediaOf(w)] = "failed"]
       ELSE UNCHANGED mstate
    /\ SetRow(run[w].row, "failed")
    /\ Goto(w, "announceFailed")
    /\ UNCHANGED <<deleted, resultVars, outboxVars, relayVars, job, abandoned,
                   noticeVars>>

\* Published whether or not the transition happened.
AnnounceFailed(w) ==
    /\ run[w].pc = "announceFailed"
    /\ Publish(MediaOf(w), "failed")
    /\ Goto(w, "throw")
    /\ UNCHANGED <<assetVars, resultVars, outboxVars, relayVars, job, rows,
                   abandoned, unannounced, spent>>

RecordRetry(w) ==
    /\ run[w].pc = "retry"
    /\ SetRow(run[w].row, "queued")
    /\ Goto(w, "throw")
    /\ UNCHANGED <<assetVars, resultVars, outboxVars, relayVars, job,
                   abandoned, noticeVars>>

\* A statement outside the try, or one of the catch block itself, fails: the
\* error that reaches BullMQ is the driver's, never an UnrecoverableError.
StatementFails(w) ==
    /\ "db" \in Faults
    /\ run[w].pc \in {"start", "record", "fail", "retry"}
    /\ GotoWith(w, "throw", run[w].row, FALSE)
    /\ UNCHANGED <<assetVars, resultVars, outboxVars, relayVars, job, rows,
                   abandoned, noticeVars>>

\* moveToCompleted.
JobCompletes(w) ==
    /\ run[w].pc = "complete"
    /\ IF Holds(w) THEN SetJob(run[w].job, "completed", NoWorker)
                   ELSE UNCHANGED job
    /\ EndRun(w)
    /\ UNCHANGED <<assetVars, resultVars, outboxVars, relayVars, rows,
                   abandoned, noticeVars>>

OneTooMany(w) ==
    run[w].fatal \/ job[run[w].job].made + 1 > MaxAttempts

\* UnrecoverableError, or the attempts are used up.
NoRetryLeft(w) ==
    run[w].fatal \/ job[run[w].job].made + 1 >= MaxAttempts

\* moveToFailed, or back to the queue after the backoff.
JobThrows(w) ==
    /\ run[w].pc = "throw"
    /\ IF Holds(w)
       THEN MoveJob(run[w].job, IF NoRetryLeft(w) THEN "failed" ELSE "delayed",
                    NoWorker, job[run[w].job].made + 1, job[run[w].job].stalls)
       ELSE UNCHANGED job
    /\ EndRun(w)
    /\ UNCHANGED <<assetVars, resultVars, outboxVars, relayVars, rows,
                   abandoned, noticeVars>>

BackoffElapses(e) ==
    /\ job[e].st = "delayed"
    /\ SetJob(e, "waiting", NoWorker)
    /\ UNCHANGED <<assetVars, resultVars, outboxVars, relayVars, workVars,
                   abandoned, noticeVars>>

\* removeOnComplete: BullMQ forgets the job, and with it the id.
EvictCompleted(e) ==
    /\ job[e].st = "completed"
    /\ job' = [job EXCEPT ![e] = LostJob]
    /\ UNCHANGED <<assetVars, resultVars, outboxVars, relayVars, workVars,
                   abandoned, noticeVars>>

(***************************************************************************)
(* Worker faults, and how BullMQ and main.ts recover                       *)
(***************************************************************************)
WorkerCrash(w) ==
    /\ "crash" \in Faults
    /\ run[w].pc # "idle"
    /\ IF Holds(w) THEN SetJob(run[w].job, "active", NoWorker)
                   ELSE UNCHANGED job
    /\ EndRun(w)
    /\ UNCHANGED <<assetVars, resultVars, outboxVars, relayVars, rows,
                   abandoned, noticeVars>>

\* The lock is not renewed in time, and the run goes on without it.
LoseLock(w) ==
    /\ "lock" \in Faults
    /\ run[w].pc # "idle"
    /\ Holds(w)
    /\ SetJob(run[w].job, "active", NoWorker)
    /\ UNCHANGED <<assetVars, resultVars, outboxVars, relayVars, workVars,
                   abandoned, noticeVars>>

Stalled(e) == job[e].st = "active" /\ job[e].owner = NoWorker

RequeueStalled(e) ==
    /\ Stalled(e)
    /\ job[e].stalls < MaxStalls
    /\ MoveJob(e, "waiting", NoWorker, job[e].made, job[e].stalls + 1)
    /\ UNCHANGED <<assetVars, resultVars, outboxVars, relayVars, workVars,
                   abandoned, noticeVars>>

\* "job stalled more than allowable limit": fails without running, and the
\* 'failed' listener of a live worker is left to call failAbandoned.
FailStalled(e) ==
    /\ Stalled(e)
    /\ job[e].stalls = MaxStalls
    /\ SetJob(e, "failed", NoWorker)
    /\ abandoned' = abandoned \cup {e}
    /\ UNCHANGED <<assetVars, resultVars, outboxVars, relayVars, workVars,
                   noticeVars>>

\* failProcessing without a row in hand: closes whatever is open.
FailAbandoned(e) ==
    /\ e \in abandoned
    /\ LET m == evMedia[e]
       IN  /\ IF mstate[m] = "processing"
              THEN /\ mstate' = [mstate EXCEPT ![m] = "failed"]
                   /\ Publish(m, "failed")
              ELSE UNCHANGED <<mstate, announced>>
           /\ rows' = [i \in Rows |->
                         IF i \in OpenRows(m)
                         THEN [media |-> m, st |-> "failed"] ELSE rows[i]]
    /\ abandoned' = abandoned \ {e}
    /\ UNCHANGED <<deleted, resultVars, outboxVars, relayVars, job, run,
                   unannounced, spent>>

\* The listener's process dies first, or its transaction fails and is logged.
AbandonLost(e) ==
    /\ Faults \cap {"crash", "db"} # {}
    /\ e \in abandoned
    /\ abandoned' = abandoned \ {e}
    /\ UNCHANGED <<assetVars, resultVars, outboxVars, relayVars, job, workVars,
                   noticeVars>>

(***************************************************************************)
(* Specification                                                           *)
(***************************************************************************)
ApiStep(m) == Complete(m) \/ Retry(m) \/ Remove(m)

RelayStep(r) == RelayClaim(r) \/ RelayAdd(r) \/ RelayCommit(r)

RelayFault(r) == RelayCrash(r) \/ RelayTimeout(r)

WorkerStep(w) ==
    \/ StartProcessing(w) \/ SkipJob(w) \/ RecordAttempt(w)
    \/ ProduceDerivatives(w) \/ ProcessingFails(w)
    \/ FinishProcessing(w) \/ PersistFails(w) \/ AnnounceReady(w)
    \/ FailProcessing(w) \/ AnnounceFailed(w) \/ RecordRetry(w)
    \/ StatementFails(w) \/ JobCompletes(w) \/ JobThrows(w)

WorkerFault(w) == WorkerCrash(w) \/ LoseLock(w)

QueueStep(e) ==
    \/ PublishQueued(e) \/ LateAdd(e) \/ BackoffElapses(e) \/ EvictCompleted(e)
    \/ RequeueStalled(e) \/ FailStalled(e)
    \/ FailAbandoned(e) \/ AbandonLost(e)

Next ==
    \/ \E m \in Media : ApiStep(m)
    \/ \E r \in Relays : RelayStep(r) \/ RelayFault(r)
    \/ \E w \in Workers, e \in Events : Take(w, e)
    \/ \E w \in Workers : WorkerStep(w) \/ WorkerFault(w)
    \/ \E e \in Events : QueueStep(e)

Spec == Init /\ [][Next]_vars

\* Every step of the code that waits for nobody is eventually taken, and the
\* 5 s poll brings the relay back until a batch goes through.  Nothing is
\* assumed of the API's callers, nor of when BullMQ forgets a finished job.
Fairness ==
    /\ \A r \in Relays : /\ WF_vars(RelayClaim(r))
                         /\ SF_vars(RelayAdd(r))
                         /\ SF_vars(RelayCommit(r))
    /\ \A e \in Events : /\ WF_vars(\E w \in Workers : Take(w, e))
                         /\ WF_vars(BackoffElapses(e))
                         /\ WF_vars(RequeueStalled(e) \/ FailStalled(e))
                         /\ WF_vars(FailAbandoned(e))
    /\ \A w \in Workers : WF_vars(WorkerStep(w))

FairSpec == Spec /\ Fairness

(***************************************************************************)
(* Properties                                                              *)
(***************************************************************************)
Lifecycle == INSTANCE MediaLifecycle

\* Whatever the API, the relay and the workers do to a row, in any order and
\* through any fault, its state moves only along MEDIA_TRANSITIONS, no work
\* is opened on a removed asset and a removal is never undone.
FollowsLifecycle == Lifecycle!LifecycleSpec

InProgress(m) == mstate[m] \in {"uploaded", "processing"} /\ ~deleted[m]

\* The job of the event is not over: it has yet to be added (an event without
\* a job is unpublished), or is in the queue, or sits in BullMQ's failed set.
Outstanding(e) == job[e].st \notin {"completed", "gone"}

\* No asset in progress is forgotten: a job of its current round is still to
\* run, or failed in this round and can be found.  Holds through duplicate
\* deliveries, crashes and failing statements, as long as no running worker
\* loses the lock of its job (RNF-6).
NoSilentLoss ==
    \A m \in Media : InProgress(m) =>
        \E e \in Events \ spent : evMedia[e] = m /\ Outstanding(e)

\* A ready asset can be served, and no media_derivatives row points at an
\* object that was not uploaded (finishProcessing runs after uploadAll).
ReadyIsServable ==
    \A m \in Media :
        /\ mstate[m] = "ready" => derivatives[m]
        /\ derivatives[m] => objects[m]

\* An event is marked published only once BullMQ has had its job: neither a
\* crash, a timeout nor a second relay can skip one (ADR-4).
PublishedWasQueued == \A e \in Events : published[e] => job[e].st # "none"

\* SKIP LOCKED: two relay transactions never hold the same event, and what
\* one holds is not yet published.
BatchesAreExclusive ==
    \A r \in Relays : \A e \in relay[r].batch :
        /\ ~published[e]
        /\ \A s \in Relays \ {r} : e \notin relay[s].batch

\* A "ready" event is only ever sent for an asset that is ready, so the page
\* that fetches it finds its derivatives (the publish follows the commit).
AnnouncedReadyIsReady ==
    \A m \in Media : announced[m] = "ready" => mstate[m] = "ready"

\* RF-MP-8: once the attempts of every job of an asset are used up and no
\* callback is left to run, the asset is not still in progress.
ExhaustedIsFailed ==
    \A m \in Media : InProgress(m) =>
        \E e \in Events :
            /\ evMedia[e] = m
            /\ e \in abandoned \/ job[e].st \notin {"completed", "gone", "failed"}

\* Every event the API commits is eventually published.
EventsArePublished ==
    \A e \in Events : (evMedia[e] # NoMedia) ~> published[e]

Settled(m) == mstate[m] \in {"ready", "failed"} \/ deleted[m]

\* A job of the current round is in the failed set of BullMQ.
DeadJob(m) == \E e \in Events \ spent : evMedia[e] = m /\ job[e].st = "failed"

\* Every upload ends, the first time and after each retry: the asset becomes
\* ready or failed, or is removed, or a dead job is left for it.
UploadsSettle ==
    \A m \in Media : (mstate[m] = "uploaded") ~> (Settled(m) \/ DeadJob(m))

(***************************************************************************)
(* Inductive invariants: what a step may rely on.  The properties above    *)
(* follow from them (MediaPipelineProofs).                                 *)
(***************************************************************************)
Queued(e) == job[e].st # "none"

\* Whatever names an event names a committed one, and whatever happens after
\* addBulk happens to an id that BullMQ has seen.
EventsAreBacked ==
    /\ \A e \in Events : Queued(e) => Appended(e)
    /\ \A e \in inflight \cup unannounced : Appended(e)
    /\ \A e \in abandoned : job[e].st = "failed"
    /\ \A w \in Workers : run[w].pc # "idle" =>
           run[w].job \in Events /\ Queued(run[w].job)

\* What a relay transaction holds, at each of its steps.
RelaysAreSound ==
    /\ BatchesAreExclusive
    /\ \A r \in Relays :
           /\ relay[r].pc = "idle" => relay[r].batch = {}
           /\ \A e \in relay[r].batch : Appended(e)
           /\ relay[r].pc = "added" => \A e \in relay[r].batch : Queued(e)
    /\ PublishedWasQueued

\* A job that can still run has an attempt left; the holder of its lock is
\* running it.
JobIsSound(e) ==
    /\ job[e].st \in {"waiting", "delayed", "active"} =>
          job[e].made < MaxAttempts
    /\ job[e].st = "active" => job[e].begun
    /\ job[e].st = "active" /\ job[e].owner # NoWorker =>
          run[job[e].owner].pc # "idle" /\ run[job[e].owner].job = e

\* A run past recordAttempt has its media_jobs row.
RunIsSound(w) ==
    run[w].pc \in {"work", "persist", "fail", "retry"} => run[w].row \in Rows

RunsAreSound ==
    (\A e \in Events : JobIsSound(e)) /\ (\A w \in Workers : RunIsSound(w))

Structure == TypeOK /\ EventsAreBacked /\ RelaysAreSound /\ RunsAreSound

\* The results a run has produced when it reaches a step.
ResultsAreSound ==
    /\ ReadyIsServable
    /\ AnnouncedReadyIsReady
    /\ \A w \in Workers :
           /\ run[w].pc = "persist" => objects[MediaOf(w)]
           /\ run[w].pc = "announceReady" => mstate[MediaOf(w)] = "ready"

\* Without lock loss every run holds its job.
RunsHoldTheirJobs == \A w \in Workers : run[w].pc # "idle" => Holds(w)

\* The run of the job, if any, is at one of these steps.
At(e, steps) ==
    job[e].st = "active" /\ job[e].owner # NoWorker =>
        run[job[e].owner].pc \in steps

\* e will take an uploaded asset m to processing, or die trying.
WillStart(m, e) ==
    /\ evMedia[e] = m /\ e \notin spent /\ Outstanding(e)
    /\ At(e, {"start", "throw"})

\* e took m to processing and will take it out, or die trying.
WillFinish(m, e) ==
    /\ evMedia[e] = m /\ e \notin spent /\ Queued(e) /\ Outstanding(e)
    /\ job[e].begun
    /\ At(e, {"start", "record", "work", "persist", "fail", "retry", "throw"})
    /\ job[e].st = "active" /\ job[e].owner # NoWorker =>
          (run[job[e].owner].pc = "start" => run[job[e].owner].resumed)

\* Every round is carried: a retried job is over for good, and an asset in
\* progress has a job that will take it on.
RoundsAreCarried ==
    /\ \A e \in spent : job[e].st = "failed"
    /\ \A m \in Media : ~deleted[m] =>
          /\ mstate[m] = "uploaded" => \E e \in Events : WillStart(m, e)
          /\ mstate[m] = "processing" => \E e \in Events : WillFinish(m, e)

\* What NoSilentLoss needs to be inductive, on top of Structure.
Carried == RunsHoldTheirJobs /\ RoundsAreCarried
=============================================================================
