---------------------------- MODULE UploadSession ----------------------------
(***************************************************************************)
(* How a file of one user becomes an original in the storage: createUpload *)
(* opens an S3 multipart upload and inserts a pending row, the browser     *)
(* sends parts through presigned URLs, complete closes the multipart and   *)
(* moves the row to uploaded under a row lock, and the garbage collector   *)
(* of the relay removes what was abandoned.                                *)
(*                                                                         *)
(* Postgres and S3 share no transaction.  One action is one statement, one *)
(* S3 call or one commit, and a process can die or a call fail between any *)
(* two of them.  S3 (external) is one multipart upload and one object per  *)
(* media id.  What follows "uploaded" is MediaPipeline's.                  *)
(***************************************************************************)
EXTENDS FiniteSets

CONSTANTS
    Files,              \* sha256 digests of the files the user uploads
    NoFile,
    Assets,             \* media ids, in the order createUpload draws them
    NoAsset,
    Requests,           \* requests the API can be serving at once
    Faults              \* the kinds of fault this instance admits

FaultKinds ==
    {"crash",           \* an API or relay process dies between two steps
     "db",              \* a statement or a commit fails
     "storage",         \* an S3 call fails or times out, done or not
     "expiry"}          \* S3 drops a multipart upload by itself

ASSUME NullsAssumption == NoFile \notin Files /\ NoAsset \notin Assets

ASSUME FaultsAssumption == Faults \subseteq FaultKinds

VARIABLES
    row,                \* the row of media_assets, by media id
    file,               \* media_assets.sha256
    deleted,            \* media_assets.deleted_at IS NOT NULL
    stale,              \* created_at is more than 24 h ago
    multipart,          \* S3: the multipart upload
    parts,              \* S3: what its parts add up to
    object,             \* S3: the object in the originals bucket
    handed,             \* media ids whose presigned URLs a browser has
    late,               \* CompleteMultipartUpload given up on, still on its way
    req,                \* per request: what it is doing
    gc                  \* the run of gcPendingUploads

vars == <<row, file, deleted, stale, multipart, parts, object, handed, late,
          req, gc>>

tableVars == <<row, file, deleted, stale>>
storageVars == <<multipart, parts, object>>
clientVars == <<handed, late>>

(***************************************************************************)
(* Records                                                                 *)
(***************************************************************************)
RowStates == {"free", "pending", "uploaded", "gone"}
UploadStates == {"absent", "live", "completed", "aborted", "expired"}

\* Parts of the declared size: the file itself, or other bytes.  Either way
\* the ETags tell them apart.
Whole == {"file", "other"}
Contents == {"none", "partial"} \cup Whole

LockSteps == {"list", "store", "commit"}
UndoSteps == {"duplicate", "undo"}
RequestSteps == {"idle", "open", "insert", "winner"} \cup UndoSteps
                    \cup LockSteps

Request == [pc : RequestSteps, file : Files \cup {NoFile},
            asset : Assets \cup {NoAsset}, seen : Contents]
Collector == [pc : {"idle", "sweep", "abort", "commit"},
              list : SUBSET Assets, asset : Assets \cup {NoAsset}]

NoRequest == [pc |-> "idle", file |-> NoFile, asset |-> NoAsset,
              seen |-> "none"]
NoSweep == [pc |-> "idle", list |-> {}, asset |-> NoAsset]

TypeOK ==
    /\ row \in [Assets -> RowStates]
    /\ file \in [Assets -> Files \cup {NoFile}]
    /\ deleted \in [Assets -> BOOLEAN]
    /\ stale \in [Assets -> BOOLEAN]
    /\ multipart \in [Assets -> UploadStates]
    /\ parts \in [Assets -> Contents]
    /\ object \in [Assets -> Contents]
    /\ handed \in SUBSET Assets
    /\ late \in SUBSET (Assets \X Whole)
    /\ req \in [Requests -> Request]
    /\ gc \in Collector

Init ==
    /\ row = [a \in Assets |-> "free"]
    /\ file = [a \in Assets |-> NoFile]
    /\ deleted = [a \in Assets |-> FALSE]
    /\ stale = [a \in Assets |-> FALSE]
    /\ multipart = [a \in Assets |-> "absent"]
    /\ parts = [a \in Assets |-> "none"]
    /\ object = [a \in Assets |-> "none"]
    /\ handed = {}
    /\ late = {}
    /\ req = [r \in Requests |-> NoRequest]
    /\ gc = NoSweep

(***************************************************************************)
(* Shared by the handlers                                                  *)
(***************************************************************************)
\* The rows media_dedupe indexes: at most one per file.
Active(f) == {a \in Assets : /\ row[a] \in {"pending", "uploaded"}
                             /\ ~deleted[a]
                             /\ file[a] = f}

\* The transactions that hold the lock of a row, from SELECT ... FOR UPDATE
\* or DELETE to the commit.
LockedByRequest(a) ==
    \E r \in Requests : req[r].pc \in LockSteps /\ req[r].asset = a
LockedByCollector(a) == gc.pc \in {"abort", "commit"} /\ gc.asset = a
Locked(a) == LockedByRequest(a) \/ LockedByCollector(a)

Become(r, step, f, a, c) ==
    req' = [req EXCEPT ![r] = [pc |-> step, file |-> f, asset |-> a,
                               seen |-> c]]

Goto(r, step) == Become(r, step, req[r].file, req[r].asset, req[r].seen)

\* The answer is sent, or the process died: what it held is released.
Answer(r) == Become(r, "idle", NoFile, NoAsset, "none")

\* deduplicated and presign: a pending upload is handed out again, any other
\* needs no URL.
HandOut(as) == handed' = handed \cup {a \in as : row[a] = "pending"}

(***************************************************************************)
(* createUpload                                                            *)
(***************************************************************************)
CreateUpload(r, f) ==
    /\ req[r].pc = "idle"
    /\ IF Active(f) = {} THEN Become(r, "open", f, NoAsset, "none")
                         ELSE UNCHANGED req
    /\ HandOut(Active(f))
    /\ UNCHANGED <<tableVars, storageVars, late, gc>>

\* A media id nobody has drawn: randomUUID.
Fresh(a) == row[a] = "free" /\ multipart[a] = "absent"

OpenMultipart(r, a) ==
    /\ req[r].pc = "open"
    /\ Fresh(a)
    /\ multipart' = [multipart EXCEPT ![a] = "live"]
    /\ Become(r, "insert", req[r].file, a, "none")
    /\ UNCHANGED <<tableVars, parts, object, clientVars, gc>>

\* The call times out; S3 may have opened the upload all the same.
OpenFails(r) ==
    /\ "storage" \in Faults
    /\ req[r].pc = "open"
    /\ \/ UNCHANGED multipart
       \/ \E a \in Assets : /\ Fresh(a)
                            /\ multipart' = [multipart EXCEPT ![a] = "live"]
    /\ Answer(r)
    /\ UNCHANGED <<tableVars, parts, object, clientVars, gc>>

ClaimedByNobody(f) == TRUE

\* The index on (user_id, sha256) WHERE deleted_at IS NULL.
Unclaimed(f) == Active(f) = {}

AddRow(r) ==
    /\ row' = [row EXCEPT ![req[r].asset] = "pending"]
    /\ file' = [file EXCEPT ![req[r].asset] = req[r].file]

InsertRow(r) ==
    /\ req[r].pc = "insert"
    /\ Unclaimed(req[r].file)
    /\ AddRow(r)
    /\ \/ handed' = handed \cup {req[r].asset}
       \/ "crash" \in Faults /\ UNCHANGED handed    \* dies before it answers
    /\ Answer(r)
    /\ UNCHANGED <<deleted, stale, storageVars, late, gc>>

\* 23505 on media_dedupe: another intent for the same file won.
InsertConflicts(r) ==
    /\ req[r].pc = "insert"
    /\ ~Unclaimed(req[r].file)
    /\ Goto(r, "duplicate")
    /\ UNCHANGED <<tableVars, storageVars, clientVars, gc>>

\* The connection breaks; the INSERT may have been committed all the same.
InsertFails(r) ==
    /\ "db" \in Faults
    /\ req[r].pc = "insert"
    /\ \/ UNCHANGED <<row, file>>
       \/ Unclaimed(req[r].file) /\ AddRow(r)
    /\ Goto(r, "undo")
    /\ UNCHANGED <<deleted, stale, storageVars, clientVars, gc>>

AbortUpload(a) ==
    multipart' = [multipart EXCEPT ![a] = IF @ = "live" THEN "aborted" ELSE @]

\* The catch block aborts the multipart it opened and swallows a failure.
UndoUpload(r) ==
    /\ req[r].pc \in UndoSteps
    /\ \/ AbortUpload(req[r].asset)
       \/ "storage" \in Faults /\ UNCHANGED multipart
    /\ IF req[r].pc = "duplicate"
       THEN Become(r, "winner", req[r].file, NoAsset, "none")
       ELSE Answer(r)
    /\ UNCHANGED <<tableVars, parts, object, clientVars, gc>>

AnswerWithWinner(r) ==
    /\ req[r].pc = "winner"
    /\ HandOut(Active(req[r].file))
    /\ Answer(r)
    /\ UNCHANGED <<tableVars, storageVars, late, gc>>

(***************************************************************************)
(* complete: one transaction around two S3 calls                           *)
(***************************************************************************)
CompletableRemoved(a) == row[a] = "pending" /\ ~Locked(a)

Completable(a) == row[a] = "pending" /\ ~deleted[a] /\ ~Locked(a)

\* SELECT ... FOR UPDATE and assertTransition.  A request that finds the row
\* locked waits, or gives up after lock_timeout and changes nothing.
LockForComplete(r, a) ==
    /\ req[r].pc = "idle"
    /\ Completable(a)
    /\ Become(r, "list", NoFile, a, "none")
    /\ UNCHANGED <<tableVars, storageVars, clientVars, gc>>

VerifiedAnySize(a) == multipart[a] = "live" /\ parts[a] # "none"

\* verifyParts: as many parts as declared, adding up to the declared size.
Verified(a) == multipart[a] = "live" /\ parts[a] \in Whole

ListParts(r) ==
    /\ req[r].pc = "list"
    /\ Verified(req[r].asset)
    /\ Become(r, "store", NoFile, req[r].asset, parts[req[r].asset])
    /\ UNCHANGED <<tableVars, storageVars, clientVars, gc>>

\* S3 accepts the list of ETags only if they are those of the parts it has.
Accepted(a, seen) == multipart[a] = "live" /\ parts[a] = seen

Close(a) ==
    /\ multipart' = [multipart EXCEPT ![a] = "completed"]
    /\ object' = [object EXCEPT ![a] = parts[a]]

StoreParts(r) ==
    /\ req[r].pc = "store"
    /\ Accepted(req[r].asset, req[r].seen)
    /\ Close(req[r].asset)
    /\ Goto(r, "commit")
    /\ UNCHANGED <<tableVars, parts, clientVars, gc>>

\* The parts are not those declared, not those the client lists, or the
\* multipart is gone: 422 and rollback.
RefuseComplete(r) ==
    /\ \/ req[r].pc = "list"
       \/ req[r].pc = "store" /\ ~Accepted(req[r].asset, req[r].seen)
    /\ Answer(r)
    /\ UNCHANGED <<tableVars, storageVars, clientVars, gc>>

\* StorageTimeoutError and rollback: S3 has closed the multipart, or will.
StoreFails(r) ==
    /\ "storage" \in Faults
    /\ req[r].pc = "store"
    /\ late' = late \cup {<<req[r].asset, req[r].seen>>}
    /\ Answer(r)
    /\ UNCHANGED <<tableVars, storageVars, handed, gc>>

LateClose(a, seen) ==
    /\ <<a, seen>> \in late
    /\ late' = late \ {<<a, seen>>}
    /\ IF Accepted(a, seen) THEN Close(a) ELSE UNCHANGED <<multipart, object>>
    /\ UNCHANGED <<tableVars, parts, handed, req, gc>>

\* transitionMedia, appendOutboxEvent and COMMIT.
CommitUploaded(r) ==
    /\ req[r].pc = "commit"
    /\ row' = [row EXCEPT ![req[r].asset] = "uploaded"]
    /\ Answer(r)
    /\ UNCHANGED <<file, deleted, stale, storageVars, clientVars, gc>>

\* A statement times out or the connection breaks: rollback.
StatementFails(r) ==
    /\ "db" \in Faults
    /\ req[r].pc \in LockSteps \cup {"winner"}
    /\ Answer(r)
    /\ UNCHANGED <<tableVars, storageVars, clientVars, gc>>

\* (A CompleteMultipartUpload in flight when the process dies: StoreFails.)
RequestCrashes(r) ==
    /\ "crash" \in Faults
    /\ req[r].pc # "idle"
    /\ Answer(r)
    /\ UNCHANGED <<tableVars, storageVars, clientVars, gc>>

(***************************************************************************)
(* remove, the browser, and S3 by itself                                   *)
(***************************************************************************)
Remove(a) ==
    /\ row[a] \in {"pending", "uploaded"}
    /\ ~deleted[a]
    /\ ~Locked(a)
    /\ deleted' = [deleted EXCEPT ![a] = TRUE]
    /\ UNCHANGED <<row, file, stale, storageVars, clientVars, req, gc>>

\* Whoever has the URLs sends, or sends again, some of the parts.
SendParts(a) ==
    /\ a \in handed
    /\ multipart[a] = "live"
    /\ \E c \in Contents \ {"none", parts[a]} :
          parts' = [parts EXCEPT ![a] = c]
    /\ UNCHANGED <<tableVars, multipart, object, clientVars, req, gc>>

Expire(a) ==
    /\ "expiry" \in Faults
    /\ multipart[a] = "live"
    /\ multipart' = [multipart EXCEPT ![a] = "expired"]
    /\ UNCHANGED <<tableVars, parts, object, clientVars, req, gc>>

(***************************************************************************)
(* gcPendingUploads                                                        *)
(***************************************************************************)
Age(a) ==
    /\ row[a] = "pending"
    /\ ~stale[a]
    /\ stale' = [stale EXCEPT ![a] = TRUE]
    /\ UNCHANGED <<row, file, deleted, storageVars, clientVars, req, gc>>

AbandonedByOwner ==
    {a \in Assets : row[a] = "pending" /\ stale[a] /\ ~deleted[a]}

\* Removed rows are abandoned uploads too.
Abandoned == {a \in Assets : row[a] = "pending" /\ stale[a]}

Sweep(step, list, a) == gc' = [pc |-> step, list |-> list, asset |-> a]

GcScan ==
    /\ gc.pc = "idle"
    /\ Abandoned # {}
    /\ Sweep("sweep", Abandoned, NoAsset)
    /\ UNCHANGED <<tableVars, storageVars, clientVars, req>>

DeletableUnchecked(a) == row[a] # "free"

\* DELETE ... WHERE id = a AND state = 'pending', once the lock is free: the
\* condition is evaluated again on the row the other transaction left.
Deletable(a) == row[a] = "pending"

GcDelete(a) ==
    /\ gc.pc = "sweep"
    /\ a \in gc.list
    /\ ~Locked(a)
    /\ IF Deletable(a) THEN Sweep("abort", gc.list \ {a}, a)
                       ELSE Sweep("sweep", gc.list \ {a}, NoAsset)
    /\ UNCHANGED <<tableVars, storageVars, clientVars, req>>

\* The DELETE fails, for example because a block refers to the asset.
GcDeleteFails(a) ==
    /\ "db" \in Faults
    /\ gc.pc = "sweep"
    /\ a \in gc.list
    /\ ~Locked(a)
    /\ Sweep("sweep", gc.list \ {a}, NoAsset)
    /\ UNCHANGED <<tableVars, storageVars, clientVars, req>>

GcAbortIgnored ==
    /\ gc.pc = "abort"
    /\ \/ AbortUpload(gc.asset)
       \/ "storage" \in Faults /\ UNCHANGED multipart
    /\ Sweep("commit", gc.list, gc.asset)
    /\ UNCHANGED <<tableVars, parts, object, clientVars, req>>

GcAbort ==
    /\ gc.pc = "abort"
    /\ AbortUpload(gc.asset)
    /\ Sweep("commit", gc.list, gc.asset)
    /\ UNCHANGED <<tableVars, parts, object, clientVars, req>>

\* The row comes back; the next run tries again.
GcAbortFails ==
    /\ "storage" \in Faults
    /\ gc.pc = "abort"
    /\ AbortUpload(gc.asset) \/ UNCHANGED multipart
    /\ Sweep("sweep", gc.list, NoAsset)
    /\ UNCHANGED <<tableVars, parts, object, clientVars, req>>

GcCommit ==
    /\ gc.pc = "commit"
    /\ row' = [row EXCEPT ![gc.asset] = "gone"]
    /\ Sweep("sweep", gc.list, NoAsset)
    /\ UNCHANGED <<file, deleted, stale, storageVars, clientVars, req>>

GcCommitFails ==
    /\ "db" \in Faults
    /\ gc.pc = "commit"
    /\ Sweep("sweep", gc.list, NoAsset)
    /\ UNCHANGED <<tableVars, storageVars, clientVars, req>>

GcEnds ==
    /\ gc.pc = "sweep"
    /\ gc.list = {}
    /\ gc' = NoSweep
    /\ UNCHANGED <<tableVars, storageVars, clientVars, req>>

GcCrashes ==
    /\ "crash" \in Faults
    /\ gc.pc # "idle"
    /\ gc' = NoSweep
    /\ UNCHANGED <<tableVars, storageVars, clientVars, req>>

(***************************************************************************)
(* Specification                                                           *)
(***************************************************************************)
CreateStep(r) ==
    \/ \E a \in Assets : OpenMultipart(r, a)
    \/ InsertRow(r) \/ InsertConflicts(r) \/ UndoUpload(r)
    \/ AnswerWithWinner(r)

CompleteStep(r) ==
    ListParts(r) \/ StoreParts(r) \/ RefuseComplete(r) \/ CommitUploaded(r)

RequestFault(r) ==
    \/ OpenFails(r) \/ InsertFails(r) \/ StoreFails(r) \/ StatementFails(r)
    \/ RequestCrashes(r)

GcStep == GcScan \/ GcAbort \/ GcCommit \/ GcEnds

GcFault ==
    \/ \E a \in Assets : GcDeleteFails(a)
    \/ GcAbortFails \/ GcCommitFails \/ GcCrashes

Next ==
    \/ \E r \in Requests, f \in Files : CreateUpload(r, f)
    \/ \E r \in Requests, a \in Assets : LockForComplete(r, a)
    \/ \E r \in Requests : CreateStep(r) \/ CompleteStep(r) \/ RequestFault(r)
    \/ \E a \in Assets : \/ Remove(a) \/ SendParts(a) \/ Expire(a) \/ Age(a)
                         \/ GcDelete(a)
    \/ \E a \in Assets, c \in Whole : LateClose(a, c)
    \/ GcStep \/ GcFault

Spec == Init /\ [][Next]_vars

\* A request that is being served goes on (every S3 call and every statement
\* has a deadline); time passes; the scheduler starts the collector day after
\* day, and neither S3 nor Postgres fails it every time.
Fairness ==
    /\ \A r \in Requests : WF_vars(CreateStep(r)) /\ WF_vars(CompleteStep(r))
    /\ \A a \in Assets : WF_vars(Age(a)) /\ SF_vars(GcDelete(a))
    /\ WF_vars(GcScan) /\ WF_vars(GcEnds)
    /\ SF_vars(GcAbort) /\ SF_vars(GcCommit)

FairSpec == Spec /\ Fairness

(***************************************************************************)
(* Properties                                                              *)
(***************************************************************************)
\* What MediaPipeline takes for granted: an uploaded asset has an original of
\* the declared size, whatever was sent, sent again, timed out or arrived late
\* between the list of parts and the commit (verifyParts, ETags).
UploadedHasOriginal ==
    \A a \in Assets : row[a] = "uploaded" => object[a] \in Whole

\* RF-UP-3: two intents for one file, however they interleave, leave the
\* library with one asset.
OneAssetPerFile ==
    \A a, b \in Assets :
        /\ row[a] \in {"pending", "uploaded"} /\ ~deleted[a]
        /\ row[b] \in {"pending", "uploaded"} /\ ~deleted[b]
        /\ file[a] = file[b]
        => a = b

\* Two complete requests, or complete and the collector, never work on the
\* multipart of one asset at a time: the second would take an upload that is
\* being completed for one that expired.
RowIsHeldByOne ==
    \A r \in Requests : req[r].pc \in LockSteps =>
        /\ \A s \in Requests : req[s].pc \in LockSteps
                               /\ req[s].asset = req[r].asset => s = r
        /\ ~LockedByCollector(req[r].asset)

\* RF-UP-6: what the collector removes leaves no multipart upload behind.
GoneLeavesNoMultipart ==
    \A a \in Assets : row[a] = "gone" => multipart[a] # "live"

Lifecycle ==
    INSTANCE MediaLifecycle WITH
        Media <- Assets,
        mstate <- [a \in Assets |-> IF row[a] = "uploaded" THEN "uploaded"
                                                           ELSE "pending"],
        deleted <- [a \in Assets |-> deleted[a] \/ row[a] = "gone"]

\* An upload leaves pending once, by complete, and only while its owner has
\* it; the collector removes pending rows only, never one completed between
\* its query and its DELETE.
FollowsLifecycle == Lifecycle!LifecycleSpec

\* RF-UP-6: an upload is completed or else its row is removed in the end.
AbandonedIsCleaned ==
    \A a \in Assets : row[a] = "pending" ~> row[a] # "pending"

\* media.service.ts:441-444: with the row locked in pending, the multipart is
\* missing only if the collector aborted it or the storage let it expire.
MissingMeansExpired ==
    \A a \in Assets : row[a] = "pending" /\ ~Locked(a) =>
        multipart[a] \in {"live", "aborted", "expired"}

(***************************************************************************)
(* Inductive invariant (UploadSessionProofs)                               *)
(***************************************************************************)
\* The media id a request has drawn is its own until its INSERT.
OpenedUploadsAreFresh ==
    \A r \in Requests : req[r].pc \in {"insert"} \cup UndoSteps =>
        /\ req[r].asset \in Assets
        /\ multipart[req[r].asset] # "absent"
        /\ req[r].pc # "undo" => row[req[r].asset] = "free"
        /\ \A s \in Requests :
               /\ req[s].pc \in {"insert"} \cup UndoSteps
               /\ req[s].asset = req[r].asset
               => s = r

\* A row in the table has had its multipart upload; until it is completed
\* there, it is pending.
RowsHaveUploads ==
    \A a \in Assets :
        /\ row[a] # "free" => multipart[a] # "absent" /\ file[a] \in Files
        /\ row[a] = "uploaded" => multipart[a] = "completed"
        /\ multipart[a] = "completed" => object[a] \in Whole

\* What a transaction that holds a row knows at each of its steps.
HoldersAreSound ==
    /\ \A r \in Requests : req[r].pc \in LockSteps =>
          /\ req[r].asset \in Assets
          /\ row[req[r].asset] = "pending"
          /\ ~deleted[req[r].asset]
          /\ req[r].pc = "store" => req[r].seen \in Whole
          /\ req[r].pc = "commit" => multipart[req[r].asset] = "completed"
    /\ gc.pc \in {"abort", "commit"} =>
          gc.asset \in Assets /\ row[gc.asset] = "pending"
    /\ gc.pc = "commit" => multipart[gc.asset] # "live"

\* A request that is creating an upload knows its file.
IntentsAreSound ==
    \A r \in Requests : req[r].pc \in {"open", "insert", "duplicate", "undo"}
        => req[r].file \in Files

UploadInvariant ==
    /\ TypeOK /\ IntentsAreSound /\ OpenedUploadsAreFresh /\ RowsHaveUploads
    /\ HoldersAreSound /\ RowIsHeldByOne /\ OneAssetPerFile
    /\ GoneLeavesNoMultipart
=============================================================================
