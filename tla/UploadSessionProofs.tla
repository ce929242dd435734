------------------------- MODULE UploadSessionProofs -------------------------
(***************************************************************************)
(* What UploadSession guarantees for every number of files, media ids and  *)
(* concurrent requests, and for every set of faults.  UploadInvariant is   *)
(* inductive; the safety properties are conjuncts or consequences of it,   *)
(* and the refinement of MediaLifecycle follows from it.                   *)
(***************************************************************************)
EXTENDS UploadSession, TLAPS

USE DEF tableVars, storageVars, clientVars

\* A request moves alone: its record is the one given, the others stay.
LEMMA RequestMoved ==
  ASSUME TypeOK, NEW r \in Requests, NEW step \in RequestSteps,
         NEW f \in Files \cup {NoFile}, NEW a \in Assets \cup {NoAsset},
         NEW c \in Contents, Become(r, step, f, a, c)
  PROVE  /\ req' \in [Requests -> Request]
         /\ req'[r].pc = step /\ req'[r].file = f /\ req'[r].asset = a
         /\ req'[r].seen = c
         /\ \A s \in Requests \ {r} : req'[s] = req[s]
  BY DEF Become, TypeOK, Request

\* An answered request is idle.
LEMMA RequestAnswered ==
  ASSUME TypeOK, NEW r \in Requests, Answer(r)
  PROVE  /\ req' \in [Requests -> Request]
         /\ req'[r].pc = "idle"
         /\ \A s \in Requests \ {r} : req'[s] = req[s]
  BY RequestMoved DEF Answer, RequestSteps, UndoSteps, LockSteps, Contents

\* Goto keeps all but the step.
LEMMA RequestWent ==
  ASSUME TypeOK, NEW r \in Requests, NEW step \in RequestSteps, Goto(r, step)
  PROVE  /\ req' \in [Requests -> Request]
         /\ req'[r].pc = step /\ req'[r].file = req[r].file
         /\ req'[r].asset = req[r].asset /\ req'[r].seen = req[r].seen
         /\ \A s \in Requests \ {r} : req'[s] = req[s]
  <1>1. /\ req[r].file \in Files \cup {NoFile}
        /\ req[r].asset \in Assets \cup {NoAsset} /\ req[r].seen \in Contents
    BY DEF TypeOK, Request
  <1> QED
    BY <1>1, RequestMoved DEF Goto

\* The collector's record after a step.
LEMMA CollectorMoved ==
  ASSUME NEW step \in {"idle", "sweep", "abort", "commit"},
         NEW list \in SUBSET Assets, NEW a \in Assets \cup {NoAsset},
         Sweep(step, list, a)
  PROVE  /\ gc' \in Collector
         /\ gc'.pc = step /\ gc'.list = list /\ gc'.asset = a
  BY DEF Sweep, Collector

\* The facts about the sets of steps that every case needs.
LEMMA Steps ==
  /\ LockSteps = {"list", "store", "commit"}
  /\ UndoSteps = {"duplicate", "undo"}
  /\ RequestSteps = {"idle", "open", "insert", "winner", "duplicate", "undo",
                     "list", "store", "commit"}
  BY DEF LockSteps, UndoSteps, RequestSteps

\* The initial state satisfies the invariant.
LEMMA InvariantAtInit == Init => UploadInvariant
  BY Steps DEF Init, UploadInvariant, TypeOK, IntentsAreSound,
     OpenedUploadsAreFresh, RowsHaveUploads, HoldersAreSound, RowIsHeldByOne,
     OneAssetPerFile, GoneLeavesNoMultipart, NoRequest, NoSweep, Request,
     Collector, RowStates, UploadStates, Contents, Whole, LockedByCollector

\* Every step leaves each variable in its type.
LEMMA TypeIsKept == UploadInvariant /\ [Next]_vars => TypeOK'
  <1> SUFFICES ASSUME UploadInvariant, [Next]_vars PROVE TypeOK'
    OBVIOUS
  <1> USE Steps DEF UploadInvariant
  <1>0. /\ NoSweep \in Collector /\ Abandoned \subseteq Assets
        /\ gc.list \in SUBSET Assets
        /\ gc.asset \in Assets \cup {NoAsset}
    BY DEF NoSweep, Collector, Abandoned, TypeOK
  <1>1. ASSUME NEW r \in Requests, NEW f \in Files, CreateUpload(r, f)
        PROVE  TypeOK'
    <2>1. req' \in [Requests -> Request]
      BY <1>1, RequestMoved DEF CreateUpload, TypeOK, Contents
    <2> QED
      BY <1>1, <2>1 DEF CreateUpload, HandOut, Active, TypeOK
  <1>2. ASSUME NEW r \in Requests, CreateStep(r) PROVE TypeOK'
    <2>1. CASE \E a \in Assets : OpenMultipart(r, a)
      <3>1. PICK a \in Assets : OpenMultipart(r, a)
        BY <2>1
      <3>2. req' \in [Requests -> Request]
        <4>1. req[r].file \in Files \cup {NoFile}
          BY DEF TypeOK, Request
        <4> QED
          BY <3>1, <4>1, RequestMoved DEF OpenMultipart, Contents
      <3> QED
        BY <3>1, <3>2 DEF OpenMultipart, TypeOK, UploadStates
    <2>2. CASE InsertRow(r)
      <3>1. req' \in [Requests -> Request]
        BY <2>2, RequestAnswered DEF InsertRow
      <3>2. req[r].asset \in Assets /\ req[r].file \in Files \cup {NoFile}
        BY <2>2 DEF InsertRow, OpenedUploadsAreFresh, TypeOK, Request
      <3> QED
        BY <2>2, <3>1, <3>2 DEF InsertRow, AddRow, TypeOK, RowStates
    <2>3. CASE InsertConflicts(r)
      BY <2>3, RequestWent DEF InsertConflicts, TypeOK
    <2>4. CASE UndoUpload(r)
      <3>1. req[r].file \in Files \cup {NoFile} /\ "none" \in Contents
        BY DEF TypeOK, Request, Contents
      <3>2. req' \in [Requests -> Request]
        BY <2>4, <3>1, RequestAnswered, RequestMoved DEF UndoUpload
      <3>3. multipart' \in [Assets -> UploadStates]
        BY <2>4 DEF UndoUpload, AbortUpload, TypeOK, UploadStates
      <3> QED
        BY <2>4, <3>2, <3>3 DEF UndoUpload, TypeOK
    <2>5. CASE AnswerWithWinner(r)
      BY <2>5, RequestAnswered DEF AnswerWithWinner, HandOut, Active, TypeOK
    <2> QED
      BY <1>2, <2>1, <2>2, <2>3, <2>4, <2>5 DEF CreateStep
  <1>3. ASSUME NEW r \in Requests, NEW a \in Assets, LockForComplete(r, a)
        PROVE  TypeOK'
    BY <1>3, RequestMoved DEF LockForComplete, TypeOK, Contents
  <1>4. ASSUME NEW r \in Requests, CompleteStep(r) PROVE TypeOK'
    <2>0. req[r].pc \in LockSteps
      BY <1>4 DEF CompleteStep, ListParts, StoreParts, RefuseComplete,
                  CommitUploaded
    <2>1. req[r].asset \in Assets
      BY <2>0 DEF HoldersAreSound
    <2>2. CASE ListParts(r)
      BY <2>1, <2>2, RequestMoved DEF ListParts, TypeOK
    <2>3. CASE StoreParts(r)
      BY <2>1, <2>3, RequestWent DEF StoreParts, Close, TypeOK, UploadStates
    <2>4. CASE RefuseComplete(r)
      BY <2>4, RequestAnswered DEF RefuseComplete, TypeOK
    <2>5. CASE CommitUploaded(r)
      BY <2>1, <2>5, RequestAnswered DEF CommitUploaded, TypeOK, RowStates
    <2> QED
      BY <1>4, <2>2, <2>3, <2>4, <2>5 DEF CompleteStep
  <1>5. ASSUME NEW r \in Requests, RequestFault(r) PROVE TypeOK'
    <2>1. CASE OpenFails(r)
      <3>1. multipart' \in [Assets -> UploadStates]
        BY <2>1 DEF OpenFails, TypeOK, UploadStates
      <3> QED
        BY <2>1, <3>1, RequestAnswered DEF OpenFails, TypeOK
    <2>2. CASE InsertFails(r)
      <3>1. req[r].asset \in Assets /\ req[r].file \in Files \cup {NoFile}
        BY <2>2 DEF InsertFails, OpenedUploadsAreFresh, TypeOK, Request
      <3>2. /\ row' \in [Assets -> RowStates]
            /\ file' \in [Assets -> Files \cup {NoFile}]
        BY <2>2, <3>1 DEF InsertFails, AddRow, TypeOK, RowStates
      <3> QED
        BY <2>2, <3>2, RequestWent DEF InsertFails, TypeOK
    <2>3. CASE StoreFails(r)
      <3>1. <<req[r].asset, req[r].seen>> \in Assets \X Whole
        BY <2>3 DEF StoreFails, HoldersAreSound
      <3> QED
        BY <2>3, <3>1, RequestAnswered DEF StoreFails, TypeOK
    <2>4. CASE StatementFails(r) \/ RequestCrashes(r)
      BY <2>4, RequestAnswered DEF StatementFails, RequestCrashes, TypeOK
    <2> QED
      BY <1>5, <2>1, <2>2, <2>3, <2>4 DEF RequestFault
  <1>6. ASSUME NEW a \in Assets, Remove(a) \/ SendParts(a) \/ Expire(a)
                                 \/ Age(a) \/ GcDelete(a)
        PROVE  TypeOK'
    <2>1. CASE Remove(a) \/ Age(a)
      BY <2>1 DEF Remove, Age, TypeOK
    <2>2. CASE SendParts(a)
      BY <2>2 DEF SendParts, TypeOK
    <2>3. CASE Expire(a)
      BY <2>3 DEF Expire, TypeOK, UploadStates
    <2>4. CASE GcDelete(a)
      BY <1>0, <2>4, CollectorMoved DEF GcDelete, TypeOK
    <2> QED
      BY <1>6, <2>1, <2>2, <2>3, <2>4
  <1>7. ASSUME NEW a \in Assets, NEW c \in Whole, LateClose(a, c)
        PROVE  TypeOK'
    <2>1. /\ multipart' \in [Assets -> UploadStates]
          /\ object' \in [Assets -> Contents]
      BY <1>7 DEF LateClose, Close, TypeOK, UploadStates
    <2> QED
      BY <1>7, <2>1 DEF LateClose, TypeOK
  <1>8. CASE GcStep \/ GcFault
    <2>1. gc' \in Collector
      BY <1>0, <1>8, CollectorMoved
         DEF GcStep, GcFault, GcScan, GcAbort, GcCommit, GcEnds, GcAbortFails,
             GcCommitFails, GcDeleteFails, GcCrashes
    <2>2. /\ multipart' \in [Assets -> UploadStates]
          /\ row' \in [Assets -> RowStates]
      BY <1>8 DEF GcStep, GcFault, GcScan, GcAbort, GcCommit, GcEnds,
                  GcAbortFails, GcCommitFails, GcDeleteFails, GcCrashes,
                  AbortUpload, TypeOK, UploadStates, RowStates
    <2> QED
      BY <1>8, <2>1, <2>2
         DEF GcStep, GcFault, GcScan, GcAbort, GcCommit, GcEnds, GcAbortFails,
             GcCommitFails, GcDeleteFails, GcCrashes, TypeOK
  <1>9. CASE UNCHANGED vars
    BY <1>9 DEF vars, TypeOK
  <1> QED
    BY <1>1, <1>2, <1>3, <1>4, <1>5, <1>6, <1>7, <1>8, <1>9 DEF Next

\* Outside createUpload and complete, requests stand still.
LEMMA OnlyHandlersMoveRequests ==
  ASSUME Next,
         ~(\E r \in Requests, f \in Files : CreateUpload(r, f)),
         ~(\E r \in Requests, a \in Assets : LockForComplete(r, a)),
         ~(\E r \in Requests :
              CreateStep(r) \/ CompleteStep(r) \/ RequestFault(r))
  PROVE  req' = req /\ file' = file
  BY DEF Next, Remove, SendParts, Expire, Age, GcDelete, LateClose, GcStep,
         GcFault, GcScan, GcAbort, GcCommit, GcEnds, GcAbortFails,
         GcCommitFails, GcDeleteFails, GcCrashes

\* A request that creates an upload goes on with the file it was asked for.
LEMMA IntentsStaySound == UploadInvariant /\ [Next]_vars => IntentsAreSound'
  <1> SUFFICES ASSUME UploadInvariant, [Next]_vars PROVE IntentsAreSound'
    OBVIOUS
  <1> USE Steps DEF UploadInvariant
  <1>1. ASSUME NEW r \in Requests, NEW f \in Files, CreateUpload(r, f)
        PROVE  IntentsAreSound'
    BY <1>1, RequestMoved DEF CreateUpload, IntentsAreSound, Contents
  <1>2. ASSUME NEW r \in Requests, NEW a \in Assets, LockForComplete(r, a)
        PROVE  IntentsAreSound'
    BY <1>2, RequestMoved DEF LockForComplete, IntentsAreSound, Contents
  <1>3. ASSUME NEW r \in Requests,
               CreateStep(r) \/ CompleteStep(r) \/ RequestFault(r)
        PROVE  IntentsAreSound'
    <2>1. ASSUME NEW a \in Assets, OpenMultipart(r, a) PROVE IntentsAreSound'
      BY <2>1, RequestMoved DEF OpenMultipart, IntentsAreSound, Contents
    <2>2. CASE InsertConflicts(r) \/ InsertFails(r) \/ StoreParts(r)
      BY <2>2, RequestWent
         DEF InsertConflicts, InsertFails, StoreParts, IntentsAreSound
    <2>3. CASE UndoUpload(r)
      <3>1. req[r].file \in Files \cup {NoFile} /\ "none" \in Contents
        BY DEF TypeOK, Request, Contents
      <3> QED
        BY <2>3, <3>1, RequestMoved, RequestAnswered
           DEF UndoUpload, IntentsAreSound
    <2>4. CASE ListParts(r)
      <3>1. /\ req[r].asset \in Assets
            /\ parts[req[r].asset] \in Contents
        BY <2>4 DEF ListParts, HoldersAreSound, TypeOK
      <3> QED
        BY <2>4, <3>1, RequestMoved DEF ListParts, IntentsAreSound
    <2>5. CASE \/ InsertRow(r) \/ AnswerWithWinner(r) \/ RefuseComplete(r)
               \/ CommitUploaded(r) \/ OpenFails(r) \/ StoreFails(r)
               \/ StatementFails(r) \/ RequestCrashes(r)
      BY <2>5, RequestAnswered
         DEF InsertRow, AnswerWithWinner, RefuseComplete, CommitUploaded,
             OpenFails, StoreFails, StatementFails, RequestCrashes,
             IntentsAreSound
    <2> QED
      BY <1>3, <2>1, <2>2, <2>3, <2>4, <2>5
         DEF CreateStep, CompleteStep, RequestFault
  <1>4. CASE req' = req
    BY <1>4 DEF IntentsAreSound
  <1> QED
    BY <1>1, <1>2, <1>3, <1>4, OnlyHandlersMoveRequests DEF vars

\* S3 keeps a multipart upload that exists, never reopens one, and leaves the
\* object of a completed one alone; what it completes has the declared size.
LEMMA UploadsAdvance ==
  ASSUME UploadInvariant, [Next]_vars, NEW a \in Assets
  PROVE  /\ multipart[a] # "absent" => multipart'[a] # "absent"
         /\ multipart[a] \notin {"absent", "live"} =>
                multipart'[a] = multipart[a] /\ object'[a] = object[a]
         /\ multipart'[a] = "completed" /\ multipart[a] # "completed" =>
                object'[a] \in Whole
  <1> USE Steps DEF UploadInvariant
  <1> DEFINE Goal == /\ multipart[a] # "absent" => multipart'[a] # "absent"
                     /\ multipart[a] \notin {"absent", "live"} =>
                           /\ multipart'[a] = multipart[a]
                           /\ object'[a] = object[a]
                     /\ /\ multipart'[a] = "completed"
                        /\ multipart[a] # "completed"
                        => object'[a] \in Whole
  <1>0. multipart \in [Assets -> UploadStates]
        /\ object \in [Assets -> Contents]
    BY DEF TypeOK
  <1>1. CASE UNCHANGED <<multipart, object>>
    BY <1>1
  <1>2. ASSUME NEW r \in Requests, NEW b \in Assets, OpenMultipart(r, b)
        PROVE  Goal
    BY <1>0, <1>2 DEF OpenMultipart, Fresh
  <1>3. ASSUME NEW r \in Requests, OpenFails(r) PROVE Goal
    BY <1>0, <1>3 DEF OpenFails, Fresh
  <1>4. ASSUME NEW b, AbortUpload(b), UNCHANGED object PROVE Goal
    BY <1>0, <1>4 DEF AbortUpload
  <1>5. ASSUME NEW r \in Requests, StoreParts(r) PROVE Goal
    BY <1>0, <1>5 DEF StoreParts, Accepted, Close, HoldersAreSound
  <1>6. ASSUME NEW b \in Assets, NEW c \in Whole, LateClose(b, c) PROVE Goal
    BY <1>0, <1>6 DEF LateClose, Accepted, Close
  <1>7. ASSUME NEW b \in Assets, Expire(b) PROVE Goal
    BY <1>0, <1>7 DEF Expire
  <1> HIDE DEF Goal
  <1>8. Goal
    <2>1. CASE \E r \in Requests : CreateStep(r)
      BY <1>1, <1>2, <1>4, <2>1
         DEF CreateStep, InsertRow, InsertConflicts, UndoUpload,
             AnswerWithWinner, Goal
    <2>2. CASE \E r \in Requests : CompleteStep(r) \/ RequestFault(r)
      BY <1>1, <1>3, <1>5, <2>2
         DEF CompleteStep, RequestFault, ListParts, RefuseComplete,
             CommitUploaded, InsertFails, StoreFails, StatementFails,
             RequestCrashes, Goal
    <2>3. CASE GcStep \/ GcFault
      BY <1>1, <1>4, <2>3
         DEF GcStep, GcFault, GcScan, GcAbort, GcCommit, GcEnds, GcAbortFails,
             GcCommitFails, GcDeleteFails, GcCrashes, Goal
    <2>4. CASE \/ \E r \in Requests, f \in Files : CreateUpload(r, f)
               \/ \E r \in Requests, b \in Assets : LockForComplete(r, b)
      BY <1>1, <2>4 DEF CreateUpload, LockForComplete, Goal
    <2>5. CASE \E b \in Assets : \/ Remove(b) \/ SendParts(b) \/ Expire(b)
                                 \/ Age(b) \/ GcDelete(b)
      BY <1>1, <1>7, <2>5 DEF Remove, SendParts, Age, GcDelete, Goal
    <2>6. CASE UNCHANGED vars
      BY <1>1, <2>6 DEF vars, Goal
    <2> QED
      BY <1>6, <2>1, <2>2, <2>3, <2>4, <2>5, <2>6 DEF Next
  <1> QED
    BY <1>8 DEF Goal

\* A row appears pending, with the file of its intent and an upload of its
\* own; it is uploaded once S3 has completed the upload, and removed once S3
\* has none open.
LEMMA RowsAdvance ==
  ASSUME UploadInvariant, [Next]_vars, NEW a \in Assets
  PROVE  \/ row'[a] = row[a] /\ (row[a] # "free" => file'[a] = file[a])
         \/ /\ row[a] = "free" /\ row'[a] = "pending"
            /\ file'[a] \in Files /\ multipart[a] # "absent"
            /\ Active(file'[a]) = {}
            /\ \A b \in Assets \ {a} : row'[b] = row[b] /\ file'[b] = file[b]
            /\ deleted' = deleted
            /\ \E r \in Requests : /\ InsertRow(r) \/ InsertFails(r)
                                  /\ req[r].pc = "insert"
                                  /\ req[r].asset = a
         \/ /\ row[a] = "pending" /\ row'[a] = "uploaded"
            /\ file' = file
            /\ multipart[a] = "completed" /\ ~deleted[a]
            /\ \E r \in Requests : CommitUploaded(r) /\ req[r].asset = a
         \/ /\ row[a] = "pending" /\ row'[a] = "gone"
            /\ file' = file
            /\ multipart[a] # "live" /\ GcCommit /\ gc.asset = a
  <1> USE Steps DEF UploadInvariant
  <1>0. /\ row \in [Assets -> RowStates]
        /\ file \in [Assets -> Files \cup {NoFile}]
    BY DEF TypeOK
  <1>1. CASE UNCHANGED <<row, file>>
    BY <1>1
  <1>2. ASSUME NEW r \in Requests, InsertRow(r) \/ InsertFails(r),
               ~UNCHANGED <<row, file>>
        PROVE  /\ req[r].pc = "insert" /\ req[r].asset \in Assets
               /\ row[req[r].asset] = "free"
               /\ multipart[req[r].asset] # "absent"
               /\ req[r].file \in Files /\ Active(req[r].file) = {}
               /\ AddRow(r) /\ deleted' = deleted
    BY <1>2 DEF InsertRow, InsertFails, Unclaimed, OpenedUploadsAreFresh,
                IntentsAreSound
  <1>3. CASE \E r \in Requests : InsertRow(r) \/ InsertFails(r)
    BY <1>0, <1>1, <1>2, <1>3 DEF AddRow
  <1>4. CASE \E r \in Requests : CommitUploaded(r)
    BY <1>0, <1>4 DEF CommitUploaded, HoldersAreSound
  <1>5. CASE GcCommit
    BY <1>0, <1>5 DEF GcCommit, HoldersAreSound
  <1>6. CASE ~(\/ \E r \in Requests : \/ InsertRow(r) \/ InsertFails(r)
                                      \/ CommitUploaded(r)
               \/ GcCommit)
    <2>1. UNCHANGED <<row, file>>
      BY <1>6
         DEF Next, CreateUpload, LockForComplete, CreateStep, CompleteStep,
             RequestFault, OpenMultipart, InsertConflicts, UndoUpload,
             AnswerWithWinner, ListParts, StoreParts, RefuseComplete,
             OpenFails, StoreFails, StatementFails, RequestCrashes, Remove,
             SendParts, Expire, Age, GcDelete, LateClose, GcStep, GcFault,
             GcScan, GcAbort, GcEnds, GcAbortFails, GcCommitFails,
             GcDeleteFails, GcCrashes, vars
    <2> QED
      BY <1>1, <2>1
  <1> QED
    BY <1>3, <1>4, <1>5, <1>6

\* Completed rows keep their original, and what is removed stays closed.
LEMMA RowsStaySound ==
  UploadInvariant /\ [Next]_vars => RowsHaveUploads' /\ GoneLeavesNoMultipart'
  <1> SUFFICES ASSUME UploadInvariant, [Next]_vars, NEW a \in Assets
               PROVE  /\ row'[a] # "free" => /\ multipart'[a] # "absent"
                                             /\ file'[a] \in Files
                      /\ row'[a] = "uploaded" => multipart'[a] = "completed"
                      /\ multipart'[a] = "completed" => object'[a] \in Whole
                      /\ row'[a] = "gone" => multipart'[a] # "live"
    BY DEF RowsHaveUploads, GoneLeavesNoMultipart
  <1>1. /\ row[a] # "free" => multipart[a] # "absent" /\ file[a] \in Files
        /\ row[a] = "uploaded" => multipart[a] = "completed"
        /\ multipart[a] = "completed" => object[a] \in Whole
        /\ row[a] = "gone" => multipart[a] # "live"
    BY DEF UploadInvariant, RowsHaveUploads, GoneLeavesNoMultipart
  <1> QED
    BY <1>1, UploadsAdvance, RowsAdvance

\* How a request comes to hold, or to go on holding, the lock of a row.
LEMMA HolderHistory ==
  ASSUME UploadInvariant, [Next]_vars, NEW s \in Requests,
         req'[s].pc \in LockSteps
  PROVE  \/ req'[s] = req[s] /\ ~CommitUploaded(s)
         \/ \E a \in Assets : /\ LockForComplete(s, a)
                              /\ req'[s].pc = "list" /\ req'[s].asset = a
         \/ /\ ListParts(s) /\ req'[s].pc = "store"
            /\ req'[s].asset = req[s].asset /\ req'[s].seen \in Whole
         \/ /\ StoreParts(s) /\ req'[s].pc = "commit"
            /\ req'[s].asset = req[s].asset
  <1> USE Steps DEF UploadInvariant
  <1> DEFINE Goal == \/ req'[s] = req[s] /\ ~CommitUploaded(s)
                     \/ \E a \in Assets :
                           /\ LockForComplete(s, a)
                           /\ req'[s].pc = "list" /\ req'[s].asset = a
                     \/ /\ ListParts(s) /\ req'[s].pc = "store"
                        /\ req'[s].asset = req[s].asset
                        /\ req'[s].seen \in Whole
                     \/ /\ StoreParts(s) /\ req'[s].pc = "commit"
                        /\ req'[s].asset = req[s].asset
  <1>1. req'[s] = req[s] => Goal
    BY RequestAnswered DEF CommitUploaded
  <1>2. ASSUME NEW r \in Requests, NEW f \in Files, CreateUpload(r, f)
        PROVE  req'[s] = req[s]
    BY <1>2, RequestMoved DEF CreateUpload, Contents
  <1>3. ASSUME NEW r \in Requests, NEW a \in Assets, LockForComplete(r, a)
        PROVE  Goal
    BY <1>1, <1>3, RequestMoved DEF LockForComplete, Contents
  <1>4. ASSUME NEW r \in Requests, NEW a \in Assets, OpenMultipart(r, a)
        PROVE  req'[s] = req[s]
    <2>1. req[r].file \in Files
      BY <1>4 DEF OpenMultipart, IntentsAreSound
    <2> QED
      BY <1>4, <2>1, RequestMoved DEF OpenMultipart, Contents
  <1>5. ASSUME NEW r \in Requests, InsertConflicts(r) \/ InsertFails(r)
        PROVE  req'[s] = req[s]
    BY <1>5, RequestWent DEF InsertConflicts, InsertFails
  <1>6. ASSUME NEW r \in Requests, UndoUpload(r) PROVE req'[s] = req[s]
    <2>1. req[r].file \in Files /\ "none" \in Contents
      BY <1>6 DEF UndoUpload, IntentsAreSound, Contents
    <2>2. CASE req[r].pc = "duplicate"
      BY <1>6, <2>1, <2>2, RequestMoved DEF UndoUpload
    <2>3. CASE req[r].pc # "duplicate"
      BY <1>6, <2>3, RequestAnswered DEF UndoUpload
    <2> QED
      BY <2>2, <2>3
  <1>7. ASSUME NEW r \in Requests, ListParts(r) PROVE Goal
    <2>1. /\ req[r].asset \in Assets
          /\ parts[req[r].asset] \in Whole /\ Whole \subseteq Contents
      BY <1>7 DEF ListParts, Verified, HoldersAreSound, Contents
    <2> QED
      BY <1>1, <1>7, <2>1, RequestMoved DEF ListParts
  <1>8. ASSUME NEW r \in Requests, StoreParts(r) PROVE Goal
    BY <1>1, <1>8, RequestWent DEF StoreParts
  <1>9. ASSUME NEW r \in Requests,
               \/ InsertRow(r) \/ AnswerWithWinner(r) \/ RefuseComplete(r)
               \/ CommitUploaded(r) \/ OpenFails(r) \/ StoreFails(r)
               \/ StatementFails(r) \/ RequestCrashes(r)
        PROVE  req'[s] = req[s]
    BY <1>9, RequestAnswered
       DEF InsertRow, AnswerWithWinner, RefuseComplete, CommitUploaded,
           OpenFails, StoreFails, StatementFails, RequestCrashes
  <1> HIDE DEF Goal
  <1>10. ASSUME \E r \in Requests :
                   CreateStep(r) \/ CompleteStep(r) \/ RequestFault(r)
         PROVE  Goal
    BY <1>1, <1>4, <1>5, <1>6, <1>7, <1>8, <1>9, <1>10
       DEF CreateStep, CompleteStep, RequestFault
  <1>11. Goal
    BY <1>1, <1>2, <1>3, <1>10, OnlyHandlersMoveRequests DEF vars
  <1> QED
    BY <1>11 DEF Goal

\* How a request comes to have a multipart upload without a row, or to go on
\* having it.
LEMMA OpenerHistory ==
  ASSUME UploadInvariant, [Next]_vars, NEW s \in Requests,
         req'[s].pc \in {"insert"} \cup UndoSteps
  PROVE  \/ \E a \in Assets : /\ OpenMultipart(s, a)
                              /\ req'[s].pc = "insert" /\ req'[s].asset = a
         \/ /\ req[s].pc \in {"insert"} \cup UndoSteps
            /\ req'[s].asset = req[s].asset
            /\ req'[s].pc # "undo" =>
                  req[s].pc # "undo" /\ ~InsertRow(s) /\ ~InsertFails(s)
  <1> USE Steps DEF UploadInvariant
  <1> DEFINE Stays == /\ req[s].pc \in {"insert"} \cup UndoSteps
                      /\ req'[s].asset = req[s].asset
                      /\ req'[s].pc # "undo" =>
                            /\ req[s].pc # "undo"
                            /\ ~InsertRow(s) /\ ~InsertFails(s)
             Goal == \/ \E a \in Assets :
                           /\ OpenMultipart(s, a)
                           /\ req'[s].pc = "insert" /\ req'[s].asset = a
                     \/ Stays
  <1>0. InsertRow(s) => req'[s].pc = "idle"
    BY RequestAnswered DEF InsertRow
  <1>1. InsertFails(s) => req'[s].pc = "undo"
    BY RequestWent DEF InsertFails
  <1>2. req'[s] = req[s] => Stays
    BY <1>0, <1>1
  <1>3. ASSUME NEW r \in Requests, NEW f \in Files, CreateUpload(r, f)
        PROVE  req'[s] = req[s]
    BY <1>3, RequestMoved DEF CreateUpload, Contents
  <1>4. ASSUME NEW r \in Requests, NEW a \in Assets, LockForComplete(r, a)
        PROVE  req'[s] = req[s]
    BY <1>4, RequestMoved DEF LockForComplete, Contents
  <1>5. ASSUME NEW r \in Requests, NEW a \in Assets, OpenMultipart(r, a)
        PROVE  Goal
    <2>1. req[r].file \in Files
      BY <1>5 DEF OpenMultipart, IntentsAreSound
    <2>2. /\ req'[r].pc = "insert" /\ req'[r].asset = a
          /\ \A q \in Requests \ {r} : req'[q] = req[q]
      BY <1>5, <2>1, RequestMoved DEF OpenMultipart, Contents
    <2> QED
      BY <1>2, <1>5, <2>2
  <1>6. ASSUME NEW r \in Requests, InsertConflicts(r) \/ InsertFails(r)
        PROVE  Stays
    <2>1. /\ req'[r].asset = req[r].asset
          /\ req[r].pc = "insert"
          /\ InsertConflicts(r) => req'[r].pc = "duplicate"
          /\ \A q \in Requests \ {r} : req'[q] = req[q]
      BY <1>6, RequestWent DEF InsertConflicts, InsertFails
    <2> QED
      BY <1>0, <1>1, <1>2, <1>6, <2>1
  <1>7. ASSUME NEW r \in Requests, UndoUpload(r) PROVE req'[s] = req[s]
    <2>1. req[r].file \in Files /\ "none" \in Contents
      BY <1>7 DEF UndoUpload, IntentsAreSound, Contents
    <2>2. CASE req[r].pc = "duplicate"
      <3>1. /\ req'[r].pc = "winner"
            /\ \A q \in Requests \ {r} : req'[q] = req[q]
        BY <1>7, <2>1, <2>2, RequestMoved DEF UndoUpload
      <3> QED
        BY <3>1
    <2>3. CASE req[r].pc # "duplicate"
      BY <1>7, <2>3, RequestAnswered DEF UndoUpload
    <2> QED
      BY <2>2, <2>3
  <1>8. ASSUME NEW r \in Requests, ListParts(r) PROVE req'[s] = req[s]
    <2>1. /\ req[r].asset \in Assets
          /\ parts[req[r].asset] \in Whole /\ Whole \subseteq Contents
      BY <1>8 DEF ListParts, Verified, HoldersAreSound, Contents
    <2> QED
      BY <1>8, <2>1, RequestMoved DEF ListParts
  <1>9. ASSUME NEW r \in Requests, StoreParts(r) PROVE req'[s] = req[s]
    BY <1>9, RequestWent DEF StoreParts
  <1>10. ASSUME NEW r \in Requests,
                \/ InsertRow(r) \/ AnswerWithWinner(r) \/ RefuseComplete(r)
                \/ CommitUploaded(r) \/ OpenFails(r) \/ StoreFails(r)
                \/ StatementFails(r) \/ RequestCrashes(r)
         PROVE  req'[s] = req[s]
    BY <1>10, RequestAnswered
       DEF InsertRow, AnswerWithWinner, RefuseComplete, CommitUploaded,
           OpenFails, StoreFails, StatementFails, RequestCrashes
  <1> HIDE DEF Stays
  <1>11. ASSUME \E r \in Requests :
                   CreateStep(r) \/ CompleteStep(r) \/ RequestFault(r)
         PROVE  Goal
    BY <1>2, <1>5, <1>6, <1>7, <1>8, <1>9, <1>10, <1>11
       DEF CreateStep, CompleteStep, RequestFault
  <1>12. Goal
    BY <1>2, <1>3, <1>4, <1>11, OnlyHandlersMoveRequests DEF vars
  <1> QED
    BY <1>12 DEF Stays

\* A media id drawn by one request is inserted by it alone.
LEMMA OpenedUploadsStayFresh ==
  UploadInvariant /\ [Next]_vars => OpenedUploadsAreFresh'
  <1> SUFFICES ASSUME UploadInvariant, [Next]_vars
               PROVE  OpenedUploadsAreFresh'
    OBVIOUS
  <1> USE Steps
  <1> DEFINE Opening(s) == req[s].pc \in {"insert"} \cup UndoSteps
  <1>0. ASSUME NEW s \in Requests, Opening(s)
        PROVE  /\ req[s].asset \in Assets
               /\ multipart[req[s].asset] # "absent"
               /\ req[s].pc # "undo" => row[req[s].asset] = "free"
               /\ \A q \in Requests : Opening(q) /\ req[q].asset = req[s].asset
                                      => q = s
    BY <1>0 DEF UploadInvariant, OpenedUploadsAreFresh
  <1>1. ASSUME NEW s \in Requests, NEW a \in Assets, OpenMultipart(s, a)
        PROVE  /\ row[a] = "free" /\ row' = row
               /\ multipart[a] = "absent" /\ multipart'[a] # "absent"
               /\ ~Opening(s)
               /\ \A q \in Requests \ {s} : req'[q] = req[q]
    BY <1>1 DEF OpenMultipart, Fresh, UploadInvariant, TypeOK, Become
  <1>2. ASSUME NEW s \in Requests, (Opening(s))'
        PROVE  /\ req'[s].asset \in Assets
               /\ multipart'[req'[s].asset] # "absent"
               /\ req'[s].pc # "undo" => row'[req'[s].asset] = "free"
    <2>1. CASE \E a \in Assets : /\ OpenMultipart(s, a)
                                 /\ req'[s].asset = a
      BY <1>1, <2>1
    <2>2. CASE /\ Opening(s) /\ req'[s].asset = req[s].asset
               /\ req'[s].pc # "undo" =>
                     req[s].pc # "undo" /\ ~InsertRow(s) /\ ~InsertFails(s)
      BY <1>0, <2>2, UploadsAdvance, RowsAdvance
    <2> QED
      BY <1>2, <2>1, <2>2, OpenerHistory
  <1>3. ASSUME NEW s \in Requests, NEW q \in Requests,
               (Opening(s))', (Opening(q))', req'[q].asset = req'[s].asset
        PROVE  q = s
    <2>1. CASE \E a \in Assets : OpenMultipart(s, a) /\ req'[s].asset = a
      BY <1>0, <1>1, <1>3, <2>1
    <2>2. CASE \E a \in Assets : OpenMultipart(q, a) /\ req'[q].asset = a
      <3> PICK a \in Assets : OpenMultipart(q, a) /\ req'[q].asset = a
        BY <2>2
      <3>1. /\ multipart[a] = "absent"
            /\ \A p \in Requests \ {q} : req'[p] = req[p]
        BY <1>1
      <3>2. CASE s # q
        <4>1. Opening(s) /\ req[s].asset = a
          BY <1>3, <3>1, <3>2
        <4> QED
          BY <1>0, <3>1, <4>1
      <3> QED
        BY <3>2
    <2>3. CASE /\ Opening(s) /\ req'[s].asset = req[s].asset
               /\ Opening(q) /\ req'[q].asset = req[q].asset
      BY <1>0, <1>3, <2>3
    <2> QED
      BY <1>3, <2>1, <2>2, <2>3, OpenerHistory
  <1> QED
    BY <1>2, <1>3 DEF OpenedUploadsAreFresh

\* A media is removed by its owner only, and never comes back.
LEMMA RemovalsAreRemoves ==
  ASSUME UploadInvariant, [Next]_vars, NEW a \in Assets
  PROVE  deleted'[a] = deleted[a] \/ (Remove(a) /\ deleted'[a])
  <1>0. deleted \in [Assets -> BOOLEAN]
    BY DEF UploadInvariant, TypeOK
  <1>1. CASE \E b \in Assets : Remove(b)
    BY <1>0, <1>1 DEF Remove
  <1>2. CASE ~(\E b \in Assets : Remove(b))
    <2>1. deleted' = deleted
      BY <1>2
         DEF Next, CreateUpload, LockForComplete, CreateStep, CompleteStep,
             RequestFault, OpenMultipart, InsertRow, InsertConflicts,
             UndoUpload, AnswerWithWinner, ListParts, StoreParts,
             RefuseComplete, CommitUploaded, OpenFails, InsertFails,
             StoreFails, StatementFails, RequestCrashes, SendParts, Expire,
             Age, GcDelete, LateClose, GcStep, GcFault, GcScan, GcAbort,
             GcCommit, GcEnds, GcAbortFails, GcCommitFails, GcDeleteFails,
             GcCrashes, vars
    <2> QED
      BY <2>1
  <1> QED
    BY <1>1, <1>2

\* How the collector comes to hold, or to go on holding, the lock of a row.
LEMMA CollectorHistory ==
  ASSUME UploadInvariant, [Next]_vars, gc'.pc \in {"abort", "commit"}
  PROVE  \/ gc' = gc /\ ~GcCommit
         \/ \E a \in Assets : /\ GcDelete(a) /\ row[a] = "pending"
                              /\ gc'.pc = "abort" /\ gc'.asset = a
         \/ GcAbort /\ gc'.asset = gc.asset
  <1> USE Steps DEF UploadInvariant
  <1> DEFINE Goal == \/ gc' = gc /\ ~GcCommit
                     \/ \E a \in Assets :
                           /\ GcDelete(a) /\ row[a] = "pending"
                           /\ gc'.pc = "abort" /\ gc'.asset = a
                     \/ GcAbort /\ gc'.asset = gc.asset
  <1>0. /\ Abandoned \subseteq Assets /\ gc.list \in SUBSET Assets
        /\ gc.asset \in Assets \cup {NoAsset}
    BY DEF Collector, Abandoned, TypeOK
  <1>1. GcCommit => gc'.pc = "sweep"
    BY <1>0, CollectorMoved DEF GcCommit
  <1>2. gc' = gc => Goal
    BY <1>1
  <1>3. ASSUME NEW a \in Assets, GcDelete(a) PROVE Goal
    <2>1. Deletable(a)
      BY <1>0, <1>3, CollectorMoved DEF GcDelete
    <2> QED
      BY <1>0, <1>3, <2>1, CollectorMoved DEF GcDelete, Deletable
  <1>4. CASE GcAbort
    BY <1>0, <1>4, CollectorMoved DEF GcAbort
  <1>5. ~(GcScan \/ GcCommit \/ GcEnds \/ GcFault)
    <2>1. ASSUME NEW a \in Assets PROVE ~GcDeleteFails(a)
      BY <1>0, CollectorMoved DEF GcDeleteFails
    <2> QED
      BY <1>0, <2>1, CollectorMoved
         DEF GcScan, GcCommit, GcEnds, GcFault, GcAbortFails, GcCommitFails,
             GcCrashes, NoSweep
  <1>6. CASE /\ ~GcAbort /\ ~\E a \in Assets : GcDelete(a)
    <2>1. gc' = gc
      BY <1>5, <1>6
         DEF Next, CreateUpload, LockForComplete, CreateStep, CompleteStep,
             RequestFault, OpenMultipart, InsertRow, InsertConflicts,
             UndoUpload, AnswerWithWinner, ListParts, StoreParts,
             RefuseComplete, CommitUploaded, OpenFails, InsertFails,
             StoreFails, StatementFails, RequestCrashes, Remove, SendParts,
             Expire, Age, LateClose, GcStep, vars
    <2> QED
      BY <1>2, <2>1
  <1> QED
    BY <1>3, <1>4, <1>6

\* A request or the collector that goes on holding a row keeps it pending.
LEMMA HeldRowsStay ==
  ASSUME UploadInvariant, [Next]_vars, NEW a \in Assets, row[a] = "pending"
  PROVE  /\ \A s \in Requests :
               /\ req[s].pc \in LockSteps /\ req[s].asset = a
               /\ ~CommitUploaded(s)
               => row'[a] = "pending" /\ deleted'[a] = deleted[a]
         /\ LockedByCollector(a) /\ ~GcCommit => row'[a] = "pending"
  <1> USE Steps
  <1>0. RowIsHeldByOne
    BY DEF UploadInvariant
  <1>1. /\ \A r \in Requests :
              CommitUploaded(r) /\ req[r].asset = a =>
                 /\ req[r].pc \in LockSteps /\ ~LockedByCollector(a)
                 /\ \A s \in Requests :
                       req[s].pc \in LockSteps /\ req[s].asset = a => s = r
        /\ GcCommit /\ gc.asset = a => LockedByCollector(a)
    BY <1>0 DEF CommitUploaded, GcCommit, LockedByCollector, RowIsHeldByOne
  <1>2. ASSUME NEW s \in Requests, req[s].pc \in LockSteps,
               req[s].asset = a, ~CommitUploaded(s)
        PROVE  row'[a] = "pending" /\ deleted'[a] = deleted[a]
    <2>1. ~LockedByCollector(a) /\ Locked(a)
      BY <1>0, <1>2 DEF RowIsHeldByOne, Locked, LockedByRequest
    <2>2. deleted'[a] = deleted[a]
      BY <2>1, RemovalsAreRemoves DEF Remove
    <2>3. row'[a] = "pending"
      BY <1>1, <1>2, <2>1, RowsAdvance
    <2> QED
      BY <2>2, <2>3
  <1>3. LockedByCollector(a) /\ ~GcCommit => row'[a] = "pending"
    BY <1>1, RowsAdvance
  <1> QED
    BY <1>2, <1>3

\* What holds a row keeps what it knows of it.
LEMMA HoldersStaySound ==
  UploadInvariant /\ [Next]_vars => HoldersAreSound'
  <1> SUFFICES ASSUME UploadInvariant, [Next]_vars PROVE HoldersAreSound'
    OBVIOUS
  <1> USE Steps
  <1>0. /\ HoldersAreSound /\ RowsHaveUploads
        /\ multipart \in [Assets -> UploadStates]
    BY DEF UploadInvariant, TypeOK
  <1>1. ASSUME NEW s \in Requests, req'[s].pc \in LockSteps
        PROVE  /\ req'[s].asset \in Assets
               /\ row'[req'[s].asset] = "pending"
               /\ ~deleted'[req'[s].asset]
               /\ req'[s].pc = "store" => req'[s].seen \in Whole
               /\ req'[s].pc = "commit" =>
                      multipart'[req'[s].asset] = "completed"
    <2>1. CASE req'[s] = req[s] /\ ~CommitUploaded(s)
      BY <1>0, <1>1, <2>1, HeldRowsStay, UploadsAdvance DEF HoldersAreSound
    <2>2. CASE \E a \in Assets : /\ LockForComplete(s, a)
                                 /\ req'[s].pc = "list" /\ req'[s].asset = a
      BY <2>2 DEF LockForComplete, Completable
    <2>3. CASE /\ ListParts(s) /\ req'[s].pc = "store"
               /\ req'[s].asset = req[s].asset /\ req'[s].seen \in Whole
      BY <1>0, <2>3 DEF ListParts, HoldersAreSound
    <2>4. CASE /\ StoreParts(s) /\ req'[s].pc = "commit"
               /\ req'[s].asset = req[s].asset
      BY <1>0, <2>4 DEF StoreParts, Close, HoldersAreSound
    <2> QED
      BY <1>1, <2>1, <2>2, <2>3, <2>4, HolderHistory
  <1>2. ASSUME gc'.pc \in {"abort", "commit"}
        PROVE  /\ gc'.asset \in Assets /\ row'[gc'.asset] = "pending"
               /\ gc'.pc = "commit" => multipart'[gc'.asset] # "live"
    <2>1. CASE gc' = gc /\ ~GcCommit
      <3>1. /\ gc.asset \in Assets /\ row[gc.asset] = "pending"
            /\ gc.pc = "commit" => multipart[gc.asset] # "live"
            /\ LockedByCollector(gc.asset)
        BY <1>0, <1>2, <2>1 DEF HoldersAreSound, LockedByCollector
      <3>2. multipart[gc.asset] # "absent"
        BY <1>0, <3>1 DEF RowsHaveUploads
      <3> QED
        BY <2>1, <3>1, <3>2, HeldRowsStay, UploadsAdvance
    <2>2. CASE \E a \in Assets : /\ GcDelete(a) /\ row[a] = "pending"
                                 /\ gc'.pc = "abort" /\ gc'.asset = a
      BY <2>2 DEF GcDelete
    <2>3. CASE GcAbort /\ gc'.asset = gc.asset
      BY <1>0, <2>3 DEF GcAbort, AbortUpload, HoldersAreSound
    <2> QED
      BY <1>2, <2>1, <2>2, <2>3, CollectorHistory
  <1> QED
    BY <1>1, <1>2 DEF HoldersAreSound

\* The lock of a row is granted to one transaction at a time.
LEMMA RowsStayHeldByOne ==
  UploadInvariant /\ [Next]_vars => RowIsHeldByOne'
  <1> SUFFICES ASSUME UploadInvariant, [Next]_vars PROVE RowIsHeldByOne'
    OBVIOUS
  <1> USE Steps
  <1>0. RowIsHeldByOne
    BY DEF UploadInvariant
  <1> DEFINE Holds(s, a) == req[s].pc \in LockSteps /\ req[s].asset = a
  <1>1. ASSUME NEW s \in Requests, NEW a \in Assets, LockForComplete(s, a)
        PROVE  /\ ~Locked(a) /\ gc' = gc
               /\ \A q \in Requests \ {s} : req'[q] = req[q]
    BY <1>1 DEF LockForComplete, Completable, UploadInvariant, TypeOK, Become
  <1>2. ASSUME NEW s \in Requests, req'[s].pc \in LockSteps
        PROVE  \/ Holds(s, req'[s].asset)
               \/ \E a \in Assets : LockForComplete(s, a) /\ req'[s].asset = a
    BY <1>2, HolderHistory DEF ListParts, StoreParts
  <1>3. ASSUME NEW s \in Requests, NEW q \in Requests, NEW a,
               (Holds(s, a))', (Holds(q, a))'
        PROVE  q = s
    <2>1. CASE Holds(s, a) /\ Holds(q, a)
      BY <1>0, <2>1 DEF RowIsHeldByOne
    <2>2. CASE a \in Assets /\ LockForComplete(s, a)
      <3>1. Holds(q, a) => Locked(a)
        BY DEF Locked, LockedByRequest
      <3> QED
        BY <1>1, <1>3, <2>2, <3>1
    <2>3. CASE a \in Assets /\ LockForComplete(q, a)
      <3>1. Holds(s, a) => Locked(a)
        BY DEF Locked, LockedByRequest
      <3> QED
        BY <1>1, <1>3, <2>3, <3>1
    <2> QED
      BY <1>2, <1>3, <2>1, <2>2, <2>3
  <1>4. ASSUME NEW s \in Requests, NEW a, (Holds(s, a))',
               LockedByCollector(a)'
        PROVE  FALSE
    <2>1. /\ gc'.pc \in {"abort", "commit"} /\ gc'.asset = a
      BY <1>4 DEF LockedByCollector
    <2>2. CASE \E b \in Assets : GcDelete(b) /\ gc'.asset = b
      <3>1. a \in Assets /\ req' = req /\ ~Locked(a)
        BY <2>1, <2>2 DEF GcDelete
      <3> QED
        BY <1>4, <3>1 DEF Locked, LockedByRequest
    <2>3. CASE LockedByCollector(a)
      <3>1. CASE Holds(s, a)
        BY <1>0, <2>3, <3>1 DEF RowIsHeldByOne
      <3>2. CASE a \in Assets /\ LockForComplete(s, a)
        BY <1>1, <2>3, <3>2 DEF Locked
      <3> QED
        BY <1>2, <1>4, <3>1, <3>2
    <2>4. \/ LockedByCollector(a)
          \/ \E b \in Assets : GcDelete(b) /\ gc'.asset = b
      BY <2>1, CollectorHistory DEF LockedByCollector, GcAbort
    <2> QED
      BY <2>2, <2>3, <2>4
  <1> QED
    BY <1>3, <1>4 DEF RowIsHeldByOne

\* The index admits no second active row for a file.
LEMMA FilesStayUnique ==
  UploadInvariant /\ [Next]_vars => OneAssetPerFile'
  <1> SUFFICES ASSUME UploadInvariant, [Next]_vars PROVE OneAssetPerFile'
    OBVIOUS
  <1> DEFINE Counts(a) == row[a] \in {"pending", "uploaded"} /\ ~deleted[a]
             New(a) == /\ Active(file'[a]) = {} /\ deleted' = deleted
                       /\ \A b \in Assets \ {a} : /\ row'[b] = row[b]
                                                  /\ file'[b] = file[b]
  <1>0. /\ deleted \in [Assets -> BOOLEAN]
        /\ \A a, b \in Assets :
              Counts(a) /\ Counts(b) /\ file[a] = file[b] => a = b
    BY DEF UploadInvariant, TypeOK, OneAssetPerFile
  <1>1. ASSUME NEW a \in Assets, (Counts(a))'
        PROVE  (Counts(a) /\ file'[a] = file[a]) \/ New(a)
    <2>1. ~deleted[a]
      BY <1>0, <1>1, RemovalsAreRemoves DEF Remove
    <2>2. row[a] = "uploaded" => row'[a] = row[a] /\ file'[a] = file[a]
      BY RowsAdvance
    <2> QED
      BY <1>1, <2>1, <2>2, RowsAdvance
  <1>2. ASSUME NEW a \in Assets, NEW b \in Assets \ {a}, New(a),
               (Counts(b))', file'[a] = file'[b]
        PROVE  FALSE
    BY <1>2 DEF Active
  <1>3. ASSUME NEW a \in Assets, NEW b \in Assets, (Counts(a))',
               (Counts(b))', file'[a] = file'[b]
        PROVE  a = b
    <2> HIDE DEF Counts, New
    <2>1. CASE Counts(a) /\ file'[a] = file[a] /\ Counts(b)
                                               /\ file'[b] = file[b]
      BY <1>0, <1>3, <2>1
    <2>2. CASE New(a)
      BY <1>2, <1>3, <2>2
    <2>3. CASE New(b)
      BY <1>2, <1>3, <2>3
    <2> QED
      BY <1>1, <1>3, <2>1, <2>2, <2>3
  <1> QED
    BY <1>3 DEF OneAssetPerFile

\* UploadInvariant is inductive: every state of every execution satisfies it.
\* Neither the row lock nor the media_dedupe index is enough alone: what a
\* transaction knows of its row holds because nobody else holds that row, and
\* what the row promises because S3 never reopens a multipart upload.
THEOREM UploadInvariantHolds == Spec => []UploadInvariant
  <1>1. UploadInvariant /\ [Next]_vars => UploadInvariant'
    BY TypeIsKept, IntentsStaySound, OpenedUploadsStayFresh, RowsStaySound,
       HoldersStaySound, RowsStayHeldByOne, FilesStayUnique
       DEF UploadInvariant
  <1> QED
    BY <1>1, InvariantAtInit, PTL DEF Spec

\* An asset that is uploaded has an original of the declared size, for any
\* number of concurrent requests and whatever S3, Postgres and the browser do
\* between the list of parts and the commit.
THEOREM UploadsAreWhole == Spec => []UploadedHasOriginal
  <1>1. UploadInvariant => UploadedHasOriginal
    BY DEF UploadInvariant, RowsHaveUploads, UploadedHasOriginal
  <1> QED
    BY <1>1, UploadInvariantHolds, PTL

\* RF-UP-3: however many intents for one file race, at most one asset of the
\* library holds it.
THEOREM FilesAreUnique == Spec => []OneAssetPerFile
  <1>1. UploadInvariant => OneAssetPerFile
    BY DEF UploadInvariant
  <1> QED
    BY <1>1, UploadInvariantHolds, PTL

\* SELECT ... FOR UPDATE and the DELETE of the collector exclude each other
\* and themselves, across the S3 calls made while the lock is held.
THEOREM LocksExclude == Spec => []RowIsHeldByOne
  <1>1. UploadInvariant => RowIsHeldByOne
    BY DEF UploadInvariant
  <1> QED
    BY <1>1, UploadInvariantHolds, PTL

\* RF-UP-6: no multipart upload outlives the row the collector removed.
THEOREM CollectedLeaveNothing == Spec => []GoneLeavesNoMultipart
  <1>1. UploadInvariant => GoneLeavesNoMultipart
    BY DEF UploadInvariant
  <1> QED
    BY <1>1, UploadInvariantHolds, PTL

\* FollowsLifecycle: an upload leaves pending once, by complete and before its
\* owner removed it, however complete, remove and the collector interleave.
THEOREM UploadsFollowLifecycle == Spec => FollowsLifecycle
  <1> USE DEF Lifecycle!Move, Lifecycle!Discard, Lifecycle!MediaTransitions,
              Lifecycle!OpeningTransitions, Lifecycle!TransitionNames,
              Lifecycle!LifecycleInit, Lifecycle!LifecycleNext,
              Lifecycle!lifecycle
  <1>1. Init => Lifecycle!LifecycleInit
    BY DEF Init
  <1>2. ASSUME UploadInvariant, [Next]_vars
        PROVE  [Lifecycle!LifecycleNext]_(Lifecycle!lifecycle)
    <2>0. /\ row \in [Assets -> RowStates]
          /\ deleted \in [Assets -> BOOLEAN]
      BY <1>2 DEF UploadInvariant, TypeOK
    <2>1. ASSUME NEW a \in Assets, Remove(a) PROVE Lifecycle!Discard(a)
      BY <2>0, <2>1 DEF Remove
    <2>2. ASSUME NEW r \in Requests, CommitUploaded(r)
          PROVE  \E a \in Assets : Lifecycle!Move(a, "complete")
      <3>1. /\ req[r].asset \in Assets /\ row[req[r].asset] = "pending"
            /\ ~deleted[req[r].asset]
        BY <1>2, <2>2, Steps
           DEF CommitUploaded, UploadInvariant, HoldersAreSound
      <3>2. Lifecycle!Move(req[r].asset, "complete")
        BY <2>0, <2>2, <3>1 DEF CommitUploaded
      <3> QED
        BY <3>1, <3>2
    <2>3. CASE GcCommit
      <3>1. gc.asset \in Assets /\ row[gc.asset] = "pending"
        BY <1>2, <2>3 DEF GcCommit, UploadInvariant, HoldersAreSound
      <3>2. CASE deleted[gc.asset]
        BY <2>0, <2>3, <3>1, <3>2 DEF GcCommit
      <3>3. CASE ~deleted[gc.asset]
        <4>1. Lifecycle!Discard(gc.asset)
          BY <2>0, <2>3, <3>1, <3>3 DEF GcCommit
        <4> QED
          BY <3>1, <4>1
      <3> QED
        BY <3>2, <3>3
    <2>4. CASE /\ ~\E a \in Assets : Remove(a)
               /\ ~\E r \in Requests : CommitUploaded(r)
               /\ ~GcCommit
      <3>1. ASSUME NEW a \in Assets
            PROVE  /\ deleted'[a] = deleted[a]
                   /\ row'[a] = "uploaded" <=> row[a] = "uploaded"
                   /\ row'[a] = "gone" <=> row[a] = "gone"
        BY <1>2, <2>4, RowsAdvance, RemovalsAreRemoves
      <3> QED
        BY <3>1
    <2> QED
      BY <2>1, <2>2, <2>3, <2>4
  <1> QED
    BY <1>1, <1>2, UploadInvariantHolds, PTL
       DEF Spec, FollowsLifecycle, Lifecycle!LifecycleSpec
=============================================================================
