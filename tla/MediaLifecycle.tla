--------------------------- MODULE MediaLifecycle ---------------------------
(***************************************************************************)
(* The promise made about one media asset (requisitos.md section 6 and     *)
(* MEDIA_TRANSITIONS): the state of the row only ever moves along the five *)
(* declared transitions.  The three that start new work (complete,         *)
(* startProcessing, retry) are reserved to assets the owner still has; the *)
(* two that end it (finish, fail) may also land on an asset that was       *)
(* removed while its job was running.  A removal is final.                 *)
(*                                                                         *)
(* UploadSession implements it up to "uploaded", MediaPipeline from there  *)
(* on; nothing here knows about S3, queues, workers, attempts or crashes.  *)
(***************************************************************************)
CONSTANT Media          \* asset ids

VARIABLES
    mstate,             \* media_assets.state
    deleted             \* media_assets.deleted_at IS NOT NULL

lifecycle == <<mstate, deleted>>

MediaStates == {"pending", "uploaded", "processing", "ready", "failed"}

\* MEDIA_TRANSITIONS: where each named transition starts and where it leads.
MediaTransitions ==
    [ complete        |-> [from |-> "pending",    to |-> "uploaded"],
      startProcessing |-> [from |-> "uploaded",   to |-> "processing"],
      finish          |-> [from |-> "processing", to |-> "ready"],
      fail            |-> [from |-> "processing", to |-> "failed"],
      retry           |-> [from |-> "failed",     to |-> "uploaded"] ]

TransitionNames == {"complete", "startProcessing", "finish", "fail", "retry"}

\* Transitions that begin work, refused on a removed asset.
OpeningTransitions == {"complete", "startProcessing", "retry"}

LifecycleTypeOK ==
    /\ mstate \in [Media -> MediaStates]
    /\ deleted \in [Media -> BOOLEAN]

LifecycleInit ==
    /\ mstate = [m \in Media |-> "pending"]
    /\ deleted = [m \in Media |-> FALSE]

Move(m, t) ==
    /\ t \in OpeningTransitions => ~deleted[m]
    /\ mstate[m] = MediaTransitions[t].from
    /\ mstate' = [mstate EXCEPT ![m] = MediaTransitions[t].to]
    /\ UNCHANGED deleted

Discard(m) ==
    /\ ~deleted[m]
    /\ deleted' = [deleted EXCEPT ![m] = TRUE]
    /\ UNCHANGED mstate

LifecycleNext ==
    \E m \in Media :
        \/ \E t \in TransitionNames : Move(m, t)
        \/ Discard(m)

LifecycleSpec == LifecycleInit /\ [][LifecycleNext]_lifecycle
=============================================================================
