-------------------------- MODULE DerivativeStore --------------------------
(***************************************************************************)
(* The files of one image job: the original that processImage downloads    *)
(* and verifies, the derivatives that uploadAll sends in some lanes, and   *)
(* the rows finishProcessing then writes, over the runs of the job         *)
(* (apps/worker-image, packages/storage).                                  *)
(*                                                                         *)
(* Promise.all gives up at the first lane that fails, but stops no other:  *)
(* the lanes of a run that failed send on while the next one runs.        *)
(* A PUT that was given up, or whose process died, may reach S3 late.      *)
(***************************************************************************)
EXTENDS Naturals, FiniteSets, Sequences, SequencesExt, Functions

CONSTANTS
    JobRuns,          \* 1 .. n: the attempts of the job, and those of its retries
    Sizes,            \* the derivatives, each a width and a format
    PutLanes,         \* UPLOAD_CONCURRENCY of them
    Encodings,        \* the bytes an encoder can make of a size
    StoredOriginals,  \* what the bucket of originals can hold under the key
    Declared          \* the one whose sha256 the intent declared

ASSUME DerivativeStoreAssumption ==
    /\ JobRuns \subseteq Nat /\ 1 \in JobRuns /\ PutLanes # {}
    /\ Declared \in StoredOriginals
    /\ IsFiniteSet(Sizes) /\ Sizes \cap {"none", "over"} = {}    \* NoSize, LaneOver

VARIABLES
    source,   \* the object under originalKey
    asset,    \* the state of its row, from processing on
    runs,     \* per run: its step, the bytes it made, queue and stored of uploadAll
    putting,  \* per run and lane, the size it sends
    late,     \* PUTs nobody waits for any more
    objects,  \* the bucket of derivatives: bytes per key
    records   \* media_derivatives of the asset

storeVars == <<source, asset, runs, putting, late, objects, records>>

\* Mutant: the key of a derivative without its hash.
DerivativeKeyOfSize(size, bytes) == <<size>>

\* storageKeys.derivative: the hash stands for the bytes.
DerivativeKey(size, bytes) == <<size, bytes>>

NoSize == "none"      \* a lane between two derivatives
LaneOver == "over"    \* a lane whose put failed
Row(size, bytes) == [size |-> size, bytes |-> bytes, key |-> DerivativeKey(size, bytes)]
Rows == {Row(size, bytes) : size \in Sizes, bytes \in Encodings}
Unstarted == [step |-> "waiting", made |-> <<>>, queue |-> <<>>, stored |-> <<>>]
Steps == {"waiting", "download", "work", "upload", "failed", "retry", "ready", "skipped", "dead"}

DerivativeStoreTypeOK ==
    /\ source \in StoredOriginals /\ asset \in {"processing", "ready", "failed"}
    /\ runs \in [JobRuns -> [step: Steps, made: [Sizes -> Encodings] \cup {<<>>},
                             queue: Seq(Sizes), stored: Seq(Rows)]]
    /\ putting \in [JobRuns -> [PutLanes -> Sizes \cup {NoSize, LaneOver}]]
    /\ late \subseteq Rows /\ records \subseteq Rows
    /\ Range(objects) \subseteq Encodings

DerivativeStoreInit ==
    /\ source \in StoredOriginals /\ asset = "processing"
    /\ runs = [a \in JobRuns |-> IF a = 1 THEN [Unstarted EXCEPT !.step = "download"] ELSE Unstarted]
    /\ putting = [a \in JobRuns |-> [l \in PutLanes |-> NoSize]]
    /\ late = {} /\ objects = <<>> /\ records = {}

At(a, steps) == runs[a].step \in steps
To(a, step) == runs' = [runs EXCEPT ![a].step = step]
Sends(a, l) == putting[a][l] \in Sizes
Sent(a, l) == Row(putting[a][l], runs[a].made[putting[a][l]])
Stores(put) ==
    objects' = [k \in DOMAIN objects \cup {put.key} |-> IF k = put.key THEN put.bytes ELSE objects[k]]
\* Promise.all: every lane is through.
Through(a) == runs[a].queue = <<>> /\ \A l \in PutLanes : putting[a][l] = NoSize
-----------------------------------------------------------------------------
\* The catch block: the job is retried later, or fails for good, and then the
\* asset with it (failProcessing, unless it left `processing`).
Fails(a, final) ==
    IF final THEN To(a, "failed") /\ asset' = (IF asset = "processing" THEN "failed" ELSE asset)
    ELSE To(a, "retry") /\ UNCHANGED asset

\* The next run of the asset: a retry, a run that takes over from a process that
\* died or lost the lock of the job, or another round its owner asked for.
NextRun(a) ==
    /\ At(a, {"waiting"}) /\ a - 1 \in JobRuns /\ ~At(a - 1, {"waiting"})
    /\ asset \in {"processing", "failed"} /\ asset' = "processing"
    /\ To(a, "download")
    /\ UNCHANGED <<source, putting, late, objects, records>>

\* downloadToFile: the stream ends, and the sha256 computed on the way decides.
DownloadEnds(a) ==
    /\ At(a, {"download"})
    /\ IF source = Declared THEN To(a, "work") /\ UNCHANGED asset ELSE Fails(a, TRUE)
    /\ UNCHANGED <<source, putting, late, objects, records>>

\* The stream breaks off or its deadline passes, the work fails, or the COMMIT.
JobRunFails(a) ==
    /\ At(a, {"download", "work", "upload"})
    /\ At(a, {"upload"}) => Through(a)
    /\ \E final \in BOOLEAN : Fails(a, final)
    /\ UNCHANGED <<source, putting, late, objects, records>>

\* Two runs need not encode to the same bytes.
BeginUpload(a) ==
    /\ At(a, {"work"})
    /\ \E bytes \in [Sizes -> Encodings] :
          runs' = [runs EXCEPT ![a] = [step |-> "upload", made |-> bytes,
                                       queue |-> SetToSeq(Sizes), stored |-> <<>>]]
    /\ UNCHANGED <<source, asset, putting, late, objects, records>>

\* queue.shift: also in a run that has failed already.
TakeNext(a, l) ==
    /\ putting[a][l] = NoSize /\ runs[a].queue # <<>> /\ ~At(a, {"dead"})
    /\ putting' = [putting EXCEPT ![a][l] = Head(runs[a].queue)]
    /\ runs' = [runs EXCEPT ![a].queue = Tail(@)]
    /\ UNCHANGED <<source, asset, late, objects, records>>

\* putObject is answered: the object is there, and its row is kept.
PutAnswered(a, l) ==
    /\ Sends(a, l)
    /\ Stores(Sent(a, l))
    /\ putting' = [putting EXCEPT ![a][l] = NoSize]
    /\ runs' = [runs EXCEPT ![a].stored = Append(@, Sent(a, l))]
    /\ UNCHANGED <<source, asset, late, records>>

\* putObject throws, by S3_TIMEOUT_MS or an error, with or without an effect to
\* come: the lane is over, and with the first one the run.
PutFails(a, l) ==
    /\ Sends(a, l)
    /\ late' \in {late, late \cup {Sent(a, l)}}
    /\ IF At(a, {"upload"}) THEN \E final \in BOOLEAN : Fails(a, final)
       ELSE UNCHANGED <<runs, asset>>
    /\ putting' = [putting EXCEPT ![a][l] = LaneOver]
    /\ UNCHANGED <<source, objects, records>>

PutArrives(put) ==
    /\ put \in late
    /\ Stores(put) /\ late' = late \ {put}
    /\ UNCHANGED <<source, asset, runs, putting, records>>

\* Mutant: the rows are inserted, with nothing to make two of a size one.
RowsAdded(rows) == records \cup rows

\* finishProcessing: the rows are upserted first, by size; the asset becomes ready
\* if it is still in `processing`, and the transaction commits in either case.
RowsWith(rows) == {r \in records : \A n \in rows : n.size # r.size} \cup rows

Persist(a) ==
    /\ At(a, {"upload"}) /\ Through(a)
    /\ records' = RowsWith(Range(runs[a].stored))
    /\ IF asset = "processing" THEN To(a, "ready") /\ asset' = "ready"
       ELSE To(a, "skipped") /\ UNCHANGED asset
    /\ UNCHANGED <<source, putting, late, objects>>

\* The process dies: what its lanes had sent may arrive.
RunDies(a) ==
    /\ At(a, {"download", "work", "upload", "retry"})
    /\ To(a, "dead")
    /\ \E arrive \in SUBSET {l \in PutLanes : Sends(a, l)} :
          late' = late \cup {Sent(a, l) : l \in arrive}
    /\ putting' = [putting EXCEPT ![a] = [l \in PutLanes |-> NoSize]]
    /\ UNCHANGED <<source, asset, objects, records>>

DerivativeStoreNext ==
    \/ \E a \in JobRuns :
          \/ NextRun(a) \/ DownloadEnds(a) \/ JobRunFails(a) \/ BeginUpload(a) \/ Persist(a) \/ RunDies(a)
          \/ \E l \in PutLanes : TakeNext(a, l) \/ PutAnswered(a, l) \/ PutFails(a, l)
    \/ \E put \in late : PutArrives(put)

DerivativeStoreSpec == DerivativeStoreInit /\ [][DerivativeStoreNext]_storeVars
-----------------------------------------------------------------------------
\* A ready asset comes from the original that was declared, has one row per
\* size, and each row describes the object that is served under its key, however
\* late the puts of an earlier run arrive (storageKeys.derivative, uploadAll).
RowsDescribeObjects ==
    asset = "ready" =>
        /\ source = Declared
        /\ {r.size : r \in records} = Sizes /\ Cardinality(records) = Cardinality(Sizes)
        /\ \A r \in records : r.key \in DOMAIN objects /\ objects[r.key] = r.bytes

Image == INSTANCE ServedImage WITH
    kept <- {[key |-> k, bytes |-> objects[k]] : k \in DOMAIN objects},
    served <- {<<r.size, objects[r.key]>> : r \in records}

\* Whoever loads the derivatives of an image finds the whole set of one run, and
\* the same bytes under a key for good (objects are served as immutable): runs
\* that overlap, fail or die, and PUTs that arrive after all that, never show a
\* part of a set, one mixed of two, or a change of what is published.
PublishesAtOnce == Image!ServedSpec
=============================================================================
