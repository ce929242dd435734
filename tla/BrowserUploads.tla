--------------------------- MODULE BrowserUploads ---------------------------
(***************************************************************************)
(* The uploads of one browser tab (apps/web/src/lib/media: uploads,        *)
(* multipart and hash; the cards and the drop zone that call them): a list *)
(* of files, a few sent at a time, each in parts on a few lanes, with new  *)
(* attempts, renewed URLs, cancellation and retries.  The API and the      *)
(* storage answer as they please (UploadSession is their side).            *)
(*                                                                         *)
(* A part is "put" while its PUT is in flight, "renew" while it waits for  *)
(* new URLs, "sleep" between attempts.                                     *)
(***************************************************************************)
EXTENDS Naturals, FiniteSets, Sequences, SequencesExt

CONSTANTS
    Items,                       \* ids of the files chosen
    Parts,                       \* part numbers of each file
    ParallelFiles, Lanes,        \* PARALLEL_FILES, UPLOAD_CONCURRENCY
    Attempts,                    \* PART_ATTEMPTS
    MaxRenewals, MaxRetries      \* bounds: renewals of the URLs, 'Tentar de novo'

ASSUME BrowserUploadsAssumption ==
    /\ {ParallelFiles, Lanes, Attempts} \subseteq Nat \ {0}
    /\ {MaxRenewals, MaxRetries} \subseteq Nat
    /\ Parts \subseteq Nat /\ Parts # {}
    /\ IsFiniteSet(Items) /\ IsFiniteSet(Parts)

VARIABLES
    shown,      \* the list of the tab: items in the order they were chosen
    item,       \* status, whether the file is kept (retry), and the retries made
    running,    \* the counter of pump
    controller, \* per item: "none", or whether its AbortController has fired
    part,       \* per item and part: its step, attempt, and the age of its URL
    urls        \* per item: the age of its URLs, and whether they are being renewed

uploadsVars == <<shown, item, running, controller, part, urls>>

Active == {"waiting", "hashing", "creating", "uploading", "finishing"}
Statuses == Active \cup {"duplicate", "failed", "cancelled", "done"}
NoPart == [step |-> "queued", attempt |-> 1, url |-> 0]
Unsent == [p \in Parts |-> NoPart]

BrowserUploadsTypeOK ==
    /\ \A k, l \in DOMAIN shown : shown[k] = shown[l] => k = l
    /\ item \in [Items -> [status: Statuses, file: BOOLEAN, retries: 0 .. MaxRetries]]
    /\ running \in 0 .. ParallelFiles
    /\ running = Cardinality({i \in Items : controller[i] # "none"})
    /\ part \in [Items -> [Parts -> [step: {"queued", "put", "renew", "sleep", "sent"},
                                     attempt: 1 .. Attempts, url: 0 .. MaxRenewals]]]
    /\ urls \in [Items -> [age: 0 .. MaxRenewals, renewing: BOOLEAN]]
    /\ \A i \in Items : Cardinality({p \in Parts : part[i][p].step \in {"put", "renew", "sleep"}}) <= Lanes

BrowserUploadsInit ==
    /\ shown = <<>>
    /\ item = [i \in Items |-> [status |-> "done", file |-> FALSE, retries |-> 0]]
    /\ running = 0
    /\ controller = [i \in Items |-> "none"]
    /\ part = [i \in Items |-> Unsent]
    /\ urls = [i \in Items |-> [age |-> 0, renewing |-> FALSE]]
-----------------------------------------------------------------------------
(* The list of files. *)

Status(i) == item[i].status

\* checkUploadIntent, with VIDEO_ENABLED off: the first rule that fails.
Files == [raw: BOOLEAN, kind: {"image", "video", "other"}, size: {"empty", "fits", "large"}]
UploadProblem(f) ==
    CASE f.size = "empty" -> "empty"
      [] f.raw -> "raw"
      [] f.kind = "other" -> "unsupported_type"
      [] f.kind = "video" -> "video_disabled"
      [] f.size = "large" -> "too_large"
      [] OTHER -> "none"

\* The files that pump starts, in the order of the list: a file that waits has
\* room left by the ones that wait before it.
Started(list, items, room) ==
    LET waiting == {i \in Items : items[i].status = "waiting" /\ controller[i] = "none"}
    IN  {list[k] : k \in {k \in DOMAIN list :
            list[k] \in waiting /\ Cardinality({l \in 1 .. k - 1 : list[l] \in waiting}) < room}}

\* pump: starts waiting files while there is room.
Pump(list, items, free) ==
    LET started == Started(list, items, ParallelFiles - (running - free))
    IN  /\ shown' = list
        /\ item' = [i \in Items |-> IF i \in started THEN [items[i] EXCEPT !.status = "hashing"] ELSE items[i]]
        /\ running' = running - free + Cardinality(started)
        /\ controller' = [i \in Items |->
              IF i \in started THEN "live"
              ELSE IF free = 1 /\ items[i] # item[i] THEN "none" ELSE controller[i]]

\* remove: the list without a file of it.
ListWithout(i) == RemoveAt(shown, CHOOSE k \in DOMAIN shown : shown[k] = i)

\* enqueueUploads: what fails the local rules is in the list as a failure.
Enqueue(i) ==
    /\ i \notin Range(shown) /\ Status(i) = "done"
    /\ item[i].retries = 0
    /\ \E f \in Files :
         Pump(Append(shown, i),
              [item EXCEPT ![i].status = IF UploadProblem(f) = "none" THEN "waiting" ELSE "failed",
                           ![i].file = UploadProblem(f) = "none",
                           ![i].retries = IF UploadProblem(f) = "none" THEN 0 ELSE MaxRetries],
              0)
    /\ UNCHANGED <<part, urls>>

\* retryUpload
Retry(i) ==
    /\ i \in Range(shown) /\ Status(i) \in {"failed", "cancelled"} /\ item[i].file
    /\ item[i].retries < MaxRetries
    /\ Pump(shown, [item EXCEPT ![i].status = "waiting", ![i].retries = @ + 1], 0)
    /\ UNCHANGED <<part, urls>>

\* cancelUpload: a file that is waiting is cancelled at once.
Cancel(i) ==
    /\ i \in Range(shown) /\ Status(i) \in Active
    /\ IF controller[i] = "none"
       THEN item' = [item EXCEPT ![i].status = "cancelled"] /\ UNCHANGED <<controller, part>>
       ELSE /\ controller' = [controller EXCEPT ![i] = "aborted"]
            \* putWithXhr aborts the PUT; the other lanes find out when they go on.
            /\ part' = [part EXCEPT ![i] = [p \in Parts |->
                   IF @[p].step = "put" THEN NoPart ELSE @[p]]]
            /\ UNCHANGED item
    /\ UNCHANGED <<shown, running, urls>>

Dismiss(i) ==
    /\ i \in Range(shown) /\ Status(i) \notin Active
    /\ shown' = ListWithout(i)
    /\ item' = [item EXCEPT ![i] = [status |-> "done", file |-> FALSE, retries |-> MaxRetries]]
    /\ UNCHANGED <<running, controller, part, urls>>
-----------------------------------------------------------------------------
(* run *)

Live(i) == controller[i] = "live"

\* Mutant: nothing is started in the place of the run that ends.
EndRunOnly(i, status, keep) ==
    /\ shown' = IF status = "done" THEN ListWithout(i) ELSE shown
    /\ item' = [item EXCEPT ![i].status = status, ![i].file = keep]
    /\ running' = running - 1
    /\ controller' = [controller EXCEPT ![i] = "none"]
    /\ part' = [part EXCEPT ![i] = Unsent]
    /\ urls' = [urls EXCEPT ![i] = [age |-> 0, renewing |-> FALSE]]

\* Mutant: the other lanes of a run that ends are not aborted.
EndRunUnaborted(i, status, keep) ==
    /\ Pump(IF status = "done" THEN ListWithout(i) ELSE shown,
            [item EXCEPT ![i].status = status, ![i].file = keep], 1)
    /\ urls' = [urls EXCEPT ![i] = [age |-> 0, renewing |-> FALSE]]
    /\ UNCHANGED part

\* The run of i ends: its controller is forgotten and the pump goes on.
EndRun(i, status, keep) ==
    /\ Pump(IF status = "done" THEN ListWithout(i) ELSE shown,
            [item EXCEPT ![i].status = status, ![i].file = keep], 1)
    /\ part' = [part EXCEPT ![i] = Unsent]
    /\ urls' = [urls EXCEPT ![i] = [age |-> 0, renewing |-> FALSE]]

Goes(i, from, to) ==
    /\ Status(i) = from /\ Live(i)
    /\ item' = [item EXCEPT ![i].status = to]
    /\ UNCHANGED <<shown, running, controller, part, urls>>

Hashed(i) == Goes(i, "hashing", "creating")

\* createUpload: a new or resumed upload, or a file the account already has.
Created(i) == Goes(i, "creating", "uploading")
Duplicate(i) == Status(i) = "creating" /\ Live(i) /\ EndRun(i, "duplicate", FALSE)

\* completeUpload answers: the list of the library has the asset.
Completed(i) == Status(i) = "finishing" /\ controller[i] # "none" /\ EndRun(i, "done", FALSE)

\* An error outside the parts, and the abort of the signal, end the run.
RunFails(i) ==
    /\ controller[i] # "none" /\ Status(i) \in {"hashing", "creating", "finishing"}
    /\ EndRun(i, IF Live(i) THEN "failed" ELSE "cancelled", item[i].file)
-----------------------------------------------------------------------------
(* uploadParts *)

Uploading(i) == controller[i] # "none" /\ Status(i) = "uploading"
SetPart(i, p, x) == part' = [part EXCEPT ![i][p] = x]
\* Mutant: a part that sleeps between attempts frees its lane.
AwakeInLanes(i) == {p \in Parts : part[i][p].step \in {"put", "renew"}}

InLanes(i) == {p \in Parts : part[i][p].step \in {"put", "renew", "sleep"}}

PutPart(i, p) ==
    SetPart(i, p, [part[i][p] EXCEPT !.step = "put", !.url = urls[i].age])

\* A free lane takes the next part of the queue.
TakePart(i) ==
    LET queued == {p \in Parts : part[i][p].step = "queued"}
    IN  /\ Uploading(i) /\ Live(i)
        /\ queued # {} /\ Cardinality(InLanes(i)) < Lanes
        /\ PutPart(i, CHOOSE p \in queued : \A q \in queued : p <= q)
        /\ UNCHANGED <<shown, item, running, controller, urls>>

PartSent(i, p) ==
    /\ Uploading(i) /\ part[i][p].step = "put"
    /\ SetPart(i, p, [part[i][p] EXCEPT !.step = "sent"])
    /\ UNCHANGED <<shown, item, running, controller, urls>>

\* A PUT fails, and the part has attempts left: with 403 and a URL that is
\* still the one used, it waits for new ones; one that is not is tried again.
PartFails(i, p) ==
    /\ Uploading(i) /\ Live(i)
    /\ part[i][p].step = "put" /\ part[i][p].attempt < Attempts
    /\ LET again == [part[i][p] EXCEPT !.attempt = @ + 1]
       IN  \/ SetPart(i, p, [again EXCEPT !.step = "sleep"]) /\ UNCHANGED urls
           \/ part[i][p].url # urls[i].age
              /\ SetPart(i, p, [again EXCEPT !.url = urls[i].age]) /\ UNCHANGED urls
           \/ part[i][p].url = urls[i].age /\ urls[i].age < MaxRenewals
              /\ SetPart(i, p, [again EXCEPT !.step = "renew"])
              /\ urls' = [urls EXCEPT ![i].renewing = TRUE]
    /\ UNCHANGED <<shown, item, running, controller>>

WakeUp(i, p) ==
    /\ Uploading(i) /\ Live(i) /\ part[i][p].step = "sleep"
    /\ PutPart(i, p)
    /\ UNCHANGED <<shown, item, running, controller, urls>>

\* refreshUrls: one call of createUpload for all the parts that wait for it.
Renewed(i) ==
    /\ Uploading(i) /\ Live(i) /\ urls[i].renewing
    /\ urls' = [urls EXCEPT ![i] = [age |-> @.age + 1, renewing |-> FALSE]]
    /\ part' = [part EXCEPT ![i] = [p \in Parts |->
          IF @[p].step = "renew" THEN [@[p] EXCEPT !.step = "put", !.url = urls[i].age + 1] ELSE @[p]]]
    /\ UNCHANGED <<shown, item, running, controller>>

\* The last attempt of a part, a renewal that fails, or the abort, stops the
\* upload: the other lanes are aborted.
UploadStops(i) ==
    /\ Uploading(i)
    /\ \/ ~Live(i)
       \/ urls[i].renewing
       \/ \E p \in Parts : part[i][p].step = "put" /\ part[i][p].attempt = Attempts
    /\ EndRun(i, IF Live(i) THEN "failed" ELSE "cancelled", item[i].file)

\* All the lanes are done.
PartsSent(i) ==
    /\ Uploading(i) /\ InLanes(i) = {}
    /\ \A p \in Parts : part[i][p].step = "sent"
    /\ item' = [item EXCEPT ![i].status = "finishing"]
    /\ UNCHANGED <<shown, running, controller, part, urls>>

BrowserUploadsNext ==
    \E i \in Items :
      \/ Enqueue(i) \/ Retry(i) \/ Cancel(i) \/ Dismiss(i)
      \/ Hashed(i) \/ Created(i) \/ Duplicate(i) \/ Completed(i) \/ RunFails(i)
      \/ TakePart(i) \/ Renewed(i) \/ UploadStops(i) \/ PartsSent(i)
      \/ \E p \in Parts : PartSent(i, p) \/ PartFails(i, p) \/ WakeUp(i, p)

BrowserUploadsSpec == BrowserUploadsInit /\ [][BrowserUploadsNext]_uploadsVars
-----------------------------------------------------------------------------
(* Properties. *)

\* A file waits only behind others: every way a run ends, and every retry,
\* lets the next file go (pump).
WaitingHasAReason ==
    (\E i \in Items : Status(i) = "waiting") => running = ParallelFiles

\* What stopped sends nothing: no PUT of a file that failed, was cancelled or
\* dismissed is in flight, whichever lane gave up first (uploadParts' abort).
StoppedSendsNothing == \A i \in Items, p \in Parts :
    part[i][p].step = "put" => Status(i) = "uploading" /\ Live(i)
=============================================================================
