------------------------- MODULE ImageWorkerProofs --------------------------
(***************************************************************************)
(* What an image worker guarantees for every number of runs, lanes, sizes, *)
(* jobs, calls and threads.  StoreInvariant, of DerivativeStore, says where*)
(* the derivatives of a run are, that no key ever holds other bytes than   *)
(* those it is named after, and that what a run leaves in the table is     *)
(* whole.  PoolInvariant, of SsimPool, says that a call is in one place of *)
(* the pool and a thread in one, and counts the threads and the shares.    *)
(* DerivativesInvariant, of Derivatives, says what the search knows of the *)
(* qualities it has left, and where each width of the plan is.             *)
(* FilesInvariant, of ImageFiles, says what the walk of the directories has*)
(* still to see, and what is known of a file before each of its checks.    *)
(***************************************************************************)
EXTENDS DerivativeStore, Derivatives, SsimPool, ImageFiles, ListFacts,
        FiniteSetTheorems, SequenceTheorems, TLAPS

(* DerivativeStore. *)

Made(a) == runs[a].made \in [Sizes -> Encodings]
Clean(a) == runs[a].queue = <<>> /\ runs[a].stored = <<>> /\ \A l \in PutLanes : putting[a][l] = NoSize

\* A run sends nothing before it has made its derivatives.
OnlyMadeIsSent == \A a \in JobRuns :
    /\ At(a, {"waiting", "download", "work"}) => Clean(a)
    /\ ~Made(a) => Clean(a)
    /\ At(a, {"upload"}) => Made(a)

\* While a run uploads, every derivative is in its queue, in a lane or stored.
UploadsAreComplete == \A a \in JobRuns : At(a, {"upload"}) =>
    /\ \A l \in PutLanes : putting[a][l] # LaneOver
    /\ \A s \in Sizes :
          \/ s \in Range(runs[a].queue)
          \/ \E l \in PutLanes : putting[a][l] = s
          \/ \E r \in Range(runs[a].stored) : r.size = s

\* What a run has stored is there, as the run made it.
StoredIsThere == \A a \in JobRuns : \A r \in Range(runs[a].stored) :
    r = Row(r.size, runs[a].made[r.size]) /\ r.key \in DOMAIN objects

\* A key holds the bytes it is named after, whichever PUT came last.
ObjectsAreByContent == \A k \in DOMAIN objects : \E s \in Sizes, b \in Encodings :
    k = DerivativeKey(s, b) /\ objects[k] = b

SourceIsChecked ==
    \/ source = Declared
    \/ asset # "ready" /\ \A a \in JobRuns : ~At(a, {"work", "upload"})

\* The rows of the asset are those of one run, all of them, and their objects
\* are there.
RecordsAreWhole == asset = "ready" \/ records # {} =>
    \E bytes \in [Sizes -> Encodings] :
       /\ records = {Row(s, bytes[s]) : s \in Sizes}
       /\ \A s \in Sizes : DerivativeKey(s, bytes[s]) \in DOMAIN objects

StoreInvariant ==
    /\ DerivativeStoreTypeOK
    /\ OnlyMadeIsSent /\ UploadsAreComplete /\ StoredIsThere
    /\ ObjectsAreByContent /\ SourceIsChecked /\ RecordsAreWhole
-----------------------------------------------------------------------------
\* uploadAll queues every size once.
LEMMA SizesAreQueued == SetToSeq(Sizes) \in Seq(Sizes) /\ Range(SetToSeq(Sizes)) = Sizes
  <1> DEFINE n == Cardinality(Sizes)
  <1>1. n \in Nat /\ ExistsBijection(1 .. n, Sizes)
    BY FS_CardinalityType, DerivativeStoreAssumption
  <1>2. \E f \in [1 .. n -> Sizes] : IsInjective(f)
    BY <1>1 DEF ExistsBijection, Bijection, Injection
  <1>3. SetToSeq(Sizes) \in Injection(1 .. n, Sizes)
    BY <1>2 DEF SetToSeq, Injection
  <1>4. IsFiniteSet(1 .. n) /\ Cardinality(1 .. n) = n
    BY <1>1, FS_Interval
  <1>5. SetToSeq(Sizes) \in Surjection(1 .. n, Sizes)
    BY <1>3, <1>4, FS_Injection, DerivativeStoreAssumption
  <1> QED
    BY <1>1, <1>5 DEF Surjection, Range

LEMMA StoreInvariantAtStart == DerivativeStoreInit => StoreInvariant
  <1> SUFFICES ASSUME DerivativeStoreInit PROVE StoreInvariant
    OBVIOUS
  <1>1. \A a \in JobRuns :
           /\ runs[a].made = <<>> /\ runs[a].queue = <<>> /\ runs[a].stored = <<>>
           /\ runs[a].step \in {"waiting", "download"}
    BY DEF DerivativeStoreInit, Unstarted
  <1>2. DerivativeStoreTypeOK
    <2> DEFINE R == [step: Steps, made: [Sizes -> Encodings] \cup {<<>>}, queue: Seq(Sizes), stored: Seq(Rows)]
    <2>0. /\ Unstarted = [step |-> "waiting", made |-> <<>>, queue |-> <<>>, stored |-> <<>>]
          /\ [Unstarted EXCEPT !.step = "download"]
                = [step |-> "download", made |-> <<>>, queue |-> <<>>, stored |-> <<>>]
      BY DEF Unstarted
    <2>1. Unstarted \in R /\ [Unstarted EXCEPT !.step = "download"] \in R
      BY <2>0, EmptySeq DEF Steps
    <2>2. Range(objects) = {}
      BY DEF DerivativeStoreInit, Range
    <2> QED
      BY <2>1, <2>2 DEF DerivativeStoreInit, DerivativeStoreTypeOK
  <1>3. OnlyMadeIsSent /\ UploadsAreComplete
    BY <1>1 DEF DerivativeStoreInit, OnlyMadeIsSent, UploadsAreComplete, At, Clean
  <1>4. StoredIsThere /\ ObjectsAreByContent
    BY <1>1 DEF DerivativeStoreInit, StoredIsThere, ObjectsAreByContent, Range
  <1>5. SourceIsChecked /\ RecordsAreWhole
    BY <1>1 DEF DerivativeStoreInit, SourceIsChecked, RecordsAreWhole, At
  <1> QED
    BY <1>2, <1>3, <1>4, <1>5 DEF StoreInvariant

\* The row of a derivative a run sends.
LEMMA SentIsRow ==
  ASSUME StoreInvariant, NEW a \in JobRuns, NEW l \in PutLanes, Sends(a, l)
  PROVE  /\ putting[a][l] \in Sizes /\ Made(a) /\ ~At(a, {"waiting", "download", "work"})
         /\ Sent(a, l) \in Rows
         /\ Sent(a, l) = Row(putting[a][l], runs[a].made[putting[a][l]])
  <1>1. putting[a][l] \in Sizes /\ putting[a][l] # NoSize
    BY DerivativeStoreAssumption DEF Sends, NoSize
  <1>2. Made(a) /\ ~At(a, {"waiting", "download", "work"})
    BY <1>1 DEF StoreInvariant, OnlyMadeIsSent, Clean
  <1> QED
    BY <1>1, <1>2 DEF Sent, Rows, Made

\* Whatever PUT arrives, a key keeps holding the bytes it is named after.
LEMMA StoresByContent ==
  ASSUME StoreInvariant, NEW put \in Rows, Stores(put)
  PROVE  /\ DOMAIN objects' = DOMAIN objects \cup {put.key}
         /\ ObjectsAreByContent' /\ Range(objects') \subseteq Encodings
  <1>1. PICK s \in Sizes, b \in Encodings : put.key = DerivativeKey(s, b) /\ put.bytes = b
    BY DEF Rows, Row
  <1>2. /\ DOMAIN objects' = DOMAIN objects \cup {put.key}
        /\ \A k \in DOMAIN objects' : objects'[k] = IF k = put.key THEN b ELSE objects[k]
    BY <1>1 DEF Stores
  <1>3. ObjectsAreByContent'
    BY <1>1, <1>2 DEF StoreInvariant, ObjectsAreByContent
  <1>4. Range(objects') \subseteq Encodings
    BY <1>1, <1>2 DEF StoreInvariant, DerivativeStoreTypeOK, Range
  <1> QED
    BY <1>2, <1>3, <1>4

\* A run that changes in one field is still one.
LEMMA RunsKeepType ==
  ASSUME DerivativeStoreTypeOK, NEW a \in JobRuns
  PROVE  LET Runs == [JobRuns -> [step: Steps, made: [Sizes -> Encodings] \cup {<<>>},
                                  queue: Seq(Sizes), stored: Seq(Rows)]]
         IN  /\ \A s \in Steps : [runs EXCEPT ![a].step = s] \in Runs
             /\ \A q \in Seq(Sizes) : [runs EXCEPT ![a].queue = q] \in Runs
             /\ \A t \in Seq(Rows) : [runs EXCEPT ![a].stored = t] \in Runs
  <1> DEFINE M == [Sizes -> Encodings] \cup {<<>>}
             Q == Seq(Sizes)
             T == Seq(Rows)
  <1>1. runs \in [JobRuns -> [step: Steps, made: M, queue: Q, stored: T]]
    BY DEF DerivativeStoreTypeOK
  <1> HIDE DEF M, Q, T
  <1>2. /\ \A s \in Steps : [runs EXCEPT ![a].step = s] \in [JobRuns -> [step: Steps, made: M, queue: Q, stored: T]]
        /\ \A q \in Q : [runs EXCEPT ![a].queue = q] \in [JobRuns -> [step: Steps, made: M, queue: Q, stored: T]]
        /\ \A t \in T : [runs EXCEPT ![a].stored = t] \in [JobRuns -> [step: Steps, made: M, queue: Q, stored: T]]
    BY <1>1
  <1> QED
    BY <1>2 DEF M, Q, T

\* Every step leaves each variable in its type.
LEMMA StoreTypeIsKept == StoreInvariant /\ [DerivativeStoreNext]_storeVars => DerivativeStoreTypeOK'
  <1> SUFFICES ASSUME StoreInvariant, [DerivativeStoreNext]_storeVars PROVE DerivativeStoreTypeOK'
    OBVIOUS
  <1>0. /\ {"download", "work", "failed", "retry", "ready", "skipped", "dead"} \subseteq Steps
        /\ DerivativeStoreTypeOK
    BY DEF Steps, StoreInvariant
  <1>1. ASSUME NEW a \in JobRuns,
               NextRun(a) \/ DownloadEnds(a) \/ JobRunFails(a) \/ Persist(a) \/ RunDies(a)
               \/ \E l \in PutLanes : PutFails(a, l)
        PROVE  runs' = runs \/ \E s \in Steps : runs' = [runs EXCEPT ![a].step = s]
    BY <1>0, <1>1 DEF NextRun, DownloadEnds, JobRunFails, Persist, RunDies, PutFails, Fails, To
  <1> DEFINE Runs == [JobRuns -> [step: Steps, made: [Sizes -> Encodings] \cup {<<>>},
                                  queue: Seq(Sizes), stored: Seq(Rows)]]
  <1>2. ASSUME NEW a \in JobRuns,
               NextRun(a) \/ DownloadEnds(a) \/ JobRunFails(a) \/ Persist(a) \/ RunDies(a)
               \/ \E l \in PutLanes : PutFails(a, l)
        PROVE  runs' \in Runs
    <2>1. runs \in Runs /\ \A s \in Steps : [runs EXCEPT ![a].step = s] \in Runs
      BY <1>0, RunsKeepType DEF DerivativeStoreTypeOK
    <2> HIDE DEF Runs
    <2> QED
      BY <1>1, <1>2, <2>1
  <1>3. runs \in Runs
    BY <1>0 DEF DerivativeStoreTypeOK
  <1> HIDE DEF Runs
  <1>4. ASSUME NEW a \in JobRuns, BeginUpload(a) PROVE DerivativeStoreTypeOK'
    <2>1. PICK bytes \in [Sizes -> Encodings] :
             runs' = [runs EXCEPT ![a] = [step |-> "upload", made |-> bytes,
                                          queue |-> SetToSeq(Sizes), stored |-> <<>>]]
      BY <1>4 DEF BeginUpload
    <2>2. runs' \in Runs
      BY <1>3, <2>1, SizesAreQueued, EmptySeq DEF Runs, Steps
    <2> QED
      BY <1>0, <1>4, <2>2 DEF BeginUpload, DerivativeStoreTypeOK, Runs
  <1>5. ASSUME NEW a \in JobRuns, NextRun(a) \/ DownloadEnds(a) \/ JobRunFails(a)
        PROVE  DerivativeStoreTypeOK'
    BY <1>0, <1>2, <1>5 DEF NextRun, DownloadEnds, JobRunFails, Fails, DerivativeStoreTypeOK, Runs
  <1>6. ASSUME NEW a \in JobRuns, Persist(a) PROVE DerivativeStoreTypeOK'
    <2>1. Range(runs[a].stored) \subseteq Rows
      BY <1>3, RangeOfSeq DEF Runs
    <2> QED
      BY <1>0, <1>2, <1>6, <2>1 DEF Persist, RowsWith, DerivativeStoreTypeOK, Runs
  <1>7. ASSUME NEW a \in JobRuns, RunDies(a) PROVE DerivativeStoreTypeOK'
    BY <1>0, <1>2, <1>7, SentIsRow DEF RunDies, DerivativeStoreTypeOK, Runs
  <1>8. ASSUME NEW a \in JobRuns, NEW l \in PutLanes, TakeNext(a, l) PROVE DerivativeStoreTypeOK'
    <2>1. Head(runs[a].queue) \in Sizes /\ Tail(runs[a].queue) \in Seq(Sizes)
      BY <1>3, <1>8, HeadTailProperties DEF TakeNext, Runs
    <2>2. runs' \in Runs
      BY <1>0, <1>8, <2>1, RunsKeepType DEF TakeNext, Runs
    <2> QED
      BY <1>0, <1>8, <2>1, <2>2 DEF TakeNext, DerivativeStoreTypeOK, Runs
  <1>9. ASSUME NEW a \in JobRuns, NEW l \in PutLanes, PutAnswered(a, l) PROVE DerivativeStoreTypeOK'
    <2>1. Append(runs[a].stored, Sent(a, l)) \in Seq(Rows)
      BY <1>3, <1>9, SentIsRow, AppendProperties DEF PutAnswered, Runs
    <2>2. runs' \in Runs
      BY <1>0, <1>9, <2>1, RunsKeepType DEF PutAnswered, Runs
    <2>3. Range(objects') \subseteq Encodings
      BY <1>9, SentIsRow, StoresByContent DEF PutAnswered
    <2> QED
      BY <1>0, <1>9, <2>2, <2>3 DEF PutAnswered, DerivativeStoreTypeOK, Runs
  <1>10. ASSUME NEW a \in JobRuns, NEW l \in PutLanes, PutFails(a, l) PROVE DerivativeStoreTypeOK'
    <2>1. Sent(a, l) \in Rows
      BY <1>10, SentIsRow DEF PutFails
    <2>2. asset' \in {"processing", "ready", "failed"}
      BY <1>0, <1>10 DEF PutFails, Fails, DerivativeStoreTypeOK
    <2> QED
      BY <1>0, <1>2, <1>10, <2>1, <2>2 DEF PutFails, DerivativeStoreTypeOK, Runs
  <1>11. ASSUME NEW put \in late, PutArrives(put) PROVE DerivativeStoreTypeOK'
    <2>1. put \in Rows
      BY <1>0 DEF DerivativeStoreTypeOK
    <2> QED
      BY <1>0, <1>11, <2>1, StoresByContent DEF PutArrives, DerivativeStoreTypeOK
  <1>12. CASE UNCHANGED storeVars
    BY <1>0, <1>12 DEF storeVars, DerivativeStoreTypeOK
  <1> QED
    BY <1>4, <1>5, <1>6, <1>7, <1>8, <1>9, <1>10, <1>11, <1>12 DEF DerivativeStoreNext

\* A step is of one run, which leaves the others alone, or of a late PUT.
LEMMA OneRunSteps ==
  ASSUME StoreInvariant, [DerivativeStoreNext]_storeVars
  PROVE  \/ UNCHANGED <<runs, putting>>
         \/ \E a \in JobRuns :
              /\ \A b \in JobRuns \ {a} : runs'[b] = runs[b] /\ putting'[b] = putting[b]
              /\ \/ /\ UNCHANGED putting
                    /\ NextRun(a) \/ DownloadEnds(a) \/ JobRunFails(a) \/ BeginUpload(a) \/ Persist(a)
                 \/ RunDies(a)
                 \/ \E l \in PutLanes : TakeNext(a, l) \/ PutAnswered(a, l) \/ PutFails(a, l)
  <1> USE DEF StoreInvariant, DerivativeStoreTypeOK, To, Fails
  <1>1. ASSUME NEW a \in JobRuns, NextRun(a) \/ DownloadEnds(a) \/ JobRunFails(a)
        PROVE  (\A b \in JobRuns \ {a} : runs'[b] = runs[b]) /\ UNCHANGED putting
    BY <1>1 DEF NextRun, DownloadEnds, JobRunFails
  <1>2. ASSUME NEW a \in JobRuns, BeginUpload(a) \/ Persist(a)
        PROVE  (\A b \in JobRuns \ {a} : runs'[b] = runs[b]) /\ UNCHANGED putting
    BY <1>2 DEF BeginUpload, Persist
  <1>3. ASSUME NEW a \in JobRuns, RunDies(a)
        PROVE  \A b \in JobRuns \ {a} : runs'[b] = runs[b] /\ putting'[b] = putting[b]
    BY <1>3 DEF RunDies
  <1>4. ASSUME NEW a \in JobRuns, NEW l \in PutLanes, TakeNext(a, l) \/ PutAnswered(a, l) \/ PutFails(a, l)
        PROVE  \A b \in JobRuns \ {a} : runs'[b] = runs[b] /\ putting'[b] = putting[b]
    BY <1>4 DEF TakeNext, PutAnswered, PutFails
  <1>5. ASSUME NEW put \in late, PutArrives(put) PROVE UNCHANGED <<runs, putting>>
    BY <1>5 DEF PutArrives
  <1>6. CASE UNCHANGED storeVars
    BY <1>6 DEF storeVars
  <1> QED
    BY <1>1, <1>2, <1>3, <1>4, <1>5, <1>6 DEF DerivativeStoreNext

\* Only a run that has made its derivatives sends any.
LEMMA OnlyMadeStaysSent == StoreInvariant /\ [DerivativeStoreNext]_storeVars => OnlyMadeIsSent'
  <1> DEFINE Good(b) == /\ At(b, {"waiting", "download", "work"}) => Clean(b)
                        /\ ~Made(b) => Clean(b)
                        /\ At(b, {"upload"}) => Made(b)
  <1> SUFFICES ASSUME StoreInvariant, [DerivativeStoreNext]_storeVars, NEW b \in JobRuns
               PROVE  Good(b)'
    BY DEF OnlyMadeIsSent
  <1>0. Good(b) /\ DerivativeStoreTypeOK
    BY DEF StoreInvariant, OnlyMadeIsSent
  <1>1. ASSUME runs'[b] = runs[b], putting'[b] = putting[b] PROVE Good(b)'
    BY <1>0, <1>1 DEF Made, Clean, At
  <1>2. ASSUME runs' = [runs EXCEPT ![b].step = "failed"] \/ runs' = [runs EXCEPT ![b].step = "retry"],
               UNCHANGED putting
        PROVE  Good(b)'
    BY <1>0, <1>2 DEF Made, Clean, At, DerivativeStoreTypeOK
  <1>3. CASE NextRun(b)
    BY <1>0, <1>3 DEF NextRun, To, Made, Clean, At, DerivativeStoreTypeOK
  <1>4. CASE DownloadEnds(b)
    <2>1. CASE source = Declared
      BY <1>0, <1>4, <2>1 DEF DownloadEnds, To, Made, Clean, At, DerivativeStoreTypeOK
    <2>2. CASE source # Declared
      BY <1>2, <1>4, <2>2 DEF DownloadEnds, Fails, To
    <2> QED
      BY <2>1, <2>2
  <1>5. CASE JobRunFails(b)
    BY <1>2, <1>5 DEF JobRunFails, Fails, To
  <1>6. CASE BeginUpload(b)
    BY <1>0, <1>6 DEF BeginUpload, Made, Clean, At, DerivativeStoreTypeOK
  <1>7. CASE Persist(b)
    <2>1. Made(b) /\ (runs' = [runs EXCEPT ![b].step = "ready"] \/ runs' = [runs EXCEPT ![b].step = "skipped"])
      BY <1>0, <1>7 DEF Persist, To
    <2> QED
      BY <1>0, <2>1 DEF Made, At, DerivativeStoreTypeOK
  <1>8. CASE RunDies(b)
    BY <1>0, <1>8 DEF RunDies, To, Made, Clean, At, DerivativeStoreTypeOK
  <1>9. ASSUME NEW l \in PutLanes, TakeNext(b, l) PROVE Good(b)'
    BY <1>0, <1>9 DEF TakeNext, Made, Clean, At, DerivativeStoreTypeOK
  <1>10. ASSUME NEW l \in PutLanes, PutAnswered(b, l) PROVE Good(b)'
    BY <1>0, <1>10, SentIsRow DEF PutAnswered, Made, At, DerivativeStoreTypeOK
  <1>11. ASSUME NEW l \in PutLanes, PutFails(b, l) PROVE Good(b)'
    <2>1. \/ runs' = runs /\ ~At(b, {"upload"})
          \/ runs' = [runs EXCEPT ![b].step = "failed"] \/ runs' = [runs EXCEPT ![b].step = "retry"]
      BY <1>11 DEF PutFails, Fails, To
    <2>2. Made(b) /\ ~At(b, {"waiting", "download", "work"})
      BY <1>11, SentIsRow DEF PutFails
    <2>3. Made(b)' /\ runs'[b].step \notin {"waiting", "download", "work"}
      BY <1>0, <2>1, <2>2 DEF Made, At, DerivativeStoreTypeOK
    <2>4. runs'[b].step # "upload" \/ Made(b)'
      BY <2>3
    <2> QED
      BY <2>3, <2>4 DEF At
  <1> HIDE DEF Good
  <1> QED
    BY <1>1, <1>3, <1>4, <1>5, <1>6, <1>7, <1>8, <1>9, <1>10, <1>11, OneRunSteps

\* The first of a queue, or one of the others.
LEMMA HeadOrTail ==
  ASSUME NEW S, NEW q \in Seq(S), q # <<>>, NEW x \in Range(q)
  PROVE  x = Head(q) \/ x \in Range(Tail(q))
  <1>1. PICK i \in 1 .. Len(q) : x = q[i]
    BY LenProperties DEF Range
  <1>2. CASE i = 1
    BY <1>1, <1>2
  <1>3. CASE i # 1
    <2>1. /\ Tail(q) \in Seq(S) /\ Len(Tail(q)) = Len(q) - 1 /\ Len(q) \in Nat
          /\ \A k \in 1 .. Len(Tail(q)) : Tail(q)[k] = q[k + 1]
      BY HeadTailProperties, LenProperties
    <2>2. i - 1 \in 1 .. Len(Tail(q)) /\ Tail(q)[i - 1] = x
      BY <1>1, <1>3, <2>1
    <2> QED
      BY <2>1, <2>2, LenProperties DEF Range
  <1> QED
    BY <1>2, <1>3

\* The range of a sequence with one more element.
LEMMA RangeOfAppend ==
  ASSUME NEW S, NEW q \in Seq(S), NEW x \in S
  PROVE  Range(Append(q, x)) = Range(q) \cup {x}
  <1>1. /\ Append(q, x) \in Seq(S) /\ Len(Append(q, x)) = Len(q) + 1 /\ Len(q) \in Nat
        /\ \A i \in 1 .. Len(q) : Append(q, x)[i] = q[i]
        /\ Append(q, x)[Len(q) + 1] = x
    BY AppendProperties, LenProperties
  <1>2. DOMAIN q = 1 .. Len(q) /\ DOMAIN Append(q, x) = 1 .. (Len(q) + 1)
    BY <1>1, LenProperties
  <1> QED
    BY <1>1, <1>2 DEF Range

\* A derivative leaves the queue for a lane, and the lane for the rows.
LEMMA UploadsStayComplete == StoreInvariant /\ [DerivativeStoreNext]_storeVars => UploadsAreComplete'
  <1> DEFINE Good(b) == At(b, {"upload"}) =>
        /\ \A l \in PutLanes : putting[b][l] # LaneOver
        /\ \A s \in Sizes :
              \/ s \in Range(runs[b].queue)
              \/ \E l \in PutLanes : putting[b][l] = s
              \/ \E r \in Range(runs[b].stored) : r.size = s
  <1> SUFFICES ASSUME StoreInvariant, [DerivativeStoreNext]_storeVars, NEW b \in JobRuns
               PROVE  Good(b)'
    BY DEF UploadsAreComplete
  <1>0. Good(b) /\ DerivativeStoreTypeOK
    BY DEF StoreInvariant, UploadsAreComplete
  <1>1. ASSUME runs'[b] = runs[b], putting'[b] = putting[b] PROVE Good(b)'
    BY <1>0, <1>1 DEF At
  <1>2. ASSUME NextRun(b) \/ DownloadEnds(b) \/ JobRunFails(b) \/ Persist(b) \/ RunDies(b)
        PROVE  ~At(b, {"upload"})'
    BY <1>0, <1>2 DEF NextRun, DownloadEnds, JobRunFails, Persist, RunDies, Fails, To, At, DerivativeStoreTypeOK
  <1>3. ASSUME NEW l \in PutLanes, PutFails(b, l) PROVE ~At(b, {"upload"})'
    BY <1>0, <1>3 DEF PutFails, Fails, To, At, DerivativeStoreTypeOK
  <1>4. CASE BeginUpload(b)
    <2>1. runs'[b].queue = SetToSeq(Sizes) /\ putting' = putting
      BY <1>0, <1>4 DEF BeginUpload, DerivativeStoreTypeOK
    <2>2. \A l \in PutLanes : putting[b][l] = NoSize
      BY <1>4 DEF BeginUpload, StoreInvariant, OnlyMadeIsSent, Clean, At
    <2> QED
      BY <2>1, <2>2, SizesAreQueued DEF NoSize, LaneOver
  <1>5. ASSUME NEW l \in PutLanes, TakeNext(b, l) PROVE Good(b)'
    <2>1. /\ runs[b].queue \in Seq(Sizes) /\ runs[b].queue # <<>> /\ putting[b][l] = NoSize
          /\ putting'[b] = [putting[b] EXCEPT ![l] = Head(runs[b].queue)]
          /\ runs'[b] = [runs[b] EXCEPT !.queue = Tail(runs[b].queue)]
      BY <1>0, <1>5 DEF TakeNext, DerivativeStoreTypeOK
    <2>2. Head(runs[b].queue) \in Sizes /\ NoSize \notin Sizes /\ LaneOver \notin Sizes
      BY <2>1, HeadTailProperties, DerivativeStoreAssumption DEF NoSize, LaneOver
    <2>3. \A s \in Range(runs[b].queue) : s = Head(runs[b].queue) \/ s \in Range(Tail(runs[b].queue))
      BY <2>1, HeadOrTail
    <2>4. /\ runs'[b].step = runs[b].step /\ runs'[b].stored = runs[b].stored
          /\ runs'[b].queue = Tail(runs[b].queue)
          /\ putting'[b][l] = Head(runs[b].queue)
          /\ \A m \in PutLanes : m # l => putting'[b][m] = putting[b][m]
      BY <1>0, <2>1 DEF DerivativeStoreTypeOK
    <2> QED
      BY <1>0, <2>1, <2>2, <2>3, <2>4 DEF At
  <1>6. ASSUME NEW l \in PutLanes, PutAnswered(b, l) PROVE Good(b)'
    <2>1. /\ runs[b].stored \in Seq(Rows) /\ Sent(b, l) \in Rows /\ Sent(b, l).size = putting[b][l]
          /\ putting'[b] = [putting[b] EXCEPT ![l] = NoSize]
          /\ runs'[b] = [runs[b] EXCEPT !.stored = Append(runs[b].stored, Sent(b, l))]
      BY <1>0, <1>6, SentIsRow DEF PutAnswered, DerivativeStoreTypeOK, Row
    <2>2. Range(Append(runs[b].stored, Sent(b, l))) = Range(runs[b].stored) \cup {Sent(b, l)}
      BY <2>1, RangeOfAppend
    <2>3. /\ runs'[b].step = runs[b].step /\ runs'[b].queue = runs[b].queue
          /\ runs'[b].stored = Append(runs[b].stored, Sent(b, l))
          /\ putting'[b][l] = NoSize
          /\ \A m \in PutLanes : m # l => putting'[b][m] = putting[b][m]
      BY <1>0, <2>1 DEF DerivativeStoreTypeOK
    <2> QED
      BY <1>0, <2>1, <2>2, <2>3 DEF At, NoSize, LaneOver
  <1> HIDE DEF Good
  <1>7. ~At(b, {"upload"})' => Good(b)'
    BY DEF Good
  <1> QED
    BY <1>1, <1>2, <1>3, <1>4, <1>5, <1>6, <1>7, OneRunSteps

\* What a run has stored stays as it made it.
LEMMA StoredStaysThere == StoreInvariant /\ [DerivativeStoreNext]_storeVars =>
    StoredIsThere' /\ ObjectsAreByContent' /\ DOMAIN objects \subseteq DOMAIN objects'
  <1> SUFFICES ASSUME StoreInvariant, [DerivativeStoreNext]_storeVars
               PROVE  StoredIsThere' /\ ObjectsAreByContent' /\ DOMAIN objects \subseteq DOMAIN objects'
    OBVIOUS
  <1>0. DerivativeStoreTypeOK /\ StoredIsThere
    BY DEF StoreInvariant
  <1>1. \/ UNCHANGED objects
        \/ \E put \in late : PutArrives(put)
        \/ \E a \in JobRuns, l \in PutLanes : PutAnswered(a, l)
    BY DEF DerivativeStoreNext, storeVars, NextRun, DownloadEnds, JobRunFails, BeginUpload, Persist,
       RunDies, TakeNext, PutFails
  <1>2. ObjectsAreByContent' /\ DOMAIN objects \subseteq DOMAIN objects'
    <2>1. CASE UNCHANGED objects
      BY <2>1 DEF StoreInvariant, ObjectsAreByContent
    <2>2. ASSUME NEW put \in late, PutArrives(put)
          PROVE  ObjectsAreByContent' /\ DOMAIN objects \subseteq DOMAIN objects'
      BY <1>0, <2>2, StoresByContent DEF PutArrives, DerivativeStoreTypeOK
    <2>3. ASSUME NEW a \in JobRuns, NEW l \in PutLanes, PutAnswered(a, l)
          PROVE  ObjectsAreByContent' /\ DOMAIN objects \subseteq DOMAIN objects'
      BY <2>3, SentIsRow, StoresByContent DEF PutAnswered
    <2> QED
      BY <1>1, <2>1, <2>2, <2>3
  <1>3. ASSUME NEW b \in JobRuns, NEW r \in Range(runs'[b].stored)
        PROVE  r = Row(r.size, runs'[b].made[r.size]) /\ r.key \in DOMAIN objects'
    <2>1. CASE runs'[b].stored = runs[b].stored /\ runs'[b].made = runs[b].made
      BY <1>0, <1>2, <1>3, <2>1 DEF StoredIsThere
    <2>2. CASE BeginUpload(b)
      <3>1. runs'[b].stored = <<>>
        BY <1>0, <2>2 DEF BeginUpload, DerivativeStoreTypeOK
      <3> QED
        BY <1>3, <3>1 DEF Range
    <2>3. ASSUME NEW l \in PutLanes, PutAnswered(b, l)
          PROVE  r = Row(r.size, runs'[b].made[r.size]) /\ r.key \in DOMAIN objects'
      <3>1. /\ runs[b].stored \in Seq(Rows) /\ Sent(b, l) \in Rows
            /\ Sent(b, l) = Row(Sent(b, l).size, runs[b].made[Sent(b, l).size])
        BY <1>0, <2>3, SentIsRow DEF PutAnswered, DerivativeStoreTypeOK, Row
      <3>2. runs'[b].made = runs[b].made /\ runs'[b].stored = Append(runs[b].stored, Sent(b, l))
        BY <1>0, <2>3 DEF PutAnswered, DerivativeStoreTypeOK
      <3>3. Sent(b, l).key \in DOMAIN objects'
        BY <2>3, <3>1, StoresByContent DEF PutAnswered
      <3>4. CASE r = Sent(b, l)
        BY <3>1, <3>2, <3>3, <3>4
      <3>5. CASE r # Sent(b, l)
        <4>1. r \in Range(runs[b].stored)
          BY <1>3, <3>1, <3>2, <3>5, RangeOfAppend
        <4> QED
          BY <1>0, <1>2, <3>2, <4>1 DEF StoredIsThere
      <3> QED
        BY <3>4, <3>5
    <2>4. ASSUME NextRun(b) \/ DownloadEnds(b) \/ JobRunFails(b) \/ Persist(b) \/ RunDies(b)
                 \/ \E l \in PutLanes : TakeNext(b, l) \/ PutFails(b, l)
          PROVE  runs'[b].stored = runs[b].stored /\ runs'[b].made = runs[b].made
      BY <1>0, <2>4 DEF NextRun, DownloadEnds, JobRunFails, Persist, RunDies, TakeNext, PutFails, Fails, To,
         DerivativeStoreTypeOK
    <2> QED
      BY <2>1, <2>2, <2>3, <2>4, OneRunSteps
  <1> QED
    BY <1>2, <1>3 DEF StoredIsThere

\* What a run whose lanes are through leaves in the table: one row per size.
LEMMA PersistedIsWhole ==
  ASSUME StoreInvariant, NEW a \in JobRuns, Persist(a)
  PROVE  /\ Made(a) /\ records' = {Row(s, runs[a].made[s]) : s \in Sizes}
         /\ \A s \in Sizes : DerivativeKey(s, runs[a].made[s]) \in DOMAIN objects
  <1> DEFINE stored == Range(runs[a].stored)
  <1>0. /\ At(a, {"upload"}) /\ Through(a) /\ records' = RowsWith(stored) /\ Made(a)
        /\ DerivativeStoreTypeOK
    BY DEF Persist, StoreInvariant, OnlyMadeIsSent
  <1>1. /\ stored \subseteq Rows /\ records \subseteq Rows
        /\ \A r \in stored : r.size \in Sizes /\ r = Row(r.size, runs[a].made[r.size]) /\ r.key \in DOMAIN objects
    <2>1. stored \subseteq Rows /\ records \subseteq Rows
      BY <1>0, RangeOfSeq DEF DerivativeStoreTypeOK
    <2>2. \A r \in Rows : r.size \in Sizes
      BY DEF Rows, Row
    <2> QED
      BY <2>1, <2>2 DEF StoreInvariant, StoredIsThere
  <1>2. ASSUME NEW s \in Sizes PROVE \E r \in stored : r.size = s
    <2>1. Range(runs[a].queue) = {} /\ \A l \in PutLanes : putting[a][l] # s
      BY <1>0, DerivativeStoreAssumption DEF Through, Range, NoSize
    <2> QED
      BY <1>0, <2>1 DEF StoreInvariant, UploadsAreComplete
  <1>3. stored = {Row(s, runs[a].made[s]) : s \in Sizes}
    BY <1>1, <1>2
  <1>4. records' = stored
    <2>1. \A r \in records : r.size \in Sizes
      BY <1>1 DEF Rows, Row
    <2> QED
      BY <1>0, <1>2, <2>1 DEF RowsWith
  <1>5. ASSUME NEW s \in Sizes PROVE DerivativeKey(s, runs[a].made[s]) \in DOMAIN objects
    <2>1. Row(s, runs[a].made[s]) \in stored
      BY <1>3
    <2> QED
      BY <1>1, <2>1 DEF Row
  <1> QED
    BY <1>0, <1>3, <1>4, <1>5

\* The table keeps whole sets of rows, and only of the original declared.
LEMMA RecordsStayWhole == StoreInvariant /\ [DerivativeStoreNext]_storeVars =>
    SourceIsChecked' /\ RecordsAreWhole'
  <1> SUFFICES ASSUME StoreInvariant, [DerivativeStoreNext]_storeVars
               PROVE  SourceIsChecked' /\ RecordsAreWhole'
    OBVIOUS
  <1>0. /\ DerivativeStoreTypeOK /\ SourceIsChecked /\ RecordsAreWhole
        /\ DOMAIN objects \subseteq DOMAIN objects'
    BY StoredStaysThere DEF StoreInvariant
  <1>1. source' = source
    BY DEF DerivativeStoreNext, storeVars, NextRun, DownloadEnds, JobRunFails, BeginUpload, Persist,
       RunDies, TakeNext, PutAnswered, PutFails, PutArrives
  <1>2. CASE \E a \in JobRuns : Persist(a)
    <2>1. PICK a \in JobRuns : Persist(a)
      BY <1>2
    <2>2. RecordsAreWhole'
      BY <1>0, <2>1, PersistedIsWhole DEF RecordsAreWhole, Made
    <2>3. source = Declared
      BY <1>0, <2>1 DEF SourceIsChecked, Persist, At
    <2> QED
      BY <1>1, <2>2, <2>3 DEF SourceIsChecked
  <1>3. CASE ~\E a \in JobRuns : Persist(a)
    <2>1. records' = records /\ (asset' = "ready" => asset = "ready")
      BY <1>3 DEF DerivativeStoreNext, storeVars, NextRun, DownloadEnds, JobRunFails, BeginUpload,
         RunDies, TakeNext, PutAnswered, PutFails, PutArrives, Fails
    <2>2. RecordsAreWhole'
      BY <1>0, <2>1 DEF RecordsAreWhole
    <2>3. ASSUME source # Declared, NEW b \in JobRuns PROVE ~At(b, {"work", "upload"})'
      <3>1. ~At(b, {"work", "upload"})
        BY <1>0, <2>3 DEF SourceIsChecked
      <3>2. CASE runs'[b] = runs[b]
        BY <3>1, <3>2 DEF At
      <3>3. ASSUME NextRun(b) \/ DownloadEnds(b) \/ JobRunFails(b) \/ BeginUpload(b) \/ RunDies(b)
            PROVE  ~At(b, {"work", "upload"})'
        BY <1>0, <2>3, <3>1, <3>3 DEF NextRun, DownloadEnds, JobRunFails, BeginUpload, RunDies, Fails, To, At,
           DerivativeStoreTypeOK
      <3>4. ASSUME NEW l \in PutLanes, TakeNext(b, l) \/ PutAnswered(b, l) \/ PutFails(b, l)
            PROVE  ~At(b, {"work", "upload"})'
        BY <1>0, <3>1, <3>4 DEF TakeNext, PutAnswered, PutFails, Fails, To, At, DerivativeStoreTypeOK
      <3> QED
        BY <1>3, <3>2, <3>3, <3>4, OneRunSteps
    <2> QED
      BY <1>0, <1>1, <2>1, <2>2, <2>3 DEF SourceIsChecked
  <1> QED
    BY <1>2, <1>3
-----------------------------------------------------------------------------
\* The inductive invariant of the files of an image job.
THEOREM StoreInvariantHolds == DerivativeStoreSpec => []StoreInvariant
  <1>1. StoreInvariant /\ [DerivativeStoreNext]_storeVars => StoreInvariant'
    BY StoreTypeIsKept, OnlyMadeStaysSent, UploadsStayComplete, StoredStaysThere, RecordsStayWhole
       DEF StoreInvariant
  <1> QED
    BY StoreInvariantAtStart, <1>1, PTL DEF DerivativeStoreSpec

\* There are as many rows as sizes.
LEMMA OneRowPerSize ==
  ASSUME NEW bytes \in [Sizes -> Encodings]
  PROVE  Cardinality({Row(s, bytes[s]) : s \in Sizes}) = Cardinality(Sizes)
  <1> DEFINE rows == {Row(s, bytes[s]) : s \in Sizes}
             f == [s \in Sizes |-> Row(s, bytes[s])]
  <1>1. f \in [Sizes -> rows] /\ \A r \in rows : \E s \in Sizes : f[s] = r
    OBVIOUS
  <1>2. \A s, t \in Sizes : f[s] = f[t] => s = t
    BY DEF Row
  <1>3. ExistsBijection(Sizes, rows)
    BY <1>1, <1>2 DEF ExistsBijection, Bijection, Injection, Surjection, IsInjective
  <1> QED
    BY <1>3, FS_Bijection, DerivativeStoreAssumption

\* Whatever runs overlap, die or fail, and however late their PUTs reach the
\* bucket: an asset that is ready comes from the original that was declared,
\* has one row per size, and each row describes the object under its key.
THEOREM RowsAlwaysDescribeObjects == DerivativeStoreSpec => []RowsDescribeObjects
  <1>1. StoreInvariant => RowsDescribeObjects
    <2> SUFFICES ASSUME StoreInvariant, asset = "ready"
                 PROVE  /\ source = Declared
                        /\ {r.size : r \in records} = Sizes /\ Cardinality(records) = Cardinality(Sizes)
                        /\ \A r \in records : r.key \in DOMAIN objects /\ objects[r.key] = r.bytes
      BY DEF RowsDescribeObjects
    <2>1. PICK bytes \in [Sizes -> Encodings] :
             /\ records = {Row(s, bytes[s]) : s \in Sizes}
             /\ \A s \in Sizes : DerivativeKey(s, bytes[s]) \in DOMAIN objects
      BY DEF StoreInvariant, RecordsAreWhole
    <2>2. ASSUME NEW s \in Sizes
          PROVE  LET k == DerivativeKey(s, bytes[s]) IN k \in DOMAIN objects /\ objects[k] = bytes[s]
      BY <2>1 DEF StoreInvariant, ObjectsAreByContent, DerivativeKey
    <2>3. \A s \in Sizes : /\ Row(s, bytes[s]).size = s /\ Row(s, bytes[s]).bytes = bytes[s]
                           /\ Row(s, bytes[s]).key = DerivativeKey(s, bytes[s])
      BY DEF Row
    <2> QED
      BY <2>1, <2>2, <2>3, OneRowPerSize DEF StoreInvariant, SourceIsChecked
  <1> QED
    BY <1>1, StoreInvariantHolds, PTL
(* What those who load the derivatives find. *)
Kept == {[key |-> k, bytes |-> objects[k]] : k \in DOMAIN objects}
Seen == {<<r.size, objects[r.key]>> : r \in records}

\* A PUT, whenever it arrives, adds an object or writes one again as it is.
LEMMA PutKeeps ==
  ASSUME StoreInvariant, NEW put \in Rows, Stores(put), UNCHANGED <<source, asset, records>>
  PROVE  Image!Keep
  <1>1. PICK s \in Sizes, b \in Encodings : put.key = DerivativeKey(s, b) /\ put.bytes = b
    BY DEF Rows, Row
  <1>2. /\ DOMAIN objects' = DOMAIN objects \cup {put.key}
        /\ \A k \in DOMAIN objects' : objects'[k] = IF k = put.key THEN b ELSE objects[k]
    BY <1>1 DEF Stores
  <1>3. ASSUME NEW k \in DOMAIN objects PROVE k \in DOMAIN objects' /\ objects'[k] = objects[k]
    BY <1>1, <1>2, <1>3 DEF StoreInvariant, ObjectsAreByContent, DerivativeKey
  <1>4. \A r \in records : r.key \in DOMAIN objects
    BY DEF StoreInvariant, RecordsAreWhole, Row
  <1>5. Kept \subseteq Kept'
    BY <1>3 DEF Kept
  <1>6. \A o, p \in Kept' : o.key = p.key => o = p
    BY DEF Kept
  <1>7. Seen' = Seen
    BY <1>3, <1>4 DEF Seen
  <1> QED
    BY <1>5, <1>6, <1>7 DEF Image!Keep, Kept, Seen

\* finishProcessing publishes what its run has made, all of it.
LEMMA PersistPublishes ==
  ASSUME StoreInvariant, StoreInvariant', NEW a \in JobRuns, Persist(a)
  PROVE  Image!Publish
  <1> DEFINE bytes == runs[a].made
  <1>1. /\ bytes \in [Sizes -> Encodings] /\ records' = {Row(s, bytes[s]) : s \in Sizes}
        /\ \A s \in Sizes : DerivativeKey(s, bytes[s]) \in DOMAIN objects
    BY PersistedIsWhole DEF Made
  <1>2. /\ UNCHANGED <<source, objects>> /\ At(a, {"upload"})
        /\ asset' = IF asset = "processing" THEN "ready" ELSE asset
    BY DEF Persist
  <1>3. source = Declared
    BY <1>2 DEF StoreInvariant, SourceIsChecked, At
  <1> HIDE DEF bytes
  <1>4. \A s \in Sizes : objects[DerivativeKey(s, bytes[s])] = bytes[s]
    BY <1>1 DEF StoreInvariant, ObjectsAreByContent, DerivativeKey
  <1>5. \A s \in Sizes : /\ Row(s, bytes[s]).size = s
                         /\ Row(s, bytes[s]).key = DerivativeKey(s, bytes[s])
    BY DEF Row
  <1>6. Seen' = {<<s, bytes[s]>> : s \in Sizes}
    BY <1>1, <1>2, <1>4, <1>5 DEF Seen
  <1>7. \A s \in Sizes : \E o \in Kept : o.bytes = bytes[s]
    <2> TAKE s \in Sizes
    <2> DEFINE o == [key |-> DerivativeKey(s, bytes[s]), bytes |-> objects[DerivativeKey(s, bytes[s])]]
    <2>1. o \in Kept /\ o.bytes = bytes[s]
      BY <1>1, <1>4 DEF Kept
    <2> QED
      BY <2>1
  <1>8. Kept' = Kept
    BY <1>2 DEF Kept
  <1> QED
    BY <1>1, <1>2, <1>3, <1>6, <1>7, <1>8 DEF Image!Publish, Kept, Seen

\* The other steps of a run do to the asset what retries and failures do.
LEMMA RunStepShows ==
  ASSUME StoreInvariant, NEW a \in JobRuns, UNCHANGED <<source, objects, records>>,
         asset' = asset \/ (asset = "failed" /\ asset' = "processing")
                        \/ (asset = "processing" /\ asset' = "failed")
  PROVE  Image!ServedNext \/ UNCHANGED <<source, asset, Kept, Seen>>
  <1>1. Kept' = Kept /\ Seen' = Seen
    BY DEF Kept, Seen
  <1> QED
    BY <1>1 DEF Image!ServedNext, Image!Fail, Image!Retry, Kept, Seen

\* DerivativeStore implements ServedImage for every number of runs, lanes and
\* sizes: what is served changes only from one whole set to another, and no
\* object changes, whatever the runs that overlap, fail or die leave behind.
THEOREM DerivativesArePublishedAtOnce == DerivativeStoreSpec => PublishesAtOnce
  <1>1. DerivativeStoreInit => Image!ServedInit
    BY DEF DerivativeStoreInit, Image!ServedInit
  <1>2. StoreInvariant /\ StoreInvariant' /\ [DerivativeStoreNext]_storeVars
            => [Image!ServedNext]_(Image!imageServed)
    <2> SUFFICES ASSUME StoreInvariant, StoreInvariant', [DerivativeStoreNext]_storeVars
                 PROVE  Image!ServedNext \/ UNCHANGED <<source, asset, Kept, Seen>>
      BY DEF Image!imageServed, Kept, Seen
    <2>1. ASSUME NEW a \in JobRuns, Persist(a) PROVE Image!ServedNext
      BY <2>1, PersistPublishes DEF Image!ServedNext
    <2>2. ASSUME NEW a \in JobRuns, NEW l \in PutLanes, PutAnswered(a, l) PROVE Image!ServedNext
      BY <2>2, SentIsRow, PutKeeps DEF PutAnswered, Image!ServedNext
    <2>3. ASSUME NEW put \in late, PutArrives(put) PROVE Image!ServedNext
      <3>1. put \in Rows
        BY <2>3 DEF StoreInvariant, DerivativeStoreTypeOK
      <3> QED
        BY <2>3, <3>1, PutKeeps DEF PutArrives, Image!ServedNext
    <2>4. ASSUME NEW a \in JobRuns,
                 \/ NextRun(a) \/ DownloadEnds(a) \/ JobRunFails(a) \/ BeginUpload(a) \/ RunDies(a)
                 \/ \E l \in PutLanes : TakeNext(a, l) \/ PutFails(a, l)
          PROVE  Image!ServedNext \/ UNCHANGED <<source, asset, Kept, Seen>>
      <3>1. UNCHANGED <<source, objects, records>>
        BY <2>4 DEF NextRun, DownloadEnds, JobRunFails, BeginUpload, RunDies, TakeNext, PutFails
      <3>2. \/ asset' = asset
            \/ asset = "failed" /\ asset' = "processing"
            \/ asset = "processing" /\ asset' = "failed"
        BY <2>4 DEF NextRun, DownloadEnds, JobRunFails, BeginUpload, RunDies, TakeNext, PutFails, Fails
      <3> QED
        BY <3>1, <3>2, RunStepShows
    <2>5. CASE UNCHANGED storeVars
      BY <2>5, RunStepShows DEF storeVars, Kept, Seen
    <2> QED
      BY <2>1, <2>2, <2>3, <2>4, <2>5 DEF DerivativeStoreNext
  <1> QED
    BY <1>1, <1>2, StoreInvariantHolds, PTL DEF DerivativeStoreSpec, PublishesAtOnce, Image!ServedSpec
-----------------------------------------------------------------------------
(* SsimPool.  The parts of the invariant speak of the lists, the calls and    *)
(* the threads as a handler has them before it drains the queue, too.         *)

WorkersOf(taken) == {w \in Threads : taken[w] # NoTask}
TasksIn(q, taken) == Range(q) \cup {taken[w] : w \in WorkersOf(taken)}
ServiceOf(free, taken) == Range(free) \cup WorkersOf(taken)

\* A call is in one place of the pool, and a thread in one.
PlacesAreGood(q, free, taken) ==
    /\ q \in Seq(Tasks) /\ IsInjective(q)
    /\ free \in Seq(Threads) /\ IsInjective(free)
    /\ taken \in [Threads -> Tasks \cup {NoTask}]
    /\ \A w \in Range(free) : taken[w] = NoTask
    /\ \A w, v \in Threads : taken[w] # NoTask /\ taken[w] = taken[v] => w = v
    /\ \A w \in Threads : taken[w] \notin Range(q)

\* A call that is not settled is in the pool or waits for the share of its job.
CallsAreGood(tk, wt, submitted) ==
    /\ tk \in [Tasks -> {"new", "called", "done", "failed"}]
    /\ wt \in [Jobs -> Seq(Tasks)]
    /\ \A j \in Jobs : IsInjective(wt[j]) /\ \A t \in Range(wt[j]) : JobOf[t] = j
    /\ \A t \in Tasks : tk[t] = "called" <=> t \in submitted \/ t \in Range(wt[JobOf[t]])
    /\ \A t \in submitted : t \notin Range(wt[JobOf[t]])

SharesAreGood(wt, submitted) == \A j \in Jobs :
    /\ Cardinality({t \in submitted : JobOf[t] = j}) <= Share
    /\ wt[j] # <<>> => Cardinality({t \in submitted : JobOf[t] = j}) = Share

\* The threads in service are up, and as many as the pool has.
ServiceIsGood(th, cl, q, service) ==
    /\ th \in [Threads -> {"unborn", "up", "errored", "gone"}]
    /\ \A w \in service : th[w] = "up"
    /\ cl \in BOOLEAN
    /\ cl => q = <<>>
    /\ ~cl => Cardinality(service) = PoolSize

PoolInvariant ==
    /\ PlacesAreGood(queue, idle, busy)
    /\ CallsAreGood(task, waiting, TasksIn(queue, busy))
    /\ SharesAreGood(waiting, TasksIn(queue, busy))
    /\ ServiceIsGood(thread, closed, queue, ServiceOf(idle, busy))
    /\ queue # <<>> => idle = <<>>
-----------------------------------------------------------------------------
\* What the drain does when there is one task, or one thread, at the most.
LEMMA DrainsOne ==
  ASSUME NEW q, NEW free, NEW taken, PlacesAreGood(q, free, taken),
         Len(q) <= 1 \/ Len(free) <= 1, Drain(q, free, taken)
  PROVE  \/ /\ q = <<>> \/ free = <<>>
            /\ queue' = q /\ idle' = free /\ busy' = taken
         \/ /\ q # <<>> /\ free # <<>> /\ queue' = Tail(q)
            /\ idle' = SubSeq(free, 1, Len(free) - 1)
            /\ busy' = [taken EXCEPT ![free[Len(free)]] = q[1]]
  <1> DEFINE a == Len(q)
             b == Len(free)
             n == IF a < b THEN a ELSE b
             taker == [k \in 1 .. n |-> free[b + 1 - k]]
             first(w) == CHOOSE k \in 1 .. n : taker[k] = w
  <1>0. /\ q \in Seq(Tasks) /\ free \in Seq(Threads) /\ taken \in [Threads -> Tasks \cup {NoTask}]
        /\ a \in Nat /\ b \in Nat /\ (a = 0 => q = <<>>) /\ (b = 0 => free = <<>>)
        /\ (q = <<>> => a = 0) /\ (free = <<>> => b = 0)
    BY DEF PlacesAreGood
  <1>1. /\ queue' = SubSeq(q, n + 1, a) /\ idle' = SubSeq(free, 1, b - n)
        /\ busy' = [w \in Threads |->
              IF w \in Range(taker) THEN q[first(w)] ELSE taken[w]]
    BY DEF Drain
  <1>2. SubSeq(q, 1, a) = q /\ SubSeq(free, 1, b) = free
    BY <1>0
  <1>3. q # <<>> => SubSeq(q, 2, a) = Tail(q)
    BY <1>0
  <1>4. a <= 1 \/ b <= 1
    OBVIOUS
  <1> HIDE DEF a, b
  <1>5. n \in {0, 1} /\ (n = 0 => a = 0 \/ b = 0) /\ (n = 1 => a # 0 /\ b # 0)
    BY <1>0, <1>4
  <1> HIDE DEF n
  <1>6. CASE n = 0
    <2>1. q = <<>> \/ free = <<>>
      BY <1>0, <1>5, <1>6
    <2>2. queue' = q
      <3>1. n + 1 = 1
        BY <1>6
      <3> QED
        BY <1>1, <1>2, <3>1
    <2>3. idle' = free
      <3>1. b - n = b
        BY <1>0, <1>6
      <3> QED
        BY <1>1, <1>2, <3>1
    <2>4. Range(taker) = {}
      <3>1. 1 .. n = {}
        BY <1>6
      <3> QED
        BY <3>1 DEF Range
    <2> HIDE DEF taker
    <2>5. busy' = taken
      BY <1>0, <1>1, <2>4
    <2> QED
      BY <2>1, <2>2, <2>3, <2>5
  <1>7. CASE n = 1
    <2>1. q # <<>> /\ free # <<>>
      BY <1>0, <1>5, <1>7
    <2>2. queue' = Tail(q)
      <3>1. n + 1 = 2
        BY <1>7
      <3> QED
        BY <1>1, <1>3, <2>1, <3>1
    <2>3. DOMAIN taker = {1} /\ taker[1] = free[b]
      <3>1. 1 .. n = {1} /\ 1 \in 1 .. n
        BY <1>7
      <3>2. taker[1] = free[b + 1 - 1] /\ b + 1 - 1 = b
        BY <1>0, <3>1
      <3> QED
        BY <3>1, <3>2
    <2>4. Range(taker) = {free[b]} /\ 1 .. n = {1}
      BY <1>7, <2>3 DEF Range
    <2>5. first(free[b]) = 1
      <3> HIDE DEF taker
      <3> QED
        BY <2>3, <2>4
    <2> HIDE DEF taker, first
    <2>6. busy' = [taken EXCEPT ![free[b]] = q[1]]
      <3>1. busy' = [w \in Threads |-> IF w = free[b] THEN q[1] ELSE taken[w]]
        BY <1>1, <2>4, <2>5
      <3> QED
        BY <1>0, <3>1
    <2>7. idle' = SubSeq(free, 1, b - 1)
      BY <1>1, <1>7
    <2> QED
      BY <2>1, <2>2, <2>6, <2>7 DEF b
  <1> QED
    BY <1>5, <1>6, <1>7

\* A handler leaves the invariant if it had it before the drain.
LEMMA DrainIsGood ==
  ASSUME NEW q, NEW free, NEW taken, PlacesAreGood(q, free, taken),
         Len(q) <= 1 \/ Len(free) <= 1, Drain(q, free, taken),
         CallsAreGood(task', waiting', TasksIn(q, taken)),
         SharesAreGood(waiting', TasksIn(q, taken)),
         ServiceIsGood(thread', closed', q, ServiceOf(free, taken))
  PROVE  PoolInvariant'
  <1>0. /\ q \in Seq(Tasks) /\ free \in Seq(Threads) /\ taken \in [Threads -> Tasks \cup {NoTask}]
        /\ \A k, l \in DOMAIN q : q[k] = q[l] => k = l
        /\ \A k, l \in DOMAIN free : free[k] = free[l] => k = l
        /\ \A w \in Range(free) : taken[w] = NoTask
        /\ \A w, v \in Threads : taken[w] # NoTask /\ taken[w] = taken[v] => w = v
        /\ \A w \in Threads : taken[w] \notin Range(q)
        /\ NoTask \notin Tasks
    BY SsimPoolAssumption DEF PlacesAreGood, IsInjective
  <1>1. CASE /\ q = <<>> \/ free = <<>>
             /\ queue' = q /\ idle' = free /\ busy' = taken
    BY <1>1 DEF PoolInvariant
  <1>2. CASE /\ q # <<>> /\ free # <<>> /\ queue' = Tail(q)
             /\ idle' = SubSeq(free, 1, Len(free) - 1)
             /\ busy' = [taken EXCEPT ![free[Len(free)]] = q[1]]
    <2> DEFINE w0 == free[Len(free)]
               t0 == q[1]
    <2>1. /\ queue' \in Seq(Tasks) /\ Len(queue') = Len(q) - 1 /\ IsInjective(queue')
          /\ Range(q) = Range(queue') \cup {t0} /\ t0 \notin Range(queue') /\ t0 \in Tasks
      BY <1>0, <1>2, TailOne DEF IsInjective
    <2>2. /\ idle' \in Seq(Threads) /\ Len(idle') = Len(free) - 1 /\ IsInjective(idle')
          /\ Range(free) = Range(idle') \cup {w0} /\ w0 \notin Range(idle') /\ w0 \in Threads
      BY <1>0, <1>2, FrontOne DEF IsInjective
    <2> HIDE DEF w0, t0
    <2>3. /\ busy' \in [Threads -> Tasks \cup {NoTask}] /\ busy'[w0] = t0
          /\ \A v \in Threads : v # w0 => busy'[v] = taken[v]
      BY <1>0, <1>2, <2>1, <2>2 DEF w0, t0
    <2>4. taken[w0] = NoTask /\ t0 # NoTask /\ \A v \in Threads : taken[v] # t0
      BY <1>0, <2>1, <2>2
    <2>5. PlacesAreGood(queue', idle', busy')
      <3>1. \A w \in Range(idle') : busy'[w] = NoTask
        <4>1. \A w \in Range(idle') : w # w0 /\ w \in Range(free) /\ w \in Threads
          BY <2>2 DEF Range
        <4> QED
          BY <1>0, <2>3, <4>1
      <3>2. \A w, v \in Threads : busy'[w] # NoTask /\ busy'[w] = busy'[v] => w = v
        BY <1>0, <2>3, <2>4
      <3>3. \A w \in Threads : busy'[w] \notin Range(queue')
        BY <1>0, <2>1, <2>3
      <3> QED
        BY <2>1, <2>2, <2>3, <3>1, <3>2, <3>3 DEF PlacesAreGood
    <2>6. WorkersOf(busy') = WorkersOf(taken) \cup {w0}
      BY <2>2, <2>3, <2>4 DEF WorkersOf
    <2>7. TasksIn(queue', busy') = TasksIn(q, taken)
      <3>1. \A v \in WorkersOf(taken) : v # w0 /\ v \in Threads
        BY <2>4 DEF WorkersOf
      <3>2. {busy'[v] : v \in WorkersOf(busy')} = {taken[v] : v \in WorkersOf(taken)} \cup {t0}
        BY <2>3, <2>6, <3>1
      <3> QED
        BY <2>1, <3>2 DEF TasksIn
    <2>8. ServiceOf(idle', busy') = ServiceOf(free, taken)
      BY <2>2, <2>6 DEF ServiceOf
    <2>9. closed' => queue' = <<>>
      BY <1>2 DEF ServiceIsGood
    <2>10. queue' # <<>> => idle' = <<>>
      <3>1. Len(queue') \in Nat /\ Len(idle') \in Nat /\ Len(q) \in Nat /\ Len(free) \in Nat
        BY <1>0, <2>1, <2>2
      <3>2. Len(queue') = 0 \/ Len(idle') = 0
        BY <2>1, <2>2, <3>1
      <3>3. Len(queue') = 0 => queue' = <<>>
        BY <2>1
      <3>4. Len(idle') = 0 => idle' = <<>>
        BY <2>2
      <3> QED
        BY <3>2, <3>3, <3>4
    <2>11. ServiceIsGood(thread', closed', queue', ServiceOf(idle', busy'))
      BY <2>8, <2>9 DEF ServiceIsGood
    <2> QED
      BY <2>5, <2>7, <2>10, <2>11 DEF PoolInvariant
  <1> QED
    BY <1>1, <1>2, DrainsOne

LEMMA PoolIsInSets ==
  ASSUME PoolInvariant
  PROVE  /\ Submitted = TasksIn(queue, busy) /\ InService = ServiceOf(idle, busy)
         /\ TasksIn(queue, busy) \subseteq Tasks /\ InService \subseteq Threads
         /\ Range(queue) \subseteq Tasks /\ Range(idle) \subseteq Threads
         /\ \A k, l \in DOMAIN queue : queue[k] = queue[l] => k = l
         /\ \A k, l \in DOMAIN idle : idle[k] = idle[l] => k = l
  <1>1. PlacesAreGood(queue, idle, busy)
    BY DEF PoolInvariant
  <1>2. Range(queue) \subseteq Tasks /\ Range(idle) \subseteq Threads
    BY <1>1 DEF PlacesAreGood, Range
  <1>3. InService = ServiceOf(idle, busy)
    BY DEF InService, ServiceOf, WorkersOf
  <1>4. InService \ Range(idle) = WorkersOf(busy)
    BY <1>1 DEF InService, WorkersOf, PlacesAreGood
  <1>5. Submitted = TasksIn(queue, busy)
    BY <1>4 DEF Submitted, TasksIn
  <1>6. TasksIn(queue, busy) \subseteq Tasks /\ InService \subseteq Threads
    BY <1>1, <1>2 DEF TasksIn, WorkersOf, InService, PlacesAreGood
  <1> QED
    BY <1>1, <1>2, <1>3, <1>5, <1>6 DEF PlacesAreGood, IsInjective

OfJob(S, j) == {t \in S : JobOf[t] = j}

LEMMA SharesOfSets ==
  ASSUME NEW S \in SUBSET Tasks, NEW j, NEW t \in Tasks
  PROVE  /\ IsFiniteSet(OfJob(S, j)) /\ Cardinality(OfJob(S, j)) \in Nat
         /\ t \in S /\ JobOf[t] = j => Cardinality(OfJob(S \ {t}, j)) = Cardinality(OfJob(S, j)) - 1
         /\ t \notin S /\ JobOf[t] = j => Cardinality(OfJob(S \cup {t}, j)) = Cardinality(OfJob(S, j)) + 1
         /\ JobOf[t] # j => OfJob(S \ {t}, j) = OfJob(S, j) /\ OfJob(S \cup {t}, j) = OfJob(S, j)
  <1> DEFINE A == OfJob(S, j)
  <1>1. IsFiniteSet(A) /\ Cardinality(A) \in Nat
    <2>1. A \subseteq Tasks
      BY DEF OfJob
    <2> QED
      BY <2>1, SsimPoolAssumption, FS_Subset, FS_CardinalityType
  <1>2. ASSUME t \in S, JobOf[t] = j
        PROVE  OfJob(S \ {t}, j) = A \ {t} /\ t \in A
    BY <1>2 DEF OfJob
  <1>3. ASSUME t \notin S, JobOf[t] = j
        PROVE  OfJob(S \cup {t}, j) = A \cup {t} /\ t \notin A
    BY <1>3 DEF OfJob
  <1>4. ASSUME JobOf[t] # j
        PROVE  OfJob(S \ {t}, j) = A /\ OfJob(S \cup {t}, j) = A
    BY <1>4 DEF OfJob
  <1> HIDE DEF A
  <1>5. t \in A => Cardinality(A \ {t}) = Cardinality(A) - 1
    BY <1>1, FS_RemoveElement
  <1>6. t \notin A => Cardinality(A \cup {t}) = Cardinality(A) + 1
    BY <1>1, FS_AddElement
  <1> QED
    BY <1>1, <1>2, <1>3, <1>4, <1>5, <1>6 DEF A

\* The task of a thread settles, and the first call that waits for the share
\* of its job takes its place.
LEMMA SettleIsGood ==
  ASSUME PoolInvariant, NEW w \in Threads, busy[w] # NoTask, NEW how \in {"done", "failed"}, NEW free,
         SettleTask(busy[w], how, free, [busy EXCEPT ![w] = NoTask]),
         free \in Seq(Threads), IsInjective(free),
         \A v \in Range(free) : v = w \/ busy[v] = NoTask, Len(free) <= 1 \/ queue = <<>>,
         closed' = closed,
         ServiceIsGood(thread', closed, queue, ServiceOf(free, [busy EXCEPT ![w] = NoTask]))
  PROVE  PoolInvariant'
  <1> DEFINE t == busy[w]
             j == JobOf[t]
             taken == [busy EXCEPT ![w] = NoTask]
             mine == waiting[j]
             woken == IF closed \/ mine = <<>> THEN mine ELSE <<Head(mine)>>
             S == TasksIn(queue, busy)
  <1>0. /\ PlacesAreGood(queue, idle, busy) /\ CallsAreGood(task, waiting, S) /\ SharesAreGood(waiting, S)
        /\ ServiceIsGood(thread, closed, queue, ServiceOf(idle, busy))
        /\ JobOf \in [Tasks -> Jobs] /\ NoTask \notin Tasks
    BY SsimPoolAssumption DEF PoolInvariant
  <1>1. /\ waiting' = [waiting EXCEPT ![j] = SubSeq(mine, Len(woken) + 1, Len(mine))]
        /\ task' = [u \in Tasks |-> IF u = t THEN how
                                    ELSE IF closed /\ u \in Range(woken) THEN "failed" ELSE task[u]]
        /\ Drain(IF closed THEN queue ELSE queue \o woken, free, taken)
    BY DEF SettleTask
  <1>2. /\ queue \in Seq(Tasks) /\ \A k, l \in DOMAIN queue : queue[k] = queue[l] => k = l
        /\ busy \in [Threads -> Tasks \cup {NoTask}] /\ t \in Tasks /\ j \in Jobs
        /\ S \subseteq Tasks /\ \A v \in Threads : busy[v] \notin Range(queue)
        /\ \A v \in Threads : v # w => busy[v] # t
        /\ waiting \in [Jobs -> Seq(Tasks)] /\ mine \in Seq(Tasks)
        /\ \A k, l \in DOMAIN mine : mine[k] = mine[l] => k = l
        /\ \A u \in Range(mine) : JobOf[u] = j
    BY <1>0, PoolIsInSets DEF PlacesAreGood, CallsAreGood, IsInjective
  <1>3. /\ taken \in [Threads -> Tasks \cup {NoTask}] /\ taken[w] = NoTask
        /\ \A v \in Threads : v # w => taken[v] = busy[v]
    BY <1>2
  <1> HIDE DEF taken, t, j, mine
  <1>4. t \in S /\ TasksIn(queue, taken) = S \ {t}
    <2>1. t = busy[w] /\ w \in WorkersOf(busy)
      BY DEF t, WorkersOf
    <2>2. WorkersOf(taken) = WorkersOf(busy) \ {w}
      BY <1>3 DEF WorkersOf
    <2>3. \A v \in WorkersOf(taken) : taken[v] = busy[v] /\ taken[v] # t
      BY <1>2, <1>3, <2>2 DEF WorkersOf
    <2>4. t \notin Range(queue)
      BY <1>2, <2>1
    <2>5. {taken[v] : v \in WorkersOf(taken)} = {busy[v] : v \in WorkersOf(busy)} \ {t}
      <3>1. \A v \in WorkersOf(busy) : v = w \/ v \in WorkersOf(taken)
        BY <2>2
      <3> QED
        BY <2>1, <2>2, <2>3, <3>1
    <2> QED
      BY <2>1, <2>4, <2>5 DEF TasksIn
  <1>5. ASSUME NEW q \in Seq(Tasks), IsInjective(q),
               \A u \in Range(q) : u \in Range(queue) \/ u \notin S
        PROVE  PlacesAreGood(q, free, taken)
    <2>1. \A v \in Range(free) : taken[v] = NoTask
      <3>1. Range(free) \subseteq Threads
        BY DEF Range
      <3> QED
        BY <1>3, <3>1
    <2>2. \A v, x \in Threads : taken[v] # NoTask /\ taken[v] = taken[x] => v = x
      BY <1>0, <1>3 DEF PlacesAreGood
    <2>3. \A v \in Threads : taken[v] \notin Range(q)
      <3> SUFFICES ASSUME NEW v \in Threads, taken[v] \in Range(q) PROVE FALSE
        OBVIOUS
      <3>1. Range(q) \subseteq Tasks
        BY DEF Range
      <3>2. v # w /\ busy[v] \in Range(q) /\ busy[v] # NoTask
        BY <1>0, <1>3, <3>1
      <3>3. busy[v] \in S
        BY <3>2 DEF TasksIn, WorkersOf
      <3> QED
        BY <1>2, <1>5, <3>2, <3>3
    <2> QED
      BY <1>3, <1>5, <2>1, <2>2, <2>3 DEF PlacesAreGood
  <1>6. CASE closed \/ mine = <<>>
    <2>1. woken = mine
      BY <1>6
    <2>2. waiting' = [waiting EXCEPT ![j] = <<>>]
      <3>1. Len(mine) \in Nat
        BY <1>2
      <3>2. SubSeq(mine, Len(mine) + 1, Len(mine)) = <<>>
        BY <1>2, <3>1
      <3> QED
        BY <1>1, <2>1, <3>2
    <2>3. task' = [u \in Tasks |-> IF u = t THEN how ELSE IF u \in Range(mine) THEN "failed" ELSE task[u]]
      <3>1. ~closed => Range(mine) = {}
        BY <1>6 DEF Range
      <3> QED
        BY <1>1, <2>1, <3>1
    <2>4. Drain(queue, free, taken)
      <3>1. ~closed => queue \o woken = queue
        BY <1>2, <1>6, <2>1
      <3> QED
        BY <1>1, <3>1
    <2>5. PlacesAreGood(queue, free, taken)
      BY <1>0, <1>5 DEF PlacesAreGood
    <2>6. /\ waiting' \in [Jobs -> Seq(Tasks)] /\ waiting'[j] = <<>> /\ Range(waiting'[j]) = {}
          /\ \A i \in Jobs : i # j => waiting'[i] = waiting[i]
      BY <1>2, <2>2 DEF Range
    <2>7. CallsAreGood(task', waiting', S \ {t})
      <3>1. task' \in [Tasks -> {"new", "called", "done", "failed"}]
        BY <1>0, <2>3 DEF CallsAreGood
      <3>2. \A i \in Jobs : IsInjective(waiting'[i]) /\ \A u \in Range(waiting'[i]) : JobOf[u] = i
        <4> SUFFICES ASSUME NEW i \in Jobs
                     PROVE  IsInjective(waiting'[i]) /\ \A u \in Range(waiting'[i]) : JobOf[u] = i
          OBVIOUS
        <4>1. CASE i = j
          BY <2>6, <4>1 DEF IsInjective
        <4>2. CASE i # j
          <5>1. waiting'[i] = waiting[i]
            BY <2>6, <4>2
          <5> QED
            BY <1>0, <5>1 DEF CallsAreGood
        <4> QED
          BY <4>1, <4>2
      <3>3. ASSUME NEW u \in Tasks
            PROVE  task'[u] = "called" <=> u \in S \ {t} \/ u \in Range(waiting'[JobOf[u]])
        <4>1. JobOf[u] \in Jobs
          BY <1>0
        <4>2. CASE u = t
          BY <2>3, <2>6, <4>2 DEF j
        <4>3. CASE u # t /\ u \in Range(mine)
          <5>1. JobOf[u] = j /\ u \notin S
            BY <1>0, <1>2, <4>3 DEF CallsAreGood, mine
          <5> QED
            BY <2>3, <2>6, <4>3, <5>1
        <4>4. CASE u # t /\ u \notin Range(mine)
          <5>1. task'[u] = task[u]
            BY <2>3, <4>4
          <5>2. task[u] = "called" <=> u \in S \/ u \in Range(waiting[JobOf[u]])
            BY <1>0 DEF CallsAreGood
          <5>3. u \in Range(waiting'[JobOf[u]]) <=> u \in Range(waiting[JobOf[u]])
            BY <2>6, <4>1, <4>4 DEF mine
          <5> QED
            BY <4>4, <5>1, <5>2, <5>3
        <4> QED
          BY <4>2, <4>3, <4>4
      <3>4. \A u \in S \ {t} : u \notin Range(waiting'[JobOf[u]])
        <4> SUFFICES ASSUME NEW u \in S \ {t} PROVE u \notin Range(waiting'[JobOf[u]])
          OBVIOUS
        <4>1. JobOf[u] \in Jobs /\ u \notin Range(waiting[JobOf[u]])
          BY <1>0, <1>2 DEF CallsAreGood
        <4> QED
          BY <2>6, <4>1
      <3> QED
        BY <2>6, <3>1, <3>2, <3>3, <3>4 DEF CallsAreGood
    <2>8. SharesAreGood(waiting', S \ {t})
      <3> SUFFICES ASSUME NEW i \in Jobs
                   PROVE  /\ Cardinality(OfJob(S \ {t}, i)) <= Share
                          /\ waiting'[i] # <<>> => Cardinality(OfJob(S \ {t}, i)) = Share
        BY DEF SharesAreGood, OfJob
      <3>1. /\ Cardinality(OfJob(S, i)) <= Share /\ Share \in Nat
            /\ waiting[i] # <<>> => Cardinality(OfJob(S, i)) = Share
        BY <1>0, SsimPoolAssumption DEF SharesAreGood, OfJob
      <3> HIDE DEF S
      <3>2. CASE i = j
        <4>1. Cardinality(OfJob(S \ {t}, i)) = Cardinality(OfJob(S, i)) - 1 /\ Cardinality(OfJob(S, i)) \in Nat
          BY <1>2, <1>4, <3>2, SharesOfSets DEF j
        <4> QED
          BY <2>6, <3>1, <3>2, <4>1
      <3>3. CASE i # j
        <4>1. OfJob(S \ {t}, i) = OfJob(S, i)
          BY <1>2, <3>3, SharesOfSets DEF j
        <4> QED
          BY <2>6, <3>1, <3>3, <4>1
      <3> QED
        BY <3>2, <3>3
    <2>9. Len(queue) <= 1 \/ Len(free) <= 1
      OBVIOUS
    <2>10. ServiceIsGood(thread', closed', queue, ServiceOf(free, taken))
      BY DEF taken
    <2> QED
      BY <1>4, <2>4, <2>5, <2>7, <2>8, <2>9, <2>10, DrainIsGood
  <1>7. CASE ~closed /\ mine # <<>>
    <2> DEFINE h == mine[1]
               q == Append(queue, h)
    <2>1. /\ Tail(mine) \in Seq(Tasks) /\ Len(mine) \in Nat
          /\ \A k, l \in DOMAIN Tail(mine) : Tail(mine)[k] = Tail(mine)[l] => k = l
          /\ Range(mine) = Range(Tail(mine)) \cup {h} /\ h \notin Range(Tail(mine)) /\ h \in Tasks
          /\ Head(mine) = h
      BY <1>2, <1>7, TailOne
    <2>2. JobOf[h] = j /\ h \notin S /\ h # t
      <3>1. h \in Range(mine) /\ JobOf[h] = j
        BY <1>2, <2>1
      <3>2. h \notin S
        BY <1>0, <3>1 DEF CallsAreGood, mine
      <3> QED
        BY <1>4, <3>1, <3>2
    <2>3. woken = <<h>>
      BY <1>7, <2>1
    <2>4. waiting' = [waiting EXCEPT ![j] = Tail(mine)]
      <3>1. SubSeq(mine, 2, Len(mine)) = Tail(mine) /\ Len(woken) + 1 = 2
        BY <1>2, <1>7, <2>3
      <3> QED
        BY <1>1, <3>1
    <2>5. task' = [u \in Tasks |-> IF u = t THEN how ELSE task[u]]
      BY <1>1, <1>7
    <2>6. queue \o <<h>> = q
      BY <1>2, <2>1
    <2>7. Drain(q, free, taken)
      BY <1>1, <1>7, <2>3, <2>6
    <2>8. h \notin Range(queue)
      BY <2>2 DEF TasksIn
    <2>9. /\ q \in Seq(Tasks) /\ \A k, l \in DOMAIN q : q[k] = q[l] => k = l
          /\ Range(q) = Range(queue) \cup {h}
      <3>1. h \in Tasks
        BY <2>1
      <3>2. queue \in Seq(Tasks) /\ \A k, l \in DOMAIN queue : queue[k] = queue[l] => k = l
        BY <1>2
      <3> HIDE DEF h
      <3> QED
        BY <2>8, <3>1, <3>2, AppendOne
    <2>10. queue = <<>> => Len(q) <= 1
      BY <1>2
    <2> HIDE DEF h, q
    <2>11. PlacesAreGood(q, free, taken)
      BY <1>5, <2>2, <2>9 DEF IsInjective
    <2>12. TasksIn(q, taken) = (S \ {t}) \cup {h}
      BY <1>4, <2>9 DEF TasksIn
    <2>13. /\ waiting' \in [Jobs -> Seq(Tasks)] /\ waiting'[j] = Tail(mine)
           /\ \A i \in Jobs : i # j => waiting'[i] = waiting[i]
      BY <1>2, <2>1, <2>4
    <2>14. CallsAreGood(task', waiting', (S \ {t}) \cup {h})
      <3>1. task' \in [Tasks -> {"new", "called", "done", "failed"}]
        BY <1>0, <2>5 DEF CallsAreGood
      <3>2. \A i \in Jobs : IsInjective(waiting'[i]) /\ \A u \in Range(waiting'[i]) : JobOf[u] = i
        <4> SUFFICES ASSUME NEW i \in Jobs
                     PROVE  IsInjective(waiting'[i]) /\ \A u \in Range(waiting'[i]) : JobOf[u] = i
          OBVIOUS
        <4>1. CASE i = j
          <5>1. waiting'[i] = Tail(mine) /\ Range(Tail(mine)) \subseteq Range(mine)
            BY <2>1, <2>13, <4>1
          <5>2. IsInjective(Tail(mine))
            BY <2>1 DEF IsInjective
          <5> QED
            BY <1>2, <4>1, <5>1, <5>2
        <4>2. CASE i # j
          <5>1. waiting'[i] = waiting[i]
            BY <2>13, <4>2
          <5> QED
            BY <1>0, <5>1 DEF CallsAreGood
        <4> QED
          BY <4>1, <4>2
      <3>3. \A u \in Tasks : u \in Range(waiting'[JobOf[u]]) <=> u \in Range(waiting[JobOf[u]]) /\ u # h
        <4> SUFFICES ASSUME NEW u \in Tasks
                     PROVE  u \in Range(waiting'[JobOf[u]]) <=> u \in Range(waiting[JobOf[u]]) /\ u # h
          OBVIOUS
        <4>1. JobOf[u] \in Jobs
          BY <1>0
        <4> QED
          BY <2>1, <2>2, <2>13, <4>1 DEF mine
      <3>4. ASSUME NEW u \in Tasks
            PROVE  task'[u] = "called" <=>
                       u \in (S \ {t}) \cup {h} \/ u \in Range(waiting'[JobOf[u]])
        <4>1. task[u] = "called" <=> u \in S \/ u \in Range(waiting[JobOf[u]])
          BY <1>0 DEF CallsAreGood
        <4>2. u = t => u \notin Range(waiting[JobOf[u]])
          BY <1>0, <1>4 DEF CallsAreGood
        <4>3. h \in Range(waiting[JobOf[h]])
          BY <2>1, <2>2 DEF mine
        <4> QED
          BY <2>2, <2>5, <3>3, <4>1, <4>2, <4>3
      <3>5. \A u \in (S \ {t}) \cup {h} : u \notin Range(waiting'[JobOf[u]])
        BY <1>0, <1>2, <2>1, <3>3 DEF CallsAreGood
      <3> QED
        BY <2>13, <3>1, <3>2, <3>4, <3>5 DEF CallsAreGood
    <2>15. SharesAreGood(waiting', (S \ {t}) \cup {h})
      <3> SUFFICES ASSUME NEW i \in Jobs
                   PROVE  /\ Cardinality(OfJob((S \ {t}) \cup {h}, i)) <= Share
                          /\ waiting'[i] # <<>> => Cardinality(OfJob((S \ {t}) \cup {h}, i)) = Share
        BY DEF SharesAreGood, OfJob
      <3>1. /\ Cardinality(OfJob(S, i)) <= Share /\ Share \in Nat
            /\ waiting[i] # <<>> => Cardinality(OfJob(S, i)) = Share
        BY <1>0, SsimPoolAssumption DEF SharesAreGood, OfJob
      <3> HIDE DEF S
      <3>2. Cardinality(OfJob((S \ {t}) \cup {h}, i)) = Cardinality(OfJob(S, i))
        <4> DEFINE R == S \ {t}
        <4>1. R \in SUBSET Tasks /\ h \notin R
          BY <1>2, <2>2
        <4>2. /\ i = j => Cardinality(OfJob(R, i)) = Cardinality(OfJob(S, i)) - 1
              /\ i # j => OfJob(R, i) = OfJob(S, i)
              /\ Cardinality(OfJob(S, i)) \in Nat
          BY <1>2, <1>4, SharesOfSets DEF j
        <4> HIDE DEF R
        <4>3. /\ i = j => Cardinality(OfJob(R \cup {h}, i)) = Cardinality(OfJob(R, i)) + 1
              /\ i # j => OfJob(R \cup {h}, i) = OfJob(R, i)
              /\ Cardinality(OfJob(R, i)) \in Nat
          BY <2>1, <2>2, <4>1, SharesOfSets
        <4>4. Cardinality(OfJob(R \cup {h}, i)) = Cardinality(OfJob(S, i))
          BY <4>2, <4>3
        <4> QED
          BY <4>4 DEF R
      <3>3. waiting'[i] # <<>> => waiting[i] # <<>>
        BY <1>7, <2>13 DEF mine
      <3> QED
        BY <3>1, <3>2, <3>3
    <2>16. Len(q) <= 1 \/ Len(free) <= 1
      BY <2>10
    <2>17. ServiceIsGood(thread', closed', q, ServiceOf(free, taken))
      BY <1>7 DEF ServiceIsGood, taken
    <2> QED
      BY <2>7, <2>11, <2>12, <2>14, <2>15, <2>16, <2>17, DrainIsGood
  <1> QED
    BY <1>6, <1>7

\* Nothing that the invariant speaks of changes but the calls.
LEMMA CallIsGood == ASSUME PoolInvariant, NEW t \in Tasks, CallSsim(t) PROVE PoolInvariant'
  <1> DEFINE S == TasksIn(queue, busy)
             j == JobOf[t]
  <1>0. /\ PlacesAreGood(queue, idle, busy) /\ CallsAreGood(task, waiting, S) /\ SharesAreGood(waiting, S)
        /\ ServiceIsGood(thread, closed, queue, ServiceOf(idle, busy)) /\ (queue # <<>> => idle = <<>>)
        /\ JobOf \in [Tasks -> Jobs] /\ NoTask \notin Tasks /\ Share \in Nat
    BY SsimPoolAssumption DEF PoolInvariant
  <1>1. /\ task[t] = "new" /\ UNCHANGED <<thread, closed>> /\ j \in Jobs
        /\ S \subseteq Tasks /\ ActiveOf(j) = Cardinality(OfJob(S, j))
    BY <1>0, PoolIsInSets DEF CallSsim, ActiveOf, OfJob
  <1>2. t \notin S /\ \A i \in Jobs : t \notin Range(waiting[i])
    <2>1. t \notin S /\ t \notin Range(waiting[j])
      BY <1>0, <1>1 DEF CallsAreGood
    <2> QED
      BY <1>0, <2>1 DEF CallsAreGood
  <1>3. /\ waiting \in [Jobs -> Seq(Tasks)] /\ waiting[j] \in Seq(Tasks)
        /\ task \in [Tasks -> {"new", "called", "done", "failed"}]
        /\ \A k, l \in DOMAIN waiting[j] : waiting[j][k] = waiting[j][l] => k = l
        /\ \A i \in Jobs : IsInjective(waiting[i]) /\ \A u \in Range(waiting[i]) : JobOf[u] = i
        /\ \A u \in Tasks : task[u] = "called" <=> u \in S \/ u \in Range(waiting[JobOf[u]])
        /\ \A u \in S : u \notin Range(waiting[JobOf[u]])
    BY <1>0, <1>1 DEF CallsAreGood, IsInjective
  <1>4. CASE ActiveOf(j) >= Share
    <2>1. /\ task' = [task EXCEPT ![t] = "called"] /\ waiting' = [waiting EXCEPT ![j] = Append(waiting[j], t)]
          /\ UNCHANGED <<queue, idle, busy>>
      BY <1>4 DEF CallSsim
    <2> HIDE DEF S, j
    <2>2. /\ Append(waiting[j], t) \in Seq(Tasks)
          /\ \A k, l \in DOMAIN Append(waiting[j], t) :
                Append(waiting[j], t)[k] = Append(waiting[j], t)[l] => k = l
          /\ Range(Append(waiting[j], t)) = Range(waiting[j]) \cup {t}
      <3> DEFINE mine == waiting[j]
      <3>1. mine \in Seq(Tasks) /\ t \notin Range(mine) /\ \A k, l \in DOMAIN mine : mine[k] = mine[l] => k = l
        BY <1>1, <1>2, <1>3
      <3> HIDE DEF mine
      <3>2. /\ Append(mine, t) \in Seq(Tasks)
            /\ \A k, l \in DOMAIN Append(mine, t) : Append(mine, t)[k] = Append(mine, t)[l] => k = l
            /\ Range(Append(mine, t)) = Range(mine) \cup {t}
        BY <3>1, AppendOne
      <3> QED
        BY <3>2 DEF mine
    <2>3. /\ waiting' \in [Jobs -> Seq(Tasks)] /\ IsInjective(waiting'[j])
          /\ Range(waiting'[j]) = Range(waiting[j]) \cup {t}
          /\ \A i \in Jobs : i # j => waiting'[i] = waiting[i]
      BY <1>1, <1>3, <2>1, <2>2 DEF IsInjective
    <2>4. JobOf[t] = j
      BY DEF j
    <2>5. CallsAreGood(task', waiting', S)
      <3>1. task' \in [Tasks -> {"new", "called", "done", "failed"}]
        BY <1>3, <2>1
      <3>2. \A i \in Jobs : IsInjective(waiting'[i]) /\ \A u \in Range(waiting'[i]) : JobOf[u] = i
        <4> SUFFICES ASSUME NEW i \in Jobs
                     PROVE  IsInjective(waiting'[i]) /\ \A u \in Range(waiting'[i]) : JobOf[u] = i
          OBVIOUS
        <4>1. CASE i = j
          BY <1>3, <2>3, <2>4, <4>1
        <4>2. CASE i # j
          BY <1>3, <2>3, <4>2
        <4> QED
          BY <4>1, <4>2
      <3>3. \A u \in Tasks : u \in Range(waiting'[JobOf[u]]) <=> u \in Range(waiting[JobOf[u]]) \/ u = t
        <4> SUFFICES ASSUME NEW u \in Tasks
                     PROVE  u \in Range(waiting'[JobOf[u]]) <=> u \in Range(waiting[JobOf[u]]) \/ u = t
          OBVIOUS
        <4>1. JobOf[u] \in Jobs
          BY <1>0
        <4> QED
          BY <2>3, <2>4, <4>1
      <3>4. \A u \in Tasks : task'[u] = "called" <=> u \in S \/ u \in Range(waiting'[JobOf[u]])
        BY <1>3, <2>1, <3>3
      <3>5. \A u \in S : u \notin Range(waiting'[JobOf[u]])
        BY <1>1, <1>2, <1>3, <3>3
      <3> QED
        BY <2>3, <3>1, <3>2, <3>4, <3>5 DEF CallsAreGood
    <2>6. SharesAreGood(waiting', S)
      <3> SUFFICES ASSUME NEW i \in Jobs
                   PROVE  /\ Cardinality(OfJob(S, i)) <= Share
                          /\ waiting'[i] # <<>> => Cardinality(OfJob(S, i)) = Share
        BY DEF SharesAreGood, OfJob
      <3>1. Cardinality(OfJob(S, i)) <= Share /\ (waiting[i] # <<>> => Cardinality(OfJob(S, i)) = Share)
        BY <1>0 DEF SharesAreGood, OfJob
      <3>2. Cardinality(OfJob(S, i)) \in Nat
        BY <1>1, SharesOfSets
      <3>3. CASE i = j
        BY <1>0, <1>1, <1>4, <3>1, <3>2, <3>3
      <3>4. CASE i # j
        BY <2>3, <3>1, <3>4
      <3> QED
        BY <3>3, <3>4
    <2> QED
      BY <1>0, <1>1, <2>1, <2>5, <2>6 DEF PoolInvariant, S
  <1>5. CASE ~(ActiveOf(j) >= Share)
    <2>1. /\ task' = [task EXCEPT ![t] = IF closed THEN "failed" ELSE "called"]
          /\ Drain(IF closed THEN queue ELSE Append(queue, t), idle, busy)
          /\ UNCHANGED waiting
      BY <1>5 DEF CallSsim
    <2>2. CASE closed
      <3>1. CallsAreGood(task', waiting', S)
        <4>1. \A u \in Tasks : task'[u] = "called" <=> u \in S \/ u \in Range(waiting[JobOf[u]])
          BY <1>1, <1>2, <1>3, <2>1, <2>2
        <4> QED
          BY <1>3, <2>1, <2>2, <4>1 DEF CallsAreGood
      <3>2. queue = <<>> /\ Drain(queue, idle, busy)
        BY <1>0, <2>1, <2>2 DEF ServiceIsGood
      <3>3. Len(queue) <= 1
        BY <3>2
      <3>4. SharesAreGood(waiting', S) /\ ServiceIsGood(thread', closed', queue, ServiceOf(idle, busy))
        BY <1>0, <1>1, <2>1
      <3> QED
        BY <1>0, <3>1, <3>2, <3>3, <3>4, DrainIsGood
    <2>3. CASE ~closed
      <3> DEFINE q == Append(queue, t)
      <3>1. /\ queue \in Seq(Tasks) /\ \A k, l \in DOMAIN queue : queue[k] = queue[l] => k = l
            /\ t \notin Range(queue)
        BY <1>0, <1>2, PoolIsInSets DEF PlacesAreGood, TasksIn
      <3>2. /\ q \in Seq(Tasks) /\ \A k, l \in DOMAIN q : q[k] = q[l] => k = l
            /\ Range(q) = Range(queue) \cup {t}
        BY <3>1, AppendOne
      <3>3. Drain(q, idle, busy)
        BY <2>1, <2>3
      <3>4. Len(q) <= 1 \/ Len(idle) <= 1
        BY <1>0, <3>1
      <3> HIDE DEF q
      <3>5. TasksIn(q, busy) = S \cup {t}
        BY <3>2 DEF TasksIn
      <3>6. PlacesAreGood(q, idle, busy)
        <4>1. \A w \in Threads : busy[w] # t
          <5> SUFFICES ASSUME NEW w \in Threads, busy[w] = t PROVE FALSE
            OBVIOUS
          <5>1. busy[w] # NoTask /\ w \in WorkersOf(busy)
            BY <1>0 DEF WorkersOf
          <5> QED
            BY <1>2, <5>1 DEF TasksIn
        <4> QED
          BY <1>0, <3>2, <4>1 DEF PlacesAreGood, IsInjective
      <3> HIDE DEF S
      <3>7. CallsAreGood(task', waiting', S \cup {t})
        <4>1. \A u \in Tasks : task'[u] = "called" <=> u \in S \cup {t} \/ u \in Range(waiting[JobOf[u]])
          BY <1>2, <1>3, <2>1, <2>3
        <4>2. \A u \in S \cup {t} : u \notin Range(waiting[JobOf[u]])
          BY <1>1, <1>2, <1>3
        <4>3. task' \in [Tasks -> {"new", "called", "done", "failed"}]
          BY <1>3, <2>1, <2>3
        <4> QED
          BY <1>3, <2>1, <4>1, <4>2, <4>3 DEF CallsAreGood
      <3>8. SharesAreGood(waiting', S \cup {t})
        <4> SUFFICES ASSUME NEW i \in Jobs
                     PROVE  /\ Cardinality(OfJob(S \cup {t}, i)) <= Share
                            /\ waiting[i] # <<>> => Cardinality(OfJob(S \cup {t}, i)) = Share
          BY <2>1 DEF SharesAreGood, OfJob
        <4>1. Cardinality(OfJob(S, i)) <= Share /\ (waiting[i] # <<>> => Cardinality(OfJob(S, i)) = Share)
          BY <1>0 DEF SharesAreGood, OfJob
        <4>2. CASE i = j
          <5>1. /\ Cardinality(OfJob(S, i)) \in Nat
                /\ Cardinality(OfJob(S \cup {t}, i)) = Cardinality(OfJob(S, i)) + 1
            BY <1>1, <1>2, <4>2, SharesOfSets
          <5>2. Cardinality(OfJob(S, i)) < Share
            BY <1>0, <1>1, <1>5, <4>2, <5>1
          <5> QED
            BY <1>0, <4>1, <5>1, <5>2
        <4>3. CASE i # j
          <5>1. OfJob(S \cup {t}, i) = OfJob(S, i)
            BY <1>1, <4>3, SharesOfSets
          <5> QED
            BY <4>1, <5>1
        <4> QED
          BY <4>2, <4>3
      <3>9. ServiceIsGood(thread', closed', q, ServiceOf(idle, busy))
        BY <1>0, <1>1, <2>3 DEF ServiceIsGood
      <3> QED
        BY <3>3, <3>4, <3>5, <3>6, <3>7, <3>8, <3>9, DrainIsGood
    <2> QED
      BY <2>2, <2>3
  <1> QED
    BY <1>4, <1>5

LEMMA ReplyIsGood == ASSUME PoolInvariant, NEW w \in Threads, Reply(w) PROVE PoolInvariant'
  <1> DEFINE free == Append(idle, w)
             taken == [busy EXCEPT ![w] = NoTask]
  <1>0. /\ PlacesAreGood(queue, idle, busy) /\ ServiceIsGood(thread, closed, queue, ServiceOf(idle, busy))
        /\ (queue # <<>> => idle = <<>>) /\ NoTask \notin Tasks
        /\ thread[w] = "up" /\ busy[w] # NoTask /\ UNCHANGED <<thread, closed>>
        /\ idle \in Seq(Threads) /\ busy \in [Threads -> Tasks \cup {NoTask}]
        /\ \A k, l \in DOMAIN idle : idle[k] = idle[l] => k = l
        /\ \A v \in Range(idle) : busy[v] = NoTask
    BY SsimPoolAssumption DEF PoolInvariant, PlacesAreGood, Reply, IsInjective
  <1>1. PICK how \in {"done", "failed"} : SettleTask(busy[w], how, free, taken)
    BY DEF Reply
  <1>2. w \notin Range(idle)
    BY <1>0
  <1>3. /\ free \in Seq(Threads) /\ \A k, l \in DOMAIN free : free[k] = free[l] => k = l
        /\ Range(free) = Range(idle) \cup {w}
    BY <1>0, <1>2, AppendOne
  <1>4. Len(free) <= 1 \/ queue = <<>>
    BY <1>0
  <1>5. ServiceOf(free, taken) = ServiceOf(idle, busy)
    <2>1. WorkersOf(busy) = WorkersOf(taken) \cup {w} /\ w \notin WorkersOf(taken)
      BY <1>0 DEF WorkersOf
    <2> HIDE DEF taken, free
    <2> QED
      BY <1>3, <2>1 DEF ServiceOf
  <1>6. ServiceIsGood(thread', closed, queue, ServiceOf(free, taken))
    BY <1>0, <1>5
  <1> HIDE DEF free
  <1>7. \A v \in Range(free) : v = w \/ busy[v] = NoTask
    BY <1>0, <1>3
  <1>8. IsInjective(free)
    BY <1>3 DEF IsInjective
  <1>9. busy[w] # NoTask /\ closed' = closed /\ free \in Seq(Threads)
    BY <1>0, <1>3
  <1> QED
    BY <1>1, <1>4, <1>6, <1>7, <1>8, <1>9, SettleIsGood

\* The idle threads that a thread that died leaves.
LEMMA IdleWithoutOne ==
  ASSUME PoolInvariant, NEW w \in Threads
  PROVE  /\ IdleWithout(w) \in Seq(Threads) /\ IsInjective(IdleWithout(w))
         /\ Range(IdleWithout(w)) = Range(idle) \ {w}
         /\ queue # <<>> => IdleWithout(w) = <<>>
  <1>0. /\ idle \in Seq(Threads) /\ \A k, l \in DOMAIN idle : idle[k] = idle[l] => k = l
        /\ (queue # <<>> => idle = <<>>)
    BY DEF PoolInvariant, PlacesAreGood, IsInjective
  <1>1. CASE w \in Range(idle)
    <2>1. IdleWithout(w) = Without(idle, w)
      BY <1>1 DEF IdleWithout, Without
    <2>2. /\ Without(idle, w) \in Seq(Threads)
          /\ \A k, l \in DOMAIN Without(idle, w) : Without(idle, w)[k] = Without(idle, w)[l] => k = l
          /\ Range(Without(idle, w)) = Range(idle) \ {w}
      BY <1>0, <1>1, RemoveOne
    <2>3. queue = <<>>
      BY <1>0, <1>1 DEF Range
    <2> QED
      BY <2>1, <2>2, <2>3 DEF IsInjective
  <1>2. CASE w \notin Range(idle)
    <2>1. IdleWithout(w) = idle
      BY <1>2 DEF IdleWithout
    <2> QED
      BY <1>0, <1>2, <2>1 DEF IsInjective
  <1> QED
    BY <1>1, <1>2

LEMMA ReplaceIsGood ==
  ASSUME PoolInvariant, NEW w \in Threads, Replace(w), thread[w] \in {"up", "errored"}
  PROVE  PoolInvariant'
  <1> DEFINE known == w \in InService
             left == IdleWithout(w)
             new == CHOOSE x \in Threads : thread[x] = "unborn"
             free == IF known /\ ~closed THEN Append(left, new) ELSE left
             taken == [busy EXCEPT ![w] = NoTask]
             before == ServiceOf(idle, busy)
             after == ServiceOf(free, taken)
  <1>0. /\ PlacesAreGood(queue, idle, busy) /\ ServiceIsGood(thread, closed, queue, before)
        /\ CallsAreGood(task, waiting, TasksIn(queue, busy))
        /\ SharesAreGood(waiting, TasksIn(queue, busy))
        /\ (queue # <<>> => idle = <<>>) /\ NoTask \notin Tasks /\ IsFiniteSet(Threads)
        /\ busy \in [Threads -> Tasks \cup {NoTask}] /\ \A v \in Range(idle) : busy[v] = NoTask
        /\ InService = before /\ before \subseteq Threads /\ PoolSize \in Nat
        /\ closed' = closed /\ closed \in BOOLEAN
    BY SsimPoolAssumption, PoolIsInSets DEF PoolInvariant, PlacesAreGood, Replace, ServiceIsGood
  <1>1. /\ known /\ ~closed => new \in Threads /\ thread[new] = "unborn"
        /\ thread' = [x \in Threads |->
              IF x = w THEN IF thread[w] = "up" THEN "errored" ELSE "gone"
              ELSE IF known /\ ~closed /\ x = new THEN "up" ELSE thread[x]]
        /\ IF busy[w] # NoTask THEN SettleTask(busy[w], "failed", free, taken)
           ELSE Drain(queue, free, busy) /\ UNCHANGED <<task, waiting>>
    <2>1. known /\ ~closed => \E x \in Threads : thread[x] = "unborn"
      BY DEF Replace
    <2>2. known /\ ~closed => new \in Threads /\ thread[new] = "unborn"
      BY <2>1
    <2> QED
      BY <2>2 DEF Replace
  <1>2. /\ left \in Seq(Threads) /\ IsInjective(left) /\ Range(left) = Range(idle) \ {w}
        /\ queue # <<>> => left = <<>>
    BY IdleWithoutOne
  <1>3. \A v \in before : thread[v] = "up" /\ v \in Threads
    BY <1>0 DEF ServiceIsGood
  <1> HIDE DEF new, left
  <1>4. known /\ ~closed => new \notin before /\ new # w /\ new \notin Range(left)
    <2>1. \A v \in Range(idle) : v \in before
      BY DEF ServiceOf
    <2> HIDE DEF before
    <2> QED
      BY <1>1, <1>2, <1>3, <2>1
  <1>5. /\ free \in Seq(Threads) /\ IsInjective(free) /\ (Len(free) <= 1 \/ queue = <<>>)
        /\ Range(free) = (Range(idle) \ {w}) \cup (IF known /\ ~closed THEN {new} ELSE {})
    <2>1. CASE known /\ ~closed
      <3>1. /\ Append(left, new) \in Seq(Threads)
            /\ \A k, l \in DOMAIN Append(left, new) : Append(left, new)[k] = Append(left, new)[l] => k = l
            /\ Range(Append(left, new)) = Range(left) \cup {new}
        BY <1>1, <1>2, <1>4, <2>1, AppendOne DEF IsInjective
      <3>2. free = Append(left, new)
        BY <2>1
      <3>3. Len(free) <= 1 \/ queue = <<>>
        BY <1>2, <3>2
      <3> QED
        BY <1>2, <2>1, <3>1, <3>2, <3>3 DEF IsInjective
    <2>2. CASE ~(known /\ ~closed)
      <3>1. free = left
        BY <2>2
      <3>2. Len(free) <= 1 \/ queue = <<>>
        BY <1>2, <3>1
      <3> QED
        BY <1>2, <2>2, <3>1, <3>2
    <2> QED
      BY <2>1, <2>2
  <1> HIDE DEF free
  <1>6. /\ \A v \in Range(free) : busy[v] = NoTask /\ v # w
    <2>1. known /\ ~closed => busy[new] = NoTask
      <3>1. \A v \in Threads : busy[v] # NoTask => v \in before
        BY DEF ServiceOf, WorkersOf
      <3> HIDE DEF before
      <3> QED
        BY <1>1, <1>4, <3>1
    <2> QED
      BY <1>0, <1>4, <1>5, <2>1
  <1>7. after = (before \ {w}) \cup (IF known /\ ~closed THEN {new} ELSE {})
    <2>1. WorkersOf(taken) = WorkersOf(busy) \ {w}
      BY <1>0 DEF WorkersOf
    <2> HIDE DEF taken
    <2> QED
      BY <1>5, <2>1 DEF ServiceOf
  <1>8. ServiceIsGood(thread', closed', queue, after)
    <2>1. thread' \in [Threads -> {"unborn", "up", "errored", "gone"}]
      BY <1>0, <1>1 DEF ServiceIsGood
    <2> HIDE DEF before, after
    <2>2. \A v \in after : thread'[v] = "up"
      BY <1>1, <1>3, <1>4, <1>7
    <2>3. ASSUME ~closed PROVE Cardinality(after) = PoolSize
      <3>1. Cardinality(before) = PoolSize /\ IsFiniteSet(before)
        BY <1>0, <2>3, FS_Subset DEF ServiceIsGood
      <3>2. CASE known
        <4> DEFINE rest == before \ {w}
        <4>1. IsFiniteSet(rest) /\ Cardinality(rest) = PoolSize - 1 /\ new \notin rest
          BY <1>0, <1>4, <2>3, <3>1, <3>2, FS_RemoveElement
        <4>2. after = rest \cup {new}
          BY <1>7, <2>3, <3>2
        <4> HIDE DEF rest
        <4>3. Cardinality(rest \cup {new}) = Cardinality(rest) + 1
          BY <4>1, FS_AddElement
        <4> QED
          BY <1>0, <4>1, <4>2, <4>3
      <3>3. CASE ~known
        <4>1. after = before
          BY <1>0, <1>7, <3>3
        <4> QED
          BY <3>1, <4>1
      <3> QED
        BY <3>2, <3>3
    <2> QED
      BY <1>0, <2>1, <2>2, <2>3 DEF ServiceIsGood
  <1>9. CASE busy[w] # NoTask
    <2>1. SettleTask(busy[w], "failed", free, taken)
      BY <1>1, <1>9
    <2>2. ServiceIsGood(thread', closed, queue, ServiceOf(free, taken))
      BY <1>0, <1>8
    <2> QED
      BY <1>0, <1>5, <1>6, <1>9, <2>1, <2>2, SettleIsGood
  <1>10. CASE busy[w] = NoTask
    <2>1. taken = busy
      BY <1>0, <1>10
    <2>2. Drain(queue, free, busy) /\ UNCHANGED <<task, waiting>>
      BY <1>1, <1>10
    <2>3. PlacesAreGood(queue, free, busy)
      BY <1>0, <1>5, <1>6 DEF PlacesAreGood
    <2>4. ServiceIsGood(thread', closed', queue, ServiceOf(free, busy))
      BY <1>8, <2>1
    <2>5. Len(queue) <= 1 \/ Len(free) <= 1
      BY <1>5
    <2> QED
      BY <1>0, <2>2, <2>3, <2>4, <2>5, DrainIsGood
  <1> QED
    BY <1>9, <1>10

LEMMA CloseIsGood == ASSUME PoolInvariant, ClosePool PROVE PoolInvariant'
  <1> DEFINE S == TasksIn(queue, busy)
             R == {busy[w] : w \in WorkersOf(busy)}
             queued == {JobOf[u] : u \in Range(queue)}
             refused == Range(queue) \cup UNION {Range(waiting[j]) : j \in queued}
  <1>0. /\ PlacesAreGood(queue, idle, busy) /\ CallsAreGood(task, waiting, S) /\ SharesAreGood(waiting, S)
        /\ ServiceIsGood(thread, closed, queue, ServiceOf(idle, busy))
        /\ JobOf \in [Tasks -> Jobs] /\ NoTask \notin Tasks /\ Share \in Nat
        /\ S \subseteq Tasks /\ Range(queue) \subseteq Tasks
    BY SsimPoolAssumption, PoolIsInSets DEF PoolInvariant
  <1>1. /\ closed' = TRUE /\ queue' = <<>> /\ idle' = <<>>
        /\ task' = [t \in Tasks |-> IF t \in refused THEN "failed" ELSE task[t]]
        /\ waiting' = [j \in Jobs |-> IF j \in queued THEN <<>> ELSE waiting[j]]
        /\ UNCHANGED <<busy, thread>>
    BY DEF ClosePool
  <1>2. Range(queue') = {} /\ Range(idle') = {}
    BY <1>1 DEF Range
  <1>3. PlacesAreGood(queue', idle', busy')
    <2>1. busy \in [Threads -> Tasks \cup {NoTask}]
          /\ \A w, v \in Threads : busy[w] # NoTask /\ busy[w] = busy[v] => w = v
      BY <1>0 DEF PlacesAreGood
    <2> QED
      BY <1>1, <1>2, <2>1 DEF PlacesAreGood, IsInjective
  <1>4. /\ TasksIn(queue', busy') = R /\ S = R \cup Range(queue) /\ R \cap Range(queue) = {}
    <2>1. \A w \in Threads : busy[w] \notin Range(queue)
      BY <1>0 DEF PlacesAreGood
    <2> QED
      BY <1>1, <1>2, <2>1 DEF TasksIn, WorkersOf
  <1>5. /\ waiting \in [Jobs -> Seq(Tasks)] /\ task \in [Tasks -> {"new", "called", "done", "failed"}]
        /\ \A i \in Jobs : IsInjective(waiting[i]) /\ \A u \in Range(waiting[i]) : JobOf[u] = i
        /\ \A u \in Tasks : task[u] = "called" <=> u \in S \/ u \in Range(waiting[JobOf[u]])
        /\ \A u \in S : u \notin Range(waiting[JobOf[u]])
        /\ queued \subseteq Jobs
    BY <1>0 DEF CallsAreGood
  <1> HIDE DEF S, R
  <1>6. \A u \in Tasks : u \in refused <=>
            u \in Range(queue) \/ (JobOf[u] \in queued /\ u \in Range(waiting[JobOf[u]]))
    <2> HIDE DEF queued
    <2> SUFFICES ASSUME NEW u \in Tasks
                 PROVE  u \in refused <=>
                            u \in Range(queue) \/ (JobOf[u] \in queued /\ u \in Range(waiting[JobOf[u]]))
      OBVIOUS
    <2>1. u \in refused <=> u \in Range(queue) \/ \E j \in queued : u \in Range(waiting[j])
      OBVIOUS
    <2>2. \A j \in queued : u \in Range(waiting[j]) => JobOf[u] = j
      BY <1>5
    <2> QED
      BY <2>1, <2>2
  <1> HIDE DEF refused, queued
  <1>7. CallsAreGood(task', waiting', R)
    <2>1. waiting' \in [Jobs -> Seq(Tasks)] /\ task' \in [Tasks -> {"new", "called", "done", "failed"}]
      <3>1. <<>> \in Seq(Tasks)
        OBVIOUS
      <3> QED
        BY <1>1, <1>5, <3>1
    <2>2. \A i \in Jobs : IsInjective(waiting'[i]) /\ \A u \in Range(waiting'[i]) : JobOf[u] = i
      <3>1. IsInjective(<<>>) /\ Range(<<>>) = {}
        BY DEF IsInjective, Range
      <3> QED
        BY <1>1, <1>5, <3>1
    <2>3. \A u \in Tasks : u \in Range(waiting'[JobOf[u]]) <=>
              u \in Range(waiting[JobOf[u]]) /\ JobOf[u] \notin queued
      <3>1. Range(<<>>) = {}
        BY DEF Range
      <3> QED
        BY <1>0, <1>1, <3>1
    <2>4. ASSUME NEW u \in Tasks
          PROVE  task'[u] = "called" <=> u \in R \/ u \in Range(waiting'[JobOf[u]])
      <3>1. u \in Range(queue) => u \notin R /\ JobOf[u] \in queued
        BY <1>4 DEF queued
      <3>2. task'[u] = "called" <=> u \notin refused /\ task[u] = "called"
        BY <1>1
      <3>3. task[u] = "called" <=> u \in R \/ u \in Range(queue) \/ u \in Range(waiting[JobOf[u]])
        BY <1>4, <1>5
      <3>4. u \in R => u \notin Range(waiting[JobOf[u]])
        BY <1>4, <1>5
      <3> QED
        <4>1. u \in refused <=>
                  u \in Range(queue) \/ (JobOf[u] \in queued /\ u \in Range(waiting[JobOf[u]]))
          BY <1>6
        <4>2. u \in Range(waiting'[JobOf[u]]) <=>
                  u \in Range(waiting[JobOf[u]]) /\ JobOf[u] \notin queued
          BY <2>3
        <4> QED
          BY <3>1, <3>2, <3>3, <3>4, <4>1, <4>2
    <2>5. \A u \in R : u \notin Range(waiting'[JobOf[u]])
      BY <1>0, <1>4, <1>5, <2>3
    <2> QED
      BY <2>1, <2>2, <2>4, <2>5 DEF CallsAreGood
  <1>8. SharesAreGood(waiting', R)
    <2> SUFFICES ASSUME NEW i \in Jobs
                 PROVE  /\ Cardinality(OfJob(R, i)) <= Share
                        /\ waiting'[i] # <<>> => Cardinality(OfJob(R, i)) = Share
      BY DEF SharesAreGood, OfJob
    <2>1. Cardinality(OfJob(S, i)) <= Share /\ (waiting[i] # <<>> => Cardinality(OfJob(S, i)) = Share)
      BY <1>0 DEF SharesAreGood, OfJob
    <2>2. /\ OfJob(R, i) \subseteq OfJob(S, i) /\ OfJob(S, i) \subseteq Tasks
          /\ i \notin queued => OfJob(R, i) = OfJob(S, i)
      BY <1>0, <1>4 DEF OfJob, queued
    <2>3. IsFiniteSet(OfJob(S, i))
      BY <2>2, SsimPoolAssumption, FS_Subset
    <2>4. IsFiniteSet(OfJob(R, i)) /\ Cardinality(OfJob(R, i)) <= Cardinality(OfJob(S, i))
      BY <2>2, <2>3, FS_Subset
    <2>5. Cardinality(OfJob(R, i)) \in Nat /\ Cardinality(OfJob(S, i)) \in Nat
      BY <2>3, <2>4, FS_CardinalityType
    <2>6. Cardinality(OfJob(R, i)) <= Share
      BY <1>0, <2>1, <2>4, <2>5
    <2>7. CASE i \in queued
      BY <1>1, <2>6, <2>7
    <2>8. CASE i \notin queued
      BY <1>1, <2>1, <2>2, <2>6, <2>8
    <2> QED
      BY <2>7, <2>8
  <1>9. ServiceIsGood(thread', closed', queue', ServiceOf(idle', busy'))
    <2>1. ServiceOf(idle', busy') \subseteq ServiceOf(idle, busy)
      BY <1>1, <1>2 DEF ServiceOf
    <2> QED
      BY <1>0, <1>1, <2>1 DEF ServiceIsGood
  <1> QED
    BY <1>1, <1>3, <1>4, <1>7, <1>8, <1>9 DEF PoolInvariant

LEMMA PoolInvariantAtStart == SsimPoolInit => PoolInvariant
  <1> SUFFICES ASSUME SsimPoolInit PROVE PoolInvariant
    OBVIOUS
  <1> DEFINE all == SetToSeq(Threads)
             n == Cardinality(Threads)
  <1>0. /\ task = [t \in Tasks |-> "new"] /\ waiting = [j \in Jobs |-> <<>>] /\ queue = <<>>
        /\ idle = SubSeq(all, 1, PoolSize) /\ busy = [w \in Threads |-> NoTask]
        /\ thread = [w \in Threads |-> IF w \in Range(idle) THEN "up" ELSE "unborn"] /\ closed = FALSE
        /\ PoolSize \in Nat /\ PoolSize # 0 /\ Share \in Nat /\ PoolSize <= n /\ IsFiniteSet(Threads)
        /\ IsFiniteSet(Tasks) /\ NoTask \notin Tasks
    BY SsimPoolAssumption DEF SsimPoolInit
  <1>1. n \in Nat /\ all \in [1 .. n -> Threads] /\ \A k, l \in 1 .. n : all[k] = all[l] => k = l
    <2>1. n \in Nat
      BY <1>0, FS_CardinalityType
    <2>2. \E f \in [1 .. n -> Threads] : IsInjective(f)
      <3>1. ExistsBijection(1 .. n, Threads)
        BY <1>0, FS_CountingElements, FS_CardinalityType
      <3> QED
        BY <3>1 DEF ExistsBijection, Bijection, Injection, IsInjective
    <2>3. all \in [1 .. n -> Threads] /\ IsInjective(all)
      BY <2>2 DEF SetToSeq
    <2> QED
      BY <2>1, <2>3 DEF IsInjective
  <1> HIDE DEF all, n
  <1>2. all \in Seq(Threads) /\ Len(all) = n
    BY <1>1
  <1>3. /\ idle \in Seq(Threads) /\ Len(idle) = PoolSize /\ DOMAIN idle = 1 .. PoolSize
        /\ \A k \in 1 .. PoolSize : idle[k] = all[k] /\ k \in 1 .. n
    BY <1>0, <1>1, <1>2
  <1>4. IsInjective(idle)
    BY <1>1, <1>3 DEF IsInjective
  <1>5. Range(queue) = {} /\ WorkersOf(busy) = {} /\ TasksIn(queue, busy) = {}
        /\ ServiceOf(idle, busy) = Range(idle) /\ Range(<<>>) = {}
    BY <1>0 DEF Range, WorkersOf, TasksIn, ServiceOf
  <1>6. PlacesAreGood(queue, idle, busy)
    BY <1>0, <1>3, <1>4, <1>5 DEF PlacesAreGood, IsInjective, Range
  <1>7. CallsAreGood(task, waiting, {})
    <2>1. waiting \in [Jobs -> Seq(Tasks)] /\ task \in [Tasks -> {"new", "called", "done", "failed"}]
      <3>1. <<>> \in Seq(Tasks)
        OBVIOUS
      <3> QED
        BY <1>0, <3>1
    <2>2. \A j \in Jobs : IsInjective(waiting[j]) /\ Range(waiting[j]) = {}
      BY <1>0, <1>5 DEF IsInjective
    <2>3. \A t \in Tasks : task[t] # "called" /\ t \notin Range(waiting[JobOf[t]])
      <3>1. \A t \in Tasks : JobOf[t] \in Jobs
        BY SsimPoolAssumption
      <3> QED
        BY <1>0, <2>2, <3>1
    <2> QED
      BY <2>1, <2>2, <2>3 DEF CallsAreGood
  <1>8. SharesAreGood(waiting, {})
    <2>1. \A j \in Jobs : Cardinality({t \in {} : JobOf[t] = j}) = 0
      <3>1. \A j \in Jobs : {t \in {} : JobOf[t] = j} = {}
        OBVIOUS
      <3> QED
        BY <3>1, FS_EmptySet
    <2> QED
      BY <1>0, <2>1 DEF SharesAreGood
  <1>9. Cardinality(Range(idle)) = PoolSize
    <2>1. 1 .. PoolSize \subseteq DOMAIN idle /\ IsFiniteSet(1 .. PoolSize)
          /\ Cardinality(1 .. PoolSize) = PoolSize
      BY <1>0, <1>3, FS_Interval
    <2>2. Range(idle) = {idle[l] : l \in 1 .. PoolSize}
      BY <1>3 DEF Range
    <2>3. \A k, l \in DOMAIN idle : idle[k] = idle[l] => k = l
      BY <1>4 DEF IsInjective
    <2> DEFINE B == 1 .. PoolSize
    <2>4. IsFiniteSet(B) /\ B \subseteq DOMAIN idle /\ Cardinality(B) = PoolSize
          /\ Range(idle) = {idle[l] : l \in B}
      BY <2>1, <2>2
    <2> HIDE DEF B
    <2>5. Cardinality({idle[l] : l \in B}) = Cardinality(B)
      BY <2>3, <2>4, AsManyItems
    <2> QED
      BY <2>4, <2>5
  <1>10. ServiceIsGood(thread, closed, queue, Range(idle))
    <2>1. Range(idle) \subseteq Threads
      BY <1>3 DEF Range
    <2> QED
      BY <1>0, <1>9, <2>1 DEF ServiceIsGood
  <1> QED
    BY <1>0, <1>5, <1>6, <1>7, <1>8, <1>10 DEF PoolInvariant

LEMMA PoolStepIsGood == PoolInvariant /\ [SsimPoolNext]_poolVars => PoolInvariant'
  <1> SUFFICES ASSUME PoolInvariant, [SsimPoolNext]_poolVars PROVE PoolInvariant'
    OBVIOUS
  <1>1. CASE UNCHANGED poolVars
    BY <1>1 DEF poolVars, PoolInvariant
  <1>2. CASE SsimPoolNext
    BY <1>2, CallIsGood, ReplyIsGood, ReplaceIsGood, CloseIsGood
       DEF SsimPoolNext, ThreadErrs, ThreadExits
  <1> QED
    BY <1>1, <1>2

\* For any jobs, calls and threads: a call is in one place of the pool until it
\* settles, a thread in one, and the threads in service are as many as the pool
\* has, whichever die (submit, drain, forJob, replace, close).
THEOREM PoolInvariantHolds == SsimPoolSpec => []PoolInvariant
  BY PoolInvariantAtStart, PoolStepIsGood, PTL DEF SsimPoolSpec

\* No call of the pool waits for nothing: what is queued waits for threads that
\* have work, what waits for a share waits for calls of its own job, and a
\* closed pool keeps no queue.
THEOREM NobodyEverWaitsInVain == SsimPoolSpec => []NobodyWaitsInVain
  <1>1. PoolInvariant => NobodyWaitsInVain
    <2> SUFFICES ASSUME PoolInvariant PROVE NobodyWaitsInVain
      OBVIOUS
    <2>0. /\ Submitted = TasksIn(queue, busy) /\ InService = ServiceOf(idle, busy)
          /\ CallsAreGood(task, waiting, Submitted) /\ SharesAreGood(waiting, Submitted)
          /\ ServiceIsGood(thread, closed, queue, InService) /\ (queue # <<>> => idle = <<>>)
          /\ JobOf \in [Tasks -> Jobs]
      BY PoolIsInSets, SsimPoolAssumption DEF PoolInvariant
    <2>1. ~closed => Cardinality(InService) = PoolSize
      BY <2>0 DEF ServiceIsGood
    <2>2. closed => queue = <<>>
      BY <2>0 DEF ServiceIsGood
    <2>3. \A j \in Jobs : ActiveOf(j) <= Share /\ (waiting[j] # <<>> => ActiveOf(j) = Share)
      BY <2>0 DEF SharesAreGood, ActiveOf
    <2>4. \A w \in Threads : busy[w] # NoTask => thread[w] = "up"
      BY <2>0 DEF ServiceIsGood, ServiceOf, WorkersOf
    <2>5. ASSUME NEW t \in Tasks, task[t] = "called"
          PROVE  t \in Submitted \cup Range(waiting[JobOf[t]])
      BY <2>0, <2>5 DEF CallsAreGood
    <2> QED
      BY <2>0, <2>1, <2>2, <2>3, <2>4, <2>5 DEF NobodyWaitsInVain
  <1> QED
    BY <1>1, PoolInvariantHolds, PTL
-----------------------------------------------------------------------------
(* Derivatives. *)

\* What the search knows: a quality below `lo` misses the target, one above
\* `hi` is the best so far, and the steps left are enough for what is between.
SearchIsSound ==
    /\ search \in [lo: Nat, hi: Nat, steps: 0 .. SearchSteps, best: Nat \cup {NoQuality},
                   triedMax: BOOLEAN]
    /\ Span.min <= search.lo /\ search.lo <= search.hi + 1 /\ search.hi <= Span.max
    /\ search.lo = Span.min \/ search.lo <= needs.reference
    /\ search.best # NoQuality =>
          search.best = search.hi + 1 /\ needs.reference <= search.best /\ search.best <= Span.max
    /\ search.best = NoQuality =>
          search.hi = Span.max /\ (search.triedMax <=> search.lo = Span.max + 1)
    /\ search.hi + 1 - search.lo < Searched[SearchSteps + Slack(format) - search.steps]

\* What is made of the reference is the lightest there is.
ReferenceIsLightest == TheReference \in DOMAIN made =>
    LET q == made[TheReference].quality
        lowest == IF Span.min <= needs.reference THEN needs.reference ELSE Span.min
    IN  IF lowest > Span.max THEN q = Span.ceiling
        ELSE q = lowest \/ (format = "avif" /\ q = lowest + 1)

\* Only a derivative at the ceiling misses the target.
MissesAreAtCeiling == \A w \in DOMAIN made :
    /\ made[w].quality \in Nat
    /\ ~made[w].met => made[w].quality = Span.ceiling /\ NeedAt(w) > Span.ceiling

\* A lane has a width of its own, and the ceiling is the last it tries.
LanesEndAtCeiling == \A k \in DOMAIN lanes : lanes[k] # IdleLane =>
    /\ lanes[k] = [width |-> lanes[k].width, try |-> lanes[k].try]
    /\ lanes[k].width \in widths \ {TheReference}
    /\ lanes[k].try \in Seq(Nat) /\ lanes[k].try # <<>>
    /\ lanes[k].try[Len(lanes[k].try)] = Span.ceiling

InLanes == {lanes[k].width : k \in {k \in DOMAIN lanes : lanes[k] # IdleLane}}

\* Each width of the plan is made, in a lane or waits for one.
WidthsAreCovered ==
    /\ pending \subseteq widths \ {TheReference} /\ DOMAIN made \subseteq widths
    /\ IF format = "jpeg" THEN pending = {} /\ InLanes = {} /\ DOMAIN made \subseteq {TheReference}
       ELSE widths \ {TheReference} \subseteq pending \cup InLanes \cup DOMAIN made

DerivativesInvariant ==
    /\ original \in Originals /\ widths = PlanWidths(original) /\ widths # {}
    /\ format \in Formats /\ needs \in [reference: Needs, elsewhere: OtherNeeds]
    /\ failed \in BOOLEAN
    /\ lanes \in [1 .. ParallelWidths -> [width: Nat, try: Seq(Nat)]]
    /\ SearchIsSound /\ ReferenceIsLightest /\ MissesAreAtCeiling /\ LanesEndAtCeiling
    /\ WidthsAreCovered
-----------------------------------------------------------------------------
\* A function of one number defined from its value at the number before.
LEMMA SearchedDoubles ==
  /\ Searched[0] = 1
  /\ \A k \in Nat : Searched[k + 1] = 2 * Searched[k] /\ Searched[k] \in Nat
  <1> DEFINE First(g, n) == g \in [0 .. n -> Nat] /\ g[0] = 1 /\ \A k \in 1 .. n : g[k] = 2 * g[k - 1]
             Bad == {n \in Nat : ~\E g : First(g, n)}
  <1>1. \A n \in Nat : \E g : First(g, n)
    <2> SUFFICES ASSUME Bad # {} PROVE FALSE
      OBVIOUS
    <2>1. PICK m \in Bad : \A n \in Bad : m <= n
      <3> HIDE DEF First
      <3>1. Bad \in SUBSET Nat
        OBVIOUS
      <3> HIDE DEF Bad
      <3> QED
        BY <3>1, LeastOf
    <2>2. CASE m = 0
      <3> DEFINE h == [k \in 0 .. 0 |-> 1]
      <3>1. First(h, 0)
        OBVIOUS
      <3> QED
        BY <2>1, <2>2, <3>1
    <2>3. CASE m # 0
      <3>1. m \in Nat /\ m - 1 \in Nat /\ ~(m <= m - 1)
        BY <2>1, <2>3
      <3>2. PICK g : First(g, m - 1)
        <4> HIDE DEF First
        <4> QED
          BY <2>1, <3>1
      <3> DEFINE h == [k \in 0 .. m |-> IF k = m THEN 2 * g[m - 1] ELSE g[k]]
      <3>3. /\ m \in Nat /\ m > 0 /\ \A k \in 0 .. m - 1 : g[k] \in Nat
            /\ g[0] = 1 /\ \A k \in 1 .. m - 1 : g[k] = 2 * g[k - 1]
        BY <2>1, <2>3, <3>2
      <3>4. h \in [0 .. m -> Nat] /\ h[0] = 1
        BY <3>3
      <3>5. \A k \in 1 .. m : h[k] = 2 * h[k - 1]
        BY <3>3
      <3>6. First(h, m)
        BY <3>4, <3>5
      <3> QED
        BY <2>1, <3>6
    <2> QED
      BY <2>2, <2>3
  <1>2. ASSUME NEW n \in Nat, NEW g, NEW h, First(g, n), First(h, n + 1) PROVE h[n] = g[n]
    <2> DEFINE Differ == {k \in 0 .. n : g[k] # h[k]}
    <2> SUFFICES ASSUME Differ # {} PROVE FALSE
      OBVIOUS
    <2>1. PICK m \in Differ : \A k \in Differ : m <= k
      <3>1. Differ \in SUBSET Nat
        OBVIOUS
      <3> HIDE DEF Differ
      <3> QED
        BY <3>1, LeastOf
    <2>2. m \in 0 .. n /\ g[m] # h[m] /\ m # 0
      BY <1>2, <2>1
    <2>3. m \in 1 .. n /\ m \in 1 .. n + 1 /\ m - 1 \in 0 .. n /\ ~(m <= m - 1)
      BY <2>2
    <2>4. g[m - 1] = h[m - 1]
      BY <2>1, <2>3
    <2> QED
      BY <1>2, <2>2, <2>3, <2>4
  <1> DEFINE Choice(n) == CHOOSE g : First(g, n)
             all == [n \in Nat |-> Choice(n)[n]]
  <1>3. \A n \in Nat : First(Choice(n), n)
    <2> HIDE DEF First
    <2> QED
      BY <1>1
  <1> HIDE DEF Choice
  <1>4. all[0] = 1
    BY <1>3
  <1>5. \A n \in Nat : all[n] \in Nat
    BY <1>3
  <1>6. \A n \in Nat : all[n + 1] = 2 * all[n]
    <2> TAKE n \in Nat
    <2>1. First(Choice(n), n) /\ First(Choice(n + 1), n + 1)
      <3> HIDE DEF First
      <3> QED
        BY <1>3
    <2>2. Choice(n + 1)[n] = Choice(n)[n]
      <3> HIDE DEF First
      <3> QED
        BY <1>2, <2>1
    <2>3. Choice(n + 1)[n + 1] = 2 * Choice(n + 1)[n]
      BY <2>1
    <2> QED
      BY <2>2, <2>3
  <1>7. all = [k \in Nat |-> IF k = 0 THEN 1 ELSE 2 * all[k - 1]]
    <2>1. ASSUME NEW k \in Nat PROVE all[k] = IF k = 0 THEN 1 ELSE 2 * all[k - 1]
      <3>1. CASE k = 0
        BY <1>4, <3>1
      <3>2. CASE k # 0
        <4>1. k - 1 \in Nat /\ (k - 1) + 1 = k
          BY <3>2
        <4> HIDE DEF all
        <4> QED
          BY <1>6, <3>2, <4>1
      <3> QED
        BY <3>1, <3>2
    <2>2. all = [k \in Nat |-> all[k]]
      OBVIOUS
    <2> HIDE DEF all
    <2> QED
      BY <2>1, <2>2
  <1> HIDE DEF all
  <1>8. Searched = [k \in Nat |-> IF k = 0 THEN 1 ELSE 2 * Searched[k - 1]]
    BY <1>7 DEF Searched
  <1>9. Searched[0] = 1 /\ \A k \in Nat : Searched[k + 1] = 2 * Searched[k]
    <2>1. Searched[0] = 1
      BY <1>8
    <2>2. ASSUME NEW k \in Nat PROVE Searched[k + 1] = 2 * Searched[k]
      <3>1. k + 1 \in Nat /\ k + 1 # 0 /\ (k + 1) - 1 = k
        OBVIOUS
      <3> QED
        BY <1>8, <3>1
    <2> QED
      BY <2>1, <2>2
  <1> DEFINE NotNat == {k \in Nat : Searched[k] \notin Nat}
  <1>10. NotNat = {}
    <2> SUFFICES ASSUME NotNat # {} PROVE FALSE
      OBVIOUS
    <2>1. PICK m \in NotNat : \A k \in NotNat : m <= k
      <3>1. NotNat \in SUBSET Nat
        OBVIOUS
      <3> HIDE DEF NotNat
      <3> QED
        BY <3>1, LeastOf
    <2>2. m # 0 /\ m - 1 \in Nat /\ m - 1 \notin NotNat /\ (m - 1) + 1 = m
      BY <1>9, <2>1
    <2>3. Searched[m - 1] \in Nat /\ Searched[m] = 2 * Searched[m - 1]
      BY <1>9, <2>2
    <2> QED
      BY <2>1, <2>3
  <1> QED
    BY <1>9, <1>10

LEMMA MaxAndMin ==
  ASSUME NEW S \in SUBSET Nat, IsFiniteSet(S), S # {}
  PROVE  /\ Max(S) \in S /\ \A n \in S : n <= Max(S)
         /\ Min(S) \in S /\ \A n \in S : Min(S) <= n
  <1>1. \E m \in S : \A n \in S : n <= m
    BY GreatestOf
  <1>2. \E m \in S : \A n \in S : m >= n
    BY <1>1
  <1>3. Max(S) \in S /\ \A n \in S : Max(S) >= n
    BY <1>2 DEF Max
  <1>4. Min(S) \in S /\ \A n \in S : Min(S) <= n
    BY LeastOf DEF Min
  <1> QED
    BY <1>3, <1>4

LEMMA QuotientGrows ==
  ASSUME NEW a \in Nat, NEW b \in Nat, NEW c \in Nat \ {0}, a <= b
  PROVE  a \div c <= b \div c /\ a \div c \in Nat
  OBVIOUS

LEMMA ProductGrows ==
  ASSUME NEW a \in Nat, NEW b \in Nat, NEW c \in Nat, NEW d \in Nat, a <= b, c <= d
  PROVE  a * c <= b * d /\ a * c \in Nat /\ b * d \in Nat
  <1>1. a * c <= b * c
    OBVIOUS
  <1>2. b * c <= b * d
    OBVIOUS
  <1> QED
    BY <1>1, <1>2

\* A narrower picture has no greater area.
LEMMA NarrowerFits ==
  ASSUME NEW o \in Originals, NEW w \in Nat, NEW v \in Nat, v <= w, FitsArea(o, w)
  PROVE  FitsArea(o, v)
  <1>1. o.h \in Nat /\ o.w \in Nat \ {0} /\ MaxPixels \in Nat
    BY DerivativesAssumption
  <1>2. v * o.h <= w * o.h /\ v * o.h \in Nat /\ w * o.h \in Nat
    BY <1>1, ProductGrows
  <1> DEFINE a == v * o.h + o.w - 1
             b == w * o.h + o.w - 1
  <1>3. a \in Nat /\ b \in Nat /\ a <= b
    <2> DEFINE e == v * o.h
               f == w * o.h
               g == o.w
    <2>1. e <= f /\ e \in Nat /\ f \in Nat /\ g \in Nat \ {0}
      BY <1>1, <1>2
    <2>2. a = e + g - 1 /\ b = f + g - 1
      OBVIOUS
    <2> HIDE DEF a, b, e, f, g
    <2> QED
      BY <2>1, <2>2
  <1> HIDE DEF a, b
  <1>4. a \div o.w <= b \div o.w /\ a \div o.w \in Nat /\ b \div o.w \in Nat
    BY <1>1, <1>3, QuotientGrows
  <1> DEFINE c == a \div o.w
             d == b \div o.w
  <1>5. c \in Nat /\ d \in Nat /\ c <= d
    BY <1>4
  <1>6. w * d <= MaxPixels
    BY DEF FitsArea, CeilDiv, b
  <1>7. FitsArea(o, v) <=> v * c <= MaxPixels
    BY DEF FitsArea, CeilDiv, a
  <1> HIDE DEF c, d
  <1>8. v * c <= w * d /\ v * c \in Nat /\ w * d \in Nat
    BY <1>5, ProductGrows
  <1> QED
    BY <1>1, <1>6, <1>7, <1>8

\* The plan has the widths of standard, of the original and of the area that
\* are no larger than the original or the area.
LEMMA PlanIsGood ==
  ASSUME NEW o \in Originals
  PROVE  /\ IsFiniteSet(PlanWidths(o)) /\ PlanWidths(o) \subseteq Nat
         /\ \A w \in PlanWidths(o) : w <= o.w /\ FitsArea(o, w)
  <1> DEFINE largest == Max(StandardWidths)
             candidates == {w \in StandardWidths : w <= o.w} \cup (IF o.w < largest THEN {o.w} ELSE {})
             kept == {w \in candidates : FitsArea(o, w)}
             multiples == {16 * k : k \in 1 .. (largest \div 16)}
             sixteens == {w \in multiples : FitsArea(o, w)}
             capped == IF sixteens = {} THEN 0 ELSE Max(sixteens)
  <1>1. o.w \in Nat \ {0} /\ StandardWidths \subseteq Nat /\ IsFiniteSet(StandardWidths) /\ StandardWidths # {}
    BY DerivativesAssumption
  <1>2. largest \in Nat
    BY <1>1, MaxAndMin
  <1>3. candidates \subseteq Nat /\ IsFiniteSet(candidates) /\ \A w \in candidates : w <= o.w
    <2> DEFINE own == IF o.w < largest THEN {o.w} ELSE {}
               standard == {w \in StandardWidths : w <= o.w}
    <2>1. IsFiniteSet(own) /\ own \subseteq Nat /\ \A w \in own : w <= o.w
      <3>1. CASE o.w < largest
        BY <1>1, <3>1, FS_Singleton
      <3>2. CASE ~(o.w < largest)
        BY <3>2, FS_EmptySet
      <3> QED
        BY <3>1, <3>2
    <2>2. IsFiniteSet(standard) /\ standard \subseteq Nat /\ \A w \in standard : w <= o.w
      BY <1>1, FS_Subset
    <2> HIDE DEF own, standard
    <2>3. IsFiniteSet(standard \cup own)
      BY <2>1, <2>2, FS_Union
    <2> QED
      BY <2>1, <2>2, <2>3 DEF own, standard
  <1> HIDE DEF largest, candidates
  <1>4. IsFiniteSet(sixteens) /\ sixteens \subseteq Nat
    <2>1. largest \div 16 \in Nat
      BY <1>2, QuotientGrows
    <2> DEFINE n == largest \div 16
               f == [k \in 1 .. n |-> 16 * k]
    <2> HIDE DEF n
    <2>2. n \in Nat /\ IsFiniteSet(1 .. n)
      BY <2>1, FS_Interval DEF n
    <2>3. multiples \subseteq Nat /\ f \in Surjection(1 .. n, multiples)
      BY <2>2 DEF Surjection, n
    <2>4. IsFiniteSet(multiples)
      BY <2>2, <2>3, FS_Surjection
    <2> HIDE DEF multiples
    <2> QED
      BY <2>3, <2>4, FS_Subset
  <1>5. kept \subseteq Nat /\ IsFiniteSet(kept) /\ \A w \in kept : w <= o.w /\ FitsArea(o, w)
    BY <1>3, FS_Subset
  <1>6. PlanWidths(o) = IF kept # candidates /\ capped > (IF kept = {} THEN 0 ELSE Max(kept))
                        THEN kept \cup {capped} ELSE kept
    BY DEF PlanWidths, candidates, largest
  <1>7. ASSUME kept # candidates, capped > (IF kept = {} THEN 0 ELSE Max(kept))
        PROVE  capped \in Nat /\ capped <= o.w /\ FitsArea(o, capped)
    <2>1. sixteens # {}
      <3>1. CASE kept = {}
        BY <1>7, <3>1
      <3>2. CASE kept # {}
        <4>1. Max(kept) \in Nat
          BY <1>5, <3>2, MaxAndMin
        <4> QED
          BY <1>7, <3>2, <4>1
      <3> QED
        BY <3>1, <3>2
    <2>2. capped \in sixteens
      BY <1>4, <2>1, MaxAndMin
    <2>3. capped \in Nat /\ FitsArea(o, capped)
      BY <1>4, <2>2
    <2>4. PICK c \in candidates : ~FitsArea(o, c)
      BY <1>7
    <2>5. c \in Nat /\ c <= o.w /\ o.w \in Nat
      BY <1>1, <1>3, <2>4
    <2> HIDE DEF capped
    <2>6. ~(c <= capped)
      BY <2>3, <2>4, <2>5, NarrowerFits
    <2> QED
      BY <2>3, <2>5, <2>6
  <1> HIDE DEF kept, capped
  <1>8. CASE kept # candidates /\ capped > (IF kept = {} THEN 0 ELSE Max(kept))
    <2>1. IsFiniteSet(kept \cup {capped})
      BY <1>5, FS_AddElement
    <2> QED
      BY <1>5, <1>6, <1>7, <1>8, <2>1
  <1>9. CASE ~(kept # candidates /\ capped > (IF kept = {} THEN 0 ELSE Max(kept)))
    BY <1>5, <1>6, <1>9
  <1> QED
    BY <1>8, <1>9

LEMMA ReferenceIsOfPlan ==
  ASSUME NEW S \in SUBSET Nat, IsFiniteSet(S), S # {}
  PROVE  ReferenceOf(S) \in S
  <1> DEFINE fits == {w \in S : w <= ReferenceWidth}
  <1>1. CASE fits = {}
    BY <1>1, MaxAndMin DEF ReferenceOf
  <1>2. CASE fits # {}
    <2>1. IsFiniteSet(fits) /\ fits \in SUBSET Nat /\ fits \subseteq S
      BY FS_Subset
    <2>2. ReferenceOf(S) = Max(fits)
      BY <1>2 DEF ReferenceOf
    <2> HIDE DEF fits
    <2> QED
      BY <1>2, <2>1, <2>2, MaxAndMin
  <1> QED
    BY <1>1, <1>2

\* What a plan is to the actions.
LEMMA PlannedWidths ==
  ASSUME DerivativesInvariant
  PROVE  /\ IsFiniteSet(widths) /\ widths \subseteq Nat /\ widths # {} /\ TheReference \in widths
         /\ \A w \in widths : w <= original.w /\ FitsArea(original, w)
         /\ needs.reference \in Nat /\ needs.elsewhere \in Nat
         /\ Span.min \in Nat \ {0} /\ Span.max \in Nat /\ Span.ceiling \in Nat /\ Span.min <= Span.max
         /\ \A w \in widths : NeedAt(w) \in Nat
  <1>1. /\ IsFiniteSet(widths) /\ widths \in SUBSET Nat /\ widths # {}
        /\ \A w \in widths : w <= original.w /\ FitsArea(original, w)
    BY PlanIsGood DEF DerivativesInvariant
  <1>2. TheReference \in widths
    BY <1>1, ReferenceIsOfPlan DEF TheReference
  <1>3. needs.reference \in Nat /\ needs.elsewhere \in Nat
    BY DerivativesAssumption DEF DerivativesInvariant
  <1>4. /\ Span.min \in Nat \ {0} /\ Span.max \in Nat /\ Span.ceiling \in Nat
        /\ Span.min <= Span.max
    BY DerivativesAssumption DEF DerivativesInvariant, Span
  <1> QED
    BY <1>1, <1>2, <1>3, <1>4 DEF NeedAt

LEMMA DerivativesInvariantAtStart == DerivativesInit => DerivativesInvariant
  <1> SUFFICES ASSUME DerivativesInit PROVE DerivativesInvariant
    OBVIOUS
  <1> USE DEF DerivativesInit
  <1>1. /\ original \in Originals /\ widths = PlanWidths(original) /\ widths # {}
        /\ format \in Formats /\ needs \in [reference: Needs, elsewhere: OtherNeeds]
        /\ failed \in BOOLEAN
    OBVIOUS
  <1>2. lanes = [k \in 1 .. ParallelWidths |-> [width |-> 0, try |-> <<>>]]
    BY DEF IdleLane
  <1>3. lanes \in [1 .. ParallelWidths -> [width: Nat, try: Seq(Nat)]]
    <2>1. <<>> \in Seq(Nat)
      OBVIOUS
    <2>2. [width |-> 0, try |-> <<>>] \in [width: Nat, try: Seq(Nat)]
      BY <2>1
    <2> QED
      BY <1>2, <2>2
  <1>4. LanesEndAtCeiling /\ InLanes = {}
    BY DEF LanesEndAtCeiling, InLanes
  <1>5. DOMAIN made = {}
    OBVIOUS
  <1>6. ReferenceIsLightest /\ MissesAreAtCeiling /\ WidthsAreCovered
    BY <1>4, <1>5 DEF ReferenceIsLightest, MissesAreAtCeiling, WidthsAreCovered
  <1>7. SearchIsSound
    <2>1. search = [lo |-> Span.min, hi |-> Span.max, steps |-> 0, best |-> NoQuality, triedMax |-> FALSE]
      BY DEF NewSearch, Span
    <2>2. /\ Span.min \in Nat \ {0} /\ Span.max \in Nat /\ Span.min <= Span.max
          /\ Span.max + 1 - Span.min < Searched[SearchSteps + Slack(format)]
          /\ NoQuality \notin Nat /\ SearchSteps \in Nat /\ Slack(format) \in Nat
      BY <1>1, DerivativesAssumption DEF Span, Slack
    <2>3. SearchSteps + Slack(format) - 0 = SearchSteps + Slack(format)
      BY <2>2
    <2> QED
      BY <2>1, <2>2, <2>3 DEF SearchIsSound
  <1> QED
    BY <1>1, <1>3, <1>4, <1>6, <1>7 DEF DerivativesInvariant

\* A step of the search halves what it has still to look at.
LEMMA SearchStepIsGood ==
  ASSUME DerivativesInvariant, SearchStep
  PROVE  SearchIsSound'
  <1> DEFINE q == Round(search.lo + search.hi)
             good == q >= needs.reference
             s == SearchSteps + Slack(format) - search.steps
             left == search.hi + 1 - search.lo
  <1>1. /\ search' = [search EXCEPT
              !.steps = @ + 1, !.triedMax = @ \/ q = Span.max,
              !.best = IF good THEN q ELSE @,
              !.hi = IF good THEN q - 1 ELSE @, !.lo = IF good THEN @ ELSE q + 1]
        /\ UNCHANGED <<original, widths, needs, format, lanes, pending, made, failed>>
        /\ search.steps < SearchSteps /\ search.lo <= search.hi
    BY DEF SearchStep, Reaches, NeedAt, MoreSteps
  <1>2. /\ search \in [lo: Nat, hi: Nat, steps: 0 .. SearchSteps, best: Nat \cup {NoQuality},
                       triedMax: BOOLEAN]
        /\ Span.min <= search.lo /\ search.hi <= Span.max
        /\ search.lo = Span.min \/ search.lo <= needs.reference
        /\ search.best # NoQuality =>
              search.best = search.hi + 1 /\ needs.reference <= search.best /\ search.best <= Span.max
        /\ search.best = NoQuality =>
              search.hi = Span.max /\ (search.triedMax <=> search.lo = Span.max + 1)
        /\ left < Searched[s]
    BY DEF DerivativesInvariant, SearchIsSound
  <1>3. /\ Span.min \in Nat \ {0} /\ Span.max \in Nat /\ needs.reference \in Nat
        /\ SearchSteps \in Nat /\ Slack(format) \in Nat /\ NoQuality \notin Nat
    BY PlannedWidths, DerivativesAssumption DEF Slack
  <1>4. /\ search.lo \in Nat /\ search.hi \in Nat /\ search.steps \in Nat
        /\ search.best \in Nat \cup {NoQuality} /\ search.triedMax \in BOOLEAN
    BY <1>2
  <1>5. /\ q \in Nat /\ search.lo <= q /\ q <= search.hi
        /\ 2 * (q - search.lo) <= left /\ 2 * (search.hi - q) <= left
    BY <1>1, <1>4 DEF Round
  <1>6. s \in Nat \ {0} /\ s - 1 \in Nat /\ (s - 1) + 1 = s
    BY <1>1, <1>3, <1>4
  <1>7. Searched[s] = 2 * Searched[s - 1] /\ Searched[s - 1] \in Nat
    <2> HIDE DEF s
    <2> QED
      BY <1>6, SearchedDoubles
  <1>8. q - search.lo < Searched[s - 1] /\ search.hi - q < Searched[s - 1]
    <2> DEFINE m == Searched[s - 1]
               n == Searched[s]
    <2>1. n = 2 * m /\ m \in Nat /\ left < n
      BY <1>2, <1>7
    <2> HIDE DEF m, n, q
    <2>2. q - search.lo < m /\ search.hi - q < m
      BY <1>4, <1>5, <2>1
    <2> QED
      BY <2>2 DEF m
  <1>9. Span' = Span /\ needs' = needs /\ Slack(format') = Slack(format)
    BY <1>1 DEF Span
  <1> HIDE DEF q
  <1>10. /\ search' = [lo |-> search'.lo, hi |-> search'.hi, steps |-> search'.steps,
                        best |-> search'.best, triedMax |-> search'.triedMax]
         /\ search'.steps = search.steps + 1
         /\ search'.triedMax = (search.triedMax \/ q = Span.max)
         /\ search'.best = IF good THEN q ELSE search.best
         /\ search'.hi = IF good THEN q - 1 ELSE search.hi
         /\ search'.lo = IF good THEN search.lo ELSE q + 1
    BY <1>1, <1>2
  <1> DEFINE lo == search'.lo
             hi == search'.hi
             best == search'.best
             tried == search'.triedMax
  <1>11. SearchSteps + Slack(format) - search'.steps = s - 1
    BY <1>3, <1>4, <1>10
  <1>12. search'.steps \in 0 .. SearchSteps
    BY <1>1, <1>3, <1>4, <1>10
  <1>13. Span.min <= search.lo /\ search.hi <= Span.max
    BY <1>2
  <1>14. q \in Nat /\ search.lo <= q /\ q <= search.hi /\ q - 1 \in Nat
    BY <1>3, <1>4, <1>5, <1>13
  <1>15. CASE good
    <2>1. lo = search.lo /\ hi = q - 1 /\ best = q /\ tried \in BOOLEAN /\ needs.reference <= q
      BY <1>3, <1>4, <1>5, <1>10, <1>15
    <2>2. hi + 1 - lo < Searched[s - 1]
      BY <1>4, <1>5, <1>8, <2>1
    <2>3. hi \in Nat /\ lo <= hi + 1 /\ hi <= Span.max
      BY <1>3, <1>4, <1>13, <1>14, <2>1
    <2>4. /\ best = hi + 1 /\ best \in Nat /\ needs.reference <= best /\ best # NoQuality
          /\ best <= Span.max
      BY <1>3, <1>4, <1>13, <1>14, <2>1
    <2>5. lo = Span.min \/ lo <= needs.reference
      BY <1>2, <2>1
    <2>6. Span.min <= lo /\ lo \in Nat
      BY <1>4, <1>13, <2>1
    <2> HIDE DEF lo, hi, best, tried
    <2>7. search' \in [lo: Nat, hi: Nat, steps: 0 .. SearchSteps, best: Nat \cup {NoQuality},
                       triedMax: BOOLEAN]
      BY <1>10, <1>12, <2>1, <2>3, <2>4, <2>6 DEF lo, hi, best, tried
    <2> QED
      BY <1>9, <1>11, <2>2, <2>3, <2>4, <2>5, <2>6, <2>7 DEF SearchIsSound, lo, hi, best, tried
  <1>16. CASE ~good
    <2>1. lo = q + 1 /\ hi = search.hi /\ best = search.best /\ q + 1 <= needs.reference
          /\ tried = (search.triedMax \/ q = Span.max)
      BY <1>3, <1>4, <1>5, <1>10, <1>16
    <2>2. hi + 1 - lo < Searched[s - 1]
      BY <1>4, <1>5, <1>8, <2>1
    <2>3. lo \in Nat /\ lo <= hi + 1 /\ Span.min <= lo
      BY <1>2, <1>3, <1>4, <1>5, <2>1
    <2>4. best = NoQuality => hi = Span.max /\ (tried <=> lo = Span.max + 1)
      <3> SUFFICES ASSUME best = NoQuality PROVE hi = Span.max /\ (tried <=> lo = Span.max + 1)
        OBVIOUS
      <3>1. search.best = NoQuality
        BY <2>1
      <3>2. search.hi = Span.max /\ (search.triedMax <=> search.lo = Span.max + 1)
        BY <1>2, <3>1
      <3>3. search.lo # Span.max + 1
        BY <1>3, <1>4, <1>14, <3>2
      <3>4. ~search.triedMax
        BY <3>2, <3>3
      <3>5. q = Span.max <=> lo = Span.max + 1
        BY <1>3, <1>14, <2>1
      <3> QED
        BY <2>1, <3>2, <3>4, <3>5
    <2> QED
      BY <1>2, <1>3, <1>4, <1>5, <1>9, <1>10, <1>11, <1>12, <2>1, <2>2, <2>3, <2>4 DEF SearchIsSound
  <1> QED
    BY <1>15, <1>16

\* Of two qualities the first that reaches the target is kept, or the last.
LEMMA EscalatesToCeiling ==
  ASSUME NEW w, NEW m, NEW c
  PROVE  /\ Escalated(w, <<c>>) = c
         /\ Escalated(w, <<m, c>>) = IF Reaches(w, m) THEN m ELSE c
  <1>1. Escalated(w, <<c>>) = c
    <2> DEFINE qs == <<c>>
               good == {k \in DOMAIN qs : Reaches(w, qs[k])}
    <2>1. DOMAIN qs = {1} /\ qs[1] = c /\ Len(qs) = 1
      OBVIOUS
    <2>2. CASE good = {}
      BY <2>1, <2>2 DEF Escalated, Last
    <2>3. CASE good # {}
      <3>1. good = {1}
        BY <2>1, <2>3
      <3>2. Min({1}) = 1
        BY DEF Min
      <3> QED
        BY <2>1, <2>3, <3>1, <3>2 DEF Escalated
    <2> QED
      BY <2>2, <2>3
  <1>2. Escalated(w, <<m, c>>) = IF Reaches(w, m) THEN m ELSE c
    <2> DEFINE qs == <<m, c>>
               good == {k \in DOMAIN qs : Reaches(w, qs[k])}
    <2>1. DOMAIN qs = {1, 2} /\ qs[1] = m /\ qs[2] = c /\ Len(qs) = 2
      OBVIOUS
    <2>2. CASE Reaches(w, m)
      <3>1. 1 \in good /\ good \subseteq {1, 2} /\ good # {}
        BY <2>1, <2>2
      <3> HIDE DEF good
      <3>2. Min(good) = 1
        <4>1. \E x \in good : \A y \in good : x <= y
          BY <3>1
        <4>2. Min(good) \in good /\ \A y \in good : Min(good) <= y
          BY <4>1 DEF Min
        <4>3. Min(good) <= 1 /\ Min(good) \in {1, 2}
          BY <3>1, <4>2
        <4> DEFINE n == Min(good)
        <4> HIDE DEF n
        <4>4. n <= 1 /\ n \in {1, 2}
          BY <4>3 DEF n
        <4>5. n = 1
          BY <4>4
        <4> QED
          BY <4>5 DEF n
      <3> QED
        BY <2>1, <2>2, <3>1, <3>2 DEF Escalated, good
    <2>3. CASE ~Reaches(w, m) /\ Reaches(w, c)
      <3>1. good = {2}
        BY <2>1, <2>3
      <3>2. Min({2}) = 2
        BY DEF Min
      <3> QED
        BY <2>1, <2>3, <3>1, <3>2 DEF Escalated
    <2>4. CASE ~Reaches(w, m) /\ ~Reaches(w, c)
      <3>1. good = {}
        BY <2>1, <2>4
      <3> QED
        BY <2>1, <2>4, <3>1 DEF Escalated, Last
    <2> QED
      BY <2>2, <2>3, <2>4
  <1> QED
    BY <1>1, <1>2

\* What the search ends with is the lightest, and reaches the target or is
\* the ceiling.
LEMMA SearchEndsWell ==
  ASSUME DerivativesInvariant, ~MoreSteps,
         NEW q, q = IF search.best # NoQuality THEN search.best
                    ELSE Escalated(TheReference, IF search.triedMax THEN <<Span.ceiling>>
                                                 ELSE <<Span.max, Span.ceiling>>),
         NEW lowest, lowest = IF Span.min <= needs.reference THEN needs.reference ELSE Span.min
  PROVE  /\ q \in Nat
         /\ Reaches(TheReference, q) \/ q = Span.ceiling
         /\ IF lowest > Span.max THEN q = Span.ceiling
            ELSE q = lowest \/ (format = "avif" /\ q = lowest + 1)
  <1> DEFINE lo == search.lo
             hi == search.hi
             best == search.best
             need == needs.reference
             min == Span.min
             max == Span.max
             ceiling == Span.ceiling
  <1>1. /\ lo \in Nat /\ hi \in Nat /\ search.steps \in 0 .. SearchSteps /\ search.triedMax \in BOOLEAN
        /\ best \in Nat \cup {NoQuality}
        /\ min <= lo /\ lo <= hi + 1 /\ hi <= max
        /\ lo = min \/ lo <= need
        /\ best # NoQuality => best = hi + 1 /\ need <= best /\ best <= max
        /\ best = NoQuality => hi = max /\ (search.triedMax <=> lo = max + 1)
        /\ hi + 1 - lo < Searched[SearchSteps + Slack(format) - search.steps]
    BY DEF DerivativesInvariant, SearchIsSound
  <1>2. /\ min \in Nat /\ max \in Nat /\ ceiling \in Nat /\ min <= max /\ need \in Nat
        /\ SearchSteps \in Nat
    BY PlannedWidths, DerivativesAssumption
  <1>3. \A a : Reaches(TheReference, a) <=> a >= need
    BY DEF Reaches, NeedAt
  <1>4. lo = hi + 1 \/ (format = "avif" /\ lo = hi)
    <2> SUFFICES ASSUME lo # hi + 1 PROVE format = "avif" /\ lo = hi
      OBVIOUS
    <2>1. lo <= hi
      BY <1>1
    <2>2. search.steps = SearchSteps
      BY <1>1, <1>2, <2>1 DEF MoreSteps
    <2>3. SearchSteps + Slack(format) - search.steps = Slack(format)
      BY <1>2, <2>2 DEF Slack
    <2>4. hi + 1 - lo < Searched[Slack(format)]
      BY <1>1, <2>3
    <2>5. Searched[0] = 1 /\ Searched[0 + 1] = 2 * Searched[0]
      BY SearchedDoubles
    <2>6. Searched[1] = 2
      BY <2>5
    <2>7. format = "avif"
      <3> SUFFICES ASSUME format # "avif" PROVE FALSE
        OBVIOUS
      <3>1. hi + 1 - lo < 1
        BY <2>4, <2>5 DEF Slack
      <3> QED
        BY <1>1, <2>1, <3>1
    <2>8. hi + 1 - lo < 2
      BY <2>4, <2>6, <2>7 DEF Slack
    <2> QED
      BY <1>1, <2>1, <2>7, <2>8
  <1>5. lowest \in Nat /\ min <= lowest /\ need <= lowest /\ (lowest = min \/ lowest = need)
    BY <1>2
  <1>6. CASE best # NoQuality
    <2>1. q = best /\ best = hi + 1 /\ need <= best /\ best <= max /\ best \in Nat
      BY <1>1, <1>6
    <2> HIDE DEF lo, hi, best, need, min, max, ceiling
    <2>2. lowest <= best /\ lo <= lowest
      BY <1>1, <1>2, <1>5, <2>1
    <2>3. lowest <= max
      BY <1>2, <1>5, <2>1, <2>2
    <2>4. q = lowest \/ (format = "avif" /\ q = lowest + 1)
      BY <1>1, <1>4, <1>5, <2>1, <2>2
    <2>5. q >= need
      BY <1>2, <2>1
    <2>6. ~(lowest > max)
      BY <1>2, <1>5, <2>3
    <2> QED
      BY <1>3, <2>1, <2>4, <2>5, <2>6 DEF max
  <1>7. CASE best = NoQuality /\ search.triedMax
    <2>1. q = ceiling
      BY <1>7, EscalatesToCeiling
    <2>2. lo = max + 1
      BY <1>1, <1>7
    <2> HIDE DEF lo, hi, best, need, min, max, ceiling
    <2>3. lowest > max
      BY <1>1, <1>2, <1>5, <2>2
    <2> QED
      BY <1>2, <2>1, <2>3 DEF ceiling, max
  <1>8. CASE best = NoQuality /\ ~search.triedMax
    <2>1. q = IF Reaches(TheReference, max) THEN max ELSE ceiling
      <3>1. q = Escalated(TheReference, <<max, ceiling>>)
        BY <1>8
      <3> QED
        BY <3>1, EscalatesToCeiling
    <2>2. hi = max /\ lo # max + 1
      BY <1>1, <1>8
    <2> HIDE DEF lo, hi, best, need, min, max, ceiling
    <2>3. lo = max
      BY <1>4, <2>2
    <2>4. CASE need <= max
      <3>1. q = max /\ max >= need
        BY <1>2, <1>3, <2>1, <2>4
      <3>2. lowest = max
        BY <1>1, <1>2, <1>5, <2>3, <2>4
      <3>3. ~(max > max)
        BY <1>2
      <3> QED
        BY <1>2, <1>3, <3>1, <3>2, <3>3 DEF max
    <2>5. CASE ~(need <= max)
      <3>1. q = ceiling
        BY <1>2, <1>3, <2>1, <2>5
      <3>2. lowest > max
        BY <1>2, <1>5, <2>5
      <3> QED
        BY <1>2, <3>1, <3>2 DEF max, ceiling
    <2> QED
      BY <2>4, <2>5
  <1> QED
    BY <1>1, <1>6, <1>7, <1>8

LEMMA EndSearchIsGood == ASSUME DerivativesInvariant, EndSearch PROVE DerivativesInvariant'
  <1> DEFINE q == IF search.best # NoQuality THEN search.best
                  ELSE Escalated(TheReference, IF search.triedMax THEN <<Span.ceiling>>
                                               ELSE <<Span.max, Span.ceiling>>)
             lowest == IF Span.min <= needs.reference THEN needs.reference ELSE Span.min
             ref == TheReference
  <1>1. /\ ~MoreSteps /\ ref \notin DOMAIN made
        /\ made' = [x \in DOMAIN made \cup {ref} |->
                      IF x = ref THEN [quality |-> q, met |-> (q >= NeedAt(ref))] ELSE made[x]]
        /\ UNCHANGED <<original, widths, needs, format, search, lanes, pending, failed>>
    BY DEF EndSearch, Make, Searching, Reaches
  <1>2. /\ q \in Nat /\ (q >= NeedAt(ref) \/ q = Span.ceiling)
        /\ IF lowest > Span.max THEN q = Span.ceiling
           ELSE q = lowest \/ (format = "avif" /\ q = lowest + 1)
    BY <1>1, SearchEndsWell DEF Reaches
  <1>3. /\ TheReference' = TheReference /\ Span' = Span /\ \A w : NeedAt(w)' = NeedAt(w)
        /\ InLanes' = InLanes
    BY <1>1 DEF TheReference, Span, NeedAt, InLanes
  <1> HIDE DEF q
  <1>4. /\ DOMAIN made' = DOMAIN made \cup {ref} /\ made'[ref].quality = q
        /\ made'[ref].met = (q >= NeedAt(ref))
        /\ \A x \in DOMAIN made : made'[x] = made[x]
    BY <1>1
  <1>5. ref \in widths /\ NeedAt(ref) \in Nat /\ Span.ceiling \in Nat
    BY PlannedWidths
  <1>6. MissesAreAtCeiling'
    <2>1. ~(q >= NeedAt(ref)) => q = Span.ceiling /\ NeedAt(ref) > Span.ceiling
      BY <1>2, <1>5
    <2>2. MissesAreAtCeiling
      BY DEF DerivativesInvariant
    <2>3. ASSUME NEW w \in DOMAIN made'
          PROVE  /\ made'[w].quality \in Nat
                 /\ ~made'[w].met => made'[w].quality = Span.ceiling /\ NeedAt(w) > Span.ceiling
      <3>1. CASE w = ref
        <4>1. made'[w].quality = q /\ made'[w].met = (q >= NeedAt(ref))
          BY <1>4, <3>1
        <4> HIDE DEF ref
        <4> QED
          BY <1>2, <2>1, <3>1, <4>1
      <3>2. CASE w # ref
        BY <1>4, <2>2, <2>3, <3>2 DEF MissesAreAtCeiling
      <3> QED
        BY <3>1, <3>2
    <2> QED
      BY <1>3, <2>3 DEF MissesAreAtCeiling
  <1>7. ReferenceIsLightest'
    BY <1>1, <1>2, <1>3, <1>4 DEF ReferenceIsLightest
  <1>8. WidthsAreCovered'
    BY <1>1, <1>3, <1>4, <1>5 DEF DerivativesInvariant, WidthsAreCovered
  <1>9. LanesEndAtCeiling'
    BY <1>1, <1>3 DEF DerivativesInvariant, LanesEndAtCeiling
  <1>10. SearchIsSound'
    BY <1>1, <1>3 DEF DerivativesInvariant, SearchIsSound
  <1> QED
    BY <1>1, <1>6, <1>7, <1>8, <1>9, <1>10 DEF DerivativesInvariant

\* The qualities for another width end with the ceiling.
LEMMA TriesEndAtCeiling ==
  ASSUME DerivativesInvariant, NEW start \in Nat
  PROVE  /\ ToTry(start) \in Seq(Nat) /\ ToTry(start) # <<>>
         /\ ToTry(start)[Len(ToTry(start))] = Span.ceiling
  <1>1. Span.max \in Nat /\ Span.ceiling \in Nat /\ MaxBumps \in Nat /\ Bump \in Nat
    BY PlannedWidths, DerivativesAssumption
  <1>2. CASE start >= Span.max
    BY <1>1, <1>2 DEF ToTry
  <1>3. CASE ~(start >= Span.max)
    <2> DEFINE bumps == [i \in 1 .. MaxBumps |-> Bumped(start, i)]
               first == <<start>> \o bumps
               last == <<Span.max, Span.ceiling>>
    <2>1. \A i \in 1 .. MaxBumps : Bumped(start, i) \in Nat
      <3> TAKE i \in 1 .. MaxBumps
      <3>1. Bump * i \in Nat
        BY <1>1, ProductGrows
      <3> QED
        BY <1>1, <3>1 DEF Bumped
    <2>2. bumps \in Seq(Nat)
      BY <1>1, <2>1
    <2>3. ToTry(start) = first \o last
      BY <1>3 DEF ToTry
    <2> HIDE DEF bumps
    <2>4. first \in Seq(Nat)
      BY <2>2
    <2>5. last \in Seq(Nat) /\ Len(last) = 2 /\ last[2] = Span.ceiling
      BY <1>1
    <2> HIDE DEF first, last
    <2>6. /\ first \o last \in Seq(Nat) /\ Len(first) \in Nat
          /\ Len(first \o last) = Len(first) + 2 /\ (first \o last)[Len(first) + 2] = last[2]
      <3>1. Len(first) + 2 \in 1 .. Len(first) + Len(last) /\ Len(first) + 2 > Len(first)
            /\ (Len(first) + 2) - Len(first) = 2 /\ Len(first) \in Nat
        BY <2>4, <2>5
      <3> DEFINE n == Len(first)
      <3>2. /\ first \o last \in Seq(Nat) /\ Len(first \o last) = n + 2
            /\ \A i \in 1 .. n + 2 : (first \o last)[i] = IF i <= n THEN first[i] ELSE last[i - n]
        <4>1. last \in Seq(Nat)
          BY <2>5
        <4>2. /\ first \o last \in Seq(Nat) /\ Len(first \o last) = Len(first) + Len(last)
              /\ \A i \in 1 .. Len(first) + Len(last) :
                    (first \o last)[i] = IF i <= Len(first) THEN first[i] ELSE last[i - Len(first)]
          BY <2>4, <4>1, ConcatProperties
        <4> QED
          BY <2>5, <4>2
      <3>3. n + 2 \in 1 .. n + 2 /\ ~(n + 2 <= n) /\ (n + 2) - n = 2 /\ n \in Nat
        BY <3>1
      <3> HIDE DEF n
      <3>4. (first \o last)[n + 2] = last[2]
        BY <3>2, <3>3
      <3> QED
        BY <3>2, <3>3, <3>4 DEF n
    <2> QED
      BY <2>3, <2>5, <2>6
  <1> QED
    BY <1>2, <1>3

LEMMA TakeWidthIsGood ==
  ASSUME DerivativesInvariant, NEW k \in DOMAIN lanes, TakeWidth(k) PROVE DerivativesInvariant'
  <1> DEFINE w == Max(pending)
             qs == ToTry(made[TheReference].quality)
             lane == [width |-> w, try |-> qs]
  <1>1. /\ lanes' = [lanes EXCEPT ![k] = lane] /\ pending' = pending \ {w} /\ pending # {}
        /\ TheReference \in DOMAIN made /\ lanes[k] = IdleLane
        /\ UNCHANGED <<original, widths, needs, format, search, made, failed>>
    BY DEF TakeWidth, Searching
  <1>2. /\ pending \subseteq widths \ {TheReference} /\ DOMAIN made \subseteq widths
        /\ format # "jpeg" /\ widths \ {TheReference} \subseteq pending \cup InLanes \cup DOMAIN made
    BY <1>1 DEF DerivativesInvariant, WidthsAreCovered
  <1>3. IsFiniteSet(widths) /\ widths \subseteq Nat
    BY PlannedWidths
  <1>4. w \in pending
    <2>1. IsFiniteSet(pending) /\ pending \in SUBSET Nat
      BY <1>2, <1>3, FS_Subset
    <2> QED
      BY <1>1, <2>1, MaxAndMin
  <1>5. /\ qs \in Seq(Nat) /\ qs # <<>> /\ qs[Len(qs)] = Span.ceiling
    <2>1. made[TheReference].quality \in Nat
      BY <1>1 DEF DerivativesInvariant, MissesAreAtCeiling
    <2> QED
      BY <2>1, TriesEndAtCeiling
  <1>6. /\ TheReference' = TheReference /\ Span' = Span /\ \A v : NeedAt(v)' = NeedAt(v)
    BY <1>1 DEF TheReference, Span, NeedAt
  <1>7. lanes \in [1 .. ParallelWidths -> [width: Nat, try: Seq(Nat)]]
    BY DEF DerivativesInvariant
  <1> HIDE DEF w, qs
  <1>8. lane \in [width: Nat, try: Seq(Nat)] /\ lane.width = w /\ lane.try = qs
    BY <1>2, <1>3, <1>4, <1>5
  <1> HIDE DEF lane
  <1>9. /\ lanes' \in [1 .. ParallelWidths -> [width: Nat, try: Seq(Nat)]]
        /\ DOMAIN lanes' = DOMAIN lanes
        /\ lanes'[k] = lane /\ \A l \in DOMAIN lanes : l # k => lanes'[l] = lanes[l]
    BY <1>1, <1>7, <1>8
  <1>10. LanesEndAtCeiling'
    <2>1. ASSUME NEW l \in DOMAIN lanes, lanes'[l] # IdleLane
          PROVE  /\ lanes'[l] = [width |-> lanes'[l].width, try |-> lanes'[l].try]
                 /\ lanes'[l].width \in widths \ {TheReference}
                 /\ lanes'[l].try \in Seq(Nat) /\ lanes'[l].try # <<>>
                 /\ lanes'[l].try[Len(lanes'[l].try)] = Span.ceiling
      <3>1. CASE l = k
        BY <1>2, <1>4, <1>5, <1>8, <1>9, <3>1 DEF lane
      <3>2. CASE l # k
        BY <1>9, <2>1, <3>2 DEF DerivativesInvariant, LanesEndAtCeiling
      <3> QED
        BY <3>1, <3>2
    <2> QED
      BY <1>1, <1>6, <1>9, <2>1 DEF LanesEndAtCeiling, IdleLane
  <1>11. InLanes \subseteq InLanes' /\ w \in InLanes'
    <2>1. lane # IdleLane
      BY <1>5, <1>8 DEF IdleLane
    <2>2. ASSUME NEW l \in DOMAIN lanes, lanes[l] # IdleLane PROVE lanes[l].width \in InLanes'
      BY <1>1, <1>9, <2>2 DEF InLanes, IdleLane
    <2>3. w \in InLanes'
      BY <1>8, <1>9, <2>1 DEF InLanes, IdleLane
    <2> QED
      BY <2>2, <2>3 DEF InLanes
  <1>12. WidthsAreCovered'
    <2>1. DOMAIN made' = DOMAIN made /\ widths' = widths /\ format' = format /\ pending' = pending \ {w}
      BY <1>1
    <2>2. widths \ {TheReference} \subseteq pending' \cup InLanes' \cup DOMAIN made
      BY <1>2, <1>11, <2>1
    <2> QED
      BY <1>2, <1>6, <2>1, <2>2 DEF WidthsAreCovered
  <1>13. SearchIsSound' /\ ReferenceIsLightest' /\ MissesAreAtCeiling'
    BY <1>1, <1>6 DEF DerivativesInvariant, SearchIsSound, ReferenceIsLightest, MissesAreAtCeiling
  <1> QED
    BY <1>1, <1>9, <1>10, <1>12, <1>13 DEF DerivativesInvariant

LEMMA TryQualityIsGood ==
  ASSUME DerivativesInvariant, NEW k \in DOMAIN lanes, TryQuality(k) PROVE DerivativesInvariant'
  <1> DEFINE w == lanes[k].width
             qs == lanes[k].try
             q == Head(qs)
             over == q >= NeedAt(w) \/ Len(qs) = 1
             next == IF over THEN IdleLane ELSE [width |-> w, try |-> Tail(qs)]
  <1>1. /\ lanes[k] = [width |-> w, try |-> qs] /\ w \in widths \ {TheReference}
        /\ qs \in Seq(Nat) /\ qs # <<>> /\ qs[Len(qs)] = Span.ceiling
    BY DEF TryQuality, DerivativesInvariant, LanesEndAtCeiling
  <1>2. /\ lanes' = [lanes EXCEPT ![k] = IF over THEN IdleLane ELSE [width |-> w, try |-> Tail(qs)]]
        /\ IF over
           THEN made' = [x \in DOMAIN made \cup {w} |->
                          IF x = w THEN [quality |-> q, met |-> (q >= NeedAt(w))] ELSE made[x]]
           ELSE UNCHANGED made
        /\ UNCHANGED <<original, widths, needs, format, search, pending, failed>>
    BY DEF TryQuality, Make, Reaches
  <1>3. lanes \in [1 .. ParallelWidths -> [width: Nat, try: Seq(Nat)]]
    BY DEF DerivativesInvariant
  <1>4. q \in Nat /\ q = qs[1] /\ Len(qs) \in Nat \ {0} /\ (Len(qs) # 1 => Tail(qs) # <<>>)
        /\ Tail(qs) \in Seq(Nat) /\ (Len(qs) # 1 => Tail(qs)[Len(Tail(qs))] = qs[Len(qs)])
    <2>1. qs \in Seq(Nat) /\ qs # <<>>
      BY <1>1
    <2> HIDE DEF qs
    <2>2. Len(qs) \in Nat \ {0} /\ Tail(qs) \in Seq(Nat) /\ Len(Tail(qs)) = Len(qs) - 1
          /\ \A i \in 1 .. Len(qs) - 1 : Tail(qs)[i] = qs[i + 1]
      BY <2>1
    <2>3. Len(qs) # 1 => Tail(qs) # <<>> /\ Tail(qs)[Len(Tail(qs))] = qs[Len(qs)]
      <3> SUFFICES ASSUME Len(qs) # 1
                   PROVE  Tail(qs) # <<>> /\ Tail(qs)[Len(Tail(qs))] = qs[Len(qs)]
        OBVIOUS
      <3>1. Len(qs) - 1 \in 1 .. Len(qs) - 1 /\ (Len(qs) - 1) + 1 = Len(qs)
        BY <2>2
      <3>2. Len(Tail(qs)) # 0 /\ Len(Tail(qs)) = Len(qs) - 1
        BY <2>2, <3>1
      <3>3. Tail(qs) # <<>>
        <4> DEFINE t == Tail(qs)
        <4>1. Len(t) # 0
          BY <3>2
        <4> HIDE DEF t
        <4>2. t # <<>>
          BY <4>1
        <4> QED
          BY <4>2 DEF t
      <3>4. Tail(qs)[Len(qs) - 1] = qs[(Len(qs) - 1) + 1]
        BY <2>2, <3>1
      <3> QED
        BY <3>1, <3>2, <3>3, <3>4
    <2>4. Head(qs) = qs[1] /\ qs[1] \in Nat
      BY <2>1
    <2> QED
      BY <2>2, <2>3, <2>4 DEF qs
  <1>5. lanes' = [lanes EXCEPT ![k] = next]
    BY <1>2
  <1>6. next \in [width: Nat, try: Seq(Nat)]
    <2>1. w \in Nat
      BY <1>1, PlannedWidths
    <2>2. IdleLane \in [width: Nat, try: Seq(Nat)]
      <3>1. <<>> \in Seq(Nat)
        OBVIOUS
      <3> QED
        BY <3>1 DEF IdleLane
    <2> QED
      BY <1>4, <2>1, <2>2
  <1>7. /\ TheReference' = TheReference /\ Span' = Span /\ \A v : NeedAt(v)' = NeedAt(v)
    BY <1>2 DEF TheReference, Span, NeedAt
  <1>8. w \in widths /\ w # TheReference /\ NeedAt(w) \in Nat /\ Span.ceiling \in Nat
    BY <1>1, PlannedWidths
  <1>9. next # IdleLane => ~over /\ next = [width |-> w, try |-> Tail(qs)] /\ Len(qs) # 1
    OBVIOUS
  <1>10. over => q >= NeedAt(w) \/ (q = Span.ceiling /\ NeedAt(w) > Span.ceiling)
    BY <1>1, <1>4, <1>8
  <1>11. ~over => next.width = w /\ next # IdleLane
    <2> SUFFICES ASSUME ~over PROVE next.width = w /\ next # IdleLane
      OBVIOUS
    <2>1. Tail(qs) # <<>>
      BY <1>4
    <2> QED
      BY <2>1 DEF IdleLane
  <1> HIDE DEF next, over, q
  <1>12. /\ lanes' \in [1 .. ParallelWidths -> [width: Nat, try: Seq(Nat)]]
         /\ DOMAIN lanes' = DOMAIN lanes
         /\ lanes'[k] = next /\ \A l \in DOMAIN lanes : l # k => lanes'[l] = lanes[l]
    BY <1>3, <1>5, <1>6
  <1>13. LanesEndAtCeiling'
    <2>1. ASSUME NEW l \in DOMAIN lanes, lanes'[l] # IdleLane
          PROVE  /\ lanes'[l] = [width |-> lanes'[l].width, try |-> lanes'[l].try]
                 /\ lanes'[l].width \in widths \ {TheReference}
                 /\ lanes'[l].try \in Seq(Nat) /\ lanes'[l].try # <<>>
                 /\ lanes'[l].try[Len(lanes'[l].try)] = Span.ceiling
      <3>1. CASE l = k
        <4>1. lanes'[l] = [width |-> w, try |-> Tail(qs)] /\ Len(qs) # 1
          BY <1>9, <1>12, <2>1, <3>1
        <4> HIDE DEF qs
        <4> QED
          BY <1>1, <1>4, <4>1
      <3>2. CASE l # k
        BY <1>12, <2>1, <3>2 DEF DerivativesInvariant, LanesEndAtCeiling
      <3> QED
        BY <3>1, <3>2
    <2> QED
      BY <1>2, <1>7, <1>12, <2>1 DEF LanesEndAtCeiling, IdleLane
  <1>14. /\ DOMAIN made \subseteq DOMAIN made' /\ DOMAIN made' \subseteq DOMAIN made \cup {w}
         /\ over => w \in DOMAIN made' /\ made'[w].quality = q /\ made'[w].met = (q >= NeedAt(w))
         /\ \A x \in DOMAIN made' : (x # w \/ ~over) => x \in DOMAIN made /\ made'[x] = made[x]
    <2>1. CASE over
      BY <1>2, <2>1
    <2>2. CASE ~over
      BY <1>2, <2>2
    <2> QED
      BY <2>1, <2>2
  <1>15. WidthsAreCovered'
    <2>1. ASSUME NEW l \in DOMAIN lanes, lanes[l] # IdleLane
          PROVE  lanes[l].width \in InLanes' \cup DOMAIN made'
      <3>1. CASE l = k /\ over
        BY <1>14, <3>1
      <3>2. CASE l = k /\ ~over
        BY <1>11, <1>12, <3>2 DEF InLanes, IdleLane
      <3>3. CASE l # k
        BY <1>12, <2>1, <3>3 DEF InLanes, IdleLane
      <3> QED
        BY <3>1, <3>2, <3>3
    <2>2. InLanes \subseteq InLanes' \cup DOMAIN made'
      BY <2>1 DEF InLanes
    <2>3. w \in InLanes
      BY <1>1 DEF InLanes, TryQuality
    <2>4. InLanes' \subseteq InLanes
      <3>1. ASSUME NEW l \in DOMAIN lanes, lanes'[l] # IdleLane PROVE lanes'[l].width \in InLanes
        <4>1. CASE l = k
          <5>1. lanes'[l].width = w
            BY <1>9, <1>12, <3>1, <4>1
          <5> QED
            BY <2>3, <5>1
        <4>2. CASE l # k
          BY <1>12, <3>1, <4>2 DEF InLanes
        <4> QED
          BY <4>1, <4>2
      <3> QED
        BY <1>12, <3>1 DEF InLanes, IdleLane
    <2>5. WidthsAreCovered
      BY DEF DerivativesInvariant
    <2>6. format # "jpeg"
      BY <2>3, <2>5 DEF WidthsAreCovered
    <2>7. widths' = widths /\ pending' = pending /\ format' = format
      BY <1>2
    <2>8. DOMAIN made' \subseteq widths
      BY <1>8, <1>14, <2>5 DEF WidthsAreCovered
    <2>9. widths \ {TheReference} \subseteq pending \cup InLanes' \cup DOMAIN made'
      BY <1>14, <2>2, <2>5, <2>6 DEF WidthsAreCovered
    <2> QED
      BY <1>7, <2>5, <2>6, <2>7, <2>8, <2>9 DEF WidthsAreCovered
  <1>16. MissesAreAtCeiling'
    <2>1. MissesAreAtCeiling
      BY DEF DerivativesInvariant
    <2>2. ASSUME NEW x \in DOMAIN made'
          PROVE  /\ made'[x].quality \in Nat
                 /\ ~made'[x].met => made'[x].quality = Span.ceiling /\ NeedAt(x) > Span.ceiling
      <3>1. CASE x = w /\ over
        <4>1. made'[x].quality = q /\ made'[x].met = (q >= NeedAt(w)) /\ x = w
          BY <1>14, <3>1
        <4> HIDE DEF w
        <4> QED
          BY <1>4, <1>10, <3>1, <4>1
      <3>2. CASE ~(x = w /\ over)
        BY <1>14, <2>1, <2>2, <3>2 DEF MissesAreAtCeiling
      <3> QED
        BY <3>1, <3>2
    <2> QED
      BY <1>7, <2>2 DEF MissesAreAtCeiling
  <1>17. ReferenceIsLightest'
    <2>1. TheReference \in DOMAIN made' => TheReference \in DOMAIN made /\ made'[TheReference] = made[TheReference]
      BY <1>8, <1>14
    <2> QED
      BY <1>2, <1>7, <2>1 DEF DerivativesInvariant, ReferenceIsLightest
  <1>18. SearchIsSound'
    BY <1>2, <1>7 DEF DerivativesInvariant, SearchIsSound
  <1> QED
    BY <1>2, <1>12, <1>13, <1>15, <1>16, <1>17, <1>18 DEF DerivativesInvariant

LEMMA DerivativesStepIsGood ==
  DerivativesInvariant /\ [DerivativesNext]_derivativesVars => DerivativesInvariant'
  <1> SUFFICES ASSUME DerivativesInvariant, [DerivativesNext]_derivativesVars PROVE DerivativesInvariant'
    OBVIOUS
  <1>1. ASSUME UNCHANGED <<original, widths, needs, format, search, lanes, pending, made>>,
               failed' \in BOOLEAN
        PROVE  DerivativesInvariant'
    <2>1. /\ TheReference' = TheReference /\ Span' = Span /\ \A v : NeedAt(v)' = NeedAt(v)
          /\ InLanes' = InLanes
      BY <1>1 DEF TheReference, Span, NeedAt, InLanes
    <2> QED
      BY <1>1, <2>1 DEF DerivativesInvariant, SearchIsSound, ReferenceIsLightest, MissesAreAtCeiling,
                       LanesEndAtCeiling, WidthsAreCovered
  <1>2. CASE SearchStep
    <2>1. UNCHANGED <<original, widths, needs, format, lanes, pending, made, failed>>
      BY <1>2 DEF SearchStep
    <2>2. /\ TheReference' = TheReference /\ Span' = Span /\ \A v : NeedAt(v)' = NeedAt(v)
          /\ InLanes' = InLanes
      BY <2>1 DEF TheReference, Span, NeedAt, InLanes
    <2>3. SearchIsSound'
      BY <1>2, SearchStepIsGood
    <2> QED
      BY <2>1, <2>2, <2>3 DEF DerivativesInvariant, ReferenceIsLightest, MissesAreAtCeiling,
                              LanesEndAtCeiling, WidthsAreCovered
  <1>3. CASE EndSearch
    BY <1>3, EndSearchIsGood
  <1>4. CASE EncodeFails
    BY <1>1, <1>4 DEF EncodeFails
  <1>5. CASE \E k \in DOMAIN lanes : TakeWidth(k) \/ TryQuality(k)
    BY <1>5, TakeWidthIsGood, TryQualityIsGood
  <1>6. CASE UNCHANGED derivativesVars
    BY <1>1, <1>6 DEF derivativesVars, DerivativesInvariant
  <1> QED
    BY <1>2, <1>3, <1>4, <1>5, <1>6 DEF DerivativesNext

\* The inductive invariant of the search and the lanes.
THEOREM DerivativesInvariantHolds == DerivativesSpec => []DerivativesInvariant
  BY DerivativesInvariantAtStart, DerivativesStepIsGood, PTL DEF DerivativesSpec

\* Each width of the plan is made in the end, the reference with the lowest
\* quality that reaches the target (AVIF: or one more), and what misses it is
\* at the ceiling: for every table of qualities that the steps of the search
\* are enough for, and every plan of widths.
THEOREM SearchAlwaysFindsLightest == DerivativesSpec => []SearchFindsLightest
  <1>1. ASSUME DerivativesInvariant PROVE SearchFindsLightest
    <2> SUFFICES ASSUME Over
                 PROVE  /\ DOMAIN made = IF format = "jpeg" THEN {TheReference} ELSE widths
                        /\ \A w \in DOMAIN made :
                             /\ w <= original.w /\ FitsArea(original, w)
                             /\ ~made[w].met => made[w].quality = Span.ceiling /\ NeedAt(w) > Span.ceiling
                        /\ LET q == made[TheReference].quality
                               lowest == Max({Span.min, needs.reference})
                           IN  IF lowest > Span.max THEN q = Span.ceiling
                               ELSE q = lowest \/ (format = "avif" /\ q = lowest + 1)
      BY DEF SearchFindsLightest
    <2>1. TheReference \in DOMAIN made /\ pending = {} /\ InLanes = {}
      BY DEF Over, Searching, InLanes
    <2>2. WidthsAreCovered /\ MissesAreAtCeiling /\ ReferenceIsLightest
      BY <1>1 DEF DerivativesInvariant
    <2>3. DOMAIN made = IF format = "jpeg" THEN {TheReference} ELSE widths
      BY <2>1, <2>2, <1>1, PlannedWidths DEF WidthsAreCovered
    <2>4. DOMAIN made \subseteq widths
      BY <2>2 DEF WidthsAreCovered
    <2>5. \A w \in DOMAIN made : w <= original.w /\ FitsArea(original, w)
      BY <1>1, <2>4, PlannedWidths
    <2>6. Max({Span.min, needs.reference})
            = IF Span.min <= needs.reference THEN needs.reference ELSE Span.min
      <3> DEFINE a == Span.min
                 b == needs.reference
      <3>1. a \in Nat /\ b \in Nat
        BY <1>1, PlannedWidths
      <3> HIDE DEF a, b
      <3>2. IsFiniteSet({a, b}) /\ {a, b} \in SUBSET Nat /\ {a, b} # {}
        <4>1. IsFiniteSet({a} \cup {b})
          BY FS_Singleton, FS_Union
        <4>2. {a} \cup {b} = {a, b}
          OBVIOUS
        <4> QED
          BY <3>1, <4>1, <4>2
      <3>3. Max({a, b}) \in {a, b} /\ a <= Max({a, b}) /\ b <= Max({a, b})
        BY <3>2, MaxAndMin
      <3>4. Max({a, b}) = IF a <= b THEN b ELSE a
        BY <3>1, <3>3
      <3> QED
        BY <3>4 DEF a, b
    <2> QED
      BY <2>1, <2>2, <2>3, <2>5, <2>6 DEF MissesAreAtCeiling, ReferenceIsLightest
  <1> QED
    BY <1>1, DerivativesInvariantHolds, PTL
-----------------------------------------------------------------------------
(* ImageFiles. *)

Unread == {"heic?", "header", "ifds", "pixels", "decode"}

\* What was looked at is no RAW, and leads to what was looked at or waits.
WalkIsSound ==
    /\ offsets \in Seq(Nat)
    /\ Range(offsets) \subseteq Reachable \cup {0} /\ visited \subseteq Reachable
    /\ upload.ifds.first \in visited \cup {0} \cup Range(offsets)
    /\ \A i \in visited \cap DOMAIN upload.ifds.at :
         /\ ~upload.ifds.at[i].raw
         /\ Range(upload.ifds.at[i].links) \subseteq visited \cup {0} \cup Range(offsets)

NoRawIsReachable == \A i \in Reachable \cap DOMAIN upload.ifds.at : ~upload.ifds.at[i].raw
Cleared ==
    upload.codec = "tiff" /\ ~upload.heic /\ Cardinality(Reachable) <= MaxIfds => ~upload.cr2 /\ NoRawIsReachable

\* The TIFF that stands for a HEIC has its profile, or none.
ProfileIsCarried ==
    tiff # NoTiff =>
        (IF TagIccProfile \in Range(tiff.tags) THEN tiff.icc ELSE "none") = HeicProfile(upload)
PartsAreInPlace ==
    tiff.ifdAt # 0 =>
         /\ tiff.iccAt >= tiff.size /\ tiff.ifdAt >= tiff.iccAt + IccLength
         /\ tiff.iccAt % 2 = 0 /\ tiff.ifdAt % 2 = 0
         /\ \A i, j \in DOMAIN tiff.tags : i < j => tiff.tags[i] < tiff.tags[j]

RawIsThere ==
    refusal = "raw" =>
         upload.cr2 \/ \E i \in Reachable \cap DOMAIN upload.ifds.at : upload.ifds.at[i].raw

SourceIsMade ==
    step = "source" =>
        output = IF (IF tiff = NoTiff THEN upload.icc ELSE HeicProfile(upload)) = "wide" THEN "p3" ELSE "srgb"

FilesInvariant ==
    /\ upload \in Uploads
    /\ step \in {"heic?", "header"} => visited = {}
    /\ step = "ifds" => upload.codec = "tiff" /\ ~upload.heic /\ ~upload.cr2 /\ WalkIsSound
    /\ step \in {"pixels", "decode", "again", "colour", "source"} => Cleared
    /\ step \in {"colour", "source"} => upload.pixels <= MaxInputPixels
    /\ step = "header" => ~upload.heic
    /\ step \in Unread => tiff = NoTiff
    /\ ProfileIsCarried /\ PartsAreInPlace /\ RawIsThere /\ SourceIsMade

LEMMA TagsAreSorted ==
  ASSUME NEW t \in Seq(Nat)
  PROVE  LET s == InOrder(Range(t) \cup {TagIccProfile})
         IN  Range(s) = Range(t) \cup {TagIccProfile} /\ \A i, j \in DOMAIN s : i < j => s[i] < s[j]
  <1> DEFINE S == Range(t) \cup {TagIccProfile}
  <1>1. IsFiniteSet(Range(t))
    <2> DEFINE f == [k \in 1 .. Len(t) |-> t[k]]
    <2>1. DOMAIN t = 1 .. Len(t) /\ Range(t) = {t[k] : k \in 1 .. Len(t)}
      BY DEF Range
    <2>3. f \in Surjection(1 .. Len(t), Range(t))
      BY <2>1 DEF Surjection
    <2>2. IsFiniteSet(1 .. Len(t))
      BY FS_Interval
    <2> HIDE DEF f
    <2> QED
      BY <2>3, <2>2, FS_Surjection
  <1>2. IsFiniteSet(S) /\ S \in SUBSET Nat
    <2>1. Range(t) \subseteq Nat /\ TagIccProfile \in Nat
      BY DEF Range, TagIccProfile
    <2>2. IsFiniteSet(S)
      BY <1>1, FS_AddElement
    <2> QED
      BY <2>1, <2>2
  <1> HIDE DEF S
  <1>3. \E s \in [1 .. Cardinality(S) -> S] : Range(s) = S /\ \A i, j \in DOMAIN s : i < j => s[i] < s[j]
    BY <1>2, NumbersInOrder
  <1>4. Range(InOrder(S)) = S /\ \A i, j \in DOMAIN InOrder(S) : i < j => InOrder(S)[i] < InOrder(S)[j]
    BY <1>3 DEF InOrder
  <1> QED
    BY <1>4 DEF S

\* What links lead to is closed under them, and the least such set.
LEMMA ReachableIsClosed ==
  ASSUME upload \in Uploads
  PROVE  /\ upload.ifds.first \in Reachable \cup {0}
         /\ \A i \in Reachable \cap DOMAIN upload.ifds.at : Range(upload.ifds.at[i].links) \subseteq Reachable \cup {0}
         /\ IsFiniteSet(Reachable)
  <1>1. upload.ifds.first \in Named(upload)
    BY DEF Named
  <1>2. upload.ifds.first \in Reachable \cup {0}
    BY <1>1 DEF Reachable, IsClosed
  <1>3. ASSUME NEW i \in Reachable \cap DOMAIN upload.ifds.at, NEW l \in Range(upload.ifds.at[i].links)
        PROVE  l \in Reachable \cup {0}
    <2>1. l \in Named(upload)
      BY <1>3 DEF Named
    <2>2. ASSUME NEW S \in SUBSET Named(upload), IsClosed(upload, S) PROVE l \in S
      <3>1. i \in S
        BY <1>3, <2>2 DEF Reachable
      <3> QED
        BY <1>3, <2>2, <3>1 DEF IsClosed
    <2> QED
      BY <2>1, <2>2 DEF Reachable
  <1>4. IsFiniteSet(Reachable)
    <2>1. IsFiniteSet(Named(upload)) /\ Reachable \in SUBSET Named(upload)
      BY ImageFilesAssumption DEF Reachable
    <2> QED
      BY <2>1, FS_Subset
  <1> QED
    BY <1>2, <1>3, <1>4

LEMMA ReachableIsLeast ==
  ASSUME upload \in Uploads, NEW T, IsClosed(upload, T)
  PROVE  Reachable \subseteq T
  <1> DEFINE S == T \cap Named(upload)
  <1>1. upload.ifds.first \in S
    BY DEF IsClosed, Named
  <1>2. ASSUME NEW i \in S \cap DOMAIN upload.ifds.at PROVE Range(upload.ifds.at[i].links) \subseteq S
    BY <1>2 DEF IsClosed, Named
  <1>3. IsClosed(upload, S) /\ S \in SUBSET Named(upload)
    BY <1>1, <1>2 DEF IsClosed
  <1> HIDE DEF S
  <1>4. Reachable \subseteq S
    BY <1>3 DEF Reachable
  <1> QED
    BY <1>4 DEF S

LEMMA FilesStart == ImageFilesInit => FilesInvariant
  BY DEF ImageFilesInit, FilesInvariant, ProfileIsCarried, PartsAreInPlace, RawIsThere, SourceIsMade, NoTiff, Unread

\* An IFD is looked at: it is a RAW, or its links wait with the others.
LEMMA WalkGoesOn ==
  ASSUME FilesInvariant, WalkIfd
  PROVE  FilesInvariant'
  <1> DEFINE at == Head(offsets)
             there == at \in DOMAIN upload.ifds.at
             links == upload.ifds.at[at].links
  <1>1. /\ step = "ifds" /\ offsets # <<>> /\ WalkIsSound /\ upload \in Uploads /\ tiff = NoTiff
        /\ upload.codec = "tiff" /\ ~upload.heic /\ ~upload.cr2
    BY DEF WalkIfd, FilesInvariant, Unread
  <1>2. UNCHANGED <<upload, tiff, output>>
    BY DEF WalkIfd
  <1>3. Reachable' = Reachable
    BY <1>2 DEF Reachable
  <1>4. /\ offsets \in Seq(Nat) /\ Tail(offsets) \in Seq(Nat) /\ at \in Nat
        /\ Range(offsets) = {at} \cup Range(Tail(offsets))
    <2>1. offsets \in Seq(Nat) /\ offsets # <<>>
      BY <1>1 DEF WalkIsSound
    <2> QED
      BY <2>1, RangeOfTail
  <1>5. at \in Reachable \cup {0}
    BY <1>1, <1>4 DEF WalkIsSound
  <1> HIDE DEF at
  <1>6. CASE Skipped(at)
    <2>1. offsets' = Tail(offsets) /\ UNCHANGED <<step, visited, refusal>>
      BY <1>6 DEF WalkIfd, at
    <2>2. at \in visited \cup {0}
      BY <1>6 DEF Skipped
    <2>3. WalkIsSound'
      BY <1>1, <1>2, <1>3, <1>4, <2>1, <2>2 DEF WalkIsSound
    <2> QED
      BY <1>1, <1>2, <1>3, <2>1, <2>3
         DEF FilesInvariant, ProfileIsCarried, PartsAreInPlace, RawIsThere, SourceIsMade, Unread
  <1>7. CASE ~Skipped(at) /\ there /\ upload.ifds.at[at].raw
    <2>1. step' = "refused" /\ refusal' = "raw"
      BY <1>7 DEF WalkIfd, RefuseFile, at
    <2>2. at \in Reachable \cap DOMAIN upload.ifds.at
      BY <1>5, <1>7 DEF Skipped
    <2> QED
      BY <1>1, <1>2, <1>3, <1>7, <2>1, <2>2
         DEF FilesInvariant, ProfileIsCarried, PartsAreInPlace, RawIsThere, SourceIsMade, Unread
  <1>8. CASE ~Skipped(at) /\ ~(there /\ upload.ifds.at[at].raw)
    <2> DEFINE more == IF there THEN links ELSE <<>>
    <2>1. /\ visited' = visited \cup {at} /\ offsets' = Tail(offsets) \o more
          /\ UNCHANGED <<step, refusal>>
      BY <1>8 DEF WalkIfd, at
    <2>2. more \in Seq(Nat)
      BY <1>1, ImageFilesAssumption
    <2> HIDE DEF more
    <2>3. offsets' \in Seq(Nat) /\ Range(offsets') = Range(Tail(offsets)) \cup Range(more)
      <3> DEFINE rest == Tail(offsets)
      <3>1. rest \in Seq(Nat)
        BY <1>4
      <3> HIDE DEF rest
      <3>2. rest \o more \in Seq(Nat) /\ Range(rest \o more) = Range(rest) \cup Range(more)
        BY <2>2, <3>1, RangeOfBoth
      <3> QED
        BY <2>1, <3>2 DEF rest
    <2>4. at \in Reachable
      BY <1>5, <1>8 DEF Skipped
    <2>5. Range(more) \subseteq Reachable \cup {0}
      <3>1. CASE there
        BY <1>1, <2>4, <3>1, ReachableIsClosed DEF more
      <3>2. CASE ~there
        BY <3>2 DEF more, Range
      <3> QED
        BY <3>1, <3>2
    <2>6. there => ~upload.ifds.at[at].raw /\ Range(links) = Range(more)
      BY <1>8 DEF more
    <2>7. visited \cup {0} \cup Range(offsets) \subseteq visited' \cup {0} \cup Range(offsets')
      BY <1>4, <2>1, <2>3
    <2>8. WalkIsSound'
      BY <1>1, <1>2, <1>3, <1>4, <2>1, <2>3, <2>4, <2>5, <2>6, <2>7 DEF WalkIsSound
    <2> QED
      BY <1>1, <1>2, <1>3, <2>1, <2>8
         DEF FilesInvariant, ProfileIsCarried, PartsAreInPlace, RawIsThere, SourceIsMade, Unread
  <1> QED
    BY <1>6, <1>7, <1>8

\* With nothing left to look at, or as many seen as there are, all were seen.
LEMMA WalkSeesAll ==
  ASSUME upload \in Uploads, WalkIsSound, ~upload.cr2, offsets = <<>> \/ Cardinality(visited) >= MaxIfds
  PROVE  Cleared
  <1> SUFFICES ASSUME Cardinality(Reachable) <= MaxIfds PROVE Reachable \subseteq visited
    BY DEF Cleared, NoRawIsReachable, WalkIsSound
  <1>1. CASE offsets = <<>>
    <2>1. Range(offsets) = {}
      BY <1>1 DEF Range
    <2>2. 0 \notin DOMAIN upload.ifds.at
      BY ImageFilesAssumption
    <2>3. IsClosed(upload, visited \cup {0})
      BY <2>1, <2>2 DEF IsClosed, WalkIsSound
    <2>4. Reachable \subseteq visited \cup {0}
      BY <2>3, ReachableIsLeast
    <2> QED
      BY <2>4 DEF Reachable
  <1>2. CASE Cardinality(visited) >= MaxIfds
    <2>1. IsFiniteSet(Reachable) /\ visited \in SUBSET Reachable
      BY ReachableIsClosed DEF WalkIsSound
    <2>2. /\ Cardinality(visited) <= Cardinality(Reachable)
          /\ Cardinality(Reachable) = Cardinality(visited) => Reachable = visited
          /\ IsFiniteSet(visited)
      BY <2>1, FS_Subset
    <2>3. Cardinality(visited) \in Nat /\ Cardinality(Reachable) \in Nat /\ MaxIfds \in Nat
      BY <2>1, <2>2, FS_CardinalityType, ImageFilesAssumption
    <2> QED
      BY <1>2, <2>2, <2>3
  <1> QED
    BY <1>1, <1>2

LEMMA EvenIsAfter ==
  ASSUME NEW n \in Nat
  PROVE  Even(n) \in Nat /\ Even(n) >= n /\ Even(n) % 2 = 0
  BY DEF Even

LEMMA DecodingKeeps ==
  ASSUME FilesInvariant, DecodeHeic
  PROVE  FilesInvariant'
  <1>1. step = "decode" /\ tiff = NoTiff /\ UNCHANGED <<upload, offsets, visited, output>> /\ upload \in Uploads /\ Cleared
    BY DEF DecodeHeic, FilesInvariant, Unread
  <1>2. Cleared' /\ Reachable' = Reachable /\ HeicProfile(upload)' = HeicProfile(upload)
    BY <1>1 DEF Cleared, NoRawIsReachable, Reachable
  <1>3. CASE UNCHANGED tiff /\ (RefuseFile("transient") \/ RefuseFile("unreadable"))
    BY <1>1, <1>2, <1>3
       DEF RefuseFile, FilesInvariant, ProfileIsCarried, PartsAreInPlace, RawIsThere, SourceIsMade, Unread
  <1>4. ASSUME NEW d \in Decoded,
               tiff' = IF HeicProfile(upload) # "none" THEN WithIcc(d, HeicProfile(upload))
                       ELSE [NoTiff EXCEPT !.size = d.size, !.tags = d.tags],
               Onward("again")
        PROVE  FilesInvariant'
    <2>1. ProfileIsCarried' /\ PartsAreInPlace'
      <3>1. CASE HeicProfile(upload) # "none"
        <4> DEFINE at == Even(d.size)
                   tags == InOrder(Range(d.tags) \cup {TagIccProfile})
        <4>1. tiff' = [size |-> d.size, tags |-> tags, icc |-> HeicProfile(upload), iccAt |-> at,
                       ifdAt |-> Even(at + IccLength)]
          BY <1>4, <3>1 DEF WithIcc
        <4>2. /\ Range(tags) = Range(d.tags) \cup {TagIccProfile}
              /\ \A i, j \in DOMAIN tags : i < j => tags[i] < tags[j]
          BY TagsAreSorted, ImageFilesAssumption
        <4>3. at \in Nat /\ at >= d.size /\ at % 2 = 0 /\ d.size \in Nat
          BY EvenIsAfter, ImageFilesAssumption
        <4> HIDE DEF at, tags
        <4>4. at + IccLength \in Nat
          BY <4>3 DEF IccLength
        <4>5. Even(at + IccLength) \in Nat /\ Even(at + IccLength) >= at + IccLength /\ Even(at + IccLength) % 2 = 0
          BY <4>4, EvenIsAfter
        <4>6. ProfileIsCarried'
          BY <1>2, <4>1, <4>2 DEF ProfileIsCarried
        <4>7. PartsAreInPlace'
          BY <4>1, <4>2, <4>3, <4>5 DEF PartsAreInPlace
        <4> QED
          BY <4>6, <4>7
      <3>2. CASE HeicProfile(upload) = "none"
        <4>1. tiff' = [size |-> d.size, tags |-> d.tags, icc |-> "none", iccAt |-> 0, ifdAt |-> 0]
          BY <1>4, <3>2 DEF NoTiff
        <4> QED
          BY <1>2, <3>2, <4>1 DEF ProfileIsCarried, PartsAreInPlace
      <3> QED
        BY <3>1, <3>2
    <2> QED
      BY <1>1, <1>2, <1>4, <2>1 DEF Onward, FilesInvariant, RawIsThere, SourceIsMade, Unread
  <1> QED
    BY <1>3, <1>4 DEF DecodeHeic

LEMMA FilesStep == FilesInvariant /\ [ImageFilesNext]_imageVars => FilesInvariant'
  <1> SUFFICES ASSUME FilesInvariant, [ImageFilesNext]_imageVars PROVE FilesInvariant'
    OBVIOUS
  <1>1. UNCHANGED upload => Reachable' = Reachable /\ HeicProfile(upload)' = HeicProfile(upload) /\ (Cleared => Cleared')
    BY DEF Reachable, Cleared, NoRawIsReachable
  <1> USE DEF ProfileIsCarried, PartsAreInPlace, RawIsThere, SourceIsMade, Unread, Onward, RefuseFile
  <1>2. CASE SniffHeic
    BY <1>1, <1>2 DEF SniffHeic, FilesInvariant, Cleared
  <1>3. CASE SniffHeader
    <2>1. UNCHANGED <<upload, visited, tiff, output>> /\ step = "header" /\ upload \in Uploads /\ visited = {} /\ ~upload.heic
      BY <1>3 DEF SniffHeader, FilesInvariant
    <2>2. CASE step' = "ifds"
      <3>1. offsets' = <<upload.ifds.first>> /\ upload.codec = "tiff" /\ ~upload.cr2 /\ UNCHANGED refusal
        BY <1>3, <2>2 DEF SniffHeader
      <3>2. upload.ifds.first \in Reachable \cup {0}
        BY <2>1, ReachableIsClosed
      <3>3. upload.ifds.first \in Nat
        BY <2>1, ImageFilesAssumption
      <3>4. Range(offsets') = {upload.ifds.first} /\ offsets' \in Seq(Nat)
        BY <3>1, <3>3 DEF Range
      <3>5. WalkIsSound'
        BY <1>1, <2>1, <3>2, <3>4 DEF WalkIsSound
      <3> QED
        BY <1>1, <2>1, <2>2, <3>1, <3>5 DEF FilesInvariant
    <2>3. CASE step' = "pixels"
      BY <1>1, <1>3, <2>1, <2>3 DEF SniffHeader, FilesInvariant, Cleared
    <2>4. CASE step' = "refused"
      BY <1>1, <1>3, <2>1, <2>4 DEF SniffHeader, FilesInvariant
    <2> QED
      BY <1>3, <2>2, <2>3, <2>4 DEF SniffHeader
  <1>4. CASE WalkIfd
    BY <1>4, WalkGoesOn
  <1>5. CASE WalkIsOver
    <2>1. Cleared
      BY <1>5, WalkSeesAll DEF WalkIsOver, FilesInvariant
    <2> QED
      BY <1>1, <1>5, <2>1 DEF WalkIsOver, FilesInvariant
  <1>6. CASE CheckPixels
    <2>1. upload.pixels \in Nat /\ MaxInputPixels \in Nat
      BY ImageFilesAssumption DEF FilesInvariant
    <2> QED
      BY <1>1, <1>6, <2>1 DEF CheckPixels, FilesInvariant
  <1>7. CASE DecodeHeic
    BY <1>7, DecodingKeeps
  <1>8. CASE SniffAgain
    <2>1. upload.pixels \in Nat /\ MaxInputPixels \in Nat
      BY ImageFilesAssumption DEF FilesInvariant
    <2> QED
      BY <1>1, <1>8, <2>1 DEF SniffAgain, FilesInvariant
  <1>9. CASE DescribeIcc
    <2>1. ProfileRead = IF tiff = NoTiff THEN upload.icc ELSE HeicProfile(upload)
      BY DEF ProfileRead, FilesInvariant
    <2> QED
      BY <1>1, <1>9, <2>1 DEF DescribeIcc, FilesInvariant
  <1>10. CASE UNCHANGED imageVars
    BY <1>1, <1>10 DEF imageVars, FilesInvariant, WalkIsSound
  <1> QED
    BY <1>2, <1>3, <1>4, <1>5, <1>6, <1>7, <1>8, <1>9, <1>10 DEF ImageFilesNext

\* The inductive invariant of a file on its way to a Source.
THEOREM FilesInvariantHolds == ImageFilesSpec => []FilesInvariant
  BY FilesStart, FilesStep, PTL DEF ImageFilesSpec

\* What becomes a Source is no RAW, however its directories link to one
\* another, is within the ceiling of pixels, and keeps its gamut.
THEOREM SourceIsAlwaysFaithful == ImageFilesSpec => []SourceIsFaithful
  <1>1. FilesInvariant => SourceIsFaithful
    BY DEF FilesInvariant, Cleared, NoRawIsReachable, PartsAreInPlace, RawIsThere, SourceIsMade, SourceIsFaithful
  <1> QED
    BY <1>1, FilesInvariantHolds, PTL
=============================================================================
