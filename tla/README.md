# Casebook: models, checks and proofs

Casebook is a portfolio service: a NestJS API, a relay that publishes a
transactional outbox, an image worker behind BullMQ, and a Next.js page that
uploads straight to S3. This directory models the parts of it where processes,
requests and faults meet, and the algorithms of the worker and the page whose
edges tests hardly reach; it checks the models with TLC on small instances, and
proves with TLAPS, for every value of the constants, the safety properties of
uploads, pipeline and sessions, of handles, rate limits and event streams, of
the relay, of the worker's files, formats, threads and quality search, and of the
page's HTTP client, profile form, uploads, library, errors and controls. Five
components are shown to implement an abstract specification of what they promise.

Contents: [inventory](#inventory), [modules](#modules),
[runs and bounds](#runs-and-bounds), [fairness](#fairness),
[proofs](#proofs), [findings](#findings), [what is left out](#what-is-left-out),
[plan](#plan), [running](#running).

## Inventory

Paths are relative to `src/`. `PROJECT.json` repeats this list with a status
per component, and maps every definition to the lines it stands for.

| Component | State it keeps | Operations | Talks to |
|---|---|---|---|
| Media API (`apps/api/src/media`) | `media_assets`, one transaction per request | createUpload, complete, retry, remove, list, get | S3, outbox, Redis pub/sub |
| Upload clean-up (`apps/relay/src/maintenance`) | nothing between runs | gcPendingUploads: scan, then one transaction per row | Postgres, S3, BullMQ scheduler |
| Outbox and relay (`apps/api/src/outbox`, `apps/relay/src/outbox`) | `outbox_events`; running/rerun/stopping flags; the LISTEN client | append in the caller's transaction; claim with SKIP LOCKED, addBulk, mark published | Postgres, BullMQ |
| Image worker, job (`apps/worker-image/src/pipeline/process-image.ts`, `store.ts`, `events.ts`) | `media_jobs`, `media_derivatives`, the job's attempt | startProcessing, recordAttempt, finishProcessing, failProcessing, failAbandoned | Postgres, S3, BullMQ, Redis pub/sub |
| Image worker, derivatives (`derivatives.ts`, `ssim-pool.ts`) | search bounds, lanes; idle/busy threads and queues | binary search of the quality, escalation, pool, per-job share | worker threads |
| Image worker, pixels (`ssim.ts`, `palette.ts`, `sniff.ts`, `icc.ts`, `heic.ts`, `metadata.ts`) | none | numeric code and header parsers | |
| Sessions (`apps/api/src/auth`) | `refresh_tokens`, Redis denylist, the browser's cookie | login, rotate, logout, logoutAll, changePassword | Postgres (advisory locks), Redis |
| Access tokens, passwords, guard | none | sign, verify, hash | Redis |
| Profile and handles (`apps/api/src/profile`, `handles`) | `users`, `profiles`, `handle_reservations` | updateProfile with If-Match, changeHandle, claim, reserve | Postgres, audit log |
| Media events, API (`media-events.*`) | listeners per channel, the subscriber connection | subscribe, publish, stream | Redis pub/sub, SSE |
| Media events, page (`apps/web/src/lib/media/events.ts`, `cache.ts`, `sse.ts`) | connection status, query cache, progress | reconnect with backoff, applyMediaEvent, upsertAsset | API, SSE |
| Uploads, page (`uploads.ts`, `multipart.ts`) | items, controllers, `running`; lanes, URLs | pump, run, cancel, retry; uploadParts | API, S3 |
| HTTP client, page (`apps/web/src/lib/api/client.ts`) | access token, refresh in flight | apiFetch, refreshSession, bootstrapSession | API |
| Rate limiter (`apps/api/src/rate-limit`) | a sorted set per key in Redis | consume, peek, record, reset | Redis |
| Storage, contracts, schema (`packages/*`) | | S3 calls with time-outs; zod; drizzle | |
| Errors (`apps/api/src/common`, `apps/web/src/lib/api/errors.ts`, `forms.ts`) | what a form, a toast or a dialog shows | exception, Problem Details, ApiError, applyApiError, retries of queries | every route, every screen |
| Pages and controls (`apps/web/src/components`) | forms, combobox, tags, drop zones, the notice of the connection | events of the visitor | HTTP client, query cache |
| Audit, health, configuration, telemetry, video worker | | | |

What is hard, and what makes each part correct:

* **Two stores, no common transaction.** Postgres and S3 (uploads), Postgres
  and BullMQ (outbox), Postgres and Redis pub/sub (notices), Postgres and the
  denylist (sessions). A process may die, or a call fail or time out after it
  took effect, between any two of them. Correct means: nothing is lost
  (`NoSilentLoss`, `EventsArePublished`), nothing is said too early
  (`AnnouncedReadyIsReady`, `PublishedWasQueued`, `DeniedIsClosed`), nothing is
  left behind (`GoneLeavesNoMultipart`, a part of `UploadInvariant`;
  `AbandonedIsCleaned`), and what is served changes at once (`PublishesAtOnce`).
* **At-least-once delivery.** BullMQ runs a job again after a crash or a lost
  lock, the relay may add a batch twice, a relay that gave up on Redis may have
  succeeded. Correct means that the row only moves along the life cycle of an
  asset (`FollowsLifecycle`) whoever runs the job.
* **Rows and locks.** `FOR UPDATE`, `SKIP LOCKED`, a partial unique index and
  advisory locks decide races between tabs, replicas and the collector
  (`UploadInvariant` with its part `OneAssetPerFile`, `BatchesAreExclusive`,
  `ClosedForGood`, `QuarantineHolds`, `ActsAsRegistry`), and have to be taken
  in one order (`EveryRequestIsAnswered`).
* **Time.** Back-off, stalled jobs, the 24 h of a pending upload, the 10 s of
  grace of a rotated token (`NoFalseReuse`), windows counted by clocks that are
  read before the count (`WindowHolds`).
* **State read before an await and used after it.** A subscription on its way
  (`ChannelIsReleased`), a refresh that several calls wait for
  (`RefreshIsNeeded`), a form filled from a cache that moves on
  (`SavedAsShown`, `SavesOverWhatWasRead`, `NoLostUpdate`), pages of a list that changes under them
  (`PagesAreComplete`), a thread pool and a pass of the relay that are called
  upon while they end (`NobodyWaitsInVain`, `WorkIsScheduled`), lanes that go on
  after their run has failed (`StoppedSendsNothing`, `RowsDescribeObjects`).
* **Numbers and formats.** A search of five steps, a ring of eleven rows, a
  k-means with equal centres, directories that loop (`SearchFindsLightest`,
  `StatisticsAreDirect`, `PaletteIsFaithful`, `SourceIsFaithful`).
* **What the person sees.** `FailuresAreTold`, `KeptWhenUnsure`,
  `InputIsTakenOnce`.

The full list, with the line where each hazard bites and the properties that
cover it, is under `hazards` in `PROJECT.json`.

## Modules

| Module | Models |
|---|---|
| `MediaLifecycle` | the abstract specification: `MEDIA_TRANSITIONS` on each asset, removal for good, no work opened on a removed asset |
| `HandleRegistry` | the abstract specification of `Handles`: each claim and each change of a handle is one step, which finds the handle free and the wait over |
| `SharedProfile` | the abstract specification of `Profiles`: a tab saves over the row it has read, or not at all |
| `ServedImage` | the abstract specification of `DerivativeStore`: the derivatives of one run are published together, and no object changes |
| `MediaPipeline` | complete, retry and remove in the API, the outbox and the relays, BullMQ, the image workers, the notices |
| `UploadSession` | createUpload, the browser's parts, complete, remove, the collector of the relay, S3 |
| `Sessions` | login, refresh, logout, logoutAll, changePassword, denylist, cookie |
| `DerivativeStore` | the files of one job: download, `uploadAll`, late PUTs, the rows written from them |
| `Derivatives` | widths, search of the quality, escalation, lanes |
| `SsimPool` | threads, queue, share of a job, deaths, close |
| `SsimFilter`, `Palette`, `ImageFiles` | the SSIM of two pictures, the palette, sniff / HEIC / ICC |
| `RelayProcess` | passes, LISTEN and its reconnections, poll, maintenance schedule, shutdown |
| `Handles`, `Profiles` | signup's claim and changeHandle with the quarantine; the profile edited from several tabs |
| `RateLimits` | the two windows of the login route |
| `MediaStream`, `LibraryList` | SSE from Redis to the pages; the list of the library and what edits it |
| `BrowserUploads`, `WebClient` | uploads and HTTP client of one browser tab |
| `Problems`, `PageControls` | errors from handler to screen; combobox, tags, drop zones, connection notice |
| `MediaPipelineProofs`, `UploadSessionProofs`, `SessionsProofs`, `RelayProcessProofs` | theorems about the module each is named for |
| `ApiProofs` | theorems about `Handles`, `MediaStream` and `RateLimits` |
| `ImageWorkerProofs` | theorems about `DerivativeStore`, `SsimPool`, `Derivatives` and `ImageFiles` |
| `BrowserProofs` | theorems about `WebClient`, `Profiles`, `BrowserUploads`, `LibraryList`, `Problems` and `PageControls` |
| `ListFacts` | lemmas they share: least and greatest of a set of numbers, its members in order, lists and what they hold |
| `MCMediaPipeline`, `MCUploadSession`, `MCSessions`, `MCProfiles`, `MCApplication` | instances for TLC |

**MediaPipeline** starts where **UploadSession** ends: the action `Complete`
of the first is what `CommitUploaded` of the second does to the row. Both
implement `MediaLifecycle`. Composing them step by step would multiply their
state spaces and add no shared variable but the row, so what one takes for
granted is a property of the other: an `uploaded` row has an original
(`UploadedHasOriginal`), leaves `pending` once, and only for an owner who still
has it.

### MediaPipeline

One action is one Postgres transaction, one Redis command, or one stretch of
code between two awaits. Pixels are outcomes: the work of a job succeeds, fails
for good or fails this time. BullMQ (external, from how the code uses it) is a
record per job id: waiting, delayed, active, completed, failed or evicted; the
attempts made; how often it stalled; the slot that holds its lock. A slot that
lost the lock goes on running, as `processImage` would. A relay batch is a
transaction with a set of rows; one that timed out may leave its `addBulk` in
flight and execute it later. The steps of a run are those of `processImage`:
`start` (startProcessing), `record` (recordAttempt), `work`, `persist`
(finishProcessing after uploadAll), `announceReady`, `complete`, and on the
other path `fail`, `announceFailed`, `retry`, `throw`. `spent` is a history
variable: the jobs already dead when the owner retried.

### UploadSession

A media id has a row, a multipart upload, what its parts add up to, and an
object. A request runs createUpload (`open`, `insert`, and after a conflict
`undo` and `winner`) or complete (`list`, `store`, `commit`, under the row
lock). An S3 call may fail, and a completion that was given up may still take
effect (`LateClose`). Bytes are abstracted to none, part of the file, the file,
or other bytes of its size. The collector deletes a row, aborts the multipart
upload inside the same transaction, and commits.

### Sessions

A family has members; a token has `rotated` (no, within its grace period, past
it) and `revoked` (with its reason). A request is a transaction: `find` waits
for the family lock, `rotate` decides, `revoke` takes the families one by one
in order, `commit` writes, `deny` tells Redis, `answer` sets the cookie of the
one browser. Rows are written when the transaction commits; what it has written
so far is `rows` and `fresh`. All tabs share the cookie, and answers arrive in
any order. Logout and change of password give one reason, `closed`: nothing
reads which. That a token is past its 30 days is a choice when it is shown.
The denylist keeps its families; in the code an entry lapses when no access
token of the family can be valid any more.

### Worker: DerivativeStore, Derivatives, SsimPool, ImageFiles, SsimFilter, Palette

`MediaPipeline` knows that a run has uploaded its derivatives. **DerivativeStore**
looks inside: each run of the job downloads, encodes (two runs need not make the
same bytes), and puts its objects on lanes that nobody stops when the run fails;
PUTs that were given up arrive later. `Persist` upserts the rows by size before
it asks for the state, as `finishProcessing` does: a run that comes too late
does replace the rows of the one that made the asset ready (its log says
"resultado descartado"), and they describe its own objects, which are there.

**Derivatives** searches one format of one image: an encode is whether it
reaches the target, and `needs` the lowest quality that does; the widths left
are a set, of which a lane takes the widest. **SsimPool** is
the queue and the threads behind it, one event-loop handler per action.
**ImageFiles** takes a file by what the code reads of it (boxes, directories,
tags) from sniff to the Source. **SsimFilter** carries the rows through the ring
in integers; **Palette** clusters colours on a plane of lightness and chroma.

### Relay: RelayProcess

The flags `running` and `rerun`, the `pg.Client` of the listener with its late
events, the retry timer, and the shutdown of `main.ts` in its order. A batch is
some pending rows or a failure; what happens inside is `MediaPipeline`'s.

### API and page: Handles, Profiles, RateLimits, MediaStream, LibraryList

**Handles** has transactions of READ COMMITTED with uncommitted writes, the
unique index that makes one wait for another, and the deadlock detector.
**Profiles** has tabs with a form, a cached `/me` with its ETag, and at most one
request in flight. **RateLimits** separates the reading of the clock from the
MULTI. **MediaStream** gives the Sets of listeners an identity, because a
handler holds on to the one it found before its await. **LibraryList** has rows
with ties of `created_at`, a fetch under way, events and details on their way;
a page is what is on it, without the order, which nothing in the code reads but
the cursor, and that comes with the answer.

### Page: BrowserUploads, WebClient, Problems, PageControls

**BrowserUploads** is the tab's side of `UploadSession`: the list, the pump, the
lanes and their parts; API and storage answer as they please. **WebClient** has
calls in flight, the token in memory and the refresh they share, with the cookie
changed by other tabs. **Problems** takes each screen's call from the exception
to what is shown. **PageControls** handles events of the visitor between
renders.

## Runs and bounds

| Run | Instance | Shows |
|---|---|---|
| `pipeline` | 1 asset, 2 workers, 1 relay, 2 events in one batch, 2 attempts; crashes and failing statements | `Structure` (inductive invariant), `NoSilentLoss`, `ReadyIsServable`, `PublishedWasQueued` |
| `zombies` | 1 asset, 2 workers, 2 relays, 2 attempts; lost locks and failing statements | `BatchesAreExclusive`, `AnnouncedReadyIsReady`, `FollowsLifecycle` |
| `pipeline_live` | 1 asset, 1 worker, 1 relay, 2 events, 1 attempt; crashes, relay time-outs | `EventsArePublished`, `UploadsSettle` |
| `exhausted` | 1 worker, 3 attempts; failing statements | finding: `ExhaustedIsFailed` is violated |
| `uploads` | 1 file, 2 media ids, 2 requests; every fault | `UploadInvariant` (inductive; two of its conjuncts are `OneAssetPerFile` and `GoneLeavesNoMultipart`), `UploadedHasOriginal` |
| `uploads_live` | 1 media id, 2 requests; S3, Postgres, expiry | `FollowsLifecycle`, `AbandonedIsCleaned` |
| `finished_upload` | 1 request, crashes | finding: `MissingMeansExpired` is violated |
| `sessions` | 2 families, 3 tokens, 2 requests; Postgres, Redis, expiry | `SessionInvariant` (inductive), `DeniedIsClosed`, `NoFalseReuse` |
| `sessions_live` | 2 families, 2 tokens, 2 requests; crashes, late requests | `ClosedForGood`, `EveryRequestIsAnswered` |
| `cleared_cookie` | as above, failing statements | finding: `ClearedWasUseless` is violated |
| `application` | sixteen components, see below | `TypeOK` and one or two properties of each |
| `lost_update` | 2 tabs, 1 role, 1 image | finding: `NoLostUpdate` is violated |

**application.** Sixteen components share no variable with another (what they
exchange with the rest of the system is an environment that answers as it
pleases), so one run checks them side by side: `MCApplication` extends them all,
the variable `focus` picks one in the initial state, and only that one moves.
The graph is the disjoint union of sixteen graphs, about a million states
together. `VIEW` keeps the variables of the component in focus, the others being
constant, and in four of them maps states that differ only in the names of two
pages, tabs or lanes to one another: their actions treat both alike, and none
of the properties names one. `Profiles` also drops `edited`, a history variable
that only `NoLostUpdate` reads, which has a run of its own.

| Component | Instance | Property |
|---|---|---|
| `Handles` | 2 accounts, 3 handles, 2 pages, days 0 to 2 | `QuarantineHolds`, `ActsAsRegistry` (which implies `ChangesAreSpaced`) |
| `Profiles` | 2 tabs, 1 role, 1 image, 2 writes | `SavedAsShown`, `SavesOverWhatWasRead` |
| `RateLimits` | 3 logins, limits 1, window 2, delay 1 | `WindowHolds` |
| `WebClient` | 2 calls in flight, 3 tokens | `RefreshIsNeeded`, `KeptWhenUnsure` |
| `BrowserUploads` | 2 files, one at a time, 3 parts on 2 lanes, 2 attempts, 1 renewal, 1 retry | `WaitingHasAReason`, `StoppedSendsNothing`; its part of `TypeOK` holds parts to the lanes |
| `MediaStream` | 2 pages, 3 connections | `ChannelIsReleased` |
| `LibraryList` | 3 rows, two of one instant, pages of 1; 1 change, event and detail under way | `PagesAreComplete` |
| `SsimPool` | 2 jobs, 4 calls, 2 threads and 2 replacements, share 2 | `NobodyWaitsInVain` |
| `Derivatives` | 3 sizes of images, the code's own tables, needs 50 to 101 | `SearchFindsLightest` |
| `RelayProcess` | 2 rows, batches of 2, 3 clients | `WorkIsScheduled` |
| `ImageFiles` | codecs, boxes, up to 3 directories linked in any way, limit 2 | `SourceIsFaithful` |
| `SsimFilter` | pictures of 5 by 4 and 2 by 3, window 3 | `StatisticsAreDirect` |
| `Palette` | 0, 1 and 4 pixels of 4 colours, 3 clusters | `PaletteIsFaithful` |
| `Problems` | every screen that calls the API, 2 submissions | `FailuresAreTold` |
| `PageControls` | 4 zones, 3 queries, 6 texts, 2 tags | `InputIsTakenOnce` |
| `DerivativeStore` | 2 runs, 2 sizes, 2 lanes, 2 encodings | `RowsDescribeObjects`, `PublishesAtOnce` |

The bounds there are the smallest at which the races exist: two parties and a
third where one replaces another (connections, clients of the LISTEN, threads),
a limit one above which the next is refused, rows that tie and one that does
not. `Derivatives` needs no smaller numbers than the code's. `ImageFiles` walks
three directories against a limit of two, so that a walk is cut short;
`SsimFilter` has a window of three rows on pictures of five, so that the ring
wraps, and one smaller than the window. `Palette` has fewer colours than
clusters, more, and draws that repeat one.

Bounds and why they are enough:

* One asset: no step of the pipeline relates two assets but a relay batch, and
  `pipeline` has batches of two events of one asset (the relay dies after
  addBulk, the job fails, the owner retries). Two events make one retry: the
  second round meets leftovers of the first, which is where rounds can be
  confused. Two workers make one zombie and one successor; two relays are the
  smallest race. Two attempts and one stall reach first, last and stalled-out
  runs. Four `media_jobs` rows are one per attempt of each event.
* One file with two media ids is the race of two intents; two requests are the
  smallest race, and the collector is a third party to each.
* Two families are the smallest set in which the order of locks matters. Three
  tokens make a login, a rotation, and a second login or rotation. A request is
  admitted while a token is left for it to draw (`TokensLeft`).
* The liveness runs use less of each, because they keep the whole graph. Their
  faults may strike for ever; they are chosen so that every fault occurs in
  some run.

Symmetry is used for workers, requests and assets in runs of invariants, and for
the tabs of `lost_update`, whose property quantifies over them.
`CHECK_DEADLOCK FALSE` everywhere: with every upload settled, every token drawn
or every event used, these systems may rightly stop.

Each property is paired with a mutant, in `PROJECT.json`: a change of one
definition that a plausible bug would make (a dropped guard, a missing lock, a
swallowed error, a swapped order), under which TLC finds the property violated.

## Fairness

* **Pipeline.** The relay polls and is notified, so a claim that stays possible
  happens (weak). Adding and committing are strongly fair: Redis and Postgres
  fail now and then, not every time. BullMQ hands out waiting jobs, ends
  back-offs, and its stalled check runs on a timer (weak). A worker that runs
  goes on (weak). Crashes are never fair.
* **Uploads.** A request being served goes on (weak). The scheduler starts the
  collector (weak); its DELETE, abort and commit succeed now and then (strong).
  `uploads_live` has no crash: a collector that dies each time it gets to a row
  is not excluded by any fairness the code justifies.
* **application** has no fairness: its properties are of safety. Those that say
  somebody is not left waiting (`WaitingHasAReason`, `NobodyWaitsInVain`,
  `WorkIsScheduled`, the notice in `InputIsTakenOnce`) say what every state must
  hold for the wait to end: the reason of a wait is something that is under way.
* **Sessions.** A request being served goes on (weak), and Postgres grants a
  lock to those who wait in turn (strong, for the two actions that wait).

## Proofs

`MediaPipelineProofs`, for any sets of assets, workers and relays, any bounds,
and any set of faults:

* `StructureHolds`: `Structure` is inductive. It adds to the types that
  whatever names an event names a committed one, that a relay in `added` holds
  only events BullMQ has, and that a job that can still run has an attempt
  left and is being run by the holder of its lock. `PublishedEventsWereQueued`
  and `BatchesStayExclusive` are conjuncts of it.
* `PipelineFollowsLifecycle`: every step is a transition of the abstract life
  cycle on one asset, a removal, or a stutter. It needs only the guards that
  each transaction repeats in its UPDATE, which is why lost locks do no harm.
* `ResultsHold`: `ResultsAreSound` is inductive over `Structure`: what a run has
  produced when it reaches each step. `ReadyAssetsAreServable` and
  `AnnouncedReadyStaysReady` follow.
* `NothingIsLost`: `Carried` is inductive over `Structure` **if no running worker loses its
  lock** (`"lock" \notin Faults`). The reason the property alone is not
  inductive: after a crash one must know that the job that carries the asset
  will, when it runs again, take the path that moves it: `resumed` for an asset
  in `processing`, a fresh start for one in `uploaded`.

`UploadSessionProofs`, for any files, media ids, requests and faults:

* `UploadInvariantHolds`: `UploadInvariant` is inductive. Beyond types it says
  that a media id belongs to one intent until its row is inserted, that rows
  and multipart uploads agree, and what a transaction knows of the row it
  holds. `UploadsAreWhole`, `FilesAreUnique`, `LocksExclude` (no two complete
  requests, nor complete and the collector, hold one row) and
  `CollectedLeaveNothing` are conjuncts.
* `UploadsFollowLifecycle`: refinement of `MediaLifecycle`.

`SessionsProofs`, for any families, tokens, concurrent requests and faults:

* `SessionInvariantHolds`: `SessionInvariant` is inductive. `ClosedForGood`
  alone is not: a rotation can be inserting a child, and a second revocation
  writing rows, while the family is being closed. What is needed is that one
  transaction at a time holds a family (`FamiliesAreHeldByOne`), that rows are
  written under that lock, all the live ones by a transaction that closes
  (`WritesAreLocked`), and that the row lock on a parent keeps it from being
  revoked while its child is on its way (`FreshIsUnborn`).
  `ClosedForGoodHolds` and `DeniedIsClosedHolds` follow.
* `InTimeInvariantHolds`, `NoFalseReuseHolds`: **if no process dies and no
  request outlasts the grace period** (`Faults \cap {"crash", "late"} = {}`),
  nothing is taken for a theft. The argument: a rotated token that is still in
  the cookie has its child in an answer on its way (`CookieIsReplaced`), so a
  token past its grace period is shown by nobody (`PastIsShownByNobody`).

Fourteen of the sixteen components of `application` are proved one by one: the
specification of each (`HandlesSpec`, `RelayProcessSpec`, ...) is what
`MCApplication` does with that component in focus.

`ApiProofs`, for any accounts, handles, pages, connections, requests and limits:

* **Handles**: `HandleInvariantHolds`, from which `QuarantineIsKept` and
  `ChangesStaySpaced`. That a handle has one owner is not inductive: two calls
  may have checked it before either writes. What carries it is that a row of
  `users` is held by one transaction (`RowsAreHeldByOne`), that the unique index
  lets one uncommitted taker at a handle (`TakersAreAlone`), and that what a
  call found of the reservation before it wrote is true when it commits
  (`ClaimsAreGood`): a reservation only appears with a change of the handle's
  owner, who holds the handle until then, and only lapses with time. That an
  account keeps one handle in quarantine (`OneHandleIsKept`) rests on every
  reservation being as old as a change (`ReservationsAreOfChanges`) and on the
  quarantine being no longer than the wait between changes.
  `HandlesActAsRegistry` is the refinement of `HandleRegistry`: the commit of a
  call is `SignUp` or `Change` and every step before it shows nothing. The
  registry knows no transactions, so that the handle is free, and the wait over,
  must still be true at the commit although both were read before it, which is
  what `TakersAreAlone` and `ClaimsAreGood` say.
* **MediaStream**: `StreamInvariantHolds`, `ChannelIsAlwaysReleased`. The
  invariant speaks of the wire to Redis: its commands alternate, each SUBSCRIBE
  has a Set waiting for it which no other has, and the last one is what the map of
  channels asks for now (`WireIsGood`); once they are all answered the
  connection has what the map says (`SubscriptionFollows`).
* **RateLimits**: `WindowInvariantHolds`, `WindowAlwaysHolds`. A request counts
  by a clock it read up to `Delay` before (`ClocksAreRecent`), so the members of
  the sorted set are not in the order they were added. Whoever is admitted
  has its place there until it is a whole window old by every clock that may
  still count (`PlacesAreKept`), so those admitted within `Window - Delay` were
  counted together, each by the last of them.

`RelayProcessProofs`, for any rows, batch size and clients of the LISTEN:

* `RelayInvariantHolds`, `WorkIsAlwaysScheduled`. Every pending row that no
  failure excuses is in the pass under way, or a pass is owed to it, or its
  NOTIFY is on the connection (`RowsAreLookedFor`); a client that has been lost
  has a successor under way, or a timer (`ListenIsKept`); and the shutdown
  closes nothing that a pass still uses (`ShutdownIsOrdered`).

`ImageWorkerProofs`, for any runs, sizes, lanes, jobs, calls, threads and
widths:

* **DerivativeStore**: `StoreInvariantHolds`, `RowsAlwaysDescribeObjects`. The
  key names the content, so a PUT that arrives late writes what was there
  (`ObjectsAreByContent`); the reason rows can be written is that a run which
  reaches `persist` has every object it made in the bucket (`UploadsAreComplete`,
  `StoredIsThere`), whatever lanes of other runs still send.
  `DerivativesArePublishedAtOnce` is the refinement of `ServedImage`, in which
  `kept` is the bucket and `served` what the rows lead to in it: lanes,
  failures and late PUTs only add objects under keys of their own, and what is
  served goes from one whole set to another in one step, `Persist`.
* **SsimPool**: `PoolInvariantHolds`, `NobodyEverWaitsInVain`. A call is in one
  place (waiting for a share, queued, or with a thread) until it settles, a
  thread is idle or busy, threads in service are as many as the pool has until
  it closes, and the places a job has taken are the calls of it that are in the
  pool. Only with all of them is "the queue is empty or no thread is idle" kept
  by a thread that dies.
* **Derivatives**: `DerivativesInvariantHolds`, `SearchAlwaysFindsLightest`. The
  bounds of the search enclose the quality that is needed, and are as close as
  the steps taken allow (`SearchIsSound`; `Searched` doubles per step); widths
  are pending, in a lane or made (`WidthsAreCovered`); one that misses the target
  ended at the ceiling of its format (`MissesAreAtCeiling`).
* **ImageFiles**: `FilesInvariantHolds`, `SourceIsAlwaysFaithful`. The
  directories a TIFF can be led through are the least set closed under its
  links; `WalkIsSound` says that what the walk has seen is no RAW and leads to
  what was seen or waits, so that a queue that runs dry has seen all of them,
  loops or not (`Cleared`), unless there are more than `MaxIfds`. The TIFF that
  stands for a HEIC has its profile where the reader will look for it
  (`ProfileIsCarried`, `PartsAreInPlace`, with the tags still in order), which
  is what decides the colours of the Source.

`BrowserProofs`, for any calls, tokens, tabs, roles, images, files, parts, rows,
instants and sizes of page:

* **WebClient**: `ClientInvariantHolds`; `RefreshIsAlwaysNeeded` and
  `SessionIsKeptWhenUnsure` are action properties that follow from it.
* **Profiles**: `ProfileInvariantHolds`, `FormIsSavedAsShown`. The form sends
  what changed against the cached row, so the property needs that a version
  identifies the row wherever a copy of it is (`VersionIdentifies`), that the
  patch in flight makes the form's text of the row with the ETag it carries
  (`PatchGivesForm`), and that this row is locked while it is written
  (`LockProtects`). `ProfileSavesOverWhatWasRead` is the refinement of
  `SharedProfile`: every commit of a tab is a compare-and-swap of the row against
  what that tab holds as `/me`. It does not contradict the finding
  `lost_update`: the form compares with the cache, and the cache may be newer
  than what the form was filled with.
* **BrowserUploads**: `UploadsInvariantHolds`, `WaitingAlwaysHasAReason`,
  `StoppedAlwaysSendsNothing`. The counter `running` is the number of files at
  work; a file at work has a controller and is in the list, and its parts are
  on lanes only while it uploads (`RunsAreControlled`, `ActiveIsShown`,
  `LanesAreOfUploads`). A pump after each end then leaves no file waiting beside
  a free place.
* **LibraryList**: `LibraryInvariantHolds`, `PagesAreAlwaysComplete`. The
  property looks at a list that has been scrolled to its end; the invariant at
  any prefix of it: each row that stayed as it was is on one page if the cursor
  has passed it and on none otherwise (`ShownOnce`), for the pages and for those
  that a fetch has so far (`FetchedOnce`). `PageIsTheNewest` is why one more page
  keeps it: the order by (created_at, id) is total, and a page takes an upper
  part of what the cursor leaves.
* **Problems**: `FailuresAreAlwaysTold`, for any number of submissions; the
  screens and the failures are those of the code, and the proof does not
  enumerate them but follows a failure. A response carries a detail unless it is
  a 5xx (`ResponseIsPlain`), the error is read from the last response
  (`ErrorIsOfAnswer`), and the notice of the call before is gone
  (`CallsAreClean`).
* **PageControls**: `InputIsAlwaysTakenOnce`, for any zones, queries, texts and
  depth of the page. The highlight is on an option wherever there is one, tags
  can be taken as roles (`MenuIsSound`, `TagsAreSound`), and of the three
  handlers that hear a drop the number that have taken the files is known at
  each (`DragIsSound`).

The inductive invariants of the last two are `ProblemsInvariant` and
`ControlsInvariant`.

Inductions over finite sets are done by the least counterexample (`LeastOf` in
`ListFacts`), since the induction theorems of the library take an operator.

Assumptions are those named in the modules: null values are outside the sets,
bounds are naturals, `Faults` is a set of known kinds, limits and sizes that the
code has as constants are positive. The ones that say more:

| Assumption | Why the code justifies it |
|---|---|
| `Quarantine <= Cooldown` | both are 30 days (`handle-reservations.service.ts:9`, `profile.service.ts:52`) |
| `Delay < Window` | a request takes seconds, the windows are minutes |
| `PoolSize <= Cardinality(Threads)` | `Threads` are those ever created, the first `PoolSize` at the start |
| the steps of the search are enough for each format's qualities | `derivatives.ts:25-30`: five steps tell 31 qualities apart, and the others have 21; of AVIF's 36 one may be left untried, so that its quality can be one above the lowest, as the property allows |
| a TIFF has finitely many directories, and none at offset 0 | offsets are of 32 bits; 0 ends the chain, and `isTiffRaw` skips it (`sniff.ts:177-181`) |
| a directory has each tag once (`IsInjective(d.tags)`) | it is written by the encoder of the decoded HEIC, not taken from the upload |
| one query finds every zone (`Found`) | the empty one (`combobox.tsx`) |
| sets of files, parts, rows, connections, calls and threads are finite | any run of the program has met finitely many |

Only model-checked, and why:

* liveness, in the three `_live` runs: fairness and ENABLED are out of the
  prover's reach;
* `StatisticsAreDirect` and `PaletteIsFaithful`: their models fold over a picture
  or its pixels, and what a fold computes is proved by induction over data,
  which the provers cannot instantiate;
* `NoSilentLoss` when a running worker loses its lock: the theorem assumes it
  does not; `zombies`, where it does, checks the properties that hold then, which
  are proved without that hypothesis;
* `TypeOK` of `MCApplication` as it stands: for each of the fourteen components
  above it is a part, or a consequence, of the inductive invariant, and for
  `SsimFilter` and `Palette` TLC's;
* what the violation runs show.

## Findings

Each has a run whose counterexample shows it.

* `exhausted`: an image job can use up its attempts outside the `try` of
  `processImage`, or in `failProcessing`, and leave the asset `uploaded` or
  `processing`; the documents promise `failed`.
* `finished_upload`: S3 can complete a multipart upload whose transaction then
  dies; the comment that explains a missing multipart knows two reasons only.
* `cleared_cookie`: the refresh route clears the cookie on any error, where its
  comment speaks of cookies that are of no use any more.
* `lost_update`: the settings form compares the values it was filled with to the
  `/me` of the query cache at the time of the save, and sends that answer's
  ETag. When the cache was fetched again in between, a text that another tab
  saved differs from the form's old one, goes out as a change and is erased,
  without the 409 that `If-Match` is for.

Behaviour met while modelling, that no run reports:

* `applyApiError` (`forms.ts:19-29`) drops errors of fields a form does not have
  when others matched; the avatar picker shows the general text of a 422 only.
* `reloadFromServer` of the settings form has no error path.
* The edit form of a file overwrites, when its save is answered, what was typed
  meanwhile (`media-detail.tsx:343-351`).
* `PageDropOverlay` counts `dragenter` and `dragleave`; an element that leaves
  the page under the pointer hears no `dragleave`, and the overlay stays until
  the next drop (`media-dropzone.tsx:107-123`).
* A darkened background has a contrast near 4.5:1 with white and therefore more
  with black: the suggested text is mostly black (`palette.ts`).
* `finishProcessing` upserts the derivatives of a run whose asset has left
  `processing` (`store.ts:107-136`), where `processImage` logs that the result is
  discarded.
* At shutdown the worker ends its database pool while a `failAbandoned` it did
  not await may still run (`apps/worker-image/src/main.ts:74-102`).

## What is left out

* Bytes and formats: EXIF, the layout of headers, encoders and decoders (an
  encode is its SSIM, a file is what is read of it), the text protocol of SSE.
* Markup, the gallery of components, layout, wording, logging, tracing, and the
  audit rows nothing reads. They are the larger part of `apps/web`, and of the
  lines no definition is mapped to; `docs/design` holds a prototype that no
  program runs.
* Throttling of progress events, and their values: only the state in them.
* A commit whose outcome the pipeline's client does not learn (a connection
  lost at COMMIT); `UploadSession` and `DerivativeStore` have late effects of S3
  calls.
* Argon2 and JWT: a password is right or wrong, a token accepted or not.
* Rows created by signup beyond the handle; of the routes' rate limits, those of
  login only: the others are the same `consume` with other keys.
* Two collectors at a time: its schedule is one BullMQ job, run with
  concurrency 1 in each relay.
* Filters of the library by text and kind (the filter by state stands for them),
  and the public profile, which only reads.
* The video worker, a stub; health checks, environment and start-up.

## Plan

Left to prove: what remains of `NoSilentLoss` when a running worker loses its
lock; and, for `MediaStream` and `RateLimits`, that each implements an abstract
specification of one or two variables (who hears a channel, how many are
admitted), of which the invariants proved are the simulation relations. Left to
model: two collectors at a time, and a notice that crosses the answer of the
detail it asks for.

## Running

    tlc -config pipeline.cfg MCMediaPipeline.tla     # and so on, per run
    tlc -config application.cfg MCApplication.tla    # two to three minutes
    tlapm MediaPipelineProofs.tla                    # and the other six, and ListFacts.tla
