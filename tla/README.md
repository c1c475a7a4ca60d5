# reviewsha in TLA+

A verification development of the concurrent core of reviewsha: TLA+ modules
translated from the source, TLC runs on small instances, and TLAPS proofs for
every value of the constants. Paths are relative to the repository.

## 1. The system

reviewsha reviews uploaded source code with an AI provider. A NestJS API
(`apps/api`) serves the web applications, a Worker (`apps/worker`) runs the
analysis stages, and they share PostgreSQL (Prisma), Redis (BullMQ queues and
pub/sub) and MinIO.

| Component | State | Operations | What makes it correct |
|---|---|---|---|
| Pipeline requests, `apps/api/src/modules/pipeline` | `scans.status`, `scans.pipelineStatus` | start, cancel, resume | a request is one run; a cancellation holds; no run is lost |
| Stage processors, `apps/worker/src/processors` | Scan, Report and Notification rows, working directory | download, extract, parse, merge, analyze, report, notify, cleanup | a report covers the upload, is stored before it is announced, is announced once; the directory is reclaimed |
| Failure handling, `pipeline-state.service.ts`, `base.worker.ts` | the same rows, dead-letter queue | `fail(job)` | a failure is recorded and does not destroy a success |
| Queues, `queue.service.ts` of both, `queue.factory.ts` | BullMQ jobs | add, retry, remove, cancel | attempts are counted, jobs end |
| AI gate, `ai.service.ts` | `active`, `waiting` | acquire, release, retry loops | the limit, no leak, no lost wake-up, no starvation |
| AI reviews, `analyze.processor.ts` | AIRequest, AIResponse, AIUsage, AnalysisContext | selection of files, reviews in parallel | one request row per task, stored answers, daily limit |
| Chunks and prompts, `worker/src/ai` | none | redact, number, cut, select, build prompts | nothing of an upload is lost silently |
| Uploads, `modules/uploads`, `uploaded-file.repository.ts` | UploadedFile rows, objects in MinIO | upload, GitHub import, remove | versions are distinct, rows and objects agree, imports are complete |
| Projects, `modules/projects` | Project row | create, update, archive, restore, delete | what a project is connected to stays consistent with its versions |
| Sessions, `modules/sessions`, `modules/auth` | RefreshToken rows | login, rotate, revoke, limit | a token is used once; a revocation holds; the limit |
| SDK client and web application, `packages/sdk/src/client`, `apps/web` | tokens of the store, the shared refresh, the page's pending question | calls with refresh and repeat; ask, retry, stop | a tab does not end its own session; one key, one question |
| Chat, `modules/chat`, `chat.processor.ts` | messages, jobs, in-flight map, Redis channels | send, stream, cancel | one answer per idempotency key; every request and stream ends |
| Reports, `modules/reports`, `worker/src/reporting` | Report, Finding and AnalysisContext rows | deduplicate, list, remove, export the patched archive | no problem is dropped, fixes are those shown, coverage is true |
| Administration, admin application, deployment | settings, rows | settings, queue operations | (only the operations that touch the above) |

How they interact: the API writes the Scan row and adds a job to Redis; each
processor reads and writes the rows and the directory `jobs/{pipelineId}`, and
adds the job of the next stage; BullMQ retries an attempt that throws, delivers
a stalled job again, and emits `failed`, on which the Worker calls `fail(job)`
without awaiting it. Cancellation is a status that handlers poll. In the Worker
process all analyses and chats share one `AIService`. The chat's answers come
back over Redis: the Worker publishes to the channel of the stream whose id the
job carries, or the API polls the job and the message row. The SDK refreshes the
tokens on a 401 and repeats the call.

The hard behaviours: every `await` is a point where another request or handler
may run; the status is read at one await and written at a later one; jobs are
delivered again after a crash; several runs of one scan may exist, and they
share a directory; the failure handler is fire-and-forget; a semaphore hands
over a slot through the microtask queue; reviews that Promise.all no longer
waits for go on next to the retry; checks of rows (session limit, daily limit,
next version, known commit, earlier answer) precede the writes that depend on
them; retries by clients and by BullMQ meet under one idempotency key.
`PROJECT.json` lists the hazards with
their lines and the properties that cover them.

## 2. Modules

| Module | What it models |
|---|---|
| `PipelineBase` | shared state, job lifecycle of BullMQ (attempts, retry, final failure) |
| `PipelineService` | `startPipeline`, `cancelPipeline`, `resumePipeline`, the administrator's retry and remove, death of the API |
| `PipelineWorker` | the eight processors, `fail(job)`, failing awaits, death of the Worker, refused writes |
| `Pipeline` | composition, fairness, properties, and the refinement mapping to `PipelinePromise` |
| `PipelinePromise` | abstract specification: what a client of the API may rely on |
| `AIGate` | `AIService.acquire`, `release`, retry loops |
| `SessionService` | the API's sessions: login, rotation, reuse, limit, revocation, expiry |
| `ApiClient` | one browser tab: interceptor, shared refresh, stream, auth store, reload |
| `Auth` | composition of the two, fairness and properties |
| `ChatService` | the API's chat requests, from the idempotency key to the answer |
| `ChatProcessor` | the Worker's chat jobs: generation, publication, retries, redelivery |
| `ChatPage` | the chat page: pending question and its key, retry, stop |
| `Chat` | composition of the three with other clients, fairness and properties |
| `ProjectsService` | a project's row and its operations; shared state of the versions |
| `UploadsService` | `create`, `importGithub`, `remove`, `createNextVersion` |
| `Versions` | composition with analyses of versions and crashes, and properties |
| `Reviews` | the requests of `analyze`: selection, limit, `Promise.all`, over attempts |
| `ChunkBuilder` | pure operators: files to chunks to prompts |
| `ReportGenerator` | pure operators: issues to findings, coverage, patches, archives |
| `Reports` | uploads, analyses, reports and exports of one project over these operators |
| `MC*` | TLC instances: symmetry, constraints and hand-picked inputs |
| `PipelineProofs`, `PipelineRunProofs` | TLAPS proofs about `Pipeline`: types, `PipelinePromise`; the properties of one run |
| `AIGateProofs`, `AuthProofs`, `ChatProofs`, `VersionsProofs`, `ReviewsProofs`, `ReportsProofs` | TLAPS proofs about the module each is named after |

### 2.1 Pipeline: from code to state

One instance is one uploaded version, hence (unique index on
`scans.source_file_id`) one Scan row.

| Variable | Code |
|---|---|
| `scan` | `status` and `pipelineStatus` of the Scan row, `"none"` before it is created |
| `report` | Report row: status, and `content`: whether the reviewed text was the whole upload or a tree whose files were gone |
| `notices` | number of Notification rows by message |
| `files` | the working directory: each artifact absent, whole, or describing an empty tree |
| `job` | each BullMQ job: state, stage, envelope, attempts made, and the point the handler stands at (`pc`) with the artifact it holds in memory (`data`) |
| `deadLetters` | stages in the dead-letter queue |
| `call` | API requests in flight, by the await they stand at |
| `spent` | faults, outages and interventions used so far |

Conventions:

- One action is one await of a handler or request, with the code that follows
  up to the next await. A handler's first lookup of the status and the creation
  of the directory are one step with the delivery of the job.
- Consecutive writes of a handler that nobody reads in between are one step
  (`parse.json`; `extract.json` with the status; project date with the completion).
- A delayed job is a waiting one: the length of a backoff is abstracted.
- A completed job leaves the model, and its successor takes its slot; `Jobs`
  therefore bounds the jobs alive at once, including the failed ones BullMQ
  keeps. `enqueueJob` followed by a crash needs a second slot (`HandoffDies`).
- A job the API adds has an envelope `{id, type, payload}`, one a processor
  adds has not. `cancelPipelineJobs` looks at `data.payload.pipelineId`, and
  therefore removes the former only.
- `fail(job)` runs as its own process, because nobody awaits it; each of its
  writes may be refused, and the code goes on after a refused one.
- The failure message contains the error's text, so whether an earlier notice
  of the same stage counts as found is nondeterministic.
- The transaction of `report` runs at PostgreSQL's READ COMMITTED: between its
  read of the status and its commit a cancellation may commit.
- BullMQ delivers a stalled job once more (`maxStalledCount` is 1), which the
  bound on outages respects.
- `"CREATED"` is left out: no code creates a scan with it.

Left out: progress, `pipelineStep`, error texts and timestamps; scans without a
user (no notice is created for them); AIRequest rows (module `Reviews`) and the
context cache inside `analyze`; `handleSuccess` and `handleFailure` of PipelineService, which
nothing calls in production; pausing of queues.

### 2.2 AI gate: from code to state

`active` and `waiting` are the fields of `AIService`; `microtasks` is the event
loop's queue of continuations, in order; `at` and `attempt` are the callers'
places in `generate` or `stream`. A caller arrives when something unrelated
that it awaited settles, so arrivals are at any moment and any order, but a
continuation runs only when those queued before it have run. A slot is kept
during a retry's delay, as in the code. What a stream yields, and whether its
consumer aborts it, only decides when `Settle` happens.

### 2.3 What a client may rely on

`PipelinePromise` has three variables, which `Pipeline` computes from its rows:
`shown` from the scan's status (`ShownStatus`), `stored` from the Report row and
`told` from the notifications. Its steps ask for an analysis, move the status
among the unfinished ones, store a report, complete, or announce; completing and
announcing need a stored report, and nothing takes a report back. `Pipeline`'s
`KeepsPromise` is `Promise!Spec` under this mapping.

### 2.4 Sessions: from code to state

`rows` is the `refresh_tokens` table of one user, in the order of creation; a
token is its index, and a row is active, expired or revoked for a reason. `req`
holds the requests the API serves, with the await each stands at; rotation is
four of them (find, create, enforce the limit in a read and a write, revoke).
`client`, `call`, `refreshing` are the auth store, the calls of the tab and
`ApiClient.refreshing`. A refresh token and its access token share a number.
`JwtAuthGuard` looks at the access token only, so a call with an unexpired one
is answered whatever happened to its session; answered calls and refreshes are
therefore separate. A reload drops the calls in flight and keeps the store,
which loses a refresh that was under way. Left out: passwords, users, e-mail.

### 2.5 Chat: from code to state

One chat session. `message`, `answered`, `usage` are rows by idempotency key;
`job` is the BullMQ job of a key with its attempts, the stream id it carries and
the point its handler stands at; `channel` is the subscription of each stream
in Redis; `req` is each request of the API with the awaits of `enqueue`, polling
and the listener; `page` is the state of `ChatPage`. A process that dies takes
its requests and in-flight map with it; a stalled job is delivered again. A
stream may also be answered after its cancellation: `OmniRouterProvider.stream`
adds a listener to the signal and never asks whether it is aborted already. The
tokens of a stream, the assembled context and texts are left out: an answer is
the question it answers.

### 2.6 Versions: from code to state

One project. `project` is its row; `rows` are the UploadedFile rows in the order
of creation, each with status, commit, version, `deleted` and the state of its
scan; `objects` are the rows whose archive is in MinIO; `req` are requests with
their local variables. Commits of a branch are numbered from the oldest.
`createNextVersion` is a read and an insert that PostgreSQL refuses if another
transaction took the number (P2034, retried twice) or the commit (P2002).
PostgreSQL may also abort a transaction for what another project did; such
false positives are left out, as is the await between the two reads of `remove`.
`token` says whether `GITHUB_TOKEN` is set. With it the first import reads all pages
of the commits API and a later one the newest; without it every import reads the
Atom feed, which is one page. `Page` stands for both lengths of a page.
`ProjectsService` reads and writes a project in separate steps. `importGithub`
takes every unique violation for a commit that has a version by now; the history
variable `req[i].skipped` remembers that one was left out although it has none
(`NextCommit`), which the code does not record.

### 2.7 Reviews: from code to state

One scan, whose analyze jobs are the `Runs`: the first, and one for each restart
(`startPipeline` on a cancelled or failed scan) and each resumption. The job of a former run was
added by the Worker, so nothing removes it, and it may be executed or retried
next to its successor. `job` holds each of them with the locals of its execution;
`review` the reviews of each execution (a generation: run and attempt), whose
promises go on after another one has thrown; `requests` the AIRequest rows with
the key of their task, their status and whether a response is stored; that a row
also names the run that made it is history, the table does not know it.
A restart deletes all rows (`resetReviewRequests`) at any moment, and a review whose
row is gone meets an update that throws (`gone`). `overlapped` remembers whether a run was
queued while another was at work, that is, had a live job or an abandoned review
yet to find or make its row. Within one run a retry comes after a backoff of a
second or more, when the reviews its former attempt left behind wait for the
provider (`LeftBehindAreCalling`); between runs there is no such delay. Left out:
AIUsage rows and the context cache.

### 2.8 Reports: from code to state

`ChunkBuilder` and `ReportGenerator` are pure. A text is a sequence of
characters (letters, line ends, a secret, two dollars, redaction marks and line
numbers), so lines, quotations and replacement are what the code's string
functions compute; sizes are scaled down and limits are constants. A path is a
sequence of names; upper and lower case are not distinguished. The loops over
lines, files, chunks and issues are folds, `build`'s over the files (`AddFiles`)
apart from the flush that follows it. `Reports` has, per
upload, its files, row and object, the stored chunks and what the prompts of
reviews contained (`context`), the provider's issues (`results`) and the report;
exports are requests with their awaits. The Report row keeps its creation time when it
is stored again, which decides which report is the latest. When the report's job fails
for good its row says FAILED, without findings if it is new; the API lists, removes and exports
such a report like any other (`Listed`). An issue without lines has 0 for them,
and its patch's own lines count (`FixStart`, `FixEnd`). The context cache of
`analyze` is left out: each analysis computes its chunks.

## 3. Runs

| Run | Instance | Shows |
|---|---|---|
| `pipeline_cancel` | 1 start, 1 cancel, 3 attempts, 3 faults, 2 jobs; 27k states | `TypeOK`, `ReportCoversUpload`, `OneRun`, `OneReadyNotice`, `CancelStops`; under fairness `Drains`, `FailureRecorded` |
| `pipeline_faults` | 2 starts and 1 cancel; or 1 start, 3 faults and 1 outage or intervention; or 1 start, 1 resume, 3 faults; 3 jobs; 1.6M states up to symmetry | `KeepsPromise` (refinement), `WorkspaceReclaimed` |
| `ai_gate` | 4 callers, limit 2, 2 attempts; 49k states | `TypeOK`, `ActiveCounts`, `NoLostWakeup`; under fairness `Admitted` |
| `auth` | 1 tab with 2 calls and a stream, 1 other device, logout, logout-all, revocation, limit 2, 1 event; 73k states | `TypeOK`, `LimitAtRest`, `PresentsOwnToken`, `HoldsNewest`, `CutOffHolds`; under fairness `CallsReturn` |
| `chat` | 2 streams, 2 sends, 1 key, 2 attempts, 1 trouble of each kind (among them an attempt that fails silently); 271k states | `TypeOK`, `SavedBeforeTold`, `JobHasQuestion`, `StaysSettled`; under fairness `SendsReturn`, `StreamsReturn` |
| `versions` | 2 uploads, 2 imports, 1 removal, 1 analysis, 1 edit, 3 at once; 3 commits, pages of 1, with and without a token; 1 trouble; 1.2M states up to symmetry | `TypeOK`, `VersionsCount`, `CommitOnce`, `RefusedByOthers`, `CompletedHasObject`, `RowsSettle`, `SyncComplete` |
| `reviews` | project, 1 file, selection; 2 attempts, limit 5 with 1, 3 or 5 used; 1 run with 1 trouble, or 2 runs of a merged review; 246k states | `TypeOK`, `OneRowPerTask`, `SavedHasAnswers`, `WithinQuota`; under fairness `StageEnds` |
| `reports` | 2 uploads of 2 archives, 5 reviews, merged, 2 analyses, 1 export; 812k states | `NothingLost`, `ProblemsKept`, `ShownFixIsServed` |
| `pipeline_cancel_lost` | 1 start, 1 cancel | **violated**: `CancelHolds` |
| `ai_gate_limit` | 3 callers, limit 1 | **violated**: `LimitHolds` |
| `chat_key_reused` | 2 streams, 2 keys, 2 questions | **violated**: `KeyNamesOneQuestion` |
| `reports_coverage` | as `reports`, merged or not, any selection | **violated**: `CoverageHolds` |

Bounds and why they are enough. Three attempts is the code's value
(`queue.factory.ts`), and three faults exhaust one stage. Without overlapping
runs there is one live stage job, so two ids suffice: the stage or its failed
job, and the cleanup; each further run or redelivered stage needs one more.
One cancellation, outage or intervention meets every await of every handler,
because it may happen at any state; `OneTrouble` keeps kinds of trouble apart
whose combinations the proof of `KeepsPromise` covers. Two callers more than
slots let a newcomer and two waiters compete in `AIGate`. In `auth` two calls
share a refresh while a stream has its own, and a limit of two sessions is
exceeded by a third login. In `chat` all requests contend for one key, which is
where they interfere; two attempts exercise both outcomes of the retry test. In
`versions` three requests at once are what `RefusedByOthers` needs, and with
pages of one commit out of three a later import misses what the first had to
bring. In `reviews` one file next to the project is the smallest `Promise.all`
in which one review fails and another goes on; five requests used of a limit of
five, or one, meet both outcomes of the check. Two runs are explored
with the merged review only: a review per file and two runs have more than ten
million states, which are left to the theorems. In `reports` the inputs are
picked by hand: files of one chunk, files that are cut, a README, a lock file, a
secret, a Windows line end, issues each like the next, fixes without lines of
their finding, one path with two fixes.

Symmetry is used in runs without liveness only. Deadlock is not checked where
every bounded environment comes to rest (a pipeline, a tab, a chat session, a
project and its requests all end); it is checked for the gate, where a caller
can always come back.

The four violated runs are disagreements between code and documentation:

- **A cancellation is overwritten** (`CancelHolds`). `notify` writes COMPLETED
  without looking (`notify.processor.ts:24`), against
  `report.processor.ts:106-107` and `docs/architecture/worker.md:33`.
- **More requests than the limit** (`LimitHolds`). See `ai.service.ts:123-124`:
  the slot is free between `release` and the resumption of the waiter, against
  `docs/architecture/ai-pipeline.md:46`.
- **A new question goes out under an old key** (`KeyNamesOneQuestion`).
  `ChatPage.tsx:111` takes the pending message's key, which Stop (line 359)
  leaves in place, against `chat.controller.ts:156`; the API then finds the old
  question and its job.
- **Files are listed as reviewed that were never sent** (`CoverageHolds`).
  `reports.service.ts:384-421` lists the paths of all stored chunks, among them
  the architecture chunk's, which names the whole project; a merged review sends
  the selected files only, and of these what the limits leave. Of the other files
  only the prompt that asks for the selection shows anything: their paths and first 100
  characters (`prompt-builder.service.ts:33-41`).

Where a property is restricted, the restriction is the code's:

- `OneRun` and `ReportCoversUpload` hold for one start request, because nothing
  keeps a second one from starting a second run over a PENDING or failed scan.
- `WorkspaceReclaimed` excepts cancellations, outages and interventions, which
  may remove the very job that would have led to the cleanup. `FailureRecorded`
  is checked without outages: `fail(job)` is not awaited and not repeated.
- `PresentsOwnToken` excepts a reload and a stream that refreshed outside the
  shared promise; `CutOff` demands that no validated rotation is under way.
- `KeepsPromise`: a Report row that says FAILED counts as stored, since a
  failure of the report's job after its transaction marks a stored report, too.
- `HoldsNewest` excepts a reload, which may drop the answer to a rotation.
- `StreamsReturn` speaks of the stream a job carries. An attempt may end without
  telling the stream anything: the lookups and the subscription before the
  generation (`chat.processor.ts:52-84`) and the writes after it (99-139) throw outside
  the block that publishes errors. The retry then tells; so the property demands
  that fewer attempts failed silently than a job has.
- The administrator's retry and remove of a failed job come after its failure
  handler, which the API does not check (`queue.service.ts:135-137, 154-158`):
  handler and job share a record in `Pipeline`.
- `RowsSettle` and `SyncComplete` hold where no call failed: a failed import of
  a first page leaves older commits out for good. `SyncComplete` also excepts
  an import that gave a commit up (`skipped`): three manual uploads that were
  admitted before the project was connected may take the numbers it wants, and
  `uploads.service.ts:290` reads its third P2002 (`uploaded-file.repository.ts:52`)
  as "this commit has a version". Without the exception TLC finds that behaviour
  with three uploads, one import, one commit and four requests at once. And
  `SyncComplete` speaks of one repository:
  with two, an edit of the project that read it before the first version existed
  may connect the other repository afterwards; for `importGithub` the versions
  of the first then count as history (`!hasGithubVersions`), and it reads the
  newest page only.
  Without a token an import asks for the newest page only, and `SyncComplete`
  says no more than that it is brought in (`Oldest`).
- `OneRowPerTask` counts the rows of each run, and of all runs together unless two were at
  work at once: `pipeline.service.ts:85-97` deletes the rows of a cancelled or failed
  scan and queues another run, also while an analyze job of the former is alive, and
  `ai_requests` has no unique key for a task. Both jobs may then find no row and create one.
- `WithinQuota` counts one analysis without such an overlap: several at once exceed
  the limit together.
- `ShownFixIsServed` excepts exports with a newer report in between, files with
  several fixes (the lightest finding's is served), quotations that occur twice
  or first within a line, and fixes with two dollar signs (`String.replace` reads patterns).
  It asks for the quotation in the raw file under the finding's exact path, so it
  says nothing of fixes of several lines of a file with Windows line ends, of
  quotations of redacted text, and of paths that match in part or in another case.
- `NothingLost` excepts lists that reach the limit on chunks, where files are
  dropped, and speaks of the project's chunks, of which a merged review sends a selection.

Fairness. `WF` of a job's steps: BullMQ hands waiting jobs to a Worker, and an
async function goes on when its await settles (database, storage and provider
calls have time-outs). `WF` of a request that was accepted, and of a call's
answer while its tab is there. Nobody is obliged to send a request, to give up,
or to press a button, and no fault or deadline is obliged to happen. In the
gate: the event loop drains the microtask queue, the provider answers or times
out (`AI_TIMEOUT_MS`), timers fire. In `reviews`: each review goes on by itself.

## 4. Proofs

Assumptions, each named in the module that declares the constants: requests of
different kinds are different requests, bounds are numbers, attempts and limits
are positive, as `env.schema.ts` demands, and a value that stands for NULL is no
other value (`PipelineAssumption`, `GateAssumption`, `ChatAssumption`,
`VersionsAssumption`, `ReviewsAssumption`, `AuthAssumption`,
`ApiClientAssumption`). For reports: `readdir` lists each path once and a chunk
has more tokens than its margin (`ChunkAssumption`), archives are texts under
known paths, the issues have passed the validator (`WellFormed`), and the
provider's selection is cut to `MaxAnalysisFiles` paths (`ReportsAssumption`). Callers, files and the requests of `Auth` are finite sets,
because they are counted; no other set is bounded. The bounds on faults, outages
and troubles that TLC needs are arbitrary numbers here, so the theorems speak of
any number of them. Where the properties are restricted (section 3, "the
restriction is the code's") the theorems are, too.

### 4.1 Pipeline

- `PipelineTypeOK`: `Spec => []TypeOK`. `TypeOK` is inductive by itself; one
  lemma per handler, built on lemmas about the steps handlers are made of
  (`Goto`, `Begin`, `Throw`, `Handoff`).
- `PipelineCompletedHasReport`: `Spec => []CompletedHasReport`, for any number
  of starts, cancels, resumes, jobs, faults, outages and interventions. The
  property is not inductive: the notify job completes the scan long after
  `report` stored the row. The invariant adds `ReportBehind`: a `notify` job,
  queued or running, failed or about to be retried, or a `report` job past its
  transaction, exists only once the Report row does. No step removes
  the row, so a step is safe when it makes no such job without the row: most
  steps are shown "harmless" by one lemma about changing a single job, and
  only `report`, `notify`, the hand-over and the retries need an argument.
- `PipelineKeepsPromise`: `Spec => KeepsPromise`,
  the refinement of `PipelinePromise`, for all values of the constants. The
  invariant above is joined by `NothingBefore`: before a scan exists there is no
  job, and no request has come further than its creation. Under it each step of
  each handler and request is shown to be, under the mapping, one of Accept,
  Work, Store, Complete and Announce, or a stutter; one lemma per handler.
- `PipelineOneRun`, `PipelineReportCoversUpload`, `PipelineOneReadyNotice`
  (module `PipelineRunProofs`): `Spec => [](Alone => P)`. `Alone` says of a
  state that at most one start or resume request has been sent so far, that no
  process died and no administrator interfered; it is what the run
  `pipeline_cancel` fixes through its constants, and what the code needs: a second
  start over a PENDING scan, or a redelivered stage, does begin a second run.
  (A lone resume finds no scan, so the request that matters is a start.)
  Faults, retries and any number of cancellations are included. The invariant
  (`RunInv`) is `TypeOK` and, while `Alone`, `Flow`: a job other than a
  cleanup is the only one (`OneWorking`), and a cleanup exists next to a failed
  one at most (`CleanupIsLast`); every job and every cancellation under way comes from
  the one start (`JobsHaveStart`, `ScanHasStart`, `ResumesIdle`); and
  `JobsFine`, the heart of it: each live job finds the artifacts of all stages
  before it whole, holds whole data in memory, and stands behind a READY report
  where its stage comes after that. `OneWorking` is why nobody removes or
  overwrites the artifacts meanwhile, and `JobsFine` is why no handler writes
  one from an empty tree: neither would hold without the other.
- `PipelineCancelStops`: `Spec /\ []Alone => CancelStops`. From a state with the
  analysis cancelled and nobody at work, `Stopped` is invariant under `RunInv`: what is left is
  one job that waits, which will read the status first, or that has failed and
  whose failure handler cannot publish.
- `PipelineWorkspaceReclaimed`: `Spec => []WorkspaceReclaimed`, without `Alone`:
  any number of starts and resumes may overlap. `DirOwned`: while nothing was
  cancelled, killed or removed by hand, an existing directory belongs to a job
  that is alive or whose failure handler is still to queue the cleanup. Each
  handler either stays alive, hands over, or fails into `fail(job)`; only a
  cleanup ends without a successor, and it removes the directory.

### 4.2 AI gate

`GateTypeOK`, `GateActiveCounts`, `GateNoLostWakeup`, for any finite set of
callers and any limit. The invariant adds what links the program's counters
to the callers: a caller is in `waiting` exactly when it waits, and only
once (`WaitersWait`), so the caller a release wakes holds no slot; a caller
in its delay has an attempt left (`DelayedHaveAttempts`); `SlotsCounted` is
the count itself; `WakeupKept` is `NoLostWakeup`. The counting lemma
(`CountsMove`) says how a cardinality changes when one caller moves.

### 4.3 Chat

`ChatTypeOK`, `ChatSavedBeforeTold`, `ChatJobHasQuestion` and the action
property `ChatStaysSettled`, for any sets of streams, sends, keys and questions.
An answer reaches a caller on three ways, and the invariant follows each back to
the row: through the handler that publishes what it stored (`StoredBefore`),
through the channel of a stream that belongs to one request and one key
(`StreamsOwned`, `NewAreClosed`), and through polling and the memory
(`AnswersFound`). `QuestionsStored` says that a request that enqueues
has its question stored, which a death of the API between the two leaves true
because the row comes first. `AttemptsLeft` is needed for the types: a job that
is delivered again has an attempt left.

### 4.4 Versions

`VersionsTypeOK`, `VersionsAreCounted`, `CommitsOnce`, `VersionsRefusedByOthers`,
`VersionsHaveObjects`, `VersionsSettle`, `VersionsSyncComplete`, for any number
of requests, rows and commits. The inserts keep `VersionsCount` and `CommitOnce`, given that
what was read is not ahead of the table (`LatestFine`); that each refused attempt
was overtaken is `AttemptFine`, from which three refusals need three rows.
What an object in storage has to do with its row rests on the ownership of rows:
between its insert and its last write one creation owns its row
(`OwnersApart`), which is not finished yet (`OwnedAreOpen`), so no two requests
complete, fail or clean the same version; `StoredFirst` puts the object before the
status, `OpenAreOwned` and `NotYetStored` say that without trouble an open row
is somebody's and a failed one has nothing in storage.

`SyncComplete` needs to know why the first page may be enough: an import that
finds versions of commits, or a connected project, relies on another to have
begun, or to have done, the whole branch; without a token the newest page is all
any of them asks for (`Oldest`). `Covers(k, repo)` says of an import how far it is: it
read the project before there were versions, or its loop has passed only commits
that are stored, or it has succeeded and none is missing; `CommitsCovered` and
`ImportsCovered` say that where there is a version or an import at work, some
import covers the branch. In a state with every import at rest and successful
the covering one has succeeded too. `OnBranch` says what is left to a loop: the end of the
branch, so each commit passed is one step of the cover. The part about commits
holds while nothing went wrong (`Clean`) and stays when it does
(`Clean` never comes back, `CleanBefore`), and versions of commits are not
removed (`CommitsStay`).

### 4.5 Reviews

`ReviewsTypeOK`, `ReviewsShareRows`, `ReviewsAreAnswered`, `ReviewsWithinQuota`, for
any finite set of files and any number of attempts, runs and troubles. The difficulty is
reviews that `Promise.all` abandoned, and other runs. The invariant says how far they can have come:
of each run one execution only has reviews that still look for or make their row
(`EarlyInOrder`, `EarlyAreOne`), and without an overlap only the latest run has any
(`OnlyLatest`), so that "found nothing" is still true when the row is made, as far as
the own run goes, and altogether without an overlap (`NoneFound`), whence
`OneRowPerTask`. `OksAreAnswered` and `StageIsAnswered` carry
the answers of the latest run up to the hand-over, whatever former runs write. The limit is counted over tasks that have a row
or may still make one (`ClaimsWithinLimit`): the set is fixed when the execution
checks the limit, and `OneRowPerTask` turns it into a bound on rows.

### 4.6 Sessions

`AuthTypeOK`, `AuthLimitAtRest`, `AuthPresentsOwnToken`, `AuthHoldsNewest` and the
action property `AuthCutOffHolds`, for any finite sets of calls, logins and logouts. The
limit: a session over it is in the list of a request that has read it and is
about to revoke it (`EvictionsPending`), so with none of them under way there is
no surplus. The tab: a token that was issued and has not arrived belongs to one
request, has not been replaced and is in nobody's hands (`IssuedApart`); if the
tab holds a replaced token then the answer with the next one is on its way
(`RotatedIsAwaited`); and in a tab that was not reloaded and whose stream did
not refresh, one call at most refreshes, the one `refreshing` stands for
(`RefreshIsShared`). `RowsFromRequests` and `RefreshesOnce` bound the table by
the requests, which the types need.

### 4.7 Reports

`ReportsRecorded`, `ReportsNothingLost`, `ReportsProblemsKept`,
`ReportsShownFixIsServed`, for archives of any files and lengths, any issues, any
number of versions, analyses and exports, and any limits. The state
invariant `Recorded` is the small part: stored chunks are what `build` makes of the
upload's files, findings are what `deduplicate` leaves of the issues unless newer
ones await their report, and an export holds the patches of the findings it
began with until it rewrites the archive it found latest. The rest is about what the
algorithms compute for every input.

*Induction.* The library's induction theorems take an operator, which the provers
cannot instantiate. `Induct` and `InductOnSeq` state the same as facts about sets
(a set that holds 0, and with a number its successor, holds every number), and
follow from the well-foundedness of `<` on the naturals, a fact about a relation
(`LeastNat`). A property becomes a set by comprehension, and the fact is cited with it.
`FoldLeft` takes an operator as well. Its definition is expanded once for each fold of the
model (`LinesSteps`, `AddFilesSteps`, ...): there is a chain of states that begins with
the start value, moves by the operator, and ends in the fold. Two chains agree
(`ChainsAgree`), which gives each fold its two equations, for the empty sequence
and for one with an element appended (`LinesEmpty`, `LinesAppend`, ...).

*Chunks* (`NothingLost`). `Held` is what the pieces of a path spell, over the
chunks made and the files collected, in this order: a flush moves it from one to the
other (`FlushHolds`), the slices of a file that is cut spell the file when they
all fit (`Cuts`, `SlicesHold`), and chunks only grow in number (`FlushGrows`), so a list
that ends below its limit had room at every flush and cut before. `AddFilesHold` is the induction, `BuildKeeps`
the result: since paths are listed once, a path's pieces are its file's alone.

*Findings* (`ProblemsKept`). `DeduplicateKeeps`: an issue is left out for one
that has been kept, never for one that was itself left out, so that similarity need not be
transitive.

*Fixes* (`ShownFixIsServed`). What `split(/\r?\n/)` makes of two texts put together
(`LinesConcat`), that joining lines and splitting them again gives the lines
(`LinesJoined`), and that a text replaced from the beginning of a line to the end of one
leaves the lines before and behind (`LinesReplaced`). `ReplacedOnce` says that
`ReplaceFirstSubSeq` on a quotation that occurs once changes that place only. A quotation that begins within a line would
change that line, hence `BeginsLine` in `Unambiguous`; that the quotation is what the
lines of the fix are when they are joined with a line feed makes sure that it
ends where a line does.

### 4.8 Only model-checked

Liveness under fairness (`Drains`, `FailureRecorded`, `Admitted`, `CallsReturn`,
`SendsReturn`, `StreamsReturn`, `StageEnds`): fairness and ENABLED are out of the
prover's reach. Every other property of a run that passes is a theorem. That the
properties of the four violated runs fail is TLC's result alone.

## 5. Plan

1. Done: Pipeline with its promise, AI gate, sessions, chat, versions, reviews
   and reports.
2. Done: every type invariant, safety invariant, action property and refinement
   that the passing runs check is a theorem (section 4).
3. The AnalysisContext cache: chunks of an attempt that lost its files are
   reused by later analyses of the same content.
4. Scoring and comparison of reports; the archive with chat patches.

## 6. Not modelled, and why

- The larger part of the repository has no behaviour to check: the generated
  API description of the SDK, DTOs, modules and configuration, seeds, the pages
  of the two applications that show what the API returns, Helm charts and
  containers. The share of the code that the modules stand for is therefore
  small, and will stay so.
- The administration's listings and user management, a project's tags, members
  and history, the profile: row updates with checks of ownership and nothing
  that runs at once.
- Archive unpacking, file walking and the parser's classification: I/O and
  tables. Markdown, JSON and PDF exports: layout.
- Metrics, logging, progress percentages and health checks.
