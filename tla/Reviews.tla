------------------------------- MODULE Reviews -------------------------------
(***************************************************************************)
(* The analyze stage of one scan (AnalyzeProcessor.execute): the choice of *)
(* files, the daily limit, and the reviews that Promise.all starts, over   *)
(* the rows of ai_requests and ai_responses that retries share.            *)
(*                                                                         *)
(* A run is one analyze job. A restart or a resumption queues another one  *)
(* and leaves the former job alive: it is not among those that the API     *)
(* can remove. A generation is one execution of a job. When one of its     *)
(* reviews throws, the attempt ends and the other reviews go on next to    *)
(* the retry. The limit on parallel provider calls is module AIGate.       *)
(***************************************************************************)
EXTENDS Naturals, FiniteSets, Sequences

CONSTANTS
  Project,       \* the key of the project's review
  Files,         \* the keys of the reviews of single files
  Selection,     \* the key of the choice of files
  MaxAttempts,   \* attempts of a job
  DailyLimit,    \* AI_DAILY_REQUEST_LIMIT
  MaxRuns,       \* bound: runs of the stage
  MaxTroubles,   \* bound: changes of the setting and deaths of the Worker
  Scenarios      \* what there is at first: the requests the user has made
                 \* today, aiMergeFiles, and the bounds for this behaviour

ASSUME ReviewsAssumption ==
  /\ IsFiniteSet(Files)
  /\ Project \notin Files
  /\ Selection \notin Files \cup {Project}
  /\ {MaxAttempts, MaxRuns} \subseteq Nat \ {0}
  /\ {DailyLimit, MaxTroubles} \subseteq Nat
  /\ Scenarios \subseteq [others : 0 .. DailyLimit, merge : BOOLEAN,
                          runs : 1 .. MaxRuns, troubles : 0 .. MaxTroubles]

VARIABLES
  run,           \* the latest run
  job,           \* the analyze job of each run and the locals of execute
  review,        \* the reviews of each generation
  requests,      \* rows of ai_requests, in the order of their creation
  others,        \* rows of the user's other analyses today
  mergeFiles,    \* the runtime setting aiMergeFiles
  scan,          \* scans.status, and whether scans.pipelineStatus is FAILED
  bounds,        \* how many runs and troubles there may be
  overlapped     \* history: a run was started next to one still at work

vars == <<run, job, review, requests, others, mergeFiles, scan, bounds, overlapped>>

Keys == Files \cup {Project, Selection}

Runs == 1 .. MaxRuns

Generations == Runs \X (0 .. MaxAttempts - 1)

(* One review with aiMergeFiles, else one more per file.                   *)
Tasks(merge) == IF merge THEN {Project} ELSE Files \cup {Project}

JobRecord ==
  [pc : {"none", "queued", "selecting", "limit", "reviewing", "check", "save",
         "done", "exhausted", "failed"},
   attempts : 0 .. MaxAttempts, merge : BOOLEAN]

(* A job that is not queued and not executed.                              *)
Idle == {"none", "done", "exhausted", "failed"}

(* gone: the row it used has been deleted.                                 *)
ReviewRecord ==
  [pc : {"none", "assert", "find", "open", "call", "returned", "complete",
         "respond", "catch", "ok", "failed", "lost"},
   row : Nat, gone : BOOLEAN]

(* run: which run made the row (not a column of the table).                *)
RequestRow ==
  [key : Keys, run : Runs, status : {"SENT", "COMPLETED", "FAILED"},
   answered : BOOLEAN]

(* ACTIVE stands for every status that is not final.                       *)
ScanRecord == [status : {"ACTIVE", "CANCELLED", "FAILED"}, failed : BOOLEAN]

NoReview == [pc |-> "none", row |-> 0, gone |-> FALSE]

Rows == 1 .. Len(requests)

RowsOf(key) == {u \in Rows : requests[u].key = key}

(* findFirst, the newest row first; 0 stands for null.                     *)
LatestRow(key) ==
  IF RowsOf(key) = {} THEN 0
  ELSE CHOOSE u \in RowsOf(key) : \A v \in RowsOf(key) : v <= u

NewRow(g, k) ==
  [key |-> k, run |-> g[1], status |-> "SENT", answered |-> FALSE]

Init ==
  /\ run = 1
  /\ job = [r \in Runs |-> [pc |-> IF r = 1 THEN "queued" ELSE "none",
                            attempts |-> 0, merge |-> TRUE]]
  /\ review = [g \in Generations |-> [k \in Keys |-> NoReview]]
  /\ requests = <<>>
  /\ \E s \in Scenarios :
       /\ others = s.others
       /\ mergeFiles = s.merge
       /\ bounds = [runs |-> s.runs, troubles |-> s.troubles]
  /\ scan = [status |-> "ACTIVE", failed |-> FALSE]
  /\ overlapped = FALSE

-----------------------------------------------------------------------------
(* The stage.                                                              *)

Cancelled == scan.status = "CANCELLED"

ThrownOnceMore(j) ==
  IF j.attempts < MaxAttempts
  THEN [j EXCEPT !.pc = "queued", !.attempts = @ + 1]
  ELSE [j EXCEPT !.pc = "exhausted"]

ThrownUncounted(j) == [j EXCEPT !.pc = "queued"]

(* An error ends the attempt; BullMQ retries it or the job has failed.     *)
Thrown(j) ==
  IF j.attempts + 1 < MaxAttempts
  THEN [j EXCEPT !.pc = "queued", !.attempts = @ + 1]
  ELSE [j EXCEPT !.pc = "exhausted", !.attempts = MaxAttempts]

JobBecomes(r, j) == job' = [job EXCEPT ![r] = j]

Throw(r) == JobBecomes(r, Thrown(job[r]))

JobGoto(r, pc) == JobBecomes(r, [job[r] EXCEPT !.pc = pc])

Execution(r) == <<r, job[r].attempts>>

ReviewAt(g, k, pc) == review[g][k].pc = pc

Ended(g, k) == review[g][k].pc \in {"ok", "failed", "lost"}

(* A review that has yet to find or make its row.                          *)
Early(g, k) == review[g][k].pc \in {"assert", "find", "open"}

(* The stage goes on, without the reviews of the run that have ended.      *)
Settle(r) ==
  review' = [g \in Generations |->
               [k \in Keys |-> IF g[1] = r /\ Ended(g, k) THEN NoReview
                               ELSE review[g][k]]]

(* A job is retried after a second at least: the reviews that its former   *)
(* attempts left behind have finished their queries by then and wait for   *)
(* the provider, or have ended.                                            *)
LeftBehindAreCalling(r) ==
  \A g \in Generations, k \in Keys : g[1] = r => ~Early(g, k)

(* execute up to the choice of files, whose request is a review of its own.*)
Begin(r) ==
  /\ job[r].pc = "queued"
  /\ LeftBehindAreCalling(r)
  /\ \/ /\ Cancelled
        /\ Throw(r)
        /\ UNCHANGED <<review, scan>>
     \/ /\ ~Cancelled
        /\ JobBecomes(r, [job[r] EXCEPT !.merge = mergeFiles,
                            !.pc = IF mergeFiles THEN "selecting" ELSE "limit"])
        /\ review' = IF mergeFiles
                     THEN [review EXCEPT ![Execution(r)][Selection] =
                             [NoReview EXCEPT !.pc = "find"]]
                     ELSE review
        /\ scan' = [scan EXCEPT !.status = "ACTIVE"]
  /\ UNCHANGED <<run, requests, others, mergeFiles, bounds, overlapped>>

(* Without an answer the first files are taken; when the row is gone, its  *)
(* update in the catch block throws.                                       *)
Selected(r) ==
  /\ job[r].pc = "selecting"
  /\ Ended(Execution(r), Selection)
  /\ IF ReviewAt(Execution(r), Selection, "lost") THEN Throw(r)
     ELSE JobGoto(r, "limit")
  /\ Settle(r)
  /\ UNCHANGED <<run, requests, others, mergeFiles, scan, bounds, overlapped>>

Wanted(r) == Cardinality(Tasks(job[r].merge)) + (IF job[r].merge THEN 1 ELSE 0)

Started(r) ==
  [review EXCEPT ![Execution(r)] =
     [k \in Keys |-> IF k \in Tasks(job[r].merge)
                     THEN [NoReview EXCEPT !.pc = "assert"] ELSE @[k]]]

StartReviewsWithinLimit(r) ==
  /\ job[r].pc = "limit"
  /\ IF others + Len(requests) > DailyLimit
     THEN Throw(r) /\ UNCHANGED review
     ELSE JobGoto(r, "reviewing") /\ review' = Started(r)
  /\ UNCHANGED <<run, requests, others, mergeFiles, scan, bounds, overlapped>>

(* The daily limit counts the rows of today, those of former attempts too. *)
StartReviews(r) ==
  /\ job[r].pc = "limit"
  /\ IF others + Len(requests) + Wanted(r) > DailyLimit
     THEN Throw(r) /\ UNCHANGED review
     ELSE JobGoto(r, "reviewing") /\ review' = Started(r)
  /\ UNCHANGED <<run, requests, others, mergeFiles, scan, bounds, overlapped>>

(* Promise.all: all results, or the first error.                           *)
Reviewed(r) ==
  /\ job[r].pc = "reviewing"
  /\ \/ /\ \A k \in Tasks(job[r].merge) : ReviewAt(Execution(r), k, "ok")
        /\ JobGoto(r, "check")
     \/ /\ \E k \in Tasks(job[r].merge) : ReviewAt(Execution(r), k, "failed")
        /\ Throw(r)
  /\ Settle(r)
  /\ UNCHANGED <<run, requests, others, mergeFiles, scan, bounds, overlapped>>

Check(r) ==
  /\ job[r].pc = "check"
  /\ IF Cancelled THEN Throw(r) ELSE JobGoto(r, "save")
  /\ UNCHANGED <<run, review, requests, others, mergeFiles, scan, bounds, overlapped>>

(* ai-results.json, then the report job.                                   *)
Save(r) ==
  /\ job[r].pc = "save"
  /\ JobGoto(r, "done")
  /\ UNCHANGED <<run, review, requests, others, mergeFiles, scan, bounds, overlapped>>

(* The failure handler marks the scan, whatever its status is by then.     *)
fail(r) ==
  /\ job[r].pc = "exhausted"
  /\ JobGoto(r, "failed")
  /\ scan' = [status |-> "FAILED", failed |-> TRUE]
  /\ UNCHANGED <<run, review, requests, others, mergeFiles, bounds, overlapped>>

JobStep(r) ==
  \/ Begin(r)
  \/ Selected(r)
  \/ StartReviews(r)
  \/ Reviewed(r)
  \/ Check(r)
  \/ Save(r)
  \/ fail(r)

-----------------------------------------------------------------------------
(* One review, of a task or of the choice of files.                        *)

ReviewGoto(g, k, pc) == review' = [review EXCEPT ![g][k].pc = pc]

(* The result of a review that nobody waits for any more is dropped.       *)
Awaited(g) == job[g[1]].pc \in {"selecting", "reviewing"} /\ g = Execution(g[1])

ReviewEnds(g, k, pc) ==
  review' = [review EXCEPT ![g][k] =
               IF Awaited(g) THEN [NoReview EXCEPT !.pc = pc] ELSE NoReview]

AssertActive(g, k) ==
  /\ ReviewAt(g, k, "assert")
  /\ IF Cancelled THEN ReviewEnds(g, k, "failed") ELSE ReviewGoto(g, k, "find")
  /\ UNCHANGED requests

FindCompleted(g, k) ==
  /\ ReviewAt(g, k, "find")
  /\ LET u == LatestRow(k)
     IN  IF u # 0 /\ requests[u].status = "COMPLETED"
         THEN ReviewEnds(g, k, "ok")
         ELSE review' = [review EXCEPT ![g][k] = [NoReview EXCEPT !.pc = "open", !.row = u]]
  /\ UNCHANGED requests

(* A completed request with its response is used again; the choice of      *)
(* files without a response falls back to the first files.                 *)
Find(g, k) ==
  /\ ReviewAt(g, k, "find")
  /\ LET u == LatestRow(k)
     IN  IF /\ u # 0
            /\ requests[u].status = "COMPLETED"
            /\ requests[u].answered \/ k = Selection
         THEN ReviewEnds(g, k, "ok")
         ELSE review' = [review EXCEPT ![g][k] = [NoReview EXCEPT !.pc = "open", !.row = u]]
  /\ UNCHANGED requests

OpenAnew(g, k) ==
  /\ ReviewAt(g, k, "open")
  /\ requests' = Append(requests, NewRow(g, k))
  /\ review' = [review EXCEPT ![g][k] = [NoReview EXCEPT !.pc = "call",
                                          !.row = Len(requests) + 1]]

(* The row that was found is sent again, or there is a new one. When it is *)
(* gone the update throws, inside the try block of the choice of files and *)
(* outside that of a task.                                                 *)
Open(g, k) ==
  /\ ReviewAt(g, k, "open")
  /\ LET u == review[g][k].row
     IN  \/ /\ review[g][k].gone
            /\ IF k = Selection THEN ReviewGoto(g, k, "catch")
               ELSE ReviewEnds(g, k, "failed")
            /\ UNCHANGED requests
         \/ /\ u = 0 /\ ~review[g][k].gone
            /\ requests' = Append(requests, NewRow(g, k))
            /\ review' = [review EXCEPT ![g][k] = [NoReview EXCEPT !.pc = "call",
                                                   !.row = Len(requests) + 1]]
         \/ /\ u # 0
            /\ requests' = [requests EXCEPT ![u].status = "SENT"]
            /\ ReviewGoto(g, k, "call")

(* ai.analyze or ai.selectFiles: an answer that can be parsed, or an error.*)
Call(g, k) ==
  /\ ReviewAt(g, k, "call")
  /\ \E pc \in {IF k = Selection THEN "complete" ELSE "returned", "catch"} :
       ReviewGoto(g, k, pc)
  /\ UNCHANGED requests

Returned(g, k) ==
  /\ ReviewAt(g, k, "returned")
  /\ ReviewGoto(g, k, IF Cancelled THEN "catch" ELSE "complete")
  /\ UNCHANGED requests

(* The update of a row that has been deleted throws.                       *)
Complete(g, k) ==
  /\ ReviewAt(g, k, "complete")
  /\ LET u == review[g][k].row
     IN  \/ /\ u # 0
            /\ requests' = [requests EXCEPT ![u].status = "COMPLETED"]
            /\ ReviewGoto(g, k, "respond")
         \/ u = 0 /\ ReviewGoto(g, k, "catch") /\ UNCHANGED requests

Respond(g, k) ==
  /\ ReviewAt(g, k, "respond")
  /\ LET u == review[g][k].row
     IN  \/ /\ u # 0
            /\ requests' = [requests EXCEPT ![u].answered = TRUE]
            /\ ReviewEnds(g, k, "ok")
         \/ u = 0 /\ ReviewGoto(g, k, "catch") /\ UNCHANGED requests

(* catch marks the row as failed, whatever another generation made of it.  *)
(* Without the row it throws: for the choice of files, out of execute.     *)
Catch(g, k) ==
  /\ ReviewAt(g, k, "catch")
  /\ LET u == review[g][k].row
     IN  \/ /\ u # 0
            /\ requests' = [requests EXCEPT ![u].status = "FAILED"]
            /\ ReviewEnds(g, k, "failed")
         \/ /\ u = 0
            /\ ReviewEnds(g, k, IF k = Selection THEN "lost" ELSE "failed")
            /\ UNCHANGED requests

ReviewStep(g, k) ==
  /\ \/ AssertActive(g, k)
     \/ Find(g, k)
     \/ Open(g, k)
     \/ Call(g, k)
     \/ Returned(g, k)
     \/ Complete(g, k)
     \/ Respond(g, k)
     \/ Catch(g, k)
  /\ UNCHANGED <<run, job, others, mergeFiles, scan, bounds, overlapped>>

-----------------------------------------------------------------------------
(* The API and the Worker around the stage.                                *)

Trouble ==
  /\ bounds.troubles > 0
  /\ bounds' = [bounds EXCEPT !.troubles = @ - 1]

AtWork(r) ==
  \/ job[r].pc \notin Idle
  \/ \E g \in Generations, k \in Keys : g[1] = r /\ Early(g, k)

(* Another analyze job; those of former runs are still there.              *)
AnotherRun ==
  /\ run < bounds.runs
  /\ run' = run + 1
  /\ JobGoto(run + 1, "queued")
  /\ scan' = [status |-> "ACTIVE", failed |-> FALSE]
  /\ overlapped' = (overlapped \/ \E r \in 1 .. run : AtWork(r))
  /\ UNCHANGED <<others, mergeFiles, bounds>>

(* startPipeline on an analysis that was cancelled or failed, here or in a *)
(* later stage: resetReviewRequests deletes the rows and their responses,  *)
(* and the stages run again.                                               *)
Restart ==
  /\ Cancelled \/ scan.failed \/ scan.status = "FAILED" \/ job[run].pc = "done"
  /\ AnotherRun
  /\ requests' = <<>>
  /\ review' = [g \in Generations |-> [k \in Keys |->
                  [review[g][k] EXCEPT !.row = 0, !.gone = @ \/ review[g][k].row # 0]]]

(* resumePipeline while the status names this stage or an earlier one,     *)
(* after the hand-over too until report has written its own: the rows stay.*)
Resume ==
  /\ scan.status = "ACTIVE"
  /\ AnotherRun
  /\ UNCHANGED <<review, requests>>

(* cancelPipeline, as this stage sees it: a final status is kept.          *)
Cancel ==
  /\ scan.status = "ACTIVE"
  /\ scan' = [status |-> "CANCELLED", failed |-> FALSE]
  /\ UNCHANGED <<run, job, review, requests, others, mergeFiles, bounds, overlapped>>

(* An administrator changes aiMergeFiles; the next execution reads it.     *)
ChangeSetting ==
  /\ Trouble
  /\ mergeFiles' = ~mergeFiles
  /\ UNCHANGED <<run, job, review, requests, others, scan, overlapped>>

(* The Worker dies with its reviews; the stalled jobs are delivered again. *)
Crash ==
  /\ Trouble
  /\ review' = [g \in Generations |-> [k \in Keys |-> NoReview]]
  /\ job' = [r \in Runs |->
               [job[r] EXCEPT !.pc = IF @ \in Idle THEN @ ELSE "queued"]]
  /\ UNCHANGED <<run, requests, others, mergeFiles, scan, overlapped>>

-----------------------------------------------------------------------------
Next ==
  \/ \E r \in Runs : JobStep(r)
  \/ \E g \in Generations, k \in Keys : ReviewStep(g, k)
  \/ Restart
  \/ Resume
  \/ Cancel
  \/ ChangeSetting
  \/ Crash

Spec == Init /\ [][Next]_vars

(* The queue delivers the jobs, every query and every provider call comes  *)
(* back (AI_TIMEOUT_MS, bounded retries), the event loop runs every        *)
(* continuation.                                                           *)
Fairness ==
  /\ \A r \in Runs : WF_vars(JobStep(r))
  /\ \A g \in Generations, k \in Keys : WF_vars(ReviewStep(g, k))

FairSpec == Spec /\ Fairness

-----------------------------------------------------------------------------
(* Types; the attempts stay within the configured ones.                    *)
TypeOK ==
  /\ run \in Runs
  /\ job \in [Runs -> JobRecord]
  /\ \A r \in Runs : job[r].pc \notin {"exhausted", "failed"}
                       => job[r].attempts < MaxAttempts
  /\ review \in [Generations -> [Keys -> ReviewRecord]]
  /\ requests \in Seq(RequestRow)
  /\ others \in 0 .. DailyLimit
  /\ mergeFiles \in BOOLEAN
  /\ scan \in ScanRecord
  /\ bounds \in [runs : 1 .. MaxRuns, troubles : 0 .. MaxTroubles]
  /\ overlapped \in BOOLEAN
  /\ \A g \in Generations, k \in Keys : review[g][k].row \in {0} \cup Rows

(* A run makes one row per task, whatever happens to it: a retry uses the  *)
(* row again, next to reviews that were left behind, after a crash, and    *)
(* while other runs make and delete rows. A task is counted once by all    *)
(* the runs together unless a run was started next to one still at work.   *)
OneRowPerTask ==
  \A k \in Keys : \A u, v \in RowsOf(k) :
    (requests[u].run = requests[v].run \/ ~overlapped) => u = v

(* When the latest run hands over to report there is a stored answer for   *)
(* each of its tasks, though a crash or an error may fall between the two  *)
(* writes of a former attempt, and though reviews of other attempts and    *)
(* runs may still write.                                                   *)
SavedHasAnswers ==
  job[run].pc = "done" =>
    \A k \in Tasks(job[run].merge) : \E u \in RowsOf(k) : requests[u].answered

(* The rows of one analysis, over all its attempts, exceed the daily limit *)
(* by at most the choice of files, whose request precedes the check,       *)
(* unless two runs were at work at once.                                   *)
WithinQuota == ~overlapped => others + Len(requests) <= DailyLimit + 1

(* Every run comes to an end, and so does every review it left behind.     *)
StageEnds ==
  <>[](/\ \A r \in Runs : job[r].pc \in {"none", "done", "failed"}
       /\ \A g \in Generations, k \in Keys :
            review[g][k].pc \in {"none", "ok", "failed", "lost"})
=============================================================================
