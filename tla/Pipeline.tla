------------------------------- MODULE Pipeline -------------------------------
(***************************************************************************)
(* The analysis pipeline: requests served by the API and jobs run by the   *)
(* Worker, interleaved at every await.                                     *)
(***************************************************************************)
EXTENDS PipelineService, PipelineWorker

Requests ==
  \/ \E c \in Starts : startPipeline(c)
  \/ \E c \in Cancels : cancelPipeline(c)
  \/ \E c \in Resumes : resumePipeline(c)

WorkerStep(j) == Processor(j) \/ fail(j)

Administrator == \E j \in Jobs : retryJob(j) \/ removeJob(j)

Environment ==
  \/ \E c \in Calls : ApiCrash(c)
  \/ \E j \in Jobs : \/ Fault(j)
                     \/ WorkerCrash(j)
                     \/ WriteRefused(j)
                     \/ ListenerCrash(j)

Next ==
  \/ Requests
  \/ \E j \in Jobs : WorkerStep(j)
  \/ Administrator
  \/ Environment

Spec == Init /\ [][Next]_vars

(* BullMQ hands every waiting job to a worker, a handler that has begun    *)
(* goes on, and so does a request the API has accepted.  Nobody has to     *)
(* send a request, and nothing has to fail.                                *)
Fairness ==
  /\ \A j \in Jobs : WF_vars(WorkerStep(j))
  /\ \A c \in Starts : WF_vars(call[c].pc # "new" /\ startPipeline(c))
  /\ \A c \in Cancels : WF_vars(call[c].pc # "new" /\ cancelPipeline(c))
  /\ \A c \in Resumes : WF_vars(call[c].pc # "new" /\ resumePipeline(c))

FairSpec == Spec /\ Fairness

-----------------------------------------------------------------------------
(* What a client sees of all this, as PipelinePromise states it.           *)

ShownStatus ==
  CASE scan.status = "none"      -> "nothing"
    [] scan.status = "COMPLETED" -> "completed"
    [] scan.status = "FAILED"    -> "failed"
    [] scan.status = "CANCELLED" -> "cancelled"
    [] OTHER                     -> "working"

Promise == INSTANCE PipelinePromise
             WITH shown  <- ShownStatus,
                  stored <- report.status,
                  told   <- notices["ready"] > 0

(* The queues, workers and requests together keep the promise: every step  *)
(* is one of its steps or invisible to the client.  In particular a scan   *)
(* completes, and its user is told, only once its report has a row, READY  *)
(* or, since the failure of its job marks a stored report too, FAILED.     *)
KeepsPromise == Promise!Spec

-----------------------------------------------------------------------------
(* Types.  Every variable keeps its type: in particular, no job is         *)
(* attempted more often than it is configured to be.                       *)
TypeOK ==
  /\ scan \in [status : ScanStatus, pipeline : PipelineStatus]
  /\ report \in [status : {"none", "READY", "FAILED"}, content : Content]
  /\ notices \in [Message -> Nat]
  /\ files \in [Artifact -> Content]
  /\ job \in [Jobs -> JobRecord]
  /\ deadLetters \subseteq Stage
  /\ call \in [Calls -> [pc : CallPoint,
                         step : {"download", "parse", "merge", "analyze",
                                 "report"}]]
  /\ spent \in [faults : 0..MaxFaults, outages : 0..MaxOutages,
                admin : 0..MaxAdmin]

(* A scan shown as completed, or announced as ready to its user, has a     *)
(* Report row, whatever restarts, crashes and cancellations came between   *)
(* the report processor and the notify processor.                          *)
CompletedHasReport ==
  scan.status = "COMPLETED" \/ notices["ready"] > 0 => report.status # "none"

(* A report marked READY was made from the whole upload: no retry, failure *)
(* or cancellation lets analyze or report read files another step has      *)
(* already deleted or not yet written.                                     *)
ReportCoversUpload == report.status = "READY" => report.content = "full"

(* One accepted request is one pipeline: at no time do two of its stages   *)
(* wait or run, so two handlers never share the working directory.         *)
OneRun ==
  Cardinality({j \in Jobs : Live(j) /\ job[j].name # "cleanup"}) <= 1

(* However often notify is retried, the user is told once.                 *)
OneReadyNotice == notices["ready"] <= 1

(* The analysis is cancelled, and no handler or request is under way that  *)
(* read the status earlier.                                                *)
CancelledAtRest ==
  /\ scan.status = "CANCELLED"
  /\ report.status # "READY"
  /\ \A j \in Jobs : job[j].state # "active"
  /\ \A c \in Starts \cup Resumes : call[c].pc = "done"

(* A cancellation that found no handler running is final in its effect: no *)
(* queued job, retry or failure handler lets a report be published later.  *)
CancelStops == [](CancelledAtRest => [](report.status # "READY"))

(* Nothing is left to do: no request in flight and no job that can run.    *)
Quiet ==
  /\ \A c \in Calls : call[c].pc \in {"new", "done"}
  /\ \A j \in Jobs : ~Live(j) /\ ~FailHandlerRunning(j)

(* Nobody cancelled, removed or retried a job by hand, and no process died.*)
Undisturbed ==
  /\ spent.outages = 0 /\ spent.admin = 0
  /\ \A c \in Cancels : call[c].pc = "new"

(* When nothing runs any more the working directory is gone: every way an  *)
(* undisturbed run can end, success or any stage's failure, queues its     *)
(* cleanup, and a handler of an overlapping run that makes the directory   *)
(* again cleans up.                                                        *)
WorkspaceReclaimed == Quiet /\ Undisturbed => files["dir"] = "absent"

(* Every pipeline comes to an end: no stage is retried for ever.           *)
Drains == <>[]Quiet

(* A stage whose attempts are exhausted ends up in the dead-letter queue   *)
(* (docs/architecture/worker.md: exhausted failures are recorded as        *)
(* failed/dead-letter).                                                    *)
FailureRecorded ==
  \A s \in Stage \ {"cleanup"} :
    (\E j \in Jobs : job[j].state = "failed" /\ job[j].name = s)
      ~> (s \in deadLetters)

(* Cancellation is looked at before a terminal transition (worker.md), and *)
(* nothing is published for a cancelled pipeline (report.processor.ts): a  *)
(* cancelled scan is not turned into a completed one.                      *)
CancelHolds ==
  [][scan.status = "CANCELLED" => scan'.status # "COMPLETED"]_vars
=============================================================================
