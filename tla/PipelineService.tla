--------------------------- MODULE PipelineService ---------------------------
(***************************************************************************)
(* The API side: PipelineService.startPipeline, cancelPipeline and         *)
(* resumePipeline, one action per await, for each request in flight; and   *)
(* the administrator's queue operations.                                   *)
(***************************************************************************)
EXTENDS PipelineBase

CallAt(c, pc) == call[c].pc = pc

CallGoto(c, pc) == call' = [call EXCEPT ![c].pc = pc]

(* queues.addJob: the job is in Redis when the await returns.              *)
AddJob(stage) ==
  /\ FreeJobs # {}
  /\ job' = [job EXCEPT ![FreeJob] = NewJob(stage, TRUE)]

-----------------------------------------------------------------------------
(* startPipeline                                                           *)

Retryable ==
  \/ scan.pipeline \in {"PENDING", "FAILED"}
  \/ scan.status \in {"FAILED", "CANCELLED"}

StartFind(c) ==
  /\ CallAt(c, "new")
  /\ CallGoto(c, IF scan.status = "none" THEN "create"
                 ELSE IF Retryable THEN "enqueue"
                 ELSE "done")
  /\ UNCHANGED <<dbVars, files, job, deadLetters, spent>>

(* The unique index lets one of two concurrent creations through; the      *)
(* other request returns the winner's row.                                 *)
StartCreate(c) ==
  /\ CallAt(c, "create")
  /\ \/ /\ scan.status = "none"
        /\ scan' = [status |-> "QUEUED", pipeline |-> "PENDING"]
        /\ CallGoto(c, "enqueue")
     \/ /\ scan.status # "none"
        /\ CallGoto(c, "done")
        /\ UNCHANGED scan
  /\ UNCHANGED <<report, notices, files, job, deadLetters, spent>>

StartEnqueue(c) ==
  /\ CallAt(c, "enqueue")
  /\ AddJob("download")
  /\ CallGoto(c, "status")
  /\ UNCHANGED <<dbVars, files, deadLetters, spent>>

StartStatus(c) ==
  /\ CallAt(c, "status")
  /\ scan' = [scan EXCEPT !.status = "EXTRACTING"]
  /\ CallGoto(c, "running")
  /\ UNCHANGED <<report, notices, files, job, deadLetters, spent>>

StartRunning(c) ==
  /\ CallAt(c, "running")
  /\ scan' = [scan EXCEPT !.pipeline = "RUNNING"]
  /\ CallGoto(c, "done")
  /\ UNCHANGED <<report, notices, files, job, deadLetters, spent>>

startPipeline(c) ==
  \/ StartFind(c)
  \/ StartCreate(c)
  \/ StartEnqueue(c)
  \/ StartStatus(c)
  \/ StartRunning(c)

-----------------------------------------------------------------------------
(* cancelPipeline                                                          *)

CancelRead(c) ==
  /\ CallAt(c, "new")
  /\ CallGoto(c, IF scan.status \in Terminal \cup {"none"}
                 THEN "done" ELSE "remove")
  /\ UNCHANGED <<dbVars, files, job, deadLetters, spent>>

(* cancelPipelineJobs: a job is recognised by data.payload.pipelineId, so  *)
(* only those the API added; a job that is running cannot be removed.      *)
CancelRemove(c) ==
  /\ CallAt(c, "remove")
  /\ job' = [j \in Jobs |->
               IF job[j].state = "waiting" /\ job[j].envelope
               THEN NoJob ELSE job[j]]
  /\ CallGoto(c, "status")
  /\ UNCHANGED <<dbVars, files, deadLetters, spent>>

CancelStatus(c) ==
  /\ CallAt(c, "status")
  /\ scan' = [scan EXCEPT !.status = "CANCELLED"]
  /\ CallGoto(c, "final")
  /\ UNCHANGED <<report, notices, files, job, deadLetters, spent>>

CancelFinal(c) ==
  /\ CallAt(c, "final")
  /\ scan' = [scan EXCEPT !.pipeline = "CANCELLED"]
  /\ CallGoto(c, "done")
  /\ UNCHANGED <<report, notices, files, job, deadLetters, spent>>

cancelPipeline(c) ==
  \/ CancelRead(c)
  \/ CancelRemove(c)
  \/ CancelStatus(c)
  \/ CancelFinal(c)

-----------------------------------------------------------------------------
(* resumePipeline                                                          *)

(* stepForStatus, as the name of the job enqueueStep adds for that step.   *)
StepForStatus ==
  [s \in ScanStatus \ (Terminal \cup {"none"}) |->
     CASE s \in {"QUEUED", "EXTRACTING"} -> "download"
       [] s = "PARSING"     -> "parse"
       [] s = "AGGREGATING" -> "merge"
       [] s = "ANALYZING"   -> "analyze"
       [] s = "REPORTING"   -> "report"]

StatusForStep ==
  [s \in {"download", "parse", "merge", "analyze", "report"} |->
     CASE s = "download" -> "EXTRACTING"
       [] s = "parse"    -> "PARSING"
       [] s = "merge"    -> "AGGREGATING"
       [] s = "analyze"  -> "ANALYZING"
       [] s = "report"   -> "REPORTING"]

ResumeRead(c) ==
  /\ CallAt(c, "new")
  /\ \/ /\ scan.status \in DOMAIN StepForStatus
        /\ call' = [call EXCEPT ![c] = [pc |-> "status",
                                        step |-> StepForStatus[scan.status]]]
     \/ /\ scan.status \notin DOMAIN StepForStatus
        /\ CallGoto(c, "done")
  /\ UNCHANGED <<dbVars, files, job, deadLetters, spent>>

ResumeStatus(c) ==
  /\ CallAt(c, "status")
  /\ scan' = [scan EXCEPT !.status = StatusForStep[call[c].step]]
  /\ CallGoto(c, "running")
  /\ UNCHANGED <<report, notices, files, job, deadLetters, spent>>

ResumeRunning(c) ==
  /\ CallAt(c, "running")
  /\ scan' = [scan EXCEPT !.pipeline = "RUNNING"]
  /\ CallGoto(c, "enqueue")
  /\ UNCHANGED <<report, notices, files, job, deadLetters, spent>>

ResumeEnqueue(c) ==
  /\ CallAt(c, "enqueue")
  /\ AddJob(call[c].step)
  /\ CallGoto(c, "done")
  /\ UNCHANGED <<dbVars, files, deadLetters, spent>>

resumePipeline(c) ==
  \/ ResumeRead(c)
  \/ ResumeStatus(c)
  \/ ResumeRunning(c)
  \/ ResumeEnqueue(c)

-----------------------------------------------------------------------------
(* The API process dies and the request with it.                           *)
ApiCrash(c) ==
  /\ call[c].pc \notin {"new", "done"}
  /\ spent.outages < MaxOutages
  /\ spent' = [spent EXCEPT !.outages = @ + 1]
  /\ CallGoto(c, "done")
  /\ UNCHANGED <<dbVars, files, job, deadLetters>>

(* Admin queue page: retry a failed job, remove one that is not running.   *)
(* The API checks neither for the listener of the failure; that it has     *)
(* finished by then is an assumption about the administrator's pace.       *)
retryJob(j) ==
  /\ job[j].state = "failed" /\ job[j].pc = "done"
  /\ spent.admin < MaxAdmin
  /\ spent' = [spent EXCEPT !.admin = @ + 1]
  /\ job' = [job EXCEPT ![j].state = "waiting", ![j].pc = "start"]
  /\ UNCHANGED <<dbVars, files, deadLetters, call>>

removeJob(j) ==
  /\ job[j].state \in {"waiting", "failed"} /\ ~FailHandlerRunning(j)
  /\ spent.admin < MaxAdmin
  /\ spent' = [spent EXCEPT !.admin = @ + 1]
  /\ job' = [job EXCEPT ![j] = NoJob]
  /\ UNCHANGED <<dbVars, files, deadLetters, call>>
=============================================================================
