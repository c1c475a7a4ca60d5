--------------------------- MODULE PipelineWorker ---------------------------
(***************************************************************************)
(* The Worker side: one operator per processor, with one disjunct per      *)
(* await that touches shared state, and the failed listener                *)
(* PipelineStateService.fail.  Progress percentages, timestamps, error     *)
(* texts and log lines are left out.                                       *)
(***************************************************************************)
EXTENDS PipelineBase

(* The job each processor queues when it is done.                          *)
NextStage ==
  [s \in Stage \ {"cleanup"} |->
     CASE s = "download" -> "extract"
       [] s = "extract"  -> "parse"
       [] s = "parse"    -> "merge"
       [] s = "merge"    -> "analyze"
       [] s = "analyze"  -> "report"
       [] s = "report"   -> "notify"
       [] s = "notify"   -> "cleanup"]

Successor(j) == NewJob(NextStage[job[j].name], FALSE)

(* The worker dies between enqueueJob(next) and the job's completion: the  *)
(* successor is queued, and BullMQ finds the job stalled and delivers it   *)
(* again.                                                                  *)
HandoffDies(j) ==
  /\ FreeJobs # {}
  /\ job' = [job EXCEPT ![j].state = "waiting", ![j].pc = "start",
                        ![j].data = "absent", ![FreeJob] = Successor(j)]

(* enqueueJob(next), and the job completes: nothing reads a completed job, *)
(* so its slot is that of its successor.                                   *)
Handoff(j) == job' = [job EXCEPT ![j] = Successor(j)]

(* Mutant of Active: the cancellation is not looked up.                    *)
ActiveAlways == TRUE

(* assertPipelineActive: the status is read here and used at the next step.*)
Active == scan.status # "CANCELLED"

AssertActive(j, next) == IF Active THEN Goto(j, next) ELSE Throw(j)

(* workspace.create makes the directories when they are missing.           *)
WithDir == [files EXCEPT !["dir"] = "full"]

TakeAndAssert(j, stage, next) ==
  /\ Takes(j, stage)
  /\ IF Active THEN Begin(j, next) ELSE Throw(j)
  /\ files' = IF Active THEN WithDir ELSE files
  /\ UNCHANGED dbVars

(* A later assert of the same handler.                                     *)
Reassert(j, stage, next) ==
  /\ At(j, stage, "reassert")
  /\ AssertActive(j, next)
  /\ UNCHANGED <<dbVars, files>>

(* scan.update: the stage's own status, whatever the row says by now.      *)
MarkScan(j, status, next) ==
  /\ scan' = [scan EXCEPT !.status = status]
  /\ Goto(j, next)
  /\ UNCHANGED <<report, notices>>

(* Artifacts are written below the directory, which writing re-creates.    *)
Save(artifact, content) ==
  files' = [WithDir EXCEPT ![artifact] = content]

Present(artifacts) == \A a \in artifacts : files[a] # "absent"

-----------------------------------------------------------------------------
Download(j) ==
  \/ TakeAndAssert(j, "download", "mark")
  \/ /\ At(j, "download", "mark")
     /\ MarkScan(j, "EXTRACTING", "fetch")
     /\ UNCHANGED files
  \/ /\ At(j, "download", "fetch")
     /\ Save("input", "full")
     /\ Goto(j, "reassert")
     /\ UNCHANGED dbVars
  \/ Reassert(j, "download", "save")
  \/ /\ At(j, "download", "save")
     /\ Save("download.json", "full")
     /\ Goto(j, "handoff")
     /\ UNCHANGED dbVars
  \/ /\ At(j, "download", "handoff")
     /\ Handoff(j)
     /\ UNCHANGED <<dbVars, files>>

(* Mutant of Extract: the archive is not unpacked before the next stage.   *)
ExtractUnawaited(j) ==
  \/ TakeAndAssert(j, "extract", "mark")
  \/ /\ At(j, "extract", "mark")
     /\ Save("extract.json", "full")
     /\ MarkScan(j, "PARSING", "handoff")
  \/ /\ At(j, "extract", "handoff")
     /\ Handoff(j)
     /\ UNCHANGED <<dbVars, files>>

Extract(j) ==
  \/ TakeAndAssert(j, "extract", "unpack")
  \/ /\ At(j, "extract", "unpack")
     /\ IF Present({"input"})
        THEN Save("extracted", "full") /\ Goto(j, "reassert")
        ELSE Throw(j) /\ UNCHANGED files
     /\ UNCHANGED dbVars
  \/ Reassert(j, "extract", "mark")
  \/ /\ At(j, "extract", "mark")
     /\ Save("extract.json", "full")
     /\ MarkScan(j, "PARSING", "handoff")
  \/ /\ At(j, "extract", "handoff")
     /\ Handoff(j)
     /\ UNCHANGED <<dbVars, files>>

(* parser.parse walks the directory: a tree without files is no error.     *)
Parse(j) ==
  \/ TakeAndAssert(j, "parse", "parse")
  \/ /\ At(j, "parse", "parse")
     /\ Save("parse.json", IF Present({"extracted"}) THEN "full" ELSE "empty")
     /\ Goto(j, "reassert")
     /\ UNCHANGED dbVars
  \/ Reassert(j, "parse", "mark")
  \/ /\ At(j, "parse", "mark")
     /\ MarkScan(j, "AGGREGATING", "handoff")
     /\ UNCHANGED files
  \/ /\ At(j, "parse", "handoff")
     /\ Handoff(j)
     /\ UNCHANGED <<dbVars, files>>

Merge(j) ==
  \/ TakeAndAssert(j, "merge", "merge")
  \/ /\ At(j, "merge", "merge")
     /\ IF Present({"download.json", "extract.json", "parse.json"})
        THEN /\ Save("context.json", files["parse.json"])
             /\ Goto(j, "reassert")
        ELSE Throw(j) /\ UNCHANGED files
     /\ UNCHANGED dbVars
  \/ Reassert(j, "merge", "mark")
  \/ /\ At(j, "merge", "mark")
     /\ MarkScan(j, "ANALYZING", "handoff")
     /\ UNCHANGED files
  \/ /\ At(j, "merge", "handoff")
     /\ Handoff(j)
     /\ UNCHANGED <<dbVars, files>>

(* The context is read before the assert.  loadFiles skips a file that is  *)
(* gone, so what the context lists and what is reviewed may differ.  The   *)
(* AIRequest rows and the cache of chunks (AnalysisContext) are left out.  *)
Analyze(j) ==
  \/ /\ Takes(j, "analyze")
     /\ files' = WithDir
     /\ IF Present({"context.json"}) /\ Active
        THEN job' = [job EXCEPT ![j].state = "active", ![j].pc = "mark",
                                ![j].data = files["context.json"]]
        ELSE Throw(j)
     /\ UNCHANGED dbVars
  \/ /\ At(j, "analyze", "mark")
     /\ MarkScan(j, "ANALYZING", "load")
     /\ UNCHANGED files
  \/ /\ At(j, "analyze", "load")
     /\ job' = [job EXCEPT ![j].pc = "review",
                           ![j].data = IF @ = "full" /\ Present({"extracted"})
                                       THEN "full" ELSE "empty"]
     /\ UNCHANGED <<dbVars, files>>
  \/ /\ At(j, "analyze", "review")
     /\ AssertActive(j, "save")
     /\ UNCHANGED <<dbVars, files>>
  \/ /\ At(j, "analyze", "save")
     /\ Save("ai-results.json", job[j].data)
     /\ Goto(j, "handoff")
     /\ UNCHANGED dbVars
  \/ /\ At(j, "analyze", "handoff")
     /\ Handoff(j)
     /\ UNCHANGED <<dbVars, files>>

(* Mutant of Report: the notification is queued before the report is       *)
(* stored.                                                                 *)
ReportNotifiesFirst(j) ==
  \/ TakeAndAssert(j, "report", "handoff")
  \/ /\ At(j, "report", "handoff")
     /\ Handoff(j)
     /\ UNCHANGED <<dbVars, files>>

(* The transaction reads the status and then writes the report; at READ    *)
(* COMMITTED a cancellation may commit between the two.                    *)
Report(j) ==
  \/ /\ Takes(j, "report")
     /\ files' = IF Active THEN WithDir ELSE files
     /\ IF Present({"ai-results.json"}) /\ Active
        THEN job' = [job EXCEPT ![j].state = "active", ![j].pc = "reassert",
                                ![j].data = files["ai-results.json"]]
        ELSE Throw(j)
     /\ UNCHANGED dbVars
  \/ Reassert(j, "report", "mark")
  \/ /\ At(j, "report", "mark")
     /\ files' = WithDir
     /\ MarkScan(j, "REPORTING", "txRead")
  \/ /\ At(j, "report", "txRead")
     /\ AssertActive(j, "txWrite")
     /\ UNCHANGED <<dbVars, files>>
  \/ /\ At(j, "report", "txWrite")
     /\ report' = [status |-> "READY", content |-> job[j].data]
     /\ Goto(j, "lastCheck")
     /\ UNCHANGED <<scan, notices, files>>
  \/ /\ At(j, "report", "lastCheck")
     /\ AssertActive(j, "handoff")
     /\ UNCHANGED <<dbVars, files>>
  \/ /\ At(j, "report", "handoff")
     /\ Handoff(j)
     /\ UNCHANGED <<dbVars, files>>

CreateNotice(j, message, next) ==
  /\ notices' = [notices EXCEPT ![message] = @ + 1]
  /\ Goto(j, next)
  /\ UNCHANGED <<scan, report>>

(* Mutant of Notify: a retried attempt does not look for the notice of an  *)
(* earlier one.                                                            *)
NotifyAgain(j) ==
  \/ /\ Takes(j, "notify")
     /\ scan' = [status |-> "COMPLETED", pipeline |-> "COMPLETED"]
     /\ Begin(j, "create")
     /\ UNCHANGED <<report, notices, files>>
  \/ /\ At(j, "notify", "create")
     /\ CreateNotice(j, "ready", "handoff")
     /\ UNCHANGED files
  \/ /\ At(j, "notify", "handoff")
     /\ Handoff(j)
     /\ UNCHANGED <<dbVars, files>>

(* notify completes the scan without asking whether it was cancelled.      *)
Notify(j) ==
  \/ /\ Takes(j, "notify")
     /\ scan' = [status |-> "COMPLETED", pipeline |-> "COMPLETED"]
     /\ Begin(j, "find")
     /\ UNCHANGED <<report, notices, files>>
  \/ /\ At(j, "notify", "find")
     /\ Goto(j, IF notices["ready"] > 0 THEN "handoff" ELSE "create")
     /\ UNCHANGED <<dbVars, files>>
  \/ /\ At(j, "notify", "create")
     /\ CreateNotice(j, "ready", "handoff")
     /\ UNCHANGED files
  \/ /\ At(j, "notify", "handoff")
     /\ Handoff(j)
     /\ UNCHANGED <<dbVars, files>>

Cleanup(j) ==
  /\ Takes(j, "cleanup")
  /\ files' = [a \in Artifact |-> "absent"]
  /\ job' = [job EXCEPT ![j] = NoJob]
  /\ UNCHANGED dbVars

Processor(j) ==
  /\ \/ Download(j)
     \/ Extract(j)
     \/ Parse(j)
     \/ Merge(j)
     \/ Analyze(j)
     \/ Report(j)
     \/ Notify(j)
     \/ Cleanup(j)
  /\ UNCHANGED <<deadLetters, call, spent>>

-----------------------------------------------------------------------------
(* PipelineStateService.fail, called and not awaited when a job has failed *)
(* for good.  None of its writes looks at what the rows hold.              *)

FailAt(j, pc) == job[j].state = "failed" /\ job[j].pc = pc

FailScan(j) ==
  /\ FailAt(j, "failScan")
  /\ scan' = [status |-> "FAILED", pipeline |-> "FAILED"]
  /\ Goto(j, IF job[j].name = "report" THEN "failReport" ELSE "failFind")
  /\ UNCHANGED <<report, notices, files, deadLetters, call, spent>>

(* Without the scan's row ("failReportOnly") nobody is notified.           *)
FailReport(j) ==
  /\ \/ FailAt(j, "failReport") /\ Goto(j, "failFind")
     \/ FailAt(j, "failReportOnly") /\ Goto(j, "deadLetter")
  /\ report' = [report EXCEPT !.status = "FAILED"]
  /\ UNCHANGED <<scan, notices, files, deadLetters, call, spent>>

(* The message ends in the error's text, so an earlier failure of the same *)
(* stage may or may not count as found.                                    *)
FailNotice(j) ==
  /\ \/ /\ FailAt(j, "failFind")
        /\ \/ Goto(j, "failCreate")
           \/ notices[job[j].name] > 0 /\ Goto(j, "deadLetter")
        /\ UNCHANGED dbVars
     \/ /\ FailAt(j, "failCreate")
        /\ CreateNotice(j, job[j].name, "deadLetter")
  /\ UNCHANGED <<files, deadLetters, call, spent>>

(* Mutant of FailDeadLetter: the workspace is not cleaned after a failure. *)
FailDeadLetterOnly(j) ==
  /\ FailAt(j, "deadLetter")
  /\ deadLetters' = deadLetters \cup {job[j].name}
  /\ Goto(j, "done")
  /\ UNCHANGED <<dbVars, files, call, spent>>

FailDeadLetter(j) ==
  /\ FailAt(j, "deadLetter")
  /\ deadLetters' = deadLetters \cup {job[j].name}
  /\ Goto(j, "failCleanup")
  /\ UNCHANGED <<dbVars, files, call, spent>>

FailCleanup(j) ==
  /\ FailAt(j, "failCleanup")
  /\ FreeJobs # {}
  /\ job' = [job EXCEPT ![j].pc = "done",
                        ![FreeJob] = NewJob("cleanup", FALSE)]
  /\ UNCHANGED <<dbVars, files, deadLetters, call, spent>>

fail(j) ==
  \/ FailScan(j)
  \/ FailReport(j)
  \/ FailNotice(j)
  \/ FailDeadLetter(j)
  \/ FailCleanup(j)

-----------------------------------------------------------------------------
(* What goes wrong around the handlers.                                    *)

(* The provider, MinIO, PostgreSQL or Redis refuses an await, the first one*)
(* included: the attempt throws.  Removing a local directory with `force`  *)
(* does not fail.                                                          *)
Fault(j) ==
  /\ Live(j)
  /\ job[j].name # "cleanup"
  /\ spent.faults < MaxFaults
  /\ spent' = [spent EXCEPT !.faults = @ + 1]
  /\ Throw(j)
  /\ UNCHANGED <<dbVars, files, deadLetters, call>>

(* The worker process dies with the job in hand, and BullMQ delivers the   *)
(* job again: from its start, even when the handler had already queued     *)
(* the successor.                                                          *)
WorkerCrash(j) ==
  /\ job[j].state = "active"
  /\ spent.outages < MaxOutages
  /\ spent' = [spent EXCEPT !.outages = @ + 1]
  /\ \/ job' = [job EXCEPT ![j].state = "waiting", ![j].pc = "start",
                            ![j].data = "absent"]
     \/ /\ job[j].pc = "handoff"
        /\ job[j].name # "cleanup"
        /\ HandoffDies(j)
  /\ UNCHANGED <<dbVars, files, deadLetters, call>>

(* fail(job) swallows a refused write and goes on; a refused search ends   *)
(* it.  After a lost scan update there is no user to notify.               *)
AfterRefusal(jb) ==
  CASE jb.pc = "failScan" /\ jb.name = "report"      -> "failReportOnly"
    [] jb.pc = "failScan" /\ jb.name # "report"      -> "deadLetter"
    [] jb.pc = "failReport"                          -> "failFind"
    [] jb.pc \in {"failReportOnly", "failCreate"}    -> "deadLetter"
    [] jb.pc = "deadLetter"                          -> "failCleanup"
    [] jb.pc \in {"failFind", "failCleanup"}         -> "done"

WriteRefused(j) ==
  /\ FailHandlerRunning(j)
  /\ spent.outages < MaxOutages
  /\ spent' = [spent EXCEPT !.outages = @ + 1]
  /\ Goto(j, AfterRefusal(job[j]))
  /\ UNCHANGED <<dbVars, files, deadLetters, call>>

(* The worker process dies in fail(job): nobody calls it again.            *)
ListenerCrash(j) ==
  /\ FailHandlerRunning(j)
  /\ spent.outages < MaxOutages
  /\ spent' = [spent EXCEPT !.outages = @ + 1]
  /\ Goto(j, "done")
  /\ UNCHANGED <<dbVars, files, deadLetters, call>>
=============================================================================
