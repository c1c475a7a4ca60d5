-------------------------- MODULE PipelineRunProofs --------------------------
(***************************************************************************)
(* One request, one pipeline: while a single start or resume request has   *)
(* been sent, no process died and no administrator interfered, one stage   *)
(* at a time works on the upload, whatever faults and cancellations come.  *)
(* From this: a report covers the upload, the user is told once, and a     *)
(* cancellation at rest is final.  And, for any number of requests: an     *)
(* undisturbed pipeline gives its working directory back.                  *)
(***************************************************************************)
EXTENDS PipelineProofs, FiniteSetTheorems

(* A single request to run the pipeline, and nothing that would deliver a  *)
(* job twice.                                                              *)
Alone ==
  /\ \A c, d \in Starts \cup Resumes :
       call[c].pc # "new" /\ call[d].pc # "new" => c = d
  /\ spent.outages = 0
  /\ spent.admin = 0

-----------------------------------------------------------------------------
(* The inductive invariant.                                                *)

(* No resume is under way: before the scan exists it ends at once.         *)
ResumesIdle == \A c \in Resumes : call[c].pc \in {"new", "done"}

(* The scan, and a cancellation that found it, come from a start request.  *)
ScanHasStart ==
  \/ scan.status # "none"
  \/ \E c \in Cancels : call[c].pc \notin {"new", "done"}
  => \E c \in Starts : call[c].pc \notin {"new", "create"}

Enqueued == \E c \in Starts : call[c].pc \notin {"new", "create", "enqueue"}

(* There is no job before a start request has added one.                   *)
JobsHaveStart == \A j \in Jobs : job[j].state # "none" => Enqueued

Working(x) == x.state # "none" /\ x.name # "cleanup"

OneWorking ==
  \A j, k \in Jobs : Working(job[j]) /\ Working(job[k]) => j = k

(* The cleanup is queued by notify when it is done, or by fail.            *)
CleanupIsLast ==
  \A j, k \in Jobs :
    /\ job[j].state # "none" /\ job[j].name = "cleanup"
    /\ Working(job[k])
    => job[k].state = "failed"

(* x has got beyond the given points of a stage, or to a later stage.      *)
Past(x, stage, points, later) ==
  \/ x.name = stage /\ x.pc \in points
  \/ x.name \in later

(* What the stages before x, and x itself so far, have written.            *)
Written(x) ==
  /\ Past(x, "download", {"reassert", "save", "handoff"},
          {"extract", "parse", "merge", "analyze", "report"})
       => files["input"] = "full"
  /\ Past(x, "download", {"handoff"},
          {"extract", "parse", "merge", "analyze", "report"})
       => files["download.json"] = "full"
  /\ Past(x, "extract", {"reassert", "mark", "handoff"},
          {"parse", "merge", "analyze", "report"})
       => files["extracted"] = "full"
  /\ Past(x, "extract", {"handoff"}, {"parse", "merge", "analyze", "report"})
       => files["extract.json"] = "full"
  /\ Past(x, "parse", {"reassert", "mark", "handoff"},
          {"merge", "analyze", "report"})
       => files["parse.json"] = "full"
  /\ Past(x, "merge", {"reassert", "mark", "handoff"}, {"analyze", "report"})
       => files["context.json"] = "full"
  /\ Past(x, "analyze", {"handoff"}, {"report"})
       => files["ai-results.json"] = "full"

(* What a handler holds in memory.                                         *)
Holds(x) ==
  /\ x.name \in {"analyze", "report"} => x.data = "full"
  /\ x.name = "report" /\ x.pc \in {"lastCheck", "handoff"}
       => report.status = "READY"
  /\ x.name = "notify" /\ x.pc = "create" => notices["ready"] = 0
  /\ x.name # "cleanup"

Fine(x) ==
  /\ x.state \in {"waiting", "active"} => Written(x)
  /\ x.state = "active" => Holds(x)
  /\ x.state = "failed" =>
       /\ x.name # "cleanup"
       /\ x.pc = "failReport" => x.name = "report"
       /\ x.pc # "failReportOnly"
  /\ x.state # "none" /\ x.name = "notify" => report.status = "READY"

JobsFine == \A j \in Jobs : Fine(job[j])

Flow ==
  /\ ResumesIdle
  /\ ScanHasStart
  /\ JobsHaveStart
  /\ OneWorking
  /\ CleanupIsLast
  /\ JobsFine
  /\ ReportCoversUpload
  /\ OneReadyNotice

RunInv == TypeOK /\ (Alone => Flow)

-----------------------------------------------------------------------------
(* A job that waits or runs is the only one.                               *)
LEMMA SoleJob ==
  ASSUME Flow, NEW j \in Jobs, Live(j), job[j].name # "cleanup",
         NEW k \in Jobs, k # j
  PROVE  job[k].state = "none"
BY DEF Flow, OneWorking, CleanupIsLast, Working, Live

(* A job that has failed is the only one but for cleanups, which wait.     *)
LEMMA FailedJob ==
  ASSUME TypeOK, Flow, NEW j \in Jobs, job[j].state = "failed",
         NEW k \in Jobs, k # j
  PROVE  \/ job[k].state = "none"
         \/ job[k].state = "waiting" /\ job[k].name = "cleanup"
<1>1. Working(job[j])
  BY DEF Flow, JobsFine, Fine, Working
<1>2. job[k].state # "none" => job[k].name = "cleanup"
  BY <1>1 DEF Flow, OneWorking, Working
<1>3. job[k].name = "cleanup" => job[k].state \notin {"active", "failed"}
  BY DEF Flow, JobsFine, Fine, Holds
<1> QED
  BY <1>2, <1>3 DEF TypeOK, JobRecord, JobState

LEMMA CleanupFine ==
  ASSUME NEW x, x.state = "waiting", x.name = "cleanup"
  PROVE  Fine(x)
BY DEF Fine, Written, Past

LEMMA NoneFine ==
  ASSUME NEW x, x.state = "none"
  PROVE  Fine(x)
BY DEF Fine

(* Whoever has a job was enqueued, and the scan has a start.               *)
LEMMA HasStart ==
  ASSUME Flow, NEW j \in Jobs, job[j].state # "none", UNCHANGED call
  PROVE  ResumesIdle' /\ ScanHasStart' /\ JobsHaveStart'
BY DEF Flow, ResumesIdle, JobsHaveStart, Enqueued, ScanHasStart

(* Job j is the one in charge, and only it changes.                        *)
InCharge(j) == Live(j) /\ job[j].name # "cleanup"

OnlyJob(j) == \A k \in Jobs : k # j => job'[k] = job[k]

(* A step of the handler in charge, whatever becomes of its job.           *)
LEMMA LiveStep ==
  ASSUME Flow, NEW j \in Jobs, InCharge(j), OnlyJob(j), Fine(job[j])',
         UNCHANGED call, ReportCoversUpload', OneReadyNotice'
  PROVE  Flow'
<1>1. \A k \in Jobs : k # j => job'[k].state = "none"
  BY SoleJob DEF OnlyJob, InCharge
<1>2. OneWorking'
  BY <1>1 DEF OneWorking, Working
<1>3. CleanupIsLast'
  BY <1>1 DEF CleanupIsLast, Working
<1>4. ASSUME NEW k \in Jobs PROVE Fine(job[k])'
  BY <1>1 DEF Fine
<1>5. JobsFine'
  BY <1>4 DEF JobsFine
<1>6. ResumesIdle' /\ ScanHasStart' /\ JobsHaveStart'
  BY HasStart DEF InCharge, Live
<1> QED
  BY <1>2, <1>3, <1>5, <1>6 DEF Flow

(* Nothing that was written is lost.                                       *)
Kept == \A a \in Artifact : files[a] = "full" => files'[a] = "full"

LEMMA DirKept ==
  ASSUME TypeOK, files' = WithDir \/ files' = files
  PROVE  Kept
BY DEF TypeOK, WithDir, Kept

LEMMA SavedKept ==
  ASSUME TypeOK, NEW a \in Artifact, Save(a, "full")
  PROVE  Kept /\ files'[a] = "full"
BY DEF TypeOK, Save, WithDir, Kept

(* ... so a handler may go on to a point that asks for no new file,        *)
LEMMA WrittenKept ==
  ASSUME NEW x, Written(x), Kept, NEW y, y.name = x.name,
         y.pc \notin {"reassert", "save", "mark", "handoff"}
  PROVE  Written(y)'
BY DEF Written, Past, Kept, Artifact

(* and an attempt that throws may be repeated.                             *)
LEMMA ThrowFlow ==
  ASSUME TypeOK, Flow, NEW j \in Jobs, InCharge(j), Throw(j), Kept,
         UNCHANGED <<report, notices, call>>
  PROVE  Flow'
<1>1. job[j] \in JobRecord /\ Fine(job[j])
  BY DEF TypeOK, Flow, JobsFine
<1>2. OnlyJob(j) /\ job'[j] = Thrown(job[j])
  BY DEF Throw, OnlyJob, TypeOK
<1>3. Written(job[j])
  BY <1>1 DEF Fine, InCharge, Live
<1> SUFFICES Fine(job[j])'
  BY <1>2, LiveStep DEF Flow, ReportCoversUpload, OneReadyNotice
<1>4. CASE job[j].attempts + 1 < MaxAttempts
  <2>1. /\ job'[j].state = "waiting" /\ job'[j].pc = "start"
        /\ job'[j].name = job[j].name
    BY <1>1, <1>2, <1>4 DEF Thrown, JobRecord
  <2>2. Written(job[j])'
    BY <1>3, <2>1, WrittenKept
  <2> QED
    BY <1>1, <2>1, <2>2 DEF Fine, InCharge, Live
<1>5. CASE ~(job[j].attempts + 1 < MaxAttempts)
  <2>1. /\ job'[j].state = "failed" /\ job'[j].pc = "failScan"
        /\ job'[j].name = job[j].name
    BY <1>1, <1>2, <1>5 DEF Thrown, JobRecord, InCharge
  <2> QED
    BY <1>1, <2>1 DEF Fine, InCharge, Live
<1> QED
  BY <1>4, <1>5

(* A handler goes on: what its next point asks for is there.               *)
LEMMA ActiveFlow ==
  ASSUME Flow, NEW j \in Jobs, InCharge(j), OnlyJob(j),
         job'[j].state = "active", job'[j].name = job[j].name,
         Written(job[j])', Holds(job[j])', UNCHANGED <<report, notices, call>>
  PROVE  Flow'
<1>1. Fine(job[j])
  BY DEF Flow, JobsFine
<1>2. Fine(job[j])'
  BY <1>1 DEF Fine, InCharge, Live
<1> QED
  BY <1>2, LiveStep DEF Flow, ReportCoversUpload, OneReadyNotice

LEMMA GotoJob ==
  ASSUME TypeOK, NEW j \in Jobs, NEW pc, Goto(j, pc)
  PROVE  /\ OnlyJob(j)
         /\ job'[j].pc = pc
         /\ job'[j].state = job[j].state
         /\ job'[j].name = job[j].name
         /\ job'[j].data = job[j].data
BY DEF TypeOK, JobRecord, Goto, OnlyJob

LEMMA BeginJob ==
  ASSUME TypeOK, NEW j \in Jobs, NEW pc, Begin(j, pc)
  PROVE  /\ OnlyJob(j)
         /\ job'[j].pc = pc
         /\ job'[j].state = "active"
         /\ job'[j].name = job[j].name
BY DEF TypeOK, JobRecord, Begin, OnlyJob

LEMMA SuccessorJob ==
  ASSUME TypeOK, NEW j \in Jobs, job[j].name # "cleanup", Handoff(j)
  PROVE  /\ OnlyJob(j)
         /\ job'[j].pc = "start"
         /\ job'[j].state = "waiting"
         /\ job'[j].name = NextStage[job[j].name]
BY DEF TypeOK, JobRecord, Handoff, Successor, NewJob, NoJob, OnlyJob

-----------------------------------------------------------------------------
(* The steps processors are made of.                                       *)
LEMMA TakeFlow ==
  ASSUME TypeOK, Flow, NEW j \in Jobs,
         NEW stage \in {"download", "extract", "parse", "merge"},
         NEW next \in {"mark", "unpack", "parse", "merge"},
         next = "mark" => stage = "download",
         TakeAndAssert(j, stage, next), UNCHANGED call
  PROVE  Flow'
<1>1. job[j].name = stage /\ Live(j) /\ InCharge(j)
  BY DEF TakeAndAssert, Takes, Live, InCharge
<1>2. Kept
  BY DirKept DEF TakeAndAssert
<1>3. CASE Begin(j, next)
  <2>1. /\ OnlyJob(j) /\ job'[j].pc = next /\ job'[j].state = "active"
        /\ job'[j].name = stage
    BY <1>1, <1>3, BeginJob
  <2>2. Written(job[j])
    BY <1>1 DEF Flow, JobsFine, Fine, Live
  <2>3. Written(job[j])'
    BY <1>1, <1>2, <2>1, <2>2 DEF Written, Past, Kept, Artifact
  <2>4. Holds(job[j])'
    BY <2>1 DEF Holds
  <2> QED
    BY <1>1, <2>1, <2>3, <2>4, ActiveFlow DEF TakeAndAssert, dbVars
<1>4. CASE Throw(j)
  BY <1>1, <1>2, <1>4, ThrowFlow DEF TakeAndAssert, dbVars
<1> QED
  BY <1>3, <1>4 DEF TakeAndAssert

LEMMA ReassertFlow ==
  ASSUME TypeOK, Flow, NEW j \in Jobs,
         NEW stage \in {"download", "extract", "parse", "merge", "report"},
         NEW next \in {"save", "mark"}, next = "save" <=> stage = "download",
         Reassert(j, stage, next), UNCHANGED call
  PROVE  Flow'
<1>1. /\ job[j].name = stage /\ job[j].pc = "reassert"
      /\ job[j].state = "active" /\ InCharge(j)
  BY DEF Reassert, At, Live, InCharge
<1>2. Kept
  BY DirKept DEF Reassert
<1>3. CASE Goto(j, next)
  <2>1. /\ OnlyJob(j) /\ job'[j].pc = next /\ job'[j].state = "active"
        /\ job'[j].name = stage /\ job'[j].data = job[j].data
    BY <1>1, <1>3, GotoJob
  <2>2. Written(job[j]) /\ Holds(job[j])
    BY <1>1 DEF Flow, JobsFine, Fine
  <2>3. Written(job[j])'
    BY <1>1, <1>2, <2>1, <2>2 DEF Written, Past, Kept, Artifact
  <2>4. Holds(job[j])'
    BY <1>1, <2>1, <2>2 DEF Holds
  <2> QED
    BY <1>1, <2>1, <2>3, <2>4, ActiveFlow DEF Reassert, dbVars
<1>4. CASE Throw(j)
  BY <1>1, <1>2, <1>4, ThrowFlow DEF Reassert, dbVars
<1> QED
  BY <1>3, <1>4 DEF Reassert, AssertActive

(* A step of a stage before analyze, when what it went to asks for is      *)
(* there.                                                                  *)
LEMMA EarlyFlow ==
  ASSUME TypeOK, Flow, NEW j \in Jobs, job[j].state = "active",
         job[j].name \in {"download", "extract", "parse", "merge"},
         NEW next, Goto(j, next), Written(job[j])',
         UNCHANGED <<report, notices, call>>
  PROVE  Flow'
<1>1. /\ OnlyJob(j) /\ job'[j].state = "active"
      /\ job'[j].name = job[j].name
  BY GotoJob
<1>2. Holds(job[j])'
  BY <1>1 DEF Holds
<1> QED
  BY <1>1, <1>2, ActiveFlow DEF InCharge, Live

LEMMA HandoffFlow ==
  ASSUME TypeOK, Flow, NEW j \in Jobs, NEW stage \in Stage \ {"cleanup"},
         At(j, stage, "handoff"), Handoff(j),
         UNCHANGED <<dbVars, files, call>>
  PROVE  Flow'
<1>1. /\ job[j].name = stage /\ job[j].pc = "handoff"
      /\ job[j].state = "active" /\ InCharge(j)
  BY DEF At, Live, InCharge
<1>2. /\ OnlyJob(j) /\ job'[j].pc = "start" /\ job'[j].state = "waiting"
      /\ job'[j].name = NextStage[stage]
  BY <1>1, SuccessorJob
<1>3. Written(job[j]) /\ Holds(job[j])
  BY <1>1 DEF Flow, JobsFine, Fine
<1>4. Written(job[j])'
  <2>1. \/ stage = "download" /\ NextStage[stage] = "extract"
        \/ stage = "extract" /\ NextStage[stage] = "parse"
        \/ stage = "parse" /\ NextStage[stage] = "merge"
        \/ stage = "merge" /\ NextStage[stage] = "analyze"
        \/ stage = "analyze" /\ NextStage[stage] = "report"
        \/ NextStage[stage] \in {"notify", "cleanup"}
    BY DEF Stage, NextStage
  <2> QED
    BY <1>1, <1>2, <1>3, <2>1 DEF Written, Past
<1>5. NextStage[stage] = "notify" => report.status = "READY"
  BY <1>1, <1>3 DEF Stage, NextStage, Holds
<1>6. Fine(job[j])'
  BY <1>2, <1>4, <1>5 DEF Fine, dbVars
<1> QED
  BY <1>1, <1>2, <1>6, LiveStep
     DEF dbVars, Flow, ReportCoversUpload, OneReadyNotice

-----------------------------------------------------------------------------
(* The processors.                                                         *)
LEMMA ActiveFine ==
  ASSUME Flow, NEW j \in Jobs, job[j].state = "active"
  PROVE  Written(job[j]) /\ Holds(job[j])
BY DEF Flow, JobsFine, Fine

LEMMA DownloadFlow ==
  ASSUME TypeOK, Flow, NEW j \in Jobs, Download(j), UNCHANGED call
  PROVE  Flow'
<1>1. CASE TakeAndAssert(j, "download", "mark")
  BY <1>1, TakeFlow
<1>2. CASE At(j, "download", "mark") /\ MarkScan(j, "EXTRACTING", "fetch")
           /\ UNCHANGED files
  <2>1. job'[j].name = "download" /\ job'[j].pc = "fetch"
    BY <1>2, GotoJob DEF At, MarkScan
  <2>2. Written(job[j])'
    BY <2>1 DEF Written, Past
  <2> QED
    BY <1>2, <2>2, EarlyFlow DEF At, MarkScan
<1>3. CASE At(j, "download", "fetch") /\ Save("input", "full")
           /\ Goto(j, "reassert") /\ UNCHANGED dbVars
  <2>1. job'[j].name = "download" /\ job'[j].pc = "reassert"
    BY <1>3, GotoJob DEF At
  <2>2. files'["input"] = "full"
    BY <1>3, SavedKept DEF Artifact
  <2>3. Written(job[j])'
    BY <2>1, <2>2 DEF Written, Past
  <2> QED
    BY <1>3, <2>3, EarlyFlow DEF At, dbVars
<1>4. CASE Reassert(j, "download", "save")
  BY <1>4, ReassertFlow
<1>5. CASE At(j, "download", "save") /\ Save("download.json", "full")
           /\ Goto(j, "handoff") /\ UNCHANGED dbVars
  <2>1. job'[j].name = "download" /\ job'[j].pc = "handoff"
    BY <1>5, GotoJob DEF At
  <2>2. Written(job[j])
    BY <1>5, ActiveFine DEF At
  <2>3. files'["input"] = "full"
    BY <1>5, <2>2, SavedKept DEF At, Written, Past, Artifact, Kept
  <2>4. files'["download.json"] = "full"
    BY <1>5, SavedKept DEF Artifact
  <2>5. Written(job[j])'
    BY <2>1, <2>3, <2>4 DEF Written, Past
  <2> QED
    BY <1>5, <2>5, EarlyFlow DEF At, dbVars
<1>6. CASE At(j, "download", "handoff") /\ Handoff(j)
           /\ UNCHANGED <<dbVars, files>>
  BY <1>6, HandoffFlow DEF Stage
<1> QED
  BY <1>1, <1>2, <1>3, <1>4, <1>5, <1>6 DEF Download

LEMMA ExtractFlow ==
  ASSUME TypeOK, Flow, NEW j \in Jobs, Extract(j), UNCHANGED call
  PROVE  Flow'
<1>1. CASE TakeAndAssert(j, "extract", "unpack")
  BY <1>1, TakeFlow
<1>2. CASE At(j, "extract", "unpack") /\ Save("extracted", "full")
           /\ Goto(j, "reassert") /\ UNCHANGED dbVars
  <2>1. job'[j].name = "extract" /\ job'[j].pc = "reassert"
    BY <1>2, GotoJob DEF At
  <2>2. Kept /\ files'["extracted"] = "full"
    BY <1>2, SavedKept DEF Artifact
  <2>3. Written(job[j])
    BY <1>2, ActiveFine DEF At
  <2>4. Written(job[j])'
    BY <1>2, <2>1, <2>2, <2>3 DEF At, Written, Past, Kept, Artifact
  <2> QED
    BY <1>2, <2>4, EarlyFlow DEF At, dbVars
<1>3. CASE At(j, "extract", "unpack") /\ Throw(j)
           /\ UNCHANGED <<dbVars, files>>
  BY <1>3, ThrowFlow, DirKept DEF At, InCharge, Live, dbVars
<1>4. CASE Reassert(j, "extract", "mark")
  BY <1>4, ReassertFlow
<1>5. CASE At(j, "extract", "mark") /\ Save("extract.json", "full")
           /\ MarkScan(j, "PARSING", "handoff")
  <2>1. job'[j].name = "extract" /\ job'[j].pc = "handoff"
    BY <1>5, GotoJob DEF At, MarkScan
  <2>2. Kept /\ files'["extract.json"] = "full"
    BY <1>5, SavedKept DEF Artifact
  <2>3. Written(job[j])
    BY <1>5, ActiveFine DEF At
  <2>4. Written(job[j])'
    BY <1>5, <2>1, <2>2, <2>3 DEF At, Written, Past, Kept, Artifact
  <2> QED
    BY <1>5, <2>4, EarlyFlow DEF At, MarkScan
<1>6. CASE At(j, "extract", "handoff") /\ Handoff(j)
           /\ UNCHANGED <<dbVars, files>>
  BY <1>6, HandoffFlow DEF Stage
<1> QED
  BY <1>1, <1>2, <1>3, <1>4, <1>5, <1>6 DEF Extract, dbVars

LEMMA ParseFlow ==
  ASSUME TypeOK, Flow, NEW j \in Jobs, Parse(j), UNCHANGED call
  PROVE  Flow'
<1>1. CASE TakeAndAssert(j, "parse", "parse")
  BY <1>1, TakeFlow
<1>2. CASE /\ At(j, "parse", "parse")
           /\ Save("parse.json",
                   IF Present({"extracted"}) THEN "full" ELSE "empty")
           /\ Goto(j, "reassert") /\ UNCHANGED dbVars
  <2>1. job'[j].name = "parse" /\ job'[j].pc = "reassert"
    BY <1>2, GotoJob DEF At
  <2>2. Written(job[j])
    BY <1>2, ActiveFine DEF At
  <2>3. Present({"extracted"})
    BY <1>2, <2>2 DEF At, Written, Past, Present
  <2>4. Kept /\ files'["parse.json"] = "full"
    BY <1>2, <2>3, SavedKept DEF Artifact
  <2>5. Written(job[j])'
    BY <1>2, <2>1, <2>2, <2>4 DEF At, Written, Past, Kept, Artifact
  <2> QED
    BY <1>2, <2>5, EarlyFlow DEF At, dbVars
<1>3. CASE Reassert(j, "parse", "mark")
  BY <1>3, ReassertFlow
<1>4. CASE At(j, "parse", "mark") /\ MarkScan(j, "AGGREGATING", "handoff")
           /\ UNCHANGED files
  <2>1. job'[j].name = "parse" /\ job'[j].pc = "handoff"
    BY <1>4, GotoJob DEF At, MarkScan
  <2>2. Written(job[j])
    BY <1>4, ActiveFine DEF At
  <2>3. Written(job[j])'
    BY <1>4, <2>1, <2>2 DEF At, Written, Past
  <2> QED
    BY <1>4, <2>3, EarlyFlow DEF At, MarkScan
<1>5. CASE At(j, "parse", "handoff") /\ Handoff(j)
           /\ UNCHANGED <<dbVars, files>>
  BY <1>5, HandoffFlow DEF Stage
<1> QED
  BY <1>1, <1>2, <1>3, <1>4, <1>5 DEF Parse

LEMMA MergeFlow ==
  ASSUME TypeOK, Flow, NEW j \in Jobs, Merge(j), UNCHANGED call
  PROVE  Flow'
<1>1. CASE TakeAndAssert(j, "merge", "merge")
  BY <1>1, TakeFlow
<1>2. CASE At(j, "merge", "merge") /\ Save("context.json", files["parse.json"])
           /\ Goto(j, "reassert") /\ UNCHANGED dbVars
  <2>1. job'[j].name = "merge" /\ job'[j].pc = "reassert"
    BY <1>2, GotoJob DEF At
  <2>2. Written(job[j])
    BY <1>2, ActiveFine DEF At
  <2>3. files["parse.json"] = "full"
    BY <1>2, <2>2 DEF At, Written, Past
  <2>4. Kept /\ files'["context.json"] = "full"
    BY <1>2, <2>3, SavedKept DEF Artifact
  <2>5. Written(job[j])'
    BY <1>2, <2>1, <2>2, <2>4 DEF At, Written, Past, Kept, Artifact
  <2> QED
    BY <1>2, <2>5, EarlyFlow DEF At, dbVars
<1>3. CASE At(j, "merge", "merge") /\ Throw(j) /\ UNCHANGED <<dbVars, files>>
  BY <1>3, ThrowFlow, DirKept DEF At, InCharge, Live, dbVars
<1>4. CASE Reassert(j, "merge", "mark")
  BY <1>4, ReassertFlow
<1>5. CASE At(j, "merge", "mark") /\ MarkScan(j, "ANALYZING", "handoff")
           /\ UNCHANGED files
  <2>1. job'[j].name = "merge" /\ job'[j].pc = "handoff"
    BY <1>5, GotoJob DEF At, MarkScan
  <2>2. Written(job[j])
    BY <1>5, ActiveFine DEF At
  <2>3. Written(job[j])'
    BY <1>5, <2>1, <2>2 DEF At, Written, Past
  <2> QED
    BY <1>5, <2>3, EarlyFlow DEF At, MarkScan
<1>6. CASE At(j, "merge", "handoff") /\ Handoff(j)
           /\ UNCHANGED <<dbVars, files>>
  BY <1>6, HandoffFlow DEF Stage
<1> QED
  BY <1>1, <1>2, <1>3, <1>4, <1>5, <1>6 DEF Merge, dbVars

(* analyze reads a context, and a tree, that are whole.                    *)
LEMMA AnalyzeFlow ==
  ASSUME TypeOK, Flow, NEW j \in Jobs, Analyze(j), UNCHANGED call
  PROVE  Flow'
<1>0. job[j] \in JobRecord
  BY DEF TypeOK
<1>1. CASE /\ Takes(j, "analyze")
           /\ files' = WithDir
           /\ job' = [job EXCEPT ![j].state = "active", ![j].pc = "mark",
                                 ![j].data = files["context.json"]]
           /\ UNCHANGED dbVars
  <2>1. Written(job[j])
    BY <1>1 DEF Takes, Flow, JobsFine, Fine
  <2>2. files["context.json"] = "full"
    BY <1>1, <2>1 DEF Takes, Written, Past
  <2>3. /\ OnlyJob(j) /\ job'[j].state = "active" /\ job'[j].pc = "mark"
        /\ job'[j].name = "analyze" /\ job'[j].data = "full"
    BY <1>0, <1>1, <2>2 DEF TypeOK, JobRecord, Takes, OnlyJob
  <2>4. Kept
    BY <1>1, DirKept
  <2>5. Written(job[j])' /\ Holds(job[j])'
    BY <1>1, <2>1, <2>3, <2>4
       DEF Takes, Written, Past, Kept, Artifact, Holds
  <2> QED
    BY <1>1, <2>3, <2>5, ActiveFlow DEF Takes, InCharge, Live, dbVars
<1>2. CASE Takes(j, "analyze") /\ files' = WithDir /\ Throw(j)
           /\ UNCHANGED dbVars
  BY <1>2, ThrowFlow, DirKept DEF Takes, InCharge, Live, dbVars
<1>3. ASSUME NEW pc \in {"mark", "load", "review", "save"},
             NEW next \in {"load", "review", "save", "handoff"},
             At(j, "analyze", pc), OnlyJob(j), job'[j].pc = next,
             job'[j].state = "active", job'[j].name = "analyze",
             job'[j].data = "full", Kept,
             next = "handoff" => files'["ai-results.json"] = "full",
             UNCHANGED <<report, notices>>
      PROVE  Flow'
  <2>1. Written(job[j])
    BY <1>3, ActiveFine DEF At
  <2>2. Written(job[j])' /\ Holds(job[j])'
    BY <1>3, <2>1 DEF At, Written, Past, Kept, Artifact, Holds
  <2> QED
    BY <1>3, <2>2, ActiveFlow DEF At, InCharge, Live
<1>4. ASSUME job[j].state = "active", job[j].name = "analyze"
      PROVE  /\ job[j].data = "full"
             /\ files["extracted"] = "full"
  BY <1>4, ActiveFine DEF Holds, Written, Past
<1>5. CASE At(j, "analyze", "mark") /\ MarkScan(j, "ANALYZING", "load")
           /\ UNCHANGED files
  BY <1>3, <1>4, <1>5, GotoJob, DirKept DEF At, MarkScan
<1>6. CASE /\ At(j, "analyze", "load")
           /\ job' = [job EXCEPT ![j].pc = "review",
                           ![j].data = IF @ = "full" /\ Present({"extracted"})
                                       THEN "full" ELSE "empty"]
           /\ UNCHANGED <<dbVars, files>>
  <2>1. job[j].data = "full" /\ Present({"extracted"})
    BY <1>4, <1>6 DEF At, Present
  <2>2. /\ OnlyJob(j) /\ job'[j].state = "active" /\ job'[j].pc = "review"
        /\ job'[j].name = "analyze" /\ job'[j].data = "full"
    BY <1>0, <1>6, <2>1 DEF TypeOK, JobRecord, At, OnlyJob
  <2> QED
    BY <1>3, <1>6, <2>2, DirKept DEF dbVars
<1>7. CASE At(j, "analyze", "review") /\ Goto(j, "save")
           /\ UNCHANGED <<dbVars, files>>
  BY <1>3, <1>4, <1>7, GotoJob, DirKept DEF At, dbVars
<1>8. CASE At(j, "analyze", "review") /\ Throw(j)
           /\ UNCHANGED <<dbVars, files>>
  BY <1>8, ThrowFlow, DirKept DEF At, InCharge, Live, dbVars
<1>9. CASE At(j, "analyze", "save") /\ Save("ai-results.json", job[j].data)
           /\ Goto(j, "handoff") /\ UNCHANGED dbVars
  <2>1. Kept /\ files'["ai-results.json"] = "full"
    BY <1>4, <1>9, SavedKept DEF At, Artifact
  <2> QED
    BY <1>3, <1>4, <1>9, <2>1, GotoJob DEF At, dbVars
<1>10. CASE At(j, "analyze", "handoff") /\ Handoff(j)
            /\ UNCHANGED <<dbVars, files>>
  BY <1>10, HandoffFlow DEF Stage
<1> QED
  BY <1>1, <1>2, <1>5, <1>6, <1>7, <1>8, <1>9, <1>10
     DEF Analyze, AssertActive

(* report stores what it read, which is whole.                             *)
LEMMA ReportFlow ==
  ASSUME TypeOK, Flow, NEW j \in Jobs, Report(j), UNCHANGED call
  PROVE  Flow'
<1>0. job[j] \in JobRecord
  BY DEF TypeOK
<1>1. CASE /\ Takes(j, "report")
           /\ files' = IF Active THEN WithDir ELSE files
           /\ job' = [job EXCEPT ![j].state = "active", ![j].pc = "reassert",
                                 ![j].data = files["ai-results.json"]]
           /\ UNCHANGED dbVars
  <2>1. Written(job[j])
    BY <1>1 DEF Takes, Flow, JobsFine, Fine
  <2>2. files["ai-results.json"] = "full"
    BY <1>1, <2>1 DEF Takes, Written, Past
  <2>3. /\ OnlyJob(j) /\ job'[j].state = "active" /\ job'[j].pc = "reassert"
        /\ job'[j].name = "report" /\ job'[j].data = "full"
    BY <1>0, <1>1, <2>2 DEF TypeOK, JobRecord, Takes, OnlyJob
  <2>4. Kept
    BY <1>1, DirKept
  <2>5. Written(job[j])' /\ Holds(job[j])'
    BY <1>1, <2>1, <2>3, <2>4
       DEF Takes, Written, Past, Kept, Artifact, Holds
  <2> QED
    BY <1>1, <2>3, <2>5, ActiveFlow DEF Takes, InCharge, Live, dbVars
<1>2. CASE /\ Takes(j, "report")
           /\ files' = IF Active THEN WithDir ELSE files
           /\ Throw(j) /\ UNCHANGED dbVars
  BY <1>2, ThrowFlow, DirKept DEF Takes, InCharge, Live, dbVars
<1>3. CASE Reassert(j, "report", "mark")
  BY <1>3, ReassertFlow
<1>4. ASSUME NEW pc, NEW next \in {"txRead", "txWrite", "lastCheck", "handoff"},
             At(j, "report", pc), Goto(j, next), files' \in {WithDir, files},
             next \in {"lastCheck", "handoff"} => report'.status = "READY"
      PROVE  Fine(job[j])'
  <2>1. /\ job'[j].state = "active" /\ job'[j].pc = next
        /\ job'[j].name = "report" /\ job'[j].data = job[j].data
    BY <1>4, GotoJob DEF At
  <2>2. Written(job[j]) /\ Holds(job[j])
    BY <1>4, ActiveFine DEF At
  <2>3. Kept
    BY <1>4, DirKept
  <2>4. Written(job[j])' /\ Holds(job[j])'
    BY <1>4, <2>1, <2>2, <2>3
       DEF At, Written, Past, Kept, Artifact, Holds
  <2> QED
    BY <2>1, <2>4 DEF Fine
<1>5. ASSUME NEW pc, NEW next \in {"txRead", "txWrite", "handoff"},
             At(j, "report", pc), Goto(j, next), files' \in {WithDir, files},
             next = "handoff" => pc = "lastCheck", UNCHANGED <<report, notices>>
      PROVE  Flow'
  <2>1. next = "handoff" => report'.status = "READY"
    BY <1>5, ActiveFine DEF At, Holds
  <2> QED
    BY <1>4, <1>5, <2>1, GotoJob, LiveStep
       DEF At, InCharge, Live, Flow, ReportCoversUpload, OneReadyNotice
<1>6. ASSUME NEW pc, At(j, "report", pc), Throw(j), UNCHANGED <<dbVars, files>>
      PROVE  Flow'
  BY <1>6, ThrowFlow, DirKept DEF At, InCharge, Live, dbVars
<1>7. CASE At(j, "report", "mark") /\ files' = WithDir
           /\ MarkScan(j, "REPORTING", "txRead")
  BY <1>5, <1>7 DEF MarkScan
<1>8. CASE At(j, "report", "txRead") /\ AssertActive(j, "txWrite")
           /\ UNCHANGED <<dbVars, files>>
  BY <1>5, <1>6, <1>8 DEF AssertActive, dbVars
<1>9. CASE /\ At(j, "report", "txWrite")
           /\ report' = [status |-> "READY", content |-> job[j].data]
           /\ Goto(j, "lastCheck")
           /\ UNCHANGED <<scan, notices, files>>
  <2>1. job[j].data = "full"
    BY <1>9, ActiveFine DEF At, Holds
  <2>2. report'.status = "READY" /\ report'.content = "full"
    BY <1>9, <2>1
  <2> QED
    BY <1>4, <1>9, <2>2, GotoJob, LiveStep
       DEF At, InCharge, Live, Flow, ReportCoversUpload, OneReadyNotice
<1>10. CASE At(j, "report", "lastCheck") /\ AssertActive(j, "handoff")
            /\ UNCHANGED <<dbVars, files>>
  BY <1>5, <1>6, <1>10 DEF AssertActive, dbVars
<1>11. CASE At(j, "report", "handoff") /\ Handoff(j)
            /\ UNCHANGED <<dbVars, files>>
  BY <1>11, HandoffFlow DEF Stage
<1> QED
  BY <1>1, <1>2, <1>3, <1>7, <1>8, <1>9, <1>10, <1>11 DEF Report

(* notify creates the notice when it has found none.                       *)
LEMMA NotifyFlow ==
  ASSUME TypeOK, Flow, NEW j \in Jobs, Notify(j), UNCHANGED call
  PROVE  Flow'
<1>1. InCharge(j) /\ job[j].name = "notify" /\ job[j].state # "none"
  BY DEF Notify, Takes, At, InCharge, Live
<1>2. report.status = "READY"
  BY <1>1 DEF Flow, JobsFine, Fine
<1>3. ASSUME OnlyJob(j), job'[j].name = "notify", job'[j].state = "active",
             job'[j].pc = "create" => notices'["ready"] = 0,
             UNCHANGED report
      PROVE  OneReadyNotice' => Flow'
  <2>1. Written(job[j])' /\ Holds(job[j])'
    BY <1>3 DEF Written, Past, Holds
  <2>2. Fine(job[j])'
    BY <1>2, <1>3, <2>1 DEF Fine
  <2> QED
    BY <1>1, <1>3, <2>2, LiveStep DEF Flow, ReportCoversUpload
<1>4. OneReadyNotice
  BY DEF Flow
<1>5. CASE Takes(j, "notify") /\ Begin(j, "find") /\ UNCHANGED <<report, notices>>
  <2>1. OneReadyNotice'
    BY <1>4, <1>5 DEF OneReadyNotice
  <2> QED
    BY <1>1, <1>3, <1>5, <2>1, BeginJob
<1>6. CASE /\ At(j, "notify", "find")
           /\ Goto(j, IF notices["ready"] > 0 THEN "handoff" ELSE "create")
           /\ UNCHANGED <<dbVars, files>>
  <2>1. OneReadyNotice'
    BY <1>4, <1>6 DEF OneReadyNotice, dbVars
  <2>2. notices["ready"] \in Nat
    BY DEF TypeOK, Message
  <2>3. PICK pc : /\ pc = IF notices["ready"] > 0 THEN "handoff" ELSE "create"
                  /\ Goto(j, pc)
    BY <1>6
  <2>4. pc = "create" => notices["ready"] = 0
    BY <2>2, <2>3
  <2> QED
    BY <1>3, <1>6, <2>1, <2>3, <2>4, GotoJob DEF At, dbVars
<1>7. CASE At(j, "notify", "create") /\ CreateNotice(j, "ready", "handoff")
  <2>1. notices["ready"] = 0
    BY <1>7, ActiveFine DEF At, Holds
  <2>2. notices'["ready"] = 1
    BY <1>7, <2>1 DEF CreateNotice, TypeOK, Message
  <2>3. OneReadyNotice'
    BY <2>2 DEF OneReadyNotice
  <2> QED
    BY <1>3, <1>7, <2>3, GotoJob DEF At, CreateNotice
<1>8. CASE At(j, "notify", "handoff") /\ Handoff(j)
           /\ UNCHANGED <<dbVars, files>>
  BY <1>8, HandoffFlow DEF Stage
<1> QED
  BY <1>5, <1>6, <1>7, <1>8 DEF Notify

(* cleanup comes last: nobody needs the files it removes.                  *)
LEMMA CleanupFlow ==
  ASSUME TypeOK, Flow, NEW j \in Jobs, Cleanup(j), UNCHANGED call
  PROVE  Flow'
<1>1. job[j].state = "waiting" /\ job[j].name = "cleanup"
  BY DEF Cleanup, Takes
<1>2. /\ job'[j].state = "none"
      /\ \A k \in Jobs : k # j => job'[k] = job[k]
  BY DEF Cleanup, NoJob, TypeOK
<1>3. \A k \in Jobs : job[k].state # "none" /\ job[k].name # "cleanup" =>
        job[k].state = "failed"
  BY <1>1 DEF Flow, CleanupIsLast, Working
<1>4. ResumesIdle' /\ ScanHasStart' /\ JobsHaveStart'
  BY <1>1, HasStart
<1>5. OneWorking'
  BY <1>2 DEF Flow, OneWorking, Working
<1>6. CleanupIsLast'
  BY <1>2 DEF Flow, CleanupIsLast, Working
<1>7. ASSUME NEW k \in Jobs PROVE Fine(job[k])'
  <2>1. CASE k = j
    BY <1>2, <2>1, NoneFine DEF Fine
  <2>2. CASE k # j
    <3>1. job'[k] = job[k] /\ Fine(job[k])
      BY <1>2, <2>2 DEF Flow, JobsFine
    <3>2. CASE job[k].state = "none"
      BY <3>1, <3>2 DEF Fine
    <3>3. CASE job[k].name = "cleanup"
      BY <3>1, <3>3 DEF Fine, Written, Past, Holds
    <3>4. CASE job[k].state = "failed"
      BY <3>1, <3>4 DEF Fine, Cleanup, dbVars
    <3> QED
      BY <1>3, <3>2, <3>3, <3>4
  <2> QED
    BY <2>1, <2>2
<1>8. JobsFine'
  BY <1>7 DEF JobsFine
<1> QED
  BY <1>4, <1>5, <1>6, <1>8
     DEF Cleanup, dbVars, Flow, ReportCoversUpload, OneReadyNotice

LEMMA ProcessorFlow ==
  ASSUME TypeOK, Flow, NEW j \in Jobs, Processor(j)
  PROVE  Flow'
BY DownloadFlow, ExtractFlow, ParseFlow, MergeFlow, AnalyzeFlow, ReportFlow,
   NotifyFlow, CleanupFlow DEF Processor

-----------------------------------------------------------------------------
(* The failure handler, and faults.                                        *)

(* fail queues its cleanup in a free slot.                                 *)
LEMMA CleanupAdded ==
  ASSUME TypeOK, NEW j \in Jobs, FailCleanup(j)
  PROVE  \E f \in Jobs \ {j} :
           /\ job'[j].state = "failed" /\ job'[j].name = job[j].name
           /\ job'[j].pc = "done"
           /\ job'[f].state = "waiting" /\ job'[f].name = "cleanup"
           /\ \A k \in Jobs \ {j, f} : job'[k] = job[k]
<1> DEFINE f == FreeJob
           x == [job[j] EXCEPT !.pc = "done"]
           y == NewJob("cleanup", FALSE)
<1>1. /\ f \in Jobs \ {j} /\ job[j] \in JobRecord /\ DOMAIN job = Jobs
      /\ job[j].state = "failed"
  BY FreeJobType DEF FailCleanup, FailAt, TypeOK
<1>2. job' = [job EXCEPT ![j] = x, ![f] = y]
  BY <1>1 DEF FailCleanup
<1>3. x.state = "failed" /\ x.name = job[j].name /\ x.pc = "done"
  BY <1>1 DEF JobRecord
<1>4. y.state = "waiting" /\ y.name = "cleanup"
  BY DEF NewJob, NoJob
<1> HIDE DEF f, x, y
<1> QED
  BY <1>1, <1>2, <1>3, <1>4

(* fail goes on next to cleanups only, so nobody's report is marked failed *)
(* but its own job's.                                                      *)
LEMMA FailedStep ==
  ASSUME TypeOK, Flow, NEW j \in Jobs, job[j].state = "failed",
         NEW pc, Goto(j, pc), pc = "failReport" => job[j].name = "report",
         pc # "failReportOnly", UNCHANGED <<files, call>>,
         notices'["ready"] = notices["ready"],
         \/ report' = report
         \/ job[j].name = "report" /\ report'.status = "FAILED"
  PROVE  Flow'
<1>1. /\ OnlyJob(j) /\ job'[j].pc = pc /\ job'[j].state = "failed"
      /\ job'[j].name = job[j].name
  BY GotoJob
<1>2. \A k \in Jobs : k # j =>
        \/ job'[k].state = "none"
        \/ job'[k].state = "waiting" /\ job'[k].name = "cleanup"
  BY <1>1, FailedJob DEF OnlyJob
<1>3. ResumesIdle' /\ ScanHasStart' /\ JobsHaveStart'
  BY HasStart
<1>4. OneWorking'
  BY <1>2 DEF OneWorking, Working
<1>5. CleanupIsLast'
  BY <1>1, <1>2 DEF CleanupIsLast, Working
<1>6. ASSUME NEW k \in Jobs PROVE Fine(job[k])'
  <2>1. CASE k = j
    <3>1. Fine(job[j])
      BY DEF Flow, JobsFine
    <3> QED
      BY <1>1, <2>1, <3>1 DEF Fine
  <2>2. CASE k # j
    BY <1>2, <2>2 DEF Fine, Written, Past
  <2> QED
    BY <2>1, <2>2
<1>7. JobsFine'
  BY <1>6 DEF JobsFine
<1> QED
  BY <1>3, <1>4, <1>5, <1>7 DEF Flow, ReportCoversUpload, OneReadyNotice

LEMMA FailFlow ==
  ASSUME TypeOK, Flow, NEW j \in Jobs, fail(j)
  PROVE  Flow'
<1> USE DEF FailAt
<1>1. Fine(job[j])
  BY DEF Flow, JobsFine
<1>2. CASE FailScan(j)
  BY <1>2, FailedStep DEF FailScan
<1>3. CASE FailReport(j)
  <2>1. job[j].name = "report" /\ Goto(j, "failFind")
    BY <1>1, <1>3 DEF FailReport, Fine
  <2>2. report'.status = "FAILED"
    BY <1>3 DEF FailReport, TypeOK
  <2> QED
    BY <1>3, <2>1, <2>2, FailedStep DEF FailReport
<1>4. CASE FailNotice(j)
  <2>1. PICK pc \in {"failCreate", "deadLetter"} : Goto(j, pc)
    BY <1>4 DEF FailNotice, CreateNotice
  <2>2. job[j].name # "ready" /\ "ready" \in Message
    BY DEF TypeOK, JobRecord, Stage, Message
  <2>3. notices'["ready"] = notices["ready"]
    BY <1>4, <2>2 DEF FailNotice, CreateNotice, dbVars, TypeOK
  <2> QED
    BY <1>4, <2>1, <2>3, FailedStep DEF FailNotice, CreateNotice, dbVars
<1>5. CASE FailDeadLetter(j)
  BY <1>5, FailedStep DEF FailDeadLetter, dbVars
<1>6. CASE FailCleanup(j)
  <2>1. PICK f \in Jobs \ {j} :
          /\ job'[j].state = "failed" /\ job'[j].name = job[j].name
          /\ job'[j].pc = "done"
          /\ job'[f].state = "waiting" /\ job'[f].name = "cleanup"
          /\ \A k \in Jobs \ {j, f} : job'[k] = job[k]
    BY <1>6, CleanupAdded
  <2>2. \A k \in Jobs : k # j =>
          \/ job[k].state = "none"
          \/ job[k].state = "waiting" /\ job[k].name = "cleanup"
    BY <1>6, FailedJob DEF FailCleanup
  <2>3. \A k \in Jobs : k # j =>
          \/ job'[k].state = "none"
          \/ job'[k].state = "waiting" /\ job'[k].name = "cleanup"
    BY <2>1, <2>2
  <2>4. ResumesIdle' /\ ScanHasStart' /\ JobsHaveStart'
    BY <1>6, HasStart DEF FailCleanup
  <2>5. OneWorking'
    BY <2>3 DEF OneWorking, Working
  <2>6. CleanupIsLast'
    BY <2>1, <2>3 DEF CleanupIsLast, Working
  <2>7. ASSUME NEW k \in Jobs PROVE Fine(job[k])'
    <3>1. CASE k = j
      BY <1>1, <1>6, <2>1, <3>1 DEF Fine, FailCleanup, dbVars
    <3>2. CASE k # j
      BY <2>3, <3>2 DEF Fine, Written, Past
    <3> QED
      BY <3>1, <3>2
  <2>8. JobsFine'
    BY <2>7 DEF JobsFine
  <2> QED
    BY <1>6, <2>4, <2>5, <2>6, <2>8
       DEF FailCleanup, dbVars, Flow, ReportCoversUpload, OneReadyNotice
<1> QED
  BY <1>2, <1>3, <1>4, <1>5, <1>6 DEF fail

LEMMA FaultFlow ==
  ASSUME TypeOK, Flow, NEW j \in Jobs, Fault(j)
  PROVE  Flow'
BY ThrowFlow, DirKept DEF Fault, InCharge, dbVars

-----------------------------------------------------------------------------
(* The requests.                                                           *)

(* What was sent once stays sent, and what went wrong once did.            *)
LEMMA CallsGo ==
  ASSUME NEW c \in Calls, NEW pc, pc # "new", CallGoto(c, pc), TypeOK
  PROVE  \A d \in Calls : call'[d].pc = "new" => call[d].pc = "new"
BY DEF CallGoto, TypeOK

LEMMA OutageCounted ==
  ASSUME TypeOK, spent' = [spent EXCEPT !.outages = @ + 1]
  PROVE  ~Alone'
BY DEF TypeOK, Alone

LEMMA AdminCounted ==
  ASSUME TypeOK, spent' = [spent EXCEPT !.admin = @ + 1]
  PROVE  ~Alone'
BY DEF TypeOK, Alone

(* A request that leaves the jobs and the directory alone.                 *)
LEMMA CallStep ==
  ASSUME Flow, UNCHANGED <<job, files, report, notices>>,
         ResumesIdle', ScanHasStart', JobsHaveStart'
  PROVE  Flow'
<1>1. ASSUME NEW j \in Jobs PROVE Fine(job[j])'
  BY DEF Flow, JobsFine, Fine, Written, Holds
<1>2. JobsFine'
  BY <1>1 DEF JobsFine
<1> QED
  BY <1>2 DEF Flow, OneWorking, CleanupIsLast, Working, ReportCoversUpload,
              OneReadyNotice

(* The only request: before it has made the scan there is none, before it  *)
(* has queued the job there is none.                                       *)
LEMMA OnlyRequest ==
  ASSUME TypeOK, Flow, NEW c \in Starts \cup Resumes, NEW pc, pc # "new",
         call' = [call EXCEPT ![c].pc = pc], Alone'
  PROVE  /\ \A d \in Starts \cup Resumes : d # c => call[d].pc = "new"
         /\ call[c].pc \in {"new", "create"} => scan.status = "none"
         /\ call[c].pc \in {"new", "create", "enqueue"} =>
              \A j \in Jobs : job[j].state = "none"
         /\ call'[c].pc = pc
         /\ \A d \in Calls : d # c => call'[d] = call[d]
<1>1. call'[c].pc = pc /\ \A d \in Calls : d # c => call'[d] = call[d]
  BY DEF TypeOK, Calls
<1>2. \A d \in Starts \cup Resumes : d # c => call[d].pc = "new"
  BY <1>1 DEF Alone, Calls
<1>3. call[c].pc \in {"new", "create"} => scan.status = "none"
  BY <1>2 DEF Flow, ScanHasStart
<1>4. call[c].pc \in {"new", "create", "enqueue"} =>
        \A j \in Jobs : job[j].state = "none"
  BY <1>2 DEF Flow, JobsHaveStart, Enqueued
<1> QED
  BY <1>1, <1>2, <1>3, <1>4

LEMMA StartFlow ==
  ASSUME TypeOK, Flow, NEW c \in Starts, startPipeline(c), Alone'
  PROVE  Flow'
<1> USE DEF CallGoto, CallAt, dbVars
<1>1. c \in Starts \cup Resumes /\ c \in Calls /\ c \notin Resumes
      /\ c \notin Cancels
  BY PipelineAssumption DEF Calls
<1>2. ASSUME NEW pc, call' = [call EXCEPT ![c].pc = pc]
      PROVE  /\ call'[c].pc = pc
             /\ \A d \in Calls : d # c => call'[d] = call[d]
  BY <1>1, <1>2 DEF TypeOK
<1>3. ASSUME NEW pc, call' = [call EXCEPT ![c].pc = pc]
      PROVE  ResumesIdle'
  BY <1>1, <1>2, <1>3 DEF Flow, ResumesIdle, Calls
<1>4. CASE StartFind(c)
  <2>1. PICK pc \in {"create", "enqueue", "done"} :
          call' = [call EXCEPT ![c].pc = pc]
    BY <1>4 DEF StartFind
  <2>2. /\ scan.status = "none" /\ \A j \in Jobs : job[j].state = "none"
        /\ \A d \in Starts \cup Resumes : d # c => call[d].pc = "new"
    BY <1>1, <1>4, <2>1, OnlyRequest DEF StartFind
  <2>3. scan'.status = "none" /\ \A j \in Jobs : job'[j].state = "none"
    BY <1>4, <2>2 DEF StartFind
  <2>4. \A d \in Cancels : call[d].pc \in {"new", "done"}
    BY <1>1, <1>4, <2>2 DEF Flow, ScanHasStart, StartFind
  <2>5. \A d \in Cancels : call'[d].pc \in {"new", "done"}
    BY <1>1, <1>2, <2>1, <2>4 DEF Calls
  <2>6. ScanHasStart' /\ JobsHaveStart'
    BY <2>3, <2>5 DEF ScanHasStart, JobsHaveStart
  <2> QED
    BY <1>3, <1>4, <2>1, <2>6, CallStep DEF StartFind
<1>5. CASE StartCreate(c)
  <2>1. PICK pc \in {"enqueue", "done"} : call' = [call EXCEPT ![c].pc = pc]
    BY <1>5 DEF StartCreate
  <2>2. /\ \A j \in Jobs : job[j].state = "none"
        /\ call'[c].pc \notin {"new", "create"}
    BY <1>1, <1>5, <2>1, OnlyRequest DEF StartCreate
  <2>3. ScanHasStart' /\ JobsHaveStart'
    BY <1>5, <2>2 DEF StartCreate, ScanHasStart, JobsHaveStart
  <2> QED
    BY <1>3, <1>5, <2>1, <2>3, CallStep DEF StartCreate
<1>6. CASE StartEnqueue(c)
  <2> DEFINE f == FreeJob
  <2>1. f \in Jobs /\ job' = [job EXCEPT ![f] = NewJob("download", TRUE)]
    BY <1>6, FreeJobType DEF StartEnqueue, AddJob
  <2> HIDE DEF f
  <2>2. \A j \in Jobs : job[j].state = "none"
    BY <1>1, <1>6, OnlyRequest DEF StartEnqueue
  <2>3. /\ job'[f].state = "waiting" /\ job'[f].name = "download"
        /\ job'[f].pc = "start"
        /\ \A k \in Jobs : k # f => job'[k] = job[k]
    BY <2>1 DEF TypeOK, NewJob, NoJob
  <2>4. \A k \in Jobs : k # f => job'[k].state = "none"
    BY <2>2, <2>3
  <2>5. OneWorking' /\ CleanupIsLast'
    BY <2>3, <2>4 DEF OneWorking, CleanupIsLast, Working
  <2>6. ASSUME NEW k \in Jobs PROVE Fine(job[k])'
    BY <2>3, <2>4 DEF Fine, Written, Past
  <2>7. JobsFine'
    BY <2>6 DEF JobsFine
  <2>8. call'[c].pc = "status"
    BY <1>2, <1>6 DEF StartEnqueue
  <2>9. ScanHasStart' /\ JobsHaveStart'
    BY <2>8 DEF ScanHasStart, JobsHaveStart, Enqueued
  <2> QED
    BY <1>3, <1>6, <2>5, <2>7, <2>9
       DEF StartEnqueue, Flow, ReportCoversUpload, OneReadyNotice
<1>7. CASE StartStatus(c) \/ StartRunning(c)
  <2>1. PICK pc \in {"running", "done"} : call' = [call EXCEPT ![c].pc = pc]
    BY <1>7 DEF StartStatus, StartRunning
  <2>2. call'[c].pc \in {"running", "done"}
    BY <1>2, <2>1
  <2>3. ScanHasStart' /\ JobsHaveStart'
    BY <2>2 DEF ScanHasStart, JobsHaveStart, Enqueued
  <2> QED
    BY <1>3, <1>7, <2>1, <2>3, CallStep DEF StartStatus, StartRunning
<1> QED
  BY <1>4, <1>5, <1>6, <1>7 DEF startPipeline

LEMMA ResumeFlow ==
  ASSUME TypeOK, Flow, NEW c \in Resumes, resumePipeline(c), Alone'
  PROVE  Flow'
<1> USE DEF CallGoto, CallAt, dbVars
<1>1. c \in Starts \cup Resumes /\ c \in Calls /\ c \notin Starts
      /\ c \notin Cancels
  BY PipelineAssumption DEF Calls
<1>2. ResumeRead(c)
  BY DEF resumePipeline, ResumeStatus, ResumeRunning, ResumeEnqueue, Flow,
         ResumesIdle
<1>3. CASE scan.status \in DOMAIN StepForStatus
  <2>1. scan.status # "none"
    BY <1>3 DEF StepForStatus
  <2>2. PICK d \in Starts : call[d].pc \notin {"new", "create"}
    BY <2>1 DEF Flow, ScanHasStart
  <2>3. \E x \in {"done", "status"} : call'[c].pc = x
    BY <1>1, <1>2 DEF ResumeRead, TypeOK
  <2>4. call'[d] = call[d]
    <3>1. c # d /\ d \in Calls /\ DOMAIN call = Calls
      BY <1>1, <2>2 DEF Calls, TypeOK
    <3>2. PICK x : call' = [call EXCEPT ![c] = x]
      BY <1>2 DEF ResumeRead
    <3> QED
      BY <3>1, <3>2
  <2>5. call'[c].pc # "new" /\ call'[d].pc # "new"
    BY <2>2, <2>3, <2>4
  <2>6. c # d /\ d \in Starts \cup Resumes
    BY <1>1, <2>2
  <2> QED
    BY <1>1, <2>5, <2>6 DEF Alone
<1>4. CASE scan.status \notin DOMAIN StepForStatus
  <2>1. call' = [call EXCEPT ![c].pc = "done"]
    BY <1>2, <1>4 DEF ResumeRead
  <2>2. call'[c].pc = "done" /\ \A d \in Calls : d # c => call'[d] = call[d]
    BY <1>1, <2>1 DEF TypeOK
  <2>3. ResumesIdle'
    BY <2>2 DEF Flow, ResumesIdle, Calls
  <2>4. \A d \in Starts \cup Cancels : call'[d] = call[d]
    BY <1>1, <2>2 DEF Calls
  <2>5. ScanHasStart' /\ JobsHaveStart'
    BY <1>2, <2>4
       DEF ResumeRead, Flow, ScanHasStart, JobsHaveStart, Enqueued
  <2> QED
    BY <1>2, <2>3, <2>5, CallStep DEF ResumeRead
<1> QED
  BY <1>3, <1>4

LEMMA CancelFlow ==
  ASSUME TypeOK, Flow, NEW c \in Cancels, cancelPipeline(c)
  PROVE  Flow'
<1> USE DEF CallGoto, CallAt, dbVars
<1>1. c \in Calls /\ c \notin Starts /\ c \notin Resumes
  BY PipelineAssumption DEF Calls
<1>2. PICK pc \in {"done", "remove", "status", "final"} :
        call' = [call EXCEPT ![c].pc = pc]
  BY DEF cancelPipeline, CancelRead, CancelRemove, CancelStatus, CancelFinal
<1>3. \A d \in Calls : d # c => call'[d] = call[d]
  BY <1>2 DEF TypeOK
<1>4. \A d \in Starts \cup Resumes : call'[d] = call[d]
  BY <1>1, <1>3 DEF Calls
<1>5. ResumesIdle'
  BY <1>4 DEF Flow, ResumesIdle
<1>6. ScanHasStart'
  <2>1. \/ scan.status # "none"
        \/ call[c].pc \notin {"new", "done"}
        \/ scan' = scan /\ call'[c].pc = "done"
    BY <1>1
       DEF cancelPipeline, CancelRead, CancelRemove, CancelStatus,
           CancelFinal, Terminal, TypeOK
  <2>2. CASE \/ scan.status # "none"
             \/ call[c].pc \notin {"new", "done"}
    BY <1>4, <2>2 DEF Flow, ScanHasStart
  <2>3. CASE scan' = scan /\ call'[c].pc = "done"
    <3>1. \A d \in Cancels : call'[d].pc \notin {"new", "done"} =>
            call[d].pc \notin {"new", "done"}
      BY <1>3, <2>3 DEF Calls
    <3> QED
      BY <1>4, <2>3, <3>1 DEF Flow, ScanHasStart
  <2> QED
    BY <2>1, <2>2, <2>3
<1>7. Enqueued => Enqueued'
  BY <1>4 DEF Enqueued
<1>8. CASE CancelRemove(c)
  <2>1. \A j \in Jobs : job'[j] = job[j] \/ job'[j].state = "none"
    BY <1>8 DEF CancelRemove, NoJob
  <2>2. JobsHaveStart'
    BY <1>7, <2>1 DEF Flow, JobsHaveStart
  <2>3. OneWorking' /\ CleanupIsLast'
    BY <2>1 DEF Flow, OneWorking, CleanupIsLast, Working
  <2>4. ASSUME NEW k \in Jobs PROVE Fine(job[k])'
    <3>1. CASE job'[k].state = "none"
      BY <3>1 DEF Fine
    <3>2. CASE job'[k] = job[k]
      BY <1>8, <3>2
         DEF CancelRemove, Flow, JobsFine, Fine, Written, Holds
    <3> QED
      BY <2>1, <3>1, <3>2
  <2>5. JobsFine'
    BY <2>4 DEF JobsFine
  <2> QED
    BY <1>5, <1>6, <1>8, <2>2, <2>3, <2>5
       DEF CancelRemove, Flow, ReportCoversUpload, OneReadyNotice
<1>9. CASE CancelRead(c) \/ CancelStatus(c) \/ CancelFinal(c)
  <2>1. JobsHaveStart'
    BY <1>7, <1>9
       DEF CancelRead, CancelStatus, CancelFinal, Flow, JobsHaveStart
  <2> QED
    BY <1>5, <1>6, <1>9, <2>1, CallStep
       DEF CancelRead, CancelStatus, CancelFinal
<1> QED
  BY <1>8, <1>9 DEF cancelPipeline

-----------------------------------------------------------------------------
(* A step that leaves the request alone the only one began with at most    *)
(* that one, and without outage or administrator.                          *)
LEMMA AloneBefore ==
  ASSUME TypeOK, [Next]_vars, Alone'
  PROVE  Alone
<1> USE DEF CallGoto, dbVars
<1>1. ASSUME /\ \A c \in Calls : call'[c].pc = "new" => call[c].pc = "new"
             /\ spent'.outages = spent.outages /\ spent'.admin = spent.admin
      PROVE  Alone
  BY <1>1 DEF Alone, Calls
<1>2. CASE UNCHANGED <<call, spent>>
  BY <1>1, <1>2
<1>3. ASSUME NEW c \in Calls, NEW pc, pc # "new",
             call' = [call EXCEPT ![c].pc = pc], UNCHANGED spent
      PROVE  Alone
  BY <1>1, <1>3, CallsGo
<1>4. CASE Requests
  <2>1. ASSUME NEW c \in Starts, startPipeline(c) PROVE Alone
    BY <1>3, <2>1
       DEF startPipeline, StartFind, StartCreate, StartEnqueue, StartStatus,
           StartRunning, Calls
  <2>2. ASSUME NEW c \in Cancels, cancelPipeline(c) PROVE Alone
    BY <1>3, <2>2
       DEF cancelPipeline, CancelRead, CancelRemove, CancelStatus,
           CancelFinal, Calls
  <2>3. ASSUME NEW c \in Resumes, resumePipeline(c) PROVE Alone
    <3>1. CASE ResumeRead(c) /\ scan.status \in DOMAIN StepForStatus
      <4>1. PICK x : call' = [call EXCEPT ![c] = [pc |-> "status", step |-> x]]
        BY <3>1 DEF ResumeRead
      <4>2. \A d \in Calls : call'[d].pc = "new" => call[d].pc = "new"
        BY <4>1 DEF TypeOK
      <4> QED
        BY <1>1, <3>1, <4>2 DEF ResumeRead
    <3>2. CASE \/ ResumeRead(c) /\ scan.status \notin DOMAIN StepForStatus
               \/ ResumeStatus(c) \/ ResumeRunning(c) \/ ResumeEnqueue(c)
      BY <1>3, <3>2
         DEF ResumeRead, ResumeStatus, ResumeRunning, ResumeEnqueue, Calls
    <3> QED
      BY <2>3, <3>1, <3>2 DEF resumePipeline
  <2> QED
    BY <1>4, <2>1, <2>2, <2>3 DEF Requests
<1>5. ASSUME NEW j \in Jobs, WorkerStep(j) PROVE Alone
  BY <1>2, <1>5
     DEF WorkerStep, Processor, fail, FailScan, FailReport, FailNotice,
         FailDeadLetter, FailCleanup
<1>6. CASE Administrator
  BY <1>6, AdminCounted DEF Administrator, retryJob, removeJob
<1>7. CASE Environment
  <2>1. ASSUME NEW j \in Jobs, Fault(j) PROVE Alone
    <3>1. /\ spent'.outages = spent.outages /\ spent'.admin = spent.admin
          /\ call' = call
      BY <2>1 DEF Fault, TypeOK
    <3> QED
      BY <1>1, <3>1
  <2> QED
    BY <1>7, <2>1, OutageCounted
       DEF Environment, ApiCrash, WorkerCrash, WriteRefused, ListenerCrash
<1>8. CASE UNCHANGED vars
  BY <1>2, <1>8 DEF vars
<1> QED
  BY <1>4, <1>5, <1>6, <1>7, <1>8 DEF Next

LEMMA StutterFlow == Flow /\ UNCHANGED vars => Flow'
BY DEF vars, Flow, ResumesIdle, ScanHasStart, JobsHaveStart, Enqueued,
       OneWorking, CleanupIsLast, JobsFine, Fine, Written, Holds, Working,
       ReportCoversUpload, OneReadyNotice

LEMMA NextFlow ==
  ASSUME TypeOK, Flow, [Next]_vars, Alone'
  PROVE  Flow'
<1>1. CASE Requests
  BY <1>1, StartFlow, CancelFlow, ResumeFlow DEF Requests
<1>2. ASSUME NEW j \in Jobs, WorkerStep(j) PROVE Flow'
  BY <1>2, ProcessorFlow, FailFlow DEF WorkerStep
<1>3. CASE Administrator
  BY <1>3, AdminCounted DEF Administrator, retryJob, removeJob
<1>4. CASE Environment
  BY <1>4, FaultFlow, OutageCounted
     DEF Environment, ApiCrash, WorkerCrash, WriteRefused, ListenerCrash
<1>5. CASE UNCHANGED vars
  BY <1>5, StutterFlow
<1> QED
  BY <1>1, <1>2, <1>3, <1>4, <1>5 DEF Next

LEMMA InitFlow == Init => Flow
<1> SUFFICES ASSUME Init PROVE Flow
  OBVIOUS
<1>1. \A j \in Jobs : job[j].state = "none"
  BY DEF Init, NoJob
<1>2. \A c \in Calls : call[c].pc = "new"
  BY DEF Init
<1>3. ResumesIdle /\ ScanHasStart
  BY <1>2 DEF Init, ResumesIdle, ScanHasStart, Calls
<1>4. JobsHaveStart /\ OneWorking /\ CleanupIsLast /\ JobsFine
  BY <1>1 DEF JobsHaveStart, OneWorking, CleanupIsLast, JobsFine, Fine, Working
<1>5. ReportCoversUpload /\ OneReadyNotice
  BY DEF Init, ReportCoversUpload, OneReadyNotice, Message
<1> QED
  BY <1>3, <1>4, <1>5 DEF Flow

LEMMA SpecRunInv == Spec => []RunInv
<1>1. Init => RunInv
  BY InitType, InitFlow DEF RunInv
<1>2. RunInv /\ [Next]_vars => RunInv'
  BY NextType, AloneBefore, NextFlow DEF RunInv
<1> QED
  BY <1>1, <1>2, PTL DEF Spec

(* One accepted request is one pipeline: at no time do two of its stages   *)
(* wait or run, whatever faults, retries and cancellations come.           *)
THEOREM PipelineOneRun == Spec => [](Alone => OneRun)
<1>1. ASSUME Flow PROVE OneRun
  <2> DEFINE S == {j \in Jobs : Live(j) /\ job[j].name # "cleanup"}
  <2>1. \A j, k \in S : j = k
    BY <1>1 DEF Flow, OneWorking, Working, Live
  <2> HIDE DEF S
  <2>2. ASSUME S = {} PROVE Cardinality(S) <= 1
    <3>1. Cardinality({}) = 0
      BY FS_EmptySet
    <3> QED
      BY <2>2, <3>1
  <2>3. ASSUME NEW k \in S PROVE Cardinality(S) <= 1
    <3>1. S = {k}
      BY <2>1, <2>3
    <3>2. Cardinality({k}) = 1
      BY FS_Singleton
    <3> QED
      BY <3>1, <3>2
  <2>4. Cardinality(S) <= 1
    BY <2>2, <2>3
  <2> QED
    BY <2>4 DEF OneRun, S
<1>2. RunInv => (Alone => OneRun)
  BY <1>1 DEF RunInv
<1> QED
  BY <1>2, SpecRunInv, PTL

(* A report marked READY was made from the whole upload: no failure, retry *)
(* or cancellation lets a stage of the run read files that are not yet     *)
(* written or already deleted.                                             *)
THEOREM PipelineReportCoversUpload == Spec => [](Alone => ReportCoversUpload)
<1>1. RunInv => (Alone => ReportCoversUpload)
  BY DEF RunInv, Flow
<1> QED
  BY <1>1, SpecRunInv, PTL

(* However often notify is retried, the user is told once.                 *)
THEOREM PipelineOneReadyNotice == Spec => [](Alone => OneReadyNotice)
<1>1. RunInv => (Alone => OneReadyNotice)
  BY DEF RunInv, Flow
<1> QED
  BY <1>1, SpecRunInv, PTL

-----------------------------------------------------------------------------
(* Cancellation.  What is left of a pipeline that was cancelled at rest:   *)
(* one job at most, and the first thing it does is to find the status.     *)
Stopped ==
  /\ report.status # "READY"
  /\ \A c \in Starts \cup Resumes : call[c].pc = "done"
  /\ \A j \in Jobs : Working(job[j]) =>
       \/ job[j].state = "failed"
       \/ /\ job[j].state = "waiting"
          /\ job[j].name # "notify"
          /\ scan.status = "CANCELLED"

LEMMA CancelledStopped ==
  ASSUME TypeOK, Flow, CancelledAtRest
  PROVE  Stopped
<1>1. ASSUME NEW j \in Jobs, Working(job[j]), job[j].state # "failed"
      PROVE  job[j].state = "waiting" /\ job[j].name # "notify"
  <2>1. job[j].state = "waiting"
    BY <1>1 DEF CancelledAtRest, Working, TypeOK, JobRecord, JobState
  <2>2. Fine(job[j])
    BY DEF Flow, JobsFine
  <2> QED
    BY <2>1, <2>2 DEF Fine, CancelledAtRest
<1> QED
  BY <1>1 DEF CancelledAtRest, Stopped

(* An attempt of the job that is left throws.                              *)
LEMMA ThrowStopped ==
  ASSUME TypeOK, Flow, Stopped, NEW j \in Jobs, InCharge(j), Throw(j),
         UNCHANGED <<scan, report, call>>
  PROVE  Stopped'
<1>1. job[j] \in JobRecord /\ Working(job[j])
  BY DEF TypeOK, InCharge, Live, Working
<1>2. OnlyJob(j) /\ job'[j] = Thrown(job[j])
  BY DEF Throw, OnlyJob, TypeOK
<1>3. \A k \in Jobs : k # j => job'[k].state = "none"
  BY <1>2, SoleJob DEF OnlyJob, InCharge
<1>4. /\ job[j].state = "waiting" /\ job[j].name # "notify"
      /\ scan.status = "CANCELLED"
  BY <1>1 DEF Stopped, InCharge, Live
<1>5. /\ job'[j].state \in {"waiting", "failed"}
      /\ job'[j].name = job[j].name
  BY <1>1, <1>2 DEF Thrown, JobRecord
<1> QED
  BY <1>3, <1>4, <1>5 DEF Stopped, Working

LEMMA WorkerStopped ==
  ASSUME TypeOK, Flow, Stopped, NEW j \in Jobs, WorkerStep(j)
  PROVE  Stopped'
<1>1. CASE Cleanup(j) /\ UNCHANGED call
  <2>1. /\ job'[j].state = "none"
        /\ \A k \in Jobs : k # j => job'[k] = job[k]
    BY <1>1 DEF Cleanup, NoJob, TypeOK
  <2> QED
    BY <1>1, <2>1 DEF Cleanup, dbVars, Stopped, Working
<1>2. CASE Processor(j) /\ ~Cleanup(j)
  <2>1. Live(j) /\ job[j].name # "cleanup" /\ UNCHANGED call
    BY <1>2
       DEF Processor, Download, Extract, Parse, Merge, Analyze, Report,
           Notify, TakeAndAssert, Reassert, Takes, At, Live
  <2>2. /\ job[j].state = "waiting" /\ job[j].name # "notify" /\ ~Active
    BY <2>1 DEF Stopped, Working, Live, Active
  <2>3. Throw(j) /\ UNCHANGED dbVars
    BY <1>2, <2>2
       DEF Processor, Download, Extract, Parse, Merge, Analyze, Report,
           Notify, TakeAndAssert, Reassert, Takes, At
  <2> QED
    BY <2>1, <2>3, ThrowStopped DEF InCharge, dbVars
<1>3. CASE fail(j)
  <2>1. /\ job[j].state = "failed" /\ UNCHANGED call
        /\ report'.status \in {report.status, "FAILED"}
    BY <1>3
       DEF fail, FailScan, FailReport, FailNotice, FailDeadLetter,
           FailCleanup, FailAt, CreateNotice, dbVars, TypeOK
  <2>2. \A k \in Jobs : k # j =>
          \/ job[k].state = "none"
          \/ job[k].state = "waiting" /\ job[k].name = "cleanup"
    BY <2>1, FailedJob
  <2>3. ASSUME NEW pc, Goto(j, pc)
        PROVE  \A k \in Jobs : Working(job[k])' => job'[k].state = "failed"
    BY <2>1, <2>2, <2>3, GotoJob DEF OnlyJob, Working
  <2>4. ASSUME FailCleanup(j)
        PROVE  \A k \in Jobs : Working(job[k])' => job'[k].state = "failed"
    <3>1. PICK f \in Jobs \ {j} :
            /\ job'[j].state = "failed" /\ job'[f].name = "cleanup"
            /\ \A k \in Jobs \ {j, f} : job'[k] = job[k]
      BY <2>4, CleanupAdded
    <3> QED
      BY <2>2, <3>1 DEF Working
  <2>5. FailCleanup(j) \/ \E pc : Goto(j, pc)
    BY <1>3
       DEF fail, FailScan, FailReport, FailNotice, FailDeadLetter,
           CreateNotice
  <2>6. \A k \in Jobs : Working(job[k])' => job'[k].state = "failed"
    BY <2>3, <2>4, <2>5
  <2> QED
    BY <2>1, <2>6 DEF Stopped
<1> QED
  BY <1>1, <1>2, <1>3 DEF WorkerStep, Processor

LEMMA CallsStopped ==
  ASSUME TypeOK, Stopped, Requests
  PROVE  Stopped'
<1> USE DEF CallAt, CallGoto, dbVars
<1>1. ASSUME NEW c \in Starts, startPipeline(c) PROVE FALSE
  BY <1>1
     DEF startPipeline, StartFind, StartCreate, StartEnqueue, StartStatus,
         StartRunning, Stopped
<1>2. ASSUME NEW c \in Resumes, resumePipeline(c) PROVE FALSE
  BY <1>2
     DEF resumePipeline, ResumeRead, ResumeStatus, ResumeRunning,
         ResumeEnqueue, Stopped
<1>3. PICK c \in Cancels : cancelPipeline(c)
  BY <1>1, <1>2 DEF Requests
<1>4. PICK x : call' = [call EXCEPT ![c].pc = x]
  BY <1>3
     DEF cancelPipeline, CancelRead, CancelRemove, CancelStatus, CancelFinal
<1>5. \A d \in Starts \cup Resumes : call'[d] = call[d]
  BY <1>4, PipelineAssumption DEF TypeOK, Calls
<1>6. \A j \in Jobs : job'[j] = job[j] \/ job'[j].state = "none"
  BY <1>3
     DEF cancelPipeline, CancelRead, CancelRemove, CancelStatus,
         CancelFinal, NoJob
<1>7. scan'.status \in {scan.status, "CANCELLED"} /\ report' = report
  BY <1>3
     DEF cancelPipeline, CancelRead, CancelRemove, CancelStatus,
         CancelFinal, TypeOK
<1> QED
  BY <1>5, <1>6, <1>7 DEF Stopped, Working

LEMMA NextStopped ==
  ASSUME TypeOK, Flow, Stopped, [Next]_vars, Alone'
  PROVE  Stopped'
<1>1. ASSUME NEW j \in Jobs, Fault(j) PROVE Stopped'
  BY <1>1, ThrowStopped DEF Fault, InCharge, dbVars
<1>2. CASE UNCHANGED vars
  BY <1>2 DEF vars, Stopped, Working
<1>3. CASE Environment
  BY <1>1, <1>3, OutageCounted
     DEF Environment, ApiCrash, WorkerCrash, WriteRefused, ListenerCrash
<1>4. CASE Administrator
  BY <1>4, AdminCounted DEF Administrator, retryJob, removeJob
<1> QED
  BY <1>2, <1>3, <1>4, WorkerStopped, CallsStopped DEF Next

(* A cancellation that finds no handler running is final in its effect: in *)
(* a behaviour with one request, and without outage or administrator, no   *)
(* queued job, retry or failure handler publishes a report after it.       *)
THEOREM PipelineCancelStops == Spec /\ []Alone => CancelStops
<1>1. RunInv /\ Alone /\ CancelledAtRest => Stopped
  BY CancelledStopped DEF RunInv
<1>2. RunInv /\ Alone /\ Alone' /\ Stopped /\ [Next]_vars => Stopped'
  BY NextStopped DEF RunInv
<1>3. Stopped => report.status # "READY"
  BY DEF Stopped
<1> QED
  BY <1>1, <1>2, <1>3, SpecRunInv, PTL DEF Spec, CancelStops

-----------------------------------------------------------------------------
(* The working directory, for any number of requests: as long as nobody    *)
(* cancels and nothing dies, it belongs to a job or to a failure handler.  *)
Owner(j) == Live(j) \/ FailHandlerRunning(j)

DirOwned ==
  Undisturbed /\ files["dir"] # "absent" => \E j \in Jobs : Owner(j)

LEMMA ThrowOwner ==
  ASSUME TypeOK, NEW j \in Jobs, job[j].name # "cleanup", Throw(j)
  PROVE  Owner(j)'
<1>1. job[j] \in JobRecord /\ job'[j] = Thrown(job[j])
  BY DEF TypeOK, Throw
<1>2. \/ job'[j].state = "waiting"
      \/ job'[j].state = "failed" /\ job'[j].pc = "failScan"
  BY <1>1 DEF Thrown, JobRecord
<1> QED
  BY <1>2 DEF Owner, Live, FailHandlerRunning, FailPoint

(* A handler hands the directory to its own retry, to its successor or to  *)
(* fail; cleanup removes it.                                               *)
LEMMA ProcessorOwner ==
  ASSUME TypeOK, NEW j \in Jobs, Processor(j), ~Cleanup(j)
  PROVE  Owner(j)'
<1>1. Live(j) /\ job[j].name # "cleanup"
  BY DEF Processor, Download, Extract, Parse, Merge, Analyze, Report,
         Notify, TakeAndAssert, Reassert, Takes, At, Live
<1>2. ASSUME NEW pc, Goto(j, pc) PROVE Owner(j)'
  BY <1>1, <1>2, GotoJob DEF Owner, Live
<1>3. ASSUME NEW pc, Begin(j, pc) PROVE Owner(j)'
  BY <1>3, BeginJob DEF Owner, Live
<1>4. CASE Handoff(j)
  BY <1>1, <1>4, SuccessorJob DEF Owner, Live
<1>5. CASE Throw(j)
  BY <1>1, <1>5, ThrowOwner
<1>6. ASSUME NEW pc, NEW data,
             \/ job' = [job EXCEPT ![j].state = "active", ![j].pc = pc,
                                   ![j].data = data]
             \/ job' = [job EXCEPT ![j].pc = pc, ![j].data = data]
      PROVE  Owner(j)'
  <2>1. job[j] \in JobRecord
    BY DEF TypeOK
  <2>2. job'[j].state \in {"active", job[j].state}
    BY <1>6, <2>1 DEF TypeOK, JobRecord
  <2> QED
    BY <1>1, <2>2 DEF Owner, Live
<1>7. CASE Download(j) \/ Extract(j) \/ Parse(j) \/ Merge(j) \/ Notify(j)
  BY <1>2, <1>3, <1>4, <1>5, <1>7
     DEF Download, Extract, Parse, Merge, Notify, TakeAndAssert, Reassert,
         AssertActive, MarkScan, CreateNotice
<1>8. CASE Analyze(j)
  BY <1>2, <1>4, <1>5, <1>6, <1>8 DEF Analyze, AssertActive, MarkScan
<1>9. CASE Report(j)
  BY <1>2, <1>4, <1>5, <1>6, <1>9
     DEF Report, Reassert, AssertActive, MarkScan
<1> QED
  BY <1>7, <1>8, <1>9 DEF Processor

(* fail keeps it until it has queued a cleanup.                            *)
LEMMA FailOwner ==
  ASSUME TypeOK, NEW j \in Jobs, fail(j)
  PROVE  \E k \in Jobs : Owner(k)'
<1>1. job[j].state = "failed"
  BY DEF fail, FailScan, FailReport, FailNotice, FailDeadLetter,
         FailCleanup, FailAt
<1>2. ASSUME NEW pc \in FailPoint, Goto(j, pc) PROVE Owner(j)'
  BY <1>1, <1>2, GotoJob DEF Owner, FailHandlerRunning
<1>3. CASE FailCleanup(j)
  <2>1. \E f \in Jobs : job'[f].state = "waiting"
    BY <1>3, CleanupAdded
  <2> QED
    BY <2>1 DEF Owner, Live
<1>4. CASE ~FailCleanup(j)
  <2>1. \E pc \in FailPoint : Goto(j, pc)
    BY <1>4
       DEF fail, FailScan, FailReport, FailNotice, FailDeadLetter,
           CreateNotice, FailPoint
  <2> QED
    BY <1>2, <2>1
<1> QED
  BY <1>3, <1>4

LEMMA RequestsOwned ==
  ASSUME TypeOK, DirOwned, Requests
  PROVE  DirOwned'
<1> USE DEF CallAt, CallGoto, dbVars
<1>1. ASSUME NEW c \in Starts \cup Resumes, NEW x,
             call' = [call EXCEPT ![c] = x]
      PROVE  \A d \in Cancels : call'[d] = call[d]
  BY <1>1, PipelineAssumption DEF TypeOK, Calls
<1>2. ASSUME \A d \in Cancels : call'[d] = call[d], UNCHANGED <<files, spent>>,
             \/ job' = job
             \/ \E stage : AddJob(stage)
      PROVE  DirOwned'
  <2>1. Undisturbed' => Undisturbed
    BY <1>2 DEF Undisturbed
  <2>2. ASSUME NEW j \in Jobs, Owner(j) PROVE Owner(j)'
    <3>1. job[j].state # "none"
      BY <2>2 DEF Owner, Live, FailHandlerRunning
    <3>2. job'[j] = job[j]
      <4>1. ASSUME NEW stage, AddJob(stage) PROVE job'[j] = job[j]
        BY <3>1, <4>1, FreeJobType DEF AddJob, TypeOK
      <4> QED
        BY <1>2, <4>1
    <3> QED
      BY <2>2, <3>2 DEF Owner, Live, FailHandlerRunning
  <2> QED
    BY <1>2, <2>1, <2>2 DEF DirOwned
<1>3. ASSUME NEW c \in Starts, startPipeline(c) PROVE DirOwned'
  <2>1. \E pc : call' = [call EXCEPT ![c].pc = pc]
    BY <1>3
       DEF startPipeline, StartFind, StartCreate, StartEnqueue, StartStatus,
           StartRunning
  <2>2. \E x : call' = [call EXCEPT ![c] = x]
    BY <2>1
  <2> QED
    BY <1>1, <1>2, <1>3, <2>2
       DEF startPipeline, StartFind, StartCreate, StartEnqueue, StartStatus,
           StartRunning
<1>4. ASSUME NEW c \in Resumes, resumePipeline(c) PROVE DirOwned'
  <2>1. \E x : call' = [call EXCEPT ![c] = x]
    BY <1>4
       DEF resumePipeline, ResumeRead, ResumeStatus, ResumeRunning,
           ResumeEnqueue
  <2> QED
    BY <1>1, <1>2, <1>4, <2>1
       DEF resumePipeline, ResumeRead, ResumeStatus, ResumeRunning,
           ResumeEnqueue
<1>5. ASSUME NEW c \in Cancels, cancelPipeline(c) PROVE DirOwned'
  <2>1. PICK pc \in {"done", "remove", "status", "final"} :
          call' = [call EXCEPT ![c].pc = pc]
    BY <1>5
       DEF cancelPipeline, CancelRead, CancelRemove, CancelStatus,
           CancelFinal
  <2>2. call'[c].pc # "new"
    BY <2>1 DEF TypeOK, Calls
  <2> QED
    BY <2>2 DEF DirOwned, Undisturbed
<1> QED
  BY <1>3, <1>4, <1>5 DEF Requests

LEMMA OutageDisturbs ==
  ASSUME TypeOK, \/ spent' = [spent EXCEPT !.outages = @ + 1]
                 \/ spent' = [spent EXCEPT !.admin = @ + 1]
  PROVE  DirOwned'
BY DEF TypeOK, DirOwned, Undisturbed

LEMMA NextOwned ==
  ASSUME TypeOK, DirOwned, [Next]_vars
  PROVE  DirOwned'
<1>1. ASSUME NEW j \in Jobs, WorkerStep(j) PROVE DirOwned'
  <2>1. CASE Cleanup(j)
    <3>1. files'["dir"] = "absent"
      BY <2>1 DEF Cleanup, Artifact
    <3> QED
      BY <3>1 DEF DirOwned
  <2> QED
    BY <1>1, <2>1, ProcessorOwner, FailOwner DEF WorkerStep, DirOwned
<1>2. ASSUME NEW j \in Jobs, Fault(j) PROVE DirOwned'
  BY <1>2, ThrowOwner DEF Fault, DirOwned
<1>3. CASE Environment
  BY <1>2, <1>3, OutageDisturbs
     DEF Environment, ApiCrash, WorkerCrash, WriteRefused, ListenerCrash
<1>4. CASE Administrator
  BY <1>4, OutageDisturbs DEF Administrator, retryJob, removeJob
<1>5. CASE UNCHANGED vars
  BY <1>5
     DEF vars, DirOwned, Undisturbed, Owner, Live, FailHandlerRunning
<1> QED
  BY <1>1, <1>3, <1>4, <1>5, RequestsOwned DEF Next

(* When nothing runs any more the working directory is gone, however many  *)
(* runs overlapped and however they ended, unless someone cancelled or     *)
(* interfered, or a process died.                                          *)
THEOREM PipelineWorkspaceReclaimed == Spec => []WorkspaceReclaimed
<1>1. Init => DirOwned
  BY DEF Init, Artifact, DirOwned
<1>2. TypeOK /\ DirOwned /\ [Next]_vars => DirOwned'
  BY NextOwned
<1>3. DirOwned => WorkspaceReclaimed
  BY DEF DirOwned, Owner, WorkspaceReclaimed, Quiet
<1> QED
  BY <1>1, <1>2, <1>3, PipelineTypeOK, PTL DEF Spec
=============================================================================
