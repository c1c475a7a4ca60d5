---------------------------- MODULE PipelineProofs ----------------------------
(***************************************************************************)
(* The pipeline for every number of requests, jobs, attempts and failures: *)
(* types, and no completion or announcement without a report.              *)
(***************************************************************************)
EXTENDS Pipeline, TLAPS

-----------------------------------------------------------------------------
(* Jobs                                                                    *)

LEMMA NoJobType == NoJob \in JobRecord
BY PipelineAssumption DEF NoJob, JobRecord, JobState, Stage, Point, Content

LEMMA NewJobType ==
  ASSUME NEW name \in Stage, NEW envelope \in BOOLEAN
  PROVE  NewJob(name, envelope) \in JobRecord
BY NoJobType DEF NewJob, JobRecord, JobState, Point

LEMMA ThrownType ==
  ASSUME NEW jb \in JobRecord
  PROVE  Thrown(jb) \in JobRecord
<1>1. CASE jb.attempts + 1 < MaxAttempts
  <2>1. jb.attempts + 1 \in 0..MaxAttempts
    BY <1>1, PipelineAssumption DEF JobRecord
  <2>2. Thrown(jb) = [jb EXCEPT !.state = "waiting", !.pc = "start",
                                !.data = "absent", !.attempts = @ + 1]
    BY <1>1 DEF Thrown
  <2> QED
    BY <2>1, <2>2 DEF JobRecord, JobState, Point, Content
<1>2. CASE ~(jb.attempts + 1 < MaxAttempts)
  <2>1. MaxAttempts \in 0..MaxAttempts
    BY PipelineAssumption
  <2>2. PICK pc \in Point :
          Thrown(jb) = [jb EXCEPT !.state = "failed", !.data = "absent",
                                  !.attempts = MaxAttempts, !.pc = pc]
    BY <1>2 DEF Thrown, Point, FailPoint
  <2> QED
    BY <2>1, <2>2 DEF JobRecord, JobState, Content
<1> QED
  BY <1>1, <1>2

LEMMA FreeJobType ==
  ASSUME FreeJobs # {}
  PROVE  FreeJob \in Jobs /\ job[FreeJob].state = "none"
BY DEF FreeJob, FreeJobs

LEMMA GotoType ==
  ASSUME job \in [Jobs -> JobRecord], NEW j \in Jobs, NEW pc \in Point,
         Goto(j, pc)
  PROVE  job' \in [Jobs -> JobRecord]
BY DEF Goto, JobRecord

LEMMA BeginType ==
  ASSUME job \in [Jobs -> JobRecord], NEW j \in Jobs, NEW pc \in Point,
         Begin(j, pc)
  PROVE  job' \in [Jobs -> JobRecord]
BY DEF Begin, JobRecord, JobState

LEMMA ThrowType ==
  ASSUME job \in [Jobs -> JobRecord], NEW j \in Jobs, Throw(j)
  PROVE  job' \in [Jobs -> JobRecord]
BY ThrownType DEF Throw

LEMMA HandoffType ==
  ASSUME job \in [Jobs -> JobRecord], NEW j \in Jobs,
         job[j].name # "cleanup", Handoff(j)
  PROVE  job' \in [Jobs -> JobRecord]
<1>1. NextStage[job[j].name] \in Stage
  BY DEF NextStage, Stage, JobRecord
<1>2. Successor(j) \in JobRecord
  BY <1>1, NewJobType DEF Successor
<1> QED
  BY <1>2 DEF Handoff

-----------------------------------------------------------------------------
LEMMA InitType == Init => TypeOK
<1> SUFFICES ASSUME Init PROVE TypeOK
  OBVIOUS
<1>1. job \in [Jobs -> JobRecord]
  BY NoJobType DEF Init
<1> QED
  BY <1>1, PipelineAssumption
     DEF Init, TypeOK, ScanStatus, PipelineStatus, Content, Message, Stage,
         CallPoint

LEMMA StartType ==
  ASSUME TypeOK, NEW c \in Calls, startPipeline(c)
  PROVE  TypeOK'
<1> USE DEF CallAt, CallGoto, dbVars
<1>1. CASE StartFind(c)
  BY <1>1 DEF StartFind, TypeOK, CallPoint
<1>2. CASE StartCreate(c)
  BY <1>2 DEF StartCreate, TypeOK, CallPoint, ScanStatus, PipelineStatus
<1>3. CASE StartEnqueue(c)
  <2>1. job' \in [Jobs -> JobRecord]
    BY <1>3, NewJobType, FreeJobType
       DEF StartEnqueue, AddJob, TypeOK, Stage
  <2> QED
    BY <1>3, <2>1 DEF StartEnqueue, TypeOK, CallPoint
<1>4. CASE StartStatus(c)
  BY <1>4 DEF StartStatus, TypeOK, CallPoint, ScanStatus
<1>5. CASE StartRunning(c)
  BY <1>5 DEF StartRunning, TypeOK, CallPoint, PipelineStatus
<1> QED
  BY <1>1, <1>2, <1>3, <1>4, <1>5 DEF startPipeline

LEMMA CancelType ==
  ASSUME TypeOK, NEW c \in Calls, cancelPipeline(c)
  PROVE  TypeOK'
<1> USE DEF CallAt, CallGoto, dbVars
<1>1. CASE CancelRead(c)
  BY <1>1 DEF CancelRead, TypeOK, CallPoint
<1>2. CASE CancelRemove(c)
  <2>1. job' \in [Jobs -> JobRecord]
    BY <1>2, NoJobType DEF CancelRemove, TypeOK
  <2> QED
    BY <1>2, <2>1 DEF CancelRemove, TypeOK, CallPoint
<1>3. CASE CancelStatus(c)
  BY <1>3 DEF CancelStatus, TypeOK, CallPoint, ScanStatus
<1>4. CASE CancelFinal(c)
  BY <1>4 DEF CancelFinal, TypeOK, CallPoint, PipelineStatus
<1> QED
  BY <1>1, <1>2, <1>3, <1>4 DEF cancelPipeline

LEMMA ResumeType ==
  ASSUME TypeOK, NEW c \in Calls, resumePipeline(c)
  PROVE  TypeOK'
<1> USE DEF CallAt, CallGoto, dbVars
<1>1. CASE ResumeRead(c)
  BY <1>1
     DEF ResumeRead, TypeOK, CallPoint, StepForStatus, ScanStatus, Terminal
<1>2. CASE ResumeStatus(c)
  BY <1>2 DEF ResumeStatus, TypeOK, CallPoint, StatusForStep, ScanStatus
<1>3. CASE ResumeRunning(c)
  BY <1>3 DEF ResumeRunning, TypeOK, CallPoint, PipelineStatus
<1>4. CASE ResumeEnqueue(c)
  <2>1. job' \in [Jobs -> JobRecord]
    BY <1>4, NewJobType, FreeJobType
       DEF ResumeEnqueue, AddJob, TypeOK, Stage
  <2> QED
    BY <1>4, <2>1 DEF ResumeEnqueue, TypeOK, CallPoint
<1> QED
  BY <1>1, <1>2, <1>3, <1>4 DEF resumePipeline

-----------------------------------------------------------------------------
(* Processors: the rows and the files, then the jobs.                      *)

LEMMA ScanMarked ==
  ASSUME TypeOK, NEW status \in ScanStatus,
         scan' = [scan EXCEPT !.status = status]
  PROVE  scan' \in [status : ScanStatus, pipeline : PipelineStatus]
BY DEF TypeOK

LEMMA FilesSaved ==
  ASSUME TypeOK, NEW artifact \in Artifact, NEW content \in Content,
         Save(artifact, content)
  PROVE  files' \in [Artifact -> Content]
BY DEF TypeOK, Save, WithDir, Content, Artifact

LEMMA WithDirType == TypeOK => WithDir \in [Artifact -> Content]
BY DEF TypeOK, WithDir, Content

(* What every processor leaves typed.                                      *)
WorkTyped ==
  /\ scan \in [status : ScanStatus, pipeline : PipelineStatus]
  /\ report \in [status : {"none", "READY", "FAILED"}, content : Content]
  /\ notices \in [Message -> Nat]
  /\ files \in [Artifact -> Content]
  /\ job \in [Jobs -> JobRecord]

LEMMA TakeType ==
  ASSUME TypeOK, NEW j \in Jobs, NEW stage, NEW next \in Point,
         TakeAndAssert(j, stage, next)
  PROVE  WorkTyped'
<1>1. job' \in [Jobs -> JobRecord]
  BY BeginType, ThrowType DEF TakeAndAssert, TypeOK
<1> QED
  BY <1>1, WithDirType DEF TakeAndAssert, dbVars, TypeOK, WorkTyped

LEMMA ReassertType ==
  ASSUME TypeOK, NEW j \in Jobs, NEW stage, NEW next \in Point,
         Reassert(j, stage, next)
  PROVE  WorkTyped'
<1>1. job' \in [Jobs -> JobRecord]
  BY GotoType, ThrowType DEF Reassert, AssertActive, TypeOK
<1> QED
  BY <1>1 DEF Reassert, dbVars, TypeOK, WorkTyped

LEMMA MarkType ==
  ASSUME TypeOK, NEW j \in Jobs, NEW status \in ScanStatus,
         NEW next \in Point, MarkScan(j, status, next),
         files' \in [Artifact -> Content]
  PROVE  WorkTyped'
<1>1. job' \in [Jobs -> JobRecord]
  BY GotoType DEF MarkScan, TypeOK
<1> QED
  BY <1>1, ScanMarked DEF MarkScan, TypeOK, WorkTyped

LEMMA SaveType ==
  ASSUME TypeOK, NEW j \in Jobs, NEW artifact \in Artifact,
         NEW content \in Content, NEW next \in Point,
         Save(artifact, content), Goto(j, next), UNCHANGED dbVars
  PROVE  WorkTyped'
<1>1. job' \in [Jobs -> JobRecord]
  BY GotoType DEF TypeOK
<1> QED
  BY <1>1, FilesSaved DEF dbVars, TypeOK, WorkTyped

LEMMA HandoffWorkType ==
  ASSUME TypeOK, NEW j \in Jobs, job[j].name # "cleanup", Handoff(j),
         UNCHANGED <<dbVars, files>>
  PROVE  WorkTyped'
BY HandoffType DEF dbVars, TypeOK, WorkTyped

LEMMA ThrowWorkType ==
  ASSUME TypeOK, NEW j \in Jobs, Throw(j), UNCHANGED <<dbVars, files>>
  PROVE  WorkTyped'
BY ThrowType DEF dbVars, TypeOK, WorkTyped

LEMMA PointNames ==
  /\ {"start", "mark", "fetch", "unpack", "parse", "merge", "load", "review",
      "reassert", "txRead", "txWrite", "lastCheck", "find", "create", "save",
      "handoff"} \subseteq Point
  /\ {"failScan", "failReport", "failReportOnly", "failFind", "failCreate",
      "deadLetter", "failCleanup", "done"} \subseteq Point
BY DEF Point, FailPoint

LEMMA DownloadType ==
  ASSUME TypeOK, NEW j \in Jobs, Download(j)
  PROVE  WorkTyped'
<1> USE PointNames
<1>1. CASE TakeAndAssert(j, "download", "mark")
  BY <1>1, TakeType
<1>2. CASE At(j, "download", "mark") /\ MarkScan(j, "EXTRACTING", "fetch")
           /\ UNCHANGED files
  BY <1>2, MarkType DEF ScanStatus, TypeOK
<1>3. CASE At(j, "download", "fetch") /\ Save("input", "full")
           /\ Goto(j, "reassert") /\ UNCHANGED dbVars
  BY <1>3, SaveType DEF Artifact, Content
<1>4. CASE Reassert(j, "download", "save")
  BY <1>4, ReassertType
<1>5. CASE At(j, "download", "save") /\ Save("download.json", "full")
           /\ Goto(j, "handoff") /\ UNCHANGED dbVars
  BY <1>5, SaveType DEF Artifact, Content
<1>6. CASE At(j, "download", "handoff") /\ Handoff(j)
           /\ UNCHANGED <<dbVars, files>>
  BY <1>6, HandoffWorkType DEF At
<1> QED
  BY <1>1, <1>2, <1>3, <1>4, <1>5, <1>6 DEF Download

LEMMA ExtractType ==
  ASSUME TypeOK, NEW j \in Jobs, Extract(j)
  PROVE  WorkTyped'
<1> USE PointNames
<1>1. CASE TakeAndAssert(j, "extract", "unpack")
  BY <1>1, TakeType
<1>2. CASE Save("extracted", "full") /\ Goto(j, "reassert")
           /\ UNCHANGED dbVars
  BY <1>2, SaveType DEF Artifact, Content
<1>3. CASE Throw(j) /\ UNCHANGED <<dbVars, files>>
  BY <1>3, ThrowWorkType
<1>4. CASE Reassert(j, "extract", "mark")
  BY <1>4, ReassertType
<1>5. CASE Save("extract.json", "full") /\ MarkScan(j, "PARSING", "handoff")
  BY <1>5, FilesSaved, MarkType DEF ScanStatus, Artifact, Content
<1>6. CASE At(j, "extract", "handoff") /\ Handoff(j)
           /\ UNCHANGED <<dbVars, files>>
  BY <1>6, HandoffWorkType DEF At
<1> QED
  BY <1>1, <1>2, <1>3, <1>4, <1>5, <1>6 DEF Extract

LEMMA ParseType ==
  ASSUME TypeOK, NEW j \in Jobs, Parse(j)
  PROVE  WorkTyped'
<1> USE PointNames
<1>1. CASE TakeAndAssert(j, "parse", "parse")
  BY <1>1, TakeType
<1>2. ASSUME NEW content \in Content, Save("parse.json", content),
             Goto(j, "reassert"), UNCHANGED dbVars
      PROVE  WorkTyped'
  BY <1>2, SaveType DEF Artifact
<1>3. CASE Reassert(j, "parse", "mark")
  BY <1>3, ReassertType
<1>4. CASE MarkScan(j, "AGGREGATING", "handoff") /\ UNCHANGED files
  BY <1>4, MarkType DEF ScanStatus, TypeOK
<1>5. CASE At(j, "parse", "handoff") /\ Handoff(j)
           /\ UNCHANGED <<dbVars, files>>
  BY <1>5, HandoffWorkType DEF At
<1> QED
  BY <1>1, <1>2, <1>3, <1>4, <1>5 DEF Parse, Content

LEMMA MergeType ==
  ASSUME TypeOK, NEW j \in Jobs, Merge(j)
  PROVE  WorkTyped'
<1> USE PointNames
<1>1. CASE TakeAndAssert(j, "merge", "merge")
  BY <1>1, TakeType
<1>2. CASE Save("context.json", files["parse.json"])
           /\ Goto(j, "reassert") /\ UNCHANGED dbVars
  <2>1. files["parse.json"] \in Content
    BY DEF TypeOK, Artifact
  <2> QED
    BY <1>2, <2>1, SaveType DEF Artifact
<1>3. CASE Throw(j) /\ UNCHANGED <<dbVars, files>>
  BY <1>3, ThrowWorkType
<1>4. CASE Reassert(j, "merge", "mark")
  BY <1>4, ReassertType
<1>5. CASE MarkScan(j, "ANALYZING", "handoff") /\ UNCHANGED files
  BY <1>5, MarkType DEF ScanStatus, TypeOK
<1>6. CASE At(j, "merge", "handoff") /\ Handoff(j)
           /\ UNCHANGED <<dbVars, files>>
  BY <1>6, HandoffWorkType DEF At
<1> QED
  BY <1>1, <1>2, <1>3, <1>4, <1>5, <1>6 DEF Merge

(* A handler that goes on with what it read in hand.                       *)
LEMMA CarryType ==
  ASSUME TypeOK, NEW j \in Jobs, NEW state \in JobState, NEW next \in Point,
         NEW content \in Content,
         job' = [job EXCEPT ![j].state = state, ![j].pc = next,
                            ![j].data = content]
  PROVE  job' \in [Jobs -> JobRecord]
<1> DEFINE r == [job[j] EXCEPT !.state = state, !.pc = next, !.data = content]
<1>1. job[j] \in JobRecord
  BY DEF TypeOK
<1>2. r \in JobRecord
  BY <1>1 DEF JobRecord
<1>3. job' = [job EXCEPT ![j] = r]
  BY DEF TypeOK
<1> HIDE DEF r
<1> QED
  BY <1>2, <1>3 DEF TypeOK

(* ... or its failure at the same step.                                    *)
LEMMA ReadType ==
  ASSUME TypeOK, NEW j \in Jobs, files' \in [Artifact -> Content],
         UNCHANGED dbVars, job' \in [Jobs -> JobRecord]
  PROVE  WorkTyped'
BY DEF TypeOK, WorkTyped, dbVars

LEMMA AnalyzeType ==
  ASSUME TypeOK, NEW j \in Jobs, Analyze(j)
  PROVE  WorkTyped'
<1> USE PointNames
<1>1. CASE /\ files' = WithDir
           /\ job' = [job EXCEPT ![j].state = "active", ![j].pc = "mark",
                                 ![j].data = files["context.json"]]
           /\ UNCHANGED dbVars
  <2>1. files["context.json"] \in Content /\ "active" \in JobState
    BY DEF TypeOK, Artifact, JobState
  <2> QED
    BY <1>1, <2>1, CarryType, ReadType, WithDirType
<1>2. CASE files' = WithDir /\ Throw(j) /\ UNCHANGED dbVars
  BY <1>2, ThrowType, ReadType, WithDirType DEF TypeOK
<1>3. CASE MarkScan(j, "ANALYZING", "load") /\ UNCHANGED files
  BY <1>3, MarkType DEF ScanStatus, TypeOK
<1>4. ASSUME NEW content \in Content,
             job' = [job EXCEPT ![j].pc = "review", ![j].data = content],
             UNCHANGED <<dbVars, files>>
      PROVE  WorkTyped'
  <2> DEFINE r == [job[j] EXCEPT !.pc = "review", !.data = content]
  <2>1. job[j] \in JobRecord
    BY DEF TypeOK
  <2>2. r \in JobRecord
    BY <1>4, <2>1 DEF JobRecord
  <2>3. job' = [job EXCEPT ![j] = r]
    BY <1>4 DEF TypeOK
  <2> HIDE DEF r
  <2>4. job' \in [Jobs -> JobRecord]
    BY <2>2, <2>3 DEF TypeOK
  <2> QED
    BY <1>4, <2>4 DEF TypeOK, WorkTyped, dbVars
<1>5. CASE AssertActive(j, "save") /\ UNCHANGED <<dbVars, files>>
  BY <1>5, GotoType, ThrowType, ReadType DEF AssertActive, TypeOK
<1>6. CASE Save("ai-results.json", job[j].data) /\ Goto(j, "handoff")
           /\ UNCHANGED dbVars
  <2>1. job[j].data \in Content
    BY DEF TypeOK, JobRecord
  <2> QED
    BY <1>6, <2>1, SaveType DEF Artifact
<1>7. CASE At(j, "analyze", "handoff") /\ Handoff(j)
           /\ UNCHANGED <<dbVars, files>>
  BY <1>7, HandoffWorkType DEF At
<1> QED
  BY <1>1, <1>2, <1>3, <1>4, <1>5, <1>6, <1>7 DEF Analyze, Content

LEMMA ReportStepType ==
  ASSUME TypeOK, NEW j \in Jobs, Report(j)
  PROVE  WorkTyped'
<1> USE PointNames
<1>1. CASE /\ files' = IF Active THEN WithDir ELSE files
           /\ job' = [job EXCEPT ![j].state = "active", ![j].pc = "reassert",
                                 ![j].data = files["ai-results.json"]]
           /\ UNCHANGED dbVars
  <2>1. files["ai-results.json"] \in Content /\ "active" \in JobState
    BY DEF TypeOK, Artifact, JobState
  <2>2. files' \in [Artifact -> Content]
    BY <1>1, WithDirType DEF TypeOK
  <2> QED
    BY <1>1, <2>1, <2>2, CarryType, ReadType
<1>2. CASE /\ files' = IF Active THEN WithDir ELSE files
           /\ Throw(j) /\ UNCHANGED dbVars
  <2>1. files' \in [Artifact -> Content]
    BY <1>2, WithDirType DEF TypeOK
  <2> QED
    BY <1>2, <2>1, ThrowType, ReadType DEF TypeOK
<1>3. CASE Reassert(j, "report", "mark")
  BY <1>3, ReassertType
<1>4. CASE files' = WithDir /\ MarkScan(j, "REPORTING", "txRead")
  BY <1>4, MarkType, WithDirType DEF ScanStatus
<1>5. CASE AssertActive(j, "txWrite") /\ UNCHANGED <<dbVars, files>>
  BY <1>5, GotoType, ThrowType, ReadType DEF AssertActive, TypeOK
<1>6. CASE /\ report' = [status |-> "READY", content |-> job[j].data]
           /\ Goto(j, "lastCheck")
           /\ UNCHANGED <<scan, notices, files>>
  <2>1. job[j].data \in Content
    BY DEF TypeOK, JobRecord
  <2>2. job' \in [Jobs -> JobRecord]
    BY <1>6, GotoType DEF TypeOK
  <2> QED
    BY <1>6, <2>1, <2>2 DEF TypeOK, WorkTyped
<1>7. CASE AssertActive(j, "handoff") /\ UNCHANGED <<dbVars, files>>
  BY <1>7, GotoType, ThrowType, ReadType DEF AssertActive, TypeOK
<1>8. CASE At(j, "report", "handoff") /\ Handoff(j)
           /\ UNCHANGED <<dbVars, files>>
  BY <1>8, HandoffWorkType DEF At
<1> QED
  BY <1>1, <1>2, <1>3, <1>4, <1>5, <1>6, <1>7, <1>8 DEF Report

LEMMA NoticeType ==
  ASSUME TypeOK, NEW j \in Jobs, NEW message \in Message, NEW next \in Point,
         CreateNotice(j, message, next), UNCHANGED files
  PROVE  WorkTyped'
<1>1. job' \in [Jobs -> JobRecord]
  BY GotoType DEF CreateNotice, TypeOK
<1>2. notices' \in [Message -> Nat]
  BY DEF CreateNotice, TypeOK
<1> QED
  BY <1>1, <1>2 DEF CreateNotice, TypeOK, WorkTyped

LEMMA NotifyType ==
  ASSUME TypeOK, NEW j \in Jobs, Notify(j)
  PROVE  WorkTyped'
<1> USE PointNames
<1>1. CASE /\ scan' = [status |-> "COMPLETED", pipeline |-> "COMPLETED"]
           /\ Begin(j, "find")
           /\ UNCHANGED <<report, notices, files>>
  <2>1. job' \in [Jobs -> JobRecord]
    BY <1>1, BeginType DEF TypeOK
  <2> QED
    BY <1>1, <2>1 DEF TypeOK, WorkTyped, ScanStatus, PipelineStatus
<1>2. ASSUME NEW next \in Point, Goto(j, next), UNCHANGED <<dbVars, files>>
      PROVE  WorkTyped'
  <2>1. job' \in [Jobs -> JobRecord]
    BY <1>2, GotoType DEF TypeOK
  <2> QED
    BY <1>2, <2>1 DEF TypeOK, WorkTyped, dbVars
<1>3. CASE CreateNotice(j, "ready", "handoff") /\ UNCHANGED files
  BY <1>3, NoticeType DEF Message
<1>4. CASE At(j, "notify", "handoff") /\ Handoff(j)
           /\ UNCHANGED <<dbVars, files>>
  BY <1>4, HandoffWorkType DEF At
<1> QED
  BY <1>1, <1>2, <1>3, <1>4 DEF Notify

LEMMA CleanupType ==
  ASSUME TypeOK, NEW j \in Jobs, Cleanup(j)
  PROVE  WorkTyped'
BY NoJobType DEF Cleanup, TypeOK, WorkTyped, dbVars, Content

LEMMA ProcessorType ==
  ASSUME TypeOK, NEW j \in Jobs, Processor(j)
  PROVE  TypeOK'
<1>1. WorkTyped'
  BY DownloadType, ExtractType, ParseType, MergeType, AnalyzeType,
     ReportStepType, NotifyType, CleanupType
     DEF Processor
<1>2. UNCHANGED <<deadLetters, call, spent>>
  BY DEF Processor
<1> QED
  BY <1>1, <1>2 DEF WorkTyped, TypeOK

-----------------------------------------------------------------------------
(* The failed listener, what goes wrong, and the administrator.            *)

LEMMA FailType ==
  ASSUME TypeOK, NEW j \in Jobs, fail(j)
  PROVE  TypeOK'
<1> USE PointNames
<1>0. job[j].name \in Stage
  BY DEF TypeOK, JobRecord
<1>1. CASE FailScan(j)
  <2>1. job' \in [Jobs -> JobRecord]
    BY <1>1, GotoType DEF FailScan, TypeOK
  <2> QED
    BY <1>1, <2>1 DEF FailScan, TypeOK, ScanStatus, PipelineStatus
<1>2. CASE FailReport(j)
  <2>1. job' \in [Jobs -> JobRecord]
    BY <1>2, GotoType DEF FailReport, TypeOK
  <2> QED
    BY <1>2, <2>1 DEF FailReport, TypeOK
<1>3. CASE FailNotice(j)
  <2>1. WorkTyped'
    <3>1. ASSUME NEW next \in Point, Goto(j, next),
                 UNCHANGED <<dbVars, files>>
          PROVE  WorkTyped'
      <4>1. job' \in [Jobs -> JobRecord]
        BY <3>1, GotoType DEF TypeOK
      <4> QED
        BY <3>1, <4>1 DEF TypeOK, WorkTyped, dbVars
    <3>2. CASE CreateNotice(j, job[j].name, "deadLetter") /\ UNCHANGED files
      BY <1>0, <3>2, NoticeType DEF Message
    <3> QED
      BY <1>3, <3>1, <3>2 DEF FailNotice
  <2> QED
    BY <1>3, <2>1 DEF FailNotice, WorkTyped, TypeOK
<1>4. CASE FailDeadLetter(j)
  <2>1. job' \in [Jobs -> JobRecord]
    BY <1>4, GotoType DEF FailDeadLetter, TypeOK
  <2> QED
    BY <1>0, <1>4, <2>1 DEF FailDeadLetter, TypeOK, dbVars
<1>5. CASE FailCleanup(j)
  <2>1. NewJob("cleanup", FALSE) \in JobRecord
    BY NewJobType DEF Stage
  <2>2. job' \in [Jobs -> JobRecord]
    BY <1>5, <2>1, FreeJobType DEF FailCleanup, TypeOK, JobRecord
  <2> QED
    BY <1>5, <2>2 DEF FailCleanup, TypeOK, dbVars
<1> QED
  BY <1>1, <1>2, <1>3, <1>4, <1>5 DEF fail

LEMMA EnvironmentType == TypeOK /\ Environment => TypeOK'
<1> SUFFICES ASSUME TypeOK, Environment PROVE TypeOK'
  OBVIOUS
<1> USE PipelineAssumption DEF dbVars
<1>1. ASSUME NEW c \in Calls, ApiCrash(c) PROVE TypeOK'
  BY <1>1 DEF ApiCrash, CallGoto, TypeOK, CallPoint
<1>2. ASSUME NEW j \in Jobs, Fault(j) PROVE TypeOK'
  <2>1. job' \in [Jobs -> JobRecord]
    BY <1>2, ThrowType DEF Fault, TypeOK
  <2> QED
    BY <1>2, <2>1 DEF Fault, TypeOK
<1>3. ASSUME NEW j \in Jobs, WorkerCrash(j) PROVE TypeOK'
  <2>1. job' \in [Jobs -> JobRecord]
    <3>1. CASE job' = [job EXCEPT ![j].state = "waiting", ![j].pc = "start",
                                  ![j].data = "absent"]
      BY <3>1, CarryType DEF JobState, Point, Content
    <3>2. CASE job[j].name # "cleanup" /\ HandoffDies(j)
      <4>1. NextStage[job[j].name] \in Stage
        BY <3>2 DEF NextStage, Stage, TypeOK, JobRecord
      <4>2. Successor(j) \in JobRecord
        BY <4>1, NewJobType DEF Successor
      <4> DEFINE again == [job EXCEPT ![j].state = "waiting",
                                      ![j].pc = "start", ![j].data = "absent"]
                 r == [job[j] EXCEPT !.state = "waiting", !.pc = "start",
                                     !.data = "absent"]
      <4>3. job[j] \in JobRecord
        BY DEF TypeOK
      <4>4. r \in JobRecord
        BY <4>3 DEF JobRecord, JobState, Point, Content
      <4>5. again = [job EXCEPT ![j] = r]
        BY DEF TypeOK
      <4>6. again \in [Jobs -> JobRecord]
        BY <4>4, <4>5 DEF TypeOK
      <4>7. job' = [again EXCEPT ![FreeJob] = Successor(j)]
        BY <3>2 DEF HandoffDies
      <4> HIDE DEF again
      <4> QED
        BY <3>2, <4>2, <4>6, <4>7, FreeJobType DEF HandoffDies
    <3> QED
      BY <1>3, <3>1, <3>2 DEF WorkerCrash
  <2> QED
    BY <1>3, <2>1 DEF WorkerCrash, TypeOK
<1>4. ASSUME NEW j \in Jobs, WriteRefused(j) PROVE TypeOK'
  <2>1. AfterRefusal(job[j]) \in Point
    BY <1>4 DEF WriteRefused, FailHandlerRunning, AfterRefusal, Point,
                FailPoint
  <2>2. job' \in [Jobs -> JobRecord]
    BY <1>4, <2>1, GotoType DEF WriteRefused, TypeOK
  <2> QED
    BY <1>4, <2>2 DEF WriteRefused, TypeOK
<1>5. ASSUME NEW j \in Jobs, ListenerCrash(j) PROVE TypeOK'
  <2>1. job' \in [Jobs -> JobRecord]
    BY <1>5, GotoType, PointNames DEF ListenerCrash, TypeOK
  <2> QED
    BY <1>5, <2>1 DEF ListenerCrash, TypeOK
<1> QED
  BY <1>1, <1>2, <1>3, <1>4, <1>5 DEF Environment

LEMMA AdministratorType == TypeOK /\ Administrator => TypeOK'
<1> SUFFICES ASSUME TypeOK, Administrator PROVE TypeOK'
  OBVIOUS
<1> USE PipelineAssumption DEF dbVars
<1>1. ASSUME NEW j \in Jobs, retryJob(j) PROVE TypeOK'
  <2> DEFINE r == [job[j] EXCEPT !.state = "waiting", !.pc = "start"]
  <2>1. job[j] \in JobRecord
    BY DEF TypeOK
  <2>2. r \in JobRecord
    BY <2>1 DEF JobRecord, JobState, Point
  <2>3. job' = [job EXCEPT ![j] = r]
    BY <1>1 DEF retryJob, TypeOK
  <2> HIDE DEF r
  <2>4. job' \in [Jobs -> JobRecord]
    BY <2>2, <2>3 DEF TypeOK
  <2> QED
    BY <1>1, <2>4 DEF retryJob, TypeOK
<1>2. ASSUME NEW j \in Jobs, removeJob(j) PROVE TypeOK'
  BY <1>2, NoJobType DEF removeJob, TypeOK
<1> QED
  BY <1>1, <1>2 DEF Administrator

(* Every step of the pipeline keeps the types.                             *)
LEMMA NextType == TypeOK /\ [Next]_vars => TypeOK'
<1> SUFFICES ASSUME TypeOK, [Next]_vars PROVE TypeOK'
  OBVIOUS
<1>1. CASE UNCHANGED vars
  BY <1>1 DEF vars, TypeOK
<1>2. CASE Requests
  BY <1>2, StartType, CancelType, ResumeType DEF Requests, Calls
<1>3. ASSUME NEW j \in Jobs, WorkerStep(j) PROVE TypeOK'
  BY <1>3, ProcessorType, FailType DEF WorkerStep
<1> QED
  BY <1>1, <1>2, <1>3, EnvironmentType, AdministratorType DEF Next

(* The types hold in every behaviour, and no job is attempted more often   *)
(* than configured, for any number of requests, jobs, faults and outages.  *)
THEOREM PipelineTypeOK == Spec => []TypeOK
BY InitType, NextType, PTL DEF Spec

-----------------------------------------------------------------------------
(* CompletedHasReport is not inductive: notify completes the scan without  *)
(* looking for the report, so the report must be there before a notify job *)
(* exists, that is, before the report processor leaves its transaction.    *)

Announces(jb) ==
  \/ jb.name = "notify"
  \/ jb.name = "report" /\ jb.pc \in {"lastCheck", "handoff"}

ReportBehind ==
  \A k \in Jobs : Announces(job[k]) => report.status # "none"

SafeInv == TypeOK /\ CompletedHasReport /\ ReportBehind

(* No job starts to announce a report in this step.                        *)
NoNewAnnouncement ==
  \A k \in Jobs : Announces(job'[k]) => Announces(job[k])

(* A step that neither announces nor completes anything new.               *)
Harmless ==
  /\ report' = report
  /\ notices' = notices
  /\ scan'.status = "COMPLETED" => scan.status = "COMPLETED"
  /\ NoNewAnnouncement

LEMMA HarmlessSafe ==
  ASSUME SafeInv, Harmless
  PROVE  CompletedHasReport' /\ ReportBehind'
BY DEF SafeInv, Harmless, CompletedHasReport, ReportBehind, NoNewAnnouncement

(* The ways a job can change.                                              *)
LEMMA ChangeQuiet ==
  ASSUME TypeOK, NEW j \in Jobs, NEW jb,
         Announces(jb) => Announces(job[j]), job' = [job EXCEPT ![j] = jb]
  PROVE  NoNewAnnouncement
BY DEF TypeOK, NoNewAnnouncement

LEMMA GotoQuiet ==
  ASSUME TypeOK, NEW j \in Jobs, NEW pc, Goto(j, pc),
         pc \notin {"lastCheck", "handoff"} \/ job[j].name # "report"
  PROVE  NoNewAnnouncement
BY DEF TypeOK, JobRecord, Goto, Announces, NoNewAnnouncement

LEMMA BeginQuiet ==
  ASSUME TypeOK, NEW j \in Jobs, NEW pc, Begin(j, pc),
         pc \notin {"lastCheck", "handoff"} \/ job[j].name # "report"
  PROVE  NoNewAnnouncement
BY DEF TypeOK, JobRecord, Begin, Announces, NoNewAnnouncement

LEMMA ThrowQuiet ==
  ASSUME TypeOK, NEW j \in Jobs, Throw(j)
  PROVE  NoNewAnnouncement
<1>1. job[j] \in JobRecord
  BY DEF TypeOK
<1>2. Announces(Thrown(job[j])) => Announces(job[j])
  BY <1>1 DEF Thrown, Announces, JobRecord
<1>3. job' = [job EXCEPT ![j] = Thrown(job[j])]
  BY DEF Throw
<1> QED
  BY <1>2, <1>3, ChangeQuiet

LEMMA NewJobQuiet ==
  ASSUME NEW name, name # "notify", NEW envelope
  PROVE  ~Announces(NewJob(name, envelope))
BY DEF NewJob, NoJob, Announces

LEMMA SuccessorQuiet ==
  ASSUME TypeOK, NEW j \in Jobs, job[j].pc = "handoff",
         job[j].name # "cleanup"
  PROVE  Announces(Successor(j)) => Announces(job[j])
<1>1. CASE job[j].name = "report"
  BY <1>1 DEF Announces
<1>2. CASE job[j].name # "report"
  <2>1. NextStage[job[j].name] # "notify"
    BY <1>2 DEF NextStage, Stage, TypeOK, JobRecord
  <2> QED
    BY <2>1, NewJobQuiet DEF Successor
<1> QED
  BY <1>1, <1>2

LEMMA HandoffQuiet ==
  ASSUME TypeOK, NEW j \in Jobs, job[j].pc = "handoff",
         job[j].name # "cleanup", Handoff(j)
  PROVE  NoNewAnnouncement
BY SuccessorQuiet, ChangeQuiet DEF Handoff

LEMMA TakeHarmless ==
  ASSUME TypeOK, NEW j \in Jobs, NEW stage,
         NEW next \in Point \ {"lastCheck", "handoff"},
         TakeAndAssert(j, stage, next)
  PROVE  Harmless
<1>1. NoNewAnnouncement
  BY BeginQuiet, ThrowQuiet DEF TakeAndAssert
<1> QED
  BY <1>1 DEF TakeAndAssert, dbVars, Harmless

LEMMA AssertHarmless ==
  ASSUME TypeOK, NEW j \in Jobs, NEW next \in Point \ {"lastCheck", "handoff"},
         AssertActive(j, next), UNCHANGED dbVars
  PROVE  Harmless
<1>1. NoNewAnnouncement
  BY GotoQuiet, ThrowQuiet DEF AssertActive
<1> QED
  BY <1>1 DEF dbVars, Harmless

LEMMA MarkHarmless ==
  ASSUME TypeOK, NEW j \in Jobs, NEW status, status # "COMPLETED", NEW next,
         MarkScan(j, status, next),
         next \notin {"lastCheck", "handoff"} \/ job[j].name # "report"
  PROVE  Harmless
<1>1. NoNewAnnouncement
  BY GotoQuiet DEF MarkScan
<1>2. scan'.status = status
  BY DEF MarkScan, TypeOK
<1> QED
  BY <1>1, <1>2 DEF MarkScan, Harmless

LEMMA GotoHarmless ==
  ASSUME TypeOK, NEW j \in Jobs, NEW next, Goto(j, next), UNCHANGED dbVars,
         next \notin {"lastCheck", "handoff"} \/ job[j].name # "report"
  PROVE  Harmless
BY GotoQuiet DEF dbVars, Harmless

LEMMA ThrowHarmless ==
  ASSUME TypeOK, NEW j \in Jobs, Throw(j), UNCHANGED dbVars
  PROVE  Harmless
BY ThrowQuiet DEF dbVars, Harmless

LEMMA HandoffHarmless ==
  ASSUME TypeOK, NEW j \in Jobs, NEW stage, stage # "cleanup",
         At(j, stage, "handoff"), Handoff(j), UNCHANGED dbVars
  PROVE  Harmless
BY HandoffQuiet DEF At, dbVars, Harmless

(* The stages before the report say nothing about one.                     *)
LEMMA EarlyStagesHarmless ==
  ASSUME TypeOK, NEW j \in Jobs,
         \/ Download(j) \/ Extract(j) \/ Parse(j) \/ Merge(j)
  PROVE  Harmless
<1> USE PointNames
<1>1. ASSUME NEW stage, NEW next \in {"mark", "unpack", "parse", "merge"},
             TakeAndAssert(j, stage, next)
      PROVE  Harmless
  BY <1>1, TakeHarmless
<1>2. ASSUME NEW stage, NEW next \in {"mark", "save"},
             Reassert(j, stage, next)
      PROVE  Harmless
  BY <1>2, AssertHarmless DEF Reassert, dbVars
<1>3. CASE Download(j)
  <2>1. ASSUME At(j, "download", "mark"), MarkScan(j, "EXTRACTING", "fetch")
        PROVE  Harmless
    BY <2>1, MarkHarmless
  <2> QED
    BY <1>1, <1>2, <1>3, <2>1, GotoHarmless, HandoffHarmless
       DEF Download, At, dbVars
<1>4. CASE Extract(j)
  <2>1. ASSUME At(j, "extract", "mark"), MarkScan(j, "PARSING", "handoff")
        PROVE  Harmless
    BY <2>1, MarkHarmless DEF At
  <2> QED
    BY <1>1, <1>2, <1>4, <2>1, GotoHarmless, ThrowHarmless, HandoffHarmless
       DEF Extract, At, dbVars
<1>5. CASE Parse(j)
  <2>1. ASSUME At(j, "parse", "mark"), MarkScan(j, "AGGREGATING", "handoff")
        PROVE  Harmless
    BY <2>1, MarkHarmless DEF At
  <2> QED
    BY <1>1, <1>2, <1>5, <2>1, GotoHarmless, HandoffHarmless
       DEF Parse, At, dbVars
<1>6. CASE Merge(j)
  <2>1. ASSUME At(j, "merge", "mark"), MarkScan(j, "ANALYZING", "handoff")
        PROVE  Harmless
    BY <2>1, MarkHarmless DEF At
  <2> QED
    BY <1>1, <1>2, <1>6, <2>1, GotoHarmless, ThrowHarmless, HandoffHarmless
       DEF Merge, At, dbVars
<1> QED
  BY <1>3, <1>4, <1>5, <1>6

LEMMA AnalyzeHarmless ==
  ASSUME TypeOK, NEW j \in Jobs, Analyze(j)
  PROVE  Harmless
<1> USE PointNames
<1>1. CASE /\ Takes(j, "analyze")
           /\ job' = [job EXCEPT ![j].state = "active", ![j].pc = "mark",
                                 ![j].data = files["context.json"]]
           /\ UNCHANGED dbVars
  <2>1. NoNewAnnouncement
    BY <1>1 DEF TypeOK, JobRecord, Announces, NoNewAnnouncement
  <2> QED
    BY <1>1, <2>1 DEF dbVars, Harmless
<1>2. CASE Throw(j) /\ UNCHANGED dbVars
  BY <1>2, ThrowHarmless
<1>3. CASE At(j, "analyze", "mark") /\ MarkScan(j, "ANALYZING", "load")
  BY <1>3, MarkHarmless
<1>4. ASSUME NEW content, UNCHANGED dbVars,
             job' = [job EXCEPT ![j].pc = "review", ![j].data = content]
      PROVE  Harmless
  <2>1. NoNewAnnouncement
    BY <1>4 DEF TypeOK, JobRecord, Announces, NoNewAnnouncement
  <2> QED
    BY <1>4, <2>1 DEF dbVars, Harmless
<1>5. CASE AssertActive(j, "save") /\ UNCHANGED dbVars
  BY <1>5, AssertHarmless
<1>6. CASE At(j, "analyze", "save") /\ Goto(j, "handoff") /\ UNCHANGED dbVars
  BY <1>6, GotoHarmless DEF At
<1>7. CASE At(j, "analyze", "handoff") /\ Handoff(j) /\ UNCHANGED dbVars
  BY <1>7, HandoffHarmless
<1> QED
  BY <1>1, <1>2, <1>3, <1>4, <1>5, <1>6, <1>7 DEF Analyze, dbVars

(* The report processor stores the report before it may announce it.       *)
LEMMA ReportSafe ==
  ASSUME SafeInv, NEW j \in Jobs, Report(j)
  PROVE  CompletedHasReport' /\ ReportBehind'
<1> USE PointNames
<1>0. TypeOK
  BY DEF SafeInv
<1>1. CASE /\ Takes(j, "report")
           /\ job' = [job EXCEPT ![j].state = "active", ![j].pc = "reassert",
                                 ![j].data = files["ai-results.json"]]
           /\ UNCHANGED dbVars
  <2>1. NoNewAnnouncement
    BY <1>0, <1>1 DEF TypeOK, JobRecord, Announces, NoNewAnnouncement
  <2> QED
    BY <1>1, <2>1, HarmlessSafe DEF dbVars, Harmless
<1>2. CASE Throw(j) /\ UNCHANGED dbVars
  BY <1>0, <1>2, ThrowHarmless, HarmlessSafe
<1>3. CASE Reassert(j, "report", "mark")
  BY <1>0, <1>3, AssertHarmless, HarmlessSafe DEF Reassert, dbVars
<1>4. CASE At(j, "report", "mark") /\ MarkScan(j, "REPORTING", "txRead")
  BY <1>0, <1>4, MarkHarmless, HarmlessSafe
<1>5. CASE AssertActive(j, "txWrite") /\ UNCHANGED dbVars
  BY <1>0, <1>5, AssertHarmless, HarmlessSafe
<1>6. CASE report' = [status |-> "READY", content |-> job[j].data]
  BY <1>6 DEF CompletedHasReport, ReportBehind
<1>7. CASE /\ At(j, "report", "lastCheck")
           /\ AssertActive(j, "handoff")
           /\ UNCHANGED dbVars
  <2>1. NoNewAnnouncement
    <3>1. CASE Goto(j, "handoff")
      BY <1>0, <1>7, <3>1
         DEF At, Goto, TypeOK, JobRecord, Announces, NoNewAnnouncement
    <3>2. CASE Throw(j)
      BY <1>0, <3>2, ThrowQuiet
    <3> QED
      BY <1>7, <3>1, <3>2 DEF AssertActive
  <2> QED
    BY <1>7, <2>1, HarmlessSafe DEF dbVars, Harmless
<1>8. CASE At(j, "report", "handoff") /\ Handoff(j) /\ UNCHANGED dbVars
  BY <1>0, <1>8, HandoffHarmless, HarmlessSafe
<1> QED
  BY <1>1, <1>2, <1>3, <1>4, <1>5, <1>6, <1>7, <1>8 DEF Report, dbVars

(* notify finds the report where ReportBehind says it is.                  *)
LEMMA NotifySafe ==
  ASSUME SafeInv, NEW j \in Jobs, Notify(j)
  PROVE  CompletedHasReport' /\ ReportBehind'
<1>0. TypeOK
  BY DEF SafeInv
<1>1. report.status # "none" /\ report' = report
  BY DEF Notify, Takes, At, CreateNotice, dbVars, SafeInv, ReportBehind,
         Announces
<1> QED
  BY <1>1 DEF CompletedHasReport, ReportBehind

LEMMA CleanupSafe ==
  ASSUME SafeInv, NEW j \in Jobs, Cleanup(j)
  PROVE  CompletedHasReport' /\ ReportBehind'
<1>1. ~Announces(NoJob)
  BY DEF NoJob, Announces
<1>2. NoNewAnnouncement
  BY <1>1, ChangeQuiet DEF Cleanup, SafeInv
<1> QED
  BY <1>2, HarmlessSafe DEF Cleanup, dbVars, Harmless

LEMMA ProcessorSafe ==
  ASSUME SafeInv, NEW j \in Jobs, Processor(j)
  PROVE  CompletedHasReport' /\ ReportBehind'
<1>0. TypeOK
  BY DEF SafeInv
<1>1. CASE Download(j) \/ Extract(j) \/ Parse(j) \/ Merge(j)
  BY <1>0, <1>1, EarlyStagesHarmless, HarmlessSafe
<1>2. CASE Analyze(j)
  BY <1>0, <1>2, AnalyzeHarmless, HarmlessSafe
<1> QED
  BY <1>1, <1>2, ReportSafe, NotifySafe, CleanupSafe DEF Processor

-----------------------------------------------------------------------------
LEMMA FailSafe ==
  ASSUME SafeInv, NEW j \in Jobs, fail(j)
  PROVE  CompletedHasReport' /\ ReportBehind'
<1>0. TypeOK
  BY DEF SafeInv
<1>1. CASE FailScan(j)
  <2>1. NoNewAnnouncement
    BY <1>0, <1>1, GotoQuiet DEF FailScan
  <2> QED
    BY <1>1, <2>1, HarmlessSafe DEF FailScan, Harmless
<1>2. CASE FailReport(j)
  <2>1. report'.status = "FAILED"
    BY <1>0, <1>2 DEF FailReport, TypeOK
  <2> QED
    BY <2>1 DEF CompletedHasReport, ReportBehind
<1>3. CASE FailNotice(j)
  <2>1. NoNewAnnouncement
    BY <1>0, <1>3, GotoQuiet DEF FailNotice, CreateNotice
  <2>2. notices'["ready"] = notices["ready"]
    <3>1. job[j].name # "ready"
      BY <1>0 DEF TypeOK, JobRecord, Stage
    <3>2. CASE notices' = [notices EXCEPT ![job[j].name] = @ + 1]
      <4>1. "ready" \in Message
        BY DEF Message
      <4> QED
        BY <1>0, <3>1, <3>2, <4>1 DEF TypeOK
    <3>3. CASE notices' = notices
      BY <3>3
    <3> QED
      BY <1>3, <3>2, <3>3 DEF FailNotice, CreateNotice, dbVars
  <2>3. report' = report /\ scan' = scan
    BY <1>3 DEF FailNotice, CreateNotice, dbVars
  <2> QED
    BY <2>1, <2>2, <2>3
       DEF SafeInv, CompletedHasReport, ReportBehind, NoNewAnnouncement
<1>4. CASE FailDeadLetter(j)
  BY <1>0, <1>4, GotoHarmless, HarmlessSafe DEF FailDeadLetter, dbVars
<1>5. CASE FailCleanup(j)
  <2>1. ~Announces(NewJob("cleanup", FALSE))
    BY NewJobQuiet
  <2>2. NoNewAnnouncement
    <3> DEFINE f == FreeJob
               r == [job[j] EXCEPT !.pc = "done"]
               n == NewJob("cleanup", FALSE)
    <3>1. f \in Jobs /\ job[j] \in JobRecord /\ DOMAIN job = Jobs
      BY <1>0, <1>5, FreeJobType DEF FailCleanup, TypeOK
    <3>2. job' = [job EXCEPT ![j] = r, ![f] = n]
      BY <1>5, <3>1 DEF FailCleanup
    <3>3. Announces(r) => Announces(job[j])
      BY <3>1 DEF JobRecord, Announces
    <3>4. ~Announces(n)
      BY <2>1
    <3> HIDE DEF f, r, n
    <3> QED
      BY <3>1, <3>2, <3>3, <3>4 DEF NoNewAnnouncement
  <2> QED
    BY <1>5, <2>2, HarmlessSafe DEF FailCleanup, dbVars, Harmless
<1> QED
  BY <1>1, <1>2, <1>3, <1>4, <1>5 DEF fail

LEMMA RequestsSafe ==
  ASSUME SafeInv, Requests
  PROVE  CompletedHasReport' /\ ReportBehind'
<1> USE DEF dbVars, CallGoto
<1>0. TypeOK
  BY DEF SafeInv
<1>1. ASSUME NEW stage, stage # "notify", AddJob(stage)
      PROVE  NoNewAnnouncement
  <2>1. ~Announces(NewJob(stage, TRUE))
    BY <1>1, NewJobQuiet
  <2>2. FreeJob \in Jobs /\ job' = [job EXCEPT ![FreeJob] = NewJob(stage, TRUE)]
    BY <1>1, FreeJobType DEF AddJob
  <2> QED
    BY <1>0, <2>1, <2>2, ChangeQuiet
<1>2. ASSUME NEW c \in Calls, startPipeline(c)
      PROVE  Harmless
  <2>1. CASE StartEnqueue(c)
    BY <1>1, <2>1 DEF StartEnqueue, Harmless
  <2>2. CASE ~StartEnqueue(c)
    <3>1. job' = job
      BY <1>2, <2>2
         DEF startPipeline, StartFind, StartCreate, StartStatus, StartRunning
    <3>2. scan'.status = "COMPLETED" => scan.status = "COMPLETED"
      BY <1>0, <1>2, <2>2
         DEF startPipeline, StartFind, StartCreate, StartStatus,
             StartRunning, TypeOK
    <3> QED
      BY <1>2, <2>2, <3>1, <3>2
         DEF startPipeline, StartFind, StartCreate, StartStatus,
             StartRunning, Harmless, NoNewAnnouncement
  <2> QED
    BY <2>1, <2>2
<1>3. ASSUME NEW c \in Calls, cancelPipeline(c)
      PROVE  Harmless
  <2>1. NoNewAnnouncement
    <3>1. ~Announces(NoJob)
      BY DEF NoJob, Announces
    <3> QED
      BY <1>3, <3>1
         DEF cancelPipeline, CancelRead, CancelRemove, CancelStatus,
             CancelFinal, NoNewAnnouncement
  <2>2. scan'.status = "COMPLETED" => scan.status = "COMPLETED"
    BY <1>0, <1>3
       DEF cancelPipeline, CancelRead, CancelRemove, CancelStatus,
           CancelFinal, TypeOK
  <2> QED
    BY <1>3, <2>1, <2>2
       DEF cancelPipeline, CancelRead, CancelRemove, CancelStatus,
           CancelFinal, Harmless
<1>4. ASSUME NEW c \in Calls, resumePipeline(c)
      PROVE  Harmless
  <2>0. call[c].step \in {"download", "parse", "merge", "analyze", "report"}
    BY <1>0 DEF TypeOK
  <2>1. CASE ResumeEnqueue(c)
    BY <1>1, <2>0, <2>1 DEF ResumeEnqueue, Harmless
  <2>2. CASE ResumeRead(c)
    BY <2>2 DEF ResumeRead, Harmless, NoNewAnnouncement
  <2>3. CASE ResumeStatus(c)
    <3>1. StatusForStep[call[c].step] # "COMPLETED"
      BY <2>0 DEF StatusForStep
    <3>2. scan'.status # "COMPLETED"
      BY <1>0, <2>3, <3>1 DEF ResumeStatus, TypeOK
    <3> QED
      BY <2>3, <3>2 DEF ResumeStatus, Harmless, NoNewAnnouncement
  <2>4. CASE ResumeRunning(c)
    BY <1>0, <2>4 DEF ResumeRunning, TypeOK, Harmless, NoNewAnnouncement
  <2> QED
    BY <1>4, <2>1, <2>2, <2>3, <2>4 DEF resumePipeline
<1> QED
  BY <1>2, <1>3, <1>4, HarmlessSafe DEF Requests, Calls

LEMMA EnvironmentSafe ==
  ASSUME SafeInv, Environment
  PROVE  CompletedHasReport' /\ ReportBehind'
<1> USE DEF dbVars
<1>0. TypeOK
  BY DEF SafeInv
<1>1. ASSUME NEW c \in Calls, ApiCrash(c) PROVE Harmless
  BY <1>1 DEF ApiCrash, Harmless, NoNewAnnouncement
<1>2. ASSUME NEW j \in Jobs, Fault(j) PROVE Harmless
  BY <1>0, <1>2, ThrowHarmless DEF Fault
<1>3. ASSUME NEW j \in Jobs, WorkerCrash(j)
      PROVE  CompletedHasReport' /\ ReportBehind'
  <2>1. CASE job' = [job EXCEPT ![j].state = "waiting", ![j].pc = "start",
                                ![j].data = "absent"]
    <3>1. NoNewAnnouncement
      BY <1>0, <2>1 DEF TypeOK, JobRecord, Announces, NoNewAnnouncement
    <3> QED
      BY <1>3, <3>1, HarmlessSafe DEF WorkerCrash, Harmless
  <2>2. CASE /\ job[j].pc = "handoff" /\ job[j].name # "cleanup"
             /\ HandoffDies(j)
    <3> DEFINE again == [job EXCEPT ![j].state = "waiting",
                                    ![j].pc = "start", ![j].data = "absent"]
    <3>1. \A k \in Jobs : Announces(again[k]) => Announces(job[k])
      BY <1>0 DEF TypeOK, JobRecord, Announces
    <3>2. FreeJob \in Jobs /\ job' = [again EXCEPT ![FreeJob] = Successor(j)]
      BY <2>2, FreeJobType DEF HandoffDies
    <3>3. Announces(Successor(j)) => Announces(job[j])
      BY <1>0, <2>2, SuccessorQuiet
    <3>4. DOMAIN again = Jobs
      BY <1>0 DEF TypeOK
    <3> HIDE DEF again
    <3>5. \A k \in Jobs : Announces(job'[k]) =>
             Announces(job[k]) \/ Announces(job[j])
      BY <3>1, <3>2, <3>3, <3>4
    <3> QED
      BY <1>3, <3>5
         DEF WorkerCrash, SafeInv, CompletedHasReport, ReportBehind
  <2> QED
    BY <1>3, <2>1, <2>2 DEF WorkerCrash
<1>4. ASSUME NEW j \in Jobs, WriteRefused(j) PROVE Harmless
  <2>1. AfterRefusal(job[j]) \notin {"lastCheck", "handoff"}
    BY <1>4 DEF WriteRefused, FailHandlerRunning, FailPoint, AfterRefusal
  <2> QED
    BY <1>0, <1>4, <2>1, GotoHarmless DEF WriteRefused
<1>5. ASSUME NEW j \in Jobs, ListenerCrash(j) PROVE Harmless
  BY <1>0, <1>5, GotoHarmless DEF ListenerCrash
<1> QED
  BY <1>1, <1>2, <1>3, <1>4, <1>5, HarmlessSafe DEF Environment

LEMMA AdministratorSafe ==
  ASSUME SafeInv, Administrator
  PROVE  CompletedHasReport' /\ ReportBehind'
<1> USE DEF dbVars
<1>0. TypeOK
  BY DEF SafeInv
<1>1. ASSUME NEW j \in Jobs, retryJob(j) PROVE Harmless
  <2>1. NoNewAnnouncement
    BY <1>0, <1>1
       DEF retryJob, TypeOK, JobRecord, Announces, NoNewAnnouncement
  <2> QED
    BY <1>1, <2>1 DEF retryJob, Harmless
<1>2. ASSUME NEW j \in Jobs, removeJob(j) PROVE Harmless
  <2>1. ~Announces(NoJob)
    BY DEF NoJob, Announces
  <2> QED
    BY <1>0, <1>2, <2>1, ChangeQuiet DEF removeJob, Harmless
<1> QED
  BY <1>1, <1>2, HarmlessSafe DEF Administrator

(* SafeInv is inductive.                                                   *)
LEMMA NextSafe == SafeInv /\ [Next]_vars => SafeInv'
<1> SUFFICES ASSUME SafeInv, [Next]_vars PROVE SafeInv'
  OBVIOUS
<1>1. TypeOK'
  BY NextType DEF SafeInv
<1>2. CompletedHasReport' /\ ReportBehind'
  <2>1. CASE UNCHANGED vars
    BY <2>1 DEF vars, SafeInv, CompletedHasReport, ReportBehind
  <2>2. ASSUME NEW j \in Jobs, WorkerStep(j)
        PROVE  CompletedHasReport' /\ ReportBehind'
    BY <2>2, ProcessorSafe, FailSafe DEF WorkerStep
  <2> QED
    BY <2>1, <2>2, RequestsSafe, EnvironmentSafe, AdministratorSafe DEF Next
<1> QED
  BY <1>1, <1>2 DEF SafeInv

LEMMA InitSafe == Init => SafeInv
<1> SUFFICES ASSUME Init PROVE SafeInv
  OBVIOUS
<1>1. TypeOK
  BY InitType
<1>2. CompletedHasReport
  BY DEF Init, CompletedHasReport, Message
<1>3. ReportBehind
  BY DEF Init, ReportBehind, NoJob, Announces
<1> QED
  BY <1>1, <1>2, <1>3 DEF SafeInv

(* A scan that is completed, or announced as ready, has a report: in every *)
(* behaviour, whatever requests, faults, process deaths and administrators *)
(* interleave, and however many.                                           *)
THEOREM PipelineCompletedHasReport == Spec => []CompletedHasReport
<1>1. SafeInv => CompletedHasReport
  BY DEF SafeInv
<1> QED
  BY <1>1, InitSafe, NextSafe, PTL DEF Spec

-----------------------------------------------------------------------------
(***************************************************************************)
(* Pipeline implements PipelinePromise, for every set of requests and jobs *)
(* and every bound: the initial states map to its initial states, and      *)
(* every step to one of its steps or to a step its variables do not show.  *)
(***************************************************************************)

(* Before an upload is to be analysed there is no job, and no request past *)
(* the creation of the scan.                                               *)
NothingBefore ==
  scan.status = "none" =>
    /\ \A j \in Jobs : job[j].state = "none"
    /\ \A c \in Calls : call[c].pc \in {"new", "create", "done"}

PromiseInv == SafeInv /\ NothingBefore

(* What the step looks like to a client.                                   *)
Seen == [Promise!Next]_Promise!promiseVars

-----------------------------------------------------------------------------
LEMMA UnseenSeen == UNCHANGED dbVars => Seen
BY DEF dbVars, ShownStatus, Seen, Promise!promiseVars

(* A change of status, other than the two that promise something.          *)
LEMMA MarkedSeen ==
  ASSUME scan.status # "none", scan'.status \notin {"none", "COMPLETED"},
         UNCHANGED <<report, notices>>
  PROVE  Seen
<1>1. ShownStatus # "nothing"
  BY DEF ShownStatus
<1>2. ShownStatus' \in {"working", "failed", "cancelled"}
  BY DEF ShownStatus
<1>3. Promise!Work
  BY <1>1, <1>2 DEF Promise!Work, Promise!Asked
<1> QED
  BY <1>3 DEF Seen, Promise!Next

LEMMA MarkScanSeen ==
  ASSUME TypeOK, scan.status # "none", NEW j \in Jobs,
         NEW status, status \notin {"none", "COMPLETED"}, NEW next,
         MarkScan(j, status, next)
  PROVE  Seen /\ scan'.status # "none"
<1>1. scan'.status = status
  BY DEF MarkScan, TypeOK
<1> QED
  BY <1>1, MarkedSeen DEF MarkScan

LEMMA StoredSeen ==
  ASSUME scan.status # "none", report'.status \in {"READY", "FAILED"},
         UNCHANGED <<scan, notices>>
  PROVE  Seen
<1>1. Promise!Store
  BY DEF ShownStatus, Promise!Store, Promise!Asked
<1> QED
  BY <1>1 DEF Seen, Promise!Next
LEMMA CompletedSeen ==
  ASSUME scan.status # "none", report.status # "none",
         scan'.status = "COMPLETED", UNCHANGED <<report, notices>>
  PROVE  Seen
<1>1. Promise!Complete
  BY DEF ShownStatus, Promise!Complete, Promise!Asked
<1> QED
  BY <1>1 DEF Seen, Promise!Next

LEMMA AnnouncedSeen ==
  ASSUME scan.status # "none", report.status # "none",
         notices'["ready"] > 0, UNCHANGED <<scan, report>>
  PROVE  Seen
<1>1. Promise!Announce
  BY DEF ShownStatus, Promise!Announce, Promise!Asked
<1> QED
  BY <1>1 DEF Seen, Promise!Next

-----------------------------------------------------------------------------
(* Once the upload is to be analysed, each step is seen as a promised one, *)
(* and the scan stays.                                                     *)

LEMMA ProcessorSeen ==
  ASSUME SafeInv, scan.status # "none", NEW j \in Jobs, Processor(j)
  PROVE  Seen /\ scan'.status # "none"
<1>0. TypeOK
  BY DEF SafeInv
<1>1. CASE UNCHANGED dbVars
  BY <1>1, UnseenSeen DEF dbVars
<1>2. CASE Download(j) \/ Extract(j) \/ Parse(j) \/ Merge(j) \/ Analyze(j)
  <2>1. \/ UNCHANGED dbVars
        \/ \E next, status :
             /\ status \notin {"none", "COMPLETED"}
             /\ MarkScan(j, status, next)
    BY <1>2 DEF Download, Extract, Parse, Merge, Analyze, TakeAndAssert,
                Reassert
  <2> QED
    BY <1>0, <1>1, <2>1, MarkScanSeen
<1>3. CASE Report(j)
  <2>1. \/ UNCHANGED dbVars
        \/ MarkScan(j, "REPORTING", "txRead")
        \/ /\ report' = [status |-> "READY", content |-> job[j].data]
           /\ UNCHANGED <<scan, notices>>
    BY <1>3 DEF Report, Reassert
  <2> QED
    BY <1>0, <1>1, <2>1, MarkScanSeen, StoredSeen
<1>4. CASE Notify(j)
  <2>1. report.status # "none"
    BY <1>4 DEF Notify, Takes, At, SafeInv, ReportBehind, Announces
  <2>2. \/ UNCHANGED dbVars
        \/ /\ scan' = [status |-> "COMPLETED", pipeline |-> "COMPLETED"]
           /\ UNCHANGED <<report, notices>>
        \/ CreateNotice(j, "ready", "handoff")
    BY <1>4 DEF Notify
  <2>3. CASE CreateNotice(j, "ready", "handoff")
    <3>1. notices'["ready"] > 0
      BY <1>0, <2>3 DEF CreateNotice, TypeOK, Message
    <3> QED
      BY <2>1, <2>3, <3>1, AnnouncedSeen DEF CreateNotice
  <2> QED
    BY <1>1, <2>1, <2>2, <2>3, CompletedSeen
<1> QED
  BY <1>1, <1>2, <1>3, <1>4 DEF Processor, Cleanup

LEMMA FailSeen ==
  ASSUME TypeOK, scan.status # "none", NEW j \in Jobs, fail(j)
  PROVE  Seen /\ scan'.status # "none"
<1>1. CASE UNCHANGED dbVars
  BY <1>1, UnseenSeen DEF dbVars
<1>2. CASE FailScan(j)
  BY <1>2, MarkedSeen DEF FailScan
<1>3. CASE FailReport(j)
  BY <1>3, StoredSeen DEF FailReport, TypeOK
<1>4. CASE CreateNotice(j, job[j].name, "deadLetter")
  <2>1. job[j].name # "ready" /\ "ready" \in Message
    BY DEF TypeOK, JobRecord, Stage, Message
  <2>2. notices'["ready"] = notices["ready"]
    BY <1>4, <2>1 DEF CreateNotice, TypeOK
  <2> QED
    BY <1>4, <2>2
       DEF CreateNotice, ShownStatus, Seen, Promise!promiseVars
<1> QED
  BY <1>1, <1>2, <1>3, <1>4
     DEF fail, FailNotice, FailDeadLetter, FailCleanup, dbVars

LEMMA RequestsSeen ==
  ASSUME TypeOK, scan.status # "none", Requests
  PROVE  Seen /\ scan'.status # "none"
<1>1. CASE UNCHANGED dbVars
  BY <1>1, UnseenSeen DEF dbVars
<1>2. CASE /\ scan'.status \notin {"none", "COMPLETED"}
           /\ UNCHANGED <<report, notices>>
  BY <1>2, MarkedSeen
<1>3. CASE scan' = [scan EXCEPT !.pipeline = "RUNNING"]
           /\ UNCHANGED <<report, notices>>
  <2>1. scan'.status = scan.status
    BY <1>3 DEF TypeOK
  <2> QED
    BY <1>3, <2>1 DEF ShownStatus, Seen, Promise!promiseVars
<1>4. CASE scan' = [scan EXCEPT !.pipeline = "CANCELLED"]
           /\ UNCHANGED <<report, notices>>
  <2>1. scan'.status = scan.status
    BY <1>4 DEF TypeOK
  <2> QED
    BY <1>4, <2>1 DEF ShownStatus, Seen, Promise!promiseVars
<1>5. ASSUME NEW c \in Starts, startPipeline(c)
      PROVE  Seen /\ scan'.status # "none"
  <2>1. CASE StartStatus(c)
    BY <1>2, <2>1 DEF StartStatus, TypeOK
  <2>2. CASE StartRunning(c)
    BY <1>3, <2>2 DEF StartRunning
  <2> QED
    BY <1>1, <1>5, <2>1, <2>2
       DEF startPipeline, StartFind, StartCreate, StartEnqueue, dbVars
<1>6. ASSUME NEW c \in Cancels, cancelPipeline(c)
      PROVE  Seen /\ scan'.status # "none"
  <2>1. CASE CancelStatus(c)
    BY <1>2, <2>1 DEF CancelStatus, TypeOK
  <2>2. CASE CancelFinal(c)
    BY <1>4, <2>2 DEF CancelFinal
  <2> QED
    BY <1>1, <1>6, <2>1, <2>2 DEF cancelPipeline, CancelRead, CancelRemove
<1>7. ASSUME NEW c \in Resumes, resumePipeline(c)
      PROVE  Seen /\ scan'.status # "none"
  <2>1. CASE ResumeStatus(c)
    <3>1. call[c].step \in {"download", "parse", "merge", "analyze",
                            "report"}
      BY DEF TypeOK, Calls
    <3>2. StatusForStep[call[c].step] \notin {"none", "COMPLETED"}
      BY <3>1 DEF StatusForStep
    <3> QED
      BY <1>2, <2>1, <3>2 DEF ResumeStatus, TypeOK
  <2>2. CASE ResumeRunning(c)
    BY <1>3, <2>2 DEF ResumeRunning
  <2> QED
    BY <1>1, <1>7, <2>1, <2>2 DEF resumePipeline, ResumeRead, ResumeEnqueue
<1> QED
  BY <1>5, <1>6, <1>7 DEF Requests

LEMMA AskedSeen ==
  ASSUME SafeInv, scan.status # "none", Next
  PROVE  Seen /\ scan'.status # "none"
<1>1. CASE Administrator \/ Environment
  <2>1. UNCHANGED dbVars
    BY <1>1 DEF Administrator, retryJob, removeJob, Environment, ApiCrash,
                Fault, WorkerCrash, WriteRefused, ListenerCrash
  <2> QED
    BY <2>1, UnseenSeen DEF dbVars
<1>2. ASSUME NEW j \in Jobs, WorkerStep(j)
      PROVE  Seen /\ scan'.status # "none"
  BY <1>2, ProcessorSeen, FailSeen DEF WorkerStep, SafeInv
<1> QED
  BY <1>1, <1>2, RequestsSeen DEF Next, SafeInv

-----------------------------------------------------------------------------
(* Before that, only requests act, and they either read or create the scan.*)
LEMMA UnaskedStep ==
  ASSUME PromiseInv, scan.status = "none", Next
  PROVE  /\ UNCHANGED <<report, notices, job>>
         /\ \A c \in Calls : call'[c].pc \in {"new", "create", "done"}
              \/ scan'.status # "none"
         /\ UNCHANGED scan
              \/ scan' = [status |-> "QUEUED", pipeline |-> "PENDING"]
<1>0. TypeOK
  BY DEF PromiseInv, SafeInv
<1>1. /\ \A j \in Jobs : job[j].state = "none"
      /\ \A c \in Calls : call[c].pc \in {"new", "create", "done"}
  BY DEF PromiseInv, NothingBefore
<1>2. ASSUME NEW j \in Jobs PROVE ~WorkerStep(j)
  BY <1>1
     DEF WorkerStep, Processor, Download, Extract, Parse, Merge, Analyze,
         Report, Notify, Cleanup, TakeAndAssert, Reassert, Takes, At, fail,
         FailScan, FailReport, FailNotice, FailDeadLetter, FailCleanup,
         FailAt
<1>3. ~Administrator
  BY <1>1 DEF Administrator, retryJob, removeJob
<1>4. ASSUME NEW c \in Calls, ApiCrash(c)
      PROVE  /\ UNCHANGED <<scan, report, notices, job>>
             /\ call' = [call EXCEPT ![c].pc = "done"]
  BY <1>4 DEF ApiCrash, CallGoto, dbVars
<1>5. CASE Environment
  <2>1. PICK c \in Calls : ApiCrash(c)
    BY <1>1, <1>5 DEF Environment, Fault, Live, WorkerCrash, WriteRefused,
                      ListenerCrash, FailHandlerRunning
  <2> QED
    BY <1>0, <1>1, <1>4, <2>1 DEF TypeOK
<1>6. ASSUME NEW c \in Starts, startPipeline(c)
      PROVE  /\ UNCHANGED <<report, notices, job>>
             /\ \/ /\ UNCHANGED scan
                   /\ \E pc \in {"create", "done"} :
                        call' = [call EXCEPT ![c].pc = pc]
                \/ scan' = [status |-> "QUEUED", pipeline |-> "PENDING"]
  <2>1. StartFind(c) \/ StartCreate(c)
    BY <1>1, <1>6 DEF startPipeline, StartEnqueue, StartStatus, StartRunning,
                      CallAt, Calls
  <2>2. CASE StartFind(c)
    BY <2>2 DEF StartFind, CallGoto, dbVars
  <2>3. CASE StartCreate(c)
    BY <2>3 DEF StartCreate, CallGoto
  <2> QED
    BY <2>1, <2>2, <2>3
<1>7. ASSUME NEW c \in Cancels, cancelPipeline(c)
      PROVE  /\ UNCHANGED <<scan, report, notices, job>>
             /\ call' = [call EXCEPT ![c].pc = "done"]
  BY <1>1, <1>7 DEF cancelPipeline, CancelRead, CancelRemove, CancelStatus,
                    CancelFinal, CallAt, CallGoto, Calls, dbVars, Terminal
<1>8. ASSUME NEW c \in Resumes, resumePipeline(c)
      PROVE  /\ UNCHANGED <<scan, report, notices, job>>
             /\ call' = [call EXCEPT ![c].pc = "done"]
  BY <1>1, <1>8 DEF resumePipeline, ResumeRead, ResumeStatus, ResumeRunning,
                    ResumeEnqueue, CallAt, CallGoto, Calls, dbVars, Terminal,
                    StepForStatus
<1>9. ASSUME NEW c \in Calls, NEW pc \in {"create", "done"},
             call' = [call EXCEPT ![c].pc = pc]
      PROVE  \A d \in Calls : call'[d].pc \in {"new", "create", "done"}
  BY <1>0, <1>1, <1>9 DEF TypeOK
<1>10. CASE Requests
  BY <1>6, <1>7, <1>8, <1>9, <1>10 DEF Requests, Calls
<1> QED
  BY <1>2, <1>3, <1>5, <1>10 DEF Next

LEMMA UnaskedSeen ==
  ASSUME PromiseInv, scan.status = "none", Next
  PROVE  Seen /\ NothingBefore'
<1>1. Seen
  <2>1. CASE UNCHANGED scan
    BY <2>1, UnaskedStep, UnseenSeen DEF dbVars
  <2>2. CASE scan' = [status |-> "QUEUED", pipeline |-> "PENDING"]
    <3>1. Promise!Accept
      BY <2>2, UnaskedStep DEF Promise!Accept, ShownStatus
    <3> QED
      BY <3>1 DEF Seen, Promise!Next
  <2> QED
    BY <2>1, <2>2, UnaskedStep
<1>2. NothingBefore'
  BY UnaskedStep DEF NothingBefore, PromiseInv
<1> QED
  BY <1>1, <1>2

-----------------------------------------------------------------------------
LEMMA InitPromise == Init => PromiseInv /\ Promise!Init
<1> SUFFICES ASSUME Init PROVE PromiseInv /\ Promise!Init
  OBVIOUS
<1>1. NothingBefore
  BY DEF Init, NothingBefore, NoJob
<1>2. Promise!Init
  BY DEF Init, Promise!Init, ShownStatus, Message
<1> QED
  BY <1>1, <1>2, InitSafe DEF PromiseInv

LEMMA NextPromise == PromiseInv /\ [Next]_vars => PromiseInv' /\ Seen
<1> SUFFICES ASSUME PromiseInv, [Next]_vars PROVE PromiseInv' /\ Seen
  OBVIOUS
<1>1. SafeInv'
  BY NextSafe DEF PromiseInv
<1>2. NothingBefore' /\ Seen
  <2>1. CASE UNCHANGED vars
    <3>1. UNCHANGED dbVars /\ NothingBefore'
      BY <2>1 DEF vars, dbVars, PromiseInv, NothingBefore
    <3> QED
      BY <3>1, UnseenSeen
  <2>2. CASE Next /\ scan.status = "none"
    BY <2>2, UnaskedSeen
  <2>3. CASE Next /\ scan.status # "none"
    BY <2>3, AskedSeen DEF PromiseInv, NothingBefore
  <2> QED
    BY <2>1, <2>2, <2>3
<1> QED
  BY <1>1, <1>2 DEF PromiseInv

(* Whatever requests, faults, process deaths and administrators interleave,*)
(* a client of the API sees what PipelinePromise allows and nothing else.  *)
THEOREM PipelineKeepsPromise == Spec => KeepsPromise
BY InitPromise, NextPromise, PTL DEF Spec, KeepsPromise, Promise!Spec, Seen
=============================================================================
