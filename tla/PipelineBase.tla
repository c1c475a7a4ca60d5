---------------------------- MODULE PipelineBase ----------------------------
(***************************************************************************)
(* State shared by the API's PipelineService and by the Worker's           *)
(* processors: the Scan row of one upload, its Report row, the job queues  *)
(* of BullMQ, and the working directory of the analysis.                   *)
(*                                                                         *)
(* One module instance is about one uploaded version: the partial unique   *)
(* index on scans.source_file_id leaves at most one live scan per upload,  *)
(* and a job touches the rows and the directory of its own scan only.      *)
(***************************************************************************)
EXTENDS Naturals, FiniteSets

CONSTANTS
  Starts,       (* "analyse this upload" requests that may reach the API     *)
  Cancels,      (* "cancel" requests                                         *)
  Resumes,      (* "resume" requests                                         *)
  Jobs,         (* ids BullMQ can hand out: bounds the jobs alive at once    *)
  MaxAttempts,  (* DEFAULT_JOB_OPTIONS.attempts                              *)
  MaxFaults,    (* bound: attempts that die of an outside error              *)
  MaxOutages,   (* bound: process deaths and writes refused to fail()         *)
  MaxAdmin      (* bound: jobs retried or removed by an administrator        *)

Calls == Starts \cup Cancels \cup Resumes

ASSUME PipelineAssumption ==
  /\ Starts \cap Cancels = {}
  /\ Starts \cap Resumes = {}
  /\ Cancels \cap Resumes = {}
  /\ MaxAttempts \in Nat \ {0}
  /\ MaxFaults \in Nat
  /\ MaxOutages \in Nat
  /\ MaxAdmin \in Nat

VARIABLES
  scan,         (* Scan row: status, pipelineStatus; "none" before creation  *)
  report,       (* Report row: status and how much of the upload it reviewed *)
  notices,      (* Notification rows by message                              *)
  files,        (* the working directory jobs/{pipelineId}                   *)
  job,          (* BullMQ jobs, and the handler running each active one      *)
  deadLetters,  (* stages with a job in dead-letter.queue                    *)
  call,         (* API requests in flight                                    *)
  spent         (* what has been used of the bounds                          *)

dbVars == <<scan, report, notices>>
vars == <<scan, report, notices, files, job, deadLetters, call, spent>>

-----------------------------------------------------------------------------
Stage == {"download", "extract", "parse", "merge", "analyze", "report",
          "notify", "cleanup"}

ScanStatus == {"none", "QUEUED", "EXTRACTING", "PARSING", "AGGREGATING",
               "ANALYZING", "REPORTING", "COMPLETED", "FAILED", "CANCELLED"}

PipelineStatus == {"none", "PENDING", "RUNNING", "COMPLETED", "FAILED",
                   "CANCELLED"}

Terminal == {"COMPLETED", "FAILED", "CANCELLED"}

(* A file is absent, or it describes the whole upload, or it describes a   *)
(* tree whose files had been deleted.                                      *)
Content == {"absent", "empty", "full"}

Artifact == {"dir", "input", "download.json", "extracted", "extract.json",
             "parse.json", "context.json", "ai-results.json"}

(* Notification messages: the report is ready, or a stage has failed.      *)
Message == {"ready"} \cup Stage

JobState == {"none", "waiting", "active", "failed"}

(* Where PipelineStateService.fail stands.                                 *)
FailPoint == {"failScan", "failReport", "failReportOnly", "failFind",
              "failCreate", "deadLetter", "failCleanup"}

(* Where a handler stands: the next await of a processor, or of fail.  A   *)
(* waiting job is at "start".                                              *)
Point == {"start", "mark", "fetch", "unpack", "parse", "merge", "load",
          "review", "reassert", "txRead", "txWrite", "lastCheck", "find",
          "create", "save", "handoff", "done"} \cup FailPoint

CallPoint == {"new", "create", "enqueue", "status", "running", "remove",
              "final", "done"}

JobRecord == [state : JobState, name : Stage, envelope : BOOLEAN,
              attempts : 0..MaxAttempts, pc : Point, data : Content]

NoJob == [state |-> "none", name |-> "cleanup", envelope |-> FALSE,
          attempts |-> 0, pc |-> "done", data |-> "absent"]

Init ==
  /\ scan = [status |-> "none", pipeline |-> "none"]
  /\ report = [status |-> "none", content |-> "absent"]
  /\ notices = [m \in Message |-> 0]
  /\ files = [a \in Artifact |-> "absent"]
  /\ job = [j \in Jobs |-> NoJob]
  /\ deadLetters = {}
  /\ call = [c \in Calls |-> [pc |-> "new", step |-> "download"]]
  /\ spent = [faults |-> 0, outages |-> 0, admin |-> 0]

-----------------------------------------------------------------------------
(* BullMQ, as queue.service.ts and queue.factory.ts use it.                *)

FreeJobs == {j \in Jobs : job[j].state = "none"}

FreeJob == CHOOSE j \in FreeJobs : TRUE

(* A job the API adds carries its payload in an envelope {id, type,        *)
(* payload}; one a processor adds carries the bare payload.                *)
NewJob(name, envelope) ==
  [NoJob EXCEPT !.state = "waiting", !.name = name, !.envelope = envelope,
                !.pc = "start"]

(* Mutant of Thrown: one attempt more than configured.                     *)
ThrownOnceMore(jb) ==
  IF jb.attempts < MaxAttempts
  THEN [jb EXCEPT !.state = "waiting", !.pc = "start", !.data = "absent",
                  !.attempts = @ + 1]
  ELSE [jb EXCEPT !.state = "failed", !.data = "absent", !.attempts = @ + 1,
                  !.pc = IF jb.name = "cleanup" THEN "done" ELSE "failScan"]

(* Mutant of Thrown: the attempt is not counted.                           *)
ThrownUncounted(jb) ==
  [jb EXCEPT !.state = "waiting", !.pc = "start", !.data = "absent"]

(* Mutant of Thrown: an exhausted job never reaches the failed listener.   *)
ThrownSilently(jb) ==
  IF jb.attempts + 1 < MaxAttempts
  THEN [jb EXCEPT !.state = "waiting", !.pc = "start", !.data = "absent",
                  !.attempts = @ + 1]
  ELSE [jb EXCEPT !.state = "failed", !.pc = "done", !.data = "absent",
                  !.attempts = MaxAttempts]

(* An attempt that throws is retried until the attempts are used up; then  *)
(* the job is kept as failed and the worker's listener calls fail(job).    *)
Thrown(jb) ==
  IF jb.attempts + 1 < MaxAttempts
  THEN [jb EXCEPT !.state = "waiting", !.pc = "start", !.data = "absent",
                  !.attempts = @ + 1]
  ELSE [jb EXCEPT !.state = "failed", !.data = "absent",
                  !.attempts = MaxAttempts,
                  !.pc = IF jb.name = "cleanup" THEN "done" ELSE "failScan"]

Throw(j) == job' = [job EXCEPT ![j] = Thrown(@)]

Goto(j, pc) == job' = [job EXCEPT ![j].pc = pc]

Begin(j, pc) == job' = [job EXCEPT ![j].pc = pc, ![j].state = "active"]

(* A worker takes job j, a `stage` job, and runs it up to its first await. *)
Takes(j, stage) == job[j].state = "waiting" /\ job[j].name = stage

(* A worker runs job j, a `stage` job, and is at pc.                       *)
At(j, stage, pc) ==
  job[j].state = "active" /\ job[j].name = stage /\ job[j].pc = pc

Live(j) == job[j].state \in {"waiting", "active"}

FailHandlerRunning(j) == job[j].state = "failed" /\ job[j].pc \in FailPoint
=============================================================================
