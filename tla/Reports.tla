------------------------------- MODULE Reports -------------------------------
(***************************************************************************)
(* The reports of one project: versions are uploaded, analysed and         *)
(* removed, reports are stored, stored again and removed, and clients      *)
(* download the project with a report's fixes while all this goes on.      *)
(*                                                                         *)
(* How an analysis gets through its queues is the subject of Pipeline and  *)
(* Reviews; here its two writes are one step each.                         *)
(***************************************************************************)
EXTENDS ReportGenerator

CONSTANTS
  Archives,      \* contents of uploads: functions from paths to texts
  Merging,       \* settings of mergeFiles: a set of truth values
  Selections,    \* files the provider may select: sets of paths
  Reviews,       \* issues a review may bring: sequences of issues
  Exports,       \* requests GET reports/:id/patched-zip
  MaxVersions,   \* bound: uploads
  MaxAnalyses    \* bound: analyses

ASSUME ReportsAssumption ==
  /\ \A a \in Archives : a \in [DOMAIN a -> Seq(STRING)] /\ DOMAIN a \subseteq Paths
  /\ Merging \subseteq BOOLEAN
  /\ \A answer \in Selections : Cardinality(answer) <= MaxAnalysisFiles
  /\ \A issues \in Reviews :
       issues \in Seq(Range(issues)) /\ \A issue \in Range(issues) : WellFormed(issue)
  /\ {MaxVersions, MaxAnalyses} \subseteq Nat

VARIABLES
  version,       \* the uploads, in their order: their files, row and object
  context,       \* per upload: the stored chunks, and the paths in prompts
  results,       \* per upload: the provider's issues, and if they await a report
  report,        \* per upload: the report row and its findings
  export,        \* the requests and their local variables
  analyses       \* analyses so far

vars == <<version, context, results, report, export, analyses>>

Versions == 1 .. MaxVersions

NoContext == [chunks |-> <<>>, sent |-> {}]

NoResults == [issues |-> <<>>, pending |-> FALSE]

NoReport == [state |-> "none", created |-> 0, findings |-> <<>>]

ExportPoint == {"new", "upload", "latest", "row", "download", "served", "refused"}

NewExport ==
  [pc |-> "new", of |-> 0, findings |-> <<>>, patches |-> <<>>, latest |-> 0,
   zip |-> <<>>]

Init ==
  /\ version = <<>>
  /\ context = [v \in Versions |-> NoContext]
  /\ results = [v \in Versions |-> NoResults]
  /\ report = [v \in Versions |-> NoReport]
  /\ export = [x \in Exports |-> NewExport]
  /\ analyses = 0

Uploads == 1 .. Len(version)

Reported == {v \in Versions : report[v].created > 0}

-----------------------------------------------------------------------------
(* Uploads and their removal, which deletes the object before the row.     *)

Upload(files) ==
  /\ Len(version) < MaxVersions
  /\ version' = Append(version, [files |-> files, row |-> TRUE, object |-> TRUE])
  /\ UNCHANGED <<context, results, report, export, analyses>>

RemoveObject(v) ==
  /\ version[v].object
  /\ ~results[v].pending
  /\ version' = [version EXCEPT ![v].object = FALSE]
  /\ UNCHANGED <<context, results, report, export, analyses>>

RemoveRow(v) ==
  /\ version[v].row
  /\ ~version[v].object
  /\ version' = [version EXCEPT ![v].row = FALSE]
  /\ UNCHANGED <<context, results, report, export, analyses>>

-----------------------------------------------------------------------------
(* The analysis.                                                           *)

(* An upload is analysed again only after a cancellation or failure, which *)
(* may come after its report was stored.                                   *)
analyze(v, merge, answer, issues) ==
  LET files  == LoadFiles(version[v].files)
      chunks == Build(files, MaxChunks)
  IN  /\ version[v].object
      /\ ~results[v].pending
      /\ analyses < MaxAnalyses
      /\ analyses' = analyses + 1
      /\ context' = [context EXCEPT ![v] =
           [chunks |-> chunks,
            sent |-> IF merge THEN SentMerged(answer, chunks, files)
                     ELSE SentSeparately(chunks)]]
      /\ results' = [results EXCEPT ![v] = [issues |-> issues, pending |-> TRUE]]
      /\ UNCHANGED <<version, report, export>>

(* The report's row keeps the time of its creation; one that was removed   *)
(* comes back.                                                             *)
saveReport(v) ==
  /\ results[v].pending
  /\ results' = [results EXCEPT ![v].pending = FALSE]
  /\ report' = [report EXCEPT ![v] =
       [state |-> "READY",
        created |-> IF @.created > 0 THEN @.created ELSE Cardinality(Reported) + 1,
        findings |-> Deduplicate(results[v].issues)]]
  /\ UNCHANGED <<version, context, export, analyses>>

(* The report's job fails for good, before or after its write.  A new row  *)
(* is without findings, one that was removed does not come back.           *)
failReport(v) ==
  /\ results[v].pending \/ report[v].state = "READY"
  /\ results' = [results EXCEPT ![v].pending = FALSE]
  /\ report' = [report EXCEPT
       ![v].state = IF @ = "removed" THEN @ ELSE "FAILED",
       ![v].created = IF @ > 0 THEN @ ELSE Cardinality(Reported) + 1]
  /\ UNCHANGED <<version, context, export, analyses>>

Listed == {v \in Versions : report[v].state \in {"READY", "FAILED"}}

removeReport(v) ==
  /\ v \in Listed
  /\ report' = [report EXCEPT ![v].state = "removed"]
  /\ UNCHANGED <<version, context, results, export, analyses>>

-----------------------------------------------------------------------------
(* exportPatchedZip, one step per await.                                   *)

Goto(x, update) ==
  /\ export' = [export EXCEPT ![x] = update]
  /\ UNCHANGED <<version, context, results, report, analyses>>

Refuse(x) == Goto(x, [export[x] EXCEPT !.pc = "refused"])

(* The report that the project's list of reports begins with, if any.      *)
Latest ==
  {v \in Listed : \A w \in Listed : report[w].created <= report[v].created}

ExportReport(x) ==
  /\ export[x].pc = "new"
  /\ \E v \in Listed :
       \E patches \in PatchMaps(version[v].files, report[v].findings) :
         Goto(x, [export[x] EXCEPT !.pc = "upload", !.of = v, !.patches = patches,
                                   !.findings = report[v].findings])

ExportUpload(x) ==
  /\ export[x].pc = "upload"
  /\ IF version[export[x].of].row
     THEN Goto(x, [export[x] EXCEPT !.pc = "latest"])
     ELSE Refuse(x)

ExportLatest(x) ==
  /\ export[x].pc = "latest"
  /\ IF Latest = {} THEN Refuse(x)
     ELSE \E v \in Latest : Goto(x, [export[x] EXCEPT !.pc = "row", !.latest = v])

ExportRow(x) ==
  /\ export[x].pc = "row"
  /\ IF version[export[x].latest].row
     THEN Goto(x, [export[x] EXCEPT !.pc = "download"])
     ELSE Refuse(x)

ExportDownload(x) ==
  /\ export[x].pc = "download"
  /\ LET source == version[export[x].latest]
     IN  IF source.object
         THEN Goto(x, [export[x] EXCEPT !.pc = "served",
                         !.zip = RewriteZip(source.files, export[x].patches)])
         ELSE Refuse(x)

exportPatchedZip(x) ==
  \/ ExportReport(x)
  \/ ExportUpload(x)
  \/ ExportLatest(x)
  \/ ExportRow(x)
  \/ ExportDownload(x)

-----------------------------------------------------------------------------
Next ==
  \/ \E files \in Archives : Upload(files)
  \/ \E v \in Uploads :
       \/ RemoveObject(v)
       \/ RemoveRow(v)
       \/ saveReport(v)
       \/ failReport(v)
       \/ removeReport(v)
       \/ \E merge \in Merging, answer \in Selections, issues \in Reviews :
            analyze(v, merge, answer, issues)
  \/ \E x \in Exports : exportPatchedZip(x)

Spec == Init /\ [][Next]_vars

-----------------------------------------------------------------------------
(* What pieces, and the chunks of a list, contain of one file.             *)
ContentOf(pieces, path) ==
  FoldLeft(LAMBDA text, p : IF p.path = path THEN text \o p.content ELSE text,
           <<>>, pieces)

Assembled(chunks, path) ==
  FoldLeft(LAMBDA text, chunk : text \o ContentOf(chunk.pieces, path), <<>>, chunks)

(* Chunks that leave room under their limit contain every loaded file      *)
(* whole and once, however it was grouped or cut (ChunkBuilderService).    *)
(* These are the project's chunks, from which reviews select; at the limit *)
(* the rest of an upload is dropped.                                       *)
NothingLost ==
  \A v \in Uploads :
    LET chunks == context[v].chunks
    IN  chunks # <<>> /\ Len(chunks) < MaxChunks =>
          \A file \in Range(LoadFiles(version[v].files)) :
            Assembled(chunks, file.path) = file.content

(* The findings of a report speak of everything the provider reported:     *)
(* whatever IssueDeduplicatorService leaves out is much like a finding of  *)
(* the same file and category that stays, and no two that stay are alike.  *)
ProblemsKept ==
  \A v \in Uploads :
    LET findings == report[v].findings
    IN  report[v].state = "READY" /\ ~results[v].pending =>
          /\ \A issue \in Range(results[v].issues) :
               \E f \in Range(findings) : SameBucket(f, issue) /\ Similar(f, issue)
          /\ \A i, j \in DOMAIN findings :
               i # j => ~(SameBucket(findings[i], findings[j])
                            /\ Similar(findings[i], findings[j]))

(* A line begins at a place of a text.                                     *)
BeginsLine(text, i, line) ==
  /\ Len(Lines(SubSeq(text, 1, i - 1))) = line
  /\ i = 1 \/ text[i - 1] \in LineEnds

(* A report offers exactly one fix for a path, its quotation stands in the *)
(* stored file at the lines of the fix and nowhere else, and what replaces *)
(* it is no pattern.                                                       *)
Unambiguous(files, findings, f, patch) ==
  LET text == files[f.file]
      from == FixStart(f, patch)
      to   == FixEnd(f, patch)
      at   == {i \in 1 .. Len(text) - Len(patch.before) + 1 :
                 SubSeq(text, i, i + Len(patch.before) - 1) = patch.before}
  IN  /\ {g \in Range(findings) : g.file = f.file /\ g.patch # {}} = {f}
      /\ patch.before # <<>>
      /\ to <= Len(Lines(text))
      /\ LinesOf(text, from, to) = patch.before
      /\ \E i \in at : at = {i} /\ BeginsLine(text, i, from)
      /\ "$$" \notin Range(patch.after)

(* A fix that the report shows is the fix that is downloaded (reports      *)
(* controller: the archive with safe suggested patches applied): when no   *)
(* newer report came in between and nothing is ambiguous, the file has the *)
(* lines of the fix, and only these, replaced.                             *)
ShownFixIsServed ==
  \A x \in Exports :
    export[x].pc = "served" /\ export[x].latest = export[x].of =>
      LET files == version[export[x].of].files
      IN  \A f \in Range(export[x].findings) :
            \A patch \in SuggestedPatch(files, f) :
              /\ f.file \in DOMAIN files
              /\ Unambiguous(files, export[x].findings, f, patch)
              => Lines(export[x].zip[f.file]) =
                   SubSeq(Lines(files[f.file]), 1, FixStart(f, patch) - 1)
                     \o Lines(patch.after)
                     \o SubSeq(Lines(files[f.file]), FixEnd(f, patch) + 1,
                               Len(Lines(files[f.file])))

(* "File was included in the project review" (ReportsService.fileCoverage):*)
(* a file of the upload that is listed as reviewed was in the prompt of a  *)
(* review.                                                                 *)
CoverageHolds ==
  \A v \in Uploads :
    report[v].state = "READY" /\ ~results[v].pending =>
      \A path \in DOMAIN version[v].files
                   \cap Coverage(DOMAIN version[v].files, context[v].chunks,
                                 report[v].findings) :
        Reviewed(path, report[v].findings) => path \in context[v].sent
=============================================================================
