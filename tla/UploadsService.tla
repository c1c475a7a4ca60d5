---------------------------- MODULE UploadsService ----------------------------
(***************************************************************************)
(* UploadsService: create, importGithub and remove, one action per await;  *)
(* UploadedFileRepository.createNextVersion with its retries; and the      *)
(* analyses of a version as far as they look at its row and its object.    *)
(***************************************************************************)
EXTENDS ProjectsService

(* The greatest of some versions, 0 without any.                           *)
Greatest(versions) ==
  IF versions = {} THEN 0
  ELSE CHOOSE v \in versions : \A w \in versions : w <= v

LatestLiveVersion == Greatest({rows[u].version : u \in {v \in Ids : Live(v)}})

(* createNextVersion counts the deleted rows.                              *)
LatestVersion == Greatest({rows[u].version : u \in Ids})

HasCommit(c) == \E u \in Ids : Live(u) /\ rows[u].commit = c

Source(r) == IF r \in Imports THEN Head(req[r].todo) ELSE None

NextCommit(r, leftOut) ==
  req' = [req EXCEPT ![r].pc = "next", ![r].todo = Tail(@), ![r].row = 0,
                     ![r].latest = 0, ![r].attempt = 1,
                     ![r].skipped = @ \/ leftOut]

(* The two ways create ends: an import goes on with the next commit, or is *)
(* ended by the error, unless it is the unique violation P2002, which is   *)
(* taken to mean that the commit has a version by now.                     *)
Created(r) == IF r \in Imports THEN NextCommit(r, FALSE) ELSE Finish(r, "ok")

Refused(r, code) ==
  IF r \in Imports /\ code = "P2002"
  THEN NextCommit(r, ~HasCommit(Source(r)))
  ELSE Finish(r, IF code \in {"P2002", "P2034"} THEN "conflict" ELSE "failed")

-----------------------------------------------------------------------------
(* createUpload                                                            *)

CreateCheck(r) ==
  /\ \/ r \in Manuals /\ At(r, "new")
     \/ r \in Imports /\ At(r, "check")
  /\ IF project.deleted \/ (project.repo # None /\ r \in Manuals)
     THEN Finish(r, "refused")
     ELSE Goto(r, "latest")
  /\ UNCHANGED <<project, rows, objects, troubles>>

VersionRead(r) ==
  /\ At(r, "latest")
  /\ req' = [req EXCEPT ![r].pc = "insert", ![r].latest = LatestVersion]
  /\ UNCHANGED <<project, rows, objects, troubles>>

NewRow(r) ==
  [status |-> "PENDING", commit |-> Source(r), version |-> req[r].latest + 1,
   deleted |-> FALSE, scan |-> "none"]

VersionTaken(r) == \E u \in Ids : rows[u].version = req[r].latest + 1

VersionInsertUnguarded(r) ==
  /\ At(r, "insert")
  /\ ~(r \in Imports /\ HasCommit(Source(r)))
  /\ rows' = Append(rows, NewRow(r))
  /\ req' = [req EXCEPT ![r].pc = "validating", ![r].row = Len(rows) + 1]
  /\ UNCHANGED <<project, objects, troubles>>

VersionInsertAnyCommit(r) ==
  /\ At(r, "insert")
  /\ ~VersionTaken(r)
  /\ rows' = Append(rows, NewRow(r))
  /\ req' = [req EXCEPT ![r].pc = "validating", ![r].row = Len(rows) + 1]
  /\ UNCHANGED <<project, objects, troubles>>

VersionInsert(r) ==
  /\ At(r, "insert")
  /\ ~VersionTaken(r)
  /\ ~(r \in Imports /\ HasCommit(Source(r)))
  /\ rows' = Append(rows, NewRow(r))
  /\ req' = [req EXCEPT ![r].pc = "validating", ![r].row = Len(rows) + 1]
  /\ UNCHANGED <<project, objects, troubles>>

AgainFourTimes(r, code) ==
  IF req[r].attempt <= 3
  THEN req' = [req EXCEPT ![r].pc = "latest", ![r].attempt = @ + 1,
                          ![r].latest = 0]
  ELSE Refused(r, code)

Again(r, code) ==
  IF req[r].attempt < 3
  THEN req' = [req EXCEPT ![r].pc = "latest", ![r].attempt = @ + 1,
                          ![r].latest = 0]
  ELSE Refused(r, code)

(* Another creation took the version: the unique index or the serializable *)
(* isolation refuses the insert. The index on commits refuses it too.      *)
VersionConflict(r) ==
  /\ At(r, "insert")
  /\ \/ VersionTaken(r) /\ \E code \in {"P2002", "P2034"} : Again(r, code)
     \/ r \in Imports /\ HasCommit(Source(r)) /\ Again(r, "P2002")
  /\ UNCHANGED <<project, rows, objects, troubles>>

SetStatus(u, status) == rows' = [rows EXCEPT ![u].status = status]

CreateValidating(r) ==
  /\ At(r, "validating")
  /\ SetStatus(req[r].row, "VALIDATING")
  /\ Goto(r, "validate")
  /\ UNCHANGED <<project, objects, troubles>>

CreateValidateOnly(r) ==
  /\ At(r, "validate")
  /\ \/ SetStatus(req[r].row, "UPLOADING") /\ Goto(r, "store")
     \/ UNCHANGED rows /\ Finish(r, "failed")
  /\ UNCHANGED <<project, objects, troubles>>

(* The validator accepts the file, or create's catch is entered.           *)
CreateValidate(r) ==
  /\ At(r, "validate")
  /\ \/ SetStatus(req[r].row, "UPLOADING") /\ Goto(r, "store")
     \/ UNCHANGED rows /\ Goto(r, "fail")
  /\ UNCHANGED <<project, objects, troubles>>

CreateStoreUnawaited(r) ==
  /\ At(r, "store")
  /\ \/ objects' = objects \cup {req[r].row}
     \/ UNCHANGED objects
  /\ Goto(r, "complete")
  /\ UNCHANGED <<project, rows, troubles>>

CreateStore(r) ==
  /\ At(r, "store")
  /\ objects' = objects \cup {req[r].row}
  /\ Goto(r, "complete")
  /\ UNCHANGED <<project, rows, troubles>>

CreateComplete(r) ==
  /\ At(r, "complete")
  /\ SetStatus(req[r].row, "COMPLETED")
  /\ Created(r)
  /\ UNCHANGED <<project, objects, troubles>>

(* A write of the row or of the object fails: the catch deletes an object  *)
(* that was stored.                                                        *)
CreateThrows(r) ==
  /\ req[r].pc \in {"validating", "validate", "store", "complete"}
  /\ Goto(r, IF At(r, "complete") THEN "clean" ELSE "fail")
  /\ Trouble
  /\ UNCHANGED <<project, rows, objects>>

CreateClean(r) ==
  /\ At(r, "clean")
  /\ \/ objects' = objects \ {req[r].row} /\ UNCHANGED troubles
     \/ UNCHANGED objects /\ Trouble
  /\ Goto(r, "fail")
  /\ UNCHANGED <<project, rows>>

CreateFail(r) ==
  /\ At(r, "fail")
  /\ \/ SetStatus(req[r].row, "FAILED") /\ UNCHANGED troubles
     \/ UNCHANGED rows /\ Trouble
  /\ Refused(r, "error")
  /\ UNCHANGED <<project, objects>>

create(r) ==
  \/ CreateCheck(r)
  \/ VersionRead(r)
  \/ VersionInsert(r)
  \/ VersionConflict(r)
  \/ CreateValidating(r)
  \/ CreateValidate(r)
  \/ CreateStore(r)
  \/ CreateComplete(r)
  \/ CreateThrows(r)
  \/ CreateClean(r)
  \/ CreateFail(r)

-----------------------------------------------------------------------------
(* importGithub                                                            *)

ImportProject(i) ==
  /\ At(i, "new")
  /\ \E repo \in Repos :
       IF project.deleted \/ project.repo \notin {None, repo}
       THEN Finish(i, "refused")
       ELSE req' = [req EXCEPT ![i].pc = "sources", ![i].repo = repo,
                               ![i].flag = rows # <<>> /\ project.repo = None]
  /\ UNCHANGED <<project, rows, objects, troubles>>

ImportSourcesUnconnected(i) ==
  /\ At(i, "sources")
  /\ LET github == \E u \in Ids : Live(u) /\ rows[u].commit # None
     IN  IF req[i].flag /\ ~github
         THEN Finish(i, "refused")
         ELSE req' = [req EXCEPT ![i].pc = "connect",
                                 ![i].flag = project.repo = None]
  /\ UNCHANGED <<project, rows, objects, troubles>>

(* hasSourceType; from here on flag says that the whole history is wanted. *)
ImportSources(i) ==
  /\ At(i, "sources")
  /\ LET github == \E u \in Ids : Live(u) /\ rows[u].commit # None
     IN  IF req[i].flag /\ ~github
         THEN Finish(i, "refused")
         ELSE req' = [req EXCEPT ![i].pc = "connect", ![i].flag = ~github]
  /\ UNCHANGED <<project, rows, objects, troubles>>

ImportConnect(i) ==
  /\ At(i, "connect")
  /\ project' = [project EXCEPT !.repo = req[i].repo]
  /\ Goto(i, "commits")
  /\ UNCHANGED <<rows, objects, troubles>>

Newest(repo, n) == [k \in 1 .. n |-> <<repo, Commits - n + k>>]

(* In chronological order: with a token fetchGithubCommits, all pages for  *)
(* the first import and the newest afterwards; without one, the Atom feed, *)
(* which has the newest page only.                                         *)
ImportCommits(i) ==
  /\ At(i, "commits")
  /\ req' = [req EXCEPT ![i].pc = "next", ![i].flag = FALSE,
               ![i].todo = Newest(req[i].repo,
                                  IF token /\ req[i].flag THEN Commits ELSE Page)]
  /\ UNCHANGED <<project, rows, objects, troubles>>

(* GitHub refuses: in place of its API the Atom feed has the newest        *)
(* commits; or the feed fails (as well).                                   *)
ImportRefused(i) ==
  /\ At(i, "commits")
  /\ \/ /\ token
        /\ req' = [req EXCEPT ![i].pc = "next", ![i].flag = FALSE,
                     ![i].todo = Newest(req[i].repo, Page)]
     \/ Finish(i, "failed")
  /\ Trouble
  /\ UNCHANGED <<project, rows, objects>>

ImportNext(i) ==
  /\ At(i, "next")
  /\ IF req[i].todo = <<>> THEN Finish(i, "ok")
     ELSE IF HasCommit(Source(i)) THEN Created(i)
     ELSE Goto(i, "archive")
  /\ UNCHANGED <<project, rows, objects, troubles>>

ImportArchive(i) ==
  /\ At(i, "archive")
  /\ \/ Goto(i, "check") /\ UNCHANGED troubles
     \/ Created(i) /\ Trouble
  /\ UNCHANGED <<project, rows, objects>>

importGithub(i) ==
  \/ ImportProject(i)
  \/ ImportSources(i)
  \/ ImportConnect(i)
  \/ ImportCommits(i)
  \/ ImportRefused(i)
  \/ ImportNext(i)
  \/ ImportArchive(i)

-----------------------------------------------------------------------------
(* remove, of any version the user sees.                                   *)

RemoveFind(d) ==
  /\ At(d, "new")
  /\ \E u \in {v \in Ids : Live(v)} :
       IF project.deleted THEN Finish(d, "refused")
       ELSE req' = [req EXCEPT ![d].pc = "scan", ![d].row = u]
  /\ UNCHANGED <<project, rows, objects, troubles>>

RemoveScan(d) ==
  /\ At(d, "scan")
  /\ LET row == rows[req[d].row]
     IN  IF row.scan = "RUNNING" \/ row.commit # None
         THEN Finish(d, "refused")
         ELSE Goto(d, "object")
  /\ UNCHANGED <<project, rows, objects, troubles>>

RemoveObject(d) ==
  /\ At(d, "object")
  /\ \/ objects' = objects \ {req[d].row} /\ UNCHANGED troubles
     \/ UNCHANGED objects /\ Trouble
  /\ Goto(d, "row")
  /\ UNCHANGED <<project, rows>>

RemoveRow(d) ==
  /\ At(d, "row")
  /\ \/ /\ rows' = [rows EXCEPT ![req[d].row].deleted = TRUE]
        /\ Finish(d, "ok")
        /\ UNCHANGED troubles
     \/ UNCHANGED rows /\ Finish(d, "failed") /\ Trouble
  /\ UNCHANGED <<project, objects>>

remove(d) ==
  \/ RemoveFind(d)
  \/ RemoveScan(d)
  \/ RemoveObject(d)
  \/ RemoveRow(d)
=============================================================================
