------------------------------ MODULE Versions ------------------------------
(***************************************************************************)
(* The versions of a project: uploads, imports from GitHub and removals    *)
(* next to the operations on the project and the analyses of its versions. *)
(***************************************************************************)
EXTENDS UploadsService

vars == <<project, rows, objects, req, troubles, token>>

(* A project is created with or without a repository.                      *)
Init ==
  /\ project \in [repo : Repos \cup {None}, status : {"ACTIVE"},
                  deleted : {FALSE}]
  /\ rows = <<>>
  /\ objects = {}
  /\ req = [r \in Requests |-> NewRequest]
  /\ troubles = 0
  /\ token \in BOOLEAN

-----------------------------------------------------------------------------
(* AnalysisService.start: a completed version is looked up, then its scan  *)
(* is created or found, then it is marked as running.                      *)

StartFind(s) ==
  /\ At(s, "new")
  /\ \E u \in {v \in Ids : Live(v) /\ rows[v].status = "COMPLETED"} :
       IF project.deleted THEN Finish(s, "refused")
       ELSE req' = [req EXCEPT ![s].pc = "create", ![s].row = u]
  /\ UNCHANGED <<project, rows, objects, troubles>>

StartCreate(s) ==
  /\ At(s, "create")
  /\ LET u == req[s].row
     IN  \/ /\ rows[u].scan = "none"
            /\ rows' = [rows EXCEPT ![u].scan = "PENDING"]
            /\ Goto(s, "run")
         \/ rows[u].scan \in {"PENDING", "ended"} /\ Goto(s, "run") /\ UNCHANGED rows
         \/ rows[u].scan \in {"RUNNING", "ended"} /\ Finish(s, "ok") /\ UNCHANGED rows
  /\ UNCHANGED <<project, objects, troubles>>

StartRun(s) ==
  /\ At(s, "run")
  /\ rows' = [rows EXCEPT ![req[s].row].scan = "RUNNING"]
  /\ Finish(s, "ok")
  /\ UNCHANGED <<project, objects, troubles>>

start(s) ==
  \/ StartFind(s)
  \/ StartCreate(s)
  \/ StartRun(s)

(* The pipeline (module Pipeline) ends the scan, whatever it found.        *)
AnalysisEnds(u) ==
  /\ rows[u].scan \in {"PENDING", "RUNNING"}
  /\ rows' = [rows EXCEPT ![u].scan = "ended"]
  /\ UNCHANGED <<project, objects, req, troubles>>

(* The process of the API dies with the requests it was serving.           *)
ApiCrash ==
  /\ \E r \in Requests : req[r].pc \notin Outcome \cup {"new"}
  /\ req' = [r \in Requests |->
               IF req[r].pc \in Outcome \cup {"new"} THEN req[r]
               ELSE [NewRequest EXCEPT !.pc = "dead"]]
  /\ Trouble
  /\ UNCHANGED <<project, rows, objects>>

-----------------------------------------------------------------------------
Next ==
  /\ \/ \E r \in Manuals \cup Imports : create(r)
     \/ \E i \in Imports : importGithub(i)
     \/ \E d \in Removals : remove(d)
     \/ \E s \in Starts : start(s)
     \/ \E e \in Edits : EditStep(e)
     \/ \E u \in Ids : AnalysisEnds(u)
     \/ ApiCrash
  /\ UNCHANGED token

Spec == Init /\ [][Next]_vars

-----------------------------------------------------------------------------
(* Types; an allocation makes at most three attempts.                      *)
TypeOK ==
  /\ project \in ProjectRecord
  /\ rows \in Seq(RowRecord)
  /\ objects \subseteq Ids
  /\ req \in [Requests -> RequestRecord]
  /\ troubles \in 0 .. MaxTroubles
  /\ token \in BOOLEAN

(* Versions are numbered without gaps and never twice, whatever runs at    *)
(* once, fails or is deleted.                                              *)
VersionsCount == {rows[u].version : u \in Ids} = Ids

(* Concurrent imports give a commit one version.                           *)
CommitOnce ==
  \A u, v \in Ids :
    /\ Live(u)
    /\ Live(v)
    /\ rows[u].commit # None
    /\ rows[u].commit = rows[v].commit
    => u = v

(* A manual upload fails on the version number only when three others were *)
(* created meanwhile; deleted versions are no obstacle.                    *)
RefusedByOthers ==
  \A m \in Manuals : At(m, "conflict") => Len(rows) >= 3

Removing(u) == \E d \in Removals : At(d, "row") /\ req[d].row = u

BrokenRemoval == \E d \in Removals : req[d].pc \in {"failed", "dead"}

(* A completed version can be downloaded, unless its removal is under way  *)
(* or broke off between the object and the row.                            *)
CompletedHasObject ==
  \A u \in Ids :
    /\ Live(u)
    /\ rows[u].status = "COMPLETED"
    => u \in objects \/ Removing(u) \/ BrokenRemoval

AtRest(requests) == \A r \in requests : req[r].pc \in Outcome \cup {"new"}

(* When no request is served and no call failed, every version is either   *)
(* complete or recorded as failed, and a failed one left no object.        *)
RowsSettle ==
  AtRest(Manuals \cup Imports) /\ troubles = 0 =>
    \A u \in Ids :
      /\ rows[u].status \in {"COMPLETED", "FAILED"}
      /\ rows[u].status = "FAILED" => u \notin objects

(* The oldest commit that an import asks for.                              *)
Oldest == IF token THEN 1 ELSE Commits - Page + 1

(* The commits imports ask for that have no version.                       *)
Missing(repo) == {n \in Oldest .. Commits : ~HasCommit(<<repo, n>>)}

(* Every import that was asked for has succeeded, without trouble.         *)
Synchronized ==
  /\ troubles = 0
  /\ \A i \in Imports : req[i].pc \in {"ok", "new"}

BranchStored == \A i \in Imports : At(i, "ok") => Missing(req[i].repo) = {}

(* The imports have named one repository.                                  *)
OneSource ==
  \A i, k \in Imports : {req[i].repo, req[k].repo} \subseteq Repos
                          => req[i].repo = req[k].repo

(* With a token, imports that all succeed without trouble bring in the     *)
(* whole branch, though only the first looks beyond the newest page: unless*)
(* one gave a commit up because its version numbers were taken three times.*)
(* Without a token none asks for more than the newest page, and that is    *)
(* brought in.                                                             *)
SyncComplete ==
  Synchronized /\ OneSource /\ (\A i \in Imports : ~req[i].skipped) => BranchStored
=============================================================================
