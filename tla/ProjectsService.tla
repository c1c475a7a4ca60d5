--------------------------- MODULE ProjectsService ---------------------------
(***************************************************************************)
(* One project of the API: its row, the rows and objects of its versions,  *)
(* the requests that use them, and the operations of ProjectsService, each *)
(* of which reads the project and writes it in a later step.               *)
(*                                                                         *)
(* Commits of a repository are numbered from the oldest; a commit is a     *)
(* pair of a repository and a number, as hashes of two repositories        *)
(* differ.                                                                 *)
(***************************************************************************)
EXTENDS Naturals, Sequences

CONSTANTS
  Manuals,       \* requests POST uploads
  Imports,       \* requests POST uploads/github
  Removals,      \* requests DELETE uploads/:id
  Starts,        \* requests POST analyses
  Edits,         \* requests PATCH, archive, restore and DELETE of the project
  Repos,         \* repositories (with their branch) a project can be set to
  Commits,       \* commits of a branch
  Page,          \* commits on one page of GitHub's answer
  None,          \* SQL's NULL
  MaxTroubles    \* bound: failing calls, refused archives, crashes of the API

Commit == Repos \X (1 .. Commits)

ASSUME VersionsAssumption ==
  /\ Commits \in Nat \ {0}
  /\ Page \in 1 .. Commits
  /\ MaxTroubles \in Nat
  /\ None \notin Repos \cup Commit
  /\ Manuals \cap (Imports \cup Removals \cup Starts \cup Edits) = {}
  /\ Imports \cap (Removals \cup Starts \cup Edits) = {}
  /\ Removals \cap (Starts \cup Edits) = {}
  /\ Starts \cap Edits = {}

VARIABLES
  project,       \* the row of projects
  rows,          \* rows of uploaded_files, in the order of their creation
  objects,       \* the rows whose object is in storage
  req,           \* the requests and their local variables
  troubles,      \* troubles so far
  token          \* whether GITHUB_TOKEN is configured

Requests == Manuals \cup Imports \cup Removals \cup Starts \cup Edits

ProjectRecord ==
  [repo : Repos \cup {None}, status : {"ACTIVE", "ARCHIVED", "DELETED"},
   deleted : BOOLEAN]

RowRecord ==
  [status : {"PENDING", "VALIDATING", "UPLOADING", "COMPLETED", "FAILED"},
   commit : Commit \cup {None}, version : Nat \ {0}, deleted : BOOLEAN,
   scan : {"none", "PENDING", "RUNNING", "ended"}]

Outcome == {"ok", "refused", "conflict", "failed", "dead"}

RequestPoint ==
  Outcome \cup
  {"new", "write", "sources", "connect", "commits", "next", "archive",
   "check", "latest", "insert", "validating", "validate", "store", "complete",
   "clean", "fail", "scan", "object", "row", "create", "run"}

RequestRecord ==
  [pc : RequestPoint, repo : Repos \cup {None}, row : Nat,
   latest : Nat, attempt : 1 .. 3, todo : Seq(Commit),
   flag : BOOLEAN, skipped : BOOLEAN,
   op : {"none", "update", "archive", "restore", "delete"}]

NewRequest ==
  [pc |-> "new", repo |-> None, row |-> 0, latest |-> 0, attempt |-> 1,
   todo |-> <<>>, flag |-> FALSE, skipped |-> FALSE, op |-> "none"]

Ids == 1 .. Len(rows)

Live(u) == ~rows[u].deleted

At(r, pc) == req[r].pc = pc

Goto(r, pc) == req' = [req EXCEPT ![r].pc = pc]

(* A request that has answered keeps its outcome and its repository, and   *)
(* (which only the properties look at) whether it left a commit out.       *)
Finish(r, outcome) ==
  req' = [req EXCEPT ![r] = [NewRequest EXCEPT !.pc = outcome, !.repo = req[r].repo,
                                               !.skipped = req[r].skipped]]

Trouble ==
  /\ troubles < MaxTroubles
  /\ troubles' = troubles + 1

-----------------------------------------------------------------------------
(* update: the source may change while the project has no version, counting*)
(* the deleted ones.                                                       *)
EditUpdate(e) ==
  /\ At(e, "new")
  /\ \E repo \in Repos \cup {None} :
       IF project.deleted \/ (repo # project.repo /\ rows # <<>>)
       THEN Finish(e, "refused")
       ELSE req' = [req EXCEPT ![e].pc = "write", ![e].op = "update",
                               ![e].repo = repo]
  /\ UNCHANGED <<project, rows, objects, troubles>>

(* archive, restore and delete.                                            *)
EditStatus(e) ==
  /\ At(e, "new")
  /\ \E op \in {"archive", "restore", "delete"} :
       IF project.deleted \/ (op = "restore" /\ project.status # "ARCHIVED")
       THEN Finish(e, "refused")
       ELSE req' = [req EXCEPT ![e].pc = "write", ![e].op = op]
  /\ UNCHANGED <<project, rows, objects, troubles>>

(* The write trusts what was read; restore also clears deletedAt.          *)
Written(op, repo) ==
  CASE op = "update"  -> [project EXCEPT !.repo = repo]
    [] op = "archive" -> [project EXCEPT !.status = "ARCHIVED"]
    [] op = "restore" -> [project EXCEPT !.status = "ACTIVE", !.deleted = FALSE]
    [] op = "delete"  -> [project EXCEPT !.status = "DELETED", !.deleted = TRUE]

EditWrite(e) ==
  /\ At(e, "write")
  /\ project' = Written(req[e].op, req[e].repo)
  /\ Finish(e, "ok")
  /\ UNCHANGED <<rows, objects, troubles>>

EditStep(e) ==
  \/ EditUpdate(e)
  \/ EditStatus(e)
  \/ EditWrite(e)
=============================================================================
