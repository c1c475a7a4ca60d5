--------------------------- MODULE VersionsProofs ---------------------------
(***************************************************************************)
(* Versions for any number of requests, repositories, commits and troubles:*)
(* types, the numbering of versions, one version per commit, the retries   *)
(* of an upload, and the agreement of rows and objects.                    *)
(***************************************************************************)
EXTENDS Versions, TLAPS, SequenceTheorems

Creators == Manuals \cup Imports

(* From the insertion of its row to its last write a creation owns the row.*)
OwnPoint == {"validating", "validate", "store", "complete", "clean", "fail"}

Owner(r) == r \in Creators /\ req[r].pc \in OwnPoint

(* An import that works on a commit has one, and a repository.             *)
ImportFine(i) ==
  /\ req[i].pc \in OwnPoint \cup {"archive", "check", "latest", "insert"}
       => req[i].todo # <<>>
  /\ req[i].pc \in {"sources", "connect", "commits"} => req[i].repo \in Repos

(* A request that uses a row has found or inserted it.                     *)
RowFine(r) ==
  \/ Owner(r)
  \/ r \in Removals /\ req[r].pc \in {"scan", "object", "row"}
  \/ r \in Starts /\ req[r].pc \in {"create", "run"}
  => req[r].row \in Ids

(* Every attempt of an upload that is refused has been overtaken by a      *)
(* version more than the one before.                                       *)
AttemptFine(m) ==
  /\ At(m, "new") => req[m].attempt = 1
  /\ At(m, "latest") => req[m].attempt <= Len(rows) + 1
  /\ At(m, "insert") => req[m].attempt <= req[m].latest + 1
  /\ At(m, "conflict") => Len(rows) >= 3

(* A version that was read is not ahead of the rows.                       *)
LatestFine(r) == At(r, "insert") => req[r].latest <= Len(rows)

(* An edit that writes has been told what.                                 *)
EditFine(e) == At(e, "write") => req[e].op # "none"

RequestsFine ==
  /\ \A e \in Edits : EditFine(e)
  /\ \A i \in Imports : ImportFine(i)
  /\ \A r \in Requests : RowFine(r)
  /\ \A m \in Manuals : AttemptFine(m)
  /\ \A r \in Creators : LatestFine(r)

(* No two creations write the same row, and a row that is being written is *)
(* not finished.                                                           *)
OwnersApart ==
  \A r, q \in Creators :
    Owner(r) /\ Owner(q) /\ req[r].row = req[q].row => r = q

OwnedAreOpen ==
  \A r \in Creators :
    Owner(r) => rows[req[r].row].status \notin {"COMPLETED", "FAILED"}

(* The object of a version, or the reason why it is missing.               *)
Accounted(u) == u \in objects \/ Removing(u) \/ BrokenRemoval

StoredFirst ==
  \A r \in Creators :
    At(r, "complete") /\ Live(req[r].row) => Accounted(req[r].row)

(* Without trouble an open row has an owner, and neither a failed one nor  *)
(* one whose object has yet to be stored is in storage.                    *)
OpenAreOwned ==
  troubles = 0 =>
    \A u \in Ids :
      rows[u].status \in {"COMPLETED", "FAILED"}
        \/ \E r \in Creators : Owner(r) /\ req[r].row = u

NotYetStored ==
  troubles = 0 =>
    /\ \A u \in Ids : rows[u].status = "FAILED" => u \notin objects
    /\ \A r \in Creators :
         /\ ~At(r, "clean")
         /\ req[r].pc \in OwnPoint \ {"complete"} => req[r].row \notin objects

(* TypeOK, but for the token, which no step changes.                       *)
StateOK ==
  /\ project \in ProjectRecord
  /\ rows \in Seq(RowRecord)
  /\ objects \subseteq Ids
  /\ req \in [Requests -> RequestRecord]
  /\ troubles \in 0 .. MaxTroubles

Inv ==
  /\ StateOK
  /\ RequestsFine
  /\ VersionsCount
  /\ CommitOnce
  /\ OwnersApart
  /\ OwnedAreOpen
  /\ StoredFirst
  /\ CompletedHasObject
  /\ OpenAreOwned
  /\ NotYetStored

LEMMA InitInv == Init => Inv
<1> SUFFICES ASSUME Init PROVE Inv
  OBVIOUS
<1> USE VersionsAssumption DEF Init, NewRequest
<1>1. NewRequest \in RequestRecord /\ NewRequest.pc = "new"
  BY DEF RequestRecord, RequestPoint
<1>2. StateOK
  <2>1. project \in ProjectRecord
    BY DEF ProjectRecord
  <2>2. rows \in Seq(RowRecord) /\ objects \subseteq Ids
    OBVIOUS
  <2>3. req \in [Requests -> RequestRecord] /\ troubles \in 0 .. MaxTroubles
    BY ONLY <1>1, Init, VersionsAssumption DEF Init, VersionsAssumption
  <2> QED
    BY <2>1, <2>2, <2>3 DEF StateOK
<1>3. \A r \in Requests : req[r] = NewRequest
  OBVIOUS
<1>4. /\ Creators \subseteq Requests /\ Manuals \subseteq Requests
      /\ Imports \subseteq Requests /\ Edits \subseteq Requests
  BY DEF Creators, Requests
<1>5. Ids = {}
  BY DEF Ids
<1>6. RequestsFine
  BY <1>1, <1>3, <1>4 DEF RequestsFine, EditFine, ImportFine, RowFine, AttemptFine,
     LatestFine, At, Owner, OwnPoint, Requests, Creators
<1>7. \A r \in Creators : ~Owner(r)
  BY <1>1, <1>3, <1>4 DEF Owner, OwnPoint
<1>8. OwnersApart /\ OwnedAreOpen /\ StoredFirst /\ OpenAreOwned /\ NotYetStored
  BY <1>1, <1>3, <1>4, <1>5, <1>7
     DEF OwnersApart, OwnedAreOpen, StoredFirst, OpenAreOwned, NotYetStored, At,
         OwnPoint
<1>9. CommitOnce /\ CompletedHasObject
  BY <1>5 DEF CommitOnce, CompletedHasObject
<1>10. VersionsCount
  BY <1>5 DEF VersionsCount
<1> QED
  BY <1>2, <1>6, <1>8, <1>9, <1>10 DEF Inv

-----------------------------------------------------------------------------
(* What a step that inserts no row must leave of a request and of a row.   *)
RequestKept(r) ==
  /\ req'[r] \in RequestRecord
  /\ r \in Edits => EditFine(r)'
  /\ r \in Imports => ImportFine(r)'
  /\ r \in Manuals => AttemptFine(r)'
  /\ r \in Creators => LatestFine(r)'
  /\ RowFine(r)'
  /\ Owner(r)' => /\ Owner(r)
                  /\ req'[r].row = req[r].row
                  /\ rows'[req[r].row].status \notin {"COMPLETED", "FAILED"}
  /\ r \in Creators /\ At(r, "complete")' /\ ~rows'[req'[r].row].deleted
       => Accounted(req[r].row)'
  /\ r \in Creators /\ troubles' = 0
       => /\ req'[r].pc # "clean"
          /\ req'[r].pc \in OwnPoint \ {"complete"} => req'[r].row \notin objects'

RowKept(u) ==
  /\ ~rows'[u].deleted /\ rows'[u].status = "COMPLETED" => Accounted(u)'
  /\ troubles' = 0
       => /\ \/ rows'[u].status \in {"COMPLETED", "FAILED"}
             \/ \E r \in Creators : Owner(r)' /\ req'[r].row = u
          /\ rows'[u].status = "FAILED" => u \notin objects'

SameVersions ==
  /\ rows' \in Seq(RowRecord)
  /\ Len(rows') = Len(rows)
  /\ \A u \in Ids : /\ rows'[u].version = rows[u].version
                    /\ rows'[u].commit = rows[u].commit
                    /\ rows[u].deleted => rows'[u].deleted

Bounds ==
  /\ project \in ProjectRecord
  /\ objects \subseteq Ids
  /\ troubles \in 0 .. MaxTroubles

LEMMA KeptInv ==
  ASSUME Inv, SameVersions, Bounds', req' \in [Requests -> RequestRecord],
         \A r \in Requests : RequestKept(r), \A u \in Ids : RowKept(u)
  PROVE  Inv'
<1> USE DEF SameVersions
<1>1. Ids' = Ids
  BY DEF Ids
<1>2. StateOK'
  BY DEF StateOK, Bounds
<1>3. /\ Creators \subseteq Requests /\ Manuals \subseteq Requests
      /\ Imports \subseteq Requests /\ Edits \subseteq Requests
  BY DEF Creators, Requests
<1>4. RequestsFine'
  BY <1>3 DEF RequestsFine, RequestKept
<1>5. VersionsCount'
  BY <1>1 DEF VersionsCount, Inv
<1>6. CommitOnce'
  BY <1>1 DEF CommitOnce, Inv, Live
<1>7. OwnersApart'
  BY <1>3 DEF OwnersApart, Inv, RequestKept
<1>8. OwnedAreOpen' /\ StoredFirst'
  BY <1>3 DEF OwnedAreOpen, StoredFirst, RequestKept, Live
<1>9. CompletedHasObject'
  BY <1>1 DEF CompletedHasObject, RowKept, Live, Accounted
<1>10. OpenAreOwned'
  BY <1>1 DEF OpenAreOwned, RowKept
<1>11. NotYetStored'
  BY <1>1, <1>3 DEF NotYetStored, RequestKept, RowKept, At
<1> QED
  BY <1>2, <1>4, <1>5, <1>6, <1>7, <1>8, <1>9, <1>10, <1>11 DEF Inv

-----------------------------------------------------------------------------
(* Steps of one request.                                                   *)
Others(q) ==
  /\ req' \in [Requests -> RequestRecord]
  /\ \A r \in Requests \ {q} : req'[r] = req[r]

(* Such a step writes the status of the row it owns, at most, and no other *)
(* object than its row's.                                                  *)
OwnRow(q, u) == Owner(q) /\ req[q].row = u

OwnRowOnly(q) ==
  \A u \in Ids :
    /\ rows'[u].status = rows[u].status \/ OwnRow(q, u)
    /\ u \in objects' => u \in objects \/ OwnRow(q, u)
    /\ u \in objects => u \in objects' \/ OwnRow(q, u) \/ Removing(u)'

LEMMA OneRequestInv ==
  ASSUME Inv, SameVersions, Bounds', troubles <= troubles',
         NEW q \in Requests, Others(q), RequestKept(q), OwnRowOnly(q),
         req[q].pc \notin Outcome,
         q \in Removals /\ At(q, "row")
           => rows'[req[q].row].deleted \/ req'[q].pc \in {"failed", "dead"},
         \A u \in Ids : OwnRow(q, u) => RowKept(u)
  PROVE  Inv'
<1> USE VersionsAssumption DEF Others
<1>1. /\ \A r \in Requests : RowFine(r)
      /\ Creators \subseteq Requests /\ Removals \subseteq Requests
      /\ Manuals \subseteq Requests /\ Imports \subseteq Requests
      /\ Edits \subseteq Requests
  BY DEF Inv, RequestsFine, Creators, Requests
<1>2. \A u \in Ids : ~rows'[u].deleted /\ Accounted(u)
                       => Accounted(u)' \/ OwnRow(q, u)
  <2> SUFFICES ASSUME NEW u \in Ids, ~rows'[u].deleted, Accounted(u)
               PROVE  Accounted(u)' \/ OwnRow(q, u)
    OBVIOUS
  <2>1. CASE u \in objects
    BY <2>1 DEF OwnRowOnly, Accounted
  <2>2. CASE Removing(u)
    <3>1. PICK d \in Removals : At(d, "row") /\ req[d].row = u
      BY <2>2 DEF Removing
    <3>2. CASE d = q
      BY <1>1, <3>1, <3>2 DEF Accounted, BrokenRemoval
    <3>3. CASE d # q
      BY <1>1, <3>1, <3>3 DEF Accounted, Removing, At
    <3> QED
      BY <3>2, <3>3
  <2>3. CASE BrokenRemoval
    BY <1>1, <2>3 DEF BrokenRemoval, Outcome, Accounted
  <2> QED
    BY <2>1, <2>2, <2>3 DEF Accounted
<1>3. ASSUME NEW r \in Requests, r # q PROVE RequestKept(r)
  <2>1. req'[r] = req[r]
    BY <1>3
  <2>2. Owner(r) => /\ req[r].row \in Ids
                    /\ ~OwnRow(q, req[r].row)
                    /\ rows'[req[r].row].status = rows[req[r].row].status
                    /\ rows[req[r].row].deleted => rows'[req[r].row].deleted
                    /\ req[r].row \notin objects => req[r].row \notin objects'
    BY <1>1, <1>3 DEF Inv, OwnersApart, OwnRow, OwnRowOnly, RowFine, Owner,
                      SameVersions
  <2>3. req[r] \in RequestRecord
    BY DEF Inv, StateOK
  <2>4. Owner(r)' <=> Owner(r)
    BY <2>1 DEF Owner
  <2>5. Ids' = Ids
    BY DEF SameVersions, Ids
  <2>6. /\ r \in Edits => EditFine(r)'
        /\ r \in Imports => ImportFine(r)'
        /\ r \in Manuals => AttemptFine(r)'
        /\ r \in Creators => LatestFine(r)'
        /\ RowFine(r)'
    BY <1>1, <2>1, <2>4, <2>5
       DEF Inv, RequestsFine, EditFine, ImportFine, AttemptFine, LatestFine,
           RowFine, At, SameVersions
  <2>7. r \in Creators /\ At(r, "complete")' /\ ~rows'[req'[r].row].deleted
          => Accounted(req[r].row)'
    BY <1>2, <2>1, <2>2 DEF Inv, StoredFirst, At, Live, Owner, OwnPoint
  <2>8. r \in Creators /\ troubles' = 0
          => /\ req'[r].pc # "clean"
             /\ req'[r].pc \in OwnPoint \ {"complete"} => req'[r].row \notin objects'
    BY <2>1, <2>2 DEF Inv, NotYetStored, At, Owner, OwnPoint, StateOK, Bounds
  <2>9. Owner(r)' => /\ Owner(r)
                     /\ req'[r].row = req[r].row
                     /\ rows'[req[r].row].status \notin {"COMPLETED", "FAILED"}
    BY <2>1, <2>2, <2>4 DEF Inv, OwnedAreOpen, Owner
  <2> QED
    BY <2>1, <2>3, <2>6, <2>7, <2>8, <2>9 DEF RequestKept
<1>4. ASSUME NEW u \in Ids PROVE RowKept(u)
  <2>1. CASE OwnRow(q, u)
    BY <2>1
  <2>2. CASE ~OwnRow(q, u)
    <3>1. /\ rows'[u].status = rows[u].status
          /\ u \in objects' => u \in objects
          /\ rows[u].deleted => rows'[u].deleted
      BY <2>2 DEF OwnRowOnly, SameVersions
    <3>2. ~rows'[u].deleted /\ rows'[u].status = "COMPLETED" => Accounted(u)'
      BY <1>2, <2>2, <3>1 DEF Inv, CompletedHasObject, Live, Accounted
    <3>3. troubles' = 0 => troubles = 0
      BY DEF Inv, StateOK, Bounds
    <3>4. troubles' = 0 =>
             \/ rows'[u].status \in {"COMPLETED", "FAILED"}
             \/ \E r \in Creators : Owner(r)' /\ req'[r].row = u
      BY <1>1, <2>2, <3>1, <3>3 DEF Inv, OpenAreOwned, OwnRow, Owner
    <3>5. troubles' = 0 /\ rows'[u].status = "FAILED" => u \notin objects'
      BY <3>1, <3>3 DEF Inv, NotYetStored
    <3> QED
      BY <3>2, <3>4, <3>5 DEF RowKept
  <2> QED
    BY <2>1, <2>2
<1> QED
  BY <1>3, <1>4, KeptInv

LEMMA QuietInv ==
  ASSUME Inv, UNCHANGED <<rows, objects>>, project' \in ProjectRecord,
         troubles' \in 0 .. MaxTroubles, troubles <= troubles',
         NEW q \in Requests, Others(q), RequestKept(q), req[q].pc \notin Outcome,
         q \in Removals /\ At(q, "row") => req'[q].pc \in {"failed", "dead"},
         Owner(q) => Owner(q)' \/ troubles' > 0
  PROVE  Inv'
<1>1. SameVersions /\ Bounds'
  BY DEF Inv, StateOK, SameVersions, Bounds, Ids
<1>2. OwnRowOnly(q)
  BY DEF OwnRowOnly
<1>3. \A u \in Ids : OwnRow(q, u) => RowKept(u)
  BY DEF Inv, OwnedAreOpen, RowKept, RequestKept, Owner, OwnRow
<1> QED
  BY <1>1, <1>2, <1>3, OneRequestInv

LEMMA GotoFacts ==
  ASSUME StateOK, NEW q \in Requests, NEW pc \in RequestPoint, Goto(q, pc)
  PROVE  /\ Others(q)
         /\ req'[q] \in RequestRecord
         /\ req'[q].pc = pc
         /\ req'[q].row = req[q].row
         /\ req'[q].latest = req[q].latest
         /\ req'[q].attempt = req[q].attempt
         /\ req'[q].todo = req[q].todo
         /\ req'[q].repo = req[q].repo
<1>1. req[q] \in RequestRecord
  BY DEF StateOK
<1> DEFINE x == [req[q] EXCEPT !.pc = pc]
<1>2. x \in RequestRecord
  BY <1>1 DEF RequestRecord
<1>3. /\ req'[q] = x
      /\ req' \in [Requests -> RequestRecord]
      /\ \A r \in Requests \ {q} : req'[r] = req[r]
  BY <1>2 DEF Goto, StateOK
<1> QED
  BY <1>1, <1>2, <1>3 DEF RequestRecord, Others

LEMMA FinishFacts ==
  ASSUME StateOK, NEW q \in Requests, NEW outcome \in Outcome, Finish(q, outcome)
  PROVE  /\ Others(q)
         /\ req'[q] \in RequestRecord
         /\ req'[q].pc = outcome
         /\ req'[q].repo = req[q].repo /\ req'[q].skipped = req[q].skipped
<1>1. req[q] \in RequestRecord
  BY DEF StateOK
<1> DEFINE x == [NewRequest EXCEPT !.pc = outcome, !.repo = req[q].repo,
                                   !.skipped = req[q].skipped]
<1>2. NewRequest \in RequestRecord
  BY VersionsAssumption DEF NewRequest, RequestRecord, RequestPoint
<1>3. /\ x \in RequestRecord /\ x.pc = outcome
      /\ x.repo = req[q].repo /\ x.skipped = req[q].skipped
  BY <1>1, <1>2 DEF RequestRecord, RequestPoint
<1>4. /\ req'[q] = x
      /\ req' \in [Requests -> RequestRecord]
      /\ \A r \in Requests \ {q} : req'[r] = req[r]
  BY <1>3 DEF Finish, StateOK
<1> QED
  BY <1>3, <1>4 DEF Others

(* A request that has ended uses no row.                                   *)
LEMMA EndedKept ==
  ASSUME NEW q \in Requests, req'[q] \in RequestRecord, req'[q].pc \in Outcome,
         q \in Manuals /\ req'[q].pc = "conflict" => Len(rows') >= 3
  PROVE  RequestKept(q)
BY DEF RequestKept, EditFine, ImportFine, AttemptFine, LatestFine, RowFine, Owner,
       OwnPoint, At, Outcome

LEMMA FinishInv ==
  ASSUME Inv, UNCHANGED <<rows, objects>>, project' \in ProjectRecord,
         troubles' \in 0 .. MaxTroubles, troubles <= troubles',
         NEW q \in Requests, NEW outcome \in Outcome, Finish(q, outcome),
         req[q].pc \notin Outcome, ~Owner(q) \/ troubles' > 0,
         q \in Manuals /\ outcome = "conflict" => Len(rows) >= 3,
         q \in Removals /\ At(q, "row") => outcome \in {"failed", "dead"}
  PROVE  Inv'
<1>1. Others(q) /\ req'[q] \in RequestRecord /\ req'[q].pc = outcome
  BY FinishFacts DEF Inv
<1>2. RequestKept(q)
  BY <1>1, EndedKept
<1> QED
  BY <1>1, <1>2, QuietInv

LEMMA TroubleBounds ==
  ASSUME StateOK, Trouble
  PROVE  troubles' \in 0 .. MaxTroubles /\ troubles < troubles' /\ troubles' > 0
BY VersionsAssumption DEF StateOK, Trouble

(* Requests apart from the creations use a row they have found.            *)
LEMMA ReaderKept ==
  ASSUME NEW q \in Requests, q \notin Creators, req'[q] \in RequestRecord,
         RowFine(q)', q \in Edits => EditFine(q)'
  PROVE  RequestKept(q)
BY DEF RequestKept, Creators, Owner

LEMMA EditInv == ASSUME Inv, NEW e \in Edits, EditStep(e) PROVE Inv'
<1> USE VersionsAssumption
<1>1. /\ StateOK
      /\ e \in Requests /\ e \notin Creators /\ e \notin Removals
      /\ e \notin Starts
      /\ ~Owner(e)
  BY DEF Inv, Requests, Creators, Owner
<1>2. ~Owner(e)' /\ RowFine(e)'
  BY <1>1 DEF Owner, RowFine
<1>3. CASE EditUpdate(e) \/ EditStatus(e)
  <2>1. /\ req[e].pc = "new" /\ UNCHANGED <<project, rows, objects, troubles>>
        /\ req[e].pc \notin Outcome /\ troubles' \in 0 .. MaxTroubles
        /\ project' \in ProjectRecord /\ troubles <= troubles'
    BY <1>1, <1>3 DEF EditUpdate, EditStatus, At, StateOK, Outcome
  <2>2. CASE Finish(e, "refused")
    BY <1>1, <2>1, <2>2, FinishInv DEF At, Outcome, Creators
  <2>3. ASSUME NEW x \in RequestRecord, x.op # "none", req' = [req EXCEPT ![e] = x]
        PROVE  Inv'
    <3>1. Others(e) /\ req'[e] \in RequestRecord /\ req'[e] = x
      BY <1>1, <2>3 DEF StateOK, Others
    <3>2. EditFine(e)'
      BY <2>3, <3>1 DEF EditFine
    <3> QED
      BY <1>1, <1>2, <2>1, <3>1, <3>2, ReaderKept, QuietInv
  <2>4. "write" \in RequestPoint /\ req[e] \in RequestRecord
    BY <1>1 DEF RequestPoint, StateOK
  <2>5. ASSUME NEW repo \in Repos \cup {None},
               req' = [req EXCEPT ![e].pc = "write", ![e].op = "update",
                                  ![e].repo = repo]
        PROVE  Inv'
    <3> DEFINE x == [req[e] EXCEPT !.pc = "write", !.op = "update", !.repo = repo]
    <3>1. x \in RequestRecord /\ x.op = "update"
      BY <2>4 DEF RequestRecord
    <3>2. req' = [req EXCEPT ![e] = x]
      BY <1>1, <2>5 DEF StateOK
    <3> QED
      BY <2>3, <3>1, <3>2
  <2>6. ASSUME NEW op \in {"archive", "restore", "delete"},
               req' = [req EXCEPT ![e].pc = "write", ![e].op = op]
        PROVE  Inv'
    <3> DEFINE x == [req[e] EXCEPT !.pc = "write", !.op = op]
    <3>1. x \in RequestRecord /\ x.op = op
      BY <2>4 DEF RequestRecord
    <3>2. req' = [req EXCEPT ![e] = x]
      BY <1>1, <2>6 DEF StateOK
    <3> QED
      BY <2>3, <3>1, <3>2
  <2> QED
    BY <1>3, <2>2, <2>5, <2>6 DEF EditUpdate, EditStatus
<1>4. CASE EditWrite(e)
  <2>1. /\ req[e].op \in {"update", "archive", "restore", "delete"}
        /\ req[e].repo \in Repos \cup {None}
    BY <1>1, <1>4 DEF StateOK, RequestRecord, Inv, RequestsFine, EditFine, EditWrite
  <2>2. project' \in ProjectRecord
    BY <1>1, <1>4, <2>1 DEF EditWrite, Written, StateOK, ProjectRecord
  <2> QED
    BY <1>1, <1>4, <2>2, FinishInv DEF EditWrite, At, Outcome, StateOK, Creators
<1> QED
  BY <1>3, <1>4 DEF EditStep

-----------------------------------------------------------------------------
(* Steps that write one row.                                               *)
LEMMA RowSet ==
  ASSUME StateOK, NEW u \in Ids, NEW x \in RowRecord, rows' = [rows EXCEPT ![u] = x],
         x.version = rows[u].version, x.commit = rows[u].commit,
         rows[u].deleted => x.deleted
  PROVE  /\ SameVersions
         /\ rows'[u] = x
         /\ \A v \in Ids \ {u} : rows'[v] = rows[v]
<1>1. /\ rows' \in Seq(RowRecord)
      /\ Len(rows') = Len(rows)
      /\ \A v \in Ids : rows'[v] = IF v = u THEN x ELSE rows[v]
  BY ExceptSeq DEF StateOK, Ids
<1> QED
  BY <1>1 DEF SameVersions

LEMMA RowFacts ==
  ASSUME StateOK, NEW u \in Ids
  PROVE  rows[u] \in RowRecord
BY ElementOfSeq DEF StateOK, Ids

LEMMA ScanSet ==
  ASSUME StateOK, NEW u \in Ids, NEW scan \in {"none", "PENDING", "RUNNING", "ended"},
         rows' = [rows EXCEPT ![u].scan = scan]
  PROVE  /\ SameVersions
         /\ \A v \in Ids : /\ rows'[v].status = rows[v].status
                           /\ rows'[v].deleted = rows[v].deleted
<1> DEFINE x == [rows[u] EXCEPT !.scan = scan]
<1>1. rows[u] \in RowRecord
  BY RowFacts
<1>2. /\ x \in RowRecord
      /\ x.version = rows[u].version /\ x.commit = rows[u].commit
      /\ x.status = rows[u].status /\ x.deleted = rows[u].deleted
  BY <1>1 DEF RowRecord
<1>3. rows' = [rows EXCEPT ![u] = x]
  OBVIOUS
<1> HIDE DEF x
<1>4. SameVersions /\ rows'[u] = x /\ \A v \in Ids \ {u} : rows'[v] = rows[v]
  BY ONLY StateOK, <1>2, <1>3, RowSet, u \in Ids
<1> QED
  BY <1>2, <1>4

LEMMA StatusSet ==
  ASSUME StateOK, NEW u \in Ids,
         NEW status \in {"VALIDATING", "UPLOADING", "COMPLETED", "FAILED"},
         SetStatus(u, status)
  PROVE  /\ SameVersions
         /\ rows'[u].status = status
         /\ rows'[u].deleted = rows[u].deleted
         /\ \A v \in Ids \ {u} : rows'[v] = rows[v]
<1> DEFINE x == [rows[u] EXCEPT !.status = status]
<1>1. rows[u] \in RowRecord
  BY RowFacts
<1>2. /\ x \in RowRecord
      /\ x.version = rows[u].version /\ x.commit = rows[u].commit
      /\ x.status = status /\ x.deleted = rows[u].deleted
  BY <1>1 DEF RowRecord
<1>3. rows' = [rows EXCEPT ![u] = x]
  BY DEF SetStatus
<1> HIDE DEF x
<1>4. SameVersions /\ rows'[u] = x /\ \A v \in Ids \ {u} : rows'[v] = rows[v]
  BY <1>2, <1>3, RowSet
<1> QED
  BY <1>2, <1>4

LEMMA DeletedSet ==
  ASSUME StateOK, NEW u \in Ids, rows' = [rows EXCEPT ![u].deleted = TRUE]
  PROVE  /\ SameVersions
         /\ rows'[u].deleted
         /\ \A v \in Ids : rows'[v].status = rows[v].status
<1> DEFINE x == [rows[u] EXCEPT !.deleted = TRUE]
<1>1. rows[u] \in RowRecord
  BY RowFacts
<1>2. /\ x \in RowRecord
      /\ x.version = rows[u].version /\ x.commit = rows[u].commit
      /\ x.status = rows[u].status /\ x.deleted
  BY <1>1 DEF RowRecord
<1>3. rows' = [rows EXCEPT ![u] = x]
  OBVIOUS
<1> HIDE DEF x
<1>4. SameVersions /\ rows'[u] = x /\ \A v \in Ids \ {u} : rows'[v] = rows[v]
  BY <1>2, <1>3, RowSet
<1> QED
  BY <1>2, <1>4

(* A request finds the row it will use.                                    *)
LEMMA FoundFacts ==
  ASSUME StateOK, NEW q \in Requests, NEW pc \in RequestPoint, NEW u \in Ids,
         req' = [req EXCEPT ![q].pc = pc, ![q].row = u]
  PROVE  Others(q) /\ req'[q] \in RequestRecord /\ req'[q].pc = pc /\ req'[q].row = u
<1> DEFINE x == [req[q] EXCEPT !.pc = pc, !.row = u]
<1>1. req[q] \in RequestRecord /\ u \in Nat
  BY DEF StateOK, Ids
<1>2. x \in RequestRecord /\ x.pc = pc /\ x.row = u
  BY <1>1 DEF RequestRecord
<1>3. req' = [req EXCEPT ![q] = x]
  BY DEF StateOK
<1> QED
  BY <1>2, <1>3 DEF StateOK, Others

LEMMA StartInv == ASSUME Inv, NEW s \in Starts, start(s) PROVE Inv'
<1> USE VersionsAssumption
<1>1. /\ StateOK
      /\ s \in Requests /\ s \notin Creators /\ s \notin Removals /\ s \notin Edits
      /\ s \notin Manuals
      /\ ~Owner(s) /\ ~Owner(s)'
  BY DEF Inv, Requests, Creators, Owner
<1>2. {"create", "run"} \subseteq RequestPoint /\ {"ok", "refused"} \subseteq Outcome
  BY DEF RequestPoint, Outcome
<1>3. /\ UNCHANGED <<project, objects, troubles>>
      /\ req[s].pc \notin Outcome
      /\ project' \in ProjectRecord
      /\ troubles' \in 0 .. MaxTroubles
      /\ troubles <= troubles'
      /\ objects \subseteq Ids
  BY <1>1 DEF start, StartFind, StartCreate, StartRun, At, StateOK, Outcome
<1>4. CASE StartFind(s)
  <2>1. UNCHANGED rows
    BY <1>4 DEF StartFind
  <2>2. CASE Finish(s, "refused")
    BY <1>1, <1>2, <1>3, <2>1, <2>2, FinishInv
  <2>3. ASSUME NEW u \in Ids, req' = [req EXCEPT ![s].pc = "create", ![s].row = u]
        PROVE  Inv'
    <3>1. Others(s) /\ req'[s] \in RequestRecord /\ req'[s].row = u
      BY <1>1, <1>2, <2>3, FoundFacts
    <3>2. RequestKept(s)
      BY <1>1, <2>1, <3>1, ReaderKept DEF RowFine, Ids
    <3> QED
      BY <1>1, <1>3, <2>1, <3>1, <3>2, QuietInv
  <2> QED
    BY <1>4, <2>2, <2>3 DEF StartFind
<1>5. CASE StartCreate(s) \/ StartRun(s)
  <2> DEFINE u == req[s].row
  <2>1. u \in Ids
    BY <1>1, <1>5 DEF StartCreate, StartRun, At, Inv, RequestsFine, RowFine
  <2>2. \/ UNCHANGED rows
        \/ \E scan \in {"none", "PENDING", "RUNNING", "ended"} :
             rows' = [rows EXCEPT ![u].scan = scan]
    BY <1>5 DEF StartCreate, StartRun
  <2>3. /\ SameVersions
        /\ \A v \in Ids : /\ rows'[v].status = rows[v].status
                          /\ rows'[v].deleted = rows[v].deleted
    BY <1>1, <2>1, <2>2, ScanSet DEF SameVersions, StateOK
  <2>4. Goto(s, "run") \/ Finish(s, "ok")
    BY <1>5 DEF StartCreate, StartRun
  <2>5. /\ Others(s) /\ req'[s] \in RequestRecord
        /\ req'[s].pc \in {"run", "ok"}
        /\ req'[s].pc = "run" => req'[s].row = u
    BY <1>1, <1>2, <2>4, GotoFacts, FinishFacts
  <2>6. RequestKept(s)
    BY <1>1, <2>1, <2>3, <2>5, ReaderKept DEF RowFine, Ids, SameVersions
  <2>7. OwnRowOnly(s) /\ Bounds'
    BY <1>3, <2>3 DEF OwnRowOnly, Bounds, SameVersions, Ids
  <2> QED
    BY <1>1, <1>3, <2>3, <2>5, <2>6, <2>7, OneRequestInv DEF OwnRow
<1> QED
  BY <1>4, <1>5 DEF start

LEMMA RemoveInv == ASSUME Inv, NEW d \in Removals, remove(d) PROVE Inv'
<1> USE VersionsAssumption
<1>1. /\ StateOK
      /\ d \in Requests /\ d \notin Creators /\ d \notin Edits /\ d \notin Manuals
      /\ ~Owner(d) /\ ~Owner(d)'
  BY DEF Inv, Requests, Creators, Owner
<1>2. /\ {"scan", "object", "row"} \subseteq RequestPoint
      /\ {"ok", "refused", "failed"} \subseteq Outcome
  BY DEF RequestPoint, Outcome
<1>3. /\ UNCHANGED project
      /\ req[d].pc \notin Outcome
      /\ project' \in ProjectRecord
      /\ objects \subseteq Ids
      /\ troubles \in 0 .. MaxTroubles
      /\ UNCHANGED troubles \/ Trouble
  BY <1>1 DEF remove, RemoveFind, RemoveScan, RemoveObject, RemoveRow, At, StateOK,
     Outcome
<1>4. troubles' \in 0 .. MaxTroubles /\ troubles <= troubles'
  BY <1>1, <1>3, TroubleBounds DEF StateOK
<1>5. CASE RemoveFind(d)
  <2>1. UNCHANGED <<rows, objects>> /\ ~At(d, "row")
    BY <1>5 DEF RemoveFind, At
  <2>2. CASE Finish(d, "refused")
    BY <1>1, <1>2, <1>3, <1>4, <2>1, <2>2, FinishInv
  <2>3. ASSUME NEW u \in Ids, req' = [req EXCEPT ![d].pc = "scan", ![d].row = u]
        PROVE  Inv'
    <3>1. Others(d) /\ req'[d] \in RequestRecord /\ req'[d].row = u
      BY <1>1, <1>2, <2>3, FoundFacts
    <3>2. RequestKept(d)
      BY <1>1, <2>1, <3>1, ReaderKept DEF RowFine, Ids
    <3> QED
      BY <1>1, <1>3, <1>4, <2>1, <3>1, <3>2, QuietInv
  <2> QED
    BY <1>5, <2>2, <2>3 DEF RemoveFind
<1> DEFINE u == req[d].row
<1>6. CASE RemoveScan(d)
  <2>1. UNCHANGED <<rows, objects>> /\ ~At(d, "row")
    BY <1>6 DEF RemoveScan, At
  <2>2. CASE Finish(d, "refused")
    BY <1>1, <1>2, <1>3, <1>4, <2>1, <2>2, FinishInv
  <2>3. CASE Goto(d, "object")
    <3>1. u \in Ids
      BY <1>1, <1>6 DEF RemoveScan, At, Inv, RequestsFine, RowFine
    <3>2. Others(d) /\ req'[d] \in RequestRecord /\ req'[d].row = u
      BY <1>1, <1>2, <2>3, GotoFacts
    <3>3. RequestKept(d)
      BY <1>1, <2>1, <3>1, <3>2, ReaderKept DEF RowFine, Ids
    <3> QED
      BY <1>1, <1>3, <1>4, <2>1, <3>2, <3>3, QuietInv
  <2> QED
    BY <1>6, <2>2, <2>3 DEF RemoveScan
<1>7. CASE RemoveObject(d)
  <2>1. u \in Ids
    BY <1>1, <1>7 DEF RemoveObject, At, Inv, RequestsFine, RowFine
  <2>2. /\ UNCHANGED rows /\ ~At(d, "row") /\ Goto(d, "row")
        /\ objects' \in {objects, objects \ {u}}
    BY <1>7 DEF RemoveObject, At
  <2>3. /\ Others(d) /\ req'[d] \in RequestRecord
        /\ req'[d].pc = "row" /\ req'[d].row = u
    BY <1>1, <1>2, <2>2, GotoFacts
  <2>4. RequestKept(d)
    BY <1>1, <2>1, <2>2, <2>3, ReaderKept DEF RowFine, Ids
  <2>5. OwnRowOnly(d)
    <3>1. \A v \in Ids : v \in objects => v \in objects' \/ Removing(v)'
      BY <2>2, <2>3 DEF Removing, At
    <3> QED
      BY <2>2, <3>1 DEF OwnRowOnly
  <2>6. SameVersions /\ Bounds'
    BY <1>1, <1>3, <1>4, <2>2 DEF SameVersions, Bounds, StateOK, Ids
  <2> QED
    BY <1>1, <1>3, <1>4, <2>2, <2>3, <2>4, <2>5, <2>6, OneRequestInv
       DEF OwnRow
<1>8. CASE RemoveRow(d)
  <2>1. u \in Ids /\ UNCHANGED objects
    BY <1>1, <1>8 DEF RemoveRow, At, Inv, RequestsFine, RowFine
  <2>2. CASE rows' = [rows EXCEPT ![u].deleted = TRUE] /\ Finish(d, "ok")
    <3>1. /\ SameVersions
          /\ rows'[u].deleted
          /\ \A v \in Ids : rows'[v].status = rows[v].status
      BY <1>1, <2>1, <2>2, DeletedSet
    <3>2. Others(d) /\ req'[d] \in RequestRecord /\ req'[d].pc = "ok"
      BY <1>1, <1>2, <2>2, FinishFacts
    <3>3. RequestKept(d)
      BY <1>1, <1>2, <3>2, EndedKept
    <3>4. OwnRowOnly(d) /\ Bounds'
      BY <1>3, <1>4, <2>1, <3>1 DEF OwnRowOnly, Bounds, SameVersions, Ids
    <3> QED
      BY <1>1, <1>3, <1>4, <3>1, <3>2, <3>3, <3>4, OneRequestInv DEF OwnRow
  <2>3. CASE UNCHANGED rows /\ Finish(d, "failed")
    BY <1>1, <1>2, <1>3, <1>4, <2>1, <2>3, FinishInv
  <2> QED
    BY <1>8, <2>2, <2>3 DEF RemoveRow
<1> QED
  BY <1>5, <1>6, <1>7, <1>8 DEF remove

-----------------------------------------------------------------------------
(* The end of a scan, and a crash, which only leaves requests that ended.  *)
LEMMA SameRequestsInv ==
  ASSUME Inv, SameVersions, UNCHANGED <<project, objects, req, troubles>>,
         \A u \in Ids : /\ rows'[u].status = rows[u].status
                        /\ rows'[u].deleted = rows[u].deleted
  PROVE  Inv'
<1>1. Ids' = Ids /\ Bounds' /\ req' \in [Requests -> RequestRecord]
  BY DEF SameVersions, Ids, Inv, StateOK, Bounds
<1>2. \A r \in Creators : Owner(r) => req[r].row \in Ids /\ r \in Requests
  BY DEF Inv, RequestsFine, RowFine, Creators, Requests
<1>3. ASSUME NEW r \in Requests PROVE RequestKept(r)
  <2>1. req[r] \in RequestRecord
    BY DEF Inv, StateOK
  <2>2. /\ r \in Edits => EditFine(r)'
        /\ r \in Imports => ImportFine(r)'
        /\ r \in Manuals => AttemptFine(r)'
        /\ r \in Creators => LatestFine(r)'
        /\ RowFine(r)'
    BY <1>1 DEF Inv, RequestsFine, EditFine, ImportFine, AttemptFine, LatestFine,
                RowFine, At, Owner, SameVersions
  <2>3. Owner(r)' => /\ Owner(r)
                     /\ rows'[req[r].row].status \notin {"COMPLETED", "FAILED"}
    BY <1>2 DEF Owner, Inv, OwnedAreOpen
  <2>4. r \in Creators /\ At(r, "complete")' /\ ~rows'[req'[r].row].deleted
          => Accounted(req[r].row)'
    BY <1>2 DEF Owner, OwnPoint, Inv, StoredFirst, At, Live, Accounted, Removing,
                BrokenRemoval
  <2>5. r \in Creators /\ troubles' = 0
          => /\ req'[r].pc # "clean"
             /\ req'[r].pc \in OwnPoint \ {"complete"} => req'[r].row \notin objects'
    BY DEF Inv, NotYetStored, At
  <2> QED
    BY <2>1, <2>2, <2>3, <2>4, <2>5 DEF RequestKept
<1>4. ASSUME NEW u \in Ids PROVE RowKept(u)
  <2>1. ~rows'[u].deleted /\ rows'[u].status = "COMPLETED" => Accounted(u)'
    BY DEF Inv, CompletedHasObject, Live, Accounted, Removing, BrokenRemoval, At
  <2>2. troubles' = 0 =>
          /\ \/ rows'[u].status \in {"COMPLETED", "FAILED"}
             \/ \E r \in Creators : Owner(r)' /\ req'[r].row = u
          /\ rows'[u].status = "FAILED" => u \notin objects'
    BY DEF Inv, OpenAreOwned, NotYetStored, Owner
  <2> QED
    BY <2>1, <2>2 DEF RowKept
<1> QED
  BY <1>1, <1>3, <1>4, KeptInv

LEMMA StutterInv == ASSUME Inv, UNCHANGED vars PROVE Inv'
BY SameRequestsInv DEF vars, SameVersions, Inv, StateOK

LEMMA AnalysisEndsInv == ASSUME Inv, NEW u \in Ids, AnalysisEnds(u) PROVE Inv'
<1>1. /\ StateOK
      /\ rows' = [rows EXCEPT ![u].scan = "ended"]
      /\ UNCHANGED <<project, objects, req, troubles>>
  BY DEF AnalysisEnds, Inv
<1>2. /\ SameVersions
      /\ \A v \in Ids : /\ rows'[v].status = rows[v].status
                        /\ rows'[v].deleted = rows[v].deleted
  BY <1>1, ScanSet
<1> QED
  BY <1>1, <1>2, SameRequestsInv

LEMMA CrashInv == ASSUME Inv, ApiCrash PROVE Inv'
<1> USE VersionsAssumption
<1>1. /\ UNCHANGED <<project, rows, objects>>
      /\ StateOK
      /\ troubles' \in 0 .. MaxTroubles
      /\ troubles' > 0
  BY TroubleBounds DEF ApiCrash, Inv
<1>2. /\ [NewRequest EXCEPT !.pc = "dead"] \in RequestRecord
      /\ [NewRequest EXCEPT !.pc = "dead"].pc = "dead"
  <2>1. NewRequest \in RequestRecord
    BY DEF NewRequest, RequestRecord, RequestPoint
  <2>2. "dead" \in RequestPoint
    BY DEF RequestPoint, Outcome
  <2> QED
    BY <2>1, <2>2 DEF RequestRecord
<1>3. \A r \in Requests :
         IF req[r].pc \in Outcome \cup {"new"} THEN req'[r] = req[r]
         ELSE req'[r].pc = "dead" /\ req'[r] \in RequestRecord
  BY <1>2 DEF ApiCrash
<1>4. /\ req' \in [Requests -> RequestRecord]
      /\ Bounds' /\ SameVersions
  BY <1>1, <1>2 DEF ApiCrash, StateOK, Bounds, SameVersions, Ids
<1>5. ASSUME NEW r \in Requests PROVE RequestKept(r)
  <2>1. req'[r].pc \in Outcome \cup {"new"} /\ req'[r] \in RequestRecord
    BY <1>1, <1>3 DEF StateOK, Outcome
  <2>2. r \in Manuals => AttemptFine(r)'
    BY <1>1, <1>3, <2>1 DEF Inv, RequestsFine, AttemptFine, At, Outcome
  <2>3. RowFine(r)' /\ ~Owner(r)'
    BY <2>1 DEF RowFine, Owner, OwnPoint, Outcome
  <2> QED
    BY <2>1, <2>2, <2>3
       DEF RequestKept, EditFine, ImportFine, LatestFine, OwnPoint, At, Outcome
<1>6. ASSUME NEW u \in Ids PROVE RowKept(u)
  <2>1. Accounted(u) => Accounted(u)'
    <3>1. Removals \subseteq Requests
      BY DEF Requests
    <3>2. BrokenRemoval => BrokenRemoval'
      BY <1>3, <3>1 DEF BrokenRemoval, Outcome
    <3>3. Removing(u) => BrokenRemoval'
      BY <1>3, <3>1 DEF BrokenRemoval, Removing, At, Outcome
    <3> QED
      BY <1>1, <3>2, <3>3 DEF Accounted
  <2> QED
    BY <1>1, <2>1 DEF RowKept, Inv, CompletedHasObject, Live, Accounted
<1> QED
  BY <1>4, <1>5, <1>6, KeptInv

-----------------------------------------------------------------------------
(* importGithub.                                                           *)
LEMMA ImportFacts ==
  ASSUME Inv, NEW i \in Imports
  PROVE  /\ StateOK
         /\ i \in Requests /\ i \in Creators
         /\ i \notin Removals /\ i \notin Edits /\ i \notin Manuals
         /\ i \notin Starts
         /\ req[i] \in RequestRecord
         /\ ImportFine(i)
BY VersionsAssumption DEF Inv, StateOK, Requests, Creators, RequestsFine

(* A creation that is not at work on a row.                                *)
LEMMA IdleKept ==
  ASSUME NEW q \in Creators, req'[q] \in RequestRecord,
         req'[q].pc \notin OwnPoint \cup {"insert", "conflict"},
         q \in Imports => ImportFine(q)',
         q \in Manuals => AttemptFine(q)'
  PROVE  RequestKept(q)
<1>1. q \notin Edits /\ q \notin Removals /\ q \notin Starts
  BY VersionsAssumption DEF Creators
<1>2. ~Owner(q)'
  BY DEF Owner
<1> QED
  BY <1>1, <1>2 DEF RequestKept, EditFine, LatestFine, RowFine, OwnPoint, At

LEMMA NewestProperties ==
  ASSUME NEW repo \in Repos, NEW n \in 1 .. Commits
  PROVE  Newest(repo, n) \in Seq(Commit) /\ Newest(repo, n) # <<>>
<1>1. \A k \in 1 .. n : <<repo, Commits - n + k>> \in Commit
  BY VersionsAssumption DEF Commit
<1>2. Newest(repo, n) \in [1 .. n -> Commit] /\ n \in Nat \ {0}
  BY <1>1, VersionsAssumption DEF Newest
<1>3. Newest(repo, n) \in Seq(Commit)
  BY <1>2
<1>4. DOMAIN Newest(repo, n) = 1 .. n /\ 1 \in 1 .. n
  BY <1>2
<1>5. DOMAIN << >> = {}
  OBVIOUS
<1> QED
  BY <1>3, <1>4, <1>5

(* The import goes on with the next commit.                                *)
LEMMA NextCommitFacts ==
  ASSUME StateOK, NEW i \in Imports, req[i].todo # <<>>, NEW leftOut \in BOOLEAN,
         NextCommit(i, leftOut)
  PROVE  /\ Others(i)
         /\ req'[i] \in RequestRecord
         /\ req'[i].pc = "next" /\ req'[i].repo = req[i].repo
         /\ req'[i].todo = Tail(req[i].todo)
         /\ req'[i].skipped = (req[i].skipped \/ leftOut)
<1> DEFINE skipped == req[i].skipped \/ leftOut
           x == [req[i] EXCEPT !.pc = "next", !.todo = Tail(@), !.skipped = skipped]
           y == [x EXCEPT !.row = 0, !.latest = 0, !.attempt = 1]
<1>1. req[i] \in RequestRecord /\ i \in Requests
  BY DEF StateOK, Requests
<1>2. "next" \in RequestPoint /\ Tail(req[i].todo) \in Seq(Commit)
  BY <1>1, HeadTailProperties DEF RequestPoint, RequestRecord
<1>3. skipped \in BOOLEAN
  BY <1>1 DEF RequestRecord
<1>4. req' = [req EXCEPT ![i] = y]
  BY <1>1 DEF NextCommit, StateOK
<1> HIDE DEF skipped
<1>5. /\ x \in RequestRecord /\ x.pc = "next" /\ x.repo = req[i].repo
      /\ x.todo = Tail(req[i].todo) /\ x.skipped = skipped
  BY <1>1, <1>2, <1>3 DEF RequestRecord
<1> HIDE DEF x
<1>6. \A n, m \in Nat, a \in 1 .. 3 :
         LET z == [x EXCEPT !.row = n, !.latest = m, !.attempt = a]
         IN  /\ z \in RequestRecord /\ z.pc = "next" /\ z.repo = x.repo
             /\ z.todo = x.todo /\ z.skipped = x.skipped
  BY <1>5 DEF RequestRecord
<1>7. /\ y \in RequestRecord /\ y.pc = "next" /\ y.repo = x.repo
      /\ y.todo = x.todo /\ y.skipped = x.skipped
  <2>1. 0 \in Nat /\ 1 \in 1 .. 3
    OBVIOUS
  <2> QED
    BY ONLY <1>6, <2>1, Zenon
<1>8. req'[i] = y /\ Others(i)
  BY <1>1, <1>4, <1>7 DEF StateOK, Others
<1> QED
  BY <1>5, <1>7, <1>8 DEF skipped

LEMMA NextCommitKept ==
  ASSUME Inv, NEW i \in Imports, req[i].todo # <<>>, NEW leftOut \in BOOLEAN,
         NextCommit(i, leftOut)
  PROVE  Others(i) /\ RequestKept(i) /\ req'[i].pc = "next"
<1>1. i \in Creators /\ i \notin Manuals /\ StateOK
  BY ImportFacts
<1>2. Others(i) /\ req'[i] \in RequestRecord /\ req'[i].pc = "next"
  BY <1>1, NextCommitFacts
<1> QED
  BY <1>1, <1>2, IdleKept DEF ImportFine, OwnPoint

LEMMA CreatedKept ==
  ASSUME Inv, NEW i \in Imports, req[i].todo # <<>>, Created(i)
  PROVE  Others(i) /\ RequestKept(i) /\ req'[i].pc = "next"
BY NextCommitKept DEF Created

LEMMA ImportInv == ASSUME Inv, NEW i \in Imports, importGithub(i) PROVE Inv'
<1> USE VersionsAssumption
<1>1. /\ StateOK
      /\ i \in Requests /\ i \in Creators
      /\ i \notin Removals /\ i \notin Manuals
      /\ req[i] \in RequestRecord
      /\ ImportFine(i)
  BY ImportFacts
<1>2. /\ {"sources", "connect", "commits", "next", "archive", "check"}
             \subseteq RequestPoint
      /\ {"ok", "refused", "failed"} \subseteq Outcome
  BY DEF RequestPoint, Outcome
<1>3. /\ UNCHANGED <<rows, objects>>
      /\ req[i].pc \in {"new", "sources", "connect", "commits", "next", "archive"}
      /\ UNCHANGED troubles \/ Trouble
      /\ UNCHANGED project \/ ImportConnect(i)
  BY <1>1 DEF importGithub, ImportProject, ImportSources, ImportConnect,
     ImportCommits, ImportRefused, ImportNext, ImportArchive, At
<1>4. /\ req[i].pc \notin Outcome /\ ~Owner(i)
      /\ troubles' \in 0 .. MaxTroubles /\ troubles <= troubles'
  BY <1>1, <1>3, TroubleBounds DEF Outcome, Owner, OwnPoint, StateOK
<1>5. project' \in ProjectRecord
  <2>1. ImportConnect(i) => req[i].repo \in Repos
    BY <1>1 DEF ImportConnect, ImportFine, At
  <2> QED
    BY <1>1, <1>3, <2>1 DEF ImportConnect, StateOK, ProjectRecord
<1>6. CASE \E outcome \in {"ok", "refused", "failed"} : Finish(i, outcome)
  BY <1>1, <1>2, <1>3, <1>4, <1>5, <1>6, FinishInv
<1>7. CASE req[i].todo # <<>> /\ Created(i)
  BY <1>1, <1>3, <1>4, <1>5, <1>7, CreatedKept, QuietInv
<1>8. ASSUME NEW x \in RequestRecord, req' = [req EXCEPT ![i] = x],
             x.pc \in {"sources", "connect", "commits", "next", "archive", "check"},
             x.pc \in {"archive", "check"} => x.todo # <<>>,
             x.pc \in {"sources", "connect", "commits"} => x.repo \in Repos
      PROVE  Inv'
  <2>1. Others(i) /\ req'[i] \in RequestRecord /\ req'[i] = x
    BY <1>1, <1>8 DEF StateOK, Others
  <2>2. ImportFine(i)' /\ req'[i].pc \notin OwnPoint \cup {"insert", "conflict"}
    BY <1>8, <2>1 DEF ImportFine, OwnPoint
  <2>3. RequestKept(i)
    BY <1>1, <2>1, <2>2, IdleKept
  <2> QED
    BY <1>1, <1>3, <1>4, <1>5, <2>1, <2>3, QuietInv
<1>9. ASSUME NEW pc \in {"commits", "archive", "check"}, Goto(i, pc),
             pc = "commits" => req[i].repo \in Repos,
             pc # "commits" => req[i].todo # <<>>
      PROVE  Inv'
  <2> DEFINE x == [req[i] EXCEPT !.pc = pc]
  <2>1. /\ x \in RequestRecord
        /\ x.pc = pc /\ x.repo = req[i].repo /\ x.todo = req[i].todo
    BY <1>1, <1>2 DEF RequestRecord
  <2>2. req' = [req EXCEPT ![i] = x]
    BY <1>9 DEF Goto
  <2> HIDE DEF x
  <2> QED
    BY <1>8, <1>9, <2>1, <2>2
<1>10. CASE ImportProject(i)
  <2>1. ASSUME NEW repo \in Repos, NEW flag \in BOOLEAN,
               req' = [req EXCEPT ![i].pc = "sources", ![i].repo = repo,
                                  ![i].flag = flag]
        PROVE  Inv'
    <3> DEFINE x == [req[i] EXCEPT !.pc = "sources", !.repo = repo, !.flag = flag]
    <3>1. x \in RequestRecord /\ x.pc = "sources" /\ x.repo = repo
      BY <1>1, <1>2 DEF RequestRecord
    <3>2. req' = [req EXCEPT ![i] = x]
      BY <1>1, <2>1 DEF StateOK
    <3> HIDE DEF x
    <3> QED
      BY <1>8, <3>1, <3>2
  <2> QED
    BY <1>6, <1>10, <2>1 DEF ImportProject
<1>11. CASE ImportSources(i)
  <2>1. ASSUME NEW flag \in BOOLEAN,
               req' = [req EXCEPT ![i].pc = "connect", ![i].flag = flag]
        PROVE  Inv'
    <3> DEFINE x == [req[i] EXCEPT !.pc = "connect", !.flag = flag]
    <3>1. x \in RequestRecord /\ x.pc = "connect" /\ x.repo = req[i].repo
      BY <1>1, <1>2 DEF RequestRecord
    <3>2. req' = [req EXCEPT ![i] = x]
      BY <1>1, <2>1 DEF StateOK
    <3>3. x.repo \in Repos
      BY <1>1, <1>11, <3>1 DEF ImportSources, ImportFine, At
    <3> HIDE DEF x
    <3> QED
      BY <1>8, <3>1, <3>2, <3>3
  <2> QED
    BY <1>6, <1>11, <2>1 DEF ImportSources
<1>12. CASE ImportConnect(i)
  BY <1>1, <1>9, <1>12 DEF ImportConnect, ImportFine, At
<1>13. CASE ImportCommits(i) \/ ImportRefused(i)
  <2>1. ASSUME NEW n \in 1 .. Commits,
               req' = [req EXCEPT ![i].pc = "next", ![i].flag = FALSE,
                                  ![i].todo = Newest(req[i].repo, n)]
        PROVE  Inv'
    <3>1. req[i].repo \in Repos
      BY <1>1, <1>13 DEF ImportCommits, ImportRefused, ImportFine, At
    <3>2. Newest(req[i].repo, n) \in Seq(Commit)
      BY <3>1, NewestProperties
    <3> DEFINE x == [req[i] EXCEPT !.pc = "next", !.flag = FALSE,
                                   !.todo = Newest(req[i].repo, n)]
    <3>3. x \in RequestRecord /\ x.pc = "next"
      BY <1>1, <1>2, <3>2 DEF RequestRecord
    <3>4. req' = [req EXCEPT ![i] = x]
      BY <1>1, <2>1 DEF StateOK
    <3> HIDE DEF x
    <3> QED
      BY <1>8, <3>3, <3>4
  <2>2. Commits \in 1 .. Commits /\ Page \in 1 .. Commits
    OBVIOUS
  <2> QED
    BY <1>6, <1>13, <2>1, <2>2 DEF ImportCommits, ImportRefused
<1>14. CASE ImportNext(i)
  BY <1>6, <1>7, <1>9, <1>14 DEF ImportNext
<1>15. CASE ImportArchive(i)
  BY <1>1, <1>7, <1>9, <1>15 DEF ImportArchive, ImportFine, At, OwnPoint
<1> QED
  BY <1>10, <1>11, <1>12, <1>13, <1>14, <1>15 DEF importGithub

-----------------------------------------------------------------------------
(* createUpload: the allocation of a version.                              *)

LEMMA CreatorFacts ==
  ASSUME Inv, NEW r \in Creators
  PROVE  /\ StateOK
         /\ r \in Requests /\ r \notin Removals /\ r \notin Edits /\ r \notin Starts
         /\ r \in Manuals \/ r \in Imports
         /\ r \in Manuals => r \notin Imports /\ AttemptFine(r)
         /\ r \in Imports => ImportFine(r)
         /\ req[r] \in RequestRecord
         /\ LatestFine(r)
         /\ Owner(r) => req[r].row \in Ids
BY VersionsAssumption DEF Inv, StateOK, Requests, Creators, RequestsFine, RowFine

(* A new version follows all the others.                                   *)
LEMMA LatestIsLast ==
  ASSUME StateOK, VersionsCount
  PROVE  LatestVersion = Len(rows)
<1>1. Len(rows) \in Nat /\ LatestVersion = Greatest(Ids)
  <2>1. LatestVersion = Greatest({rows[u].version : u \in Ids})
    BY DEF LatestVersion
  <2>2. Len(rows) \in Nat
    BY DEF StateOK
  <2> QED
    BY <2>1, <2>2, Zenon DEF VersionsCount
<1>2. CASE Len(rows) = 0
  BY <1>1, <1>2 DEF Greatest, Ids
<1>3. CASE Len(rows) > 0
  <2> DEFINE v == CHOOSE v \in Ids : \A w \in Ids : w <= v
  <2>1. Len(rows) \in Ids /\ \A w \in Ids : w <= Len(rows)
    BY <1>1, <1>3 DEF Ids
  <2>2. v \in Ids /\ Len(rows) <= v
    BY <2>1
  <2>3. LatestVersion = v
    BY <1>1, <2>1 DEF Greatest
  <2> HIDE DEF v
  <2> QED
    BY <1>1, <2>1, <2>2, <2>3 DEF Ids
<1> QED
  BY <1>1, <1>2, <1>3

LEMMA CheckInv == ASSUME Inv, NEW r \in Creators, CreateCheck(r) PROVE Inv'
<1>1. /\ StateOK
      /\ r \in Requests /\ r \notin Removals
      /\ r \in Manuals \/ r \in Imports
      /\ r \in Manuals => r \notin Imports /\ AttemptFine(r)
      /\ r \in Imports => ImportFine(r)
  BY CreatorFacts
<1>2. /\ UNCHANGED <<project, rows, objects, troubles>>
      /\ req[r].pc \in {"new", "check"}
      /\ r \in Manuals => req[r].pc = "new"
      /\ r \in Imports => req[r].pc = "check"
      /\ Finish(r, "refused") \/ Goto(r, "latest")
  BY <1>1 DEF CreateCheck, At
<1>3. /\ req[r].pc \notin Outcome /\ ~Owner(r)
      /\ project' \in ProjectRecord
      /\ troubles' \in 0 .. MaxTroubles /\ troubles <= troubles'
  BY <1>1, <1>2, VersionsAssumption DEF Outcome, Owner, OwnPoint, StateOK
<1>4. CASE Finish(r, "refused")
  BY <1>1, <1>2, <1>3, <1>4, FinishInv DEF Outcome
<1>5. CASE Goto(r, "latest")
  <2>1. /\ Others(r) /\ req'[r] \in RequestRecord /\ req'[r].pc = "latest"
        /\ req'[r].attempt = req[r].attempt /\ req'[r].todo = req[r].todo
    BY <1>1, <1>5, GotoFacts DEF RequestPoint
  <2>2. Len(rows) \in Nat
    BY <1>1 DEF StateOK
  <2>3. r \in Imports => ImportFine(r)'
    BY <1>1, <1>2, <2>1 DEF ImportFine
  <2>4. r \in Manuals => AttemptFine(r)'
    BY <1>1, <1>2, <2>1, <2>2 DEF AttemptFine, At
  <2>5. RequestKept(r)
    BY <2>1, <2>3, <2>4, IdleKept DEF OwnPoint
  <2> QED
    BY <1>1, <1>2, <1>3, <2>1, <2>5, QuietInv
<1> QED
  BY <1>2, <1>4, <1>5

LEMMA ReadInv == ASSUME Inv, NEW r \in Creators, VersionRead(r) PROVE Inv'
<1>1. /\ StateOK
      /\ r \in Requests /\ r \notin Removals /\ r \notin Edits /\ r \notin Starts
      /\ r \in Manuals => AttemptFine(r)
      /\ r \in Imports => ImportFine(r)
      /\ req[r] \in RequestRecord
  BY CreatorFacts
<1>2. LatestVersion = Len(rows) /\ Len(rows) \in Nat
  BY <1>1, LatestIsLast DEF Inv, StateOK
<1> DEFINE x == [req[r] EXCEPT !.pc = "insert", !.latest = LatestVersion]
<1>3. "insert" \in RequestPoint
  BY DEF RequestPoint
<1>4. \A n \in Nat :
         LET y == [req[r] EXCEPT !.pc = "insert", !.latest = n]
         IN  /\ y \in RequestRecord
             /\ y.pc = "insert" /\ y.latest = n
             /\ y.attempt = req[r].attempt /\ y.todo = req[r].todo
  BY <1>1, <1>3 DEF RequestRecord
<1>5. /\ x \in RequestRecord
      /\ x.pc = "insert" /\ x.latest = Len(rows)
      /\ x.attempt = req[r].attempt /\ x.todo = req[r].todo
  BY <1>2, <1>4
<1>6. /\ req[r].pc = "latest" /\ UNCHANGED <<project, rows, objects, troubles>>
      /\ req' = [req EXCEPT ![r] = x]
  BY <1>1 DEF VersionRead, At, StateOK
<1> HIDE DEF x
<1>7. Others(r) /\ req'[r] = x
  BY <1>1, <1>5, <1>6 DEF StateOK, Others
<1>8. RequestKept(r)
  <2>1. ~Owner(r)' /\ RowFine(r)'
    BY <1>1, <1>5, <1>7 DEF Owner, OwnPoint, RowFine
  <2>2. r \in Imports => ImportFine(r)'
    BY <1>1, <1>5, <1>6, <1>7 DEF ImportFine, OwnPoint
  <2>3. r \in Manuals => AttemptFine(r)'
    BY <1>1, <1>2, <1>5, <1>6, <1>7 DEF AttemptFine, At
  <2>4. LatestFine(r)'
    BY <1>2, <1>5, <1>6, <1>7 DEF LatestFine
  <2> QED
    BY <1>1, <1>5, <1>7, <2>1, <2>2, <2>3, <2>4 DEF RequestKept, OwnPoint, At
<1>9. /\ req[r].pc \notin Outcome /\ ~Owner(r)
      /\ project' \in ProjectRecord
      /\ troubles' \in 0 .. MaxTroubles /\ troubles <= troubles'
  BY <1>1, <1>6, VersionsAssumption DEF Outcome, Owner, OwnPoint, StateOK
<1> QED
  BY <1>1, <1>6, <1>7, <1>8, <1>9, QuietInv

LEMMA ConflictInv == ASSUME Inv, NEW r \in Creators, VersionConflict(r) PROVE Inv'
<1>1. /\ StateOK
      /\ r \in Requests /\ r \notin Removals
      /\ r \in Manuals \/ r \in Imports
      /\ r \in Manuals => r \notin Imports /\ AttemptFine(r)
      /\ r \in Imports => ImportFine(r)
      /\ req[r] \in RequestRecord
  BY CreatorFacts
<1>2. /\ req[r].pc = "insert" /\ UNCHANGED <<project, rows, objects, troubles>>
      /\ r \in Manuals => VersionTaken(r)
      /\ \E code \in {"P2002", "P2034"} : Again(r, code)
  BY <1>1 DEF VersionConflict, At
<1>3. /\ req[r].latest \in Nat /\ req[r].attempt \in 1 .. 3 /\ Len(rows) \in Nat
      /\ \A u \in Ids : rows[u].version \in Ids
      /\ r \in Manuals => req[r].latest + 1 <= Len(rows)
                          /\ req[r].attempt <= Len(rows)
  <2>1. req[r].latest \in Nat /\ req[r].attempt \in 1 .. 3 /\ Len(rows) \in Nat
    BY <1>1 DEF StateOK, RequestRecord
  <2>2. \A u \in Ids : rows[u].version \in Ids
    BY DEF Inv, VersionsCount
  <2>3. r \in Manuals => req[r].latest + 1 \in 1 .. Len(rows)
    BY <1>2, <2>2 DEF VersionTaken, Ids
  <2> QED
    BY <1>1, <1>2, <2>1, <2>2, <2>3 DEF AttemptFine, At
<1>4. /\ req[r].pc \notin Outcome /\ ~Owner(r)
      /\ project' \in ProjectRecord
      /\ troubles' \in 0 .. MaxTroubles /\ troubles <= troubles'
  BY <1>1, <1>2, VersionsAssumption DEF Outcome, Owner, OwnPoint, StateOK
<1>5. r \in Imports => req[r].todo # <<>>
  BY <1>1, <1>2 DEF ImportFine
<1>6. CASE req[r].attempt < 3
  <2>1. req' = [req EXCEPT ![r].pc = "latest", ![r].attempt = @ + 1, ![r].latest = 0]
    BY <1>2, <1>6 DEF Again
  <2> DEFINE x == [req[r] EXCEPT !.pc = "latest", !.attempt = @ + 1, !.latest = 0]
  <2>2. req' = [req EXCEPT ![r] = x]
    BY <1>1, <2>1 DEF StateOK
  <2>3. "latest" \in RequestPoint /\ req[r].attempt + 1 \in 1 .. 3 /\ 0 \in Nat
    BY <1>3, <1>6 DEF RequestPoint
  <2>4. \A a \in 1 .. 3, n \in Nat :
           LET y == [req[r] EXCEPT !.pc = "latest", !.attempt = a, !.latest = n]
           IN  /\ y \in RequestRecord
               /\ y.pc = "latest" /\ y.attempt = a /\ y.todo = req[r].todo
    BY <1>1, <2>3 DEF RequestRecord
  <2>5. /\ x \in RequestRecord /\ x.pc = "latest"
        /\ x.attempt = req[r].attempt + 1 /\ x.todo = req[r].todo
    BY ONLY <2>3, <2>4, Zenon
  <2> HIDE DEF x
  <2>6. Others(r) /\ req'[r] = x
    BY <1>1, <2>2, <2>5 DEF StateOK, Others
  <2>7. r \in Imports => ImportFine(r)'
    BY <1>5, <2>5, <2>6 DEF ImportFine
  <2>8. r \in Manuals => AttemptFine(r)'
    BY <1>2, <1>3, <2>5, <2>6 DEF AttemptFine, At
  <2>9. RequestKept(r)
    BY <2>5, <2>6, <2>7, <2>8, IdleKept DEF OwnPoint
  <2> QED
    BY <1>1, <1>2, <1>4, <2>6, <2>9, QuietInv
<1>7. CASE ~(req[r].attempt < 3)
  <2>1. \/ r \in Imports /\ \E leftOut \in BOOLEAN : NextCommit(r, leftOut)
        \/ \E outcome \in {"conflict", "failed"} : Finish(r, outcome)
    BY <1>2, <1>7 DEF Again, Refused
  <2>2. r \in Manuals => Len(rows) >= 3
    BY <1>3, <1>7
  <2>3. CASE r \in Imports /\ \E leftOut \in BOOLEAN : NextCommit(r, leftOut)
    BY <1>1, <1>2, <1>4, <1>5, <2>3, NextCommitKept, QuietInv
  <2>4. CASE \E outcome \in {"conflict", "failed"} : Finish(r, outcome)
    BY <1>1, <1>2, <1>4, <2>2, <2>4, FinishInv DEF Outcome
  <2> QED
    BY <2>1, <2>3, <2>4
<1> QED
  BY <1>6, <1>7

(* The inserted row is the next one: only then is its version not taken.   *)
LEMMA InsertFacts ==
  ASSUME Inv, NEW r \in Creators, VersionInsert(r)
  PROVE  /\ req[r].latest = Len(rows)
         /\ rows' \in Seq(RowRecord)
         /\ Len(rows) \in Nat
         /\ Len(rows') = Len(rows) + 1
         /\ \A u \in Ids : rows'[u] = rows[u]
         /\ rows'[Len(rows) + 1] = NewRow(r)
         /\ Ids' = Ids \cup {Len(rows) + 1}
<1>1. /\ StateOK
      /\ r \in Manuals \/ r \in Imports
      /\ r \in Imports => ImportFine(r)
      /\ req[r] \in RequestRecord
      /\ LatestFine(r)
  BY CreatorFacts
<1>2. /\ req[r].pc = "insert" /\ ~VersionTaken(r)
      /\ rows' = Append(rows, NewRow(r))
  BY DEF VersionInsert, At
<1>3. Len(rows) \in Nat /\ req[r].latest \in Nat /\ rows \in Seq(RowRecord)
  BY <1>1 DEF StateOK, RequestRecord
<1>4. req[r].latest = Len(rows)
  <2>1. req[r].latest <= Len(rows)
    BY <1>1, <1>2 DEF LatestFine, At
  <2>2. req[r].latest + 1 \notin Ids
    BY <1>2 DEF VersionTaken, Inv, VersionsCount
  <2> QED
    BY <1>3, <2>1, <2>2 DEF Ids
<1>5. NewRow(r) \in RowRecord
  <2>1. Source(r) \in Commit \cup {None}
    <3>1. CASE r \in Imports
      <4>1. req[r].todo \in Seq(Commit) /\ req[r].todo # <<>>
        BY <1>1, <1>2, <3>1 DEF RequestRecord, ImportFine
      <4> QED
        BY <3>1, <4>1, HeadTailProperties DEF Source
    <3>2. CASE r \notin Imports
      BY <3>2 DEF Source
    <3> QED
      BY <3>1, <3>2
  <2> QED
    BY <1>3, <2>1 DEF NewRow, RowRecord
<1>6. /\ rows' \in Seq(RowRecord)
      /\ Len(rows') = Len(rows) + 1
      /\ \A u \in 1 .. Len(rows) : rows'[u] = rows[u]
      /\ rows'[Len(rows) + 1] = NewRow(r)
  BY <1>2, <1>3, <1>5, AppendProperties
<1> QED
  BY <1>3, <1>4, <1>6 DEF Ids

LEMMA InsertInv == ASSUME Inv, NEW r \in Creators, VersionInsert(r) PROVE Inv'
<1> USE VersionsAssumption
<1> DEFINE n == Len(rows) + 1
<1>1. /\ StateOK
      /\ r \in Requests /\ r \notin Removals /\ r \notin Edits /\ r \notin Starts
      /\ r \in Manuals \/ r \in Imports
      /\ r \in Manuals => r \notin Imports
      /\ r \in Imports => ImportFine(r)
      /\ req[r] \in RequestRecord
  BY CreatorFacts
<1>2. /\ req[r].latest = Len(rows)
      /\ rows' \in Seq(RowRecord)
      /\ Len(rows) \in Nat
      /\ Len(rows') = n
      /\ \A u \in Ids : rows'[u] = rows[u]
      /\ rows'[n] = NewRow(r)
      /\ Ids' = Ids \cup {n}
      /\ n \notin Ids
  BY InsertFacts DEF Ids
<1>3. /\ req[r].pc = "insert" /\ UNCHANGED <<project, objects, troubles>>
      /\ r \in Imports => ~HasCommit(Source(r))
  BY DEF VersionInsert, At
<1>4. Others(r) /\ req'[r] \in RequestRecord /\ req'[r].pc = "validating"
        /\ req'[r].row = n /\ req'[r].todo = req[r].todo
  <2> DEFINE x == [req[r] EXCEPT !.pc = "validating", !.row = n]
  <2>1. "validating" \in RequestPoint /\ n \in Nat
    BY <1>2 DEF RequestPoint
  <2>2. \A m \in Nat :
           LET y == [req[r] EXCEPT !.pc = "validating", !.row = m]
           IN  /\ y \in RequestRecord
               /\ y.pc = "validating" /\ y.row = m /\ y.todo = req[r].todo
    BY <1>1, <2>1 DEF RequestRecord
  <2>3. /\ x \in RequestRecord
        /\ x.pc = "validating" /\ x.row = n /\ x.todo = req[r].todo
    BY ONLY <2>1, <2>2, Zenon
  <2>4. req' = [req EXCEPT ![r] = x]
    BY <1>1 DEF VersionInsert, StateOK
  <2> HIDE DEF x
  <2>5. Others(r) /\ req'[r] = x
    BY <1>1, <2>3, <2>4 DEF StateOK, Others
  <2> QED
    BY <2>3, <2>5
<1>5. /\ NewRow(r).status = "PENDING" /\ ~NewRow(r).deleted
      /\ NewRow(r).version = n
      /\ NewRow(r).commit = Source(r)
  BY <1>2 DEF NewRow
<1> HIDE DEF n
<1>6. \A q \in Requests \ {r} : req'[q] = req[q]
  BY <1>4 DEF Others
<1>7. /\ Creators \subseteq Requests /\ Manuals \subseteq Requests
      /\ Imports \subseteq Requests /\ Edits \subseteq Requests
      /\ Removals \subseteq Requests
  BY DEF Creators, Requests
<1>8. /\ \A q \in Creators : Owner(q)' <=> Owner(q) \/ q = r
      /\ \A q \in Creators : Owner(q) => q # r /\ req[q].row \in Ids
      /\ \A q \in Creators \ {r} : req'[q] = req[q]
  BY <1>3, <1>4, <1>6, <1>7
     DEF Owner, OwnPoint, Inv, RequestsFine, RowFine
<1>9. \A u : Accounted(u)' <=> Accounted(u)
  BY <1>1, <1>3, <1>6, <1>7 DEF Accounted, Removing, BrokenRemoval, At
<1>10. StateOK'
  BY <1>1, <1>2, <1>3, <1>4 DEF StateOK, Others
<1>11. RequestsFine'
  <2>1. ASSUME NEW q \in Requests PROVE RowFine(q)'
    <3>1. CASE q = r
      BY <1>2, <1>4, <3>1 DEF RowFine
    <3>2. CASE q # r
      BY <1>2, <1>6, <3>2 DEF RowFine, Owner, Inv, RequestsFine
    <3> QED
      BY <3>1, <3>2
  <2>2. ASSUME NEW i \in Imports PROVE ImportFine(i)'
    BY <1>1, <1>3, <1>4, <1>6, <1>7 DEF ImportFine, Inv, RequestsFine, OwnPoint
  <2>3. ASSUME NEW m \in Manuals PROVE AttemptFine(m)'
    <3>1. CASE m = r
      BY <1>4, <3>1 DEF AttemptFine, At
    <3>2. CASE m # r
      <4>1. AttemptFine(m) /\ req[m] \in RequestRecord /\ req'[m] = req[m]
        BY <1>1, <1>6, <1>7, <3>2 DEF Inv, RequestsFine, StateOK
      <4>2. req[m].attempt \in 1 .. 3 /\ req[m].latest \in Nat
        BY <4>1 DEF RequestRecord
      <4>3. Len(rows') = Len(rows) + 1
        BY <1>2 DEF n
      <4> QED
        BY <1>2, <4>1, <4>2, <4>3 DEF AttemptFine, At
    <3> QED
      BY <3>1, <3>2
  <2>4. ASSUME NEW q \in Creators PROVE LatestFine(q)'
    <3>1. CASE q = r
      BY <1>4, <3>1 DEF LatestFine, At
    <3>2. CASE q # r
      <4>1. LatestFine(q) /\ req[q] \in RequestRecord /\ req'[q] = req[q]
        BY <1>1, <1>6, <1>7, <3>2 DEF Inv, RequestsFine, StateOK
      <4>2. req[q].latest \in Nat
        BY <4>1 DEF RequestRecord
      <4>3. Len(rows') = Len(rows) + 1
        BY <1>2 DEF n
      <4> QED
        BY <1>2, <4>1, <4>2, <4>3 DEF LatestFine, At
    <3> QED
      BY <3>1, <3>2
  <2>5. ASSUME NEW e \in Edits PROVE EditFine(e)'
    BY <1>1, <1>6, <1>7 DEF EditFine, At, Inv, RequestsFine
  <2> QED
    BY <2>1, <2>2, <2>3, <2>4, <2>5 DEF RequestsFine
<1>12. VersionsCount'
  <2>1. {rows[u].version : u \in Ids} = Ids
    BY DEF Inv, VersionsCount
  <2> QED
    BY <1>2, <1>5, <2>1 DEF VersionsCount
<1>13. CommitOnce'
  <2>1. \A u \in Ids : Live(u) /\ rows[u].commit # None => rows[u].commit # Source(r)
    BY <1>1, <1>3 DEF HasCommit, Source
  <2> QED
    BY <1>2, <1>5, <2>1 DEF CommitOnce, Inv, Live
<1>14. OwnersApart'
  BY <1>2, <1>4, <1>8 DEF OwnersApart, Inv
<1>15. OwnedAreOpen'
  BY <1>2, <1>4, <1>5, <1>8 DEF OwnedAreOpen, Inv
<1>16. StoredFirst'
  <2> SUFFICES ASSUME NEW q \in Creators, At(q, "complete")', Live(req[q].row)'
               PROVE  Accounted(req[q].row)'
    BY DEF StoredFirst
  <2>1. q # r /\ req'[q] = req[q]
    BY <1>4, <1>8 DEF At
  <2>2. At(q, "complete") /\ req[q].row \in Ids /\ Live(req[q].row)
    BY <1>2, <1>8, <2>1 DEF At, Owner, OwnPoint, Live
  <2>3. Accounted(req[q].row)
    BY <2>2 DEF Inv, StoredFirst
  <2> QED
    BY <1>9, <2>1, <2>3 DEF Accounted, Removing
<1>17. CompletedHasObject'
  BY <1>2, <1>5, <1>9 DEF CompletedHasObject, Inv, Live, Accounted
<1>18. OpenAreOwned'
  <2> SUFFICES ASSUME troubles = 0, NEW u \in Ids'
               PROVE  \/ rows'[u].status \in {"COMPLETED", "FAILED"}
                      \/ \E q \in Creators : Owner(q)' /\ req'[q].row = u
    BY <1>3 DEF OpenAreOwned
  <2>1. CASE u = n
    BY <1>4, <1>8, <2>1
  <2>2. CASE u \in Ids
    <3>1. \/ rows[u].status \in {"COMPLETED", "FAILED"}
          \/ \E q \in Creators : Owner(q) /\ req[q].row = u
      BY <2>2 DEF Inv, OpenAreOwned
    <3> QED
      BY <1>2, <1>8, <2>2, <3>1
  <2> QED
    BY <1>2, <2>1, <2>2
<1>19. NotYetStored'
  <2>1. n \notin objects
    BY <1>1, <1>2 DEF StateOK
  <2> QED
    BY <1>2, <1>3, <1>4, <1>5, <1>8, <2>1 DEF NotYetStored, Inv, At
<1> QED
  BY <1>10, <1>11, <1>12, <1>13, <1>14, <1>15, <1>16, <1>17, <1>18, <1>19 DEF Inv

-----------------------------------------------------------------------------
(* createUpload: the writes of the row it owns.                            *)
WriteStep(r) ==
  \/ CreateValidating(r)
  \/ CreateValidate(r)
  \/ CreateStore(r)
  \/ CreateThrows(r)
  \/ CreateClean(r)

LEMMA OwnerFacts ==
  ASSUME Inv, NEW r \in Creators, req[r].pc \in OwnPoint
  PROVE  /\ Owner(r) /\ req[r].row \in Ids
         /\ rows[req[r].row].status \notin {"COMPLETED", "FAILED"}
         /\ req[r].pc \notin Outcome
         /\ r \in Imports => req[r].todo # <<>>
         /\ troubles = 0 => /\ ~At(r, "clean")
                            /\ ~At(r, "complete") => req[r].row \notin objects
<1>1. Owner(r)
  BY DEF Owner
<1> QED
  BY <1>1, CreatorFacts
     DEF Inv, OwnedAreOpen, OwnPoint, Outcome, ImportFine, NotYetStored, At

(* The owner goes on with its row, and has an object before it completes.  *)
LEMMA GoneOnKept ==
  ASSUME Inv, NEW r \in Creators, req[r].pc \in OwnPoint, SameVersions,
         NEW pc \in OwnPoint, Goto(r, pc),
         rows'[req[r].row].status \notin {"COMPLETED", "FAILED"},
         pc = "complete" => req[r].row \in objects',
         troubles' = 0 => /\ pc # "clean"
                          /\ pc # "complete" => req[r].row \notin objects'
  PROVE  /\ Others(r)
         /\ RequestKept(r)
         /\ \A u \in Ids : OwnRow(r, u) => RowKept(u)
<1>1. /\ StateOK
      /\ r \in Requests /\ r \notin Removals /\ r \notin Edits /\ r \notin Starts
  BY CreatorFacts
<1>2. /\ Owner(r) /\ req[r].row \in Ids
      /\ r \in Imports => req[r].todo # <<>>
  BY OwnerFacts
<1>3. pc \in RequestPoint
  BY DEF OwnPoint, RequestPoint
<1>4. /\ Others(r) /\ req'[r] \in RequestRecord
      /\ req'[r].pc = pc /\ req'[r].row = req[r].row /\ req'[r].todo = req[r].todo
  BY <1>1, <1>3, GotoFacts
<1>5. Owner(r)'
  BY <1>4 DEF Owner
<1>6. /\ r \in Imports => ImportFine(r)'
      /\ AttemptFine(r)' /\ LatestFine(r)' /\ RowFine(r)'
  BY <1>1, <1>2, <1>4 DEF ImportFine, AttemptFine, LatestFine, RowFine, OwnPoint,
     At, Ids, SameVersions
<1>7. At(r, "complete")' => Accounted(req[r].row)'
  BY <1>4 DEF At, Accounted
<1>8. RequestKept(r)
  BY <1>1, <1>2, <1>4, <1>6, <1>7 DEF RequestKept
<1>9. \A u \in Ids : OwnRow(r, u) => RowKept(u)
  BY <1>4, <1>5 DEF RowKept, OwnRow
<1> QED
  BY <1>4, <1>8, <1>9

LEMMA WriteInv == ASSUME Inv, NEW r \in Creators, WriteStep(r) PROVE Inv'
<1> USE VersionsAssumption
<1> DEFINE u == req[r].row
<1>1. StateOK /\ r \in Requests /\ r \notin Removals
  BY CreatorFacts
<1>2. /\ req[r].pc \in {"validating", "validate", "store", "complete", "clean"}
      /\ UNCHANGED project
      /\ UNCHANGED troubles \/ Trouble
  BY DEF WriteStep, CreateValidating, CreateValidate, CreateStore, CreateThrows,
     CreateClean, At
<1>3. /\ Owner(r) /\ u \in Ids
      /\ rows[u].status \notin {"COMPLETED", "FAILED"}
      /\ req[r].pc \notin Outcome
      /\ troubles = 0 => /\ ~At(r, "clean")
                         /\ ~At(r, "complete") => u \notin objects
  BY <1>2, OwnerFacts DEF OwnPoint
<1>4. /\ troubles' \in 0 .. MaxTroubles /\ troubles <= troubles'
      /\ troubles' = 0 => troubles = 0 /\ ~Trouble
  BY <1>1, <1>2, TroubleBounds DEF StateOK
<1>5. \/ UNCHANGED rows
      \/ \E status \in {"VALIDATING", "UPLOADING"} : SetStatus(u, status)
  BY DEF WriteStep, CreateValidating, CreateValidate, CreateStore, CreateThrows,
     CreateClean
<1>6. /\ SameVersions
      /\ rows'[u].status \notin {"COMPLETED", "FAILED"}
      /\ \A v \in Ids \ {u} : rows'[v] = rows[v]
  BY <1>1, <1>3, <1>5, StatusSet DEF SameVersions, StateOK
<1>7. objects' \in {objects, objects \cup {u}, objects \ {u}}
  BY DEF WriteStep, CreateValidating, CreateValidate, CreateStore, CreateThrows,
     CreateClean
<1>8. \E pc \in OwnPoint :
        /\ Goto(r, pc)
        /\ pc = "complete" => u \in objects'
        /\ troubles' = 0 => pc # "clean" /\ (pc # "complete" => u \notin objects')
  <2>1. CASE CreateValidating(r)
    BY <1>3, <1>4, <2>1 DEF CreateValidating, OwnPoint, At
  <2>2. CASE CreateValidate(r)
    BY <1>3, <1>4, <2>2 DEF CreateValidate, OwnPoint, At
  <2>3. CASE CreateStore(r)
    BY <2>3 DEF CreateStore, OwnPoint
  <2>4. CASE CreateThrows(r)
    BY <1>4, <2>4 DEF CreateThrows, OwnPoint
  <2>5. CASE CreateClean(r)
    BY <1>3, <1>4, <2>5 DEF CreateClean, OwnPoint
  <2> QED
    BY <2>1, <2>2, <2>3, <2>4, <2>5 DEF WriteStep
<1>9. /\ Others(r) /\ RequestKept(r)
      /\ \A v \in Ids : OwnRow(r, v) => RowKept(v)
  <2>1. req[r].pc \in OwnPoint
    BY <1>2 DEF OwnPoint
  <2> QED
    BY <1>6, <1>8, <2>1, GoneOnKept
<1>10. OwnRowOnly(r) /\ Bounds'
  BY <1>1, <1>2, <1>3, <1>4, <1>6, <1>7
     DEF OwnRowOnly, OwnRow, Bounds, StateOK, SameVersions, Ids
<1> QED
  BY <1>1, <1>3, <1>4, <1>6, <1>9, <1>10, OneRequestInv

LEMMA CompleteInv == ASSUME Inv, NEW r \in Creators, CreateComplete(r) PROVE Inv'
<1> DEFINE u == req[r].row
<1>1. /\ StateOK
      /\ r \in Requests /\ r \notin Removals
      /\ r \in Manuals \/ r \in Imports
      /\ r \in Manuals => r \notin Imports
  BY CreatorFacts
<1>2. /\ At(r, "complete") /\ SetStatus(u, "COMPLETED") /\ Created(r)
      /\ UNCHANGED <<project, objects, troubles>>
      /\ req[r].pc \in OwnPoint
  BY DEF CreateComplete, OwnPoint, At
<1>3. /\ Owner(r) /\ u \in Ids /\ req[r].pc \notin Outcome
      /\ r \in Imports => req[r].todo # <<>>
  BY <1>2, OwnerFacts
<1>4. /\ SameVersions
      /\ rows'[u].status = "COMPLETED" /\ rows'[u].deleted = rows[u].deleted
      /\ \A v \in Ids \ {u} : rows'[v] = rows[v]
  BY <1>1, <1>2, <1>3, StatusSet
<1>5. Others(r) /\ RequestKept(r)
  <2>1. CASE r \in Imports
    BY <1>2, <1>3, <2>1, CreatedKept
  <2>2. CASE r \notin Imports
    <3>1. Finish(r, "ok")
      BY <1>2, <2>2 DEF Created
    <3>2. Others(r) /\ req'[r] \in RequestRecord /\ req'[r].pc = "ok"
      BY <1>1, <3>1, FinishFacts DEF Outcome
    <3> QED
      BY <1>1, <3>2, EndedKept DEF Outcome
  <2> QED
    BY <2>1, <2>2
<1>6. ASSUME NEW v \in Ids, OwnRow(r, v) PROVE RowKept(v)
  <2>1. v = u
    BY <1>6 DEF OwnRow
  <2>2. ~rows'[v].deleted => Accounted(v)
    BY <1>2, <1>4, <2>1 DEF Inv, StoredFirst, Live, Accounted, Removing
  <2>3. \A d \in Removals : req'[d] = req[d]
    BY <1>1, <1>5 DEF Others, Requests
  <2>4. ~rows'[v].deleted => Accounted(v)'
    BY <1>2, <2>2, <2>3 DEF Accounted, Removing, BrokenRemoval, At
  <2> QED
    BY <1>4, <2>1, <2>4 DEF RowKept
<1>7. OwnRowOnly(r) /\ Bounds'
  BY <1>1, <1>2, <1>3, <1>4
     DEF OwnRowOnly, OwnRow, Bounds, StateOK, SameVersions, Ids
<1>8. troubles <= troubles'
  BY <1>1, <1>2, VersionsAssumption DEF StateOK
<1> QED
  BY <1>1, <1>3, <1>4, <1>5, <1>6, <1>7, <1>8, OneRequestInv

LEMMA FailInv == ASSUME Inv, NEW r \in Creators, CreateFail(r) PROVE Inv'
<1> DEFINE u == req[r].row
<1>1. /\ StateOK /\ r \in Requests /\ r \notin Removals
      /\ troubles \in 0 .. MaxTroubles /\ project \in ProjectRecord
  BY CreatorFacts DEF StateOK
<1>2. /\ At(r, "fail") /\ UNCHANGED <<project, objects>>
      /\ req[r].pc \in OwnPoint
      /\ Finish(r, "failed")
  BY DEF CreateFail, OwnPoint, At, Refused
<1>3. /\ Owner(r) /\ u \in Ids /\ req[r].pc \notin Outcome
      /\ troubles = 0 => u \notin objects
  BY <1>2, OwnerFacts DEF At
<1>4. CASE SetStatus(u, "FAILED") /\ UNCHANGED troubles
  <2>1. /\ SameVersions
        /\ rows'[u].status = "FAILED"
        /\ \A v \in Ids \ {u} : rows'[v] = rows[v]
    BY <1>1, <1>3, <1>4, StatusSet
  <2>2. Others(r) /\ req'[r] \in RequestRecord /\ req'[r].pc = "failed"
    BY <1>1, <1>2, FinishFacts DEF Outcome
  <2>3. RequestKept(r)
    BY <1>1, <2>2, EndedKept DEF Outcome
  <2>4. \A v \in Ids : OwnRow(r, v) => RowKept(v)
    BY <1>2, <1>3, <1>4, <2>1 DEF RowKept, OwnRow
  <2>5. OwnRowOnly(r) /\ Bounds'
    BY <1>1, <1>2, <1>3, <1>4, <2>1
       DEF OwnRowOnly, OwnRow, Bounds, StateOK, SameVersions, Ids
  <2>6. troubles <= troubles'
    BY <1>1, <1>4, VersionsAssumption
  <2> QED
    BY <1>1, <1>3, <2>1, <2>2, <2>3, <2>4, <2>5, <2>6, OneRequestInv
<1>5. CASE UNCHANGED rows /\ Trouble
  <2>1. /\ troubles' \in 0 .. MaxTroubles /\ troubles <= troubles'
        /\ troubles' > 0
    BY <1>1, <1>5, VersionsAssumption, TroubleBounds
  <2> QED
    BY <1>1, <1>2, <1>3, <1>5, <2>1, FinishInv DEF Outcome
<1> QED
  BY <1>4, <1>5 DEF CreateFail

LEMMA CreateInv == ASSUME Inv, NEW r \in Creators, create(r) PROVE Inv'
BY CheckInv, ReadInv, InsertInv, ConflictInv, WriteInv, CompleteInv, FailInv
   DEF create, WriteStep

LEMMA NextInv == ASSUME Inv, [Next]_vars PROVE Inv'
BY CreateInv, ImportInv, RemoveInv, StartInv, EditInv, AnalysisEndsInv, CrashInv,
   StutterInv
   DEF Next, Creators

-----------------------------------------------------------------------------
LEMMA SpecInv == Spec => []Inv
BY InitInv, NextInv, PTL DEF Spec

(* Types, with at most three attempts of an allocation: every request of   *)
(* UploadsService, ProjectsService and AnalysisService leaves well-formed  *)
(* rows.                                                                   *)
THEOREM VersionsTypeOK == Spec => []TypeOK
<1>1. Inv /\ token \in BOOLEAN => TypeOK
  BY DEF Inv, StateOK, TypeOK
<1>2. Init => token \in BOOLEAN
  BY DEF Init
<1>3. token \in BOOLEAN /\ [Next]_vars => (token \in BOOLEAN)'
  BY DEF Next, vars
<1> QED
  BY <1>1, <1>2, <1>3, SpecInv, PTL DEF Spec

(* createNextVersion numbers the versions of a project without gaps and    *)
(* never twice, however many creations run at once, fail or crash, and     *)
(* whatever is deleted meanwhile.                                          *)
THEOREM VersionsAreCounted == Spec => []VersionsCount
<1>1. Inv => VersionsCount
  BY DEF Inv
<1> QED
  BY <1>1, SpecInv, PTL

(* However many imports of importGithub run at once, a commit has one      *)
(* version that is not deleted.                                            *)
THEOREM CommitsOnce == Spec => []CommitOnce
<1>1. Inv => CommitOnce
  BY DEF Inv
<1> QED
  BY <1>1, SpecInv, PTL

(* The three attempts of createNextVersion are used up only by three       *)
(* versions of others.                                                     *)
THEOREM VersionsRefusedByOthers == Spec => []RefusedByOthers
<1>1. Inv => RefusedByOthers
  BY DEF Inv, RequestsFine, AttemptFine, RefusedByOthers
<1> QED
  BY <1>1, SpecInv, PTL

(* A completed version has its object, unless remove is between the object *)
(* and the row, or broke off there.                                        *)
THEOREM VersionsHaveObjects == Spec => []CompletedHasObject
<1>1. Inv => CompletedHasObject
  BY DEF Inv
<1> QED
  BY <1>1, SpecInv, PTL

(* While no call fails, createUpload leaves no row open once it has        *)
(* answered, and no object of a version that failed.                       *)
THEOREM VersionsSettle == Spec => []RowsSettle
<1>1. Inv => RowsSettle
  BY DEF Inv, OpenAreOwned, NotYetStored, RowsSettle, AtRest, Owner, OwnPoint,
         Creators, Outcome
<1> QED
  BY <1>1, SpecInv, PTL
-----------------------------------------------------------------------------
(* What a synchronization brings in.                                       *)

(* An import's points from the list of commits to the end.                 *)
LoopPoint == {"next", "archive", "check", "latest", "insert"} \cup OwnPoint

Importing(i) == req[i].pc \in {"connect", "commits", "ok"} \cup LoopPoint

(* Nothing has gone wrong so far, and no commit was given up.              *)
Clean ==
  /\ troubles = 0
  /\ OneSource
  /\ \A i \in Imports : /\ req[i].pc \notin Outcome \ {"ok"}
                        /\ ~req[i].skipped

(* The versions of commits are not removed.                                *)
CommitsStay ==
  /\ \A u \in Ids : rows[u].commit # None => Live(u)
  /\ \A d \in Removals : req[d].pc \in {"object", "row"}
                           => rows[req[d].row].commit = None

(* The commit an import is at.                                             *)
First(i) == Commits - Len(req[i].todo) + 1

(* What is left to an import is the end of the branch, and its row is that *)
(* of its commit.                                                          *)
OnBranch(i) ==
  /\ req[i].pc \in LoopPoint =>
       /\ req[i].repo \in Repos
       /\ Len(req[i].todo) <= Commits
       /\ \A k \in 1 .. Len(req[i].todo) :
            req[i].todo[k] = <<req[i].repo, Commits - Len(req[i].todo) + k>>
  /\ Owner(i) => rows[req[i].row].commit = Source(i)

(* Import k has brought in all it has passed and begins, or began, with    *)
(* the oldest commit that any asks for.                                    *)
Covers(k, repo) ==
  /\ req[k].repo = repo /\ repo \in Repos
  /\ \/ req[k].pc \in {"connect", "commits"} /\ req[k].flag
     \/ /\ req[k].pc \in LoopPoint
        /\ \A n \in Oldest .. Commits : n < First(k) => HasCommit(<<repo, n>>)
     \/ req[k].pc = "ok" /\ Missing(repo) = {}

Covered(repo) == \E k \in Imports : Covers(k, repo)

(* Where there are versions of commits, or an import that believes so, an  *)
(* import covers the branch.                                               *)
CommitsCovered ==
  \A u \in Ids : rows[u].commit # None => Covered(rows[u].commit[1])

ImportsCovered == \A i \in Imports : Importing(i) => Covered(req[i].repo)

Sync ==
  (\A i \in Imports : OnBranch(i)) /\ CommitsCovered /\ ImportsCovered

(* An import that has not begun has no repository.                         *)
Fresh == \A i \in Imports : At(i, "new") => req[i].repo = None

SyncInv == Fresh /\ CommitsStay /\ (Clean => Sync)

(* What every step does to the commits of the rows: those there are stay,  *)
(* and only a creation q of a version adds one.                            *)
CommitsGrow(q) ==
  /\ Ids \subseteq Ids'
  /\ \A u \in Ids :
       /\ rows'[u].commit = rows[u].commit
       /\ rows[u].commit # None /\ Live(u) => Live(u)'
  /\ \A u \in Ids' \ Ids :
       /\ Live(u)'
       /\ rows'[u].commit # None => /\ q \in Imports
                                    /\ At(q, "insert")
                                    /\ rows'[u].commit = Source(q)

LEMMA SameCommits ==
  ASSUME StateOK, SameVersions, NEW q,
         \A u \in Ids : rows[u].commit # None => rows'[u].deleted = rows[u].deleted
  PROVE  CommitsGrow(q)
BY DEF SameVersions, CommitsGrow, Ids, Live

LEMMA NoRowCommits ==
  ASSUME UNCHANGED rows, NEW q
  PROVE  CommitsGrow(q)
BY DEF CommitsGrow, Ids, Live

LEMMA CreateCommits ==
  ASSUME Inv, NEW r \in Creators, create(r)
  PROVE  CommitsGrow(r)
<1> DEFINE u == req[r].row
<1>1. StateOK /\ (r \in Manuals \/ r \in Imports) /\ (r \in Manuals => r \notin Imports)
  BY CreatorFacts
<1>2. CASE VersionInsert(r)
  <2>1. /\ Ids' = Ids \cup {Len(rows) + 1}
        /\ \A v \in Ids : rows'[v] = rows[v]
        /\ rows'[Len(rows) + 1] = NewRow(r)
    BY <1>2, InsertFacts
  <2>2. At(r, "insert") /\ (r \notin Imports => Source(r) = None)
    BY <1>2 DEF VersionInsert, Source
  <2>3. ~NewRow(r).deleted /\ NewRow(r).commit = Source(r)
    BY DEF NewRow
  <2> QED
    BY <2>1, <2>2, <2>3 DEF CommitsGrow, Live
<1>3. ASSUME NEW status \in {"VALIDATING", "UPLOADING", "COMPLETED", "FAILED"},
             SetStatus(u, status), req[r].pc \in OwnPoint
      PROVE  CommitsGrow(r)
  <2>1. u \in Ids
    BY <1>3, OwnerFacts
  <2>2. /\ SameVersions
        /\ \A v \in Ids : rows'[v].deleted = rows[v].deleted
    BY <1>1, <1>3, <2>1, StatusSet
  <2> QED
    BY <1>1, <2>2, SameCommits
<1>4. CASE UNCHANGED rows
  BY <1>4, NoRowCommits
<1>5. \/ VersionInsert(r) \/ UNCHANGED rows
      \/ /\ req[r].pc \in OwnPoint
         /\ \E status \in {"VALIDATING", "UPLOADING", "COMPLETED", "FAILED"} :
              SetStatus(u, status)
  BY DEF create, CreateCheck, VersionRead, VersionConflict, CreateValidating,
     CreateValidate, CreateStore, CreateComplete, CreateThrows, CreateClean,
     CreateFail, At, OwnPoint
<1> QED
  BY <1>2, <1>3, <1>4, <1>5

LEMMA RemoveCommits ==
  ASSUME Inv, CommitsStay, NEW d \in Removals, remove(d)
  PROVE  CommitsGrow(d)
<1> DEFINE u == req[d].row
<1>1. StateOK /\ d \in Requests
  BY DEF Inv, Requests
<1>2. CASE UNCHANGED rows
  BY <1>2, NoRowCommits
<1>3. CASE At(d, "row") /\ rows' = [rows EXCEPT ![u].deleted = TRUE]
  <2>1. u \in Ids /\ rows[u].commit = None
    BY <1>1, <1>3 DEF Inv, RequestsFine, RowFine, At, CommitsStay
  <2>2. SameVersions
    BY <1>1, <1>3, <2>1, DeletedSet
  <2>3. \A v \in Ids \ {u} : rows'[v] = rows[v]
    BY <1>1, <1>3, <2>1 DEF StateOK, Ids
  <2> QED
    BY <1>1, <2>1, <2>2, <2>3, SameCommits
<1> QED
  BY <1>2, <1>3 DEF remove, RemoveFind, RemoveScan, RemoveObject, RemoveRow

LEMMA ScanCommits ==
  ASSUME Inv, NEW q, NEW u \in Ids,
         NEW scan \in {"none", "PENDING", "RUNNING", "ended"},
         rows' = [rows EXCEPT ![u].scan = scan]
  PROVE  CommitsGrow(q)
<1>1. /\ StateOK /\ SameVersions
      /\ \A v \in Ids : rows'[v].deleted = rows[v].deleted
  BY ScanSet DEF Inv
<1> QED
  BY <1>1, SameCommits

LEMMA StartCommits ==
  ASSUME Inv, NEW s \in Starts, start(s)
  PROVE  CommitsGrow(s)
<1> DEFINE u == req[s].row
<1>1. CASE UNCHANGED rows
  BY <1>1, NoRowCommits
<1>2. ASSUME NEW scan \in {"none", "PENDING", "RUNNING", "ended"},
             rows' = [rows EXCEPT ![u].scan = scan], req[s].pc \in {"create", "run"}
      PROVE  CommitsGrow(s)
  <2>1. u \in Ids
    BY <1>2 DEF Inv, RequestsFine, RowFine, Requests
  <2> QED
    BY <1>2, <2>1, ScanCommits
<1> QED
  BY <1>1, <1>2 DEF start, StartFind, StartCreate, StartRun, At

(* No commit that has a version loses it.                                  *)
LEMMA CommitsKept ==
  ASSUME CommitsStay, NEW q, CommitsGrow(q), NEW c \in Commit, HasCommit(c)
  PROVE  HasCommit(c)'
<1>1. PICK u \in Ids : Live(u) /\ rows[u].commit = c
  BY DEF HasCommit
<1>2. c # None
  BY VersionsAssumption
<1> QED
  BY <1>1, <1>2 DEF CommitsGrow, HasCommit

(* Whether there is a token does not change.                               *)
LEMMA OldestFacts ==
  ASSUME UNCHANGED token
  PROVE  /\ Oldest' = Oldest
         /\ Oldest \in 1 .. Commits
         /\ Oldest .. Commits \subseteq 1 .. Commits
<1>1. Oldest' = Oldest
  BY DEF Oldest
<1>2. Oldest \in 1 .. Commits
  BY VersionsAssumption DEF Oldest
<1> QED
  BY <1>1, <1>2, VersionsAssumption

LEMMA CoversKept ==
  ASSUME CommitsStay, UNCHANGED token, NEW q, CommitsGrow(q),
         NEW k \in Imports, req'[k] = req[k],
         NEW repo, Covers(k, repo)
  PROVE  Covers(k, repo)'
<1>1. /\ Oldest' = Oldest
      /\ \A n \in Oldest .. Commits : HasCommit(<<repo, n>>) => HasCommit(<<repo, n>>)'
  BY OldestFacts, CommitsKept DEF Covers, Commit
<1>2. Missing(repo) = {} => Missing(repo)' = {}
  BY <1>1 DEF Missing
<1> QED
  BY <1>1, <1>2 DEF Covers, First

(* The commit an import works on.                                          *)
LEMMA SourceFacts ==
  ASSUME Inv, NEW i \in Imports, OnBranch(i), req[i].pc \in LoopPoint,
         req[i].todo # <<>>
  PROVE  /\ First(i) \in 1 .. Commits
         /\ Source(i) = <<req[i].repo, First(i)>>
         /\ Source(i) \in Commit
<1>1. req[i].todo \in Seq(Commit)
  BY ImportFacts DEF RequestRecord
<1>2. Len(req[i].todo) \in Nat \ {0} /\ Head(req[i].todo) = req[i].todo[1]
  BY <1>1, HeadTailProperties, EmptySeq
<1>3. First(i) \in 1 .. Commits /\ Source(i) = <<req[i].repo, First(i)>>
  <2>1. /\ Len(req[i].todo) <= Commits /\ 1 \in 1 .. Len(req[i].todo)
        /\ \A k \in 1 .. Len(req[i].todo) :
             req[i].todo[k] = <<req[i].repo, Commits - Len(req[i].todo) + k>>
    BY <1>2 DEF OnBranch
  <2>2. req[i].todo[1] = <<req[i].repo, Commits - Len(req[i].todo) + 1>>
    BY <2>1
  <2>3. First(i) \in 1 .. Commits /\ First(i) = Commits - Len(req[i].todo) + 1
    BY <1>2, <2>1, VersionsAssumption DEF First
  <2> QED
    BY <1>2, <2>2, <2>3 DEF Source
<1> QED
  BY <1>3 DEF OnBranch, Commit

(* What a step of q must leave of it, if it is an import.                  *)
LEMMA SyncKept ==
  ASSUME Inv, CommitsStay, Sync, UNCHANGED token, NEW q, CommitsGrow(q),
         \A k \in Imports \ {q} : req'[k] = req[k],
         q \in Imports /\ req'[q] # req[q] =>
           /\ OnBranch(q)'
           /\ \A repo : Covers(q, repo) => Covers(q, repo)'
           /\ Importing(q)' => \/ Importing(q) /\ req'[q].repo = req[q].repo
                               \/ Covered(req[q].repo)'
  PROVE  Sync'
<1>1. \A repo : Covered(repo) => Covered(repo)'
  BY CoversKept DEF Covered
<1>2. ASSUME NEW i \in Imports PROVE OnBranch(i)'
  <2>1. CASE req'[i] # req[i]
    BY <2>1
  <2>2. CASE req'[i] = req[i]
    <3>1. OnBranch(i) /\ req'[i] = req[i]
      BY <2>2 DEF Sync
    <3>2. Owner(i) => req[i].row \in Ids
      BY ImportFacts, CreatorFacts
    <3> QED
      BY <3>1, <3>2 DEF OnBranch, Owner, Source, CommitsGrow
  <2> QED
    BY <2>1, <2>2
<1>3. CommitsCovered'
  <2> SUFFICES ASSUME NEW u \in Ids', rows'[u].commit # None
               PROVE  Covered(rows[u].commit[1])'
    BY DEF CommitsCovered
  <2>1. CASE u \in Ids
    BY <1>1, <2>1 DEF CommitsGrow, Sync, CommitsCovered
  <2>2. CASE u \notin Ids
    <3>1. q \in Imports /\ At(q, "insert") /\ rows'[u].commit = Source(q)
      BY <2>2 DEF CommitsGrow
    <3>2. req[q].pc \in LoopPoint /\ OnBranch(q) /\ req[q].todo # <<>>
      BY <3>1, ImportFacts DEF At, LoopPoint, ImportFine, Sync
    <3>3. Source(q)[1] = req[q].repo
      BY <3>1, <3>2, SourceFacts
    <3>4. Covered(req[q].repo)
      BY <3>1, <3>2 DEF Sync, ImportsCovered, Importing
    <3>5. \A repo : repo = req[q].repo => Covered(repo)'
      BY <1>1, <3>4
    <3> QED
      BY <3>1, <3>3, <3>5
  <2> QED
    BY <2>1, <2>2
<1>4. ImportsCovered'
  <2> SUFFICES ASSUME NEW i \in Imports, Importing(i)'
               PROVE  Covered(req[i].repo)'
    BY DEF ImportsCovered
  <2>1. CASE req'[i] = req[i] \/ (Importing(i) /\ req'[i].repo = req[i].repo)
    <3>1. Importing(i) /\ req'[i].repo = req[i].repo
      BY <2>1 DEF Importing
    <3> QED
      BY <1>1, <3>1 DEF Sync, ImportsCovered
  <2>2. CASE i = q /\ Covered(req[q].repo)'
    BY <2>2
  <2> QED
    BY <2>1, <2>2
<1> QED
  BY <1>2, <1>3, <1>4 DEF Sync

(* An import that goes on with the commit it is at.                        *)
LEMMA SameCommitSync ==
  ASSUME Inv, CommitsStay, Sync, UNCHANGED token, NEW i \in Imports, CommitsGrow(i), Others(i),
         {req[i].pc, req'[i].pc} \subseteq LoopPoint,
         req'[i].todo = req[i].todo, req'[i].repo = req[i].repo,
         Owner(i)' => rows'[req'[i].row].commit = Source(i)
  PROVE  Sync'
<1>1. OnBranch(i) /\ Imports \subseteq Requests
  BY DEF Sync, Requests
<1>2. OnBranch(i)'
  BY <1>1 DEF OnBranch, Source
<1>3. ASSUME NEW repo, Covers(i, repo) PROVE Covers(i, repo)'
  <2>1. /\ Oldest' = Oldest
        /\ \A n \in Oldest .. Commits : HasCommit(<<repo, n>>) => HasCommit(<<repo, n>>)'
    BY <1>3, OldestFacts, CommitsKept DEF Covers, Commit
  <2> QED
    BY <1>3, <2>1 DEF Covers, First, LoopPoint, OwnPoint
<1> QED
  BY <1>1, <1>2, <1>3, SyncKept DEF Others, Importing

(* An import whose commit has a version goes on with the next.             *)
LEMMA NextCommitSync ==
  ASSUME Inv, CommitsStay, Sync, UNCHANGED token, NEW i \in Imports, CommitsGrow(i),
         req[i].pc \in LoopPoint, req[i].todo # <<>>,
         NEW leftOut \in BOOLEAN, NextCommit(i, leftOut), HasCommit(Source(i))
  PROVE  Sync'
<1>1. /\ StateOK /\ OnBranch(i) /\ Imports \subseteq Requests
      /\ req[i].todo \in Seq(Commit)
  BY ImportFacts DEF Sync, Requests, RequestRecord
<1>2. /\ Others(i) /\ req'[i].pc = "next" /\ req'[i].repo = req[i].repo
      /\ req'[i].todo = Tail(req[i].todo)
  BY <1>1, NextCommitFacts
<1>3. /\ Len(req'[i].todo) = Len(req[i].todo) - 1
      /\ Len(req[i].todo) \in Nat \ {0}
      /\ \A k \in 1 .. Len(req[i].todo) - 1 : req'[i].todo[k] = req[i].todo[k + 1]
  BY <1>1, <1>2, HeadTailProperties, EmptySeq
<1>4. OnBranch(i)'
  <2>1. ~Owner(i)'
    BY <1>2 DEF Owner, OwnPoint
  <2>2. /\ req[i].repo \in Repos /\ Len(req[i].todo) <= Commits
        /\ \A k \in 1 .. Len(req[i].todo) :
             req[i].todo[k] = <<req[i].repo, Commits - Len(req[i].todo) + k>>
    BY <1>1 DEF OnBranch
  <2>3. ASSUME NEW k \in 1 .. Len(req[i].todo) - 1
        PROVE  req'[i].todo[k] = <<req[i].repo, Commits - (Len(req[i].todo) - 1) + k>>
    <3>1. k + 1 \in 1 .. Len(req[i].todo) /\ req'[i].todo[k] = req[i].todo[k + 1]
      BY <1>3
    <3>2. Commits - Len(req[i].todo) + (k + 1) = Commits - (Len(req[i].todo) - 1) + k
      BY <1>3, VersionsAssumption
    <3> QED
      BY <2>2, <3>1, <3>2
  <2> DEFINE m == Len(req[i].todo) - 1
  <2>4. /\ Len(req'[i].todo) = m
        /\ \A k \in 1 .. m : req'[i].todo[k] = <<req[i].repo, Commits - m + k>>
    BY <1>3, <2>3
  <2>5. m <= Commits
    BY <1>3, <2>2, VersionsAssumption
  <2> HIDE DEF m
  <2> QED
    BY <1>2, <2>1, <2>2, <2>4, <2>5 DEF OnBranch
<1>5. ASSUME NEW repo, Covers(i, repo) PROVE Covers(i, repo)'
  <2>1. /\ req[i].repo = repo /\ repo \in Repos
        /\ \A n \in Oldest .. Commits : n < First(i) => HasCommit(<<repo, n>>)
    BY <1>5 DEF Covers, LoopPoint, OwnPoint
  <2>2. HasCommit(<<repo, First(i)>>) /\ First(i) \in 1 .. Commits
    BY <1>1, <2>1, SourceFacts
  <2>3. First(i)' = First(i) + 1
    BY <1>3, VersionsAssumption DEF First
  <2>4. ASSUME NEW n \in Oldest .. Commits, n < First(i)' PROVE HasCommit(<<repo, n>>)'
    <3>0. n \in 1 .. Commits
      BY OldestFacts
    <3>1. HasCommit(<<repo, n>>)
      <4>1. n < First(i) \/ n = First(i)
        BY <2>2, <2>3, <2>4, <3>0
      <4> QED
        BY <2>1, <2>2, <4>1
    <3> QED
      BY <2>1, <3>0, <3>1, CommitsKept DEF Commit
  <2>5. Oldest' = Oldest
    BY OldestFacts
  <2> QED
    BY <1>2, <2>1, <2>4, <2>5 DEF Covers, LoopPoint
<1> QED
  BY <1>1, <1>2, <1>4, <1>5, SyncKept DEF Others, Importing, LoopPoint

-----------------------------------------------------------------------------
(* The steps of an import before it has a list of commits.                 *)
LEMMA ProjectSync ==
  ASSUME Inv, Fresh, CommitsStay, Sync, UNCHANGED token, NEW i \in Imports, ImportProject(i), Clean'
  PROVE  Sync'
<1>1. /\ StateOK /\ req[i] \in RequestRecord /\ Imports \subseteq Requests
      /\ req[i].pc = "new"
  BY ImportFacts DEF ImportProject, Requests, At
<1>2. ~Finish(i, "refused")
  BY <1>1, FinishFacts DEF Clean, Outcome
<1>3. PICK repo \in Repos :
        req' = [req EXCEPT ![i].pc = "sources", ![i].repo = repo,
                           ![i].flag = rows # <<>> /\ project.repo = None]
  BY <1>2 DEF ImportProject
<1>4. /\ req'[i].pc = "sources"
      /\ \A k \in Imports \ {i} : req'[k] = req[k]
  BY <1>1, <1>3 DEF StateOK, RequestRecord
<1>5. /\ OnBranch(i)' /\ ~Importing(i)'
      /\ \A any : ~Covers(i, any)
  BY <1>1, <1>4 DEF OnBranch, Owner, Importing, Covers, LoopPoint, OwnPoint
<1>6. CommitsGrow(i)
  BY NoRowCommits DEF ImportProject
<1> QED
  BY <1>4, <1>5, <1>6, SyncKept

LEMMA SourcesSync ==
  ASSUME Inv, CommitsStay, Sync, UNCHANGED token, NEW i \in Imports, ImportSources(i),
         OneSource, Clean'
  PROVE  Sync'
<1>1. /\ StateOK /\ req[i] \in RequestRecord /\ Imports \subseteq Requests
      /\ i \in Requests /\ req[i].pc = "sources" /\ req[i].repo \in Repos
  BY ImportFacts DEF ImportSources, Requests, At, ImportFine
<1>2. ~Finish(i, "refused")
  BY <1>1, FinishFacts DEF Clean, Outcome
<1> DEFINE github == \E u \in Ids : Live(u) /\ rows[u].commit # None
<1>3. req' = [req EXCEPT ![i].pc = "connect", ![i].flag = ~github]
  BY <1>2 DEF ImportSources
<1>4. /\ req'[i].pc = "connect" /\ req'[i].repo = req[i].repo
      /\ req'[i].flag = ~github
      /\ \A k \in Imports \ {i} : req'[k] = req[k]
  BY <1>1, <1>3 DEF StateOK, RequestRecord
<1>5. OnBranch(i)' /\ \A any : ~Covers(i, any)
  BY <1>1, <1>4 DEF OnBranch, Owner, Covers, LoopPoint, OwnPoint
<1>6. CommitsGrow(i)
  BY NoRowCommits DEF ImportSources
<1>7. Covered(req[i].repo)'
  <2>1. CASE ~github
    BY <1>1, <1>4, <2>1 DEF Covered, Covers
  <2>2. CASE github
    <3>1. PICK u \in Ids : rows[u].commit # None
      BY <2>2
    <3>2. PICK k \in Imports : Covers(k, rows[u].commit[1])
      BY <3>1 DEF Sync, CommitsCovered, Covered
    <3>3. req[k].repo = req[i].repo
      BY <1>1, <3>2 DEF OneSource, Covers
    <3>4. k # i /\ Covers(k, req[i].repo)
      BY <1>5, <3>2, <3>3 DEF Covers
    <3>5. Covers(k, req[i].repo)'
      <4>1. \A repo : repo = req[i].repo => Covers(k, repo)'
        BY <1>4, <1>6, <3>4, CoversKept
      <4> QED
        BY <1>4, <4>1
    <3> QED
      BY <3>5 DEF Covered
  <2> QED
    BY <2>1, <2>2
<1> QED
  BY <1>4, <1>5, <1>6, <1>7, SyncKept

LEMMA ConnectSync ==
  ASSUME Inv, CommitsStay, Sync, UNCHANGED token, NEW i \in Imports, ImportConnect(i)
  PROVE  Sync'
<1>1. /\ StateOK /\ req[i] \in RequestRecord /\ Imports \subseteq Requests
      /\ i \in Requests /\ req[i].pc = "connect"
      /\ req' = [req EXCEPT ![i].pc = "commits"]
  BY ImportFacts DEF ImportConnect, Requests, At, Goto
<1>2. /\ req'[i].pc = "commits" /\ req'[i].repo = req[i].repo
      /\ req'[i].flag = req[i].flag
      /\ \A k \in Imports \ {i} : req'[k] = req[k]
  BY <1>1 DEF StateOK, RequestRecord
<1>3. OnBranch(i)' /\ \A repo : Covers(i, repo) => Covers(i, repo)'
  BY <1>1, <1>2 DEF OnBranch, Owner, Covers, LoopPoint, OwnPoint
<1>4. CommitsGrow(i)
  BY NoRowCommits DEF ImportConnect
<1> QED
  BY <1>1, <1>2, <1>3, <1>4, SyncKept DEF Importing

LEMMA CommitsSync ==
  ASSUME Inv, CommitsStay, Sync, UNCHANGED token, NEW i \in Imports, ImportCommits(i)
  PROVE  Sync'
<1>1. /\ StateOK /\ req[i] \in RequestRecord /\ Imports \subseteq Requests
      /\ i \in Requests /\ req[i].pc = "commits" /\ req[i].repo \in Repos
  BY ImportFacts DEF ImportCommits, Requests, At, ImportFine
<1> DEFINE n == IF token /\ req[i].flag THEN Commits ELSE Page
<1>2. n \in 1 .. Commits
  BY VersionsAssumption
<1>3. req' = [req EXCEPT ![i].pc = "next", ![i].flag = FALSE,
                         ![i].todo = Newest(req[i].repo, n)]
  BY DEF ImportCommits
<1>4. /\ req'[i].pc = "next" /\ req'[i].repo = req[i].repo
      /\ req'[i].todo = Newest(req[i].repo, n)
      /\ \A k \in Imports \ {i} : req'[k] = req[k]
  BY <1>1, <1>3 DEF StateOK, RequestRecord
<1>5. /\ Len(req'[i].todo) = n
      /\ \A k \in 1 .. n : req'[i].todo[k] = <<req[i].repo, Commits - n + k>>
  BY <1>2, <1>4, VersionsAssumption DEF Newest
<1>6. OnBranch(i)'
  BY <1>1, <1>2, <1>4, <1>5 DEF OnBranch, Owner, OwnPoint
<1>7. ASSUME NEW repo, Covers(i, repo) PROVE Covers(i, repo)'
  <2>1. req[i].flag /\ req[i].repo = repo /\ repo \in Repos
    BY <1>1, <1>7 DEF Covers, LoopPoint, OwnPoint
  <2>2. First(i)' = Oldest' /\ Oldest' \in 1 .. Commits
    <3>1. First(i)' = Commits - n + 1
      BY <1>5 DEF First
    <3>2. Oldest' = Oldest /\ Oldest \in 1 .. Commits
      BY OldestFacts
    <3> QED
      BY <2>1, <3>1, <3>2, VersionsAssumption DEF Oldest
  <2> QED
    BY <1>4, <2>1, <2>2 DEF Covers, LoopPoint
<1>8. CommitsGrow(i)
  BY NoRowCommits DEF ImportCommits
<1> QED
  BY <1>1, <1>4, <1>6, <1>7, <1>8, SyncKept DEF Importing

(* The steps of an import that works on its list.                          *)
LEMMA GotoSync ==
  ASSUME Inv, CommitsStay, Sync, UNCHANGED token, NEW i \in Imports, CommitsGrow(i),
         req[i].pc \in LoopPoint, NEW pc \in LoopPoint, Goto(i, pc),
         pc \in OwnPoint => req[i].pc \in OwnPoint
  PROVE  Sync'
<1>1. /\ StateOK /\ i \in Requests /\ i \in Creators
      /\ Owner(i) => req[i].row \in Ids
      /\ OnBranch(i)
  BY ImportFacts, CreatorFacts DEF Sync
<1>2. pc \in RequestPoint
  BY DEF LoopPoint, OwnPoint, RequestPoint
<1>3. /\ Others(i) /\ req'[i].pc = pc /\ req'[i].row = req[i].row
      /\ req'[i].todo = req[i].todo /\ req'[i].repo = req[i].repo
  BY <1>1, <1>2, GotoFacts
<1>4. Owner(i)' => rows'[req'[i].row].commit = Source(i)
  BY <1>1, <1>3 DEF Owner, OnBranch, CommitsGrow
<1> QED
  BY <1>3, <1>4, SameCommitSync

LEMMA NextSync ==
  ASSUME Inv, CommitsStay, Sync, UNCHANGED token, NEW i \in Imports, ImportNext(i)
  PROVE  Sync'
<1>1. /\ StateOK /\ Imports \subseteq Requests /\ i \in Requests
      /\ req[i].pc = "next" /\ OnBranch(i)
  BY ImportFacts DEF ImportNext, Requests, At, Sync
<1>2. CommitsGrow(i)
  BY NoRowCommits DEF ImportNext
<1>3. CASE req[i].todo = <<>>
  <2>1. Finish(i, "ok")
    BY <1>3 DEF ImportNext
  <2>2. Others(i) /\ req'[i].pc = "ok" /\ req'[i].repo = req[i].repo
    BY <1>1, <2>1, FinishFacts DEF Outcome
  <2>3. OnBranch(i)'
    BY <2>2 DEF OnBranch, Owner, LoopPoint, OwnPoint
  <2>4. ASSUME NEW repo, Covers(i, repo) PROVE Covers(i, repo)'
    <3>1. First(i) = Commits + 1
      BY <1>3, VersionsAssumption DEF First
    <3>2. /\ req[i].repo = repo /\ repo \in Repos
          /\ \A n \in Oldest .. Commits : n < First(i) => HasCommit(<<repo, n>>)
      BY <1>1, <2>4 DEF Covers
    <3>3. Oldest' = Oldest /\ \A n \in Oldest .. Commits : HasCommit(<<repo, n>>)'
      BY <3>1, <3>2, <1>2, OldestFacts, CommitsKept, VersionsAssumption DEF Commit
    <3> QED
      BY <2>2, <3>2, <3>3 DEF Covers, Missing
  <2> QED
    BY <1>1, <1>2, <2>2, <2>3, <2>4, SyncKept DEF Others, Importing, LoopPoint
<1>4. CASE req[i].todo # <<>> /\ HasCommit(Source(i))
  <2>1. NextCommit(i, FALSE)
    BY <1>4 DEF ImportNext, Created
  <2> QED
    BY <1>1, <1>2, <1>4, <2>1, NextCommitSync DEF LoopPoint
<1>5. CASE Goto(i, "archive")
  BY <1>1, <1>2, <1>5, GotoSync DEF LoopPoint, OwnPoint
<1> QED
  BY <1>3, <1>4, <1>5 DEF ImportNext

LEMMA ImportSync ==
  ASSUME Inv, Fresh, CommitsStay, Sync, UNCHANGED token, NEW i \in Imports, importGithub(i),
         OneSource, Clean'
  PROVE  Sync'
<1>1. ~Trouble
  BY TroubleBounds DEF Clean, Inv
<1>2. CASE ImportArchive(i)
  <2>1. Goto(i, "check") /\ UNCHANGED rows /\ req[i].pc = "archive"
    BY <1>1, <1>2 DEF ImportArchive, At
  <2> QED
    BY <2>1, NoRowCommits, GotoSync DEF LoopPoint, OwnPoint
<1> QED
  BY <1>1, <1>2, ProjectSync, SourcesSync, ConnectSync, CommitsSync, NextSync
     DEF importGithub, ImportRefused

LEMMA CheckSync ==
  ASSUME Inv, CommitsStay, Sync, UNCHANGED token, NEW i \in Imports, CreateCheck(i), Clean'
  PROVE  Sync'
<1>1. /\ StateOK /\ i \in Requests /\ i \notin Manuals
      /\ req[i].pc = "check"
  BY ImportFacts DEF CreateCheck, At
<1>2. ~Finish(i, "refused")
  BY <1>1, FinishFacts DEF Clean, Outcome
<1>3. Goto(i, "latest") /\ CommitsGrow(i)
  BY <1>2, NoRowCommits DEF CreateCheck
<1> QED
  BY <1>1, <1>3, GotoSync DEF LoopPoint, OwnPoint

LEMMA ReadSync ==
  ASSUME Inv, CommitsStay, Sync, UNCHANGED token, NEW i \in Imports, VersionRead(i)
  PROVE  Sync'
<1>1. /\ StateOK /\ i \in Requests /\ i \in Creators /\ req[i] \in RequestRecord
      /\ req[i].pc = "latest" /\ CommitsGrow(i)
  BY ImportFacts, NoRowCommits DEF VersionRead, At
<1>2. Others(i) /\ req'[i].pc = "insert" /\ req'[i].todo = req[i].todo
      /\ req'[i].repo = req[i].repo
  <2>1. LatestVersion \in Nat
    BY <1>1, LatestIsLast DEF Inv, StateOK
  <2> DEFINE x == [req[i] EXCEPT !.pc = "insert", !.latest = LatestVersion]
  <2>2. \A n \in Nat :
           LET y == [req[i] EXCEPT !.pc = "insert", !.latest = n]
           IN  /\ y \in RequestRecord /\ y.pc = "insert"
               /\ y.todo = req[i].todo /\ y.repo = req[i].repo
    BY <1>1 DEF RequestRecord, RequestPoint
  <2>3. /\ x \in RequestRecord /\ x.pc = "insert"
        /\ x.todo = req[i].todo /\ x.repo = req[i].repo
    BY ONLY <2>1, <2>2, Zenon
  <2>4. req' = [req EXCEPT ![i] = x]
    BY <1>1 DEF VersionRead, StateOK
  <2> HIDE DEF x
  <2> QED
    BY <1>1, <2>3, <2>4 DEF StateOK, Others
<1> QED
  BY <1>1, <1>2, SameCommitSync DEF LoopPoint, Owner, OwnPoint

LEMMA InsertSync ==
  ASSUME Inv, CommitsStay, Sync, UNCHANGED token, NEW i \in Imports, VersionInsert(i)
  PROVE  Sync'
<1>1. /\ StateOK /\ i \in Requests /\ i \in Creators /\ req[i] \in RequestRecord
      /\ req[i].pc = "insert" /\ CommitsGrow(i)
  BY ImportFacts, CreateCommits DEF VersionInsert, At, create
<1>2. rows'[Len(rows) + 1].commit = Source(i) /\ Len(rows) + 1 \in Nat
  <2>1. NewRow(i).commit = Source(i)
    BY DEF NewRow
  <2>2. rows'[Len(rows) + 1] = NewRow(i) /\ Len(rows) \in Nat
    BY <1>1, InsertFacts
  <2> QED
    BY <2>1, <2>2
<1>3. /\ Others(i) /\ req'[i].pc = "validating" /\ req'[i].row = Len(rows) + 1
      /\ req'[i].todo = req[i].todo /\ req'[i].repo = req[i].repo
  <2> DEFINE x == [req[i] EXCEPT !.pc = "validating", !.row = Len(rows) + 1]
  <2>1. \A n \in Nat :
           LET y == [req[i] EXCEPT !.pc = "validating", !.row = n]
           IN  /\ y \in RequestRecord /\ y.pc = "validating" /\ y.row = n
               /\ y.todo = req[i].todo /\ y.repo = req[i].repo
    BY <1>1 DEF RequestRecord, RequestPoint
  <2>2. /\ x \in RequestRecord /\ x.pc = "validating" /\ x.row = Len(rows) + 1
        /\ x.todo = req[i].todo /\ x.repo = req[i].repo
    BY ONLY <1>2, <2>1, Zenon
  <2>3. req' = [req EXCEPT ![i] = x]
    BY <1>1 DEF VersionInsert, StateOK
  <2> HIDE DEF x
  <2> QED
    BY <1>1, <2>2, <2>3 DEF StateOK, Others
<1> QED
  BY <1>1, <1>2, <1>3, SameCommitSync DEF LoopPoint, OwnPoint

LEMMA ConflictSync ==
  ASSUME Inv, CommitsStay, Sync, UNCHANGED token, NEW i \in Imports, VersionConflict(i), Clean'
  PROVE  Sync'
<1>1. /\ StateOK /\ i \in Requests /\ i \in Creators /\ req[i] \in RequestRecord
      /\ req[i].pc = "insert" /\ req[i].todo # <<>> /\ CommitsGrow(i)
  BY ImportFacts, NoRowCommits DEF VersionConflict, At, ImportFine
<1>2. \E code \in {"P2002", "P2034"} : Again(i, code)
  BY DEF VersionConflict
<1>3. CASE req[i].attempt < 3
  <2>1. req' = [req EXCEPT ![i].pc = "latest", ![i].attempt = @ + 1, ![i].latest = 0]
    BY <1>2, <1>3 DEF Again
  <2> DEFINE x == [req[i] EXCEPT !.pc = "latest", !.attempt = @ + 1, !.latest = 0]
  <2>2. req' = [req EXCEPT ![i] = x]
    BY <1>1, <2>1 DEF StateOK
  <2>3. req[i].attempt + 1 \in 1 .. 3
    BY <1>1, <1>3 DEF RequestRecord
  <2>4. \A a \in 1 .. 3, n \in Nat :
           LET y == [req[i] EXCEPT !.pc = "latest", !.attempt = a, !.latest = n]
           IN  /\ y \in RequestRecord /\ y.pc = "latest"
               /\ y.todo = req[i].todo /\ y.repo = req[i].repo
    BY <1>1 DEF RequestRecord, RequestPoint
  <2>5. /\ x \in RequestRecord /\ x.pc = "latest"
        /\ x.todo = req[i].todo /\ x.repo = req[i].repo
    <3>1. 0 \in Nat
      OBVIOUS
    <3> QED
      BY ONLY <2>3, <2>4, <3>1, Zenon
  <2> HIDE DEF x
  <2>6. Others(i) /\ req'[i] = x
    BY <1>1, <2>2, <2>5 DEF StateOK, Others
  <2> QED
    BY <1>1, <2>5, <2>6, SameCommitSync DEF LoopPoint, Owner, OwnPoint
<1>4. CASE ~(req[i].attempt < 3)
  <2>1. \/ NextCommit(i, ~HasCommit(Source(i)))
        \/ \E outcome \in {"conflict", "failed"} : Finish(i, outcome)
    BY <1>2, <1>4 DEF Again, Refused
  <2>2. ASSUME NEW outcome \in {"conflict", "failed"} PROVE ~Finish(i, outcome)
    <3>1. outcome \in Outcome \ {"ok"}
      BY DEF Outcome
    <3>2. Finish(i, outcome) => req'[i].pc = outcome
      BY <1>1, <3>1, FinishFacts
    <3> QED
      BY <3>1, <3>2 DEF Clean
  <2>3. (~HasCommit(Source(i))) \in BOOLEAN
    BY DEF HasCommit
  <2>4. NextCommit(i, ~HasCommit(Source(i)))
    BY <2>1, <2>2
  <2>5. req'[i].skipped = (req[i].skipped \/ ~HasCommit(Source(i)))
    BY <1>1, <2>3, <2>4, NextCommitFacts
  <2>6. HasCommit(Source(i))
    BY <2>5 DEF Clean
  <2> QED
    BY <1>1, <2>3, <2>4, <2>6, NextCommitSync DEF LoopPoint
<1> QED
  BY <1>3, <1>4

LEMMA CompleteSync ==
  ASSUME Inv, CommitsStay, Sync, UNCHANGED token, NEW i \in Imports, CreateComplete(i)
  PROVE  Sync'
<1>1. /\ StateOK /\ i \in Creators /\ req[i].pc = "complete" /\ req[i].todo # <<>>
      /\ CommitsGrow(i) /\ OnBranch(i)
  BY ImportFacts, CreateCommits
     DEF CreateComplete, At, create, ImportFine, OwnPoint, Sync
<1>2. /\ req[i].row \in Ids /\ rows[req[i].row].commit = Source(i)
  BY <1>1, CreatorFacts DEF Owner, OwnPoint, OnBranch
<1>3. Source(i) # None
  BY <1>1, SourceFacts, VersionsAssumption DEF LoopPoint, OwnPoint
<1>4. HasCommit(Source(i))
  BY <1>2, <1>3 DEF CommitsStay, HasCommit
<1>5. NextCommit(i, FALSE)
  BY DEF CreateComplete, Created
<1> QED
  BY <1>1, <1>4, <1>5, NextCommitSync DEF LoopPoint, OwnPoint

LEMMA CreateSync ==
  ASSUME Inv, CommitsStay, Sync, UNCHANGED token, NEW i \in Imports, create(i), Clean'
  PROVE  Sync'
<1>1. ~Trouble /\ StateOK /\ i \in Requests /\ i \in Creators /\ CommitsGrow(i)
  BY TroubleBounds, ImportFacts, CreateCommits DEF Clean, Inv
<1>2. CASE CreateValidating(i) \/ CreateValidate(i) \/ CreateStore(i)
  <2>1. /\ req[i].pc \in OwnPoint
        /\ \E pc \in OwnPoint : Goto(i, pc)
    BY <1>2 DEF CreateValidating, CreateValidate, CreateStore, At, OwnPoint
  <2> QED
    BY <1>1, <2>1, GotoSync DEF LoopPoint
<1>3. CASE CreateThrows(i)
  BY <1>1, <1>3 DEF CreateThrows
<1>4. CASE CreateClean(i)
  <2>1. req[i].pc = "clean" /\ Goto(i, "fail")
    BY <1>4 DEF CreateClean, At
  <2> QED
    BY <1>1, <2>1, GotoSync DEF LoopPoint, OwnPoint
<1>5. CASE CreateFail(i)
  <2>1. Finish(i, "failed")
    BY <1>5 DEF CreateFail, Refused
  <2> QED
    BY <1>1, <2>1, FinishFacts DEF Clean, Outcome
<1> QED
  BY <1>2, <1>3, <1>4, <1>5, CheckSync, ReadSync, InsertSync, ConflictSync,
     CompleteSync DEF create

-----------------------------------------------------------------------------
(* A request changes only itself.                                          *)
Alone(q) == \A k \in Requests \ {q} : req'[k] = req[k]

LEMMA FinishAlone ==
  ASSUME StateOK, NEW q, NEW outcome, Finish(q, outcome)
  PROVE  Alone(q)
BY DEF StateOK, Finish, Alone

LEMMA NextCommitAlone ==
  ASSUME StateOK, NEW q, NEW leftOut, NextCommit(q, leftOut)
  PROVE  Alone(q)
BY DEF StateOK, NextCommit, Alone

LEMMA CreateAlone ==
  ASSUME StateOK, NEW r, create(r)
  PROVE  Alone(r)
<1>1. Imports \subseteq Requests
  BY DEF Requests
<1>2. ASSUME NEW code, Refused(r, code) PROVE Alone(r)
  BY <1>2, FinishAlone, NextCommitAlone DEF Refused
<1>3. ASSUME NEW code, Again(r, code) PROVE Alone(r)
  BY <1>1, <1>2, <1>3 DEF Again, Alone, StateOK
<1>4. Created(r) => Alone(r)
  BY FinishAlone, NextCommitAlone DEF Created
<1>5. \A pc : Goto(r, pc) => Alone(r)
  BY <1>1 DEF Goto, Alone, StateOK
<1>6. CASE CreateCheck(r)
  BY <1>5, <1>6, FinishAlone DEF CreateCheck
<1>7. CASE VersionRead(r) \/ VersionInsert(r)
  BY <1>1, <1>7 DEF VersionRead, VersionInsert, Alone, StateOK
<1>8. CASE VersionConflict(r)
  BY <1>3, <1>8 DEF VersionConflict
<1>9. CASE CreateComplete(r) \/ CreateFail(r)
  BY <1>2, <1>4, <1>9 DEF CreateComplete, CreateFail
<1> QED
  BY <1>5, <1>6, <1>7, <1>8, <1>9
     DEF create, CreateValidating, CreateValidate, CreateStore, CreateThrows,
         CreateClean

LEMMA ImportAlone ==
  ASSUME StateOK, NEW i \in Imports, importGithub(i)
  PROVE  Alone(i)
<1>1. Imports \subseteq Requests
  BY DEF Requests
<1>2. \A pc : Goto(i, pc) => Alone(i)
  BY <1>1 DEF Goto, Alone, StateOK
<1>3. Created(i) => Alone(i)
  BY NextCommitAlone DEF Created
<1>4. CASE ImportProject(i) \/ ImportSources(i)
  BY <1>1, <1>4, FinishAlone DEF ImportProject, ImportSources, Alone, StateOK
<1>5. CASE ImportCommits(i) \/ ImportRefused(i)
  BY <1>1, <1>5, FinishAlone DEF ImportCommits, ImportRefused, Alone, StateOK
<1>6. CASE ImportConnect(i) \/ ImportNext(i) \/ ImportArchive(i)
  BY <1>2, <1>3, <1>6, FinishAlone DEF ImportConnect, ImportNext, ImportArchive
<1> QED
  BY <1>4, <1>5, <1>6 DEF importGithub

LEMMA RemoveAlone ==
  ASSUME StateOK, NEW d, remove(d)
  PROVE  Alone(d)
<1>1. \A pc : Goto(d, pc) => Alone(d)
  BY DEF Goto, Alone, StateOK
<1>2. CASE RemoveFind(d)
  BY <1>2, FinishAlone DEF RemoveFind, Alone, StateOK
<1> QED
  BY <1>1, <1>2, FinishAlone DEF remove, RemoveScan, RemoveObject, RemoveRow

LEMMA StartAlone ==
  ASSUME StateOK, NEW s, start(s)
  PROVE  Alone(s)
<1>1. \A pc : Goto(s, pc) => Alone(s)
  BY DEF Goto, Alone, StateOK
<1>2. CASE StartFind(s)
  BY <1>2, FinishAlone DEF StartFind, Alone, StateOK
<1> QED
  BY <1>1, <1>2, FinishAlone DEF start, StartCreate, StartRun

LEMMA EditAlone ==
  ASSUME StateOK, NEW e, EditStep(e)
  PROVE  Alone(e)
BY FinishAlone DEF EditStep, EditUpdate, EditStatus, EditWrite, Alone, StateOK

(* The steps of a request.                                                 *)
StepOf(q) ==
  \/ q \in Creators /\ create(q)
  \/ q \in Imports /\ importGithub(q)
  \/ q \in Removals /\ remove(q)
  \/ q \in Starts /\ start(q)
  \/ q \in Edits /\ EditStep(q)

LEMMA NextSteps ==
  ASSUME [Next]_vars
  PROVE  \/ \E q : StepOf(q)
         \/ \E u \in Ids : AnalysisEnds(u)
         \/ ApiCrash
         \/ UNCHANGED vars
BY DEF Next, StepOf, Creators

LEMMA StepAlone ==
  ASSUME Inv, CommitsStay, NEW q, StepOf(q)
  PROVE  Alone(q) /\ CommitsGrow(q)
<1>1. StateOK
  BY DEF Inv
<1>2. Alone(q)
  BY <1>1, CreateAlone, ImportAlone, RemoveAlone, StartAlone, EditAlone DEF StepOf
<1>3. CASE importGithub(q) \/ EditStep(q)
  <2>1. UNCHANGED rows
    BY <1>3 DEF importGithub, ImportProject, ImportSources, ImportConnect,
       ImportCommits, ImportRefused, ImportNext, ImportArchive, EditStep,
       EditUpdate, EditStatus, EditWrite
  <2> QED
    BY <1>2, <2>1, NoRowCommits
<1> QED
  BY <1>2, <1>3, CreateCommits, RemoveCommits, StartCommits DEF StepOf

(* An import that has ended stays so, and it neither forgets a commit that *)
(* it left out nor its repository.                                         *)
Onward(i) ==
  /\ req[i].pc \in Outcome => req'[i] = req[i]
  /\ req[i].skipped => req'[i].skipped
  /\ req[i].repo \in Repos => req'[i].repo = req[i].repo
  /\ req'[i].pc # "new"

LEMMA FinishOnward ==
  ASSUME Inv, NEW i \in Imports, req[i].pc \notin Outcome,
         NEW outcome \in Outcome, Finish(i, outcome)
  PROVE  Onward(i)
<1>1. StateOK /\ i \in Requests
  BY ImportFacts
<1> QED
  BY <1>1, FinishFacts DEF Onward, Outcome

LEMMA NextCommitOnward ==
  ASSUME Inv, NEW i \in Imports, req[i].pc \notin Outcome, req[i].todo # <<>>,
         NEW leftOut \in BOOLEAN, NextCommit(i, leftOut)
  PROVE  Onward(i)
<1>1. StateOK
  BY ImportFacts
<1> QED
  BY <1>1, NextCommitFacts DEF Onward

LEMMA GotoOnward ==
  ASSUME Inv, NEW i \in Imports, req[i].pc \notin Outcome,
         NEW pc, pc # "new", Goto(i, pc)
  PROVE  Onward(i)
<1>1. StateOK /\ i \in Requests /\ req[i] \in RequestRecord
  BY ImportFacts
<1> QED
  BY <1>1 DEF Goto, Onward, StateOK, RequestRecord

LEMMA CreateOnward ==
  ASSUME Inv, NEW i \in Imports, create(i)
  PROVE  Onward(i)
<1>1. /\ StateOK /\ i \in Requests /\ i \notin Manuals /\ req[i] \in RequestRecord
      /\ ImportFine(i)
  BY ImportFacts
<1>2. req[i].pc \in {"check", "latest", "insert"} \cup OwnPoint
  BY <1>1 DEF create, CreateCheck, VersionRead, VersionInsert, VersionConflict,
     CreateValidating, CreateValidate, CreateStore, CreateComplete, CreateThrows,
     CreateClean, CreateFail, At, OwnPoint
<1>3. req[i].pc \notin Outcome /\ req[i].todo # <<>>
  BY <1>1, <1>2 DEF Outcome, OwnPoint, ImportFine
<1>4. ASSUME NEW code, Refused(i, code) PROVE Onward(i)
  <2>1. (~HasCommit(Source(i))) \in BOOLEAN
    BY DEF HasCommit
  <2> QED
    BY <1>3, <1>4, <2>1, FinishOnward, NextCommitOnward DEF Refused, Outcome
<1>5. Created(i) => Onward(i)
  BY <1>3, NextCommitOnward DEF Created
<1>6. ASSUME NEW code, Again(i, code) PROVE Onward(i)
  <2>1. CASE req[i].attempt < 3
    BY <1>1, <1>3, <1>6, <2>1 DEF Again, Onward, StateOK, RequestRecord
  <2> QED
    BY <1>4, <1>6, <2>1 DEF Again
<1>7. CASE CreateCheck(i)
  BY <1>3, <1>7, FinishOnward, GotoOnward DEF CreateCheck, Outcome
<1>8. CASE VersionRead(i) \/ VersionInsert(i)
  BY <1>1, <1>3, <1>8 DEF VersionRead, VersionInsert, Onward, StateOK, RequestRecord
<1>9. CASE VersionConflict(i)
  BY <1>6, <1>9 DEF VersionConflict
<1>10. CASE CreateComplete(i) \/ CreateFail(i)
  BY <1>4, <1>5, <1>10 DEF CreateComplete, CreateFail
<1> QED
  BY <1>3, <1>7, <1>8, <1>9, <1>10, GotoOnward
     DEF create, CreateValidating, CreateValidate, CreateStore, CreateThrows,
         CreateClean

LEMMA ImportOnward ==
  ASSUME Inv, Fresh, NEW i \in Imports, importGithub(i)
  PROVE  Onward(i)
<1>1. /\ StateOK /\ i \in Requests /\ req[i] \in RequestRecord /\ ImportFine(i)
  BY ImportFacts
<1>2. req[i].pc \in {"new", "sources", "connect", "commits", "next", "archive"}
  BY DEF importGithub, ImportProject, ImportSources, ImportConnect, ImportCommits,
     ImportRefused, ImportNext, ImportArchive, At
<1>3. req[i].pc \notin Outcome /\ {"ok", "refused", "failed"} \subseteq Outcome
  BY <1>2 DEF Outcome
<1>4. CASE ImportProject(i)
  <2>1. req[i].repo \notin Repos
    BY <1>4, VersionsAssumption DEF Fresh, ImportProject
  <2> QED
    BY <1>1, <1>3, <1>4, <2>1, FinishOnward
       DEF ImportProject, Onward, StateOK, RequestRecord
<1>5. CASE ImportSources(i)
  <2>1. ASSUME NEW flag, req' = [req EXCEPT ![i].pc = "connect", ![i].flag = flag]
        PROVE  Onward(i)
    BY <1>1, <1>3, <2>1 DEF Onward, StateOK, RequestRecord
  <2> QED
    BY <1>3, <1>5, <2>1, FinishOnward DEF ImportSources
<1>6. CASE ImportConnect(i)
  BY <1>3, <1>6, GotoOnward DEF ImportConnect
<1>7. CASE ImportCommits(i) \/ ImportRefused(i)
  <2>1. ASSUME NEW todo, req' = [req EXCEPT ![i].pc = "next", ![i].flag = FALSE,
                                            ![i].todo = todo]
        PROVE  Onward(i)
    BY <1>1, <1>3, <2>1 DEF Onward, StateOK, RequestRecord
  <2> QED
    BY <1>3, <1>7, <2>1, FinishOnward DEF ImportCommits, ImportRefused
<1>8. CASE ImportNext(i)
  BY <1>3, <1>8, FinishOnward, NextCommitOnward, GotoOnward
     DEF ImportNext, Created
<1>9. CASE ImportArchive(i)
  <2>1. req[i].todo # <<>>
    BY <1>1, <1>9 DEF ImportArchive, ImportFine, At
  <2> QED
    BY <1>3, <1>9, <2>1, NextCommitOnward, GotoOnward DEF ImportArchive, Created
<1> QED
  BY <1>4, <1>5, <1>6, <1>7, <1>8, <1>9 DEF importGithub

(* What a step does to an import.                                          *)
LEMMA StepOnward ==
  ASSUME Inv, Fresh, CommitsStay, NEW q, StepOf(q), NEW i \in Imports
  PROVE  req'[i] = req[i] \/ Onward(i)
<1>1. i \in Requests /\ i \notin Removals /\ i \notin Starts /\ i \notin Edits
  BY ImportFacts
<1>2. CASE q # i
  BY <1>1, <1>2, StepAlone DEF Alone
<1>3. CASE q = i
  BY <1>1, <1>3, CreateOnward, ImportOnward DEF StepOf
<1> QED
  BY <1>2, <1>3

LEMMA TroublesLast ==
  ASSUME Inv, [Next]_vars, troubles' = 0
  PROVE  troubles = 0 /\ ~ApiCrash
<1>1. ~Trouble
  BY TroubleBounds DEF Inv
<1>2. UNCHANGED troubles \/ Trouble
  BY DEF Next, create, CreateCheck, VersionRead, VersionInsert, VersionConflict,
     CreateValidating, CreateValidate, CreateStore, CreateComplete, CreateThrows,
     CreateClean, CreateFail, importGithub, ImportProject, ImportSources,
     ImportConnect, ImportCommits, ImportRefused, ImportNext, ImportArchive,
     remove, RemoveFind, RemoveScan, RemoveObject, RemoveRow, start, StartFind,
     StartCreate, StartRun, EditStep, EditUpdate, EditStatus, EditWrite,
     AnalysisEnds, ApiCrash, vars
<1> QED
  BY <1>1, <1>2 DEF ApiCrash

(* What a step leaves clean was clean before.                              *)
LEMMA CleanBefore ==
  ASSUME Inv, Fresh, CommitsStay, [Next]_vars, Clean'
  PROVE  Clean /\ ~ApiCrash
<1>1. troubles = 0 /\ ~ApiCrash
  BY TroublesLast DEF Clean
<1>2. ASSUME NEW i \in Imports
      PROVE  /\ req[i].pc \in Outcome => req'[i].pc = req[i].pc
             /\ req[i].skipped => req'[i].skipped
             /\ req[i].repo \in Repos => req'[i].repo = req[i].repo
  <2>1. req'[i] = req[i] \/ Onward(i)
    BY <1>1, NextSteps, StepOnward DEF AnalysisEnds, vars
  <2> QED
    BY <2>1 DEF Onward
<1>3. \A i \in Imports : req[i].pc \notin Outcome \ {"ok"} /\ ~req[i].skipped
  BY <1>2 DEF Clean
<1>4. OneSource
  BY <1>2 DEF Clean, OneSource
<1> QED
  BY <1>1, <1>3, <1>4 DEF Clean

LEMMA FreshNext == ASSUME Inv, Fresh, CommitsStay, [Next]_vars PROVE Fresh'
<1>1. ASSUME NEW i \in Imports, req'[i].pc = "new" PROVE req'[i] = req[i]
  <2>1. CASE ApiCrash
    BY <1>1, <2>1, ImportFacts DEF ApiCrash, NewRequest
  <2>2. CASE \E q : StepOf(q)
    BY <1>1, <2>2, StepOnward DEF Onward
  <2> QED
    BY <2>1, <2>2, NextSteps DEF AnalysisEnds, vars
<1> QED
  BY <1>1 DEF Fresh, At

(* A removal that goes on after it has looked at the version removes one   *)
(* that was uploaded.                                                      *)
LEMMA RemovalMoves ==
  ASSUME Inv, CommitsStay, NEW d \in Removals, remove(d),
         req'[d].pc \in {"object", "row"}
  PROVE  /\ req[d].pc \in {"scan", "object"}
         /\ req'[d].row = req[d].row
         /\ rows[req[d].row].commit = None
<1>1. StateOK /\ d \in Requests /\ req[d] \in RequestRecord
  BY DEF Inv, StateOK, Requests
<1>2. \A outcome \in Outcome : ~Finish(d, outcome)
  BY <1>1, FinishFacts DEF Outcome
<1>3. ~RemoveFind(d)
  <2>1. ASSUME NEW u, req' = [req EXCEPT ![d].pc = "scan", ![d].row = u] PROVE FALSE
    BY <1>1, <2>1 DEF StateOK, RequestRecord
  <2> QED
    BY <1>2, <2>1 DEF RemoveFind, Outcome
<1>4. /\ \/ req[d].pc = "scan" /\ rows[req[d].row].commit = None
         \/ req[d].pc = "object"
      /\ \E pc \in {"object", "row"} : Goto(d, pc)
  BY <1>2, <1>3 DEF remove, RemoveScan, RemoveObject, RemoveRow, At, Outcome
<1>5. req'[d].row = req[d].row
  BY <1>1, <1>4, GotoFacts DEF RequestPoint
<1> QED
  BY <1>4, <1>5 DEF CommitsStay

LEMMA CommitsStayNext == ASSUME Inv, CommitsStay, [Next]_vars PROVE CommitsStay'
<1>1. \E q : CommitsGrow(q)
  <2>1. CASE \E q : StepOf(q)
    BY <2>1, StepAlone
  <2>2. CASE \E u \in Ids : AnalysisEnds(u)
    BY <2>2, ScanCommits DEF AnalysisEnds
  <2>3. CASE ApiCrash \/ UNCHANGED vars
    BY <2>3, NoRowCommits DEF ApiCrash, vars
  <2> QED
    BY <2>1, <2>2, <2>3, NextSteps
<1>2. \A u \in Ids' : rows'[u].commit # None => Live(u)'
  BY <1>1 DEF CommitsGrow, CommitsStay
<1>3. ASSUME NEW d \in Removals, req'[d].pc \in {"object", "row"}
      PROVE  rows'[req'[d].row].commit = None
  <2>1. d \in Requests /\ d \notin Creators /\ d \notin Starts /\ d \notin Edits
    BY VersionsAssumption DEF Requests, Creators
  <2>2. req'[d] = req[d] \/ remove(d)
    <3>1. CASE ApiCrash
      BY <1>3, <2>1, <3>1 DEF ApiCrash, NewRequest
    <3>2. ASSUME NEW q, StepOf(q) PROVE req'[d] = req[d] \/ remove(d)
      <4>1. CASE q # d
        BY <2>1, <3>2, <4>1, StepAlone DEF Alone
      <4>2. CASE q = d
        BY <2>1, <3>2, <4>2 DEF StepOf, Creators
      <4> QED
        BY <4>1, <4>2
    <3> QED
      BY <3>1, <3>2, NextSteps DEF AnalysisEnds, vars
  <2>3. /\ req'[d].row = req[d].row
        /\ rows[req[d].row].commit = None
        /\ req[d].row \in Ids
    <3>1. CASE req'[d] = req[d]
      BY <1>3, <2>1, <3>1 DEF CommitsStay, Inv, RequestsFine, RowFine
    <3>2. CASE remove(d)
      BY <1>3, <2>1, <3>2, RemovalMoves DEF Inv, RequestsFine, RowFine
    <3> QED
      BY <2>2, <3>1, <3>2
  <2> QED
    BY <1>1, <2>3 DEF CommitsGrow
<1> QED
  BY <1>2, <1>3 DEF CommitsStay

-----------------------------------------------------------------------------
LEMMA SyncNext ==
  ASSUME Inv, Fresh, CommitsStay, Clean, Sync, [Next]_vars, Clean'
  PROVE  Sync'
<1>1. ~ApiCrash /\ OneSource /\ UNCHANGED token
  BY CleanBefore DEF Clean, Next, vars
<1>2. ASSUME NEW q, q \notin Imports, CommitsGrow(q),
             \A k \in Imports : req'[k] = req[k]
      PROVE  Sync'
  BY <1>1, <1>2, SyncKept
<1>3. ASSUME NEW q, StepOf(q), q \notin Imports PROVE Sync'
  <2>1. \A k \in Imports : req'[k] = req[k]
    BY <1>3, StepAlone DEF Alone, Requests
  <2> QED
    BY <1>2, <1>3, <2>1, StepAlone
<1>4. ASSUME NEW i \in Imports, StepOf(i) PROVE Sync'
  <2>1. i \notin Removals /\ i \notin Starts /\ i \notin Edits
    BY ImportFacts
  <2> QED
    BY <1>1, <1>4, <2>1, CreateSync, ImportSync DEF StepOf
<1>5. CASE UNCHANGED vars \/ \E u \in Ids : AnalysisEnds(u)
  <2>1. CommitsGrow(None) /\ \A k \in Imports : req'[k] = req[k]
    BY <1>5, NoRowCommits, ScanCommits DEF vars, AnalysisEnds
  <2> QED
    BY <1>1, <2>1, SyncKept
<1> QED
  BY <1>1, <1>3, <1>4, <1>5, NextSteps

LEMMA InitSync == Init => SyncInv
<1> SUFFICES ASSUME Init PROVE SyncInv
  OBVIOUS
<1>1. Ids = {} /\ \A r \in Requests : req[r] = NewRequest
  BY DEF Init, Ids
<1>2. Imports \subseteq Requests /\ Removals \subseteq Requests
  BY DEF Requests
<1>3. NewRequest.pc = "new" /\ NewRequest.repo = None
  BY DEF NewRequest
<1> QED
  BY <1>1, <1>2, <1>3
     DEF SyncInv, Fresh, CommitsStay, Sync, OnBranch, CommitsCovered, ImportsCovered,
         Importing, LoopPoint, OwnPoint, Owner, At

LEMMA SyncInvNext == ASSUME Inv, SyncInv, [Next]_vars PROVE SyncInv'
BY FreshNext, CommitsStayNext, CleanBefore, SyncNext DEF SyncInv

(* While nothing goes wrong, imports that have all succeeded for the same  *)
(* repository have brought in its whole branch with a token, and its       *)
(* newest page without one, however they and the other requests were       *)
(* interleaved; importGithub leaves a commit out only where its version    *)
(* numbers were taken three times.                                         *)
THEOREM VersionsSyncComplete == Spec => []SyncComplete
<1>1. SyncInv => SyncComplete
  <2> SUFFICES ASSUME SyncInv, Synchronized, OneSource,
                      \A i \in Imports : ~req[i].skipped,
                      NEW i \in Imports, At(i, "ok")
               PROVE  Missing(req[i].repo) = {}
    BY DEF SyncComplete, BranchStored
  <2>1. Clean
    BY DEF Clean, Synchronized, Outcome
  <2>2. PICK k \in Imports : Covers(k, req[i].repo)
    BY <2>1 DEF SyncInv, Sync, ImportsCovered, Importing, At, Covered
  <2>3. req[k].pc \in {"ok", "new"}
    BY DEF Synchronized
  <2> QED
    BY <2>2, <2>3 DEF Covers, LoopPoint, OwnPoint
<1>2. Spec => [](Inv /\ SyncInv)
  <2>1. Init => Inv /\ SyncInv
    BY InitInv, InitSync
  <2>2. Inv /\ SyncInv /\ [Next]_vars => (Inv /\ SyncInv)'
    BY NextInv, SyncInvNext
  <2> QED
    BY <2>1, <2>2, PTL DEF Spec
<1> QED
  BY <1>1, <1>2, PTL
=============================================================================
