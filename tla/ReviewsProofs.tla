---------------------------- MODULE ReviewsProofs ----------------------------
(***************************************************************************)
(* Reviews for any number of files, attempts, runs and troubles: types,    *)
(* the rows of ai_requests per task, the answers behind a finished stage,  *)
(* and the daily limit.                                                    *)
(***************************************************************************)
EXTENDS Reviews, TLAPS, FiniteSetTheorems, SequenceTheorems, WellFoundedInduction

(* The choice of files of a run has made its row before anything else of   *)
(* its execution begins.                                                   *)
EarlyInOrder ==
  \A g \in Generations, k \in Keys :
    Early(g, k) => /\ job[g[1]].pc # "limit"
                   /\ job[g[1]].pc = "selecting"
                        => k = Selection /\ g = Execution(g[1])

(* Two executions of one run are never both about to find or make a row.   *)
EarlyAreOne ==
  \A g, h \in Generations, k, l \in Keys :
    Early(g, k) /\ Early(h, l) /\ g[1] = h[1] => g = h

(* The runs to come.                                                       *)
NotStarted ==
  /\ \A r \in Runs : r > run => job[r].pc = "none"
  /\ \A g \in Generations, k \in Keys : g[1] > run => ReviewAt(g, k, "none")

(* Without an overlap only the latest run makes rows.                      *)
OnlyLatest ==
  ~overlapped => /\ \A r \in Runs : job[r].pc \notin Idle => r = run
                 /\ \A g \in Generations, k \in Keys : Early(g, k) => g[1] = run

(* A review uses a row of its own task.                                    *)
RowsMatch ==
  \A g \in Generations, k \in Keys :
    review[g][k].row # 0 => requests[review[g][k].row].key = k

(* A review that found no row is still right, as far as its own run goes.  *)
NoneFound ==
  \A g \in Generations, k \in Keys :
    ReviewAt(g, k, "open") /\ review[g][k].row = 0 /\ ~review[g][k].gone
      => \A u \in RowsOf(k) : overlapped /\ requests[u].run # g[1]

Answered(k) == \E u \in RowsOf(k) : requests[u].answered

OksAreAnswered ==
  \A g \in Generations, k \in Keys \ {Selection} :
    g[1] = run /\ ReviewAt(g, k, "ok") => Answered(k)

StageIsAnswered ==
  job[run].pc \in {"check", "save", "done"}
    => \A k \in Tasks(job[run].merge) : Answered(k)

(* The tasks that have a row or may still make one are within the limit.   *)
Claimed ==
  {k \in Keys \ {Selection} :
     RowsOf(k) # {} \/ \E g \in Generations : Early(g, k)}

ClaimsWithinLimit == ~overlapped => others + Cardinality(Claimed) <= DailyLimit

Inv ==
  /\ TypeOK
  /\ EarlyInOrder
  /\ EarlyAreOne
  /\ NotStarted
  /\ OnlyLatest
  /\ RowsMatch
  /\ NoneFound
  /\ OneRowPerTask
  /\ OksAreAnswered
  /\ StageIsAnswered
  /\ ClaimsWithinLimit

-----------------------------------------------------------------------------
(* Facts about the data.                                                   *)

LEMMA KeysFinite ==
  /\ IsFiniteSet(Keys)
  /\ \A merge \in BOOLEAN : Tasks(merge) \subseteq Keys \ {Selection}
<1>1. IsFiniteSet(Files \cup {Project})
  BY FS_AddElement, ReviewsAssumption
<1>2. Keys = (Files \cup {Project}) \cup {Selection}
  BY DEF Keys
<1>3. IsFiniteSet(Keys)
  BY <1>1, <1>2, FS_AddElement
<1> QED
  BY <1>3, ReviewsAssumption DEF Keys, Tasks

LEMMA GenerationsType == \A g \in Generations : g[1] \in Runs /\ g[1] \in Nat
BY DEF Generations, Runs

LEMMA ExecutionType ==
  ASSUME TypeOK, NEW r \in Runs, job[r].pc \notin {"exhausted", "failed"}
  PROVE  Execution(r) \in Generations /\ Execution(r)[1] = r
<1>1. job[r].attempts \in 0 .. MaxAttempts /\ job[r].attempts < MaxAttempts
  BY DEF TypeOK, JobRecord
<1>2. job[r].attempts \in 0 .. MaxAttempts - 1
  BY <1>1, ReviewsAssumption
<1> QED
  BY <1>2 DEF Execution, Generations

(* With one row per task there are as many rows as tasks that have one.    *)
Keyed == {k \in Keys : RowsOf(k) # {}}

LEMMA RowsCounted ==
  ASSUME TypeOK, OneRowPerTask, ~overlapped
  PROVE  IsFiniteSet(Keyed) /\ Cardinality(Keyed) = Len(requests)
<1>1. /\ Len(requests) \in Nat
      /\ \A u \in Rows : requests[u] \in RequestRow
  BY ElementOfSeq DEF TypeOK, Rows
<1>2. IsFiniteSet(Rows) /\ Cardinality(Rows) = Len(requests)
  BY <1>1, FS_Interval DEF Rows
<1> DEFINE f == [u \in Rows |-> requests[u].key]
<1>3. \A u \in Rows : requests[u].key \in Keyed /\ u \in RowsOf(requests[u].key)
  BY <1>1 DEF RequestRow, Keyed, RowsOf
<1>4. f \in Surjection(Rows, Keyed)
  <2>1. f \in [Rows -> Keyed]
    BY <1>3
  <2>2. \A k \in Keyed : \E u \in Rows : f[u] = k
    BY DEF Keyed, RowsOf
  <2> QED
    BY <2>1, <2>2 DEF Surjection
<1>5. f \in Injection(Rows, Keyed)
  <2>1. \A u, v \in Rows : f[u] = f[v] => u = v
    BY <1>3 DEF OneRowPerTask, Keyed
  <2> QED
    BY <1>3, <2>1 DEF Injection, IsInjective
<1> QED
  BY <1>2, <1>4, <1>5, FS_Surjection

(* A set of rows has a newest one: the distances to the end have a least.  *)
LEMMA LatestRowProperties ==
  ASSUME TypeOK, NEW k \in Keys
  PROVE  IF RowsOf(k) = {} THEN LatestRow(k) = 0
         ELSE LatestRow(k) \in RowsOf(k) /\ LatestRow(k) # 0
<1>1. CASE RowsOf(k) = {}
  BY <1>1 DEF LatestRow
<1>2. CASE RowsOf(k) # {}
  <2> DEFINE n    == Len(requests)
             less == {p \in Nat \X Nat : p[1] < p[2]}
             far  == {n - u : u \in RowsOf(k)}
  <2>1. n \in Nat /\ \A u \in RowsOf(k) : u \in 1 .. n
    BY DEF TypeOK, RowsOf, Rows
  <2>2. far \in SUBSET Nat /\ far # {}
    BY <1>2, <2>1
  <2>3. IsWellFoundedOn(less, Nat)
    BY NatLessThanWellFounded DEF OpToRel
  <2> HIDE DEF far, n
  <2>4. PICK d \in far : \A e \in far : <<e, d>> \notin less
    BY <2>2, <2>3, WFMin, Zenon
  <2>5. \A e \in far : ~(e < d)
    BY <2>2, <2>4
  <2>6. PICK u \in RowsOf(k) : d = n - u
    BY <2>4 DEF far
  <2>7. \A v \in RowsOf(k) : v <= u
    <3> TAKE v \in RowsOf(k)
    <3>1. ~(n - v < n - u)
      BY <2>5, <2>6 DEF far
    <3>2. n \in Nat /\ v \in 1 .. n /\ u \in 1 .. n
      BY <2>1
    <3> QED
      BY <3>1, <3>2
  <2>8. LatestRow(k) \in RowsOf(k)
    BY <1>2, <2>6, <2>7 DEF LatestRow
  <2> QED
    BY <1>2, <2>1, <2>8
<1> QED
  BY <1>1, <1>2

LEMMA ClaimedFinite ==
  IsFiniteSet(Claimed) /\ Cardinality(Claimed) \in Nat /\ Claimed \subseteq Keys
BY KeysFinite, FS_Subset, FS_CardinalityType DEF Claimed

LEMMA NoReviewType ==
  /\ NoReview \in ReviewRecord
  /\ NoReview.pc = "none" /\ NoReview.row = 0 /\ ~NoReview.gone
BY DEF NoReview, ReviewRecord

LEMMA InitInv == Init => Inv
<1> SUFFICES ASSUME Init PROVE Inv
  OBVIOUS
<1> USE ReviewsAssumption DEF Init
<1>1. \A g \in Generations, k \in Keys : review[g][k] = NoReview
  OBVIOUS
<1>2. Rows = {} /\ \A k : RowsOf(k) = {}
  BY DEF Rows, RowsOf
<1>3. /\ 1 \in Runs /\ \A r \in Runs : r \in Nat /\ (r > 1 <=> r # 1) /\ r <= MaxRuns
      /\ job \in [Runs -> JobRecord]
      /\ \A r \in Runs : /\ job[r].pc = IF r = 1 THEN "queued" ELSE "none"
                         /\ job[r].attempts = 0
  BY DEF JobRecord, Runs
<1>4. others \in 0 .. DailyLimit
  OBVIOUS
<1>5. TypeOK
  <2>1. review \in [Generations -> [Keys -> ReviewRecord]]
    BY NoReviewType
  <2>2. scan \in ScanRecord /\ mergeFiles \in BOOLEAN
        /\ bounds \in [runs : 1 .. MaxRuns, troubles : 0 .. MaxTroubles]
    BY DEF ScanRecord
  <2>3. \A r \in Runs : job[r].pc \notin {"exhausted", "failed"}
                          => job[r].attempts < MaxAttempts
    BY <1>3
  <2>4. \A g \in Generations, k \in Keys : review[g][k].row \in {0} \cup Rows
    BY <1>1, NoReviewType
  <2>5. requests \in Seq(RequestRow) /\ overlapped \in BOOLEAN /\ run \in Runs
    BY <1>3, EmptySeq
  <2> QED
    BY <1>3, <1>4, <2>1, <2>2, <2>3, <2>4, <2>5 DEF TypeOK
<1>6. EarlyInOrder /\ EarlyAreOne /\ RowsMatch /\ NoneFound /\ OksAreAnswered
  BY <1>1, NoReviewType DEF EarlyInOrder, EarlyAreOne, RowsMatch, NoneFound,
     OksAreAnswered, Early, ReviewAt
<1>7. NotStarted /\ OnlyLatest
  BY <1>1, <1>3, NoReviewType DEF NotStarted, OnlyLatest, Idle, Early, ReviewAt
<1>8. OneRowPerTask /\ StageIsAnswered
  BY <1>2, <1>3 DEF OneRowPerTask, StageIsAnswered
<1>9. ClaimsWithinLimit
  <2>1. Claimed = {}
    BY <1>1, <1>2, NoReviewType DEF Claimed, Early
  <2> QED
    BY <1>4, <2>1, FS_EmptySet DEF ClaimsWithinLimit
<1> QED
  BY <1>5, <1>6, <1>7, <1>8, <1>9 DEF Inv

-----------------------------------------------------------------------------
(* Steps that leave the rows alone. A review is kept or set aside.         *)

JobType(j) ==
  /\ j \in JobRecord
  /\ j.pc \notin {"exhausted", "failed"} => j.attempts < MaxAttempts

Narrowed(g, k) ==
  \/ review'[g][k] = review[g][k]
  \/ /\ review'[g][k] \in ReviewRecord
     /\ review'[g][k].row \in {0, review[g][k].row}
     /\ review'[g][k].pc \in {"none", "assert", "find"}

SameRows == UNCHANGED <<run, requests, others, overlapped>>

OthersType ==
  /\ mergeFiles \in BOOLEAN
  /\ scan \in ScanRecord
  /\ bounds \in [runs : 1 .. MaxRuns, troubles : 0 .. MaxTroubles]

LEMMA NarrowedInv ==
  ASSUME Inv, SameRows, OthersType',
         job' \in [Runs -> JobRecord], \A r \in Runs : JobType(job'[r]),
         review' \in [Generations -> [Keys -> ReviewRecord]],
         \A g \in Generations, k \in Keys : Narrowed(g, k),
         EarlyInOrder', EarlyAreOne', NotStarted', OnlyLatest', StageIsAnswered',
         ClaimsWithinLimit' \/ Claimed' \subseteq Claimed
  PROVE  Inv'
<1>1. UNCHANGED <<requests, Rows>> /\ \A k \in Keys : RowsOf(k)' = RowsOf(k)
  BY DEF SameRows, Rows, RowsOf
<1>2. TypeOK'
  <2>1. \A g \in Generations, k \in Keys : review'[g][k].row \in {0} \cup Rows'
    BY <1>1 DEF Inv, TypeOK, Narrowed
  <2> QED
    BY <2>1 DEF Inv, TypeOK, SameRows, OthersType, JobType
<1>3. RowsMatch' /\ NoneFound' /\ OksAreAnswered'
  <2>1. RowsMatch'
    BY <1>1 DEF Inv, RowsMatch, Narrowed
  <2>2. NoneFound'
    <3>1. \A g \in Generations, k \in Keys :
            ReviewAt(g, k, "open")' => review'[g][k] = review[g][k]
      BY DEF Narrowed, ReviewAt
    <3> QED
      BY <1>1, <3>1 DEF Inv, NoneFound, ReviewAt, SameRows
  <2>3. \A k \in Keys : Answered(k)' <=> Answered(k)
    BY <1>1 DEF Answered
  <2>4. \A g \in Generations, k \in Keys :
          ReviewAt(g, k, "ok")' => ReviewAt(g, k, "ok")
    BY DEF Narrowed, ReviewAt
  <2>5. OksAreAnswered'
    BY <2>3, <2>4 DEF Inv, OksAreAnswered, SameRows
  <2> QED
    BY <2>1, <2>2, <2>5
<1>4. OneRowPerTask'
  BY <1>1 DEF Inv, OneRowPerTask, SameRows
<1>5. ClaimsWithinLimit'
  <2>1. Claimed' \subseteq Claimed => Cardinality(Claimed') <= Cardinality(Claimed)
    BY ClaimedFinite, FS_Subset
  <2>2. Claimed' \subseteq Claimed => Cardinality(Claimed') \in Nat
    BY ClaimedFinite, FS_Subset, FS_CardinalityType
  <2> QED
    BY <2>1, <2>2, ClaimedFinite, ReviewsAssumption
       DEF Inv, ClaimsWithinLimit, TypeOK, SameRows
<1> QED
  BY <1>2, <1>3, <1>4, <1>5 DEF Inv

(* A step of the stage: one job and the reviews of its run.                *)
LEMMA StageInv ==
  ASSUME Inv, SameRows, OthersType',
         NEW r \in Runs, NEW j, JobType(j), JobBecomes(r, j),
         job[r].pc # "none", j.pc \in Idle \/ job[r].pc \notin Idle,
         r = run /\ j.pc \in {"check", "save", "done"}
           => \A k \in Tasks(j.merge) : Answered(k),
         review' \in [Generations -> [Keys -> ReviewRecord]],
         \A g \in Generations, k \in Keys :
           /\ Narrowed(g, k)
           /\ g[1] # r => review'[g][k] = review[g][k]
           /\ Early(g, k)' => Early(g, k) \/ job[r].pc \notin Idle
           /\ Early(g, k)' /\ g[1] = r
                => /\ j.pc # "limit"
                   /\ j.pc = "selecting" => k = Selection /\ g = <<r, j.attempts>>,
         \A g, h \in Generations, k, l \in Keys :
           Early(g, k)' /\ Early(h, l)' /\ g[1] = r /\ h[1] = r => g = h,
         ClaimsWithinLimit' \/ Claimed' \subseteq Claimed
  PROVE  Inv'
<1>1. /\ TypeOK /\ UNCHANGED <<run, requests, overlapped>>
      /\ run \in Nat /\ r \in Nat /\ r <= run
  BY DEF Inv, TypeOK, SameRows, Runs, NotStarted
<1>2. /\ job' \in [Runs -> JobRecord]
      /\ \A s \in Runs : job'[s] = IF s = r THEN j ELSE job[s]
  BY <1>1 DEF JobBecomes, TypeOK, JobType
<1>3. \A s \in Runs : JobType(job'[s])
  BY <1>1, <1>2 DEF JobType, TypeOK
<1>4. \A g \in Generations, k \in Keys :
         g[1] # r => (Early(g, k)' <=> Early(g, k))
  BY DEF Early
<1>5. \A g \in Generations : g[1] \in Runs /\ g[1] \in Nat
  BY GenerationsType
<1>6. EarlyInOrder'
  BY <1>2, <1>4, <1>5 DEF Inv, EarlyInOrder, Execution
<1>7. EarlyAreOne'
  BY <1>4 DEF Inv, EarlyAreOne
<1>8. NotStarted'
  BY <1>1, <1>2, <1>5 DEF Inv, NotStarted, ReviewAt
<1>9. OnlyLatest'
  <2>1. \A s \in Runs : ~overlapped /\ job'[s].pc \notin Idle => s = run
    BY <1>2 DEF Inv, OnlyLatest
  <2>2. \A g \in Generations, k \in Keys : ~overlapped /\ Early(g, k)' => g[1] = run
    BY <1>4 DEF Inv, OnlyLatest
  <2> QED
    BY <1>1, <2>1, <2>2 DEF OnlyLatest
<1>10. StageIsAnswered'
  <2>1. run \in Runs /\ \A k : Answered(k)' <=> Answered(k)
    BY <1>1 DEF TypeOK, Answered, RowsOf, Rows
  <2> QED
    BY <1>1, <1>2, <2>1 DEF Inv, StageIsAnswered
<1> QED
  BY <1>2, <1>3, <1>6, <1>7, <1>8, <1>9, <1>10, NarrowedInv

(* Steps that start no review.                                             *)
LEMMA JobOnlyInv ==
  ASSUME Inv, SameRows, OthersType',
         NEW r \in Runs, NEW j, JobType(j), JobBecomes(r, j),
         job[r].pc # "none", j.pc \in Idle \/ job[r].pc \notin Idle,
         r = run /\ j.pc \in {"check", "save", "done"}
           => \A k \in Tasks(j.merge) : Answered(k),
         UNCHANGED review \/ Settle(r),
         \A g \in Generations, k \in Keys :
           Early(g, k) /\ g[1] = r => j.pc \notin {"limit", "selecting"}
  PROVE  Inv'
<1>1. TypeOK
  BY DEF Inv
<1>2. /\ review' \in [Generations -> [Keys -> ReviewRecord]]
      /\ \A g \in Generations, k \in Keys :
           /\ Narrowed(g, k)
           /\ g[1] # r => review'[g][k] = review[g][k]
           /\ Early(g, k)' => Early(g, k)
  <2>1. CASE UNCHANGED review
    BY <1>1, <2>1 DEF TypeOK, Narrowed, Early
  <2>2. CASE Settle(r)
    <3>1. \A g \in Generations, k \in Keys :
            review'[g][k] = IF g[1] = r /\ Ended(g, k) THEN NoReview
                            ELSE review[g][k]
      BY <2>2 DEF Settle
    <3>2. review' \in [Generations -> [Keys -> ReviewRecord]]
      BY <1>1, <2>2, NoReviewType DEF Settle, TypeOK
    <3> QED
      BY <3>1, <3>2, NoReviewType DEF Narrowed, Early
  <2> QED
    BY <2>1, <2>2
<1>3. Claimed' \subseteq Claimed
  BY <1>2 DEF Claimed, RowsOf, Rows, SameRows
<1>4. \A g, h \in Generations, k, l \in Keys :
        Early(g, k)' /\ Early(h, l)' /\ g[1] = r /\ h[1] = r => g = h
  BY <1>2 DEF Inv, EarlyAreOne
<1> HIDE DEF Inv
<1> QED
  BY <1>2, <1>3, <1>4, StageInv

-----------------------------------------------------------------------------
(* The stage.                                                              *)

LEMMA ThrownProperties ==
  ASSUME NEW j, JobType(j), j.pc \notin {"exhausted", "failed"}
  PROVE  JobType(Thrown(j)) /\ Thrown(j).pc \in {"queued", "exhausted"}
<1>1. /\ j \in JobRecord /\ j.attempts \in 0 .. MaxAttempts
      /\ j.attempts < MaxAttempts /\ MaxAttempts \in Nat \ {0}
  BY ReviewsAssumption DEF JobType, JobRecord
<1>2. ASSUME NEW n \in 0 .. MaxAttempts, NEW pc \in {"queued", "exhausted"},
             pc = "queued" => n < MaxAttempts
      PROVE  LET i == [j EXCEPT !.pc = pc, !.attempts = n]
             IN  JobType(i) /\ i.pc = pc
  BY <1>1, <1>2 DEF JobType, JobRecord
<1>3. CASE j.attempts + 1 < MaxAttempts
  <2>1. j.attempts + 1 \in 0 .. MaxAttempts
    BY <1>1, <1>3
  <2>2. Thrown(j) = [j EXCEPT !.pc = "queued", !.attempts = j.attempts + 1]
    BY <1>3 DEF Thrown
  <2> QED
    BY <1>2, <1>3, <2>1, <2>2
<1>4. CASE ~(j.attempts + 1 < MaxAttempts)
  <2>1. MaxAttempts \in 0 .. MaxAttempts
    BY <1>1
  <2>2. Thrown(j) = [j EXCEPT !.pc = "exhausted", !.attempts = MaxAttempts]
    BY <1>4 DEF Thrown
  <2> QED
    BY <1>2, <2>1, <2>2
<1> QED
  BY <1>3, <1>4

LEMMA JobTypes == ASSUME TypeOK, NEW r \in Runs PROVE JobType(job[r])
BY DEF TypeOK, JobType

LEMMA AtPoint ==
  ASSUME NEW j, JobType(j), j.pc \notin {"exhausted", "failed"},
         NEW pc \in {"limit", "reviewing", "check", "save", "done"}
  PROVE  LET i == [j EXCEPT !.pc = pc]
         IN  /\ JobType(i) /\ i.pc = pc
             /\ i.merge = j.merge /\ i.attempts = j.attempts
BY DEF JobType, JobRecord

LEMMA ThrowInv ==
  ASSUME Inv, SameRows, OthersType', NEW r \in Runs, Throw(r),
         job[r].pc \notin Idle, UNCHANGED review \/ Settle(r)
  PROVE  Inv'
<1>1. JobType(job[r]) /\ job[r].pc \notin {"none", "exhausted", "failed"}
  BY JobTypes DEF Inv, Idle
<1> DEFINE j == Thrown(job[r])
<1>2. JobType(j) /\ j.pc \in {"queued", "exhausted"} /\ JobBecomes(r, j)
  BY <1>1, ThrownProperties DEF Throw
<1> HIDE DEF j
<1> QED
  BY <1>1, <1>2, JobOnlyInv

LEMMA BeginInv == ASSUME Inv, NEW r \in Runs, Begin(r) PROVE Inv'
<1> DEFINE j == [job[r] EXCEPT !.merge = mergeFiles,
                               !.pc = IF mergeFiles THEN "selecting" ELSE "limit"]
           x == [NoReview EXCEPT !.pc = "find"]
<1>1. /\ TypeOK /\ SameRows /\ OthersType'
      /\ job[r].pc = "queued" /\ job[r].pc \notin Idle
      /\ \A g \in Generations, k \in Keys : g[1] = r => ~Early(g, k)
  BY DEF Begin, Inv, TypeOK, LeftBehindAreCalling, SameRows, OthersType, Idle, ScanRecord
<1>2. CASE Throw(r) /\ UNCHANGED review
  BY <1>1, <1>2, ThrowInv
<1>3. /\ JobType(j) /\ j.attempts = job[r].attempts
      /\ j.pc = IF mergeFiles THEN "selecting" ELSE "limit"
  BY <1>1, JobTypes DEF TypeOK, JobType, JobRecord
<1>4. x \in ReviewRecord /\ x.pc = "find" /\ x.row = 0
  BY DEF NoReview, ReviewRecord
<1>5. Execution(r) \in Generations /\ Execution(r)[1] = r
      /\ Execution(r) = <<r, job[r].attempts>> /\ Selection \in Keys
  BY <1>1, ExecutionType DEF Execution, Keys
<1>6. CASE JobBecomes(r, j) /\ UNCHANGED review
  <2> HIDE DEF j
  <2> QED
    BY <1>1, <1>3, <1>6, JobOnlyInv DEF Idle
<1>7. CASE JobBecomes(r, j) /\ mergeFiles
           /\ review' = [review EXCEPT ![Execution(r)][Selection] = x]
  <2> HIDE DEF j, x
  <2>1. /\ review' \in [Generations -> [Keys -> ReviewRecord]]
        /\ \A g \in Generations, k \in Keys :
             review'[g][k] = IF g = Execution(r) /\ k = Selection THEN x
                             ELSE review[g][k]
    BY <1>1, <1>4, <1>5, <1>7 DEF TypeOK
  <2>2. \A g \in Generations, k \in Keys :
           /\ Narrowed(g, k)
           /\ g[1] # r => review'[g][k] = review[g][k]
           /\ Early(g, k)' /\ g[1] = r => g = Execution(r) /\ k = Selection
           /\ Early(g, k)' /\ g[1] # r => Early(g, k)
    BY <1>1, <1>4, <1>5, <2>1 DEF Narrowed, Early
  <2>3. Claimed' \subseteq Claimed
    BY <1>1, <2>2 DEF Claimed, RowsOf, Rows, SameRows
  <2>4. \A g \in Generations, k \in Keys : Early(g, k)' /\ g[1] = r
          => /\ j.pc # "limit"
             /\ j.pc = "selecting" => k = Selection /\ g = <<r, j.attempts>>
    BY <1>3, <1>5, <1>7, <2>2
  <2>5. job[r].pc # "none" /\ j.pc \notin {"check", "save", "done"}
    BY <1>1, <1>3
  <2> QED
    BY <1>1, <1>3, <1>7, <2>1, <2>2, <2>3, <2>4, <2>5, StageInv
<1> QED
  BY <1>2, <1>6, <1>7 DEF Begin

LEMMA SelectedInv == ASSUME Inv, NEW r \in Runs, Selected(r) PROVE Inv'
<1> DEFINE j == [job[r] EXCEPT !.pc = "limit"]
<1>1. /\ TypeOK /\ SameRows /\ OthersType' /\ Settle(r)
      /\ job[r].pc = "selecting" /\ job[r].pc \notin Idle
      /\ Ended(Execution(r), Selection)
  BY DEF Selected, Inv, TypeOK, SameRows, OthersType, Idle
<1>2. CASE Throw(r)
  BY <1>1, <1>2, ThrowInv
<1>3. CASE JobGoto(r, "limit")
  <2>1. JobType(j) /\ j.pc = "limit" /\ JobBecomes(r, j)
    BY <1>1, <1>3, JobTypes, AtPoint DEF JobGoto
  <2>2. \A g \in Generations, k \in Keys : g[1] = r => ~Early(g, k)
    BY <1>1 DEF Inv, EarlyInOrder, Early, Ended
  <2> HIDE DEF j
  <2> QED
    BY <1>1, <2>1, <2>2, JobOnlyInv
<1> QED
  BY <1>2, <1>3 DEF Selected

(* The tasks that are started have been counted against the limit.         *)
LEMMA StartedInv ==
  ASSUME Inv, SameRows, OthersType', NEW r \in Runs, job[r].pc = "limit",
         others + Len(requests) + Wanted(r) <= DailyLimit,
         JobGoto(r, "reviewing"), review' = Started(r)
  PROVE  Inv'
<1> DEFINE tasks == Tasks(job[r].merge)
           j     == [job[r] EXCEPT !.pc = "reviewing"]
           x     == [NoReview EXCEPT !.pc = "assert"]
<1>1. /\ TypeOK /\ job[r] \in JobRecord /\ job[r].pc \notin Idle
      /\ \A g \in Generations, k \in Keys : g[1] = r => ~Early(g, k)
      /\ Execution(r) \in Generations /\ Execution(r)[1] = r
  BY ExecutionType DEF Inv, TypeOK, EarlyInOrder, Idle
<1>2. JobType(j) /\ j.pc = "reviewing" /\ JobBecomes(r, j)
  BY <1>1, JobTypes, AtPoint DEF JobGoto
<1>3. tasks \subseteq Keys \ {Selection} /\ IsFiniteSet(Keys)
  BY <1>1, KeysFinite DEF JobRecord
<1>4. x \in ReviewRecord /\ x.pc = "assert" /\ x.row = 0
  BY DEF NoReview, ReviewRecord
<1>5. review' = [review EXCEPT ![Execution(r)] =
                   [k \in Keys |-> IF k \in tasks THEN x
                                   ELSE review[Execution(r)][k]]]
  BY DEF Started
<1> HIDE DEF x, tasks, j
<1>6. /\ review' \in [Generations -> [Keys -> ReviewRecord]]
      /\ \A g \in Generations, k \in Keys :
           review'[g][k] = IF g = Execution(r) /\ k \in tasks THEN x
                           ELSE review[g][k]
  BY <1>1, <1>4, <1>5 DEF TypeOK
<1>7. \A g \in Generations, k \in Keys :
         /\ Narrowed(g, k)
         /\ g[1] # r => review'[g][k] = review[g][k]
         /\ Early(g, k)' /\ g[1] = r => g = Execution(r) /\ k \in tasks
  BY <1>1, <1>4, <1>6 DEF Narrowed, Early
<1>8. ClaimsWithinLimit'
  <2> SUFFICES ASSUME ~overlapped
               PROVE  others + Cardinality(Claimed') <= DailyLimit
    BY DEF ClaimsWithinLimit, SameRows
  <2>1. Claimed' \subseteq Keyed \cup tasks
    <3>1. \A g \in Generations, k \in Keys : Early(g, k) => g[1] = r
      BY <1>1 DEF Inv, OnlyLatest
    <3>2. \A g \in Generations, k \in Keys : Early(g, k)' => k \in tasks
      BY <1>7, <3>1 DEF Early
    <3> QED
      BY <3>2 DEF Claimed, Keyed, RowsOf, Rows, SameRows
  <2>2. IsFiniteSet(Keyed) /\ Cardinality(Keyed) = Len(requests)
    BY RowsCounted DEF Inv
  <2>3. IsFiniteSet(tasks)
    BY <1>3, FS_Subset
  <2>4. /\ IsFiniteSet(Keyed \cup tasks)
        /\ Cardinality(Keyed \cup tasks)
             = Cardinality(Keyed) + Cardinality(tasks) - Cardinality(Keyed \cap tasks)
    BY <2>2, <2>3, FS_Union
  <2>5. /\ Cardinality(Keyed) \in Nat /\ Cardinality(tasks) \in Nat
        /\ Cardinality(Keyed \cap tasks) \in Nat
    BY <2>2, <2>3, FS_Subset, FS_CardinalityType
  <2>6. Cardinality(Claimed') <= Cardinality(Keyed \cup tasks)
          /\ Cardinality(Claimed') \in Nat
    BY <2>1, <2>4, FS_Subset, FS_CardinalityType
  <2>7. Cardinality(tasks) <= Wanted(r) /\ Wanted(r) \in Nat
    BY <1>1, <2>5 DEF Wanted, tasks, JobRecord
  <2>8. others \in Nat /\ DailyLimit \in Nat /\ Len(requests) \in Nat
    BY <1>1, ReviewsAssumption DEF TypeOK
  <2> QED
    BY <2>2, <2>4, <2>5, <2>6, <2>7, <2>8
<1>9. \A g \in Generations, k \in Keys : Early(g, k)' => Early(g, k) \/ job[r].pc \notin Idle
  BY <1>1
<1>10. job[r].pc # "none" /\ j.pc \notin {"check", "save", "done", "limit", "selecting"}
  BY <1>2
<1> QED
  BY <1>1, <1>2, <1>6, <1>7, <1>8, <1>9, <1>10, StageInv

LEMMA GotoInv ==
  ASSUME Inv, SameRows, OthersType', NEW r \in Runs,
         NEW pc \in {"check", "save", "done"}, JobGoto(r, pc),
         job[r].pc \in {"reviewing", "check", "save"},
         r = run => \A k \in Tasks(job[r].merge) : Answered(k),
         UNCHANGED review \/ Settle(r)
  PROVE  Inv'
<1> DEFINE j == [job[r] EXCEPT !.pc = pc]
<1>1. JobType(j) /\ j.pc = pc /\ j.merge = job[r].merge /\ JobBecomes(r, j)
  <2>1. JobType(job[r]) /\ job[r].pc \notin {"exhausted", "failed"}
    BY JobTypes DEF Inv
  <2>2. pc \in {"limit", "reviewing", "check", "save", "done"}
    OBVIOUS
  <2>3. JobType(j) /\ j.pc = pc /\ j.merge = job[r].merge
    BY <2>1, <2>2, AtPoint
  <2> QED
    BY <2>3 DEF JobGoto
<1>2. job[r].pc \notin Idle
  BY DEF Idle
<1> HIDE DEF j
<1> QED
  BY <1>1, <1>2, JobOnlyInv

LEMMA ReviewedInv == ASSUME Inv, NEW r \in Runs, Reviewed(r) PROVE Inv'
<1>1. /\ TypeOK /\ SameRows /\ OthersType' /\ Settle(r)
      /\ job[r].pc = "reviewing" /\ job[r].pc \notin Idle
  BY DEF Reviewed, Inv, TypeOK, SameRows, OthersType, Idle
<1>2. CASE Throw(r)
  BY <1>1, <1>2, ThrowInv
<1>3. CASE /\ JobGoto(r, "check")
           /\ \A k \in Tasks(job[r].merge) : ReviewAt(Execution(r), k, "ok")
  <2>1. Tasks(job[r].merge) \subseteq Keys \ {Selection}
    BY <1>1, KeysFinite DEF TypeOK, JobRecord
  <2>2. Execution(r) \in Generations /\ Execution(r)[1] = r
    BY <1>1, ExecutionType
  <2>3. r = run => \A k \in Tasks(job[r].merge) : Answered(k)
    BY <1>3, <2>1, <2>2 DEF Inv, OksAreAnswered
  <2> QED
    BY <1>1, <1>3, <2>3, GotoInv
<1> QED
  BY <1>2, <1>3 DEF Reviewed

LEMMA failInv == ASSUME Inv, NEW r \in Runs, fail(r) PROVE Inv'
<1> DEFINE j == [job[r] EXCEPT !.pc = "failed"]
<1>1. /\ TypeOK /\ SameRows /\ OthersType' /\ UNCHANGED review
      /\ job[r].pc = "exhausted" /\ JobBecomes(r, j)
  BY DEF fail, Inv, TypeOK, SameRows, OthersType, ScanRecord, JobGoto
<1>2. JobType(j) /\ j.pc = "failed"
  BY <1>1, JobTypes DEF JobType, JobRecord
<1> HIDE DEF j
<1> QED
  BY <1>1, <1>2, JobOnlyInv DEF Idle

LEMMA JobStepInv == ASSUME Inv, NEW r \in Runs, JobStep(r) PROVE Inv'
<1>1. CASE StartReviews(r)
  <2>1. /\ TypeOK /\ SameRows /\ OthersType'
        /\ job[r].pc = "limit" /\ job[r].pc \notin Idle
    BY <1>1 DEF StartReviews, Inv, TypeOK, SameRows, OthersType, Idle
  <2>2. /\ others \in Nat /\ Len(requests) \in Nat /\ DailyLimit \in Nat
        /\ Wanted(r) \in Nat
    <3>1. Tasks(job[r].merge) \subseteq Keys
      BY <2>1, KeysFinite DEF TypeOK, JobRecord
    <3>2. Cardinality(Tasks(job[r].merge)) \in Nat
      BY <3>1, KeysFinite, FS_Subset, FS_CardinalityType
    <3> QED
      BY <2>1, <3>2, ReviewsAssumption DEF TypeOK, Wanted
  <2>3. CASE Throw(r) /\ UNCHANGED review
    BY <2>1, <2>3, ThrowInv
  <2>4. CASE /\ others + Len(requests) + Wanted(r) <= DailyLimit
             /\ JobGoto(r, "reviewing") /\ review' = Started(r)
    BY <2>1, <2>4, StartedInv
  <2> QED
    BY <1>1, <2>2, <2>3, <2>4 DEF StartReviews
<1>2. CASE Check(r) \/ Save(r)
  <2>1. /\ TypeOK /\ SameRows /\ OthersType' /\ UNCHANGED review
        /\ job[r].pc \in {"check", "save"} /\ job[r].pc \notin Idle
    BY <1>2 DEF Check, Save, Inv, TypeOK, SameRows, OthersType, Idle
  <2>2. r = run => \A k \in Tasks(job[r].merge) : Answered(k)
    BY <2>1 DEF Inv, StageIsAnswered
  <2>3. Throw(r) \/ JobGoto(r, "save") \/ JobGoto(r, "done")
    BY <1>2 DEF Check, Save
  <2> QED
    BY <2>1, <2>2, <2>3, ThrowInv, GotoInv
<1> QED
  BY <1>1, <1>2, BeginInv, SelectedInv, ReviewedInv, failInv DEF JobStep

-----------------------------------------------------------------------------
(* One review.                                                             *)

(* The rows are as many as before, or one more of a task without one.      *)
RowsKept(g, k) ==
  /\ requests' \in Seq(RequestRow)
  /\ \A u \in Rows : /\ requests'[u].key = requests[u].key
                     /\ requests'[u].run = requests[u].run
                     /\ requests[u].answered => requests'[u].answered
  /\ \/ Len(requests') = Len(requests)
     \/ /\ Len(requests') = Len(requests) + 1
        /\ requests'[Len(requests) + 1].key = k
        /\ requests'[Len(requests) + 1].run = g[1]
        /\ \A u \in RowsOf(k) : overlapped /\ requests[u].run # g[1]
        /\ Early(g, k)

(* What a review may become.                                               *)
Becomes(g, k, x) ==
  /\ x \in ReviewRecord
  /\ review' = [review EXCEPT ![g][k] = x]
  /\ x.row # 0 => x.row \in 1 .. Len(requests') /\ requests'[x.row].key = k
  /\ x.pc \in {"assert", "find", "open"} => Early(g, k)
  /\ x.pc = "open" /\ x.row = 0 /\ ~x.gone => RowsOf(k) = {} /\ requests' = requests
  /\ x.pc # "none" => ~ReviewAt(g, k, "none")
  /\ x.pc = "ok" /\ k # Selection
       => \E u \in 1 .. Len(requests') :
            requests'[u].key = k /\ requests'[u].answered

SameStage == UNCHANGED <<run, job, others, mergeFiles, scan, bounds, overlapped>>

LEMMA OneReviewInv ==
  ASSUME Inv, SameStage,
         NEW g \in Generations, NEW k \in Keys, RowsKept(g, k),
         NEW x, Becomes(g, k, x)
  PROVE  Inv'
<1> USE DEF RowsKept, Becomes, SameStage
<1>1. /\ TypeOK /\ Len(requests) \in Nat /\ Len(requests') \in Nat
      /\ Rows = 1 .. Len(requests) /\ Rows' = 1 .. Len(requests')
      /\ Rows \subseteq Rows'
      /\ IsFiniteSet(Keys)
  BY KeysFinite DEF Inv, TypeOK, Rows
<1>2. /\ review' \in [Generations -> [Keys -> ReviewRecord]]
      /\ \A h \in Generations, l \in Keys :
           review'[h][l] = IF h = g /\ l = k THEN x ELSE review[h][l]
  BY <1>1 DEF TypeOK
<1>3. /\ \A l \in Keys \ {k} : RowsOf(l)' = RowsOf(l)
      /\ \/ RowsOf(k)' = RowsOf(k)
         \/ /\ RowsOf(k)' = RowsOf(k) \cup {Len(requests) + 1}
            /\ requests'[Len(requests) + 1].run = g[1]
            /\ \A u \in RowsOf(k) : overlapped /\ requests[u].run # g[1]
            /\ Early(g, k) /\ requests' # requests
  <2>1. CASE Len(requests') = Len(requests)
    BY <1>1, <2>1 DEF RowsOf
  <2>2. CASE Len(requests') # Len(requests)
    <3>1. Rows' = Rows \cup {Len(requests) + 1} /\ Len(requests) + 1 \notin Rows
      BY <1>1, <2>2
    <3> QED
      BY <1>1, <2>2, <3>1 DEF RowsOf
  <2> QED
    BY <2>1, <2>2
<1>4. \A h \in Generations, l \in Keys : Early(h, l)' => Early(h, l)
  BY <1>2 DEF Early
<1>5. \A l \in Keys : Answered(l) => Answered(l)'
  BY <1>1 DEF Answered, RowsOf
<1>6. TypeOK'
  <2>1. \A h \in Generations, l \in Keys : review'[h][l].row \in {0} \cup Rows'
    BY <1>1, <1>2 DEF TypeOK
  <2> QED
    BY <1>1, <1>2, <2>1 DEF TypeOK
<1>7. EarlyInOrder' /\ EarlyAreOne' /\ OnlyLatest'
  BY <1>4 DEF Inv, EarlyInOrder, EarlyAreOne, OnlyLatest, Execution
<1>8. NotStarted'
  BY <1>2 DEF Inv, NotStarted, ReviewAt
<1>9. RowsMatch'
  <2> SUFFICES ASSUME NEW h \in Generations, NEW l \in Keys, review'[h][l].row # 0
               PROVE  requests'[review'[h][l].row].key = l
    BY DEF RowsMatch
  <2>1. CASE h = g /\ l = k
    BY <1>2, <2>1
  <2>2. CASE ~(h = g /\ l = k)
    BY <1>1, <1>2, <2>2 DEF Inv, RowsMatch, TypeOK
  <2> QED
    BY <2>1, <2>2
<1>10. NoneFound'
  <2> SUFFICES ASSUME NEW h \in Generations, NEW l \in Keys,
                      review'[h][l].pc = "open", review'[h][l].row = 0,
                      ~review'[h][l].gone, NEW u \in RowsOf(l)'
               PROVE  overlapped /\ requests'[u].run # h[1]
    BY DEF NoneFound, ReviewAt
  <2>1. CASE h = g /\ l = k
    BY <1>2, <1>3, <2>1
  <2>2. CASE ~(h = g /\ l = k)
    <3>1. /\ review'[h][l] = review[h][l] /\ Early(h, l)
          /\ \A v \in RowsOf(l) : overlapped /\ requests[v].run # h[1]
      BY <1>2, <2>2 DEF Inv, NoneFound, ReviewAt, Early
    <3>2. CASE u \in RowsOf(l)
      BY <1>1, <3>1, <3>2 DEF RowsOf
    <3>3. CASE u \notin RowsOf(l)
      <4>1. l = k /\ u = Len(requests) + 1 /\ Early(g, k) /\ requests'[u].run = g[1]
        BY <1>3, <3>3
      <4>2. h # g
        BY <2>2, <4>1
      <4>3. h[1] # g[1]
        BY <3>1, <4>1, <4>2 DEF Inv, EarlyAreOne
      <4>4. overlapped
        BY <3>1, <4>1, <4>3 DEF Inv, OnlyLatest
      <4> QED
        BY <4>1, <4>3, <4>4
    <3> QED
      BY <3>2, <3>3
  <2> QED
    BY <2>1, <2>2
<1>11. OneRowPerTask'
  <2>1. \A l \in Keys : RowsOf(l) \subseteq Rows
    BY DEF RowsOf
  <2>2. \A l \in Keys : \A u, v \in RowsOf(l) :
          (requests'[u].run = requests'[v].run \/ ~overlapped) => u = v
    BY <2>1 DEF Inv, OneRowPerTask
  <2>3. \A u \in RowsOf(k) : requests'[u].run = requests[u].run
    BY <2>1
  <2> QED
    BY <1>3, <2>2, <2>3 DEF OneRowPerTask
<1>12. OksAreAnswered'
  <2>1. x.pc = "ok" /\ k # Selection => Answered(k)'
    BY <1>1 DEF Answered, RowsOf
  <2> QED
    BY <1>2, <1>5, <2>1 DEF Inv, OksAreAnswered, ReviewAt
<1>13. StageIsAnswered'
  <2>1. job[run] \in JobRecord
    BY <1>1 DEF TypeOK
  <2> QED
    BY <1>5, <2>1, KeysFinite DEF Inv, StageIsAnswered, JobRecord
<1>14. ClaimsWithinLimit'
  <2>1. Claimed' \subseteq Claimed
    BY <1>3, <1>4 DEF Claimed
  <2>2. Cardinality(Claimed') <= Cardinality(Claimed)
          /\ Cardinality(Claimed') \in Nat
    BY <2>1, ClaimedFinite, FS_Subset, FS_CardinalityType
  <2> QED
    BY <1>1, <2>2, ClaimedFinite, ReviewsAssumption
       DEF Inv, ClaimsWithinLimit, TypeOK
<1> QED
  BY <1>6, <1>7, <1>8, <1>9, <1>10, <1>11, <1>12, <1>13, <1>14 DEF Inv

LEMMA GoesTo ==
  ASSUME TypeOK, NEW g \in Generations, NEW k \in Keys,
         NEW pc \in {"find", "call", "returned", "complete", "respond", "catch"},
         ReviewGoto(g, k, pc)
  PROVE  \E x \in ReviewRecord :
           /\ review' = [review EXCEPT ![g][k] = x]
           /\ x.pc = pc
           /\ x.row = review[g][k].row
<1> DEFINE x == [review[g][k] EXCEPT !.pc = pc]
<1>1. review[g][k] \in ReviewRecord
  BY DEF TypeOK
<1>2. x \in ReviewRecord /\ x.pc = pc /\ x.row = review[g][k].row
  BY <1>1 DEF ReviewRecord
<1>3. review' = [review EXCEPT ![g][k] = x]
  BY DEF ReviewGoto
<1> QED
  BY <1>2, <1>3

LEMMA EndsAs ==
  ASSUME NEW g \in Generations, NEW k \in Keys, NEW pc \in {"ok", "failed", "lost"},
         ReviewEnds(g, k, pc)
  PROVE  \E x \in ReviewRecord :
           /\ review' = [review EXCEPT ![g][k] = x]
           /\ x.pc \in {pc, "none"}
           /\ x.row = 0
<1> DEFINE x == IF Awaited(g) THEN [NoReview EXCEPT !.pc = pc] ELSE NoReview
<1>1. x \in ReviewRecord /\ x.pc \in {pc, "none"} /\ x.row = 0
  BY DEF NoReview, ReviewRecord
<1>2. review' = [review EXCEPT ![g][k] = x]
  BY DEF ReviewEnds
<1> QED
  BY <1>1, <1>2

LEMMA SameRowsKept ==
  ASSUME TypeOK, NEW g, NEW k, UNCHANGED requests
  PROVE  RowsKept(g, k)
BY DEF TypeOK, RowsKept

LEMMA RowFacts ==
  ASSUME Inv, NEW g \in Generations, NEW k \in Keys, review[g][k].row # 0
  PROVE  /\ review[g][k].row \in Rows
         /\ requests[review[g][k].row] \in RequestRow
         /\ requests[review[g][k].row].key = k
BY ElementOfSeq DEF Inv, TypeOK, RowsMatch, Rows

(* A write of a row changes neither the number of the rows nor their tasks.*)
LEMMA RowWritten ==
  ASSUME TypeOK, NEW g, NEW k, NEW u \in Rows, NEW row \in RequestRow,
         row.key = requests[u].key, row.run = requests[u].run,
         requests[u].answered => row.answered,
         requests' = [requests EXCEPT ![u] = row]
  PROVE  RowsKept(g, k) /\ Len(requests') = Len(requests) /\ requests'[u] = row
<1>1. /\ requests' \in Seq(RequestRow)
      /\ Len(requests') = Len(requests)
      /\ \A v \in Rows : requests'[v] = IF v = u THEN row ELSE requests[v]
  BY ExceptSeq DEF TypeOK, Rows
<1> QED
  BY <1>1 DEF RowsKept

LEMMA StatusWritten ==
  ASSUME TypeOK, NEW g, NEW k, NEW u \in Rows,
         NEW status \in {"SENT", "COMPLETED", "FAILED"},
         requests' = [requests EXCEPT ![u].status = status]
  PROVE  /\ RowsKept(g, k) /\ Len(requests') = Len(requests)
         /\ requests'[u].key = requests[u].key
<1> DEFINE row == [requests[u] EXCEPT !.status = status]
<1>1. requests[u] \in RequestRow
  BY ElementOfSeq DEF TypeOK, Rows
<1>2. /\ row \in RequestRow
      /\ row.key = requests[u].key /\ row.answered = requests[u].answered
      /\ row.run = requests[u].run
  BY <1>1 DEF RequestRow
<1>3. requests' = [requests EXCEPT ![u] = row]
  OBVIOUS
<1> HIDE DEF row
<1> QED
  BY <1>2, <1>3, RowWritten

LEMMA AnswerWritten ==
  ASSUME TypeOK, NEW g, NEW k, NEW u \in Rows,
         requests' = [requests EXCEPT ![u].answered = TRUE]
  PROVE  /\ RowsKept(g, k) /\ Len(requests') = Len(requests)
         /\ requests'[u].key = requests[u].key /\ requests'[u].answered
<1> DEFINE row == [requests[u] EXCEPT !.answered = TRUE]
<1>1. requests[u] \in RequestRow
  BY ElementOfSeq DEF TypeOK, Rows
<1>2. /\ row \in RequestRow /\ row.key = requests[u].key
      /\ row.run = requests[u].run /\ row.answered
  BY <1>1 DEF RequestRow
<1>3. requests' = [requests EXCEPT ![u] = row]
  OBVIOUS
<1> HIDE DEF row
<1> QED
  BY <1>2, <1>3, RowWritten

LEMMA FindInv ==
  ASSUME Inv, SameStage, NEW g \in Generations, NEW k \in Keys, Find(g, k)
  PROVE  Inv'
<1> DEFINE u == LatestRow(k)
<1>1. /\ TypeOK /\ Early(g, k) /\ ~ReviewAt(g, k, "none") /\ UNCHANGED requests
      /\ Len(requests) \in Nat /\ RowsKept(g, k)
  BY SameRowsKept DEF Find, ReviewAt, Early, Inv, TypeOK
<1>2. IF RowsOf(k) = {} THEN u = 0 ELSE u \in RowsOf(k) /\ u # 0
  BY <1>1, LatestRowProperties DEF Inv
<1>3. CASE ReviewEnds(g, k, "ok") /\ u # 0
             /\ (requests[u].answered \/ k = Selection)
  <2>1. PICK x \in ReviewRecord : review' = [review EXCEPT ![g][k] = x]
                                  /\ x.pc \in {"ok", "none"} /\ x.row = 0
    BY <1>3, EndsAs
  <2>2. Becomes(g, k, x)
    BY <1>1, <1>2, <1>3, <2>1 DEF Becomes, RowsOf, Rows
  <2> QED
    BY <1>1, <2>2, OneReviewInv
<1>4. CASE review' = [review EXCEPT ![g][k] = [NoReview EXCEPT !.pc = "open", !.row = u]]
  <2> DEFINE x == [NoReview EXCEPT !.pc = "open", !.row = u]
  <2>1. u \in Nat
    BY <1>1, <1>2 DEF RowsOf, Rows
  <2>2. x \in ReviewRecord /\ x.pc = "open" /\ x.row = u
    BY <2>1 DEF NoReview, ReviewRecord
  <2> HIDE DEF x, u
  <2>3. Becomes(g, k, x)
    BY <1>1, <1>2, <1>4, <2>2 DEF Becomes, RowsOf, Rows, x
  <2> QED
    BY <1>1, <2>3, OneReviewInv
<1> QED
  BY <1>3, <1>4 DEF Find

(* Steps of a review that leave the rows alone.                            *)
LEMMA QuietReviewInv ==
  ASSUME Inv, SameStage, UNCHANGED requests,
         NEW g \in Generations, NEW k \in Keys, ~ReviewAt(g, k, "none"),
         \/ \E pc \in {"failed", "lost"} : ReviewEnds(g, k, pc)
         \/ \E pc \in {"returned", "complete", "catch"} : ReviewGoto(g, k, pc)
         \/ ReviewAt(g, k, "assert") /\ ReviewGoto(g, k, "find")
  PROVE  Inv'
<1>1. TypeOK /\ RowsKept(g, k)
  BY SameRowsKept DEF Inv
<1>2. review[g][k].row # 0
        => review[g][k].row \in Rows /\ requests[review[g][k].row].key = k
  BY RowFacts
<1>3. \E x \in ReviewRecord :
        /\ review' = [review EXCEPT ![g][k] = x]
        /\ x.pc \notin {"assert", "open", "ok"}
        /\ x.pc = "find" => ReviewAt(g, k, "assert")
        /\ x.row \in {0, review[g][k].row}
  <2>1. CASE \E pc \in {"failed", "lost"} : ReviewEnds(g, k, pc)
    <3>1. PICK pc \in {"failed", "lost"} : ReviewEnds(g, k, pc)
      BY <2>1
    <3>2. PICK x \in ReviewRecord : review' = [review EXCEPT ![g][k] = x]
                                    /\ x.pc \in {pc, "none"} /\ x.row = 0
      BY <3>1, EndsAs
    <3> QED
      BY <3>2
  <2>2. CASE \E pc \in {"returned", "complete", "catch"} : ReviewGoto(g, k, pc)
    BY <1>1, <2>2, GoesTo
  <2>3. CASE ReviewAt(g, k, "assert") /\ ReviewGoto(g, k, "find")
    BY <1>1, <2>3, GoesTo
  <2> QED
    BY <2>1, <2>2, <2>3
<1>4. \E x : Becomes(g, k, x)
  BY <1>2, <1>3 DEF Becomes, ReviewAt, Early, Rows
<1> QED
  BY <1>1, <1>4, OneReviewInv

(* A review writes its row and goes on, or ends.                           *)
LEMMA WritesRow ==
  ASSUME Inv, SameStage, NEW g \in Generations, NEW k \in Keys,
         ~ReviewAt(g, k, "none"), review[g][k].row # 0,
         \E status \in {"SENT", "COMPLETED", "FAILED"} :
           requests' = [requests EXCEPT ![review[g][k].row].status = status],
         \/ \E pc \in {"call", "respond"} : ReviewGoto(g, k, pc)
         \/ ReviewEnds(g, k, "failed")
  PROVE  Inv'
<1> DEFINE u == review[g][k].row
<1>1. TypeOK /\ u \in Rows /\ requests[u].key = k
  BY RowFacts DEF Inv
<1>2. RowsKept(g, k) /\ Len(requests') = Len(requests) /\ requests'[u].key = k
  BY <1>1, StatusWritten
<1>3. \E x \in ReviewRecord :
        /\ review' = [review EXCEPT ![g][k] = x]
        /\ x.pc \in {"call", "respond", "failed", "none"}
        /\ x.row \in {0, u}
  <2>1. CASE \E pc \in {"call", "respond"} : ReviewGoto(g, k, pc)
    BY <1>1, <2>1, GoesTo
  <2>2. CASE ReviewEnds(g, k, "failed")
    BY <2>2, EndsAs
  <2> QED
    BY <2>1, <2>2
<1>4. \E x : Becomes(g, k, x)
  BY <1>1, <1>2, <1>3 DEF Becomes, Rows
<1> QED
  BY <1>2, <1>4, OneReviewInv

LEMMA OpenInv ==
  ASSUME Inv, SameStage, NEW g \in Generations, NEW k \in Keys, Open(g, k)
  PROVE  Inv'
<1> DEFINE n == Len(requests) + 1
<1>1. /\ TypeOK /\ Early(g, k) /\ ReviewAt(g, k, "open") /\ ~ReviewAt(g, k, "none")
      /\ Len(requests) \in Nat
  BY DEF Open, ReviewAt, Early, Inv, TypeOK
<1>2. ASSUME review[g][k].row = 0, ~review[g][k].gone,
             requests' = Append(requests, NewRow(g, k)),
             review' = [review EXCEPT ![g][k] = [NoReview EXCEPT !.pc = "call", !.row = n]]
      PROVE  Inv'
  <2> DEFINE row == NewRow(g, k)
             x   == [NoReview EXCEPT !.pc = "call", !.row = n]
  <2>1. row \in RequestRow /\ row.key = k /\ row.run = g[1]
    BY GenerationsType DEF NewRow, RequestRow
  <2>2. x \in ReviewRecord /\ x.pc = "call" /\ x.row = n
    <3>1. n \in Nat
      BY <1>1
    <3> HIDE DEF n
    <3> QED
      BY <3>1 DEF NoReview, ReviewRecord
  <2>3. review' = [review EXCEPT ![g][k] = x] /\ requests' = Append(requests, row)
    BY <1>2
  <2> HIDE DEF row, x
  <2>4. /\ requests' \in Seq(RequestRow)
        /\ Len(requests') = n
        /\ \A v \in 1 .. Len(requests) : requests'[v] = requests[v]
        /\ requests'[n] = row
    BY <1>1, <2>1, <2>3, AppendProperties DEF TypeOK
  <2>5. \A u \in RowsOf(k) : overlapped /\ requests[u].run # g[1]
    BY <1>1, <1>2 DEF Inv, NoneFound
  <2>6. RowsKept(g, k)
    BY <1>1, <2>1, <2>4, <2>5 DEF RowsKept, Rows
  <2>7. Becomes(g, k, x)
    BY <1>1, <2>1, <2>2, <2>3, <2>4 DEF Becomes
  <2> QED
    BY <2>6, <2>7, OneReviewInv
<1>3. CASE /\ UNCHANGED requests
           /\ ReviewGoto(g, k, "catch") \/ ReviewEnds(g, k, "failed")
  BY <1>1, <1>3, QuietReviewInv
<1>4. CASE /\ review[g][k].row # 0 /\ ReviewGoto(g, k, "call")
           /\ requests' = [requests EXCEPT ![review[g][k].row].status = "SENT"]
  BY <1>1, <1>4, WritesRow
<1> QED
  BY <1>2, <1>3, <1>4 DEF Open

LEMMA CompleteInv ==
  ASSUME Inv, SameStage, NEW g \in Generations, NEW k \in Keys,
         Complete(g, k) \/ Catch(g, k)
  PROVE  Inv'
<1>1. ~ReviewAt(g, k, "none")
  BY DEF Complete, Catch, ReviewAt
<1>2. CASE review[g][k].row = 0
  <2>1. /\ UNCHANGED requests
        /\ \/ ReviewGoto(g, k, "catch")
           \/ \E pc \in {"failed", "lost"} : ReviewEnds(g, k, pc)
    BY <1>2 DEF Complete, Catch
  <2> QED
    BY <1>1, <2>1, QuietReviewInv
<1>3. CASE review[g][k].row # 0
  <2>1. /\ \E status \in {"COMPLETED", "FAILED"} :
             requests' = [requests EXCEPT ![review[g][k].row].status = status]
        /\ ReviewGoto(g, k, "respond") \/ ReviewEnds(g, k, "failed")
    BY <1>3 DEF Complete, Catch
  <2> QED
    BY <1>1, <1>3, <2>1, WritesRow
<1> QED
  BY <1>2, <1>3

LEMMA RespondInv ==
  ASSUME Inv, SameStage, NEW g \in Generations, NEW k \in Keys, Respond(g, k)
  PROVE  Inv'
<1> DEFINE u == review[g][k].row
<1>1. TypeOK /\ ~ReviewAt(g, k, "none")
  BY DEF Inv, Respond, ReviewAt
<1>2. CASE u = 0
  BY <1>1, <1>2, QuietReviewInv DEF Respond
<1>3. CASE u # 0
  <2>1. u \in Rows /\ requests[u].key = k
    BY <1>3, RowFacts
  <2>2. /\ requests' = [requests EXCEPT ![u].answered = TRUE]
        /\ ReviewEnds(g, k, "ok")
    BY <1>3 DEF Respond
  <2>3. /\ RowsKept(g, k) /\ Len(requests') = Len(requests)
        /\ requests'[u].key = k /\ requests'[u].answered
    BY <1>1, <2>1, <2>2, AnswerWritten
  <2>4. PICK x \in ReviewRecord : review' = [review EXCEPT ![g][k] = x]
                                  /\ x.pc \in {"ok", "none"} /\ x.row = 0
    BY <2>2, EndsAs
  <2>5. Becomes(g, k, x)
    BY <1>1, <2>1, <2>3, <2>4 DEF Becomes, Rows
  <2> QED
    BY <2>3, <2>5, OneReviewInv
<1> QED
  BY <1>2, <1>3

LEMMA ReviewStepInv ==
  ASSUME Inv, NEW g \in Generations, NEW k \in Keys, ReviewStep(g, k)
  PROVE  Inv'
<1>1. SameStage
  BY DEF ReviewStep, SameStage
<1>2. CASE AssertActive(g, k) \/ Call(g, k) \/ Returned(g, k)
  <2>1. /\ UNCHANGED requests /\ ~ReviewAt(g, k, "none")
        /\ \/ \E pc \in {"failed", "lost"} : ReviewEnds(g, k, pc)
           \/ \E pc \in {"returned", "complete", "catch"} : ReviewGoto(g, k, pc)
           \/ ReviewAt(g, k, "assert") /\ ReviewGoto(g, k, "find")
    BY <1>2 DEF AssertActive, Call, Returned, ReviewAt
  <2> QED
    BY <1>1, <2>1, QuietReviewInv
<1> QED
  BY <1>1, <1>2, FindInv, OpenInv, CompleteInv, RespondInv DEF ReviewStep

-----------------------------------------------------------------------------
(* Cancellation, the setting, another run and a death of the Worker.       *)

LEMMA TroubleType ==
  ASSUME TypeOK, Trouble
  PROVE  bounds' \in [runs : 1 .. MaxRuns, troubles : 0 .. MaxTroubles]
<1>1. /\ bounds \in [runs : 1 .. MaxRuns, troubles : 0 .. MaxTroubles]
      /\ MaxTroubles \in Nat /\ MaxRuns \in Nat
  BY ReviewsAssumption DEF TypeOK
<1>2. bounds.troubles - 1 \in 0 .. MaxTroubles
  BY <1>1 DEF Trouble
<1>3. bounds' = [bounds EXCEPT !.troubles = bounds.troubles - 1]
  BY DEF Trouble
<1> QED
  BY <1>1, <1>2, <1>3

LEMMA CrashInv == ASSUME Inv, Crash PROVE Inv'
<1>1. TypeOK /\ SameRows /\ OthersType'
  <2>1. TypeOK /\ Trouble
    BY DEF Inv, Crash
  <2>2. bounds' \in [runs : 1 .. MaxRuns, troubles : 0 .. MaxTroubles]
    BY <2>1, TroubleType
  <2>3. SameRows
    BY DEF Crash, SameRows
  <2> QED
    BY <2>1, <2>2, <2>3 DEF TypeOK, Crash, OthersType
<1>2. /\ review' \in [Generations -> [Keys -> ReviewRecord]]
      /\ \A g \in Generations, k \in Keys :
           Narrowed(g, k) /\ ~Early(g, k)' /\ ReviewAt(g, k, "none")'
  BY NoReviewType DEF Crash, Narrowed, Early, ReviewAt
<1> DEFINE next(r) == [job[r] EXCEPT !.pc = IF @ \in Idle THEN @ ELSE "queued"]
<1>3. \A r \in Runs : /\ JobType(next(r)) /\ next(r).merge = job[r].merge
                      /\ next(r).pc = IF job[r].pc \in Idle THEN job[r].pc ELSE "queued"
  <2> TAKE r \in Runs
  <2>1. /\ job[r] \in JobRecord
        /\ job[r].pc \notin {"exhausted", "failed"} => job[r].attempts < MaxAttempts
    BY <1>1 DEF TypeOK
  <2>2. CASE job[r].pc \in Idle
    <3>1. next(r) = [job[r] EXCEPT !.pc = job[r].pc]
      BY <2>2
    <3> HIDE DEF next
    <3>2. /\ next(r) \in JobRecord /\ next(r).pc = job[r].pc
          /\ next(r).merge = job[r].merge /\ next(r).attempts = job[r].attempts
      BY <2>1, <3>1 DEF JobRecord
    <3> QED
      BY <2>1, <2>2, <3>2 DEF JobType
  <2>3. CASE job[r].pc \notin Idle
    <3>1. next(r) = [job[r] EXCEPT !.pc = "queued"]
      BY <2>3
    <3> HIDE DEF next
    <3>2. job[r].attempts < MaxAttempts
      BY <2>1, <2>3 DEF Idle
    <3> QED
      BY <2>1, <2>3, <3>1, <3>2 DEF JobType, JobRecord
  <2> QED
    BY <2>2, <2>3
<1>4. job' = [r \in Runs |-> next(r)]
  BY DEF Crash
<1> HIDE DEF next
<1>5. /\ job' \in [Runs -> JobRecord]
      /\ \A r \in Runs : /\ JobType(job'[r]) /\ job'[r].merge = job[r].merge
                         /\ job'[r].pc = IF job[r].pc \in Idle THEN job[r].pc
                                         ELSE "queued"
  BY <1>3, <1>4 DEF JobType
<1>6. EarlyInOrder' /\ EarlyAreOne'
  BY <1>2 DEF EarlyInOrder, EarlyAreOne
<1>7. NotStarted' /\ OnlyLatest'
  BY <1>1, <1>2, <1>5 DEF NotStarted, OnlyLatest, Inv, SameRows, Idle
<1>8. StageIsAnswered'
  <2>1. run \in Runs /\ run' = run /\ \A k : Answered(k)' <=> Answered(k)
    BY <1>1 DEF TypeOK, SameRows, Answered, RowsOf, Rows
  <2> QED
    BY <1>5, <2>1 DEF StageIsAnswered, Inv
<1>9. Claimed' \subseteq Claimed
  BY <1>1, <1>2 DEF Claimed, RowsOf, Rows, SameRows
<1> QED
  BY <1>1, <1>2, <1>5, <1>6, <1>7, <1>8, <1>9, NarrowedInv

LEMMA SameStageInv ==
  ASSUME Inv, SameRows, OthersType', UNCHANGED <<job, review>>
  PROVE  Inv'
<1>1. /\ job' \in [Runs -> JobRecord] /\ \A r \in Runs : JobType(job'[r])
      /\ review' \in [Generations -> [Keys -> ReviewRecord]]
  BY DEF Inv, TypeOK, JobType
<1>2. /\ \A g \in Generations, k \in Keys : Narrowed(g, k) /\ Early(g, k)' = Early(g, k)
      /\ Claimed' = Claimed /\ \A k : Answered(k)' <=> Answered(k)
  BY DEF Narrowed, Early, Claimed, Answered, RowsOf, Rows, SameRows
<1>3. EarlyInOrder' /\ EarlyAreOne' /\ NotStarted' /\ OnlyLatest'
  BY DEF Inv, EarlyInOrder, EarlyAreOne, NotStarted, OnlyLatest, Early, Execution,
     ReviewAt, SameRows
<1>4. StageIsAnswered'
  BY <1>2 DEF Inv, StageIsAnswered, SameRows
<1> QED
  BY <1>1, <1>2, <1>3, <1>4, NarrowedInv

(* What another run means for the runs there are. *)
LEMMA AnotherRunInv ==
  ASSUME Inv, AnotherRun,
         \A g \in Generations, k \in Keys : review'[g][k].pc = review[g][k].pc
  PROVE  /\ run' \in Runs /\ run' = run + 1 /\ overlapped' \in BOOLEAN /\ OthersType'
         /\ overlapped => overlapped'
         /\ job' \in [Runs -> JobRecord] /\ \A r \in Runs : JobType(job'[r])
         /\ \A g \in Generations, k \in Keys : Early(g, k)' => overlapped'
         /\ EarlyInOrder' /\ EarlyAreOne' /\ NotStarted' /\ OnlyLatest'
         /\ OksAreAnswered' /\ StageIsAnswered'
<1> DEFINE j == [job[run + 1] EXCEPT !.pc = "queued"]
<1>1. TypeOK /\ run \in Nat /\ run + 1 \in Runs /\ run' = run + 1
      /\ \A r \in Runs : r \in Nat
  BY ReviewsAssumption DEF Inv, TypeOK, AnotherRun, Runs
<1>2. JobType(j) /\ j.pc = "queued" /\ job[run + 1].pc = "none"
  BY <1>1, JobTypes DEF Inv, NotStarted, JobType, JobRecord
<1>3. /\ job' \in [Runs -> JobRecord]
      /\ \A r \in Runs : job'[r] = IF r = run + 1 THEN j ELSE job[r]
  BY <1>1, <1>2 DEF AnotherRun, JobGoto, JobBecomes, TypeOK, JobType
<1> HIDE DEF j
<1>4. \A r \in Runs : JobType(job'[r])
  BY <1>1, <1>2, <1>3, JobTypes
<1>5. OthersType' /\ overlapped' \in BOOLEAN /\ (overlapped => overlapped')
  BY <1>1 DEF AnotherRun, TypeOK, OthersType, ScanRecord
<1>6. \A g \in Generations : g[1] \in Runs /\ g[1] \in Nat
  BY GenerationsType
<1>7. \A g \in Generations, k \in Keys :
        /\ Early(g, k)' <=> Early(g, k)
        /\ \A pc : ReviewAt(g, k, pc)' <=> ReviewAt(g, k, pc)
        /\ Early(g, k) => g[1] <= run
  BY <1>1, <1>6 DEF Inv, NotStarted, Early, ReviewAt
<1>8. ~overlapped' => \A r \in 1 .. run : ~AtWork(r)
  BY DEF AnotherRun
<1>9. \A g \in Generations, k \in Keys : Early(g, k)' => overlapped'
  <2> SUFFICES ASSUME NEW g \in Generations, NEW k \in Keys, Early(g, k)
               PROVE  AtWork(g[1]) /\ g[1] \in 1 .. run
    BY <1>7, <1>8
  <2> QED
    BY <1>1, <1>6, <1>7 DEF AtWork, Runs
<1>10. EarlyInOrder' /\ EarlyAreOne'
  BY <1>1, <1>3, <1>6, <1>7 DEF Inv, EarlyInOrder, EarlyAreOne, Execution
<1>11. NotStarted'
  BY <1>1, <1>3, <1>6, <1>7 DEF Inv, NotStarted
<1>12. OnlyLatest'
  <2>1. \A r \in Runs : ~overlapped' /\ job'[r].pc \notin Idle => r = run + 1
    <3> SUFFICES ASSUME NEW r \in Runs, ~overlapped', r # run + 1
                 PROVE  job[r].pc \in Idle
      BY <1>3
    <3>1. CASE r > run
      BY <1>1, <3>1 DEF Inv, NotStarted, Idle
    <3>2. CASE ~(r > run)
      BY <1>1, <1>8, <3>2 DEF AtWork, Runs
    <3> QED
      BY <3>1, <3>2
  <2> QED
    BY <1>1, <1>9, <2>1 DEF OnlyLatest
<1>13. OksAreAnswered' /\ StageIsAnswered'
  <2>1. \A g \in Generations, k \in Keys : g[1] = run + 1 => ReviewAt(g, k, "none")'
    BY <1>1, <1>7 DEF Inv, NotStarted
  <2>2. job'[run'].pc = "queued"
    BY <1>1, <1>2, <1>3
  <2> QED
    BY <1>1, <2>1, <2>2 DEF OksAreAnswered, StageIsAnswered, ReviewAt
<1> QED
  BY <1>1, <1>3, <1>4, <1>5, <1>9, <1>10, <1>11, <1>12, <1>13

LEMMA RestartInv == ASSUME Inv, Restart PROVE Inv'
<1> DEFINE kept(g, k) == [review[g][k] EXCEPT !.row = 0, !.gone = @ \/ review[g][k].row # 0]
<1>1. TypeOK /\ AnotherRun /\ requests' = <<>> /\ UNCHANGED others
      /\ review' = [g \in Generations |-> [k \in Keys |-> kept(g, k)]]
  BY DEF Inv, Restart, AnotherRun
<1>2. \A g \in Generations, k \in Keys :
        /\ kept(g, k) \in ReviewRecord
        /\ kept(g, k).row = 0
        /\ kept(g, k).pc = review[g][k].pc
  <2> TAKE g \in Generations, k \in Keys
  <2>1. review[g][k] \in ReviewRecord
    BY <1>1 DEF TypeOK
  <2> QED
    BY <2>1 DEF ReviewRecord
<1> HIDE DEF kept
<1>3. /\ review' \in [Generations -> [Keys -> ReviewRecord]]
      /\ \A g \in Generations, k \in Keys :
           review'[g][k].row = 0 /\ review'[g][k].pc = review[g][k].pc
  BY <1>1, <1>2
<1>4. Rows' = {} /\ \A k : RowsOf(k)' = {}
  BY <1>1 DEF Rows, RowsOf
<1>5. /\ run' \in Runs /\ overlapped' \in BOOLEAN /\ OthersType'
      /\ job' \in [Runs -> JobRecord] /\ \A r \in Runs : JobType(job'[r])
      /\ \A g \in Generations, k \in Keys : Early(g, k)' => overlapped'
      /\ EarlyInOrder' /\ EarlyAreOne' /\ NotStarted' /\ OnlyLatest'
      /\ OksAreAnswered' /\ StageIsAnswered'
  BY <1>1, <1>3, AnotherRunInv
<1>6. TypeOK'
  BY <1>1, <1>3, <1>5, EmptySeq DEF TypeOK, OthersType, JobType
<1>7. RowsMatch' /\ NoneFound' /\ OneRowPerTask'
  BY <1>3, <1>4 DEF RowsMatch, NoneFound, OneRowPerTask
<1>8. ClaimsWithinLimit'
  <2> SUFFICES ASSUME ~overlapped' PROVE others' + Cardinality(Claimed') <= DailyLimit
    BY DEF ClaimsWithinLimit
  <2>1. Claimed' = {}
    BY <1>4, <1>5 DEF Claimed
  <2> QED
    BY <1>1, <2>1, FS_EmptySet, ReviewsAssumption DEF TypeOK
<1> QED
  BY <1>5, <1>6, <1>7, <1>8 DEF Inv

LEMMA ResumeInv == ASSUME Inv, Resume PROVE Inv'
<1>1. TypeOK /\ AnotherRun /\ UNCHANGED <<review, requests, others>>
  BY DEF Inv, Resume, AnotherRun
<1>2. UNCHANGED Rows /\ \A k : RowsOf(k)' = RowsOf(k)
  BY <1>1 DEF Rows, RowsOf
<1>3. /\ run' \in Runs /\ overlapped' \in BOOLEAN /\ OthersType'
      /\ overlapped => overlapped'
      /\ job' \in [Runs -> JobRecord] /\ \A r \in Runs : JobType(job'[r])
      /\ EarlyInOrder' /\ EarlyAreOne' /\ NotStarted' /\ OnlyLatest'
      /\ OksAreAnswered' /\ StageIsAnswered'
  BY <1>1, AnotherRunInv
<1>4. TypeOK'
  BY <1>1, <1>2, <1>3 DEF TypeOK, OthersType, JobType
<1>5. RowsMatch' /\ NoneFound' /\ OneRowPerTask'
  BY <1>1, <1>2, <1>3 DEF Inv, RowsMatch, NoneFound, OneRowPerTask, ReviewAt
<1>6. ClaimsWithinLimit'
  <2>1. Claimed' = Claimed
    BY <1>1, <1>2 DEF Claimed, Early
  <2> QED
    BY <1>1, <1>3, <2>1 DEF Inv, ClaimsWithinLimit
<1> QED
  BY <1>3, <1>4, <1>5, <1>6 DEF Inv

LEMMA NextInv == ASSUME Inv, [Next]_vars PROVE Inv'
<1>1. CASE Cancel \/ ChangeSetting \/ UNCHANGED vars
  <2>1. TypeOK
    BY DEF Inv
  <2>2. SameRows /\ UNCHANGED <<job, review>>
    BY <1>1 DEF Cancel, ChangeSetting, vars, SameRows
  <2>3. ASSUME Cancel PROVE OthersType'
    BY <2>1, <2>3 DEF Cancel, TypeOK, OthersType, ScanRecord
  <2>4. ASSUME ChangeSetting PROVE OthersType'
    <3>1. bounds' \in [runs : 1 .. MaxRuns, troubles : 0 .. MaxTroubles]
      BY <2>1, <2>4, TroubleType DEF ChangeSetting
    <3> QED
      BY <2>1, <2>4, <3>1 DEF ChangeSetting, TypeOK, OthersType
  <2>5. ASSUME UNCHANGED vars PROVE OthersType'
    BY <2>1, <2>5 DEF vars, TypeOK, OthersType
  <2>6. OthersType'
    BY <1>1, <2>3, <2>4, <2>5
  <2> QED
    BY <2>2, <2>6, SameStageInv
<1> QED
  BY <1>1, JobStepInv, ReviewStepInv, RestartInv, ResumeInv, CrashInv DEF Next

-----------------------------------------------------------------------------
LEMMA SpecInv == Spec => []Inv
BY InitInv, NextInv, PTL DEF Spec

(* Types: each job of analyze makes at most the configured attempts, and   *)
(* every review points at a row of ai_requests that exists, or at none.    *)
THEOREM ReviewsTypeOK == Spec => []TypeOK
<1>1. Inv => TypeOK
  BY DEF Inv
<1> QED
  BY <1>1, SpecInv, PTL

(* The reviews of all executions of one job of AnalyzeProcessor share one  *)
(* row of ai_requests per task, whatever other jobs do to the rows; all    *)
(* jobs of a scan share it when they were never at work at once.           *)
THEOREM ReviewsShareRows == Spec => []OneRowPerTask
<1>1. Inv => OneRowPerTask
  BY DEF Inv
<1> QED
  BY <1>1, SpecInv, PTL

(* When the latest run hands over to report, every task of it has an       *)
(* answer in ai_responses.                                                 *)
THEOREM ReviewsAreAnswered == Spec => []SavedHasAnswers
<1>1. Inv => SavedHasAnswers
  BY DEF Inv, StageIsAnswered, Answered, SavedHasAnswers
<1> QED
  BY <1>1, SpecInv, PTL

(* The daily limit that the stage checks once bounds the rows of all its   *)
(* executions, but for the choice of files, which precedes the check, as   *)
(* long as no two runs are at work at once.                                *)
THEOREM ReviewsWithinQuota == Spec => []WithinQuota
<1>1. Inv => WithinQuota
  <2> SUFFICES ASSUME Inv, ~overlapped
               PROVE  others + Len(requests) <= DailyLimit + 1
    BY DEF WithinQuota
  <2>0. others + Cardinality(Claimed) <= DailyLimit
    BY DEF Inv, ClaimsWithinLimit
  <2>1. IsFiniteSet(Keyed) /\ Cardinality(Keyed) = Len(requests)
    BY RowsCounted DEF Inv
  <2>2. /\ IsFiniteSet(Claimed \cup {Selection})
        /\ Cardinality(Claimed \cup {Selection}) = Cardinality(Claimed) + 1
    <3>1. IsFiniteSet(Claimed) /\ Selection \notin Claimed
      BY ClaimedFinite DEF Claimed
    <3> QED
      BY <3>1, FS_AddElement
  <2>3. Keyed \subseteq Claimed \cup {Selection}
    BY DEF Keyed, Claimed
  <2>4. Cardinality(Keyed) <= Cardinality(Claimed \cup {Selection})
          /\ Cardinality(Claimed \cup {Selection}) \in Nat
    BY <2>2, <2>3, FS_Subset, FS_CardinalityType
  <2>5. others \in Nat /\ DailyLimit \in Nat /\ Len(requests) \in Nat
    BY ReviewsAssumption DEF Inv, TypeOK
  <2> QED
    BY <2>0, <2>1, <2>2, <2>4, <2>5, ClaimedFinite
<1> QED
  BY <1>1, SpecInv, PTL
=============================================================================
