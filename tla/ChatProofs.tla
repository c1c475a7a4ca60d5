----------------------------- MODULE ChatProofs -----------------------------
(***************************************************************************)
(* Chat for every set of clients, keys and questions, and any number of    *)
(* attempts and troubles: types, the order of storing and telling, the     *)
(* question of a job, and that a settled key stays settled.                *)
(***************************************************************************)
EXTENDS Chat, TLAPS

(* A request that has been received names a key and a question, and one    *)
(* that has not knows nothing.                                             *)
RequestsNamed ==
  \A r \in ChatCalls :
    IF req[r].pc = "new" THEN ~req[r].known
    ELSE req[r].key \in Keys /\ req[r].question \in Questions

(* A job that will run, or runs, has an attempt left.                      *)
AttemptsLeft ==
  \A k \in Keys : job[k].state \in {"waiting", "active"}
                    => job[k].attempts < MaxAttempts

(* What a request remembers of the user's row is still so.                 *)
QuestionsStored ==
  \A r \in ChatCalls :
    req[r].known \/ req[r].pc = "add" => message[req[r].key] # None

(* A job carries the stream of a request that was received for its key.    *)
StreamsOwned ==
  \A k \in Keys, r \in Streams :
    job[k].stream = r => req[r].key = k /\ req[r].pc # "new"

(* Nobody has subscribed for a request that was not received.              *)
NewAreClosed == \A r \in Streams : req[r].pc = "new" => channel[r] = "closed"

(* The handler of a job publishes only what it has stored.                 *)
StoredBefore ==
  \A k \in Keys :
    /\ job[k].pc \in {"usage", "publish", "finish"} => k \in answered
    /\ job[k].pc \in {"publish", "finish"} => k \in usage

(* A request that updates the memory has an answer, and read a memory of   *)
(* answers.                                                                *)
AnswersFound ==
  \A r \in ChatCalls :
    /\ req[r].pc \in {"recall", "remember"} => req[r].key \in answered
    /\ req[r].memory \subseteq answered

Inv ==
  /\ TypeOK
  /\ RequestsNamed
  /\ AttemptsLeft
  /\ QuestionsStored
  /\ JobHasQuestion
  /\ StreamsOwned
  /\ NewAreClosed
  /\ StoredBefore
  /\ AnswersFound
  /\ SavedBeforeTold

LEMMA InitInv == Init => Inv
<1> SUFFICES ASSUME Init PROVE Inv
  OBVIOUS
<1> USE ChatAssumption DEF Init, NewRequest, NoJob, EmptyPage
<1>1. TypeOK
  BY DEF TypeOK, JobRecord, JobPoint, Subscription, ReqRecord,
         RequestPoint, EnqueuePoint, Outcome, PageRecord
<1> QED
  BY <1>1 DEF Inv, RequestsNamed, AttemptsLeft, QuestionsStored,
         JobHasQuestion, StreamsOwned, NewAreClosed, StoredBefore,
         AnswersFound, SavedBeforeTold, ChatCalls

-----------------------------------------------------------------------------
(* What a step must leave of a request, of a job and of a subscription.    *)
RequestKept(q) ==
  /\ req'[q] \in ReqRecord
  /\ req'[q].pc = "new" <=> req[q].pc = "new"
  /\ req'[q].key = req[q].key /\ req'[q].question = req[q].question
  /\ req'[q].known \/ req'[q].pc = "add" => message'[req[q].key] # None
  /\ req'[q].pc \in {"recall", "remember"} => req[q].key \in answered'
  /\ req'[q].pc = "new" => ~req'[q].known
  /\ req'[q].memory \subseteq answered'
  /\ req'[q].outcome = "complete" => req[q].key \in answered'

JobKept(k) ==
  /\ job'[k] \in JobRecord
  /\ job'[k].state \in {"waiting", "active"} => job'[k].attempts < MaxAttempts
  /\ job'[k].state # "none" => message'[k] # None
  /\ \A r \in Streams :
       job'[k].stream = r => req[r].key = k /\ req[r].pc # "new"
  /\ job'[k].pc \in {"usage", "publish", "finish"} => k \in answered'
  /\ job'[k].pc \in {"publish", "finish"} => k \in usage'

(* A reader is told "complete" for a key whose usage is stored.            *)
ChannelKept(r) ==
  /\ channel'[r] \in Subscription
  /\ req[r].pc = "new" => channel'[r] = "closed"
  /\ channel'[r] = "complete" => req[r].key \in usage'

Bounds ==
  /\ spent \in [{"faults", "silent", "outages"} -> 0..MaxTroubles]
  /\ page \in PageRecord

(* Rows are added, never lost, and usage and memory are of answers.        *)
RowsGrow ==
  /\ message' \in [Keys -> Questions \cup {None}]
  /\ \A k \in Keys : message[k] # None => message'[k] # None
  /\ answered' \subseteq Keys /\ answered \subseteq answered'
  /\ usage' \subseteq answered' /\ usage \subseteq usage'
  /\ memory' \subseteq answered'

RequestsKept ==
  req' \in [ChatCalls -> ReqRecord] /\ \A q \in ChatCalls : RequestKept(q)

JobsKept == job' \in [Keys -> JobRecord] /\ \A k \in Keys : JobKept(k)

ChannelsKept ==
  /\ channel' \in [Streams -> Subscription]
  /\ \A r \in Streams : ChannelKept(r)

LEMMA KeptInv ==
  ASSUME Inv, Bounds', RowsGrow, RequestsKept, JobsKept, ChannelsKept
  PROVE  Inv'
<1> USE DEF RowsGrow, RequestsKept, JobsKept, ChannelsKept
<1>1. TypeOK'
  BY DEF Inv, TypeOK, Bounds
<1>2. RequestsNamed' /\ QuestionsStored' /\ AnswersFound'
  BY DEF Inv, RequestsNamed, QuestionsStored, AnswersFound, RequestKept
<1>3. AttemptsLeft' /\ JobHasQuestion' /\ StoredBefore'
  BY DEF AttemptsLeft, JobHasQuestion, StoredBefore, JobKept
<1>4. StreamsOwned' /\ NewAreClosed'
  BY DEF StreamsOwned, NewAreClosed, JobKept, RequestKept, ChannelKept, ChatCalls
<1>5. SavedBeforeTold'
  BY DEF SavedBeforeTold, RequestKept, ChannelKept, ChatCalls
<1> QED
  BY <1>1, <1>2, <1>3, <1>4, <1>5 DEF Inv

(* What a step does not touch is kept.                                     *)
LEMMA UnchangedKept ==
  ASSUME Inv, RowsGrow
  PROVE  /\ \A q \in ChatCalls : req'[q] = req[q] => RequestKept(q)
         /\ \A k \in Keys : job'[k] = job[k] => JobKept(k)
         /\ \A r \in Streams : channel'[r] = channel[r] => ChannelKept(r)
         /\ req' = req => RequestsKept
         /\ job' = job => JobsKept
         /\ channel' = channel => ChannelsKept
<1>1. \A q \in ChatCalls : req'[q] = req[q] => RequestKept(q)
  BY DEF RowsGrow, Inv, TypeOK, RequestsNamed, RequestKept, QuestionsStored,
         AnswersFound, SavedBeforeTold
<1>2. \A k \in Keys : job'[k] = job[k] => JobKept(k)
  BY DEF RowsGrow, Inv, TypeOK, JobKept, AttemptsLeft, JobHasQuestion,
         StoredBefore, StreamsOwned
<1>3. \A r \in Streams : channel'[r] = channel[r] => ChannelKept(r)
  BY DEF RowsGrow, Inv, TypeOK, ChannelKept, NewAreClosed, SavedBeforeTold
<1> QED
  BY <1>1, <1>2, <1>3 DEF Inv, TypeOK, RequestsKept, JobsKept, ChannelsKept

LEMMA SameRows ==
  ASSUME Inv, UNCHANGED <<message, answered, usage, memory>>
  PROVE  RowsGrow
BY DEF Inv, TypeOK, SavedBeforeTold, RowsGrow

-----------------------------------------------------------------------------
(* The Worker.                                                             *)

LEMMA NoJobProperties ==
  /\ NoJob \in JobRecord
  /\ NoJob.state = "none" /\ NoJob.pc = "start" /\ NoJob.stream \notin Streams
<1>1. None \notin Streams
  BY ChatAssumption DEF ChatCalls
<1> QED
  BY <1>1, ChatAssumption DEF NoJob, JobRecord, JobPoint

LEMMA NewJobProperties ==
  ASSUME NEW r \in Streams \cup {None}
  PROVE  LET added == [NoJob EXCEPT !.state = "waiting", !.stream = r]
         IN  /\ added \in JobRecord
             /\ added.state = "waiting" /\ added.pc = "start"
             /\ added.attempts = 0
             /\ added.stream = r
<1> DEFINE added == [NoJob EXCEPT !.state = "waiting", !.stream = r]
<1>1. NoJob \in JobRecord
  BY NoJobProperties
<1>2. added \in JobRecord
  BY <1>1 DEF JobRecord
<1>3. /\ added.state = "waiting" /\ added.stream = r
      /\ added.pc = NoJob.pc /\ added.attempts = NoJob.attempts
  BY <1>1 DEF JobRecord
<1>4. NoJob.pc = "start" /\ NoJob.attempts = 0
  BY DEF NoJob
<1> QED
  BY <1>2, <1>3, <1>4

LEMMA PublishKept ==
  ASSUME Inv, NEW k \in Keys, NEW event \in {"complete", "error"},
         Publish(job[k].stream, event), event = "complete" => k \in usage',
         RowsGrow
  PROVE  ChannelsKept
BY DEF Inv, Publish, TypeOK, Subscription, ChannelKept, NewAreClosed,
       StreamsOwned, SavedBeforeTold, RowsGrow, ChannelsKept

(* A job that one step of its handler changes.                             *)
LEMMA OneJob ==
  ASSUME Inv, NEW k \in Keys, NEW j, job' = [job EXCEPT ![k] = j], JobKept(k),
         RowsGrow
  PROVE  JobsKept
<1>1. \A l \in Keys : job'[l] = job[l] \/ l = k
  BY DEF Inv, TypeOK
<1>2. \A l \in Keys : JobKept(l)
  BY <1>1, UnchangedKept
<1> QED
  BY <1>2 DEF Inv, TypeOK, JobKept, JobsKept

(* An attempt that throws leaves the job waiting with an attempt left, or  *)
(* failed.                                                                 *)
LEMMA ThrownProperties ==
  ASSUME NEW j \in JobRecord, j.attempts < MaxAttempts
  PROVE  /\ Thrown(j) \in JobRecord
         /\ Thrown(j).state \in {"waiting", "failed"}
         /\ Thrown(j).state = "waiting" => Thrown(j).attempts < MaxAttempts
         /\ Thrown(j).stream = j.stream
         /\ Thrown(j).pc = "start"
<1>1. j.attempts + 1 \in 0..MaxAttempts
  BY ChatAssumption DEF JobRecord
<1>2. /\ Thrown(j).state = IF j.attempts + 1 < MaxAttempts THEN "waiting"
                           ELSE "failed"
      /\ Thrown(j).attempts = j.attempts + 1
      /\ Thrown(j).stream = j.stream
      /\ Thrown(j).pc = "start"
  BY DEF Thrown, JobRecord
<1>3. Thrown(j) \in JobRecord
  BY <1>1 DEF Thrown, JobRecord, JobPoint
<1> QED
  BY <1>2, <1>3

LEMMA ThrowKept ==
  ASSUME Inv, NEW k \in Keys, job[k].state \in {"waiting", "active"}, Throw(k),
         RowsGrow
  PROVE  JobsKept
<1>1. /\ job' = [job EXCEPT ![k] = Thrown(job[k])]
      /\ job'[k] = Thrown(job[k])
  BY DEF Throw, Inv, TypeOK
<1>2. job[k] \in JobRecord /\ job[k].attempts < MaxAttempts
  BY DEF Inv, TypeOK, AttemptsLeft
<1>3. JobKept(k)
  BY <1>1, <1>2, ThrownProperties
     DEF JobKept, Inv, JobHasQuestion, StreamsOwned, RowsGrow
<1> QED
  BY <1>1, <1>3, OneJob

LEMMA WorkerInv == ASSUME Inv, NEW k \in Keys, Worker(k) PROVE Inv'
<1> USE DEF Worker, rowVars
<1>1. Bounds'
  BY DEF execute, Take, Listen, Generate, Aborted, SaveAnswer, SaveUsage,
         PublishComplete, Finish, Inv, TypeOK, Bounds
<1>2. UNCHANGED req
  BY DEF execute, Take, Listen, Generate, Aborted, SaveAnswer, SaveUsage,
         PublishComplete, Finish
<1>3. RowsGrow
  BY DEF execute, Take, Listen, Generate, Aborted, SaveAnswer, SaveUsage,
         PublishComplete, Finish, WorkerAt, Inv, TypeOK, StoredBefore,
         SavedBeforeTold, RowsGrow
<1>4. ASSUME JobsKept, UNCHANGED channel \/ ChannelsKept
      PROVE  Inv'
  BY <1>1, <1>2, <1>3, <1>4, UnchangedKept, KeptInv
<1>5. job[k] \in JobRecord
  BY DEF Inv, TypeOK
<1>6. CASE Take(k)
  <2>1. CASE message[k] = None
    BY <1>3, <1>4, <1>6, <2>1, ThrowKept DEF Take
  <2>2. CASE message[k] # None
    <3>1. job' = [job EXCEPT ![k] = job'[k]]
      BY <1>6, <2>2 DEF Take, Inv, TypeOK
    <3>2. JobKept(k)
      BY <1>5, <1>6, <2>2 DEF Take, JobKept, Inv, TypeOK, JobRecord,
            JobPoint, AttemptsLeft, StreamsOwned
    <3> QED
      BY <1>3, <1>4, <1>6, <3>1, <3>2, OneJob DEF Take
  <2> QED
    BY <2>1, <2>2
<1>7. CASE Listen(k) \/ Generate(k)
  <2>1. job' = [job EXCEPT ![k] = job'[k]]
    BY <1>7 DEF Listen, Generate, Inv, TypeOK
  <2>2. JobKept(k)
    BY <1>5, <1>7 DEF Listen, Generate, WorkerAt, JobKept, Inv, TypeOK,
          JobRecord, JobPoint, AttemptsLeft, JobHasQuestion, StreamsOwned
  <2> QED
    BY <1>3, <1>4, <1>7, <2>1, <2>2, OneJob DEF Listen, Generate
<1>8. CASE Aborted(k)
  BY <1>3, <1>4, <1>8, ThrowKept, PublishKept DEF Aborted, WorkerAt
<1>9. CASE SaveAnswer(k) \/ SaveUsage(k)
  <2>1. job' = [job EXCEPT ![k] = job'[k]]
    BY <1>9 DEF SaveAnswer, SaveUsage, Step, Inv, TypeOK
  <2>2. JobKept(k)
    BY <1>5, <1>9 DEF SaveAnswer, SaveUsage, WorkerAt, Step, JobKept, Inv,
          TypeOK, JobRecord, JobPoint, AttemptsLeft, JobHasQuestion,
          StoredBefore, StreamsOwned
  <2> QED
    BY <1>3, <1>4, <1>9, <2>1, <2>2, OneJob DEF SaveAnswer, SaveUsage
<1>10. CASE PublishComplete(k)
  <2>1. job' = [job EXCEPT ![k] = job'[k]]
    BY <1>10 DEF PublishComplete, Step, Inv, TypeOK
  <2>2. JobKept(k)
    BY <1>5, <1>10 DEF PublishComplete, WorkerAt, Step, JobKept, Inv, TypeOK,
          JobRecord, JobPoint, AttemptsLeft, JobHasQuestion, StoredBefore,
          StreamsOwned
  <2>3. k \in usage'
    BY <1>10 DEF PublishComplete, WorkerAt, Inv, StoredBefore
  <2>4. ChannelsKept
    BY <1>3, <1>10, <2>3, PublishKept DEF PublishComplete
  <2> QED
    BY <1>3, <1>4, <2>1, <2>2, <2>4, OneJob
<1>11. CASE Finish(k)
  <2>1. job' = [job EXCEPT ![k] = NoJob] /\ job'[k] = NoJob
    BY <1>11 DEF Finish, Inv, TypeOK
  <2>2. JobKept(k)
    BY <2>1, NoJobProperties DEF JobKept
  <2> QED
    BY <1>3, <1>4, <1>11, <2>1, <2>2, OneJob DEF Finish
<1> QED
  BY <1>6, <1>7, <1>8, <1>9, <1>10, <1>11 DEF execute

-----------------------------------------------------------------------------
(* Requests.                                                               *)

(* One request moves on, by itself.                                        *)
LEMMA OneRequest ==
  ASSUME Inv, RowsGrow, NEW r \in ChatCalls, NEW rr,
         req' = [req EXCEPT ![r] = rr], RequestKept(r)
  PROVE  RequestsKept
<1>1. \A q \in ChatCalls : q # r => req'[q] = req[q]
  BY DEF Inv, TypeOK
<1>2. \A q \in ChatCalls : RequestKept(q)
  BY <1>1, UnchangedKept
<1> QED
  BY <1>2 DEF RequestKept, RequestsKept, Inv, TypeOK

(* The requests that end together are told what is so.                     *)
LEMMA EndKept ==
  ASSUME Inv, RowsGrow, NEW rs \in SUBSET ChatCalls, NEW outcome \in Outcome,
         \A q \in rs : req[q].pc # "new",
         outcome = "complete" => \A q \in rs : req[q].key \in answered,
         End(rs, outcome)
  PROVE  RequestsKept /\ ChannelsKept
<1>1. \A q \in ChatCalls \ rs : req'[q] = req[q]
  BY DEF End, Ended
<1>2. ASSUME NEW q \in rs
      PROVE  RequestKept(q)
  <2>1. /\ req'[q] = [req[q] EXCEPT !.pc = "done", !.outcome = outcome,
                                    !.memory = {}, !.known = FALSE]
        /\ req[q] \in ReqRecord
    BY DEF End, Ended, Inv, TypeOK
  <2>2. /\ req'[q].pc = "done" /\ req'[q].outcome = outcome
        /\ req'[q].memory = {} /\ req'[q].known = FALSE
        /\ req'[q].key = req[q].key /\ req'[q].question = req[q].question
    BY <2>1 DEF ReqRecord
  <2>3. req'[q] \in ReqRecord
    BY <2>1 DEF ReqRecord, RequestPoint
  <2> QED
    BY <2>2, <2>3 DEF RequestKept, RowsGrow
<1>3. \A q \in ChatCalls : RequestKept(q)
  BY <1>1, <1>2, UnchangedKept
<1>4. req' \in [ChatCalls -> ReqRecord]
  BY <1>3 DEF End, Ended, RequestKept
<1>5. ChannelsKept
  BY DEF End, Unsubscribed, Inv, TypeOK, Subscription, ChannelKept,
         NewAreClosed, SavedBeforeTold, RowsGrow, ChannelsKept
<1> QED
  BY <1>3, <1>4, <1>5 DEF RequestsKept

(* A request that learns its job or answer goes on to wait, with all those *)
(* that joined it.                                                         *)
LEMMA EnqueuedKept ==
  ASSUME Inv, RowsGrow, NEW r \in ChatCalls, Enqueued(r), req[r].pc # "new"
  PROVE  RequestsKept
<1>1. \A q \in ChatCalls : q \notin Joined(r) \cup {r} => req'[q] = req[q]
  BY DEF Enqueued
<1>2. ASSUME NEW q \in Joined(r) \cup {r}
      PROVE  RequestKept(q)
  <2>1. q \in ChatCalls /\ req[q].pc # "new" /\ req[q] \in ReqRecord
    BY DEF Joined, At, Inv, TypeOK
  <2>2. req'[q] = [req[q] EXCEPT !.pc = IF q \in Sends THEN "poll" ELSE "listen",
                                 !.known = FALSE]
    BY <2>1 DEF Enqueued
  <2>3. /\ req'[q].pc \in {"poll", "listen"} /\ req'[q].known = FALSE
        /\ req'[q].memory = req[q].memory /\ req'[q].outcome = req[q].outcome
        /\ req'[q].key = req[q].key /\ req'[q].question = req[q].question
    BY <2>1, <2>2 DEF ReqRecord
  <2>4. req'[q] \in ReqRecord
    BY <2>1, <2>2 DEF ReqRecord, RequestPoint
  <2> QED
    BY <2>1, <2>3, <2>4
       DEF RequestKept, Inv, AnswersFound, SavedBeforeTold, RowsGrow
<1>3. \A q \in ChatCalls : RequestKept(q)
  BY <1>1, <1>2, UnchangedKept
<1> QED
  BY <1>3 DEF Enqueued, RequestKept, RequestsKept

(* A request goes on to a point it may be at.                              *)
LEMMA GotoKept ==
  ASSUME Inv, RowsGrow, NEW r \in ChatCalls, NEW pc \in RequestPoint \ {"new"},
         Goto(r, pc), req[r].pc # "new",
         pc = "add" => message'[req[r].key] # None,
         pc \in {"recall", "remember"} => req[r].key \in answered
  PROVE  RequestsKept
<1>1. req' = [req EXCEPT ![r] = req'[r]] /\ req[r] \in ReqRecord
  BY DEF Goto, Inv, TypeOK
<1>2. req[r].known => message'[req[r].key] # None
  BY DEF Inv, RequestsNamed, QuestionsStored, RowsGrow
<1>3. RequestKept(r)
  BY <1>1, <1>2 DEF Goto, RequestKept, ReqRecord, Inv, TypeOK, AnswersFound,
        SavedBeforeTold, RowsGrow
<1> QED
  BY <1>1, <1>3, OneRequest

(* send, stream, up to the job.                                            *)
LEMMA EnqueueInv ==
  ASSUME Inv, NEW r \in ChatCalls, UNCHANGED page, enqueueOnce(r)
  PROVE  Inv'
<1> USE DEF rowVars, RequestPoint, EnqueuePoint
<1>1. Bounds' /\ UNCHANGED <<answered, usage, memory, channel>>
  BY DEF enqueueOnce, findUser, findAnswer, getJob, saveMessage, addJob,
         Inv, TypeOK, Bounds
<1>2. /\ req[r] \in ReqRecord /\ req[r].pc # "new"
      /\ req[r].key \in Keys /\ req[r].question \in Questions
  BY DEF enqueueOnce, findUser, findAnswer, getJob, saveMessage, addJob, At,
         Inv, TypeOK, RequestsNamed
<1>3. RowsGrow
  BY <1>2 DEF enqueueOnce, findUser, findAnswer, getJob, saveMessage, addJob,
              Inv, TypeOK, SavedBeforeTold, RowsGrow
<1>4. ASSUME RequestsKept, UNCHANGED job \/ JobsKept
      PROVE  Inv'
  BY <1>1, <1>3, <1>4, UnchangedKept, KeptInv
<1>5. CASE findUser(r)
  <2>1. req' = [req EXCEPT ![r] = req'[r]] /\ UNCHANGED <<message, job>>
    BY <1>5 DEF findUser, Inv, TypeOK
  <2>2. RequestKept(r)
    BY <1>2, <1>3, <1>5 DEF findUser, RequestKept, ReqRecord, Inv, TypeOK,
          AnswersFound, SavedBeforeTold, RowsGrow
  <2> QED
    BY <1>3, <1>4, <2>1, <2>2, OneRequest
<1>6. CASE findAnswer(r)
  BY <1>2, <1>3, <1>4, <1>6, EnqueuedKept, GotoKept DEF findAnswer
<1>7. CASE getJob(r)
  <2>1. req[r].known => message'[req[r].key] # None
    BY <1>2, <1>3 DEF Inv, QuestionsStored, RowsGrow
  <2>2. \/ Enqueued(r)
        \/ Goto(r, "add") /\ req[r].known
        \/ Goto(r, "save")
    BY <1>7 DEF getJob
  <2> QED
    BY <1>2, <1>3, <1>4, <1>7, <2>1, <2>2, EnqueuedKept, GotoKept DEF getJob
<1>8. CASE saveMessage(r)
  <2>1. message'[req[r].key] # None
    BY <1>2, <1>8, ChatAssumption DEF saveMessage, Inv, TypeOK
  <2> QED
    BY <1>2, <1>3, <1>4, <1>8, <2>1, GotoKept DEF saveMessage
<1>9. CASE addJob(r)
  <2> DEFINE k == req[r].key
             added == [NoJob EXCEPT !.state = "waiting",
                                    !.stream = IF r \in Streams THEN r ELSE None]
  <2>1. job' = [job EXCEPT ![k] = job'[k]]
        /\ (job'[k] = job[k] \/ job'[k] = added)
    BY <1>2, <1>9 DEF addJob, Inv, TypeOK
  <2>2. message'[k] # None
    BY <1>9, <1>3, <1>2 DEF addJob, At, Inv, QuestionsStored, RowsGrow
  <2>3. /\ added \in JobRecord
        /\ added.state = "waiting" /\ added.pc = "start"
        /\ added.attempts = 0
        /\ added.stream = IF r \in Streams THEN r ELSE None
    <3>1. (IF r \in Streams THEN r ELSE None) \in Streams \cup {None}
      OBVIOUS
    <3> QED
      BY <3>1, NewJobProperties
  <2>4. job'[k] = added => JobKept(k)
    <3>1. \A s \in Streams : added.stream = s => s = r
      BY <2>3, ChatAssumption DEF ChatCalls
    <3> HIDE DEF added
    <3> QED
      BY <1>2, <2>2, <2>3, <3>1, ChatAssumption DEF JobKept
  <2>5. JobsKept
    BY <1>2, <1>3, <2>1, <2>4, OneJob, UnchangedKept
  <2>6. RequestsKept
    BY <1>2, <1>3, <1>9, EnqueuedKept DEF addJob
  <2> QED
    BY <1>4, <2>5, <2>6
<1> QED
  BY <1>5, <1>6, <1>7, <1>8, <1>9 DEF enqueueOnce

(* Those who share a send have its key.                                    *)
LEMMA SharersProperties ==
  ASSUME NEW rs \in SUBSET ChatCalls, \A q \in rs : req[q].pc # "new"
  PROVE  /\ WithSharers(rs) \in SUBSET ChatCalls
         /\ \A q \in WithSharers(rs) : req[q].pc # "new"
         /\ \A q \in WithSharers(rs) : \E p \in rs : req[q].key = req[p].key
BY DEF WithSharers, Shared, At, ChatCalls

(* Polling, reading events, and updating the memory.                       *)
LEMMA WaitInv ==
  ASSUME Inv, NEW r \in ChatCalls, UNCHANGED page,
         waitForResponse(r) \/ readEvent(r) \/ updateMemory(r)
  PROVE  Inv'
<1> USE DEF rowVars
<1>1. Bounds' /\ UNCHANGED <<message, answered, usage, job>>
  BY DEF waitForResponse, readEvent, updateMemory, Inv, TypeOK, Bounds
<1>2. /\ req[r] \in ReqRecord /\ req[r].pc # "new" /\ req[r].key \in Keys
  BY DEF waitForResponse, readEvent, updateMemory, At, Inv, TypeOK,
         RequestsNamed
<1>3. RowsGrow
  BY <1>1 DEF waitForResponse, readEvent, updateMemory, At, Inv, TypeOK,
         SavedBeforeTold, AnswersFound, RowsGrow
<1>4. ASSUME RequestsKept, UNCHANGED channel \/ ChannelsKept
      PROVE  Inv'
  BY <1>1, <1>3, <1>4, UnchangedKept, KeptInv
<1>5. CASE waitForResponse(r)
  <2>1. CASE End(WithSharers({r}), "error")
    <3>1. /\ WithSharers({r}) \in SUBSET ChatCalls
          /\ \A q \in WithSharers({r}) : req[q].pc # "new"
      BY <1>2, SharersProperties
    <3> QED
      BY <1>3, <1>4, <2>1, <3>1, EndKept DEF Outcome
  <2>2. ASSUME NEW pc \in {"recall", "status", "poll"}, Goto(r, pc),
               pc = "recall" => req[r].key \in answered, UNCHANGED channel
        PROVE  Inv'
    BY <1>2, <1>3, <1>4, <2>2, GotoKept DEF RequestPoint
  <2>3. \/ End(WithSharers({r}), "error")
        \/ UNCHANGED channel /\ Goto(r, "poll")
        \/ UNCHANGED channel /\ Goto(r, "status")
        \/ UNCHANGED channel /\ Goto(r, "recall") /\ req[r].key \in answered
    BY <1>5 DEF waitForResponse
  <2> QED
    BY <2>1, <2>2, <2>3
<1>6. CASE readEvent(r)
  <2>1. CASE channel[r] = "complete" /\ Goto(r, "recall") /\ UNCHANGED channel
    <3>1. req[r].key \in answered
      BY <1>6, <2>1 DEF readEvent, Inv, SavedBeforeTold
    <3> QED
      BY <1>2, <1>3, <1>4, <2>1, <3>1, GotoKept DEF RequestPoint
  <2>2. CASE End({r}, "error") \/ End({r}, "gone")
    BY <1>2, <1>3, <1>4, <2>2, EndKept DEF Outcome
  <2> QED
    BY <1>6, <2>1, <2>2 DEF readEvent
<1>7. CASE updateMemory(r)
  <2>1. CASE At(r, "recall")
    <3>1. /\ req' = [req EXCEPT ![r] = req'[r]] /\ UNCHANGED channel
      BY <1>7, <2>1 DEF updateMemory, At, Inv, TypeOK
    <3>2. req'[r] = [req[r] EXCEPT !.pc = "remember", !.memory = memory]
      BY <1>7, <2>1 DEF updateMemory, At, Inv, TypeOK
    <3>3. /\ req'[r].pc = "remember" /\ req'[r].memory = memory
          /\ req'[r].key = req[r].key /\ req'[r].question = req[r].question
          /\ req'[r].known = req[r].known
          /\ req'[r].outcome = req[r].outcome
      BY <1>2, <3>2 DEF ReqRecord
    <3>4. req'[r] \in ReqRecord
      BY <1>2, <3>2 DEF ReqRecord, RequestPoint, Inv, TypeOK
    <3>5. /\ req[r].known => message'[req[r].key] # None
          /\ memory \subseteq answered' /\ req[r].key \in answered'
      BY <1>1, <1>2, <2>1 DEF At, Inv, QuestionsStored, AnswersFound,
            SavedBeforeTold
    <3>6. RequestKept(r)
      BY <1>1, <1>2, <3>3, <3>4, <3>5 DEF RequestKept
    <3> QED
      BY <1>3, <1>4, <3>1, <3>6, OneRequest
  <2>2. CASE At(r, "remember")
    <3> DEFINE rs == IF r \in Sends THEN WithSharers({r}) ELSE {r}
    <3>1. req[r].key \in answered
      BY <2>2 DEF At, Inv, AnswersFound
    <3>2. /\ rs \in SUBSET ChatCalls /\ \A q \in rs : req[q].pc # "new"
          /\ \A q \in rs : req[q].key = req[r].key
      BY <1>2, SharersProperties
    <3>3. End(rs, "complete")
      BY <1>7, <2>2 DEF updateMemory, At
    <3> HIDE DEF rs
    <3> QED
      BY <1>3, <1>4, <3>1, <3>2, <3>3, EndKept DEF Outcome
  <2> QED
    BY <1>7, <2>1, <2>2 DEF updateMemory
<1> QED
  BY <1>5, <1>6, <1>7

-----------------------------------------------------------------------------
(* What clients and the environment do.                                    *)

LEMMA TroubleBounds ==
  ASSUME Inv, NEW kind \in {"faults", "silent", "outages"}, Trouble(kind),
         UNCHANGED page
  PROVE  Bounds'
<1> DEFINE Kinds == {"faults", "silent", "outages"}
<1>1. /\ spent \in [Kinds -> 0..MaxTroubles] /\ MaxTroubles \in Nat
      /\ \A x \in Kinds : spent[x] \in 0..MaxTroubles
  BY ChatAssumption DEF Inv, TypeOK
<1>2. spent["faults"] + spent["silent"] + spent["outages"] < MaxTroubles
  BY DEF Trouble
<1>3. spent[kind] + 1 \in 0..MaxTroubles
  BY <1>1, <1>2
<1>4. spent' \in [Kinds -> 0..MaxTroubles]
  BY <1>1, <1>3 DEF Trouble
<1> QED
  BY <1>4 DEF Bounds, Inv, TypeOK

LEMMA EnvironmentInv == ASSUME Inv, Environment PROVE Inv'
<1> USE DEF Environment, rowVars
<1>1. ASSUME Bounds', RowsGrow, RequestsKept \/ UNCHANGED req,
             JobsKept \/ UNCHANGED job, ChannelsKept \/ UNCHANGED channel
      PROVE  Inv'
  BY <1>1, UnchangedKept, KeptInv
<1>2. ASSUME NEW rs \in SUBSET ChatCalls, NEW outcome \in {"error", "lost"},
             End(rs, outcome), \A q \in rs : req[q].pc # "new",
             UNCHANGED <<message, answered, usage, memory, job>>, Bounds'
      PROVE  Inv'
  BY <1>1, <1>2, SameRows, EndKept DEF Outcome
<1>3. ASSUME NEW r \in ChatCalls, Timeout(r)
      PROVE  Inv'
  <2>1. r \in ChatCalls /\ req[r].pc # "new" /\ Bounds'
    BY <1>3 DEF Timeout, Inv, TypeOK, Bounds
  <2>2. /\ WithSharers({r}) \in SUBSET ChatCalls
        /\ \A q \in WithSharers({r}) : req[q].pc # "new"
    BY <2>1, SharersProperties
  <2> QED
    BY <1>2, <1>3, <2>1, <2>2 DEF Timeout
<1>4. ASSUME NEW r \in ChatCalls, Refused(r)
      PROVE  Inv'
  <2> DEFINE rs == {r} \cup (IF req[r].pc \in EnqueuePoint THEN Joined(r) ELSE {})
  <2>1. req[r].pc # "new" /\ Bounds'
    BY <1>4, TroubleBounds DEF Refused, EnqueuePoint
  <2>2. rs \in SUBSET ChatCalls /\ \A q \in rs : req[q].pc # "new"
    BY <2>1 DEF Joined, At
  <2>3. /\ WithSharers(rs) \in SUBSET ChatCalls
        /\ \A q \in WithSharers(rs) : req[q].pc # "new"
    BY <2>2, SharersProperties
  <2>4. End(WithSharers(rs), "error")
    BY <1>4 DEF Refused
  <2> HIDE DEF rs
  <2> QED
    BY <1>2, <1>4, <2>1, <2>3, <2>4 DEF Refused
<1>5. CASE ApiCrash
  BY <1>2, <1>5, TroubleBounds DEF ApiCrash
<1>6. ASSUME NEW k \in Keys, ProviderFails(k) \/ FailsSilently(k)
      PROVE  Inv'
  <2>1. Bounds' /\ RowsGrow /\ UNCHANGED req
    BY <1>6, TroubleBounds, SameRows DEF ProviderFails, FailsSilently
  <2>2. JobsKept
    BY <1>6, <2>1, ThrowKept DEF ProviderFails, FailsSilently, WorkerAt
  <2>3. ChannelsKept \/ UNCHANGED channel
    BY <1>6, <2>1, PublishKept DEF ProviderFails, FailsSilently
  <2> QED
    BY <1>1, <2>1, <2>2, <2>3
<1>7. ASSUME NEW k \in Keys, WorkerCrash(k)
      PROVE  Inv'
  <2>1. Bounds' /\ RowsGrow /\ UNCHANGED <<req, channel>>
    BY <1>7, TroubleBounds, SameRows DEF WorkerCrash
  <2>2. /\ job[k] \in JobRecord /\ job[k].attempts < MaxAttempts
        /\ job' = [job EXCEPT ![k] = job'[k]]
        /\ job'[k] = [job[k] EXCEPT !.state = "waiting", !.pc = "start",
                                    !.listening = FALSE, !.aborted = FALSE]
    BY <1>7 DEF WorkerCrash, Inv, TypeOK, AttemptsLeft
  <2>3. /\ job'[k].state = "waiting" /\ job'[k].pc = "start"
        /\ job'[k].attempts = job[k].attempts /\ job'[k].stream = job[k].stream
    BY <2>2 DEF JobRecord
  <2>4. job'[k] \in JobRecord
    BY <2>2 DEF JobRecord, JobPoint
  <2>5. message'[k] # None
    BY <1>7, <2>1 DEF WorkerCrash, Inv, JobHasQuestion, RowsGrow
  <2>6. JobKept(k)
    BY <2>2, <2>3, <2>4, <2>5 DEF JobKept, Inv, StreamsOwned
  <2> QED
    BY <1>1, <2>1, <2>2, <2>6, OneJob
<1> QED
  BY <1>3, <1>4, <1>5, <1>6, <1>7

(* A request is received; a stream has subscribed before.                  *)
LEMMA ReceivedInv ==
  ASSUME Inv, NEW r \in ChatCalls, NEW k \in Keys, NEW q \in Questions,
         NEW pc \in {"findUser", "joined", "shared"},
         At(r, "new"), Received(r, k, q, pc), Bounds',
         IF r \in Streams THEN channel' = [channel EXCEPT ![r] = "open"]
         ELSE UNCHANGED channel,
         UNCHANGED <<message, answered, usage, memory, job>>
  PROVE  Inv'
<1> DEFINE new == [NewRequest EXCEPT !.pc = pc, !.key = k, !.question = q]
<1>1. /\ NewRequest \in ReqRecord
      /\ ~NewRequest.known /\ NewRequest.memory = {}
      /\ NewRequest.outcome = "none"
  BY DEF NewRequest, ReqRecord, RequestPoint, Outcome
<1>2. /\ new.pc = pc /\ new.key = k /\ new.question = q
      /\ ~new.known /\ new.memory = {} /\ new.outcome = "none"
  BY <1>1 DEF ReqRecord
<1>3. new \in ReqRecord
  BY <1>1 DEF ReqRecord, RequestPoint, EnqueuePoint
<1> HIDE DEF new
<1>4. /\ req' \in [ChatCalls -> ReqRecord] /\ req'[r] = new
      /\ \A s \in ChatCalls : s # r => req'[s] = req[s]
  BY <1>3 DEF Received, Inv, TypeOK, new
<1>5. /\ channel' \in [Streams -> Subscription]
      /\ \A s \in Streams : IF s = r THEN channel'[s] = "open"
                            ELSE channel'[s] = channel[s]
  BY DEF Inv, TypeOK, Subscription
<1>6. TypeOK'
  BY <1>4, <1>5 DEF Inv, TypeOK, Bounds
<1>7. RequestsNamed' /\ QuestionsStored' /\ AnswersFound'
  BY <1>2, <1>4 DEF Inv, RequestsNamed, QuestionsStored, AnswersFound
<1>8. AttemptsLeft' /\ JobHasQuestion' /\ StoredBefore'
  BY DEF Inv, AttemptsLeft, JobHasQuestion, StoredBefore
<1>9. StreamsOwned' /\ NewAreClosed'
  BY <1>2, <1>4, <1>5 DEF Inv, StreamsOwned, NewAreClosed, At, ChatCalls
<1>10. SavedBeforeTold'
  BY <1>2, <1>4, <1>5 DEF Inv, SavedBeforeTold, ChatCalls
<1> QED
  BY <1>6, <1>7, <1>8, <1>9, <1>10 DEF Inv

LEMMA OtherClientInv == ASSUME Inv, OtherClient PROVE Inv'
<1>1. PICK k \in Keys, q \in Questions :
        LET r == CHOOSE s \in Sends : At(s, "new") IN send(r, k, q)
  BY DEF OtherClient
<1> DEFINE r == CHOOSE s \in Sends : At(s, "new")
<1>2. r \in Sends /\ At(r, "new") /\ send(r, k, q)
  BY <1>1 DEF send
<1>3. r \in ChatCalls /\ r \notin Streams
  BY <1>2, ChatAssumption DEF ChatCalls
<1>4. Bounds'
  BY <1>2 DEF OtherClient, send, Inv, TypeOK, Bounds
<1>5. \E pc \in {"findUser", "joined", "shared"} : Received(r, k, q, pc)
  BY <1>2 DEF send, Entry
<1> HIDE DEF r
<1> QED
  BY <1>2, <1>3, <1>4, <1>5, ReceivedInv DEF send, rowVars

LEMMA SubmitInv == ASSUME Inv, NEW q \in Questions, Submit(q) PROVE Inv'
<1>1. PICK k \in IF page.key # None THEN {page.key} ELSE FreshKeys :
        LET r == CHOOSE s \in Unsent : TRUE
        IN  /\ stream(r, k, q)
            /\ page' = [prompt |-> q, key |-> k, error |-> FALSE, stream |-> r]
  BY DEF Submit
<1> DEFINE r == CHOOSE s \in Unsent : TRUE
<1>2. k \in Keys
  <2>1. page.key \in Keys \cup {None}
    BY DEF Inv, TypeOK, PageRecord
  <2> QED
    BY <2>1 DEF FreshKeys
<1>3. /\ r \in Streams /\ At(r, "new") /\ stream(r, k, q)
      /\ page' = [prompt |-> q, key |-> k, error |-> FALSE, stream |-> r]
  BY <1>1 DEF stream
<1>4. r \in ChatCalls
  BY <1>3 DEF ChatCalls
<1> HIDE DEF r
<1>5. Bounds'
  BY <1>2, <1>3 DEF stream, Inv, TypeOK, Bounds, PageRecord
<1>6. \E pc \in {"findUser", "joined", "shared"} : Received(r, k, q, pc)
  BY <1>3 DEF stream, Entry
<1> QED
  BY <1>2, <1>3, <1>4, <1>5, <1>6, ReceivedInv DEF stream, rowVars

(* A stream that is given up is closed, and its worker told.               *)
LEMMA AbortInv ==
  ASSUME Inv, NEW r \in Streams, abort(r), page' \in PageRecord
  PROVE  Inv'
<1>1. Bounds' /\ RowsGrow /\ UNCHANGED <<req, usage>>
  BY SameRows DEF abort, rowVars, Inv, TypeOK, Bounds
<1>2. ASSUME NEW k \in Keys
      PROVE  JobKept(k)
  <2>1. CASE job'[k] = job[k]
    BY <1>1, <2>1, UnchangedKept
  <2>2. CASE job'[k] = [job[k] EXCEPT !.aborted = TRUE]
    <3>1. job[k] \in JobRecord
      BY DEF Inv, TypeOK
    <3>2. /\ job'[k] \in JobRecord
          /\ job'[k].state = job[k].state /\ job'[k].pc = job[k].pc
          /\ job'[k].attempts = job[k].attempts
          /\ job'[k].stream = job[k].stream
      BY <2>2, <3>1 DEF JobRecord
    <3> QED
      BY <1>1, <3>2 DEF JobKept, Inv, AttemptsLeft, JobHasQuestion,
            StoredBefore, StreamsOwned, RowsGrow
  <2> QED
    BY <2>1, <2>2 DEF abort
<1>3. JobsKept
  <2>1. job' = [k \in Keys |-> job'[k]]
    BY DEF abort
  <2> QED
    BY <1>2, <2>1 DEF JobsKept, JobKept
<1>4. ChannelsKept
  BY <1>1 DEF abort, Inv, TypeOK, Subscription, ChannelsKept, ChannelKept,
         NewAreClosed, SavedBeforeTold
<1> QED
  BY <1>1, <1>3, <1>4, UnchangedKept, KeptInv

LEMMA PageInv == ASSUME Inv, PageStep PROVE Inv'
<1>1. /\ page \in PageRecord /\ EmptyPage \in PageRecord
      /\ page.stream # None => page.stream \in Streams
  BY DEF Inv, TypeOK, PageRecord, EmptyPage
<1>2. CASE Ask
  BY <1>2, SubmitInv DEF Ask
<1>3. CASE Retry
  <2>1. page.prompt \in Questions
    BY <1>1, <1>3 DEF Retry, PageRecord
  <2> QED
    BY <1>3, <2>1, SubmitInv DEF Retry
<1>4. CASE StreamEnds \/ ConnectionLost
  <2>1. page' \in PageRecord /\ UNCHANGED apiVars
    BY <1>1, <1>4 DEF StreamEnds, ConnectionLost, PageRecord
  <2>2. Bounds' /\ RowsGrow
    BY <2>1, SameRows DEF apiVars, Inv, TypeOK, Bounds
  <2> QED
    BY <2>1, <2>2, UnchangedKept, KeptInv DEF apiVars
<1>5. CASE Cancel \/ OpenSession
  <2>1. page' \in PageRecord /\ page.stream \in Streams /\ abort(page.stream)
    BY <1>1, <1>5 DEF Cancel, OpenSession, PageRecord
  <2> QED
    BY <2>1, AbortInv
<1> QED
  BY <1>2, <1>3, <1>4, <1>5 DEF PageStep

(* Every step of the chat keeps the invariant.                             *)
LEMMA NextInv == Inv /\ [Next]_vars => Inv'
<1> SUFFICES ASSUME Inv, [Next]_vars PROVE Inv'
  OBVIOUS
<1>1. CASE UNCHANGED vars
  <2>1. Bounds' /\ RowsGrow
    BY <1>1, SameRows DEF vars, apiVars, Inv, TypeOK, Bounds
  <2> QED
    BY <1>1, <2>1, UnchangedKept, KeptInv DEF vars, apiVars
<1>2. ASSUME NEW r \in ChatCalls, Request(r)
      PROVE  Inv'
  BY <1>2, EnqueueInv, WaitInv DEF Request, RequestStep
<1> QED
  BY <1>1, <1>2, PageInv, OtherClientInv, WorkerInv, EnvironmentInv DEF Next

LEMMA AlwaysInv == Spec => []Inv
BY InitInv, NextInv, PTL DEF Spec

-----------------------------------------------------------------------------
(* A settled key: what a step of each kind does to it.                     *)

Looking == {"getJob", "save", "add"}

(* A step keeps k settled when it deletes no answer, makes no job of k, and*)
(* brings no request for k to one of the points between both looks.        *)
LEMMA KeepsSettled ==
  ASSUME NEW k \in Keys, Settled(k), answered \subseteq answered',
         job'[k] = job[k] \/ job'[k].state = "none",
         \A r \in ChatCalls :
           req'[r].key = k => req'[r] = req[r] \/ req'[r].pc \notin Looking
  PROVE  Settled(k)'
BY DEF Settled, Looking

LEMMA EndOutside ==
  ASSUME Inv, NEW rs, NEW outcome, End(rs, outcome), NEW r \in ChatCalls
  PROVE  req'[r] = req[r] \/ req'[r].pc \notin Looking
BY DEF End, Ended, Looking, Inv, TypeOK, ReqRecord

LEMMA EnqueuedOutside ==
  ASSUME Inv, NEW q \in ChatCalls, Enqueued(q), NEW r \in ChatCalls
  PROVE  req'[r] = req[r] \/ req'[r].pc \notin Looking
BY DEF Enqueued, Looking, Inv, TypeOK, ReqRecord

LEMMA RequestSettled ==
  ASSUME Inv, NEW k \in Keys, Settled(k), NEW q \in ChatCalls, RequestStep(q)
  PROVE  Settled(k)'
<1> USE DEF rowVars
<1>1. answered' = answered
  BY DEF RequestStep, enqueueOnce, findUser, findAnswer, getJob, saveMessage,
         addJob, waitForResponse, readEvent, updateMemory
<1>2. req[q].key = k => req[q].pc \notin Looking
  BY DEF Settled, Looking
<1>3. job'[k] = job[k]
  BY <1>2 DEF RequestStep, enqueueOnce, findUser, findAnswer, getJob,
         saveMessage, addJob, At, waitForResponse, readEvent, updateMemory,
         Looking, Inv, TypeOK
<1>4. ASSUME NEW pc, Goto(q, pc), req[q].key = k => pc \notin Looking,
             NEW r \in ChatCalls, req'[r].key = k
      PROVE  req'[r] = req[r] \/ req'[r].pc \notin Looking
  BY <1>4 DEF Goto, Inv, TypeOK, ReqRecord
<1>5. ASSUME NEW r \in ChatCalls, req'[r].key = k
      PROVE  req'[r] = req[r] \/ req'[r].pc \notin Looking
  <2>1. CASE enqueueOnce(q)
    <3>1. CASE findUser(q)
      BY <1>5, <3>1 DEF findUser, Inv, TypeOK, ReqRecord, Looking
    <3>2. CASE findAnswer(q)
      BY <1>4, <1>5, <3>2, EnqueuedOutside DEF findAnswer, Settled
    <3>3. CASE getJob(q) \/ saveMessage(q) \/ addJob(q)
      <4>1. req[q].key # k
        BY <1>2, <3>3 DEF getJob, saveMessage, addJob, At, Looking
      <4> QED
        BY <1>4, <1>5, <3>3, <4>1, EnqueuedOutside
           DEF getJob, saveMessage, addJob
    <3> QED
      BY <2>1, <3>1, <3>2, <3>3 DEF enqueueOnce
  <2>2. CASE waitForResponse(q) \/ readEvent(q)
    BY <1>4, <1>5, <2>2, EndOutside DEF waitForResponse, readEvent, Looking
  <2>3. CASE updateMemory(q)
    <3>1. CASE req' = [req EXCEPT ![q].pc = "remember", ![q].memory = memory]
      BY <3>1 DEF Inv, TypeOK, ReqRecord, Looking
    <3> QED
      BY <1>5, <2>3, <3>1, EndOutside DEF updateMemory
  <2> QED
    BY <2>1, <2>2, <2>3 DEF RequestStep
<1> QED
  BY <1>1, <1>3, <1>5, KeepsSettled

LEMMA ReceivedOutside ==
  ASSUME Inv, NEW q \in ChatCalls, NEW k, NEW x,
         NEW pc \in {"findUser", "joined", "shared"}, Received(q, k, x, pc),
         NEW r \in ChatCalls
  PROVE  req'[r] = req[r] \/ req'[r].pc \notin Looking
<1>1. NewRequest \in ReqRecord
  BY DEF NewRequest, ReqRecord, RequestPoint, Outcome
<1>2. [NewRequest EXCEPT !.pc = pc, !.key = k, !.question = x].pc = pc
  BY <1>1 DEF ReqRecord
<1> QED
  BY <1>2 DEF Received, Looking, Inv, TypeOK

LEMMA ClientSettled ==
  ASSUME Inv, NEW k \in Keys, Settled(k), OtherClient \/ PageStep
  PROVE  Settled(k)'
<1> USE DEF rowVars, apiVars
<1>1. \/ \E r \in ChatCalls, l \in Keys, q \in Questions : send(r, l, q)
      \/ \E r \in ChatCalls : \E l, q : stream(r, l, q)
      \/ \E r \in Streams : abort(r)
      \/ UNCHANGED apiVars
  <2>1. CASE OtherClient
    BY <2>1 DEF OtherClient, send, ChatCalls
  <2>2. ASSUME NEW q, Submit(q)
        PROVE  \E r \in ChatCalls : \E l : stream(r, l, q)
    BY <2>2 DEF Submit, stream, ChatCalls
  <2>3. CASE Ask \/ Retry
    BY <2>2, <2>3 DEF Ask, Retry
  <2>4. CASE StreamEnds \/ ConnectionLost \/ Cancel \/ OpenSession
    BY <2>4 DEF StreamEnds, ConnectionLost, Cancel, OpenSession, abort
  <2> QED
    BY <2>1, <2>3, <2>4 DEF PageStep
<1>2. ASSUME NEW q \in ChatCalls, NEW l, NEW x, send(q, l, x) \/ stream(q, l, x)
      PROVE  Settled(k)'
  <2>1. \E pc \in {"findUser", "joined", "shared"} : Received(q, l, x, pc)
    BY <1>2 DEF send, stream, Entry
  <2> QED
    BY <1>2, <2>1, ReceivedOutside, KeepsSettled DEF send, stream
<1>3. ASSUME NEW r \in Streams, abort(r)
      PROVE  Settled(k)'
  BY <1>3, KeepsSettled DEF abort, Inv, TypeOK, JobRecord, Settled
<1>4. CASE UNCHANGED apiVars
  BY <1>4, KeepsSettled
<1> QED
  BY <1>1, <1>2, <1>3, <1>4

LEMMA WorkerSettled ==
  ASSUME Inv, NEW k \in Keys, Settled(k), NEW l \in Keys, execute(l)
  PROVE  Settled(k)'
<1>1. /\ answered \subseteq answered' /\ UNCHANGED req
      /\ job[l].state # "none"
      /\ \A j \in Keys : j # l => job'[j] = job[j]
  BY DEF execute, Take, Listen, Generate, Aborted, SaveAnswer, SaveUsage,
         PublishComplete, Finish, WorkerAt, Throw, Step, Inv, TypeOK, rowVars
<1> QED
  BY <1>1, KeepsSettled DEF Settled

LEMMA EnvironmentSettled ==
  ASSUME Inv, NEW k \in Keys, Settled(k), Environment
  PROVE  Settled(k)'
<1>1. answered' = answered
  BY DEF Environment, Timeout, Refused, ApiCrash, ProviderFails, FailsSilently,
         WorkerCrash, rowVars
<1>2. job'[k] = job[k]
  BY DEF Environment, Timeout, Refused, ApiCrash, ProviderFails, FailsSilently,
         WorkerCrash, WorkerAt, Throw, Settled, Inv, TypeOK
<1>3. ASSUME NEW r \in ChatCalls
      PROVE  req'[r] = req[r] \/ req'[r].pc \notin Looking
  BY <1>3, EndOutside DEF Environment, Timeout, Refused, ApiCrash,
         ProviderFails, FailsSilently, WorkerCrash
<1> QED
  BY <1>1, <1>2, <1>3, KeepsSettled

LEMMA StepSettled ==
  Inv /\ [Next]_vars => [\A k \in Keys : Settled(k) => Settled(k)']_vars
<1> SUFFICES ASSUME Inv, Next, NEW k \in Keys, Settled(k)
             PROVE  Settled(k)'
  OBVIOUS
<1> QED
  BY RequestSettled, ClientSettled, WorkerSettled, EnvironmentSettled
     DEF Next, Request, Worker

-----------------------------------------------------------------------------
(* Types; a job is never attempted more often than configured.             *)
THEOREM ChatTypeOK == Spec => []TypeOK
<1>1. Inv => TypeOK
  BY DEF Inv
<1> QED
  BY <1>1, AlwaysInv, PTL

(* Nobody is told of an answer that is not stored, whatever the order of   *)
(* attempts, redeliveries, requests and deaths.                            *)
THEOREM ChatSavedBeforeTold == Spec => []SavedBeforeTold
<1>1. Inv => SavedBeforeTold
  BY DEF Inv
<1> QED
  BY <1>1, AlwaysInv, PTL

(* The question of a job is stored for as long as there is the job.        *)
THEOREM ChatJobHasQuestion == Spec => []JobHasQuestion
<1>1. Inv => JobHasQuestion
  BY DEF Inv
<1> QED
  BY <1>1, AlwaysInv, PTL

(* What is answered is not generated again, however often it is asked.     *)
THEOREM ChatStaysSettled == Spec => StaysSettled
BY AlwaysInv, StepSettled, PTL DEF Spec, StaysSettled
=============================================================================
