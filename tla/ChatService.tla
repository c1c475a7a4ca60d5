----------------------------- MODULE ChatService -----------------------------
(***************************************************************************)
(* The API side of the project chat: ChatService, ChatStreamingService and *)
(* ChatStreamBrokerService, one action per await, for every request in     *)
(* flight of one chat session.  Requests carry an idempotency key; one     *)
(* without a key is a request with a key nobody else uses.                 *)
(*                                                                         *)
(* A text is the question it answers or asks; tokens of a stream, history, *)
(* context and language of a job are left out.                             *)
(***************************************************************************)
EXTENDS Naturals, FiniteSets

CONSTANTS
  Streams,      (* POST /chat/:id/stream requests that may be made           *)
  Sends,        (* POST /chat/:id/messages requests                          *)
  Keys,         (* idempotency keys                                          *)
  Questions,
  None,         (* no question, no key, no request                           *)
  MaxAttempts,  (* DEFAULT_QUEUE_JOB_OPTIONS.attempts                        *)
  MaxTroubles   (* bound: failed generations, attempts that fail after their *)
                (* generation, deaths of a process and refused requests      *)

ChatCalls == Streams \cup Sends

ASSUME ChatAssumption ==
  /\ Streams \cap Sends = {}
  /\ None \notin ChatCalls \cup Keys \cup Questions
  /\ MaxAttempts \in Nat \ {0}
  /\ MaxTroubles \in Nat

VARIABLES
  message,      (* user ChatMessage rows by key: the question                *)
  answered,     (* keys with an assistant ChatMessage row                    *)
  usage,        (* keys with a ChatUsage row                                 *)
  memory,       (* keys whose answer the session's memory includes           *)
  job,          (* chat.queue: the job of each key, and its handler          *)
  channel,      (* Redis subscription of each stream                         *)
  req,          (* API requests                                              *)
  spent         (* troubles so far, by kind                                  *)

rowVars == <<message, answered, usage>>
apiVars == <<message, answered, usage, memory, job, channel, req, spent>>

-----------------------------------------------------------------------------
(* What a subscription holds: its first complete or error event, after     *)
(* which the reader stops.                                                 *)
Subscription == {"closed", "open", "complete", "error"}

Publish(r, event) ==
  channel' = [s \in Streams |->
                IF s = r /\ channel[s] = "open" THEN event ELSE channel[s]]

EnqueuePoint == {"findUser", "findAnswer", "getJob", "save", "add"}

RequestPoint == EnqueuePoint \cup
  {"new", "joined", "shared", "poll", "status", "listen", "recall",
   "remember", "done"}

(* How a request ended: "gone" when its client had left, "lost" when the   *)
(* API died with it.                                                       *)
Outcome == {"none", "complete", "error", "gone", "lost"}

NewRequest ==
  [pc |-> "new", key |-> None, question |-> None, known |-> FALSE,
   memory |-> {}, outcome |-> "none"]

ReqRecord ==
  [pc : RequestPoint, key : Keys \cup {None}, question : Questions \cup {None},
   known : BOOLEAN, memory : SUBSET Keys, outcome : Outcome]

JobPoint == {"start", "subscribe", "generate", "save", "usage", "publish",
             "finish"}

NoJob == [state |-> "none", attempts |-> 0, pc |-> "start", stream |-> None,
          listening |-> FALSE, aborted |-> FALSE]

JobRecord ==
  [state : {"none", "waiting", "active", "failed"}, attempts : 0..MaxAttempts,
   pc : JobPoint, stream : Streams \cup {None}, listening : BOOLEAN,
   aborted : BOOLEAN]

Trouble(kind) ==
  /\ spent.faults + spent.silent + spent.outages < MaxTroubles
  /\ spent' = [spent EXCEPT ![kind] = @ + 1]

At(r, pc) == req[r].pc = pc

Goto(r, pc) == req' = [req EXCEPT ![r].pc = pc]

(* Who waits for the promise r will settle: enqueueInFlight for the key,   *)
(* or sendInFlight.                                                        *)
Joined(r) == {q \in ChatCalls : At(q, "joined") /\ req[q].key = req[r].key}

Shared(r) == {q \in Sends : At(q, "shared") /\ req[q].key = req[r].key}

(* r and all who share its promise end together.                           *)
Ended(rq, rs, outcome) ==
  [q \in ChatCalls |->
     IF q \in rs THEN [rq[q] EXCEPT !.pc = "done", !.outcome = outcome,
                                    !.memory = {}, !.known = FALSE]
     ELSE rq[q]]

(* Ends r, those joined to its enqueue while it runs, and, when one of     *)
(* them is a send, the sends that share it.                                *)
WithSharers(rs) == rs \cup UNION {Shared(q) : q \in rs \cap Sends}

(* subscription.cancel in the finally of a stream.                         *)
Unsubscribed(rs) ==
  [s \in Streams |-> IF s \in rs THEN "closed" ELSE channel[s]]

End(rs, outcome) ==
  /\ req' = Ended(req, rs, outcome)
  /\ channel' = Unsubscribed(rs)

-----------------------------------------------------------------------------
(* send, startStream: a request for a key that is being enqueued joins it. *)

Enqueuing(k) ==
  \E q \in ChatCalls : req[q].key = k /\ req[q].pc \in EnqueuePoint

Entry(k) == IF Enqueuing(k) THEN "joined" ELSE "findUser"

Sending(k) ==
  \E q \in Sends : req[q].key = k /\ req[q].pc \notin {"new", "done", "shared"}

Received(r, k, q, pc) ==
  req' = [req EXCEPT ![r] = [NewRequest EXCEPT !.pc = pc, !.key = k,
                                              !.question = q]]

send(r, k, q) ==
  /\ r \in Sends /\ At(r, "new")
  /\ Received(r, k, q, IF Sending(k) THEN "shared" ELSE Entry(k))
  /\ UNCHANGED <<rowVars, memory, job, channel, spent>>

(* The subscription is open before the question is enqueued.               *)
stream(r, k, q) ==
  /\ r \in Streams /\ At(r, "new")
  /\ Received(r, k, q, Entry(k))
  /\ channel' = [channel EXCEPT ![r] = "open"]
  /\ UNCHANGED <<rowVars, memory, job, spent>>

(* The requestId is there, for r and for those that joined it.             *)
Enqueued(r) ==
  req' = [q \in ChatCalls |->
            IF q \in Joined(r) \cup {r}
            THEN [req[q] EXCEPT !.pc = IF q \in Sends THEN "poll" ELSE "listen",
                                !.known = FALSE]
            ELSE req[q]]

findUser(r) ==
  /\ At(r, "findUser")
  /\ req' = [req EXCEPT ![r].pc = "findAnswer",
                        ![r].known = message[req[r].key] # None]
  /\ UNCHANGED <<rowVars, memory, job, channel, spent>>

(* Mutant of findAnswer: only a job tells a repeated request from a first. *)
findAnswerNever(r) ==
  /\ At(r, "findAnswer")
  /\ Goto(r, "getJob")
  /\ UNCHANGED <<rowVars, memory, job, channel, spent>>

findAnswer(r) ==
  /\ At(r, "findAnswer")
  /\ IF req[r].key \in answered THEN Enqueued(r) ELSE Goto(r, "getJob")
  /\ UNCHANGED <<rowVars, memory, job, channel, spent>>

(* Mutant of getJob: the question is not stored first.                     *)
getJobAndAdd(r) ==
  /\ At(r, "getJob")
  /\ IF job[req[r].key].state # "none" THEN Enqueued(r) ELSE Goto(r, "add")
  /\ UNCHANGED <<rowVars, memory, job, channel, spent>>

(* A job in any state counts, a failed one included.                       *)
getJob(r) ==
  /\ At(r, "getJob")
  /\ IF job[req[r].key].state # "none" THEN Enqueued(r)
     ELSE Goto(r, IF req[r].known THEN "add" ELSE "save")
  /\ UNCHANGED <<rowVars, memory, job, channel, spent>>

(* The unique index on session, user and key refuses a second row.         *)
saveMessage(r) ==
  /\ At(r, "save")
  /\ message[req[r].key] = None
  /\ message' = [message EXCEPT ![req[r].key] = req[r].question]
  /\ Goto(r, "add")
  /\ UNCHANGED <<answered, usage, memory, job, channel, spent>>

(* The job id is derived from the key: BullMQ ignores a job it has.  The   *)
(* job carries the stream of the request that adds it, and no other.       *)
addJob(r) ==
  /\ At(r, "add")
  /\ job' = [job EXCEPT ![req[r].key] =
               IF @.state # "none" THEN @
               ELSE [NoJob EXCEPT !.state = "waiting",
                                  !.stream = IF r \in Streams THEN r ELSE None]]
  /\ Enqueued(r)
  /\ UNCHANGED <<rowVars, memory, channel, spent>>

enqueueOnce(r) ==
  \/ findUser(r)
  \/ findAnswer(r)
  \/ getJob(r)
  \/ saveMessage(r)
  \/ addJob(r)

-----------------------------------------------------------------------------
(* Mutant of waitForResponse: a failed job is polled for ever.             *)
waitForAnswer(r) ==
  /\ At(r, "poll")
  /\ req[r].key \in answered
  /\ Goto(r, "recall")
  /\ UNCHANGED <<rowVars, memory, job, channel, spent>>

(* Looks for the answer, then whether the job has failed, and again.       *)
waitForResponse(r) ==
  \/ /\ At(r, "poll")
     /\ Goto(r, IF req[r].key \in answered THEN "recall" ELSE "status")
     /\ UNCHANGED <<rowVars, memory, job, channel, spent>>
  \/ /\ At(r, "status")
     /\ IF job[req[r].key].state = "failed"
        THEN End(WithSharers({r}), "error")
        ELSE Goto(r, "poll") /\ UNCHANGED channel
     /\ UNCHANGED <<rowVars, memory, job, spent>>

(* The deadline of waitForResponse.                                        *)
Timeout(r) ==
  /\ r \in Sends /\ req[r].pc = "poll"
  /\ End(WithSharers({r}), "error")
  /\ UNCHANGED <<rowVars, memory, job, spent>>

(* A stream reads its subscription: an error ends it, and so does the      *)
(* subscription's end.                                                     *)
readEvent(r) ==
  /\ r \in Streams /\ At(r, "listen")
  /\ \/ channel[r] = "complete" /\ Goto(r, "recall") /\ UNCHANGED channel
     \/ channel[r] = "error" /\ End({r}, "error")
     \/ channel[r] = "closed" /\ End({r}, "gone")
  /\ UNCHANGED <<rowVars, memory, job, spent>>

(* memory.update reads the session and writes it back.  sendOnce and       *)
(* finishStream wait for it before the client is told.                     *)
updateMemory(r) ==
  \/ /\ At(r, "recall")
     /\ req' = [req EXCEPT ![r].pc = "remember", ![r].memory = memory]
     /\ UNCHANGED <<rowVars, memory, job, channel, spent>>
  \/ /\ At(r, "remember")
     /\ memory' = req[r].memory \cup {req[r].key}
     /\ End(IF r \in Sends THEN WithSharers({r}) ELSE {r}, "complete")
     /\ UNCHANGED <<rowVars, job, spent>>

RequestStep(r) ==
  \/ enqueueOnce(r)
  \/ waitForResponse(r)
  \/ readEvent(r)
  \/ updateMemory(r)

-----------------------------------------------------------------------------
(* The client of a stream goes away: the cancel message reaches a worker   *)
(* that listens now, or nobody; the subscription is closed, and what the   *)
(* request is doing goes on.                                               *)
abort(r) ==
  /\ r \in Streams
  /\ req[r].pc \notin {"new", "done"}
  /\ channel[r] # "closed"
  /\ channel' = [channel EXCEPT ![r] = "closed"]
  /\ job' = [k \in Keys |->
               IF job[k].stream = r /\ job[k].listening
               THEN [job[k] EXCEPT !.aborted = TRUE] ELSE job[k]]
  /\ UNCHANGED <<rowVars, memory, req, spent>>

(* PostgreSQL or Redis refuses an await of r, or of those it works for.    *)
Refused(r) ==
  /\ req[r].pc \in EnqueuePoint \cup {"poll", "recall", "remember"}
  /\ Trouble("outages")
  /\ End(WithSharers({r} \cup
                     (IF req[r].pc \in EnqueuePoint THEN Joined(r) ELSE {})),
         "error")
  /\ UNCHANGED <<rowVars, memory, job>>

(* The API process dies and every request with it.                         *)
ApiCrash ==
  /\ \E r \in ChatCalls : req[r].pc \notin {"new", "done"}
  /\ Trouble("outages")
  /\ End({r \in ChatCalls : req[r].pc \notin {"new", "done"}}, "lost")
  /\ UNCHANGED <<rowVars, memory, job>>
=============================================================================
