---------------------------- MODULE ChatProcessor ----------------------------
(***************************************************************************)
(* The Worker side of the chat: ChatProcessor.execute for the job of a     *)
(* key, one disjunct per await that touches shared state.                  *)
(***************************************************************************)
EXTENDS ChatService

WorkerAt(k, pc) == job[k].state = "active" /\ job[k].pc = pc

Step(k, pc) == job' = [job EXCEPT ![k].pc = pc]

(* Mutant of Thrown: an attempt is counted when it begins and again when it*)
(* ends.                                                                   *)
ThrownCountedTwice(jb) ==
  [jb EXCEPT !.state = IF jb.attempts + 1 < MaxAttempts THEN "waiting"
                       ELSE "failed",
             !.attempts = @ + 2, !.pc = "start", !.listening = FALSE,
             !.aborted = FALSE]

(* BullMQ: an attempt that throws is repeated until they are used up, and  *)
(* a failed job is kept.                                                   *)
Thrown(jb) ==
  [jb EXCEPT !.state = IF jb.attempts + 1 < MaxAttempts THEN "waiting"
                       ELSE "failed",
             !.attempts = @ + 1, !.pc = "start", !.listening = FALSE,
             !.aborted = FALSE]

Throw(k) == job' = [job EXCEPT ![k] = Thrown(@)]

Streamed(k) == job[k].stream # None

(* The session and the user message are looked up (a lookup that is        *)
(* refused: FailsSilently).                                                *)
Take(k) ==
  /\ job[k].state = "waiting"
  /\ IF message[k] = None THEN Throw(k)
     ELSE job' = [job EXCEPT ![k].state = "active",
                             ![k].pc = IF Streamed(k) THEN "subscribe"
                                       ELSE "generate"]
  /\ UNCHANGED <<rowVars, memory, channel, req, spent>>

(* streamControl.listen: from here on a cancellation is heard (a refused   *)
(* subscription: FailsSilently).                                           *)
Listen(k) ==
  /\ WorkerAt(k, "subscribe")
  /\ job' = [job EXCEPT ![k].pc = "generate", ![k].listening = TRUE]
  /\ UNCHANGED <<rowVars, memory, channel, req, spent>>

(* The provider answers. An abort that came before the provider added its  *)
(* listener, or after its last word, changes nothing.                      *)
Generate(k) ==
  /\ WorkerAt(k, "generate")
  /\ job' = [job EXCEPT ![k].pc = "save", ![k].listening = FALSE]
  /\ UNCHANGED <<rowVars, memory, channel, req, spent>>

(* The generation is aborted: as any failure of it, it is published and    *)
(* thrown, and the job tried again.                                        *)
Aborted(k) ==
  /\ WorkerAt(k, "generate")
  /\ job[k].aborted
  /\ Publish(job[k].stream, "error")
  /\ Throw(k)
  /\ UNCHANGED <<rowVars, memory, req, spent>>

(* Mutant of SaveAnswer: the client is told before the answer is stored.   *)
CompleteFirst(k) ==
  /\ WorkerAt(k, "save")
  /\ Publish(job[k].stream, "complete")
  /\ answered' = answered \cup {k}
  /\ Step(k, "usage")
  /\ UNCHANGED <<message, usage, memory, req, spent>>

SaveAnswer(k) ==
  /\ WorkerAt(k, "save")
  /\ answered' = answered \cup {k}
  /\ Step(k, "usage")
  /\ UNCHANGED <<message, usage, memory, channel, req, spent>>

(* Mutant of SaveUsage: the end of the answer is not published.            *)
SaveUsageAndFinish(k) ==
  /\ WorkerAt(k, "usage")
  /\ usage' = usage \cup {k}
  /\ Step(k, "finish")
  /\ UNCHANGED <<message, answered, memory, channel, req, spent>>

SaveUsage(k) ==
  /\ WorkerAt(k, "usage")
  /\ usage' = usage \cup {k}
  /\ Step(k, IF Streamed(k) THEN "publish" ELSE "finish")
  /\ UNCHANGED <<message, answered, memory, channel, req, spent>>

PublishComplete(k) ==
  /\ WorkerAt(k, "publish")
  /\ Publish(job[k].stream, "complete")
  /\ Step(k, "finish")
  /\ UNCHANGED <<rowVars, memory, req, spent>>

(* removeOnComplete.                                                       *)
Finish(k) ==
  /\ WorkerAt(k, "finish")
  /\ job' = [job EXCEPT ![k] = NoJob]
  /\ UNCHANGED <<rowVars, memory, channel, req, spent>>

execute(k) ==
  \/ Take(k)
  \/ Listen(k)
  \/ Generate(k)
  \/ Aborted(k)
  \/ SaveAnswer(k)
  \/ SaveUsage(k)
  \/ PublishComplete(k)
  \/ Finish(k)

-----------------------------------------------------------------------------
(* The provider fails for good: the stream of the job is told, and the     *)
(* attempt throws all the same.                                            *)
ProviderFails(k) ==
  /\ WorkerAt(k, "generate")
  /\ Trouble("faults")
  /\ Publish(job[k].stream, "error")
  /\ Throw(k)
  /\ UNCHANGED <<rowVars, memory, req>>

(* The attempt throws and its stream is told nothing: a lookup or the      *)
(* subscription is refused, the answer is empty, a write is refused, or    *)
(* the publication itself is, of an error or of the end.                   *)
FailsSilently(k) ==
  /\ \/ job[k].state = "waiting"
     \/ \E pc \in JobPoint \ {"start", "finish"} : WorkerAt(k, pc)
  /\ Trouble("silent")
  /\ Throw(k)
  /\ UNCHANGED <<rowVars, memory, channel, req>>

(* The worker dies, and BullMQ delivers the job again.                     *)
WorkerCrash(k) ==
  /\ job[k].state = "active"
  /\ Trouble("outages")
  /\ job' = [job EXCEPT ![k] = [@ EXCEPT !.state = "waiting", !.pc = "start",
                                         !.listening = FALSE,
                                         !.aborted = FALSE]]
  /\ UNCHANGED <<rowVars, memory, channel, req>>
=============================================================================
