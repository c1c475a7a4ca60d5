-------------------------------- MODULE AIGate --------------------------------
(***************************************************************************)
(* AIService of one Worker process: the semaphore (acquire, release) that  *)
(* limits the requests to the AI provider, and the retry loop of generate  *)
(* and stream that runs while a slot is held.                              *)
(*                                                                         *)
(* The process has one thread.  A continuation runs when it reaches the    *)
(* head of the microtask queue; resolving the promise of a waiting caller  *)
(* only appends that caller's continuation, behind those queued before it. *)
(***************************************************************************)
EXTENDS Naturals, Sequences, FiniteSets

CONSTANTS
  Callers,      (* analyses and chats that call generate or stream           *)
  Limit,        (* AI_MAX_CONCURRENCY                                        *)
  MaxAttempts   (* AI_RETRY_ATTEMPTS                                         *)

ASSUME GateAssumption ==
  /\ IsFiniteSet(Callers)
  /\ Limit \in Nat \ {0}
  /\ MaxAttempts \in Nat \ {0}

VARIABLES
  active,       (* AIService.active                                          *)
  waiting,      (* AIService.waiting: callers whose promise is not resolved  *)
  microtasks,   (* callers whose continuation is queued, in queue order      *)
  at,           (* where each caller stands                                  *)
  attempt       (* the attempt of its retry loop                             *)

vars == <<active, waiting, microtasks, at, attempt>>

Place == {"idle", "arriving", "waiting", "resuming", "calling", "delaying",
          "leaving"}

CallersAt(places) == {c \in Callers : at[c] \in places}

(* Callers between acquire() and release().                                *)
Holding == {"calling", "delaying", "leaving"}

Init ==
  /\ active = 0
  /\ waiting = <<>>
  /\ microtasks = <<>>
  /\ at = [c \in Callers |-> "idle"]
  /\ attempt = [c \in Callers |-> 1]

-----------------------------------------------------------------------------
Queue(c) == microtasks' = Append(microtasks, c)

Runs(c, place) ==
  /\ microtasks # <<>>
  /\ Head(microtasks) = c
  /\ at[c] = place

(* Something the caller awaited has settled and it is about to call        *)
(* generate: a query of analyze or chat.                                   *)
Arrive(c) ==
  /\ at[c] = "idle"
  /\ at' = [at EXCEPT ![c] = "arriving"]
  /\ Queue(c)
  /\ UNCHANGED <<active, waiting, attempt>>

(* acquire: a free slot is taken, else the caller waits.                   *)
Acquire(c) ==
  /\ Runs(c, "arriving")
  /\ microtasks' = Tail(microtasks)
  /\ \/ /\ active < Limit
        /\ active' = active + 1
        /\ at' = [at EXCEPT ![c] = "calling"]
        /\ attempt' = [attempt EXCEPT ![c] = 1]
        /\ UNCHANGED waiting
     \/ /\ active >= Limit
        /\ waiting' = Append(waiting, c)
        /\ at' = [at EXCEPT ![c] = "waiting"]
        /\ UNCHANGED <<active, attempt>>

(* The second half of acquire, after the promise was resolved: `active` is *)
(* counted up without looking at the limit again.                          *)
Resume(c) ==
  /\ Runs(c, "resuming")
  /\ microtasks' = Tail(microtasks)
  /\ active' = active + 1
  /\ at' = [at EXCEPT ![c] = "calling"]
  /\ attempt' = [attempt EXCEPT ![c] = 1]
  /\ UNCHANGED waiting

(* The provider answers, fails for good, or, for a stream, its consumer    *)
(* leaves: the finally block is next.                                      *)
Settle(c) ==
  /\ at[c] = "calling"
  /\ at' = [at EXCEPT ![c] = "leaving"]
  /\ Queue(c)
  /\ UNCHANGED <<active, waiting, attempt>>

(* Mutant of Retry: the last attempt is retried too.                       *)
RetryForever(c) ==
  /\ at[c] = "calling"
  /\ at' = [at EXCEPT ![c] = "delaying"]
  /\ UNCHANGED <<active, waiting, microtasks, attempt>>

(* A retryable failure before the last attempt: the slot is kept during    *)
(* the delay.                                                              *)
Retry(c) ==
  /\ at[c] = "calling"
  /\ attempt[c] < MaxAttempts
  /\ at' = [at EXCEPT ![c] = "delaying"]
  /\ UNCHANGED <<active, waiting, microtasks, attempt>>

Delayed(c) ==
  /\ at[c] = "delaying"
  /\ at' = [at EXCEPT ![c] = "calling"]
  /\ attempt' = [attempt EXCEPT ![c] = @ + 1]
  /\ UNCHANGED <<active, waiting, microtasks>>

(* Mutant of Release: nobody is woken while others are still calling.      *)
ReleaseWithoutWaking(c) ==
  /\ Runs(c, "leaving")
  /\ active' = active - 1
  /\ at' = [at EXCEPT ![c] = "idle"]
  /\ microtasks' = Tail(microtasks)
  /\ UNCHANGED <<waiting, attempt>>

(* Mutant of Release: the slot is handed to the waiter and kept counted,   *)
(* although the waiter counts it again.                                    *)
ReleaseCountedTwice(c) ==
  /\ Runs(c, "leaving")
  /\ \/ /\ waiting = <<>>
        /\ active' = active - 1
        /\ microtasks' = Tail(microtasks)
        /\ at' = [at EXCEPT ![c] = "idle"]
        /\ UNCHANGED waiting
     \/ /\ waiting # <<>>
        /\ microtasks' = Append(Tail(microtasks), Head(waiting))
        /\ waiting' = Tail(waiting)
        /\ at' = [at EXCEPT ![c] = "idle", ![Head(waiting)] = "resuming"]
        /\ UNCHANGED active
  /\ UNCHANGED attempt

(* Mutant of Release: the last waiter is woken (pop instead of shift).     *)
ReleaseNewest(c) ==
  /\ Runs(c, "leaving")
  /\ active' = active - 1
  /\ \/ /\ waiting = <<>>
        /\ microtasks' = Tail(microtasks)
        /\ at' = [at EXCEPT ![c] = "idle"]
        /\ UNCHANGED waiting
     \/ /\ waiting # <<>>
        /\ microtasks' = Append(Tail(microtasks), waiting[Len(waiting)])
        /\ waiting' = SubSeq(waiting, 1, Len(waiting) - 1)
        /\ at' = [at EXCEPT ![c] = "idle",
                            ![waiting[Len(waiting)]] = "resuming"]
  /\ UNCHANGED attempt

(* release: one slot less, and the first waiter's promise is resolved.     *)
Release(c) ==
  /\ Runs(c, "leaving")
  /\ active' = IF active > 0 THEN active - 1 ELSE 0
  /\ \/ /\ waiting = <<>>
        /\ microtasks' = Tail(microtasks)
        /\ at' = [at EXCEPT ![c] = "idle"]
        /\ UNCHANGED waiting
     \/ /\ waiting # <<>>
        /\ microtasks' = Append(Tail(microtasks), Head(waiting))
        /\ waiting' = Tail(waiting)
        /\ at' = [at EXCEPT ![c] = "idle", ![Head(waiting)] = "resuming"]
  /\ UNCHANGED attempt

-----------------------------------------------------------------------------
Continue(c) == Acquire(c) \/ Resume(c) \/ Release(c)

Provider(c) == Settle(c) \/ Retry(c) \/ Delayed(c)

Next == \E c \in Callers : Arrive(c) \/ Continue(c) \/ Provider(c)

(* The event loop drains the microtask queue, every provider request is    *)
(* answered or timed out (AI_TIMEOUT_MS), every timer fires.               *)
Fairness ==
  \A c \in Callers : WF_vars(Continue(c)) /\ WF_vars(Provider(c))

Spec == Init /\ [][Next]_vars /\ Fairness

-----------------------------------------------------------------------------
(* Types; and the retry loop stays within the configured attempts.         *)
TypeOK ==
  /\ active \in Nat
  /\ waiting \in Seq(Callers)
  /\ microtasks \in Seq(Callers)
  /\ at \in [Callers -> Place]
  /\ attempt \in [Callers -> 1..MaxAttempts]

(* `active` counts exactly the callers between acquire and release: a slot *)
(* is neither leaked by a failure or a retry nor given back twice, so the  *)
(* Math.max in release never hides a mistake.                              *)
ActiveCounts == active = Cardinality(CallersAt(Holding))

(* No wake-up is lost: while somebody waits, the slots in use together     *)
(* with the callers already woken make up the limit.                       *)
NoLostWakeup ==
  waiting # <<>> => active + Cardinality(CallersAt({"resuming"})) >= Limit

(* Whoever waits for a slot gets one, however many newcomers arrive.       *)
Admitted == \A c \in Callers : at[c] = "waiting" ~> at[c] = "calling"

(* AI_MAX_CONCURRENCY limits the parallel requests                         *)
(* (docs/architecture/ai-pipeline.md): no more than Limit slots are held.  *)
LimitHolds == active <= Limit
=============================================================================
