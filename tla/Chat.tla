-------------------------------- MODULE Chat --------------------------------
(***************************************************************************)
(* The chat of one session: the web page and other clients of the API, the *)
(* API's requests and the Worker's jobs, interleaved at every await.       *)
(***************************************************************************)
EXTENDS ChatPage

Init ==
  /\ message = [k \in Keys |-> None]
  /\ answered = {}
  /\ usage = {}
  /\ memory = {}
  /\ job = [k \in Keys |-> NoJob]
  /\ channel = [r \in Streams |-> "closed"]
  /\ req = [r \in ChatCalls |-> NewRequest]
  /\ spent = [faults |-> 0, silent |-> 0, outages |-> 0]
  /\ page = EmptyPage

(* A client of the SDK sends a question, or sends one again: a key names   *)
(* one question.                                                           *)
OtherClient ==
  /\ {r \in Sends : At(r, "new")} # {}
  /\ \E k \in Keys, q \in Questions :
       LET r == CHOOSE s \in Sends : At(s, "new")
       IN  /\ \A s \in ChatCalls : req[s].key = k => req[s].question = q
           /\ send(r, k, q)
  /\ UNCHANGED page

Request(r) == RequestStep(r) /\ UNCHANGED page

Worker(k) == execute(k) /\ UNCHANGED page

Environment ==
  /\ \/ \E r \in ChatCalls : Timeout(r) \/ Refused(r)
     \/ ApiCrash
     \/ \E k \in Keys : ProviderFails(k) \/ FailsSilently(k) \/ WorkerCrash(k)
  /\ UNCHANGED page

Next ==
  \/ PageStep
  \/ OtherClient
  \/ \E r \in ChatCalls : Request(r)
  \/ \E k \in Keys : Worker(k)
  \/ Environment

Spec == Init /\ [][Next]_vars

(* What the API and the Worker have begun goes on.  Nobody has to ask, to  *)
(* give up or to fail, and no deadline has to pass.                        *)
Fairness ==
  /\ \A r \in ChatCalls : WF_vars(Request(r))
  /\ \A k \in Keys : WF_vars(Worker(k))

FairSpec == Spec /\ Fairness

-----------------------------------------------------------------------------
(* Types.  In particular a job is attempted as often as it is configured.  *)
TypeOK ==
  /\ message \in [Keys -> Questions \cup {None}]
  /\ answered \subseteq Keys /\ usage \subseteq Keys /\ memory \subseteq Keys
  /\ job \in [Keys -> JobRecord]
  /\ channel \in [Streams -> Subscription]
  /\ req \in [ChatCalls -> ReqRecord]
  /\ spent \in [{"faults", "silent", "outages"} -> 0..MaxTroubles]
  /\ page \in PageRecord

(* A client hears "complete", or has its answer included in the session's  *)
(* memory, only when the answer and its usage are stored: whichever of the *)
(* job's attempts, redeliveries and requests got there first.              *)
SavedBeforeTold ==
  /\ \A r \in Streams : channel[r] = "complete" => req[r].key \in usage
  /\ \A r \in ChatCalls : req[r].outcome = "complete" => req[r].key \in answered
  /\ usage \cup memory \subseteq answered

(* The question of a key is answered and stored, its job is gone, and no   *)
(* request has looked for the answer before it was there.                  *)
Settled(k) ==
  /\ k \in answered
  /\ job[k].state = "none"
  /\ \A r \in ChatCalls : req[r].key = k => req[r].pc \notin {"getJob", "save",
                                                             "add"}

(* From then on, however often the question is sent again, by whichever    *)
(* client, after whichever restart, nothing is generated for it any more.  *)
StaysSettled == [][\A k \in Keys : Settled(k) => Settled(k)']_vars

(* A job has its question: an attempt never fails for want of the message  *)
(* its request should have stored, and a request that died between the two *)
(* leaves nothing that a later one would not pick up.                      *)
JobHasQuestion == \A k \in Keys : job[k].state # "none" => message[k] # None

(* A sent message is answered or refused, without waiting for its          *)
(* deadline, and so is every message that shares its key: by the answer,   *)
(* or by the failure of the job that would have made it.                   *)
SendsReturn == \A r \in Sends : req[r].pc # "new" ~> At(r, "done")

(* The stream a job carries comes to an end by itself: with the answer, or *)
(* with the error of the first attempt that fails in its generation.       *)
(* Attempts that fail before it (a lookup, the subscription) or after it   *)
(* (an empty answer, a write) publish nothing: the stream ends with a      *)
(* later attempt, unless they are as many as a job may make.               *)
StreamsReturn ==
  \A r \in Streams :
    (At(r, "listen") /\ \E k \in Keys : job[k].stream = r)
      ~> (At(r, "done") \/ spent.silent >= MaxAttempts)

(* An idempotency key is a "stable client key used to safely retry the     *)
(* same stream submission" (chat.controller.ts): no client sends another   *)
(* question under it.                                                      *)
KeyNamesOneQuestion ==
  \A r, s \in ChatCalls :
    req[r].key # None /\ req[r].key = req[s].key
      => req[r].question = req[s].question
=============================================================================
