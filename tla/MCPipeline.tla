----------------------------- MODULE MCPipeline -----------------------------
(* Pipeline for TLC: its constants get their values in the .cfg files.     *)
EXTENDS Pipeline, TLC

(* Jobs and start requests are interchangeable; used without liveness.     *)
Symmetry == Permutations(Jobs) \cup Permutations(Starts)

(* How many requests of each kind have been sent.                          *)
Sent(kind) == Cardinality({c \in kind : call[c].pc # "new"})

(* One kind of trouble at a time: two requests to start and one to cancel; *)
(* or one start with faults and a process death or an administrator; or    *)
(* one start and one resume with faults.                                   *)
OneTrouble ==
  \/ spent = [faults |-> 0, outages |-> 0, admin |-> 0] /\ Sent(Resumes) = 0
  \/ /\ Sent(Starts) <= 1 /\ Sent(Cancels) = 0 /\ Sent(Resumes) = 0
     /\ spent.outages + spent.admin <= 1
  \/ /\ Sent(Starts) <= 1 /\ Sent(Cancels) = 0
     /\ spent.outages = 0 /\ spent.admin = 0
=============================================================================
