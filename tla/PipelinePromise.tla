--------------------------- MODULE PipelinePromise ---------------------------
(***************************************************************************)
(* What a client of the API may rely on about the analysis of one upload,  *)
(* whatever happens in queues and workers: the three things it can read.   *)
(*                                                                         *)
(* The status shown may move freely among the unfinished ones (a retry, a  *)
(* late request or an administrator can take any of them back), but not to *)
(* "completed" before a report is stored; a stored report stays; and the   *)
(* user is told of a report only when there is one.                        *)
(***************************************************************************)

VARIABLES
  shown,        (* what the scan's status says                               *)
  stored,       (* what the report's row says                                *)
  told          (* whether the user has been told that the report is ready   *)

promiseVars == <<shown, stored, told>>

Shown == {"nothing", "working", "completed", "failed", "cancelled"}

Stored == {"none", "READY", "FAILED"}

Init ==
  /\ shown = "nothing"
  /\ stored = "none"
  /\ told = FALSE

Asked == shown # "nothing"

(* The upload is to be analysed.                                           *)
Accept ==
  /\ shown = "nothing"
  /\ shown' = "working"
  /\ UNCHANGED <<stored, told>>

(* Work begins, goes on, or ends without a result.                         *)
Work ==
  /\ Asked
  /\ shown' \in {"working", "failed", "cancelled"}
  /\ UNCHANGED <<stored, told>>

(* A report is stored, or the one that was tried is marked as failed.      *)
Store ==
  /\ Asked
  /\ stored' \in {"READY", "FAILED"}
  /\ UNCHANGED <<shown, told>>

Complete ==
  /\ Asked
  /\ stored # "none"
  /\ shown' = "completed"
  /\ UNCHANGED <<stored, told>>

Announce ==
  /\ Asked
  /\ stored # "none"
  /\ told' = TRUE
  /\ UNCHANGED <<shown, stored>>

Next == Accept \/ Work \/ Store \/ Complete \/ Announce

Spec == Init /\ [][Next]_promiseVars
=============================================================================
