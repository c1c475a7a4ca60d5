------------------------------ MODULE ChatPage ------------------------------
(***************************************************************************)
(* The chat page of the web application: one tab with one session open.    *)
(* It has at most one stream under way, and keeps the question and the     *)
(* idempotency key of the last one until the stream ends by itself.        *)
(***************************************************************************)
EXTENDS ChatProcessor

VARIABLE page

vars == <<apiVars, page>>

(* retryPrompt, the key of pendingUserMessage, streamError, and the stream *)
(* under way.                                                              *)
PageRecord ==
  [prompt : Questions \cup {None}, key : Keys \cup {None}, error : BOOLEAN,
   stream : Streams \cup {None}]

EmptyPage == [prompt |-> None, key |-> None, error |-> FALSE, stream |-> None]

Unsent == {r \in Streams : At(r, "new")}

(* createUuid.                                                             *)
FreshKeys == {k \in Keys : \A r \in ChatCalls : req[r].key # k}

(* stream(prompt, key): the key of a pending message is used again.        *)
Submit(q) ==
  /\ page.stream = None
  /\ Unsent # {}
  /\ \E k \in IF page.key # None THEN {page.key} ELSE FreshKeys :
       LET r == CHOOSE s \in Unsent : TRUE
       IN  /\ stream(r, k, q)
           /\ page' = [prompt |-> q, key |-> k, error |-> FALSE, stream |-> r]

Ask == \E q \in Questions : Submit(q)

(* The Retry button below an error.                                        *)
Retry ==
  /\ page.error
  /\ page.prompt # None
  /\ Submit(page.prompt)

(* The response ends, after a complete or an error event: the page forgets *)
(* the question either way.                                                *)
StreamEnds ==
  /\ page.stream # None
  /\ req[page.stream].outcome \in {"complete", "error"}
  /\ page' = [EmptyPage EXCEPT !.error = req[page.stream].outcome = "error"]
  /\ UNCHANGED apiVars

(* The connection breaks: the question can be sent again.                  *)
ConnectionLost ==
  /\ page.stream # None
  /\ req[page.stream].outcome = "lost"
  /\ page' = [page EXCEPT !.error = TRUE, !.stream = None]
  /\ UNCHANGED apiVars

(* The Cancel button: the question stays pending.                          *)
Cancel ==
  /\ page.stream # None
  /\ abort(page.stream)
  /\ page' = [page EXCEPT !.stream = None]

(* Another session is opened, and this one again.                          *)
OpenSession ==
  /\ page.stream # None
  /\ abort(page.stream)
  /\ page' = EmptyPage

PageStep == Ask \/ Retry \/ StreamEnds \/ ConnectionLost \/ Cancel \/ OpenSession
=============================================================================
