------------------------------ MODULE ApiClient ------------------------------
(***************************************************************************)
(* One browser tab: the SDK's ApiClient with its 401 interceptor and its   *)
(* stream(), and the auth store that keeps the tokens and gives the        *)
(* ApiClient its refresh handler.                                          *)
(***************************************************************************)
EXTENDS SessionService

CONSTANT MaxCalls    (* bound: calls the tab sends                          *)

VARIABLES
  client,      (* the store's tokens, and whether a refresh handler is set   *)
  call,        (* the tab's API calls                                        *)
  refreshing,  (* ApiClient.refreshing: the call whose refresh is shared     *)
  stale,       (* access tokens that have expired; a pair shares its number  *)
  reloaded     (* the page has been loaded again                             *)

tabVars == <<client, call, refreshing, stale, reloaded>>
authVars == <<rows, req, events, client, call, refreshing, stale, reloaded>>

Nobody == "nobody"

ASSUME ApiClientAssumption == Nobody \notin Calls /\ MaxCalls \in Nat

ClientRecord == [refresh : 0..MaxTokens, access : 0..MaxTokens,
                 handler : BOOLEAN]

CallPoint == {"new", "sent", "rejected", "waiting", "ok", "failed", "gone"}

CallRecord == [pc : CallPoint, used : 0..MaxTokens, retried : BOOLEAN]

SignedOut == [refresh |-> NoToken, access |-> NoToken, handler |-> FALSE]

-----------------------------------------------------------------------------
(* login() of the store.                                                   *)
SendLogin(r) ==
  /\ ReqAt(r, "new")
  /\ client.refresh = NoToken
  /\ ReqGoto(r, "create")
  /\ client' = [client EXCEPT !.handler = TRUE]
  /\ UNCHANGED <<rows, call, refreshing, stale, reloaded, events>>

LoginReply(r) ==
  /\ ReqAt(r, "ok")
  /\ Finish(r)
  /\ client' = [client EXCEPT !.refresh = req[r].issued,
                              !.access = req[r].issued]
  /\ UNCHANGED <<rows, call, refreshing, stale, reloaded, events>>

(* logout() of the store.  The endpoint wants a valid access token, and as *)
(* an auth endpoint it is not retried after a refresh; whatever it answers,*)
(* the local session is cleared.                                           *)
SendLogout(r) ==
  /\ ReqAt(r, "new")
  /\ Event
  /\ client.refresh # NoToken
  /\ req' = [req EXCEPT ![r].token = client.refresh,
                        ![r].pc = IF client.access \in stale THEN "denied"
                                  ELSE "find"]
  /\ UNCHANGED <<rows, tabVars>>

LogoutReply(r) ==
  /\ req[r].pc \in {"ok", "denied"}
  /\ Finish(r)
  /\ client' = SignedOut
  /\ UNCHANGED <<rows, call, refreshing, stale, reloaded, events>>

-----------------------------------------------------------------------------
(* A call and its 401 interceptor.                                         *)

(* JwtAuthGuard: an access token is good until it expires, whatever        *)
(* happened to its session.                                                *)
Answer(t) == IF t \in stale THEN "rejected" ELSE "ok"

Send(c) ==
  /\ call[c].pc = "new"
  /\ client.access # NoToken
  /\ Cardinality({d \in Calls : call[d].pc # "new"}) < MaxCalls
  /\ call' = [call EXCEPT ![c].pc = Answer(client.access)]
  /\ UNCHANGED <<rows, req, client, refreshing, stale, reloaded, events>>

(* The call is sent again, with the token the refresh has given it.        *)
Resend(c) ==
  /\ call[c].pc = "sent"
  /\ call' = [call EXCEPT ![c].used = NoToken, ![c].pc = Answer(call[c].used)]
  /\ UNCHANGED <<rows, req, client, refreshing, stale, reloaded, events>>

(* refreshHandler(): the refresh token is read from the store here.        *)
CallsHandler(c) ==
  req' = [req EXCEPT ![c].pc = "find", ![c].token = client.refresh]

MayRefresh(c) == ~call[c].retried /\ client.handler

GiveUp(c) ==
  /\ call[c].pc = "rejected"
  /\ \/ ~MayRefresh(c)
     \/ /\ client.refresh = NoToken
        /\ c \in StreamCalls \/ refreshing = Nobody
  /\ call' = [call EXCEPT ![c].pc = "failed"]
  /\ UNCHANGED <<rows, req, client, refreshing, stale, reloaded, events>>

(* Mutant of Refreshes: every 401 calls the handler.                       *)
RefreshesAnew(c) ==
  /\ call[c].pc = "rejected" /\ MayRefresh(c)
  /\ client.refresh # NoToken
  /\ CallsHandler(c)
  /\ refreshing' = c
  /\ call' = [call EXCEPT ![c].pc = "waiting", ![c].retried = TRUE]
  /\ UNCHANGED <<rows, client, stale, reloaded, events>>

(* Mutant of Refreshes: _retry is not set.                                 *)
RefreshesEachTime(c) ==
  /\ call[c].pc = "rejected" /\ MayRefresh(c)
  /\ \/ /\ c \in HttpCalls /\ refreshing # Nobody
        /\ UNCHANGED <<req, refreshing>>
     \/ /\ c \in HttpCalls /\ refreshing = Nobody
        /\ client.refresh # NoToken
        /\ CallsHandler(c)
        /\ refreshing' = c
  /\ call' = [call EXCEPT ![c].pc = "waiting"]
  /\ UNCHANGED <<rows, client, stale, reloaded, events>>

(* refreshing ??= refreshHandler().  stream() does not share the promise.  *)
Refreshes(c) ==
  /\ call[c].pc = "rejected" /\ MayRefresh(c)
  /\ \/ /\ c \in HttpCalls /\ refreshing # Nobody
        /\ UNCHANGED <<req, refreshing>>
     \/ /\ c \in HttpCalls /\ refreshing = Nobody
        /\ client.refresh # NoToken
        /\ CallsHandler(c)
        /\ refreshing' = c
     \/ /\ c \in StreamCalls
        /\ client.refresh # NoToken
        /\ CallsHandler(c)
        /\ UNCHANGED refreshing
  /\ call' = [call EXCEPT ![c].pc = "waiting", ![c].retried = TRUE]
  /\ UNCHANGED <<rows, client, stale, reloaded, events>>

(* The calls that go on when the refresh of call c is answered.            *)
Waiters(c) ==
  IF c \in StreamCalls THEN {c}
  ELSE {d \in HttpCalls : call[d].pc = "waiting"}

AfterRefresh(c) ==
  /\ Finish(c)
  /\ refreshing' = IF c \in HttpCalls THEN Nobody ELSE refreshing
  /\ UNCHANGED <<rows, stale, reloaded, events>>

(* Mutant of RefreshGranted: the new refresh token is not stored.          *)
RefreshGrantedUnstored(c) ==
  /\ call[c].pc = "waiting" /\ ReqAt(c, "ok")
  /\ client' = [client EXCEPT !.access = req[c].issued]
  /\ call' = [d \in Calls |->
                IF d \in Waiters(c)
                THEN [call[d] EXCEPT !.pc = "sent", !.used = req[c].issued]
                ELSE call[d]]
  /\ AfterRefresh(c)

(* The tokens are stored before the shared promise is given up, and both   *)
(* before any waiting call is sent again: one turn of the event loop.      *)
RefreshGranted(c) ==
  /\ call[c].pc = "waiting" /\ ReqAt(c, "ok")
  /\ client' = [client EXCEPT !.refresh = req[c].issued,
                              !.access = req[c].issued]
  /\ call' = [d \in Calls |->
                IF d \in Waiters(c)
                THEN [call[d] EXCEPT !.pc = "sent", !.used = req[c].issued]
                ELSE call[d]]
  /\ AfterRefresh(c)

(* Mutant of RefreshDenied: /auth/refresh is not an auth endpoint, so its  *)
(* 401 waits for the refresh it belongs to.                                *)
RefreshDeniedIntercepted(c) ==
  /\ call[c].pc = "waiting" /\ ReqAt(c, "denied")
  /\ c \in StreamCalls
  /\ client' = SignedOut
  /\ call' = [call EXCEPT ![c].pc = "failed"]
  /\ AfterRefresh(c)

(* The handler clears the local session and yields no token.               *)
RefreshDenied(c) ==
  /\ call[c].pc = "waiting" /\ ReqAt(c, "denied")
  /\ client' = SignedOut
  /\ call' = [d \in Calls |-> IF d \in Waiters(c)
                              THEN [call[d] EXCEPT !.pc = "failed"]
                              ELSE call[d]]
  /\ AfterRefresh(c)

-----------------------------------------------------------------------------
(* Only the expiry of the pair in use is of interest.                      *)
AccessTokenExpires(t) ==
  /\ t = client.access /\ t \notin stale
  /\ stale' = stale \cup {t}
  /\ UNCHANGED <<rows, req, client, call, refreshing, reloaded, events>>

(* The page is loaded again: the tokens are those localStorage had, what   *)
(* was in flight has no reader any more, and restore() sets the handler.   *)
Reload ==
  /\ Event
  /\ reloaded' = TRUE
  /\ call' = [c \in Calls |->
                IF call[c].pc \in {"sent", "rejected", "waiting"}
                THEN [call[c] EXCEPT !.pc = "gone", !.used = NoToken]
                ELSE call[c]]
  /\ refreshing' = Nobody
  /\ client' = [client EXCEPT !.handler = TRUE]
  /\ UNCHANGED <<rows, req, stale>>

CallStep(c) ==
  Resend(c) \/ GiveUp(c) \/ Refreshes(c) \/ RefreshGranted(c)
    \/ RefreshDenied(c)
=============================================================================
