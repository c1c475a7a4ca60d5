-------------------------------- MODULE Auth --------------------------------
(***************************************************************************)
(* A browser tab and the API, with the user's other devices.               *)
(***************************************************************************)
EXTENDS ApiClient

Init ==
  /\ rows = <<>>
  /\ req = [r \in Requests |-> NoRequest]
  /\ client = SignedOut
  /\ call = [c \in Calls |-> [pc |-> "new", used |-> NoToken,
                              retried |-> FALSE]]
  /\ refreshing = Nobody
  /\ stale = {}
  /\ reloaded = FALSE
  /\ events = 0

Server(r) == ServerStep(r) /\ UNCHANGED tabVars

Tab ==
  \/ \E r \in SignIns : SendLogin(r) \/ LoginReply(r)
  \/ \E r \in Logouts : SendLogout(r) \/ LogoutReply(r)
  \/ \E c \in Calls : Send(c) \/ CallStep(c)
  \/ Reload

Time ==
  \E t \in Token : \/ AccessTokenExpires(t)
                   \/ RefreshTokenExpires(t) /\ UNCHANGED tabVars

Next == (\E r \in Requests : Server(r)) \/ Tab \/ Time

Spec == Init /\ [][Next]_authVars

(* The API serves what it has received, and answers reach a tab that is    *)
(* still there.                                                            *)
Fairness ==
  /\ \A r \in Requests : WF_authVars(Server(r))
  /\ \A c \in Calls : WF_authVars(CallStep(c))

FairSpec == Spec /\ Fairness

-----------------------------------------------------------------------------
(* Types.                                                                  *)
TypeOK ==
  /\ rows \in Seq(RowState) /\ Len(rows) <= MaxTokens
  /\ req \in [Requests -> RequestRecord]
  /\ client \in ClientRecord
  /\ call \in [Calls -> CallRecord]
  /\ refreshing \in HttpCalls \cup {Nobody}
  /\ stale \subseteq Token
  /\ reloaded \in BOOLEAN
  /\ events \in 0..MaxEvents

Creating(r) == req[r].pc \in {"create", "limitFind", "limitRevoke"}

(* However logins and rotations interleave, when none of them is under way *)
(* the user has no more sessions than configured.                          *)
LimitAtRest ==
  (\A r \in Requests : ~Creating(r)) => Cardinality(Active) <= MaxSessions

(* Every session has been ended, no login is left and no request that has  *)
(* already validated its token is on its way.                              *)
CutOff ==
  /\ Active = {}
  /\ \A r \in SignIns \cup Logins : ~Creating(r)
  /\ \A r \in SignIns : ReqAt(r, "done")
  /\ events = MaxEvents
  /\ \A r \in Calls : ~Creating(r)

(* Logout-all, a changed password or a detected reuse is final: no refresh *)
(* of any token the user's devices still hold opens a session again.       *)
CutOffHolds == [][CutOff => CutOff']_authVars

(* A tab that has neither been reloaded nor refreshed outside the shared   *)
(* promise never presents a token it has already exchanged, so its own     *)
(* concurrent calls are not taken for a reuse.                             *)
PresentsOwnToken ==
  \A c \in HttpCalls :
    ReqAt(c, "find") /\ rows[req[c].token] = "ROTATION"
      => reloaded \/ \E s \in StreamCalls : call[s].retried

RefreshInFlight ==
  \E c \in Calls : req[c].pc \notin {"new", "done"}

(* When no refresh is in flight the tab does not hold a token that a       *)
(* rotation has replaced: its next refresh would end all sessions.  Only a *)
(* reload during a rotation, whose answer is lost with the page, does that.*)
HoldsNewest ==
  ~RefreshInFlight /\ ~reloaded /\ client.refresh # NoToken
    => rows[client.refresh] # "ROTATION"

(* Every call comes back, also when the refresh it waits for is itself     *)
(* answered with 401.                                                      *)
CallsReturn ==
  \A c \in Calls : call[c].pc \in {"sent", "rejected", "waiting"}
                    ~> call[c].pc \in {"ok", "failed", "gone"}
=============================================================================
