--------------------------- MODULE SessionService ---------------------------
(***************************************************************************)
(* The API side of authentication for one user: the refresh_tokens table,  *)
(* and the requests that create, rotate and revoke sessions, one action    *)
(* per statement they send to the database.                                *)
(***************************************************************************)
EXTENDS Naturals, Sequences, FiniteSets

CONSTANTS
  HttpCalls,     (* requests of one client that go through its interceptor   *)
  StreamCalls,   (* requests of that client that go through stream()         *)
  SignIns,       (* logins of that client                                    *)
  Logins,        (* logins of the user's other devices                       *)
  Logouts,       (* logouts of that client                                   *)
  LogoutAlls,    (* logout-all and change-password requests                  *)
  Revokes,       (* "end this session" on the sessions page                  *)
  MaxSessions,   (* sessions.maxSessionsPerUser                              *)
  MaxEvents      (* bound: requests of the other devices, logouts, reloads   *)
                 (* and expiries of refresh tokens, together                 *)

Calls == HttpCalls \cup StreamCalls

(* A call's own request is answered at once; what it stands for here is    *)
(* the POST /auth/refresh it may send.                                     *)
Requests == Calls \cup SignIns \cup Logins \cup Logouts \cup LogoutAlls
              \cup Revokes

(* Every request is of one kind.                                           *)
ASSUME AuthAssumption ==
  /\ IsFiniteSet(Requests)
  /\ HttpCalls \cap StreamCalls = {}
  /\ Calls \cap (SignIns \cup Logins \cup Logouts \cup LogoutAlls \cup Revokes) = {}
  /\ SignIns \cap (Logins \cup Logouts \cup LogoutAlls \cup Revokes) = {}
  /\ Logins \cap (Logouts \cup LogoutAlls \cup Revokes) = {}
  /\ Logouts \cap (LogoutAlls \cup Revokes) = {}
  /\ LogoutAlls \cap Revokes = {}
  /\ MaxSessions \in Nat \ {0}
  /\ MaxEvents \in Nat

VARIABLES
  rows,    (* refresh_tokens by createdAt; a token is its index              *)
  req,     (* requests the API is serving                                    *)
  events   (* what has been used of MaxEvents                                *)

Reason == {"ROTATION", "LOGOUT", "LOGOUT_ALL", "REUSE_DETECTED",
           "ADMIN_REVOKED"}

(* A row that has expired stays so until it is revoked; a revoked row is   *)
(* taken for revoked whether it has expired or not.                        *)
RowState == Reason \cup {"active", "expired"}

RequestPoint == {"new", "guard", "find", "reuse", "create", "limitFind",
                 "limitRevoke", "revoke", "ok", "denied", "done"}

NoToken == 0

Token == 1..Len(rows)

(* One token at most for every request that can create a session.          *)
MaxTokens == Cardinality(Calls \cup SignIns \cup Logins)

RequestRecord == [pc : RequestPoint, token : 0..MaxTokens,
                  issued : 0..MaxTokens, evict : SUBSET (1..MaxTokens)]

NoRequest == [pc |-> "new", token |-> NoToken, issued |-> NoToken,
              evict |-> {}]

Active == {t \in Token : rows[t] = "active"}

ReqAt(r, pc) == req[r].pc = pc

ReqGoto(r, pc) == req' = [req EXCEPT ![r].pc = pc]

(* A request is over, and nothing of it is kept.                           *)
Finish(r) == req' = [req EXCEPT ![r] = [NoRequest EXCEPT !.pc = "done"]]

Event == events < MaxEvents /\ events' = events + 1

(* updateMany where revokedAt is null: an earlier reason is kept.          *)
RevokeAllRows(reason) ==
  rows' = [t \in Token |->
             IF rows[t] \in {"active", "expired"} THEN reason ELSE rows[t]]

(* update by id: whatever the row says.                                    *)
RevokeById(t, reason) == rows' = [rows EXCEPT ![t] = reason]

-----------------------------------------------------------------------------
(* validateRefreshSession: the row is read here and used at later steps.   *)

(* Mutant of Validated: a revocation is not looked at.                     *)
ValidatedByAge(r, next) ==
  IF rows[req[r].token] = "expired" THEN "denied" ELSE next

Validated(r, next) ==
  CASE rows[req[r].token] \in Reason    -> "reuse"
    [] rows[req[r].token] = "expired"   -> "denied"
    [] rows[req[r].token] = "active"    -> next

validateRefreshSession(r, next) ==
  \/ /\ ReqAt(r, "find")
     /\ ReqGoto(r, Validated(r, next))
     /\ UNCHANGED rows
  \/ /\ ReqAt(r, "reuse")
     /\ RevokeAllRows("REUSE_DETECTED")
     /\ ReqGoto(r, "denied")

(* createSession, up to the step `next` of its caller.                     *)

(* Mutant of Surplus: one session more than configured is let be.          *)
SurplusOffByOne ==
  {t \in Active : Cardinality({u \in Active : u > t}) > MaxSessions}

(* Active rows, newest first, without the first maxSessions.               *)
Surplus == {t \in Active : Cardinality({u \in Active : u > t}) >= MaxSessions}

createSession(r, next) ==
  \/ /\ ReqAt(r, "create")
     /\ rows' = Append(rows, "active")
     /\ req' = [req EXCEPT ![r].pc = "limitFind", ![r].issued = Len(rows) + 1]
  \/ /\ ReqAt(r, "limitFind")
     /\ req' = [req EXCEPT ![r].evict = Surplus,
                           ![r].pc = IF Surplus = {} THEN next
                                     ELSE "limitRevoke"]
     /\ UNCHANGED rows
  \/ /\ ReqAt(r, "limitRevoke")
     /\ rows' = [t \in Token |->
                   IF t \in req[r].evict THEN "ADMIN_REVOKED" ELSE rows[t]]
     /\ req' = [req EXCEPT ![r].evict = {}, ![r].pc = next]

-----------------------------------------------------------------------------
(* rotateSession: nothing locks the row between its steps.                 *)
refresh(r) ==
  \/ validateRefreshSession(r, "create")
  \/ createSession(r, "revoke")
  \/ /\ ReqAt(r, "revoke")
     /\ RevokeById(req[r].token, "ROTATION")
     /\ ReqGoto(r, "ok")

(* The password is right and the user active; the request is at "create"   *)
(* once that has been looked up.                                           *)
login(r) == createSession(r, "ok")

(* logout: JwtAuthGuard has looked at the access token on arrival.         *)
logout(r) ==
  \/ validateRefreshSession(r, "revoke")
  \/ /\ ReqAt(r, "revoke")
     /\ RevokeById(req[r].token, "LOGOUT")
     /\ ReqGoto(r, "ok")

otherLogin(r) ==
  \/ /\ ReqAt(r, "new")
     /\ Event
     /\ ReqGoto(r, "create")
     /\ UNCHANGED rows
  \/ createSession(r, "done") /\ UNCHANGED events

(* logoutAll, and changePassword after it has stored the new hash.         *)
logoutAll(r) ==
  /\ ReqAt(r, "new")
  /\ Event
  /\ RevokeAllRows("LOGOUT_ALL")
  /\ Finish(r)

(* revokeSession: the row is read, and revoked at the next step.           *)
revokeSession(r) ==
  \/ /\ ReqAt(r, "new")
     /\ Event
     /\ \E t \in {u \in Token : rows[u] \notin Reason} :
          req' = [req EXCEPT ![r].pc = "revoke", ![r].token = t]
     /\ UNCHANGED rows
  \/ /\ ReqAt(r, "revoke")
     /\ RevokeById(req[r].token, "LOGOUT")
     /\ Finish(r)
     /\ UNCHANGED events

(* Time passes: a refresh token reaches expiresAt.                         *)
RefreshTokenExpires(t) ==
  /\ rows[t] = "active"
  /\ Event
  /\ rows' = [rows EXCEPT ![t] = "expired"]
  /\ UNCHANGED req

ServerStep(r) ==
  \/ r \in Calls /\ refresh(r) /\ UNCHANGED events
  \/ r \in SignIns /\ login(r) /\ UNCHANGED events
  \/ r \in Logouts /\ logout(r) /\ UNCHANGED events
  \/ r \in Logins /\ otherLogin(r)
  \/ r \in LogoutAlls /\ logoutAll(r)
  \/ r \in Revokes /\ revokeSession(r)
=============================================================================
