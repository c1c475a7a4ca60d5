----------------------------- MODULE AuthProofs -----------------------------
(***************************************************************************)
(* Auth for any number of calls, logins, logouts and sessions: types, the  *)
(* limit on sessions, what the tab presents and holds, and the cut-off.    *)
(***************************************************************************)
EXTENDS Auth, TLAPS, FiniteSetTheorems, SequenceTheorems

(* The points that a request of each kind passes.                          *)
Points(r) ==
  CASE r \in Calls      -> {"new", "find", "reuse", "create", "limitFind",
                            "limitRevoke", "revoke", "ok", "denied", "done"}
    [] r \in SignIns    -> {"new", "create", "limitFind", "limitRevoke", "ok",
                            "done"}
    [] r \in Logins     -> {"new", "create", "limitFind", "limitRevoke", "done"}
    [] r \in Logouts    -> {"new", "find", "reuse", "revoke", "ok", "denied",
                            "done"}
    [] r \in LogoutAlls -> {"new", "done"}
    [] r \in Revokes    -> {"new", "revoke", "done"}

Creators == Calls \cup SignIns \cup Logins

(* The new token of request record x has not reached the tab.              *)
Undelivered(r, x) ==
  r \in Calls \cup SignIns /\ x.pc \in {"limitFind", "limitRevoke", "revoke", "ok"}

(* What the record x of request r says when there are n tokens.            *)
Fine(r, x, n) ==
  /\ x.pc \in Points(r)
  /\ x.token \in 0 .. n /\ x.issued \in 0 .. n /\ x.evict \subseteq 1 .. n
  /\ x.pc \in {"find", "reuse", "create", "limitFind", "limitRevoke", "revoke"}
       => x.token # NoToken \/ r \in SignIns \cup Logins
  /\ Undelivered(r, x) => x.issued # NoToken

RequestsFine == \A r \in Requests : Fine(r, req[r], Len(rows))

TabFine ==
  /\ client.refresh \in 0 .. Len(rows) /\ client.access \in 0 .. Len(rows)
  /\ \A c \in Calls : call[c].used \in 0 .. Len(rows)

(* A call asks for one refresh at most.                                    *)
RefreshesOnce == \A c \in Calls : ~ReqAt(c, "new") => call[c].retried

(* Those that may have made a row.                                         *)
Past ==
  {r \in Creators : req[r].pc \notin {"new", "find", "reuse", "denied", "create"}}

RowsFromRequests == Len(rows) <= Cardinality(Past)

(* Who is over the limit is known to a request that is about to revoke it. *)
EvictionsPending ==
  (\A r \in Requests : ~ReqAt(r, "limitFind")) =>
    \A t \in Surplus :
      \E r \in Requests : ReqAt(r, "limitRevoke") /\ t \in req[r].evict

(* A token that has not reached the tab is nobody else's and not replaced. *)
IssuedApart ==
  \A r \in Requests :
    Undelivered(r, req[r]) =>
      /\ rows[req[r].issued] # "ROTATION"
      /\ client.refresh # req[r].issued
      /\ \A c \in Calls : req[c].token # req[r].issued
      /\ \A s \in Requests :
           s # r /\ Undelivered(s, req[s]) => req[s].issued # req[r].issued

(* The tab holds a replaced token only while the answer is on its way.     *)
RotatedIsAwaited ==
  client.refresh # NoToken /\ rows[client.refresh] = "ROTATION"
    => \E c \in Calls : ReqAt(c, "ok")

Quiet == ~reloaded /\ \A s \in StreamCalls : ~call[s].retried

(* A tab that has not been reloaded shares its one refresh.                *)
RefreshIsShared ==
  Quiet => \A c \in HttpCalls : req[c].pc \notin {"new", "done"} => refreshing = c

Inv ==
  /\ TypeOK
  /\ RequestsFine
  /\ TabFine
  /\ RefreshesOnce
  /\ RowsFromRequests
  /\ EvictionsPending
  /\ IssuedApart
  /\ RotatedIsAwaited
  /\ RefreshIsShared
  /\ PresentsOwnToken

-----------------------------------------------------------------------------
(* Facts about the data.                                                   *)

LEMMA KindsOf ==
  /\ Creators \subseteq Requests
  /\ \A r \in Calls : r \notin SignIns \cup Logins \cup Logouts \cup Revokes
       /\ Points(r) = {"new", "find", "reuse", "create", "limitFind",
                       "limitRevoke", "revoke", "ok", "denied", "done"}
  /\ \A r \in SignIns : r \notin Calls \cup Logins
       /\ Points(r) = {"new", "create", "limitFind", "limitRevoke", "ok", "done"}
  /\ \A r \in Logins : r \notin Calls \cup SignIns
       /\ Points(r) = {"new", "create", "limitFind", "limitRevoke", "done"}
  /\ \A r \in Logouts : r \notin Creators
       /\ Points(r) = {"new", "find", "reuse", "revoke", "ok", "denied", "done"}
  /\ \A r \in LogoutAlls : r \notin Creators /\ Points(r) = {"new", "done"}
  /\ \A r \in Revokes : r \notin Creators /\ Points(r) = {"new", "revoke", "done"}
<1>1. Creators \subseteq Requests
  BY DEF Creators, Requests
<1> QED
  BY <1>1, AuthAssumption, Zenon DEF Points, Creators

LEMMA CreatorsFinite ==
  /\ IsFiniteSet(Creators) /\ MaxTokens = Cardinality(Creators)
  /\ MaxTokens \in Nat
<1>1. IsFiniteSet(Creators)
  BY KindsOf, FS_Subset, AuthAssumption
<1>2. MaxTokens = Cardinality(Creators)
  BY DEF MaxTokens, Creators
<1> QED
  BY <1>1, <1>2, FS_CardinalityType

LEMMA PastFinite ==
  /\ IsFiniteSet(Past) /\ Cardinality(Past) \in Nat
  /\ Cardinality(Past) <= MaxTokens
BY CreatorsFinite, FS_Subset, FS_CardinalityType DEF Past

LEMMA RowsType ==
  ASSUME TypeOK
  PROVE  /\ Len(rows) \in Nat
         /\ \A t \in Token : rows[t] \in RowState /\ t \in Nat /\ t # NoToken
         /\ Active \subseteq Token /\ IsFiniteSet(Active)
<1>1. Len(rows) \in Nat /\ \A t \in Token : rows[t] \in RowState
  BY ElementOfSeq DEF TypeOK, Token
<1>2. IsFiniteSet(Token)
  BY <1>1, FS_Interval DEF Token
<1>3. Active \subseteq Token
  BY DEF Active
<1>4. IsFiniteSet(Active)
  BY <1>2, <1>3, FS_Subset
<1> QED
  BY <1>1, <1>3, <1>4 DEF Token, NoToken

(* Whoever has a newer active token when there are fewer, had it before.   *)
LEMMA SurplusShrinks ==
  ASSUME TypeOK, Active' \subseteq Active
  PROVE  Surplus' \subseteq Surplus
<1> SUFFICES ASSUME NEW t \in Surplus' PROVE t \in Surplus
  OBVIOUS
<1> DEFINE Newer == {u \in Active : u > t}
           NewerThen == {u \in Active' : u > t}
<1>1. t \in Active' /\ Cardinality(NewerThen) >= MaxSessions
  BY DEF Surplus
<1>2. IsFiniteSet(Newer) /\ NewerThen \subseteq Newer
  BY RowsType, FS_Subset
<1>3. /\ Cardinality(NewerThen) <= Cardinality(Newer)
      /\ IsFiniteSet(NewerThen)
  BY <1>2, FS_Subset
<1>4. Cardinality(NewerThen) \in Nat /\ Cardinality(Newer) \in Nat
  BY <1>2, <1>3, FS_CardinalityType
<1>5. Cardinality(Newer) >= MaxSessions
  BY <1>1, <1>3, <1>4, AuthAssumption
<1> QED
  BY <1>1, <1>5 DEF Surplus

(* The number of newer active tokens tells the active tokens apart.        *)
LEMMA NoSurplus ==
  ASSUME TypeOK, Surplus = {}
  PROVE  Cardinality(Active) <= MaxSessions
<1> DEFINE Newer(t) == {u \in Active : u > t}
           f == [t \in Active |-> Cardinality(Newer(t))]
           Counts == 0 .. (MaxSessions - 1)
<1>1. \A t \in Active : /\ IsFiniteSet(Newer(t))
                        /\ Cardinality(Newer(t)) \in Nat
  BY RowsType, FS_Subset, FS_CardinalityType
<1>2. \A t \in Active : Cardinality(Newer(t)) < MaxSessions
  BY <1>1, AuthAssumption DEF Surplus
<1>3. \A t \in Active : Cardinality(Newer(t)) \in Counts
  <2> HIDE DEF Newer
  <2> QED
    BY <1>1, <1>2, AuthAssumption
<1>4. ASSUME NEW t \in Active, NEW u \in Active, t < u
      PROVE  Cardinality(Newer(t)) # Cardinality(Newer(u))
  <2>1. t \in Nat /\ u \in Nat /\ \A v \in Active : v \in Nat
    BY RowsType
  <2>2. \A v \in Active : v > u => v > t
    BY <1>4, <2>1
  <2>3. Newer(u) \subseteq Newer(t)
    BY <2>2
  <2>4. u \in Newer(t) /\ u \notin Newer(u)
    BY <1>4, <2>1
  <2> QED
    BY <1>1, <2>3, <2>4, FS_Subset
<1>5. f \in Injection(Active, Counts)
  <2>1. \A t, u \in Active : t \in Nat /\ u \in Nat
    BY RowsType
  <2>2. \A t, u \in Active :
           Cardinality(Newer(t)) = Cardinality(Newer(u)) => t = u
    <3> SUFFICES ASSUME NEW t \in Active, NEW u \in Active, t # u
                 PROVE  Cardinality(Newer(t)) # Cardinality(Newer(u))
      OBVIOUS
    <3>1. t < u \/ u < t
      BY <2>1
    <3> HIDE DEF Newer
    <3> QED
      BY <3>1, <1>4
  <2>3. f \in [Active -> Counts]
    BY <1>3
  <2>4. \A t, u \in Active : f[t] = f[u] => t = u
    BY <2>2
  <2> HIDE DEF f, Counts
  <2> QED
    BY <2>3, <2>4 DEF Injection, IsInjective
<1>6. IsFiniteSet(Counts) /\ Cardinality(Counts) = MaxSessions
  BY FS_Interval, AuthAssumption
<1> QED
  BY <1>5, <1>6, FS_Injection

-----------------------------------------------------------------------------
(* The invariant at first, and steps of the API that make no row.          *)

LEMMA InitInv == Init => Inv
<1> SUFFICES ASSUME Init PROVE Inv
  OBVIOUS
<1>1. /\ rows = <<>> /\ Len(rows) = 0 /\ Token = {}
      /\ rows \in Seq(RowState) /\ Active = {} /\ Surplus = {}
  <2>1. rows = <<>> /\ Len(rows) = 0 /\ rows \in Seq(RowState)
    BY EmptySeq DEF Init
  <2>2. Token = {}
    BY <2>1 DEF Token
  <2> QED
    BY <2>1, <2>2 DEF Active, Surplus
<1>2. \A r \in Requests : /\ req[r].pc = "new" /\ req[r].token = 0
                          /\ req[r].issued = 0 /\ req[r].evict = {}
  BY DEF Init, NoRequest, NoToken
<1>3. /\ req \in [Requests -> RequestRecord]
      /\ client \in ClientRecord
      /\ call \in [Calls -> CallRecord]
  BY CreatorsFinite DEF Init, NoRequest, RequestRecord, RequestPoint, NoToken,
     SignedOut, ClientRecord, CallRecord, CallPoint
<1>4. TypeOK
  <2>1. Len(rows) <= MaxTokens /\ events \in 0 .. MaxEvents
    BY <1>1, CreatorsFinite, AuthAssumption DEF Init
  <2>2. refreshing = Nobody /\ stale = {} /\ reloaded = FALSE
    BY DEF Init
  <2> QED
    BY <1>1, <1>3, <2>1, <2>2 DEF TypeOK
<1>5. RequestsFine
  <2> SUFFICES ASSUME NEW r \in Requests PROVE Fine(r, req[r], 0)
    BY <1>1 DEF RequestsFine
  <2>1. "new" \in Points(r)
    BY KindsOf DEF Requests
  <2> QED
    BY <1>2, <2>1 DEF Fine, Undelivered
<1>6. TabFine /\ RotatedIsAwaited
  <2>1. client.refresh = 0 /\ client.access = 0 /\ \A c \in Calls : call[c].used = 0
    BY DEF Init, SignedOut, NoToken
  <2> QED
    BY <1>1, <2>1 DEF TabFine, RotatedIsAwaited, NoToken
<1>8. RefreshesOnce /\ RefreshIsShared
  BY <1>2 DEF RefreshesOnce, RefreshIsShared, ReqAt, Calls, Requests
<1>9. IssuedApart
  BY <1>2 DEF IssuedApart, Undelivered
<1>7. RowsFromRequests /\ EvictionsPending /\ PresentsOwnToken
  BY <1>1, <1>2, PastFinite DEF RowsFromRequests, EvictionsPending,
     PresentsOwnToken, ReqAt, Calls, Requests
<1> QED
  BY <1>4, <1>5, <1>6, <1>7, <1>8, <1>9 DEF Inv

LEMMA InvFacts ==
  ASSUME Inv
  PROVE  /\ TypeOK /\ Len(rows) \in Nat
         /\ \A r \in Requests : Fine(r, req[r], Len(rows))
BY RowsType DEF Inv, RequestsFine

(* A record that is fine is of its type.                                   *)
LEMMA FineIsTyped ==
  ASSUME TypeOK, NEW r \in Requests, NEW x, Fine(r, x, Len(rows)),
         x = [pc |-> x.pc, token |-> x.token, issued |-> x.issued,
              evict |-> x.evict]
  PROVE  x \in RequestRecord
<1>1. Len(rows) \in Nat /\ Len(rows) <= MaxTokens /\ MaxTokens \in Nat
  BY RowsType, CreatorsFinite DEF TypeOK
<1>2. /\ x.pc \in Points(r) /\ x.evict \subseteq 1 .. Len(rows)
      /\ x.token \in 0 .. Len(rows) /\ x.issued \in 0 .. Len(rows)
  BY DEF Fine
<1>3. Points(r) \subseteq RequestPoint
  BY KindsOf DEF Requests, RequestPoint
<1>4. /\ x.token \in 0 .. MaxTokens /\ x.issued \in 0 .. MaxTokens
      /\ x.evict \subseteq 1 .. MaxTokens
  BY <1>1, <1>2
<1> QED
  BY <1>2, <1>3, <1>4 DEF RequestRecord

RowsAge ==
  /\ rows' \in Seq(RowState) /\ Len(rows') = Len(rows)
  /\ Active' \subseteq Active

LEMMA ServerAges ==
  ASSUME Inv, NEW r \in Requests, NEW x \in RequestRecord,
         req' = [req EXCEPT ![r] = x], Fine(r, x, Len(rows)),
         RowsAge, UNCHANGED tabVars, events' \in 0 .. MaxEvents,
         x.pc # "new", r \in Calls => x.pc # "find",
         r \in Calls => /\ req[r].pc \notin {"new", "done", "ok"}
                        /\ x.token = req[r].token,
         r \in Past => x.pc \notin {"new", "find", "reuse", "denied", "create"},
         Undelivered(r, x) => /\ Undelivered(r, req[r])
                              /\ x.issued = req[r].issued,
         \A t \in Token : rows'[t] = "ROTATION" =>
            \/ rows[t] = "ROTATION"
            \/ /\ r \in Calls /\ ReqAt(r, "revoke") /\ t = req[r].token
               /\ x.pc = "ok",
         EvictionsPending'
  PROVE  Inv'
<1>1. /\ TypeOK /\ Len(rows) \in Nat /\ Len(rows') = Len(rows) /\ Token' = Token
      /\ \A q \in Requests : Fine(q, req[q], Len(rows))
      /\ rows' \in Seq(RowState)
  BY InvFacts DEF RowsAge, Token
<1>2. /\ UNCHANGED <<client, call, refreshing, stale, reloaded>>
      /\ Quiet' = Quiet
  BY DEF tabVars, Quiet
<1>3. /\ req \in [Requests -> RequestRecord] /\ req' \in [Requests -> RequestRecord]
      /\ req'[r] = x /\ \A q \in Requests : q # r => req'[q] = req[q]
  BY <1>1 DEF TypeOK
<1>4. TypeOK' /\ TabFine'
  BY <1>1, <1>2, <1>3 DEF TypeOK, TabFine, Inv
<1>5. RequestsFine'
  BY <1>1, <1>3 DEF RequestsFine
<1>6. RefreshesOnce'
  BY <1>2, <1>3 DEF Inv, RefreshesOnce, ReqAt, Requests
<1>7. RowsFromRequests'
  <2>1. Past \subseteq Past'
    BY <1>3, KindsOf DEF Past
  <2>2. /\ IsFiniteSet(Past') /\ Cardinality(Past) \in Nat
        /\ Cardinality(Past') \in Nat
    BY <1>3, PastFinite, CreatorsFinite, FS_Subset, FS_CardinalityType DEF Past
  <2>3. Cardinality(Past) <= Cardinality(Past')
    BY <2>1, <2>2, FS_Subset
  <2> QED
    BY <1>1, <2>2, <2>3 DEF Inv, RowsFromRequests
<1>8. IssuedApart'
  <2> SUFFICES ASSUME NEW q \in Requests, Undelivered(q, req'[q])
               PROVE  /\ rows'[req'[q].issued] # "ROTATION"
                      /\ client.refresh # req'[q].issued
                      /\ \A c \in Calls : req'[c].token # req'[q].issued
                      /\ \A s \in Requests :
                           s # q /\ Undelivered(s, req'[s])
                             => req'[s].issued # req'[q].issued
    BY <1>2 DEF IssuedApart
  <2>1. \A s \in Requests : Undelivered(s, req'[s]) =>
          Undelivered(s, req[s]) /\ req'[s].issued = req[s].issued
    BY <1>3
  <2>2. \A c \in Calls : req'[c].token = req[c].token
    BY <1>3 DEF Requests
  <2>3. req[q].issued \in Token
    BY <1>1, <2>1 DEF Fine, Token, NoToken
  <2>4. /\ rows[req[q].issued] # "ROTATION" /\ client.refresh # req[q].issued
        /\ \A c \in Calls : req[c].token # req[q].issued
        /\ \A s \in Requests : s # q /\ Undelivered(s, req[s])
                                 => req[s].issued # req[q].issued
    BY <2>1 DEF Inv, IssuedApart
  <2>5. rows'[req[q].issued] # "ROTATION"
    BY <2>3, <2>4
  <2> QED
    BY <2>1, <2>2, <2>4, <2>5
<1>9. RotatedIsAwaited'
  <2> SUFFICES ASSUME client.refresh # NoToken, rows'[client.refresh] = "ROTATION"
               PROVE  \E c \in Calls : req'[c].pc = "ok"
    BY <1>2 DEF RotatedIsAwaited, ReqAt
  <2>1. client.refresh \in Token
    BY <1>1 DEF Inv, TabFine, Token, NoToken
  <2>2. CASE rows[client.refresh] = "ROTATION"
    BY <1>3, <2>2 DEF Inv, RotatedIsAwaited, ReqAt, Requests
  <2>3. CASE r \in Calls /\ x.pc = "ok"
    BY <1>3, <2>3
  <2> QED
    BY <2>1, <2>2, <2>3
<1>10. Quiet /\ r \in Calls => r \in HttpCalls /\ refreshing = r
  BY DEF Inv, Quiet, RefreshesOnce, RefreshIsShared, ReqAt, Calls
<1>11. RefreshIsShared'
  BY <1>2, <1>3, <1>10 DEF Inv, RefreshIsShared, Calls, Requests
<1>12. PresentsOwnToken'
  <2> SUFFICES ASSUME NEW c \in HttpCalls, req'[c].pc = "find", Quiet,
                      rows'[req'[c].token] = "ROTATION"
               PROVE  FALSE
    BY <1>2 DEF PresentsOwnToken, ReqAt, Quiet
  <2>1. c \in Calls /\ c \in Requests /\ c # r /\ req'[c] = req[c]
    BY <1>3 DEF Calls, Requests
  <2>2. req[c].token \in Token /\ rows[req[c].token] # "ROTATION"
    <3>1. rows[req[c].token] # "ROTATION"
      BY <2>1 DEF Inv, PresentsOwnToken, ReqAt, Quiet
    <3>2. c \notin SignIns \cup Logins /\ Fine(c, req[c], Len(rows))
      BY <1>1, <2>1, KindsOf
    <3> QED
      BY <1>1, <2>1, <3>1, <3>2 DEF Fine, Token, NoToken
  <2>3. r \in Calls
    BY <2>1, <2>2
  <2>4. refreshing = c
    BY <2>1 DEF Inv, RefreshIsShared
  <2> QED
    BY <1>10, <2>1, <2>3, <2>4
<1> QED
  BY <1>4, <1>5, <1>6, <1>7, <1>8, <1>9, <1>11, <1>12 DEF Inv

(* Steps other than those of enforcing the limit leave it as it is.        *)
LEMMA EvictionsStay ==
  ASSUME Inv, NEW r \in Requests, NEW x \in RequestRecord,
         req' = [req EXCEPT ![r] = x], Active' \subseteq Active,
         req[r].pc \notin {"limitFind", "limitRevoke"},
         x.pc \notin {"limitFind", "limitRevoke"}
  PROVE  EvictionsPending'
<1>1. TypeOK /\ Surplus' \subseteq Surplus
  BY SurplusShrinks DEF Inv
<1>2. req'[r] = x /\ \A q \in Requests : q # r => req'[q] = req[q]
  BY <1>1 DEF TypeOK
<1>3. \A q \in Requests :
         /\ req'[q].pc = "limitFind" <=> req[q].pc = "limitFind"
         /\ req[q].pc = "limitRevoke" => q # r
  BY <1>2
<1>4. ASSUME \A q \in Requests : req'[q].pc # "limitFind", NEW t \in Surplus'
      PROVE  \E q \in Requests : req'[q].pc = "limitRevoke" /\ t \in req'[q].evict
  <2>1. PICK q \in Requests : req[q].pc = "limitRevoke" /\ t \in req[q].evict
    BY <1>1, <1>3, <1>4 DEF Inv, EvictionsPending, ReqAt
  <2> QED
    BY <1>2, <1>3, <2>1
<1> QED
  BY <1>4 DEF EvictionsPending, ReqAt

LEMMA RevokesAge ==
  ASSUME TypeOK
  PROVE  /\ \A reason \in Reason : RevokeAllRows(reason) =>
              /\ RowsAge
              /\ Active' = {}
              /\ \A t \in Token : rows'[t] = "ROTATION" =>
                   rows[t] = "ROTATION" \/ reason = "ROTATION"
         /\ \A reason \in Reason \cup {"expired"}, u \in Token :
              rows' = [rows EXCEPT ![u] = reason] =>
                /\ RowsAge
                /\ \A t \in Token : rows'[t] = "ROTATION" =>
                     rows[t] = "ROTATION" \/ (t = u /\ reason = "ROTATION")
         /\ UNCHANGED rows => RowsAge
<1>1. /\ Len(rows) \in Nat /\ rows \in Seq(RowState)
      /\ \A t \in Token : rows[t] \in RowState
  BY RowsType DEF TypeOK
<1>2. ASSUME NEW reason \in Reason, RevokeAllRows(reason)
      PROVE  /\ RowsAge
             /\ Active' = {}
             /\ \A t \in Token : rows'[t] = "ROTATION" =>
                  rows[t] = "ROTATION" \/ reason = "ROTATION"
  <2>1. /\ \A t \in Token : rows'[t] \in RowState /\ rows'[t] # "active"
        /\ rows' \in [1 .. Len(rows) -> RowState]
        /\ \A t \in Token : rows'[t] = "ROTATION" =>
             rows[t] = "ROTATION" \/ reason = "ROTATION"
    BY <1>1, <1>2 DEF RevokeAllRows, RowState, Reason, Token
  <2>2. rows' \in Seq(RowState) /\ Len(rows') = Len(rows)
    <3>1. rows' \in Seq(RowState)
      BY <1>1, <2>1, SeqDef
    <3>2. DOMAIN rows' = 1 .. Len(rows) /\ DOMAIN rows' = 1 .. Len(rows')
            /\ Len(rows') \in Nat
      BY <2>1, <3>1, LenProperties
    <3> QED
      BY <1>1, <3>1, <3>2
  <2>3. Token' = Token /\ Active' = {}
    BY <2>1, <2>2 DEF Token, Active
  <2> QED
    BY <2>1, <2>2, <2>3 DEF RowsAge
<1>3. ASSUME NEW reason \in Reason \cup {"expired"}, NEW u \in Token,
             rows' = [rows EXCEPT ![u] = reason]
      PROVE  /\ RowsAge
             /\ \A t \in Token : rows'[t] = "ROTATION" =>
                  rows[t] = "ROTATION" \/ (t = u /\ reason = "ROTATION")
  <2>1. /\ rows' \in Seq(RowState) /\ Len(rows') = Len(rows)
        /\ \A t \in Token : rows'[t] = IF t = u THEN reason ELSE rows[t]
    BY <1>1, <1>3, ExceptSeq DEF Token, RowState
  <2>2. Token' = Token
    BY <2>1 DEF Token
  <2>3. Active' \subseteq Active
    BY <2>1, <2>2 DEF Active, Reason
  <2> QED
    BY <2>1, <2>3 DEF RowsAge
<1>4. UNCHANGED rows => RowsAge
  BY <1>1 DEF RowsAge, Active, Token
<1> QED
  BY <1>2, <1>3, <1>4

LEMMA RecordChanges ==
  \A x \in RequestRecord, p \in RequestPoint :
    LET y == [x EXCEPT !.pc = p]
    IN  /\ y \in RequestRecord /\ y.pc = p /\ y.token = x.token
        /\ y.issued = x.issued /\ y.evict = x.evict
BY DEF RequestRecord

LEMMA FinishedRecord ==
  LET y == [NoRequest EXCEPT !.pc = "done"]
  IN  /\ y \in RequestRecord /\ y.pc = "done" /\ y.token = 0
      /\ y.issued = 0 /\ y.evict = {}
BY CreatorsFinite DEF NoRequest, RequestRecord, RequestPoint, NoToken

(* A step of request r to the point p, outside the limit.                  *)
LEMMA PointStep ==
  ASSUME Inv, NEW r \in Requests, NEW p \in Points(r),
         ReqGoto(r, p), RowsAge, UNCHANGED tabVars, events' \in 0 .. MaxEvents,
         p \notin {"new", "limitFind", "limitRevoke"},
         req[r].pc \notin {"limitFind", "limitRevoke"},
         r \in Calls => p # "find" /\ req[r].pc \notin {"new", "done", "ok"},
         r \in Past => p \notin {"new", "find", "reuse", "denied", "create"},
         Undelivered(r, [pc |-> p]) => Undelivered(r, req[r]),
         p \in {"find", "reuse", "create", "revoke"}
           => req[r].token # NoToken \/ r \in SignIns \cup Logins,
         \A t \in Token : rows'[t] = "ROTATION" =>
            \/ rows[t] = "ROTATION"
            \/ /\ r \in Calls /\ ReqAt(r, "revoke") /\ t = req[r].token
               /\ p = "ok"
  PROVE  Inv'
<1> DEFINE x == [req[r] EXCEPT !.pc = p]
<1>1. TypeOK /\ Fine(r, req[r], Len(rows)) /\ req[r] \in RequestRecord
  BY InvFacts DEF TypeOK
<1>2. p \in RequestPoint
  BY KindsOf DEF RequestPoint, Requests
<1>3. /\ x \in RequestRecord /\ x.pc = p /\ x.token = req[r].token
      /\ x.issued = req[r].issued /\ x.evict = req[r].evict
  BY <1>1, <1>2, RecordChanges
<1>4. req' = [req EXCEPT ![r] = x]
  BY <1>1 DEF ReqGoto, TypeOK
<1> HIDE DEF x
<1>5. Undelivered(r, x) => Undelivered(r, req[r])
  BY <1>3 DEF Undelivered
<1>6. Fine(r, x, Len(rows))
  BY <1>1, <1>3, <1>5 DEF Fine
<1>7. EvictionsPending'
  BY <1>3, <1>4, EvictionsStay DEF RowsAge
<1> QED
  BY <1>3, <1>4, <1>5, <1>6, <1>7, ServerAges

LEMMA SameEvents == Inv => events \in 0 .. MaxEvents /\ (Event => events' \in 0 .. MaxEvents)
BY AuthAssumption DEF Inv, TypeOK, Event

LEMMA ValidateInv ==
  ASSUME Inv, NEW r \in Calls \cup Logouts,
         NEW next \in {"create", "revoke"}, next \in Points(r),
         r \in Calls => next = "create",
         validateRefreshSession(r, next), UNCHANGED <<tabVars, events>>
  PROVE  Inv'
<1>1. /\ r \in Requests /\ TypeOK /\ Fine(r, req[r], Len(rows))
      /\ events' \in 0 .. MaxEvents
      /\ UNCHANGED tabVars
  BY InvFacts, SameEvents DEF Requests
<1>2. /\ r \notin SignIns \cup Logins
      /\ {"reuse", "denied"} \subseteq Points(r)
      /\ req[r].pc \in {"find", "reuse"} => r \notin Past
  BY KindsOf DEF Past
<1>3. CASE ReqAt(r, "find") /\ ReqGoto(r, Validated(r, next)) /\ UNCHANGED rows
  <2>1. req[r].token \in Token /\ req[r].token # NoToken
    BY <1>1, <1>2, <1>3, RowsType DEF Fine, ReqAt, Token, NoToken
  <2>2. Validated(r, next) \in {"reuse", "denied", next}
    <3>1. rows[req[r].token] \in Reason \cup {"active", "expired"}
      BY <1>1, <2>1, RowsType DEF RowState
    <3> QED
      BY <3>1 DEF Validated, Reason
  <2>3. RowsAge
    BY <1>1, <1>3, RevokesAge
  <2>4. PICK p \in {"reuse", "denied", next} : ReqGoto(r, p)
    BY <1>3, <2>2 DEF ReqGoto
  <2>5. p \in Points(r) /\ ~Undelivered(r, [pc |-> p])
    BY <1>2, KindsOf DEF Undelivered
  <2> QED
    BY <1>1, <1>2, <1>3, <2>1, <2>3, <2>4, <2>5, PointStep DEF ReqAt
<1>4. CASE ReqAt(r, "reuse") /\ RevokeAllRows("REUSE_DETECTED")
             /\ ReqGoto(r, "denied")
  <2>1. RowsAge /\ \A t \in Token : rows'[t] = "ROTATION" => rows[t] = "ROTATION"
    BY <1>1, <1>4, RevokesAge DEF Reason
  <2> QED
    BY <1>1, <1>2, <1>4, <2>1, PointStep DEF ReqAt, Undelivered
<1> QED
  BY <1>3, <1>4 DEF validateRefreshSession

LEMMA CreatedRecord ==
  \A y \in RequestRecord, m \in Nat :
    LET z == [y EXCEPT !.pc = "limitFind", !.issued = m]
    IN  /\ z.pc = "limitFind" /\ z.issued = m /\ z.token = y.token
        /\ z.evict = y.evict
        /\ m \in 0 .. MaxTokens => z \in RequestRecord
BY DEF RequestRecord, RequestPoint

LEMMA CreateInv ==
  ASSUME Inv, NEW r \in Creators, ReqAt(r, "create"),
         rows' = Append(rows, "active"),
         req' = [req EXCEPT ![r].pc = "limitFind", ![r].issued = Len(rows) + 1],
         UNCHANGED <<tabVars, events>>
  PROVE  Inv'
<1> DEFINE n == Len(rows)
           x == [req[r] EXCEPT !.pc = "limitFind", !.issued = n + 1]
<1>1. /\ TypeOK /\ n \in Nat /\ r \in Requests
      /\ \A q \in Requests : Fine(q, req[q], n)
      /\ req[r] \in RequestRecord
      /\ UNCHANGED <<client, call, refreshing, stale, reloaded, events>>
      /\ Quiet' = Quiet
  BY InvFacts, KindsOf DEF TypeOK, tabVars, Quiet
<1>2. /\ rows' \in Seq(RowState) /\ Len(rows') = n + 1
      /\ \A t \in Token : rows'[t] = rows[t]
      /\ rows'[n + 1] = "active"
  BY <1>1, AppendProperties DEF TypeOK, RowState, Token
<1>3. req' = [req EXCEPT ![r] = x]
  BY <1>1 DEF TypeOK
<1>4. /\ x.pc = "limitFind" /\ x.issued = n + 1
      /\ x.token = req[r].token /\ x.evict = req[r].evict
      /\ n + 1 \in 0 .. MaxTokens => x \in RequestRecord
  <2>1. n + 1 \in Nat
    BY <1>1
  <2> QED
    BY ONLY <1>1, <2>1, CreatedRecord DEF x
<1> HIDE DEF x
<1>5. /\ req'[r] = x /\ \A q \in Requests : q # r => req'[q] = req[q]
      /\ DOMAIN req' = Requests
  BY <1>1, <1>3 DEF TypeOK
<1>6. Past' = Past \cup {r} /\ r \notin Past
  BY <1>4, <1>5, KindsOf DEF Past, ReqAt
<1>7. RowsFromRequests' /\ Len(rows') <= MaxTokens
  <2>1. Cardinality(Past') = Cardinality(Past) + 1
    BY <1>6, PastFinite, FS_AddElement
  <2>2. Past' \subseteq Creators
    BY <1>6 DEF Past
  <2>3. Cardinality(Past') <= MaxTokens
    BY <2>2, CreatorsFinite, FS_Subset
  <2> QED
    BY <1>1, <1>2, <2>1, <2>3, PastFinite, CreatorsFinite
       DEF Inv, RowsFromRequests
<1>8. RequestsFine'
  <2>1. \A q \in Requests : Fine(q, req[q], n + 1)
    BY <1>1 DEF Fine
  <2>2. "limitFind" \in Points(r)
    BY KindsOf DEF Creators
  <2>3. Fine(r, x, n + 1)
    BY <1>1, <1>4, <2>1, <2>2 DEF Fine, NoToken, ReqAt
  <2> QED
    BY <1>2, <1>5, <2>1, <2>3 DEF RequestsFine
<1>9. x \in RequestRecord
  BY <1>1, <1>2, <1>4, <1>7, CreatorsFinite
<1>10. Token' = 1 .. (n + 1) /\ Token \subseteq Token'
  BY <1>1, <1>2 DEF Token
<1>11. TypeOK' /\ TabFine'
  <2>1. req' \in [Requests -> RequestRecord]
    BY <1>1, <1>3, <1>9 DEF TypeOK
  <2>2. TabFine'
    BY <1>1, <1>2 DEF Inv, TabFine
  <2> QED
    BY <1>1, <1>2, <1>7, <1>10, <2>1, <2>2 DEF TypeOK
<1>12. RefreshesOnce'
  BY <1>1, <1>5 DEF Inv, RefreshesOnce, ReqAt, Requests
<1>13. EvictionsPending'
  BY <1>1, <1>4, <1>5 DEF EvictionsPending, ReqAt
<1>14. \A c \in Calls : req'[c].token = req[c].token
  BY <1>4, <1>5 DEF Requests
<1>15. IssuedApart'
  <2> SUFFICES ASSUME NEW q \in Requests, Undelivered(q, req'[q])
               PROVE  /\ rows'[req'[q].issued] # "ROTATION"
                      /\ client.refresh # req'[q].issued
                      /\ \A c \in Calls : req'[c].token # req'[q].issued
                      /\ \A s \in Requests :
                           s # q /\ Undelivered(s, req'[s])
                             => req'[s].issued # req'[q].issued
    BY <1>1 DEF IssuedApart
  <2>1. \A s \in Requests : s # r => req[s].issued # n + 1
    BY <1>1 DEF Fine
  <2>2. client.refresh # n + 1 /\ \A c \in Calls : req[c].token # n + 1
    BY <1>1 DEF Inv, TabFine, Fine, Requests
  <2>3. CASE q = r
    <3>1. req'[q].issued = n + 1
      BY <1>4, <1>5, <2>3
    <3>2. rows'[n + 1] # "ROTATION"
      BY <1>2
    <3>3. \A s \in Requests : s # q => req'[s].issued # n + 1
      BY <1>5, <2>1, <2>3
    <3> QED
      BY <1>14, <2>2, <3>1, <3>2, <3>3
  <2>4. CASE q # r
    <3>1. Undelivered(q, req[q]) /\ req'[q] = req[q]
      BY <1>5, <2>4
    <3>2. req[q].issued \in Token
      BY <1>1, <3>1 DEF Fine, Token, NoToken
    <3>3. /\ rows[req[q].issued] # "ROTATION" /\ client.refresh # req[q].issued
          /\ \A c \in Calls : req[c].token # req[q].issued
          /\ \A s \in Requests : s # q /\ Undelivered(s, req[s])
                                   => req[s].issued # req[q].issued
      BY <3>1 DEF Inv, IssuedApart
    <3>4. \A s \in Requests : s # q /\ Undelivered(s, req'[s])
                                 => req'[s].issued # req[q].issued
      BY <1>4, <1>5, <2>1, <2>4, <3>3
    <3> QED
      BY <1>2, <1>14, <3>1, <3>2, <3>3, <3>4
  <2> QED
    BY <2>3, <2>4
<1>16. RotatedIsAwaited'
  <2> SUFFICES ASSUME client.refresh # NoToken, rows'[client.refresh] = "ROTATION"
               PROVE  \E c \in Calls : req'[c].pc = "ok"
    BY <1>1 DEF RotatedIsAwaited, ReqAt
  <2>1. client.refresh \in Token
    BY <1>1 DEF Inv, TabFine, Token, NoToken
  <2>2. PICK c \in Calls : req[c].pc = "ok"
    BY <1>2, <2>1 DEF Inv, RotatedIsAwaited, ReqAt
  <2> QED
    BY <1>5, <2>2 DEF ReqAt, Requests
<1>17. RefreshIsShared'
  BY <1>1, <1>4, <1>5 DEF Inv, RefreshIsShared, ReqAt, Calls, Requests
<1>18. PresentsOwnToken'
  <2> SUFFICES ASSUME NEW c \in HttpCalls, req'[c].pc = "find", Quiet,
                      rows'[req'[c].token] = "ROTATION"
               PROVE  FALSE
    BY <1>1 DEF PresentsOwnToken, ReqAt, Quiet
  <2>1. c \in Calls /\ c \in Requests /\ c # r /\ req'[c] = req[c]
    BY <1>4, <1>5 DEF Calls, Requests
  <2>2. c \notin SignIns \cup Logins
    BY <2>1, KindsOf
  <2>3. req[c].token \in Token
    BY <1>1, <2>1, <2>2 DEF Fine, Token, NoToken
  <2> QED
    BY <1>2, <2>1, <2>3 DEF Inv, PresentsOwnToken, ReqAt, Quiet
<1> QED
  BY <1>7, <1>8, <1>11, <1>12, <1>13, <1>15, <1>16, <1>17, <1>18 DEF Inv

LEMMA LimitRecords ==
  \A y \in RequestRecord, e \in SUBSET (1 .. MaxTokens), p \in RequestPoint :
    LET z == [y EXCEPT !.evict = e, !.pc = p]
    IN  /\ z.pc = p /\ z.evict = e /\ z.token = y.token
        /\ z.issued = y.issued /\ z \in RequestRecord
BY DEF RequestRecord

(* The points after the limit.                                             *)
LimitNext(r, next) ==
  \/ r \in Calls /\ next = "revoke"
  \/ r \in SignIns /\ next = "ok"
  \/ r \in Logins /\ next = "done"

LEMMA LimitStep ==
  ASSUME Inv, NEW r \in Creators, NEW next, LimitNext(r, next),
         NEW p \in {next, "limitRevoke"}, NEW e \in SUBSET (1 .. Len(rows)),
         req[r].pc \in {"limitFind", "limitRevoke"},
         req' = [req EXCEPT ![r].evict = e, ![r].pc = p],
         RowsAge, UNCHANGED <<tabVars, events>>,
         \A t \in Token : rows'[t] = "ROTATION" => rows[t] = "ROTATION",
         \A t \in Surplus' :
            \/ p = "limitRevoke" /\ t \in e
            \/ /\ \A q \in Requests : q # r => ~ReqAt(q, "limitFind")
               => \E q \in Requests :
                    q # r /\ ReqAt(q, "limitRevoke") /\ t \in req[q].evict
  PROVE  Inv'
<1> DEFINE x == [req[r] EXCEPT !.evict = e, !.pc = p]
<1>1. /\ r \in Requests /\ TypeOK /\ Fine(r, req[r], Len(rows))
      /\ req[r] \in RequestRecord /\ events' \in 0 .. MaxEvents
      /\ UNCHANGED tabVars
      /\ Len(rows) \in Nat /\ Len(rows) <= MaxTokens /\ MaxTokens \in Nat
  BY InvFacts, SameEvents, KindsOf, CreatorsFinite DEF TypeOK
<1>2. e \in SUBSET (1 .. MaxTokens) /\ p \in RequestPoint
  BY <1>1 DEF RequestPoint, LimitNext
<1>3. /\ x.pc = p /\ x.evict = e /\ x.token = req[r].token
      /\ x.issued = req[r].issued /\ x \in RequestRecord
  BY ONLY <1>1, <1>2, LimitRecords DEF x
<1>4. req' = [req EXCEPT ![r] = x]
  BY <1>1 DEF TypeOK
<1> HIDE DEF x
<1>5. p \in Points(r) /\ p # "new" /\ p \notin {"find", "reuse", "denied", "create"}
        /\ p # "limitFind"
  BY KindsOf DEF LimitNext
<1>6. Undelivered(r, x) => Undelivered(r, req[r])
  BY DEF Undelivered
<1>7. Fine(r, x, Len(rows))
  BY <1>1, <1>3, <1>5, <1>6 DEF Fine
<1>8. req'[r] = x /\ \A q \in Requests : q # r => req'[q] = req[q]
  BY <1>1, <1>4 DEF TypeOK
<1>9. EvictionsPending'
  <2> SUFFICES ASSUME \A q \in Requests : req'[q].pc # "limitFind",
                      NEW t \in Surplus'
               PROVE  \E q \in Requests :
                        req'[q].pc = "limitRevoke" /\ t \in req'[q].evict
    BY DEF EvictionsPending, ReqAt
  <2>1. CASE p = "limitRevoke" /\ t \in e
    BY <1>1, <1>3, <1>8, <2>1
  <2>2. CASE ~(p = "limitRevoke" /\ t \in e)
    <3>1. \A q \in Requests : q # r => ~ReqAt(q, "limitFind")
      BY <1>8 DEF ReqAt
    <3>2. PICK q \in Requests :
             q # r /\ ReqAt(q, "limitRevoke") /\ t \in req[q].evict
      BY <2>2, <3>1
    <3> QED
      BY <1>8, <3>2 DEF ReqAt
  <2> QED
    BY <2>1, <2>2
<1>10. r \in Calls => x.pc # "find" /\ req[r].pc \notin {"new", "done", "ok"}
                        /\ x.token = req[r].token
  BY <1>3, <1>5
<1> QED
  BY <1>1, <1>3, <1>4, <1>5, <1>6, <1>7, <1>9, <1>10, ServerAges

LEMMA CreateSessionInv ==
  ASSUME Inv, NEW r \in Creators, NEW next, LimitNext(r, next),
         createSession(r, next), UNCHANGED <<tabVars, events>>
  PROVE  Inv'
<1>1. TypeOK /\ r \in Requests /\ Fine(r, req[r], Len(rows)) /\ Len(rows) \in Nat
  BY InvFacts, KindsOf
<1>2. CASE /\ ReqAt(r, "create")
           /\ rows' = Append(rows, "active")
           /\ req' = [req EXCEPT ![r].pc = "limitFind", ![r].issued = Len(rows) + 1]
  BY <1>2, CreateInv
<1>3. CASE /\ ReqAt(r, "limitFind")
           /\ req' = [req EXCEPT ![r].evict = Surplus,
                                 ![r].pc = IF Surplus = {} THEN next
                                           ELSE "limitRevoke"]
           /\ UNCHANGED rows
  <2>1. Surplus \in SUBSET (1 .. Len(rows))
    BY <1>1, RowsType DEF Surplus, Token
  <2>2. PICK e \in SUBSET (1 .. Len(rows)), p \in {next, "limitRevoke"} :
           /\ e = Surplus /\ p = IF Surplus = {} THEN next ELSE "limitRevoke"
           /\ req' = [req EXCEPT ![r].evict = e, ![r].pc = p]
    BY <1>3, <2>1
  <2>3. RowsAge /\ Surplus' = Surplus
    BY <1>1, <1>3, RevokesAge DEF Surplus, Active, Token
  <2>4. \A t \in Surplus' : p = "limitRevoke" /\ t \in e
    BY <2>2, <2>3
  <2>5. \A t \in Token : rows'[t] = "ROTATION" => rows[t] = "ROTATION"
    BY <1>3
  <2> QED
    BY <1>3, <2>2, <2>3, <2>4, <2>5, LimitStep DEF ReqAt
<1>4. CASE /\ ReqAt(r, "limitRevoke")
           /\ rows' = [t \in Token |->
                         IF t \in req[r].evict THEN "ADMIN_REVOKED" ELSE rows[t]]
           /\ req' = [req EXCEPT ![r].evict = {}, ![r].pc = next]
  <2>1. /\ \A t \in Token : rows[t] \in RowState
        /\ rows \in Seq(RowState)
    BY <1>1, RowsType DEF TypeOK
  <2>2. /\ rows' \in [1 .. Len(rows) -> RowState]
        /\ \A t \in Token : /\ rows'[t] = "ROTATION" => rows[t] = "ROTATION"
                            /\ rows'[t] = "active" =>
                                 rows[t] = "active" /\ t \notin req[r].evict
    BY <1>4, <2>1 DEF RowState, Reason, Token
  <2>3. rows' \in Seq(RowState) /\ Len(rows') = Len(rows)
    <3>1. rows' \in Seq(RowState)
      BY <1>1, <2>2, SeqDef
    <3>2. /\ DOMAIN rows' = 1 .. Len(rows) /\ DOMAIN rows' = 1 .. Len(rows')
          /\ Len(rows') \in Nat
      BY <2>2, <3>1, LenProperties
    <3> QED
      BY <1>1, <3>1, <3>2
  <2>4. Token' = Token
    BY <2>3 DEF Token
  <2>5. Active' \subseteq Active /\ \A t \in Active' : t \notin req[r].evict
    BY <2>2, <2>4 DEF Active
  <2>6. RowsAge /\ Surplus' \subseteq Surplus /\ Surplus' \subseteq Active'
    BY <1>1, <2>3, <2>5, SurplusShrinks DEF RowsAge, Surplus
  <2>7. ASSUME NEW t \in Surplus', \A q \in Requests : q # r => ~ReqAt(q, "limitFind")
        PROVE  \E q \in Requests :
                 q # r /\ ReqAt(q, "limitRevoke") /\ t \in req[q].evict
    <3>1. \A q \in Requests : ~ReqAt(q, "limitFind")
      BY <1>4, <2>7 DEF ReqAt
    <3>2. t \in Surplus /\ t \notin req[r].evict
      BY <2>5, <2>6, <2>7
    <3> QED
      BY <3>1, <3>2 DEF Inv, EvictionsPending
  <2>8. PICK e \in SUBSET (1 .. Len(rows)), p \in {next, "limitRevoke"} :
           req' = [req EXCEPT ![r].evict = e, ![r].pc = p]
    BY <1>4
  <2>9. \A t \in Token : rows'[t] = "ROTATION" => rows[t] = "ROTATION"
    BY <2>2
  <2>10. req[r].pc \in {"limitFind", "limitRevoke"}
    BY <1>4 DEF ReqAt
  <2> QED
    BY <2>6, <2>7, <2>8, <2>9, <2>10, LimitStep
<1> QED
  BY <1>2, <1>3, <1>4 DEF createSession

(* A revoke by id.                                                         *)
LEMMA RevokeByIdAges ==
  ASSUME Inv, NEW r \in Requests, r \in Calls \cup Logouts \cup Revokes,
         ReqAt(r, "revoke"), NEW reason \in Reason,
         RevokeById(req[r].token, reason)
  PROVE  /\ req[r].token \in Token
         /\ RowsAge
         /\ \A t \in Token : rows'[t] = "ROTATION" =>
              rows[t] = "ROTATION" \/ (t = req[r].token /\ reason = "ROTATION")
<1>1. TypeOK /\ Fine(r, req[r], Len(rows)) /\ Len(rows) \in Nat
  BY InvFacts
<1>2. r \notin SignIns \cup Logins
  BY KindsOf DEF Creators
<1>3. req[r].token \in Token
  BY <1>1, <1>2 DEF Fine, ReqAt, Token, NoToken
<1>4. PICK u \in Token : u = req[r].token /\ rows' = [rows EXCEPT ![u] = reason]
  BY <1>3 DEF RevokeById
<1> QED
  BY <1>1, <1>3, <1>4, RevokesAge

(* A request of another device ends.                                       *)
LEMMA FinishStep ==
  ASSUME Inv, NEW r \in LogoutAlls \cup Revokes, Finish(r), RowsAge,
         UNCHANGED tabVars, events' \in 0 .. MaxEvents,
         \A t \in Token : rows'[t] = "ROTATION" => rows[t] = "ROTATION"
  PROVE  Inv'
<1> DEFINE x == [NoRequest EXCEPT !.pc = "done"]
<1>1. /\ x \in RequestRecord /\ x.pc = "done" /\ x.token = 0
      /\ x.issued = 0 /\ x.evict = {}
      /\ req' = [req EXCEPT ![r] = x]
  BY FinishedRecord DEF Finish
<1> HIDE DEF x
<1>2. /\ r \in Requests /\ r \notin Creators /\ "done" \in Points(r)
      /\ TypeOK /\ Len(rows) \in Nat /\ Fine(r, req[r], Len(rows))
  BY KindsOf, InvFacts DEF Requests
<1>3. r \notin Calls \cup SignIns /\ r \notin Past
  BY <1>2 DEF Creators, Past
<1>4. Fine(r, x, Len(rows)) /\ ~Undelivered(r, x)
  BY <1>1, <1>2, <1>3 DEF Fine, Undelivered
<1>5. req[r].pc \notin {"limitFind", "limitRevoke"}
  BY <1>2, KindsOf DEF Fine
<1>6. EvictionsPending'
  BY <1>1, <1>2, <1>5, EvictionsStay DEF RowsAge
<1> QED
  BY <1>1, <1>2, <1>3, <1>4, <1>6, ServerAges

-----------------------------------------------------------------------------
(* Every step of the API.                                                  *)

LEMMA RefreshInv ==
  ASSUME Inv, NEW r \in Calls, refresh(r), UNCHANGED <<tabVars, events>>
  PROVE  Inv'
<1>1. /\ r \in Requests /\ r \in Creators
      /\ "create" \in Points(r) /\ "ok" \in Points(r)
      /\ LimitNext(r, "revoke") /\ UNCHANGED tabVars
      /\ events' \in 0 .. MaxEvents
  BY KindsOf, SameEvents DEF Creators, Requests, LimitNext
<1>2. CASE validateRefreshSession(r, "create")
  BY <1>1, <1>2, ValidateInv
<1>3. CASE createSession(r, "revoke")
  BY <1>1, <1>3, CreateSessionInv
<1>4. CASE /\ ReqAt(r, "revoke")
           /\ RevokeById(req[r].token, "ROTATION")
           /\ ReqGoto(r, "ok")
  <2>1. /\ RowsAge
        /\ \A t \in Token : rows'[t] = "ROTATION" =>
             rows[t] = "ROTATION" \/ t = req[r].token
    BY <1>1, <1>4, RevokeByIdAges DEF Reason
  <2>2. Undelivered(r, req[r])
    BY <1>4 DEF Undelivered, ReqAt
  <2> QED
    BY <1>1, <1>4, <2>1, <2>2, PointStep DEF ReqAt
<1> QED
  BY <1>2, <1>3, <1>4 DEF refresh

LEMMA LogoutInv ==
  ASSUME Inv, NEW r \in Logouts, logout(r), UNCHANGED <<tabVars, events>>
  PROVE  Inv'
<1>1. /\ r \in Requests /\ r \notin Creators
      /\ "revoke" \in Points(r) /\ "ok" \in Points(r)
      /\ UNCHANGED tabVars /\ events' \in 0 .. MaxEvents
  BY KindsOf, SameEvents DEF Requests
<1>2. r \notin Calls \cup SignIns /\ r \notin Past
  BY <1>1 DEF Creators, Past
<1>3. CASE validateRefreshSession(r, "revoke")
  BY <1>1, <1>2, <1>3, ValidateInv
<1>4. CASE /\ ReqAt(r, "revoke")
           /\ RevokeById(req[r].token, "LOGOUT")
           /\ ReqGoto(r, "ok")
  <2>1. /\ RowsAge
        /\ \A t \in Token : rows'[t] = "ROTATION" => rows[t] = "ROTATION"
    BY <1>1, <1>4, RevokeByIdAges DEF Reason
  <2>2. ~Undelivered(r, [pc |-> "ok"])
    BY <1>2 DEF Undelivered
  <2> QED
    BY <1>1, <1>2, <1>4, <2>1, <2>2, PointStep DEF ReqAt
<1> QED
  BY <1>3, <1>4 DEF logout

LEMMA OtherLoginInv ==
  ASSUME Inv, NEW r \in Logins, otherLogin(r), UNCHANGED tabVars
  PROVE  Inv'
<1>1. /\ r \in Requests /\ r \in Creators /\ r \notin Calls \cup SignIns
      /\ "create" \in Points(r) /\ LimitNext(r, "done") /\ TypeOK
  BY KindsOf, InvFacts DEF Creators, Requests, LimitNext
<1>2. CASE ReqAt(r, "new") /\ Event /\ ReqGoto(r, "create") /\ UNCHANGED rows
  <2>1. RowsAge /\ events' \in 0 .. MaxEvents
    BY <1>1, <1>2, RevokesAge, SameEvents
  <2>2. r \notin Past /\ ~Undelivered(r, [pc |-> "create"])
    BY <1>1, <1>2 DEF Past, ReqAt, Undelivered
  <2> QED
    BY <1>1, <1>2, <2>1, <2>2, PointStep DEF ReqAt
<1>3. CASE createSession(r, "done") /\ UNCHANGED events
  BY <1>1, <1>3, CreateSessionInv
<1> QED
  BY <1>2, <1>3 DEF otherLogin

LEMMA RevokeSessionInv ==
  ASSUME Inv, NEW r \in Revokes, revokeSession(r), UNCHANGED tabVars
  PROVE  Inv'
<1>1. /\ r \in Requests /\ r \notin Creators
      /\ Points(r) = {"new", "revoke", "done"}
      /\ TypeOK /\ Len(rows) \in Nat /\ MaxTokens \in Nat
      /\ Fine(r, req[r], Len(rows)) /\ req[r] \in RequestRecord
      /\ events \in 0 .. MaxEvents /\ Len(rows) <= MaxTokens
  BY KindsOf, InvFacts, SameEvents, CreatorsFinite DEF Requests, TypeOK
<1>2. r \notin Calls \cup SignIns /\ r \notin Past
  BY <1>1 DEF Creators, Past
<1>3. ASSUME ReqAt(r, "new"), Event, NEW t \in Token,
             req' = [req EXCEPT ![r].pc = "revoke", ![r].token = t],
             UNCHANGED rows
      PROVE  Inv'
  <2> DEFINE x == [req[r] EXCEPT !.pc = "revoke", !.token = t]
  <2>1. t \in 0 .. MaxTokens /\ t \in 1 .. Len(rows) /\ t # 0
    BY <1>1 DEF Token
  <2>2. /\ x \in RequestRecord /\ x.pc = "revoke" /\ x.token = t
        /\ x.issued = req[r].issued /\ x.evict = req[r].evict
    BY <1>1, <2>1 DEF RequestRecord, RequestPoint
  <2>3. req' = [req EXCEPT ![r] = x]
    BY <1>1, <1>3 DEF TypeOK
  <2> HIDE DEF x
  <2>4. ~Undelivered(r, x)
    BY <1>2 DEF Undelivered
  <2>5. Fine(r, x, Len(rows))
    BY <1>1, <2>1, <2>2, <2>4 DEF Fine, NoToken
  <2>6. RowsAge /\ events' \in 0 .. MaxEvents
    BY <1>1, <1>3, RevokesAge, SameEvents
  <2>7. EvictionsPending'
    BY <1>1, <1>3, <2>2, <2>3, <2>6, EvictionsStay DEF RowsAge, ReqAt
  <2>8. \A u \in Token : rows'[u] = "ROTATION" => rows[u] = "ROTATION"
    BY <1>3
  <2> QED
    BY <1>1, <1>2, <2>2, <2>3, <2>4, <2>5, <2>6, <2>7, <2>8, ServerAges
<1>4. CASE /\ ReqAt(r, "revoke")
           /\ RevokeById(req[r].token, "LOGOUT")
           /\ Finish(r)
           /\ UNCHANGED events
  <2>1. /\ RowsAge
        /\ \A t \in Token : rows'[t] = "ROTATION" => rows[t] = "ROTATION"
    BY <1>1, <1>4, RevokeByIdAges DEF Reason
  <2> QED
    BY <1>1, <1>4, <2>1, FinishStep
<1> QED
  BY <1>3, <1>4 DEF revokeSession

LEMMA ServerInv ==
  ASSUME Inv, NEW r \in Requests, Server(r)
  PROVE  Inv'
<1>1. UNCHANGED tabVars /\ ServerStep(r) /\ TypeOK
  BY InvFacts DEF Server
<1>2. CASE r \in Calls /\ refresh(r) /\ UNCHANGED events
  BY <1>1, <1>2, RefreshInv
<1>3. CASE r \in SignIns /\ login(r) /\ UNCHANGED events
  <2>1. r \in Creators /\ LimitNext(r, "ok") /\ createSession(r, "ok")
    BY <1>3 DEF Creators, LimitNext, login
  <2> QED
    BY <1>1, <1>3, <2>1, CreateSessionInv
<1>4. CASE r \in Logouts /\ logout(r) /\ UNCHANGED events
  BY <1>1, <1>4, LogoutInv
<1>5. CASE r \in Logins /\ otherLogin(r)
  BY <1>1, <1>5, OtherLoginInv
<1>6. CASE r \in LogoutAlls /\ logoutAll(r)
  <2>1. /\ RowsAge /\ Finish(r) /\ events' \in 0 .. MaxEvents
        /\ \A t \in Token : rows'[t] = "ROTATION" => rows[t] = "ROTATION"
    BY <1>1, <1>6, RevokesAge, SameEvents DEF logoutAll, Reason
  <2> QED
    BY <1>1, <1>6, <2>1, FinishStep
<1>7. CASE r \in Revokes /\ revokeSession(r)
  BY <1>1, <1>7, RevokeSessionInv
<1> QED
  BY <1>1, <1>2, <1>3, <1>4, <1>5, <1>6, <1>7 DEF ServerStep

-----------------------------------------------------------------------------
(* Steps of the tab.                                                       *)

TabRecord(n) == [refresh : 0 .. n, access : 0 .. n, handler : BOOLEAN]

CallOf(n) == [pc : CallPoint, used : 0 .. n, retried : BOOLEAN]

CallsOf(n) == [Calls -> CallOf(n)]

LEMMA TabTyped ==
  ASSUME Inv
  PROVE  client \in TabRecord(Len(rows)) /\ call \in CallsOf(Len(rows))
<1>1. client \in ClientRecord /\ call \in [Calls -> CallRecord] /\ TabFine
  BY DEF Inv, TypeOK
<1>2. client \in TabRecord(Len(rows))
  BY <1>1 DEF TabFine, TabRecord, ClientRecord
<1>3. \A c \in Calls : call[c] \in CallOf(Len(rows))
  BY <1>1 DEF TabFine, CallRecord, CallOf
<1> QED
  BY <1>1, <1>2, <1>3 DEF CallsOf

LEMMA TabStaysTyped ==
  ASSUME Inv, UNCHANGED rows,
         client' \in TabRecord(Len(rows)), call' \in CallsOf(Len(rows)),
         req' \in [Requests -> RequestRecord], events' \in 0 .. MaxEvents,
         refreshing' \in HttpCalls \cup {Nobody}, stale' \subseteq Token,
         reloaded' \in BOOLEAN
  PROVE  TypeOK' /\ TabFine'
<1>1. /\ TypeOK /\ Len(rows) \in Nat /\ Len(rows) <= MaxTokens
      /\ MaxTokens \in Nat
  BY InvFacts, CreatorsFinite DEF TypeOK
<1>2. 0 .. Len(rows) \subseteq 0 .. MaxTokens
  BY <1>1
<1>3. client' \in ClientRecord
  BY <1>2 DEF TabRecord, ClientRecord
<1>4. call' \in [Calls -> CallRecord]
  BY <1>2 DEF CallsOf, CallOf, CallRecord
<1>5. TypeOK'
  BY <1>1, <1>3, <1>4 DEF TypeOK, Token
<1>6. TabFine'
  BY DEF TabFine, TabRecord, CallsOf, CallOf
<1> QED
  BY <1>5, <1>6

(* A step that leaves the requests alone, and the refresh token too.       *)
LEMMA TabAlone ==
  ASSUME Inv, UNCHANGED <<rows, req>>, client'.refresh = client.refresh,
         client' \in TabRecord(Len(rows)), call' \in CallsOf(Len(rows)),
         events' \in 0 .. MaxEvents,
         refreshing' \in HttpCalls \cup {Nobody}, stale' \subseteq Token,
         reloaded' \in BOOLEAN, reloaded => reloaded',
         reloaded' \/ refreshing' = refreshing,
         \A c \in Calls : call[c].retried => call'[c].retried
  PROVE  Inv'
<1>1. TypeOK' /\ TabFine'
  BY TabStaysTyped DEF Inv, TypeOK
<1>2. Quiet' => Quiet /\ refreshing' = refreshing
  BY DEF Quiet, Calls
<1>3. RequestsFine' /\ RowsFromRequests' /\ EvictionsPending'
  BY DEF Inv, RequestsFine, RowsFromRequests, Past, EvictionsPending, Surplus,
     Active, Token, ReqAt
<1>4. RefreshesOnce'
  BY DEF Inv, RefreshesOnce, ReqAt
<1>5. IssuedApart'
  BY DEF Inv, IssuedApart
<1>6. RotatedIsAwaited'
  BY DEF Inv, RotatedIsAwaited, ReqAt
<1>7. RefreshIsShared'
  BY <1>2 DEF Inv, RefreshIsShared
<1>8. PresentsOwnToken'
  BY <1>2 DEF Inv, PresentsOwnToken, ReqAt, Quiet
<1> QED
  BY <1>1, <1>3, <1>4, <1>5, <1>6, <1>7, <1>8 DEF Inv

(* A step that sends request r or takes its answer.                        *)
LEMMA TabRequest ==
  ASSUME Inv, NEW r \in Requests, NEW x \in RequestRecord,
         req' = [req EXCEPT ![r] = x], UNCHANGED <<rows, stale, reloaded>>,
         Fine(r, x, Len(rows)),
         req[r].pc \in {"new", "ok", "denied"},
         x.pc \in {"create", "find", "denied", "done"},
         req[r].pc = "ok" => x.pc = "done",
         r \in Calls => x.token \in {NoToken, client.refresh},
         client' \in TabRecord(Len(rows)), call' \in CallsOf(Len(rows)),
         refreshing' \in HttpCalls \cup {Nobody}, events' \in 0 .. MaxEvents,
         \/ client'.refresh = client.refresh /\ ~(r \in Calls /\ ReqAt(r, "ok"))
         \/ client'.refresh = NoToken
         \/ Undelivered(r, req[r]) /\ client'.refresh = req[r].issued,
         RefreshesOnce', RefreshIsShared', PresentsOwnToken'
  PROVE  Inv'
<1>1. /\ TypeOK /\ req \in [Requests -> RequestRecord] /\ Len(rows) \in Nat
      /\ \A q \in Requests : Fine(q, req[q], Len(rows))
  BY InvFacts DEF TypeOK
<1>2. /\ req' \in [Requests -> RequestRecord]
      /\ req'[r] = x /\ \A q \in Requests : q # r => req'[q] = req[q]
  BY <1>1
<1>3. TypeOK' /\ TabFine'
  BY <1>1, <1>2, TabStaysTyped DEF TypeOK
<1>4. RequestsFine'
  BY <1>1, <1>2 DEF RequestsFine
<1>5. RowsFromRequests'
  <2>1. Past \subseteq Past'
    BY <1>2, KindsOf DEF Past
  <2>2. /\ IsFiniteSet(Past') /\ Cardinality(Past) \in Nat
        /\ Cardinality(Past') \in Nat
    BY PastFinite, CreatorsFinite, FS_Subset, FS_CardinalityType DEF Past
  <2>3. Cardinality(Past) <= Cardinality(Past')
    BY <2>1, <2>2, FS_Subset
  <2> QED
    BY <1>1, <2>2, <2>3 DEF Inv, RowsFromRequests
<1>6. EvictionsPending'
  <2>1. Active' \subseteq Active
    BY DEF Active, Token
  <2> QED
    BY <1>2, <2>1, EvictionsStay
<1>7. IssuedApart'
  <2> SUFFICES ASSUME NEW q \in Requests, Undelivered(q, req'[q])
               PROVE  /\ rows[req'[q].issued] # "ROTATION"
                      /\ client'.refresh # req'[q].issued
                      /\ \A c \in Calls : req'[c].token # req'[q].issued
                      /\ \A s \in Requests :
                           s # q /\ Undelivered(s, req'[s])
                             => req'[s].issued # req'[q].issued
    BY DEF IssuedApart
  <2>1. ~Undelivered(r, x)
    BY DEF Undelivered
  <2>2. \A s \in Requests : Undelivered(s, req'[s]) =>
          s # r /\ req'[s] = req[s] /\ Undelivered(s, req[s])
    BY <1>2, <2>1
  <2>3. req[q].issued # NoToken
    BY <1>1, <2>2 DEF Fine
  <2>4. /\ rows[req[q].issued] # "ROTATION" /\ client.refresh # req[q].issued
        /\ \A c \in Calls : req[c].token # req[q].issued
        /\ \A s \in Requests : s # q /\ Undelivered(s, req[s])
                                 => req[s].issued # req[q].issued
    BY <2>2 DEF Inv, IssuedApart
  <2>5. client'.refresh # req[q].issued
    BY <2>2, <2>3, <2>4
  <2>6. \A c \in Calls : req'[c].token # req[q].issued
    BY <1>2, <2>3, <2>4 DEF Requests
  <2> QED
    BY <2>2, <2>4, <2>5, <2>6
<1>8. RotatedIsAwaited'
  <2> SUFFICES ASSUME client'.refresh # NoToken, rows[client'.refresh] = "ROTATION"
               PROVE  \E c \in Calls : req'[c].pc = "ok"
    BY DEF RotatedIsAwaited, ReqAt
  <2>1. ~(Undelivered(r, req[r]) /\ client'.refresh = req[r].issued)
    BY DEF Inv, IssuedApart
  <2>2. client'.refresh = client.refresh /\ ~(r \in Calls /\ ReqAt(r, "ok"))
    BY <2>1
  <2>3. PICK c \in Calls : ReqAt(c, "ok")
    BY <2>2 DEF Inv, RotatedIsAwaited
  <2> QED
    BY <1>2, <2>2, <2>3 DEF ReqAt, Requests
<1> QED
  BY <1>3, <1>4, <1>5, <1>6, <1>7, <1>8 DEF Inv

(* A request that is none of the tab's calls.                              *)
LEMMA CallsUntouched ==
  ASSUME Inv, NEW r \in Requests, r \notin Calls, NEW x,
         req' = [req EXCEPT ![r] = x],
         UNCHANGED <<rows, call, refreshing, reloaded>>
  PROVE  RefreshesOnce' /\ RefreshIsShared' /\ PresentsOwnToken'
<1>1. \A c \in Calls : req'[c] = req[c]
  BY DEF Inv, TypeOK, Requests
<1>2. RefreshesOnce'
  BY <1>1 DEF Inv, RefreshesOnce, ReqAt
<1>3. RefreshIsShared'
  BY <1>1 DEF Inv, RefreshIsShared, Quiet, Calls
<1>4. PresentsOwnToken'
  BY <1>1 DEF Inv, PresentsOwnToken, ReqAt, Calls
<1> QED
  BY <1>2, <1>3, <1>4

LEMMA SentRecord ==
  \A y \in RequestRecord, t \in 0 .. MaxTokens, p \in RequestPoint :
    LET z == [y EXCEPT !.pc = p, !.token = t]
    IN  /\ z.pc = p /\ z.token = t /\ z.evict = y.evict
        /\ z.issued = y.issued /\ z \in RequestRecord
BY DEF RequestRecord

LEMMA SendLoginInv == ASSUME Inv, NEW r \in SignIns, SendLogin(r) PROVE Inv'
<1> DEFINE x == [req[r] EXCEPT !.pc = "create"]
<1>1. /\ r \in Requests /\ r \notin Calls /\ "create" \in Points(r)
      /\ TypeOK /\ Fine(r, req[r], Len(rows)) /\ req[r] \in RequestRecord
      /\ client \in TabRecord(Len(rows)) /\ call \in CallsOf(Len(rows))
  BY KindsOf, InvFacts, TabTyped DEF Requests, TypeOK
<1>2. /\ x \in RequestRecord /\ x.pc = "create" /\ x.token = req[r].token
      /\ x.issued = req[r].issued /\ x.evict = req[r].evict
  BY <1>1, RecordChanges DEF RequestPoint
<1>3. /\ req' = [req EXCEPT ![r] = x] /\ req[r].pc = "new"
      /\ UNCHANGED <<rows, call, refreshing, stale, reloaded, events>>
  BY <1>1 DEF SendLogin, ReqGoto, ReqAt, TypeOK
<1>4. client'.refresh = client.refresh /\ client' \in TabRecord(Len(rows))
  BY <1>1 DEF SendLogin, TabRecord
<1> HIDE DEF x
<1>5. Fine(r, x, Len(rows))
  BY <1>1, <1>2 DEF Fine, Undelivered
<1>6. RefreshesOnce' /\ RefreshIsShared' /\ PresentsOwnToken'
  BY <1>1, <1>3, CallsUntouched
<1>7. /\ refreshing' \in HttpCalls \cup {Nobody} /\ events' \in 0 .. MaxEvents
      /\ call' \in CallsOf(Len(rows))
  BY <1>1, <1>3 DEF TypeOK
<1> QED
  BY <1>1, <1>2, <1>3, <1>4, <1>5, <1>6, <1>7, TabRequest

(* The answer to request r has come, and the request is over.              *)
LEMMA FinishFacts ==
  ASSUME Inv, NEW r \in Calls \cup SignIns \cup Logouts, Finish(r)
  PROVE  \E x \in RequestRecord :
           /\ req' = [req EXCEPT ![r] = x] /\ Fine(r, x, Len(rows))
           /\ x.pc = "done" /\ x.token = NoToken
<1> DEFINE x == [NoRequest EXCEPT !.pc = "done"]
<1>1. /\ x \in RequestRecord /\ x.pc = "done" /\ x.token = 0
      /\ x.issued = 0 /\ x.evict = {}
      /\ req' = [req EXCEPT ![r] = x]
  BY FinishedRecord DEF Finish
<1> HIDE DEF x
<1>2. "done" \in Points(r) /\ Len(rows) \in Nat
  BY KindsOf, InvFacts
<1>3. Fine(r, x, Len(rows))
  BY <1>1, <1>2 DEF Fine, Undelivered
<1> QED
  BY <1>1, <1>3 DEF NoToken

LEMMA LoginReplyInv == ASSUME Inv, NEW r \in SignIns, LoginReply(r) PROVE Inv'
<1>1. /\ r \in Requests /\ r \notin Calls
      /\ TypeOK /\ Fine(r, req[r], Len(rows)) /\ req[r].pc = "ok"
      /\ client \in TabRecord(Len(rows)) /\ call \in CallsOf(Len(rows))
  BY KindsOf, InvFacts, TabTyped DEF Requests, TypeOK, LoginReply, ReqAt
<1>2. /\ UNCHANGED <<rows, call, refreshing, stale, reloaded, events>>
      /\ client' = [client EXCEPT !.refresh = req[r].issued,
                                  !.access = req[r].issued]
  BY DEF LoginReply
<1>3. PICK x \in RequestRecord :
         /\ req' = [req EXCEPT ![r] = x] /\ Fine(r, x, Len(rows))
         /\ x.pc = "done" /\ x.token = NoToken
  BY FinishFacts DEF LoginReply
<1>4. client'.refresh = req[r].issued /\ client' \in TabRecord(Len(rows))
  BY <1>1, <1>2 DEF TabRecord, Fine
<1>5. Undelivered(r, req[r])
  BY <1>1 DEF Undelivered
<1>6. RefreshesOnce' /\ RefreshIsShared' /\ PresentsOwnToken'
  BY <1>1, <1>2, <1>3, CallsUntouched
<1>7. /\ refreshing' \in HttpCalls \cup {Nobody} /\ events' \in 0 .. MaxEvents
      /\ call' \in CallsOf(Len(rows))
  BY <1>1, <1>2 DEF TypeOK
<1> QED
  BY <1>1, <1>2, <1>3, <1>4, <1>5, <1>6, <1>7, TabRequest

LEMMA SendLogoutInv == ASSUME Inv, NEW r \in Logouts, SendLogout(r) PROVE Inv'
<1>1. /\ r \in Requests /\ r \notin Calls /\ r \notin SignIns
      /\ {"denied", "find"} \subseteq Points(r)
      /\ TypeOK /\ Fine(r, req[r], Len(rows)) /\ req[r] \in RequestRecord
      /\ client \in TabRecord(Len(rows)) /\ call \in CallsOf(Len(rows))
      /\ req[r].pc = "new" /\ client.refresh # NoToken
      /\ events' \in 0 .. MaxEvents
  BY KindsOf, InvFacts, TabTyped, SameEvents
     DEF Requests, Creators, TypeOK, SendLogout, ReqAt
<1>2. UNCHANGED <<rows, client, call, refreshing, stale, reloaded>>
  BY DEF SendLogout, tabVars
<1>3. PICK p \in {"denied", "find"}, t \in 0 .. MaxTokens :
         /\ t = client.refresh
         /\ req' = [req EXCEPT ![r].token = t, ![r].pc = p]
  BY <1>1 DEF SendLogout, TypeOK, ClientRecord
<1> DEFINE x == [req[r] EXCEPT !.pc = p, !.token = t]
<1>4. /\ x \in RequestRecord /\ x.pc = p /\ x.token = t
      /\ x.issued = req[r].issued /\ x.evict = req[r].evict
  <2>1. p \in RequestPoint /\ req[r] \in RequestRecord
    BY <1>1 DEF RequestPoint
  <2>2. t \in 0 .. MaxTokens
    OBVIOUS
  <2>3. LET z == [req[r] EXCEPT !.pc = p, !.token = t]
        IN  /\ z.pc = p /\ z.token = t /\ z.evict = req[r].evict
            /\ z.issued = req[r].issued /\ z \in RequestRecord
    BY ONLY <2>1, <2>2, SentRecord, Zenon
  <2> QED
    BY ONLY <2>1, <2>2, <2>3, Zenon DEF x
<1>5. req' = [req EXCEPT ![r] = x]
  BY <1>1, <1>3 DEF TypeOK
<1> HIDE DEF x
<1>6. t \in 0 .. Len(rows) /\ t # NoToken
  BY <1>1, <1>3 DEF TabRecord
<1>7. Fine(r, x, Len(rows))
  BY <1>1, <1>4, <1>6 DEF Fine, Undelivered
<1>8. RefreshesOnce' /\ RefreshIsShared' /\ PresentsOwnToken'
  BY <1>1, <1>2, <1>5, CallsUntouched
<1>9. /\ refreshing' \in HttpCalls \cup {Nobody}
      /\ call' \in CallsOf(Len(rows)) /\ client' \in TabRecord(Len(rows))
  BY <1>1, <1>2 DEF TypeOK
<1> QED
  BY <1>1, <1>2, <1>4, <1>5, <1>7, <1>8, <1>9, TabRequest

LEMMA SignedOutType ==
  ASSUME TypeOK
  PROVE  SignedOut \in TabRecord(Len(rows)) /\ SignedOut.refresh = NoToken
BY RowsType DEF SignedOut, TabRecord, NoToken

LEMMA LogoutReplyInv == ASSUME Inv, NEW r \in Logouts, LogoutReply(r) PROVE Inv'
<1>1. /\ r \in Requests /\ r \notin Calls /\ r \notin SignIns
      /\ TypeOK /\ req[r].pc \in {"ok", "denied"}
      /\ call \in CallsOf(Len(rows))
  BY KindsOf, InvFacts, TabTyped DEF Requests, Creators, TypeOK, LogoutReply
<1>2. /\ UNCHANGED <<rows, call, refreshing, stale, reloaded, events>>
      /\ client' \in TabRecord(Len(rows)) /\ client'.refresh = NoToken
  BY <1>1, SignedOutType DEF LogoutReply
<1>3. PICK x \in RequestRecord :
         /\ req' = [req EXCEPT ![r] = x] /\ Fine(r, x, Len(rows))
         /\ x.pc = "done" /\ x.token = NoToken
  BY FinishFacts DEF LogoutReply
<1>4. RefreshesOnce' /\ RefreshIsShared' /\ PresentsOwnToken'
  BY <1>1, <1>2, <1>3, CallsUntouched
<1>5. /\ refreshing' \in HttpCalls \cup {Nobody} /\ events' \in 0 .. MaxEvents
      /\ call' \in CallsOf(Len(rows))
  BY <1>1, <1>2 DEF TypeOK
<1> QED
  BY <1>1, <1>2, <1>3, <1>4, <1>5, TabRequest

-----------------------------------------------------------------------------
(* The calls of the tab.                                                   *)

LEMMA CallRecordChanges ==
  \A n \in Nat : \A y \in CallOf(n), p \in CallPoint, m \in 0 .. n :
    LET u == [y EXCEPT !.pc = p]
        v == [y EXCEPT !.pc = p, !.retried = TRUE]
        w == [y EXCEPT !.used = m, !.pc = p]
    IN  /\ u \in CallOf(n) /\ v \in CallOf(n) /\ w \in CallOf(n)
        /\ u.retried = y.retried /\ w.retried = y.retried /\ v.retried
BY DEF CallOf

LEMMA SendInv ==
  ASSUME Inv, NEW c \in Calls, Send(c) \/ Resend(c) \/ GiveUp(c)
  PROVE  Inv'
<1>1. /\ TypeOK /\ Len(rows) \in Nat /\ client \in TabRecord(Len(rows))
      /\ call \in CallsOf(Len(rows))
  BY InvFacts, TabTyped
<1>2. UNCHANGED <<rows, req, client, refreshing, stale, reloaded, events>>
  BY DEF Send, Resend, GiveUp
<1>3. \A t : Answer(t) \in CallPoint
  BY DEF Answer, CallPoint
<1>4. PICK p \in CallPoint, m \in {0} :
         \/ call' = [call EXCEPT ![c].pc = p]
         \/ call' = [call EXCEPT ![c].used = m, ![c].pc = p]
  <2>1. CASE Send(c)
    BY <1>3, <2>1 DEF Send
  <2>2. CASE Resend(c)
    BY <1>3, <2>2 DEF Resend, NoToken
  <2>3. CASE GiveUp(c)
    BY <2>3 DEF GiveUp, CallPoint
  <2> QED
    BY <2>1, <2>2, <2>3
<1> DEFINE n == Len(rows)
           u == [call[c] EXCEPT !.pc = p]
           w == [call[c] EXCEPT !.used = m, !.pc = p]
<1>5. call[c] \in CallOf(n) /\ n \in Nat /\ m \in 0 .. n
  BY <1>1 DEF CallsOf
<1> HIDE DEF n
<1>6. /\ u \in CallOf(n) /\ w \in CallOf(n)
      /\ u.retried = call[c].retried /\ w.retried = call[c].retried
  <2>1. p \in CallPoint
    OBVIOUS
  <2>2. LET v == [call[c] EXCEPT !.pc = p]
            z == [call[c] EXCEPT !.used = m, !.pc = p]
        IN  /\ v \in CallOf(n) /\ z \in CallOf(n)
            /\ v.retried = call[c].retried /\ z.retried = call[c].retried
    <3>1. \A y \in CallOf(n), q \in CallPoint, k \in 0 .. n :
             LET v == [y EXCEPT !.pc = q]
                 z == [y EXCEPT !.used = k, !.pc = q]
             IN  /\ v \in CallOf(n) /\ z \in CallOf(n)
                 /\ v.retried = y.retried /\ z.retried = y.retried
      BY <1>5 DEF CallOf
    <3> QED
      BY ONLY <1>5, <2>1, <3>1, Zenon
  <2> QED
    BY ONLY <2>2, Zenon DEF u, w
<1>7. call' = [call EXCEPT ![c] = u] \/ call' = [call EXCEPT ![c] = w]
  BY <1>1, <1>4 DEF CallsOf
<1> HIDE DEF u, w
<1>8. /\ call' \in CallsOf(Len(rows))
      /\ \A d \in Calls : call'[d].retried = call[d].retried
  BY <1>1, <1>6, <1>7 DEF CallsOf, n
<1> QED
  BY <1>1, <1>2, <1>8, TabAlone DEF TypeOK

LEMMA RefreshesInv == ASSUME Inv, NEW c \in Calls, Refreshes(c) PROVE Inv'
<1>1. /\ TypeOK /\ Len(rows) \in Nat /\ client \in TabRecord(Len(rows))
      /\ call \in CallsOf(Len(rows)) /\ c \in Requests
      /\ Fine(c, req[c], Len(rows)) /\ req[c] \in RequestRecord
      /\ refreshing \in HttpCalls \cup {Nobody} /\ events \in 0 .. MaxEvents
      /\ stale \subseteq Token /\ reloaded \in BOOLEAN
  BY InvFacts, TabTyped DEF TypeOK, Requests
<1>2. /\ UNCHANGED <<rows, client, stale, reloaded, events>>
      /\ call' = [call EXCEPT ![c].pc = "waiting", ![c].retried = TRUE]
      /\ ~call[c].retried
  BY DEF Refreshes, MayRefresh
<1>3. /\ call' \in CallsOf(Len(rows))
      /\ \A d \in Calls : call'[d].retried = (d = c \/ call[d].retried)
  <2> DEFINE n == Len(rows)
             p == "waiting"
             v == [call[c] EXCEPT !.pc = p, !.retried = TRUE]
  <2>1. /\ call[c] \in CallOf(n) /\ n \in Nat /\ p \in CallPoint
        /\ \E m \in 0 .. n : TRUE
    BY <1>1 DEF CallsOf, CallPoint
  <2>2. call' = [call EXCEPT ![c] = v]
    BY <1>1, <1>2 DEF CallsOf
  <2> HIDE DEF n, p
  <2>3. v \in CallOf(n) /\ v.retried
    BY ONLY <2>1, CallRecordChanges, Zenon DEF v
  <2> HIDE DEF v
  <2>4. call' \in CallsOf(Len(rows))
    BY <1>1, <2>2, <2>3 DEF CallsOf, n
  <2>5. call'[c].retried = TRUE /\ \A d \in Calls : d # c => call'[d] = call[d]
    BY <1>1, <2>2, <2>3 DEF CallsOf, CallOf
  <2>6. \A d \in Calls : call[d].retried \in BOOLEAN
    BY <1>1 DEF CallsOf, CallOf
  <2> QED
    BY <2>4, <2>5, <2>6
<1>4. req[c].pc = "new"
  BY <1>2 DEF Inv, RefreshesOnce, ReqAt
<1>5. CASE UNCHANGED <<req, refreshing>>
  BY <1>1, <1>2, <1>3, <1>5, TabAlone
<1>6. CASE /\ client.refresh # NoToken
           /\ CallsHandler(c)
           /\ \/ c \in HttpCalls /\ refreshing = Nobody /\ refreshing' = c
              \/ c \in StreamCalls /\ UNCHANGED refreshing
  <2>1. PICK t \in 0 .. MaxTokens :
           /\ t = client.refresh
           /\ req' = [req EXCEPT ![c].pc = "find", ![c].token = t]
    BY <1>1, <1>6 DEF CallsHandler, TypeOK, ClientRecord
  <2> DEFINE x == [req[c] EXCEPT !.pc = "find", !.token = t]
  <2>2. /\ x \in RequestRecord /\ x.pc = "find" /\ x.token = t
        /\ x.issued = req[c].issued /\ x.evict = req[c].evict
    <3> DEFINE p == "find"
    <3>1. req[c] \in RequestRecord /\ p \in RequestPoint
      BY <1>1 DEF RequestPoint
    <3> HIDE DEF p
    <3>2. LET z == [req[c] EXCEPT !.pc = p, !.token = t]
          IN  /\ z.pc = p /\ z.token = t /\ z.evict = req[c].evict
              /\ z.issued = req[c].issued /\ z \in RequestRecord
      BY ONLY <3>1, t \in 0 .. MaxTokens, SentRecord, Zenon
    <3> QED
      BY <3>2 DEF p
  <2>3. req' = [req EXCEPT ![c] = x]
    BY <1>1, <2>1 DEF TypeOK
  <2> HIDE DEF x
  <2>4. t \in 0 .. Len(rows) /\ t # NoToken
    BY <1>1, <1>6, <2>1 DEF TabRecord
  <2>5. Fine(c, x, Len(rows))
    <3>1. "find" \in Points(c)
      BY KindsOf
    <3> QED
      BY <1>1, <2>2, <2>4, <3>1 DEF Fine, Undelivered
  <2>6. req'[c] = x /\ \A d \in Requests : d # c => req'[d] = req[d]
    BY <1>1, <2>3 DEF TypeOK
  <2>7. RefreshesOnce'
    BY <1>3, <2>6 DEF Inv, RefreshesOnce, ReqAt, Requests
  <2>8. Quiet' => Quiet /\ c \in HttpCalls /\ refreshing = Nobody /\ refreshing' = c
    BY <1>2, <1>3, <1>6 DEF Quiet, Calls
  <2>9. Quiet => \A d \in HttpCalls :
                    req[d].pc \notin {"new", "done"} => refreshing # Nobody
    BY ApiClientAssumption DEF Inv, RefreshIsShared, Calls
  <2>10. RefreshIsShared'
    BY <2>6, <2>8, <2>9 DEF RefreshIsShared, Calls, Requests
  <2>11. Quiet' => rows[t] # "ROTATION"
    <3> SUFFICES ASSUME Quiet', rows[t] = "ROTATION" PROVE FALSE
      OBVIOUS
    <3>1. PICK d \in Calls : req[d].pc = "ok"
      BY <2>1, <2>4 DEF Inv, RotatedIsAwaited, ReqAt
    <3>2. Quiet /\ refreshing = Nobody
      BY <2>8
    <3>3. d \in HttpCalls
      BY <3>1, <3>2 DEF Inv, RefreshesOnce, ReqAt, Quiet, Calls
    <3> QED
      BY <2>9, <3>1, <3>2, <3>3
  <2>12. PresentsOwnToken'
    <3> SUFFICES ASSUME NEW d \in HttpCalls, req'[d].pc = "find", Quiet',
                        rows[req'[d].token] = "ROTATION"
                 PROVE  FALSE
      BY <1>2 DEF PresentsOwnToken, ReqAt, Quiet
    <3>1. CASE d = c
      BY <2>2, <2>6, <2>11, <3>1
    <3>2. CASE d # c
      BY <2>6, <2>8, <3>2 DEF Inv, PresentsOwnToken, ReqAt, Quiet, Calls, Requests
    <3> QED
      BY <3>1, <3>2
  <2>13. refreshing' \in HttpCalls \cup {Nobody}
    BY <1>1, <1>6
  <2> QED
    BY <1>1, <1>2, <1>3, <1>4, <2>1, <2>2, <2>3, <2>5, <2>7, <2>10, <2>12, <2>13,
       TabRequest DEF ReqAt
<1> QED
  BY <1>5, <1>6 DEF Refreshes

(* An answer to the refresh of call c.                                     *)
LEMMA AnswerInv ==
  ASSUME Inv, NEW c \in Calls, RefreshGranted(c) \/ RefreshDenied(c)
  PROVE  Inv'
<1>1. /\ TypeOK /\ Len(rows) \in Nat /\ client \in TabRecord(Len(rows))
      /\ call \in CallsOf(Len(rows)) /\ c \in Requests
      /\ Fine(c, req[c], Len(rows)) /\ req[c] \in RequestRecord
      /\ refreshing \in HttpCalls \cup {Nobody} /\ events \in 0 .. MaxEvents
  BY InvFacts, TabTyped DEF TypeOK, Requests
<1>2. /\ UNCHANGED <<rows, stale, reloaded, events>> /\ Finish(c)
      /\ refreshing' = IF c \in HttpCalls THEN Nobody ELSE refreshing
      /\ req[c].pc \in {"ok", "denied"}
  BY DEF RefreshGranted, RefreshDenied, AfterRefresh, ReqAt
<1>3. PICK x \in RequestRecord :
         /\ req' = [req EXCEPT ![c] = x] /\ Fine(c, x, Len(rows))
         /\ x.pc = "done" /\ x.token = NoToken
  BY <1>2, FinishFacts
<1>4. /\ call' \in CallsOf(Len(rows))
      /\ \A d \in Calls : call'[d].retried = call[d].retried
  <2>1. \A y \in CallOf(Len(rows)), m \in 0 .. Len(rows) :
           LET z == [y EXCEPT !.pc = "sent", !.used = m]
               w == [y EXCEPT !.pc = "failed"]
           IN  /\ z \in CallOf(Len(rows)) /\ w \in CallOf(Len(rows))
               /\ z.retried = y.retried /\ w.retried = y.retried
    BY DEF CallPoint, CallOf
  <2>2. req[c].issued \in 0 .. Len(rows)
    BY <1>1 DEF Fine
  <2>3. CASE RefreshGranted(c)
    BY <1>1, <2>1, <2>2, <2>3 DEF RefreshGranted, CallsOf
  <2>4. CASE RefreshDenied(c)
    BY <1>1, <2>1, <2>2, <2>4 DEF RefreshDenied, CallsOf
  <2> QED
    BY <2>3, <2>4
<1>5. /\ client' \in TabRecord(Len(rows))
      /\ \/ client'.refresh = NoToken
         \/ Undelivered(c, req[c]) /\ client'.refresh = req[c].issued
  <2>1. CASE RefreshGranted(c)
    BY <1>1, <2>1 DEF RefreshGranted, TabRecord, Fine, Undelivered, ReqAt
  <2>2. CASE RefreshDenied(c)
    BY <1>1, <2>2, SignedOutType DEF RefreshDenied
  <2> QED
    BY <2>1, <2>2
<1>6. req'[c] = x /\ \A d \in Requests : d # c => req'[d] = req[d]
  BY <1>1, <1>3 DEF TypeOK
<1>7. Quiet' = Quiet
  BY <1>2, <1>4 DEF Quiet, Calls
<1>8. RefreshesOnce'
  BY <1>2, <1>4, <1>6 DEF Inv, RefreshesOnce, ReqAt, Requests
<1>9. Quiet => c \in HttpCalls /\ refreshing = c
  BY <1>2 DEF Inv, Quiet, RefreshesOnce, RefreshIsShared, ReqAt, Calls
<1>10. RefreshIsShared'
  BY <1>3, <1>6, <1>7, <1>9 DEF Inv, RefreshIsShared, Calls, Requests
<1>11. PresentsOwnToken'
  BY <1>2, <1>3, <1>4, <1>6 DEF Inv, PresentsOwnToken, ReqAt, Calls, Requests
<1>12. refreshing' \in HttpCalls \cup {Nobody}
  BY <1>1, <1>2
<1> QED
  BY <1>1, <1>2, <1>3, <1>4, <1>5, <1>8, <1>10, <1>11, <1>12, TabRequest

LEMMA ReloadInv == ASSUME Inv, Reload PROVE Inv'
<1>1. /\ TypeOK /\ client \in TabRecord(Len(rows)) /\ call \in CallsOf(Len(rows))
      /\ Len(rows) \in Nat
  BY InvFacts, TabTyped
<1>2. /\ UNCHANGED <<rows, req, stale>> /\ reloaded' = TRUE
      /\ refreshing' = Nobody /\ events' \in 0 .. MaxEvents
  BY SameEvents DEF Reload
<1>3. client'.refresh = client.refresh /\ client' \in TabRecord(Len(rows))
  BY <1>1 DEF Reload, TabRecord
<1>4. \A y \in CallOf(Len(rows)), m \in 0 .. Len(rows) :
         LET z == [y EXCEPT !.pc = "gone", !.used = m]
         IN  z \in CallOf(Len(rows)) /\ z.retried = y.retried
  BY DEF CallPoint, CallOf
<1>5. /\ call' \in CallsOf(Len(rows))
      /\ \A c \in Calls : call'[c].retried = call[c].retried
  <2>1. NoToken \in 0 .. Len(rows)
    BY <1>1 DEF NoToken
  <2> QED
    BY <1>1, <1>4, <2>1 DEF Reload, CallsOf
<1> QED
  BY <1>1, <1>2, <1>3, <1>5, TabAlone DEF TypeOK

LEMMA TimeInv == ASSUME Inv, Time PROVE Inv'
<1>1. /\ TypeOK /\ client \in TabRecord(Len(rows)) /\ call \in CallsOf(Len(rows))
      /\ Len(rows) \in Nat
  BY InvFacts, TabTyped
<1>2. ASSUME NEW t \in Token, AccessTokenExpires(t) PROVE Inv'
  <2>1. /\ UNCHANGED <<rows, req, client, call, refreshing, reloaded, events>>
        /\ stale' \subseteq Token
    BY <1>1, <1>2 DEF AccessTokenExpires, TypeOK
  <2> QED
    BY <1>1, <2>1, TabAlone DEF TypeOK
<1>3. ASSUME NEW t \in Token, RefreshTokenExpires(t), UNCHANGED tabVars
      PROVE  Inv'
  <2>1. /\ UNCHANGED <<req, client, call, refreshing, stale, reloaded>>
        /\ rows' = [rows EXCEPT ![t] = "expired"] /\ events' \in 0 .. MaxEvents
    BY <1>3, SameEvents DEF RefreshTokenExpires, tabVars
  <2>2. /\ RowsAge
        /\ \A u \in Token : rows'[u] = "ROTATION" => rows[u] = "ROTATION"
    <3>1. PICK reason \in {"expired"} : rows' = [rows EXCEPT ![t] = reason]
      BY <2>1
    <3>2. reason \in Reason \cup {"expired"} /\ reason # "ROTATION"
      OBVIOUS
    <3> QED
      BY <1>1, <3>1, <3>2, RevokesAge
  <2>3. Token' = Token /\ Len(rows') = Len(rows)
    BY <2>2 DEF RowsAge, Token
  <2>4. TypeOK' /\ TabFine' /\ RequestsFine'
    <3>1. TypeOK'
      BY <1>1, <2>1, <2>2, <2>3 DEF TypeOK, RowsAge
    <3>2. TabFine' /\ RequestsFine'
      BY <2>1, <2>3 DEF Inv, TabFine, RequestsFine
    <3> QED
      BY <3>1, <3>2
  <2>5. RefreshesOnce' /\ RefreshIsShared'
    BY <2>1 DEF Inv, RefreshesOnce, RefreshIsShared, Quiet, ReqAt
  <2>6. RowsFromRequests'
    BY <2>1, <2>3 DEF Inv, RowsFromRequests, Past
  <2>7. EvictionsPending'
    BY <1>1, <2>1, <2>2, SurplusShrinks
       DEF Inv, EvictionsPending, ReqAt, RowsAge
  <2>8. \A r \in Requests : Undelivered(r, req[r]) => req[r].issued \in Token
    BY <1>1, InvFacts DEF Fine, Token, NoToken
  <2>9. IssuedApart'
    BY <2>1, <2>2, <2>8 DEF Inv, IssuedApart
  <2>10. RotatedIsAwaited'
    <3>1. client.refresh # NoToken => client.refresh \in Token
      BY <1>1 DEF TabRecord, Token, NoToken
    <3> QED
      BY <2>1, <2>2, <3>1 DEF Inv, RotatedIsAwaited, ReqAt
  <2>11. PresentsOwnToken'
    <3>1. \A c \in HttpCalls : req[c].pc = "find" => req[c].token \in Token
      <4> SUFFICES ASSUME NEW c \in HttpCalls, req[c].pc = "find"
                   PROVE  req[c].token \in Token
        OBVIOUS
      <4>1. c \in Requests /\ c \notin SignIns \cup Logins
        BY KindsOf DEF Calls, Requests
      <4> QED
        BY <1>1, <4>1, InvFacts DEF Fine, Token, NoToken
    <3> QED
      BY <2>1, <2>2, <3>1 DEF Inv, PresentsOwnToken, ReqAt
  <2> QED
    BY <2>4, <2>5, <2>6, <2>7, <2>9, <2>10, <2>11 DEF Inv
<1> QED
  BY <1>2, <1>3 DEF Time

LEMMA NextInv == ASSUME Inv, [Next]_authVars PROVE Inv'
<1>1. CASE \E r \in Requests : Server(r)
  BY <1>1, ServerInv
<1>2. CASE Tab
  <2>1. ASSUME NEW c \in Calls, CallStep(c) PROVE Inv'
    BY <2>1, SendInv, RefreshesInv, AnswerInv DEF CallStep
  <2> QED
    BY <1>2, <2>1, SendLoginInv, LoginReplyInv, SendLogoutInv, LogoutReplyInv,
       SendInv, ReloadInv DEF Tab
<1>3. CASE Time
  BY <1>3, TimeInv
<1>4. CASE UNCHANGED authVars
  <2>1. /\ UNCHANGED <<rows, req, client, call, refreshing, stale, reloaded, events>>
        /\ TypeOK /\ client \in TabRecord(Len(rows)) /\ call \in CallsOf(Len(rows))
    BY <1>4, InvFacts, TabTyped DEF authVars
  <2> QED
    BY <2>1, TabAlone DEF TypeOK
<1> QED
  BY <1>1, <1>2, <1>3, <1>4 DEF Next

-----------------------------------------------------------------------------
LEMMA SpecInv == Spec => []Inv
BY InitInv, NextInv, PTL DEF Spec

(* Types: there is one row of refresh_tokens at most for every request     *)
(* that can make one, and every token that a request, a call or the store  *)
(* holds is one of them.                                                   *)
THEOREM AuthTypeOK == Spec => []TypeOK
<1>1. Inv => TypeOK
  BY DEF Inv
<1> QED
  BY <1>1, SpecInv, PTL

(* enforceSessionLimit reads the surplus at one step and revokes it at     *)
(* another; however creations interleave, when none is under way the limit *)
(* holds.                                                                  *)
THEOREM AuthLimitAtRest == Spec => []LimitAtRest
<1>1. Inv => LimitAtRest
  <2> SUFFICES ASSUME Inv, \A r \in Requests : ~Creating(r)
               PROVE  Cardinality(Active) <= MaxSessions
    BY DEF LimitAtRest
  <2>1. \A r \in Requests : ~ReqAt(r, "limitFind") /\ ~ReqAt(r, "limitRevoke")
    BY DEF Creating, ReqAt
  <2>2. Surplus = {}
    BY <2>1 DEF Inv, EvictionsPending
  <2> QED
    BY <2>2, NoSurplus DEF Inv
<1> QED
  BY <1>1, SpecInv, PTL

(* The shared refresh promise: the tab's own concurrent calls do not       *)
(* present a token that one of them has exchanged.                         *)
THEOREM AuthPresentsOwnToken == Spec => []PresentsOwnToken
<1>1. Inv => PresentsOwnToken
  BY DEF Inv
<1> QED
  BY <1>1, SpecInv, PTL

(* With no refresh in flight the store has the newest token of its chain.  *)
THEOREM AuthHoldsNewest == Spec => []HoldsNewest
<1>1. Inv => HoldsNewest
  <2> SUFFICES ASSUME Inv, ~RefreshInFlight, client.refresh # NoToken,
                      rows[client.refresh] = "ROTATION"
               PROVE  FALSE
    BY DEF HoldsNewest
  <2>1. PICK c \in Calls : req[c].pc = "ok"
    BY DEF Inv, RotatedIsAwaited, ReqAt
  <2> QED
    BY <2>1 DEF RefreshInFlight
<1> QED
  BY <1>1, SpecInv, PTL

(* A logout-all, a changed password and a detected reuse are final: once   *)
(* every session has ended, refreshing with any token opens none.          *)
THEOREM AuthCutOffHolds == Spec => CutOffHolds
<1>1. ASSUME Inv, [Next]_authVars, CutOff PROVE CutOff'
  <2>1. /\ TypeOK /\ Active = {} /\ events = MaxEvents
        /\ \A r \in SignIns \cup Logins \cup Calls : ~Creating(r)
        /\ \A r \in SignIns : ReqAt(r, "done")
        /\ req \in [Requests -> RequestRecord]
        /\ ~Event
    BY <1>1, InvFacts, AuthAssumption DEF CutOff, TypeOK, Event
  <2>2. UNCHANGED events
    BY <1>1, <2>1 DEF Next, Server, ServerStep, otherLogin, logoutAll,
       revokeSession, Tab, SendLogin, LoginReply, SendLogout, LogoutReply, Send,
       CallStep, Resend, GiveUp, Refreshes, RefreshGranted, RefreshDenied,
       AfterRefresh, Reload, Time, AccessTokenExpires, RefreshTokenExpires,
       authVars
  <2>3. ASSUME NEW r \in Requests, r \notin SignIns, Active' = {},
               req'[r].pc \notin {"create", "limitFind", "limitRevoke"},
               \A q \in Requests : q # r => req'[q] = req[q]
        PROVE  CutOff'
    BY <2>1, <2>2, <2>3 DEF CutOff, Creating, ReqAt, Calls, Requests
  <2>4. ASSUME UNCHANGED <<req, rows>> PROVE CutOff'
    BY <2>1, <2>2, <2>4 DEF CutOff, Creating, ReqAt, Active, Token
  <2>5. \A r \in Requests, p \in RequestPoint : ReqGoto(r, p) =>
          req'[r].pc = p /\ \A q \in Requests : q # r => req'[q] = req[q]
    BY <2>1 DEF ReqGoto, RequestRecord
  <2>6. \A r \in Requests : Finish(r) =>
          req'[r].pc = "done" /\ \A q \in Requests : q # r => req'[q] = req[q]
    BY <2>1, FinishedRecord DEF Finish
  <2>7. RowsAge => Active' = {}
    BY <2>1 DEF RowsAge
  <2>8. ASSUME NEW r \in Requests, Server(r) PROVE CutOff'
    <3>1. r \notin SignIns \/ ~login(r)
      BY <2>1 DEF login, createSession, ReqAt
    <3>2. ASSUME NEW next, createSession(r, next), r \in Creators PROVE FALSE
      BY <2>1, <3>2 DEF createSession, ReqAt, Creating, Creators
    <3>3. ASSUME NEW next \in {"create", "revoke"}, r \in Calls \cup Logouts,
                 validateRefreshSession(r, next)
          PROVE  CutOff'
      <4>1. r \notin SignIns \cup Logins
        BY <3>3, KindsOf DEF Creators
      <4>2. CASE /\ ReqAt(r, "find") /\ ReqGoto(r, Validated(r, next))
                 /\ UNCHANGED rows
        <5>1. req[r].token \in Token /\ rows[req[r].token] # "active"
          BY <1>1, <2>1, <4>1, <4>2, InvFacts
             DEF Fine, ReqAt, Token, NoToken, Active
        <5>2. rows[req[r].token] \in Reason \cup {"expired"}
          BY <2>1, <5>1, RowsType DEF RowState
        <5>3. Validated(r, next) \in {"reuse", "denied"}
          BY <5>2 DEF Validated, Reason
        <5>4. PICK p \in {"reuse", "denied"} : ReqGoto(r, p)
          BY <4>2, <5>3 DEF ReqGoto
        <5>5. Active' = {}
          BY <2>1, <4>2 DEF Active, Token
        <5> QED
          BY <2>3, <2>5, <4>1, <5>4, <5>5 DEF RequestPoint
      <4>3. CASE /\ ReqAt(r, "reuse") /\ RevokeAllRows("REUSE_DETECTED")
                 /\ ReqGoto(r, "denied")
        <5>1. Active' = {}
          BY <2>1, <4>3, RevokesAge DEF Reason
        <5> QED
          BY <2>3, <2>5, <4>1, <4>3, <5>1 DEF RequestPoint
      <4> QED
        BY <3>3, <4>2, <4>3 DEF validateRefreshSession
    <3>4. ASSUME NEW reason \in Reason, r \in Calls \cup Logouts \cup Revokes,
                 ReqAt(r, "revoke"), RevokeById(req[r].token, reason),
                 ReqGoto(r, "ok") \/ Finish(r)
          PROVE  CutOff'
      <4>1. r \notin SignIns
        BY <3>4, KindsOf
      <4>2. Active' = {}
        BY <1>1, <2>7, <3>4, RevokeByIdAges
      <4> QED
        BY <2>3, <2>5, <2>6, <3>4, <4>1, <4>2 DEF RequestPoint
    <3>5. CASE r \in Calls /\ refresh(r)
      BY <3>2, <3>3, <3>4, <3>5 DEF refresh, Reason, Creators
    <3>6. CASE r \in Logouts /\ logout(r)
      BY <3>3, <3>4, <3>6 DEF logout, Reason
    <3>7. CASE r \in Logins /\ otherLogin(r)
      BY <2>1, <3>2, <3>7 DEF otherLogin, Creators
    <3>8. CASE r \in LogoutAlls /\ logoutAll(r)
      BY <2>1, <3>8 DEF logoutAll
    <3>9. CASE r \in Revokes /\ revokeSession(r)
      BY <2>1, <3>4, <3>9 DEF revokeSession, Reason
    <3> QED
      BY <2>8, <3>1, <3>5, <3>6, <3>7, <3>8, <3>9 DEF Server, ServerStep
  <2>9. CASE Tab
    <3>1. ASSUME NEW r \in Calls \cup Logouts, UNCHANGED rows,
                 Finish(r) \/ CallsHandler(r)
          PROVE  CutOff'
      <4>1. r \in Requests /\ r \notin SignIns
        BY KindsOf DEF Requests
      <4>2. /\ req'[r].pc \in {"done", "find"}
            /\ \A q \in Requests : q # r => req'[q] = req[q]
        BY <2>1, <2>6, <3>1, <4>1 DEF CallsHandler, RequestRecord
      <4>3. Active' = {}
        BY <2>1, <3>1 DEF Active, Token
      <4> QED
        BY <2>3, <4>1, <4>2, <4>3
    <3>2. ASSUME NEW r \in SignIns, SendLogin(r) \/ LoginReply(r) PROVE FALSE
      BY <2>1, <3>2 DEF SendLogin, LoginReply, ReqAt
    <3>3. ASSUME NEW r \in Logouts, SendLogout(r) \/ LogoutReply(r) PROVE CutOff'
      BY <2>1, <3>1, <3>3 DEF SendLogout, LogoutReply
    <3>4. ASSUME NEW c \in Calls, Send(c) \/ Resend(c) \/ GiveUp(c) PROVE CutOff'
      BY <2>4, <3>4 DEF Send, Resend, GiveUp
    <3>5. ASSUME NEW c \in Calls, Refreshes(c) PROVE CutOff'
      BY <2>4, <3>1, <3>5 DEF Refreshes
    <3>6. ASSUME NEW c \in Calls, RefreshGranted(c) \/ RefreshDenied(c)
          PROVE  CutOff'
      BY <3>1, <3>6 DEF RefreshGranted, RefreshDenied, AfterRefresh
    <3>7. ~Reload
      BY <2>1 DEF Reload
    <3> QED
      BY <2>9, <3>2, <3>3, <3>4, <3>5, <3>6, <3>7 DEF Tab, CallStep
  <2>10. CASE Time
    <3>1. ASSUME NEW t \in Token, AccessTokenExpires(t) PROVE CutOff'
      BY <2>4, <3>1 DEF AccessTokenExpires
    <3>2. ASSUME NEW t \in Token PROVE ~RefreshTokenExpires(t)
      BY <2>1 DEF RefreshTokenExpires
    <3> QED
      BY <2>10, <3>1, <3>2 DEF Time
  <2>11. CASE UNCHANGED authVars
    BY <2>4, <2>11 DEF authVars
  <2> QED
    BY <1>1, <2>8, <2>9, <2>10, <2>11 DEF Next
<1> QED
  BY <1>1, SpecInv, PTL DEF Spec, CutOffHolds
=============================================================================
